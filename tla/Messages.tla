------------------------------ MODULE Messages ------------------------------
(***************************************************************************)
(* The messages the user sends: how a message lives under a random id      *)
(* until the server has given it its own, through answers, errors, the     *)
(* copies that the server sends of it, and crashes.                        *)
(*                                                                         *)
(* Every change goes through add_log_event (binlog.c): it is applied to    *)
(* memory by replay_log_event and then written, and a restart replays what *)
(* was written.  The functions are do_send_message, msg_send_on_answer and *)
(* msg_send_on_error of queries.c, the records of binlog.c, and the lists  *)
(* of structures.c.                                                        *)
(*                                                                         *)
(* The difference that a start fetches is all that memory does not have,   *)
(* as if the pts in the log never passed a message that is not in it; the  *)
(* module Updates says how far that is so.                                 *)
(*                                                                         *)
(* A query is carried out and answered as Rpc promises, within one run of  *)
(* the client; the server is external.                                     *)
(***************************************************************************)
EXTENDS Naturals, Sequences, SequencesExt

CONSTANTS
  Texts,          \* what the user sends; each has its own random id
  RefusesAgain,   \* the server refuses a random id it has seen, or else
                  \* answers with the id of the message it has
  MaxCrashes      \* bound: times the client crashes

ASSUME MessagesAssumption ==
  /\ IsFiniteSet(Texts) /\ RefusesAgain \in BOOLEAN /\ MaxCrashes \in Nat

(* Message ids: random while a message is not sent, then the server's,     *)
(* which are its positions in the server's history.                        *)
MaxHistory == 2 * Cardinality(Texts)      \* bound: of a type only
Random(t) == [sort |-> "random", of |-> t]
Server(n) == [sort |-> "server", of |-> n]
Ids == {Random(t) : t \in Texts} \cup {Server(n) : n \in 1 .. MaxHistory}
NoId == [sort |-> "none", of |-> 0]

(* The struct messages: one made for a text, one for the server's copy.    *)
Own(t) == [made |-> "here", of |-> t]
Copy(n) == [made |-> "there", of |-> n]
Structs == {Own(t) : t \in Texts} \cup {Copy(n) : n \in 1 .. MaxHistory}

VARIABLES
  m,          \* the messages in memory
  log,        \* the records of the binlog
  phase,      \* "start" and "resend" of a run, then "running"
  run,        \* how often the client has been started
  queries,    \* q->extra of the pending messages.sendMessage queries
  requests,   \* those queries, on their way to the server
  answers,    \* and their answers, on their way back
  history,    \* the server's messages: their random ids and texts
  updates     \* what the server tells this run, besides answers: new
              \* messages, and the ids that messages sent got

vars == <<m, log, phase, run, queries, requests, answers, history, updates>>

(* message_tree, and the ids it is ordered by; message_unsent_tree and the *)
(* flag FLAG_PENDING; the list of messages in use and the lists of peers;  *)
(* freed: memory given back; fault: an assertion of binlog.c or tree.h.    *)
Nothing ==
  [tree |-> {}, id |-> [o \in Structs |-> NoId], unsent |-> {}, pending |-> {},
   used |-> {}, peers |-> {}, freed |-> {}, fault |-> FALSE]

Request == [struct : Structs, random : Ids, text : Texts, run : 0 .. MaxCrashes]
Answer == [struct : Structs, ok : BOOLEAN, id : Ids \cup {NoId}]

TypeOK ==
  /\ \A f \in {"tree", "unsent", "pending", "used", "peers", "freed"} :
       m[f] \subseteq Structs
  /\ m.id \in [Structs -> Ids \cup {NoId}] /\ m.fault \in BOOLEAN
  /\ phase \in {"start", "resend", "running"} /\ run \in 0 .. MaxCrashes
  /\ queries \subseteq Structs /\ requests \subseteq Request
  /\ answers \subseteq Answer
  /\ history \in Seq([random : Ids, text : Texts])
  /\ updates \subseteq [kind : {"new_message", "message_i_d"}, n : DOMAIN history]

Init == /\ m = Nothing /\ log = <<>> /\ phase = "start" /\ run = 0
        /\ queries = {} /\ requests = {} /\ answers = {}
        /\ history = <<>> /\ updates = {}

-----------------------------------------------------------------------------
(* replay_log_event on the messages. *)

message_get(d, id) == {o \in d.tree : d.id[o] = id}

(* CODE_binlog_send_message_text and CODE_binlog_create_message_*.         *)
create_message(d, o, id, sending) ==
  IF message_get(d, id) # {} THEN [d EXCEPT !.fault = TRUE]
  ELSE [d EXCEPT !.id[o] = id, !.tree = @ \cup {o}, !.used = @ \cup {o},
                 !.peers = @ \cup {o},
                 !.unsent = IF sending THEN @ \cup {o} ELSE @,
                 !.pending = IF sending THEN @ \cup {o} ELSE @]

message_remove_unsent(d, o) ==
  [d EXCEPT !.unsent = @ \ {o}, !.pending = @ \ {o},
            !.fault = @ \/ o \notin d.unsent]

set_message_sent(d, id) ==
  IF message_get(d, id) = {} THEN [d EXCEPT !.fault = TRUE]
  ELSE message_remove_unsent(d, CHOOSE o \in message_get(d, id) : TRUE)

(* What both of the others begin with. *)
Detached(d, o) ==
  LET sent == IF o \in d.pending THEN message_remove_unsent(d, o) ELSE d
  IN [sent EXCEPT !.tree = @ \ {o}, !.peers = @ \ {o}]

(* When there is a message with the new id already, this one is freed, but *)
(* not taken out of the list of messages in use.                           *)
set_msg_id(d, id, new) ==
  IF message_get(d, id) = {} THEN [d EXCEPT !.fault = TRUE]
  ELSE LET o == CHOOSE x \in message_get(d, id) : TRUE
           detached == Detached(d, o)
       IN IF message_get(detached, new) # {}
          THEN [detached EXCEPT !.id[o] = new, !.freed = @ \cup {o}]
          ELSE [detached EXCEPT !.id[o] = new, !.tree = @ \cup {o},
                                !.peers = @ \cup {o}]

(* Seeded fault of delete_msg: without message_del_use.                    *)
delete_msg_in_use(d, id) ==
  IF message_get(d, id) = {} THEN [d EXCEPT !.fault = TRUE]
  ELSE LET o == CHOOSE x \in message_get(d, id) : TRUE
       IN [Detached(d, o) EXCEPT !.freed = @ \cup {o}]

delete_msg(d, id) ==
  IF message_get(d, id) = {} THEN [d EXCEPT !.fault = TRUE]
  ELSE LET o == CHOOSE x \in message_get(d, id) : TRUE
       IN [Detached(d, o) EXCEPT !.used = @ \ {o}, !.freed = @ \cup {o}]

replay_log_event(d, r) ==
  CASE r.op = "send_message_text" -> create_message(d, r.struct, r.id, TRUE)
    [] r.op = "create_message" -> create_message(d, r.struct, r.id, FALSE)
    [] r.op = "set_message_sent" -> set_message_sent(d, r.id)
    [] r.op = "set_msg_id" -> set_msg_id(d, r.id, r.new)
    [] r.op = "delete_msg" -> delete_msg(d, r.id)

Replayed(d, records) ==
  LET after[k \in 0 .. Len(records)] ==
        IF k = 0 THEN d ELSE replay_log_event(after[k - 1], records[k])
  IN after[Len(records)]

(* add_log_event: applied first, then written; an assertion stops it.      *)
add_log_events(records) ==
  /\ m' = Replayed(m, records)
  /\ log' = IF m'.fault THEN log ELSE log \o records

-----------------------------------------------------------------------------
(* The client. *)

Created(n) == [op |-> "create_message", struct |-> Copy(n), id |-> Server(n)]

(* The random id, of 64 bits, read into an int: no id of ours any more.    *)
InInt(id) == [sort |-> "int", of |-> id.of]

Renamed(n) ==
  [op |-> "set_msg_id", id |-> InInt(history[n].random), new |-> Server(n)]

(* A message that message_get finds is not created again, and the update   *)
(* of an id that it does not find does nothing.                            *)
fetch_alloc_message(n) ==
  IF message_get(m, Server(n)) = {} THEN <<Created(n)>> ELSE <<>>
fetch_message_id(n) ==
  IF message_get(m, Renamed(n).id) = {} THEN <<>> ELSE <<Renamed(n)>>

Asked(o, id, t) == [struct |-> o, random |-> id, text |-> t, run |-> run]

do_send_message(t) ==
  /\ phase = "running" /\ ~m.fault /\ m.id[Own(t)] = NoId
  /\ add_log_events(<<[op |-> "send_message_text", struct |-> Own(t),
                       id |-> Random(t)]>>)
  /\ queries' = queries \cup {Own(t)}
  /\ requests' = requests \cup {Asked(Own(t), Random(t), t)}
  /\ UNCHANGED <<phase, run, answers, history, updates>>

(* The answer to updates.getDifference, which a start waits for: what the  *)
(* server has and message_get does not find is created, and then come the  *)
(* ids of what was sent.                                                   *)
get_difference_on_answer ==
  /\ phase = "start" /\ ~m.fault /\ phase' = "resend" /\ updates' = {}
  /\ add_log_events(FlattenSeq([n \in DOMAIN history |-> fetch_alloc_message(n)])
                    \o FlattenSeq([n \in DOMAIN history |-> fetch_message_id(n)]))
  /\ UNCHANGED <<run, queries, requests, answers, history>>

(* Seeded fault of send_all_unsent: a fresh random id for each message.    *)
send_all_unsent_fresh ==
  /\ phase = "resend" /\ ~m.fault /\ phase' = "running"
  /\ queries' = queries \cup m.unsent
  /\ requests' = requests \cup
       {Asked(o, Random(CHOOSE t \in Texts : t # o.of), o.of) : o \in m.unsent}
  /\ UNCHANGED <<m, log, run, answers, history, updates>>

(* Seeded fault of send_all_unsent: only the first of them.                *)
send_all_unsent_first ==
  /\ phase = "resend" /\ ~m.fault /\ phase' = "running"
  /\ LET first == IF m.unsent = {} THEN {} ELSE {CHOOSE o \in m.unsent : TRUE}
     IN /\ queries' = queries \cup first
        /\ requests' = requests \cup {Asked(o, m.id[o], o.of) : o \in first}
  /\ UNCHANGED <<m, log, run, answers, history, updates>>

send_all_unsent ==
  /\ phase = "resend" /\ ~m.fault /\ phase' = "running"
  /\ queries' = queries \cup m.unsent
  /\ requests' = requests \cup {Asked(o, m.id[o], o.of) : o \in m.unsent}
  /\ UNCHANGED <<m, log, run, answers, history, updates>>

update_new_message(n) ==
  /\ [kind |-> "new_message", n |-> n] \in updates /\ ~m.fault
  /\ add_log_events(fetch_alloc_message(n))
  /\ updates' = updates \ {[kind |-> "new_message", n |-> n]}
  /\ UNCHANGED <<phase, run, queries, requests, answers, history>>

update_message_i_d(n) ==
  /\ [kind |-> "message_i_d", n |-> n] \in updates /\ ~m.fault
  /\ add_log_events(fetch_message_id(n))
  /\ updates' = updates \ {[kind |-> "message_i_d", n |-> n]}
  /\ UNCHANGED <<phase, run, queries, requests, answers, history>>

(* bl_do_set_msg_id (M, id), then bl_do_set_message_sent (M): the second   *)
(* reads the flags of M again, which set_msg_id may have freed.            *)
msg_send_on_answer(a) ==
  /\ a \in answers /\ a.ok /\ ~m.fault
  /\ LET named == IF m.id[a.struct] = a.id THEN <<>>
                  ELSE <<[op |-> "set_msg_id", id |-> m.id[a.struct], new |-> a.id]>>
         after == Replayed(m, named)
     IN \E flags_pending \in IF a.struct \in after.freed THEN BOOLEAN
                             ELSE {a.struct \in after.pending} :
          add_log_events(IF flags_pending
            THEN named \o <<[op |-> "set_message_sent", id |-> a.id]>> ELSE named)
  /\ answers' = answers \ {a} /\ queries' = queries \ {a.struct}
  /\ UNCHANGED <<phase, run, requests, history, updates>>

(* Seeded fault of msg_send_on_error: the message is left as it is.        *)
msg_send_on_error_keeps(a) ==
  /\ a \in answers /\ ~a.ok /\ ~m.fault
  /\ answers' = answers \ {a} /\ queries' = queries \ {a.struct}
  /\ UNCHANGED <<m, log, phase, run, requests, history, updates>>

msg_send_on_error(a) ==
  /\ a \in answers /\ ~a.ok /\ ~m.fault
  /\ add_log_events(<<[op |-> "delete_msg", id |-> m.id[a.struct]]>>)
  /\ answers' = answers \ {a} /\ queries' = queries \ {a.struct}
  /\ UNCHANGED <<phase, run, requests, history, updates>>

(* The process ends, at an assertion too, and is started again: replay_log *)
(* rebuilds the memory; what is on its way to the server stays so.         *)
Restart ==
  /\ run < MaxCrashes /\ run' = run + 1
  /\ m' = Replayed(Nothing, log) /\ phase' = "start"
  /\ queries' = {} /\ answers' = {} /\ updates' = {}
  /\ UNCHANGED <<log, requests, history>>

-----------------------------------------------------------------------------
(* The server. *)

Position(random) == {n \in DOMAIN history : history[n].random = random}

(* A random id seen before is no new message.  The run that asked gets the *)
(* answer; when it is over, the present one gets the message as an update. *)
Execute(r) ==
  LET n == IF Position(r.random) = {} THEN Len(history) + 1
           ELSE CHOOSE k \in Position(r.random) : TRUE
      new == n > Len(history)
  IN /\ r \in requests /\ requests' = requests \ {r}
     /\ history' = IF new THEN Append(history, [random |-> r.random, text |-> r.text])
                   ELSE history
     /\ answers' = IF r.run = run
                   THEN answers \cup {[struct |-> r.struct, ok |-> new \/ ~RefusesAgain,
                                       id |-> Server(n)]}
                   ELSE answers
     /\ updates' = IF r.run # run /\ new
                   THEN updates \cup [kind : {"new_message", "message_i_d"}, n : {n}]
                   ELSE updates
     /\ UNCHANGED <<m, log, phase, run, queries>>

(* It may refuse a message.                                                *)
Refuse(r) ==
  /\ r \in requests /\ r.run = run /\ requests' = requests \ {r}
  /\ answers' = answers \cup {[struct |-> r.struct, ok |-> FALSE, id |-> NoId]}
  /\ UNCHANGED <<m, log, phase, run, queries, history, updates>>

Progress ==
  \/ get_difference_on_answer \/ send_all_unsent
  \/ \E n \in DOMAIN history : update_new_message(n) \/ update_message_i_d(n)
  \/ \E a \in answers : msg_send_on_answer(a) \/ msg_send_on_error(a)
  \/ \E r \in requests : r.run = run /\ Execute(r)

Next == \/ Progress
        \/ \E t \in Texts : do_send_message(t)
        \/ \E r \in requests : Execute(r) \/ Refuse(r)
        \/ Restart

Spec == Init /\ [][Next]_vars /\ WF_vars(Progress)

-----------------------------------------------------------------------------
(* Properties. *)

(* No assertion of replay_log_event or of the trees fails, neither when an *)
(* event is applied nor when the log is replayed.                          *)
NoFault == ~m.fault

(* Once the program runs, the messages of message_unsent_tree are those    *)
(* that are marked pending, that carry a random id, and that a query asks  *)
(* about: none waits that nobody will answer for, and none that the server *)
(* has numbered will be sent again.                                        *)
UnsentAreAsked ==
  /\ m.unsent = m.pending
  /\ m.unsent = {o \in m.tree : m.id[o].sort = "random"}
  /\ phase = "running" => m.unsent = queries
  /\ \A o \in queries : \/ \E r \in requests : r.struct = o /\ r.run = run
                        \/ \E a \in answers : a.struct = o

(* No list, tree or query leads to a message that has been freed.          *)
ListsAlive ==
  (m.tree \cup m.unsent \cup m.used \cup m.peers \cup queries) \cap m.freed = {}

(* Whatever is sent again after a crash, the server has each text once.    *)
SentOnce ==
  \A i, j \in DOMAIN history : history[i].text = history[j].text => i = j

(* Once the start is over, a message of the server is in memory, or still  *)
(* comes: as an update, or as the answer that gives a message its id.      *)
NoneMissed ==
  phase # "start" /\ ~m.fault =>
    \A n \in DOMAIN history :
      \/ message_get(m, Server(n)) # {}
      \/ [kind |-> "new_message", n |-> n] \in updates
      \/ \E a \in answers : a.ok /\ a.id = Server(n)

(* TreesSound: the trees and lists stay as message_insert, message_remove  *)
(* and the records of the log rely on, through crash and replay.           *)
TreesSound == TypeOK /\ NoFault /\ ListsAlive

(* NoneAstray: no message waits that nobody will answer for, and none of   *)
(* the server's is missed.                                                 *)
NoneAstray == UnsentAreAsked /\ NoneMissed

(* In the end, whatever crashes, memory has what the server has: no copy   *)
(* under a random id is left beside it.                                    *)
Settles == <>[]({m.id[o] : o \in m.tree} = {Server(n) : n \in DOMAIN history})

=============================================================================
