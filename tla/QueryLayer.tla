----------------------------- MODULE QueryLayer -----------------------------
(***************************************************************************)
(* The query layer of the client (queries.c: send_query, alarm_query,      *)
(* query_restart, query_ack, query_error, query_result and the timer tree) *)
(* on one authorized session, with the session's acknowledgements and      *)
(* outgoing buffer (net.c, mtproto-client.c) and the server it talks to.   *)
(*                                                                         *)
(* The client is single threaded: every handler below runs to completion   *)
(* out of net_loop, so a handler is one action.  Time is abstracted: a     *)
(* registered timer may fire at any moment.                                *)
(*                                                                         *)
(* Message ids.  generate_next_msg_id never repeats an id, and only the    *)
(* ids of queries are ever looked up; so queries are numbered 1, 2, ... in *)
(* the order of their ids and every other client message (containers, acks)*)
(* has the id Other, which no query has.                                   *)
(*                                                                         *)
(* The server, and the network below the TCP stream, are external: they    *)
(* are modelled by what the client relies on.  A stream is lossless and    *)
(* ordered until the connection is lost, when everything in flight is      *)
(* lost with it.                                                           *)
(***************************************************************************)
EXTENDS Integers, Sequences, FiniteSets

CONSTANTS
  MaxQueries,   \* bound: queries the callers issue
  OutLimit,     \* the 100000 bytes of alarm_query, counted in messages
  OutCap,       \* bound: no redelivery while the client has more to send
  NetCap,       \* bound: messages the kernel and the network hold each way
  MaxLosses,    \* bound: times the network breaks the connection
  MaxSalt,      \* bound: times the server changes its salt
  NumFloor      \* bound: queries_num stops counting down at -NumFloor

ASSUME MaxQueriesAssumption == MaxQueries \in Nat
ASSUME OutLimitAssumption == OutLimit \in Nat \ {0}
ASSUME BoundsAssumption ==
  OutCap \in Nat /\ NetCap \in Nat /\ MaxLosses \in Nat /\ MaxSalt \in Nat /\ NumFloor \in Nat

Ids == 1 .. MaxQueries
Salts == 0 .. MaxSalt
Other == 0          \* the id of a client message that is not a query,
                    \* and of a server message that is not an answer
AckEvent == 0       \* the session's timer; the others are the queries' own

VARIABLES
  (* The client. *)
  queries_tree,     \* ids of the pending queries
  ack_received,     \* those with QUERY_ACK_RECEIVED
  timer_tree,       \* registered event timers
  queries_num,      \* the counter of pending queries
  last_query,       \* number of queries sent so far
  server_salt,      \* DC->server_salt
  ack_tree,         \* server messages to be acknowledged
  conn,             \* "up", or "failed" with the fail timer running
  out,              \* the connection's outgoing buffer
  calls,            \* history: how often on_answer or on_error has run, by id
  aborted,          \* history: an assertion of tree.h has failed
  (* The network and the server. *)
  toServer, toClient,
  stream,           \* the server's view of the connection: "fresh", "open"
                    \* or "garbage" (it did not start with the 0xef byte)
  salt,             \* the salt the server accepts
  received,         \* queries the server has accepted
  answered,         \* queries it has carried out, with an answer computed
  unacked,          \* answers the client has not acknowledged
  losses

client == <<queries_tree, ack_received, timer_tree, queries_num, last_query,
            server_salt, ack_tree, calls, aborted>>
link == <<conn, out, toServer, toClient, stream, losses>>
server == <<salt, received, answered, unacked>>
vars == <<client, link, server>>

Marker == [kind |-> "marker"]         \* the byte 0xef that opens a stream

ClientMessage ==
  {Marker}
  \cup [kind : {"query", "container"}, id : Ids, salt : Salts]
  \cup [kind : {"acks"}, ids : SUBSET (Ids \cup {Other}), salt : Salts]

ServerMessage ==
  [kind : {"msgs_ack", "rpc_result"}, id : Ids, salt : Salts]
  \cup [kind : {"bad_server_salt"}, id : Ids \cup {Other}, salt : Salts,
        new_salt : Salts]

TypeOK ==
  /\ queries_tree \subseteq Ids
  /\ ack_received \subseteq queries_tree
  /\ timer_tree \subseteq Ids \cup {AckEvent}
  /\ queries_num \in Int
  /\ last_query \in 0 .. MaxQueries
  /\ server_salt \in Salts
  /\ ack_tree \subseteq Ids \cup {Other}
  /\ conn \in {"up", "failed"}
  /\ out \in Seq(ClientMessage)
  /\ calls \in [Ids -> Nat]
  /\ aborted \in BOOLEAN
  /\ toServer \in Seq(ClientMessage)
  /\ toClient \in Seq(ServerMessage)
  /\ stream \in {"fresh", "open", "garbage"}
  /\ salt \in Salts
  /\ received \subseteq Ids
  /\ answered \subseteq Ids
  /\ unacked \subseteq Ids
  /\ losses \in 0 .. MaxLosses

(* A session created by dc_create_session on a DC that has its key: the    *)
(* stream is open, its first byte written, and the salt the client read    *)
(* from its file may be an old one.                                        *)
Init ==
  /\ queries_tree = {} /\ ack_received = {} /\ timer_tree = {}
  /\ queries_num = 0 /\ last_query = 0
  /\ server_salt = 0 /\ salt \in Salts
  /\ ack_tree = {} /\ conn = "up" /\ out = <<Marker>>
  /\ calls = [q \in Ids |-> 0] /\ aborted = FALSE
  /\ toServer = <<>> /\ toClient = <<>> /\ stream = "fresh"
  /\ received = {} /\ answered = {} /\ unacked = {}
  /\ losses = 0

-----------------------------------------------------------------------------
(* Helpers of the client. *)

(* encrypt_send_message and write_out, in whatever state the connection is *)
encrypt_send_message(m) == out' = Append(out, m)

Query(q) == [kind |-> "query", id |-> q, salt |-> server_salt]
Container(q, s) == [kind |-> "container", id |-> q, salt |-> s]

(* What tree_insert and tree_delete do to a timer tree t; they assert that *)
(* the event is absent, respectively present.                              *)
insert_event_timer(t, ev) == /\ timer_tree' = t \cup {ev}
                             /\ aborted' = (ev \in t)
remove_event_timer(t, ev) == /\ timer_tree' = t \ {ev}
                             /\ aborted' = (ev \notin t)
leave_timers(t) == timer_tree' = t /\ UNCHANGED aborted

-----------------------------------------------------------------------------
(* The callers. *)

send_query ==
  LET q == last_query + 1 IN
  /\ ~aborted
  /\ last_query < MaxQueries
  /\ last_query' = q
  /\ encrypt_send_message(Query(q))
  /\ queries_tree' = queries_tree \cup {q}
  /\ insert_event_timer(timer_tree, q)
  /\ queries_num' = queries_num + 1
  /\ UNCHANGED <<ack_received, server_salt, ack_tree, calls, conn, toServer,
                 toClient, stream, losses, server>>

-----------------------------------------------------------------------------
(* Timers, popped by work_timers. *)

(* Seeded fault of alarm_query: the timer is not put back. *)
alarm_query_once(q) ==
  /\ ~aborted
  /\ q \in queries_tree \cap timer_tree
  /\ IF Len(out) < OutLimit
     THEN encrypt_send_message(Container(q, server_salt))
     ELSE UNCHANGED out
  /\ timer_tree' = timer_tree \ {q}
  /\ UNCHANGED <<queries_tree, ack_received, queries_num, last_query,
                 server_salt, ack_tree, calls, aborted, conn, toServer,
                 toClient, stream, losses, server>>

(* work_timers has taken the event out; alarm_query puts it back and, if   *)
(* the buffer has room, sends the query again inside a container.          *)
alarm_query(q) ==
  /\ ~aborted
  /\ q \in queries_tree \cap timer_tree
  /\ IF Len(out) < OutLimit
     THEN encrypt_send_message(Container(q, server_salt))
     ELSE UNCHANGED out
  /\ UNCHANGED <<client, conn, toServer, toClient, stream, losses, server>>

send_all_acks ==
  /\ ~aborted
  /\ AckEvent \in timer_tree
  /\ timer_tree' = timer_tree \ {AckEvent}
  /\ encrypt_send_message([kind |-> "acks", ids |-> ack_tree,
                           salt |-> server_salt])
  /\ ack_tree' = {}
  /\ UNCHANGED <<queries_tree, ack_received, queries_num, last_query,
                 server_salt, calls, aborted, conn, toServer, toClient,
                 stream, losses, server>>

-----------------------------------------------------------------------------
(* Messages of the server: process_rpc_message, then rpc_execute_answer.   *)
(* Every server message id is odd, so every message is to be acknowledged; *)
(* the first one registers the session's timer.                            *)

insert_msg_id(id) == ack_tree' = ack_tree \cup {id}
TimersAfterInsert ==
  IF ack_tree = {} THEN timer_tree \cup {AckEvent} ELSE timer_tree

query_ack_keeps_timer(id, t) ==
  /\ IF id \in queries_tree
     THEN ack_received' = ack_received \cup {id}
     ELSE UNCHANGED ack_received
  /\ leave_timers(t)
  /\ UNCHANGED <<queries_tree, queries_num, calls, out>>

query_ack(id, t) ==
  /\ IF id \in queries_tree \ ack_received
     THEN /\ ack_received' = ack_received \cup {id}
          /\ remove_event_timer(t, id)
     ELSE leave_timers(t) /\ UNCHANGED ack_received
  /\ UNCHANGED <<queries_tree, queries_num, calls, out>>

(* Seeded fault: the callback runs, but the query stays in queries_tree.   *)
query_result_no_delete(id, t) ==
  /\ calls' = [calls EXCEPT ![id] = @ + 1]
  /\ leave_timers(t)
  /\ UNCHANGED <<queries_tree, ack_received, queries_num, out>>

(* query_result and query_error forget the query, run its callback and     *)
(* count down, the latter whether or not the query was known.  They do the *)
(* same to this state, and an rpc_result stands for both.                  *)
query_result(id, t) ==
  /\ IF id \in queries_tree
     THEN /\ queries_tree' = queries_tree \ {id}
          /\ ack_received' = ack_received \ {id}
          /\ calls' = [calls EXCEPT ![id] = @ + 1]
          /\ IF id \in ack_received THEN leave_timers(t)
                                     ELSE remove_event_timer(t, id)
     ELSE leave_timers(t) /\ UNCHANGED <<queries_tree, ack_received, calls>>
  /\ queries_num' = IF queries_num > -NumFloor THEN queries_num - 1
                                               ELSE queries_num
  /\ UNCHANGED out

(* Seeded fault: bad_server_salt taken for an acknowledgement, as the      *)
(* server has after all seen the message.                                  *)
query_restart_acks(id, t, s) == query_ack(id, t)

(* work_bad_server_salt: query_restart runs before the new salt is stored, *)
(* so the retransmission carries the salt of the envelope.                 *)
query_restart(id, t, s) ==
  /\ IF id \in queries_tree
     THEN /\ timer_tree' = t \cup {id}
          /\ aborted' = (id \notin t)
          /\ IF Len(out) < OutLimit
             THEN encrypt_send_message(Container(id, s)) ELSE UNCHANGED out
     ELSE leave_timers(t) /\ UNCHANGED out
  /\ UNCHANGED <<queries_tree, ack_received, queries_num, calls>>

work_msgs_ack(m, t) ==
  /\ m.kind = "msgs_ack"
  /\ insert_msg_id(Other)
  /\ query_ack(m.id, t)
  /\ server_salt' = m.salt

work_rpc_result(m, t) ==
  /\ m.kind = "rpc_result"
  /\ insert_msg_id(m.id)
  /\ query_result(m.id, t)
  /\ server_salt' = m.salt

work_bad_server_salt(m, t) ==
  /\ m.kind = "bad_server_salt"
  /\ insert_msg_id(Other)
  /\ query_restart(m.id, t, m.salt)
  /\ server_salt' = m.new_salt

process_rpc_message ==
  /\ ~aborted
  /\ conn = "up" /\ toClient # <<>>
  /\ LET m == Head(toClient)
         t == TimersAfterInsert
     IN work_msgs_ack(m, t) \/ work_rpc_result(m, t) \/ work_bad_server_salt(m, t)
  /\ toClient' = Tail(toClient)
  /\ UNCHANGED <<last_query, conn, toServer, stream, losses, server>>

-----------------------------------------------------------------------------
(* The connection, as far as the query layer can tell. *)

(* try_write: the kernel takes as much as it has room for. *)
try_write ==
  /\ ~aborted
  /\ conn = "up"
  /\ \E n \in 1 .. Len(out) :
       /\ Len(toServer) + n <= NetCap
       /\ toServer' = toServer \o SubSeq(out, 1, n)
       /\ out' = SubSeq(out, n + 1, Len(out))
  /\ UNCHANGED <<client, conn, toClient, stream, losses, server>>

(* fail_connection drops both buffers; restart_connection either connects  *)
(* again at once and writes the 0xef byte, or leaves the connection failed *)
(* until the fail timer.                                                   *)
fail_connection(reconnects) ==
  /\ ~aborted
  /\ conn = "up"
  /\ IF reconnects THEN conn' = "up" /\ out' = <<Marker>>
                   ELSE conn' = "failed" /\ out' = <<>>
  /\ toServer' = <<>> /\ toClient' = <<>> /\ stream' = "fresh"
  /\ UNCHANGED <<client, server>>

(* The fail timer: whatever was written meanwhile stands before the byte.  *)
fail_alarm ==
  /\ ~aborted
  /\ conn = "failed"
  /\ conn' = "up"
  /\ out' = Append(out, Marker)
  /\ UNCHANGED <<client, toServer, toClient, stream, losses, server>>

NetworkBreaks(reconnects) ==
  /\ losses < MaxLosses /\ losses' = losses + 1
  /\ fail_connection(reconnects)

(* A server closes a stream that does not start with the 0xef byte. *)
ServerCloses(reconnects) ==
  /\ stream = "garbage" /\ UNCHANGED losses
  /\ fail_connection(reconnects)

-----------------------------------------------------------------------------
(* The server. *)

(* The reply to a message with an old salt, in an envelope with the old or *)
(* the new salt.                                                           *)
BadSalt(id, envelope) == [kind |-> "bad_server_salt", id |-> id,
                          salt |-> envelope, new_salt |-> salt]

(* A query is accepted once; the server may or may not acknowledge it.     *)
ServerAccepts(q) ==
  /\ received' = received \cup {q}
  /\ \/ toClient' = Append(toClient, [kind |-> "msgs_ack", id |-> q,
                                      salt |-> salt])
     \/ UNCHANGED toClient
  /\ UNCHANGED unacked

ServerReads(m) ==
  CASE m.kind = "marker" -> UNCHANGED <<toClient, received, unacked>>
    [] m.kind # "marker" /\ m.salt # salt ->
         /\ \E envelope \in {m.salt, salt} :
              toClient' = Append(toClient,
                BadSalt(IF m.kind = "query" THEN m.id ELSE Other, envelope))
         /\ UNCHANGED <<received, unacked>>
    [] m.kind \in {"query", "container"} /\ m.salt = salt ->
         ServerAccepts(m.id)
    [] m.kind = "acks" /\ m.salt = salt ->
         /\ unacked' = unacked \ m.ids
         /\ UNCHANGED <<toClient, received>>

ServerReceive ==
  /\ toServer # <<>> /\ Len(toClient) < NetCap
  /\ toServer' = Tail(toServer)
  /\ stream' = IF stream # "fresh" THEN stream
               ELSE IF Head(toServer) = Marker THEN "open" ELSE "garbage"
  /\ IF stream' = "open" THEN ServerReads(Head(toServer))
     ELSE UNCHANGED <<toClient, received, unacked>>
  /\ UNCHANGED <<client, conn, out, losses, salt, answered>>

ServerExecutes(q) ==
  /\ q \in received \ answered
  /\ answered' = answered \cup {q}
  /\ unacked' = unacked \cup {q}
  /\ UNCHANGED <<client, link, salt, received>>

(* An answer is sent, and sent again, until the client acknowledges it. *)
ServerDelivers(q) ==
  LET answer == [kind |-> "rpc_result", id |-> q, salt |-> salt] IN
  /\ q \in unacked /\ stream = "open" /\ Len(out) <= OutCap
  /\ \A i \in 1 .. Len(toClient) : toClient[i].kind = "rpc_result"
                                     => toClient[i].id # q
  /\ toClient' = Append(toClient, answer)
  /\ UNCHANGED <<client, conn, out, toServer, stream, losses, server>>

ServerChangesSalt ==
  /\ salt < MaxSalt
  /\ salt' = salt + 1
  /\ UNCHANGED <<client, link, received, answered, unacked>>

-----------------------------------------------------------------------------
Next ==
  \/ send_query
  \/ \E q \in Ids : alarm_query(q)
  \/ send_all_acks
  \/ process_rpc_message
  \/ try_write
  \/ fail_alarm
  \/ \E r \in BOOLEAN : NetworkBreaks(r) \/ ServerCloses(r)
  \/ ServerReceive
  \/ \E q \in Ids : ServerExecutes(q) \/ ServerDelivers(q)
  \/ ServerChangesSalt

SafetySpec == Init /\ [][Next]_vars

(* net_loop polls for ever, so buffers move and timers fire.  A query's    *)
(* timer fires every six seconds, so it does not find the buffer full for  *)
(* ever; and a server does not close every broken stream within the very   *)
(* second it was opened in, which is when the client waits and writes      *)
(* before the 0xef byte again.                                             *)
Fairness ==
  /\ WF_vars(send_all_acks) /\ WF_vars(process_rpc_message)
  /\ WF_vars(try_write) /\ WF_vars(fail_alarm)
  /\ WF_vars(ServerReceive) /\ WF_vars(ServerCloses(FALSE) \/ ServerCloses(TRUE))
  /\ SF_vars(ServerCloses(TRUE))
  /\ \A q \in Ids : /\ SF_vars(alarm_query(q) /\ Len(out) < OutLimit)
                    /\ WF_vars(ServerExecutes(q))
                    /\ WF_vars(ServerDelivers(q))

Spec == SafetySpec /\ Fairness

-----------------------------------------------------------------------------
(* Properties. *)

(* Every timer operation finds what it expects: tree_delete never misses   *)
(* its event and tree_insert never meets it (the assertions of tree.h), in *)
(* particular when bad_server_salt restarts a query.                       *)
NoAbort == ~aborted

(* A query's timer is registered exactly while the query is pending and    *)
(* not acknowledged, so that an unacknowledged query is retransmitted, an  *)
(* acknowledged one is not, and no timer outlives the query it points to;  *)
(* the session's timer is registered exactly while acks are owed.          *)
TimersMatch ==
  timer_tree = (queries_tree \ ack_received)
               \cup (IF ack_tree = {} THEN {} ELSE {AckEvent})

(* The client gives up retransmitting a query only once the server has it. *)
AckedAreReceived == ack_received \subseteq received

(* The server forgets an answer only once the client has used it, although *)
(* acks are sent a second after the answer and may be lost.                *)
ForgottenAreUsed ==
  \A q \in answered \ unacked : calls[q] = 1

(* The counter behind "All done" may run below the number of pending       *)
(* queries, for an answer delivered twice counts twice, but never above:   *)
(* it cannot keep the client from finishing.                               *)
QueriesNumNotAbove == queries_num <= Cardinality(queries_tree)

(* TimersAndCounts: whatever the order of salts, acks, answers and losses, *)
(* no assertion of tree.h fails, each pending query that is not            *)
(* acknowledged has its timer, and the count of "All done" can be met.     *)
TimersAndCounts == TypeOK /\ NoAbort /\ TimersMatch /\ QueriesNumNotAbove

(* ServerAgrees: neither side gives up what the other still needs: no      *)
(* retransmission of a query not received, no answer that was not used.    *)
ServerAgrees == AckedAreReceived /\ ForgottenAreUsed

(* Every query sent is answered in the end, and every answer is in the end *)
(* acknowledged, whatever is lost with at most MaxLosses connections.      *)
EventuallyQuiet ==
  \A q \in Ids : q \in queries_tree ~> (calls[q] = 1 /\ q \notin unacked)

(* What the caller of query q can tell of it. *)
Status(q) == IF q > last_query THEN "new"
             ELSE IF calls[q] = 0 THEN "pending"
             ELSE IF calls[q] = 1 THEN "answered"
             ELSE "answered twice"
StatusMap == [q \in Ids |-> Status(q)]

Promise == INSTANCE Rpc WITH
  Queries <- Ids, status <- StatusMap, carriedOut <- answered

(* The query layer implements the safety part of Rpc: a query is answered  *)
(* at most once (query_result and query_error forget it) and only after    *)
(* the server has carried it out, however often alarm_query sent it again. *)
RpcSafety == Promise!SafetySpec

(* It implements all of Rpc: the query is carried out and answered in the  *)
(* end, across losses of the connection, changes of salt and the six       *)
(* second retransmission.                                                  *)
ImplementsRpc == Promise!Spec

=============================================================================
