----------------------------- MODULE SecretChat -----------------------------
(***************************************************************************)
(* Secret chats: how one is requested and accepted, from the queries for   *)
(* the Diffie-Hellman parameters to the state sc_ok, and what of it is on  *)
(* disk.  queries.c ("Encr accept"), fetch_encrypted_chat of structures.c, *)
(* updateEncryption in mtproto-client.c, the records of binlog.c, and the  *)
(* secret chat file of loop.c, which is there when the log is not.         *)
(*                                                                         *)
(* Updates come in the server's order, and a start gets again what the     *)
(* client has not handled; an answer may come before or after an update.   *)
(* The server and the other party are external.                            *)
(*                                                                         *)
(* A key is the number of its attempt and a shape: BN_bn2bin writes a short*)
(* one to the front of the 256 bytes, where other clients have zeros.      *)
(***************************************************************************)
EXTENDS Integers, Sequences, FiniteSets, SequencesExt

CONSTANTS
  Made,        \* chats that the user makes
  Asked,       \* chats that others ask for
  MaxKeys,     \* bound: attempts to make a key
  Short,       \* the attempts whose number has a leading zero byte
  MaxFaults    \* bound: crashes, updates sent again, refusals and discards

ASSUME SecretChatAssumption ==
  /\ IsFiniteSet(Made \cup Asked) /\ Made \cap Asked = {}
  /\ {MaxKeys, MaxFaults} \subseteq Nat /\ Short \subseteq 1 .. MaxKeys

Chats == Made \cup Asked
Keys == [id : 1 .. MaxKeys, shape : {"full", "short"}]
NoKey == [id |-> 0, shape |-> "full"]

VARIABLES
  binlog_enabled,
  mem,        \* the chats, and encr_prime
  log,        \* what replaying the log gives
  file,       \* the secret chat file
  file_was,   \* the file before the last step wrote it
  q,          \* the pending queries and their answers
  updates,    \* updateEncryption, on its way
  srv,        \* the server's state of each chat
  agreed,     \* and the key the other party has made for it
  keys,       \* attempts so far
  stuck,      \* a start has failed an assertion on the file
  faults,
  (* For the properties only. *)
  aborts,     \* chats and assertions, or null pointers, that ended a process
  hindered,   \* chats that were not ok yet when a process ended or a query
              \* of theirs was refused
  overtaken,  \* chats an update of which came before the answer it needs
  torn        \* a process ended while it wrote the file

vars == <<binlog_enabled, mem, log, file, file_was, q, updates, srv, agreed,
          keys, stuck, faults, aborts, hindered, overtaken, torn>>
network == <<updates, srv, agreed>>
seen == <<aborts, hindered, overtaken, torn>>

States == {"unknown", "none", "waiting", "request", "ok", "deleted"}
Memory == [state : [Chats -> States],      \* "unknown": not FLAG_CREATED
           key : [Chats -> Keys \cup {NoKey}],
           g_key : SUBSET Chats, encr_prime : BOOLEAN]
Nothing == [state |-> [c \in Chats |-> "unknown"], key |-> [c \in Chats |-> NoKey],
            g_key |-> {}, encr_prime |-> FALSE]

Queries == [chat : Chats, kind : {"dh_create", "dh_accept", "request", "accept"},
            key : Keys, st : {"out", "back"}]
Updates == [chat : Chats, kind : {"requested", "chat", "discarded"}, key : Keys \cup {NoKey}]
Reasons == {"g_key", "encr_prime", "waiting"}

TypeOK ==
  /\ binlog_enabled \in BOOLEAN /\ {mem, log} \subseteq Memory
  /\ q \subseteq Queries /\ Range(updates) \subseteq Updates
  /\ srv \in [Chats -> {"none", "waiting", "ok", "discarded"}]
  /\ agreed \in [Chats -> Keys \cup {NoKey}] /\ keys \in 0 .. MaxKeys
  /\ stuck \in BOOLEAN /\ faults \in 0 .. MaxFaults
  /\ aborts \subseteq Chats \X Reasons
  /\ {hindered, overtaken} \subseteq SUBSET Chats /\ torn \in BOOLEAN

Init ==
  /\ binlog_enabled \in BOOLEAN /\ mem = Nothing /\ log = Nothing
  /\ file = <<>> /\ file_was = <<>> /\ q = {} /\ updates = <<>>
  /\ srv = [c \in Chats |-> "none"] /\ agreed = [c \in Chats |-> NoKey]
  /\ keys = 0 /\ stuck = FALSE /\ faults = 0
  /\ aborts = {} /\ hindered = {} /\ overtaken = {} /\ torn = FALSE

Fault == faults < MaxFaults /\ faults' = faults + 1

-----------------------------------------------------------------------------
(* The secret chat file, in the pieces whose lengths differ: a count, the  *)
(* chats, and encr_prime.  The chats are taken in a fixed order.           *)

Order == SetToSeq(Chats)

Live(m, c) == m.state[c] \notin {"unknown", "none", "deleted"}
ChatCells(m, c) ==
  IF ~Live(m, c) THEN <<>>
  ELSE <<[type |-> "chat", chat |-> c, state |-> m.state[c]]>>
       \o (IF m.state[c] = "waiting" THEN <<>> ELSE <<[type |-> "g_key"]>>)
       \o <<[type |-> "key", key |-> m.key[c]]>>

Cells(m) ==
  <<[type |-> "count", cc |-> Cardinality({c \in Chats : Live(m, c)})]>>
    \o FlattenSeq([i \in 1 .. Len(Order) |-> ChatCells(m, Order[i])])
    \o <<[type |-> "encr_prime", is |-> m.encr_prime]>>

(* Written in place and never cut.  What was behind the first n pieces is  *)
(* at another place than it was if these have other lengths.               *)
Overlay(old, new, n) ==
  SubSeq(new, 1, n) \o
    [i \in 1 .. Len(old) - n |->
       IF \A j \in 1 .. n : new[j].type = old[j].type THEN old[n + i]
       ELSE [type |-> "garbage"]]

(* Reads one more chat, from piece r.at on, into r.m; r.at becomes 0 when  *)
(* an assertion fails, and for what the program makes of garbage.          *)
ReadChat(f, r) ==
  LET i == r.at
      k == IF f[i].state = "waiting" THEN 0 ELSE 1
  IN IF /\ i \in DOMAIN f /\ f[i].type = "chat" /\ i + k + 1 \in DOMAIN f
        /\ k = 1 => f[i + 1].type = "g_key"
        /\ f[i + k + 1].type = "key"
     THEN [at |-> i + k + 2,
           m |-> [r.m EXCEPT !.state[f[i].chat] = f[i].state,
                             !.key[f[i].chat] = f[i + k + 1].key,
                             !.g_key = IF k = 1 THEN @ \cup {f[i].chat} ELSE @]]
     ELSE [r EXCEPT !.at = 0]

ReadChats(f) ==
  LET read[n \in 0 .. f[1].cc] ==
        IF n = 0 THEN [at |-> 2, m |-> Nothing] ELSE ReadChat(f, read[n - 1])
  IN read[f[1].cc]

Unreadable == [state |-> "unreadable"]

read_secret_chat_file(f) ==
  IF f = <<>> THEN Nothing
  ELSE LET r == ReadChats(f)
       IN IF r.at \in DOMAIN f /\ f[r.at].type = "encr_prime"
          THEN [r.m EXCEPT !.encr_prime = f[r.at].is] ELSE Unreadable

(* What a start finds.                                                     *)
Restored(l, f) == IF binlog_enabled THEN l ELSE read_secret_chat_file(f)

Start(l, f) ==
  LET m == Restored(l, f)
  IN /\ mem' = IF m = Unreadable THEN Nothing ELSE m
     /\ stuck' = (m = Unreadable) /\ file' = f /\ file_was' = f
     /\ q' = {} /\ log' = l
     /\ hindered' = hindered \cup {c \in Chats : mem.state[c] # "ok"}

(* add_log_event applies a record and writes it; write: this is followed   *)
(* by write_secret_chat_file.                                              *)
Stored(m, write) ==
  /\ mem' = m /\ file_was' = file
  /\ log' = IF binlog_enabled THEN m ELSE log
  /\ file' = IF write /\ ~binlog_enabled
             THEN Overlay(file, Cells(m), Len(Cells(m))) ELSE file

-----------------------------------------------------------------------------
(* fetch_encrypted_chat, by what comes and what is known of the chat: the  *)
(* memory that results.                                                    *)

bl_do_encr_chat_delete(m, c) ==
  IF m.state[c] \in {"unknown", "none", "deleted"} THEN m
  ELSE [m EXCEPT !.state[c] = "deleted", !.key[c] = NoKey, !.g_key = @ \ {c}]

bl_do_encr_chat_requested(m, c) ==
  [m EXCEPT !.state[c] = "request", !.g_key = @ \cup {c}]

(* The fingerprint of the key is compared with the other party's.          *)
do_create_keys_end(m, c) ==
  IF m.key[c].shape = "full" THEN m ELSE [m EXCEPT !.state[c] = "deleted"]

(* Seeded fault: only a chat that the user has made.                       *)
accepted_if_waiting(m, c) ==
  IF m.state[c] # "waiting" THEN m
  ELSE [do_create_keys_end(m, c) EXCEPT !.state[c] = "ok", !.g_key = @ \cup {c}]

(* Whatever do_create_keys_end finds, the record ends with sc_ok.          *)
bl_do_encr_chat_accepted(m, c) ==
  CASE m.state[c] = "waiting" ->
         [do_create_keys_end(m, c) EXCEPT !.state[c] = "ok", !.g_key = @ \cup {c}]
    [] m.state[c] = "request" -> [m EXCEPT !.state[c] = "ok", !.g_key = @ \cup {c}]
    [] OTHER -> m

(* Seeded fault: a request is taken for a new one when it comes again.     *)
fetch_duplicate(m, c, kind) ==
  IF kind = "requested" THEN bl_do_encr_chat_requested(m, c)
  ELSE IF m.state[c] = "unknown" THEN m
  ELSE CASE kind = "discarded" -> bl_do_encr_chat_delete(m, c)
         [] kind = "waiting" -> [m EXCEPT !.state[c] = "waiting"]
         [] kind = "chat" -> bl_do_encr_chat_accepted(m, c)

fetch_encrypted_chat(m, c, kind) ==
  IF m.state[c] = "unknown"
  THEN IF kind = "requested" THEN bl_do_encr_chat_requested(m, c) ELSE m
  ELSE CASE kind = "discarded" -> bl_do_encr_chat_delete(m, c)
         [] kind = "waiting" -> [m EXCEPT !.state[c] = "waiting"]
         [] kind = "chat" -> bl_do_encr_chat_accepted(m, c)
         [] kind = "requested" -> m

(* Seeded fault: not after a chat was accepted.                            *)
writes_not_ok(m, c, kind) ==
  IF m.state[c] = "unknown" THEN kind = "requested" ELSE kind \in {"waiting", "discarded"}
(* The branches that end in write_secret_chat_file.                        *)
writes(m, c, kind) ==
  IF m.state[c] = "unknown" THEN kind = "requested" ELSE kind # "requested"

fetch_alloc_encrypted_chat(c, kind) ==
  Stored(fetch_encrypted_chat(mem, c, kind), writes(mem, c, kind))

(* The assertion of do_create_keys_end.                                    *)
KeysEndFails(c, kind) ==
  kind = "chat" /\ mem.state[c] = "waiting" /\ ~mem.encr_prime

(* A handler aborts when it has logged what makes the log l.               *)
Aborts(c, why, l) == aborts' = aborts \cup {<<c, why>>} /\ Start(l, file)

Running == ~stuck
Pending(c) == {x \in q : x.chat = c}
(* A query for the parameters, with the number that its answer will make.  *)
dh(c, kind) ==
  LET k == [id |-> keys + 1, shape |-> IF keys + 1 \in Short THEN "short" ELSE "full"]
  IN [chat |-> c, kind |-> kind, key |-> k, st |-> "out"]

-----------------------------------------------------------------------------
do_create_encr_chat_request(c) ==
  /\ Running /\ c \in Made /\ keys < MaxKeys /\ keys' = keys + 1
  /\ mem.state[c] = "unknown" /\ srv[c] = "none" /\ Pending(c) = {}
  /\ q' = q \cup {dh(c, "dh_create")}
  /\ Stored(mem, FALSE)
  /\ UNCHANGED <<binlog_enabled, network, stuck, faults, seen>>

(* get_dh_config_on_answer, then do_send_create_encr_chat.                 *)
do_send_create_encr_chat(x) ==
  /\ Running /\ x \in q /\ x.kind = "dh_create" /\ x.st = "back"
  /\ Stored([mem EXCEPT !.encr_prime = TRUE, !.state[x.chat] = "none",
                        !.key[x.chat] = x.key, !.g_key = @ \cup {x.chat}], TRUE)
  /\ q' = (q \ {x}) \cup {[x EXCEPT !.kind = "request", !.st = "out"]}
  /\ UNCHANGED <<binlog_enabled, network, keys, stuck, faults, seen>>

(* Seeded fault: "Already generated key for this chat" is not looked at.   *)
generated_never(c) == FALSE
already_generated(c) == mem.key[c] # NoKey

(* get_dh_config_on_answer, then do_send_accept_encr_chat.  The key of a   *)
(* chat that was deleted meanwhile is zero, and its g_key a null pointer,  *)
(* which it meets when the parameters are in the log.                      *)
do_send_accept_encr_chat(x) ==
  LET m == [mem EXCEPT !.encr_prime = TRUE]
  IN /\ Running /\ x \in q /\ x.kind = "dh_accept" /\ x.st = "back"
     /\ \/ /\ already_generated(x.chat)
           /\ Stored(m, FALSE) /\ q' = q \ {x} /\ UNCHANGED <<stuck, seen>>
        \/ /\ ~already_generated(x.chat) /\ x.chat \notin mem.g_key
           /\ Aborts(x.chat, "g_key", IF binlog_enabled THEN m ELSE log)
           /\ UNCHANGED <<overtaken, torn>>
        \/ /\ ~already_generated(x.chat) /\ x.chat \in mem.g_key
           /\ Stored([m EXCEPT !.key[x.chat] = x.key], FALSE)
           /\ q' = (q \ {x}) \cup {[x EXCEPT !.kind = "accept", !.st = "out"]}
           /\ UNCHANGED <<stuck, seen>>
     /\ UNCHANGED <<binlog_enabled, network, keys, faults>>

send_encr_request_on_answer(x) ==
  /\ Running /\ x \in q /\ x.kind = "request" /\ x.st = "back"
  /\ IF fetch_encrypted_chat(mem, x.chat, "waiting").state[x.chat] = "waiting"
     THEN /\ fetch_alloc_encrypted_chat(x.chat, "waiting") /\ q' = q \ {x}
          /\ UNCHANGED <<stuck, seen>>
     ELSE Aborts(x.chat, "waiting", log) /\ UNCHANGED <<overtaken, torn>>
  /\ UNCHANGED <<binlog_enabled, network, keys, faults>>

send_encr_accept_on_answer(x) ==
  /\ Running /\ x \in q /\ x.kind = "accept" /\ x.st = "back"
  /\ fetch_alloc_encrypted_chat(x.chat, "chat") /\ q' = q \ {x}
  /\ UNCHANGED <<binlog_enabled, network, keys, stuck, faults, seen>>

(* updateEncryption.  A chat that is then in request state is accepted.    *)
(* An update that was not handled comes again with the next difference.    *)
update_encryption ==
  /\ Running /\ updates # <<>>
  /\ LET c == Head(updates).chat
         kind == Head(updates).kind
         m == fetch_encrypted_chat(mem, c, kind)
     IN \/ /\ KeysEndFails(c, kind) /\ Aborts(c, "encr_prime", log)
           /\ UNCHANGED <<updates, keys, overtaken, torn>>
        \/ /\ ~KeysEndFails(c, kind) /\ fetch_alloc_encrypted_chat(c, kind)
           /\ updates' = Tail(updates)
           /\ IF m.state[c] = "request"
              THEN /\ keys < MaxKeys /\ keys' = keys + 1
                   /\ q' = q \cup {dh(c, "dh_accept")}
              ELSE UNCHANGED <<keys, q>>
           /\ overtaken' = IF mem.state[c] = "none" THEN overtaken \cup {c} ELSE overtaken
           /\ UNCHANGED <<stuck, aborts, hindered, torn>>
  /\ UNCHANGED <<binlog_enabled, srv, agreed, faults>>

-----------------------------------------------------------------------------
(* The server and the other party.                                         *)
External == Stored(mem, FALSE) /\ UNCHANGED <<binlog_enabled, keys, stuck, aborts, overtaken, torn>>

(* What the other party makes of the same numbers.                         *)
Theirs(k) == [k EXCEPT !.shape = "full"]

Told(c, kind) == [chat |-> c, kind |-> kind, key |-> agreed[c]]

carry_out(x) ==
  /\ x \in q /\ x.st = "out"
  /\ LET c == x.chat
         done == (q \ {x}) \cup {[x EXCEPT !.st = "back"]}
     IN \/ /\ x.kind \in {"dh_create", "dh_accept"}
           /\ q' = done /\ UNCHANGED <<srv, agreed>>
        \/ /\ x.kind = "request" /\ q' = done
           /\ srv' = [srv EXCEPT ![c] = "waiting"]
           /\ agreed' = [agreed EXCEPT ![c] = Theirs(x.key)]
        \/ /\ x.kind = "accept" /\ srv[c] = "waiting" /\ q' = done
           /\ srv' = [srv EXCEPT ![c] = "ok"]
           /\ agreed' = [agreed EXCEPT ![c] = Theirs(x.key)]
        \/ /\ x.kind = "accept" /\ srv[c] # "waiting" /\ q' = q \ {x}
           /\ UNCHANGED <<srv, agreed>>
  /\ External /\ UNCHANGED <<updates, faults, hindered>>

(* None of the three methods has an on_error.                              *)
refused(x) ==
  /\ x \in q /\ x.st = "out" /\ Fault /\ q' = q \ {x}
  /\ hindered' = hindered \cup {x.chat}
  /\ External /\ UNCHANGED network

asks(c) ==
  /\ c \in Asked /\ srv[c] = "none" /\ srv' = [srv EXCEPT ![c] = "waiting"]
  /\ updates' = Append(updates, Told(c, "requested"))
  /\ External /\ UNCHANGED <<q, agreed, faults, hindered>>

accepts(c) ==
  /\ c \in Made /\ srv[c] = "waiting" /\ srv' = [srv EXCEPT ![c] = "ok"]
  /\ updates' = Append(updates, Told(c, "chat"))
  /\ External /\ UNCHANGED <<q, agreed, faults, hindered>>

discards(c) ==
  /\ srv[c] \in {"waiting", "ok"} /\ Fault
  /\ srv' = [srv EXCEPT ![c] = "discarded"]
  /\ updates' = Append(updates, Told(c, "discarded"))
  /\ External /\ UNCHANGED <<q, agreed, hindered>>

(* What was handled may come again, with the next difference.              *)
told_again(c) ==
  /\ Fault
  /\ \E kind \in {"requested", "chat", "discarded"} :
       /\ \/ kind = "requested" /\ c \in Asked /\ srv[c] = "waiting"
          \/ kind = "chat" /\ c \in Made /\ srv[c] = "ok"
          \/ kind = "discarded" /\ srv[c] = "discarded"
       /\ updates' = Append(updates, Told(c, kind))
  /\ External /\ UNCHANGED <<q, srv, agreed, hindered>>

crash ==
  /\ Running /\ Fault /\ Start(log, file)
  /\ UNCHANGED <<binlog_enabled, network, keys, aborts, overtaken, torn>>

(* In the last step, when n pieces of the file were written.               *)
crash_in_write(n) ==
  /\ Running /\ Fault /\ file # file_was /\ n < Len(Cells(mem))
  /\ Start(log, Overlay(file_was, Cells(mem), n)) /\ torn' = TRUE
  /\ UNCHANGED <<binlog_enabled, network, keys, aborts, overtaken>>

Pieces == 2 + 3 * Cardinality(Chats)      \* bound: of the file

Answer(x) ==
  \/ do_send_create_encr_chat(x) \/ do_send_accept_encr_chat(x)
  \/ send_encr_request_on_answer(x) \/ send_encr_accept_on_answer(x)

(* What must go on: queries, their answers, and updates.                   *)
Progress ==
  \/ \E x \in q : Answer(x) \/ carry_out(x)
  \/ update_encryption

Next ==
  \/ Progress
  \/ \E c \in Chats : \/ do_create_encr_chat_request(c) \/ asks(c) \/ accepts(c)
                      \/ discards(c) \/ told_again(c)
  \/ \E x \in q : refused(x)
  \/ crash
  \/ \E n \in 1 .. Pieces : crash_in_write(n)

(* Nobody has to do anything new, but what is on its way is carried on.    *)
Fairness == WF_vars(Progress)

Spec == Init /\ [][Next]_vars /\ Fairness

-----------------------------------------------------------------------------
(* A chat that is ok here has the key of the other party, made in the same *)
(* attempt, unless a process ended while it wrote the file.  The keys can  *)
(* differ when the number was short, and only then: do_create_keys_end sees*)
(* it by the fingerprints, and the chat is ok all the same.                *)
OkKeysAgree ==
  \A c \in Chats : mem.state[c] = "ok" /\ ~torn =>
    /\ mem.key[c].id = agreed[c].id /\ srv[c] \in {"ok", "discarded"}
    /\ mem.key[c] # agreed[c] => mem.key[c].shape = "short"

(* A pointer is null only for a chat that was discarded while the answer to*)
(* messages.getDhConfig was awaited; encr_prime is there, unless a process *)
(* ended while it wrote the file; and the chat of an answer is waiting.    *)
AbortsExplained ==
  \A a \in aborts : \/ a[2] = "g_key" /\ srv[a[1]] = "discarded"
                    \/ a[2] = "encr_prime" /\ torn

(* What a start would find is what there is: every chat in its state, with *)
(* its key once it has one that is not to be made again, and none that was *)
(* deleted.                                                                *)
KeptOnDisk ==
  ~torn =>
    LET m == Restored(log, file)
    IN /\ m # Unreadable
       /\ \A c \in Chats :
            IF Live(mem, c)
            THEN /\ m.state[c] = mem.state[c] /\ (c \in m.g_key \/ mem.state[c] = "waiting")
                 /\ mem.state[c] # "request" => m.key[c] = mem.key[c]
            ELSE ~Live(m, c)

(* ChatsKept: the log, the file and memory tell the same of each chat, and *)
(* no answer finds its chat without what it needs.                         *)
ChatsKept == TypeOK /\ KeptOnDisk /\ AbortsExplained

(* A chat that is ok stays so until it is discarded, through every crash   *)
(* that does not tear the file.                                            *)
OkStays ==
  [][\A c \in Chats : mem.state[c] = "ok" =>
       mem'.state[c] = "ok" \/ srv[c] = "discarded" \/ torn']_vars

(* A chat that the server has as accepted or, when others asked for it, as *)
(* waiting, is ok in the end; one that is discarded is not kept.  Except   *)
(* for a torn file, for those that were hindered, and for those an update  *)
(* of which came before the answer that makes them wait: it is dropped.    *)
Followed ==
  \A c \in Chats :
    /\ (srv[c] = "ok" \/ (c \in Asked /\ srv[c] = "waiting"))
         ~> (mem.state[c] = "ok" \/ srv[c] = "discarded"
              \/ c \in hindered \cup overtaken \/ torn)
    /\ srv[c] = "discarded"
         ~> (~Live(mem, c) \/ c \in overtaken \/ torn)

=============================================================================
