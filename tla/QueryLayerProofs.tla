-------------------------- MODULE QueryLayerProofs --------------------------
(***************************************************************************)
(* Proofs about the query layer, for any number of queries, losses and     *)
(* salts.                                                                  *)
(***************************************************************************)
EXTENDS QueryLayer, SequenceTheorems, FiniteSetTheorems, TLAPS

-----------------------------------------------------------------------------
(* The parts of a message handler that only set timers preserve their type. *)

LEMMA ConstantsAreTyped ==
  /\ Marker \in ClientMessage
  /\ AckEvent \in Ids \cup {AckEvent} /\ Other \in Ids \cup {Other}
  /\ 0 \in Salts /\ 0 \in 0 .. MaxQueries /\ 0 \in 0 .. MaxLosses
  /\ <<Marker>> \in Seq(ClientMessage)
  /\ \A S : <<>> \in Seq(S)
<1>1. Marker \in ClientMessage
  BY DEF ClientMessage
<1>2. <<Marker>> \in Seq(ClientMessage)
  BY <1>1
<1> QED
  BY <1>1, <1>2, MaxQueriesAssumption, BoundsAssumption, EmptySeq DEF Salts

LEMMA SentAreTyped ==
  ASSUME TypeOK
  PROVE  /\ \A q \in Ids : Query(q) \in ClientMessage
         /\ \A q \in Ids, s \in Salts : Container(q, s) \in ClientMessage
         /\ [kind |-> "acks", ids |-> ack_tree, salt |-> server_salt]
              \in ClientMessage
BY DEF TypeOK, Query, Container, ClientMessage

LEMMA TypeInit == Init => TypeOK
<1> SUFFICES ASSUME Init PROVE TypeOK
  OBVIOUS
<1> USE DEF Init
<1>1. /\ out \in Seq(ClientMessage)
      /\ toServer \in Seq(ClientMessage)
      /\ toClient \in Seq(ServerMessage)
  BY ConstantsAreTyped
<1>2. calls \in [Ids -> Nat]
  OBVIOUS
<1>3. /\ aborted \in BOOLEAN /\ conn \in {"up", "failed"}
      /\ stream \in {"fresh", "open", "garbage"}
  OBVIOUS
<1>4. /\ queries_num \in Int /\ last_query \in 0 .. MaxQueries
      /\ server_salt \in Salts /\ salt \in Salts /\ losses \in 0 .. MaxLosses
  BY ConstantsAreTyped
<1> QED
  BY <1>1, <1>2, <1>3, <1>4 DEF TypeOK

LEMMA TypeProcess ==
  ASSUME TypeOK, process_rpc_message
  PROVE  TypeOK'
<1> DEFINE m == Head(toClient)
           t == TimersAfterInsert
<1>1. m \in ServerMessage /\ toClient' \in Seq(ServerMessage)
  BY HeadTailProperties DEF TypeOK, process_rpc_message
<1>2. t \subseteq Ids \cup {AckEvent}
  BY DEF TypeOK, TimersAfterInsert
<1> USE DEF TypeOK
<1>3. CASE work_msgs_ack(m, t)
  <2>1. m.id \in Ids /\ m.salt \in Salts
    BY <1>1, <1>3 DEF work_msgs_ack, ServerMessage
  <2> QED
    BY <1>1, <1>2, <1>3, <2>1
    DEF process_rpc_message, work_msgs_ack, insert_msg_id, query_ack,
        remove_event_timer, leave_timers, server
<1>4. CASE work_rpc_result(m, t)
  <2>1. m.id \in Ids /\ m.salt \in Salts
    BY <1>1, <1>4 DEF work_rpc_result, ServerMessage
  <2>2. queries_num' \in Int
    BY <1>4, BoundsAssumption DEF work_rpc_result, query_result
  <2>3. calls' \in [Ids -> Nat]
    <3>1. CASE m.id \in queries_tree
      BY <1>4, <2>1, <3>1 DEF work_rpc_result, query_result
    <3>2. CASE m.id \notin queries_tree
      BY <1>4, <3>2 DEF work_rpc_result, query_result
    <3> QED BY <3>1, <3>2
  <2> QED
    BY <1>1, <1>2, <1>4, <2>1, <2>2, <2>3
    DEF process_rpc_message, work_rpc_result, insert_msg_id, query_result,
        remove_event_timer, leave_timers, server
<1>5. CASE work_bad_server_salt(m, t)
  <2>1. m.id \in Ids \cup {Other} /\ m.salt \in Salts /\ m.new_salt \in Salts
    BY <1>1, <1>5 DEF work_bad_server_salt, ServerMessage
  <2>2. out' \in Seq(ClientMessage)
    <3>1. m.id \in Ids => Append(out, Container(m.id, m.salt))
                             \in Seq(ClientMessage)
      BY <2>1, SentAreTyped, AppendProperties
    <3> QED
      BY <1>5, <3>1
      DEF work_bad_server_salt, query_restart, encrypt_send_message
  <2> QED
    BY <1>1, <1>2, <1>5, <2>1, <2>2
    DEF process_rpc_message, work_bad_server_salt, insert_msg_id,
        query_restart, leave_timers, server
<1> QED BY <1>3, <1>4, <1>5 DEF process_rpc_message

LEMMA TypeStep == TypeOK /\ [Next]_vars => TypeOK'
<1> SUFFICES ASSUME TypeOK, [Next]_vars PROVE TypeOK'
  OBVIOUS
<1> USE DEF TypeOK
<1>1. CASE send_query
  <2>1. last_query + 1 \in Ids /\ last_query' \in 0 .. MaxQueries
    BY <1>1, MaxQueriesAssumption DEF send_query, Ids
  <2>2. out' \in Seq(ClientMessage)
    BY <1>1, <2>1, SentAreTyped, AppendProperties
    DEF send_query, encrypt_send_message
  <2> QED BY <1>1, <2>1, <2>2 DEF send_query, insert_event_timer, server
<1>2. ASSUME NEW q \in Ids, alarm_query(q) PROVE TypeOK'
  <2>1. out' \in Seq(ClientMessage)
    <3>1. Append(out, Container(q, server_salt)) \in Seq(ClientMessage)
      BY SentAreTyped, AppendProperties
    <3> QED BY <1>2, <3>1 DEF alarm_query, encrypt_send_message
  <2> QED BY <1>2, <2>1 DEF alarm_query, client, server
<1>3. CASE send_all_acks
  <2>1. out' \in Seq(ClientMessage)
    BY <1>3, SentAreTyped, AppendProperties
    DEF send_all_acks, encrypt_send_message
  <2> QED BY <1>3, <2>1 DEF send_all_acks, server
<1>4. CASE process_rpc_message
  BY <1>4, TypeProcess
<1>5. CASE try_write
  <2>1. PICK n \in 1 .. Len(out) :
          /\ toServer' = toServer \o SubSeq(out, 1, n)
          /\ out' = SubSeq(out, n + 1, Len(out))
    BY <1>5 DEF try_write
  <2>2. \A i \in 1 .. Len(out) : out[i] \in ClientMessage
    BY ElementOfSeq
  <2>3. SubSeq(out, 1, n) \in Seq(ClientMessage)
    BY <2>2, SubSeqProperties, LenProperties
  <2>4. out' \in Seq(ClientMessage)
    BY <2>1, <2>2, SubSeqProperties, LenProperties
  <2> QED
    BY <1>5, <2>1, <2>3, <2>4, ConcatProperties DEF try_write, client, server
<1>6. CASE fail_alarm
  <2>1. out' \in Seq(ClientMessage)
    BY <1>6, ConstantsAreTyped, AppendProperties DEF fail_alarm
  <2> QED BY <1>6, <2>1 DEF fail_alarm, client, server
<1>7. ASSUME NEW r \in BOOLEAN, fail_connection(r), losses' \in 0 .. MaxLosses
      PROVE  TypeOK'
  <2>1. out' \in Seq(ClientMessage)
    <3>1. CASE r
      BY <1>7, <3>1, ConstantsAreTyped DEF fail_connection
    <3>2. CASE ~r
      BY <1>7, <3>2, ConstantsAreTyped DEF fail_connection
    <3> QED BY <3>1, <3>2
  <2> QED BY <1>7, <2>1 DEF fail_connection, client, server
<1>8. ASSUME NEW r \in BOOLEAN, NetworkBreaks(r) \/ ServerCloses(r)
      PROVE  TypeOK'
  <2>1. losses' \in 0 .. MaxLosses
    BY <1>8, BoundsAssumption DEF NetworkBreaks, ServerCloses
  <2> QED BY <1>7, <1>8, <2>1 DEF NetworkBreaks, ServerCloses
<1>9. CASE ServerReceive
  <2>1. Head(toServer) \in ClientMessage /\ toServer' \in Seq(ClientMessage)
    BY <1>9, HeadTailProperties DEF ServerReceive
  <2>2. stream' \in {"fresh", "open", "garbage"}
    BY <1>9 DEF ServerReceive
  <2>3. toClient' \in Seq(ServerMessage) /\ received' \subseteq Ids
         /\ unacked' \subseteq Ids
    <3>1. CASE UNCHANGED <<toClient, received, unacked>>
      BY <3>1
    <3> DEFINE m == Head(toServer)
    <3>2. CASE m.kind \in {"query", "container"} /\ ServerAccepts(m.id)
      <4>1. m.id \in Ids
        BY <2>1, <3>2 DEF ClientMessage, Marker
      <4>2. [kind |-> "msgs_ack", id |-> m.id, salt |-> salt] \in ServerMessage
        BY <4>1 DEF ServerMessage
      <4>3. toClient' \in Seq(ServerMessage)
        BY <3>2, <4>2, AppendProperties, SMTT(60) DEF ServerAccepts
      <4> QED BY <3>2, <4>1, <4>3 DEF ServerAccepts
    <3>3. ASSUME NEW envelope \in {m.salt, salt}, m.kind # "marker",
                 toClient' = Append(toClient,
                   BadSalt(IF m.kind = "query" THEN m.id ELSE Other, envelope)),
                 UNCHANGED <<received, unacked>>
          PROVE  toClient' \in Seq(ServerMessage) /\ received' \subseteq Ids
                  /\ unacked' \subseteq Ids
      <4>1. /\ envelope \in Salts
            /\ (IF m.kind = "query" THEN m.id ELSE Other) \in Ids \cup {Other}
        BY <2>1, <3>3 DEF ClientMessage, Marker
      <4>2. BadSalt(IF m.kind = "query" THEN m.id ELSE Other, envelope)
              \in ServerMessage
        BY <4>1 DEF BadSalt, ServerMessage
      <4> QED BY <3>3, <4>2, AppendProperties, SMTT(60)
    <3>4. CASE m.kind = "acks" /\ unacked' = unacked \ m.ids
                /\ UNCHANGED <<toClient, received>>
      BY <3>4
    <3>5. m.kind \in {"marker", "query", "container", "acks"}
      BY <2>1 DEF ClientMessage, Marker
    <3> QED
      BY <1>9, <3>1, <3>2, <3>3, <3>4, <3>5 DEF ServerReceive, ServerReads
  <2> QED BY <1>9, <2>1, <2>2, <2>3 DEF ServerReceive, client
<1>10. ASSUME NEW q \in Ids, ServerExecutes(q) PROVE TypeOK'
  BY <1>10 DEF ServerExecutes, client, link
<1>11. ASSUME NEW q \in Ids, ServerDelivers(q) PROVE TypeOK'
  <2>1. [kind |-> "rpc_result", id |-> q, salt |-> salt] \in ServerMessage
    BY DEF ServerMessage
  <2>2. toClient' \in Seq(ServerMessage)
    BY <1>11, <2>1, AppendProperties, SMTT(60) DEF ServerDelivers
  <2> QED BY <1>11, <2>2 DEF ServerDelivers, client, server
<1>12. CASE ServerChangesSalt
  BY <1>12, BoundsAssumption DEF ServerChangesSalt, client, link, Salts
<1>13. CASE UNCHANGED vars
  BY <1>13 DEF vars, client, link, server
<1> QED
  BY <1>1, <1>2, <1>3, <1>4, <1>5, <1>6, <1>8, <1>9, <1>10, <1>11, <1>12,
     <1>13 DEF Next

(* Every variable of the query layer keeps its type, whatever the server   *)
(* and the network do.                                                     *)
THEOREM TypeCorrect == SafetySpec => []TypeOK
BY TypeInit, TypeStep, PTL DEF SafetySpec

-----------------------------------------------------------------------------
(* The order of messages.                                                  *)
(*                                                                         *)
(* query_restart asserts unless its query's timer is registered.  That it  *)
(* always is rests on the order of messages in both directions: only the   *)
(* first sending of a query bears the query's own id, so bad_server_salt   *)
(* names a query only while the server has not accepted any sending of it; *)
(* whatever acknowledges the query comes later in the stream.              *)

(* In the messages p on their way to a server that has accepted the        *)
(* queries R, each first sending is of a query not accepted yet, and no    *)
(* other sending of the query stands before it.                            *)
FirstSendings(p, R) ==
  \A i \in 1 .. Len(p) : p[i].kind = "query" =>
     /\ p[i].id \notin R
     /\ \A j \in 1 .. i - 1 :
          p[j].kind \in {"query", "container"} => p[j].id # p[i].id

(* In the messages c on their way to a client that knows A acknowledged,   *)
(* a query is asked for with a new salt only before it is acknowledged.    *)
RestartsFirst(c, A) ==
  \A i \in 1 .. Len(c) : c[i].kind = "bad_server_salt" =>
     /\ c[i].id \notin A
     /\ \A j \in 1 .. i - 1 : c[j].kind = "msgs_ack" => c[j].id # c[i].id

LEMMA FirstSendingsAppend ==
  ASSUME NEW p \in Seq(ClientMessage), NEW m \in ClientMessage, NEW R,
         FirstSendings(p, R),
         m.kind = "query" =>
           /\ m.id \notin R
           /\ \A j \in 1 .. Len(p) :
                p[j].kind \in {"query", "container"} => p[j].id # m.id
  PROVE  FirstSendings(Append(p, m), R)
<1> DEFINE a == Append(p, m)
<1>1. /\ Len(a) = Len(p) + 1 /\ Len(p) \in Nat
      /\ \A i \in 1 .. Len(p) : a[i] = p[i]
      /\ a[Len(p) + 1] = m
  BY AppendProperties, LenProperties
<1> HIDE DEF a
<1>2. ASSUME NEW i \in 1 .. Len(a), a[i].kind = "query"
      PROVE  /\ a[i].id \notin R
             /\ \A j \in 1 .. i - 1 :
                  a[j].kind \in {"query", "container"} => a[j].id # a[i].id
  <2>1. CASE i = Len(p) + 1
    BY <1>1, <1>2, <2>1
  <2>2. CASE i \in 1 .. Len(p)
    BY <1>1, <1>2, <2>2 DEF FirstSendings
  <2> QED BY <1>1, <2>1, <2>2
<1> QED BY <1>2 DEF FirstSendings, a

LEMMA FirstSendingsTail ==
  ASSUME NEW p \in Seq(ClientMessage), p # <<>>, NEW R, NEW S,
         FirstSendings(p, R),
         \A q \in S : q \in R \/ (/\ Head(p).kind \in {"query", "container"}
                                  /\ q = Head(p).id)
  PROVE  FirstSendings(Tail(p), S)
<1> DEFINE a == Tail(p)
<1>1. /\ Len(p) \in Nat \ {0} /\ Len(a) = Len(p) - 1
      /\ \A i \in 1 .. Len(a) : a[i] = p[i + 1]
      /\ Head(p) = p[1]
  BY HeadTailProperties, EmptySeq
<1> HIDE DEF a
<1>2. ASSUME NEW i \in 1 .. Len(a), a[i].kind = "query"
      PROVE  /\ a[i].id \notin S
             /\ \A j \in 1 .. i - 1 :
                  a[j].kind \in {"query", "container"} => a[j].id # a[i].id
  <2>1. /\ i + 1 \in 1 .. Len(p) /\ p[i + 1].kind = "query" /\ a[i] = p[i + 1]
        /\ 1 \in 1 .. i
    BY <1>1, <1>2
  <2>2. /\ p[i + 1].id \notin R
        /\ \A j \in 1 .. i :
             p[j].kind \in {"query", "container"} => p[j].id # p[i + 1].id
    BY <2>1 DEF FirstSendings
  <2>3. a[i].id \notin S
    BY <1>1, <2>1, <2>2
  <2>4. ASSUME NEW j \in 1 .. i - 1, a[j].kind \in {"query", "container"}
        PROVE  a[j].id # a[i].id
    <3>1. j + 1 \in 1 .. i /\ j \in 1 .. Len(a)
      BY <1>1
    <3>2. a[j] = p[j + 1]
      BY <1>1, <3>1
    <3> QED BY <2>1, <2>2, <2>4, <3>1, <3>2
  <2> QED BY <2>3, <2>4
<1> QED BY <1>2 DEF FirstSendings, a

LEMMA RestartsFirstAppend ==
  ASSUME NEW c \in Seq(ServerMessage), NEW m \in ServerMessage, NEW A,
         RestartsFirst(c, A),
         m.kind = "bad_server_salt" =>
           /\ m.id \notin A
           /\ \A j \in 1 .. Len(c) : c[j].kind = "msgs_ack" => c[j].id # m.id
  PROVE  RestartsFirst(Append(c, m), A)
<1> DEFINE a == Append(c, m)
<1>1. /\ Len(a) = Len(c) + 1 /\ Len(c) \in Nat
      /\ \A i \in 1 .. Len(c) : a[i] = c[i]
      /\ a[Len(c) + 1] = m
  BY AppendProperties, LenProperties
<1> HIDE DEF a
<1>2. ASSUME NEW i \in 1 .. Len(a), a[i].kind = "bad_server_salt"
      PROVE  /\ a[i].id \notin A
             /\ \A j \in 1 .. i - 1 :
                  a[j].kind = "msgs_ack" => a[j].id # a[i].id
  <2>1. CASE i = Len(c) + 1
    BY <1>1, <1>2, <2>1
  <2>2. CASE i \in 1 .. Len(c)
    BY <1>1, <1>2, <2>2 DEF RestartsFirst
  <2> QED BY <1>1, <2>1, <2>2
<1> QED BY <1>2 DEF RestartsFirst, a

LEMMA RestartsFirstTail ==
  ASSUME NEW c \in Seq(ServerMessage), c # <<>>, NEW A, NEW B,
         RestartsFirst(c, A),
         \A q \in B : q \in A \/ (Head(c).kind = "msgs_ack" /\ q = Head(c).id)
  PROVE  RestartsFirst(Tail(c), B)
<1> DEFINE a == Tail(c)
<1>1. /\ Len(c) \in Nat \ {0} /\ Len(a) = Len(c) - 1
      /\ \A i \in 1 .. Len(a) : a[i] = c[i + 1]
      /\ Head(c) = c[1]
  BY HeadTailProperties, EmptySeq
<1> HIDE DEF a
<1>2. ASSUME NEW i \in 1 .. Len(a), a[i].kind = "bad_server_salt"
      PROVE  /\ a[i].id \notin B
             /\ \A j \in 1 .. i - 1 :
                  a[j].kind = "msgs_ack" => a[j].id # a[i].id
  <2>1. /\ i + 1 \in 1 .. Len(c) /\ c[i + 1].kind = "bad_server_salt"
        /\ a[i] = c[i + 1] /\ 1 \in 1 .. i
    BY <1>1, <1>2
  <2>2. /\ c[i + 1].id \notin A
        /\ \A j \in 1 .. i : c[j].kind = "msgs_ack" => c[j].id # c[i + 1].id
    BY <2>1 DEF RestartsFirst
  <2>3. a[i].id \notin B
    BY <1>1, <2>1, <2>2
  <2>4. ASSUME NEW j \in 1 .. i - 1, a[j].kind = "msgs_ack"
        PROVE  a[j].id # a[i].id
    <3>1. j + 1 \in 1 .. i /\ j \in 1 .. Len(a)
      BY <1>1
    <3>2. a[j] = c[j + 1]
      BY <1>1, <3>1
    <3> QED BY <2>1, <2>2, <2>4, <3>1, <3>2
  <2> QED BY <2>3, <2>4
<1> QED BY <1>2 DEF RestartsFirst, a

(* What the client has sent and the server has not read. *)
Pipe == toServer \o out

LEMMA PipeTyped == ASSUME TypeOK PROVE Pipe \in Seq(ClientMessage)
BY ConcatProperties DEF TypeOK, Pipe

LEMMA PipeAppend ==
  ASSUME NEW m \in ClientMessage, TypeOK, UNCHANGED toServer, out' = Append(out, m)
  PROVE  Pipe' = Append(Pipe, m)
<1>1. out' = out \o <<m>> /\ <<m>> \in Seq(ClientMessage)
  BY AppendIsConcat DEF TypeOK
<1>2. Pipe' = Pipe \o <<m>>
  BY <1>1, ConcatAssociative DEF Pipe, TypeOK
<1> QED BY <1>2, PipeTyped, AppendIsConcat

LEMMA PipeWritten == ASSUME TypeOK, try_write PROVE Pipe' = Pipe
<1>1. PICK n \in 1 .. Len(out) :
        /\ toServer' = toServer \o SubSeq(out, 1, n)
        /\ out' = SubSeq(out, n + 1, Len(out))
  BY DEF try_write
<1>2. Len(out) \in Nat /\ out \in Seq(ClientMessage)
  BY LenProperties DEF TypeOK
<1>3. SubSeq(out, 1, n) \o SubSeq(out, n + 1, Len(out)) = out
  BY <1>2, ConcatAdjacentSubSeq, SubSeqFull
<1>4. /\ SubSeq(out, 1, n) \in Seq(ClientMessage)
      /\ SubSeq(out, n + 1, Len(out)) \in Seq(ClientMessage)
  BY <1>2, ElementOfSeq, SubSeqProperties
<1> DEFINE s == SubSeq(out, 1, n)
           u == SubSeq(out, n + 1, Len(out))
<1>5. (toServer \o s) \o u = toServer \o (s \o u)
  <2> HIDE DEF s, u
  <2>1. toServer \in Seq(ClientMessage)
    BY DEF TypeOK
  <2>2. s \in Seq(ClientMessage) /\ u \in Seq(ClientMessage)
    BY <1>4 DEF s, u
  <2> QED BY <2>1, <2>2, ConcatAssociative
<1> QED BY <1>1, <1>3, <1>5 DEF Pipe

LEMMA PipeRead ==
  ASSUME TypeOK, toServer # <<>>, toServer' = Tail(toServer), UNCHANGED out
  PROVE  Pipe # <<>> /\ Head(Pipe) = Head(toServer) /\ Pipe' = Tail(Pipe)
<1>1. /\ Pipe \in Seq(ClientMessage) /\ Len(Pipe) = Len(toServer) + Len(out)
      /\ \A i \in 1 .. Len(Pipe) :
           Pipe[i] = IF i <= Len(toServer) THEN toServer[i]
                                           ELSE out[i - Len(toServer)]
  BY ConcatProperties DEF TypeOK, Pipe
<1>2. Len(toServer) \in Nat \ {0} /\ Len(out) \in Nat
  BY EmptySeq, LenProperties DEF TypeOK
<1>3. Pipe # <<>> /\ Head(Pipe) = Head(toServer)
  BY <1>1, <1>2, EmptySeq
<1>4. /\ Tail(toServer) \in Seq(ClientMessage)
      /\ Len(Tail(toServer)) = Len(toServer) - 1
      /\ \A i \in 1 .. Len(Tail(toServer)) : Tail(toServer)[i] = toServer[i + 1]
  BY HeadTailProperties DEF TypeOK
<1>5. /\ Tail(Pipe) \in Seq(ClientMessage) /\ Len(Tail(Pipe)) = Len(Pipe) - 1
      /\ \A i \in 1 .. Len(Tail(Pipe)) : Tail(Pipe)[i] = Pipe[i + 1]
  BY <1>1, <1>3, HeadTailProperties
<1>6. /\ Pipe' \in Seq(ClientMessage)
      /\ Len(Pipe') = Len(Tail(toServer)) + Len(out)
      /\ \A i \in 1 .. Len(Pipe') :
           Pipe'[i] = IF i <= Len(Tail(toServer)) THEN Tail(toServer)[i]
                                          ELSE out[i - Len(Tail(toServer))]
  BY <1>4, ConcatProperties DEF TypeOK, Pipe
<1>7. ASSUME NEW i \in 1 .. Len(Pipe') PROVE Pipe'[i] = Tail(Pipe)[i]
  <2>1. CASE i <= Len(toServer) - 1
    BY <1>1, <1>2, <1>4, <1>5, <1>6, <2>1
  <2>2. CASE i > Len(toServer) - 1
    BY <1>1, <1>2, <1>4, <1>5, <1>6, <2>2
  <2>3. i <= Len(toServer) - 1 \/ i > Len(toServer) - 1
    BY <1>2
  <2> QED BY <2>1, <2>2, <2>3
<1>8. Len(Pipe') = Len(Tail(Pipe))
  BY <1>1, <1>2, <1>4, <1>5, <1>6
<1> QED BY <1>3, <1>5, <1>6, <1>7, <1>8, SeqEqual

LEMMA PipeStays ==
  ASSUME UNCHANGED <<toServer, out, received>>, FirstSendings(Pipe, received)
  PROVE  FirstSendings(Pipe, received)'
<1>1. Pipe' = Pipe
  BY DEF Pipe
<1> QED BY <1>1 DEF FirstSendings

-----------------------------------------------------------------------------
(* The inductive invariant.                                                *)

(* The callback has run for exactly the queries sent and forgotten.        *)
CallsMatch ==
  /\ \A q \in queries_tree : q <= last_query
  /\ \A q \in Ids :
       calls[q] = IF q <= last_query /\ q \notin queries_tree THEN 1 ELSE 0

(* The server knows the queries that were sent, and carries out and        *)
(* answers the ones it knows.                                              *)
ServerKnows ==
  /\ \A q \in received : q <= last_query
  /\ answered \subseteq received
  /\ unacked \subseteq answered
  /\ \A q \in Ids : calls[q] = 1 => q \in answered

(* Acks are owed, under way or buffered for answers already used only, and *)
(* only queries that were sent are under way.                              *)
SafelySent ==
  {m \in ClientMessage :
     /\ m.kind \in {"query", "container"} => m.id <= last_query
     /\ m.kind = "acks" => \A q \in m.ids \cap Ids : calls[q] = 1}
AcksAreUsed == \A q \in ack_tree \cap Ids : calls[q] = 1

(* The replies under way are true. *)
SafelyReplied ==
  {m \in ServerMessage :
     /\ m.kind = "msgs_ack" => m.id \in received
     /\ m.kind = "rpc_result" => m.id \in answered}

Buffers == /\ out \in Seq(SafelySent)
           /\ toServer \in Seq(SafelySent)
           /\ toClient \in Seq(SafelyReplied)

Inv == /\ TypeOK
       /\ CallsMatch
       /\ TimersMatch
       /\ ServerKnows
       /\ AckedAreReceived
       /\ ForgottenAreUsed
       /\ AcksAreUsed
       /\ Buffers
       /\ FirstSendings(Pipe, received)
       /\ RestartsFirst(toClient, ack_received)
       /\ NoAbort

-----------------------------------------------------------------------------
(* What is true of a message stays true as the queries go their way. *)

LEMMA SafetyGrows ==
  ASSUME TypeOK, TypeOK', last_query <= last_query',
         \A q \in Ids : calls[q] = 1 => calls'[q] = 1,
         received \subseteq received', answered \subseteq answered'
  PROVE  /\ SafelySent \subseteq SafelySent'
         /\ SafelyReplied \subseteq SafelyReplied'
<1>1. ASSUME NEW m \in SafelySent PROVE m \in SafelySent'
  <2>1. m.kind \in {"query", "container"} => m.id \in Ids
    BY <1>1 DEF SafelySent, ClientMessage, Marker
  <2> QED BY <1>1, <2>1 DEF SafelySent, TypeOK, Ids
<1>2. ASSUME NEW m \in SafelyReplied PROVE m \in SafelyReplied'
  BY <1>2 DEF SafelyReplied
<1> QED BY <1>1, <1>2

(* The buffers an action leaves alone stay safe. *)
LEMMA BuffersStay ==
  ASSUME SafelySent \subseteq SafelySent', SafelyReplied \subseteq SafelyReplied'
  PROVE  /\ \A s \in Seq(SafelySent) : s \in Seq(SafelySent')
         /\ \A s \in Seq(SafelyReplied) : s \in Seq(SafelyReplied')
BY SeqMonotonic

LEMMA MarkerIsSafe == Marker \in SafelySent /\ <<Marker>> \in Seq(SafelySent)
<1>1. Marker \in SafelySent
  BY ConstantsAreTyped DEF SafelySent, Marker
<1> QED BY <1>1

LEMMA InvInit == Init => Inv
<1> SUFFICES ASSUME Init PROVE Inv
  OBVIOUS
<1>1. TypeOK
  BY TypeInit
<1>2. Buffers
  BY ConstantsAreTyped, MarkerIsSafe DEF Init, Buffers
<1>3. CallsMatch
  BY DEF Init, CallsMatch, Ids
<1>4. TimersMatch
  BY DEF Init, TimersMatch
<1>5. ServerKnows /\ AckedAreReceived /\ ForgottenAreUsed /\ AcksAreUsed
  BY DEF Init, ServerKnows, AckedAreReceived, ForgottenAreUsed, AcksAreUsed
<1>6. RestartsFirst(toClient, ack_received) /\ NoAbort
  <2>1. toClient = <<>> /\ ~aborted
    BY DEF Init
  <2> QED BY <2>1, EmptySeq DEF RestartsFirst, NoAbort
<1>7. FirstSendings(Pipe, received)
  <2>1. Pipe = <<Marker>>
    BY ConstantsAreTyped, ConcatEmptySeq DEF Init, Pipe
  <2> QED BY <2>1 DEF FirstSendings, Marker
<1> QED BY <1>1, <1>2, <1>3, <1>4, <1>5, <1>6, <1>7 DEF Inv

-----------------------------------------------------------------------------
(* One step of the invariant for each of the three messages handled. *)

LEMMA HeadIsSafe ==
  ASSUME Inv, toClient # <<>>
  PROVE  /\ Head(toClient) \in SafelyReplied
         /\ Tail(toClient) \in Seq(SafelyReplied)
BY HeadTailProperties DEF Inv, Buffers

(* insert_msg_id leaves the timers as they should be after it. *)
LEMMA TimersAfterInsertMatch ==
  ASSUME Inv, NEW id, insert_msg_id(id)
  PROVE  /\ TimersAfterInsert =
              (queries_tree \ ack_received)
              \cup (IF ack_tree' = {} THEN {} ELSE {AckEvent})
         /\ ack_tree' = ack_tree \cup {id}
BY DEF Inv, TimersMatch, TimersAfterInsert, insert_msg_id

LEMMA InvAck ==
  ASSUME Inv, process_rpc_message,
         work_msgs_ack(Head(toClient), TimersAfterInsert)
  PROVE  Inv'
<1> DEFINE m == Head(toClient)
           t == TimersAfterInsert
<1> USE DEF Inv
<1>1. TypeOK'
  BY TypeProcess
<1>2. m \in SafelyReplied /\ toClient' \in Seq(SafelyReplied)
  BY HeadIsSafe DEF process_rpc_message
<1>3. m.id \in received /\ m.id \in Ids
  BY <1>2 DEF SafelyReplied, work_msgs_ack, TypeOK
<1>4. /\ t = (queries_tree \ ack_received)
               \cup (IF ack_tree' = {} THEN {} ELSE {AckEvent})
      /\ ack_tree' = ack_tree \cup {Other}
  BY TimersAfterInsertMatch DEF work_msgs_ack
<1>5. UNCHANGED <<queries_tree, calls, out, last_query, toServer, received,
                  answered, unacked>>
  BY DEF process_rpc_message, work_msgs_ack, query_ack, server
<1>6. CallsMatch' /\ ServerKnows' /\ ForgottenAreUsed'
  BY <1>5 DEF CallsMatch, ServerKnows, ForgottenAreUsed
<1>7. AcksAreUsed'
  BY <1>4, <1>5 DEF AcksAreUsed, Other, Ids
<1>8. AckedAreReceived'
  BY <1>3, <1>5 DEF AckedAreReceived, work_msgs_ack, query_ack
<1>9. TimersMatch'
  <2>1. CASE m.id \in queries_tree \ ack_received
    <3>1. /\ timer_tree' = t \ {m.id}
          /\ ack_received' = ack_received \cup {m.id}
      BY <2>1 DEF work_msgs_ack, query_ack, remove_event_timer
    <3>2. m.id # AckEvent
      BY <1>3 DEF Ids, AckEvent
    <3> QED BY <1>4, <1>5, <3>1, <3>2 DEF TimersMatch
  <2>2. CASE m.id \notin queries_tree \ ack_received
    BY <1>4, <1>5, <2>2 DEF TimersMatch, work_msgs_ack, query_ack, leave_timers
  <2> QED BY <2>1, <2>2
<1>10. Buffers'
  <2>1. SafelySent \subseteq SafelySent' /\ SafelyReplied \subseteq SafelyReplied'
    BY <1>1, <1>5, SafetyGrows DEF TypeOK
  <2> QED BY <1>2, <1>5, <2>1, BuffersStay DEF Buffers
<1>11. FirstSendings(Pipe, received)'
  BY <1>5, PipeStays
<1>12. RestartsFirst(toClient, ack_received)'
  <2>1. /\ \A q \in ack_received' : q \in ack_received \/ q = m.id
        /\ m.kind = "msgs_ack"
    BY DEF work_msgs_ack, query_ack
  <2> QED BY <2>1, RestartsFirstTail DEF TypeOK, process_rpc_message
<1>13. NoAbort'
  <2>1. CASE m.id \in queries_tree \ ack_received
    <3>1. m.id \in t
      BY <1>4, <2>1
    <3> QED BY <2>1, <3>1 DEF NoAbort, work_msgs_ack, query_ack, remove_event_timer
  <2>2. CASE m.id \notin queries_tree \ ack_received
    BY <2>2 DEF NoAbort, work_msgs_ack, query_ack, leave_timers
  <2> QED BY <2>1, <2>2
<1> QED BY <1>1, <1>6, <1>7, <1>8, <1>9, <1>10, <1>11, <1>12, <1>13

LEMMA InvResult ==
  ASSUME Inv, process_rpc_message,
         work_rpc_result(Head(toClient), TimersAfterInsert)
  PROVE  Inv'
<1> DEFINE m == Head(toClient)
           t == TimersAfterInsert
<1> USE DEF Inv
<1>1. TypeOK'
  BY TypeProcess
<1>2. m \in SafelyReplied /\ toClient' \in Seq(SafelyReplied)
  BY HeadIsSafe DEF process_rpc_message
<1>3. m.id \in answered /\ m.id \in Ids /\ m.id <= last_query
  BY <1>2 DEF SafelyReplied, work_rpc_result, TypeOK, ServerKnows
<1>4. /\ t = (queries_tree \ ack_received)
               \cup (IF ack_tree' = {} THEN {} ELSE {AckEvent})
      /\ ack_tree' = ack_tree \cup {m.id}
  BY TimersAfterInsertMatch DEF work_rpc_result
<1>5. UNCHANGED <<out, last_query, toServer, received, answered, unacked>>
  BY DEF process_rpc_message, work_rpc_result, query_result, server
<1>6. /\ queries_tree' = queries_tree \ {m.id}
      /\ ack_received' = ack_received \ {m.id}
      /\ \A q \in Ids : calls'[q] = IF q = m.id THEN 1 ELSE calls[q]
      /\ timer_tree' = t \ {m.id}
  <2>1. m.id # AckEvent
    BY <1>3 DEF Ids, AckEvent
  <2>2. CASE m.id \in queries_tree
    <3>1. calls' = [calls EXCEPT ![m.id] = @ + 1] /\ calls[m.id] = 0
      BY <1>3, <2>2 DEF work_rpc_result, query_result, CallsMatch
    <3>2. timer_tree' = IF m.id \in ack_received THEN t ELSE t \ {m.id}
      BY <2>2 DEF work_rpc_result, query_result, leave_timers,
                  remove_event_timer
    <3>3. m.id \in ack_received => m.id \notin t
      BY <1>4, <2>1
    <3>4. /\ queries_tree' = queries_tree \ {m.id}
          /\ ack_received' = ack_received \ {m.id}
      BY <2>2 DEF work_rpc_result, query_result
    <3>5. \A q \in Ids : calls'[q] = IF q = m.id THEN 1 ELSE calls[q]
      BY <1>3, <3>1 DEF TypeOK
    <3> QED BY <3>2, <3>3, <3>4, <3>5
  <2>3. CASE m.id \notin queries_tree
    <3>1. timer_tree' = t /\ UNCHANGED <<queries_tree, ack_received, calls>>
      BY <2>3 DEF work_rpc_result, query_result, leave_timers
    <3>2. calls[m.id] = 1
      BY <1>3, <2>3 DEF CallsMatch
    <3>3. m.id \notin t /\ m.id \notin ack_received
      BY <1>4, <2>1, <2>3 DEF TypeOK
    <3> QED BY <3>1, <3>2, <3>3, <2>3
  <2> QED BY <2>2, <2>3
<1>7. CallsMatch'
  <2>1. \A q \in queries_tree' : q <= last_query'
    BY <1>5, <1>6 DEF CallsMatch
  <2>2. ASSUME NEW q \in Ids
        PROVE  calls'[q] = IF q <= last_query' /\ q \notin queries_tree'
                           THEN 1 ELSE 0
    BY <1>3, <1>5, <1>6 DEF CallsMatch
  <2> QED BY <2>1, <2>2 DEF CallsMatch
<1>8. TimersMatch'
  <2>1. m.id # AckEvent
    BY <1>3 DEF Ids, AckEvent
  <2> QED BY <1>4, <1>6, <2>1 DEF TimersMatch
<1>9. ServerKnows' /\ AckedAreReceived'
  <2>1. \A q \in Ids : calls'[q] = 1 => q \in answered'
    BY <1>3, <1>5, <1>6 DEF ServerKnows
  <2>2. ServerKnows'
    BY <1>5, <2>1 DEF ServerKnows
  <2>3. AckedAreReceived'
    BY <1>5, <1>6 DEF AckedAreReceived
  <2> QED BY <2>2, <2>3
<1>10. ForgottenAreUsed'
  BY <1>5, <1>6 DEF ForgottenAreUsed, TypeOK
<1>11. AcksAreUsed'
  BY <1>4, <1>6 DEF AcksAreUsed
<1>12. Buffers'
  <2>1. SafelySent \subseteq SafelySent' /\ SafelyReplied \subseteq SafelyReplied'
    BY <1>1, <1>5, <1>6, SafetyGrows DEF TypeOK
  <2> QED BY <1>2, <1>5, <2>1, BuffersStay DEF Buffers
<1>13. FirstSendings(Pipe, received)'
  BY <1>5, PipeStays
<1>14. RestartsFirst(toClient, ack_received)'
  <2>1. \A q \in ack_received' : q \in ack_received
    BY <1>6
  <2> QED BY <2>1, RestartsFirstTail DEF TypeOK, process_rpc_message
<1>15. NoAbort'
  <2>1. CASE m.id \in queries_tree \ ack_received
    <3>1. m.id \in t
      BY <1>4, <2>1
    <3> QED
      BY <2>1, <3>1 DEF NoAbort, work_rpc_result, query_result, remove_event_timer
  <2>2. CASE m.id \notin queries_tree \ ack_received
    BY <2>2 DEF NoAbort, work_rpc_result, query_result, leave_timers
  <2> QED BY <2>1, <2>2
<1> QED
  BY <1>1, <1>7, <1>8, <1>9, <1>10, <1>11, <1>12, <1>13, <1>14, <1>15

LEMMA InvBadSalt ==
  ASSUME Inv, process_rpc_message,
         work_bad_server_salt(Head(toClient), TimersAfterInsert)
  PROVE  Inv'
<1> DEFINE m == Head(toClient)
           t == TimersAfterInsert
<1> USE DEF Inv
<1>1. TypeOK'
  BY TypeProcess
<1>2. m \in SafelyReplied /\ toClient' \in Seq(SafelyReplied)
  BY HeadIsSafe DEF process_rpc_message
<1>3. m.salt \in Salts
  BY <1>2 DEF SafelyReplied, ServerMessage, work_bad_server_salt
<1>4. /\ t = (queries_tree \ ack_received)
               \cup (IF ack_tree' = {} THEN {} ELSE {AckEvent})
      /\ ack_tree' = ack_tree \cup {Other}
  BY TimersAfterInsertMatch DEF work_bad_server_salt
<1>5. UNCHANGED <<queries_tree, ack_received, calls, last_query, toServer,
                  received, answered, unacked>>
  BY DEF process_rpc_message, work_bad_server_salt, query_restart, server
<1>6. CallsMatch' /\ ServerKnows' /\ ForgottenAreUsed' /\ AckedAreReceived'
  BY <1>5 DEF CallsMatch, ServerKnows, ForgottenAreUsed, AckedAreReceived
<1>7. AcksAreUsed'
  BY <1>4, <1>5 DEF AcksAreUsed, Other, Ids
<1>0. m.id \in queries_tree => m.id \in t
  <2>1. Len(toClient) \in Nat \ {0} /\ m = toClient[1]
    BY EmptySeq DEF TypeOK, process_rpc_message
  <2>2. m.id \notin ack_received
    BY <2>1 DEF RestartsFirst, work_bad_server_salt
  <2> QED BY <1>4, <2>2
<1>8. TimersMatch'
  <2>1. timer_tree' = t
    <3>1. CASE m.id \in queries_tree
      <4>1. m.id \in t /\ timer_tree' = t \cup {m.id}
        BY <1>0, <3>1 DEF work_bad_server_salt, query_restart
      <4> QED BY <4>1
    <3>2. CASE m.id \notin queries_tree
      BY <3>2 DEF work_bad_server_salt, query_restart, leave_timers
    <3> QED BY <3>1, <3>2
  <2> QED BY <1>4, <1>5, <2>1 DEF TimersMatch
<1>9. out' \in Seq(SafelySent)
  <2>1. CASE m.id \in queries_tree
    <3>1. m.id \in Ids /\ m.id <= last_query
      BY <2>1 DEF TypeOK, CallsMatch
    <3>2. Container(m.id, m.salt) \in SafelySent
      BY <1>3, <3>1, SentAreTyped DEF SafelySent, Container
    <3>3. Append(out, Container(m.id, m.salt)) \in Seq(SafelySent)
      BY <3>2, AppendProperties DEF Buffers
    <3> QED
      BY <2>1, <3>3
      DEF work_bad_server_salt, query_restart, encrypt_send_message, Buffers
  <2>2. CASE m.id \notin queries_tree
    BY <2>2 DEF work_bad_server_salt, query_restart, Buffers
  <2> QED BY <2>1, <2>2
<1>10. Buffers'
  <2>1. SafelySent \subseteq SafelySent' /\ SafelyReplied \subseteq SafelyReplied'
    BY <1>1, <1>5, SafetyGrows DEF TypeOK
  <2> QED BY <1>2, <1>5, <1>9, <2>1, BuffersStay DEF Buffers
<1>11. FirstSendings(Pipe, received)'
  <2>1. CASE m.id \in queries_tree
    <3>1. Container(m.id, m.salt) \in ClientMessage
      BY <1>3, <2>1, SentAreTyped DEF TypeOK
    <3>2. out' = Append(out, Container(m.id, m.salt)) \/ UNCHANGED out
      BY <2>1
      DEF work_bad_server_salt, query_restart, encrypt_send_message
    <3>3. CASE out' = Append(out, Container(m.id, m.salt))
      <4>1. Pipe' = Append(Pipe, Container(m.id, m.salt))
        BY <1>5, <3>1, <3>3, PipeAppend
      <4>2. FirstSendings(Append(Pipe, Container(m.id, m.salt)), received)
        BY <3>1, PipeTyped, FirstSendingsAppend DEF Container
      <4> QED BY <1>5, <4>1, <4>2
    <3>4. CASE UNCHANGED out
      BY <1>5, <3>4, PipeStays
    <3> QED BY <3>2, <3>3, <3>4
  <2>2. CASE m.id \notin queries_tree
    BY <1>5, <2>2, PipeStays DEF work_bad_server_salt, query_restart
  <2> QED BY <2>1, <2>2
<1>12. RestartsFirst(toClient, ack_received)'
  <2>1. \A q \in ack_received' : q \in ack_received
    BY <1>5
  <2> QED BY <2>1, RestartsFirstTail DEF TypeOK, process_rpc_message
<1>13. NoAbort'
  <2>1. CASE m.id \in queries_tree
    BY <1>0, <2>1 DEF NoAbort, work_bad_server_salt, query_restart
  <2>2. CASE m.id \notin queries_tree
    BY <2>2 DEF NoAbort, work_bad_server_salt, query_restart, leave_timers
  <2> QED BY <2>1, <2>2
<1> QED BY <1>1, <1>6, <1>7, <1>8, <1>10, <1>11, <1>12, <1>13

-----------------------------------------------------------------------------
(* The steps of the callers and the timers, which append to out.           *)

(* What such a step leaves to be shown. *)
LEMMA InvAppend ==
  ASSUME Inv, TypeOK', NEW m \in SafelySent', m \in ClientMessage,
         out' = Append(out, m),
         m.kind = "query" =>
           /\ m.id \notin received
           /\ \A i \in 1 .. Len(Pipe) :
                Pipe[i].kind \in {"query", "container"} => Pipe[i].id # m.id,
         last_query <= last_query', UNCHANGED calls,
         UNCHANGED <<toServer, toClient, received, answered, ack_received>>
  PROVE  Buffers' /\ FirstSendings(Pipe, received)'
                  /\ RestartsFirst(toClient, ack_received)'
<1> USE DEF Inv
<1>1. SafelySent \subseteq SafelySent' /\ SafelyReplied \subseteq SafelyReplied'
  BY SafetyGrows
<1>2. out \in Seq(SafelySent') /\ toServer \in Seq(SafelySent')
        /\ toClient \in Seq(SafelyReplied')
  BY <1>1, BuffersStay DEF Buffers
<1>3. Buffers'
  <2>1. Append(out, m) \in Seq(SafelySent')
    BY <1>2, AppendProperties
  <2> QED BY <1>2, <2>1 DEF Buffers
<1>4. FirstSendings(Pipe, received)'
  <2>1. Pipe' = Append(Pipe, m)
    BY PipeAppend
  <2>2. FirstSendings(Append(Pipe, m), received)
    BY PipeTyped, FirstSendingsAppend
  <2> QED BY <2>1, <2>2
<1>5. RestartsFirst(toClient, ack_received)'
  BY DEF RestartsFirst
<1> QED BY <1>3, <1>4, <1>5

LEMMA InvSendQuery == ASSUME Inv, send_query PROVE Inv'
<1> DEFINE q == last_query + 1
<1> USE DEF Inv
<1>1. TypeOK' /\ q \in Ids
  <2>1. q \in Ids
    BY MaxQueriesAssumption DEF send_query, Ids, TypeOK
  <2> QED BY <2>1, TypeStep DEF Next
<1>2. /\ queries_tree' = queries_tree \cup {q} /\ last_query' = q
      /\ timer_tree' = timer_tree \cup {q} /\ out' = Append(out, Query(q))
      /\ UNCHANGED <<ack_received, ack_tree, calls, toServer, toClient,
                     received, answered, unacked>>
  BY DEF send_query, insert_event_timer, encrypt_send_message, server
<1>3. /\ last_query \in Int /\ last_query < q
      /\ q \notin queries_tree /\ q \notin received /\ q \notin ack_received
  BY DEF TypeOK, CallsMatch, ServerKnows
<1>4. CallsMatch'
  <2>1. \A p \in queries_tree' : p <= last_query'
    BY <1>2, <1>3 DEF CallsMatch, TypeOK, Ids
  <2>2. ASSUME NEW p \in Ids
        PROVE  calls'[p] = IF p <= last_query' /\ p \notin queries_tree'
                           THEN 1 ELSE 0
    <3>1. p <= q <=> p <= last_query \/ p = q
      BY <1>3 DEF Ids
    <3> QED BY <1>2, <1>3, <3>1 DEF CallsMatch
  <2> QED BY <2>1, <2>2 DEF CallsMatch
<1>5. TimersMatch'
  BY <1>2, <1>3 DEF TimersMatch
<1>6. ServerKnows' /\ AckedAreReceived' /\ ForgottenAreUsed' /\ AcksAreUsed'
  <2>1. ServerKnows'
    BY <1>2, <1>3 DEF ServerKnows, TypeOK, Ids
  <2> QED
    BY <1>2, <2>1 DEF AckedAreReceived, ForgottenAreUsed, AcksAreUsed
<1>7. NoAbort'
  <2>1. q \notin timer_tree
    BY <1>1, <1>3 DEF TimersMatch, AckEvent, Ids
  <2> QED BY <2>1 DEF NoAbort, send_query, insert_event_timer
<1>8. Query(q) \in ClientMessage /\ Query(q) \in SafelySent'
  <2>1. Query(q) \in ClientMessage
    BY <1>1, SentAreTyped
  <2>2. /\ Query(q).kind \in {"query", "container"} => Query(q).id <= last_query'
        /\ Query(q).kind # "acks"
    BY <1>2, <1>3 DEF Query
  <2> QED BY <2>1, <2>2 DEF SafelySent
<1>9. ASSUME NEW i \in 1 .. Len(Pipe), Pipe[i].kind \in {"query", "container"}
      PROVE  Pipe[i].id # Query(q).id
  <2>1. Pipe \in Seq(SafelySent)
    BY ConcatProperties DEF Buffers, Pipe
  <2>2. Pipe[i] \in SafelySent
    BY <2>1, ElementOfSeq
  <2>3. Pipe[i].id <= last_query /\ Pipe[i].id \in Int
    BY <1>9, <2>2 DEF SafelySent, ClientMessage, Marker, Ids
  <2> QED BY <1>3, <2>3 DEF Query
<1>10. Buffers' /\ FirstSendings(Pipe, received)'
                /\ RestartsFirst(toClient, ack_received)'
  <2>1. last_query <= last_query' /\ Query(q).id \notin received
    BY <1>2, <1>3 DEF Query
  <2> QED BY <1>1, <1>2, <1>8, <1>9, <2>1, InvAppend
<1> QED BY <1>1, <1>4, <1>5, <1>6, <1>7, <1>10

LEMMA InvAlarmQuery == ASSUME Inv, NEW q \in Ids, alarm_query(q) PROVE Inv'
<1> USE DEF Inv
<1>1. TypeOK'
  BY TypeStep DEF Next
<1>2. UNCHANGED <<queries_tree, ack_received, timer_tree, last_query, ack_tree,
                  calls, aborted, toServer, toClient, received, answered,
                  unacked>>
  BY DEF alarm_query, client, server
<1>3. CallsMatch' /\ TimersMatch' /\ ServerKnows' /\ AckedAreReceived'
        /\ ForgottenAreUsed' /\ AcksAreUsed' /\ NoAbort'
  BY <1>2 DEF CallsMatch, TimersMatch, ServerKnows, AckedAreReceived,
              ForgottenAreUsed, AcksAreUsed, NoAbort
<1> DEFINE m == Container(q, server_salt)
<1>4. m \in ClientMessage /\ m \in SafelySent' /\ m.kind # "query"
  <2>1. m \in ClientMessage
    BY SentAreTyped DEF TypeOK
  <2>2. q <= last_query'
    BY <1>2 DEF alarm_query, CallsMatch
  <2> QED BY <2>1, <2>2 DEF SafelySent, Container
<1>5. last_query <= last_query'
  BY <1>2 DEF TypeOK
<1>6. CASE out' = Append(out, m)
  BY <1>1, <1>2, <1>3, <1>4, <1>5, <1>6, InvAppend
<1>7. CASE UNCHANGED out
  <2>1. SafelySent \subseteq SafelySent' /\ SafelyReplied \subseteq SafelyReplied'
    BY <1>1, <1>2, <1>5, SafetyGrows
  <2>2. Buffers'
    BY <1>2, <1>7, <2>1, BuffersStay DEF Buffers
  <2>3. RestartsFirst(toClient, ack_received)'
    BY <1>2 DEF RestartsFirst
  <2> QED BY <1>1, <1>2, <1>3, <1>7, <2>2, <2>3, PipeStays
<1> QED BY <1>6, <1>7 DEF alarm_query, encrypt_send_message

LEMMA InvSendAllAcks == ASSUME Inv, send_all_acks PROVE Inv'
<1> USE DEF Inv
<1>1. TypeOK'
  BY TypeStep DEF Next
<1> DEFINE m == [kind |-> "acks", ids |-> ack_tree, salt |-> server_salt]
<1>2. /\ timer_tree' = timer_tree \ {AckEvent} /\ ack_tree' = {}
      /\ out' = Append(out, m)
      /\ UNCHANGED <<queries_tree, ack_received, last_query, calls, aborted,
                     toServer, toClient, received, answered, unacked>>
  BY DEF send_all_acks, encrypt_send_message, server
<1>3. CallsMatch' /\ ServerKnows' /\ AckedAreReceived' /\ ForgottenAreUsed'
        /\ AcksAreUsed' /\ NoAbort'
  BY <1>2 DEF CallsMatch, ServerKnows, AckedAreReceived, ForgottenAreUsed,
              AcksAreUsed, NoAbort
<1>4. TimersMatch'
  <2>1. AckEvent \notin queries_tree
    BY DEF TypeOK, AckEvent, Ids
  <2> QED BY <1>2, <2>1 DEF TimersMatch
<1>5. m \in ClientMessage /\ m \in SafelySent' /\ m.kind # "query"
  <2>1. m \in ClientMessage
    BY SentAreTyped
  <2> QED BY <1>2, <2>1 DEF SafelySent, AcksAreUsed
<1>6. last_query <= last_query'
  BY <1>2 DEF TypeOK
<1> QED BY <1>1, <1>2, <1>3, <1>4, <1>5, <1>6, InvAppend

-----------------------------------------------------------------------------
(* The steps of the connection: nothing overtakes, and what is lost is     *)
(* lost whole.                                                             *)

(* What a step that leaves the client's queries alone keeps. *)
LEMMA ClientStays ==
  ASSUME Inv, UNCHANGED client, UNCHANGED <<received, answered, unacked>>
  PROVE  /\ CallsMatch' /\ TimersMatch' /\ ServerKnows' /\ AckedAreReceived'
         /\ ForgottenAreUsed' /\ AcksAreUsed' /\ NoAbort'
         /\ SafelySent' = SafelySent /\ SafelyReplied' = SafelyReplied
BY DEF Inv, client, CallsMatch, TimersMatch, ServerKnows, AckedAreReceived,
       ForgottenAreUsed, AcksAreUsed, NoAbort, SafelySent, SafelyReplied

LEMMA InvTryWrite == ASSUME Inv, try_write PROVE Inv'
<1> USE DEF Inv
<1>1. TypeOK'
  BY TypeStep DEF Next
<1>2. UNCHANGED client /\ UNCHANGED <<received, answered, unacked, toClient>>
  BY DEF try_write, server
<1>3. PICK n \in 1 .. Len(out) :
        /\ toServer' = toServer \o SubSeq(out, 1, n)
        /\ out' = SubSeq(out, n + 1, Len(out))
  BY DEF try_write
<1>4. \A i \in 1 .. Len(out) : out[i] \in SafelySent
  BY ElementOfSeq DEF Buffers
<1>5. SubSeq(out, 1, n) \in Seq(SafelySent) /\ out' \in Seq(SafelySent)
  BY <1>3, <1>4, SubSeqProperties, LenProperties DEF Buffers
<1>6. toServer' \in Seq(SafelySent)
  BY <1>3, <1>5, ConcatProperties DEF Buffers
<1>7. Buffers'
  BY <1>2, <1>5, <1>6, ClientStays DEF Buffers
<1>8. FirstSendings(Pipe, received)'
  BY <1>2, PipeWritten
<1>9. RestartsFirst(toClient, ack_received)'
  BY <1>2 DEF RestartsFirst, client
<1> QED BY <1>1, <1>2, <1>7, <1>8, <1>9, ClientStays

LEMMA InvFailAlarm == ASSUME Inv, fail_alarm PROVE Inv'
<1> USE DEF Inv
<1>1. TypeOK'
  BY TypeStep DEF Next
<1>2. /\ UNCHANGED client
      /\ UNCHANGED <<received, answered, unacked, toClient, toServer>>
      /\ out' = Append(out, Marker)
  BY DEF fail_alarm, server
<1>3. Marker \in SafelySent' /\ Marker \in ClientMessage /\ Marker.kind # "query"
  BY <1>2, ClientStays, MarkerIsSafe, ConstantsAreTyped DEF Marker
<1>4. last_query <= last_query' /\ UNCHANGED <<calls, ack_received>>
  BY <1>2 DEF client, TypeOK
<1> QED BY <1>1, <1>2, <1>3, <1>4, ClientStays, InvAppend

LEMMA InvFailConnection ==
  ASSUME Inv, TypeOK', NEW r \in BOOLEAN, fail_connection(r)
  PROVE  Inv'
<1> USE DEF Inv
<1>1. /\ UNCHANGED client /\ UNCHANGED <<received, answered, unacked>>
      /\ toServer' = <<>> /\ toClient' = <<>>
      /\ out' = <<Marker>> \/ out' = <<>>
  BY DEF fail_connection, server
<1>2. Buffers'
  BY <1>1, ClientStays, MarkerIsSafe, ConstantsAreTyped DEF Buffers
<1>3. RestartsFirst(toClient, ack_received)'
  BY <1>1, EmptySeq DEF RestartsFirst
<1>4. FirstSendings(Pipe, received)'
  <2>1. Pipe' = <<Marker>> \/ Pipe' = <<>>
    <3>1. Pipe' = <<>> \o out'
      BY <1>1 DEF Pipe
    <3> QED BY <1>1, <3>1, ConcatEmptySeq, ConstantsAreTyped
  <2> QED BY <2>1, EmptySeq DEF FirstSendings, Marker
<1> QED BY <1>1, <1>2, <1>3, <1>4, ClientStays

LEMMA InvLoses ==
  ASSUME Inv, NEW r \in BOOLEAN, NetworkBreaks(r) \/ ServerCloses(r)
  PROVE  Inv'
<1>1. TypeOK'
  BY TypeStep DEF Next, Inv
<1> QED BY <1>1, InvFailConnection DEF NetworkBreaks, ServerCloses

-----------------------------------------------------------------------------
(* The steps of the server. *)

LEMMA InvServerReceive == ASSUME Inv, ServerReceive PROVE Inv'
<1> DEFINE m == Head(toServer)
<1> USE DEF Inv
<1>1. TypeOK'
  BY TypeStep DEF Next
<1>2. /\ UNCHANGED client /\ UNCHANGED <<out, salt, answered>>
      /\ toServer # <<>> /\ toServer' = Tail(toServer)
  BY DEF ServerReceive
<1>3. /\ UNCHANGED <<queries_tree, ack_received, timer_tree, last_query,
                     ack_tree, calls, aborted>>
  BY <1>2 DEF client
<1>4. m \in SafelySent /\ m \in ClientMessage /\ toServer' \in Seq(SafelySent)
  BY <1>2, HeadTailProperties DEF Buffers, SafelySent
<1>5. m.kind \in {"marker", "query", "container", "acks"}
  BY <1>4 DEF ClientMessage, Marker
<1>6. Pipe # <<>> /\ Head(Pipe) = m /\ Pipe' = Tail(Pipe)
  BY <1>2, PipeRead
<1>7. /\ CallsMatch' /\ TimersMatch' /\ AcksAreUsed' /\ NoAbort'
  BY <1>3 DEF CallsMatch, TimersMatch, AcksAreUsed, NoAbort
<1>8. FirstSendings(Pipe, received') => FirstSendings(Pipe, received)'
  <2>1. Pipe \in Seq(ClientMessage)
    BY PipeTyped
  <2> QED BY <1>6, <2>1, FirstSendingsTail
(* A message that only moves acks, or nothing. *)
<1>9. ASSUME UNCHANGED <<toClient, received>>, unacked' \subseteq unacked,
             \A q \in unacked \ unacked' : calls[q] = 1
      PROVE  Inv'
  <2>1. ServerKnows' /\ AckedAreReceived' /\ ForgottenAreUsed'
    BY <1>2, <1>3, <1>9, <1>1
    DEF ServerKnows, AckedAreReceived, ForgottenAreUsed, TypeOK
  <2>2. Buffers'
    <3>1. SafelySent' = SafelySent /\ SafelyReplied' = SafelyReplied
      BY <1>2, <1>3, <1>9 DEF SafelySent, SafelyReplied
    <3> QED BY <1>2, <1>4, <1>9, <3>1 DEF Buffers
  <2>3. FirstSendings(Pipe, received)'
    BY <1>8, <1>9
  <2>4. RestartsFirst(toClient, ack_received)'
    BY <1>3, <1>9 DEF RestartsFirst
  <2> QED BY <1>1, <1>7, <2>1, <2>2, <2>3, <2>4
(* An old salt: the reply names the query only if this is its first sending. *)
<1>10. ASSUME NEW envelope \in {m.salt, salt}, m.kind # "marker",
              toClient' = Append(toClient,
                BadSalt(IF m.kind = "query" THEN m.id ELSE Other, envelope)),
              UNCHANGED <<received, unacked>>
       PROVE  Inv'
  <2> DEFINE id == IF m.kind = "query" THEN m.id ELSE Other
             b == BadSalt(id, envelope)
  <2>1. envelope \in Salts /\ id \in Ids \cup {Other}
    BY <1>4, <1>5, <1>10 DEF ClientMessage, Marker, TypeOK
  <2>2. b \in ServerMessage /\ b.kind = "bad_server_salt" /\ b.id = id
    BY <2>1 DEF BadSalt, ServerMessage, TypeOK
  <2>3. b \in SafelyReplied
    BY <2>2 DEF SafelyReplied
  <2>4. SafelySent' = SafelySent /\ SafelyReplied' = SafelyReplied
    BY <1>2, <1>3, <1>10 DEF SafelySent, SafelyReplied
  <2>5. Buffers'
    BY <1>2, <1>4, <1>10, <2>3, <2>4, AppendProperties DEF Buffers
  <2>6. id \notin received
    <3>1. CASE m.kind = "query"
      <4>1. 1 \in 1 .. Len(Pipe) /\ Pipe[1] = m
        BY <1>6, PipeTyped, EmptySeq
      <4> QED BY <3>1, <4>1 DEF FirstSendings
    <3>2. CASE m.kind # "query"
      BY <3>2 DEF TypeOK, Other, Ids
    <3> QED BY <3>1, <3>2
  <2>7. RestartsFirst(toClient, ack_received)'
    <3>1. id \notin ack_received
      BY <2>6 DEF AckedAreReceived
    <3>2. ASSUME NEW j \in 1 .. Len(toClient), toClient[j].kind = "msgs_ack"
          PROVE  toClient[j].id # id
      <4>1. toClient[j] \in SafelyReplied
        BY ElementOfSeq DEF Buffers
      <4> QED BY <2>6, <3>2, <4>1 DEF SafelyReplied
    <3>3. RestartsFirst(Append(toClient, b), ack_received)
      BY <2>2, <3>1, <3>2, RestartsFirstAppend DEF TypeOK
    <3> QED BY <1>3, <1>10, <3>3
  <2>8. ServerKnows' /\ AckedAreReceived' /\ ForgottenAreUsed'
    BY <1>2, <1>3, <1>10 DEF ServerKnows, AckedAreReceived, ForgottenAreUsed
  <2>9. FirstSendings(Pipe, received)'
    BY <1>8, <1>10
  <2> QED BY <1>1, <1>7, <2>5, <2>7, <2>8, <2>9
(* A query is accepted, and perhaps acknowledged. *)
<1>11. CASE m.kind \in {"query", "container"} /\ ServerAccepts(m.id)
  <2>1. m.id \in Ids /\ m.id <= last_query
    BY <1>4, <1>11 DEF ClientMessage, Marker, SafelySent
  <2>2. received' = received \cup {m.id} /\ UNCHANGED unacked
    BY <1>11 DEF ServerAccepts
  <2>3. SafelySent' = SafelySent /\ SafelyReplied \subseteq SafelyReplied'
    BY <1>2, <1>3, <2>2 DEF SafelySent, SafelyReplied
  <2> DEFINE a == [kind |-> "msgs_ack", id |-> m.id, salt |-> salt]
  <2>4. a \in ServerMessage /\ a \in SafelyReplied' /\ a.kind # "bad_server_salt"
    <3>1. a \in ServerMessage
      BY <2>1 DEF ServerMessage, TypeOK
    <3> QED BY <2>2, <3>1 DEF SafelyReplied
  <2>5. toClient' = toClient \/ toClient' = Append(toClient, a)
    BY <1>11 DEF ServerAccepts
  <2>6. toClient \in Seq(SafelyReplied')
    BY <2>3, SeqMonotonic DEF Buffers
  <2>7. toClient' \in Seq(SafelyReplied')
    BY <2>4, <2>5, <2>6, AppendProperties
  <2>8. Buffers'
    BY <1>2, <1>4, <2>3, <2>7 DEF Buffers
  <2>9. RestartsFirst(toClient, ack_received)'
    <3>1. RestartsFirst(Append(toClient, a), ack_received)
      BY <2>4, RestartsFirstAppend DEF TypeOK
    <3> QED BY <1>3, <2>5, <3>1 DEF RestartsFirst
  <2>10. ServerKnows' /\ AckedAreReceived' /\ ForgottenAreUsed'
    BY <1>2, <1>3, <2>1, <2>2
    DEF ServerKnows, AckedAreReceived, ForgottenAreUsed
  <2>11. FirstSendings(Pipe, received)'
    <3>1. Pipe \in Seq(ClientMessage)
      BY PipeTyped
    <3>2. \A q \in received' : q \in received
            \/ (Head(Pipe).kind \in {"query", "container"} /\ q = Head(Pipe).id)
      BY <1>6, <1>11, <2>2
    <3> QED BY <1>6, <3>1, <3>2, FirstSendingsTail
  <2> QED BY <1>1, <1>7, <2>8, <2>9, <2>10, <2>11
<1>12. CASE m.kind = "acks" /\ unacked' = unacked \ m.ids
              /\ UNCHANGED <<toClient, received>>
  <2>1. \A q \in unacked \ unacked' : calls[q] = 1
    BY <1>4, <1>12 DEF SafelySent, TypeOK
  <2> QED BY <1>9, <1>12, <2>1
<1>13. CASE UNCHANGED <<toClient, received, unacked>>
  BY <1>9, <1>13
<1> QED
  BY <1>5, <1>10, <1>11, <1>12, <1>13 DEF ServerReceive, ServerReads

LEMMA InvServerExecutes ==
  ASSUME Inv, NEW q \in Ids, ServerExecutes(q) PROVE Inv'
<1> USE DEF Inv
<1>1. TypeOK'
  BY TypeStep DEF Next
<1>2. /\ q \in received /\ q \notin answered
      /\ answered' = answered \cup {q} /\ unacked' = unacked \cup {q}
      /\ UNCHANGED <<queries_tree, ack_received, timer_tree, last_query,
                     ack_tree, calls, aborted, out, toServer, toClient,
                     received>>
  BY DEF ServerExecutes, client, link
<1>3. CallsMatch' /\ TimersMatch' /\ ServerKnows' /\ AckedAreReceived'
        /\ ForgottenAreUsed' /\ AcksAreUsed' /\ NoAbort'
  BY <1>2 DEF CallsMatch, TimersMatch, ServerKnows, AckedAreReceived,
              ForgottenAreUsed, AcksAreUsed, NoAbort
<1>4. SafelySent' = SafelySent /\ SafelyReplied \subseteq SafelyReplied'
  BY <1>2 DEF SafelySent, SafelyReplied
<1>5. Buffers'
  BY <1>2, <1>4, SeqMonotonic DEF Buffers
<1>6. RestartsFirst(toClient, ack_received)'
  BY <1>2 DEF RestartsFirst
<1> QED BY <1>1, <1>2, <1>3, <1>5, <1>6, PipeStays

LEMMA InvServerDelivers ==
  ASSUME Inv, NEW q \in Ids, ServerDelivers(q) PROVE Inv'
<1> DEFINE a == [kind |-> "rpc_result", id |-> q, salt |-> salt]
<1> USE DEF Inv
<1>1. TypeOK'
  BY TypeStep DEF Next
<1>2. /\ q \in unacked /\ toClient' = Append(toClient, a)
      /\ UNCHANGED client
      /\ UNCHANGED <<out, toServer, received, answered, unacked>>
  BY DEF ServerDelivers, server
<1>3. a \in ServerMessage /\ a \in SafelyReplied /\ a.kind # "bad_server_salt"
  <2>1. a \in ServerMessage
    BY DEF ServerMessage, TypeOK
  <2> QED BY <1>2, <2>1 DEF SafelyReplied, ServerKnows
<1>4. Buffers'
  BY <1>2, <1>3, ClientStays, AppendProperties DEF Buffers
<1>5. RestartsFirst(toClient, ack_received)'
  <2>1. RestartsFirst(Append(toClient, a), ack_received)
    BY <1>3, RestartsFirstAppend DEF TypeOK
  <2> QED BY <1>2, <2>1 DEF client
<1> QED BY <1>1, <1>2, <1>4, <1>5, ClientStays, PipeStays

(* Steps that touch nothing the invariant speaks of. *)
LEMMA InvOther ==
  ASSUME Inv, ServerChangesSalt \/ UNCHANGED vars PROVE Inv'
<1> USE DEF Inv
<1>1. TypeOK'
  BY TypeStep DEF Next
<1>2. UNCHANGED client
        /\ UNCHANGED <<out, toServer, toClient, received, answered, unacked>>
  BY DEF ServerChangesSalt, vars, link, server
<1>3. Buffers' /\ RestartsFirst(toClient, ack_received)'
  BY <1>2, ClientStays DEF Buffers, RestartsFirst, client
<1> QED BY <1>1, <1>2, <1>3, ClientStays, PipeStays

LEMMA InvStep == Inv /\ [Next]_vars => Inv'
<1> SUFFICES ASSUME Inv, [Next]_vars PROVE Inv'
  OBVIOUS
<1>1. CASE process_rpc_message
  BY <1>1, InvAck, InvResult, InvBadSalt DEF process_rpc_message
<1>2. ASSUME NEW q \in Ids,
             alarm_query(q) \/ ServerExecutes(q) \/ ServerDelivers(q)
      PROVE  Inv'
  BY <1>2, InvAlarmQuery, InvServerExecutes, InvServerDelivers
<1>3. ASSUME NEW r \in BOOLEAN, NetworkBreaks(r) \/ ServerCloses(r)
      PROVE  Inv'
  BY <1>3, InvLoses
<1> QED
  BY <1>1, <1>2, <1>3, InvSendQuery, InvSendAllAcks, InvTryWrite, InvFailAlarm,
     InvServerReceive, InvOther DEF Next

LEMMA Invariance == SafetySpec => []Inv
BY InvInit, InvStep, PTL DEF SafetySpec

-----------------------------------------------------------------------------
(* What the invariant says of the code. *)

(* No insertion or removal of a timer by query_ack, query_result,          *)
(* query_error or query_restart ever meets the assertions of tree.h.       *)
THEOREM NeverAborts == SafetySpec => []NoAbort
BY Invariance, PTL DEF Inv

(* The timer tree holds exactly the timers of the pending queries that are *)
(* not acknowledged, and the session's while acks are owed.                *)
THEOREM TimersAlwaysMatch == SafetySpec => []TimersMatch
BY Invariance, PTL DEF Inv

(* A query whose retransmission query_ack has stopped is at the server. *)
THEOREM AckedAlwaysReceived == SafetySpec => []AckedAreReceived
BY Invariance, PTL DEF Inv

(* An answer the server has been told to forget has run its callback. *)
THEOREM ForgottenAlwaysUsed == SafetySpec => []ForgottenAreUsed
BY Invariance, PTL DEF Inv

-----------------------------------------------------------------------------
(* The counter. *)

LEMMA QueriesAreFinite == ASSUME TypeOK PROVE IsFiniteSet(queries_tree)
<1>1. IsFiniteSet(Ids)
  BY MaxQueriesAssumption, FS_Interval DEF Ids
<1> QED BY <1>1, FS_Subset DEF TypeOK

LEMMA NumStep ==
  Inv /\ QueriesNumNotAbove /\ [Next]_vars => QueriesNumNotAbove'
<1> SUFFICES ASSUME Inv, QueriesNumNotAbove, [Next]_vars
             PROVE  QueriesNumNotAbove'
  OBVIOUS
<1> USE DEF QueriesNumNotAbove
<1>1. IsFiniteSet(queries_tree) /\ Cardinality(queries_tree) \in Nat
        /\ queries_num \in Int
  BY QueriesAreFinite, FS_CardinalityType DEF Inv, TypeOK
<1>2. CASE send_query
  <2>1. last_query + 1 \notin queries_tree
    BY DEF Inv, TypeOK, CallsMatch
  <2>2. /\ queries_tree' = queries_tree \cup {last_query + 1}
        /\ queries_num' = queries_num + 1
    BY <1>2 DEF send_query
  <2>3. Cardinality(queries_tree') = Cardinality(queries_tree) + 1
    BY <1>1, <2>1, <2>2, FS_AddElement
  <2> QED BY <1>1, <2>2, <2>3
<1>3. CASE process_rpc_message
  <2> DEFINE m == Head(toClient)
  <2>1. CASE work_rpc_result(m, TimersAfterInsert)
    <3>1. queries_num' = IF queries_num > -NumFloor THEN queries_num - 1
                                                    ELSE queries_num
      BY <2>1 DEF work_rpc_result, query_result
    <3>2. \/ queries_tree' = queries_tree
          \/ m.id \in queries_tree /\ queries_tree' = queries_tree \ {m.id}
      BY <2>1 DEF work_rpc_result, query_result
    <3>3. /\ Cardinality(queries_tree') >= Cardinality(queries_tree) - 1
          /\ Cardinality(queries_tree') \in Nat
      <4>1. CASE queries_tree' = queries_tree
        BY <1>1, <4>1
      <4>2. CASE m.id \in queries_tree /\ queries_tree' = queries_tree \ {m.id}
        <5>1. /\ IsFiniteSet(queries_tree \ {m.id})
              /\ Cardinality(queries_tree \ {m.id})
                   = Cardinality(queries_tree) - 1
          BY <1>1, <4>2, FS_RemoveElement
        <5>2. Cardinality(queries_tree \ {m.id}) \in Nat
          BY <5>1, FS_CardinalityType
        <5> QED BY <1>1, <4>2, <5>1, <5>2
      <4> QED BY <3>2, <4>1, <4>2
    <3> QED BY <1>1, <3>1, <3>3, BoundsAssumption
  <2>2. CASE UNCHANGED <<queries_tree, queries_num>>
    BY <2>2
  <2> QED
    BY <1>3, <2>1, <2>2
    DEF process_rpc_message, work_msgs_ack, query_ack, work_bad_server_salt,
        query_restart
<1>4. CASE UNCHANGED <<queries_tree, queries_num>>
  BY <1>4
<1> QED
  BY <1>2, <1>3, <1>4
  DEF Next, vars, client, link, alarm_query, send_all_acks, try_write,
      fail_alarm, NetworkBreaks, ServerCloses, fail_connection, ServerReceive,
      ServerExecutes, ServerDelivers, ServerChangesSalt

(* queries_num never exceeds the number of pending queries, so an answer   *)
(* counted twice can only make "All done" come early, never fail to come.  *)
THEOREM QueriesNumAlwaysNotAbove == SafetySpec => []QueriesNumNotAbove
<1>1. Init => QueriesNumNotAbove
  BY FS_EmptySet DEF Init, QueriesNumNotAbove
<1> QED BY <1>1, Invariance, NumStep, PTL DEF SafetySpec

(* Timers, acknowledgements and the counter together: whatever comes in    *)
(* whichever order, work_timers and net_loop find them as they rely on.    *)
THEOREM TimersAndCountsHold == SafetySpec => []TimersAndCounts
BY TypeCorrect, NeverAborts, TimersAlwaysMatch, QueriesNumAlwaysNotAbove, PTL
   DEF TimersAndCounts

(* Neither the client nor the server gives up what the other still needs.  *)
THEOREM ServerAlwaysAgrees == SafetySpec => []ServerAgrees
BY AckedAlwaysReceived, ForgottenAlwaysUsed, PTL DEF ServerAgrees

-----------------------------------------------------------------------------
(* The refinement. *)

LEMMA PromiseInit == Init => Promise!Init
<1> SUFFICES ASSUME Init PROVE Promise!Init
  OBVIOUS
<1>1. \A q \in Ids : Status(q) = "new"
  BY DEF Init, Ids, Status
<1> QED BY <1>1 DEF Init, Promise!Init, StatusMap

(* A step that leaves every other query alone changes the map at p only.   *)
LEMMA StatusMoves ==
  ASSUME NEW p \in Ids, \A q \in Ids \ {p} : Status(q)' = Status(q)
  PROVE  StatusMap' = [StatusMap EXCEPT ![p] = Status(p)']
BY DEF StatusMap

LEMMA PromiseStep ==
  ASSUME Inv, Inv', [Next]_vars
  PROVE  [Promise!Next]_(Promise!vars)
<1> USE DEF Inv
<1>0. \A q \in Ids : q \in Int /\ AckEvent # q
  BY DEF Ids, AckEvent
<1>1. CASE send_query
  <2>0. last_query + 1 \in Ids
    BY <1>1, MaxQueriesAssumption DEF send_query, TypeOK, Ids
  <2> PICK p \in Ids : p = last_query + 1
    BY <2>0
  <2>1. /\ p = last_query + 1 /\ last_query \in Int /\ last_query' = p
        /\ UNCHANGED <<calls, answered>>
    BY <1>1 DEF send_query, server, TypeOK
  <2>2. calls[p] = 0
    BY <2>1 DEF CallsMatch
  <2>3. Status(p) = "new" /\ Status(p)' = "pending"
    BY <2>1, <2>2 DEF Status
  <2>4. \A q \in Ids \ {p} : Status(q)' = Status(q)
    <3>1. \A q \in Ids \ {p} : q > last_query' <=> q > last_query
      BY <1>0, <2>1
    <3> QED BY <2>1, <3>1 DEF Status
  <2>5. Promise!Send(p)
    BY <2>1, <2>3, <2>4, StatusMoves DEF Promise!Send, StatusMap
  <2> QED BY <2>1, <2>5 DEF Promise!Next
<1>2. ASSUME process_rpc_message,
             work_rpc_result(Head(toClient), TimersAfterInsert)
      PROVE  [Promise!Next]_(Promise!vars)
  <2>0. Head(toClient).id \in answered \cap Ids
    BY <1>2, HeadIsSafe
    DEF process_rpc_message, work_rpc_result, SafelyReplied, TypeOK
  <2> PICK p \in Ids : p = Head(toClient).id
    BY <2>0
  <2>1. /\ p = Head(toClient).id /\ p \in answered /\ p <= last_query
        /\ last_query \in Int
        /\ UNCHANGED <<last_query, answered>>
    BY <1>2, <2>0 DEF process_rpc_message, TypeOK, ServerKnows, server
  <2>2. CASE p \in queries_tree
    <3>1. calls[p] = 0 /\ calls' = [calls EXCEPT ![p] = @ + 1]
      BY <1>2, <2>1, <2>2 DEF work_rpc_result, query_result, CallsMatch
    <3>2. calls'[p] = 1 /\ \A q \in Ids \ {p} : calls'[q] = calls[q]
      BY <2>1, <3>1 DEF TypeOK
    <3>3. Status(p) = "pending" /\ Status(p)' = "answered"
      BY <1>0, <2>1, <3>1, <3>2 DEF Status
    <3>4. \A q \in Ids \ {p} : Status(q)' = Status(q)
      BY <2>1, <3>2 DEF Status
    <3>5. Promise!Answer(p)
      BY <2>1, <3>3, <3>4, StatusMoves DEF Promise!Answer, StatusMap
    <3> QED BY <2>1, <3>5 DEF Promise!Next
  <2>3. CASE p \notin queries_tree
    <3>1. UNCHANGED calls
      BY <1>2, <2>3 DEF work_rpc_result, query_result
    <3> QED BY <2>1, <3>1 DEF Promise!vars, StatusMap, Status
  <2> QED BY <2>2, <2>3
<1>3. ASSUME NEW p \in Ids, ServerExecutes(p)
      PROVE  [Promise!Next]_(Promise!vars)
  <2>1. /\ p \in received /\ p \notin answered /\ answered' = answered \cup {p}
        /\ UNCHANGED <<last_query, calls>>
    BY <1>3 DEF ServerExecutes, client
  <2>2. p <= last_query /\ calls[p] # 1
    BY <2>1 DEF ServerKnows
  <2>3. p \in queries_tree /\ calls[p] = 0
    BY <2>2 DEF CallsMatch
  <2>4. Status(p) = "pending"
    BY <1>0, <2>2, <2>3 DEF Status, TypeOK
  <2>5. UNCHANGED StatusMap /\ StatusMap[p] = "pending"
    BY <2>1, <2>4 DEF StatusMap, Status
  <2>6. Promise!CarryOut(p)
    BY <2>1, <2>5 DEF Promise!CarryOut
  <2> QED BY <2>6 DEF Promise!Next
<1>4. CASE UNCHANGED <<last_query, calls, answered>>
  BY <1>4 DEF Promise!vars, StatusMap, Status
<1> QED
  BY <1>1, <1>2, <1>3, <1>4
  DEF Next, vars, client, link, server, alarm_query, send_all_acks, try_write,
      fail_alarm, NetworkBreaks, ServerCloses, fail_connection, ServerReceive,
      ServerDelivers, ServerChangesSalt, process_rpc_message, work_msgs_ack,
      query_ack, work_bad_server_salt, query_restart

(* The query layer implements the safety part of Rpc: each query is        *)
(* carried out and answered at most once, in this order.                   *)
THEOREM ImplementsRpcSafety == SafetySpec => RpcSafety
<1>1. Inv /\ Inv' /\ [Next]_vars => [Promise!Next]_(Promise!vars)
  BY PromiseStep
<1> QED
  BY <1>1, PromiseInit, Invariance, PTL
  DEF SafetySpec, RpcSafety, Promise!SafetySpec

=============================================================================
