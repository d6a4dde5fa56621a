--------------------------- MODULE MessagesProofs ---------------------------
(***************************************************************************)
(* Proofs of SentOnce, TreesSound and NoneAstray of Messages, for any      *)
(* number of messages and of crashes.                                      *)
(*                                                                         *)
(* SentOnce needs little: a message waits under its own random id only, in *)
(* memory, in every memory that the log gives, and in every request.  The  *)
(* other two hold with a server that refuses a random id it has seen.      *)
(* They need that the log gives the memory there is, and that a query has  *)
(* one request or one answer on its way, whose message is nowhere yet.     *)
(***************************************************************************)
EXTENDS Messages, Integers, FiniteSetTheorems, SequenceTheorems,
        WellFoundedInduction, TLAPS

Memory ==
  [tree : SUBSET Structs, id : [Structs -> Ids \cup {NoId}], unsent : SUBSET Structs,
   pending : SUBSET Structs, used : SUBSET Structs, peers : SUBSET Structs,
   freed : SUBSET Structs, fault : BOOLEAN]

(* The records that the client writes.                                     *)
Sending(t) == [op |-> "send_message_text", struct |-> Own(t), id |-> Random(t)]
Records ==
  {Sending(t) : t \in Texts} \cup {Created(n) : n \in 1 .. MaxHistory}
    \cup [op : {"set_msg_id"}, id : Ids \cup {NoId}, new : Ids \cup {NoId}]
    \cup [op : {"set_message_sent", "delete_msg"}, id : Ids \cup {NoId}]

(* What waits to be sent waits under its own random id.                    *)
OwnIds(d) ==
  /\ d \in Memory /\ d.unsent = d.pending
  /\ \A o \in d.unsent : o \in {Own(t) : t \in Texts} /\ d.id[o] = Random(o.of)

Requested(r) == r.struct = Own(r.text) /\ r.random = Random(r.text)
Sent(n) == history[n].random = Random(history[n].text)

Sends ==
  /\ TypeOK /\ OwnIds(m) /\ log \in Seq(Records)
  /\ \A r \in requests : Requested(r)
  /\ \A n \in DOMAIN history : Sent(n)
  /\ SentOnce

(* A message is in all the lists or in none; one that was given back had   *)
(* been sent from here; a message in memory has an id of its own.          *)
Sound(d) ==
  /\ d \in Memory /\ ~d.fault /\ d.used = d.tree /\ d.peers = d.tree
  /\ d.unsent = d.pending /\ d.unsent = {o \in d.tree : d.id[o].sort = "random"}
  /\ d.freed \cap d.tree = {} /\ \A o \in d.freed : o.made = "here"
  /\ \A o \in Structs : d.id[o] = NoId <=> o \notin d.tree \cup d.freed
  /\ \A o \in d.tree : /\ d.id[o].sort = "random" => o = Own(o.of) /\ d.id[o] = Random(o.of)
                       /\ o.made = "there" => d.id[o] = Server(o.of)
  /\ \A o, p \in d.tree : d.id[o] = d.id[p] => o = p

LogIsMemory == Replayed(Nothing, log) = m

Known == \A o \in m.tree : m.id[o].sort = "server" => m.id[o].of \in DOMAIN history

(* A query is about a message that waits, and has one request, or one      *)
(* answer, on its way.                                                     *)
QueriesPending ==
  /\ queries \subseteq m.unsent
  /\ queries = IF phase = "running" THEN m.unsent ELSE {}
  /\ \A r \in requests : r.run <= run /\ (r.run = run => r.struct \in queries)
  /\ \A a \in answers : a.struct \in queries
  /\ \A a \in answers, r \in requests : r.run = run => r.struct # a.struct
  /\ \A a, b \in answers : a.struct = b.struct => a = b
  /\ \A o \in queries : \/ \E r \in requests : r.struct = o /\ r.run = run
                        \/ \E a \in answers : a.struct = o

(* What an answer names is not in memory, and comes in no other way.       *)
Named(a) ==
  \E n \in DOMAIN history :
    /\ a.id = Server(n) /\ a.struct = Own(history[n].text)
    /\ message_get(m, Server(n)) = {}
    /\ [kind |-> "new_message", n |-> n] \notin updates

NewAnswers == \A a \in answers : a.ok => Named(a)

IInv ==
  /\ Sends /\ Sound(m) /\ LogIsMemory /\ Known /\ QueriesPending /\ NewAnswers
  /\ NoneMissed

-----------------------------------------------------------------------------
(* Induction, from the library's theorem that < is well founded on Nat.     *)
LEMMA LeastNumber ==
  ASSUME NEW T \in SUBSET Nat, T # {}
  PROVE  \E x \in T : \A k \in T : x <= k
<1> DEFINE R == OpToRel(<, Nat)
<1>1. IsWellFoundedOn(R, Nat)
  BY NatLessThanWellFounded
<1>2. PICK x \in T : \A k \in T : <<k, x>> \notin R
  <2> HIDE DEF R
  <2>1. QED  BY <1>1, WFMin
<1>3. \A k \in T : x <= k
  <2>1. R = {ss \in Nat \X Nat : ss[1] < ss[2]}
    BY DEF OpToRel
  <2> HIDE DEF R
  <2>2. TAKE k \in T
  <2>3. ~ (k < x)
    BY <1>2, <2>1
  <2>4. k \in Nat /\ x \in Nat
    OBVIOUS
  <2>5. QED  BY <2>3, <2>4
<1>4. QED  BY <1>3

LEMMA Induction ==
  ASSUME NEW T, 0 \in T, \A n \in Nat : n \in T => n + 1 \in T
  PROVE  Nat \subseteq T
<1>1. SUFFICES ASSUME Nat \ T # {} PROVE FALSE
  OBVIOUS
<1>2. PICK x \in Nat \ T : \A k \in Nat \ T : x <= k
  BY <1>1, LeastNumber
<1>3. x - 1 \in Nat
  BY <1>2
<1>4. x - 1 \in T
  BY <1>2, <1>3
<1>5. QED  BY <1>2, <1>3, <1>4

(* FlattenSeq is a recursive function: it has the values that its equation *)
(* gives.                                                                  *)
LEMMA FlattenStep ==
  ASSUME NEW S, NEW N \in Nat \ {0}, NEW s \in [1 .. N -> Seq(S)]
  PROVE  \E f : /\ f = [i \in 1 .. N |-> IF i = 1 THEN s[i] ELSE f[i - 1] \o s[i]]
                /\ FlattenSeq(s) = f[N]
<1> DEFINE Fits(f, n) == f = [i \in 1 .. n |-> IF i = 1 THEN s[i] ELSE f[i - 1] \o s[i]]
           T == {n \in Nat : \E f : Fits(f, n)}
<1>1. 0 \in T
  <2>1. Fits([i \in 1 .. 0 |-> 0], 0)
    OBVIOUS
  <2>2. QED BY <2>1
<1>2. ASSUME NEW n \in Nat, n \in T PROVE n + 1 \in T
  <2>1. PICK f : Fits(f, n)
    BY <1>2
  <2> DEFINE g == [i \in 1 .. n + 1 |-> IF i \in 1 .. n THEN f[i] 
                     ELSE IF i = 1 THEN s[i] ELSE f[i - 1] \o s[i]]
  <2>2. ASSUME NEW i \in 1 .. n + 1 
        PROVE g[i] = IF i = 1 THEN s[i] ELSE g[i - 1] \o s[i]
    <3>1. CASE i \in 1 .. n
      <4>1. g[i] = f[i]
        BY <3>1
      <4>2. f[i] = IF i = 1 THEN s[i] ELSE f[i - 1] \o s[i]
        BY <2>1, <3>1
      <4>3. i # 1 => g[i - 1] = f[i - 1]
        BY <3>1
      <4> HIDE DEF g
      <4>4. QED  BY <4>1, <4>2, <4>3
    <3>2. CASE i = n + 1
      <4>1. g[i] = IF i = 1 THEN s[i] ELSE f[i - 1] \o s[i]
        BY <3>2
      <4>2. i # 1 => g[i - 1] = f[i - 1]
        BY <3>2
      <4> HIDE DEF g
      <4>3. QED  BY <4>1, <4>2
    <3>3. QED  BY <3>1, <3>2
  <2>3. Fits(g, n + 1)
    BY <2>2
  <2>4. \E h : Fits(h, n + 1)
    <3> HIDE DEF g, Fits
    <3>1. QED  BY <2>3
  <2>5. n + 1 \in Nat
    OBVIOUS
  <2> HIDE DEF Fits
  <2>6. QED  BY <2>4, <2>5
<1>3. N \in T
  <2> HIDE DEF T
  <2>1. QED BY <1>1, <1>2, Induction
<1>4. PICK f : Fits(f, N)
  BY <1>3
<1> DEFINE c == CHOOSE f1 : Fits(f1, N)
<1>5. Fits(c, N)
  BY <1>4
<1>6. Len(s) = N /\ N # 0
  BY LenProperties
<1>7. FlattenSeq(s) = c[N]
  BY <1>6 DEF FlattenSeq
<1> HIDE DEF c
<1>8. QED  BY <1>5, <1>7

(* The elements of a sequence.                                             *)
LEMMA ToSetIs ==
  ASSUME NEW S, NEW q \in Seq(S)
  PROVE  /\ ToSet(q) = {q[k] : k \in 1 .. Len(q)}
         /\ ToSet(q) \subseteq S
<1>1. DOMAIN q = 1 .. Len(q) /\ q \in [1 .. Len(q) -> S]
  BY LenProperties
<1>2. ToSet(q) = {q[k] : k \in 1 .. Len(q)}
  BY <1>1 DEF ToSet
<1>3. QED  BY <1>1, <1>2

-----------------------------------------------------------------------------
(* Replaying records.                                                      *)

(* Replayed is a recursive function: it has the values that its equation   *)
(* gives.                                                                  *)
Steps(f, d, q) ==
  f[0] = d /\ \A k \in 1 .. Len(q) : f[k] = replay_log_event(f[k - 1], q[k])

LEMMA ReplaySteps ==
  ASSUME NEW S, NEW d, NEW q \in Seq(S)
  PROVE  \E f : Steps(f, d, q) /\ Replayed(d, q) = f[Len(q)]
<1> DEFINE After(f, k) == IF k = 0 THEN d ELSE replay_log_event(f[k - 1], q[k])
           Fits(f, n) == f = [k \in 0 .. n |-> After(f, k)]
           T == {n \in Nat : \E f : Fits(f, n)}
<1>1. 0 \in T
  <2> DEFINE g == [k \in 0 .. 0 |-> d]
  <2>1. \A k \in 0 .. 0 : After(g, k) = d
    OBVIOUS
  <2>2. Fits(g, 0)
    <3> HIDE DEF After
    <3>1. QED  BY <2>1
  <2>3. QED  BY <2>2
<1>2. ASSUME NEW n \in Nat, n \in T PROVE n + 1 \in T
  <2>1. PICK f : Fits(f, n)
    BY <1>2
  <2> DEFINE g == [k \in 0 .. n + 1 |-> IF k \in 0 .. n THEN f[k] ELSE After(f, k)]
  <2>2. ASSUME NEW k \in 0 .. n + 1 PROVE g[k] = After(g, k)
    <3>1. CASE k \in 0 .. n
      <4>1. g[k] = f[k] /\ (k # 0 => g[k - 1] = f[k - 1])
        BY <3>1
      <4>2. f[k] = After(f, k)
        <5> HIDE DEF After
        <5>1. QED  BY <2>1, <3>1
      <4>3. After(g, k) = After(f, k)
        BY <4>1
      <4> HIDE DEF g, After
      <4>4. QED  BY <4>1, <4>2, <4>3
    <3>2. CASE k = n + 1
      <4>1. g[k] = After(f, k)
        <5> HIDE DEF After
        <5>1. QED  BY <3>2
      <4>2. g[k - 1] = f[k - 1]
        BY <3>2
      <4>3. After(g, k) = After(f, k)
        BY <4>2
      <4> HIDE DEF g, After
      <4>4. QED  BY <4>1, <4>3
    <3>3. QED  BY <3>1, <3>2
  <2>3. Fits(g, n + 1)
    <3>1. g = [k \in 0 .. n + 1 |-> g[k]]
      OBVIOUS
    <3> HIDE DEF g, After
    <3>2. QED  BY <2>2, <3>1
  <2>4. \E h : Fits(h, n + 1)
    <3> HIDE DEF g, Fits
    <3>1. QED  BY <2>3
  <2>5. n + 1 \in Nat
    OBVIOUS
  <2> HIDE DEF Fits
  <2>6. QED  BY <2>4, <2>5
<1>3. Len(q) \in Nat
  BY LenProperties
<1>4. Len(q) \in T
  <2> HIDE DEF T
  <2>1. QED BY <1>1, <1>2, <1>3, Induction
<1>5. PICK f : Fits(f, Len(q))
  BY <1>4
<1> DEFINE c == CHOOSE f1 : Fits(f1, Len(q))
<1>6. Fits(c, Len(q))
  <2> HIDE DEF Fits
  <2>1. QED  BY <1>5
<1>7. Replayed(d, q) = c[Len(q)]
  BY DEF Replayed
<1> HIDE DEF c
<1>8. \A k \in 0 .. Len(q) : c[k] = After(c, k)
  <2> HIDE DEF After
  <2>1. QED  BY <1>6
<1>9. Steps(c, d, q)
  BY <1>3, <1>8 DEF Steps
<1>10. QED  BY <1>7, <1>9

LEMMA ReplayNone == \A d : Replayed(d, <<>>) = d
<1>1. ASSUME NEW d PROVE Replayed(d, <<>>) = d
  <2>1. <<>> \in Seq({}) /\ Len(<<>>) = 0
    OBVIOUS
  <2> DEFINE q == <<>>
  <2> HIDE DEF q
  <2>2. PICK f : Steps(f, d, q) /\ Replayed(d, q) = f[Len(q)]
    <3>1. q \in Seq({})
      BY <2>1 DEF q
    <3>2. QED  BY <3>1, ReplaySteps
  <2>3. QED  BY <2>1, <2>2 DEF q, Steps
<1>2. QED  BY <1>1

LEMMA ReplayOne == \A d, r : Replayed(d, <<r>>) = replay_log_event(d, r)
<1>1. ASSUME NEW d, NEW r PROVE Replayed(d, <<r>>) = replay_log_event(d, r)
  <2> DEFINE q == <<r>>
  <2>1. q \in Seq({r}) /\ Len(q) = 1 /\ q[1] = r
    OBVIOUS
  <2> HIDE DEF q
  <2>2. PICK f : Steps(f, d, q) /\ Replayed(d, q) = f[Len(q)]
    BY <2>1, ReplaySteps
  <2>3. f[1] = replay_log_event(f[0], q[1])
    <3>1. 1 \in 1 .. Len(q) /\ 1 - 1 = 0
      BY <2>1
    <3>2. f[1] = replay_log_event(f[1 - 1], q[1])
      BY <2>2, <3>1 DEF Steps
    <3>3. QED  BY <3>1, <3>2
  <2>4. QED  BY <2>1, <2>2, <2>3 DEF q, Steps
<1>2. QED  BY <1>1

LEMMA ReplayConcat ==
  ASSUME NEW S, NEW d, NEW p \in Seq(S), NEW q \in Seq(S)
  PROVE  Replayed(d, p \o q) = Replayed(Replayed(d, p), q)
<1> DEFINE pq == p \o q
           e == Replayed(d, p)
<1>1. /\ pq \in Seq(S) /\ Len(pq) = Len(p) + Len(q) /\ Len(p) \in Nat /\ Len(q) \in Nat
      /\ \A i \in 1 .. Len(p) + Len(q) :
           pq[i] = IF i <= Len(p) THEN p[i] ELSE q[i - Len(p)]
  BY ConcatProperties, LenProperties
<1> HIDE DEF pq
<1>2. PICK h : Steps(h, d, pq) /\ Replayed(d, pq) = h[Len(pq)]
  <2>1. pq \in Seq(S)
    BY <1>1
  <2> HIDE DEF e
  <2>2. QED  BY <2>1, ReplaySteps
<1>3. PICK f : Steps(f, d, p) /\ Replayed(d, p) = f[Len(p)]
  BY ReplaySteps
<1> HIDE DEF e
<1>4. PICK g : Steps(g, e, q) /\ Replayed(e, q) = g[Len(q)]
  BY ReplaySteps
<1> DEFINE T == {n \in Nat : n \in 0 .. Len(p) => h[n] = f[n]}
           U == {n \in Nat : n \in 0 .. Len(q) => h[Len(p) + n] = g[n]}
<1>5. ASSUME NEW n \in Nat, n \in T PROVE n + 1 \in T
  <2>1. SUFFICES ASSUME n + 1 \in 0 .. Len(p) PROVE h[n + 1] = f[n + 1]
    OBVIOUS
  <2>2. n \in 0 .. Len(p) /\ n + 1 \in 1 .. Len(p) /\ n + 1 \in 1 .. Len(pq)
        /\ (n + 1) - 1 = n /\ n + 1 <= Len(p) /\ n + 1 \in 1 .. Len(p) + Len(q)
    BY <1>1, <2>1
  <2>3. h[n] = f[n]
    BY <1>5, <2>2
  <2>4. pq[n + 1] = p[n + 1]
    BY <1>1, <2>2
  <2>5. h[n + 1] = replay_log_event(h[n], pq[n + 1])
    BY <1>2, <2>2 DEF Steps
  <2>6. f[n + 1] = replay_log_event(f[n], p[n + 1])
    BY <1>3, <2>2 DEF Steps
  <2>7. QED  BY <2>3, <2>4, <2>5, <2>6
<1>6. 0 \in T
  BY <1>3, <1>2 DEF Steps
<1>7. h[Len(p)] = e
  <2>1. Len(p) \in T
    <3> HIDE DEF T
    <3>1. QED  BY <1>1, <1>5, <1>6, Induction
  <2>2. QED  BY <1>1, <1>3, <2>1 DEF e
<1>8. 0 \in U
  BY <1>1, <1>4, <1>7 DEF Steps
<1>9. ASSUME NEW n \in Nat, n \in U PROVE n + 1 \in U
  <2>1. SUFFICES ASSUME n + 1 \in 0 .. Len(q) PROVE h[Len(p) + (n + 1)] = g[n + 1]
    OBVIOUS
  <2> DEFINE k == Len(p) + (n + 1)
  <2>2. n \in 0 .. Len(q) /\ n + 1 \in 1 .. Len(q) /\ k \in 1 .. Len(pq)
        /\ (n + 1) - 1 = n /\ ~(k <= Len(p)) /\ k \in 1 .. Len(p) + Len(q)
        /\ k - 1 = Len(p) + n /\ k - Len(p) = n + 1
    BY <1>1, <2>1
  <2> HIDE DEF k
  <2>3. h[k - 1] = g[n]
    BY <1>9, <2>2
  <2>4. pq[k] = q[n + 1]
    BY <1>1, <2>2
  <2>5. h[k] = replay_log_event(h[k - 1], pq[k])
    BY <1>2, <2>2 DEF Steps
  <2>6. g[n + 1] = replay_log_event(g[n], q[n + 1])
    BY <1>4, <2>2 DEF Steps
  <2>7. QED  BY <2>3, <2>4, <2>5, <2>6 DEF k
<1>10. Len(q) \in U
  <2> HIDE DEF U
  <2>1. QED  BY <1>1, <1>8, <1>9, Induction
<1>11. h[Len(pq)] = g[Len(q)]
  BY <1>1, <1>10
<1>12. QED  BY <1>4, <1>2, <1>11 DEF e, pq

-----------------------------------------------------------------------------
(* What each record does to the memory. *)

LEMMA MemoryFields ==
  ASSUME NEW d \in Memory
  PROVE  /\ d.tree \in SUBSET Structs /\ d.id \in [Structs -> Ids \cup {NoId}]
         /\ d.unsent \in SUBSET Structs /\ d.pending \in SUBSET Structs
         /\ d.used \in SUBSET Structs /\ d.peers \in SUBSET Structs
         /\ d.freed \in SUBSET Structs /\ d.fault \in BOOLEAN
BY DEF Memory

SendingDone(d, o, id, e) ==
  /\ e \in Memory /\ e.id = [d.id EXCEPT ![o] = id] /\ e.tree = d.tree \cup {o}
  /\ e.used = d.used \cup {o} /\ e.peers = d.peers \cup {o}
  /\ e.unsent = d.unsent \cup {o} /\ e.pending = d.pending \cup {o}
  /\ e.freed = d.freed /\ e.fault = d.fault

LEMMA SendingFields ==
  ASSUME NEW d \in Memory, NEW o \in Structs, NEW id \in Ids, message_get(d, id) = {}
  PROVE  SendingDone(d, o, id, create_message(d, o, id, TRUE))
<1> DEFINE e == create_message(d, o, id, TRUE)
<1>1. e = create_message(d, o, id, TRUE)
  OBVIOUS
<1> HIDE DEF e
<1>2. SendingDone(d, o, id, e)
  BY <1>1, MemoryFields DEF create_message, Memory, SendingDone
<1>3. QED  BY <1>2 DEF e

CopyDone(d, o, id, e) ==
  /\ e \in Memory /\ e.id = [d.id EXCEPT ![o] = id] /\ e.tree = d.tree \cup {o}
  /\ e.used = d.used \cup {o} /\ e.peers = d.peers \cup {o}
  /\ e.unsent = d.unsent /\ e.pending = d.pending
  /\ e.freed = d.freed /\ e.fault = d.fault

LEMMA CopyFields ==
  ASSUME NEW d \in Memory, NEW o \in Structs, NEW id \in Ids, message_get(d, id) = {}
  PROVE  CopyDone(d, o, id, create_message(d, o, id, FALSE))
<1> DEFINE e == create_message(d, o, id, FALSE)
<1>1. e = create_message(d, o, id, FALSE)
  OBVIOUS
<1> HIDE DEF e
<1>2. CopyDone(d, o, id, e)
  BY <1>1, MemoryFields DEF create_message, Memory, CopyDone
<1>3. QED  BY <1>2 DEF e

UnsentDone(d, o, e) ==
  /\ e \in Memory /\ e.unsent = d.unsent \ {o} /\ e.pending = d.pending \ {o}
  /\ e.fault = (d.fault \/ o \notin d.unsent)
  /\ e.id = d.id /\ e.tree = d.tree /\ e.used = d.used /\ e.peers = d.peers
  /\ e.freed = d.freed

LEMMA UnsentFields ==
  ASSUME NEW d \in Memory, NEW o \in Structs
  PROVE  UnsentDone(d, o, message_remove_unsent(d, o))
BY DEF message_remove_unsent, Memory, UnsentDone

DetachedDone(d, o, e) ==
  /\ e \in Memory /\ e.unsent = d.unsent \ {o} /\ e.pending = d.unsent \ {o}
  /\ e.fault = d.fault /\ e.id = d.id
  /\ e.tree = d.tree \ {o} /\ e.peers = d.peers \ {o}
  /\ e.used = d.used /\ e.freed = d.freed

LEMMA DetachedFields ==
  ASSUME NEW d \in Memory, d.unsent = d.pending, NEW o \in Structs
  PROVE  DetachedDone(d, o, Detached(d, o))
<1> DEFINE s == IF o \in d.pending THEN message_remove_unsent(d, o) ELSE d
           e == Detached(d, o)
<1>1. /\ s \in Memory /\ s.unsent = d.unsent \ {o} /\ s.pending = d.unsent \ {o}
      /\ s.fault = d.fault /\ s.id = d.id /\ s.tree = d.tree /\ s.used = d.used
      /\ s.peers = d.peers /\ s.freed = d.freed
  <2>1. CASE o \in d.pending
    <3>1. UnsentDone(d, o, s)
      BY <2>1, UnsentFields
    <3> HIDE DEF s
    <3>2. QED  BY <2>1, <3>1, MemoryFields DEF UnsentDone
  <2>2. CASE o \notin d.pending
    BY <2>2
  <2>3. QED  BY <2>1, <2>2
<1>2. e = [s EXCEPT !.tree = @ \ {o}, !.peers = @ \ {o}]
  BY DEF Detached
<1> HIDE DEF s, e
<1>3. DetachedDone(d, o, e)
  BY <1>1, <1>2 DEF Memory, DetachedDone
<1>4. QED  BY <1>3 DEF e

Taken(d, o, id) == \E p \in d.tree \ {o} : d.id[p] = id

RenameDone(d, o, new, e) ==
  /\ e \in Memory /\ e.unsent = d.unsent \ {o} /\ e.pending = d.unsent \ {o}
  /\ e.fault = d.fault /\ e.id = [d.id EXCEPT ![o] = new]
  /\ e.tree = IF Taken(d, o, new) THEN d.tree \ {o} ELSE d.tree \cup {o}
  /\ e.peers = IF Taken(d, o, new) THEN d.peers \ {o} ELSE d.peers \cup {o}
  /\ e.used = d.used
  /\ e.freed = IF Taken(d, o, new) THEN d.freed \cup {o} ELSE d.freed

LEMMA RenameFields ==
  ASSUME NEW d \in Memory, d.unsent = d.pending, NEW id,
         NEW new \in Ids \cup {NoId},
         message_get(d, id) # {}
  PROVE  \E o \in message_get(d, id) : RenameDone(d, o, new, set_msg_id(d, id, new))
<1> DEFINE o == CHOOSE x \in message_get(d, id) : TRUE
           s == Detached(d, o)
           e == set_msg_id(d, id, new)
<1>1. o \in message_get(d, id)
  OBVIOUS
<1>2. e = IF message_get(s, new) # {}
          THEN [s EXCEPT !.id[o] = new, !.freed = @ \cup {o}]
          ELSE [s EXCEPT !.id[o] = new, !.tree = @ \cup {o}, !.peers = @ \cup {o}]
  BY DEF set_msg_id
<1> HIDE DEF o, e
<1>3. o \in Structs
  BY <1>1, MemoryFields DEF message_get
<1>4. DetachedDone(d, o, s)
  BY <1>3, DetachedFields
<1> HIDE DEF s
<1>5. message_get(s, new) # {} <=> Taken(d, o, new)
  BY <1>4 DEF message_get, Taken, DetachedDone
<1>6. s \in Memory
  BY <1>4 DEF DetachedDone
<1>7. CASE Taken(d, o, new)
  <2>1. e = [s EXCEPT !.id[o] = new, !.freed = @ \cup {o}]
    BY <1>2, <1>5, <1>7
  <2>2. /\ e \in Memory /\ e.unsent = s.unsent /\ e.pending = s.pending
        /\ e.fault = s.fault /\ e.id = [s.id EXCEPT ![o] = new] /\ e.tree = s.tree
        /\ e.peers = s.peers /\ e.used = s.used /\ e.freed = s.freed \cup {o}
    BY <1>3, <1>6, <2>1 DEF Memory
  <2>3. RenameDone(d, o, new, e)
    BY <1>4, <1>7, <2>2 DEF RenameDone, DetachedDone
  <2>4. QED  BY <1>1, <2>3 DEF e
<1>8. CASE ~Taken(d, o, new)
  <2>1. e = [s EXCEPT !.id[o] = new, !.tree = @ \cup {o}, !.peers = @ \cup {o}]
    BY <1>2, <1>5, <1>8
  <2>2. /\ e \in Memory /\ e.unsent = s.unsent /\ e.pending = s.pending
        /\ e.fault = s.fault /\ e.id = [s.id EXCEPT ![o] = new]
        /\ e.tree = s.tree \cup {o} /\ e.peers = s.peers \cup {o}
        /\ e.used = s.used /\ e.freed = s.freed
    BY <1>3, <1>6, <2>1 DEF Memory
  <2>3. /\ (d.tree \ {o}) \cup {o} = d.tree \cup {o}
        /\ (d.peers \ {o}) \cup {o} = d.peers \cup {o}
    OBVIOUS
  <2>4. RenameDone(d, o, new, e)
    BY <1>4, <1>8, <2>2, <2>3 DEF RenameDone, DetachedDone
  <2>5. QED  BY <1>1, <2>4 DEF e
<1>9. QED  BY <1>7, <1>8

DeleteDone(d, o, e) ==
  /\ e \in Memory /\ e.unsent = d.unsent \ {o} /\ e.pending = d.unsent \ {o}
  /\ e.fault = d.fault /\ e.id = d.id
  /\ e.tree = d.tree \ {o} /\ e.peers = d.peers \ {o}
  /\ e.used = d.used \ {o} /\ e.freed = d.freed \cup {o}

LEMMA DeleteFields ==
  ASSUME NEW d \in Memory, d.unsent = d.pending, NEW id, message_get(d, id) # {}
  PROVE  \E o \in message_get(d, id) : DeleteDone(d, o, delete_msg(d, id))
<1> DEFINE o == CHOOSE x \in message_get(d, id) : TRUE
           s == Detached(d, o)
           e == delete_msg(d, id)
<1>1. o \in message_get(d, id)
  OBVIOUS
<1>2. e = [s EXCEPT !.used = @ \ {o}, !.freed = @ \cup {o}]
  BY DEF delete_msg
<1> HIDE DEF o, e
<1>3. o \in Structs
  BY <1>1, MemoryFields DEF message_get
<1>4. DetachedDone(d, o, s)
  BY <1>3, DetachedFields
<1> HIDE DEF s
<1>5. s \in Memory
  BY <1>4 DEF DetachedDone
<1>6. /\ e \in Memory /\ e.unsent = s.unsent /\ e.pending = s.pending
      /\ e.fault = s.fault /\ e.id = s.id /\ e.tree = s.tree
      /\ e.peers = s.peers /\ e.used = s.used \ {o} /\ e.freed = s.freed \cup {o}
  BY <1>2, <1>3, <1>5 DEF Memory
<1>7. DeleteDone(d, o, e)
  BY <1>4, <1>6 DEF DeleteDone, DetachedDone
<1>8. QED  BY <1>1, <1>7 DEF e

LEMMA SentFields ==
  ASSUME NEW d \in Memory, NEW id, message_get(d, id) # {}
  PROVE  \E o \in message_get(d, id) : UnsentDone(d, o, set_message_sent(d, id))
<1> DEFINE o == CHOOSE x \in message_get(d, id) : TRUE
<1>1. o \in message_get(d, id)
  OBVIOUS
<1>2. set_message_sent(d, id) = message_remove_unsent(d, o)
  BY DEF set_message_sent
<1> HIDE DEF o
<1>3. o \in Structs
  BY <1>1, MemoryFields DEF message_get
<1>4. UnsentDone(d, o, message_remove_unsent(d, o))
  BY <1>3, UnsentFields
<1>5. QED  BY <1>1, <1>2, <1>4

-----------------------------------------------------------------------------
(* A message waits under its own random id only: Sends.                    *)

LEMMA IdsAndStructs ==
  /\ \A t \in Texts : /\ Own(t) \in Structs /\ Random(t) \in Ids
                      /\ Own(t).made = "here" /\ Own(t).of = t
                      /\ Random(t).sort = "random" /\ Random(t).of = t
  /\ \A n \in 1 .. MaxHistory : /\ Copy(n) \in Structs /\ Server(n) \in Ids
                                /\ Copy(n).made = "there" /\ Copy(n).of = n
                                /\ Server(n).sort = "server" /\ Server(n).of = n
  /\ NoId.sort = "none" /\ NoId \notin Ids
BY DEF Own, Copy, Structs, Random, Server, Ids, NoId

LEMMA OwnIdsKept ==
  ASSUME NEW d, OwnIds(d), NEW r \in Records
  PROVE  OwnIds(replay_log_event(d, r))
<1> DEFINE e == replay_log_event(d, r)
<1>1. d \in Memory /\ d.unsent = d.pending
  BY DEF OwnIds
<1>F. OwnIds([d EXCEPT !.fault = TRUE])
  BY DEF OwnIds, Memory
<1> HIDE DEF e
<1>2. ASSUME NEW t \in Texts, r = Sending(t) PROVE OwnIds(e)
  <2>1. e = create_message(d, Own(t), Random(t), TRUE)
    BY <1>2 DEF Sending, replay_log_event, e
  <2>2. CASE message_get(d, Random(t)) # {}
    BY <1>F, <2>1, <2>2 DEF create_message
  <2>3. CASE message_get(d, Random(t)) = {}
    <3>1. /\ e \in Memory /\ e.id = [d.id EXCEPT ![Own(t)] = Random(t)]
          /\ e.unsent = d.unsent \cup {Own(t)} /\ e.pending = d.pending \cup {Own(t)}
      <4>1. Own(t) \in Structs /\ Random(t) \in Ids
        BY IdsAndStructs
      <4>2. SendingDone(d, Own(t), Random(t), e)
        BY <1>1, <2>1, <2>3, <4>1, SendingFields
      <4>3. QED  BY <4>2 DEF SendingDone
    <3>2. \A o \in e.unsent : o \in {Own(x) : x \in Texts} /\ e.id[o] = Random(o.of)
      BY <1>1, <3>1, MemoryFields, IdsAndStructs DEF OwnIds
    <3>3. QED  BY <1>1, <3>1, <3>2 DEF OwnIds
  <2>4. QED  BY <2>2, <2>3
<1>3. ASSUME NEW n \in 1 .. MaxHistory, r = Created(n) PROVE OwnIds(e)
  <2>1. e = create_message(d, Copy(n), Server(n), FALSE)
    BY <1>3 DEF Created, replay_log_event, e
  <2>2. CASE message_get(d, Server(n)) # {}
    BY <1>F, <2>1, <2>2 DEF create_message
  <2>3. CASE message_get(d, Server(n)) = {}
    <3>1. /\ e \in Memory /\ e.id = [d.id EXCEPT ![Copy(n)] = Server(n)]
          /\ e.unsent = d.unsent /\ e.pending = d.pending
      <4>1. Copy(n) \in Structs /\ Server(n) \in Ids
        BY IdsAndStructs
      <4>2. CopyDone(d, Copy(n), Server(n), e)
        BY <1>1, <2>1, <2>3, <4>1, CopyFields
      <4>3. QED  BY <4>2 DEF CopyDone
    <3>2. Copy(n) \notin d.unsent
      BY <1>3, IdsAndStructs DEF OwnIds
    <3>3. \A o \in e.unsent : o \in {Own(x) : x \in Texts} /\ e.id[o] = Random(o.of)
      BY <1>1, <3>1, <3>2, MemoryFields DEF OwnIds
    <3>4. QED  BY <1>1, <3>1, <3>3 DEF OwnIds
  <2>4. QED  BY <2>2, <2>3
<1>4. ASSUME r \in [op : {"set_msg_id"}, id : Ids \cup {NoId}, new : Ids \cup {NoId}]
      PROVE  OwnIds(e)
  <2>1. e = set_msg_id(d, r.id, r.new) /\ r.new \in Ids \cup {NoId}
    BY <1>4 DEF replay_log_event, e
  <2>2. CASE message_get(d, r.id) = {}
    BY <1>F, <2>1, <2>2 DEF set_msg_id
  <2>3. CASE message_get(d, r.id) # {}
    <3>1. PICK o \in message_get(d, r.id) : RenameDone(d, o, r.new, e)
      BY <1>1, <2>1, <2>3, RenameFields
    <3>2. \A p \in e.unsent : p \in {Own(x) : x \in Texts} /\ e.id[p] = Random(p.of)
      BY <1>1, <3>1, MemoryFields DEF OwnIds, RenameDone
    <3>3. QED  BY <3>1, <3>2 DEF OwnIds, RenameDone
  <2>4. QED  BY <2>2, <2>3
<1>5. ASSUME r \in [op : {"set_message_sent", "delete_msg"}, id : Ids \cup {NoId}]
      PROVE  OwnIds(e)
  <2>1. CASE r.op = "set_message_sent"
    <3>1. e = set_message_sent(d, r.id)
      BY <2>1 DEF replay_log_event, e
    <3>2. CASE message_get(d, r.id) = {}
      BY <1>F, <3>1, <3>2 DEF set_message_sent
    <3>3. CASE message_get(d, r.id) # {}
      <4>1. PICK o \in message_get(d, r.id) : UnsentDone(d, o, e)
        BY <1>1, <3>1, <3>3, SentFields
      <4>2. QED  BY <1>1, <4>1 DEF OwnIds, UnsentDone
    <3>4. QED  BY <3>2, <3>3
  <2>2. CASE r.op = "delete_msg"
    <3>1. e = delete_msg(d, r.id)
      BY <2>2 DEF replay_log_event, e
    <3>2. CASE message_get(d, r.id) = {}
      BY <1>F, <3>1, <3>2 DEF delete_msg
    <3>3. CASE message_get(d, r.id) # {}
      <4>1. PICK o \in message_get(d, r.id) : DeleteDone(d, o, e)
        BY <1>1, <3>1, <3>3, DeleteFields
      <4>2. QED  BY <1>1, <4>1 DEF OwnIds, DeleteDone
    <3>4. QED  BY <3>2, <3>3
  <2>3. QED  BY <1>5, <2>1, <2>2
<1>6. QED  BY <1>2, <1>3, <1>4, <1>5 DEF Records, e

LEMMA OwnIdsReplayed ==
  ASSUME NEW d, OwnIds(d), NEW q \in Seq(Records)
  PROVE  OwnIds(Replayed(d, q))
<1>1. PICK f : Steps(f, d, q) /\ Replayed(d, q) = f[Len(q)]
  BY ReplaySteps
<1> DEFINE T == {n \in Nat : n \in 0 .. Len(q) => OwnIds(f[n])}
<1>2. 0 \in T
  BY <1>1 DEF Steps
<1>3. ASSUME NEW n \in Nat, n \in T PROVE n + 1 \in T
  <2>1. SUFFICES ASSUME n + 1 \in 0 .. Len(q) PROVE OwnIds(f[n + 1])
    OBVIOUS
  <2>2. Len(q) \in Nat
    BY LenProperties
  <2>3. n \in 0 .. Len(q) /\ n + 1 \in 1 .. Len(q) /\ (n + 1) - 1 = n
    BY <2>1, <2>2
  <2>4. OwnIds(f[n])
    BY <1>3, <2>3
  <2>5. f[n + 1] = replay_log_event(f[n], q[n + 1])
    BY <1>1, <2>3 DEF Steps
  <2>6. q[n + 1] \in Records
    BY <2>3, ElementOfSeq
  <2>7. QED  BY <2>4, <2>5, <2>6, OwnIdsKept
<1>4. Len(q) \in Nat
  BY LenProperties
<1>5. Len(q) \in T
  <2> HIDE DEF T
  <2>1. QED  BY <1>2, <1>3, <1>4, Induction
<1>6. QED  BY <1>1, <1>4, <1>5

LEMMA FlattenTyped ==
  ASSUME NEW S, NEW N \in Nat, NEW s \in [1 .. N -> Seq(S)]
  PROVE  FlattenSeq(s) \in Seq(S)
<1>1. CASE N = 0
  <2>1. s \in Seq(Seq(S)) /\ Len(s) = 0
    BY <1>1
  <2>2. s = <<>>
    BY <2>1, EmptySeq
  <2>3. FlattenSeq(s) = <<>>
    BY <2>1, <2>2 DEF FlattenSeq
  <2>4. QED  BY <2>3, EmptySeq
<1>2. CASE N # 0
  <2>1. N \in Nat \ {0}
    BY <1>2
  <2>2. PICK f : /\ f = [i \in 1 .. N |-> IF i = 1 THEN s[i] ELSE f[i - 1] \o s[i]]
                 /\ FlattenSeq(s) = f[N]
    BY <2>1, FlattenStep
  <2> DEFINE T == {n \in Nat : n \in 1 .. N => f[n] \in Seq(S)}
  <2>3. 0 \in T
    OBVIOUS
  <2>4. ASSUME NEW n \in Nat, n \in T PROVE n + 1 \in T
    <3>1. SUFFICES ASSUME n + 1 \in 1 .. N PROVE f[n + 1] \in Seq(S)
      BY DEF T
    <3>2. CASE n = 0
      BY <2>1, <2>2, <3>2
    <3>3. CASE n # 0
      <4>1. n \in 1 .. N /\ f[n] \in Seq(S)
        BY <2>4, <3>1, <3>3
      <4>2. n + 1 # 1 /\ (n + 1) - 1 = n
        BY <3>3
      <4>3. f[n + 1] = f[n] \o s[n + 1] /\ s[n + 1] \in Seq(S)
        BY <2>2, <3>1, <4>2
      <4>4. QED  BY <4>1, <4>3, ConcatProperties
    <3>4. QED  BY <3>2, <3>3
  <2>5. N \in T
    <3> HIDE DEF T
    <3>1. QED  BY <2>3, <2>4, Induction
  <2>6. QED  BY <2>1, <2>2, <2>5
<1>3. QED  BY <1>1, <1>2

LEMMA Bounds ==
  /\ MaxCrashes \in Nat /\ IsFiniteSet(Texts) /\ MaxHistory \in Nat
  /\ Cardinality(Texts) \in Nat /\ Cardinality(Texts) <= MaxHistory
BY MessagesAssumption, FS_CardinalityType DEF MaxHistory

HistoryType == Seq([random : Ids, text : Texts])

(* Each text once, so there are no more messages than texts.               *)
LEMMA HistoryFits ==
  ASSUME NEW h \in HistoryType,
         \A i, j \in DOMAIN h : h[i].text = h[j].text => i = j
  PROVE  Len(h) \in Nat /\ DOMAIN h = 1 .. Len(h) /\ DOMAIN h \subseteq 1 .. MaxHistory
<1> DEFINE N == Len(h)
           f == [i \in 1 .. N |-> h[i].text]
<1>1. N \in Nat /\ DOMAIN h = 1 .. N /\ \A i \in 1 .. N : h[i].text \in Texts
  <2>1. N \in Nat /\ h \in [1 .. N -> [random : Ids, text : Texts]]
    BY LenProperties DEF HistoryType
  <2>2. QED  BY <2>1
<1> HIDE DEF N
<1>2. f \in Injection(1 .. N, Texts)
  BY <1>1 DEF Injection, IsInjective
<1> HIDE DEF f
<1>3. Cardinality(1 .. N) <= Cardinality(Texts)
  BY <1>2, Bounds, FS_Injection
<1>4. Cardinality(1 .. N) = N
  <2>1. 1 \in Int /\ N \in Int /\ (1 > N => N = 0) /\ N - 1 + 1 = N
    BY <1>1
  <2>2. QED  BY <1>1, <2>1, FS_Interval
<1>5. N <= MaxHistory
  BY <1>1, <1>3, <1>4, Bounds
<1>6. QED  BY <1>1, <1>5, Bounds DEF N

(* TypeOK, but for the memory.                                             *)
RestTyped ==
  /\ phase \in {"start", "resend", "running"} /\ run \in 0 .. MaxCrashes
  /\ queries \subseteq Structs /\ requests \subseteq Request
  /\ answers \subseteq Answer
  /\ history \in HistoryType
  /\ updates \subseteq [kind : {"new_message", "message_i_d"}, n : DOMAIN history]

LEMMA TypedInParts == TypeOK /\ m \in Memory <=> RestTyped /\ m \in Memory
<1>1. ASSUME m \in Memory
      PROVE  /\ \A f \in {"tree", "unsent", "pending", "used", "peers", "freed"} :
                  m[f] \subseteq Structs
             /\ m.id \in [Structs -> Ids \cup {NoId}] /\ m.fault \in BOOLEAN
  BY <1>1 DEF Memory
<1>2. QED  BY <1>1 DEF TypeOK, RestTyped, HistoryType

LEMMA SendsParts ==
  ASSUME Sends
  PROVE  /\ RestTyped /\ m \in Memory /\ OwnIds(m) /\ log \in Seq(Records)
         /\ \A r \in requests : Requested(r) /\ r \in Request
         /\ \A n \in DOMAIN history : Sent(n) /\ history[n].text \in Texts
         /\ SentOnce
         /\ Len(history) \in Nat /\ DOMAIN history = 1 .. Len(history)
         /\ DOMAIN history \subseteq 1 .. MaxHistory
<1>1. m \in Memory /\ RestTyped
  BY TypedInParts DEF Sends, OwnIds
<1>2. /\ history \in HistoryType /\ requests \subseteq Request
      /\ \A i, j \in DOMAIN history : history[i].text = history[j].text => i = j
  BY <1>1 DEF Sends, SentOnce, RestTyped
<1>3. /\ Len(history) \in Nat /\ DOMAIN history = 1 .. Len(history)
      /\ DOMAIN history \subseteq 1 .. MaxHistory
  BY <1>2, HistoryFits
<1>4. \A n \in DOMAIN history : history[n].text \in Texts
  <2>1. history \in [1 .. Len(history) -> [random : Ids, text : Texts]]
    BY <1>2, LenProperties DEF HistoryType
  <2>2. QED  BY <1>3, <2>1
<1>5. QED  BY <1>1, <1>2, <1>3, <1>4 DEF Sends

LEMMA FirstSends == ASSUME Init PROVE Sends
<1>1. m \in Memory /\ m = Nothing
  BY DEF Init, Nothing, Memory
<1>2. OwnIds(m)
  BY <1>1 DEF Nothing, OwnIds
<1>3. history = <<>> /\ log = <<>> /\ DOMAIN history = {} /\ requests = {}
  BY DEF Init
<1>4. history \in HistoryType /\ log \in Seq(Records)
  BY <1>3, EmptySeq DEF HistoryType
<1>5. RestTyped
  BY <1>3, <1>4, Bounds DEF Init, RestTyped
<1>6. QED  BY <1>1, <1>2, <1>3, <1>4, <1>5, TypedInParts DEF Sends, SentOnce

LEMMA Logs ==
  ASSUME Sends, NEW q \in Seq(Records), add_log_events(q)
  PROVE  OwnIds(m') /\ log' \in Seq(Records)
<1>1. OwnIds(m) /\ log \in Seq(Records)
  BY DEF Sends
<1>2. OwnIds(m')
  BY <1>1, OwnIdsReplayed DEF add_log_events
<1>3. log \o q \in Seq(Records)
  BY <1>1, ConcatProperties
<1>4. QED  BY <1>1, <1>2, <1>3 DEF add_log_events

LEMMA SameHistory ==
  ASSUME Sends, OwnIds(m'), log' \in Seq(Records), RestTyped', UNCHANGED history,
         \A r \in requests' : Requested(r)
  PROVE  Sends'
<1>1. m' \in Memory
  BY DEF OwnIds
<1>2. TypeOK'
  <2>1. (TypeOK /\ m \in Memory <=> RestTyped /\ m \in Memory)'
    BY TypedInParts, PTL
  <2>2. QED  BY <1>1, <2>1
<1>3. SentOnce'
  BY DEF Sends, SentOnce
<1>4. \A n \in DOMAIN history' : Sent(n)'
  BY DEF Sends, Sent
<1>5. \A r \in requests' : Requested(r)'
  BY DEF Requested
<1>6. QED  BY <1>2, <1>3, <1>4, <1>5 DEF Sends, OwnIds, Requested, Sent

LEMMA AskedTyped ==
  ASSUME run \in 0 .. MaxCrashes, NEW t \in Texts
  PROVE  LET r == Asked(Own(t), Random(t), t)
         IN r \in Request /\ Requested(r) /\ r.struct = Own(t) /\ r.run = run
BY IdsAndStructs DEF Asked, Request, Requested

LEMMA RecordsTyped ==
  /\ \A t \in Texts : <<Sending(t)>> \in Seq(Records)
  /\ \A n \in 1 .. MaxHistory : <<Created(n)>> \in Seq(Records)
  /\ <<>> \in Seq(Records)
  /\ \A i, j \in Ids \cup {NoId} :
       <<[op |-> "set_msg_id", id |-> i, new |-> j]>> \in Seq(Records)
  /\ \A i \in Ids \cup {NoId} :
       /\ <<[op |-> "set_message_sent", id |-> i]>> \in Seq(Records)
       /\ <<[op |-> "delete_msg", id |-> i]>> \in Seq(Records)
<1>1. \A t \in Texts : Sending(t) \in Records
  BY DEF Records
<1>2. \A n \in 1 .. MaxHistory : Created(n) \in Records
  BY DEF Records
<1>3. \A i, j \in Ids \cup {NoId} :
        [op |-> "set_msg_id", id |-> i, new |-> j] \in Records
  BY DEF Records
<1>4. \A i \in Ids \cup {NoId} : /\ [op |-> "set_message_sent", id |-> i] \in Records
                                 /\ [op |-> "delete_msg", id |-> i] \in Records
  BY DEF Records
<1>5. \A r \in Records : <<r>> \in Seq(Records)
  OBVIOUS
<1>6. QED  BY <1>1, <1>2, <1>3, <1>4, <1>5, EmptySeq

(* An id cut to an int is the id of no message.                            *)
LEMMA NeverRenamed ==
  ASSUME m \in Memory, NEW n
  PROVE  fetch_message_id(n) = <<>>
<1>1. \A o \in Structs : m.id[o] # Renamed(n).id
  BY MemoryFields DEF Renamed, InInt, Ids, NoId, Random, Server
<1>2. message_get(m, Renamed(n).id) = {}
  BY <1>1, MemoryFields DEF message_get
<1>3. QED  BY <1>2 DEF fetch_message_id

LEMMA DifferenceTyped ==
  ASSUME Sends
  PROVE  /\ [n \in DOMAIN history |-> fetch_alloc_message(n)]
              \in [1 .. Len(history) -> Seq(Records)]
         /\ FlattenSeq([n \in DOMAIN history |-> fetch_alloc_message(n)]) \in Seq(Records)
         /\ FlattenSeq([n \in DOMAIN history |-> fetch_message_id(n)]) = <<>>
<1> DEFINE F == [n \in DOMAIN history |-> fetch_alloc_message(n)]
           G == [n \in DOMAIN history |-> fetch_message_id(n)]
<1>1. /\ Len(history) \in Nat /\ DOMAIN history = 1 .. Len(history)
      /\ DOMAIN history \subseteq 1 .. MaxHistory /\ m \in Memory
  BY SendsParts
<1>2. \A n \in DOMAIN history : fetch_alloc_message(n) \in Seq(Records)
  BY <1>1, RecordsTyped DEF fetch_alloc_message
<1>3. F \in [1 .. Len(history) -> Seq(Records)]
  BY <1>1, <1>2
<1>4. G \in [1 .. Len(history) -> Seq({})]
  BY <1>1, NeverRenamed, EmptySeq
<1> HIDE DEF F, G
<1>5. FlattenSeq(F) \in Seq(Records)
  BY <1>1, <1>3, FlattenTyped
<1>6. FlattenSeq(G) \in Seq({})
  BY <1>1, <1>4, FlattenTyped
<1>7. FlattenSeq(G) = <<>>
  <2>1. \A q \in Seq({}) : q = <<>>
    OBVIOUS
  <2>2. QED  BY <1>6, <2>1
<1>8. QED  BY <1>3, <1>5, <1>7 DEF F, G

LEMMA SendMessageSends ==
  ASSUME Sends, NEW t \in Texts, do_send_message(t)
  PROVE  Sends'
<1>1. /\ RestTyped /\ \A r \in requests : Requested(r)
      /\ Asked(Own(t), Random(t), t) \in Request
      /\ Requested(Asked(Own(t), Random(t), t)) /\ Own(t) \in Structs
  BY SendsParts, AskedTyped, IdsAndStructs DEF RestTyped
<1>2. OwnIds(m') /\ log' \in Seq(Records)
  <2>1. <<Sending(t)>> \in Seq(Records)
    BY RecordsTyped
  <2>2. add_log_events(<<Sending(t)>>)
    BY DEF do_send_message, Sending
  <2>3. QED  BY <2>1, <2>2, Logs
<1>3. RestTyped'
  BY <1>1 DEF do_send_message, RestTyped
<1>4. \A r \in requests' : Requested(r)
  BY <1>1 DEF do_send_message
<1>5. UNCHANGED history
  BY DEF do_send_message
<1>6. QED  BY <1>2, <1>3, <1>4, <1>5, SameHistory

LEMMA GetDifferenceSends ==
  ASSUME Sends, get_difference_on_answer
  PROVE  Sends'
<1> DEFINE q == FlattenSeq([n \in DOMAIN history |-> fetch_alloc_message(n)])
                  \o FlattenSeq([n \in DOMAIN history |-> fetch_message_id(n)])
<1>1. q \in Seq(Records)
  BY DifferenceTyped, ConcatEmptySeq
<1>2. add_log_events(q) /\ UNCHANGED history
  BY DEF get_difference_on_answer
<1> HIDE DEF q
<1>3. OwnIds(m') /\ log' \in Seq(Records)
  BY <1>1, <1>2, Logs
<1>4. RestTyped' /\ \A r \in requests' : Requested(r)
  BY SendsParts DEF get_difference_on_answer, RestTyped
<1>5. QED  BY <1>2, <1>3, <1>4, SameHistory

LEMMA SendAllUnsentSends ==
  ASSUME Sends, send_all_unsent
  PROVE  Sends'
<1>1. RestTyped /\ OwnIds(m) /\ log \in Seq(Records) /\ \A r \in requests : Requested(r)
  BY SendsParts
<1>2. ASSUME NEW o \in m.unsent
      PROVE  Asked(o, m.id[o], o.of) \in Request /\ Requested(Asked(o, m.id[o], o.of))
  <2>1. PICK t \in Texts : o = Own(t)
    BY <1>1 DEF OwnIds
  <2>2. o.of = t /\ m.id[o] = Random(t)
    BY <1>1, <2>1, IdsAndStructs DEF OwnIds
  <2>3. QED  BY <1>1, <2>1, <2>2, AskedTyped DEF RestTyped
<1>3. m.unsent \subseteq Structs
  BY <1>1, MemoryFields DEF OwnIds
<1>4. RestTyped' /\ \A r \in requests' : Requested(r)
  BY <1>1, <1>2, <1>3 DEF send_all_unsent, RestTyped
<1>5. UNCHANGED <<m, log, history>>
  BY DEF send_all_unsent
<1>6. OwnIds(m') /\ log' \in Seq(Records)
  BY <1>1, <1>5
<1>7. QED  BY <1>4, <1>5, <1>6, SameHistory

LEMMA UpdateSends ==
  ASSUME Sends, NEW n \in DOMAIN history, update_new_message(n) \/ update_message_i_d(n)
  PROVE  Sends'
<1>1. RestTyped /\ m \in Memory /\ DOMAIN history \subseteq 1 .. MaxHistory
      /\ \A r \in requests : Requested(r)
  BY SendsParts
<1>2. fetch_alloc_message(n) \in Seq(Records) /\ fetch_message_id(n) \in Seq(Records)
  BY <1>1, RecordsTyped, NeverRenamed DEF fetch_alloc_message
<1>3. OwnIds(m') /\ log' \in Seq(Records)
  BY <1>2, Logs DEF update_new_message, update_message_i_d
<1>4. RestTyped' /\ (\A r \in requests' : Requested(r)) /\ UNCHANGED history
  BY <1>1 DEF update_new_message, update_message_i_d, RestTyped
<1>5. QED  BY <1>3, <1>4, SameHistory

LEMMA AnswerSends ==
  ASSUME Sends, NEW a \in answers, msg_send_on_answer(a) \/ msg_send_on_error(a)
  PROVE  Sends'
<1>1. RestTyped /\ m \in Memory /\ \A r \in requests : Requested(r)
  BY SendsParts
<1>2. a \in Answer
  BY <1>1 DEF RestTyped
<1>3. a.struct \in Structs /\ a.id \in Ids \cup {NoId} /\ m.id[a.struct] \in Ids \cup {NoId}
  BY <1>1, <1>2, MemoryFields DEF Answer
<1>4. \E q \in Seq(Records) : add_log_events(q)
  <2>1. CASE msg_send_on_error(a)
    BY <1>3, <2>1, RecordsTyped DEF msg_send_on_error
  <2>2. CASE msg_send_on_answer(a)
    <3> DEFINE named == IF m.id[a.struct] = a.id THEN <<>>
                  ELSE <<[op |-> "set_msg_id", id |-> m.id[a.struct], new |-> a.id]>>
               sent == <<[op |-> "set_message_sent", id |-> a.id]>>
    <3>1. named \in Seq(Records) /\ sent \in Seq(Records)
      BY <1>3, RecordsTyped
    <3>2. named \o sent \in Seq(Records)
      BY <3>1, ConcatProperties
    <3>3. add_log_events(named) \/ add_log_events(named \o sent)
      BY <2>2 DEF msg_send_on_answer
    <3> HIDE DEF named, sent
    <3>4. QED  BY <3>1, <3>2, <3>3
  <2>3. QED  BY <2>1, <2>2
<1>5. OwnIds(m') /\ log' \in Seq(Records)
  BY <1>4, Logs
<1>6. RestTyped' /\ (\A r \in requests' : Requested(r)) /\ UNCHANGED history
  BY <1>1 DEF msg_send_on_answer, msg_send_on_error, RestTyped
<1>7. QED  BY <1>5, <1>6, SameHistory

LEMMA RestartSends ==
  ASSUME Sends, Restart
  PROVE  Sends'
<1>1. RestTyped /\ log \in Seq(Records) /\ \A r \in requests : Requested(r)
  BY SendsParts
<1>2. OwnIds(Nothing)
  BY DEF OwnIds, Nothing, Memory
<1>3. OwnIds(m') /\ log' \in Seq(Records)
  BY <1>1, <1>2, OwnIdsReplayed DEF Restart
<1>4. run' \in 0 .. MaxCrashes
  BY <1>1, Bounds DEF Restart, RestTyped
<1>5. RestTyped' /\ (\A r \in requests' : Requested(r)) /\ UNCHANGED history
  BY <1>1, <1>4 DEF Restart, RestTyped
<1>6. QED  BY <1>3, <1>5, SameHistory

LEMMA ExecuteSends ==
  ASSUME Sends, NEW r \in requests, Execute(r)
  PROVE  Sends'
<1> DEFINE added == [random |-> r.random, text |-> r.text]
           n == IF Position(r.random) = {} THEN Len(history) + 1
                ELSE CHOOSE k \in Position(r.random) : TRUE
           one == [struct |-> r.struct, ok |-> n > Len(history) \/ ~RefusesAgain,
                   id |-> Server(n)]
<1>1. /\ RestTyped /\ m \in Memory /\ OwnIds(m) /\ log \in Seq(Records)
      /\ \A x \in requests : Requested(x)
      /\ \A i \in DOMAIN history : Sent(i) /\ history[i].text \in Texts
      /\ SentOnce /\ Len(history) \in Nat /\ DOMAIN history = 1 .. Len(history)
      /\ DOMAIN history \subseteq 1 .. MaxHistory
  BY SendsParts
<1>2. r \in Request /\ Requested(r) /\ history \in HistoryType
  BY <1>1 DEF RestTyped
<1>3. r.random \in Ids /\ r.text \in Texts /\ r.struct \in Structs /\ r.random = Random(r.text)
  BY <1>2 DEF Request, Requested
<1>4. added \in [random : Ids, text : Texts] /\ added.text = r.text /\ added.random = r.random
  BY <1>3
<1>5. UNCHANGED <<m, log, phase, run, queries>> /\ requests' = requests \ {r}
  BY DEF Execute
<1>6. n \in 1 .. MaxHistory /\ n \in DOMAIN history' /\ history' \in HistoryType
      /\ SentOnce' /\ (\A i \in DOMAIN history' : Sent(i)') /\ DOMAIN history \subseteq DOMAIN history'
  <2>1. CASE Position(r.random) = {}
    <3>1. n = Len(history) + 1 /\ n > Len(history)
      BY <1>1, <2>1
    <3> HIDE DEF added
    <3>2. history' = Append(history, added)
      BY <3>1 DEF Execute, added
    <3>3. /\ history' \in HistoryType /\ Len(history') = Len(history) + 1
          /\ history'[n] = added /\ \A i \in 1 .. Len(history) : history'[i] = history[i]
      BY <1>1, <1>2, <1>4, <3>1, <3>2, AppendProperties DEF HistoryType
    <3>4. DOMAIN history' = 1 .. Len(history')
      BY <3>3, LenProperties DEF HistoryType
    <3>5. \A i \in DOMAIN history : history[i].text # r.text
      BY <1>1, <1>3, <2>1, IdsAndStructs DEF Position, Sent
    <3>6. \A i \in DOMAIN history' : i \in DOMAIN history \/ i = n
      BY <1>1, <3>1, <3>3, <3>4
    <3> HIDE DEF n
    <3>7. \A i, j \in DOMAIN history' : history'[i].text = history'[j].text => i = j
      <4>1. \A i \in DOMAIN history : history'[i] = history[i]
        BY <1>1, <3>3
      <4>2. TAKE i, j \in DOMAIN history'
      <4>3. QED  BY <1>1, <1>4, <3>3, <3>5, <3>6, <4>1 DEF SentOnce
    <3>8. DOMAIN history' \subseteq 1 .. MaxHistory
      BY <3>3, <3>7, HistoryFits
    <3>9. \A i \in DOMAIN history' : Sent(i)'
      BY <1>1, <1>3, <1>4, <3>3, <3>6 DEF Sent
    <3>10. n \in DOMAIN history' /\ DOMAIN history \subseteq DOMAIN history'
      BY <1>1, <3>1, <3>3, <3>4
    <3>11. QED  BY <3>3, <3>7, <3>8, <3>9, <3>10 DEF SentOnce
  <2>2. CASE Position(r.random) # {}
    <3>1. n \in Position(r.random)
      BY <2>2
    <3> HIDE DEF n
    <3>2. n \in DOMAIN history /\ ~(n > Len(history))
      BY <1>1, <3>1 DEF Position
    <3>3. history' = history
      BY <3>2 DEF Execute, n
    <3>4. QED  BY <1>1, <1>2, <3>2, <3>3 DEF Sent, SentOnce
  <2>3. QED  BY <2>1, <2>2
<1>7. one \in Answer
  <2>1. Server(n) \in Ids
    BY <1>6, IdsAndStructs
  <2> HIDE DEF n
  <2>2. QED  BY <1>3, <2>1 DEF Answer
<1>8. answers' \subseteq Answer
  <2>1. answers' = answers \/ answers' = answers \cup {one}
    BY DEF Execute
  <2> HIDE DEF one
  <2>2. QED  BY <1>1, <1>7, <2>1 DEF RestTyped
<1>9. updates' \subseteq [kind : {"new_message", "message_i_d"}, n : DOMAIN history']
  <2>1. updates' = updates
        \/ updates' = updates \cup [kind : {"new_message", "message_i_d"}, n : {n}]
    BY DEF Execute
  <2> HIDE DEF n
  <2>2. QED  BY <1>1, <1>6, <2>1 DEF RestTyped
<1>10. RestTyped'
  BY <1>1, <1>5, <1>6, <1>8, <1>9 DEF RestTyped
<1>11. TypeOK'
  <2>1. (TypeOK /\ m \in Memory <=> RestTyped /\ m \in Memory)'
    BY TypedInParts, PTL
  <2>2. QED  BY <1>1, <1>5, <1>10, <2>1
<1>12. \A x \in requests' : Requested(x)'
  BY <1>1, <1>5 DEF Requested
<1>13. OwnIds(m') /\ log' \in Seq(Records)
  BY <1>1, <1>5
<1>14. QED  BY <1>6, <1>11, <1>12, <1>13 DEF Sends, OwnIds

LEMMA RefuseSends ==
  ASSUME Sends, NEW r \in requests, Refuse(r)
  PROVE  Sends'
<1>1. RestTyped /\ OwnIds(m) /\ log \in Seq(Records) /\ \A x \in requests : Requested(x)
  BY SendsParts
<1>2. [struct |-> r.struct, ok |-> FALSE, id |-> NoId] \in Answer
  BY <1>1 DEF RestTyped, Request, Answer
<1>3. RestTyped' /\ \A x \in requests' : Requested(x)
  BY <1>1, <1>2 DEF Refuse, RestTyped
<1>4. UNCHANGED history /\ OwnIds(m') /\ log' \in Seq(Records)
  BY <1>1 DEF Refuse
<1>5. QED  BY <1>3, <1>4, SameHistory

LEMMA NextKeepsSends ==
  ASSUME Sends, [Next]_vars
  PROVE  Sends'
<1>1. CASE Next
  <2>1. CASE Progress
    BY <2>1, GetDifferenceSends, SendAllUnsentSends, UpdateSends, AnswerSends,
       ExecuteSends DEF Progress
  <2>2. CASE ~Progress
    BY <1>1, <2>2, SendMessageSends, ExecuteSends, RefuseSends, RestartSends DEF Next
  <2>3. QED  BY <2>1, <2>2
<1>2. CASE UNCHANGED vars
  <2>1. UNCHANGED <<m, log, phase, run, queries, requests, answers, history, updates>>
    BY <1>2 DEF vars
  <2>2. OwnIds(m') /\ log' \in Seq(Records) /\ RestTyped'
        /\ \A r \in requests' : Requested(r)
    BY <2>1, SendsParts DEF RestTyped
  <2>3. QED  BY <2>1, <2>2, SameHistory
<1>3. QED  BY <1>1, <1>2

(* Whatever crashes and is sent again, under the same random id, the       *)
(* server has each text once, whether it refuses an id it has seen or      *)
(* answers with the message that it has.                                   *)
THEOREM EachSentOnce == Spec => []SentOnce
<1>1. Init => Sends
  BY FirstSends
<1>2. Sends /\ [Next]_vars => Sends'
  BY NextKeepsSends
<1>3. Sends => SentOnce
  BY DEF Sends
<1>4. QED  BY <1>1, <1>2, <1>3, PTL DEF Spec

-----------------------------------------------------------------------------
(* What each record does to a memory that is sound.                        *)

LEMMA SoundFields ==
  ASSUME NEW d, Sound(d)
  PROVE  /\ d \in Memory /\ ~d.fault /\ d.used = d.tree /\ d.peers = d.tree
         /\ d.unsent = d.pending /\ d.unsent \subseteq d.tree
         /\ \A o \in d.unsent : o \in Structs /\ o = Own(o.of) /\ d.id[o] = Random(o.of)
         /\ \A o \in d.tree : message_get(d, d.id[o]) = {o}
         /\ d.id \in [Structs -> Ids \cup {NoId}] /\ d.tree \subseteq Structs
BY MemoryFields DEF Sound, message_get

LEMMA StructsAre ==
  /\ \A o \in Structs : o.made = "here" => o.of \in Texts /\ o = Own(o.of)
  /\ \A i \in Ids : /\ i.sort = "random" => i.of \in Texts /\ i = Random(i.of)
                    /\ i.sort = "server" => i.of \in 1 .. MaxHistory /\ i = Server(i.of)
                    /\ i.sort \in {"random", "server"}
BY DEF Structs, Own, Copy, Ids, Random, Server

LEMMA SoundCopy ==
  ASSUME NEW d, Sound(d), NEW n \in 1 .. MaxHistory, message_get(d, Server(n)) = {}
  PROVE  /\ Sound(replay_log_event(d, Created(n)))
         /\ CopyDone(d, Copy(n), Server(n), replay_log_event(d, Created(n)))
         /\ Copy(n) \notin d.tree
<1> DEFINE e == replay_log_event(d, Created(n))
<1>1. d \in Memory /\ d.id \in [Structs -> Ids \cup {NoId}] /\ d.tree \subseteq Structs
  BY SoundFields
<1>2. /\ Copy(n) \in Structs /\ Server(n) \in Ids /\ Copy(n).made = "there"
      /\ Copy(n).of = n /\ Server(n).sort = "server"
  BY IdsAndStructs
<1>3. e = create_message(d, Copy(n), Server(n), FALSE)
  BY DEF Created, replay_log_event
<1>4. CopyDone(d, Copy(n), Server(n), e)
  BY <1>1, <1>2, <1>3, CopyFields
<1> HIDE DEF e
<1>5. Copy(n) \notin d.tree /\ Copy(n) \notin d.freed
  BY <1>2 DEF Sound, message_get
<1>6. \A o \in d.tree : d.id[o] # Server(n)
  BY DEF message_get
<1>7. /\ e \in Memory /\ e.id = [d.id EXCEPT ![Copy(n)] = Server(n)]
      /\ e.tree = d.tree \cup {Copy(n)} /\ e.used = e.tree /\ e.peers = e.tree
      /\ e.unsent = d.unsent /\ e.pending = e.unsent /\ e.freed = d.freed /\ ~e.fault
  BY <1>4 DEF CopyDone, Sound
<1>8. e.unsent = {o \in e.tree : e.id[o].sort = "random"}
  BY <1>1, <1>2, <1>5, <1>7 DEF Sound
<1>9. e.freed \cap e.tree = {} /\ \A o \in e.freed : o.made = "here"
  BY <1>2, <1>5, <1>7 DEF Sound
<1>10. \A o \in Structs : e.id[o] = NoId <=> o \notin e.tree \cup e.freed
  BY <1>1, <1>2, <1>7, IdsAndStructs DEF Sound
<1>11. \A o \in e.tree :
         /\ e.id[o].sort = "random" => o = Own(o.of) /\ e.id[o] = Random(o.of)
         /\ o.made = "there" => e.id[o] = Server(o.of)
  BY <1>1, <1>2, <1>5, <1>7 DEF Sound
<1>12. \A o, p \in e.tree : e.id[o] = e.id[p] => o = p
  BY <1>1, <1>2, <1>5, <1>6, <1>7 DEF Sound
<1>13. Sound(e)
  BY <1>7, <1>8, <1>9, <1>10, <1>11, <1>12 DEF Sound
<1>14. QED  BY <1>4, <1>5, <1>13 DEF e

LEMMA SoundSending ==
  ASSUME NEW d, Sound(d), NEW t \in Texts, d.id[Own(t)] = NoId
  PROVE  /\ Sound(replay_log_event(d, Sending(t)))
         /\ SendingDone(d, Own(t), Random(t), replay_log_event(d, Sending(t)))
         /\ Own(t) \notin d.tree
<1> DEFINE e == replay_log_event(d, Sending(t))
<1>1. d \in Memory /\ d.id \in [Structs -> Ids \cup {NoId}] /\ d.tree \subseteq Structs
  BY SoundFields
<1>2. /\ Own(t) \in Structs /\ Random(t) \in Ids /\ Own(t).made = "here"
      /\ Own(t).of = t /\ Random(t).sort = "random" /\ Random(t).of = t
  BY IdsAndStructs
<1>3. Own(t) \notin d.tree /\ Own(t) \notin d.freed
  BY <1>2 DEF Sound
<1>4. \A o \in d.tree : d.id[o] # Random(t)
  <2>1. \A x : Random(x).of = x
    BY DEF Random
  <2>2. ASSUME NEW o \in d.tree, d.id[o] = Random(t) PROVE FALSE
    <3>1. o = Own(o.of) /\ Random(o.of) = Random(t)
      BY <1>2, <2>2 DEF Sound
    <3>2. o.of = t
      BY <2>1, <3>1
    <3>3. QED  BY <1>3, <3>1, <3>2
  <2>3. QED  BY <2>2
<1>5. e = create_message(d, Own(t), Random(t), TRUE) /\ message_get(d, Random(t)) = {}
  BY <1>4 DEF Sending, replay_log_event, message_get
<1>6. SendingDone(d, Own(t), Random(t), e)
  BY <1>1, <1>2, <1>5, SendingFields
<1> HIDE DEF e
<1>7. /\ e \in Memory /\ e.id = [d.id EXCEPT ![Own(t)] = Random(t)]
      /\ e.tree = d.tree \cup {Own(t)} /\ e.used = e.tree /\ e.peers = e.tree
      /\ e.unsent = d.unsent \cup {Own(t)} /\ e.pending = e.unsent
      /\ e.freed = d.freed /\ ~e.fault
  BY <1>6 DEF SendingDone, Sound
<1>8. e.unsent = {o \in e.tree : e.id[o].sort = "random"}
  BY <1>1, <1>2, <1>3, <1>7 DEF Sound
<1>9. e.freed \cap e.tree = {} /\ \A o \in e.freed : o.made = "here"
  BY <1>2, <1>3, <1>7 DEF Sound
<1>10. \A o \in Structs : e.id[o] = NoId <=> o \notin e.tree \cup e.freed
  BY <1>1, <1>2, <1>7, IdsAndStructs DEF Sound
<1>11. \A o \in e.tree :
         /\ e.id[o].sort = "random" => o = Own(o.of) /\ e.id[o] = Random(o.of)
         /\ o.made = "there" => e.id[o] = Server(o.of)
  BY <1>1, <1>2, <1>3, <1>7 DEF Sound
<1>12. \A o, p \in e.tree : e.id[o] = e.id[p] => o = p
  BY <1>1, <1>2, <1>3, <1>4, <1>7 DEF Sound
<1>13. Sound(e)
  BY <1>7, <1>8, <1>9, <1>10, <1>11, <1>12 DEF Sound
<1>14. QED  BY <1>3, <1>6, <1>13 DEF e

Numbered(d, o, n, e) ==
  /\ Sound(e) /\ e.tree = d.tree /\ e.unsent = d.unsent \ {o}
  /\ e.id = [d.id EXCEPT ![o] = Server(n)]

LEMMA SoundRename ==
  ASSUME NEW d, Sound(d), NEW o \in d.unsent, NEW n \in 1 .. MaxHistory,
         message_get(d, Server(n)) = {}
  PROVE  Numbered(d, o, n, set_msg_id(d, d.id[o], Server(n)))
<1> DEFINE e == set_msg_id(d, d.id[o], Server(n))
<1>1. /\ d \in Memory /\ d.id \in [Structs -> Ids \cup {NoId}] /\ d.tree \subseteq Structs
      /\ d.unsent = d.pending /\ o \in Structs /\ o \in d.tree /\ o = Own(o.of)
      /\ message_get(d, d.id[o]) = {o}
  BY SoundFields
<1>2. /\ Server(n) \in Ids /\ Server(n).sort = "server"
  BY IdsAndStructs
<1>3. o.made = "here"
  BY <1>1 DEF Own
<1>4. \A p \in d.tree : d.id[p] # Server(n)
  BY DEF message_get
<1>5. RenameDone(d, o, Server(n), e)
  BY <1>1, <1>2, RenameFields
<1> HIDE DEF e
<1>6. /\ e \in Memory /\ e.id = [d.id EXCEPT ![o] = Server(n)]
      /\ e.tree = d.tree /\ e.used = e.tree /\ e.peers = e.tree
      /\ e.unsent = d.unsent \ {o} /\ e.pending = e.unsent
      /\ e.freed = d.freed /\ ~e.fault
  <2>1. ~Taken(d, o, Server(n))
    BY <1>4 DEF Taken
  <2>2. /\ e \in Memory /\ e.id = [d.id EXCEPT ![o] = Server(n)]
        /\ e.tree = d.tree \cup {o} /\ e.peers = d.peers \cup {o} /\ e.used = d.used
        /\ e.unsent = d.unsent \ {o} /\ e.pending = d.unsent \ {o}
        /\ e.freed = d.freed /\ e.fault = d.fault
    BY <1>5, <2>1 DEF RenameDone
  <2>3. d.used = d.tree /\ d.peers = d.tree /\ ~d.fault /\ d.tree \cup {o} = d.tree
    BY <1>1 DEF Sound
  <2>4. QED  BY <2>2, <2>3
<1>7. e.unsent = {p \in e.tree : e.id[p].sort = "random"}
  BY <1>1, <1>2, <1>6 DEF Sound
<1>8. e.freed \cap e.tree = {} /\ \A p \in e.freed : p.made = "here"
  BY <1>6 DEF Sound
<1>9. \A p \in Structs : e.id[p] = NoId <=> p \notin e.tree \cup e.freed
  BY <1>1, <1>2, <1>6, IdsAndStructs DEF Sound
<1>10. \A p \in e.tree :
         /\ e.id[p].sort = "random" => p = Own(p.of) /\ e.id[p] = Random(p.of)
         /\ p.made = "there" => e.id[p] = Server(p.of)
  BY <1>1, <1>2, <1>3, <1>6 DEF Sound
<1>11. \A p, q \in e.tree : e.id[p] = e.id[q] => p = q
  BY <1>1, <1>2, <1>4, <1>6 DEF Sound
<1>12. Sound(e)
  BY <1>6, <1>7, <1>8, <1>9, <1>10, <1>11 DEF Sound
<1>13. Numbered(d, o, n, e)
  BY <1>6, <1>12 DEF Numbered
<1>14. QED  BY <1>13 DEF e

Gone(d, o, e) ==
  /\ Sound(e) /\ e.tree = d.tree \ {o} /\ e.unsent = d.unsent \ {o} /\ e.id = d.id

LEMMA SoundDelete ==
  ASSUME NEW d, Sound(d), NEW o \in d.unsent
  PROVE  Gone(d, o, delete_msg(d, d.id[o]))
<1> DEFINE e == delete_msg(d, d.id[o])
<1>1. /\ d \in Memory /\ d.id \in [Structs -> Ids \cup {NoId}] /\ d.tree \subseteq Structs
      /\ d.unsent = d.pending /\ o \in Structs /\ o \in d.tree /\ o = Own(o.of)
      /\ message_get(d, d.id[o]) = {o}
  BY SoundFields
<1>2. o.made = "here"
  BY <1>1 DEF Own
<1>3. DeleteDone(d, o, e)
  BY <1>1, DeleteFields
<1> HIDE DEF e
<1>4. /\ e \in Memory /\ e.id = d.id
      /\ e.tree = d.tree \ {o} /\ e.used = e.tree /\ e.peers = e.tree
      /\ e.unsent = d.unsent \ {o} /\ e.pending = e.unsent
      /\ e.freed = d.freed \cup {o} /\ ~e.fault
  BY <1>1, <1>3 DEF DeleteDone, Sound
<1>5. e.unsent = {p \in e.tree : e.id[p].sort = "random"}
  BY <1>4 DEF Sound
<1>6. e.freed \cap e.tree = {} /\ \A p \in e.freed : p.made = "here"
  BY <1>2, <1>4 DEF Sound
<1>7. \A p \in Structs : e.id[p] = NoId <=> p \notin e.tree \cup e.freed
  BY <1>1, <1>4 DEF Sound
<1>8. Sound(e)
  BY <1>4, <1>5, <1>6, <1>7 DEF Sound
<1>9. Gone(d, o, e)
  BY <1>4, <1>8 DEF Gone
<1>10. QED  BY <1>9 DEF e


-----------------------------------------------------------------------------
(* The first state, and the log.                                           *)

LEMMA Distinct ==
  /\ \A j, k : Server(j) = Server(k) => j = k
  /\ \A j, k : Own(j) = Own(k) => j = k
  /\ \A j, k : Random(j) # Server(k)
BY DEF Server, Own, Random

LEMMA FirstIInv == ASSUME Init PROVE IInv
<1>1. Sends
  BY FirstSends
<1>2. m = Nothing /\ log = <<>> /\ phase = "start" /\ run = 0 /\ queries = {}
      /\ requests = {} /\ answers = {} /\ history = <<>> /\ updates = {}
  BY DEF Init
<1>3. /\ Nothing.tree = {} /\ Nothing.unsent = {} /\ Nothing.pending = {}
      /\ Nothing.used = {} /\ Nothing.peers = {} /\ Nothing.freed = {}
      /\ ~Nothing.fault /\ Nothing.id = [o \in Structs |-> NoId] /\ Nothing \in Memory
  BY DEF Nothing, Memory
<1>4. Sound(m)
  BY <1>2, <1>3 DEF Sound
<1>5. LogIsMemory
  BY <1>2, ReplayNone DEF LogIsMemory
<1>6. Known /\ QueriesPending /\ NewAnswers /\ NoneMissed
  BY <1>2, <1>3 DEF Known, QueriesPending, NewAnswers, NoneMissed
<1>7. QED  BY <1>1, <1>4, <1>5, <1>6 DEF IInv

LEMMA LogKept ==
  ASSUME log \in Seq(Records), LogIsMemory, NEW q \in Seq(Records),
         add_log_events(q), ~m'.fault
  PROVE  LogIsMemory'
<1>1. m' = Replayed(m, q) /\ log' = log \o q
  BY DEF add_log_events
<1>2. Replayed(Nothing, log) = m
  BY DEF LogIsMemory
<1>3. Replayed(Nothing, log \o q) = Replayed(Replayed(Nothing, log), q)
  BY ReplayConcat
<1>4. Replayed(Nothing, log') = m'
  BY <1>1, <1>2, <1>3
<1>5. QED  BY <1>4 DEF LogIsMemory

(* What the proofs of the actions start from.                              *)
LEMMA IInvParts ==
  ASSUME IInv
  PROVE  /\ Sends /\ RestTyped /\ m \in Memory /\ log \in Seq(Records)
         /\ Sound(m) /\ LogIsMemory /\ Known /\ QueriesPending /\ NewAnswers
         /\ NoneMissed
         /\ \A r \in requests : Requested(r) /\ r \in Request
         /\ Len(history) \in Nat /\ DOMAIN history = 1 .. Len(history)
         /\ DOMAIN history \subseteq 1 .. MaxHistory
         /\ \A n \in DOMAIN history : Sent(n) /\ history[n].text \in Texts
BY SendsParts DEF IInv

(* Steps that write one record, or none.                                   *)
LEMMA OneRecord ==
  ASSUME IInv, NEW r \in Records, add_log_events(<<r>>), Sound(replay_log_event(m, r))
  PROVE  m' = replay_log_event(m, r) /\ Sound(m)' /\ LogIsMemory'
<1>1. m' = replay_log_event(m, r)
  BY ReplayOne DEF add_log_events
<1>2. Sound(m')
  BY <1>1
<1>3. ~m'.fault
  BY <1>2 DEF Sound
<1>4. <<r>> \in Seq(Records)
  OBVIOUS
<1>5. LogIsMemory'
  BY <1>3, <1>4, IInvParts, LogKept
<1>6. Sound(m)'
  BY <1>2 DEF Sound
<1>7. QED  BY <1>1, <1>5, <1>6

LEMMA NoRecord ==
  ASSUME IInv, add_log_events(<<>>)
  PROVE  m' = m /\ Sound(m)' /\ LogIsMemory'
<1>1. m' = m
  BY ReplayNone DEF add_log_events
<1>2. Sound(m)'
  BY <1>1, IInvParts DEF Sound
<1>3. ~m'.fault
  BY <1>1, IInvParts DEF Sound
<1>4. <<>> \in Seq(Records)
  BY RecordsTyped
<1>5. LogIsMemory'
  BY <1>3, <1>4, IInvParts, LogKept
<1>6. QED  BY <1>1, <1>2, <1>5

-----------------------------------------------------------------------------
(* What each action keeps. *)

(* A memory to which the first i messages of the history have been added.  *)
Fetched(d, i) ==
  /\ Sound(d) /\ d.unsent = m.unsent
  /\ \A o \in m.tree : o \in d.tree /\ d.id[o] = m.id[o]
  /\ \A o \in d.tree \ m.tree : \E k \in 1 .. i : d.id[o] = Server(k)
  /\ \A k \in 1 .. i : message_get(d, Server(k)) # {}

LEMMA FetchOne ==
  ASSUME IInv, NEW i \in Nat, i + 1 \in DOMAIN history, NEW d, Fetched(d, i)
  PROVE  Fetched(Replayed(d, fetch_alloc_message(i + 1)), i + 1)
<1> DEFINE n == i + 1
           e == Replayed(d, fetch_alloc_message(n))
<1>1. /\ n \in 1 .. MaxHistory /\ \A k \in 1 .. n : k \in 1 .. i \/ k = n
      /\ \A k \in 1 .. i : k \in 1 .. n /\ k # n
  BY IInvParts
<1>2. n \in 1 .. n
  OBVIOUS
<1>3. Sound(d)
  BY DEF Fetched
<1> HIDE DEF n, e
<1>4. CASE message_get(m, Server(n)) # {}
  <2>1. e = d
    BY <1>4, ReplayNone DEF e, fetch_alloc_message
  <2>2. message_get(d, Server(n)) # {}
    BY <1>4 DEF Fetched, message_get
  <2>3. Fetched(d, n)
    BY <1>1, <2>2 DEF Fetched
  <2>4. QED  BY <2>1, <2>3 DEF e, n
<1>5. CASE message_get(m, Server(n)) = {}
  <2>1. e = replay_log_event(d, Created(n))
    BY <1>5, ReplayOne DEF e, fetch_alloc_message
  <2>2. message_get(d, Server(n)) = {}
    <3>1. SUFFICES ASSUME NEW o \in d.tree, d.id[o] = Server(n) PROVE FALSE
      BY DEF message_get
    <3>2. o \notin m.tree
      BY <1>5, <3>1 DEF Fetched, message_get
    <3>3. PICK k \in 1 .. i : d.id[o] = Server(k)
      BY <3>2 DEF Fetched
    <3>4. QED  BY <1>1, <3>1, <3>3, Distinct
  <2>3. Sound(e) /\ CopyDone(d, Copy(n), Server(n), e) /\ Copy(n) \notin d.tree
    BY <1>1, <1>3, <2>1, <2>2, SoundCopy
  <2>4. /\ e.tree = d.tree \cup {Copy(n)} /\ e.unsent = d.unsent
        /\ e.id[Copy(n)] = Server(n) /\ \A o \in d.tree : e.id[o] = d.id[o]
    <3>1. d.id \in [Structs -> Ids \cup {NoId}] /\ d.tree \subseteq Structs
      BY <1>3, SoundFields
    <3>2. Copy(n) \in Structs
      BY <1>1, IdsAndStructs
    <3>3. e.tree = d.tree \cup {Copy(n)} /\ e.unsent = d.unsent
          /\ e.id = [d.id EXCEPT ![Copy(n)] = Server(n)]
      BY <2>3 DEF CopyDone
    <3>4. QED  BY <2>3, <3>1, <3>2, <3>3
  <2>5. Copy(n) \notin m.tree /\ \A o \in m.tree : o \in e.tree /\ e.id[o] = m.id[o]
    BY <2>3, <2>4 DEF Fetched
  <2>6. \A o \in e.tree \ m.tree : \E k \in 1 .. n : e.id[o] = Server(k)
    BY <1>1, <1>2, <2>4 DEF Fetched
  <2>7. \A k \in 1 .. n : message_get(e, Server(k)) # {}
    BY <1>1, <2>4 DEF Fetched, message_get
  <2>8. e.unsent = m.unsent
    BY <2>4 DEF Fetched
  <2>9. Fetched(e, n)
    BY <2>3, <2>5, <2>6, <2>7, <2>8 DEF Fetched
  <2>10. QED  BY <2>9 DEF e, n
<1>6. QED  BY <1>4, <1>5

(* The difference, by induction on the messages of the history.            *)
LEMMA FetchAll ==
  ASSUME IInv
  PROVE  Fetched(Replayed(m, FlattenSeq([n \in DOMAIN history |-> fetch_alloc_message(n)])),
                 Len(history))
<1> DEFINE s == [n \in DOMAIN history |-> fetch_alloc_message(n)]
           N == Len(history)
<1>1. /\ N \in Nat /\ DOMAIN history = 1 .. N /\ s \in [1 .. N -> Seq(Records)]
      /\ Sound(m)
  BY IInvParts, DifferenceTyped
<1>2. Fetched(m, 0)
  BY <1>1 DEF Fetched
<1>3. \A n \in 1 .. N : s[n] = fetch_alloc_message(n)
  BY <1>1
<1> HIDE DEF s
<1>4. CASE N = 0
  <2>1. s \in [1 .. N -> Seq({})]
    BY <1>1, <1>4
  <2>2. FlattenSeq(s) \in Seq({})
    BY <1>1, <2>1, FlattenTyped
  <2>3. FlattenSeq(s) = <<>>
    BY <2>2
  <2>4. QED  BY <1>2, <1>4, <2>3, ReplayNone DEF s
<1>5. CASE N # 0
  <2>1. PICK f : /\ f = [i \in 1 .. N |-> IF i = 1 THEN s[i] ELSE f[i - 1] \o s[i]]
                 /\ FlattenSeq(s) = f[N]
    BY <1>1, <1>5, FlattenStep
  <2> HIDE DEF N
  <2> DEFINE P(n) == f[n] \in Seq(Records) /\ Fetched(Replayed(m, f[n]), n)
             T == {n \in Nat : n \in 1 .. N => P(n)}
  <2>2. 0 \in T
    OBVIOUS
  <2>3. ASSUME NEW n \in Nat, n \in T PROVE n + 1 \in T
    <3>1. SUFFICES ASSUME n + 1 \in 1 .. N PROVE P(n + 1)
      BY DEF T
    <3>2. s[n + 1] = fetch_alloc_message(n + 1) /\ s[n + 1] \in Seq(Records)
      BY <1>1, <1>3, <3>1
    <3>3. CASE n = 0
      <4>1. f[n + 1] = s[n + 1]
        BY <2>1, <3>1, <3>3
      <4>2. Fetched(m, n)
        BY <1>2, <3>3
      <4>3. Fetched(Replayed(m, fetch_alloc_message(n + 1)), n + 1)
        BY <1>1, <3>1, <4>2, FetchOne
      <4>4. QED  BY <3>2, <4>1, <4>3
    <3>4. CASE n # 0
      <4>1. n \in 1 .. N /\ n + 1 # 1 /\ (n + 1) - 1 = n
        BY <1>1, <3>1, <3>4
      <4>2. f[n + 1] = f[n] \o s[n + 1]
        BY <2>1, <3>1, <4>1
      <4>3. P(n)
        BY <2>3, <4>1
      <4> HIDE DEF P
      <4>4. f[n] \in Seq(Records) /\ Fetched(Replayed(m, f[n]), n)
        BY <4>3 DEF P
      <4>5. f[n + 1] \in Seq(Records)
        BY <3>2, <4>2, <4>4, ConcatProperties
      <4>6. Replayed(m, f[n + 1]) = Replayed(Replayed(m, f[n]), s[n + 1])
        BY <3>2, <4>2, <4>4, ReplayConcat
      <4>7. Fetched(Replayed(Replayed(m, f[n]), fetch_alloc_message(n + 1)), n + 1)
        BY <1>1, <3>1, <4>4, FetchOne
      <4>8. QED  BY <3>2, <4>5, <4>6, <4>7 DEF P
    <3>5. QED  BY <3>3, <3>4
  <2>4. N \in T
    <3> HIDE DEF T
    <3>1. QED  BY <1>1, <2>2, <2>3, Induction
  <2>5. Fetched(Replayed(m, f[N]), N)
    BY <1>1, <1>5, <2>4
  <2>6. QED  BY <2>1, <2>5 DEF s, N
<1>6. QED  BY <1>4, <1>5

LEMMA GetDifferenceKeeps ==
  ASSUME IInv, get_difference_on_answer, Sends'
  PROVE  IInv'
<1> DEFINE q == FlattenSeq([n \in DOMAIN history |-> fetch_alloc_message(n)])
<1>1. /\ Sound(m) /\ Known /\ QueriesPending /\ DOMAIN history = 1 .. Len(history)
      /\ LogIsMemory /\ log \in Seq(Records) /\ Sends
  BY IInvParts
<1>2. q \in Seq(Records) /\ add_log_events(q)
  <2>1. add_log_events(q \o <<>>) /\ q \in Seq(Records)
    BY <1>1, DifferenceTyped DEF get_difference_on_answer
  <2> HIDE DEF q
  <2>2. q \o <<>> = q
    BY <2>1, ConcatEmptySeq
  <2>3. QED  BY <2>1, <2>2
<1>3. Fetched(m', Len(history))
  BY <1>2, FetchAll DEF add_log_events
<1> HIDE DEF q
<1>4. Sound(m)' /\ LogIsMemory'
  <2>1. Sound(m') /\ ~m'.fault
    BY <1>3 DEF Fetched, Sound
  <2>2. QED  BY <1>1, <1>2, <2>1, LogKept DEF Sound
<1>5. queries = {} /\ answers = {} /\ phase = "start"
  BY <1>1 DEF QueriesPending, get_difference_on_answer
<1>6. /\ phase' = "resend" /\ queries' = {} /\ answers' = {} /\ updates' = {}
      /\ requests' = requests /\ run' = run /\ history' = history
  BY <1>5 DEF get_difference_on_answer
<1>7. QueriesPending'
  BY <1>1, <1>5, <1>6 DEF QueriesPending
<1>8. NewAnswers'
  BY <1>6 DEF NewAnswers
<1>9. NoneMissed'
  BY <1>1, <1>3, <1>6 DEF NoneMissed, Fetched, message_get
<1>10. Known'
  <2>1. ASSUME NEW o \in m'.tree, m'.id[o].sort = "server"
        PROVE  m'.id[o].of \in DOMAIN history
    <3>1. CASE o \in m.tree
      BY <1>1, <1>3, <2>1, <3>1 DEF Known, Fetched
    <3>2. CASE o \notin m.tree
      <4>1. PICK k \in DOMAIN history : m'.id[o] = Server(k)
        BY <1>1, <1>3, <3>2 DEF Fetched
      <4>2. QED  BY <4>1 DEF Server
    <3>3. QED  BY <3>1, <3>2
  <2>2. QED  BY <1>6, <2>1 DEF Known
<1>11. QED  BY <1>4, <1>7, <1>8, <1>9, <1>10 DEF IInv

LEMMA SendMessageKeeps ==
  ASSUME IInv, NEW t \in Texts, do_send_message(t), Sends'
  PROVE  IInv'
<1> DEFINE e == replay_log_event(m, Sending(t))
           asked == Asked(Own(t), Random(t), t)
<1>1. /\ Sound(m) /\ Known /\ QueriesPending /\ NewAnswers /\ NoneMissed /\ RestTyped
  BY IInvParts
<1>2. phase = "running" /\ ~m.fault /\ m.id[Own(t)] = NoId
  BY DEF do_send_message
<1>3. /\ Sound(e) /\ SendingDone(m, Own(t), Random(t), e) /\ Own(t) \notin m.tree
  BY <1>1, <1>2, SoundSending
<1> HIDE DEF e
<1>4. m' = e /\ Sound(m)' /\ LogIsMemory'
  <2>1. add_log_events(<<Sending(t)>>)
    BY DEF do_send_message, Sending
  <2>2. Sending(t) \in Records
    BY DEF Records
  <2>3. QED  BY <1>3, <2>1, <2>2, OneRecord DEF e
<1>5. /\ m'.tree = m.tree \cup {Own(t)} /\ m'.unsent = m.unsent \cup {Own(t)}
      /\ m'.id[Own(t)] = Random(t) /\ \A o \in m.tree : m'.id[o] = m.id[o]
      /\ m.unsent \subseteq m.tree
  <2>1. m.id \in [Structs -> Ids \cup {NoId}] /\ m.tree \subseteq Structs
        /\ m.unsent \subseteq m.tree
    BY <1>1, SoundFields
  <2>2. Own(t) \in Structs
    BY IdsAndStructs
  <2>3. QED  BY <1>3, <1>4, <2>1, <2>2 DEF SendingDone
<1>6. \A n : message_get(m', Server(n)) = message_get(m, Server(n))
  BY <1>3, <1>5, Distinct DEF message_get
<1>7. asked.struct = Own(t) /\ asked.run = run /\ run <= run
  BY <1>1, AskedTyped, Bounds DEF RestTyped
<1> HIDE DEF asked
<1>8. /\ queries' = queries \cup {Own(t)} /\ requests' = requests \cup {asked}
      /\ phase' = "running" /\ run' = run /\ answers' = answers
      /\ history' = history /\ updates' = updates
  BY DEF do_send_message, asked
<1>9. \A a \in answers : a.struct # Own(t)
  BY <1>1, <1>3, <1>5 DEF QueriesPending
<1>10. QueriesPending'
  <2>1. queries = m.unsent /\ \A r \in requests : r.run <= run /\ (r.run = run => r.struct \in queries)
    BY <1>1, <1>2 DEF QueriesPending
  <2>2. queries' = m'.unsent
    BY <1>5, <1>8, <2>1
  <2>3. \A r \in requests' : r.run <= run' /\ (r.run = run' => r.struct \in queries')
    BY <1>7, <1>8, <2>1
  <2>4. \A a \in answers' : a.struct \in queries'
    BY <1>1, <1>8 DEF QueriesPending
  <2>5. \A a \in answers', r \in requests' : r.run = run' => r.struct # a.struct
    BY <1>1, <1>7, <1>8, <1>9 DEF QueriesPending
  <2>6. \A o \in queries' : \/ \E r \in requests' : r.struct = o /\ r.run = run'
                            \/ \E a \in answers' : a.struct = o
    BY <1>1, <1>7, <1>8 DEF QueriesPending
  <2>7. \A a, b \in answers' : a.struct = b.struct => a = b
    BY <1>1, <1>8 DEF QueriesPending
  <2>8. QED  BY <1>8, <2>2, <2>3, <2>4, <2>5, <2>6, <2>7 DEF QueriesPending
<1>11. NewAnswers'
  BY <1>1, <1>6, <1>8 DEF NewAnswers, Named
<1>12. NoneMissed'
  <2>1. \A n \in DOMAIN history :
          \/ message_get(m, Server(n)) # {}
          \/ [kind |-> "new_message", n |-> n] \in updates
          \/ \E a \in answers : a.ok /\ a.id = Server(n)
    BY <1>1, <1>2 DEF NoneMissed
  <2>2. QED  BY <1>6, <1>8, <2>1 DEF NoneMissed
<1>13. Known'
  BY <1>1, <1>5, <1>8, IdsAndStructs DEF Known
<1>14. QED  BY <1>4, <1>10, <1>11, <1>12, <1>13 DEF IInv

LEMMA SendAllUnsentKeeps ==
  ASSUME IInv, send_all_unsent, Sends'
  PROVE  IInv'
<1>1. /\ Sound(m) /\ Known /\ QueriesPending /\ NewAnswers /\ NoneMissed /\ RestTyped
      /\ LogIsMemory
  BY IInvParts
<1> DEFINE New(o) == Asked(o, m.id[o], o.of)
<1>2. /\ phase = "resend" /\ phase' = "running" /\ queries' = queries \cup m.unsent
      /\ requests' = requests \cup {New(o) : o \in m.unsent}
      /\ m' = m /\ log' = log /\ run' = run /\ answers' = answers
      /\ history' = history /\ updates' = updates /\ ~m.fault
  BY DEF send_all_unsent
<1>3. \A o : New(o).struct = o /\ New(o).run = run
  BY DEF Asked
<1> HIDE DEF New
<1>4. queries = {} /\ answers = {} /\ (\A r \in requests : r.run <= run /\ r.run # run)
      /\ run <= run
  BY <1>1, <1>2, Bounds DEF QueriesPending, RestTyped
<1>5. QueriesPending'
  BY <1>2, <1>3, <1>4 DEF QueriesPending
<1>6. NewAnswers'
  BY <1>2, <1>4 DEF NewAnswers
<1>7. NoneMissed'
  BY <1>1, <1>2 DEF NoneMissed
<1>8. Known' /\ LogIsMemory' /\ Sound(m)'
  BY <1>1, <1>2 DEF Known, LogIsMemory, Sound
<1>9. QED  BY <1>5, <1>6, <1>7, <1>8 DEF IInv

LEMMA NewMessageKeeps ==
  ASSUME IInv, NEW n \in DOMAIN history, update_new_message(n), Sends'
  PROVE  IInv'
<1> DEFINE e == replay_log_event(m, Created(n))
           u == [kind |-> "new_message", n |-> n]
<1>1. /\ Sound(m) /\ Known /\ QueriesPending /\ NewAnswers /\ NoneMissed
      /\ n \in 1 .. MaxHistory
  BY IInvParts
<1>2. /\ add_log_events(fetch_alloc_message(n)) /\ updates' = updates \ {u}
      /\ phase' = phase /\ run' = run /\ queries' = queries /\ requests' = requests
      /\ answers' = answers /\ history' = history /\ u \in updates /\ ~m.fault
  BY DEF update_new_message
<1>3. \A k : [kind |-> "new_message", n |-> k] = u => k = n
  OBVIOUS
<1> HIDE DEF u
<1>4. CASE message_get(m, Server(n)) # {}
  <2>1. m' = m /\ Sound(m)' /\ LogIsMemory'
    BY <1>2, <1>4, NoRecord DEF fetch_alloc_message
  <2>2. Known' /\ QueriesPending' /\ NewAnswers'
    BY <1>1, <1>2, <2>1 DEF Known, QueriesPending, NewAnswers, Named
  <2>3. NoneMissed'
    BY <1>1, <1>2, <1>3, <1>4, <2>1 DEF NoneMissed
  <2>4. QED  BY <2>1, <2>2, <2>3 DEF IInv
<1>5. CASE message_get(m, Server(n)) = {}
  <2>1. Sound(e) /\ CopyDone(m, Copy(n), Server(n), e) /\ Copy(n) \notin m.tree
    BY <1>1, <1>5, SoundCopy
  <2> HIDE DEF e
  <2>2. m' = e /\ Sound(m)' /\ LogIsMemory'
    <3>1. Created(n) \in Records
      BY <1>1 DEF Records
    <3>2. add_log_events(<<Created(n)>>)
      BY <1>2, <1>5 DEF fetch_alloc_message
    <3>3. QED  BY <2>1, <3>1, <3>2, OneRecord DEF e
  <2>3. /\ m'.tree = m.tree \cup {Copy(n)} /\ m'.unsent = m.unsent
        /\ m'.id[Copy(n)] = Server(n) /\ \A o \in m.tree : m'.id[o] = m.id[o]
    <3>1. m.id \in [Structs -> Ids \cup {NoId}] /\ m.tree \subseteq Structs
      BY <1>1, SoundFields
    <3>2. Copy(n) \in Structs
      BY <1>1, IdsAndStructs
    <3>3. QED  BY <2>1, <2>2, <3>1, <3>2 DEF CopyDone
  <2>4. \A k : k # n => message_get(m', Server(k)) = message_get(m, Server(k))
    BY <2>1, <2>3, Distinct DEF message_get
  <2>5. message_get(m', Server(n)) # {}
    BY <2>3 DEF message_get
  <2>6. QueriesPending'
    BY <1>1, <1>2, <2>3 DEF QueriesPending
  <2>7. NewAnswers'
    BY <1>1, <1>2, <2>4 DEF NewAnswers, Named, u
  <2>8. NoneMissed'
    BY <1>1, <1>2, <1>3, <2>4, <2>5 DEF NoneMissed
  <2>9. Known'
    BY <1>1, <1>2, <2>3 DEF Known, Server
  <2>10. QED  BY <2>2, <2>6, <2>7, <2>8, <2>9 DEF IInv
<1>6. QED  BY <1>4, <1>5

LEMMA MessageIdKeeps ==
  ASSUME IInv, NEW n \in DOMAIN history, update_message_i_d(n), Sends'
  PROVE  IInv'
<1>1. /\ Known /\ QueriesPending /\ NewAnswers /\ NoneMissed /\ m \in Memory
  BY IInvParts
<1>2. /\ add_log_events(<<>>) /\ phase' = phase /\ run' = run /\ queries' = queries
      /\ requests' = requests /\ answers' = answers /\ history' = history
      /\ ~m.fault /\ \A k : [kind |-> "new_message", n |-> k] \in updates
                        <=> [kind |-> "new_message", n |-> k] \in updates'
  BY <1>1, NeverRenamed DEF update_message_i_d
<1>3. m' = m /\ Sound(m)' /\ LogIsMemory'
  BY <1>2, NoRecord
<1>4. Known' /\ QueriesPending' /\ NewAnswers'
  BY <1>1, <1>2, <1>3 DEF Known, QueriesPending, NewAnswers, Named
<1>5. NoneMissed'
  BY <1>1, <1>2, <1>3 DEF NoneMissed
<1>6. QED  BY <1>3, <1>4, <1>5 DEF IInv

LEMMA AnswerKeeps ==
  ASSUME IInv, NEW a \in answers, msg_send_on_answer(a), Sends'
  PROVE  IInv'
<1> DEFINE o == a.struct
           record == [op |-> "set_msg_id", id |-> m.id[o], new |-> a.id]
<1>1. /\ Sound(m) /\ Known /\ QueriesPending /\ NewAnswers /\ NoneMissed /\ RestTyped
      /\ m \in Memory /\ DOMAIN history \subseteq 1 .. MaxHistory
      /\ \A k \in DOMAIN history : history[k].text \in Texts
  BY IInvParts
<1>2. a.ok /\ ~m.fault
  BY DEF msg_send_on_answer
<1>3. PICK n \in DOMAIN history : /\ a.id = Server(n) /\ o = Own(history[n].text)
                                  /\ message_get(m, Server(n)) = {}
  BY <1>1, <1>2 DEF NewAnswers, Named
<1>4. o \in queries /\ phase = "running" /\ queries = m.unsent /\ o \in m.unsent
  BY <1>1 DEF QueriesPending
<1>5. /\ o \in Structs /\ m.id[o] = Random(o.of) /\ o \in m.tree
      /\ m.id \in [Structs -> Ids \cup {NoId}] /\ m.tree \subseteq Structs
  BY <1>1, <1>4, SoundFields
<1>6. m.id[o] # a.id
  BY <1>3, <1>5, Distinct
<1>7. record \in Records
  <2>1. m.id[o] \in Ids \cup {NoId} /\ a.id \in Ids \cup {NoId}
    BY <1>1, <1>3, <1>5, IdsAndStructs
  <2> HIDE DEF o
  <2>2. QED  BY <2>1 DEF Records
<1>8. replay_log_event(m, record) = set_msg_id(m, m.id[o], Server(n))
  BY <1>3 DEF replay_log_event
<1>9. Numbered(m, o, n, replay_log_event(m, record))
  <2>1. n \in 1 .. MaxHistory
    BY <1>1, <1>3
  <2>2. Numbered(m, o, n, set_msg_id(m, m.id[o], Server(n)))
    BY <1>1, <1>3, <1>4, <2>1, SoundRename
  <2> HIDE DEF record, o
  <2>3. QED  BY <1>8, <2>2
<1>10. add_log_events(<<record>>)
  <2>1. Replayed(m, <<record>>) = replay_log_event(m, record)
    BY ReplayOne
  <2>2. o \notin Replayed(m, <<record>>).freed /\ o \notin Replayed(m, <<record>>).pending
    <3> HIDE DEF record
    <3>1. QED  BY <1>5, <1>9, <2>1 DEF Numbered, Sound
  <2> DEFINE named == IF m.id[o] = a.id THEN <<>> ELSE <<record>>
             sent == <<[op |-> "set_message_sent", id |-> a.id]>>
             after == Replayed(m, named)
  <2>3. o \notin after.freed /\ o \notin after.pending => add_log_events(named)
    BY DEF msg_send_on_answer
  <2>4. named = <<record>>
    BY <1>6
  <2> HIDE DEF named, sent, record, o
  <2>5. QED  BY <2>2, <2>3, <2>4
<1> HIDE DEF record
<1>11. Sound(replay_log_event(m, record))
  BY <1>9 DEF Numbered
<1>12. m' = replay_log_event(m, record) /\ Sound(m)' /\ LogIsMemory'
  BY <1>7, <1>10, <1>11, OneRecord
<1>13. /\ m'.tree = m.tree /\ m'.unsent = m.unsent \ {o}
       /\ m'.id[o] = Server(n) /\ \A p \in m.tree \ {o} : m'.id[p] = m.id[p]
  BY <1>5, <1>9, <1>12 DEF Numbered
<1>14. \A k : k # n => message_get(m', Server(k)) = message_get(m, Server(k))
  BY <1>5, <1>13, Distinct DEF message_get
<1>15. message_get(m', Server(n)) # {}
  BY <1>5, <1>13 DEF message_get
<1>16. /\ answers' = answers \ {a} /\ queries' = queries \ {o} /\ phase' = phase
       /\ run' = run /\ requests' = requests /\ history' = history /\ updates' = updates
  BY DEF msg_send_on_answer
<1>17. QueriesPending'
  BY <1>1, <1>4, <1>13, <1>16 DEF QueriesPending
<1>18. NewAnswers'
  <2>1. ASSUME NEW b \in answers, b # a, b.ok
        PROVE  \E k \in DOMAIN history :
                 /\ b.id = Server(k) /\ b.struct = Own(history[k].text)
                 /\ message_get(m', Server(k)) = {}
                 /\ [kind |-> "new_message", n |-> k] \notin updates
    <3>1. PICK k \in DOMAIN history :
            /\ b.id = Server(k) /\ b.struct = Own(history[k].text)
            /\ message_get(m, Server(k)) = {}
            /\ [kind |-> "new_message", n |-> k] \notin updates
      BY <1>1, <2>1 DEF NewAnswers, Named
    <3>2. b.struct # o
      BY <1>1, <2>1 DEF QueriesPending
    <3>3. k # n
      BY <1>3, <3>1, <3>2
    <3>4. QED  BY <1>14, <3>1, <3>3
  <2>2. QED  BY <1>16, <2>1 DEF NewAnswers, Named
<1>19. NoneMissed'
  <2>1. \A k \in DOMAIN history :
          \/ message_get(m, Server(k)) # {}
          \/ [kind |-> "new_message", n |-> k] \in updates
          \/ \E b \in answers : b.ok /\ b.id = Server(k)
    BY <1>1, <1>2, <1>4 DEF NoneMissed
  <2>2. ASSUME NEW k \in DOMAIN history
        PROVE  \/ message_get(m', Server(k)) # {}
               \/ [kind |-> "new_message", n |-> k] \in updates
               \/ \E b \in answers' : b.ok /\ b.id = Server(k)
    <3>1. CASE k = n
      BY <1>15, <3>1
    <3>2. CASE k # n
      BY <1>3, <1>14, <1>16, <2>1, <3>2, Distinct
    <3>3. QED  BY <3>1, <3>2
  <2>3. QED  BY <1>16, <2>2 DEF NoneMissed
<1>20. Known'
  BY <1>1, <1>3, <1>13, <1>16 DEF Known, Server
<1>21. QED  BY <1>12, <1>17, <1>18, <1>19, <1>20 DEF IInv

LEMMA ErrorKeeps ==
  ASSUME IInv, NEW a \in answers, msg_send_on_error(a), Sends'
  PROVE  IInv'
<1> DEFINE o == a.struct
           record == [op |-> "delete_msg", id |-> m.id[o]]
<1>1. /\ Sound(m) /\ Known /\ QueriesPending /\ NewAnswers /\ NoneMissed
      /\ m \in Memory
  BY IInvParts
<1>2. ~a.ok /\ ~m.fault
  BY DEF msg_send_on_error
<1>3. o \in queries /\ phase = "running" /\ queries = m.unsent /\ o \in m.unsent
  BY <1>1 DEF QueriesPending
<1>4. /\ o \in Structs /\ m.id[o] = Random(o.of) /\ o \in m.tree
      /\ m.id \in [Structs -> Ids \cup {NoId}] /\ m.tree \subseteq Structs
  BY <1>1, <1>3, SoundFields
<1>5. record \in Records
  <2>1. m.id[o] \in Ids \cup {NoId}
    BY <1>4
  <2> HIDE DEF o
  <2>2. QED  BY <2>1 DEF Records
<1>6. Gone(m, o, replay_log_event(m, record))
  <2>1. replay_log_event(m, record) = delete_msg(m, m.id[o])
    BY DEF replay_log_event
  <2>2. Gone(m, o, delete_msg(m, m.id[o]))
    BY <1>1, <1>3, SoundDelete
  <2> HIDE DEF record, o
  <2>3. QED  BY <2>1, <2>2
<1>7. add_log_events(<<record>>)
  BY DEF msg_send_on_error
<1> HIDE DEF record
<1>8. m' = replay_log_event(m, record) /\ Sound(m)' /\ LogIsMemory'
  BY <1>5, <1>6, <1>7, OneRecord DEF Gone
<1>9. m'.tree = m.tree \ {o} /\ m'.unsent = m.unsent \ {o} /\ m'.id = m.id
  BY <1>6, <1>8 DEF Gone
<1>10. \A k : message_get(m', Server(k)) = message_get(m, Server(k))
  BY <1>4, <1>9, Distinct DEF message_get
<1>11. /\ answers' = answers \ {a} /\ queries' = queries \ {o} /\ phase' = phase
       /\ run' = run /\ requests' = requests /\ history' = history /\ updates' = updates
  BY DEF msg_send_on_error
<1>12. QueriesPending'
  BY <1>1, <1>3, <1>9, <1>11 DEF QueriesPending
<1>13. NewAnswers'
  BY <1>1, <1>10, <1>11 DEF NewAnswers, Named
<1>14. NoneMissed'
  BY <1>1, <1>2, <1>10, <1>11 DEF NoneMissed
<1>15. Known'
  BY <1>1, <1>9, <1>11 DEF Known
<1>16. QED  BY <1>8, <1>12, <1>13, <1>14, <1>15 DEF IInv

LEMMA RestartKeeps ==
  ASSUME IInv, Restart, Sends'
  PROVE  IInv'
<1>1. /\ Sound(m) /\ Known /\ QueriesPending /\ LogIsMemory /\ run \in Nat
  BY IInvParts, Bounds DEF RestTyped
<1>2. /\ run' = run + 1 /\ m' = m /\ phase' = "start" /\ queries' = {} /\ answers' = {}
      /\ log' = log /\ requests' = requests /\ history' = history
  BY <1>1 DEF Restart, LogIsMemory
<1>3. Sound(m)' /\ LogIsMemory' /\ Known'
  BY <1>1, <1>2 DEF Sound, LogIsMemory, Known
<1>4. \A r \in requests : r.run <= run' /\ r.run # run'
  <2>1. \A r \in requests : r.run <= run /\ r.run \in Nat
    BY <1>1, IInvParts, Bounds DEF QueriesPending, Request
  <2>2. QED  BY <1>1, <1>2, <2>1
<1>5. QueriesPending' /\ NewAnswers' /\ NoneMissed'
  BY <1>2, <1>4 DEF QueriesPending, NewAnswers, NoneMissed
<1>6. QED  BY <1>3, <1>5 DEF IInv

LEMMA ExecuteKeeps ==
  ASSUME RefusesAgain, IInv, NEW r \in requests, Execute(r), Sends'
  PROVE  IInv'
<1> DEFINE n == IF Position(r.random) = {} THEN Len(history) + 1
                ELSE CHOOSE k \in Position(r.random) : TRUE
           new == n > Len(history)
           one == [struct |-> r.struct, ok |-> new, id |-> Server(n)]
           u == [kind |-> "new_message", n |-> n]
<1>1. /\ Sound(m) /\ Known /\ QueriesPending /\ NewAnswers /\ NoneMissed /\ RestTyped
      /\ LogIsMemory /\ Len(history) \in Nat /\ DOMAIN history = 1 .. Len(history)
      /\ \A x \in requests : Requested(x) /\ x \in Request
  BY IInvParts
<1>2. UNCHANGED <<m, log, phase, run, queries>> /\ requests' = requests \ {r}
  BY DEF Execute
<1>3. one.struct = r.struct /\ one.ok = new /\ one.id = Server(n)
  OBVIOUS
<1>4. answers' = IF r.run = run THEN answers \cup {one} ELSE answers
  BY DEF Execute
<1>5. updates' = IF r.run # run /\ new
                 THEN updates \cup [kind : {"new_message", "message_i_d"}, n : {n}]
                 ELSE updates
  BY DEF Execute
<1>6. \A x \in requests : x # r /\ x.run = r.run => x.struct # r.struct
  <2>1. TAKE x \in requests
  <2>2. SUFFICES ASSUME x.run = r.run, x.struct = r.struct PROVE x = r
    OBVIOUS
  <2>3. x.text = r.text
    BY <1>1, <2>2, Distinct DEF Requested
  <2>4. x.random = r.random
    BY <1>1, <2>3 DEF Requested
  <2>5. x \in Request /\ r \in Request
    BY <1>1
  <2>6. QED  BY <2>2, <2>3, <2>4, <2>5 DEF Request
<1>7. /\ DOMAIN history \subseteq DOMAIN history'
      /\ \A k \in DOMAIN history : history'[k].text = history[k].text
      /\ new => /\ n \notin DOMAIN history /\ DOMAIN history' = DOMAIN history \cup {n}
                /\ history'[n].text = r.text
      /\ ~new => history' = history
  <2>1. CASE new
    <3>1. history' = Append(history, [random |-> r.random, text |-> r.text])
      BY <2>1 DEF Execute
    <3>2. n = Len(history) + 1
      <4>1. CASE Position(r.random) # {}
        <5>1. n \in Position(r.random)
          BY <4>1
        <5> HIDE DEF n
        <5>2. QED  BY <1>1, <2>1, <5>1 DEF Position
      <4>2. QED  BY <4>1
    <3> HIDE DEF n, one, u
    <3>3. history \in HistoryType
      BY <1>1 DEF RestTyped
    <3>4. [random |-> r.random, text |-> r.text] \in [random : Ids, text : Texts]
      BY <1>1 DEF Request
    <3>5. /\ history' \in HistoryType /\ Len(history') = Len(history) + 1
          /\ history'[n] = [random |-> r.random, text |-> r.text]
          /\ \A k \in 1 .. Len(history) : history'[k] = history[k]
      BY <3>1, <3>2, <3>3, <3>4, AppendProperties DEF HistoryType
    <3>6. DOMAIN history' = 1 .. Len(history')
      BY <3>5, LenProperties DEF HistoryType
    <3>7. QED  BY <1>1, <2>1, <3>2, <3>5, <3>6
  <2>2. CASE ~new
    <3>1. history' = history
      BY <2>2 DEF Execute
    <3> HIDE DEF n, one, u
    <3>2. QED  BY <2>2, <3>1
  <2>3. QED  BY <2>1, <2>2
<1> HIDE DEF n, one
<1>8. Known' /\ LogIsMemory' /\ Sound(m)'
  BY <1>1, <1>2, <1>7 DEF Known, LogIsMemory, Sound
<1>9. QueriesPending'
  <2>1. /\ queries' \subseteq m'.unsent
        /\ queries' = IF phase' = "running" THEN m'.unsent ELSE {}
        /\ \A x \in requests' : x.run <= run' /\ (x.run = run' => x.struct \in queries')
    BY <1>1, <1>2 DEF QueriesPending
  <2>2. CASE r.run = run
    <3>1. answers' = answers \cup {one} /\ r.struct \in queries
          /\ \A b \in answers : b.struct # r.struct
      BY <1>1, <1>4, <2>2 DEF QueriesPending
    <3>2. \A b \in answers' : b.struct \in queries'
      BY <1>1, <1>2, <1>3, <3>1 DEF QueriesPending
    <3>3. \A b \in answers', x \in requests' : x.run = run' => x.struct # b.struct
      BY <1>1, <1>2, <1>3, <1>6, <2>2, <3>1 DEF QueriesPending
    <3>4. \A b, c \in answers' : b.struct = c.struct => b = c
      BY <1>1, <1>3, <3>1 DEF QueriesPending
    <3>5. \A o \in queries' : \/ \E x \in requests' : x.struct = o /\ x.run = run'
                              \/ \E b \in answers' : b.struct = o
      BY <1>1, <1>2, <1>3, <3>1 DEF QueriesPending
    <3>6. QED  BY <2>1, <3>2, <3>3, <3>4, <3>5 DEF QueriesPending
  <2>3. CASE r.run # run
    BY <1>1, <1>2, <1>4, <2>1, <2>3 DEF QueriesPending
  <2>4. QED  BY <2>2, <2>3
<1>10. \A k : [kind |-> "new_message", n |-> k] \in updates'
              => \/ [kind |-> "new_message", n |-> k] \in updates
                 \/ new /\ k = n /\ r.run # run
  BY <1>5
<1>11. \A k : [kind |-> "new_message", n |-> k] \in updates => k \in DOMAIN history
  BY <1>1 DEF RestTyped
<1>12. NewAnswers'
  <2>1. SUFFICES ASSUME NEW a \in answers', a.ok
                 PROVE  \E k \in DOMAIN history' :
                          /\ a.id = Server(k) /\ a.struct = Own(history'[k].text)
                          /\ message_get(m, Server(k)) = {}
                          /\ [kind |-> "new_message", n |-> k] \notin updates'
    BY <1>2 DEF NewAnswers, Named
  <2>2. CASE a \in answers
    <3>1. PICK k \in DOMAIN history :
            /\ a.id = Server(k) /\ a.struct = Own(history[k].text)
            /\ message_get(m, Server(k)) = {}
            /\ [kind |-> "new_message", n |-> k] \notin updates
      BY <1>1, <2>1, <2>2 DEF NewAnswers, Named
    <3>2. QED  BY <1>7, <1>10, <3>1
  <2>3. CASE a \notin answers
    <3>1. a = one /\ r.run = run /\ new
      BY <1>3, <1>4, <2>1, <2>3
    <3>2. n \in DOMAIN history' /\ n \notin DOMAIN history
      BY <1>7, <3>1
    <3>3. a.id = Server(n) /\ a.struct = Own(history'[n].text)
      BY <1>1, <1>3, <1>7, <3>1 DEF Requested
    <3>4. message_get(m, Server(n)) = {}
      BY <1>1, <3>2 DEF Known, message_get, Server
    <3>5. [kind |-> "new_message", n |-> n] \notin updates'
      BY <1>10, <1>11, <3>1, <3>2
    <3>6. QED  BY <3>2, <3>3, <3>4, <3>5
  <2>4. QED  BY <2>2, <2>3
<1>13. NoneMissed'
  <2>1. SUFFICES ASSUME phase # "start", ~m.fault, NEW k \in DOMAIN history'
                 PROVE  \/ message_get(m, Server(k)) # {}
                        \/ [kind |-> "new_message", n |-> k] \in updates'
                        \/ \E a \in answers' : a.ok /\ a.id = Server(k)
    BY <1>2 DEF NoneMissed
  <2>2. CASE k \in DOMAIN history
    BY <1>1, <1>4, <1>5, <2>1, <2>2 DEF NoneMissed
  <2>3. CASE k \notin DOMAIN history
    BY <1>3, <1>4, <1>5, <1>7, <2>1, <2>3
  <2>4. QED  BY <2>2, <2>3
<1>14. QED  BY <1>8, <1>9, <1>12, <1>13 DEF IInv

LEMMA RefuseKeeps ==
  ASSUME IInv, NEW r \in requests, Refuse(r), Sends'
  PROVE  IInv'
<1> DEFINE one == [struct |-> r.struct, ok |-> FALSE, id |-> NoId]
<1>1. /\ Sound(m) /\ Known /\ QueriesPending /\ NewAnswers /\ NoneMissed
      /\ LogIsMemory /\ \A x \in requests : Requested(x) /\ x \in Request
  BY IInvParts
<1>2. /\ UNCHANGED <<m, log, phase, run, queries, history, updates>>
      /\ requests' = requests \ {r} /\ answers' = answers \cup {one} /\ r.run = run
  BY DEF Refuse
<1>3. one.struct = r.struct /\ ~one.ok
  OBVIOUS
<1> HIDE DEF one
<1>4. \A x \in requests : x # r /\ x.run = r.run => x.struct # r.struct
  <2>1. TAKE x \in requests
  <2>2. SUFFICES ASSUME x.run = r.run, x.struct = r.struct PROVE x = r
    OBVIOUS
  <2>3. x.text = r.text
    BY <1>1, <2>2, Distinct DEF Requested
  <2>4. x.random = r.random /\ x \in Request /\ r \in Request
    BY <1>1, <2>3 DEF Requested
  <2>5. QED  BY <2>2, <2>3, <2>4 DEF Request
<1>5. r.struct \in queries /\ \A b \in answers : b.struct # r.struct
  BY <1>1, <1>2 DEF QueriesPending
<1>6. QueriesPending'
  BY <1>1, <1>2, <1>3, <1>4, <1>5 DEF QueriesPending
<1>7. NewAnswers' /\ NoneMissed'
  BY <1>1, <1>2, <1>3 DEF NewAnswers, Named, NoneMissed
<1>8. Known' /\ LogIsMemory' /\ Sound(m)'
  BY <1>1, <1>2 DEF Known, LogIsMemory, Sound
<1>9. QED  BY <1>6, <1>7, <1>8 DEF IInv

LEMMA NextKeepsIInv ==
  ASSUME RefusesAgain, IInv, [Next]_vars
  PROVE  IInv'
<1>1. Sends'
  BY IInvParts, NextKeepsSends
<1>2. CASE Next
  <2>1. CASE Progress
    BY <1>1, <2>1, GetDifferenceKeeps, SendAllUnsentKeeps, NewMessageKeeps, MessageIdKeeps,
       AnswerKeeps, ErrorKeeps, ExecuteKeeps DEF Progress
  <2>2. CASE ~Progress
    BY <1>1, <1>2, <2>2, SendMessageKeeps, ExecuteKeeps, RefuseKeeps, RestartKeeps DEF Next
  <2>3. QED  BY <2>1, <2>2
<1>3. CASE UNCHANGED vars
  <2>1. UNCHANGED <<m, log, phase, run, queries, requests, answers, history, updates>>
    BY <1>3 DEF vars
  <2>2. Sound(m)' /\ LogIsMemory' /\ Known'
    BY <2>1, IInvParts DEF Sound, LogIsMemory, Known
  <2>3. QueriesPending'
    BY <2>1, IInvParts DEF QueriesPending
  <2>4. NewAnswers' /\ NoneMissed'
    BY <2>1, IInvParts DEF NewAnswers, Named, NoneMissed
  <2>5. QED  BY <1>1, <2>2, <2>3, <2>4 DEF IInv
<1>4. QED  BY <1>2, <1>3

-----------------------------------------------------------------------------
(* The assumption of both theorems: the server refuses a random id that it *)
(* has seen.  Where it answers with the message instead, the answer finds  *)
(* the copy of that message in memory, and its struct is freed but stays   *)
(* in the list of messages in use (the run msg_freed).                     *)

(* Through answers, errors, crashes and replays no assertion of the lists  *)
(* fails, and no list leads to a message that was freed.                   *)
THEOREM TreesAlwaysSound == RefusesAgain => (Spec => []TreesSound)
<1> SUFFICES ASSUME RefusesAgain PROVE Spec => []TreesSound
  OBVIOUS
<1>1. Init => IInv
  BY FirstIInv
<1>2. IInv /\ [Next]_vars => IInv'
  BY NextKeepsIInv
<1>3. IInv => TreesSound
  <2>1. SUFFICES ASSUME IInv PROVE TreesSound
    OBVIOUS
  <2>2. Sends /\ Sound(m) /\ QueriesPending
    BY <2>1, IInvParts
  <2>3. TypeOK /\ queries \subseteq m.unsent
    BY <2>2 DEF QueriesPending, Sends
  <2>4. m.unsent \subseteq m.tree
    BY <2>2, SoundFields
  <2>5. QED  BY <2>2, <2>3, <2>4 DEF TreesSound, NoFault, ListsAlive, Sound
<1>4. QED  BY <1>1, <1>2, <1>3, PTL DEF Spec

(* A message waits to be sent exactly as long as a query asks about it,    *)
(* and a message that the server has is in memory or on its way there.     *)
THEOREM NoneGoAstray == RefusesAgain => (Spec => []NoneAstray)
<1> SUFFICES ASSUME RefusesAgain PROVE Spec => []NoneAstray
  OBVIOUS
<1>1. Init => IInv
  BY FirstIInv
<1>2. IInv /\ [Next]_vars => IInv'
  BY NextKeepsIInv
<1>3. IInv => NoneAstray
  BY IInvParts DEF NoneAstray, UnsentAreAsked, Sound, QueriesPending
<1>4. QED  BY <1>1, <1>2, <1>3, PTL DEF Spec

=============================================================================
