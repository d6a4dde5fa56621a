-------------------------- MODULE SecretChatProofs --------------------------
(***************************************************************************)
(* Proofs of OkKeysAgree, ChatsKept and OkStays of SecretChat, for any     *)
(* chats, made here and asked for, and any number of attempts and faults.  *)
(*                                                                         *)
(* What a query or an update may rely on (QueriesRight, UpdatesRight) does *)
(* not depend on the file and holds also after a torn write: a start       *)
(* forgets every query.  What a chat that waits or is ok owes to its key   *)
(* (Settled) goes through the file, and rests on KeptOnDisk: read_secret_  *)
(* chat_file gives what write_secret_chat_file has written, whatever the   *)
(* file held before and still holds behind it.                             *)
(***************************************************************************)
EXTENDS SecretChat, FiniteSetTheorems, SequenceTheorems, WellFoundedInduction, TLAPS

CountCell == [type : {"count"}, cc : Nat]
Cell ==
  CountCell
    \cup [type : {"chat"}, chat : Made, state : {"waiting", "ok"}]
    \cup [type : {"chat"}, chat : Asked, state : {"request", "ok"}]
    \cup [type : {"g_key", "garbage"}]
    \cup [type : {"key"}, key : Keys \cup {NoKey}]
    \cup [type : {"encr_prime"}, is : BOOLEAN]

FileOK(f) == f \in Seq(Cell) /\ (f # <<>> => f[1] \in CountCell)
FilesOK == FileOK(file) /\ FileOK(file_was)

LogIsMemory == binlog_enabled => log = mem

(* What a chat may be, by whose it is, and what of it there is.            *)
Right(m) ==
  /\ m \in Memory
  /\ \A c \in Made : m.state[c] # "request"
  /\ \A c \in Asked :
       /\ m.state[c] \in {"unknown", "request", "ok", "deleted"}
       /\ c \in m.g_key => m.state[c] \in {"request", "ok"}
  /\ \A c \in Chats : m.state[c] \in {"request", "ok"} => c \in m.g_key

(* An update, when s are the server's states.                              *)
UpdateRight(u, s) ==
  /\ u.kind = "discarded" => s[u.chat] = "discarded"
  /\ u.kind = "chat" => u.chat \in Made /\ s[u.chat] \in {"ok", "discarded"}
  /\ u.kind = "requested" => u.chat \in Asked
UpdatesRight ==
  /\ updates \in Seq(Updates)
  /\ \A i \in 1 .. Len(updates) : UpdateRight(updates[i], srv)

(* A chat made here has one query at most; a key that the other party has  *)
(* seen is the one in memory.                                              *)
QueryOfMade(x) ==
  /\ x.kind \in {"dh_create", "request"}
  /\ \A y \in q : y.chat = x.chat => y = x
  /\ x.kind = "dh_create" => mem.state[x.chat] = "unknown" /\ srv[x.chat] = "none"
  /\ x.kind = "request" =>
       /\ mem.state[x.chat] = "none" /\ mem.key[x.chat] = x.key /\ mem.encr_prime
       /\ IF x.st = "out" THEN srv[x.chat] = "none" ELSE Theirs(x.key) = agreed[x.chat]
QueryOfAsked(x) ==
  /\ x.kind \in {"dh_accept", "accept"}
  /\ x.kind = "dh_accept" => x.chat \in mem.g_key \/ srv[x.chat] = "discarded"
  /\ x.kind = "accept" =>
       /\ mem.state[x.chat] # "unknown"
       /\ mem.state[x.chat] = "request" => mem.key[x.chat] = x.key
       /\ x.st = "back" => Theirs(x.key) = agreed[x.chat] /\ srv[x.chat] \in {"ok", "discarded"}
QueryRight(x) == IF x.chat \in Made THEN QueryOfMade(x) ELSE QueryOfAsked(x)
QueriesRight == \A x \in q : QueryRight(x)

(* What a chat owes to its key, when the other party has made a, and the   *)
(* server has the chat in state s.                                         *)
Owes(m, c, a, s) ==
  /\ m.state[c] = "waiting" => m.encr_prime
  /\ m.state[c] \in {"waiting", "ok"} => Theirs(m.key[c]) = a /\ m.key[c] # NoKey
  /\ m.state[c] = "ok" => s \in {"ok", "discarded"}
SettledIn(m) == \A c \in Chats : Owes(m, c, agreed[c], srv[c])
Settled == ~torn => SettledIn(mem) /\ SettledIn(Restored(log, file))

(* Memory and the disk, and all of it.                                     *)
DiskRight == FilesOK /\ LogIsMemory /\ Right(mem) /\ Right(log) /\ KeptOnDisk /\ Settled
IInv == TypeOK /\ DiskRight /\ UpdatesRight /\ QueriesRight /\ AbortsExplained

-----------------------------------------------------------------------------
(* Induction, from the library's theorem that < is well founded on Nat.    *)

LEMMA LeastNumber ==
  ASSUME NEW T \in SUBSET Nat, T # {}
  PROVE  \E m \in T : \A k \in T : m <= k
<1> DEFINE R == OpToRel(<, Nat)
<1>1. IsWellFoundedOn(R, Nat)
  BY NatLessThanWellFounded
<1>2. PICK m \in T : \A k \in T : <<k, m>> \notin R
  <2> HIDE DEF R
  <2>1. QED  BY <1>1, WFMin
<1>3. \A k \in T : m <= k
  <2>1. R = {ss \in Nat \X Nat : ss[1] < ss[2]}
    BY DEF OpToRel
  <2> HIDE DEF R
  <2>2. TAKE k \in T
  <2>3. ~ (k < m)
    BY <1>2, <2>1
  <2>4. QED  BY <2>3
<1>4. QED  BY <1>3

LEMMA Induction ==
  ASSUME NEW T, 0 \in T, \A n \in Nat : n \in T => n + 1 \in T
  PROVE  Nat \subseteq T
<1>1. SUFFICES ASSUME Nat \ T # {} PROVE FALSE
  OBVIOUS
<1>2. PICK m \in Nat \ T : \A k \in Nat \ T : m <= k
  BY <1>1, LeastNumber
<1>3. m - 1 \in Nat
  BY <1>2
<1>4. m - 1 \in T
  BY <1>2, <1>3
<1>5. QED  BY <1>2, <1>3, <1>4

(* FlattenSeq is a recursive function: it has the values that its equation *)
(* gives.                                                                  *)
LEMMA FlattenStep ==
  ASSUME NEW S, NEW N \in Nat \ {0}, NEW s \in [1 .. N -> Seq(S)]
  PROVE  \E f : /\ f = [i \in 1 .. N |-> IF i = 1 THEN s[i] ELSE f[i - 1] \o s[i]]
                /\ FlattenSeq(s) = f[N]
<1> DEFINE Fits(f, n) == f = [i \in 1 .. n |-> IF i = 1 THEN s[i] ELSE f[i - 1] \o s[i]]
           T == {n \in Nat : \E f : Fits(f, n)}
<1>1. 0 \in T
  <2>1. Fits([i \in 1 .. 0 |-> 0], 0)
    OBVIOUS
  <2>2. QED BY <2>1
<1>2. ASSUME NEW n \in Nat, n \in T PROVE n + 1 \in T
  <2>1. PICK f : Fits(f, n)
    BY <1>2
  <2> DEFINE g == [i \in 1 .. n + 1 |-> IF i \in 1 .. n THEN f[i] 
                     ELSE IF i = 1 THEN s[i] ELSE f[i - 1] \o s[i]]
  <2>2. ASSUME NEW i \in 1 .. n + 1 
        PROVE g[i] = IF i = 1 THEN s[i] ELSE g[i - 1] \o s[i]
    <3>1. CASE i \in 1 .. n
      <4>1. g[i] = f[i]
        BY <3>1
      <4>2. f[i] = IF i = 1 THEN s[i] ELSE f[i - 1] \o s[i]
        BY <2>1, <3>1
      <4>3. i # 1 => g[i - 1] = f[i - 1]
        BY <3>1
      <4> HIDE DEF g
      <4>4. QED  BY <4>1, <4>2, <4>3
    <3>2. CASE i = n + 1
      <4>1. g[i] = IF i = 1 THEN s[i] ELSE f[i - 1] \o s[i]
        BY <3>2
      <4>2. i # 1 => g[i - 1] = f[i - 1]
        BY <3>2
      <4> HIDE DEF g
      <4>3. QED  BY <4>1, <4>2
    <3>3. QED  BY <3>1, <3>2
  <2>3. Fits(g, n + 1)
    BY <2>2
  <2>4. \E h : Fits(h, n + 1)
    <3> HIDE DEF g, Fits
    <3>1. QED  BY <2>3
  <2>5. n + 1 \in Nat
    OBVIOUS
  <2> HIDE DEF Fits
  <2>6. QED  BY <2>4, <2>5
<1>3. N \in T
  <2> HIDE DEF T
  <2>1. QED BY <1>1, <1>2, Induction
<1>4. PICK f : Fits(f, N)
  BY <1>3
<1> DEFINE c == CHOOSE f1 : Fits(f1, N)
<1>5. Fits(c, N)
  BY <1>4
<1>6. Len(s) = N /\ N # 0
  BY LenProperties
<1>7. FlattenSeq(s) = c[N]
  BY <1>6 DEF FlattenSeq
<1> HIDE DEF c
<1>8. QED  BY <1>5, <1>7

-----------------------------------------------------------------------------
(* What the first n pieces of s hold together. *)

Flat(s, n) == FlattenSeq([i \in 1 .. n |-> s[i]])

LEMMA FlatNone == \A s : Flat(s, 0) = <<>>
<1>1. TAKE s
<1>2. [i \in 1 .. 0 |-> s[i]] = <<>> /\ Len(<<>>) = 0
  OBVIOUS
<1>3. FlattenSeq(<<>>) = <<>>
  BY <1>2 DEF FlattenSeq
<1>4. QED  BY <1>2, <1>3 DEF Flat

LEMMA FlatOne ==
  ASSUME NEW S, NEW N \in Nat \ {0}, NEW s \in [1 .. N -> Seq(S)]
  PROVE  Flat(s, 1) = s[1]
<1> DEFINE t == [i \in 1 .. 1 |-> s[i]]
<1>1. t \in [1 .. 1 -> Seq(S)] /\ t[1] = s[1]
  OBVIOUS
<1> HIDE DEF t
<1>2. PICK f : /\ f = [i \in 1 .. 1 |-> IF i = 1 THEN t[i] ELSE f[i - 1] \o t[i]]
               /\ FlattenSeq(t) = f[1]
  <2>1. 1 \in Nat \ {0}
    OBVIOUS
  <2>2. QED  BY <1>1, <2>1, FlattenStep
<1>3. f[1] = t[1]
  BY <1>2
<1>4. QED  BY <1>1, <1>2, <1>3 DEF Flat, t

LEMMA FlatMore ==
  ASSUME NEW S, NEW N \in Nat, NEW s \in [1 .. N -> Seq(S)], NEW n \in Nat, n < N
  PROVE  s[n + 1] \in Seq(S) /\ Flat(s, n + 1) = Flat(s, n) \o s[n + 1]
<1>1. n + 1 \in 1 .. N /\ s[n + 1] \in Seq(S) /\ N \in Nat \ {0}
  OBVIOUS
<1>2. CASE n = 0
  <2>1. Flat(s, 1) = s[1] /\ Flat(s, 0) = <<>>
    BY <1>1, FlatOne, FlatNone
  <2>2. <<>> \o s[1] = s[1]
    BY <1>1, <1>2, ConcatEmptySeq
  <2>3. QED  BY <1>1, <1>2, <2>1, <2>2
<1>3. CASE n # 0
  <2> DEFINE u == [i \in 1 .. n |-> s[i]]
             t == [i \in 1 .. n + 1 |-> s[i]]
  <2>1. u \in [1 .. n -> Seq(S)] /\ t \in [1 .. n + 1 -> Seq(S)]
    OBVIOUS
  <2>2. \A i \in 1 .. n : u[i] = t[i]
    OBVIOUS
  <2>3. t[n + 1] = s[n + 1]
    BY <1>1
  <2>4. Flat(s, n) = FlattenSeq(u) /\ Flat(s, n + 1) = FlattenSeq(t)
    BY DEF Flat
  <2> HIDE DEF u, t
  <2>5. n \in Nat \ {0} /\ n + 1 \in Nat \ {0}
    BY <1>3
  <2>6. PICK f : /\ f = [i \in 1 .. n |-> IF i = 1 THEN u[i] ELSE f[i - 1] \o u[i]]
                 /\ FlattenSeq(u) = f[n]
    BY <2>1, <2>5, FlattenStep
  <2>7. PICK g : /\ g = [i \in 1 .. n + 1 |-> IF i = 1 THEN t[i] ELSE g[i - 1] \o t[i]]
                 /\ FlattenSeq(t) = g[n + 1]
    BY <2>1, <2>5, FlattenStep
  <2>8. \A i \in 1 .. n : f[i] = IF i = 1 THEN u[i] ELSE f[i - 1] \o u[i]
    BY <2>6
  <2>9. \A i \in 1 .. n + 1 : g[i] = IF i = 1 THEN t[i] ELSE g[i - 1] \o t[i]
    BY <2>7
  <2> DEFINE T == {i \in Nat : i \in 1 .. n => f[i] = g[i]}
  <2>10. 0 \in T
    OBVIOUS
  <2>11. ASSUME NEW i \in Nat, i \in T PROVE i + 1 \in T
    <3>1. SUFFICES ASSUME i + 1 \in 1 .. n PROVE f[i + 1] = g[i + 1]
      OBVIOUS
    <3>2. i + 1 \in 1 .. n + 1 /\ u[i + 1] = t[i + 1]
      BY <2>2, <3>1
    <3>3. CASE i = 0
      BY <2>8, <2>9, <3>1, <3>2, <3>3
    <3>4. CASE i # 0
      <4>1. i + 1 # 1 /\ (i + 1) - 1 = i /\ i \in 1 .. n
        BY <3>1, <3>4
      <4>2. f[i] = g[i]
        BY <2>11, <4>1
      <4>3. f[i + 1] = f[i] \o u[i + 1]
        BY <2>8, <3>1, <4>1
      <4>4. g[i + 1] = g[i] \o t[i + 1]
        BY <2>9, <3>2, <4>1
      <4>5. QED  BY <3>2, <4>2, <4>3, <4>4
    <3>5. QED  BY <3>3, <3>4
  <2>12. n \in T
    <3> HIDE DEF T
    <3>1. QED  BY <2>10, <2>11, Induction
  <2>13. f[n] = g[n]
    BY <2>5, <2>12
  <2>14. g[n + 1] = g[n] \o t[n + 1]
    <3>1. n + 1 # 1 /\ (n + 1) - 1 = n /\ n + 1 \in 1 .. n + 1
      BY <2>5
    <3>2. QED  BY <2>9, <3>1
  <2>15. QED  BY <1>1, <2>3, <2>4, <2>6, <2>7, <2>13, <2>14
<1>4. QED  BY <1>2, <1>3

LEMMA FlatType ==
  ASSUME NEW S, NEW N \in Nat, NEW s \in [1 .. N -> Seq(S)], NEW n \in 0 .. N
  PROVE  Flat(s, n) \in Seq(S) /\ Len(Flat(s, n)) \in Nat
<1> DEFINE T == {k \in Nat : k <= N => Flat(s, k) \in Seq(S)}
<1>1. 0 \in T
  BY FlatNone, EmptySeq
<1>2. ASSUME NEW k \in Nat, k \in T PROVE k + 1 \in T
  <2>1. SUFFICES ASSUME k + 1 <= N PROVE Flat(s, k + 1) \in Seq(S)
    OBVIOUS
  <2>2. k < N /\ Flat(s, k) \in Seq(S)
    BY <1>2, <2>1
  <2>3. s[k + 1] \in Seq(S) /\ Flat(s, k + 1) = Flat(s, k) \o s[k + 1]
    BY <2>2, FlatMore
  <2>4. QED  BY <2>2, <2>3, ConcatProperties
<1>3. n \in T
  <2> HIDE DEF T
  <2>1. n \in Nat
    OBVIOUS
  <2>2. QED  BY <1>1, <1>2, <2>1, Induction
<1>4. Flat(s, n) \in Seq(S)
  BY <1>3
<1>5. QED  BY <1>4, LenProperties

(* Piece n + 1 comes after the first n.                                    *)
Follows(s, N, n) ==
  /\ Len(s[n + 1]) \in Nat
  /\ Len(Flat(s, n + 1)) = Len(Flat(s, n)) + Len(s[n + 1])
  /\ Len(Flat(s, n + 1)) <= Len(Flat(s, N))
  /\ \A i \in 1 .. Len(s[n + 1]) :
       Flat(s, N)[Len(Flat(s, n)) + i] = s[n + 1][i]

LEMMA FlatPiece ==
  ASSUME NEW S, NEW N \in Nat, NEW s \in [1 .. N -> Seq(S)], NEW n \in Nat, n < N
  PROVE  Follows(s, N, n)
<1> DEFINE piece == s[n + 1]
           L == Len(Flat(s, n))
           M == Len(piece)
<1>1. /\ piece \in Seq(S) /\ Flat(s, n + 1) = Flat(s, n) \o piece
      /\ Flat(s, n) \in Seq(S) /\ L \in Nat
  <2>1. n \in 0 .. N
    OBVIOUS
  <2>2. QED  BY <2>1, FlatMore, FlatType
<1>2. M \in Nat
  BY <1>1, LenProperties
<1> HIDE DEF piece
<1>3. /\ Len(Flat(s, n + 1)) = L + M
      /\ \A i \in 1 .. L + M : Flat(s, n + 1)[i] = IF i <= L THEN Flat(s, n)[i] ELSE piece[i - L]
  BY <1>1, ConcatProperties
<1>4. \A i \in 1 .. M : Flat(s, n + 1)[L + i] = piece[i]
  <2>1. TAKE i \in 1 .. M
  <2>2. L + i \in 1 .. L + M /\ ~(L + i <= L) /\ (L + i) - L = i
    BY <1>1, <1>2
  <2> HIDE DEF L, M
  <2>3. QED  BY <1>3, <2>2
<1> HIDE DEF L, M
<1> DEFINE T == {k \in Nat : n + 1 + k <= N =>
                   /\ L + M <= Len(Flat(s, n + 1 + k))
                   /\ \A i \in 1 .. M : Flat(s, n + 1 + k)[L + i] = piece[i]}
<1>5. 0 \in T
  BY <1>1, <1>2, <1>3, <1>4
<1>6. ASSUME NEW k \in Nat, k \in T PROVE k + 1 \in T
  <2> DEFINE j == n + 1 + k
  <2>1. SUFFICES ASSUME n + 1 + (k + 1) <= N
        PROVE  /\ L + M <= Len(Flat(s, n + 1 + (k + 1)))
               /\ \A i \in 1 .. M : Flat(s, n + 1 + (k + 1))[L + i] = piece[i]
    OBVIOUS
  <2>2. j \in Nat /\ j < N /\ j \in 0 .. N /\ n + 1 + (k + 1) = j + 1
    BY <2>1
  <2>3. /\ L + M <= Len(Flat(s, j))
        /\ \A i \in 1 .. M : Flat(s, j)[L + i] = piece[i]
    BY <1>6, <2>2
  <2> HIDE DEF j
  <2>4. /\ s[j + 1] \in Seq(S) /\ Flat(s, j + 1) = Flat(s, j) \o s[j + 1]
        /\ Flat(s, j) \in Seq(S) /\ Len(Flat(s, j)) \in Nat
    BY <2>2, FlatMore, FlatType
  <2>5. Len(s[j + 1]) \in Nat
    BY <2>4, LenProperties
  <2>6. /\ Len(Flat(s, j + 1)) = Len(Flat(s, j)) + Len(s[j + 1])
        /\ \A i \in 1 .. Len(Flat(s, j)) + Len(s[j + 1]) :
             Flat(s, j + 1)[i] = IF i <= Len(Flat(s, j)) THEN Flat(s, j)[i]
                                 ELSE s[j + 1][i - Len(Flat(s, j))]
    BY <2>4, ConcatProperties
  <2>7. L + M <= Len(Flat(s, j + 1))
    BY <1>1, <1>2, <2>3, <2>4, <2>5, <2>6
  <2>8. ASSUME NEW i \in 1 .. M PROVE Flat(s, j + 1)[L + i] = piece[i]
    <3>1. /\ L + i \in 1 .. Len(Flat(s, j)) + Len(s[j + 1]) /\ L + i <= Len(Flat(s, j))
      BY <1>1, <1>2, <2>3, <2>4, <2>5
    <3>2. QED  BY <2>3, <2>6, <3>1
  <2>9. QED  BY <2>2, <2>7, <2>8
<1>7. N - (n + 1) \in T
  <2> HIDE DEF T
  <2>1. N - (n + 1) \in Nat
    OBVIOUS
  <2>2. QED  BY <1>5, <1>6, <2>1, Induction
<1>8. n + 1 + (N - (n + 1)) = N
  OBVIOUS
<1>9. /\ L + M <= Len(Flat(s, N))
      /\ \A i \in 1 .. M : Flat(s, N)[L + i] = piece[i]
  BY <1>7, <1>8
<1>10. QED  BY <1>2, <1>3, <1>9 DEF L, M, piece, Follows

-----------------------------------------------------------------------------
(* The chats, and the order of them in the file. *)

LEMMA ChatsAre ==
  /\ IsFiniteSet(Chats) /\ Made \cap Asked = {}
  /\ MaxKeys \in Nat /\ MaxFaults \in Nat
BY SecretChatAssumption DEF Chats

Count == Cardinality(Chats)

(* The chats, in the order in which they are written.                      *)
LEMMA OrderIs ==
  /\ Count \in Nat /\ Order \in [1 .. Count -> Chats] /\ Len(Order) = Count
  /\ \A i, j \in 1 .. Count : Order[i] = Order[j] => i = j
  /\ \A c \in Chats : \E i \in 1 .. Count : Order[i] = c
<1>1. Count \in Nat /\ ExistsBijection(1 .. Count, Chats)
  BY ChatsAre, FS_CardinalityType DEF Count
<1>2. \E f \in [1 .. Count -> Chats] : IsInjective(f)
  BY <1>1 DEF ExistsBijection, Bijection, Injection
<1>3. Order \in [1 .. Count -> Chats] /\ IsInjective(Order)
  BY <1>2 DEF Order, SetToSeq, Count
<1>4. Order \in Injection(1 .. Count, Chats)
  BY <1>3 DEF Injection
<1>5. Cardinality(1 .. Count) = Count
  <2>1. 1 \in Int /\ Count \in Int
    BY <1>1
  <2>2. Cardinality(1 .. Count) = IF 1 > Count THEN 0 ELSE Count - 1 + 1
    BY <2>1, FS_Interval
  <2>3. QED  BY <1>1, <2>2
<1>6. Order \in Surjection(1 .. Count, Chats)
  <2>1. Cardinality(1 .. Count) = Cardinality(Chats)
    BY <1>5 DEF Count
  <2>2. QED  BY <1>4, <2>1, ChatsAre, FS_Injection
<1>7. \A c \in Chats : \E i \in 1 .. Count : Order[i] = c
  BY <1>6 DEF Surjection
<1>8. \A i, j \in 1 .. Count : Order[i] = Order[j] => i = j
  BY <1>3 DEF IsInjective
<1>9. Len(Order) = Count
  BY <1>1, <1>3
<1>10. QED  BY <1>1, <1>3, <1>7, <1>8, <1>9

(* The chats that come first in the order.                                 *)
First(n) == {Order[i] : i \in 1 .. n}

(* The first n of them.                                                    *)
LEMMA FirstAre ==
  /\ First(0) = {} /\ First(Count) = Chats
  /\ \A n \in Nat : n < Count =>
       /\ Order[n + 1] \in Chats \ First(n)
       /\ First(n + 1) = First(n) \cup {Order[n + 1]} /\ First(n) \subseteq Chats
<1>1. First(0) = {}
  BY DEF First
<1>2. First(Count) = Chats
  BY OrderIs DEF First
<1>3. ASSUME NEW n \in Nat, n < Count
      PROVE  /\ Order[n + 1] \in Chats \ First(n)
             /\ First(n + 1) = First(n) \cup {Order[n + 1]} /\ First(n) \subseteq Chats
  <2>1. n + 1 \in 1 .. Count /\ \A i \in 1 .. n : i \in 1 .. Count /\ i # n + 1
    BY <1>3, OrderIs
  <2>2. 1 .. n + 1 = (1 .. n) \cup {n + 1}
    OBVIOUS
  <2>3. First(n) \subseteq Chats
    BY <2>1, OrderIs DEF First
  <2>4. Order[n + 1] \in Chats /\ Order[n + 1] \notin First(n)
    BY <2>1, OrderIs DEF First
  <2>5. First(n + 1) = First(n) \cup {Order[n + 1]}
    BY <2>2 DEF First
  <2>6. QED  BY <2>3, <2>4, <2>5
<1>4. QED  BY <1>1, <1>2, <1>3

-----------------------------------------------------------------------------
(* The file as it is written. *)

ChatCell(m, c) == [type |-> "chat", chat |-> c, state |-> m.state[c]]
KeyCell(m, c) == [type |-> "key", key |-> m.key[c]]
PrimeCell(m) == [type |-> "encr_prime", is |-> m.encr_prime]
CountOf(m) == [type |-> "count", cc |-> Cardinality({c \in Chats : Live(m, c)})]
Written(m) == [i \in 1 .. Count |-> ChatCells(m, Order[i])]
Body(m) == Flat(Written(m), Count)

(* What is live, by its state.                                             *)
LEMMA LiveIs ==
  ASSUME NEW m, Right(m), NEW c \in Chats
  PROVE  Live(m, c) <=> m.state[c] \in {"waiting", "request", "ok"}
BY DEF Live, Right, Memory, States

(* The sequences that are put together, element by element.                *)
LEMMA PairIs ==
  ASSUME NEW S, NEW x \in S, NEW z \in S
  PROVE  <<x>> \o <<>> \o <<z>> = <<x, z>>
<1>1. <<x>> \in Seq(S) /\ <<z>> \in Seq(S) /\ <<x, z>> \in Seq(S)
  OBVIOUS
<1>2. <<x>> \o <<>> = <<x>>
  BY <1>1, ConcatEmptySeq
<1>3. /\ <<x>> \o <<z>> \in Seq(S) /\ Len(<<x>> \o <<z>>) = 2
      /\ (<<x>> \o <<z>>)[1] = x /\ (<<x>> \o <<z>>)[2] = z
  BY <1>1, ConcatProperties
<1>4. <<x>> \o <<z>> = <<x, z>>
  <2> DEFINE l == <<x>> \o <<z>>
             r == <<x, z>>
  <2>1. Len(r) = 2 /\ r[1] = x /\ r[2] = z
    OBVIOUS
  <2> HIDE DEF l, r
  <2>2. \A i \in 1 .. 2 : l[i] = r[i]
    <3>1. \A i \in 1 .. 2 : i = 1 \/ i = 2
      OBVIOUS
    <3>2. QED  BY <1>3, <2>1, <3>1 DEF l
  <2>3. QED  BY <1>1, <1>3, <2>1, <2>2, SeqEqual DEF l, r
<1>5. QED  BY <1>2, <1>4, Zenon

LEMMA TripleIs ==
  ASSUME NEW S, NEW x \in S, NEW y \in S, NEW z \in S
  PROVE  <<x>> \o <<y>> \o <<z>> = <<x, y, z>>
<1>1. <<x>> \in Seq(S) /\ <<y>> \in Seq(S) /\ <<z>> \in Seq(S) /\ <<x, y, z>> \in Seq(S)
  OBVIOUS
<1>2. /\ <<x>> \o <<y>> \in Seq(S) /\ Len(<<x>> \o <<y>>) = 2
      /\ (<<x>> \o <<y>>)[1] = x /\ (<<x>> \o <<y>>)[2] = y
  BY <1>1, ConcatProperties
<1> DEFINE p == <<x>> \o <<y>>
           l == p \o <<z>>
           r == <<x, y, z>>
<1>3. Len(r) = 3 /\ r[1] = x /\ r[2] = y /\ r[3] = z
  OBVIOUS
<1>4. /\ l \in Seq(S) /\ Len(l) = 3
      /\ l[1] = x /\ l[2] = y /\ l[3] = z
  <2> HIDE DEF p
  <2>1. p \in Seq(S) /\ Len(p) = 2 /\ p[1] = x /\ p[2] = y
    BY <1>2 DEF p
  <2>2. /\ l \in Seq(S) /\ Len(l) = 3
        /\ \A i \in 1 .. 3 : l[i] = IF i <= 2 THEN p[i] ELSE <<z>>[i - 2]
    <3> DEFINE u == <<z>>
    <3>1. u \in Seq(S) /\ Len(u) = 1
      BY <1>1
    <3> HIDE DEF u
    <3>2. /\ p \o u \in Seq(S) /\ Len(p \o u) = Len(p) + Len(u)
          /\ \A i \in 1 .. Len(p) + Len(u) : (p \o u)[i] = IF i <= Len(p) THEN p[i] ELSE u[i - Len(p)]
      BY <2>1, <3>1, ConcatProperties
    <3>3. Len(p) + Len(u) = 3
      BY <2>1, <3>1
    <3>4. QED  BY <2>1, <3>2, <3>3 DEF u
  <2>3. <<z>>[1] = z
    OBVIOUS
  <2> HIDE DEF l
  <2>4. QED  BY <2>1, <2>2, <2>3
<1> HIDE DEF l, r
<1>5. \A i \in 1 .. 3 : l[i] = r[i]
  <2>1. \A i \in 1 .. 3 : i = 1 \/ i = 2 \/ i = 3
    OBVIOUS
  <2>2. QED  BY <1>3, <1>4, <2>1
<1>6. r \in Seq(S)
  BY <1>1 DEF r
<1>7. l = r
  BY <1>3, <1>4, <1>5, <1>6, SeqEqual
<1>8. QED  BY <1>7 DEF l, r

(* The pieces that are written for one chat.                               *)
LEMMA CellsOfChat ==
  ASSUME NEW m, Right(m), NEW c \in Chats
  PROVE  /\ ChatCells(m, c) \in Seq(Cell)
         /\ ~Live(m, c) => ChatCells(m, c) = <<>>
         /\ Live(m, c) =>
              ChatCells(m, c) =
                IF m.state[c] = "waiting" THEN <<ChatCell(m, c), KeyCell(m, c)>>
                ELSE <<ChatCell(m, c), [type |-> "g_key"], KeyCell(m, c)>>
<1>1. CASE ~Live(m, c)
  BY <1>1 DEF ChatCells
<1>2. CASE Live(m, c)
  <2>1. m.state[c] \in {"waiting", "request", "ok"}
    BY <1>2, LiveIs
  <2>2. ChatCell(m, c) \in Cell
    <3>1. c \in Made => m.state[c] \in {"waiting", "ok"}
      BY <2>1 DEF Right
    <3>2. c \in Asked => m.state[c] \in {"request", "ok"}
      BY <2>1 DEF Right
    <3>3. c \in Made \/ c \in Asked
      BY DEF Chats
    <3>4. QED  BY <3>1, <3>2, <3>3 DEF ChatCell, Cell
  <2>3. KeyCell(m, c) \in Cell
    <3>1. m.key[c] \in Keys \cup {NoKey}
      BY DEF Right, Memory
    <3>2. QED  BY <3>1 DEF KeyCell, Cell
  <2>4. [type |-> "g_key"] \in Cell
    BY DEF Cell
  <2> DEFINE x == ChatCell(m, c)
             y == [type |-> "g_key"]
             z == KeyCell(m, c)
  <2>5. ChatCells(m, c) = <<x>> \o (IF m.state[c] = "waiting" THEN <<>> ELSE <<y>>) \o <<z>>
    BY <1>2 DEF ChatCells, ChatCell, KeyCell
  <2>6. x \in Cell /\ y \in Cell /\ z \in Cell
    BY <2>2, <2>3, <2>4
  <2> HIDE DEF x, y, z
  <2>7. CASE m.state[c] = "waiting"
    <3>1. ChatCells(m, c) = <<x, z>>
      BY <2>5, <2>6, <2>7, PairIs, Zenon
    <3>2. <<x, z>> \in Seq(Cell)
      BY <2>6
    <3>3. QED  BY <1>2, <2>7, <3>1, <3>2 DEF x, z
  <2>8. CASE m.state[c] # "waiting"
    <3>1. ChatCells(m, c) = <<x, y, z>>
      BY <2>5, <2>6, <2>8, TripleIs, Zenon
    <3>2. <<x, y, z>> \in Seq(Cell)
      BY <2>6
    <3>3. QED  BY <1>2, <2>8, <3>1, <3>2 DEF x, y, z
  <2>9. QED  BY <2>7, <2>8
<1>3. QED  BY <1>1, <1>2

LEMMA CountOfType ==
  ASSUME NEW m
  PROVE  CountOf(m) \in CountCell /\ CountOf(m) \in Cell
<1>1. {c \in Chats : Live(m, c)} \in SUBSET Chats
  OBVIOUS
<1> DEFINE n == Cardinality({c \in Chats : Live(m, c)})
<1>2. n \in Nat
  BY <1>1, ChatsAre, FS_Subset, FS_CardinalityType
<1>3. CountOf(m) = [type |-> "count", cc |-> n]
  BY DEF CountOf
<1> HIDE DEF n
<1>4. QED  BY <1>2, <1>3 DEF CountCell, Cell

(* The pieces of the file: a count, those of the chats, and encr_prime.    *)
LEMMA CellsAre ==
  ASSUME NEW m, Right(m)
  PROVE  /\ Written(m) \in [1 .. Count -> Seq(Cell)]
         /\ Body(m) \in Seq(Cell) /\ Len(Body(m)) \in Nat
         /\ Cells(m) \in Seq(Cell) /\ Len(Cells(m)) = Len(Body(m)) + 2
         /\ Cells(m)[1] = CountOf(m)
         /\ \A i \in 1 .. Len(Body(m)) : Cells(m)[1 + i] = Body(m)[i]
         /\ Cells(m)[Len(Body(m)) + 2] = PrimeCell(m)
<1>1. Written(m) \in [1 .. Count -> Seq(Cell)]
  <2>1. ASSUME NEW i \in 1 .. Count PROVE ChatCells(m, Order[i]) \in Seq(Cell)
    <3>1. Order[i] \in Chats
      BY OrderIs
    <3>2. QED  BY <3>1, CellsOfChat
  <2>2. QED  BY <2>1 DEF Written
<1>2. Body(m) \in Seq(Cell) /\ Len(Body(m)) \in Nat
  <2>1. Count \in 0 .. Count /\ Count \in Nat
    BY OrderIs
  <2>2. QED  BY <1>1, <2>1, FlatType DEF Body
<1>3. Body(m) = FlattenSeq([i \in 1 .. Len(Order) |-> ChatCells(m, Order[i])])
  <2>1. [i \in 1 .. Count |-> Written(m)[i]] = [i \in 1 .. Len(Order) |-> ChatCells(m, Order[i])]
    BY OrderIs DEF Written
  <2>2. QED  BY <2>1 DEF Body, Flat
<1> DEFINE x == CountOf(m)
           b == Body(m)
           y == PrimeCell(m)
<1>4. Cells(m) = <<x>> \o b \o <<y>>
  BY <1>3 DEF Cells, CountOf, PrimeCell
<1>5. x \in Cell
  BY CountOfType
<1>6. y \in Cell
  <2>1. m.encr_prime \in BOOLEAN
    BY DEF Right, Memory
  <2> DEFINE z == m.encr_prime
  <2>2. y = [type |-> "encr_prime", is |-> z]
    BY DEF PrimeCell
  <2> HIDE DEF z, y
  <2>3. z \in BOOLEAN
    BY <2>1 DEF z
  <2>4. y \in [type : {"encr_prime"}, is : BOOLEAN]
    BY <2>2, <2>3, Zenon
  <2>5. QED  BY <2>4 DEF Cell
<1>7. b \in Seq(Cell) /\ Len(b) \in Nat
  BY <1>2
<1> HIDE DEF x, b, y
<1> DEFINE c == (<<x>> \o b) \o <<y>>
<1>8. <<x>> \in Seq(Cell) /\ <<y>> \in Seq(Cell) /\ Len(<<x>>) = 1 /\ Len(<<y>>) = 1
  BY <1>5, <1>6
<1>9. /\ <<x>> \o b \in Seq(Cell) /\ Len(<<x>> \o b) = 1 + Len(b)
      /\ \A i \in 1 .. 1 + Len(b) : (<<x>> \o b)[i] = IF i <= 1 THEN <<x>>[i] ELSE b[i - 1]
  BY <1>7, <1>8, ConcatProperties
<1>10. /\ c \in Seq(Cell) /\ Len(c) = 1 + Len(b) + 1
       /\ \A i \in 1 .. 1 + Len(b) + 1 :
            c[i] = IF i <= 1 + Len(b) THEN (<<x>> \o b)[i] ELSE <<y>>[i - (1 + Len(b))]
  BY <1>8, <1>9, ConcatProperties
<1> HIDE DEF c
<1>11. c[1] = x
  BY <1>7, <1>9, <1>10
<1>12. ASSUME NEW i \in 1 .. Len(b) PROVE c[1 + i] = b[i]
  <2>1. /\ 1 + i \in 1 .. 1 + Len(b) + 1 /\ 1 + i <= 1 + Len(b) /\ 1 + i \in 1 .. 1 + Len(b)
        /\ ~(1 + i <= 1) /\ (1 + i) - 1 = i
    BY <1>7
  <2>2. QED  BY <1>9, <1>10, <2>1
<1>13. c[Len(b) + 2] = y
  <2>1. /\ Len(b) + 2 \in 1 .. 1 + Len(b) + 1 /\ ~(Len(b) + 2 <= 1 + Len(b))
        /\ (Len(b) + 2) - (1 + Len(b)) = 1
    BY <1>7
  <2>2. QED  BY <1>10, <2>1
<1>14. Cells(m) = c /\ Len(c) = Len(b) + 2
  BY <1>4, <1>7, <1>10 DEF c
<1>15. QED  BY <1>1, <1>2, <1>10, <1>11, <1>12, <1>13, <1>14 DEF x, b, y

-----------------------------------------------------------------------------
(* The file as it is read. *)

(* ReadChats is a recursive function: it has the values that its equation  *)
(* gives.                                                                  *)
LEMMA ReadSteps ==
  ASSUME NEW f, NEW N \in Nat, f[1].cc = N
  PROVE  \E read : /\ \A n \in 0 .. N : read[n] = IF n = 0 THEN [at |-> 2, m |-> Nothing]
                                                   ELSE ReadChat(f, read[n - 1])
                   /\ ReadChats(f) = read[N]
<1> DEFINE Fits(h, n) == h = [k \in 0 .. n |-> IF k = 0 THEN [at |-> 2, m |-> Nothing]
                                                 ELSE ReadChat(f, h[k - 1])]
           T == {n \in Nat : \E h : Fits(h, n)}
<1>1. 0 \in T
  <2> DEFINE h == [k \in 0 .. 0 |-> [at |-> 2, m |-> Nothing]]
  <2>1. \A k \in 0 .. 0 : k = 0
    OBVIOUS
  <2>2. h = [k \in 0 .. 0 |-> IF k = 0 THEN [at |-> 2, m |-> Nothing] ELSE ReadChat(f, h[k - 1])]
    BY <2>1
  <2>3. Fits(h, 0)
    BY <2>2
  <2> HIDE DEF h, Fits
  <2>4. QED BY <2>3
<1>2. ASSUME NEW n \in Nat, n \in T PROVE n + 1 \in T
  <2>1. PICK h : Fits(h, n)
    BY <1>2
  <2> DEFINE g == [k \in 0 .. n + 1 |-> IF k \in 0 .. n THEN h[k] ELSE ReadChat(f, h[k - 1])]
  <2>2. ASSUME NEW k \in 0 .. n + 1
        PROVE  g[k] = IF k = 0 THEN [at |-> 2, m |-> Nothing] ELSE ReadChat(f, g[k - 1])
    <3>1. CASE k \in 0 .. n
      <4>1. g[k] = h[k]
        BY <3>1
      <4>2. h[k] = IF k = 0 THEN [at |-> 2, m |-> Nothing] ELSE ReadChat(f, h[k - 1])
        BY <2>1, <3>1
      <4>3. k # 0 => g[k - 1] = h[k - 1]
        BY <3>1
      <4> HIDE DEF g
      <4>4. QED  BY <4>1, <4>2, <4>3
    <3>2. CASE k = n + 1
      <4>1. k # 0 /\ g[k] = ReadChat(f, h[k - 1])
        BY <3>2
      <4>2. g[k - 1] = h[k - 1]
        BY <3>2
      <4> HIDE DEF g
      <4>3. QED  BY <4>1, <4>2
    <3>3. QED  BY <3>1, <3>2
  <2>3. Fits(g, n + 1)
    BY <2>2
  <2>4. \E x : Fits(x, n + 1)
    <3> HIDE DEF g, Fits
    <3>1. QED  BY <2>3
  <2>5. n + 1 \in Nat
    OBVIOUS
  <2> HIDE DEF Fits
  <2>6. QED  BY <2>4, <2>5
<1>3. N \in T
  <2> HIDE DEF T
  <2>1. QED BY <1>1, <1>2, Induction
<1>4. \E h : Fits(h, N)
  BY <1>3
<1> DEFINE c == CHOOSE h : Fits(h, N)
<1>5. Fits(c, N)
  BY <1>4
<1>6. ReadChats(f) = c[N]
  BY DEF ReadChats
<1> HIDE DEF c
<1>7. \A n \in 0 .. N : c[n] = IF n = 0 THEN [at |-> 2, m |-> Nothing] ELSE ReadChat(f, c[n - 1])
  BY <1>5
<1>8. QED  BY <1>6, <1>7

(* A piece is known by its type.                                           *)
LEMMA CellKinds ==
  ASSUME NEW x \in Cell
  PROVE  /\ x.type = "chat" => \/ x.chat \in Made /\ x.state \in {"waiting", "ok"}
                               \/ x.chat \in Asked /\ x.state \in {"request", "ok"}
         /\ x.type = "key" => x.key \in Keys \cup {NoKey}
         /\ x.type = "encr_prime" => x.is \in BOOLEAN
BY DEF Cell, CountCell

(* Memory is its four fields.                                              *)
LEMMA MemoryIs ==
  ASSUME NEW m \in Memory
  PROVE  m = [state |-> m.state, key |-> m.key, g_key |-> m.g_key, encr_prime |-> m.encr_prime]
BY DEF Memory

(* The fields are changed one after the other.                             *)
Changed(m, c, s, k, y) ==
  [m EXCEPT !.state[c] = s, !.key[c] = k, !.g_key = IF y = 1 THEN @ \cup {c} ELSE @]

LEMMA ChangedIs ==
  ASSUME NEW m \in Memory, NEW c, NEW s, NEW k, NEW y
  PROVE  Changed(m, c, s, k, y)
          = [state |-> [m.state EXCEPT ![c] = s], key |-> [m.key EXCEPT ![c] = k],
             g_key |-> IF y = 1 THEN m.g_key \cup {c} ELSE m.g_key,
             encr_prime |-> m.encr_prime]
<1> DEFINE m1 == [m EXCEPT !.state[c] = s]
           m2 == [m1 EXCEPT !.key[c] = k]
           m3 == [m2 EXCEPT !.g_key = IF y = 1 THEN @ \cup {c} ELSE @]
<1>1. Changed(m, c, s, k, y) = m3
  BY Zenon DEF Changed
<1> DEFINE a == m.state
           b == m.key
           g == m.g_key
           d == m.encr_prime
<1>2. m = [state |-> a, key |-> b, g_key |-> g, encr_prime |-> d]
  BY MemoryIs
<1> HIDE DEF a, b, g, d
<1>3. m1 = [state |-> [a EXCEPT ![c] = s], key |-> b, g_key |-> g, encr_prime |-> d]
  BY <1>2
<1> HIDE DEF m1
<1>4. m2 = [state |-> [a EXCEPT ![c] = s], key |-> [b EXCEPT ![c] = k], g_key |-> g,
            encr_prime |-> d]
  BY <1>3
<1> HIDE DEF m2
<1>5. m3 = [state |-> [a EXCEPT ![c] = s], key |-> [b EXCEPT ![c] = k],
             g_key |-> IF y = 1 THEN g \cup {c} ELSE g, encr_prime |-> d]
  BY <1>4
<1> HIDE DEF m3
<1>6. QED  BY <1>1, <1>5 DEF a, b, g, d

(* A chat is read into memory, from any file.                              *)
ReadInto(m, c, s, k) ==
  [state |-> [m.state EXCEPT ![c] = s], key |-> [m.key EXCEPT ![c] = k],
   g_key |-> IF s = "waiting" THEN m.g_key ELSE m.g_key \cup {c},
   encr_prime |-> m.encr_prime]

LEMMA ReadChatIs ==
  ASSUME NEW f, NEW i, NEW m \in Memory
  PROVE  LET k == IF f[i].state = "waiting" THEN 0 ELSE 1
         IN ReadChat(f, [at |-> i, m |-> m]) =
              IF /\ i \in DOMAIN f /\ f[i].type = "chat" /\ i + k + 1 \in DOMAIN f
                 /\ k = 1 => f[i + 1].type = "g_key"
                 /\ f[i + k + 1].type = "key"
              THEN [at |-> i + k + 2, m |-> ReadInto(m, f[i].chat, f[i].state, f[i + k + 1].key)]
              ELSE [at |-> 0, m |-> m]
<1> DEFINE k == IF f[i].state = "waiting" THEN 0 ELSE 1
           c == f[i].chat
           s == f[i].state
           y == f[i + k + 1].key
           r == [at |-> i, m |-> m]
           n == Changed(m, c, s, y, k)
           Reads == /\ i \in DOMAIN f /\ f[i].type = "chat" /\ i + k + 1 \in DOMAIN f
                    /\ k = 1 => f[i + 1].type = "g_key"
                    /\ f[i + k + 1].type = "key"
<1>1. r.at = i /\ r.m = m /\ [r EXCEPT !.at = 0] = [at |-> 0, m |-> m]
  OBVIOUS
<1>2. ReadChat(f, r) = IF Reads THEN [at |-> i + k + 2, m |-> n] ELSE [at |-> 0, m |-> m]
  <2> HIDE DEF Reads
  <2>1. ReadChat(f, r) = IF Reads THEN [at |-> i + k + 2, m |-> n] ELSE [r EXCEPT !.at = 0]
    BY <1>1 DEF ReadChat, Reads, Changed
  <2>2. QED  BY <1>1, <2>1
<1>3. n = [state |-> [m.state EXCEPT ![c] = s], key |-> [m.key EXCEPT ![c] = y],
           g_key |-> IF k = 1 THEN m.g_key \cup {c} ELSE m.g_key, encr_prime |-> m.encr_prime]
  <2> HIDE DEF c, s, y, k
  <2>1. QED  BY ChangedIs
<1>4. n = ReadInto(m, c, s, y)
  BY <1>3 DEF ReadInto
<1> HIDE DEF n, Reads
<1>5. QED  BY <1>2, <1>4 DEF Reads

(* What is there at first, and what a chat that is read makes of it.       *)
LEMMA NothingIsRight == Right(Nothing)
<1>1. Nothing \in Memory
  BY DEF Nothing, Memory, States
<1>2. QED  BY <1>1 DEF Right, Nothing, Chats

LEMMA ReadIntoRight ==
  ASSUME NEW m, Right(m), NEW c, NEW s, NEW k \in Keys \cup {NoKey},
         \/ c \in Made /\ s \in {"waiting", "ok"}
         \/ c \in Asked /\ s \in {"request", "ok"}
  PROVE  Right(ReadInto(m, c, s, k))
<1> DEFINE n == ReadInto(m, c, s, k)
<1>1. c \in Chats /\ s \in States /\ (c \in Made => s # "request") /\ m \in Memory
      /\ (c \in Asked => s \in {"request", "ok"})
  BY ChatsAre DEF Chats, States, Right
<1>2. n \in Memory
  BY <1>1 DEF ReadInto, Memory
<1>3. /\ n.state = [m.state EXCEPT ![c] = s]
      /\ n.g_key = IF s = "waiting" THEN m.g_key ELSE m.g_key \cup {c}
  BY DEF ReadInto
<1>4. m.state \in [Chats -> States]
  BY <1>1 DEF Memory
<1> HIDE DEF n
<1>5. \A d \in Chats : n.state[d] = IF d = c THEN s ELSE m.state[d]
  BY <1>3, <1>4
<1>6. \A d \in Made : n.state[d] # "request"
  BY <1>1, <1>5 DEF Right, Chats
<1>7. ASSUME NEW d \in Asked
      PROVE  /\ n.state[d] \in {"unknown", "request", "ok", "deleted"}
             /\ d \in n.g_key => n.state[d] \in {"request", "ok"}
  <2>1. d \in Chats
    BY DEF Chats
  <2>2. QED  BY <1>1, <1>3, <1>5, <2>1 DEF Right
<1>8. ASSUME NEW d \in Chats, n.state[d] \in {"request", "ok"} PROVE d \in n.g_key
  BY <1>1, <1>3, <1>5, <1>8 DEF Right
<1>9. Right(n)
  BY <1>2, <1>6, <1>7, <1>8 DEF Right
<1>10. QED  BY <1>9 DEF n

LEMMA WithPrime ==
  ASSUME NEW m, Right(m), NEW b \in BOOLEAN
  PROVE  LET n == [m EXCEPT !.encr_prime = b]
         IN /\ Right(n) /\ n.encr_prime = b
            /\ n.state = m.state /\ n.key = m.key /\ n.g_key = m.g_key
<1> DEFINE n == [m EXCEPT !.encr_prime = b]
<1>1. m \in Memory
  BY DEF Right
<1>2. /\ n \in Memory /\ n.encr_prime = b
      /\ n.state = m.state /\ n.key = m.key /\ n.g_key = m.g_key
  BY <1>1 DEF Memory
<1> HIDE DEF n
<1>3. Right(n)
  BY <1>2 DEF Right
<1>4. QED  BY <1>2, <1>3 DEF n

(* What is read is known from what cannot be.                              *)
LEMMA MemoryIsReadable == \A m \in Memory : m # Unreadable
<1>1. SUFFICES ASSUME NEW m \in Memory, m = Unreadable PROVE FALSE
  OBVIOUS
<1>2. DOMAIN m = {"state", "key", "g_key", "encr_prime"}
  BY DEF Memory
<1>3. DOMAIN m = {"state"}
  BY <1>1 DEF Unreadable
<1>4. QED  BY <1>2, <1>3

(* Whatever is in a file that has its count, what is read is either right  *)
(* or unreadable.                                                          *)
LEMMA ReadAny ==
  ASSUME NEW f, FileOK(f)
  PROVE  read_secret_chat_file(f) = Unreadable \/ Right(read_secret_chat_file(f))
<1>1. CASE f = <<>>
  BY <1>1, NothingIsRight DEF read_secret_chat_file
<1>2. CASE f # <<>>
  <2>1. PICK N \in Nat : f \in Seq(Cell) /\ f[1].cc = N
    BY <1>2 DEF FileOK, CountCell
  <2>2. PICK read : /\ \A n \in 0 .. N : read[n] = IF n = 0 THEN [at |-> 2, m |-> Nothing]
                                                   ELSE ReadChat(f, read[n - 1])
                    /\ ReadChats(f) = read[N]
    BY <2>1, ReadSteps
  <2> DEFINE Good(r) == \E a \in Nat : \E m : Right(m) /\ r = [at |-> a, m |-> m]
             T == {n \in Nat : n <= N => Good(read[n])}
  <2>3. 0 \in T
    <3>1. read[0] = [at |-> 2, m |-> Nothing]
      BY <2>1, <2>2
    <3>2. Good(read[0])
      BY <3>1, NothingIsRight
    <3> HIDE DEF Good
    <3>3. QED  BY <3>2
  <2>4. ASSUME NEW n \in Nat, n \in T PROVE n + 1 \in T
    <3>1. SUFFICES ASSUME n + 1 <= N PROVE Good(read[n + 1])
      <4> HIDE DEF Good
      <4>1. QED  OBVIOUS
    <3>2. n + 1 \in 0 .. N /\ n + 1 # 0 /\ (n + 1) - 1 = n /\ n <= N
      BY <2>1, <3>1
    <3>3. PICK a, m : a \in Nat /\ Right(m) /\ read[n] = [at |-> a, m |-> m]
      BY <2>4, <3>2
    <3>4. read[n + 1] = ReadChat(f, [at |-> a, m |-> m])
      BY <2>2, <3>2, <3>3
    <3> DEFINE k == IF f[a].state = "waiting" THEN 0 ELSE 1
               Reads == /\ a \in DOMAIN f /\ f[a].type = "chat" /\ a + k + 1 \in DOMAIN f
                        /\ k = 1 => f[a + 1].type = "g_key"
                        /\ f[a + k + 1].type = "key"
               into == ReadInto(m, f[a].chat, f[a].state, f[a + k + 1].key)
    <3>5. m \in Memory
      BY <3>3 DEF Right
    <3>6. read[n + 1] = IF Reads THEN [at |-> a + k + 2, m |-> into] ELSE [at |-> 0, m |-> m]
      BY <3>4, <3>5, ReadChatIs
    <3>7. Reads => Right(into)
      <4>1. SUFFICES ASSUME Reads PROVE Right(into)
        OBVIOUS
      <4>2. \A i \in DOMAIN f : f[i] \in Cell
        BY <2>1
      <4>3. f[a] \in Cell /\ f[a + k + 1] \in Cell
        BY <4>1, <4>2
      <4>4. /\ \/ f[a].chat \in Made /\ f[a].state \in {"waiting", "ok"}
               \/ f[a].chat \in Asked /\ f[a].state \in {"request", "ok"}
            /\ f[a + k + 1].key \in Keys \cup {NoKey}
        BY <4>1, <4>3, CellKinds
      <4> HIDE DEF k
      <4>5. QED  BY <3>3, <4>4, ReadIntoRight
    <3>8. a + k + 2 \in Nat /\ 0 \in Nat
      BY <3>3
    <3> HIDE DEF into, Reads, k
    <3>9. QED  BY <3>3, <3>6, <3>7, <3>8
  <2>5. N \in T
    <3> HIDE DEF T
    <3>1. QED  BY <2>1, <2>3, <2>4, Induction
  <2>6. PICK a, m : a \in Nat /\ Right(m) /\ ReadChats(f) = [at |-> a, m |-> m]
    <3>1. Good(read[N])
      <4> HIDE DEF Good
      <4>1. QED  BY <2>5
    <3>2. QED  BY <2>2, <3>1
  <2> DEFINE Ends == a \in DOMAIN f /\ f[a].type = "encr_prime"
             n == [m EXCEPT !.encr_prime = f[a].is]
  <2>7. read_secret_chat_file(f) = IF Ends THEN n ELSE Unreadable
    BY <1>2, <2>6 DEF read_secret_chat_file
  <2>8. ASSUME Ends PROVE Right(n)
    <3>1. f[a] \in Cell
      BY <2>1, <2>8
    <3>2. f[a].is \in BOOLEAN
      BY <2>8, <3>1, CellKinds, Zenon
    <3>3. QED  BY <2>6, <3>2, WithPrime, Zenon
  <2> HIDE DEF Ends, n
  <2>9. QED  BY <2>7, <2>8
<1>3. QED  BY <1>1, <1>2

(* What was read when the chats of C were.                                 *)
Got(m, C) ==
  [state |-> [c \in Chats |-> IF c \in C /\ Live(m, c) THEN m.state[c] ELSE "unknown"],
   key |-> [c \in Chats |-> IF c \in C /\ Live(m, c) THEN m.key[c] ELSE NoKey],
   g_key |-> {c \in C : Live(m, c) /\ m.state[c] # "waiting"}, encr_prime |-> FALSE]

LEMMA GotIs ==
  ASSUME NEW m, Right(m), NEW C \in SUBSET Chats
  PROVE  Got(m, C) \in Memory
<1> DEFINE st == [c \in Chats |-> IF c \in C /\ Live(m, c) THEN m.state[c] ELSE "unknown"]
           ke == [c \in Chats |-> IF c \in C /\ Live(m, c) THEN m.key[c] ELSE NoKey]
           gk == {c \in C : Live(m, c) /\ m.state[c] # "waiting"}
<1>1. m.state \in [Chats -> States] /\ m.key \in [Chats -> Keys \cup {NoKey}]
  BY DEF Right, Memory
<1>2. st \in [Chats -> States] /\ ke \in [Chats -> Keys \cup {NoKey}] /\ gk \in SUBSET Chats
  BY <1>1 DEF States
<1>3. Got(m, C) = [state |-> st, key |-> ke, g_key |-> gk, encr_prime |-> FALSE]
  BY DEF Got
<1> HIDE DEF st, ke, gk
<1>4. QED  BY <1>2, <1>3 DEF Memory

LEMMA GotNone == \A m : Got(m, {}) = Nothing
BY DEF Got, Nothing

(* One more chat is read.                                                  *)
LEMMA GotMore ==
  ASSUME NEW m, Right(m), NEW C \in SUBSET Chats, NEW c \in Chats \ C
  PROVE  Got(m, C \cup {c}) = IF Live(m, c) THEN ReadInto(Got(m, C), c, m.state[c], m.key[c])
                              ELSE Got(m, C)
<1> DEFINE st(D) == [d \in Chats |-> IF d \in D /\ Live(m, d) THEN m.state[d] ELSE "unknown"]
           ke(D) == [d \in Chats |-> IF d \in D /\ Live(m, d) THEN m.key[d] ELSE NoKey]
           gk(D) == {d \in D : Live(m, d) /\ m.state[d] # "waiting"}
           E == C \cup {c}
<1>1. \A D : Got(m, D) = [state |-> st(D), key |-> ke(D), g_key |-> gk(D), encr_prime |-> FALSE]
  BY DEF Got
<1>2. CASE ~Live(m, c)
  <2>1. st(E) = st(C) /\ ke(E) = ke(C) /\ gk(E) = gk(C)
    BY <1>2
  <2> HIDE DEF st, ke, gk
  <2>2. QED  BY <1>1, <1>2, <2>1
<1>3. CASE Live(m, c)
  <2>1. st(E) = [st(C) EXCEPT ![c] = m.state[c]]
    BY <1>3
  <2>2. ke(E) = [ke(C) EXCEPT ![c] = m.key[c]]
    BY <1>3
  <2>3. gk(E) = IF m.state[c] = "waiting" THEN gk(C) ELSE gk(C) \cup {c}
    BY <1>3
  <2> HIDE DEF st, ke, gk
  <2> DEFINE g == Got(m, C)
  <2>4. g.state = st(C) /\ g.key = ke(C) /\ g.g_key = gk(C) /\ g.encr_prime = FALSE
    BY <1>1
  <2> HIDE DEF g
  <2>5. ReadInto(g, c, m.state[c], m.key[c])
          = [state |-> st(E), key |-> ke(E), g_key |-> gk(E), encr_prime |-> FALSE]
    BY <2>1, <2>2, <2>3, <2>4 DEF ReadInto
  <2>6. QED  BY <1>1, <1>3, <2>5 DEF g
<1>4. QED  BY <1>2, <1>3

(* One chat that was written is read.                                      *)
LEMMA ReadOne ==
  ASSUME NEW m, Right(m), NEW c \in Chats, Live(m, c), NEW g \in Memory,
         NEW f \in Seq(Cell), NEW p \in Nat,
         p + Len(ChatCells(m, c)) <= Len(f),
         \A i \in 1 .. Len(ChatCells(m, c)) : f[p + i] = ChatCells(m, c)[i]
  PROVE  ReadChat(f, [at |-> p + 1, m |-> g])
           = [at |-> p + 1 + Len(ChatCells(m, c)), m |-> ReadInto(g, c, m.state[c], m.key[c])]
<1> DEFINE s == ChatCells(m, c)
           w == m.state[c] = "waiting"
           y == KeyCell(m, c)
           x == ChatCell(m, c)
<1>1. s = IF w THEN <<x, y>> ELSE <<x, [type |-> "g_key"], y>>
  BY CellsOfChat
<1>2. /\ x.type = "chat" /\ x.chat = c /\ x.state = m.state[c]
      /\ y.type = "key" /\ y.key = m.key[c]
  BY DEF ChatCell, KeyCell
<1>3. DOMAIN f = 1 .. Len(f) /\ Len(f) \in Nat
  BY LenProperties
<1> DEFINE k == IF f[p + 1].state = "waiting" THEN 0 ELSE 1
           R == ReadInto(g, f[p + 1].chat, f[p + 1].state, f[p + 1 + k + 1].key)
           Reads == /\ p + 1 \in DOMAIN f /\ f[p + 1].type = "chat" /\ p + 1 + k + 1 \in DOMAIN f
                    /\ k = 1 => f[p + 1 + 1].type = "g_key"
                    /\ f[p + 1 + k + 1].type = "key"
<1>4. ReadChat(f, [at |-> p + 1, m |-> g])
        = IF Reads THEN [at |-> p + 1 + k + 2, m |-> R] ELSE [at |-> 0, m |-> g]
  BY ReadChatIs
<1>5. CASE w
  <2> HIDE DEF x, y, w
  <2>1. s = <<x, y>>
    BY <1>1, <1>5
  <2>2. Len(s) = 2 /\ s[1] = x /\ s[2] = y
    <3> HIDE DEF s
    <3>1. QED  BY <2>1
  <2>3. f[p + 1] = x /\ f[p + 2] = y
    <3>1. 1 \in 1 .. Len(s) /\ 2 \in 1 .. Len(s)
      BY <2>2
    <3>2. f[p + 1] = s[1] /\ f[p + 2] = s[2]
      BY <3>1
    <3>3. QED  BY <2>2, <3>2
  <2>4. k = 0
    BY <1>2, <1>5, <2>3 DEF w
  <2>5. p + 1 + k + 1 = p + 2 /\ p + 1 \in DOMAIN f /\ p + 2 \in DOMAIN f /\ p + Len(s) <= Len(f)
    BY <1>3, <2>2, <2>4
  <2>6. Reads
    BY <1>2, <2>3, <2>4, <2>5
  <2>7. R = ReadInto(g, c, m.state[c], m.key[c])
    BY <1>2, <2>3, <2>5
  <2> HIDE DEF Reads, R, k, s
  <2>8. QED  BY <1>4, <2>2, <2>4, <2>6, <2>7 DEF s
<1>6. CASE ~w
  <2> HIDE DEF x, y, w
  <2>1. s = <<x, [type |-> "g_key"], y>>
    BY <1>1, <1>6
  <2>2. Len(s) = 3 /\ s[1] = x /\ s[2] = [type |-> "g_key"] /\ s[3] = y
    <3> HIDE DEF s
    <3>1. QED  BY <2>1
  <2>3. f[p + 1] = x /\ f[p + 2] = [type |-> "g_key"] /\ f[p + 3] = y
    <3>1. 1 \in 1 .. Len(s) /\ 2 \in 1 .. Len(s) /\ 3 \in 1 .. Len(s)
      BY <2>2
    <3>2. f[p + 1] = s[1] /\ f[p + 2] = s[2] /\ f[p + 3] = s[3]
      BY <3>1
    <3>3. QED  BY <2>2, <3>2
  <2>4. k = 1
    BY <1>2, <1>6, <2>3 DEF w
  <2>5. /\ p + 1 + k + 1 = p + 3 /\ p + 1 + 1 = p + 2 /\ p + 1 \in DOMAIN f /\ p + 3 \in DOMAIN f
        /\ p + Len(s) <= Len(f)
    BY <1>3, <2>2, <2>4
  <2>6. Reads
    BY <1>2, <2>3, <2>4, <2>5
  <2>7. R = ReadInto(g, c, m.state[c], m.key[c])
    BY <1>2, <2>3, <2>5
  <2> HIDE DEF Reads, R, k, s
  <2>8. QED  BY <1>4, <2>2, <2>4, <2>6, <2>7 DEF s
<1>7. QED  BY <1>5, <1>6

(* Chat c is written after n others.                                       *)
WrittenAfter(m, c, n) ==
  /\ Len(Flat(Written(m), n)) \in Nat /\ Len(ChatCells(m, c)) \in Nat
  /\ Len(Flat(Written(m), n + 1)) = Len(Flat(Written(m), n)) + Len(ChatCells(m, c))
  /\ Len(Flat(Written(m), n + 1)) <= Len(Body(m))
  /\ \A i \in 1 .. Len(ChatCells(m, c)) :
       Cells(m)[1 + Len(Flat(Written(m), n)) + i] = ChatCells(m, c)[i]

LEMMA CellsPiece ==
  ASSUME NEW m, Right(m), NEW n \in Nat, n < Count
  PROVE  WrittenAfter(m, Order[n + 1], n)
<1> DEFINE W == Written(m)
           L == Len(Flat(W, n))
           c == Order[n + 1]
           M == Len(ChatCells(m, c))
<1>1. W \in [1 .. Count -> Seq(Cell)] /\ Count \in Nat /\ n \in 0 .. Count /\ n + 1 \in 1 .. Count
  BY CellsAre, OrderIs
<1>2. W[n + 1] = ChatCells(m, c)
  BY <1>1 DEF Written
<1> HIDE DEF W
<1>3. L \in Nat
  BY <1>1, FlatType
<1>4. /\ M \in Nat /\ Len(Flat(W, n + 1)) = L + M
      /\ Len(Flat(W, n + 1)) <= Len(Flat(W, Count))
      /\ \A i \in 1 .. M : Flat(W, Count)[L + i] = ChatCells(m, c)[i]
  <2>1. /\ Len(W[n + 1]) \in Nat
        /\ Len(Flat(W, n + 1)) = Len(Flat(W, n)) + Len(W[n + 1])
        /\ Len(Flat(W, n + 1)) <= Len(Flat(W, Count))
        /\ \A i \in 1 .. Len(W[n + 1]) : Flat(W, Count)[Len(Flat(W, n)) + i] = W[n + 1][i]
    <3>1. Follows(W, Count, n)
      BY <1>1, FlatPiece
    <3>2. QED  BY <3>1 DEF Follows
  <2>2. QED  BY <1>2, <2>1
<1>5. Body(m) = Flat(W, Count)
  BY DEF Body, W
<1> HIDE DEF L, M, c
<1>6. ASSUME NEW i \in 1 .. M PROVE Cells(m)[1 + L + i] = ChatCells(m, c)[i]
  <2>1. L + i \in 1 .. Len(Body(m)) /\ 1 + L + i = 1 + (L + i)
    BY <1>3, <1>4, <1>5, CellsAre
  <2>2. Cells(m)[1 + (L + i)] = Body(m)[L + i]
    BY <2>1, CellsAre
  <2>3. QED  BY <1>4, <1>5, <2>1, <2>2
<1>7. QED  BY <1>3, <1>4, <1>5, <1>6 DEF L, M, W, c, WrittenAfter

(* What was written is read again, whatever comes behind it.               *)
LEMMA ReadBack ==
  ASSUME NEW m, Right(m), NEW f \in Seq(Cell), Len(Cells(m)) <= Len(f),
         \A i \in 1 .. Len(Cells(m)) : f[i] = Cells(m)[i]
  PROVE  read_secret_chat_file(f) = [Got(m, Chats) EXCEPT !.encr_prime = m.encr_prime]
<1> DEFINE W == Written(m)
           len(n) == Len(Flat(W, n))
           LC(n) == {c \in First(n) : Live(m, c)}
           size(n) == Cardinality(LC(n))
           B == Len(Body(m))
           All == {c \in Chats : Live(m, c)}
<1>1. /\ B \in Nat /\ Len(Cells(m)) = B + 2 /\ Cells(m)[1] = CountOf(m)
      /\ Cells(m)[B + 2] = PrimeCell(m)
  BY CellsAre
<1>2. DOMAIN f = 1 .. Len(f) /\ Len(f) \in Nat /\ B + 2 <= Len(f)
  BY <1>1, LenProperties
<1> HIDE DEF B
<1>3. f[1] = CountOf(m) /\ f[B + 2] = PrimeCell(m) /\ B + 2 \in DOMAIN f /\ f # <<>>
  <2>1. 1 \in 1 .. Len(Cells(m)) /\ B + 2 \in 1 .. Len(Cells(m))
    BY <1>1
  <2>2. f[1] = Cells(m)[1] /\ f[B + 2] = Cells(m)[B + 2]
    BY <2>1
  <2>3. QED  BY <1>1, <1>2, <2>2
<1>4. IsFiniteSet(All)
  BY ChatsAre, FS_Subset
<1>5. PICK N \in Nat : N = Cardinality(All) /\ f[1].cc = N
  <2>1. f[1].cc = Cardinality(All)
    BY <1>3 DEF CountOf
  <2>2. Cardinality(All) \in Nat
    BY <1>4, FS_CardinalityType
  <2>3. QED  BY <2>1, <2>2
<1>6. PICK read : /\ \A n \in 0 .. N : read[n] = IF n = 0 THEN [at |-> 2, m |-> Nothing]
                                                 ELSE ReadChat(f, read[n - 1])
                  /\ ReadChats(f) = read[N]
  BY <1>5, ReadSteps
<1> DEFINE Reads(n) == /\ IsFiniteSet(LC(n)) /\ size(n) \in 0 .. N
                       /\ len(n) \in Nat
                       /\ read[size(n)] = [at |-> 2 + len(n), m |-> Got(m, First(n))]
           T == {n \in Nat : n <= Count => Reads(n)}
<1>7. 0 \in T
  <2>1. First(0) = {} /\ LC(0) = {}
    BY FirstAre
  <2>2. IsFiniteSet(LC(0)) /\ size(0) = 0
    BY <2>1, FS_EmptySet
  <2>3. len(0) = 0
    BY FlatNone, EmptySeq
  <2>4. read[0] = [at |-> 2, m |-> Nothing]
    BY <1>6
  <2>5. Got(m, First(0)) = Nothing
    BY <2>1, GotNone
  <2> HIDE DEF len, LC
  <2>6. Reads(0)
    <3>1. 2 + len(0) = 2 /\ size(0) \in 0 .. N
      BY <2>2, <2>3
    <3>2. QED  BY <2>2, <2>3, <2>4, <2>5, <3>1
  <2> HIDE DEF Reads
  <2>7. QED  BY <2>6
<1>8. ASSUME NEW n \in Nat, n \in T PROVE n + 1 \in T
  <2>1. SUFFICES ASSUME n + 1 <= Count PROVE Reads(n + 1)
    <3> HIDE DEF Reads
    <3>1. QED  OBVIOUS
  <2>2. n < Count /\ n <= Count /\ Count \in Nat
    BY <2>1, OrderIs
  <2>3. Reads(n)
    <3> HIDE DEF Reads
    <3>1. QED  BY <1>8, <2>2
  <2> DEFINE c == Order[n + 1]
  <2>4. c \in Chats \ First(n) /\ First(n + 1) = First(n) \cup {c} /\ First(n) \in SUBSET Chats
    BY <2>2, FirstAre
  <2> DEFINE s == ChatCells(m, c)
  <2>5. /\ len(n) \in Nat /\ Len(s) \in Nat /\ len(n + 1) = len(n) + Len(s)
        /\ len(n + 1) <= B
        /\ \A i \in 1 .. Len(s) : Cells(m)[1 + len(n) + i] = s[i]
    <3>1. WrittenAfter(m, c, n)
      BY <2>2, CellsPiece
    <3>2. QED  BY <3>1 DEF B, WrittenAfter
  <2>6. IsFiniteSet(LC(n)) /\ size(n) \in 0 .. N
        /\ read[size(n)] = [at |-> 2 + len(n), m |-> Got(m, First(n))]
    BY <2>3
  <2> HIDE DEF c
  <2>7. CASE ~Live(m, c)
    <3>1. LC(n + 1) = LC(n)
      BY <2>4, <2>7
    <3>2. Got(m, First(n + 1)) = Got(m, First(n))
      BY <2>4, <2>7, GotMore
    <3>3. Len(s) = 0
      <4>1. s = <<>>
        BY <2>4, <2>7, CellsOfChat
      <4>2. QED  BY <4>1, EmptySeq
    <3>4. len(n + 1) = len(n)
      <4> HIDE DEF len, s
      <4>1. QED  BY <2>5, <3>3
    <3> HIDE DEF len, LC
    <3>5. QED  BY <2>5, <2>6, <3>1, <3>2, <3>4
  <2>8. CASE Live(m, c)
    <3>1. LC(n + 1) = LC(n) \cup {c} /\ c \notin LC(n)
      BY <2>4, <2>8
    <3>2. Got(m, First(n + 1)) = ReadInto(Got(m, First(n)), c, m.state[c], m.key[c])
      BY <2>4, <2>8, GotMore
    <3>3. LC(n + 1) \in SUBSET All
      BY <2>4
    <3> HIDE DEF LC, All
    <3>4. IsFiniteSet(LC(n + 1)) /\ size(n + 1) = size(n) + 1
      BY <2>6, <3>1, FS_AddElement
    <3>5. size(n + 1) <= N
      BY <1>4, <1>5, <3>3, FS_Subset
    <3> HIDE DEF size
    <3>6. size(n + 1) \in 0 .. N /\ size(n + 1) # 0 /\ size(n + 1) - 1 = size(n)
      BY <2>6, <3>4, <3>5
    <3>7. read[size(n + 1)] = ReadChat(f, [at |-> 2 + len(n), m |-> Got(m, First(n))])
      BY <1>6, <2>6, <3>6
    <3> DEFINE g == Got(m, First(n))
               p == 1 + len(n)
    <3>8. g \in Memory
      BY <2>4, GotIs
    <3>9. p \in Nat /\ p + Len(s) <= Len(f) /\ p + 1 = 2 + len(n) /\ p + 1 + Len(s) = 2 + len(n + 1)
      <4> HIDE DEF len, s
      <4>1. QED  BY <1>1, <1>2, <2>5
    <3>10. \A i \in 1 .. Len(s) : f[p + i] = s[i]
      <4> HIDE DEF len, s
      <4>1. TAKE i \in 1 .. Len(s)
      <4>2. 1 + len(n) + i \in 1 .. Len(Cells(m))
        BY <1>1, <2>5
      <4>3. f[1 + len(n) + i] = Cells(m)[1 + len(n) + i]
        BY <4>2
      <4>4. QED  BY <2>5, <4>3
    <3> HIDE DEF p, g, len
    <3>11. ReadChat(f, [at |-> p + 1, m |-> g])
             = [at |-> p + 1 + Len(s), m |-> ReadInto(g, c, m.state[c], m.key[c])]
      <4>1. c \in Chats
        BY <2>4
      <4>2. QED  BY <2>8, <3>8, <3>9, <3>10, <4>1, ReadOne
    <3>12. read[size(n + 1)] = [at |-> 2 + len(n + 1), m |-> Got(m, First(n + 1))]
      <4>1. read[size(n + 1)] = ReadChat(f, [at |-> p + 1, m |-> g])
        BY <3>7, <3>9 DEF g
      <4>2. Got(m, First(n + 1)) = ReadInto(g, c, m.state[c], m.key[c])
        BY <3>2 DEF g
      <4>3. QED  BY <3>9, <3>11, <4>1, <4>2
    <3>13. len(n + 1) \in Nat
      <4> HIDE DEF s
      <4>1. QED  BY <2>5
    <3>14. QED  BY <3>4, <3>6, <3>12, <3>13 DEF size
  <2>9. QED  BY <2>7, <2>8
<1>9. Count \in T /\ Count \in Nat
  <2> HIDE DEF T
  <2>1. Count \in Nat
    BY OrderIs
  <2>2. QED  BY <1>7, <1>8, <2>1, Induction
<1>10. Reads(Count)
  <2> HIDE DEF Reads
  <2>1. Count <= Count
    BY <1>9
  <2>2. QED  BY <1>9, <2>1
<1>11. LC(Count) = All /\ First(Count) = Chats /\ len(Count) = B
  BY FirstAre DEF Body, B
<1> DEFINE g == Got(m, Chats)
<1>12. ReadChats(f) = [at |-> B + 2, m |-> g]
  <2> HIDE DEF LC, len, All
  <2>1. read[N] = [at |-> 2 + B, m |-> g]
    BY <1>5, <1>10, <1>11
  <2>2. 2 + B = B + 2
    BY <1>1
  <2>3. QED  BY <1>6, <2>1, <2>2
<1> HIDE DEF g
<1>13. f[B + 2].type = "encr_prime" /\ f[B + 2].is = m.encr_prime
  BY <1>3 DEF PrimeCell
<1>14. read_secret_chat_file(f) = [g EXCEPT !.encr_prime = m.encr_prime]
  BY <1>3, <1>12, <1>13 DEF read_secret_chat_file
<1>15. QED  BY <1>14 DEF g

-----------------------------------------------------------------------------
(* What is on disk. *)

(* What KeptOnDisk says of what a start would find, d, and of memory.      *)
KeptIn(d, m) ==
  /\ d # Unreadable
  /\ \A c \in Chats :
       IF Live(m, c)
       THEN /\ d.state[c] = m.state[c] /\ (c \in d.g_key \/ m.state[c] = "waiting")
            /\ m.state[c] # "request" => d.key[c] = m.key[c]
       ELSE ~Live(d, c)

LEMMA KeptIs == KeptOnDisk <=> (~torn => KeptIn(Restored(log, file), mem))
BY DEF KeptOnDisk, KeptIn

(* Memory keeps what memory has.                                           *)
LEMMA KeptIsKept == \A m : Right(m) => KeptIn(m, m)
<1>1. SUFFICES ASSUME NEW m, Right(m) PROVE KeptIn(m, m)
  OBVIOUS
<1>2. m # Unreadable
  BY <1>1, MemoryIsReadable DEF Right
<1>3. ASSUME NEW c \in Chats, Live(m, c) PROVE c \in m.g_key \/ m.state[c] = "waiting"
  BY <1>1, <1>3, LiveIs DEF Right
<1>4. QED  BY <1>2, <1>3 DEF KeptIn

(* What was written is kept.                                               *)
LEMMA ReadIsKept ==
  ASSUME NEW m, Right(m), NEW f \in Seq(Cell), Len(Cells(m)) <= Len(f),
         \A i \in 1 .. Len(Cells(m)) : f[i] = Cells(m)[i]
  PROVE  LET d == read_secret_chat_file(f)
         IN KeptIn(d, m) /\ d.encr_prime = m.encr_prime
<1> DEFINE d == read_secret_chat_file(f)
           g == Got(m, Chats)
<1>1. d = [g EXCEPT !.encr_prime = m.encr_prime]
  BY ReadBack
<1>2. g \in Memory
  BY GotIs
<1>3. /\ \A c \in Chats : g.state[c] = IF Live(m, c) THEN m.state[c] ELSE "unknown"
      /\ \A c \in Chats : g.key[c] = IF Live(m, c) THEN m.key[c] ELSE NoKey
      /\ g.g_key = {c \in Chats : Live(m, c) /\ m.state[c] # "waiting"}
  BY DEF Got
<1> DEFINE b == m.encr_prime
<1>4. b \in BOOLEAN
  BY DEF Right, Memory
<1> HIDE DEF g, b, d
<1>5. d = [g EXCEPT !.encr_prime = b]
  BY <1>1 DEF b
<1>6. d \in Memory /\ d.state = g.state /\ d.key = g.key /\ d.g_key = g.g_key /\ d.encr_prime = b
  BY <1>2, <1>4, <1>5 DEF Memory
<1>7. d # Unreadable
  BY <1>6, MemoryIsReadable
<1>8. ASSUME NEW c \in Chats
      PROVE  IF Live(m, c)
             THEN /\ d.state[c] = m.state[c] /\ (c \in d.g_key \/ m.state[c] = "waiting")
                  /\ m.state[c] # "request" => d.key[c] = m.key[c]
             ELSE ~Live(d, c)
  <2>1. CASE Live(m, c)
    BY <1>3, <1>6, <2>1
  <2>2. CASE ~Live(m, c)
    <3>1. d.state[c] = "unknown"
      BY <1>3, <1>6, <2>2
    <3>2. QED  BY <2>2, <3>1 DEF Live
  <2>3. QED  BY <2>1, <2>2
<1>9. QED  BY <1>6, <1>7, <1>8 DEF KeptIn, b, d

(* The first n pieces are new, and it has a count.                         *)
LEMMA OverlayIs ==
  ASSUME NEW old \in Seq(Cell), NEW new \in Seq(Cell), NEW n \in 1 .. Len(new),
         new[1] \in CountCell
  PROVE  /\ FileOK(Overlay(old, new, n)) /\ n <= Len(Overlay(old, new, n))
         /\ \A i \in 1 .. n : Overlay(old, new, n)[i] = new[i]
<1> DEFINE p == SubSeq(new, 1, n)
           t == [i \in 1 .. Len(old) - n |->
                   IF \A j \in 1 .. n : new[j].type = old[j].type THEN old[n + i]
                   ELSE [type |-> "garbage"]]
           f == p \o t
<1>1. Len(old) \in Nat /\ Len(new) \in Nat /\ n \in Nat /\ 1 <= n /\ n <= Len(new)
  BY LenProperties
<1>2. p \in Seq(Cell) /\ Len(p) = n /\ \A i \in 1 .. n : p[i] = new[i]
  BY <1>1
<1>3. t \in Seq(Cell)
  <2>1. [type |-> "garbage"] \in Cell
    BY DEF Cell
  <2>2. CASE Len(old) - n \in Nat
    <3>1. \A i \in 1 .. Len(old) - n : old[n + i] \in Cell
      BY <1>1, <2>2
    <3>2. t \in [1 .. Len(old) - n -> Cell]
      BY <2>1, <3>1
    <3> DEFINE k == Len(old) - n
    <3> HIDE DEF t, k
    <3>3. t \in [1 .. k -> Cell] /\ k \in Nat
      BY <2>2, <3>2 DEF k
    <3>4. QED  BY <3>3
  <2>3. CASE Len(old) - n \notin Nat
    <3>1. 1 .. Len(old) - n = 1 .. 0
      BY <1>1, <2>3
    <3>2. t \in [1 .. 0 -> Cell]
      BY <3>1
    <3>3. 0 \in Nat
      OBVIOUS
    <3> HIDE DEF t
    <3>4. QED  BY <3>2, <3>3
  <2>4. QED  BY <2>2, <2>3
<1>4. Len(t) \in Nat
  BY <1>3, LenProperties
<1>5. Overlay(old, new, n) = f
  BY DEF Overlay
<1> HIDE DEF p, t
<1>6. /\ f \in Seq(Cell) /\ Len(f) = n + Len(t)
      /\ \A i \in 1 .. n + Len(t) : f[i] = IF i <= n THEN p[i] ELSE t[i - n]
  <2>1. /\ p \o t \in Seq(Cell) /\ Len(p \o t) = Len(p) + Len(t)
        /\ \A i \in 1 .. Len(p) + Len(t) :
             (p \o t)[i] = IF i <= Len(p) THEN p[i] ELSE t[i - Len(p)]
    BY <1>2, <1>3, ConcatProperties
  <2>2. QED  BY <1>2, <2>1
<1> HIDE DEF f
<1>7. \A i \in 1 .. n : f[i] = new[i]
  BY <1>1, <1>2, <1>4, <1>6
<1>8. f[1] = new[1] /\ n <= Len(f)
  BY <1>1, <1>4, <1>6, <1>7
<1>9. FileOK(f)
  BY <1>6, <1>8 DEF FileOK
<1>10. QED  BY <1>5, <1>7, <1>8, <1>9

(* A start finds of a chat that waits or is ok what memory owed to it.     *)
LEMMA OwesToo ==
  ASSUME NEW d, NEW m, KeptIn(d, m), NEW a, NEW s, \A c \in Chats : Owes(m, c, a[c], s[c]),
         \A c \in Chats : d.state[c] = "waiting" => d.encr_prime
  PROVE  \A c \in Chats : Owes(d, c, a[c], s[c])
<1>1. TAKE c \in Chats
<1>2. CASE Live(m, c)
  <2>1. /\ d.state[c] = m.state[c]
        /\ m.state[c] # "request" => d.key[c] = m.key[c]
    BY <1>2 DEF KeptIn
  <2>2. QED  BY <2>1 DEF Owes
<1>3. CASE ~Live(m, c)
  <2>1. ~Live(d, c)
    BY <1>3 DEF KeptIn
  <2>2. QED  BY <2>1 DEF Owes, Live
<1>4. QED  BY <1>2, <1>3

(* A record that does not write the file changes nothing that is in it.    *)
InFileToo(m, n) ==
  \A c \in Chats : n.state[c] = m.state[c] /\ (n.key[c] = m.key[c] \/ n.state[c] = "request")

LEMMA KeptToo ==
  ASSUME NEW d, NEW m, NEW n, KeptIn(d, m), InFileToo(m, n)
  PROVE  KeptIn(d, n)
<1>1. ASSUME NEW c \in Chats
      PROVE  IF Live(n, c)
             THEN /\ d.state[c] = n.state[c] /\ (c \in d.g_key \/ n.state[c] = "waiting")
                  /\ n.state[c] # "request" => d.key[c] = n.key[c]
             ELSE ~Live(d, c)
  <2>1. n.state[c] = m.state[c] /\ (n.key[c] = m.key[c] \/ n.state[c] = "request")
    BY DEF InFileToo
  <2>2. Live(n, c) <=> Live(m, c)
    BY <2>1 DEF Live
  <2>3. IF Live(m, c)
        THEN /\ d.state[c] = m.state[c] /\ (c \in d.g_key \/ m.state[c] = "waiting")
             /\ m.state[c] # "request" => d.key[c] = m.key[c]
        ELSE ~Live(d, c)
    BY DEF KeptIn
  <2>4. QED  BY <2>1, <2>2, <2>3
<1>2. QED  BY <1>1 DEF KeptIn

LEMMA StoredKeeps ==
  ASSUME DiskRight, NEW m, Right(m), NEW w \in BOOLEAN, Stored(m, w),
         binlog_enabled' = binlog_enabled, torn' = torn, w \/ torn \/ InFileToo(mem, m),
         ~torn => \A c \in Chats : Owes(m, c, agreed'[c], srv'[c])
  PROVE  DiskRight'
<1>1. /\ mem' = m /\ file_was' = file
      /\ log' = IF binlog_enabled THEN m ELSE log
      /\ file' = IF w /\ ~binlog_enabled THEN Overlay(file, Cells(m), Len(Cells(m))) ELSE file
  BY DEF Stored
<1> DEFINE d == read_secret_chat_file(file')
<1>2. ASSUME w, ~binlog_enabled
      PROVE  FileOK(file') /\ KeptIn(d, m) /\ d.encr_prime = m.encr_prime
  <2> DEFINE new == Cells(m)
             n == Len(new)
  <2>1. new \in Seq(Cell) /\ n \in 1 .. Len(new) /\ new[1] \in CountCell
    <3>1. new \in Seq(Cell) /\ Len(new) = Len(Body(m)) + 2 /\ Len(Body(m)) \in Nat
          /\ new[1] = CountOf(m)
      BY CellsAre
    <3>2. QED  BY <3>1, CountOfType
  <2>2. file \in Seq(Cell)
    BY DEF DiskRight, FilesOK, FileOK
  <2>3. file' = Overlay(file, new, n)
    BY <1>1, <1>2
  <2> HIDE DEF n
  <2>4. FileOK(file') /\ n <= Len(file') /\ \A i \in 1 .. n : file'[i] = new[i]
    <3> HIDE DEF new
    <3>1. QED  BY <2>1, <2>2, <2>3, OverlayIs
  <2>5. file' \in Seq(Cell)
    BY <2>4 DEF FileOK
  <2>6. KeptIn(d, m) /\ d.encr_prime = m.encr_prime
    BY <2>4, <2>5, ReadIsKept DEF n
  <2>7. QED  BY <2>4, <2>6
<1>3. FilesOK'
  BY <1>1, <1>2 DEF DiskRight, FilesOK
<1>4. LogIsMemory' /\ Right(mem)' /\ Right(log)'
  BY <1>1 DEF DiskRight, LogIsMemory
<1>5. SUFFICES ASSUME ~torn PROVE KeptOnDisk' /\ Settled'
  BY <1>3, <1>4 DEF DiskRight, KeptOnDisk, Settled
<1>6. /\ KeptIn(Restored(log, file), mem)
      /\ \A c \in Chats : Owes(Restored(log, file), c, agreed[c], srv[c])
  BY <1>5, KeptIs DEF DiskRight, Settled, SettledIn
<1>7. \A c \in Chats : Owes(m, c, agreed'[c], srv'[c])
  BY <1>5
<1> DEFINE e == Restored(log, file)'
<1>8. KeptIn(e, m) /\ \A c \in Chats : e.state[c] = "waiting" => e.encr_prime
  <2>1. CASE binlog_enabled
    <3>1. e = m
      BY <1>1, <2>1 DEF Restored
    <3>2. QED  BY <1>7, <3>1, KeptIsKept DEF Owes
  <2>2. CASE ~binlog_enabled /\ w
    <3>1. e = d
      BY <2>2 DEF Restored
    <3>2. KeptIn(d, m) /\ d.encr_prime = m.encr_prime
      BY <1>2, <2>2
    <3> HIDE DEF d, e
    <3>3. ASSUME NEW c \in Chats, d.state[c] = "waiting" PROVE d.encr_prime
      <4>1. Live(m, c) /\ d.state[c] = m.state[c]
        BY <3>2, <3>3 DEF KeptIn, Live
      <4>2. QED  BY <1>7, <3>2, <3>3, <4>1 DEF Owes
    <3>4. QED  BY <3>1, <3>2, <3>3
  <2>3. CASE ~binlog_enabled /\ ~w
    <3>1. e = Restored(log, file)
      BY <1>1, <2>3 DEF Restored
    <3> HIDE DEF e
    <3>2. InFileToo(mem, m)
      BY <1>5, <2>3
    <3>3. KeptIn(e, m)
      BY <1>6, <3>1, <3>2, KeptToo
    <3>4. QED  BY <1>6, <3>1, <3>3 DEF Owes
  <2>4. QED  BY <2>1, <2>2, <2>3
<1> HIDE DEF e, d
<1>9. \A c \in Chats : Owes(e, c, agreed'[c], srv'[c])
  BY <1>7, <1>8, OwesToo
<1>10. KeptOnDisk'
  <2>1. KeptIn(Restored(log, file)', mem')
    BY <1>1, <1>8 DEF e
  <2>2. QED  BY <2>1 DEF KeptOnDisk, KeptIn
<1>11. Settled'
  BY <1>1, <1>7, <1>9 DEF Settled, SettledIn, e
<1>12. QED  BY <1>10, <1>11

(* A log that tells of the chats what memory tells.                        *)
LogTells(l) ==
  /\ Right(l)
  /\ binlog_enabled => /\ l.state = mem.state /\ l.key = mem.key /\ l.g_key = mem.g_key
                       /\ mem.encr_prime => l.encr_prime

LEMMA LogIs == DiskRight => LogTells(log)
BY DEF DiskRight, LogIsMemory, LogTells

(* A start of the program, also one after a handler that had logged what   *)
(* changes no chat.                                                        *)
LEMMA StartKeeps ==
  ASSUME DiskRight, NEW l, LogTells(l), NEW f, FileOK(f), Start(l, f),
         binlog_enabled' = binlog_enabled,
         UNCHANGED <<srv, agreed>>, ~torn' => ~torn /\ f = file
  PROVE  /\ DiskRight' /\ q' = {} /\ stuck' \in BOOLEAN
         /\ ~torn' => KeptIn(mem', mem)
<1> DEFINE m == Restored(l, f)
<1>1. /\ mem' = IF m = Unreadable THEN Nothing ELSE m
      /\ stuck' = (m = Unreadable) /\ file' = f /\ file_was' = f
      /\ q' = {} /\ log' = l
  BY DEF Start
<1>2. m = Unreadable \/ Right(m)
  BY ReadAny DEF Restored, LogTells
<1>3. binlog_enabled => m = l /\ m # Unreadable
  BY MemoryIsReadable DEF Restored, LogTells, Right
<1>4. Restored(log, file)' = m
  BY <1>1 DEF Restored
<1> HIDE DEF m
<1>5. FilesOK' /\ LogIsMemory' /\ Right(mem)' /\ Right(log)'
  <2>1. FilesOK'
    BY <1>1 DEF FilesOK
  <2>2. LogIsMemory'
    BY <1>1, <1>3 DEF LogIsMemory
  <2>3. Right(mem')
    BY <1>1, <1>2, NothingIsRight
  <2>4. Right(log')
    BY <1>1 DEF LogTells
  <2>5. QED  BY <2>1, <2>2, <2>3, <2>4
<1>6. CASE torn'
  BY <1>1, <1>5, <1>6 DEF DiskRight, KeptOnDisk, Settled
<1>7. CASE ~torn'
  <2>1. ~torn /\ f = file
    BY <1>7
  <2>2. KeptIn(m, mem) /\ \A c \in Chats : Owes(m, c, agreed[c], srv[c])
    <3>1. CASE binlog_enabled
      <4>1. /\ m = l /\ l.state = mem.state /\ l.key = mem.key /\ l.g_key = mem.g_key
            /\ mem.encr_prime => l.encr_prime
        BY <1>3, <3>1 DEF LogTells
      <4>2. KeptIn(mem, mem) /\ l # Unreadable
        BY <1>3, <3>1, KeptIsKept DEF DiskRight
      <4>3. KeptIn(m, mem)
        BY <4>1, <4>2 DEF KeptIn, Live
      <4>4. \A c \in Chats : Owes(mem, c, agreed[c], srv[c])
        BY <2>1 DEF DiskRight, Settled, SettledIn
      <4>5. QED  BY <4>1, <4>3, <4>4 DEF Owes
    <3>2. CASE ~binlog_enabled
      <4>1. m = Restored(log, file)
        BY <2>1, <3>2 DEF m, Restored
      <4>2. QED  BY <2>1, <4>1, KeptIs DEF DiskRight, Settled, SettledIn
    <3>3. QED  BY <3>1, <3>2
  <2>3. m # Unreadable /\ Right(m) /\ mem' = m
    BY <1>1, <1>2, <2>2 DEF KeptIn
  <2>4. KeptIn(Restored(log, file)', mem')
    BY <1>4, <2>3, KeptIsKept
  <2>5. KeptOnDisk'
    BY <2>4 DEF KeptOnDisk, KeptIn
  <2>6. Settled'
    BY <1>4, <2>2, <2>3 DEF Settled, SettledIn
  <2>7. QED  BY <1>1, <1>5, <2>2, <2>3, <2>5, <2>6 DEF DiskRight
<1>8. QED  BY <1>6, <1>7

-----------------------------------------------------------------------------
(* The records that change a chat. *)

Put(m, c, s, k, g) ==
  [state |-> [m.state EXCEPT ![c] = s], key |-> [m.key EXCEPT ![c] = k],
   g_key |-> g, encr_prime |-> m.encr_prime]

LEMMA PutIs ==
  ASSUME NEW m \in Memory, NEW c \in Chats, NEW s \in States, NEW k \in Keys \cup {NoKey},
         NEW g \in SUBSET Chats
  PROVE  LET n == Put(m, c, s, k, g)
         IN /\ n \in Memory /\ n.g_key = g /\ n.encr_prime = m.encr_prime
            /\ \A d \in Chats : n.state[d] = IF d = c THEN s ELSE m.state[d]
            /\ \A d \in Chats : n.key[d] = IF d = c THEN k ELSE m.key[d]
<1> DEFINE st == [m.state EXCEPT ![c] = s]
           ke == [m.key EXCEPT ![c] = k]
           n == Put(m, c, s, k, g)
<1>1. /\ m.state \in [Chats -> States] /\ m.key \in [Chats -> Keys \cup {NoKey}]
      /\ m.encr_prime \in BOOLEAN
  BY DEF Memory
<1>2. /\ st \in [Chats -> States] /\ \A d \in Chats : st[d] = IF d = c THEN s ELSE m.state[d]
      /\ ke \in [Chats -> Keys \cup {NoKey}] /\ \A d \in Chats : ke[d] = IF d = c THEN k ELSE m.key[d]
  BY <1>1
<1> DEFINE b == m.encr_prime
<1>3. n = [state |-> st, key |-> ke, g_key |-> g, encr_prime |-> b]
  BY DEF Put
<1>4. b \in BOOLEAN
  BY <1>1
<1> HIDE DEF st, ke, n, b
<1>5. n \in Memory /\ n.state = st /\ n.key = ke /\ n.g_key = g /\ n.encr_prime = b
  BY <1>2, <1>3, <1>4 DEF Memory
<1>6. QED  BY <1>2, <1>5 DEF n, b

(* The changes of a record are made one after the other.                   *)
Set2(m, c, s, g) == [m EXCEPT !.state[c] = s, !.g_key = g]
Set3(m, c, s, k, g) == [m EXCEPT !.state[c] = s, !.key[c] = k, !.g_key = g]

LEMMA SetIs ==
  ASSUME NEW m \in Memory, NEW c \in Chats, NEW s, NEW k, NEW g
  PROVE  /\ [m EXCEPT !.state[c] = s] = Put(m, c, s, m.key[c], m.g_key)
         /\ Set2(m, c, s, g) = Put(m, c, s, m.key[c], g)
         /\ Set3(m, c, s, k, g) = Put(m, c, s, k, g)
<1> DEFINE m1 == [m EXCEPT !.state[c] = s]
           m2 == [m1 EXCEPT !.key[c] = k]
           m3 == [m2 EXCEPT !.g_key = g]
           m4 == [m1 EXCEPT !.g_key = g]
           x == m.state
           y == m.key
           z == m.g_key
           b == m.encr_prime
<1>1. Set3(m, c, s, k, g) = m3
  BY Zenon DEF Set3
<1>2. Set2(m, c, s, g) = m4
  BY Zenon DEF Set2
<1>3. m = [state |-> x, key |-> y, g_key |-> z, encr_prime |-> b]
  BY MemoryIs
<1>4. [y EXCEPT ![c] = y[c]] = y
  <2>1. y \in [Chats -> Keys \cup {NoKey}]
    BY DEF Memory
  <2> HIDE DEF y
  <2>2. QED  BY <2>1
<1>5. \A t, u : Put(m, c, s, t, u) = [state |-> [x EXCEPT ![c] = s], key |-> [y EXCEPT ![c] = t],
                                       g_key |-> u, encr_prime |-> b]
  BY DEF Put
<1> HIDE DEF x, y, z, b
<1>6. m1 = [state |-> [x EXCEPT ![c] = s], key |-> y, g_key |-> z, encr_prime |-> b]
  BY <1>3
<1> HIDE DEF m1
<1>7. m4 = [state |-> [x EXCEPT ![c] = s], key |-> y, g_key |-> g, encr_prime |-> b]
  BY <1>6
<1>8. m2 = [state |-> [x EXCEPT ![c] = s], key |-> [y EXCEPT ![c] = k], g_key |-> z,
            encr_prime |-> b]
  BY <1>6
<1> HIDE DEF m2
<1>9. m3 = [state |-> [x EXCEPT ![c] = s], key |-> [y EXCEPT ![c] = k], g_key |-> g,
            encr_prime |-> b]
  BY <1>8
<1> HIDE DEF m3, m4
<1>10. m1 = Put(m, c, s, y[c], z)
  BY <1>4, <1>5, <1>6
<1>11. m4 = Put(m, c, s, y[c], g)
  BY <1>4, <1>5, <1>7
<1>12. m3 = Put(m, c, s, k, g)
  BY <1>5, <1>9
<1>13. QED  BY <1>1, <1>2, <1>10, <1>11, <1>12 DEF m1, y, z

LEMMA Set1Is ==
  ASSUME NEW m \in Memory, NEW c \in Chats, NEW s
  PROVE  [m EXCEPT !.state[c] = s] = Put(m, c, s, m.key[c], m.g_key)
<1>1. /\ [m EXCEPT !.state[c] = s] = Put(m, c, s, m.key[c], m.g_key)
      /\ Set2(m, c, s, {}) = Put(m, c, s, m.key[c], {})
      /\ Set3(m, c, s, NoKey, {}) = Put(m, c, s, NoKey, {})
  BY SetIs
<1>2. QED  BY <1>1

LEMMA Set2Is ==
  ASSUME NEW m \in Memory, NEW c \in Chats, NEW s, NEW g
  PROVE  Set2(m, c, s, g) = Put(m, c, s, m.key[c], g)
<1>1. /\ [m EXCEPT !.state[c] = s] = Put(m, c, s, m.key[c], m.g_key)
      /\ Set2(m, c, s, g) = Put(m, c, s, m.key[c], g)
      /\ Set3(m, c, s, NoKey, g) = Put(m, c, s, NoKey, g)
  BY SetIs
<1>2. QED  BY <1>1

LEMMA Set3Is ==
  ASSUME NEW m \in Memory, NEW c \in Chats, NEW s, NEW k, NEW g
  PROVE  Set3(m, c, s, k, g) = Put(m, c, s, k, g)
<1>1. /\ [m EXCEPT !.state[c] = s] = Put(m, c, s, m.key[c], m.g_key)
      /\ Set2(m, c, s, g) = Put(m, c, s, m.key[c], g)
      /\ Set3(m, c, s, k, g) = Put(m, c, s, k, g)
  BY SetIs
<1>2. QED  BY <1>1

LEMMA FetchIs ==
  ASSUME NEW m \in Memory, NEW c \in Chats
  PROVE  LET st == m.state[c]
         IN /\ fetch_encrypted_chat(m, c, "requested")
                 = IF st = "unknown" THEN Put(m, c, "request", m.key[c], m.g_key \cup {c}) ELSE m
            /\ fetch_encrypted_chat(m, c, "waiting")
                 = IF st = "unknown" THEN m ELSE Put(m, c, "waiting", m.key[c], m.g_key)
            /\ fetch_encrypted_chat(m, c, "discarded")
                 = IF st \in {"unknown", "none", "deleted"} THEN m
                   ELSE Put(m, c, "deleted", NoKey, m.g_key \ {c})
            /\ fetch_encrypted_chat(m, c, "chat")
                 = IF st \in {"waiting", "request"} THEN Put(m, c, "ok", m.key[c], m.g_key \cup {c})
                   ELSE m
<1> DEFINE st == m.state[c]
<1>1. bl_do_encr_chat_requested(m, c) = Put(m, c, "request", m.key[c], m.g_key \cup {c})
  <2>1. bl_do_encr_chat_requested(m, c) = Set2(m, c, "request", m.g_key \cup {c})
    BY Zenon DEF bl_do_encr_chat_requested, Set2
  <2>2. QED  BY <2>1, Set2Is
<1>2. bl_do_encr_chat_delete(m, c)
        = IF st \in {"unknown", "none", "deleted"} THEN m
          ELSE Put(m, c, "deleted", NoKey, m.g_key \ {c})
  <2>1. st \notin {"unknown", "none", "deleted"} =>
          bl_do_encr_chat_delete(m, c) = Set3(m, c, "deleted", NoKey, m.g_key \ {c})
    BY Zenon DEF bl_do_encr_chat_delete, Set3
  <2>2. st \in {"unknown", "none", "deleted"} => bl_do_encr_chat_delete(m, c) = m
    BY Zenon DEF bl_do_encr_chat_delete
  <2>3. Set3(m, c, "deleted", NoKey, m.g_key \ {c}) = Put(m, c, "deleted", NoKey, m.g_key \ {c})
    BY Set3Is
  <2>4. QED  BY <2>1, <2>2, <2>3
<1>3. [m EXCEPT !.state[c] = "waiting"] = Put(m, c, "waiting", m.key[c], m.g_key)
  BY Set1Is
<1>4. bl_do_encr_chat_accepted(m, c)
        = IF st \in {"waiting", "request"} THEN Put(m, c, "ok", m.key[c], m.g_key \cup {c}) ELSE m
  <2>1. CASE st = "request"
    <3>1. bl_do_encr_chat_accepted(m, c) = Set2(m, c, "ok", m.g_key \cup {c})
      BY <2>1 DEF bl_do_encr_chat_accepted, Set2
    <3>2. QED  BY <2>1, <3>1, Set2Is
  <2>2. CASE st = "waiting"
    <3> DEFINE e == do_create_keys_end(m, c)
    <3>1. /\ e \in Memory /\ e.key = m.key /\ e.g_key = m.g_key /\ e.encr_prime = m.encr_prime
          /\ [e.state EXCEPT ![c] = "ok"] = [m.state EXCEPT ![c] = "ok"]
      <4>1. CASE m.key[c].shape = "full"
        BY <4>1 DEF do_create_keys_end
      <4>2. CASE m.key[c].shape # "full"
        <5>1. e = [m EXCEPT !.state[c] = "deleted"]
          BY <4>2 DEF do_create_keys_end
        <5>2. m.state \in [Chats -> States]
          BY DEF Memory
        <5>3. /\ e \in Memory /\ e.key = m.key /\ e.g_key = m.g_key
              /\ e.encr_prime = m.encr_prime /\ e.state = [m.state EXCEPT ![c] = "deleted"]
          <6> HIDE DEF e
          <6>1. QED  BY <5>1 DEF Memory, States
        <5> HIDE DEF e
        <5>4. [[m.state EXCEPT ![c] = "deleted"] EXCEPT ![c] = "ok"] = [m.state EXCEPT ![c] = "ok"]
          BY <5>2
        <5>5. QED  BY <5>3, <5>4
      <4>3. QED  BY <4>1, <4>2
    <3>2. bl_do_encr_chat_accepted(m, c) = Set2(e, c, "ok", e.g_key \cup {c})
      <4> HIDE DEF st
      <4>1. bl_do_encr_chat_accepted(m, c)
              = [do_create_keys_end(m, c) EXCEPT !.state[c] = "ok", !.g_key = @ \cup {c}]
        BY <2>2 DEF bl_do_encr_chat_accepted, st
      <4>2. QED  BY <4>1, Zenon DEF Set2
    <3> HIDE DEF e
    <3>3. Set2(e, c, "ok", e.g_key \cup {c}) = Put(e, c, "ok", e.key[c], e.g_key \cup {c})
      BY <3>1, Set2Is
    <3>4. Put(e, c, "ok", e.key[c], e.g_key \cup {c}) = Put(m, c, "ok", m.key[c], m.g_key \cup {c})
      BY <3>1, Zenon DEF Put
    <3>5. QED  BY <2>2, <3>2, <3>3, <3>4
  <2>3. CASE st \notin {"waiting", "request"}
    BY <2>3 DEF bl_do_encr_chat_accepted
  <2>4. QED  BY <2>1, <2>2, <2>3
<1>5. fetch_encrypted_chat(m, c, "requested")
        = IF st = "unknown" THEN bl_do_encr_chat_requested(m, c) ELSE m
  BY DEF fetch_encrypted_chat
<1>6. fetch_encrypted_chat(m, c, "waiting")
        = IF st = "unknown" THEN m ELSE [m EXCEPT !.state[c] = "waiting"]
  BY DEF fetch_encrypted_chat
<1>7. fetch_encrypted_chat(m, c, "discarded")
        = IF st = "unknown" THEN m ELSE bl_do_encr_chat_delete(m, c)
  BY DEF fetch_encrypted_chat
<1>8. fetch_encrypted_chat(m, c, "chat")
        = IF st = "unknown" THEN m ELSE bl_do_encr_chat_accepted(m, c)
  BY DEF fetch_encrypted_chat
<1> HIDE DEF st
<1>9. QED  BY <1>1, <1>2, <1>3, <1>4, <1>5, <1>6, <1>7, <1>8 DEF st

-----------------------------------------------------------------------------
(* The parts of a step. *)

(* What a step may not do to a chat that is ok.                            *)
OkStep ==
  \A c \in Chats : mem.state[c] = "ok" =>
    mem'.state[c] = "ok" \/ srv[c] = "discarded" \/ torn'

Keeps == IInv' /\ OkStep

(* The types of what is not in memory, on disk or among the updates.       *)
RestOK ==
  /\ binlog_enabled \in BOOLEAN /\ q \subseteq Queries
  /\ srv \in [Chats -> {"none", "waiting", "ok", "discarded"}]
  /\ agreed \in [Chats -> Keys \cup {NoKey}] /\ keys \in 0 .. MaxKeys
  /\ stuck \in BOOLEAN /\ faults \in 0 .. MaxFaults
  /\ aborts \subseteq Chats \X Reasons
  /\ hindered \subseteq Chats /\ overtaken \subseteq Chats /\ torn \in BOOLEAN

(* From TypeOK, and back to it.                                            *)
LEMMA RestIs == TypeOK => RestOK
BY DEF TypeOK, RestOK

LEMMA RangeIs ==
  ASSUME NEW S, NEW s \in Seq(S)
  PROVE  Range(s) \subseteq S
BY DEF Range

LEMMA TypeIs == (RestOK /\ DiskRight /\ UpdatesRight => TypeOK)'
<1>1. UpdatesRight' => Range(updates') \subseteq Updates
  BY RangeIs DEF UpdatesRight
<1>2. DiskRight' => {mem', log'} \subseteq Memory
  BY DEF DiskRight, Right
<1>3. QED  BY <1>1, <1>2 DEF TypeOK, RestOK

LEMMA KeepsIs ==
  ASSUME RestOK', DiskRight', UpdatesRight', QueriesRight', AbortsExplained', OkStep
  PROVE  Keeps
BY TypeIs DEF IInv, Keeps

(* The server takes no chat back.                                          *)
Onward ==
  \A c \in Chats : /\ srv[c] = "discarded" => srv'[c] = "discarded"
                   /\ srv[c] = "ok" => srv'[c] \in {"ok", "discarded"}

(* What an update relies on stays, is added, and is taken.                 *)
LEMMA UpdateOnward ==
  ASSUME Onward, NEW u \in Updates, UpdateRight(u, srv)
  PROVE  UpdateRight(u, srv')
BY DEF Onward, UpdateRight, Updates

LEMMA UpdatesStay ==
  ASSUME UpdatesRight, Onward, updates' = updates
  PROVE  UpdatesRight'
<1>1. \A i \in 1 .. Len(updates) : updates[i] \in Updates /\ UpdateRight(updates[i], srv)
  BY DEF UpdatesRight
<1>2. \A i \in 1 .. Len(updates) : UpdateRight(updates[i], srv')
  BY <1>1, UpdateOnward
<1>3. QED  BY <1>2 DEF UpdatesRight

LEMMA UpdateAdded ==
  ASSUME UpdatesRight, Onward, NEW u \in Updates, UpdateRight(u, srv'),
         updates' = Append(updates, u)
  PROVE  UpdatesRight'
<1>1. /\ updates \in Seq(Updates)
      /\ \A i \in 1 .. Len(updates) : updates[i] \in Updates /\ UpdateRight(updates[i], srv)
  BY DEF UpdatesRight
<1>2. \A i \in 1 .. Len(updates) : UpdateRight(updates[i], srv')
  BY <1>1, UpdateOnward
<1>3. /\ updates' \in Seq(Updates) /\ Len(updates') = Len(updates) + 1
      /\ \A i \in 1 .. Len(updates) : updates'[i] = updates[i]
      /\ updates'[Len(updates) + 1] = u /\ Len(updates) \in Nat
  BY <1>1, AppendProperties, LenProperties
<1>4. ASSUME NEW i \in 1 .. Len(updates') PROVE UpdateRight(updates'[i], srv')
  <2>1. CASE i \in 1 .. Len(updates)
    BY <1>2, <1>3, <2>1
  <2>2. CASE i = Len(updates) + 1
    BY <1>3, <2>2
  <2>3. QED  BY <1>3, <2>1, <2>2
<1>5. QED  BY <1>3, <1>4 DEF UpdatesRight

LEMMA UpdateFirst ==
  ASSUME UpdatesRight, updates # <<>>
  PROVE  Head(updates) \in Updates /\ UpdateRight(Head(updates), srv)
<1>1. updates \in Seq(Updates) /\ \A i \in 1 .. Len(updates) : UpdateRight(updates[i], srv)
  BY DEF UpdatesRight
<1>2. Len(updates) \in Nat \ {0} /\ Head(updates) = updates[1] /\ Head(updates) \in Updates
  BY <1>1, HeadTailProperties, EmptySeq
<1>3. 1 \in 1 .. Len(updates)
  BY <1>2
<1>4. QED  BY <1>1, <1>2, <1>3

LEMMA UpdateTaken ==
  ASSUME UpdatesRight, srv' = srv, updates # <<>>, updates' = Tail(updates)
  PROVE  UpdatesRight'
<1>1. updates \in Seq(Updates) /\ \A i \in 1 .. Len(updates) : UpdateRight(updates[i], srv)
  BY DEF UpdatesRight
<1>2. /\ updates' \in Seq(Updates) /\ Len(updates') = Len(updates) - 1
      /\ \A i \in 1 .. Len(updates') : updates'[i] = updates[i + 1]
      /\ Len(updates) \in Nat \ {0}
  BY <1>1, HeadTailProperties, EmptySeq
<1>3. ASSUME NEW i \in 1 .. Len(updates') PROVE UpdateRight(updates'[i], srv')
  <2>1. updates'[i] = updates[i + 1] /\ i + 1 \in 1 .. Len(updates)
    BY <1>2
  <2>2. QED  BY <1>1, <2>1
<1>4. QED  BY <1>2, <1>3 DEF UpdatesRight

(* A reason for an abort stays one; a new one.                             *)
LEMMA AbortsStay ==
  ASSUME RestOK, AbortsExplained, Onward, torn => torn', aborts' = aborts
  PROVE  AbortsExplained'
<1>1. \A a \in aborts : a[1] \in Chats
  BY DEF RestOK
<1>2. QED  BY <1>1 DEF AbortsExplained, Onward

LEMMA AbortAdded ==
  ASSUME RestOK, AbortsExplained, srv' = srv, torn' = torn, NEW c \in Chats, NEW why,
         aborts' = aborts \cup {<<c, why>>},
         (why = "g_key" /\ srv[c] = "discarded") \/ (why = "encr_prime" /\ torn)
  PROVE  AbortsExplained'
<1>1. <<c, why>>[1] = c /\ <<c, why>>[2] = why
  OBVIOUS
<1>2. QED  BY <1>1 DEF AbortsExplained

(* Nothing changes in memory, whatever the server does.                    *)
LEMMA MemoryStays ==
  ASSUME IInv, Stored(mem, FALSE), binlog_enabled' = binlog_enabled, torn' = torn,
         ~torn => \A c \in Chats : Owes(mem, c, agreed'[c], srv'[c])
  PROVE  DiskRight' /\ OkStep /\ mem' = mem
<1>1. mem' = mem
  BY DEF Stored
<1>2. InFileToo(mem, mem)
  BY DEF InFileToo
<1>3. DiskRight'
  <2>1. FALSE \in BOOLEAN /\ DiskRight /\ Right(mem)
    BY DEF IInv, DiskRight
  <2>2. QED  BY <1>2, <2>1, StoredKeeps
<1>4. QED  BY <1>1, <1>3 DEF OkStep

(* A query whose chat the step does not touch.                             *)
LEMMA QueryStays ==
  ASSUME NEW x \in q, QueryRight(x), \A y \in q' : y.chat = x.chat => y \in q,
         mem'.state[x.chat] = mem.state[x.chat], mem'.key[x.chat] = mem.key[x.chat],
         x.chat \in mem.g_key => x.chat \in mem'.g_key, mem.encr_prime => mem'.encr_prime,
         srv'[x.chat] = srv[x.chat], agreed'[x.chat] = agreed[x.chat]
  PROVE  QueryRight(x)'
<1>1. CASE x.chat \in Made
  <2>1. QueryOfMade(x)
    BY <1>1 DEF QueryRight
  <2>2. QueryOfMade(x)'
    BY <2>1 DEF QueryOfMade
  <2>3. QED  BY <1>1, <2>2 DEF QueryRight
<1>2. CASE x.chat \notin Made
  <2>1. QueryOfAsked(x)
    BY <1>2 DEF QueryRight
  <2>2. QueryOfAsked(x)'
    BY <2>1 DEF QueryOfAsked
  <2>3. QED  BY <1>2, <2>2 DEF QueryRight
<1>3. QED  BY <1>1, <1>2

(* What is known of a pending query.                                       *)
LEMMA QueryIs ==
  ASSUME IInv, NEW x \in q
  PROVE  /\ x \in Queries /\ x.chat \in Chats /\ x.key \in Keys /\ x.key # NoKey
         /\ x.chat \notin Made => x.chat \in Asked
         /\ QueryRight(x)
<1>1. x \in Queries
  BY DEF IInv, TypeOK
<1>2. x.chat \in Chats /\ x.key \in Keys
  BY <1>1 DEF Queries
<1>3. x.key # NoKey
  BY <1>2, ChatsAre DEF Keys, NoKey
<1>4. QED  BY <1>1, <1>2, <1>3 DEF IInv, QueriesRight, Chats

(* What the other party makes is a key.                                    *)
LEMMA TheirsIs == \A k \in Keys : Theirs(k) \in Keys
<1>1. TAKE k \in Keys
<1>2. Theirs(k) = [id |-> k.id, shape |-> "full"]
  BY DEF Theirs, Keys
<1>3. QED  BY <1>2 DEF Keys

-----------------------------------------------------------------------------
(* The steps of the server and the other party. *)

(* The server has nothing new to say of a chat.                            *)
LEMMA OwesStays ==
  ASSUME IInv, ~torn, UNCHANGED <<srv, agreed>>
  PROVE  \A c \in Chats : Owes(mem, c, agreed'[c], srv'[c])
BY DEF IInv, DiskRight, Settled, SettledIn

LEMMA QueriesFewer ==
  ASSUME IInv, q' \subseteq q, mem' = mem, UNCHANGED <<srv, agreed>>
  PROVE  QueriesRight'
<1>1. ASSUME NEW x \in q' PROVE QueryRight(x)'
  BY <1>1, QueryStays DEF IInv, QueriesRight
<1>2. QED  BY <1>1 DEF QueriesRight

(* A query is refused.                                                     *)
LEMMA RefusedKeeps ==
  ASSUME IInv, NEW x \in q, refused(x)
  PROVE  Keeps
<1>1. /\ q' = q \ {x} /\ faults < MaxFaults /\ faults' = faults + 1
      /\ hindered' = hindered \cup {x.chat} /\ Stored(mem, FALSE)
      /\ UNCHANGED <<binlog_enabled, keys, stuck, aborts, overtaken, torn, updates, srv, agreed>>
  BY DEF refused, Fault, External, network
<1>2. RestOK /\ DiskRight /\ UpdatesRight /\ AbortsExplained
  BY RestIs DEF IInv
<1>3. DiskRight' /\ OkStep /\ mem' = mem
  BY <1>1, MemoryStays, OwesStays
<1>4. QueriesRight'
  BY <1>1, <1>3, QueriesFewer
<1>5. Onward
  BY <1>1 DEF Onward
<1>6. UpdatesRight' /\ AbortsExplained'
  BY <1>1, <1>2, <1>5, UpdatesStay, AbortsStay
<1>7. RestOK'
  BY <1>1, <1>2, QueryIs, ChatsAre DEF RestOK
<1>8. QED  BY <1>3, <1>4, <1>6, <1>7, KeepsIs

(* A chat gets on with the server, from none or waiting.                   *)
LEMMA ChatMoves ==
  ASSUME IInv, NEW c \in Chats, NEW s \in {"waiting", "ok", "discarded"},
         srv' = [srv EXCEPT ![c] = s], agreed' = agreed, q' = q, Stored(mem, FALSE),
         UNCHANGED <<binlog_enabled, torn, aborts>>,
         \/ s = "waiting" /\ srv[c] = "none" /\ c \in Asked
         \/ s = "ok" /\ srv[c] = "waiting" /\ c \in Made
         \/ s = "discarded" /\ srv[c] \in {"waiting", "ok"}
  PROVE  DiskRight' /\ OkStep /\ Onward /\ QueriesRight' /\ AbortsExplained'
<1>1. \A d \in Chats : srv'[d] = IF d = c THEN s ELSE srv[d]
  BY DEF IInv, TypeOK
<1>2. Onward
  BY <1>1 DEF Onward
<1>3. ASSUME ~torn, NEW d \in Chats PROVE Owes(mem, d, agreed'[d], srv'[d])
  <2>1. Owes(mem, d, agreed[d], srv[d])
    BY <1>3 DEF IInv, DiskRight, Settled, SettledIn
  <2>2. QED  BY <1>1, <2>1 DEF Owes
<1>4. DiskRight' /\ OkStep /\ mem' = mem
  BY <1>3, MemoryStays
<1>5. ASSUME NEW x \in q' PROVE QueryRight(x)'
  <2>1. x \in q /\ x.chat \in Chats /\ QueryRight(x) /\ (x.chat \notin Made => x.chat \in Asked)
    BY <1>5, QueryIs
  <2>2. CASE x.chat \in Made
    <3>1. QueryOfMade(x) /\ x.chat \notin Asked
      BY <2>1, <2>2, ChatsAre DEF QueryRight
    <3>2. QueryOfMade(x)'
      BY <1>1, <1>4, <2>1, <3>1 DEF QueryOfMade
    <3>3. QED  BY <2>2, <3>2 DEF QueryRight
  <2>3. CASE x.chat \notin Made
    <3>1. QueryOfAsked(x)
      BY <2>1, <2>3 DEF QueryRight
    <3>2. QueryOfAsked(x)'
      BY <1>1, <1>4, <2>1, <2>3, <3>1 DEF QueryOfAsked
    <3>3. QED  BY <2>3, <3>2 DEF QueryRight
  <2>4. QED  BY <2>2, <2>3
<1>6. AbortsExplained'
  BY <1>2, AbortsStay, RestIs DEF IInv
<1>7. QED  BY <1>2, <1>4, <1>5, <1>6 DEF QueriesRight

(* An update from the server.                                              *)
LEMMA ToldIs ==
  ASSUME IInv, NEW c \in Chats, NEW kind \in {"requested", "chat", "discarded"}
  PROVE  /\ Told(c, kind) \in Updates /\ Told(c, kind).chat = c /\ Told(c, kind).kind = kind
BY DEF IInv, TypeOK, Told, Updates

(* The other party asks, accepts or discards, or the server repeats itself. *)
LEMMA AsksKeeps ==
  ASSUME IInv, NEW c \in Chats, asks(c)
  PROVE  Keeps
<1>1. /\ c \in Asked /\ srv[c] = "none" /\ srv' = [srv EXCEPT ![c] = "waiting"]
      /\ updates' = Append(updates, Told(c, "requested")) /\ Stored(mem, FALSE)
      /\ UNCHANGED <<binlog_enabled, keys, stuck, aborts, overtaken, torn, q, agreed, faults,
                     hindered>>
  BY DEF asks, External
<1>2. RestOK /\ UpdatesRight
  BY RestIs DEF IInv
<1>3. DiskRight' /\ OkStep /\ Onward /\ QueriesRight' /\ AbortsExplained'
  BY <1>1, ChatMoves
<1>4. UpdatesRight'
  <2>1. UpdateRight(Told(c, "requested"), srv')
    BY <1>1, ToldIs DEF UpdateRight
  <2>2. QED  BY <1>1, <1>2, <1>3, <2>1, ToldIs, UpdateAdded
<1>5. RestOK'
  BY <1>1, <1>2 DEF RestOK
<1>6. QED  BY <1>3, <1>4, <1>5, KeepsIs

LEMMA AcceptsKeeps ==
  ASSUME IInv, NEW c \in Chats, accepts(c)
  PROVE  Keeps
<1>1. /\ c \in Made /\ srv[c] = "waiting" /\ srv' = [srv EXCEPT ![c] = "ok"]
      /\ updates' = Append(updates, Told(c, "chat")) /\ Stored(mem, FALSE)
      /\ UNCHANGED <<binlog_enabled, keys, stuck, aborts, overtaken, torn, q, agreed, faults,
                     hindered>>
  BY DEF accepts, External
<1>2. RestOK /\ UpdatesRight
  BY RestIs DEF IInv
<1>3. DiskRight' /\ OkStep /\ Onward /\ QueriesRight' /\ AbortsExplained'
  BY <1>1, ChatMoves
<1>4. UpdatesRight'
  <2>1. srv'[c] = "ok"
    BY <1>1, <1>2 DEF RestOK
  <2>2. UpdateRight(Told(c, "chat"), srv')
    BY <1>1, <2>1, ToldIs DEF UpdateRight
  <2>3. QED  BY <1>1, <1>2, <1>3, <2>2, ToldIs, UpdateAdded
<1>5. RestOK'
  BY <1>1, <1>2 DEF RestOK
<1>6. QED  BY <1>3, <1>4, <1>5, KeepsIs

LEMMA DiscardsKeeps ==
  ASSUME IInv, NEW c \in Chats, discards(c)
  PROVE  Keeps
<1>1. /\ srv[c] \in {"waiting", "ok"} /\ srv' = [srv EXCEPT ![c] = "discarded"]
      /\ faults < MaxFaults /\ faults' = faults + 1
      /\ updates' = Append(updates, Told(c, "discarded")) /\ Stored(mem, FALSE)
      /\ UNCHANGED <<binlog_enabled, keys, stuck, aborts, overtaken, torn, q, agreed, hindered>>
  BY DEF discards, External, Fault
<1>2. RestOK /\ UpdatesRight
  BY RestIs DEF IInv
<1>3. DiskRight' /\ OkStep /\ Onward /\ QueriesRight' /\ AbortsExplained'
  BY <1>1, ChatMoves
<1>4. UpdatesRight'
  <2>1. srv'[c] = "discarded"
    BY <1>1, <1>2 DEF RestOK
  <2>2. UpdateRight(Told(c, "discarded"), srv')
    BY <2>1, ToldIs DEF UpdateRight
  <2>3. QED  BY <1>1, <1>2, <1>3, <2>2, ToldIs, UpdateAdded
<1>5. RestOK'
  BY <1>1, <1>2, ChatsAre DEF RestOK
<1>6. QED  BY <1>3, <1>4, <1>5, KeepsIs

LEMMA ToldAgainKeeps ==
  ASSUME IInv, NEW c \in Chats, told_again(c)
  PROVE  Keeps
<1>1. /\ faults < MaxFaults /\ faults' = faults + 1 /\ Stored(mem, FALSE)
      /\ UNCHANGED <<binlog_enabled, keys, stuck, aborts, overtaken, torn, q, srv, agreed, hindered>>
  BY DEF told_again, External, Fault
<1>2. PICK kind \in {"requested", "chat", "discarded"} :
        /\ \/ kind = "requested" /\ c \in Asked /\ srv[c] = "waiting"
           \/ kind = "chat" /\ c \in Made /\ srv[c] = "ok"
           \/ kind = "discarded" /\ srv[c] = "discarded"
        /\ updates' = Append(updates, Told(c, kind))
  BY DEF told_again
<1>3. RestOK /\ UpdatesRight /\ AbortsExplained
  BY RestIs DEF IInv
<1>4. DiskRight' /\ OkStep /\ mem' = mem
  BY <1>1, MemoryStays, OwesStays
<1>5. QueriesRight' /\ Onward
  BY <1>1, <1>4, QueriesFewer DEF Onward
<1>6. UpdatesRight'
  <2>1. UpdateRight(Told(c, kind), srv')
    BY <1>1, <1>2, ToldIs DEF UpdateRight
  <2>2. QED  BY <1>2, <1>3, <1>5, <2>1, ToldIs, UpdateAdded
<1>7. AbortsExplained'
  BY <1>1, <1>3, <1>5, AbortsStay
<1>8. RestOK'
  BY <1>1, <1>3, ChatsAre DEF RestOK
<1>9. QED  BY <1>4, <1>5, <1>6, <1>7, <1>8, KeepsIs

(* The server carries a query out: its answer is on its way.               *)
Back(x) == [x EXCEPT !.st = "back"]

LEMMA BackIs ==
  ASSUME NEW x \in Queries
  PROVE  /\ Back(x) \in Queries /\ Back(x).chat = x.chat /\ Back(x).kind = x.kind
         /\ Back(x).key = x.key /\ Back(x).st = "back"
BY DEF Back, Queries

LEMMA CarryOutKeeps ==
  ASSUME IInv, NEW x \in q, carry_out(x)
  PROVE  Keeps
<1> DEFINE c == x.chat
           y == Back(x)
           done == (q \ {x}) \cup {y}
<1>1. /\ x.st = "out" /\ Stored(mem, FALSE)
      /\ UNCHANGED <<binlog_enabled, keys, stuck, aborts, overtaken, torn, updates, faults, hindered>>
  BY DEF carry_out, External
<1>2. \/ /\ x.kind \in {"dh_create", "dh_accept"}
         /\ q' = done /\ UNCHANGED <<srv, agreed>>
      \/ /\ x.kind = "request" /\ q' = done
         /\ srv' = [srv EXCEPT ![c] = "waiting"]
         /\ agreed' = [agreed EXCEPT ![c] = Theirs(x.key)]
      \/ /\ x.kind = "accept" /\ srv[c] = "waiting" /\ q' = done
         /\ srv' = [srv EXCEPT ![c] = "ok"]
         /\ agreed' = [agreed EXCEPT ![c] = Theirs(x.key)]
      \/ /\ x.kind = "accept" /\ srv[c] # "waiting" /\ q' = q \ {x}
         /\ UNCHANGED <<srv, agreed>>
  BY DEF carry_out, Back
<1>3. RestOK /\ UpdatesRight /\ AbortsExplained
  BY RestIs DEF IInv
<1>4. /\ x \in Queries /\ c \in Chats /\ x.key \in Keys /\ x.key # NoKey
      /\ (c \notin Made => c \in Asked) /\ QueryRight(x)
  BY QueryIs
<1>5. /\ y \in Queries /\ y.chat = c /\ y.kind = x.kind /\ y.key = x.key /\ y.st = "back"
  BY <1>4, BackIs
<1>6. Theirs(x.key) \in Keys
  BY <1>4, TheirsIs
<1> HIDE DEF y, c
<1>7. CASE /\ (x.kind \in {"dh_create", "dh_accept"} /\ q' = done) \/ q' = q \ {x}
           /\ UNCHANGED <<srv, agreed>>
  <2>1. DiskRight' /\ OkStep /\ mem' = mem
    BY <1>1, <1>7, MemoryStays, OwesStays
  <2>2. Onward
    BY <1>7 DEF Onward
  <2>3. UpdatesRight' /\ AbortsExplained'
    BY <1>1, <1>3, <2>2, UpdatesStay, AbortsStay
  <2>4. RestOK'
    BY <1>1, <1>2, <1>3, <1>5, <1>7 DEF RestOK
  <2>5. QueriesRight'
    <3>1. CASE q' = q \ {x}
      BY <1>7, <2>1, <3>1, QueriesFewer
    <3>2. CASE q' = done /\ x.kind \in {"dh_create", "dh_accept"}
      <4>1. q' = done /\ x.kind \in {"dh_create", "dh_accept"}
        BY <3>2
      <4>2. ASSUME NEW z \in q' PROVE QueryRight(z)'
        <5>1. CASE z \in q /\ z # x
          <6>1. QueryRight(z)
            BY <5>1, QueryIs
          <6>2. z.chat = x.chat => z.chat \notin Made
            BY <1>4, <5>1 DEF QueryRight, QueryOfMade
          <6>3. CASE z.chat \in Made
            <7>1. \A w \in q' : w.chat = z.chat => w \in q
              BY <1>5, <4>1, <6>2, <6>3 DEF c
            <7>2. QED  BY <1>7, <2>1, <5>1, <6>1, <7>1, QueryStays
          <6>4. CASE z.chat \notin Made
            BY <1>7, <2>1, <6>1, <6>4 DEF QueryRight, QueryOfAsked
          <6>5. QED  BY <6>3, <6>4
        <5>2. CASE z = y
          <6>1. CASE c \in Made
            <7>1. QueryOfMade(x)
              BY <1>4, <6>1 DEF QueryRight, c
            <7>2. QueryOfMade(z)'
              BY <1>5, <1>7, <2>1, <4>1, <5>2, <7>1 DEF QueryOfMade, c
            <7>3. QED  BY <1>5, <5>2, <6>1, <7>2 DEF QueryRight
          <6>2. CASE c \notin Made
            <7>1. QueryOfAsked(x)
              BY <1>4, <6>2 DEF QueryRight, c
            <7>2. QueryOfAsked(z)'
              BY <1>5, <1>7, <2>1, <4>1, <5>2, <7>1 DEF QueryOfAsked, c
            <7>3. QED  BY <1>5, <5>2, <6>2, <7>2 DEF QueryRight
          <6>3. QED  BY <6>1, <6>2
        <5>3. QED  BY <4>1, <5>1, <5>2
      <4>3. QED  BY <4>2 DEF QueriesRight
    <3>3. QED  BY <1>7, <3>1, <3>2
  <2>6. QED  BY <2>1, <2>3, <2>4, <2>5, KeepsIs
<1>8. CASE x.kind = "request" /\ q' = done
           /\ srv' = [srv EXCEPT ![c] = "waiting"]
           /\ agreed' = [agreed EXCEPT ![c] = Theirs(x.key)]
  <2>1. c \in Made /\ QueryOfMade(x)
    BY <1>4, <1>8 DEF QueryRight, QueryOfAsked, c
  <2>2. /\ srv[c] = "none" /\ mem.state[c] = "none" /\ mem.key[c] = x.key /\ mem.encr_prime
        /\ \A w \in q : w.chat = c => w = x
    BY <1>1, <1>8, <2>1 DEF QueryOfMade, c
  <2>3. \A d \in Chats : /\ srv'[d] = IF d = c THEN "waiting" ELSE srv[d]
                         /\ agreed'[d] = IF d = c THEN Theirs(x.key) ELSE agreed[d]
    BY <1>3, <1>8 DEF RestOK
  <2>4. Onward
    BY <2>2, <2>3 DEF Onward
  <2>5. ASSUME ~torn, NEW d \in Chats PROVE Owes(mem, d, agreed'[d], srv'[d])
    <3>1. Owes(mem, d, agreed[d], srv[d])
      BY <2>5 DEF IInv, DiskRight, Settled, SettledIn
    <3>2. QED  BY <2>2, <2>3, <3>1 DEF Owes
  <2>6. DiskRight' /\ OkStep /\ mem' = mem
    BY <1>1, <2>5, MemoryStays
  <2>7. UpdatesRight' /\ AbortsExplained'
    BY <1>1, <1>3, <2>4, UpdatesStay, AbortsStay
  <2>8. RestOK'
    BY <1>1, <1>3, <1>5, <1>6, <1>8 DEF RestOK
  <2>9. ASSUME NEW z \in q' PROVE QueryRight(z)'
    <3>1. CASE z # y
      <4>1. z \in q /\ z.chat # c /\ z.chat \in Chats /\ QueryRight(z)
        BY <1>8, <2>2, <2>9, <3>1, QueryIs
      <4>2. \A w \in q' : w.chat = z.chat => w \in q
        BY <1>5, <1>8, <4>1
      <4>3. QED  BY <2>3, <2>6, <4>1, <4>2, QueryStays
    <3>2. CASE z = y
      <4>1. \A w \in q' : w.chat = z.chat => w = z
        BY <1>5, <1>8, <2>2, <3>2
      <4>2. QueryOfMade(z)'
        BY <1>4, <1>5, <1>8, <2>2, <2>3, <2>6, <3>2, <4>1 DEF QueryOfMade
      <4>3. QED  BY <1>5, <2>1, <3>2, <4>2 DEF QueryRight
    <3>3. QED  BY <3>1, <3>2
  <2>10. QED  BY <2>6, <2>7, <2>8, <2>9, KeepsIs DEF QueriesRight
<1>9. CASE x.kind = "accept" /\ srv[c] = "waiting" /\ q' = done
           /\ srv' = [srv EXCEPT ![c] = "ok"]
           /\ agreed' = [agreed EXCEPT ![c] = Theirs(x.key)]
  <2>1. c \notin Made /\ c \in Asked /\ QueryOfAsked(x)
    BY <1>4, <1>9 DEF QueryRight, QueryOfMade, c
  <2>2. \A d \in Chats : /\ srv'[d] = IF d = c THEN "ok" ELSE srv[d]
                         /\ agreed'[d] = IF d = c THEN Theirs(x.key) ELSE agreed[d]
    BY <1>3, <1>9 DEF RestOK
  <2>3. Onward
    BY <1>9, <2>2 DEF Onward
  <2>4. ASSUME ~torn, NEW d \in Chats PROVE Owes(mem, d, agreed'[d], srv'[d])
    <3>1. Owes(mem, d, agreed[d], srv[d])
      BY <2>4 DEF IInv, DiskRight, Settled, SettledIn
    <3>2. mem.state[c] # "waiting"
      BY <2>1 DEF IInv, DiskRight, Right
    <3>3. QED  BY <1>9, <2>2, <3>1, <3>2 DEF Owes
  <2>5. DiskRight' /\ OkStep /\ mem' = mem
    BY <1>1, <2>4, MemoryStays
  <2>6. UpdatesRight' /\ AbortsExplained'
    BY <1>1, <1>3, <2>3, UpdatesStay, AbortsStay
  <2>7. RestOK'
    BY <1>1, <1>3, <1>5, <1>6, <1>9 DEF RestOK
  <2>8. ASSUME NEW z \in q' PROVE QueryRight(z)'
    <3>1. CASE z # y /\ z.chat # c
      <4>1. z \in q /\ z.chat \in Chats /\ QueryRight(z)
        BY <1>9, <2>8, <3>1, QueryIs
      <4>2. \A w \in q' : w.chat = z.chat => w \in q
        BY <1>5, <1>9, <3>1
      <4>3. QED  BY <2>2, <2>5, <3>1, <4>1, <4>2, QueryStays
    <3>2. CASE z # y /\ z.chat = c
      <4>1. z \in q /\ QueryOfAsked(z)
        BY <1>9, <2>1, <2>8, <3>2, QueryIs DEF QueryRight
      <4>2. QueryOfAsked(z)'
        BY <1>9, <2>5, <3>2, <4>1 DEF QueryOfAsked
      <4>3. QED  BY <2>1, <3>2, <4>2 DEF QueryRight
    <3>3. CASE z = y
      <4>1. QueryOfAsked(z)'
        BY <1>4, <1>5, <1>9, <2>1, <2>2, <2>5, <3>3 DEF QueryOfAsked, c
      <4>2. QED  BY <1>5, <2>1, <3>3, <4>1 DEF QueryRight
    <3>4. QED  BY <3>1, <3>2, <3>3
  <2>9. QED  BY <2>5, <2>6, <2>7, <2>8, KeepsIs DEF QueriesRight
<1>10. QED  BY <1>2, <1>7, <1>8, <1>9

-----------------------------------------------------------------------------
(* The steps of the program. *)

ChangesOnly(m, n, c) ==
  /\ m.encr_prime => n.encr_prime
  /\ \A d \in Chats \ {c} : /\ n.state[d] = m.state[d] /\ n.key[d] = m.key[d]
                            /\ d \in m.g_key => d \in n.g_key

(* A chat is changed, and stays as it may be.                              *)
LEMMA PutRight ==
  ASSUME NEW m, Right(m), NEW c \in Chats, NEW s \in States, NEW k \in Keys \cup {NoKey},
         NEW g \in SUBSET Chats, g \cup {c} = m.g_key \cup {c},
         c \in Made => s # "request",
         c \in Asked => /\ s \in {"unknown", "request", "ok", "deleted"}
                        /\ c \in g => s \in {"request", "ok"},
         s \in {"request", "ok"} => c \in g
  PROVE  LET n == Put(m, c, s, k, g)
         IN /\ Right(n) /\ ChangesOnly(m, n, c)
            /\ n.state[c] = s /\ n.key[c] = k /\ n.g_key = g /\ n.encr_prime = m.encr_prime
<1> DEFINE n == Put(m, c, s, k, g)
<1>1. m \in Memory
  BY DEF Right
<1>2. /\ n \in Memory /\ n.g_key = g /\ n.encr_prime = m.encr_prime
      /\ \A d \in Chats : n.state[d] = IF d = c THEN s ELSE m.state[d]
      /\ \A d \in Chats : n.key[d] = IF d = c THEN k ELSE m.key[d]
  BY <1>1, PutIs
<1> HIDE DEF n
<1>3. \A d \in Chats : d # c => (d \in g <=> d \in m.g_key)
  OBVIOUS
<1>4. Right(n)
  <2>1. \A d \in Made : n.state[d] # "request"
    BY <1>2 DEF Right, Chats
  <2>2. \A d \in Asked : /\ n.state[d] \in {"unknown", "request", "ok", "deleted"}
                         /\ d \in n.g_key => n.state[d] \in {"request", "ok"}
    BY <1>2, <1>3 DEF Right, Chats
  <2>3. \A d \in Chats : n.state[d] \in {"request", "ok"} => d \in n.g_key
    BY <1>2, <1>3 DEF Right
  <2>4. QED  BY <1>2, <2>1, <2>2, <2>3 DEF Right
<1>5. ChangesOnly(m, n, c)
  BY <1>2, <1>3 DEF ChangesOnly
<1>6. QED  BY <1>2, <1>4, <1>5 DEF n

(* A record that changes one chat, in memory and on disk.                  *)
LEMMA ChangeKeeps ==
  ASSUME IInv, NEW c \in Chats, NEW m, Right(m), ChangesOnly(mem, m, c), NEW w \in BOOLEAN,
         Stored(m, w), w \/ torn \/ InFileToo(mem, m), UNCHANGED <<binlog_enabled, srv, agreed, torn>>,
         ~torn => Owes(m, c, agreed[c], srv[c]),
         mem.state[c] = "ok" => m.state[c] = "ok" \/ srv[c] = "discarded"
  PROVE  DiskRight' /\ OkStep /\ mem' = m
<1>1. mem' = m
  BY DEF Stored
<1>2. ASSUME ~torn, NEW d \in Chats PROVE Owes(m, d, agreed'[d], srv'[d])
  <2>1. Owes(mem, d, agreed[d], srv[d])
    BY <1>2 DEF IInv, DiskRight, Settled, SettledIn
  <2>2. CASE d = c
    BY <1>2, <2>2
  <2>3. CASE d # c
    BY <2>1, <2>3 DEF Owes, ChangesOnly
  <2>4. QED  BY <2>2, <2>3
<1>3. DiskRight'
  <2>1. DiskRight
    BY DEF IInv
  <2>2. QED  BY <1>2, <2>1, StoredKeeps
<1>4. OkStep
  BY <1>1 DEF OkStep, ChangesOnly
<1>5. QED  BY <1>1, <1>3, <1>4

(* The queries of the other chats rely on nothing that was changed.        *)
LEMMA OthersStay ==
  ASSUME IInv, NEW c \in Chats, ChangesOnly(mem, mem', c), UNCHANGED <<srv, agreed>>,
         \A x \in q' : x.chat # c => x \in q, \A x \in q' : x.chat = c => QueryRight(x)'
  PROVE  QueriesRight'
<1>1. ASSUME NEW x \in q', x.chat # c PROVE QueryRight(x)'
  <2>1. x \in q /\ x.chat \in Chats /\ QueryRight(x)
    BY <1>1, QueryIs
  <2>2. \A y \in q' : y.chat = x.chat => y \in q
    BY <1>1
  <2>3. QED  BY <1>1, <2>1, <2>2, QueryStays DEF ChangesOnly
<1>2. QED  BY <1>1 DEF QueriesRight

(* A query for the parameters, as it is sent.                              *)
LEMMA DhIs ==
  ASSUME IInv, NEW c \in Chats, NEW kind \in {"dh_create", "dh_accept"}, keys < MaxKeys,
         NEW x, x = dh(c, kind)
  PROVE  x \in Queries /\ x.chat = c /\ x.kind = kind /\ x.st = "out"
<1> DEFINE shape == IF keys + 1 \in Short THEN "short" ELSE "full"
           k == [id |-> keys + 1, shape |-> shape]
<1>1. x = [chat |-> c, kind |-> kind, key |-> k, st |-> "out"]
  BY DEF dh
<1>2. keys \in Nat /\ keys + 1 \in 1 .. MaxKeys
  BY ChatsAre DEF IInv, TypeOK
<1>3. k \in Keys
  BY <1>2 DEF Keys
<1> HIDE DEF k, shape
<1>4. QED  BY <1>1, <1>3 DEF Queries

(* The user makes a chat, and the answer to its first query comes.         *)
LEMMA CreateRequestKeeps ==
  ASSUME IInv, NEW c \in Chats, do_create_encr_chat_request(c)
  PROVE  Keeps
<1>1. /\ c \in Made /\ keys < MaxKeys /\ keys' = keys + 1
      /\ mem.state[c] = "unknown" /\ srv[c] = "none" /\ \A x \in q : x.chat # c
      /\ Stored(mem, FALSE)
      /\ UNCHANGED <<binlog_enabled, updates, srv, agreed, stuck, faults, aborts, hindered,
                     overtaken, torn>>
  BY DEF do_create_encr_chat_request, Pending, network, seen
<1>2. PICK x : x = dh(c, "dh_create") /\ q' = q \cup {x}
  BY DEF do_create_encr_chat_request
<1>3. x \in Queries /\ x.chat = c /\ x.kind = "dh_create" /\ x.st = "out"
  BY <1>1, <1>2, DhIs
<1>4. RestOK /\ UpdatesRight /\ AbortsExplained
  BY RestIs DEF IInv
<1>5. DiskRight' /\ OkStep /\ mem' = mem
  BY <1>1, MemoryStays, OwesStays
<1>6. Onward
  BY <1>1 DEF Onward
<1>7. UpdatesRight' /\ AbortsExplained'
  BY <1>1, <1>4, <1>6, UpdatesStay, AbortsStay
<1>8. QueriesRight'
  <2>1. QueryOfMade(x)'
    BY <1>1, <1>2, <1>3, <1>5 DEF QueryOfMade
  <2>2. QueryRight(x)'
    BY <1>1, <1>3, <2>1 DEF QueryRight
  <2>3. \A y \in q' : y.chat = c => QueryRight(y)'
    BY <1>1, <1>2, <2>2
  <2>4. \A y \in q' : y.chat # c => y \in q
    BY <1>2, <1>3
  <2>5. ChangesOnly(mem, mem', c)
    BY <1>5 DEF ChangesOnly
  <2>6. QED  BY <1>1, <2>3, <2>4, <2>5, OthersStay
<1>9. RestOK'
  BY <1>1, <1>2, <1>3, <1>4, ChatsAre DEF RestOK
<1>10. QED  BY <1>5, <1>7, <1>8, <1>9, KeepsIs

LEMMA ChangesThen ==
  ASSUME NEW m, NEW p, NEW n, NEW c, ChangesOnly(m, p, c), ChangesOnly(p, n, c)
  PROVE  ChangesOnly(m, n, c)
BY DEF ChangesOnly

(* encr_prime is there from the first answer on.                           *)
Primed(m) == [m EXCEPT !.encr_prime = TRUE]

LEMMA PrimedIs ==
  ASSUME NEW m, Right(m)
  PROVE  LET n == Primed(m)
         IN /\ Right(n) /\ n.encr_prime = TRUE /\ n.state = m.state /\ n.key = m.key
            /\ n.g_key = m.g_key /\ \A c : ChangesOnly(m, n, c)
<1> DEFINE n == Primed(m)
<1>1. /\ Right(n) /\ n.encr_prime = TRUE /\ n.state = m.state /\ n.key = m.key
      /\ n.g_key = m.g_key
  BY WithPrime DEF Primed
<1> HIDE DEF n
<1>2. \A c : ChangesOnly(m, n, c)
  BY <1>1 DEF ChangesOnly
<1>3. QED  BY <1>1, <1>2 DEF n

Created(m, c, k) ==
  [m EXCEPT !.encr_prime = TRUE, !.state[c] = "none", !.key[c] = k, !.g_key = @ \cup {c}]

LEMMA CreatedIs ==
  ASSUME NEW m, Right(m), NEW c \in Made, NEW k \in Keys
  PROVE  LET n == Created(m, c, k)
         IN /\ Right(n) /\ ChangesOnly(m, n, c)
            /\ n.state[c] = "none" /\ n.key[c] = k /\ n.encr_prime
<1> DEFINE p == Primed(m)
           g == m.g_key \cup {c}
           n == Put(p, c, "none", k, g)
<1>1. /\ Right(p) /\ p.encr_prime = TRUE /\ p.g_key = m.g_key /\ ChangesOnly(m, p, c)
  BY PrimedIs
<1>2. Created(m, c, k) = Set3(p, c, "none", k, g)
  BY Zenon DEF Created, Set3, Primed
<1>3. c \in Chats /\ c \notin Asked /\ p \in Memory
  BY <1>1, ChatsAre DEF Chats, Right
<1> HIDE DEF p
<1>4. Set3(p, c, "none", k, g) = n
  BY <1>3, Set3Is
<1>5. /\ Right(n) /\ ChangesOnly(p, n, c) /\ n.state[c] = "none" /\ n.key[c] = k
      /\ n.encr_prime = p.encr_prime
  <2>1. g \in SUBSET Chats /\ g \cup {c} = p.g_key \cup {c} /\ "none" \in States
    BY <1>1, <1>3 DEF Right, Memory, States
  <2> HIDE DEF g
  <2>2. QED  BY <1>1, <1>3, <2>1, PutRight
<1> HIDE DEF n
<1>6. QED  BY <1>1, <1>2, <1>4, <1>5, ChangesThen

LEMMA SendCreateKeeps ==
  ASSUME IInv, NEW x \in q, do_send_create_encr_chat(x)
  PROVE  Keeps
<1> DEFINE c == x.chat
           n == Created(mem, c, x.key)
           y == [x EXCEPT !.kind = "request", !.st = "out"]
<1>1. /\ x.kind = "dh_create" /\ q' = (q \ {x}) \cup {y}
      /\ UNCHANGED <<binlog_enabled, updates, srv, agreed, keys, stuck, faults, aborts, hindered,
                     overtaken, torn>>
  BY DEF do_send_create_encr_chat, network, seen
<1>2. Stored(n, TRUE)
  BY DEF do_send_create_encr_chat, Created
<1>3. RestOK /\ UpdatesRight /\ AbortsExplained
  BY RestIs DEF IInv
<1>4. x \in Queries /\ c \in Chats /\ x.key \in Keys /\ QueryRight(x)
  BY QueryIs
<1>5. c \in Made /\ QueryOfMade(x)
  BY <1>1, <1>4 DEF QueryRight, QueryOfAsked
<1>6. mem.state[c] = "unknown" /\ srv[c] = "none" /\ \A z \in q : z.chat = c => z = x
  BY <1>1, <1>5 DEF QueryOfMade
<1>7. y \in Queries /\ y.chat = c /\ y.kind = "request" /\ y.key = x.key /\ y.st = "out"
  BY <1>4 DEF Queries
<1>8. /\ Right(n) /\ ChangesOnly(mem, n, c)
      /\ n.state[c] = "none" /\ n.key[c] = x.key /\ n.encr_prime
  <2>1. Right(mem)
    BY DEF IInv, DiskRight
  <2>2. QED  BY <1>4, <1>5, <2>1, CreatedIs
<1> HIDE DEF c, n, y
<1>9. DiskRight' /\ OkStep /\ mem' = n
  <2>1. Owes(n, c, agreed[c], srv[c])
    BY <1>8 DEF Owes
  <2>2. QED  BY <1>1, <1>2, <1>4, <1>6, <1>8, <2>1, ChangeKeeps
<1>10. QueriesRight'
  <2>1. \A z \in q' : z.chat # c => z \in q
    BY <1>1, <1>7
  <2>2. \A z \in q' : z.chat = c => z = y
    BY <1>1, <1>6
  <2>3. QueryOfMade(y)'
    BY <1>1, <1>6, <1>7, <1>8, <1>9, <2>2 DEF QueryOfMade
  <2>4. QueryRight(y)'
    BY <1>5, <1>7, <2>3 DEF QueryRight
  <2>5. QED  BY <1>1, <1>4, <1>8, <1>9, <2>1, <2>2, <2>4, OthersStay
<1>11. Onward
  BY <1>1 DEF Onward
<1>12. UpdatesRight' /\ AbortsExplained'
  BY <1>1, <1>3, <1>11, UpdatesStay, AbortsStay
<1>13. RestOK'
  BY <1>1, <1>3, <1>7 DEF RestOK
<1>14. QED  BY <1>9, <1>10, <1>12, <1>13, KeepsIs

(* A process ends, and the next one starts.                                *)
LEMMA StartedKeeps ==
  ASSUME IInv, NEW l, LogTells(l), NEW f, FileOK(f), Start(l, f),
         torn' \in BOOLEAN, ~torn' => ~torn /\ f = file,
         torn => torn', UNCHANGED <<binlog_enabled, srv, agreed, overtaken>>,
         keys' = keys, faults' \in 0 .. MaxFaults,
         UpdatesRight', AbortsExplained', aborts' \subseteq Chats \X Reasons
  PROVE  Keeps
<1>1. RestOK /\ DiskRight
  BY RestIs DEF IInv
<1>2. /\ DiskRight' /\ q' = {} /\ stuck' \in BOOLEAN
      /\ ~torn' => KeptIn(mem', mem)
  BY <1>1, StartKeeps
<1>3. hindered' = hindered \cup {c \in Chats : mem.state[c] # "ok"}
  BY DEF Start
<1>4. RestOK'
  BY <1>1, <1>2, <1>3 DEF RestOK
<1>5. QueriesRight'
  BY <1>2 DEF QueriesRight
<1>6. OkStep
  BY <1>2 DEF OkStep, KeptIn, Live
<1>7. QED  BY <1>2, <1>4, <1>5, <1>6, KeepsIs

LEMMA CrashKeeps ==
  ASSUME IInv, crash
  PROVE  Keeps
<1>1. /\ faults < MaxFaults /\ faults' = faults + 1 /\ Start(log, file)
      /\ UNCHANGED <<binlog_enabled, updates, srv, agreed, keys, aborts, overtaken, torn>>
  BY DEF crash, Fault, network
<1>2. RestOK /\ UpdatesRight /\ AbortsExplained
  BY RestIs DEF IInv
<1>3. Onward
  BY <1>1 DEF Onward
<1>4. UpdatesRight' /\ AbortsExplained'
  BY <1>1, <1>2, <1>3, UpdatesStay, AbortsStay
<1>5. faults' \in 0 .. MaxFaults
  BY <1>1, <1>2, ChatsAre DEF RestOK
<1>6. FileOK(file) /\ LogTells(log)
  BY LogIs DEF IInv, DiskRight, FilesOK
<1>7. torn' \in BOOLEAN /\ aborts' \subseteq Chats \X Reasons
  BY <1>1, <1>2 DEF RestOK
<1>8. QED  BY <1>1, <1>4, <1>5, <1>6, <1>7, StartedKeeps

LEMMA CrashInWriteKeeps ==
  ASSUME IInv, NEW n \in 1 .. Pieces, crash_in_write(n)
  PROVE  Keeps
<1> DEFINE new == Cells(mem)
           f == Overlay(file_was, new, n)
<1>1. /\ faults < MaxFaults /\ faults' = faults + 1 /\ Start(log, f) /\ torn' = TRUE
      /\ n < Len(new)
      /\ UNCHANGED <<binlog_enabled, updates, srv, agreed, keys, aborts, overtaken>>
  BY DEF crash_in_write, Fault, network
<1>2. RestOK /\ UpdatesRight /\ AbortsExplained
  BY RestIs DEF IInv
<1>3. Onward
  BY <1>1 DEF Onward
<1>4. UpdatesRight' /\ AbortsExplained'
  BY <1>1, <1>2, <1>3, UpdatesStay, AbortsStay
<1>5. faults' \in 0 .. MaxFaults
  BY <1>1, <1>2, ChatsAre DEF RestOK
<1>6. FileOK(f)
  <2>1. /\ new \in Seq(Cell) /\ Len(new) = Len(Body(mem)) + 2 /\ Len(Body(mem)) \in Nat
        /\ new[1] = CountOf(mem)
    BY CellsAre DEF IInv, DiskRight
  <2>2. new[1] \in CountCell
    BY <2>1, CountOfType
  <2>3. n \in 1 .. Len(new)
    <3> HIDE DEF new
    <3>1. n \in Nat /\ 1 <= n
      <4>1. Pieces \in Nat
        BY ChatsAre, FS_CardinalityType DEF Pieces
      <4>2. QED  BY <4>1
    <3>2. QED  BY <1>1, <2>1, <3>1
  <2>4. file_was \in Seq(Cell)
    BY DEF IInv, DiskRight, FilesOK, FileOK
  <2> HIDE DEF new
  <2>5. QED  BY <2>1, <2>2, <2>3, <2>4, OverlayIs
<1>7. torn' \in BOOLEAN /\ aborts' \subseteq Chats \X Reasons /\ LogTells(log)
  BY <1>1, <1>2, LogIs DEF RestOK, IInv
<1> HIDE DEF f
<1>8. QED  BY <1>1, <1>4, <1>5, <1>6, <1>7, StartedKeeps

(* The key that a chat is accepted with.                                   *)
SetKey(m, c, k) == [m EXCEPT !.key[c] = k]

LEMMA SetKeyIs ==
  ASSUME NEW m \in Memory, NEW c \in Chats, NEW k
  PROVE  SetKey(m, c, k) = Put(m, c, m.state[c], k, m.g_key)
<1> DEFINE x == m.state
           y == m.key
           z == m.g_key
           b == m.encr_prime
<1>1. m = [state |-> x, key |-> y, g_key |-> z, encr_prime |-> b]
  BY MemoryIs
<1>2. [x EXCEPT ![c] = x[c]] = x
  <2>1. x \in [Chats -> States]
    BY DEF Memory
  <2> HIDE DEF x
  <2>2. QED  BY <2>1
<1>3. \A t, u : Put(m, c, x[c], t, u) = [state |-> [x EXCEPT ![c] = x[c]],
                                          key |-> [y EXCEPT ![c] = t],
                                          g_key |-> u, encr_prime |-> b]
  BY DEF Put
<1> HIDE DEF x, y, z, b
<1>4. SetKey(m, c, k) = [state |-> x, key |-> [y EXCEPT ![c] = k], g_key |-> z, encr_prime |-> b]
  BY <1>1 DEF SetKey
<1>5. SetKey(m, c, k) = Put(m, c, x[c], k, z)
  BY <1>2, <1>3, <1>4
<1>6. QED  BY <1>5 DEF x, z

(* The branches of do_send_accept_encr_chat.                               *)
LEMMA GeneratedKeeps ==
  ASSUME IInv, NEW x \in q, Stored(Primed(mem), FALSE), q' = q \ {x},
         UNCHANGED <<binlog_enabled, updates, srv, agreed, keys, stuck, faults, aborts, hindered,
                     overtaken, torn>>
  PROVE  Keeps
<1> DEFINE c == x.chat
           n == Primed(mem)
<1>1. RestOK /\ UpdatesRight /\ AbortsExplained
  BY RestIs DEF IInv
<1>2. c \in Chats
  BY QueryIs
<1>3. /\ Right(n) /\ n.state = mem.state /\ n.key = mem.key /\ n.g_key = mem.g_key
      /\ n.encr_prime = TRUE /\ ChangesOnly(mem, n, c)
  BY PrimedIs DEF IInv, DiskRight
<1> HIDE DEF c, n
<1>4. DiskRight' /\ OkStep /\ mem' = n
  <2>1. InFileToo(mem, n)
    BY <1>3 DEF InFileToo
  <2>2. ~torn => Owes(n, c, agreed[c], srv[c])
    BY <1>2, <1>3 DEF Owes, IInv, DiskRight, Settled, SettledIn
  <2>3. Stored(n, FALSE) /\ FALSE \in BOOLEAN
    BY DEF n
  <2>4. mem.state[c] = "ok" => n.state[c] = "ok"
    BY <1>3
  <2>5. QED  BY <1>2, <1>3, <2>1, <2>2, <2>3, <2>4, ChangeKeeps
<1>5. ASSUME NEW z \in q' PROVE QueryRight(z)'
  <2>1. z \in q /\ QueryRight(z) /\ \A y \in q' : y.chat = z.chat => y \in q
    BY <1>5, QueryIs
  <2>2. QED  BY <1>3, <1>4, <2>1, QueryStays
<1>6. Onward
  BY DEF Onward
<1>7. UpdatesRight' /\ AbortsExplained'
  BY <1>1, <1>6, UpdatesStay, AbortsStay
<1>8. RestOK'
  BY <1>1 DEF RestOK
<1>9. QED  BY <1>4, <1>5, <1>7, <1>8, KeepsIs DEF QueriesRight

LEMMA AcceptedKeeps ==
  ASSUME IInv, NEW x \in q, x.kind = "dh_accept", mem.key[x.chat] = NoKey,
         x.chat \in mem.g_key, Stored(SetKey(Primed(mem), x.chat, x.key), FALSE),
         q' = (q \ {x}) \cup {[x EXCEPT !.kind = "accept", !.st = "out"]},
         UNCHANGED <<binlog_enabled, updates, srv, agreed, keys, stuck, faults, aborts, hindered,
                     overtaken, torn>>
  PROVE  Keeps
<1> DEFINE c == x.chat
           p == Primed(mem)
           n == SetKey(p, c, x.key)
           y == [x EXCEPT !.kind = "accept", !.st = "out"]
<1>1. RestOK /\ UpdatesRight /\ AbortsExplained
  BY RestIs DEF IInv
<1>2. x \in Queries /\ c \in Chats /\ x.key \in Keys /\ QueryRight(x)
      /\ (c \notin Made => c \in Asked)
  BY QueryIs
<1>3. c \notin Made /\ c \in Asked
  BY <1>2 DEF QueryRight, QueryOfMade
<1>4. y \in Queries /\ y.chat = c /\ y.kind = "accept" /\ y.key = x.key /\ y.st = "out"
  BY <1>2 DEF Queries
<1>5. Right(mem)
  BY DEF IInv, DiskRight
<1>6. mem.state[c] \in {"request", "ok"} /\ mem.key[c] = NoKey
  BY <1>3, <1>5 DEF Right
<1>7. /\ Right(p) /\ p.encr_prime = TRUE /\ p.state = mem.state /\ p.key = mem.key
      /\ p.g_key = mem.g_key /\ ChangesOnly(mem, p, c)
  BY <1>5, PrimedIs
<1>8. /\ Right(n) /\ ChangesOnly(mem, n, c) /\ n.g_key = mem.g_key
      /\ n.state[c] = mem.state[c] /\ n.key[c] = x.key /\ n.state = mem.state
  <2> DEFINE s == p.state[c]
             g == p.g_key
             r == Put(p, c, s, x.key, g)
  <2>1. p \in Memory /\ g \in SUBSET Chats /\ s \in States /\ s \in {"request", "ok"}
        /\ c \in g /\ g \cup {c} = p.g_key \cup {c}
    BY <1>6, <1>7, <1>5 DEF Right, Memory, States
  <2> HIDE DEF p
  <2>2. n = r
    BY <1>2, <2>1, SetKeyIs
  <2>3. /\ Right(r) /\ ChangesOnly(p, r, c) /\ r.state[c] = s /\ r.key[c] = x.key /\ r.g_key = g
    <3> HIDE DEF s, g
    <3>1. QED  BY <1>2, <1>3, <1>7, <2>1, PutRight
  <2>4. r.state = p.state
    <3>1. p.state \in [Chats -> States]
      BY <2>1 DEF Memory
    <3>2. r.state = [p.state EXCEPT ![c] = p.state[c]]
      BY DEF Put
    <3>3. QED  BY <3>1, <3>2
  <2> HIDE DEF r, n
  <2>5. QED  BY <1>7, <2>2, <2>3, <2>4, ChangesThen
<1> HIDE DEF c, p, n, y
<1>9. DiskRight' /\ OkStep /\ mem' = n
  <2>1. torn \/ mem.state[c] = "request"
    BY <1>2, <1>6 DEF Owes, IInv, DiskRight, Settled, SettledIn
  <2>2. torn \/ InFileToo(mem, n)
    BY <1>8, <2>1 DEF InFileToo, ChangesOnly
  <2>3. ~torn => Owes(n, c, agreed[c], srv[c])
    BY <1>8, <2>1 DEF Owes
  <2>4. Stored(n, FALSE) /\ FALSE \in BOOLEAN
    BY DEF n, c, p
  <2>5. QED  BY <1>2, <1>8, <2>2, <2>3, <2>4, ChangeKeeps
<1>10. QueriesRight'
  <2>1. \A z \in q' : z.chat # c => z \in q
    BY <1>4 DEF y
  <2>2. ASSUME NEW z \in q', z.chat = c PROVE QueryRight(z)'
    <3>1. CASE z = y
      <4>1. QueryOfAsked(z)'
        BY <1>4, <1>6, <1>8, <1>9, <3>1 DEF QueryOfAsked
      <4>2. QED  BY <1>3, <1>4, <3>1, <4>1 DEF QueryRight
    <3>2. CASE z # y
      <4>1. z \in q /\ z.key # NoKey /\ QueryOfAsked(z)
        BY <1>3, <2>2, <3>2, QueryIs DEF QueryRight, y
      <4>2. QueryOfAsked(z)'
        BY <1>6, <1>8, <1>9, <2>2, <4>1 DEF QueryOfAsked
      <4>3. QED  BY <1>3, <2>2, <4>2 DEF QueryRight
    <3>3. QED  BY <3>1, <3>2
  <2>3. QED  BY <1>2, <1>8, <1>9, <2>1, <2>2, OthersStay
<1>11. Onward
  BY DEF Onward
<1>12. UpdatesRight' /\ AbortsExplained'
  BY <1>1, <1>11, UpdatesStay, AbortsStay
<1>13. RestOK'
  BY <1>1, <1>4 DEF RestOK, y, c
<1>14. QED  BY <1>9, <1>10, <1>12, <1>13, KeepsIs

(* A null pointer or an assertion ends the process.                        *)
LEMMA AbortKeeps ==
  ASSUME IInv, NEW c \in Chats, NEW why \in Reasons, NEW l, LogTells(l), Aborts(c, why, l),
         (why = "g_key" /\ srv[c] = "discarded") \/ (why = "encr_prime" /\ torn),
         UpdatesRight', UNCHANGED <<binlog_enabled, srv, agreed, keys, faults, overtaken, torn>>
  PROVE  Keeps
<1>1. RestOK /\ AbortsExplained /\ FileOK(file)
  BY RestIs DEF IInv, DiskRight, FilesOK
<1>2. aborts' = aborts \cup {<<c, why>>} /\ Start(l, file)
  BY DEF Aborts
<1>3. AbortsExplained'
  BY <1>1, <1>2, AbortAdded
<1>4. aborts' \subseteq Chats \X Reasons /\ torn' \in BOOLEAN /\ faults' \in 0 .. MaxFaults
  BY <1>1, <1>2 DEF RestOK
<1>5. QED  BY <1>1, <1>2, <1>3, <1>4, StartedKeeps

LEMMA SendAcceptKeeps ==
  ASSUME IInv, NEW x \in q, do_send_accept_encr_chat(x)
  PROVE  Keeps
<1> DEFINE c == x.chat
           l == IF binlog_enabled THEN Primed(mem) ELSE log
<1>1. /\ x.kind = "dh_accept"
      /\ UNCHANGED <<binlog_enabled, updates, srv, agreed, keys, faults>>
  BY DEF do_send_accept_encr_chat, network
<1>2. \/ /\ Stored(Primed(mem), FALSE) /\ q' = q \ {x}
         /\ UNCHANGED <<stuck, aborts, hindered, overtaken, torn>>
      \/ /\ c \notin mem.g_key /\ Aborts(c, "g_key", l) /\ UNCHANGED <<overtaken, torn>>
      \/ /\ mem.key[c] = NoKey /\ c \in mem.g_key
         /\ Stored(SetKey(Primed(mem), c, x.key), FALSE)
         /\ q' = (q \ {x}) \cup {[x EXCEPT !.kind = "accept", !.st = "out"]}
         /\ UNCHANGED <<stuck, aborts, hindered, overtaken, torn>>
  BY DEF do_send_accept_encr_chat, already_generated, seen, Primed, SetKey
<1>3. CASE Stored(Primed(mem), FALSE) /\ q' = q \ {x}
           /\ UNCHANGED <<stuck, aborts, hindered, overtaken, torn>>
  BY <1>1, <1>3, GeneratedKeeps
<1>4. CASE c \notin mem.g_key /\ Aborts(c, "g_key", l) /\ UNCHANGED <<overtaken, torn>>
  <2>1. c \in Chats /\ QueryRight(x) /\ UpdatesRight
    BY QueryIs DEF IInv
  <2>2. srv[c] = "discarded"
    BY <1>1, <1>4, <2>1 DEF QueryRight, QueryOfMade, QueryOfAsked
  <2>3. UpdatesRight'
    BY <1>1, <2>1, UpdatesStay DEF Onward
  <2>4. "g_key" \in Reasons
    BY DEF Reasons
  <2>5. LogTells(l)
    <3>1. Right(mem) /\ LogTells(log)
      BY LogIs DEF IInv, DiskRight
    <3>2. CASE binlog_enabled
      BY <3>1, <3>2, PrimedIs DEF LogTells
    <3>3. CASE ~binlog_enabled
      BY <3>1, <3>3
    <3>4. QED  BY <3>2, <3>3
  <2> HIDE DEF c, l
  <2>6. QED  BY <1>1, <1>4, <2>1, <2>2, <2>3, <2>4, <2>5, AbortKeeps
<1>5. CASE /\ mem.key[c] = NoKey /\ c \in mem.g_key
           /\ Stored(SetKey(Primed(mem), c, x.key), FALSE)
           /\ q' = (q \ {x}) \cup {[x EXCEPT !.kind = "accept", !.st = "out"]}
           /\ UNCHANGED <<stuck, aborts, hindered, overtaken, torn>>
  BY <1>1, <1>5, AcceptedKeeps
<1>6. QED  BY <1>2, <1>3, <1>4, <1>5

(* A step handles what it was told of a chat, and no process ends.         *)
LEMMA ChatHandled ==
  ASSUME IInv, NEW c \in Chats, NEW m, Right(m), ChangesOnly(mem, m, c), NEW w \in BOOLEAN,
         Stored(m, w), w \/ torn \/ InFileToo(mem, m),
         ~torn => Owes(m, c, agreed[c], srv[c]),
         mem.state[c] = "ok" => m.state[c] = "ok" \/ srv[c] = "discarded",
         UNCHANGED <<binlog_enabled, srv, agreed, stuck, faults, aborts, hindered, torn>>,
         UpdatesRight', keys' \in 0 .. MaxKeys, overtaken' \subseteq Chats, q' \subseteq Queries,
         \A x \in q' : x.chat # c => x \in q,
         \A x \in q' : x.chat = c => QueryRight(x)'
  PROVE  Keeps
<1>1. RestOK /\ AbortsExplained
  BY RestIs DEF IInv
<1>2. DiskRight' /\ OkStep /\ mem' = m
  BY ChangeKeeps
<1>3. QueriesRight'
  BY <1>2, OthersStay
<1>4. AbortsExplained'
  BY <1>1, AbortsStay DEF Onward
<1>5. RestOK'
  BY <1>1 DEF RestOK
<1>6. QED  BY <1>2, <1>3, <1>4, <1>5, KeepsIs

(* The branches that write the file.                                       *)
LEMMA WritesIs ==
  ASSUME NEW m, NEW c, NEW kind
  PROVE  /\ writes(m, c, kind) \in BOOLEAN
         /\ m.state[c] # "unknown" /\ kind # "requested" => writes(m, c, kind)
         /\ m.state[c] = "unknown" /\ kind = "requested" => writes(m, c, kind)
BY DEF writes

(* Nothing new in memory.                                                  *)
LEMMA SameIs ==
  ASSUME IInv, NEW c \in Chats
  PROVE  /\ Right(mem) /\ ChangesOnly(mem, mem, c) /\ InFileToo(mem, mem)
         /\ ~torn => Owes(mem, c, agreed[c], srv[c])
BY DEF IInv, DiskRight, Settled, SettledIn, ChangesOnly, InFileToo

(* The answer that makes a chat wait, and the one that makes it ok.        *)
LEMMA RequestAnswerKeeps ==
  ASSUME IInv, NEW x \in q, send_encr_request_on_answer(x)
  PROVE  Keeps
<1> DEFINE c == x.chat
           n == fetch_encrypted_chat(mem, c, "waiting")
           r == Put(mem, c, "waiting", mem.key[c], mem.g_key)
           w == writes(mem, c, "waiting")
<1>1. /\ x.kind = "request" /\ x.st = "back"
      /\ UNCHANGED <<binlog_enabled, updates, srv, agreed, keys, faults>>
      /\ IF n.state[c] = "waiting"
         THEN /\ Stored(n, w) /\ q' = q \ {x}
              /\ UNCHANGED <<stuck, aborts, hindered, overtaken, torn>>
         ELSE Aborts(c, "waiting", log) /\ UNCHANGED <<overtaken, torn>>
  BY DEF send_encr_request_on_answer, fetch_alloc_encrypted_chat, network, seen
<1>2. RestOK /\ UpdatesRight /\ Right(mem)
  BY RestIs DEF IInv, DiskRight
<1>3. c \in Chats /\ x.key \in Keys /\ x.key # NoKey /\ QueryRight(x)
  BY QueryIs
<1>4. c \in Made /\ c \notin Asked /\ QueryOfMade(x)
  BY <1>1, <1>3, ChatsAre DEF QueryRight, QueryOfAsked
<1>5. /\ mem.state[c] = "none" /\ mem.key[c] = x.key /\ mem.encr_prime
      /\ Theirs(x.key) = agreed[c] /\ \A y \in q : y.chat = c => y = x
  BY <1>1, <1>4 DEF QueryOfMade
<1>6. n = r /\ mem \in Memory
  BY <1>2, <1>3, <1>5, FetchIs DEF Right
<1>7. /\ Right(r) /\ ChangesOnly(mem, r, c) /\ r.state[c] = "waiting"
      /\ r.key[c] = mem.key[c] /\ r.encr_prime = mem.encr_prime
  <2> DEFINE g == mem.g_key
             k == mem.key[c]
  <2>1. g \in SUBSET Chats /\ k \in Keys \cup {NoKey} /\ "waiting" \in States
    BY <1>3, <1>6 DEF Memory, States
  <2>2. g \cup {c} = mem.g_key \cup {c}
    OBVIOUS
  <2> HIDE DEF g, k, c
  <2>3. LET t == Put(mem, c, "waiting", k, g)
        IN /\ Right(t) /\ ChangesOnly(mem, t, c) /\ t.state[c] = "waiting"
           /\ t.key[c] = k /\ t.encr_prime = mem.encr_prime
    BY <1>2, <1>3, <1>4, <2>1, <2>2, PutRight
  <2>4. QED  BY <2>3 DEF g, k, c
<1>8. w /\ w \in BOOLEAN
  BY <1>5, WritesIs
<1> HIDE DEF c, n, r, w
<1>9. /\ Stored(r, w) /\ q' = q \ {x}
      /\ UNCHANGED <<stuck, aborts, hindered, overtaken, torn>>
  BY <1>1, <1>6, <1>7
<1>10. Owes(r, c, agreed[c], srv[c])
  BY <1>3, <1>5, <1>7 DEF Owes
<1>11. UpdatesRight'
  BY <1>1, <1>2, UpdatesStay DEF Onward
<1>12. /\ keys' \in 0 .. MaxKeys /\ overtaken' \subseteq Chats /\ q' \subseteq Queries
       /\ \A z \in q' : z.chat # c /\ z \in q
  BY <1>1, <1>2, <1>5, <1>9 DEF RestOK
<1>13. mem.state[c] # "ok"
  BY <1>5
<1>14. QED  BY <1>1, <1>3, <1>7, <1>8, <1>9, <1>10, <1>11, <1>12, <1>13, ChatHandled

LEMMA AcceptAnswerKeeps ==
  ASSUME IInv, NEW x \in q, send_encr_accept_on_answer(x)
  PROVE  Keeps
<1> DEFINE c == x.chat
           n == fetch_encrypted_chat(mem, c, "chat")
           r == Put(mem, c, "ok", mem.key[c], mem.g_key \cup {c})
           w == writes(mem, c, "chat")
<1>1. /\ x.kind = "accept" /\ x.st = "back" /\ Stored(n, w) /\ q' = q \ {x}
      /\ UNCHANGED <<binlog_enabled, updates, srv, agreed, keys, stuck, faults, aborts, hindered,
                     overtaken, torn>>
  BY DEF send_encr_accept_on_answer, fetch_alloc_encrypted_chat, network, seen
<1>2. RestOK /\ UpdatesRight /\ Right(mem) /\ mem \in Memory
  BY RestIs DEF IInv, DiskRight, Right
<1>3. /\ c \in Chats /\ x.key # NoKey /\ QueryRight(x) /\ (c \notin Made => c \in Asked)
  BY QueryIs
<1>4. c \notin Made /\ c \in Asked /\ QueryOfAsked(x)
  BY <1>1, <1>3 DEF QueryRight, QueryOfMade
<1>5. /\ mem.state[c] \in {"request", "ok", "deleted"}
      /\ mem.state[c] = "request" => mem.key[c] = x.key /\ c \in mem.g_key
      /\ Theirs(x.key) = agreed[c] /\ srv[c] \in {"ok", "discarded"}
  BY <1>1, <1>2, <1>3, <1>4 DEF QueryOfAsked, Right
<1>6. n = IF mem.state[c] = "request" THEN r ELSE mem
  BY <1>2, <1>3, <1>5, FetchIs
<1>7. /\ Right(r) /\ ChangesOnly(mem, r, c) /\ r.state[c] = "ok" /\ r.key[c] = mem.key[c]
      /\ r.g_key = mem.g_key \cup {c}
  <2> DEFINE g == mem.g_key \cup {c}
             k == mem.key[c]
  <2>1. /\ g \in SUBSET Chats /\ k \in Keys \cup {NoKey} /\ "ok" \in States
        /\ g \cup {c} = mem.g_key \cup {c} /\ c \in g
    BY <1>2, <1>3 DEF Memory, States
  <2> HIDE DEF g, k, c
  <2>2. LET t == Put(mem, c, "ok", k, g)
        IN /\ Right(t) /\ ChangesOnly(mem, t, c) /\ t.state[c] = "ok"
           /\ t.key[c] = k /\ t.g_key = g
    BY <1>2, <1>3, <1>4, <2>1, PutRight
  <2>3. QED  BY <2>2 DEF g, k, c
<1>8. w /\ w \in BOOLEAN
  BY <1>5, WritesIs
<1> HIDE DEF c, n, r, w
<1>9. UpdatesRight'
  BY <1>1, <1>2, UpdatesStay DEF Onward
<1>10. /\ Right(n) /\ ChangesOnly(mem, n, c)
       /\ n.state[c] = IF mem.state[c] = "request" THEN "ok" ELSE mem.state[c]
       /\ n.key[c] = mem.key[c] /\ (c \in mem.g_key => c \in n.g_key)
  BY <1>3, <1>6, <1>7, SameIs
<1>11. ~torn => Owes(n, c, agreed[c], srv[c])
  <2>1. CASE mem.state[c] = "request"
    BY <1>3, <1>5, <1>10, <2>1 DEF Owes
  <2>2. CASE mem.state[c] # "request"
    BY <1>3, <1>6, <2>2, SameIs
  <2>3. QED  BY <2>1, <2>2
<1>12. mem' = n
  BY <1>1 DEF Stored
<1>13. ASSUME NEW z \in q', z.chat = c PROVE QueryRight(z)'
  <2>1. z \in q /\ QueryOfAsked(z)
    BY <1>1, <1>4, <1>13, QueryIs DEF QueryRight
  <2>2. QueryOfAsked(z)'
    BY <1>1, <1>5, <1>10, <1>12, <1>13, <2>1 DEF QueryOfAsked
  <2>3. QED  BY <1>4, <1>13, <2>2 DEF QueryRight
<1>14. /\ keys' \in 0 .. MaxKeys /\ overtaken' \subseteq Chats /\ q' \subseteq Queries
       /\ \A z \in q' : z \in q
  BY <1>1, <1>2 DEF RestOK
<1>15. mem.state[c] = "ok" => n.state[c] = "ok"
  BY <1>10
<1>16. QED  BY <1>1, <1>3, <1>8, <1>9, <1>10, <1>11, <1>13, <1>14, <1>15, ChatHandled

(* What updateEncryption does with update u, when no process ends.         *)
Handles(u) ==
  LET c == u.chat
      n == fetch_encrypted_chat(mem, c, u.kind)
  IN /\ Stored(n, writes(mem, c, u.kind))
     /\ IF n.state[c] = "request"
        THEN /\ keys < MaxKeys /\ keys' = keys + 1
             /\ q' = q \cup {dh(c, "dh_accept")}
        ELSE UNCHANGED <<keys, q>>
     /\ overtaken' = IF mem.state[c] = "none" THEN overtaken \cup {c} ELSE overtaken
     /\ UNCHANGED <<binlog_enabled, srv, agreed, stuck, faults, aborts, hindered, torn>>

(* An update that changes nothing.                                         *)
LEMMA NoNewsKeeps ==
  ASSUME IInv, UpdatesRight', NEW c \in Chats, NEW w \in BOOLEAN, Stored(mem, w),
         UNCHANGED <<binlog_enabled, srv, agreed, keys, q, stuck, faults, aborts, hindered, torn>>,
         overtaken' \subseteq Chats
  PROVE  Keeps
<1>1. mem' = mem
  BY DEF Stored
<1>2. ASSUME NEW z \in q' PROVE QueryRight(z)' /\ z \in q
  <2>1. z \in q /\ QueryRight(z) /\ \A y \in q' : y.chat = z.chat => y \in q
    BY <1>2, QueryIs
  <2>2. QED  BY <1>1, <2>1, QueryStays
<1>3. keys' \in 0 .. MaxKeys /\ q' \subseteq Queries
  BY RestIs DEF RestOK, IInv
<1>4. QED  BY <1>2, <1>3, SameIs, ChatHandled

LEMMA RequestedKeeps ==
  ASSUME IInv, NEW u \in Updates, UpdateRight(u, srv), u.kind = "requested", Handles(u),
         UpdatesRight'
  PROVE  Keeps
<1> DEFINE c == u.chat
           n == fetch_encrypted_chat(mem, c, "requested")
           r == Put(mem, c, "request", mem.key[c], mem.g_key \cup {c})
           w == writes(mem, c, "requested")
<1>1. /\ Stored(n, w)
      /\ IF n.state[c] = "request"
         THEN /\ keys < MaxKeys /\ keys' = keys + 1
              /\ q' = q \cup {dh(c, "dh_accept")}
         ELSE UNCHANGED <<keys, q>>
      /\ overtaken' = IF mem.state[c] = "none" THEN overtaken \cup {c} ELSE overtaken
      /\ UNCHANGED <<binlog_enabled, srv, agreed, stuck, faults, aborts, hindered, torn>>
  BY DEF Handles
<1>2. RestOK /\ Right(mem) /\ mem \in Memory
  BY RestIs DEF IInv, DiskRight, Right
<1>3. c \in Chats /\ c \in Asked /\ c \notin Made
  BY ChatsAre DEF Updates, UpdateRight
<1>4. n = IF mem.state[c] = "unknown" THEN r ELSE mem
  BY <1>2, <1>3, FetchIs
<1>5. /\ Right(r) /\ ChangesOnly(mem, r, c) /\ r.state[c] = "request" /\ r.key[c] = mem.key[c]
      /\ r.g_key = mem.g_key \cup {c}
  <2> DEFINE g == mem.g_key \cup {c}
             k == mem.key[c]
  <2>1. /\ g \in SUBSET Chats /\ k \in Keys \cup {NoKey} /\ "request" \in States
        /\ g \cup {c} = mem.g_key \cup {c} /\ c \in g
    BY <1>2, <1>3 DEF Memory, States
  <2> HIDE DEF g, k, c
  <2>2. LET t == Put(mem, c, "request", k, g)
        IN /\ Right(t) /\ ChangesOnly(mem, t, c) /\ t.state[c] = "request"
           /\ t.key[c] = k /\ t.g_key = g
    BY <1>2, <1>3, <2>1, PutRight
  <2>3. QED  BY <2>2 DEF g, k, c
<1>6. w \in BOOLEAN /\ (mem.state[c] = "unknown" => w)
  BY WritesIs
<1>7. overtaken' \subseteq Chats
  BY <1>1, <1>2, <1>3 DEF RestOK
<1> HIDE DEF c, n, r, w
<1>8. CASE n.state[c] # "request"
  <2>1. n = mem
    BY <1>4, <1>5, <1>8
  <2>2. QED  BY <1>1, <1>3, <1>6, <1>7, <1>8, <2>1, NoNewsKeeps
<1>9. CASE n.state[c] = "request"
  <2>1. PICK x : x = dh(c, "dh_accept") /\ q' = q \cup {x}
    BY <1>1, <1>9
  <2>2. x \in Queries /\ x.chat = c /\ x.kind = "dh_accept" /\ x.st = "out"
    BY <1>1, <1>3, <1>9, <2>1, DhIs
  <2>3. /\ Right(n) /\ ChangesOnly(mem, n, c) /\ n.key[c] = mem.key[c]
        /\ c \in n.g_key
    BY <1>2, <1>3, <1>4, <1>5, <1>9, SameIs DEF Right
  <2>4. mem' = n
    BY <1>1 DEF Stored
  <2>5. ASSUME NEW z \in q', z.chat = c PROVE QueryRight(z)'
    <3>1. CASE z = x
      <4>1. QueryOfAsked(z)'
        BY <2>2, <2>3, <2>4, <3>1 DEF QueryOfAsked
      <4>2. QED  BY <1>3, <2>5, <4>1 DEF QueryRight
    <3>2. CASE z # x
      <4>1. z \in q /\ QueryOfAsked(z)
        BY <1>3, <2>1, <2>5, <3>2, QueryIs DEF QueryRight
      <4>2. z.kind = "accept" => n = mem
        BY <1>4, <2>5, <4>1 DEF QueryOfAsked
      <4>3. QueryOfAsked(z)'
        BY <1>1, <2>3, <2>4, <2>5, <4>1, <4>2 DEF QueryOfAsked
      <4>4. QED  BY <1>3, <2>5, <4>3 DEF QueryRight
    <3>3. QED  BY <3>1, <3>2
  <2>6. Owes(n, c, agreed[c], srv[c])
    BY <1>9 DEF Owes
  <2>7. w \/ InFileToo(mem, n)
    BY <1>3, <1>4, <1>6, SameIs
  <2>8. mem.state[c] = "ok" => n.state[c] = "ok"
    BY <1>4
  <2>9. keys' \in 0 .. MaxKeys
    BY <1>1, <1>2, <1>9, ChatsAre DEF RestOK
  <2>10. q' \subseteq Queries /\ \A z \in q' : z.chat # c => z \in q
    BY <1>2, <2>1, <2>2 DEF RestOK
  <2>11. QED  BY <1>1, <1>3, <1>6, <1>7, <2>3, <2>5, <2>6, <2>7, <2>8, <2>9, <2>10, ChatHandled
<1>10. QED  BY <1>8, <1>9

(* The three kinds of an update.                                           *)
LEMMA AcceptedUpdateKeeps ==
  ASSUME IInv, NEW u \in Updates, UpdateRight(u, srv), u.kind = "chat", Handles(u),
         UpdatesRight'
  PROVE  Keeps
<1> DEFINE c == u.chat
           n == fetch_encrypted_chat(mem, c, "chat")
           r == Put(mem, c, "ok", mem.key[c], mem.g_key \cup {c})
           w == writes(mem, c, "chat")
<1>1. /\ Stored(n, w)
      /\ n.state[c] # "request" => UNCHANGED <<keys, q>>
      /\ overtaken' = IF mem.state[c] = "none" THEN overtaken \cup {c} ELSE overtaken
      /\ UNCHANGED <<binlog_enabled, srv, agreed, stuck, faults, aborts, hindered, torn>>
  BY DEF Handles
<1>2. RestOK /\ Right(mem) /\ mem \in Memory
  BY RestIs DEF IInv, DiskRight, Right
<1>3. /\ c \in Chats /\ c \in Made /\ c \notin Asked /\ mem.state[c] # "request"
      /\ srv[c] \in {"ok", "discarded"}
  BY <1>2, ChatsAre DEF Updates, UpdateRight, Right
<1>4. n = IF mem.state[c] = "waiting" THEN r ELSE mem
  BY <1>2, <1>3, FetchIs
<1>5. w \in BOOLEAN /\ (mem.state[c] # "unknown" => w)
  BY WritesIs
<1>6. overtaken' \subseteq Chats
  BY <1>1, <1>2, <1>3 DEF RestOK
<1>7. CASE mem.state[c] # "waiting"
  <2>1. n = mem
    BY <1>4, <1>7
  <2> HIDE DEF c, n, w
  <2>2. UNCHANGED <<keys, q>>
    BY <1>1, <1>3, <2>1
  <2>3. QED  BY <1>1, <1>3, <1>5, <1>6, <2>1, <2>2, NoNewsKeeps
<1>8. CASE mem.state[c] = "waiting"
  <2>1. /\ Right(r) /\ ChangesOnly(mem, r, c) /\ r.state[c] = "ok" /\ r.key[c] = mem.key[c]
    <3> DEFINE g == mem.g_key \cup {c}
               k == mem.key[c]
    <3>1. /\ g \in SUBSET Chats /\ k \in Keys \cup {NoKey} /\ "ok" \in States
          /\ g \cup {c} = mem.g_key \cup {c} /\ c \in g
      BY <1>2, <1>3 DEF Memory, States
    <3> HIDE DEF g, k, c
    <3>2. LET t == Put(mem, c, "ok", k, g)
          IN /\ Right(t) /\ ChangesOnly(mem, t, c) /\ t.state[c] = "ok" /\ t.key[c] = k
      BY <1>2, <1>3, <3>1, PutRight
    <3>3. QED  BY <3>2 DEF g, k, c
  <2>2. n = r
    BY <1>4, <1>8
  <2> HIDE DEF c, n, r, w
  <2>3. Stored(r, w) /\ UNCHANGED <<keys, q>>
    BY <1>1, <2>1, <2>2
  <2>4. ~torn => Owes(r, c, agreed[c], srv[c])
    BY <1>3, <1>8, <2>1 DEF Owes, IInv, DiskRight, Settled, SettledIn
  <2>5. ASSUME NEW z \in q', z.chat = c PROVE QueryRight(z)'
    <3>1. z \in q /\ QueryOfMade(z)
      BY <1>3, <2>3, <2>5, QueryIs DEF QueryRight
    <3>2. QED  BY <1>8, <2>5, <3>1 DEF QueryOfMade
  <2>6. keys' \in 0 .. MaxKeys /\ q' \subseteq Queries /\ q' = q /\ w
    BY <1>2, <1>5, <1>8, <2>3 DEF RestOK
  <2>7. mem.state[c] # "ok"
    BY <1>8
  <2>8. QED  BY <1>1, <1>3, <1>6, <1>5, <2>1, <2>3, <2>4, <2>5, <2>6, <2>7, ChatHandled
<1>9. QED  BY <1>7, <1>8

LEMMA DiscardedKeeps ==
  ASSUME IInv, NEW u \in Updates, UpdateRight(u, srv), u.kind = "discarded", Handles(u),
         UpdatesRight'
  PROVE  Keeps
<1> DEFINE c == u.chat
           n == fetch_encrypted_chat(mem, c, "discarded")
           r == Put(mem, c, "deleted", NoKey, mem.g_key \ {c})
           w == writes(mem, c, "discarded")
           nothing == mem.state[c] \in {"unknown", "none", "deleted"}
<1>1. /\ Stored(n, w)
      /\ n.state[c] # "request" => UNCHANGED <<keys, q>>
      /\ overtaken' = IF mem.state[c] = "none" THEN overtaken \cup {c} ELSE overtaken
      /\ UNCHANGED <<binlog_enabled, srv, agreed, stuck, faults, aborts, hindered, torn>>
  BY DEF Handles
<1>2. RestOK /\ Right(mem) /\ mem \in Memory
  BY RestIs DEF IInv, DiskRight, Right
<1>3. c \in Chats /\ srv[c] = "discarded"
  BY DEF Updates, UpdateRight
<1>4. n = IF nothing THEN mem ELSE r
  BY <1>2, <1>3, FetchIs
<1>5. w \in BOOLEAN /\ (mem.state[c] # "unknown" => w)
  BY WritesIs
<1>6. overtaken' \subseteq Chats
  BY <1>1, <1>2, <1>3 DEF RestOK
<1>7. CASE nothing
  <2>1. n = mem /\ mem.state[c] # "request"
    BY <1>4, <1>7
  <2> HIDE DEF c, n, w
  <2>2. UNCHANGED <<keys, q>>
    BY <1>1, <2>1
  <2>3. QED  BY <1>1, <1>3, <1>5, <1>6, <2>1, <2>2, NoNewsKeeps
<1>8. CASE ~nothing
  <2>1. /\ Right(r) /\ ChangesOnly(mem, r, c) /\ r.state[c] = "deleted"
    <3> DEFINE g == mem.g_key \ {c}
               k == NoKey
    <3>1. /\ g \in SUBSET Chats /\ k \in Keys \cup {NoKey} /\ "deleted" \in States
          /\ g \cup {c} = mem.g_key \cup {c} /\ c \notin g
      BY <1>2, <1>3 DEF Memory, States
    <3> HIDE DEF g, k, c
    <3>2. LET t == Put(mem, c, "deleted", k, g)
          IN Right(t) /\ ChangesOnly(mem, t, c) /\ t.state[c] = "deleted"
      BY <1>2, <1>3, <3>1, PutRight
    <3>3. QED  BY <3>2 DEF g, k, c
  <2>2. n = r /\ mem.state[c] \notin {"unknown", "none"}
    BY <1>4, <1>8
  <2> HIDE DEF c, n, r, w, nothing
  <2>3. Stored(r, w) /\ UNCHANGED <<keys, q>>
    BY <1>1, <2>1, <2>2
  <2>4. Owes(r, c, agreed[c], srv[c])
    BY <2>1 DEF Owes
  <2>5. mem' = r
    BY <2>3 DEF Stored
  <2>6. ASSUME NEW z \in q', z.chat = c PROVE QueryRight(z)'
    <3>1. z \in q /\ QueryRight(z)
      BY <2>3, <2>6, QueryIs
    <3>2. c \notin Made /\ QueryOfAsked(z)
      BY <2>2, <2>6, <3>1 DEF QueryRight, QueryOfMade
    <3>3. QueryOfAsked(z)'
      BY <1>1, <1>3, <2>1, <2>5, <2>6, <3>2 DEF QueryOfAsked
    <3>4. QED  BY <2>6, <3>2, <3>3 DEF QueryRight
  <2>7. keys' \in 0 .. MaxKeys /\ q' \subseteq Queries /\ q' = q /\ w
    BY <1>2, <1>5, <2>2, <2>3 DEF RestOK
  <2>8. QED  BY <1>1, <1>3, <1>6, <1>5, <2>1, <2>3, <2>4, <2>6, <2>7, ChatHandled
<1>9. QED  BY <1>7, <1>8

LEMMA UpdateKeeps ==
  ASSUME IInv, update_encryption
  PROVE  Keeps
<1> DEFINE u == Head(updates)
<1>1. /\ updates # <<>>
      /\ UNCHANGED <<binlog_enabled, srv, agreed, faults>>
      /\ \/ /\ KeysEndFails(u.chat, u.kind) /\ Aborts(u.chat, "encr_prime", log)
            /\ UNCHANGED <<updates, keys, overtaken, torn>>
         \/ updates' = Tail(updates) /\ Handles(u)
  BY DEF update_encryption, fetch_alloc_encrypted_chat, Handles
<1>2. u \in Updates /\ UpdateRight(u, srv)
  BY <1>1, UpdateFirst DEF IInv
<1>3. CASE KeysEndFails(u.chat, u.kind) /\ Aborts(u.chat, "encr_prime", log)
           /\ UNCHANGED <<updates, keys, overtaken, torn>>
  <2>1. u.chat \in Chats
    BY <1>2 DEF Updates
  <2>2. torn
    BY <1>3, <2>1 DEF KeysEndFails, Owes, IInv, DiskRight, Settled, SettledIn
  <2>3. "encr_prime" \in Reasons /\ LogTells(log)
    BY LogIs DEF Reasons, IInv
  <2>4. UpdatesRight'
    BY <1>1, <1>3, UpdatesStay DEF IInv, Onward
  <2> HIDE DEF u
  <2>5. QED  BY <1>1, <1>2, <1>3, <2>1, <2>2, <2>3, <2>4, AbortKeeps
<1>4. CASE updates' = Tail(updates) /\ Handles(u)
  <2>1. u.kind \in {"requested", "chat", "discarded"} /\ UpdatesRight'
    BY <1>1, <1>2, <1>4, UpdateTaken DEF Updates, IInv
  <2> HIDE DEF u
  <2>2. QED  BY <1>2, <1>4, <2>1, RequestedKeeps, AcceptedUpdateKeeps, DiscardedKeeps
<1>5. QED  BY <1>1, <1>3, <1>4

-----------------------------------------------------------------------------
(* All of it. *)

LEMMA InitInv == Init => IInv
<1> SUFFICES ASSUME Init PROVE IInv
  OBVIOUS
<1>1. /\ binlog_enabled \in BOOLEAN /\ mem = Nothing /\ log = Nothing
      /\ file = <<>> /\ file_was = <<>> /\ q = {} /\ updates = <<>>
      /\ srv = [c \in Chats |-> "none"] /\ agreed = [c \in Chats |-> NoKey]
      /\ keys = 0 /\ stuck = FALSE /\ faults = 0
      /\ aborts = {} /\ hindered = {} /\ overtaken = {} /\ torn = FALSE
  BY DEF Init
<1>2. RestOK
  <2>1. /\ srv \in [Chats -> {"none", "waiting", "ok", "discarded"}]
        /\ agreed \in [Chats -> Keys \cup {NoKey}]
    BY <1>1
  <2>2. keys \in 0 .. MaxKeys /\ faults \in 0 .. MaxFaults
    BY <1>1, ChatsAre
  <2>3. QED  BY <1>1, <2>1, <2>2 DEF RestOK
<1>3. UpdatesRight
  BY <1>1, EmptySeq DEF UpdatesRight
<1>4. Right(Nothing) /\ \A c \in Chats : Nothing.state[c] = "unknown"
  BY NothingIsRight DEF Nothing
<1>5. Restored(log, file) = Nothing
  BY <1>1 DEF Restored, read_secret_chat_file
<1> HIDE DEF Init
<1>6. KeptOnDisk
  <2>1. KeptIn(Nothing, Nothing)
    BY <1>4, KeptIsKept
  <2>2. QED  BY <1>1, <1>5, <2>1, KeptIs
<1>7. Settled
  BY <1>1, <1>4, <1>5 DEF Settled, SettledIn, Owes
<1>8. FilesOK
  BY <1>1, EmptySeq DEF FilesOK, FileOK
<1>9. DiskRight
  BY <1>1, <1>4, <1>6, <1>7, <1>8 DEF DiskRight, LogIsMemory
<1>10. TypeOK
  <2>1. Range(updates) \subseteq Updates
    BY <1>3, RangeIs DEF UpdatesRight
  <2>2. {mem, log} \subseteq Memory
    BY <1>1, <1>4 DEF Right
  <2>3. QED  BY <1>2, <2>1, <2>2 DEF RestOK, TypeOK
<1>11. QueriesRight /\ AbortsExplained
  BY <1>1 DEF QueriesRight, AbortsExplained
<1>12. QED  BY <1>3, <1>9, <1>10, <1>11 DEF IInv

(* Every step, and the step that changes nothing.                          *)
LEMMA NextKeeps ==
  ASSUME IInv, Next
  PROVE  Keeps
<1>1. CASE Progress
  <2>1. CASE \E x \in q : Answer(x) \/ carry_out(x)
    <3>1. PICK x \in q : Answer(x) \/ carry_out(x)
      BY <2>1
    <3>2. QED
      BY <3>1, CarryOutKeeps, SendCreateKeeps, SendAcceptKeeps, RequestAnswerKeeps,
         AcceptAnswerKeeps DEF Answer
  <2>2. CASE update_encryption
    BY <2>2, UpdateKeeps
  <2>3. QED  BY <1>1, <2>1, <2>2 DEF Progress
<1>2. ASSUME NEW c \in Chats,
             \/ do_create_encr_chat_request(c) \/ asks(c) \/ accepts(c)
             \/ discards(c) \/ told_again(c)
      PROVE  Keeps
  BY <1>2, CreateRequestKeeps, AsksKeeps, AcceptsKeeps, DiscardsKeeps, ToldAgainKeeps
<1>3. ASSUME NEW x \in q, refused(x) PROVE Keeps
  BY <1>3, RefusedKeeps
<1>4. CASE crash
  BY <1>4, CrashKeeps
<1>5. ASSUME NEW n \in 1 .. Pieces, crash_in_write(n) PROVE Keeps
  BY <1>5, CrashInWriteKeeps
<1>6. QED  BY <1>1, <1>2, <1>3, <1>4, <1>5 DEF Next

LEMMA NothingKeeps ==
  ASSUME IInv, UNCHANGED vars
  PROVE  Keeps
<1>1. UNCHANGED <<binlog_enabled, mem, log, file, file_was, q, updates, srv, agreed,
                  keys, stuck, faults, aborts, hindered, overtaken, torn>>
  BY DEF vars
<1>2. RestOK' /\ AbortsExplained'
  BY <1>1, RestIs DEF IInv, RestOK, AbortsExplained
<1>3. UpdatesRight'
  BY <1>1 DEF IInv, UpdatesRight
<1>4. DiskRight'
  <2>1. FilesOK' /\ LogIsMemory' /\ Right(mem)' /\ Right(log)'
    BY <1>1 DEF IInv, DiskRight, FilesOK, LogIsMemory
  <2>2. Restored(log, file)' = Restored(log, file)
    BY <1>1 DEF Restored
  <2>3. KeptOnDisk'
    BY <1>1, <2>2 DEF IInv, DiskRight, KeptOnDisk
  <2>4. Settled'
    BY <1>1, <2>2 DEF IInv, DiskRight, Settled, SettledIn
  <2>5. QED  BY <2>1, <2>3, <2>4 DEF DiskRight
<1>5. QueriesRight'
  <2>1. q' \subseteq q
    BY <1>1
  <2>2. QED  BY <1>1, <2>1, QueriesFewer
<1>6. OkStep
  BY <1>1 DEF OkStep
<1>7. QED  BY <1>2, <1>3, <1>4, <1>5, <1>6, KeepsIs

LEMMA StepInv == IInv /\ [Next]_vars => IInv' /\ OkStep
BY NextKeeps, NothingKeeps DEF Keeps

(* The invariant holds.                                                    *)
LEMMA InvHolds == Spec => []IInv
<1>1. Init => IInv
  BY InitInv
<1>2. IInv /\ [Next]_vars => IInv'
  BY StepInv
<1>3. QED  BY <1>1, <1>2, PTL DEF Spec

-----------------------------------------------------------------------------
(* However requests, answers, updates, refusals, discards and crashes fall,*)
(* a chat that is ok has the key that the other party made in the same     *)
(* attempt, and the server has it as accepted, unless a process ended      *)
(* within write_secret_chat_file.  The two keys can differ for a short     *)
(* number only, of which BN_bn2bin makes other 256 bytes                   *)
(* (do_send_accept_encr_chat, do_create_keys_end).                         *)
THEOREM OkKeysAlwaysAgree == Spec => []OkKeysAgree
<1>1. IInv => OkKeysAgree
  <2>1. SUFFICES ASSUME IInv, NEW c \in Chats, mem.state[c] = "ok", ~torn
                 PROVE  /\ mem.key[c].id = agreed[c].id /\ srv[c] \in {"ok", "discarded"}
                        /\ mem.key[c] # agreed[c] => mem.key[c].shape = "short"
    BY DEF OkKeysAgree
  <2>2. /\ Theirs(mem.key[c]) = agreed[c] /\ mem.key[c] # NoKey
        /\ srv[c] \in {"ok", "discarded"}
    BY <2>1 DEF IInv, DiskRight, Settled, SettledIn, Owes
  <2>3. mem.key[c] \in Keys
    BY <2>1, <2>2 DEF IInv, DiskRight, Right, Memory
  <2>4. \A k \in Keys : Theirs(k).id = k.id /\ (Theirs(k) # k => k.shape = "short")
    <3>1. TAKE k \in Keys
    <3>2. k = [id |-> k.id, shape |-> k.shape] /\ k.shape \in {"full", "short"}
      BY ChatsAre DEF Keys
    <3>3. QED  BY <3>2 DEF Theirs
  <2>5. QED  BY <2>2, <2>3, <2>4
<1>2. QED  BY <1>1, InvHolds, PTL

(* What read_secret_chat_file or the log would give a new process is what  *)
(* there is in memory, every chat in its state and with its key; and no    *)
(* answer finds its chat without the g_key or the encr_prime that it needs,*)
(* but for a discarded chat or a torn file.                                *)
THEOREM ChatsAlwaysKept == Spec => []ChatsKept
<1>1. IInv => ChatsKept
  BY DEF IInv, DiskRight, ChatsKept
<1>2. QED  BY <1>1, InvHolds, PTL

(* No update, late answer or crash takes a chat from sc_ok, unless it was  *)
(* discarded or the file was torn: updateEncryption leaves an ok chat      *)
(* alone, and a start reads it back.                                       *)
THEOREM OkAlwaysStays == Spec => OkStays
<1>1. IInv /\ [Next]_vars =>
        [\A c \in Chats : mem.state[c] = "ok" =>
           mem'.state[c] = "ok" \/ srv[c] = "discarded" \/ torn']_vars
  BY StepInv DEF OkStep
<1>2. QED  BY <1>1, InvHolds, PTL DEF Spec, OkStays

=============================================================================
