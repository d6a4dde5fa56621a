--------------------------- MODULE UpdatesProofs ---------------------------
(***************************************************************************)
(* Proof of StartMissesOnlyHoles of Updates, for any number of updates,    *)
(* slices of any length, and any number of crashes and losses.             *)
(*                                                                         *)
(* What a start will find is not inductive.  pts covers an update when the *)
(* update has been taken in or is still to be taken in by the handler that *)
(* runs, and each handler must keep this while its steps are done one by   *)
(* one: IInv says it of the counter in memory, of the counters that the    *)
(* steps to come will set, and of the pts from which a difference has been *)
(* asked for.                                                              *)
(***************************************************************************)
EXTENDS Updates, SequenceTheorems, WellFoundedInduction, TLAPS

(* What has been taken in for good, or is accounted for: with a log, what  *)
(* is in the log and so in memory; without, what has been printed.         *)
Firm == (IF binlog_enabled THEN mem.in ELSE shown) \cup jumped \cup cut
FirmUpTo(p) == \A n \in base + 1 .. p : n \in Firm

(* What the running handler has yet to take in, though pts may cover it.   *)
ToStore(n) == \E s \in ToSet(todo) : s.do = "update" /\ n \in s.ns
ToStoreLate(n) == \E s \in ToSet(todo) : s.do = "update" /\ s.late /\ n \in s.ns
ToPrint(n) == \E s \in ToSet(todo) : s.do = "print" /\ n \in s.ns
ToPrintLate(n) == \E s \in ToSet(todo) : s.do = "print" /\ s.late /\ n \in s.ns
Coming(n) == IF binlog_enabled THEN ToStoreLate(n) ELSE ToPrint(n)

(* The messages of a difference and of an update are stored first of all,  *)
(* and the next difference is asked for last.                              *)
Early(s) == s.do = "update" /\ ~s.late
EarlyFirst(q) == \A j, k \in 1 .. Len(q) : k < j /\ Early(q[j]) => Early(q[k])
AskLast(q) == \A k \in 1 .. Len(q) : q[k].do = "ask" => k = Len(q)

Bounds ==
  /\ 1 <= base /\ base <= server
  /\ \A p \in pushes : p.n <= server
  /\ \A s \in ToSet(todo) : s.do = "fetch_pts" => s.to <= server

LogIsMemory ==
  binlog_enabled => /\ disk.in = mem.in
                    /\ mem.pts = disk.pts \/ (disk.pts = 0 /\ mem.pts = 1)

MemoryCovered == \A n \in base + 1 .. mem.pts : n \in Firm \/ Coming(n)

DiskCovered ==
  ~binlog_enabled => \A n \in base + 1 .. disk.pts : n \in Firm \/ ToPrintLate(n)

(* What the steps that set pts will cover.                                 *)
SetCovered(s) ==
  \A n \in base + 1 .. s.to :
    \/ n \in Firm \/ Coming(n) \/ (binlog_enabled /\ ToStore(n))
    \/ s.do = "fetch_pts" /\ n < s.to

StepsCovered ==
  \A s \in ToSet(todo) :
    /\ s.do \in {"pts", "fetch_pts"} => SetCovered(s)
    /\ s.do = "save" => \A t \in ToSet(todo) : t.do = "print" => t.late

QueriesCovered ==
  /\ \A q \in asked : q.op = "get_difference" => FirmUpTo(q.pts)
  /\ \A a \in answers : /\ a.op = "get_difference" => FirmUpTo(a.from)
                        /\ a.op = "get_state" => a.to <= base

InOrder == EarlyFirst(todo) /\ AskLast(todo)

IInv ==
  /\ TypeOK /\ Bounds /\ InOrder /\ LogIsMemory /\ MemoryCovered /\ DiskCovered
  /\ StepsCovered /\ QueriesCovered

-----------------------------------------------------------------------------
(* Sequences. *)

(* Induction, from the library's theorem that < is well founded on Nat.     *)
LEMMA LeastNumber ==
  ASSUME NEW T \in SUBSET Nat, T # {}
  PROVE  \E m \in T : \A k \in T : m <= k
<1> DEFINE R == OpToRel(<, Nat)
<1>1. IsWellFoundedOn(R, Nat)
  BY NatLessThanWellFounded
<1>2. PICK m \in T : \A k \in T : <<k, m>> \notin R
  <2> HIDE DEF R
  <2>1. QED  BY <1>1, WFMin
<1>3. \A k \in T : m <= k
  <2>1. R = {ss \in Nat \X Nat : ss[1] < ss[2]}
    BY DEF OpToRel
  <2> HIDE DEF R
  <2>2. TAKE k \in T
  <2>3. ~ (k < m)
    BY <1>2, <2>1
  <2>4. QED  BY <2>3
<1>4. QED  BY <1>3

LEMMA Induction ==
  ASSUME NEW T, 0 \in T, \A n \in Nat : n \in T => n + 1 \in T
  PROVE  Nat \subseteq T
<1>1. SUFFICES ASSUME Nat \ T # {} PROVE FALSE
  OBVIOUS
<1>2. PICK m \in Nat \ T : \A k \in Nat \ T : m <= k
  BY <1>1, LeastNumber
<1>3. m - 1 \in Nat
  BY <1>2
<1>4. m - 1 \in T
  BY <1>2, <1>3
<1>5. QED  BY <1>2, <1>3, <1>4

(* FlattenSeq is a recursive function: it has the values that its equation *)
(* gives.                                                                  *)
LEMMA FlattenStep ==
  ASSUME NEW S, NEW N \in Nat \ {0}, NEW s \in [1 .. N -> Seq(S)]
  PROVE  \E f : /\ f = [i \in 1 .. N |-> IF i = 1 THEN s[i] ELSE f[i - 1] \o s[i]]
                /\ FlattenSeq(s) = f[N]
<1> DEFINE Fits(f, n) == f = [i \in 1 .. n |-> IF i = 1 THEN s[i] ELSE f[i - 1] \o s[i]]
           T == {n \in Nat : \E f : Fits(f, n)}
<1>1. 0 \in T
  <2>1. Fits([i \in 1 .. 0 |-> 0], 0)
    OBVIOUS
  <2>2. QED BY <2>1
<1>2. ASSUME NEW n \in Nat, n \in T PROVE n + 1 \in T
  <2>1. PICK f : Fits(f, n)
    BY <1>2
  <2> DEFINE g == [i \in 1 .. n + 1 |-> IF i \in 1 .. n THEN f[i] 
                     ELSE IF i = 1 THEN s[i] ELSE f[i - 1] \o s[i]]
  <2>2. ASSUME NEW i \in 1 .. n + 1 
        PROVE g[i] = IF i = 1 THEN s[i] ELSE g[i - 1] \o s[i]
    <3>1. CASE i \in 1 .. n
      <4>1. g[i] = f[i]
        BY <3>1
      <4>2. f[i] = IF i = 1 THEN s[i] ELSE f[i - 1] \o s[i]
        BY <2>1, <3>1
      <4>3. i # 1 => g[i - 1] = f[i - 1]
        BY <3>1
      <4> HIDE DEF g
      <4>4. QED  BY <4>1, <4>2, <4>3
    <3>2. CASE i = n + 1
      <4>1. g[i] = IF i = 1 THEN s[i] ELSE f[i - 1] \o s[i]
        BY <3>2
      <4>2. i # 1 => g[i - 1] = f[i - 1]
        BY <3>2
      <4> HIDE DEF g
      <4>3. QED  BY <4>1, <4>2
    <3>3. QED  BY <3>1, <3>2
  <2>3. Fits(g, n + 1)
    BY <2>2
  <2>4. \E h : Fits(h, n + 1)
    <3> HIDE DEF g, Fits
    <3>1. QED  BY <2>3
  <2>5. n + 1 \in Nat
    OBVIOUS
  <2> HIDE DEF Fits
  <2>6. QED  BY <2>4, <2>5
<1>3. N \in T
  <2> HIDE DEF T
  <2>1. QED BY <1>1, <1>2, Induction
<1>4. PICK f : Fits(f, N)
  BY <1>3
<1> DEFINE c == CHOOSE f1 : Fits(f1, N)
<1>5. Fits(c, N)
  BY <1>4
<1>6. Len(s) = N /\ N # 0
  BY LenProperties
<1>7. FlattenSeq(s) = c[N]
  BY <1>6 DEF FlattenSeq
<1> HIDE DEF c
<1>8. QED  BY <1>5, <1>7

(* The elements of a sequence.                                             *)
LEMMA ToSetIs ==
  ASSUME NEW S, NEW q \in Seq(S)
  PROVE  /\ ToSet(q) = {q[k] : k \in 1 .. Len(q)}
         /\ ToSet(q) \subseteq S
<1>1. DOMAIN q = 1 .. Len(q) /\ q \in [1 .. Len(q) -> S]
  BY LenProperties
<1>2. ToSet(q) = {q[k] : k \in 1 .. Len(q)}
  BY <1>1 DEF ToSet
<1>3. QED  BY <1>1, <1>2

LEMMA ToSetOfConcat ==
  ASSUME NEW S, NEW p \in Seq(S), NEW q \in Seq(S)
  PROVE  ToSet(p \o q) = ToSet(p) \cup ToSet(q)
<1>1. /\ Len(p \o q) = Len(p) + Len(q)
      /\ \A i \in 1 .. Len(p) + Len(q) :
           (p \o q)[i] = IF i <= Len(p) THEN p[i] ELSE q[i - Len(p)]
  BY ConcatProperties
<1>2. Len(p) \in Nat /\ Len(q) \in Nat
  BY LenProperties
<1> DEFINE pq == p \o q
<1>E. /\ ToSet(p) = {p[k] : k \in 1 .. Len(p)}
      /\ ToSet(q) = {q[k] : k \in 1 .. Len(q)}
      /\ ToSet(pq) = {pq[k] : k \in 1 .. Len(pq)}
  BY ConcatProperties, ToSetIs
<1> HIDE DEF pq
<1>3. ASSUME NEW i \in 1 .. Len(p) PROVE p[i] \in ToSet(pq)
  <2>1. i \in 1 .. Len(pq) /\ pq[i] = p[i]
    BY <1>1, <1>2 DEF pq
  <2>2. QED  BY <2>1, <1>E
<1>4. ASSUME NEW i \in 1 .. Len(q) PROVE q[i] \in ToSet(pq)
  <2>1. Len(p) + i \in 1 .. Len(pq) /\ pq[Len(p) + i] = q[i]
    BY <1>1, <1>2 DEF pq
  <2>2. QED  BY <2>1, <1>E
<1>5. ASSUME NEW i \in 1 .. Len(pq) PROVE pq[i] \in ToSet(p) \cup ToSet(q)
  <2>1. CASE i <= Len(p)
    <3>1. i \in 1 .. Len(p) /\ pq[i] = p[i]
      BY <1>1, <1>2, <2>1 DEF pq
    <3>2. QED  BY <3>1, <1>E
  <2>2. CASE ~(i <= Len(p))
    <3>1. i - Len(p) \in 1 .. Len(q) /\ pq[i] = q[i - Len(p)]
      BY <1>1, <1>2, <2>2 DEF pq
    <3>2. QED  BY <3>1, <1>E
  <2>3. QED  BY <2>1, <2>2
<1>6. ToSet(pq) = ToSet(p) \cup ToSet(q)
  BY <1>3, <1>4, <1>5, <1>E
<1>7. QED  BY <1>6 DEF pq

LEMMA Flattened ==
  ASSUME NEW S, NEW N \in Nat, NEW s \in [1 .. N -> Seq(S)]
  PROVE  /\ FlattenSeq(s) \in Seq(S)
         /\ ToSet(FlattenSeq(s)) = UNION {ToSet(s[i]) : i \in 1 .. N}
<1>1. CASE N = 0
  <2>1. s \in Seq(Seq(S)) /\ Len(s) = 0
    BY <1>1
  <2>2. s = <<>>
    BY <2>1, EmptySeq
  <2>3. FlattenSeq(s) = <<>>
    BY <2>1, <2>2 DEF FlattenSeq
  <2>4. QED  BY <1>1, <2>3, EmptySeq DEF ToSet
<1>2. CASE N # 0
  <2>1. N \in Nat \ {0}
    BY <1>2
  <2>2. PICK f : /\ f = [i \in 1 .. N |-> IF i = 1 THEN s[i] ELSE f[i - 1] \o s[i]]
                 /\ FlattenSeq(s) = f[N]
    BY <2>1, FlattenStep
  <2> DEFINE U(i) == UNION {ToSet(s[j]) : j \in 1 .. i}
             Good(i) == f[i] \in Seq(S) /\ ToSet(f[i]) = U(i)
             T == {n \in Nat : n \in 1 .. N => Good(n)}
  <2>3. 0 \in T
    OBVIOUS
  <2>4. ASSUME NEW n \in Nat, n \in T PROVE n + 1 \in T
    <3>1. SUFFICES ASSUME n + 1 \in 1 .. N PROVE Good(n + 1)
      BY DEF T
    <3>2. CASE n = 0
      <4>1. f[1] = s[1] /\ s[1] \in Seq(S)
        BY <2>1, <2>2
      <4>2. U(1) = ToSet(s[1])
        <5>1. 1 .. 1 = {1}
          OBVIOUS
        <5>2. QED  BY <5>1, Zenon
      <4> HIDE DEF U
      <4>3. QED  BY <3>2, <4>1, <4>2
    <3>3. CASE n # 0
      <4>1. n \in 1 .. N /\ Good(n)
        BY <2>4, <3>1, <3>3
      <4>2. f[n + 1] = f[n] \o s[n + 1] /\ s[n + 1] \in Seq(S)
        <5>1. n + 1 # 1 /\ (n + 1) - 1 = n
          BY <3>3
        <5>2. QED  BY <2>2, <3>1, <5>1
      <4>3. f[n + 1] \in Seq(S)
        BY <4>1, <4>2, ConcatProperties
      <4>4. ToSet(f[n + 1]) = ToSet(f[n]) \cup ToSet(s[n + 1])
        BY <4>1, <4>2, ToSetOfConcat
      <4>5. U(n + 1) = U(n) \cup ToSet(s[n + 1])
        <5>1. 1 .. n + 1 = (1 .. n) \cup {n + 1}
          OBVIOUS
        <5>2. QED  BY <5>1, Zenon
      <4> HIDE DEF U
      <4>6. QED  BY <4>1, <4>3, <4>4, <4>5
    <3>4. QED  BY <3>2, <3>3
  <2>5. N \in T
    <3> HIDE DEF T
    <3>1. QED  BY <2>3, <2>4, Induction
  <2>6. Good(N)
    BY <2>1, <2>5
  <2> HIDE DEF Good
  <2>7. QED  BY <2>2, <2>6 DEF Good
<1>3. QED  BY <1>1, <1>2
-----------------------------------------------------------------------------
(* The steps of the handlers. *)

LEMMA Constants ==
  /\ Slice \in Nat \ {0} /\ Before \in Nat \ {0} /\ MaxUpdates \in Nat \ {0}
  /\ Before <= MaxUpdates /\ MaxCrashes \in Nat /\ MaxLosses \in Nat
  /\ 1 \in Numbers /\ Before \in Counter /\ 1 \in Counter /\ 0 \in Counter
BY UpdatesAssumption DEF Numbers, Counter

LEMMA CounterIsNat == \A x \in Counter : x \in Nat /\ x <= MaxUpdates
BY Constants DEF Counter

LEMMA Narrower ==
  ASSUME NEW b \in Nat, NEW c \in Nat, b <= c, NEW p \in Nat
  PROVE  \A n \in c + 1 .. p : n \in b + 1 .. p /\ n \in Nat
OBVIOUS

LEMMA StepFields ==
  ASSUME NEW s \in Step
  PROVE  /\ s.do \in {"fetch_pts", "pts", "seq", "update", "print", "save", "ask"}
         /\ s.do \in {"fetch_pts", "pts", "seq"} => s.to \in Counter
         /\ s.do \in {"update", "print"} => s.ns \in SUBSET Numbers /\ s.late \in BOOLEAN
BY DEF Step

LEMMA IndexOf ==
  ASSUME NEW q \in Seq(Step)
  PROVE  /\ \A k \in 1 .. Len(q) : q[k] \in ToSet(q)
         /\ \A s \in ToSet(q) : \E k \in 1 .. Len(q) : s = q[k]
BY ToSetIs

LEMMA AllEarly ==
  ASSUME NEW q \in Seq(Step), \A s \in ToSet(q) : Early(s) PROVE EarlyFirst(q)
BY IndexOf DEF EarlyFirst

LEMMA NoneEarly ==
  ASSUME NEW q \in Seq(Step), \A s \in ToSet(q) : ~Early(s) PROVE EarlyFirst(q)
BY IndexOf DEF EarlyFirst

LEMMA NoAsk ==
  ASSUME NEW q \in Seq(Step), \A s \in ToSet(q) : s.do # "ask" PROVE AskLast(q)
BY IndexOf DEF AskLast

LEMMA EarlyThenNot ==
  ASSUME NEW p \in Seq(Step), NEW q \in Seq(Step), EarlyFirst(p),
         \A s \in ToSet(q) : ~Early(s)
  PROVE  EarlyFirst(p \o q)
<1>1. /\ Len(p \o q) = Len(p) + Len(q)
      /\ \A i \in 1 .. Len(p) + Len(q) :
           (p \o q)[i] = IF i <= Len(p) THEN p[i] ELSE q[i - Len(p)]
  BY ConcatProperties
<1>2. Len(p) \in Nat /\ Len(q) \in Nat
  BY LenProperties
<1>3. SUFFICES ASSUME NEW j \in 1 .. Len(p) + Len(q), NEW k \in 1 .. Len(p) + Len(q),
                      k < j, Early((p \o q)[j])
               PROVE  Early((p \o q)[k])
  BY <1>1 DEF EarlyFirst
<1>4. j <= Len(p)
  <2>1. SUFFICES ASSUME ~(j <= Len(p)) PROVE FALSE
    OBVIOUS
  <2>2. j - Len(p) \in 1 .. Len(q) /\ (p \o q)[j] = q[j - Len(p)]
    BY <1>1, <1>2, <2>1
  <2>3. QED  BY <1>3, <2>2, IndexOf
<1>5. /\ j \in 1 .. Len(p) /\ k \in 1 .. Len(p)
      /\ (p \o q)[j] = p[j] /\ (p \o q)[k] = p[k]
  BY <1>1, <1>2, <1>3, <1>4
<1>6. QED  BY <1>3, <1>5 DEF EarlyFirst

LEMMA AskAtEnd ==
  ASSUME NEW p \in Seq(Step), \A s \in ToSet(p) : s.do # "ask",
         NEW q \in Seq(Step), AskLast(q)
  PROVE  AskLast(p \o q)
<1>1. /\ Len(p \o q) = Len(p) + Len(q)
      /\ \A i \in 1 .. Len(p) + Len(q) :
           (p \o q)[i] = IF i <= Len(p) THEN p[i] ELSE q[i - Len(p)]
  BY ConcatProperties
<1>2. Len(p) \in Nat /\ Len(q) \in Nat
  BY LenProperties
<1>3. SUFFICES ASSUME NEW k \in 1 .. Len(p) + Len(q), (p \o q)[k].do = "ask"
               PROVE  k = Len(p) + Len(q)
  BY <1>1 DEF AskLast
<1>4. ~(k <= Len(p))
  <2>1. SUFFICES ASSUME k <= Len(p) PROVE FALSE
    OBVIOUS
  <2>2. k \in 1 .. Len(p) /\ (p \o q)[k] = p[k]
    BY <1>1, <1>2, <2>1
  <2>3. QED  BY <1>3, <2>2, IndexOf
<1>5. k - Len(p) \in 1 .. Len(q) /\ (p \o q)[k] = q[k - Len(p)]
  BY <1>1, <1>2, <1>4
<1>6. k - Len(p) = Len(q)
  BY <1>3, <1>5 DEF AskLast
<1>7. QED  BY <1>2, <1>6

LEMMA OneStep ==
  ASSUME NEW s \in Step
  PROVE  <<s>> \in Seq(Step) /\ ToSet(<<s>>) = {s}
<1> DEFINE q == <<s>>
<1>1. q \in Seq(Step) /\ Len(q) = 1 /\ q[1] = s
  OBVIOUS
<1>2. 1 .. 1 = {1}
  OBVIOUS
<1> HIDE DEF q
<1>3. ToSet(q) = {q[k] : k \in 1 .. 1}
  BY <1>1, ToSetIs
<1>4. ToSet(q) = {s}
  BY <1>1, <1>2, <1>3
<1>5. QED  BY <1>1, <1>4 DEF q

LEMMA NoStep == <<>> \in Seq(Step) /\ ToSet(<<>>) = {}
BY DEF ToSet

(* The first step of a handler is done: what is left of it.                *)
LEMMA HeadAndTail ==
  ASSUME NEW q \in Seq(Step), q # <<>>, EarlyFirst(q), AskLast(q)
  PROVE  /\ Head(q) \in Step /\ Tail(q) \in Seq(Step)
         /\ ToSet(q) = {Head(q)} \cup ToSet(Tail(q))
         /\ EarlyFirst(Tail(q)) /\ AskLast(Tail(q))
         /\ ~Early(Head(q)) => \A s \in ToSet(q) : ~Early(s)
         /\ Head(q).do = "ask" => ToSet(Tail(q)) = {}
<1> DEFINE h == Head(q)
           t == Tail(q)
<1>1. /\ h \in Step /\ t \in Seq(Step) /\ Len(t) = Len(q) - 1
      /\ \A i \in 1 .. Len(t) : t[i] = q[i + 1]
  BY HeadTailProperties
<1>2. Len(q) \in Nat \ {0} /\ h = q[1] /\ Len(t) \in Nat
  BY <1>1, EmptySeq, LenProperties
<1>3. ToSet(q) = {h} \cup ToSet(t)
  <2>1. ASSUME NEW s \in ToSet(q) PROVE s \in {h} \cup ToSet(t)
    <3>1. PICK k \in 1 .. Len(q) : s = q[k]
      BY IndexOf
    <3>2. CASE k = 1
      BY <1>2, <3>1, <3>2
    <3>3. CASE k # 1
      <4>1. k - 1 \in 1 .. Len(t) /\ t[k - 1] = q[k]
        BY <1>1, <1>2, <3>3
      <4>2. QED  BY <1>1, <3>1, <4>1, IndexOf
    <3>4. QED  BY <3>2, <3>3
  <2>2. ASSUME NEW s \in ToSet(t) PROVE s \in ToSet(q)
    <3>1. PICK k \in 1 .. Len(t) : s = t[k]
      BY <1>1, IndexOf
    <3>2. k + 1 \in 1 .. Len(q) /\ s = q[k + 1]
      BY <1>1, <1>2, <3>1
    <3>3. QED  BY <3>2, IndexOf
  <2>3. h \in ToSet(q)
    <3>1. 1 \in 1 .. Len(q)
      BY <1>2
    <3>2. QED  BY <1>2, <3>1, IndexOf
  <2>4. QED  BY <2>1, <2>2, <2>3
<1>4. EarlyFirst(t)
  <2>1. SUFFICES ASSUME NEW j \in 1 .. Len(t), NEW k \in 1 .. Len(t), k < j, Early(t[j])
                 PROVE  Early(t[k])
    BY DEF EarlyFirst
  <2>2. /\ j + 1 \in 1 .. Len(q) /\ k + 1 \in 1 .. Len(q) /\ k + 1 < j + 1
        /\ t[j] = q[j + 1] /\ t[k] = q[k + 1]
    BY <1>1, <1>2, <2>1
  <2>3. QED  BY <2>1, <2>2 DEF EarlyFirst
<1>5. AskLast(t)
  <2>1. SUFFICES ASSUME NEW k \in 1 .. Len(t), t[k].do = "ask" PROVE k = Len(t)
    BY DEF AskLast
  <2>2. k + 1 \in 1 .. Len(q) /\ t[k] = q[k + 1]
    BY <1>1, <1>2
  <2>3. k + 1 = Len(q)
    BY <2>1, <2>2 DEF AskLast
  <2> HIDE DEF t
  <2>4. QED  BY <1>1, <1>2, <2>3
<1>6. ASSUME ~Early(h), NEW s \in ToSet(q) PROVE ~Early(s)
  <2>1. PICK k \in 1 .. Len(q) : s = q[k]
    BY IndexOf
  <2>2. k = 1 \/ (1 < k /\ 1 \in 1 .. Len(q))
    BY <1>2
  <2>3. QED  BY <1>2, <1>6, <2>1, <2>2 DEF EarlyFirst
<1>7. ASSUME h.do = "ask" PROVE ToSet(t) = {}
  <2>1. 1 \in 1 .. Len(q)
    BY <1>2
  <2>2. Len(q) = 1
    BY <1>2, <1>7, <2>1 DEF AskLast
  <2>3. Len(t) = 0
    BY <1>1, <2>2
  <2> HIDE DEF t
  <2>4. 1 .. Len(t) = {}
    BY <2>3
  <2>5. QED  BY <1>1, <2>4, IndexOf
<1>8. QED  BY <1>1, <1>3, <1>4, <1>5, <1>6, <1>7

(* The steps that there are.                                               *)
StoreStep(n, late) == [do |-> "update", ns |-> {n}, late |-> late]
FetchStep(p) == [do |-> "fetch_pts", to |-> p]
SaveStep == [do |-> "save"]
AskStep == [do |-> "ask"]

LEMMA StepsAreSteps ==
  /\ \A n \in Numbers, late \in BOOLEAN : StoreStep(n, late) \in Step
  /\ \A ns \in SUBSET Numbers, late \in BOOLEAN : print_message(ns, late) \in Step
  /\ \A p \in Counter : SetPts(p) \in Step /\ SetSeq(p) \in Step /\ FetchStep(p) \in Step
  /\ SaveStep \in Step /\ AskStep \in Step
BY DEF Step, StoreStep, print_message, SetPts, SetSeq, FetchStep, SaveStep, AskStep

(* Which are early, and which ask.                                         *)
LEMMA StepKinds ==
  /\ \A n : Early(StoreStep(n, FALSE)) /\ ~Early(StoreStep(n, TRUE))
  /\ \A n, late : StoreStep(n, late).do = "update" /\ print_message(n, late).do = "print"
  /\ \A p : FetchStep(p).do = "fetch_pts" /\ SetPts(p).do = "pts" /\ SetSeq(p).do = "seq"
  /\ SaveStep.do = "save" /\ AskStep.do = "ask"
BY DEF StoreStep, FetchStep, print_message, SetPts, SetSeq, SaveStep, AskStep, Early

LEMMA Created ==
  ASSUME NEW n \in Numbers, NEW late \in BOOLEAN
  PROVE  /\ Create(n, late) \in Seq(Step)
         /\ ToSet(Create(n, late)) = IF n \in mem.in THEN {} ELSE {StoreStep(n, late)}
BY StepsAreSteps, OneStep, NoStep DEF Create, StoreStep

LEMMA FetchedPts ==
  ASSUME NEW p \in Counter
  PROVE  /\ fetch_pts(p) \in Seq(Step)
         /\ ToSet(fetch_pts(p)) = IF p <= mem.pts THEN {} ELSE {FetchStep(p)}
BY StepsAreSteps, OneStep, NoStep DEF fetch_pts, FetchStep

LEMMA FetchedSeq ==
  ASSUME NEW p \in Counter
  PROVE  fetch_seq(p) \in Seq(Step) /\ ToSet(fetch_seq(p)) \subseteq {SetSeq(p)}
BY StepsAreSteps, OneStep, NoStep DEF fetch_seq

(* Two sequences after each other.                                         *)
LEMMA Then ==
  ASSUME NEW p \in Seq(Step), NEW q \in Seq(Step)
  PROVE  p \o q \in Seq(Step) /\ ToSet(p \o q) = ToSet(p) \cup ToSet(q)
BY ConcatProperties, ToSetOfConcat

LEMMA OfUpdates ==
  ASSUME NEW n \in Numbers
  PROVE  LET q == work_updates(n) IN
         /\ q \in Seq(Step) /\ EarlyFirst(q) /\ AskLast(q)
         /\ ToSet(q) \subseteq {StoreStep(n, FALSE), FetchStep(n),
                                print_message({n}, FALSE), SetSeq(n)}
         /\ print_message({n}, FALSE) \in ToSet(q)
         /\ n \notin mem.in => StoreStep(n, FALSE) \in ToSet(q)
<1> DEFINE c == Create(n, FALSE)
           f == fetch_pts(n)
           p == <<print_message({n}, FALSE)>>
           s == <<SetSeq(n)>>
<1>1. n \in Counter /\ {n} \in SUBSET Numbers
  BY DEF Numbers, Counter
<1>2. /\ c \in Seq(Step) /\ ToSet(c) = IF n \in mem.in THEN {} ELSE {StoreStep(n, FALSE)}
      /\ f \in Seq(Step) /\ ToSet(f) = IF n <= mem.pts THEN {} ELSE {FetchStep(n)}
      /\ p \in Seq(Step) /\ ToSet(p) = {print_message({n}, FALSE)}
      /\ s \in Seq(Step) /\ ToSet(s) = {SetSeq(n)}
  BY <1>1, Created, FetchedPts, OneStep, StepsAreSteps
<1>3. /\ \A x \in ToSet(c) : Early(x) /\ x.do # "ask"
      /\ \A x \in ToSet(f) \cup ToSet(p) \cup ToSet(s) : ~Early(x) /\ x.do # "ask"
  <2> HIDE DEF c, f, p, s
  <2>1. QED  BY <1>2, StepKinds DEF Early
<1>4. work_updates(n) = ((c \o f) \o p) \o s
  BY DEF work_updates, work_update
<1> HIDE DEF c, f, p, s
<1>a. c \o f \in Seq(Step) /\ ToSet(c \o f) = ToSet(c) \cup ToSet(f)
  BY <1>2, Then
<1>b. /\ (c \o f) \o p \in Seq(Step)
      /\ ToSet((c \o f) \o p) = (ToSet(c) \cup ToSet(f)) \cup ToSet(p)
  BY <1>2, <1>a, Then
<1>c. /\ ((c \o f) \o p) \o s \in Seq(Step)
      /\ ToSet(((c \o f) \o p) \o s)
           = ((ToSet(c) \cup ToSet(f)) \cup ToSet(p)) \cup ToSet(s)
  BY <1>2, <1>b, Then
<1>5. /\ c \o f \in Seq(Step) /\ (c \o f) \o p \in Seq(Step)
      /\ ((c \o f) \o p) \o s \in Seq(Step)
      /\ ToSet(((c \o f) \o p) \o s)
           = ((ToSet(c) \cup ToSet(f)) \cup ToSet(p)) \cup ToSet(s)
  BY <1>a, <1>b, <1>c
<1>6. EarlyFirst(c \o f) /\ EarlyFirst((c \o f) \o p) /\ EarlyFirst(((c \o f) \o p) \o s)
  BY <1>2, <1>3, <1>5, AllEarly, EarlyThenNot
<1>7. AskLast(((c \o f) \o p) \o s)
  BY <1>3, <1>5, NoAsk
<1> DEFINE q == work_updates(n)
<1>8. q \in Seq(Step) /\ EarlyFirst(q) /\ AskLast(q)
  BY <1>4, <1>5, <1>6, <1>7
<1>9. ToSet(q) = ((ToSet(c) \cup ToSet(f)) \cup ToSet(p)) \cup ToSet(s)
  BY <1>4, <1>c
<1> HIDE DEF q
<1>10. /\ ToSet(q) \subseteq {StoreStep(n, FALSE), FetchStep(n),
                             print_message({n}, FALSE), SetSeq(n)}
       /\ print_message({n}, FALSE) \in ToSet(q)
       /\ n \notin mem.in => StoreStep(n, FALSE) \in ToSet(q)
  BY <1>2, <1>9
<1>11. QED  BY <1>8, <1>10 DEF q

LEMMA OfShortMessage ==
  ASSUME NEW n \in Numbers
  PROVE  LET q == work_update_short_message(n) IN
         /\ q \in Seq(Step) /\ EarlyFirst(q) /\ AskLast(q)
         /\ ToSet(q) \subseteq {StoreStep(n, TRUE), FetchStep(n),
                                print_message({n}, FALSE), SetSeq(n)}
         /\ print_message({n}, FALSE) \in ToSet(q)
         /\ n \notin mem.in => StoreStep(n, TRUE) \in ToSet(q)
<1> DEFINE c == Create(n, TRUE)
           f == fetch_pts(n)
           p == <<print_message({n}, FALSE)>>
           s == fetch_seq(n)
<1>1. n \in Counter /\ {n} \in SUBSET Numbers
  BY DEF Numbers, Counter
<1>2. /\ c \in Seq(Step) /\ ToSet(c) = IF n \in mem.in THEN {} ELSE {StoreStep(n, TRUE)}
      /\ f \in Seq(Step) /\ ToSet(f) = IF n <= mem.pts THEN {} ELSE {FetchStep(n)}
      /\ p \in Seq(Step) /\ ToSet(p) = {print_message({n}, FALSE)}
      /\ s \in Seq(Step) /\ ToSet(s) \subseteq {SetSeq(n)}
  BY <1>1, Created, FetchedPts, FetchedSeq, OneStep, StepsAreSteps
<1>3. \A x \in ToSet(c) \cup ToSet(f) \cup ToSet(p) \cup ToSet(s) :
        ~Early(x) /\ x.do # "ask"
  <2> HIDE DEF c, f, p, s
  <2>1. QED  BY <1>2, StepKinds DEF Early
<1>4. work_update_short_message(n) = ((f \o s) \o c) \o p
  BY DEF work_update_short_message
<1> HIDE DEF c, f, p, s
<1>a. f \o s \in Seq(Step) /\ ToSet(f \o s) = ToSet(f) \cup ToSet(s)
  BY <1>2, Then
<1>b. /\ (f \o s) \o c \in Seq(Step)
      /\ ToSet((f \o s) \o c) = (ToSet(f) \cup ToSet(s)) \cup ToSet(c)
  BY <1>2, <1>a, Then
<1>5. /\ ((f \o s) \o c) \o p \in Seq(Step)
      /\ ToSet(((f \o s) \o c) \o p)
           = ((ToSet(f) \cup ToSet(s)) \cup ToSet(c)) \cup ToSet(p)
  BY <1>2, <1>b, Then
<1>6. EarlyFirst(((f \o s) \o c) \o p) /\ AskLast(((f \o s) \o c) \o p)
  BY <1>3, <1>5, NoneEarly, NoAsk
<1>7. QED  BY <1>2, <1>4, <1>5, <1>6

LEMMA OfState ==
  ASSUME NEW a \in Answer
  PROVE  LET q == get_state_on_answer(a) IN
         /\ q \in Seq(Step) /\ EarlyFirst(q) /\ AskLast(q)
         /\ ToSet(q) = {SetPts(a.to), SetSeq(a.to), SaveStep}
<1> DEFINE p == <<SetPts(a.to)>>
           s == <<SetSeq(a.to)>>
           v == <<SaveStep>>
<1>1. a.to \in Counter
  BY DEF Answer
<1>2. /\ p \in Seq(Step) /\ ToSet(p) = {SetPts(a.to)}
      /\ s \in Seq(Step) /\ ToSet(s) = {SetSeq(a.to)}
      /\ v \in Seq(Step) /\ ToSet(v) = {SaveStep}
  BY <1>1, OneStep, StepsAreSteps
<1>3. \A x \in ToSet(p) \cup ToSet(s) \cup ToSet(v) : ~Early(x) /\ x.do # "ask"
  BY <1>2, StepKinds DEF Early
<1>4. get_state_on_answer(a) = (p \o s) \o v
  BY DEF get_state_on_answer, SaveStep
<1> HIDE DEF p, s, v
<1>a. p \o s \in Seq(Step) /\ ToSet(p \o s) = ToSet(p) \cup ToSet(s)
  BY <1>2, Then
<1>5. /\ (p \o s) \o v \in Seq(Step)
      /\ ToSet((p \o s) \o v) = (ToSet(p) \cup ToSet(s)) \cup ToSet(v)
  BY <1>2, <1>a, Then
<1>6. EarlyFirst((p \o s) \o v) /\ AskLast((p \o s) \o v)
  BY <1>3, <1>5, NoneEarly, NoAsk
<1>7. QED  BY <1>2, <1>4, <1>5, <1>6

(* The messages of a difference.                                           *)
LEMMA DifferenceStored ==
  ASSUME NEW a \in Answer
  PROVE  LET c == FlattenSeq([i \in 1 .. a.to - a.from |-> Create(a.from + i, FALSE)]) IN
         /\ c \in Seq(Step)
         /\ ToSet(c) = {StoreStep(n, FALSE) : n \in Difference(a) \ mem.in}
<1> DEFINE N == IF a.from < a.to THEN a.to - a.from ELSE 0
           s == [i \in 1 .. a.to - a.from |-> Create(a.from + i, FALSE)]
<1>1. a.from \in Counter /\ a.to \in Counter /\ MaxUpdates \in Nat
  BY Constants DEF Answer
<1>2. N \in Nat /\ 1 .. a.to - a.from = 1 .. N
  BY <1>1 DEF Counter
<1>3. \A i \in 1 .. N : a.from + i \in Numbers /\ a.from + i \in Difference(a)
  BY <1>1 DEF Counter, Numbers, Difference
<1>4. \A n \in Difference(a) : n - a.from \in 1 .. N /\ a.from + (n - a.from) = n
  BY <1>1 DEF Counter, Difference
<1> HIDE DEF N
<1>5. s = [i \in 1 .. N |-> Create(a.from + i, FALSE)]
  BY <1>2
<1>6. s \in [1 .. N -> Seq(Step)]
  BY <1>3, <1>5, Created
<1>7. /\ FlattenSeq(s) \in Seq(Step)
      /\ ToSet(FlattenSeq(s)) = UNION {ToSet(s[i]) : i \in 1 .. N}
  <2> HIDE DEF s
  <2>1. QED  BY <1>2, <1>6, Flattened
<1>8. \A i \in 1 .. N : ToSet(s[i]) = IF a.from + i \in mem.in THEN {}
                                       ELSE {StoreStep(a.from + i, FALSE)}
  BY <1>3, <1>5, Created
<1>9. UNION {ToSet(s[i]) : i \in 1 .. N} = {StoreStep(n, FALSE) : n \in Difference(a) \ mem.in}
  <2> HIDE DEF s
  <2>1. ASSUME NEW x \in UNION {ToSet(s[i]) : i \in 1 .. N}
        PROVE  x \in {StoreStep(n, FALSE) : n \in Difference(a) \ mem.in}
    <3>1. PICK i \in 1 .. N : x \in ToSet(s[i])
      OBVIOUS
    <3>2. QED  BY <1>3, <1>8, <3>1
  <2>2. ASSUME NEW n \in Difference(a) \ mem.in
        PROVE  StoreStep(n, FALSE) \in UNION {ToSet(s[i]) : i \in 1 .. N}
    <3>1. StoreStep(n, FALSE) \in ToSet(s[n - a.from])
      BY <1>4, <1>8
    <3>2. QED  BY <1>4, <3>1
  <2>3. QED  BY <2>1, <2>2
<1>10. QED  BY <1>7, <1>9

LEMMA OfDifference ==
  ASSUME NEW a \in Answer, a.to # a.from
  PROVE  LET q == get_difference_on_answer(a) IN
         /\ q \in Seq(Step) /\ EarlyFirst(q) /\ AskLast(q)
         /\ ToSet(q) \subseteq {StoreStep(n, FALSE) : n \in Difference(a)}
              \cup {SetPts(a.to), SetSeq(a.to), SaveStep,
                    print_message(Difference(a), TRUE), AskStep}
         /\ print_message(Difference(a), TRUE) \in ToSet(q)
         /\ \A n \in Difference(a) \ mem.in : StoreStep(n, FALSE) \in ToSet(q)
<1> DEFINE c == FlattenSeq([i \in 1 .. a.to - a.from |-> Create(a.from + i, FALSE)])
           m == <<SetPts(a.to), SetSeq(a.to), SaveStep, print_message(Difference(a), TRUE)>>
           k == IF a.slice THEN <<AskStep>> ELSE <<>>
<1>1. a.to \in Counter /\ Difference(a) \in SUBSET Numbers
  BY Constants DEF Answer, Difference, Counter, Numbers
<1>2. /\ c \in Seq(Step)
      /\ ToSet(c) = {StoreStep(n, FALSE) : n \in Difference(a) \ mem.in}
  BY DifferenceStored
<1>3. /\ m \in Seq(Step)
      /\ ToSet(m) = {SetPts(a.to), SetSeq(a.to), SaveStep,
                     print_message(Difference(a), TRUE)}
  <2>1. /\ SetPts(a.to) \in Step /\ SetSeq(a.to) \in Step /\ SaveStep \in Step
        /\ print_message(Difference(a), TRUE) \in Step
    BY <1>1, StepsAreSteps
  <2>2. m \in Seq(Step) /\ Len(m) = 4
    <3>1. \A a1, a2, a3, a4 \in Step :
            <<a1, a2, a3, a4>> \in Seq(Step) /\ Len(<<a1, a2, a3, a4>>) = 4
      OBVIOUS
    <3>2. QED  BY <2>1, <3>1
  <2>3. /\ m[1] = SetPts(a.to) /\ m[2] = SetSeq(a.to) /\ m[3] = SaveStep
        /\ m[4] = print_message(Difference(a), TRUE)
    OBVIOUS
  <2> HIDE DEF m
  <2>4. ToSet(m) = {m[i] : i \in 1 .. 4}
    BY <2>2, ToSetIs
  <2>5. 1 .. 4 = {1, 2, 3, 4}
    OBVIOUS
  <2>6. ToSet(m) = {m[1], m[2], m[3], m[4]}
    BY <2>4, <2>5
  <2>7. QED  BY <2>2, <2>3, <2>6
<1>4. k \in Seq(Step) /\ ToSet(k) \subseteq {AskStep}
  BY OneStep, NoStep, StepsAreSteps
<1>5. AskLast(k)
  BY DEF AskLast
<1>6. get_difference_on_answer(a) = (c \o m) \o k
  BY DEF get_difference_on_answer, SaveStep, AskStep
<1> HIDE DEF c, m, k
<1>7. /\ c \o m \in Seq(Step) /\ (c \o m) \o k \in Seq(Step)
      /\ ToSet(c \o m) = ToSet(c) \cup ToSet(m)
      /\ ToSet((c \o m) \o k) = (ToSet(c) \cup ToSet(m)) \cup ToSet(k)
  <2>1. c \o m \in Seq(Step) /\ ToSet(c \o m) = ToSet(c) \cup ToSet(m)
    BY <1>2, <1>3, Then
  <2>2. /\ (c \o m) \o k \in Seq(Step)
        /\ ToSet((c \o m) \o k) = ToSet(c \o m) \cup ToSet(k)
    BY <1>4, <2>1, Then
  <2>3. QED  BY <2>1, <2>2
<1>8. /\ \A x \in ToSet(c) : Early(x) /\ x.do # "ask"
      /\ \A x \in ToSet(m) : ~Early(x) /\ x.do # "ask"
      /\ \A x \in ToSet(k) : ~Early(x)
  BY <1>2, <1>3, <1>4, StepKinds DEF Early
<1>9. EarlyFirst(c \o m) /\ EarlyFirst((c \o m) \o k)
  BY <1>2, <1>3, <1>4, <1>7, <1>8, AllEarly, EarlyThenNot
<1>10. AskLast((c \o m) \o k)
  BY <1>4, <1>5, <1>7, <1>8, AskAtEnd
<1>11. QED  BY <1>2, <1>3, <1>4, <1>6, <1>7, <1>9, <1>10

-----------------------------------------------------------------------------
(* The first state, and the handlers as they begin. *)

LEMMA DifferenceAsked ==
  ASSUME NEW d \in State
  PROVE  LET r == do_get_difference(d) IN
         /\ r.mem \in State /\ r.query \in Query
         /\ r.mem.in = d.in
         /\ r.mem.pts = d.pts \/ (d.pts = 0 /\ r.mem.pts = 1)
         /\ r.query.op = "get_difference" => r.query.pts = r.mem.pts
<1>1. d.pts \in Counter /\ d.seq \in Counter /\ d.in \in SUBSET Numbers
  BY DEF State
<1> DEFINE p == IF d.pts = 0 THEN 1 ELSE d.pts
           e == [d EXCEPT !.pts = p]
<1>2. p \in Numbers /\ p \in Counter
  BY <1>1, Constants DEF Numbers, Counter
<1>3. e \in State /\ e.in = d.in /\ e.pts = p
  <2> HIDE DEF p
  <2>1. QED  BY <1>2 DEF State
<1>4. [op |-> "get_difference", pts |-> p] \in Query /\ [op |-> "get_state", pts |-> 0] \in Query
  <2> HIDE DEF p
  <2>1. QED  BY <1>2 DEF Query
<1>5. CASE d.seq > 0 \/ sync_from_start
  <2>1. do_get_difference(d) = [mem |-> e, query |-> [op |-> "get_difference", pts |-> p]]
    BY <1>5 DEF do_get_difference
  <2>2. p = d.pts \/ (d.pts = 0 /\ p = 1)
    OBVIOUS
  <2> HIDE DEF e, p
  <2>3. QED  BY <1>3, <1>4, <2>1, <2>2
<1>6. CASE ~(d.seq > 0 \/ sync_from_start)
  <2>1. do_get_difference(d) = [mem |-> d, query |-> [op |-> "get_state", pts |-> 0]]
    BY <1>6 DEF do_get_difference
  <2>2. QED  BY <1>4, <2>1
<1>7. QED  BY <1>5, <1>6

LEMMA FirstIInv == ASSUME Init PROVE IInv
<1> DEFINE d == do_get_difference(disk)
<1>1. disk \in State /\ disk.pts = 0 /\ disk.in = {}
  BY Constants DEF Init, State
<1>2. /\ mem = d.mem /\ asked = {d.query} /\ todo = <<>> /\ pushes = {} /\ answers = {}
      /\ server = Before /\ base \in {1, Before} /\ jumped = {} /\ cut = {}
  BY DEF Init
<1>3. /\ mem \in State /\ asked \subseteq Query /\ mem.in = {}
      /\ mem.pts \in {0, 1}
      /\ \A q \in asked : q.op = "get_difference" => q.pts = mem.pts
  <2>1. /\ d.mem \in State /\ d.query \in Query /\ d.mem.in = disk.in
        /\ d.mem.pts = disk.pts \/ (disk.pts = 0 /\ d.mem.pts = 1)
        /\ d.query.op = "get_difference" => d.query.pts = d.mem.pts
    BY <1>1, DifferenceAsked
  <2> HIDE DEF d
  <2>2. QED  BY <1>1, <1>2, <2>1
<1>4. 1 <= base /\ base <= server /\ base \in Counter /\ server \in Counter
  BY <1>2, Constants DEF Counter
<1>5. TypeOK
  BY <1>1, <1>2, <1>3, <1>4, Constants DEF Init, TypeOK, NoCounters, Counters
<1>6. todo \in Seq(Step) /\ ToSet(todo) = {}
  BY <1>2, NoStep
<1>7. Bounds
  BY <1>2, <1>4, <1>6 DEF Bounds
<1>8. InOrder
  BY <1>6, NoneEarly, NoAsk DEF InOrder
<1>9. LogIsMemory
  BY <1>1, <1>3 DEF LogIsMemory
<1>10. /\ \A n \in base + 1 .. mem.pts : FALSE
       /\ \A n \in base + 1 .. disk.pts : FALSE
  BY <1>1, <1>3, <1>4 DEF Counter
<1>11. MemoryCovered /\ DiskCovered
  BY <1>10 DEF MemoryCovered, DiskCovered
<1>12. StepsCovered
  BY <1>6 DEF StepsCovered
<1>13. QueriesCovered
  BY <1>2, <1>3, <1>10 DEF QueriesCovered, FirmUpTo
<1>14. QED  BY <1>5, <1>7, <1>8, <1>9, <1>11, <1>12, <1>13 DEF IInv

(* Without a handler nothing is to come.                                   *)
LEMMA Idle ==
  ASSUME todo = <<>>
  PROVE  \A n : ~Coming(n) /\ ~ToStore(n) /\ ~ToPrintLate(n)
BY NoStep DEF Coming, ToStore, ToStoreLate, ToPrint, ToPrintLate

LEMMA Begins ==
  ASSUME IInv, NEW q \in Seq(Step), Begin(q), EarlyFirst(q), AskLast(q),
         \A s \in ToSet(q) : s.do = "fetch_pts" => s.to <= server,
         pushes' \subseteq pushes, answers' \subseteq answers, asked' = asked,
         StepsCovered'
  PROVE  IInv'
<1>1. /\ todo = <<>> /\ todo' = q /\ base' = base /\ server' = server
      /\ mem' = mem /\ disk' = disk /\ shown' = shown /\ jumped' = jumped /\ cut' = cut
      /\ binlog_enabled' = binlog_enabled /\ sync_from_start' = sync_from_start
      /\ written' = written /\ lost' = lost /\ crashes' = crashes /\ losses' = losses
  BY DEF Begin, options, counts
<1>2. TypeOK'
  BY <1>1 DEF IInv, TypeOK
<1>3. Bounds'
  BY <1>1 DEF IInv, Bounds
<1>4. InOrder' /\ LogIsMemory'
  BY <1>1 DEF InOrder, LogIsMemory, IInv
<1>5. Firm' = Firm
  BY <1>1 DEF Firm
<1>6. MemoryCovered'
  BY <1>1, <1>5, Idle DEF IInv, MemoryCovered
<1>7. DiskCovered'
  BY <1>1, <1>5, Idle DEF IInv, DiskCovered
<1>8. QueriesCovered'
  BY <1>1, <1>5 DEF IInv, QueriesCovered, FirmUpTo
<1>9. QED  BY <1>2, <1>3, <1>4, <1>6, <1>7, <1>8 DEF IInv

LEMMA ProcessUpdate ==
  ASSUME IInv, NEW p \in pushes, process_update(p) PROVE IInv'
<1>1. p \in Push /\ p.n \in Numbers /\ p.n <= server /\ MaxUpdates \in Nat
  BY Constants DEF IInv, TypeOK, Bounds, Push
<1> DEFINE n == p.n
           short == p.form # "updates"
           q == IF p.form = "updates" THEN work_updates(n) ELSE work_update_short_message(n)
<1>2. Begin(q) /\ pushes' \subseteq pushes /\ answers' = answers /\ asked' = asked
  BY DEF process_update
<1>3. /\ q \in Seq(Step) /\ EarlyFirst(q) /\ AskLast(q)
      /\ ToSet(q) \subseteq {StoreStep(n, short), FetchStep(n),
                             print_message({n}, FALSE), SetSeq(n)}
      /\ print_message({n}, FALSE) \in ToSet(q)
      /\ n \notin mem.in => StoreStep(n, short) \in ToSet(q)
  <2>1. CASE short
    BY <1>1, <2>1, OfShortMessage
  <2>2. CASE ~short
    BY <1>1, <2>2, OfUpdates
  <2>3. QED  BY <2>1, <2>2
<1> HIDE DEF q
<1>4. \A s \in ToSet(q) : /\ s.do = "fetch_pts" => s.to = n
                          /\ s.do \notin {"pts", "save"}
  BY <1>3, StepKinds DEF StoreStep, FetchStep, print_message, SetSeq
<1>5. /\ todo' = q /\ base' = base /\ mem' = mem /\ shown' = shown /\ jumped' = jumped
      /\ cut' = cut /\ binlog_enabled' = binlog_enabled
  BY <1>2 DEF Begin, options, counts
<1>6. StepsCovered'
  <2>1. SUFFICES ASSUME NEW s \in ToSet(q), s.do = "fetch_pts", s.to = n
                 PROVE  SetCovered(s)'
    BY <1>4, <1>5 DEF StepsCovered
  <2>2. SUFFICES n \in Firm' \/ Coming(n)' \/ (binlog_enabled' /\ ToStore(n)')
    <3>1. \A m \in base' + 1 .. s.to : m = n \/ m < s.to
      BY <1>1, <1>5, <2>1 DEF Numbers, IInv, TypeOK, Counter
    <3>2. QED  BY <2>1, <2>2, <3>1 DEF SetCovered
  <2>3. CASE ~binlog_enabled
    <3>1. print_message({n}, FALSE).do = "print" /\ n \in print_message({n}, FALSE).ns
      BY DEF print_message
    <3>2. ToPrint(n)'
      BY <1>3, <1>5, <3>1 DEF ToPrint
    <3>3. QED  BY <1>5, <2>3, <3>2 DEF Coming
  <2>4. CASE binlog_enabled /\ n \in mem.in
    BY <1>5, <2>4 DEF Firm
  <2>5. CASE binlog_enabled /\ n \notin mem.in
    <3>1. StoreStep(n, short).do = "update" /\ n \in StoreStep(n, short).ns
      BY DEF StoreStep
    <3>2. ToStore(n)'
      BY <1>3, <1>5, <2>5, <3>1 DEF ToStore
    <3>3. QED  BY <1>5, <2>5, <3>2
  <2>6. QED  BY <2>3, <2>4, <2>5
<1>7. QED  BY <1>1, <1>2, <1>3, <1>4, <1>6, Begins

LEMMA QueryResult ==
  ASSUME IInv, NEW a \in answers, query_result(a) PROVE IInv'
<1>1. a \in Answer /\ a.from \in Counter /\ a.to \in Counter /\ MaxUpdates \in Nat
      /\ base \in Counter
  BY Constants DEF IInv, TypeOK, Answer
<1> DEFINE q == IF a.op = "get_state" THEN get_state_on_answer(a)
                                     ELSE get_difference_on_answer(a)
<1>2. /\ Begin(q) /\ answers' \subseteq answers /\ pushes' = pushes /\ asked' = asked
  BY DEF query_result
<1>3. /\ todo' = q /\ base' = base /\ mem' = mem /\ shown' = shown /\ jumped' = jumped
      /\ cut' = cut /\ binlog_enabled' = binlog_enabled
  BY <1>2 DEF Begin, options, counts
<1>4. CASE a.op = "get_state"
  <2>1. /\ q \in Seq(Step) /\ EarlyFirst(q) /\ AskLast(q)
        /\ ToSet(q) = {SetPts(a.to), SetSeq(a.to), SaveStep}
    BY <1>1, <1>4, OfState
  <2>2. a.to <= base
    BY <1>4 DEF IInv, QueriesCovered
  <2> HIDE DEF q
  <2>3. \A s \in ToSet(q) : /\ s.do \notin {"fetch_pts", "print"}
                            /\ s.do = "pts" => s.to = a.to
    BY <2>1, StepKinds DEF SetPts
  <2>4. \A m \in base + 1 .. a.to : FALSE
    BY <1>1, <2>2 DEF Counter
  <2>5. StepsCovered'
    BY <1>3, <2>3, <2>4 DEF StepsCovered, SetCovered
  <2>6. QED  BY <1>2, <2>1, <2>3, <2>5, Begins
<1>5. CASE a.op # "get_state" /\ a.to = a.from
  <2>1. q = <<SetSeq(a.to)>>
    BY <1>5 DEF get_difference_on_answer
  <2>2. SetSeq(a.to) \in Step
    BY <1>1, StepsAreSteps
  <2> HIDE DEF q
  <2>3. q \in Seq(Step) /\ ToSet(q) = {SetSeq(a.to)}
    BY <2>1, <2>2, OneStep
  <2>4. \A s \in ToSet(q) : s.do = "seq" /\ ~Early(s)
    BY <2>3, StepKinds DEF Early
  <2>5. EarlyFirst(q) /\ AskLast(q)
    BY <2>3, <2>4, NoneEarly, NoAsk
  <2>6. StepsCovered'
    BY <1>3, <2>4 DEF StepsCovered
  <2>7. QED  BY <1>2, <2>3, <2>4, <2>5, <2>6, Begins
<1>6. CASE a.op # "get_state" /\ a.to # a.from
  <2> DEFINE print == print_message(Difference(a), TRUE)
  <2>1. /\ q \in Seq(Step) /\ EarlyFirst(q) /\ AskLast(q)
        /\ ToSet(q) \subseteq {StoreStep(n, FALSE) : n \in Difference(a)}
             \cup {SetPts(a.to), SetSeq(a.to), SaveStep, print, AskStep}
        /\ print \in ToSet(q)
        /\ \A n \in Difference(a) \ mem.in : StoreStep(n, FALSE) \in ToSet(q)
    BY <1>1, <1>6, OfDifference
  <2>2. a.op = "get_difference"
    BY <1>1, <1>6 DEF Answer
  <2>3. FirmUpTo(a.from)
    BY <2>2 DEF IInv, QueriesCovered
  <2> HIDE DEF q
  <2>4. print.do = "print" /\ print.late = TRUE /\ print.ns = Difference(a)
    BY DEF print_message
  <2> HIDE DEF print
  <2>5. \A s \in ToSet(q) : /\ s.do # "fetch_pts"
                            /\ s.do = "pts" => s.to = a.to
                            /\ s.do = "print" => s.late
    <3>1. SUFFICES ASSUME NEW s \in ToSet(q)
                   PROVE  /\ s.do # "fetch_pts" /\ (s.do = "pts" => s.to = a.to)
                          /\ s.do = "print" => s.late
      OBVIOUS
    <3>2. CASE s \in {StoreStep(n, FALSE) : n \in Difference(a)}
      BY <3>2, StepKinds
    <3>3. CASE s \in {SetSeq(a.to), SaveStep, AskStep}
      BY <3>3, StepKinds
    <3>4. CASE s = SetPts(a.to)
      BY <3>4, StepKinds DEF SetPts
    <3>5. CASE s = print
      BY <2>4, <3>5
    <3>6. QED  BY <2>1, <3>2, <3>3, <3>4, <3>5
  <2>6. ASSUME NEW m \in base + 1 .. a.to
        PROVE  m \in Firm' \/ Coming(m)' \/ (binlog_enabled' /\ ToStore(m)')
    <3>1. CASE m <= a.from
      <4>1. m \in Firm
        BY <1>1, <2>3, <3>1 DEF FirmUpTo, Counter
      <4>2. QED  BY <1>3, <4>1 DEF Firm
    <3>2. CASE ~(m <= a.from)
      <4>1. m \in Difference(a)
        BY <1>1, <3>2 DEF Difference, Counter
      <4>2. CASE ~binlog_enabled
        <5>1. ToPrint(m)'
          BY <1>3, <2>1, <2>4, <4>1 DEF ToPrint
        <5>2. QED  BY <1>3, <4>2, <5>1 DEF Coming
      <4>3. CASE binlog_enabled /\ m \in mem.in
        BY <1>3, <4>3 DEF Firm
      <4>4. CASE binlog_enabled /\ m \notin mem.in
        <5>1. StoreStep(m, FALSE).do = "update" /\ m \in StoreStep(m, FALSE).ns
          BY DEF StoreStep
        <5>2. ToStore(m)'
          BY <1>3, <2>1, <4>1, <4>4, <5>1 DEF ToStore
        <5>3. QED  BY <1>3, <4>4, <5>2
      <4>5. QED  BY <4>2, <4>3, <4>4
    <3>3. QED  BY <3>1, <3>2
  <2>7. StepsCovered'
    BY <1>3, <2>5, <2>6 DEF StepsCovered, SetCovered
  <2>8. QED  BY <1>2, <2>1, <2>5, <2>7, Begins
<1>7. QED  BY <1>4, <1>5, <1>6

-----------------------------------------------------------------------------
(* The steps of a handler. *)

(* What is left when the step h is done, if nothing that was taken in is   *)
(* lost and what h was to take in has been taken in.                       *)
LEMMA StepDone ==
  ASSUME IInv, HandlerStep,
         Firm \subseteq Firm', base <= base', base' <= server, base' \in Counter,
         \A n : Coming(n) => Coming(n)' \/ n \in Firm',
         \A n : binlog_enabled /\ ToStore(n) => ToStore(n)' \/ n \in Firm'
  PROVE  /\ Bounds' /\ InOrder' /\ StepsCovered'
         /\ \A p \in Counter : FirmUpTo(p) => FirmUpTo(p)'
         /\ answers' = answers
         /\ \A a \in answers : /\ a.op = "get_difference" => FirmUpTo(a.from)'
                               /\ a.op = "get_state" => a.to <= base'
<1>1. /\ todo \in Seq(Step) /\ todo # <<>> /\ todo' = Tail(todo) /\ server' = server
      /\ pushes' = pushes /\ answers' = answers /\ binlog_enabled' = binlog_enabled
      /\ base \in Counter /\ server \in Counter /\ MaxUpdates \in Nat
      /\ answers \subseteq Answer
  BY Constants DEF HandlerStep, IInv, TypeOK, options
<1>2. ToSet(todo') \subseteq ToSet(todo) /\ EarlyFirst(todo') /\ AskLast(todo')
      /\ todo' \in Seq(Step)
  BY <1>1, HeadAndTail DEF IInv, InOrder
<1>3. Bounds'
  BY <1>1, <1>2 DEF IInv, Bounds, Counter
<1>4. InOrder'
  BY <1>2 DEF InOrder
<1>5. StepsCovered'
  <2>1. SUFFICES ASSUME NEW s \in ToSet(todo')
                 PROVE  /\ s.do \in {"pts", "fetch_pts"} => SetCovered(s)'
                        /\ s.do = "save" =>
                             \A t \in ToSet(todo') : t.do = "print" => t.late
    BY DEF StepsCovered
  <2>2. s \in ToSet(todo)
    BY <1>2
  <2>3. ASSUME s.do \in {"pts", "fetch_pts"} PROVE SetCovered(s)'
    <3>1. SetCovered(s)
      BY <2>2, <2>3 DEF IInv, StepsCovered
    <3>2. s.to \in Counter
      BY <1>1, <2>2, <2>3, ToSetIs, StepFields
    <3>3. ASSUME NEW n \in base' + 1 .. s.to
          PROVE  \/ n \in Firm' \/ Coming(n)' \/ (binlog_enabled' /\ ToStore(n)')
                 \/ s.do = "fetch_pts" /\ n < s.to
      <4>1. n \in base + 1 .. s.to
        BY <1>1, <3>2, CounterIsNat, Narrower
      <4>2. \/ n \in Firm \/ Coming(n) \/ (binlog_enabled /\ ToStore(n))
            \/ s.do = "fetch_pts" /\ n < s.to
        BY <3>1, <4>1 DEF SetCovered
      <4>3. QED  BY <1>1, <4>2
    <3>4. QED  BY <3>3 DEF SetCovered
  <2>4. ASSUME s.do = "save", NEW t \in ToSet(todo'), t.do = "print" PROVE t.late
    BY <1>2, <2>2, <2>4 DEF IInv, StepsCovered
  <2>5. QED  BY <2>3, <2>4
<1>6. ASSUME NEW p \in Counter, FirmUpTo(p) PROVE FirmUpTo(p)'
  <2>1. \A n \in base' + 1 .. p : n \in base + 1 .. p
    BY <1>1, CounterIsNat, Narrower
  <2>2. QED  BY <1>6, <2>1 DEF FirmUpTo
<1>7. ASSUME NEW a \in answers
      PROVE  /\ a.op = "get_difference" => FirmUpTo(a.from)'
             /\ a.op = "get_state" => a.to <= base'
  <2>1. a.from \in Counter /\ a.to \in Counter
    BY <1>1 DEF Answer
  <2>2. QED  BY <1>1, <1>6, <1>7, <2>1 DEF IInv, QueriesCovered, Counter
<1>8. QED  BY <1>1, <1>3, <1>4, <1>5, <1>6, <1>7

(* What the first step h was of a handler, and what is left.               *)
LEMMA Shape ==
  ASSUME IInv, HandlerStep
  PROVE  LET h == Head(todo) IN
         /\ h \in Step /\ h \in ToSet(todo)
         /\ ToSet(todo) = {h} \cup ToSet(todo')
         /\ ~Early(h) => \A s \in ToSet(todo) : ~Early(s)
         /\ h.do = "ask" => ToSet(todo') = {}
         /\ todo' \in Seq(Step)
BY HeadAndTail DEF HandlerStep, IInv, TypeOK, InOrder

LEMMA FirmFields ==
  ASSUME UNCHANGED <<binlog_enabled, cut>>, mem.in \subseteq mem'.in, shown \subseteq shown',
         jumped \subseteq jumped'
  PROVE  Firm \subseteq Firm'
BY DEF Firm

(* A step that is not there to take anything in.                           *)
LEMMA ComingKept ==
  ASSUME NEW h, ToSet(todo) = {h} \cup ToSet(todo'), h.do \notin {"update", "print"},
         binlog_enabled' = binlog_enabled
  PROVE  /\ \A n : Coming(n) => Coming(n)'
         /\ \A n : ToStore(n) => ToStore(n)'
         /\ \A n : ToPrintLate(n) => ToPrintLate(n)'
BY DEF Coming, ToStore, ToStoreLate, ToPrint, ToPrintLate

(* fetch_pts, and pts set by an answer.                                    *)
LEMMA SetsPts ==
  ASSUME IInv, HandlerStep, Head(todo).do \in {"fetch_pts", "pts"} PROVE IInv'
<1> DEFINE h == Head(todo)
           p == h.to
<1>1. /\ h \in Step /\ h \in ToSet(todo) /\ ToSet(todo) = {h} \cup ToSet(todo')
      /\ ~Early(h) => \A s \in ToSet(todo) : ~Early(s)
      /\ todo' \in Seq(Step)
  BY Shape
<1>2. /\ mem' = [mem EXCEPT !.pts = p]
      /\ disk' = IF binlog_enabled THEN [disk EXCEPT !.pts = p] ELSE disk
      /\ UNCHANGED <<binlog_enabled, sync_from_start, server, pushes, asked, answers,
                     written, shown, lost, cut, crashes, losses>>
      /\ IF h.do = "fetch_pts" THEN Passes(p) ELSE UNCHANGED <<base, jumped>>
  BY DEF HandlerStep, add_log_event, replay_log_event, options
<1>3. h.do \in {"fetch_pts", "pts"}
  OBVIOUS
<1> HIDE DEF h
<1>4. /\ p \in Counter /\ base \in Counter /\ server \in Counter /\ MaxUpdates \in Nat
      /\ mem \in State /\ disk \in State /\ 1 <= base /\ base <= server
      /\ h.do = "fetch_pts" => p <= server
      /\ mem.pts \in Counter /\ disk.pts \in Counter
  BY <1>1, <1>3, StepFields, Constants DEF IInv, TypeOK, Bounds, State
<1>5. /\ mem' \in State /\ disk' \in State /\ mem'.in = mem.in /\ mem'.pts = p
      /\ disk'.in = disk.in /\ disk'.pts = IF binlog_enabled THEN p ELSE disk.pts
  BY <1>2, <1>4 DEF State
<1>6. /\ base' \in Counter /\ base <= base' /\ base' <= server
      /\ jumped' \in SUBSET Numbers /\ jumped \subseteq jumped'
      /\ h.do = "fetch_pts" =>
           \A n \in base' + 1 .. p : n <= mem.pts \/ n \in jumped' \/ n = p
  <2>1. jumped \in SUBSET Numbers
    BY DEF IInv, TypeOK
  <2>2. CASE h.do = "pts"
    <3>1. base' = base /\ jumped' = jumped
      BY <1>2, <2>2
    <3>2. base <= base
      BY <1>4, CounterIsNat
    <3>3. QED  BY <1>4, <2>1, <2>2, <3>1, <3>2
  <2>3. CASE h.do = "fetch_pts" /\ mem.pts = 0
    <3>1. base' = (IF p - 1 > base THEN p - 1 ELSE base) /\ jumped' = jumped
      BY <1>2, <2>3 DEF Passes
    <3>2. QED  BY <1>4, <2>1, <2>3, <3>1 DEF Counter
  <2>4. CASE h.do = "fetch_pts" /\ mem.pts # 0
    <3>1. base' = base /\ jumped' = jumped \cup ((mem.pts + 1) .. (p - 1))
      BY <1>2, <2>4 DEF Passes
    <3>2. (mem.pts + 1) .. (p - 1) \subseteq Numbers
      BY <1>4 DEF Counter, Numbers
    <3>3. \A n \in base + 1 .. p :
            n <= mem.pts \/ n \in (mem.pts + 1) .. (p - 1) \/ n = p
      BY <1>4 DEF Counter
    <3>4. base <= base
      BY <1>4, CounterIsNat
    <3>5. \A n \in base' + 1 .. p : n <= mem.pts \/ n \in jumped' \/ n = p
      BY <3>1, <3>3
    <3>6. jumped' \in SUBSET Numbers /\ jumped \subseteq jumped'
      BY <2>1, <3>1, <3>2
    <3>7. QED  BY <1>4, <3>1, <3>4, <3>5, <3>6
  <2>5. QED  BY <1>3, <2>2, <2>3, <2>4
<1>7. Firm \subseteq Firm'
  BY <1>2, <1>5, <1>6, FirmFields
<1>8. /\ \A n : Coming(n) => Coming(n)'
      /\ \A n : ToStore(n) => ToStore(n)'
      /\ \A n : ToPrintLate(n) => ToPrintLate(n)'
  BY <1>1, <1>2, <1>3, ComingKept
<1>9. TypeOK'
  BY <1>1, <1>2, <1>5, <1>6 DEF IInv, TypeOK
<1>10. /\ Bounds' /\ InOrder' /\ StepsCovered'
       /\ \A q \in Counter : FirmUpTo(q) => FirmUpTo(q)'
       /\ \A a \in answers : /\ a.op = "get_difference" => FirmUpTo(a.from)'
                             /\ a.op = "get_state" => a.to <= base'
  BY <1>6, <1>7, <1>8, StepDone
<1>11. LogIsMemory'
  BY <1>2, <1>5 DEF IInv, LogIsMemory
<1>12. MemoryCovered'
  <2>1. SUFFICES ASSUME NEW n \in base' + 1 .. p PROVE n \in Firm' \/ Coming(n)'
    BY <1>5 DEF MemoryCovered
  <2>2. n \in base + 1 .. p /\ n \in Nat
    BY <1>4, <1>6, CounterIsNat, Narrower
  <2>3. SetCovered(h)
    BY <1>1, <1>3 DEF IInv, StepsCovered
  <2>4. binlog_enabled /\ ToStore(n) => Coming(n)
    <3>1. ~Early(h)
      BY <1>3 DEF Early
    <3>2. QED  BY <1>1, <3>1 DEF Coming, ToStore, ToStoreLate, Early
  <2>5. CASE h.do = "pts" \/ n = p
    <3>1. n \in Firm \/ Coming(n)
      BY <1>4, <2>2, <2>3, <2>4, <2>5 DEF SetCovered, Counter
    <3>2. QED  BY <1>7, <1>8, <3>1
  <2>6. CASE h.do = "fetch_pts" /\ n <= mem.pts
    <3>1. n \in base + 1 .. mem.pts
      BY <1>4, <2>2, <2>6 DEF Counter
    <3>2. n \in Firm \/ Coming(n)
      BY <3>1 DEF IInv, MemoryCovered
    <3>3. QED  BY <1>7, <1>8, <3>2
  <2>7. CASE n \in jumped'
    BY <2>7 DEF Firm
  <2>8. QED  BY <1>3, <1>6, <2>5, <2>6, <2>7
<1>13. DiskCovered'
  <2>1. SUFFICES ASSUME ~binlog_enabled, NEW n \in base' + 1 .. disk.pts
                 PROVE  n \in Firm' \/ ToPrintLate(n)'
    BY <1>2, <1>5 DEF DiskCovered
  <2>2. n \in base + 1 .. disk.pts
    BY <1>4, <1>6, CounterIsNat, Narrower
  <2>3. n \in Firm \/ ToPrintLate(n)
    BY <2>1, <2>2 DEF IInv, DiskCovered
  <2>4. QED  BY <1>7, <1>8, <2>3
<1>14. QueriesCovered'
  <2>1. asked' = asked /\ answers' = answers /\ asked \subseteq Query
    BY <1>2 DEF IInv, TypeOK
  <2>2. \A q \in asked : q.op = "get_difference" => q.pts \in Counter
    BY <2>1 DEF Query, Numbers, Counter
  <2>3. QED  BY <1>10, <2>1, <2>2 DEF IInv, QueriesCovered
<1>15. QED
  BY <1>9, <1>10, <1>11, <1>12, <1>13, <1>14 DEF IInv

(* Every step but one that sets pts, saves or asks: pts and its copies     *)
(* stay.                                                                   *)
LEMMA PtsStays ==
  ASSUME IInv, HandlerStep, TypeOK', UNCHANGED <<base, jumped, asked, binlog_enabled, cut>>,
         mem'.pts = mem.pts, disk'.pts = disk.pts,
         mem.in \subseteq mem'.in, shown \subseteq shown', LogIsMemory',
         \A n : Coming(n) => Coming(n)' \/ n \in Firm',
         \A n : binlog_enabled /\ ToStore(n) => ToStore(n)' \/ n \in Firm',
         \A n : ~binlog_enabled /\ ToPrintLate(n) => ToPrintLate(n)' \/ n \in Firm'
  PROVE  IInv'
<1>1. Firm \subseteq Firm'
  BY FirmFields
<1>2. base' \in Counter /\ base <= base' /\ base' <= server
  BY Constants DEF IInv, TypeOK, Bounds, Counter
<1>3. /\ Bounds' /\ InOrder' /\ StepsCovered' /\ answers' = answers
      /\ \A q \in Counter : FirmUpTo(q) => FirmUpTo(q)'
      /\ \A a \in answers : /\ a.op = "get_difference" => FirmUpTo(a.from)'
                            /\ a.op = "get_state" => a.to <= base'
  BY <1>1, <1>2, StepDone
<1>4. MemoryCovered'
  BY <1>1 DEF IInv, MemoryCovered
<1>5. DiskCovered'
  BY <1>1 DEF IInv, DiskCovered
<1>6. QueriesCovered'
  <2>1. asked \subseteq Query
    BY DEF IInv, TypeOK
  <2>2. \A q \in asked : q.op = "get_difference" => q.pts \in Counter
    BY <2>1 DEF Query, Numbers, Counter
  <2>3. QED  BY <1>3, <2>2 DEF IInv, QueriesCovered
<1>7. QED  BY <1>3, <1>4, <1>5, <1>6 DEF IInv

LEMMA SetsSeq ==
  ASSUME IInv, HandlerStep, Head(todo).do = "seq" PROVE IInv'
<1> DEFINE h == Head(todo)
<1>1. /\ h \in Step /\ ToSet(todo) = {h} \cup ToSet(todo') /\ todo' \in Seq(Step)
  BY Shape
<1>2. /\ mem' = [mem EXCEPT !.seq = h.to]
      /\ disk' = IF binlog_enabled THEN [disk EXCEPT !.seq = h.to] ELSE disk
      /\ UNCHANGED <<binlog_enabled, sync_from_start, server, pushes, asked, answers,
                     written, shown, lost, cut, crashes, losses, base, jumped>>
  BY DEF HandlerStep, add_log_event, replay_log_event, options
<1>3. h.do = "seq"
  OBVIOUS
<1> HIDE DEF h
<1>4. h.to \in Counter /\ mem \in State /\ disk \in State
  BY <1>1, <1>3, StepFields DEF IInv, TypeOK
<1>5. /\ mem' \in State /\ disk' \in State /\ mem'.in = mem.in /\ mem'.pts = mem.pts
      /\ disk'.in = disk.in /\ disk'.pts = disk.pts
  BY <1>2, <1>4 DEF State
<1>6. TypeOK'
  BY <1>1, <1>2, <1>5 DEF IInv, TypeOK
<1>7. LogIsMemory'
  BY <1>2, <1>5 DEF IInv, LogIsMemory
<1>8. /\ \A n : Coming(n) => Coming(n)'
      /\ \A n : ToStore(n) => ToStore(n)'
      /\ \A n : ToPrintLate(n) => ToPrintLate(n)'
  BY <1>1, <1>2, <1>3, ComingKept
<1>9. QED  BY <1>2, <1>5, <1>6, <1>7, <1>8, PtsStays

LEMMA Stores ==
  ASSUME IInv, HandlerStep, Head(todo).do = "update" PROVE IInv'
<1> DEFINE h == Head(todo)
<1>1. /\ h \in Step /\ ToSet(todo) = {h} \cup ToSet(todo') /\ todo' \in Seq(Step)
  BY Shape
<1>2. /\ mem' = [mem EXCEPT !.in = mem.in \cup h.ns]
      /\ disk' = IF binlog_enabled THEN [disk EXCEPT !.in = disk.in \cup h.ns] ELSE disk
      /\ UNCHANGED <<binlog_enabled, sync_from_start, server, pushes, asked, answers,
                     written, shown, lost, cut, crashes, losses, base, jumped>>
  BY DEF HandlerStep, add_log_event, replay_log_event, options
<1>3. h.do = "update"
  OBVIOUS
<1> HIDE DEF h
<1>4. h.ns \in SUBSET Numbers /\ mem \in State /\ disk \in State
  BY <1>1, <1>3, StepFields DEF IInv, TypeOK
<1>5. /\ mem' \in State /\ disk' \in State /\ mem'.in = mem.in \cup h.ns
      /\ mem'.pts = mem.pts /\ disk'.pts = disk.pts
      /\ binlog_enabled => disk'.in = disk.in \cup h.ns
  BY <1>2, <1>4 DEF State
<1>6. TypeOK'
  BY <1>1, <1>2, <1>5 DEF IInv, TypeOK
<1>7. LogIsMemory'
  BY <1>2, <1>5 DEF IInv, LogIsMemory
<1>8. \A n \in h.ns : binlog_enabled => n \in Firm'
  BY <1>2, <1>5 DEF Firm
<1>9. \A n : binlog_enabled /\ ToStore(n) => ToStore(n)' \/ n \in Firm'
  BY <1>1, <1>8 DEF ToStore
<1>10. \A n : binlog_enabled /\ ToStoreLate(n) => ToStoreLate(n)' \/ n \in Firm'
  BY <1>1, <1>8 DEF ToStoreLate
<1>11. \A n : (ToPrint(n) => ToPrint(n)') /\ (ToPrintLate(n) => ToPrintLate(n)')
  BY <1>1, <1>3 DEF ToPrint, ToPrintLate
<1>12. \A n : Coming(n) => Coming(n)' \/ n \in Firm'
  BY <1>2, <1>10, <1>11 DEF Coming
<1>13. QED  BY <1>2, <1>5, <1>6, <1>7, <1>9, <1>11, <1>12, PtsStays

LEMMA Prints ==
  ASSUME IInv, HandlerStep, Head(todo).do = "print" PROVE IInv'
<1> DEFINE h == Head(todo)
<1>1. /\ h \in Step /\ ToSet(todo) = {h} \cup ToSet(todo') /\ todo' \in Seq(Step)
  BY Shape
<1>2. /\ shown' = shown \cup h.ns
      /\ UNCHANGED <<binlog_enabled, sync_from_start, server, pushes, asked, answers, mem,
                     disk, written, lost, cut, crashes, losses, base, jumped>>
  BY DEF HandlerStep, options
<1>3. h.do = "print"
  OBVIOUS
<1> HIDE DEF h
<1>4. h.ns \in SUBSET Numbers
  BY <1>1, <1>3, StepFields
<1>5. TypeOK'
  BY <1>1, <1>2, <1>4 DEF IInv, TypeOK
<1>6. LogIsMemory'
  BY <1>2 DEF IInv, LogIsMemory
<1>7. \A n \in h.ns : ~binlog_enabled => n \in Firm'
  BY <1>2 DEF Firm
<1>8. \A n : (ToStore(n) => ToStore(n)') /\ (ToStoreLate(n) => ToStoreLate(n)')
  BY <1>1, <1>3 DEF ToStore, ToStoreLate
<1>9. \A n : ~binlog_enabled /\ ToPrint(n) => ToPrint(n)' \/ n \in Firm'
  BY <1>1, <1>7 DEF ToPrint
<1>10. \A n : ~binlog_enabled /\ ToPrintLate(n) => ToPrintLate(n)' \/ n \in Firm'
  BY <1>1, <1>7 DEF ToPrintLate
<1>11. \A n : Coming(n) => Coming(n)' \/ n \in Firm'
  BY <1>2, <1>8, <1>9 DEF Coming
<1>12. QED  BY <1>2, <1>5, <1>6, <1>8, <1>10, <1>11, PtsStays

(* write_state_file covers only what has been printed, or is printed late. *)
LEMMA StateSaved ==
  ASSUME IInv, write_state_file, \A n : ToPrint(n) => ToPrintLate(n)
  PROVE  /\ disk' \in State /\ written' \in Counters /\ disk'.in = disk.in
         /\ binlog_enabled => disk' = disk
         /\ ~binlog_enabled =>
              \A n \in base + 1 .. disk'.pts : n \in Firm \/ ToPrintLate(n)
<1>1. mem \in State /\ disk \in State /\ written \in Counters
  BY DEF IInv, TypeOK
<1>2. ~binlog_enabled =>
        /\ \A n \in base + 1 .. disk.pts : n \in Firm \/ ToPrintLate(n)
        /\ \A n \in base + 1 .. mem.pts : n \in Firm \/ ToPrintLate(n)
  BY DEF IInv, DiskCovered, MemoryCovered, Coming
<1>3. CASE disk' = disk /\ written' = written
  BY <1>1, <1>2, <1>3
<1>4. CASE /\ ~binlog_enabled /\ disk' = [disk EXCEPT !.pts = mem.pts, !.seq = mem.seq]
           /\ written' = [pts |-> mem.pts, seq |-> mem.seq]
  <2>1. mem.pts \in Counter /\ mem.seq \in Counter
    BY <1>1 DEF State
  <2>2. disk' \in State /\ disk'.in = disk.in /\ disk'.pts = mem.pts
    BY <1>1, <1>4, <2>1 DEF State
  <2>3. written' \in Counters
    BY <1>4, <2>1 DEF Counters
  <2>4. QED  BY <1>2, <1>4, <2>2, <2>3
<1>5. QED  BY <1>3, <1>4 DEF write_state_file

LEMMA Saves ==
  ASSUME IInv, HandlerStep, Head(todo).do = "save" PROVE IInv'
<1> DEFINE h == Head(todo)
<1>1. /\ h \in Step /\ h \in ToSet(todo) /\ ToSet(todo) = {h} \cup ToSet(todo')
      /\ todo' \in Seq(Step)
  BY Shape
<1>2. /\ write_state_file
      /\ UNCHANGED <<binlog_enabled, sync_from_start, server, pushes, asked, answers, mem,
                     shown, lost, cut, crashes, losses, base, jumped>>
  BY DEF HandlerStep, options
<1>3. h.do = "save"
  OBVIOUS
<1> HIDE DEF h
<1>4. \A n : ToPrint(n) => ToPrintLate(n)
  BY <1>1, <1>3 DEF IInv, StepsCovered, ToPrint, ToPrintLate
<1>5. /\ disk' \in State /\ written' \in Counters /\ disk'.in = disk.in
      /\ binlog_enabled => disk' = disk
      /\ ~binlog_enabled =>
           \A n \in base + 1 .. disk'.pts : n \in Firm \/ ToPrintLate(n)
  BY <1>2, <1>4, StateSaved
<1>6. TypeOK'
  BY <1>1, <1>2, <1>5 DEF IInv, TypeOK
<1>7. LogIsMemory'
  BY <1>2, <1>5 DEF IInv, LogIsMemory
<1>8. /\ \A n : Coming(n) => Coming(n)'
      /\ \A n : ToStore(n) => ToStore(n)'
      /\ \A n : ToPrintLate(n) => ToPrintLate(n)'
  BY <1>1, <1>2, <1>3, ComingKept
<1>9. Firm' = Firm
  BY <1>2 DEF Firm
<1>10. base \in Counter /\ base <= base /\ base <= server
  BY CounterIsNat DEF IInv, TypeOK, Bounds
<1>11. Bounds' /\ InOrder' /\ StepsCovered'
  BY <1>2, <1>8, <1>9, <1>10, StepDone
<1>12. MemoryCovered'
  BY <1>2, <1>8, <1>9 DEF IInv, MemoryCovered
<1>13. DiskCovered'
  BY <1>2, <1>5, <1>8, <1>9 DEF DiskCovered
<1>14. QueriesCovered'
  BY <1>2, <1>9 DEF IInv, QueriesCovered, FirmUpTo
<1>15. QED  BY <1>6, <1>7, <1>11, <1>12, <1>13, <1>14 DEF IInv

(* A difference is asked for when nothing is to come: from a pts that      *)
(* covers only what has been taken in.                                     *)
LEMMA AskFacts ==
  ASSUME IInv, Ask, \A n : ~Coming(n)
  PROVE  /\ mem' \in State /\ asked' \subseteq Query /\ mem'.in = mem.in
         /\ mem'.pts = mem.pts \/ (mem.pts = 0 /\ mem'.pts = 1)
         /\ FirmUpTo(mem'.pts)
         /\ \A q \in asked' : q.op = "get_difference" => FirmUpTo(q.pts)
<1> DEFINE d == do_get_difference(mem)
<1>1. mem \in State /\ asked \subseteq Query /\ base \in Nat /\ 1 <= base
  BY CounterIsNat DEF IInv, TypeOK, Bounds
<1>2. mem' = d.mem /\ asked' = asked \cup {d.query}
  BY DEF Ask
<1>3. /\ d.mem \in State /\ d.query \in Query /\ d.mem.in = mem.in
      /\ d.mem.pts = mem.pts \/ (mem.pts = 0 /\ d.mem.pts = 1)
      /\ d.query.op = "get_difference" => d.query.pts = d.mem.pts
  BY <1>1, DifferenceAsked
<1> HIDE DEF d
<1>4. FirmUpTo(mem'.pts)
  <2>1. CASE mem'.pts = mem.pts
    BY <2>1 DEF IInv, MemoryCovered, FirmUpTo
  <2>2. CASE mem'.pts = 1
    <3>1. \A n \in base + 1 .. 1 : FALSE
      BY <1>1
    <3>2. QED  BY <2>2, <3>1 DEF FirmUpTo
  <2>3. QED  BY <1>2, <1>3, <2>1, <2>2
<1>5. ASSUME NEW q \in asked', q.op = "get_difference" PROVE FirmUpTo(q.pts)
  <2>1. CASE q \in asked
    BY <1>5, <2>1 DEF IInv, QueriesCovered
  <2>2. CASE q = d.query
    BY <1>2, <1>3, <1>4, <1>5, <2>2
  <2>3. QED  BY <1>2, <2>1, <2>2
<1>6. QED  BY <1>1, <1>2, <1>3, <1>4, <1>5

LEMMA Asks ==
  ASSUME IInv, HandlerStep, Head(todo).do = "ask" PROVE IInv'
<1> DEFINE h == Head(todo)
<1>1. /\ h \in Step /\ ToSet(todo) = {h} /\ ToSet(todo') = {} /\ todo' \in Seq(Step)
  BY Shape
<1>2. /\ Ask
      /\ UNCHANGED <<binlog_enabled, sync_from_start, server, pushes, answers, disk,
                     written, shown, lost, cut, crashes, losses, base, jumped>>
  BY DEF HandlerStep, options
<1>3. h.do = "ask"
  OBVIOUS
<1> HIDE DEF h
<1>4. \A n : ~Coming(n) /\ ~ToStore(n) /\ ~ToPrintLate(n)
  BY <1>1, <1>3 DEF Coming, ToStore, ToStoreLate, ToPrint, ToPrintLate
<1>5. /\ mem' \in State /\ asked' \subseteq Query /\ mem'.in = mem.in
      /\ mem'.pts = mem.pts \/ (mem.pts = 0 /\ mem'.pts = 1)
      /\ FirmUpTo(mem'.pts)
      /\ \A q \in asked' : q.op = "get_difference" => FirmUpTo(q.pts)
  BY <1>2, <1>4, AskFacts
<1>6. TypeOK'
  BY <1>1, <1>2, <1>5 DEF IInv, TypeOK
<1>7. LogIsMemory'
  BY <1>2, <1>5 DEF IInv, LogIsMemory
<1>8. Firm' = Firm
  BY <1>2, <1>5 DEF Firm
<1>9. base \in Counter /\ base <= base /\ base <= server
  BY CounterIsNat DEF IInv, TypeOK, Bounds
<1>10. Bounds' /\ InOrder' /\ StepsCovered'
  BY <1>2, <1>4, <1>8, <1>9, StepDone
<1>11. MemoryCovered'
  BY <1>2, <1>5, <1>8 DEF MemoryCovered, FirmUpTo
<1>12. DiskCovered'
  BY <1>2, <1>4, <1>8 DEF IInv, DiskCovered
<1>13. QueriesCovered'
  BY <1>2, <1>5, <1>8 DEF IInv, QueriesCovered, FirmUpTo
<1>14. QED  BY <1>6, <1>7, <1>10, <1>11, <1>12, <1>13 DEF IInv

LEMMA HandlerKeeps == ASSUME IInv, HandlerStep PROVE IInv'
<1>1. Head(todo).do \in {"fetch_pts", "pts", "seq", "update", "print", "save", "ask"}
  BY Shape, StepFields
<1>2. QED  BY <1>1, SetsPts, SetsSeq, Stores, Prints, Saves, Asks

-----------------------------------------------------------------------------
(* The other actions of the client, and the server. *)

LEMMA NetLoop == ASSUME IInv, net_loop PROVE IInv'
<1>1. /\ todo = <<>> /\ write_state_file
      /\ UNCHANGED <<binlog_enabled, sync_from_start, server, pushes, asked, answers, mem,
                     todo, base, shown, jumped, lost, cut, crashes, losses>>
  BY DEF net_loop, options, counts
<1>2. \A n : ~ToPrint(n)
  BY <1>1, NoStep DEF ToPrint
<1>3. /\ disk' \in State /\ written' \in Counters /\ disk'.in = disk.in
      /\ binlog_enabled => disk' = disk
      /\ ~binlog_enabled =>
           \A n \in base + 1 .. disk'.pts : n \in Firm \/ ToPrintLate(n)
  BY <1>1, <1>2, StateSaved
<1>4. TypeOK'
  BY <1>1, <1>3 DEF IInv, TypeOK
<1>5. Bounds' /\ InOrder'
  BY <1>1 DEF IInv, Bounds, InOrder
<1>6. LogIsMemory'
  BY <1>1, <1>3 DEF IInv, LogIsMemory
<1>7. /\ Firm' = Firm
      /\ \A n : (Coming(n)' <=> Coming(n)) /\ (ToPrintLate(n)' <=> ToPrintLate(n))
  BY <1>1 DEF Firm, Coming, ToStoreLate, ToPrint, ToPrintLate
<1>8. MemoryCovered'
  BY <1>1, <1>7 DEF IInv, MemoryCovered
<1>9. DiskCovered'
  BY <1>1, <1>3, <1>7 DEF DiskCovered
<1>10. StepsCovered'
  BY <1>1, NoStep DEF StepsCovered
<1>11. QueriesCovered'
  BY <1>1, <1>7 DEF IInv, QueriesCovered, FirmUpTo
<1>12. QED  BY <1>4, <1>5, <1>6, <1>8, <1>9, <1>10, <1>11 DEF IInv

LEMMA TooLong == ASSUME IInv, work_updates_to_long PROVE IInv'
<1>1. /\ todo = <<>> /\ Ask /\ losses < MaxLosses /\ losses' = losses + 1
      /\ UNCHANGED <<binlog_enabled, sync_from_start, server, pushes, answers, disk,
                     written, todo, base, shown, jumped, lost, cut, crashes>>
  BY DEF work_updates_to_long, options, counts
<1>2. /\ mem' \in State /\ asked' \subseteq Query /\ mem'.in = mem.in
      /\ mem'.pts = mem.pts \/ (mem.pts = 0 /\ mem'.pts = 1)
      /\ FirmUpTo(mem'.pts)
      /\ \A q \in asked' : q.op = "get_difference" => FirmUpTo(q.pts)
  BY <1>1, Idle, AskFacts
<1>3. losses' \in 0 .. MaxLosses
  BY <1>1, Constants DEF IInv, TypeOK
<1>4. TypeOK'
  BY <1>1, <1>2, <1>3 DEF IInv, TypeOK
<1>5. Bounds' /\ InOrder'
  BY <1>1 DEF IInv, Bounds, InOrder
<1>6. LogIsMemory'
  BY <1>1, <1>2 DEF IInv, LogIsMemory
<1>7. Firm' = Firm
  BY <1>1, <1>2 DEF Firm
<1>8. MemoryCovered'
  BY <1>1, <1>2, <1>7 DEF MemoryCovered, FirmUpTo
<1>9. DiskCovered'
  BY <1>1, <1>7, Idle DEF IInv, DiskCovered
<1>10. StepsCovered'
  BY <1>1, NoStep DEF StepsCovered
<1>11. QueriesCovered'
  BY <1>1, <1>2, <1>7 DEF IInv, QueriesCovered, FirmUpTo
<1>12. QED  BY <1>4, <1>5, <1>6, <1>8, <1>9, <1>10, <1>11 DEF IInv

(* What the handler of the run that ends had yet to take in, and a start   *)
(* will not look for, is cut.                                              *)
LEMMA LateIs ==
  ASSUME todo \in Seq(Step)
  PROVE  /\ Late \subseteq Numbers
         /\ \A n : ToStoreLate(n) \/ ToPrintLate(n) => n \in Late
<1>1. ToSet(todo) \subseteq Step
  BY ToSetIs
<1>2. \A s \in ToSet(todo) : s.do \in {"update", "print"} => s.ns \in SUBSET Numbers
  BY <1>1, StepFields
<1>3. Late \subseteq Numbers
  BY <1>2 DEF Late
<1>4. \A n : ToStoreLate(n) \/ ToPrintLate(n) => n \in Late
  BY DEF Late, ToStoreLate, ToPrintLate
<1>5. QED  BY <1>3, <1>4

LEMMA Restarts == ASSUME IInv, Restart PROVE IInv'
<1> DEFINE d == do_get_difference(disk)
<1>1. /\ mem' = d.mem /\ asked' = {d.query} /\ written' = NoCounters /\ todo' = <<>>
      /\ answers' = {} /\ pushes' = {} /\ cut' = cut \cup {n \in Late : n <= disk.pts}
      /\ crashes < MaxCrashes /\ crashes' = crashes + 1
      /\ UNCHANGED <<binlog_enabled, sync_from_start, server, disk, base, shown, jumped,
                     lost, losses>>
  BY DEF Restart, options
<1>2. /\ disk \in State /\ mem \in State /\ todo \in Seq(Step) /\ base \in Nat /\ 1 <= base
      /\ disk.pts \in Nat
  BY CounterIsNat DEF IInv, TypeOK, Bounds, State
<1>3. /\ d.mem \in State /\ d.query \in Query /\ d.mem.in = disk.in
      /\ d.mem.pts = disk.pts \/ (disk.pts = 0 /\ d.mem.pts = 1)
      /\ d.query.op = "get_difference" => d.query.pts = d.mem.pts
  BY <1>2, DifferenceAsked
<1> HIDE DEF d
<1>4. Late \subseteq Numbers /\ \A n : ToStoreLate(n) \/ ToPrintLate(n) => n \in Late
  BY <1>2, LateIs
<1>5. crashes' \in 0 .. MaxCrashes
  BY <1>1, Constants DEF IInv, TypeOK
<1>6. TypeOK'
  BY <1>1, <1>3, <1>4, <1>5, NoStep, Constants DEF IInv, TypeOK, NoCounters, Counters
<1>7. Bounds'
  BY <1>1, NoStep DEF IInv, Bounds
<1>8. InOrder'
  BY <1>1, NoStep, NoneEarly, NoAsk DEF InOrder
<1>9. LogIsMemory'
  BY <1>1, <1>3 DEF LogIsMemory
<1>10. \A n \in base + 1 .. disk.pts : n \in Firm'
  <2>1. SUFFICES ASSUME NEW n \in base + 1 .. disk.pts PROVE n \in Firm'
    OBVIOUS
  <2>2. n <= disk.pts
    OBVIOUS
  <2>3. CASE binlog_enabled
    <3>1. mem.in = disk.in /\ (mem.pts = disk.pts \/ disk.pts = 0)
      BY <2>3 DEF IInv, LogIsMemory
    <3>2. n \in base + 1 .. mem.pts
      BY <1>2, <3>1
    <3>3. n \in Firm \/ Coming(n)
      BY <3>2 DEF IInv, MemoryCovered
    <3>4. QED  BY <1>1, <1>3, <1>4, <2>2, <2>3, <3>1, <3>3 DEF Firm, Coming
  <2>4. CASE ~binlog_enabled
    <3>1. n \in Firm \/ ToPrintLate(n)
      BY <2>4 DEF IInv, DiskCovered
    <3>2. QED  BY <1>1, <1>4, <2>2, <2>4, <3>1 DEF Firm
  <2>5. QED  BY <2>3, <2>4
<1>11. \A n \in base + 1 .. mem'.pts : n \in Firm'
  <2>1. \A n \in base + 1 .. 1 : FALSE
    BY <1>2
  <2>2. QED  BY <1>1, <1>3, <1>10, <2>1
<1>12. MemoryCovered' /\ DiskCovered'
  BY <1>1, <1>10, <1>11 DEF MemoryCovered, DiskCovered
<1>13. StepsCovered'
  BY <1>1, NoStep DEF StepsCovered
<1>14. QueriesCovered'
  BY <1>1, <1>3, <1>11 DEF QueriesCovered, FirmUpTo
<1>15. QED  BY <1>6, <1>7, <1>8, <1>9, <1>12, <1>13, <1>14 DEF IInv

(* A step of the server, which leaves the client alone.                    *)
LEMMA ServerKeeps ==
  ASSUME IInv, TypeOK',
         UNCHANGED <<options, mem, disk, written, todo, shown, jumped, cut>>,
         base <= base', base' <= server', server <= server',
         \A p \in pushes' : p.n <= server', QueriesCovered'
  PROVE  IInv'
<1>1. /\ UNCHANGED <<binlog_enabled, mem, disk, todo, shown, jumped, cut>>
      /\ base \in Nat /\ base' \in Nat /\ server \in Nat /\ server' \in Nat /\ 1 <= base
      /\ mem.pts \in Nat /\ disk.pts \in Nat /\ todo \in Seq(Step)
  BY CounterIsNat DEF options, IInv, TypeOK, Bounds, State
<1>2. \A s \in ToSet(todo) :
        s.do \in {"fetch_pts", "pts"} => s.to \in Nat
  BY <1>1, ToSetIs, StepFields, CounterIsNat
<1>3. Bounds'
  <2>1. \A s \in ToSet(todo) : s.do = "fetch_pts" => s.to <= server /\ s.to \in Nat
    BY <1>2 DEF IInv, Bounds
  <2>2. 1 <= base'
    BY <1>1
  <2>3. QED  BY <1>1, <2>1, <2>2 DEF Bounds
<1>4. InOrder' /\ LogIsMemory'
  BY <1>1 DEF IInv, InOrder, LogIsMemory
<1>5. /\ Firm' = Firm
      /\ \A n : /\ Coming(n)' <=> Coming(n)
                /\ ToStore(n)' <=> ToStore(n)
                /\ ToPrintLate(n)' <=> ToPrintLate(n)
  BY <1>1 DEF Firm, Coming, ToStore, ToStoreLate, ToPrint, ToPrintLate
<1>6. \A p \in Nat : \A n \in base' + 1 .. p : n \in base + 1 .. p
  BY <1>1, Narrower
<1>7. MemoryCovered'
  BY <1>1, <1>5, <1>6 DEF IInv, MemoryCovered
<1>8. DiskCovered'
  BY <1>1, <1>5, <1>6 DEF IInv, DiskCovered
<1>9. StepsCovered'
  <2>1. ASSUME NEW s \in ToSet(todo), s.do \in {"pts", "fetch_pts"} PROVE SetCovered(s)'
    <3>1. SetCovered(s) /\ s.to \in Nat
      BY <1>2, <2>1 DEF IInv, StepsCovered
    <3>2. QED  BY <1>1, <1>5, <1>6, <3>1 DEF SetCovered
  <2>2. QED  BY <1>1, <2>1 DEF IInv, StepsCovered
<1>10. QED  BY <1>3, <1>4, <1>7, <1>8, <1>9 DEF IInv

LEMMA Server ==
  ASSUME IInv,
         \/ \E form \in Forms : ServerUpdates(form)
         \/ \E p \in pushes : PushIsLost(p)
  PROVE  IInv'
<1>1. /\ server \in Nat /\ base \in Nat /\ base <= server /\ MaxUpdates \in Nat
      /\ \A p \in pushes : p.n <= server /\ p \in Push /\ p.n \in Nat
  BY CounterIsNat, Constants DEF IInv, TypeOK, Bounds, Push, Numbers
<1>2. CASE \E form \in Forms : ServerUpdates(form)
  <2>1. PICK form \in Forms : ServerUpdates(form)
    BY <1>2
  <2>2. /\ server < MaxUpdates /\ server' = server + 1
        /\ pushes' = pushes \cup {[form |-> form, n |-> server + 1]}
        /\ UNCHANGED <<options, binlog_enabled, sync_from_start, asked, answers, mem, disk,
                       written, todo, base, shown, jumped, lost, cut, crashes, losses>>
    BY <2>1 DEF ServerUpdates, options, counts
  <2>3. server' \in Counter /\ [form |-> form, n |-> server + 1] \in Push
    BY <1>1, <2>2 DEF Counter, Push, Numbers
  <2>4. TypeOK'
    BY <2>2, <2>3 DEF IInv, TypeOK
  <2>5. \A p \in pushes' : p.n <= server'
    BY <1>1, <2>2
  <2>6. Firm' = Firm
    BY <2>2 DEF Firm
  <2>7. QueriesCovered'
    BY <2>2, <2>6 DEF IInv, QueriesCovered, FirmUpTo
  <2>8. base <= base' /\ base' <= server' /\ server <= server'
    BY <1>1, <2>2
  <2>9. QED  BY <2>2, <2>4, <2>5, <2>7, <2>8, ServerKeeps
<1>3. CASE \E p \in pushes : PushIsLost(p)
  <2>1. PICK p \in pushes : PushIsLost(p)
    BY <1>3
  <2>2. /\ losses < MaxLosses /\ losses' = losses + 1
        /\ pushes' = pushes \ {p} /\ lost' = lost \cup {p.n}
        /\ UNCHANGED <<options, binlog_enabled, sync_from_start, server, asked, answers, mem,
                       disk, written, todo, base, shown, jumped, cut, crashes>>
    BY <2>1 DEF PushIsLost, options
  <2>3. losses' \in 0 .. MaxLosses /\ p.n \in Numbers
    BY <1>1, <2>2, Constants DEF IInv, TypeOK, Push
  <2>4. TypeOK'
    BY <2>2, <2>3 DEF IInv, TypeOK
  <2>5. Firm' = Firm
    BY <2>2 DEF Firm
  <2>6. QueriesCovered'
    BY <2>2, <2>5 DEF IInv, QueriesCovered, FirmUpTo
  <2>7. base <= base' /\ base' <= server' /\ server <= server'
    BY <1>1, <2>2
  <2>8. QED  BY <1>1, <2>2, <2>4, <2>6, <2>7, ServerKeeps
<1>4. QED  BY <1>2, <1>3

LEMMA Answers ==
  ASSUME IInv, NEW q \in asked, ServerAnswers(q) PROVE IInv'
<1> DEFINE slice == q.op = "get_difference" /\ q.pts + Slice < server
           to == IF slice THEN q.pts + Slice ELSE server
           a == [op |-> q.op, from |-> q.pts, slice |-> slice, to |-> to]
<1>1. /\ asked' = asked \ {q} /\ answers' = answers \cup {a}
      /\ base' = IF q.op = "get_state" THEN server ELSE base
      /\ UNCHANGED <<options, binlog_enabled, sync_from_start, server, pushes, mem, disk,
                     written, todo, shown, jumped, lost, cut, crashes, losses>>
  BY DEF ServerAnswers, options
<1>2. /\ q \in Query /\ server \in Counter /\ base \in Counter /\ server \in Nat
      /\ base \in Nat /\ base <= server /\ MaxUpdates \in Nat /\ Slice \in Nat
      /\ server <= MaxUpdates
  BY CounterIsNat, Constants DEF IInv, TypeOK, Bounds
<1>3. q.op \in {"get_state", "get_difference"} /\ q.pts \in Counter /\ q.pts \in Nat
  BY <1>2, Constants, CounterIsNat DEF Query, Numbers, Counter
<1>4. slice \in BOOLEAN /\ to \in Counter /\ (q.op = "get_state" => to = server)
  BY <1>2, <1>3 DEF Counter
<1> HIDE DEF slice, to
<1>5. a \in Answer /\ a.op = q.op /\ a.from = q.pts /\ a.to = to
  BY <1>3, <1>4 DEF Answer
<1> HIDE DEF a
<1>6. base' \in Counter /\ base <= base' /\ base' <= server' /\ server <= server'
      /\ base' \in Nat
  BY <1>1, <1>2
<1>7. TypeOK'
  BY <1>1, <1>5, <1>6 DEF IInv, TypeOK
<1>8. Firm' = Firm
  BY <1>1 DEF Firm
<1>9. ASSUME NEW p \in Nat, FirmUpTo(p) PROVE FirmUpTo(p)'
  <2>1. \A n \in base' + 1 .. p : n \in base + 1 .. p
    BY <1>2, <1>6, Narrower
  <2>2. QED  BY <1>8, <1>9, <2>1 DEF FirmUpTo
<1>10. \A r \in asked' : r.op = "get_difference" => FirmUpTo(r.pts)'
  <2>1. \A r \in asked : r.op = "get_difference" => r.pts \in Nat /\ FirmUpTo(r.pts)
    BY Constants DEF IInv, TypeOK, Query, Numbers, QueriesCovered
  <2>2. QED  BY <1>1, <1>9, <2>1
<1>11. ASSUME NEW r \in answers'
       PROVE  /\ r.op = "get_difference" => FirmUpTo(r.from)'
              /\ r.op = "get_state" => r.to <= base'
  <2>1. CASE r \in answers
    <3>1. r.from \in Nat /\ r.to \in Nat
      BY <2>1, CounterIsNat DEF IInv, TypeOK, Answer
    <3>2. /\ r.op = "get_difference" => FirmUpTo(r.from)
          /\ r.op = "get_state" => r.to <= base
      BY <2>1 DEF IInv, QueriesCovered
    <3>3. QED  BY <1>2, <1>6, <1>9, <3>1, <3>2
  <2>2. CASE r = a
    <3>1. q.op = "get_difference" => FirmUpTo(q.pts)
      BY DEF IInv, QueriesCovered
    <3>2. q.op = "get_state" => a.to <= base'
      BY <1>1, <1>2, <1>4, <1>5
    <3>3. QED  BY <1>3, <1>5, <1>9, <2>2, <3>1, <3>2
  <2>3. QED  BY <1>1, <2>1, <2>2
<1>12. QueriesCovered'
  BY <1>10, <1>11 DEF QueriesCovered
<1>13. \A p \in pushes' : p.n <= server'
  BY <1>1 DEF IInv, Bounds
<1>14. QED  BY <1>1, <1>6, <1>7, <1>12, <1>13, ServerKeeps

LEMMA NextKeepsIInv == ASSUME IInv, [Next]_vars PROVE IInv'
<1>1. CASE UNCHANGED vars
  <2>1. UNCHANGED <<binlog_enabled, sync_from_start, server, pushes, asked, answers, mem,
                    disk, written, todo, base, shown, jumped, lost, cut, crashes, losses>>
    BY <1>1 DEF vars, options, counts
  <2>2. QED
    BY <2>1
    DEF IInv, TypeOK, Bounds, InOrder, LogIsMemory, MemoryCovered, DiskCovered, StepsCovered,
        QueriesCovered, FirmUpTo, SetCovered, Firm, Coming, ToStore, ToStoreLate, ToPrint,
        ToPrintLate
<1>2. CASE Progress
  BY <1>2, ProcessUpdate, Answers, QueryResult, HandlerKeeps DEF Progress
<1>3. CASE Next /\ ~Progress
  BY <1>3, NetLoop, TooLong, Restarts, Server DEF Next
<1>4. QED  BY <1>1, <1>2, <1>3 DEF Next

LEMMA IInvIsEnough == ASSUME IInv PROVE StartMissesOnlyHoles
<1>1. todo \in Seq(Step) /\ base \in Nat /\ disk.pts \in Nat
  BY CounterIsNat DEF IInv, TypeOK, State
<1>2. \A n : ToStoreLate(n) \/ ToPrintLate(n) => n \in Late
  BY <1>1, LateIs
<1>3. ASSUME NEW n \in base + 1 .. disk.pts PROVE n \in Kept \cup jumped \cup Late \cup cut
  <2>1. CASE binlog_enabled
    <3>1. mem.in = disk.in /\ (mem.pts = disk.pts \/ disk.pts = 0)
      BY <2>1 DEF IInv, LogIsMemory
    <3>2. n \in base + 1 .. mem.pts
      BY <1>1, <3>1
    <3>3. n \in Firm \/ Coming(n)
      BY <3>2 DEF IInv, MemoryCovered
    <3>4. QED  BY <1>2, <2>1, <3>1, <3>3 DEF Firm, Coming, Kept
  <2>2. CASE ~binlog_enabled
    <3>1. n \in Firm \/ ToPrintLate(n)
      BY <2>2 DEF IInv, DiskCovered
    <3>2. QED  BY <1>2, <2>2, <3>1 DEF Firm, Kept
  <2>3. QED  BY <2>1, <2>2
<1>4. QED  BY <1>3 DEF IInv, StartMissesOnlyHoles, OnlyHolesAreMissed

-----------------------------------------------------------------------------
(* StartMissesOnlyHoles: whatever overtakes what, and wherever the process *)
(* ends, the pts that the next start finds in the log or the state file    *)
(* has not passed an update that was not taken in, except for those that   *)
(* fetch_pts jumped over and those whose handler stores pts before the     *)
(* message (fetch_message_short, and the printing of a difference).        *)
THEOREM StartMisses == Spec => []StartMissesOnlyHoles
<1>1. Init => IInv
  BY FirstIInv
<1>2. IInv /\ [Next]_vars => IInv'
  BY NextKeepsIInv
<1>3. IInv => StartMissesOnlyHoles
  BY IInvIsEnough
<1>4. QED  BY <1>1, <1>2, <1>3, PTL DEF Spec

=============================================================================
