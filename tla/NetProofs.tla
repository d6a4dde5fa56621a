--------------------------- MODULE NetProofs ---------------------------
(***************************************************************************)
(* Proofs of OneTimer of Connection, for any set of programs and any       *)
(* number of refused connects and of breaks; of FittingIsKept and          *)
(* InOrderAndCounted of OutBuffer, for blocks and packets of any size and  *)
(* any number of losses; and of ExecutedAsArrived and ReaderInStep of      *)
(* InBuffer, for blocks, words and packets of any size, as long as none of *)
(* the packets is too long.                                                *)
(*                                                                         *)
(* The outgoing stream is what was sent and what the blocks hold.  A write *)
(* appends to it the bytes written, or the last of them (Taken); a send    *)
(* moves the front of the blocks to the end of what was sent and leaves    *)
(* the stream as it is, however many blocks it empties.                    *)
(*                                                                         *)
(* The incoming blocks hold the stream from the end of some packet on, and *)
(* the packets before it were executed (At).  To receive appends to what   *)
(* the blocks hold; each round of try_rpc_read takes one packet off, or    *)
(* finds none that is whole.                                               *)
(*                                                                         *)
(* Both rest on what the blocks hold together (Flat), which is found by    *)
(* induction on their number.                                              *)
(***************************************************************************)
EXTENDS Connection, OutBuffer, InBuffer, SequenceTheorems, WellFoundedInduction,
        TLAPS

(* The bytes of s rise, from above lo up to hi.                            *)
Rising(s, lo, hi) ==
  /\ s \in Seq(Bytes)
  /\ \A i \in 1 .. Len(s) : lo < s[i] /\ s[i] <= hi
  /\ \A i, j \in 1 .. Len(s) : i < j => s[i] < s[j]

OutInv ==
  /\ OutTypeOK /\ BytesCounted /\ FittingIsKept
  /\ Rising(wire \o Pending, 0, accepted)

-----------------------------------------------------------------------------
(* Induction, from the library's theorem that < is well founded on Nat.     *)
LEMMA LeastNumber ==
  ASSUME NEW T \in SUBSET Nat, T # {}
  PROVE  \E m \in T : \A k \in T : m <= k
<1> DEFINE R == OpToRel(<, Nat)
<1>1. IsWellFoundedOn(R, Nat)
  BY NatLessThanWellFounded
<1>2. PICK m \in T : \A k \in T : <<k, m>> \notin R
  <2> HIDE DEF R
  <2>1. QED  BY <1>1, WFMin
<1>3. \A k \in T : m <= k
  <2>1. R = {ss \in Nat \X Nat : ss[1] < ss[2]}
    BY DEF OpToRel
  <2> HIDE DEF R
  <2>2. TAKE k \in T
  <2>3. ~ (k < m)
    BY <1>2, <2>1
  <2>4. QED  BY <2>3
<1>4. QED  BY <1>3

LEMMA Induction ==
  ASSUME NEW T, 0 \in T, \A n \in Nat : n \in T => n + 1 \in T
  PROVE  Nat \subseteq T
<1>1. SUFFICES ASSUME Nat \ T # {} PROVE FALSE
  OBVIOUS
<1>2. PICK m \in Nat \ T : \A k \in Nat \ T : m <= k
  BY <1>1, LeastNumber
<1>3. m - 1 \in Nat
  BY <1>2
<1>4. m - 1 \in T
  BY <1>2, <1>3
<1>5. QED  BY <1>2, <1>3, <1>4

(* FlattenSeq is a recursive function: it has the values that its equation *)
(* gives.                                                                  *)
LEMMA FlattenStep ==
  ASSUME NEW S, NEW N \in Nat \ {0}, NEW s \in [1 .. N -> Seq(S)]
  PROVE  \E f : /\ f = [i \in 1 .. N |-> IF i = 1 THEN s[i] ELSE f[i - 1] \o s[i]]
                /\ FlattenSeq(s) = f[N]
<1> DEFINE Fits(f, n) == f = [i \in 1 .. n |-> IF i = 1 THEN s[i] ELSE f[i - 1] \o s[i]]
           T == {n \in Nat : \E f : Fits(f, n)}
<1>1. 0 \in T
  <2>1. Fits([i \in 1 .. 0 |-> 0], 0)
    OBVIOUS
  <2>2. QED BY <2>1
<1>2. ASSUME NEW n \in Nat, n \in T PROVE n + 1 \in T
  <2>1. PICK f : Fits(f, n)
    BY <1>2
  <2> DEFINE g == [i \in 1 .. n + 1 |-> IF i \in 1 .. n THEN f[i]
                     ELSE IF i = 1 THEN s[i] ELSE f[i - 1] \o s[i]]
  <2>2. ASSUME NEW i \in 1 .. n + 1
        PROVE g[i] = IF i = 1 THEN s[i] ELSE g[i - 1] \o s[i]
    <3>1. CASE i \in 1 .. n
      <4>1. g[i] = f[i]
        BY <3>1
      <4>2. f[i] = IF i = 1 THEN s[i] ELSE f[i - 1] \o s[i]
        BY <2>1, <3>1
      <4>3. i # 1 => g[i - 1] = f[i - 1]
        BY <3>1
      <4> HIDE DEF g
      <4>4. QED  BY <4>1, <4>2, <4>3
    <3>2. CASE i = n + 1
      <4>1. g[i] = IF i = 1 THEN s[i] ELSE f[i - 1] \o s[i]
        BY <3>2
      <4>2. i # 1 => g[i - 1] = f[i - 1]
        BY <3>2
      <4> HIDE DEF g
      <4>3. QED  BY <4>1, <4>2
    <3>3. QED  BY <3>1, <3>2
  <2>3. Fits(g, n + 1)
    BY <2>2
  <2>4. \E h : Fits(h, n + 1)
    <3> HIDE DEF g, Fits
    <3>1. QED  BY <2>3
  <2>5. n + 1 \in Nat
    OBVIOUS
  <2> HIDE DEF Fits
  <2>6. QED  BY <2>4, <2>5
<1>3. N \in T
  <2> HIDE DEF T
  <2>1. QED BY <1>1, <1>2, Induction
<1>4. PICK f : Fits(f, N)
  BY <1>3
<1> DEFINE ch == CHOOSE f1 : Fits(f1, N)
<1>5. Fits(ch, N)
  BY <1>4
<1>6. Len(s) = N /\ N # 0
  BY LenProperties
<1>7. FlattenSeq(s) = ch[N]
  BY <1>6 DEF FlattenSeq
<1> HIDE DEF ch
<1>8. QED  BY <1>5, <1>7

LEMMA Constants ==
  /\ BlockSize \in Nat \ {0} /\ LongHeader \in 1 .. BlockSize
  /\ Lengths \subseteq 1 .. BlockSize /\ MaxBytes \in Nat /\ MaxLosses \in Nat
BY BlockSizeAssumption, SizesAssumption

LEMMA BlockFields ==
  ASSUME NEW b \in Block
  PROVE  b.data \in Seq(Bytes) /\ b.room \in 0 .. BlockSize
BY DEF Block, Bytes

LEMMA MakeBlock ==
  ASSUME NEW d \in Seq(Bytes), NEW r \in 0 .. BlockSize
  PROVE  [data |-> d, room |-> r] \in Block
BY DEF Block, Bytes

-----------------------------------------------------------------------------
(* What the blocks of a chain hold. *)

LEMMA DataOf ==
  ASSUME NEW q \in Seq(Block), NEW n \in 0 .. Len(q)
  PROVE  /\ [i \in 1 .. n |-> q[i].data] \in [1 .. n -> Seq(Bytes)]
         /\ Len([i \in 1 .. n |-> q[i].data]) = n
<1>1. Len(q) \in Nat /\ n \in Nat
  BY LenProperties
<1>2. ASSUME NEW i \in 1 .. n PROVE q[i].data \in Seq(Bytes)
  <2>1. i \in 1 .. Len(q)
    BY <1>1
  <2>2. q[i] \in Block
    BY <2>1, ElementOfSeq
  <2>3. QED  BY <2>2, BlockFields
<1>3. [i \in 1 .. n |-> q[i].data] \in [1 .. n -> Seq(Bytes)]
  BY <1>2
<1>4. [i \in 1 .. n |-> q[i].data] \in Seq(Seq(Bytes))
  BY <1>1, <1>3
<1>5. Len([i \in 1 .. n |-> q[i].data]) = n
  BY <1>1
<1>6. QED  BY <1>3, <1>5

LEMMA FlatNone == \A q : Flat(q, 0) = <<>>
<1>1. TAKE q
<1>2. [i \in 1 .. 0 |-> q[i].data] = <<>> /\ Len(<<>>) = 0
  OBVIOUS
<1>3. FlattenSeq(<<>>) = <<>>
  BY <1>2 DEF FlattenSeq
<1>4. QED  BY <1>2, <1>3 DEF Flat

(* The blocks hold the same when their data are the same.                  *)
LEMMA FlatSame ==
  ASSUME NEW p, NEW q, NEW n, \A i \in 1 .. n : p[i].data = q[i].data
  PROVE  Flat(p, n) = Flat(q, n)
<1>1. [i \in 1 .. n |-> p[i].data] = [i \in 1 .. n |-> q[i].data]
  OBVIOUS
<1>2. QED  BY <1>1 DEF Flat

LEMMA FlatOne ==
  ASSUME NEW q \in Seq(Block), Len(q) >= 1
  PROVE  Flat(q, 1) = q[1].data
<1>1. Len(q) \in Nat /\ 1 \in 0 .. Len(q)
  BY LenProperties
<1> DEFINE s == [i \in 1 .. 1 |-> q[i].data]
<1>2. s \in [1 .. 1 -> Seq(Bytes)] /\ s[1] = q[1].data
  BY <1>1, DataOf
<1> HIDE DEF s
<1>3. PICK f : /\ f = [i \in 1 .. 1 |-> IF i = 1 THEN s[i] ELSE f[i - 1] \o s[i]]
               /\ FlattenSeq(s) = f[1]
  <2>1. 1 \in Nat \ {0}
    OBVIOUS
  <2>2. QED  BY <1>2, <2>1, FlattenStep
<1>4. f[1] = s[1]
  BY <1>3
<1>5. QED  BY <1>2, <1>3, <1>4 DEF Flat, s

LEMMA Assoc ==
  ASSUME NEW s \in Seq(Bytes), NEW t \in Seq(Bytes), NEW u \in Seq(Bytes)
  PROVE  (s \o t) \o u = s \o (t \o u)
<1>1. s \o t \in Seq(Bytes) /\ t \o u \in Seq(Bytes)
  BY ConcatProperties
<1>2. /\ Len(s) \in Nat /\ Len(t) \in Nat /\ Len(u) \in Nat
      /\ Len(s \o t) = Len(s) + Len(t) /\ Len(t \o u) = Len(t) + Len(u)
  BY LenProperties, ConcatProperties
<1> DEFINE l == (s \o t) \o u
           r == s \o (t \o u)
           n == Len(s) + Len(t) + Len(u)
<1>3. /\ l \in Seq(Bytes) /\ Len(l) = n
      /\ \A i \in 1 .. n : l[i] = IF i <= Len(s \o t) THEN (s \o t)[i] ELSE u[i - Len(s \o t)]
  BY <1>1, <1>2, ConcatProperties
<1>4. /\ r \in Seq(Bytes) /\ Len(r) = n
      /\ \A i \in 1 .. n : r[i] = IF i <= Len(s) THEN s[i] ELSE (t \o u)[i - Len(s)]
  BY <1>1, <1>2, ConcatProperties
<1>5. /\ \A i \in 1 .. Len(s) + Len(t) : (s \o t)[i] = IF i <= Len(s) THEN s[i] ELSE t[i - Len(s)]
      /\ \A i \in 1 .. Len(t) + Len(u) : (t \o u)[i] = IF i <= Len(t) THEN t[i] ELSE u[i - Len(t)]
  BY ConcatProperties
<1> HIDE DEF l, r
<1>6. ASSUME NEW i \in 1 .. n PROVE l[i] = r[i]
  <2>1. CASE i <= Len(s)
    <3>1. i <= Len(s \o t) /\ i \in 1 .. Len(s) + Len(t)
      BY <1>2, <2>1
    <3>2. QED  BY <1>3, <1>4, <1>5, <2>1, <3>1
  <2>2. CASE Len(s) < i /\ i <= Len(s) + Len(t)
    <3>1. /\ i <= Len(s \o t) /\ i \in 1 .. Len(s) + Len(t) /\ ~(i <= Len(s))
          /\ i - Len(s) \in 1 .. Len(t) + Len(u) /\ i - Len(s) <= Len(t)
      BY <1>2, <2>2
    <3>2. l[i] = t[i - Len(s)]
      BY <1>3, <1>5, <3>1
    <3>3. r[i] = t[i - Len(s)]
      BY <1>4, <1>5, <3>1
    <3>4. QED  BY <3>2, <3>3
  <2>3. CASE Len(s) + Len(t) < i
    <3>1. /\ ~(i <= Len(s \o t)) /\ ~(i <= Len(s))
          /\ i - Len(s) \in 1 .. Len(t) + Len(u) /\ ~(i - Len(s) <= Len(t))
          /\ i - Len(s \o t) = (i - Len(s)) - Len(t)
      BY <1>2, <2>3
    <3>2. l[i] = u[i - Len(s \o t)]
      BY <1>3, <3>1
    <3>3. r[i] = u[(i - Len(s)) - Len(t)]
      BY <1>4, <1>5, <3>1
    <3>4. QED  BY <3>1, <3>2, <3>3
  <2>4. QED  BY <1>2, <2>1, <2>2, <2>3
<1>7. l = r
  BY <1>3, <1>4, <1>6, SeqEqual
<1>8. QED  BY <1>7 DEF l, r

LEMMA FlatMore ==
  ASSUME NEW q \in Seq(Block), NEW n \in Nat, n < Len(q)
  PROVE  /\ q[n + 1].data \in Seq(Bytes)
         /\ Flat(q, n + 1) = Flat(q, n) \o q[n + 1].data
<1>1. Len(q) \in Nat /\ n + 1 \in 1 .. Len(q) /\ n + 1 \in 0 .. Len(q) /\ n \in 0 .. Len(q)
  BY LenProperties
<1>2. q[n + 1].data \in Seq(Bytes)
  <2>1. q[n + 1] \in Block
    BY <1>1, ElementOfSeq
  <2>2. QED  BY <2>1, BlockFields
<1>3. CASE n = 0
  <2>1. Flat(q, 1) = q[1].data /\ Flat(q, 0) = <<>>
    BY <1>1, FlatOne, FlatNone
  <2>2. <<>> \o q[1].data = q[1].data
    BY <1>2, <1>3, ConcatEmptySeq
  <2>3. QED  BY <1>2, <1>3, <2>1, <2>2
<1>4. CASE n # 0
  <2> DEFINE s == [i \in 1 .. n |-> q[i].data]
             t == [i \in 1 .. n + 1 |-> q[i].data]
  <2>1. s \in [1 .. n -> Seq(Bytes)] /\ t \in [1 .. n + 1 -> Seq(Bytes)]
    BY <1>1, DataOf
  <2>2. \A i \in 1 .. n : s[i] = t[i]
    OBVIOUS
  <2>3. t[n + 1] = q[n + 1].data
    BY <1>1
  <2>4. Flat(q, n) = FlattenSeq(s) /\ Flat(q, n + 1) = FlattenSeq(t)
    BY DEF Flat
  <2> HIDE DEF s, t
  <2>5. n \in Nat \ {0} /\ n + 1 \in Nat \ {0}
    BY <1>4
  <2>6. PICK f : /\ f = [i \in 1 .. n |-> IF i = 1 THEN s[i] ELSE f[i - 1] \o s[i]]
                 /\ FlattenSeq(s) = f[n]
    BY <2>1, <2>5, FlattenStep
  <2>7. PICK g : /\ g = [i \in 1 .. n + 1 |-> IF i = 1 THEN t[i] ELSE g[i - 1] \o t[i]]
                 /\ FlattenSeq(t) = g[n + 1]
    BY <2>1, <2>5, FlattenStep
  <2>8. \A i \in 1 .. n : f[i] = IF i = 1 THEN s[i] ELSE f[i - 1] \o s[i]
    BY <2>6
  <2>9. \A i \in 1 .. n + 1 : g[i] = IF i = 1 THEN t[i] ELSE g[i - 1] \o t[i]
    BY <2>7
  <2> DEFINE T == {i \in Nat : i \in 1 .. n => f[i] = g[i]}
  <2>10. 0 \in T
    OBVIOUS
  <2>11. ASSUME NEW i \in Nat, i \in T PROVE i + 1 \in T
    <3>1. SUFFICES ASSUME i + 1 \in 1 .. n PROVE f[i + 1] = g[i + 1]
      OBVIOUS
    <3>2. i + 1 \in 1 .. n + 1 /\ s[i + 1] = t[i + 1]
      BY <2>2, <3>1
    <3>3. CASE i = 0
      BY <2>8, <2>9, <3>1, <3>2, <3>3
    <3>4. CASE i # 0
      <4>1. i + 1 # 1 /\ (i + 1) - 1 = i /\ i \in 1 .. n
        BY <3>1, <3>4
      <4>2. f[i] = g[i]
        BY <2>11, <4>1
      <4>3. f[i + 1] = f[i] \o s[i + 1]
        BY <2>8, <3>1, <4>1
      <4>4. g[i + 1] = g[i] \o t[i + 1]
        BY <2>9, <3>2, <4>1
      <4>5. QED  BY <3>2, <4>2, <4>3, <4>4
    <3>5. QED  BY <3>3, <3>4
  <2>12. n \in T
    <3> HIDE DEF T
    <3>1. QED  BY <2>10, <2>11, Induction
  <2>13. f[n] = g[n]
    BY <2>5, <2>12
  <2>14. g[n + 1] = g[n] \o t[n + 1]
    <3>1. n + 1 # 1 /\ (n + 1) - 1 = n /\ n + 1 \in 1 .. n + 1
      BY <2>5
    <3>2. QED  BY <2>9, <3>1
  <2>15. QED  BY <1>2, <2>3, <2>4, <2>6, <2>7, <2>13, <2>14
<1>5. QED  BY <1>3, <1>4

LEMMA FlatType ==
  ASSUME NEW q \in Seq(Block), NEW n \in 0 .. Len(q)
  PROVE  Flat(q, n) \in Seq(Bytes)
<1>1. Len(q) \in Nat /\ n \in Nat
  BY LenProperties
<1> DEFINE T == {k \in Nat : k <= Len(q) => Flat(q, k) \in Seq(Bytes)}
<1>2. 0 \in T
  BY FlatNone, EmptySeq
<1>3. ASSUME NEW k \in Nat, k \in T PROVE k + 1 \in T
  <2>1. SUFFICES ASSUME k + 1 <= Len(q) PROVE Flat(q, k + 1) \in Seq(Bytes)
    OBVIOUS
  <2>2. k < Len(q) /\ Flat(q, k) \in Seq(Bytes)
    BY <1>1, <1>3, <2>1
  <2>3. q[k + 1].data \in Seq(Bytes) /\ Flat(q, k + 1) = Flat(q, k) \o q[k + 1].data
    BY <2>2, FlatMore
  <2>4. QED  BY <2>2, <2>3, ConcatProperties
<1>4. n \in T
  <2> HIDE DEF T
  <2>1. QED  BY <1>1, <1>2, <1>3, Induction
<1>5. QED  BY <1>1, <1>4

(* What follows the first k blocks.                                        *)
LEMMA RestOf ==
  ASSUME NEW q \in Seq(Block), NEW k \in 0 .. Len(q)
  PROVE  LET s == SubSeq(q, k + 1, Len(q)) IN
         /\ s \in Seq(Block) /\ Len(s) = Len(q) - k
         /\ \A i \in 1 .. Len(q) - k : s[i] = q[k + i]
<1> DEFINE s == SubSeq(q, k + 1, Len(q))
<1>1. Len(q) \in Nat /\ k \in Nat /\ k <= Len(q) /\ k + 1 \in Int /\ Len(q) \in Int
  BY LenProperties
<1>2. \A i \in k + 1 .. Len(q) : q[i] \in Block
  <2>1. TAKE i \in k + 1 .. Len(q)
  <2>2. i \in 1 .. Len(q)
    BY <1>1
  <2>3. QED  BY <2>2, ElementOfSeq
<1>3. /\ s \in Seq(Block)
      /\ Len(s) = IF k + 1 <= Len(q) THEN Len(q) - (k + 1) + 1 ELSE 0
      /\ \A i \in 1 .. Len(q) - (k + 1) + 1 : s[i] = q[(k + 1) + i - 1]
  BY <1>1, <1>2, SubSeqProperties
<1>4. Len(s) = Len(q) - k
  BY <1>1, <1>3
<1>5. \A i \in 1 .. Len(q) - k : s[i] = q[k + i]
  <2>1. TAKE i \in 1 .. Len(q) - k
  <2>2. i \in 1 .. Len(q) - (k + 1) + 1 /\ (k + 1) + i - 1 = k + i
    BY <1>1
  <2> HIDE DEF s
  <2>3. QED  BY <1>3, <2>2
<1>6. QED  BY <1>3, <1>4, <1>5

LEMMA FlatSplit ==
  ASSUME NEW q \in Seq(Block), NEW k \in 0 .. Len(q)
  PROVE  /\ Held(SubSeq(q, k + 1, Len(q))) \in Seq(Bytes)
         /\ Held(q) = Flat(q, k) \o Held(SubSeq(q, k + 1, Len(q)))
<1> DEFINE s == SubSeq(q, k + 1, Len(q))
<1>1. Len(q) \in Nat /\ k \in Nat /\ Len(q) - k \in Nat
  BY LenProperties
<1>2. s \in Seq(Block) /\ Len(s) = Len(q) - k
      /\ \A i \in 1 .. Len(q) - k : s[i] = q[k + i]
  BY RestOf
<1> HIDE DEF s
<1>3. Flat(q, k) \in Seq(Bytes)
  BY FlatType
<1> DEFINE T == {n \in Nat : n <= Len(q) - k => Flat(q, k + n) = Flat(q, k) \o Flat(s, n)}
<1>4. 0 \in T
  <2>1. Flat(s, 0) = <<>> /\ k + 0 = k
    BY <1>1, FlatNone
  <2>2. Flat(q, k) \o <<>> = Flat(q, k)
    BY <1>3, ConcatEmptySeq
  <2>3. QED  BY <2>1, <2>2
<1>5. ASSUME NEW n \in Nat, n \in T PROVE n + 1 \in T
  <2>1. SUFFICES ASSUME n + 1 <= Len(q) - k
                 PROVE  Flat(q, k + (n + 1)) = Flat(q, k) \o Flat(s, n + 1)
    OBVIOUS
  <2>2. /\ k + n \in Nat /\ k + n < Len(q) /\ k + (n + 1) = (k + n) + 1
        /\ n <= Len(q) - k /\ n < Len(s) /\ n \in 0 .. Len(s) /\ n + 1 \in 1 .. Len(q) - k
    BY <1>1, <1>2, <2>1
  <2>3. Flat(q, k + n) = Flat(q, k) \o Flat(s, n)
    BY <1>5, <2>2
  <2>4. Flat(q, (k + n) + 1) = Flat(q, k + n) \o q[(k + n) + 1].data
    BY <2>2, FlatMore
  <2>5. /\ s[n + 1].data \in Seq(Bytes)
        /\ Flat(s, n + 1) = Flat(s, n) \o s[n + 1].data
    BY <1>2, <2>2, FlatMore
  <2>6. q[(k + n) + 1].data = s[n + 1].data
    BY <1>2, <2>2
  <2>7. Flat(s, n) \in Seq(Bytes)
    BY <1>2, <2>2, FlatType
  <2>8. (Flat(q, k) \o Flat(s, n)) \o s[n + 1].data = Flat(q, k) \o (Flat(s, n) \o s[n + 1].data)
    BY <1>3, <2>5, <2>7, Assoc, Zenon
  <2>9. QED  BY <2>2, <2>3, <2>4, <2>5, <2>6, <2>8
<1>6. Len(q) - k \in T
  <2> HIDE DEF T
  <2>1. QED  BY <1>1, <1>4, <1>5, Induction
<1>7. k + (Len(q) - k) = Len(q) /\ Len(s) \in 0 .. Len(s)
  BY <1>1, <1>2
<1>8. Held(q) = Flat(q, k) \o Held(s)
  BY <1>1, <1>2, <1>6, <1>7 DEF Held
<1>9. Held(s) \in Seq(Bytes)
  BY <1>2, <1>7, FlatType DEF Held
<1>10. QED  BY <1>8, <1>9 DEF s

(* A chain whose last block is b.                                          *)
LEMMA HeldLast ==
  ASSUME NEW q \in Seq(Block), Len(q) > 0
  PROVE  /\ Flat(q, Len(q) - 1) \in Seq(Bytes) /\ q[Len(q)].data \in Seq(Bytes)
         /\ Held(q) = Flat(q, Len(q) - 1) \o q[Len(q)].data
<1>1. /\ Len(q) \in Nat /\ Len(q) - 1 \in Nat /\ Len(q) - 1 < Len(q)
      /\ (Len(q) - 1) + 1 = Len(q) /\ Len(q) - 1 \in 0 .. Len(q)
  BY LenProperties
<1>2. Flat(q, Len(q) - 1) \in Seq(Bytes)
  BY <1>1, FlatType
<1>3. q[(Len(q) - 1) + 1].data \in Seq(Bytes)
      /\ Flat(q, (Len(q) - 1) + 1) = Flat(q, Len(q) - 1) \o q[(Len(q) - 1) + 1].data
  BY <1>1, FlatMore
<1>4. QED  BY <1>1, <1>2, <1>3 DEF Held

-----------------------------------------------------------------------------
(* Rising bytes. *)

LEMMA NoneRising == \A lo, hi : Rising(<<>>, lo, hi)
<1>1. <<>> \in Seq(Bytes) /\ Len(<<>>) = 0
  BY EmptySeq
<1>2. QED  BY <1>1 DEF Rising

LEMMA RisingThenRising ==
  ASSUME NEW a \in Nat, NEW b \in Nat, NEW ch \in Nat, a <= b, b <= ch,
         NEW s, NEW t, Rising(s, a, b), Rising(t, b, ch)
  PROVE  Rising(s \o t, a, ch)
<1>1. /\ s \in Seq(Bytes) /\ t \in Seq(Bytes)
      /\ \A i \in 1 .. Len(s) : a < s[i] /\ s[i] <= b
      /\ \A i \in 1 .. Len(t) : b < t[i] /\ t[i] <= ch
      /\ \A i, j \in 1 .. Len(s) : i < j => s[i] < s[j]
      /\ \A i, j \in 1 .. Len(t) : i < j => t[i] < t[j]
  BY DEF Rising
<1>2. Len(s) \in Nat /\ Len(t) \in Nat
  BY <1>1, LenProperties
<1> DEFINE u == s \o t
<1>3. /\ u \in Seq(Bytes) /\ Len(u) = Len(s) + Len(t)
      /\ \A i \in 1 .. Len(s) + Len(t) : u[i] = IF i <= Len(s) THEN s[i] ELSE t[i - Len(s)]
  BY <1>1, ConcatProperties
<1> HIDE DEF u
<1>4. \A i \in 1 .. Len(s) : s[i] \in Nat
  <2>1. \A i \in 1 .. Len(s) : s[i] \in Bytes
    BY <1>1, ElementOfSeq
  <2>2. QED  BY <2>1, Constants DEF Bytes
<1>5. \A i \in 1 .. Len(t) : t[i] \in Nat
  <2>1. \A i \in 1 .. Len(t) : t[i] \in Bytes
    BY <1>1, ElementOfSeq
  <2>2. QED  BY <2>1, Constants DEF Bytes
<1>6. ASSUME NEW i \in 1 .. Len(u)
      PROVE  \/ i \in 1 .. Len(s) /\ u[i] = s[i]
             \/ i > Len(s) /\ i - Len(s) \in 1 .. Len(t) /\ u[i] = t[i - Len(s)]
  BY <1>2, <1>3
<1>7. ASSUME NEW i \in 1 .. Len(u) PROVE a < u[i] /\ u[i] <= ch
  <2>1. CASE i \in 1 .. Len(s) /\ u[i] = s[i]
    BY <1>1, <1>4, <2>1
  <2>2. CASE i - Len(s) \in 1 .. Len(t) /\ u[i] = t[i - Len(s)]
    <3> DEFINE j == i - Len(s)
    <3>1. j \in 1 .. Len(t) /\ u[i] = t[j]
      BY <2>2
    <3> HIDE DEF j
    <3>2. QED  BY <1>1, <1>5, <3>1
  <2>3. QED  BY <1>6, <2>1, <2>2
<1>8. ASSUME NEW i \in 1 .. Len(u), NEW j \in 1 .. Len(u), i < j PROVE u[i] < u[j]
  <2>1. CASE i \in 1 .. Len(s) /\ u[i] = s[i] /\ j \in 1 .. Len(s) /\ u[j] = s[j]
    BY <1>1, <1>8, <2>1
  <2>2. CASE /\ i \in 1 .. Len(s) /\ u[i] = s[i]
             /\ j - Len(s) \in 1 .. Len(t) /\ u[j] = t[j - Len(s)]
    <3>1. s[i] <= b /\ b < t[j - Len(s)] /\ s[i] \in Nat /\ t[j - Len(s)] \in Nat
      BY <1>1, <1>4, <1>5, <2>2
    <3>2. QED  BY <2>2, <3>1
  <2>3. CASE /\ i - Len(s) \in 1 .. Len(t) /\ u[i] = t[i - Len(s)]
             /\ j - Len(s) \in 1 .. Len(t) /\ u[j] = t[j - Len(s)]
    <3>1. i - Len(s) < j - Len(s)
      BY <1>2, <1>8
    <3>2. QED  BY <1>1, <2>3, <3>1
  <2>4. CASE i > Len(s) /\ j \in 1 .. Len(s)
    BY <1>2, <1>8, <2>4
  <2>5. QED  BY <1>6, <2>1, <2>2, <2>3, <2>4
<1>9. QED  BY <1>3, <1>7, <1>8 DEF Rising, u

LEMMA NumberedIs ==
  ASSUME NEW k \in Nat, NEW len \in Nat, k + len <= MaxBytes
  PROVE  /\ Numbered(k, len) \in Seq(Bytes) /\ Len(Numbered(k, len)) = len
         /\ \A i \in 1 .. len : Numbered(k, len)[i] = k + i
<1>1. \A i \in 1 .. len : k + i \in Bytes
  BY Constants DEF Bytes
<1> DEFINE s == [i \in 1 .. len |-> k + i]
<1>2. s \in [1 .. len -> Bytes]
  BY <1>1
<1>3. s \in Seq(Bytes)
  BY <1>2
<1>4. Len(s) = len /\ \A i \in 1 .. len : s[i] = k + i
  OBVIOUS
<1> HIDE DEF s
<1>5. QED  BY <1>3, <1>4 DEF Numbered, s

LEMMA NumberedThenNumbered ==
  ASSUME NEW m \in Nat, NEW n \in Nat, m + n <= MaxBytes
  PROVE  Numbered(0, m) \o Numbered(m, n) = Numbered(0, m + n)
<1>1. 0 \in Nat /\ 0 + m <= MaxBytes /\ m + n \in Nat /\ 0 + (m + n) <= MaxBytes
  BY Constants
<1> DEFINE s == Numbered(0, m)
           t == Numbered(m, n)
           u == Numbered(0, m + n)
           v == s \o t
<1>2. s \in Seq(Bytes) /\ Len(s) = m /\ \A i \in 1 .. m : s[i] = 0 + i
  BY <1>1, NumberedIs
<1>3. t \in Seq(Bytes) /\ Len(t) = n /\ \A i \in 1 .. n : t[i] = m + i
  BY <1>1, NumberedIs
<1>4. u \in Seq(Bytes) /\ Len(u) = m + n /\ \A i \in 1 .. m + n : u[i] = 0 + i
  BY <1>1, NumberedIs
<1> HIDE DEF s, t, u
<1>5. /\ v \in Seq(Bytes) /\ Len(v) = m + n
      /\ \A i \in 1 .. m + n : v[i] = IF i <= m THEN s[i] ELSE t[i - m]
  BY <1>2, <1>3, ConcatProperties
<1> HIDE DEF v
<1>6. ASSUME NEW i \in 1 .. m + n PROVE v[i] = u[i]
  <2>1. CASE i <= m
    <3>1. i \in 1 .. m
      BY <2>1
    <3>2. QED  BY <1>2, <1>4, <1>5, <2>1, <3>1
  <2>2. CASE ~(i <= m)
    <3>1. i - m \in 1 .. n /\ m + (i - m) = 0 + i
      BY <2>2
    <3>2. QED  BY <1>3, <1>4, <1>5, <2>2, <3>1
  <2>3. QED  BY <2>1, <2>2
<1>7. v = u
  BY <1>4, <1>5, <1>6, SeqEqual
<1>8. QED  BY <1>7 DEF s, t, u, v

(* The last of some bytes: those after the first y.                        *)
LEMMA LastRising ==
  ASSUME NEW k \in Nat, NEW len \in Nat, k + len <= MaxBytes, NEW y \in 0 .. len
  PROVE  LET b == Numbered(k, len)
             t == SubSeq(b, y + 1, Len(b))
         IN Rising(t, k, k + len) /\ Len(t) = len - y
<1> DEFINE b == Numbered(k, len)
           t == SubSeq(b, y + 1, Len(b))
<1>1. /\ b \in Seq(Bytes) /\ Len(b) = len
      /\ \A i \in 1 .. len : b[i] = k + i
  BY NumberedIs
<1> HIDE DEF b
<1>2. \A i \in y + 1 .. len : b[i] \in Bytes
  <2>1. \A i \in y + 1 .. len : i \in 1 .. Len(b)
    BY <1>1
  <2>2. QED  BY <1>1, <2>1, ElementOfSeq
<1>3. /\ t \in Seq(Bytes)
      /\ Len(t) = IF y + 1 <= len THEN len - (y + 1) + 1 ELSE 0
      /\ \A i \in 1 .. len - (y + 1) + 1 : t[i] = b[(y + 1) + i - 1]
  <2>1. y + 1 \in Int /\ len \in Int
    OBVIOUS
  <2>2. QED  BY <1>1, <1>2, <2>1, SubSeqProperties
<1> HIDE DEF t
<1>4. Len(t) = len - y
  BY <1>3
<1>5. \A i \in 1 .. len - y : t[i] = k + y + i
  <2>1. TAKE i \in 1 .. len - y
  <2>2. /\ i \in 1 .. len - (y + 1) + 1 /\ (y + 1) + i - 1 = y + i /\ y + i \in 1 .. len
        /\ k + (y + i) = k + y + i
    OBVIOUS
  <2>3. QED  BY <1>1, <1>3, <2>2
<1>6. Rising(t, k, k + len)
  BY <1>3, <1>4, <1>5 DEF Rising
<1>7. QED  BY <1>4, <1>6 DEF t, b

-----------------------------------------------------------------------------
(* write_out. *)

LEMMA FillHolds ==
  ASSUME NEW q \in Seq(Block), Len(q) > 0, NEW b \in Seq(Bytes), Len(b) <= Last(q).room
  PROVE  /\ Fill(q, b) \in Seq(Block) /\ Len(Fill(q, b)) = Len(q)
         /\ Held(Fill(q, b)) = Held(q) \o b
         /\ Last(Fill(q, b)).room = Last(q).room - Len(b)
<1> DEFINE n == Len(q)
           e == [data |-> q[n].data \o b, room |-> q[n].room - Len(b)]
           f == [q EXCEPT ![n] = e]
<1>1. n \in Nat /\ n \in 1 .. n /\ Len(b) \in Nat
  BY LenProperties
<1>2. Last(q) = q[n] /\ q[n] \in Block
  BY <1>1, ElementOfSeq DEF Last
<1>3. q[n].data \in Seq(Bytes) /\ q[n].room \in 0 .. BlockSize /\ BlockSize \in Nat
  BY <1>2, BlockFields, Constants
<1>4. q[n].data \o b \in Seq(Bytes)
  BY <1>3, ConcatProperties
<1>5. q[n].room - Len(b) \in 0 .. BlockSize
  BY <1>1, <1>2, <1>3
<1>6. e \in Block /\ e.data = q[n].data \o b /\ e.room = q[n].room - Len(b)
  BY <1>4, <1>5, MakeBlock
<1>7. Fill(q, b) = f
  BY DEF Fill
<1> HIDE DEF e
<1>8. /\ f \in Seq(Block) /\ Len(f) = n
      /\ \A j \in 1 .. n : f[j] = IF j = n THEN e ELSE q[j]
  BY <1>1, <1>6, ExceptSeq
<1> HIDE DEF f
<1>9. Held(f) = Flat(f, n - 1) \o f[n].data
  BY <1>1, <1>8, HeldLast
<1>10. Flat(f, n - 1) = Flat(q, n - 1)
  <2>1. \A i \in 1 .. n - 1 : f[i].data = q[i].data
    BY <1>1, <1>8
  <2>2. QED  BY <2>1, FlatSame
<1>11. f[n] = e
  BY <1>1, <1>8
<1>12. /\ Flat(q, n - 1) \in Seq(Bytes)
       /\ Held(q) = Flat(q, n - 1) \o q[n].data
  BY <1>1, HeldLast
<1>13. (Flat(q, n - 1) \o q[n].data) \o b = Flat(q, n - 1) \o (q[n].data \o b)
  BY <1>3, <1>12, Assoc, Zenon
<1>14. Held(f) = Held(q) \o b
  BY <1>6, <1>9, <1>10, <1>11, <1>12, <1>13
<1>15. Last(f).room = Last(q).room - Len(b)
  BY <1>2, <1>6, <1>8, <1>11 DEF Last
<1>16. QED  BY <1>7, <1>8, <1>14, <1>15

LEMMA NewBlock ==
  /\ new_connection_buffer \in Block
  /\ new_connection_buffer.data = <<>> /\ new_connection_buffer.room = BlockSize
<1>1. <<>> \in Seq(Bytes)
  BY EmptySeq
<1>2. BlockSize \in 0 .. BlockSize
  BY Constants
<1>3. QED  BY <1>1, <1>2, MakeBlock DEF new_connection_buffer

(* A new block holds nothing yet.                                          *)
LEMMA AppendHolds ==
  ASSUME NEW q \in Seq(Block)
  PROVE  LET a == Append(q, new_connection_buffer) IN
         /\ a \in Seq(Block) /\ Len(a) > 0
         /\ Held(a) = Held(q) /\ Last(a).room = BlockSize
<1> DEFINE n == Len(q)
           a == Append(q, new_connection_buffer)
<1>1. n \in Nat /\ n \in 0 .. n
  BY LenProperties
<1>2. /\ a \in Seq(Block) /\ Len(a) = n + 1
      /\ \A i \in 1 .. n : a[i] = q[i]
      /\ a[n + 1] = new_connection_buffer
  BY NewBlock, AppendProperties
<1> HIDE DEF a
<1>3. Held(a) = Flat(a, n) \o a[n + 1].data
  <2>1. (n + 1) - 1 = n /\ Len(a) > 0
    BY <1>1, <1>2
  <2>2. QED  BY <1>2, <2>1, HeldLast
<1>4. Flat(a, n) = Held(q)
  BY <1>2, FlatSame DEF Held
<1>5. Held(q) \in Seq(Bytes)
  BY <1>1, FlatType DEF Held
<1>6. Held(q) \o <<>> = Held(q)
  BY <1>5, ConcatEmptySeq
<1>7. Held(a) = Held(q) /\ Last(a).room = BlockSize
  BY <1>2, <1>3, <1>4, <1>6, NewBlock DEF Last
<1>8. Len(a) > 0
  BY <1>1, <1>2
<1>9. QED  BY <1>2, <1>7, <1>8 DEF a

(* What write_out takes of what it is given.                               *)
Taken(q, b) ==
  IF Len(b) <= Last(q).room THEN b ELSE SubSeq(b, Last(q).room + 1, Len(b))

LEMMA WriteHolds ==
  ASSUME NEW q \in Seq(Block), Len(q) > 0, NEW k \in Nat, NEW len \in 0 .. BlockSize,
         k + len <= MaxBytes
  PROVE  LET b == Numbered(k, len)
             w == write_out(q, b)
         IN /\ w \in Seq(Block) /\ Len(w) > 0
            /\ Held(w) = Held(q) \o Taken(q, b)
            /\ Rising(Taken(q, b), k, k + len)
            /\ len <= Last(q).room => /\ Taken(q, b) = b
                                      /\ Last(w).room = Last(q).room - len
<1> DEFINE b == Numbered(k, len)
           w == write_out(q, b)
           y == Last(q).room
<1>1. len \in Nat /\ BlockSize \in Nat
  BY Constants
<1>2. b \in Seq(Bytes) /\ Len(b) = len
  BY <1>1, NumberedIs
<1>3. y \in 0 .. BlockSize
  <2>1. Len(q) \in 1 .. Len(q)
    BY LenProperties
  <2>2. q[Len(q)] \in Block
    BY <2>1, ElementOfSeq
  <2>3. QED  BY <2>2, BlockFields DEF Last
<1>4. CASE len <= y
  <2>1. w = Fill(q, b) /\ Taken(q, b) = b
    BY <1>2, <1>4 DEF write_out, Taken
  <2>2. Rising(b, k, k + len)
    <3>1. 0 \in 0 .. len /\ 0 + 1 = 1
      BY <1>1
    <3>2. Rising(SubSeq(b, 0 + 1, Len(b)), k, k + len)
      BY <1>1, <3>1, LastRising
    <3> HIDE DEF b
    <3>3. SubSeq(b, 1, Len(b)) = b
      BY <1>2, SubSeqFull
    <3>4. SubSeq(b, 0 + 1, Len(b)) = b
      BY <3>1, <3>3
    <3>5. QED  BY <3>2, <3>4
  <2> HIDE DEF b
  <2>3. QED  BY <1>2, <1>4, <2>1, <2>2, FillHolds DEF b
<1>5. CASE ~(len <= y)
  <2> DEFINE t == SubSeq(b, y + 1, Len(b))
             a == Append(q, new_connection_buffer)
  <2>1. w = Fill(a, t) /\ Taken(q, b) = t
    BY <1>2, <1>5 DEF write_out, Taken
  <2>2. y \in 0 .. len
    BY <1>1, <1>3, <1>5
  <2>3. Rising(t, k, k + len) /\ Len(t) = len - y
    BY <1>1, <2>2, LastRising
  <2>4. t \in Seq(Bytes)
    BY <2>3 DEF Rising
  <2>5. /\ a \in Seq(Block) /\ Len(a) > 0
        /\ Held(a) = Held(q) /\ Last(a).room = BlockSize
    BY AppendHolds
  <2>6. Len(t) <= BlockSize
    BY <1>1, <2>2, <2>3
  <2> HIDE DEF t, a
  <2>7. /\ Fill(a, t) \in Seq(Block) /\ Len(Fill(a, t)) = Len(a)
        /\ Held(Fill(a, t)) = Held(a) \o t
    BY <2>4, <2>5, <2>6, FillHolds
  <2>8. QED  BY <1>5, <2>1, <2>3, <2>5, <2>7
<1>6. QED  BY <1>4, <1>5

LEMMA ChainHolds ==
  ASSUME out \in Seq(Block)
  PROVE  /\ Chain(out) \in Seq(Block) /\ Len(Chain(out)) > 0
         /\ Held(Chain(out)) = Pending /\ Pending \in Seq(Bytes)
<1>1. Pending = Held(out)
  BY DEF Pending
<1>2. Held(out) \in Seq(Bytes)
  <2>1. Len(out) \in 0 .. Len(out)
    BY LenProperties
  <2>2. QED  BY <2>1, FlatType DEF Held
<1>3. CASE out = <<>>
  <2>1. Append(<<>>, new_connection_buffer) = <<new_connection_buffer>>
    OBVIOUS
  <2>2. QED  BY <1>1, <1>2, <1>3, <2>1, AppendHolds DEF Chain
<1>4. CASE out # <<>>
  <2>1. Len(out) > 0
    BY <1>4, EmptySeq
  <2>2. QED  BY <1>1, <1>2, <1>4, <2>1 DEF Chain
<1>5. QED  BY <1>3, <1>4

-----------------------------------------------------------------------------
(* try_write and read_in. *)

(* What is used is the front of what the blocks hold.                      *)
LEMMA FrontAndRest ==
  ASSUME NEW q \in Seq(Block), NEW k \in 1 .. Len(q), NEW r \in Nat, IsPlace(q, k, r)
  PROVE  /\ From(q, k, r) \in Seq(Block) /\ Upto(q, k, r) \in Seq(Bytes)
         /\ Held(From(q, k, r)) \in Seq(Bytes)
         /\ Upto(q, k, r) \o Held(From(q, k, r)) = Held(q)
<1> DEFINE w == From(q, k, r)
           n == Len(q)
           A == Flat(q, k - 1)
           D == q[k].data
           R == Held(SubSeq(q, k + 1, n))
           F == SubSeq(D, 1, r)
           G == SubSeq(D, r + 1, Len(D))
<1>0. SUFFICES /\ w \in Seq(Block) /\ Upto(q, k, r) \in Seq(Bytes)
               /\ Held(w) \in Seq(Bytes) /\ Upto(q, k, r) \o Held(w) = Held(q)
  OBVIOUS
<1>1. /\ q \in Seq(Block) /\ n \in Nat /\ k \in Nat /\ k \in 0 .. n
      /\ k - 1 \in Nat /\ k - 1 < n /\ (k - 1) + 1 = k /\ k - 1 \in 0 .. n
  BY LenProperties
<1>2. q[k] \in Block /\ D \in Seq(Bytes) /\ Len(D) \in Nat
  <2>1. q[k] \in Block
    BY <1>1, ElementOfSeq
  <2>2. D \in Seq(Bytes)
    BY <2>1, BlockFields
  <2>3. QED  BY <2>1, <2>2, LenProperties
<1>3. r \in 1 .. Len(D)
  BY DEF IsPlace
<1>4. A \in Seq(Bytes)
  BY <1>1, FlatType
<1>5. Flat(q, k) = A \o D
  <2>1. Flat(q, (k - 1) + 1) = Flat(q, k - 1) \o q[(k - 1) + 1].data
    BY <1>1, FlatMore
  <2>2. QED  BY <1>1, <2>1
<1>6. R \in Seq(Bytes) /\ Held(q) = Flat(q, k) \o R
  BY <1>1, FlatSplit
<1>8. Upto(q, k, r) = A \o F
  <2>1. [i \in 1 .. k - 1 |-> q[i].data] = [i \in 1 .. k - 1 |-> q[i].data]
    OBVIOUS
  <2>2. QED  BY DEF Upto, Flat
<1>9. F \o G = D /\ F \in Seq(Bytes) /\ G \in Seq(Bytes)
  <2>1. 1 \in 1 .. Len(D) + 1 /\ r \in 1 - 1 .. Len(D) /\ Len(D) \in r .. Len(D)
    BY <1>2, <1>3
  <2>2. SubSeq(D, 1, r) \o SubSeq(D, r + 1, Len(D)) = SubSeq(D, 1, Len(D))
    BY <1>2, <2>1, ConcatAdjacentSubSeq
  <2>3. SubSeq(D, 1, Len(D)) = D
    BY <1>2, SubSeqFull
  <2>4. \A i \in 1 .. Len(D) : D[i] \in Bytes
    BY <1>2, ElementOfSeq
  <2>5. (\A i \in 1 .. r : D[i] \in Bytes) /\ (\A i \in r + 1 .. Len(D) : D[i] \in Bytes)
    BY <1>2, <1>3, <2>4
  <2>6. 1 \in Int /\ r \in Int /\ r + 1 \in Int /\ Len(D) \in Int
    BY <1>2
  <2>7. F \in Seq(Bytes) /\ G \in Seq(Bytes)
    BY <2>5, <2>6, SubSeqProperties
  <2>8. QED  BY <2>2, <2>3, <2>7
<1>10. Upto(q, k, r) \in Seq(Bytes)
  BY <1>4, <1>8, <1>9, ConcatProperties
<1>11. CASE r = Len(D)
  <2>1. w = SubSeq(q, k + 1, n)
    BY <1>11 DEF From
  <2>2. w \in Seq(Block)
    BY <1>1, <2>1, RestOf
  <2> HIDE DEF w
  <2>3. F = D
    BY <1>2, <1>11, SubSeqFull
  <2>4. QED  BY <1>5, <1>6, <1>8, <1>10, <2>1, <2>2, <2>3
<1>12. CASE r # Len(D)
  <2> DEFINE S == SubSeq(q, k, n)
             e == [data |-> G, room |-> q[k].room]
             o == [S EXCEPT ![1] = e]
             Q == SubSeq(o, 2, Len(o))
  <2>1. S \in Seq(Block) /\ Len(S) = n - (k - 1) /\ \A i \in 1 .. n - (k - 1) : S[i] = q[(k - 1) + i]
    BY <1>1, RestOf
  <2>2. 1 \in 1 .. Len(S) /\ S[1] = q[k] /\ Len(S) \in Nat
    BY <1>1, <2>1
  <2>3. w = o
    <3>1. w = [S EXCEPT ![1].data = SubSeq(@, r + 1, Len(@))]
      BY <1>12 DEF From
    <3>2. w = [S EXCEPT ![1] = [S[1] EXCEPT !.data = SubSeq(@, r + 1, Len(@))]]
      BY <3>1
    <3>3. [q[k] EXCEPT !.data = SubSeq(@, r + 1, Len(@))] = e
      <4>1. q[k] = [data |-> q[k].data, room |-> q[k].room]
        BY <1>2 DEF Block
      <4> DEFINE x == q[k]
                 g == SubSeq(x.data, r + 1, Len(x.data))
                 z == x.room
      <4>2. x = [data |-> x.data, room |-> z]
        BY <4>1
      <4> HIDE DEF x, z, g
      <4>3. [x EXCEPT !.data = g] = [data |-> g, room |-> z]
        BY <4>2
      <4>4. QED  BY <4>3 DEF x, z, g
    <3>4. QED  BY <2>2, <3>2, <3>3
  <2>4. e \in Block /\ e.data = G
    <3>1. q[k].room \in 0 .. BlockSize
      BY <1>2, BlockFields
    <3>2. QED  BY <1>9, <3>1, MakeBlock
  <2> HIDE DEF S, e
  <2>5. /\ o \in Seq(Block) /\ Len(o) = Len(S)
        /\ \A j \in 1 .. Len(S) : o[j] = IF j = 1 THEN e ELSE S[j]
    BY <2>1, <2>2, <2>4, ExceptSeq
  <2> HIDE DEF o
  <2>6. Held(Q) \in Seq(Bytes) /\ Held(o) = Flat(o, 1) \o Held(Q)
    <3>1. 1 \in 0 .. Len(o) /\ 1 + 1 = 2
      BY <2>2, <2>5
    <3>2. /\ Held(SubSeq(o, 1 + 1, Len(o))) \in Seq(Bytes)
          /\ Held(o) = Flat(o, 1) \o Held(SubSeq(o, 1 + 1, Len(o)))
      BY <2>5, <3>1, FlatSplit
    <3>3. QED  BY <3>1, <3>2
  <2>7. Flat(o, 1) = G
    <3>1. Flat(o, 1) = o[1].data
      BY <2>2, <2>5, FlatOne
    <3>2. QED  BY <2>2, <2>4, <2>5, <3>1
  <2>8. Held(Q) = R
    <3> DEFINE P == SubSeq(q, k + 1, n)
    <3>1. P \in Seq(Block) /\ Len(P) = n - k /\ \A i \in 1 .. n - k : P[i] = q[k + i]
      BY <1>1, RestOf
    <3>2. Q \in Seq(Block) /\ Len(Q) = Len(o) - 1 /\ \A i \in 1 .. Len(o) - 1 : Q[i] = o[1 + i]
      <4>1. 1 \in 0 .. Len(o) /\ 1 + 1 = 2
        BY <2>2, <2>5
      <4>2. LET s == SubSeq(o, 1 + 1, Len(o)) IN
            s \in Seq(Block) /\ Len(s) = Len(o) - 1 /\ \A i \in 1 .. Len(o) - 1 : s[i] = o[1 + i]
        BY <2>5, <4>1, RestOf
      <4>3. QED  BY <4>1, <4>2
    <3> HIDE DEF P, Q
    <3>3. Len(Q) = n - k /\ Len(P) = n - k
      BY <1>1, <2>1, <2>5, <3>1, <3>2
    <3>4. ASSUME NEW i \in 1 .. n - k PROVE Q[i].data = P[i].data
      <4>1. /\ i \in 1 .. Len(o) - 1 /\ 1 + i \in 1 .. Len(S) /\ 1 + i # 1
            /\ 1 + i \in 1 .. n - (k - 1) /\ (k - 1) + (1 + i) = k + i
        BY <1>1, <2>1, <2>5
      <4>2. Q[i] = S[1 + i]
        BY <2>5, <3>2, <4>1
      <4>3. S[1 + i] = q[k + i]
        BY <2>1, <4>1
      <4>4. QED  BY <3>1, <4>2, <4>3
    <3>5. Flat(Q, n - k) = Flat(P, n - k)
      BY <3>4, FlatSame
    <3>6. Held(Q) = Held(P)
      BY <3>3, <3>5 DEF Held
    <3>7. QED  BY <3>6 DEF P
  <2> HIDE DEF Q, R, G, F, A, D, w
  <2>9. Held(o) = G \o R
    BY <2>6, <2>7, <2>8
  <2>10. (A \o F) \o (G \o R) = (A \o D) \o R
    <3>1. (A \o F) \o (G \o R) = A \o (F \o (G \o R))
      <4>1. G \o R \in Seq(Bytes)
        BY <1>6, <1>9, ConcatProperties
      <4>2. QED  BY <1>4, <1>9, <4>1, Assoc, Zenon
    <3>2. F \o (G \o R) = D \o R
      <4>1. (F \o G) \o R = F \o (G \o R)
        BY <1>6, <1>9, Assoc, Zenon
      <4>2. QED  BY <1>9, <4>1
    <3>3. A \o (D \o R) = (A \o D) \o R
      BY <1>2, <1>4, <1>6, Assoc, Zenon
    <3>4. QED  BY <3>1, <3>2, <3>3
  <2>11. G \o R \in Seq(Bytes)
    BY <1>6, <1>9, ConcatProperties
  <2>12. QED  BY <1>5, <1>6, <1>8, <1>10, <2>3, <2>5, <2>9, <2>10, <2>11
<1>13. QED  BY <1>11, <1>12

-----------------------------------------------------------------------------
(* The invariant. *)

LEMMA InitInv == OutInit => OutInv
<1>1. SUFFICES ASSUME OutInit PROVE OutInv
  OBVIOUS
<1>2. out = <<>> /\ wire = <<>> /\ out_bytes = 0 /\ accepted = 0 /\ fitted = TRUE /\ losses = 0
  BY <1>1 DEF OutInit
<1>3. <<>> \in Seq(Block) /\ <<>> \in Seq(Bytes) /\ Len(<<>>) = 0
  BY EmptySeq
<1>4. Pending = <<>>
  BY <1>2, <1>3, FlatNone DEF Pending, Held
<1>5. wire \o Pending = <<>>
  BY <1>2, <1>3, <1>4, ConcatEmptySeq
<1>6. OutTypeOK
  BY <1>2, <1>3, Constants DEF OutTypeOK, Bytes
<1>7. Numbered(0, 0) = <<>>
  BY DEF Numbered
<1>8. BytesCounted
  <2>1. Len(wire) = 0
    BY <1>2, <1>3, Zenon
  <2>2. accepted = 0 /\ out_bytes = 0
    BY <1>2
  <2>3. QED  BY <2>1, <2>2 DEF BytesCounted
<1>9. FittingIsKept
  BY <1>2, <1>5, <1>7 DEF FittingIsKept, NothingLost
<1>10. QED  BY <1>5, <1>6, <1>8, <1>9, NoneRising DEF OutInv

LEMMA SendMessageKeeps ==
  ASSUME OutInv, NEW len \in Lengths, rpc_send_message(len)
  PROVE  OutInv'
<1> DEFINE h == Header(len)
           b == Numbered(accepted, h)
           d == Numbered(accepted + h, len)
           v == write_out(Chain(out), b)
           w == write_out(v, d)
           s == Taken(Chain(out), b)
           t == Taken(v, d)
<1>1. /\ accepted \in Nat /\ h \in 0 .. BlockSize /\ len \in 0 .. BlockSize
      /\ h \in Nat /\ len \in Nat /\ accepted + h \in Nat
      /\ accepted + h <= MaxBytes /\ (accepted + h) + len <= MaxBytes
      /\ BlockSize \in Nat /\ MaxBytes \in Nat
  <2>1. accepted \in Nat /\ len \in 1 .. BlockSize
    BY Constants DEF OutInv, OutTypeOK
  <2>2. h \in 1 .. BlockSize
    BY Constants DEF Header
  <2>3. accepted + h + len <= MaxBytes
    BY DEF rpc_send_message
  <2> HIDE DEF h
  <2>4. QED  BY <2>1, <2>2, <2>3, Constants
<1>2. /\ out' = w /\ out_bytes' = out_bytes + h + len /\ accepted' = accepted + h + len
      /\ fitted' = (fitted /\ h + len <= Last(Chain(out)).room)
      /\ wire' = wire /\ losses' = losses
  BY DEF rpc_send_message
<1>3. OutTypeOK /\ BytesCounted /\ FittingIsKept /\ Rising(wire \o Pending, 0, accepted)
  BY DEF OutInv
<1>4. /\ out_bytes \in Int /\ accepted \in 0 .. MaxBytes /\ wire \in Seq(Bytes)
      /\ fitted \in BOOLEAN /\ losses \in 0 .. MaxLosses
  BY <1>3 DEF OutTypeOK, Bytes
<1> HIDE DEF h
<1>5. /\ Chain(out) \in Seq(Block) /\ Len(Chain(out)) > 0
      /\ Held(Chain(out)) = Pending /\ Pending \in Seq(Bytes)
  BY <1>3, ChainHolds DEF OutTypeOK
<1>6. /\ v \in Seq(Block) /\ Len(v) > 0 /\ Held(v) = Held(Chain(out)) \o s
      /\ Rising(s, accepted, accepted + h)
      /\ h <= Last(Chain(out)).room => s = b /\ Last(v).room = Last(Chain(out)).room - h
  BY <1>1, <1>5, WriteHolds
<1> HIDE DEF v, s
<1>7. /\ w \in Seq(Block) /\ Held(w) = Held(v) \o t
      /\ Rising(t, accepted + h, (accepted + h) + len)
      /\ len <= Last(v).room => t = d
  BY <1>1, <1>6, WriteHolds
<1> HIDE DEF w, t
<1>8. Pending' = (Pending \o s) \o t
  <2>1. Pending' = Held(w)
    BY <1>2 DEF Pending
  <2>2. QED  BY <1>5, <1>6, <1>7, <2>1
<1>9. s \in Seq(Bytes) /\ t \in Seq(Bytes)
  BY <1>6, <1>7 DEF Rising
<1>10. wire' \o Pending' = ((wire \o Pending) \o s) \o t
  <2>1. Pending \o s \in Seq(Bytes)
    BY <1>5, <1>9, ConcatProperties
  <2>2. (wire \o (Pending \o s)) \o t = wire \o ((Pending \o s) \o t)
    BY <1>4, <1>9, <2>1, Assoc, Zenon
  <2>3. (wire \o Pending) \o s = wire \o (Pending \o s)
    BY <1>4, <1>5, <1>9, Assoc, Zenon
  <2>4. QED  BY <1>2, <1>8, <2>2, <2>3
<1>11. accepted' = (accepted + h) + len /\ accepted' \in 0 .. MaxBytes
       /\ out_bytes' \in Int
  BY <1>1, <1>2, <1>4
<1>12. Rising(wire' \o Pending', 0, accepted')
  <2>1. Rising((wire \o Pending) \o s, 0, accepted + h)
    BY <1>1, <1>3, <1>6, RisingThenRising
  <2>2. Rising(((wire \o Pending) \o s) \o t, 0, (accepted + h) + len)
    BY <1>1, <1>7, <2>1, RisingThenRising
  <2>3. QED  BY <1>10, <1>11, <2>2
<1>13. FittingIsKept'
  <2>1. SUFFICES ASSUME fitted' PROVE wire' \o Pending' = Numbered(0, accepted')
    BY DEF FittingIsKept, NothingLost
  <2>2. fitted /\ h + len <= Last(Chain(out)).room
    BY <1>2, <2>1
  <2>3. Last(Chain(out)).room \in 0 .. BlockSize
    <3>1. Len(Chain(out)) \in 1 .. Len(Chain(out))
      BY <1>5, LenProperties
    <3>2. Chain(out)[Len(Chain(out))] \in Block
      BY <1>5, <3>1, ElementOfSeq
    <3>3. QED  BY <3>2, BlockFields DEF Last
  <2>4. s = b /\ t = d
    BY <1>1, <1>6, <1>7, <2>2, <2>3
  <2>5. wire \o Pending = Numbered(0, accepted)
    BY <1>3, <2>2 DEF FittingIsKept, NothingLost
  <2>6. Numbered(0, accepted) \o b = Numbered(0, accepted + h)
    BY <1>1, NumberedThenNumbered
  <2>7. Numbered(0, accepted + h) \o d = Numbered(0, (accepted + h) + len)
    BY <1>1, NumberedThenNumbered
  <2>8. QED  BY <1>10, <1>11, <2>4, <2>5, <2>6, <2>7
<1>14. BytesCounted'
  <2>1. Len(wire) \in Nat
    BY <1>4, LenProperties
  <2>2. QED  BY <1>1, <1>2, <1>3, <1>4, <2>1 DEF BytesCounted
<1>15. OutTypeOK'
  BY <1>2, <1>4, <1>7, <1>11 DEF OutTypeOK, Bytes
<1>16. QED  BY <1>12, <1>13, <1>14, <1>15 DEF OutInv

LEMMA TryWriteKeeps ==
  ASSUME OutInv, NEW k \in 1 .. Len(out), NEW r \in 1 .. BlockSize, try_write_out(k, r)
  PROVE  OutInv'
<1> DEFINE u == Upto(out, k, r)
<1>1. OutTypeOK /\ BytesCounted /\ FittingIsKept /\ Rising(wire \o Pending, 0, accepted)
  BY DEF OutInv
<1>2. /\ out_bytes \in Int /\ accepted \in 0 .. MaxBytes /\ wire \in Seq(Bytes)
      /\ fitted \in BOOLEAN /\ losses \in 0 .. MaxLosses
  BY <1>1 DEF OutTypeOK, Bytes
<1>3. /\ wire' = wire \o u /\ out_bytes' = out_bytes - Len(u)
      /\ accepted' = accepted /\ fitted' = fitted /\ losses' = losses
  BY DEF try_write_out
<1>4. /\ out' \in Seq(Block) /\ u \in Seq(Bytes) /\ Pending' \in Seq(Bytes)
      /\ u \o Pending' = Pending
  <2>1. r \in Nat
    BY Constants
  <2>2. out \in Seq(Block) /\ k \in 1 .. Len(out) /\ IsPlace(out, k, r) /\ out' = From(out, k, r)
    BY <1>1 DEF OutTypeOK, try_write_out, IsPlace
  <2>3. Pending = Held(out) /\ Pending' = Held(out')
    BY DEF Pending
  <2>4. QED  BY <2>1, <2>2, <2>3, FrontAndRest
<1> HIDE DEF u
<1>5. wire' \o Pending' = wire \o Pending
  <2>1. (wire \o u) \o Pending' = wire \o (u \o Pending')
    BY <1>2, <1>4, Assoc, Zenon
  <2>2. QED  BY <1>3, <1>4, <2>1
<1>6. wire' \in Seq(Bytes) /\ Len(wire') = Len(wire) + Len(u)
  BY <1>2, <1>3, <1>4, ConcatProperties
<1>7. Len(wire) \in Nat /\ Len(u) \in Nat
  BY <1>2, <1>4, LenProperties
<1>8. BytesCounted'
  BY <1>1, <1>2, <1>3, <1>6, <1>7 DEF BytesCounted
<1>9. OutTypeOK'
  BY <1>2, <1>3, <1>4, <1>6, <1>7 DEF OutTypeOK, Bytes
<1>10. FittingIsKept'
  BY <1>1, <1>3, <1>5 DEF FittingIsKept, NothingLost
<1>11. Rising(wire' \o Pending', 0, accepted')
  BY <1>1, <1>3, <1>5
<1>12. QED  BY <1>8, <1>9, <1>10, <1>11 DEF OutInv

LEMMA FailKeeps ==
  ASSUME OutInv, fail_connection_out
  PROVE  OutInv'
<1>1. /\ out' = <<>> /\ wire' = <<>> /\ out_bytes' = 0 /\ accepted' = 0
      /\ fitted' = TRUE /\ losses < MaxLosses /\ losses' = losses + 1
  BY DEF fail_connection_out
<1>2. <<>> \in Seq(Block) /\ <<>> \in Seq(Bytes) /\ Len(<<>>) = 0
  BY EmptySeq
<1>3. Pending' = <<>>
  BY <1>1, <1>2, FlatNone DEF Pending, Held
<1>4. wire' \o Pending' = <<>>
  BY <1>1, <1>2, <1>3, ConcatEmptySeq
<1>5. losses' \in 0 .. MaxLosses
  BY <1>1, Constants DEF OutInv, OutTypeOK
<1>6. OutTypeOK'
  BY <1>1, <1>2, <1>5, Constants DEF OutTypeOK, Bytes
<1>7. Numbered(0, 0) = <<>>
  BY DEF Numbered
<1>8. BytesCounted'
  <2>1. Len(wire') = 0
    BY <1>1, <1>2, Zenon
  <2>2. accepted' = 0 /\ out_bytes' = 0
    BY <1>1
  <2>3. QED  BY <2>1, <2>2 DEF BytesCounted
<1>9. FittingIsKept'
  BY <1>1, <1>4, <1>7 DEF FittingIsKept, NothingLost
<1>10. QED  BY <1>1, <1>4, <1>6, <1>8, <1>9, NoneRising DEF OutInv

LEMMA StepInv == OutInv /\ [OutNext]_out_vars => OutInv'
<1>1. SUFFICES ASSUME OutInv, [OutNext]_out_vars PROVE OutInv'
  OBVIOUS
<1>2. ASSUME NEW len \in Lengths, rpc_send_message(len) PROVE OutInv'
  BY <1>1, <1>2, SendMessageKeeps
<1>3. ASSUME NEW k \in 1 .. Len(out), NEW r \in 1 .. BlockSize, try_write_out(k, r) PROVE OutInv'
  BY <1>1, <1>3, TryWriteKeeps
<1>4. CASE fail_connection_out
  BY <1>1, <1>4, FailKeeps
<1>5. CASE UNCHANGED out_vars
  BY <1>1, <1>5 DEF OutInv, OutTypeOK, BytesCounted, FittingIsKept, NothingLost, Pending, out_vars
<1>6. QED  BY <1>1, <1>2, <1>3, <1>4, <1>5 DEF OutNext

LEMMA InvHolds == OutSpec => []OutInv
BY InitInv, StepInv, PTL DEF OutSpec

LEMMA InvShows == OutInv => FittingIsKept /\ InOrderAndCounted
<1>1. SUFFICES ASSUME OutInv PROVE FittingIsKept /\ InOrderAndCounted
  OBVIOUS
<1>2. OutTypeOK /\ BytesCounted /\ FittingIsKept /\ Rising(wire \o Pending, 0, accepted)
  BY <1>1 DEF OutInv
<1>3. InOrder
  BY <1>2 DEF Rising, InOrder
<1>4. QED  BY <1>2, <1>3 DEF InOrderAndCounted

(* FittingIsKept: as long as each write of rpc_send_message fits into the  *)
(* last block, what was sent and what is buffered are what was written, in *)
(* its order, for blocks and packets of any size and however little each   *)
(* call of write takes.                                                    *)
THEOREM FittingAlwaysKept == OutSpec => []FittingIsKept
BY InvHolds, InvShows, PTL

(* InOrderAndCounted: whatever write_out loses when a packet spans blocks, *)
(* what is sent and buffered is in order, no byte of it twice, and         *)
(* out_bytes is what was accepted and not sent.                            *)
THEOREM AlwaysInOrder == OutSpec => []InOrderAndCounted
BY InvHolds, InvShows, PTL

-----------------------------------------------------------------------------
(* The connection.  OneTimer is not inductive: that fail_connection may    *)
(* run on a connection that has failed already, and that a poll result may *)
(* meet a connection that is gone, depends on what each phase of the loop  *)
(* knows of the earlier ones.  ConnInv adds that knowledge.                *)

(* A connection between two calls of net.c: its timer serves its state,    *)
(* and a failed one has no socket.                                         *)
Sound(d) ==
  /\ d \in ConnectionRecord /\ d.fault = "none"
  /\ d.ev = IF d.state = "failed" THEN "fail" ELSE "ping"
  /\ d.in_fail_timer <=> d.state = "failed"
  /\ d.registered <=> d.state # "failed"
  /\ d.state = "failed" => d.peer = "closed"

(* A timer is due only from the wait in poll until work_timers, and ten    *)
(* seconds have then passed since the last connect.                        *)
DueInTimers == c.due => ~c.this_second /\ phase \in {"poll", "timers"}

(* No event is polled for, or reported of, a connection that had failed    *)
(* before the poll array was made.                                         *)
NotPolled ==
  /\ phase = "poll" /\ ~c.registered => fds = {}
  /\ phase = "timers" /\ ~c.registered => revents = {}

(* One that failed in work_timers, with results waiting, was refused.      *)
RefusedInTimers == phase = "read" /\ ~c.registered /\ revents # {} => c.refused > 0

(* One that failed in connections_poll_result_read, before its hang-up is  *)
(* handled, has tried to connect in the second of the failure.             *)
TriedInRead ==
  phase = "rest" /\ c.state = "failed" /\ "HUP" \in revents =>
    "IN" \in revents \cap Handled(mode) /\ (c.this_second \/ ticked)

Steps == DueInTimers /\ NotPolled /\ RefusedInTimers /\ TriedInRead

ConnInv ==
  /\ TypeOK
  /\ c.fault \in {"none", "null connection", "timer inserted twice"}
  /\ NullAfterRefusal /\ InsertedOnce
  /\ Running => Sound(c) /\ Steps

-----------------------------------------------------------------------------
(* The functions of net.c. *)

(* A field of a connection is set to a value of its type.                  *)
LEMMA NameSet ==
  ASSUME NEW d \in ConnectionRecord
  PROVE  /\ \A x \in {"connecting", "ready", "failed"} :
              [d EXCEPT !.state = x] \in ConnectionRecord
         /\ \A x \in {"none", "ping", "fail"} : [d EXCEPT !.ev = x] \in ConnectionRecord
         /\ \A x \in {"syn", "up", "mute", "eof", "reset", "closed"} :
              [d EXCEPT !.peer = x] \in ConnectionRecord
BY DEF ConnectionRecord

LEMMA SilenceSet ==
  ASSUME NEW d \in ConnectionRecord, NEW x \in 0 .. 2
  PROVE  [d EXCEPT !.silence = x] \in ConnectionRecord
BY DEF ConnectionRecord

LEMMA RefusedSet ==
  ASSUME NEW d \in ConnectionRecord, NEW x \in 0 .. MaxRefused
  PROVE  [d EXCEPT !.refused = x] \in ConnectionRecord
BY DEF ConnectionRecord

LEMMA FaultSet ==
  ASSUME NEW d \in ConnectionRecord, NEW x \in Faults
  PROVE  [d EXCEPT !.fault = x] \in ConnectionRecord
BY DEF ConnectionRecord

LEMMA FlagSet ==
  ASSUME NEW d \in ConnectionRecord
  PROVE  \A x \in BOOLEAN :
           /\ [d EXCEPT !.registered = x] \in ConnectionRecord
           /\ [d EXCEPT !.due = x] \in ConnectionRecord
           /\ [d EXCEPT !.in_fail_timer = x] \in ConnectionRecord
           /\ [d EXCEPT !.this_second = x] \in ConnectionRecord
           /\ [d EXCEPT !.out_bytes = x] \in ConnectionRecord
           /\ [d EXCEPT !.heard = x] \in ConnectionRecord
<1>1. \A x \in BOOLEAN : [d EXCEPT !.registered = x] \in ConnectionRecord
  BY DEF ConnectionRecord
<1>2. \A x \in BOOLEAN : [d EXCEPT !.due = x] \in ConnectionRecord
  BY DEF ConnectionRecord
<1>3. \A x \in BOOLEAN : [d EXCEPT !.in_fail_timer = x] \in ConnectionRecord
  BY DEF ConnectionRecord
<1>4. \A x \in BOOLEAN : [d EXCEPT !.this_second = x] \in ConnectionRecord
  BY DEF ConnectionRecord
<1>5. \A x \in BOOLEAN : [d EXCEPT !.out_bytes = x] \in ConnectionRecord
  BY DEF ConnectionRecord
<1>6. \A x \in BOOLEAN : [d EXCEPT !.heard = x] \in ConnectionRecord
  BY DEF ConnectionRecord
<1>7. QED  BY <1>1, <1>2, <1>3, <1>4, <1>5, <1>6

(* What fail_connection does to every connection before it restarts it.    *)
Closed(d) == [d EXCEPT !.state = "failed", !.registered = FALSE,
                       !.out_bytes = FALSE, !.peer = "closed",
                       !.heard = FALSE, !.port = rotate_port(@)]

LEMMA ClosedFields ==
  ASSUME NEW d \in ConnectionRecord
  PROVE  /\ Closed(d) \in ConnectionRecord
         /\ Closed(d).fault = d.fault /\ Closed(d).in_fail_timer = d.in_fail_timer
         /\ Closed(d).ev = d.ev /\ Closed(d).due = d.due
         /\ Closed(d).this_second = d.this_second
         /\ Closed(d).state = "failed" /\ ~Closed(d).registered
         /\ Closed(d).peer = "closed"
<1> DEFINE a == [d EXCEPT !.state = "failed", !.registered = FALSE, !.out_bytes = FALSE]
           b == [a EXCEPT !.peer = "closed", !.heard = FALSE]
           p == rotate_port(d.port)
<1>1. p \in {443, 80, 25}
  BY DEF ConnectionRecord, rotate_port
<1>2. a \in ConnectionRecord
  BY NameSet, FlagSet
<1>3. b \in ConnectionRecord
  <2> HIDE DEF a
  <2>1. QED  BY <1>2, NameSet, FlagSet
<1>4. [b EXCEPT !.port = p] \in ConnectionRecord
  <2> HIDE DEF b, p
  <2>1. \A x \in {443, 80, 25} : [b EXCEPT !.port = x] \in ConnectionRecord
    BY <1>3 DEF ConnectionRecord
  <2>2. QED  BY <1>1, <2>1
<1>5. Closed(d) = [b EXCEPT !.port = p]
  BY DEF Closed, ConnectionRecord
<1>6. Closed(d) \in ConnectionRecord
  BY <1>4, <1>5
<1>7. QED  BY <1>6 DEF Closed, ConnectionRecord

(* What restart_connection leaves of a failed connection that has no timer: *)
(* one that connects, or one that will be retried and has tried in this    *)
(* second.                                                                 *)
LEMMA Restarted ==
  ASSUME NEW d \in ConnectionRecord, d.fault = "none", d.ev = "none",
         ~d.in_fail_timer, d.state = "failed", ~d.registered,
         d.peer = "closed", ~d.due, NEW e \in restart_connection(d)
  PROVE  /\ Sound(e) /\ ~e.due
         /\ e.state = "failed" => e.this_second
         /\ e.state = "failed" /\ ~d.this_second => e.refused > 0
<1>1. CASE d.this_second
  <2>1. e = [d EXCEPT !.in_fail_timer = TRUE, !.ev = "fail", !.due = FALSE]
    BY <1>1 DEF restart_connection, start_fail_timer, insert_event_timer, ConnectionRecord
  <2>2. e \in ConnectionRecord
    BY <2>1, NameSet, FlagSet
  <2>3. /\ e.fault = "none" /\ e.ev = "fail" /\ e.in_fail_timer /\ e.state = "failed"
        /\ ~e.registered /\ e.peer = "closed" /\ ~e.due /\ e.this_second
    BY <2>1, <1>1 DEF ConnectionRecord
  <2>4. QED  BY <2>2, <2>3, <1>1 DEF Sound
<1>2. CASE ~d.this_second
  <2>1. CASE e = [d EXCEPT !.this_second = TRUE, !.state = "connecting", !.silence = 0,
                    !.peer = "syn", !.ev = "ping", !.due = FALSE,
                    !.registered = TRUE, !.out_bytes = TRUE]
    <3>1. e \in ConnectionRecord
      <4> DEFINE a == [d EXCEPT !.this_second = TRUE, !.state = "connecting",
                                !.silence = 0, !.peer = "syn"]
      <4>1. [d EXCEPT !.this_second = TRUE, !.state = "connecting"] \in ConnectionRecord
        BY NameSet, FlagSet
      <4>2. 0 \in 0 .. 2
        OBVIOUS
      <4>3. [d EXCEPT !.this_second = TRUE, !.state = "connecting", !.silence = 0]
              \in ConnectionRecord
        BY <4>1, <4>2, SilenceSet
      <4>4. a \in ConnectionRecord
        BY <4>3, NameSet
      <4>5. e = [a EXCEPT !.ev = "ping", !.due = FALSE, !.registered = TRUE,
                          !.out_bytes = TRUE]
        BY <2>1
      <4> HIDE DEF a
      <4>6. QED  BY <4>4, <4>5, NameSet, FlagSet
    <3>2. /\ e.fault = "none" /\ e.ev = "ping" /\ ~e.in_fail_timer
          /\ e.state = "connecting" /\ e.registered /\ ~e.due
      BY <2>1 DEF ConnectionRecord
    <3>3. QED  BY <3>1, <3>2 DEF Sound
  <2>2. CASE /\ d.refused < MaxRefused
             /\ e = [d EXCEPT !.this_second = TRUE, !.refused = @ + 1,
                       !.in_fail_timer = TRUE, !.ev = "fail", !.due = FALSE]
    <3>1. d.refused \in 0 .. MaxRefused /\ MaxRefused \in Nat
      BY BoundsAssumption DEF ConnectionRecord
    <3>2. d.refused + 1 \in 0 .. MaxRefused
      BY <2>2, <3>1
    <3>3. e \in ConnectionRecord
      BY <2>2, <3>2, RefusedSet, NameSet, FlagSet
    <3>4. /\ e.fault = "none" /\ e.ev = "fail" /\ e.in_fail_timer /\ e.state = "failed"
          /\ ~e.registered /\ e.peer = "closed" /\ ~e.due /\ e.this_second
          /\ e.refused = d.refused + 1
      BY <2>2 DEF ConnectionRecord
    <3>5. QED  BY <3>1, <3>3, <3>4 DEF Sound
  <2>3. QED
    BY <1>2, <2>1, <2>2
    DEF restart_connection, start_fail_timer, start_ping_timer, insert_event_timer,
        ConnectionRecord
<1>3. QED  BY <1>1, <1>2

(* fail_connection keeps the timer in step if the connection is alive, or  *)
(* has tried to connect in this second.                                    *)
LEMMA FailedOnce ==
  ASSUME NEW d, Sound(d), ~d.due, d.state = "failed" => d.this_second,
         NEW e \in fail_connection(d)
  PROVE  Sound(e) /\ ~e.due /\ (e.state = "failed" => e.this_second)
<1>1. d \in ConnectionRecord
  BY DEF Sound
<1>2. CASE d.state # "failed"
  <2> DEFINE s == [d EXCEPT !.ev = "none", !.due = FALSE]
  <2>1. e \in restart_connection(Closed(s))
    BY <1>2 DEF fail_connection, stop_ping_timer, remove_event_timer, Sound, Closed
  <2>2. /\ s \in ConnectionRecord /\ s.ev = "none" /\ ~s.due
        /\ s.fault = d.fault /\ s.in_fail_timer = d.in_fail_timer
    <3>1. s \in ConnectionRecord
      BY <1>1, NameSet, FlagSet
    <3>2. QED  BY <1>1, <3>1 DEF ConnectionRecord
  <2> HIDE DEF s
  <2>3. /\ Closed(s) \in ConnectionRecord /\ Closed(s).fault = "none"
        /\ Closed(s).ev = "none" /\ ~Closed(s).in_fail_timer /\ ~Closed(s).due
        /\ Closed(s).state = "failed" /\ ~Closed(s).registered
        /\ Closed(s).peer = "closed"
    BY <1>2, <2>2, ClosedFields DEF Sound
  <2>4. QED  BY <2>1, <2>3, Restarted
<1>3. CASE d.state = "failed"
  <2>1. e \in restart_connection(Closed(d))
    BY <1>3 DEF fail_connection, Closed
  <2>2. e = Closed(d)
    BY <1>1, <1>3, <2>1, ClosedFields DEF restart_connection, start_fail_timer, Sound
  <2>3. QED  BY <1>1, <1>3, <2>2, ClosedFields DEF Sound
<1>4. QED  BY <1>2, <1>3

(* What it does to one that has failed in an earlier second: unless the     *)
(* connect fails at once, the timer is inserted again.                     *)
InsertedTwice(e) == e \in ConnectionRecord /\ e.fault = "timer inserted twice"

LEMMA FailedTwice ==
  ASSUME NEW d, Sound(d), ~d.due, d.state = "failed", ~d.this_second,
         NEW e \in fail_connection(d)
  PROVE  (Sound(e) /\ ~e.due) \/ InsertedTwice(e)
<1> DEFINE g == Closed(d)
<1>1. /\ g \in ConnectionRecord /\ g.fault = "none" /\ g.ev = "fail"
      /\ g.in_fail_timer /\ ~g.due /\ g.state = "failed" /\ ~g.registered
      /\ g.peer = "closed" /\ ~g.this_second
  BY ClosedFields DEF Sound
<1>2. e \in restart_connection(g)
  BY DEF fail_connection, Closed
<1> HIDE DEF g
<1>3. CASE e = [g EXCEPT !.this_second = TRUE, !.state = "connecting", !.silence = 0,
                  !.peer = "syn", !.fault = "timer inserted twice",
                  !.registered = TRUE, !.out_bytes = TRUE]
  <2>1. [g EXCEPT !.this_second = TRUE, !.state = "connecting"] \in ConnectionRecord
    BY <1>1, NameSet, FlagSet
  <2>2. 0 \in 0 .. 2 /\ "timer inserted twice" \in Faults
    BY DEF Faults
  <2>3. [g EXCEPT !.this_second = TRUE, !.state = "connecting", !.silence = 0]
          \in ConnectionRecord
    BY <2>1, <2>2, SilenceSet
  <2> DEFINE a == [g EXCEPT !.this_second = TRUE, !.state = "connecting",
                            !.silence = 0, !.peer = "syn"]
  <2>4. a \in ConnectionRecord
    BY <2>3, NameSet
  <2>5. e = [a EXCEPT !.fault = "timer inserted twice", !.registered = TRUE,
                      !.out_bytes = TRUE]
    BY <1>3
  <2> HIDE DEF a
  <2>6. [a EXCEPT !.fault = "timer inserted twice"] \in ConnectionRecord
    BY <2>2, <2>4, FaultSet
  <2>7. e \in ConnectionRecord
    BY <2>5, <2>6, FlagSet
  <2>8. e.fault = "timer inserted twice"
    BY <2>4, <2>5 DEF ConnectionRecord
  <2>9. QED  BY <2>7, <2>8 DEF InsertedTwice
<1>4. CASE /\ g.refused < MaxRefused
           /\ e = [g EXCEPT !.this_second = TRUE, !.refused = @ + 1]
  <2>1. g.refused + 1 \in 0 .. MaxRefused
    BY <1>1, <1>4, BoundsAssumption DEF ConnectionRecord
  <2>2. e \in ConnectionRecord
    BY <1>1, <1>4, <2>1, RefusedSet, FlagSet
  <2>3. /\ e.fault = "none" /\ e.ev = "fail" /\ e.in_fail_timer /\ ~e.due
        /\ e.state = "failed" /\ ~e.registered /\ e.peer = "closed"
    BY <1>1, <1>4 DEF ConnectionRecord
  <2>4. QED  BY <2>2, <2>3 DEF Sound
<1>5. QED
  BY <1>1, <1>2, <1>3, <1>4
  DEF restart_connection, start_fail_timer, start_ping_timer, insert_event_timer, Fault,
      ConnectionRecord

(* The two alarms, run on a connection whose timer has been taken out of   *)
(* the tree.                                                               *)
LEMMA PingAlarm ==
  ASSUME NEW d, Sound(d), d.ev = "ping", ~d.this_second,
         NEW e \in ping_alarm([d EXCEPT !.ev = "none", !.due = FALSE])
  PROVE  Sound(e) /\ ~e.due /\ (e.state = "failed" => e.refused > 0)
<1> DEFINE p == [d EXCEPT !.ev = "none", !.due = FALSE]
<1>1. /\ p \in ConnectionRecord /\ p.ev = "none" /\ ~p.due /\ p.state # "failed"
      /\ p.fault = "none" /\ ~p.in_fail_timer /\ p.registered /\ ~p.this_second
  <2>1. d \in ConnectionRecord /\ d.state # "failed"
    BY DEF Sound
  <2>2. p \in ConnectionRecord
    BY <2>1, NameSet, FlagSet
  <2>3. /\ p.ev = "none" /\ ~p.due /\ p.state = d.state /\ p.fault = d.fault
        /\ p.in_fail_timer = d.in_fail_timer /\ p.registered = d.registered
        /\ p.this_second = d.this_second
    BY <2>1 DEF ConnectionRecord
  <2> HIDE DEF p
  <2>4. QED  BY <2>1, <2>2, <2>3 DEF Sound
<1> HIDE DEF p
<1>2. e \in ping_alarm(p)
  BY DEF p
<1>3. CASE p.silence = 2
  <2>1. e \in restart_connection(Closed(p))
    BY <1>1, <1>2, <1>3 DEF ping_alarm, fail_connection, Closed, ConnectionRecord
  <2>2. /\ Closed(p) \in ConnectionRecord /\ Closed(p).fault = "none"
        /\ Closed(p).ev = "none" /\ ~Closed(p).in_fail_timer /\ ~Closed(p).due
        /\ Closed(p).state = "failed" /\ ~Closed(p).registered
        /\ Closed(p).peer = "closed" /\ ~Closed(p).this_second
    BY <1>1, ClosedFields
  <2>3. QED  BY <2>1, <2>2, Restarted
<1>4. CASE p.silence # 2
  <2>1. e = [p EXCEPT !.out_bytes = @ \/ (p.silence = 1 /\ p.state = "ready"),
                      !.ev = "ping", !.due = FALSE]
    BY <1>1, <1>2, <1>4 DEF ping_alarm, start_ping_timer, insert_event_timer, ConnectionRecord
  <2>2. e \in ConnectionRecord
    <3>1. (p.out_bytes \/ (p.silence = 1 /\ p.state = "ready")) \in BOOLEAN
      OBVIOUS
    <3>2. QED  BY <1>1, <2>1, <3>1, NameSet, FlagSet
  <2>3. /\ e.fault = p.fault /\ e.in_fail_timer = p.in_fail_timer /\ e.ev = "ping"
        /\ ~e.due /\ e.state = p.state /\ e.registered = p.registered
    BY <1>1, <2>1 DEF ConnectionRecord
  <2>4. QED  BY <1>1, <2>2, <2>3 DEF Sound
<1>5. QED  BY <1>3, <1>4

LEMMA FailAlarm ==
  ASSUME NEW d, Sound(d), d.ev # "ping",
         NEW e \in fail_alarm([d EXCEPT !.ev = "none", !.due = FALSE])
  PROVE  Sound(e) /\ ~e.due /\ ~d.registered
<1> DEFINE g == [d EXCEPT !.ev = "none", !.due = FALSE, !.in_fail_timer = FALSE]
<1>1. e \in restart_connection(g)
  BY DEF fail_alarm, Sound, ConnectionRecord
<1>2. /\ g \in ConnectionRecord /\ g.fault = "none" /\ g.ev = "none"
      /\ ~g.in_fail_timer /\ g.state = "failed" /\ ~g.registered
      /\ g.peer = "closed" /\ ~g.due
  <2>1. d \in ConnectionRecord /\ d.state = "failed"
    BY DEF Sound, ConnectionRecord
  <2>2. g \in ConnectionRecord
    BY <2>1, NameSet, FlagSet
  <2>3. /\ g.fault = d.fault /\ g.ev = "none" /\ ~g.in_fail_timer /\ g.state = d.state
        /\ g.registered = d.registered /\ g.peer = d.peer /\ ~g.due
    BY <2>1 DEF ConnectionRecord
  <2> HIDE DEF g
  <2>4. QED  BY <2>1, <2>2, <2>3 DEF Sound
<1> HIDE DEF g
<1>3. ~d.registered
  BY DEF Sound
<1>4. QED  BY <1>1, <1>2, <1>3, Restarted

(* Reading, and handling the hang-up or writing.                           *)
LEMMA Read ==
  ASSUME NEW d, Sound(d), ~d.due, d.registered, NEW e \in try_read(d)
  PROVE  Sound(e) /\ ~e.due /\ (e.state = "failed" => e.this_second)
<1> SUFFICES ASSUME e # d  PROVE Sound(e) /\ ~e.due /\ (e.state = "failed" => e.this_second)
  BY DEF Sound
<1>1. CASE d.peer = "up"
  <2>1. d \in ConnectionRecord /\ d.ev = "ping" /\ d.out_bytes \in BOOLEAN
    BY DEF Sound, ConnectionRecord
  <2> DEFINE q == [d EXCEPT !.silence = 0]
             s == [q EXCEPT !.ev = "none", !.due = FALSE]
             r == [s EXCEPT !.ev = "ping", !.due = FALSE]
  <2>2. q \in ConnectionRecord /\ s \in ConnectionRecord /\ r \in ConnectionRecord
    <3>1. q \in ConnectionRecord
      <4>1. 0 \in 0 .. 2
        OBVIOUS
      <4>2. QED  BY <2>1, <4>1, SilenceSet
    <3>2. s \in ConnectionRecord
      <4> HIDE DEF q
      <4>1. QED  BY <3>1, NameSet, FlagSet
    <3>3. r \in ConnectionRecord
      <4> HIDE DEF s
      <4>1. QED  BY <3>2, RefusedSet, NameSet, FlagSet
    <3>4. QED  BY <3>1, <3>2, <3>3
  <2>3. q.ev = "ping" /\ s.ev = "none"
    BY <2>1, <2>2 DEF ConnectionRecord
  <2>4. start_ping_timer(stop_ping_timer(q)) = r
    BY <2>3 DEF start_ping_timer, stop_ping_timer, insert_event_timer, remove_event_timer
  <2>5. PICK w \in {d.out_bytes, TRUE} : e = [r EXCEPT !.out_bytes = w]
    BY <1>1, <2>4 DEF try_read
  <2>6. e \in ConnectionRecord
    BY <2>1, <2>2, <2>5, FlagSet
  <2>7. /\ r.fault = d.fault /\ r.in_fail_timer = d.in_fail_timer /\ r.ev = "ping"
        /\ ~r.due /\ r.state = d.state /\ r.registered = d.registered
    BY <2>1 DEF ConnectionRecord
  <2> HIDE DEF r
  <2>8. /\ e.fault = r.fault /\ e.in_fail_timer = r.in_fail_timer /\ e.ev = r.ev
        /\ e.due = r.due /\ e.state = r.state /\ e.registered = r.registered
    BY <2>2, <2>5 DEF ConnectionRecord
  <2>9. QED  BY <2>6, <2>7, <2>8 DEF Sound
<1>2. CASE d.peer = "reset"
  BY <1>2, FailedOnce DEF try_read, Sound
<1>3. CASE d.peer \notin {"up", "reset"}
  BY <1>3 DEF try_read, Sound
<1>4. QED  BY <1>1, <1>2, <1>3

LEMMA HupOrWrite ==
  ASSUME NEW d, Sound(d), ~d.due, NEW events, NEW e \in hup_or_write(d, events)
  PROVE  \/ Sound(e) /\ ~e.due
         \/ /\ InsertedTwice(e)
            /\ "HUP" \in events /\ d.state = "failed" /\ ~d.this_second
<1>1. CASE "HUP" \in events
  BY <1>1, FailedOnce, FailedTwice DEF hup_or_write
<1>2. CASE "HUP" \notin events /\ "OUT" \in events \cap Handled(mode)
  <2> DEFINE r == [d EXCEPT
        !.state = IF @ = "connecting" THEN "ready" ELSE @,
        !.silence = IF d.state = "connecting" THEN 0 ELSE @]
  <2>1. Sound(r) /\ ~r.due /\ (r.peer = "reset" => r.state # "failed")
    <3>1. d \in ConnectionRecord
      BY DEF Sound
    <3> DEFINE x == IF d.state = "connecting" THEN "ready" ELSE d.state
               y == IF d.state = "connecting" THEN 0 ELSE d.silence
    <3>x. x \in {"connecting", "ready", "failed"} /\ y \in 0 .. 2
      BY <3>1 DEF ConnectionRecord
    <3>y. r = [d EXCEPT !.state = x, !.silence = y]
      OBVIOUS
    <3>2. r \in ConnectionRecord
      <4> HIDE DEF x, y, r
      <4>1. QED  BY <3>1, <3>x, <3>y, NameSet, SilenceSet
    <3>3. /\ r.fault = d.fault /\ r.in_fail_timer = d.in_fail_timer /\ r.ev = d.ev
          /\ r.due = d.due /\ r.registered = d.registered /\ r.peer = d.peer
          /\ r.state = IF d.state = "connecting" THEN "ready" ELSE d.state
      BY <3>1 DEF ConnectionRecord
    <3> HIDE DEF r
    <3>4. QED  BY <3>2, <3>3 DEF Sound
  <2>2. e \in (IF d.out_bytes THEN try_write(r) ELSE {r})
    BY <1>2 DEF hup_or_write
  <2> HIDE DEF r
  <2>3. CASE e = r
    BY <2>1, <2>3
  <2>4. CASE e = [r EXCEPT !.out_bytes = FALSE, !.heard = TRUE]
    <3>1. r \in ConnectionRecord
      BY <2>1 DEF Sound
    <3>2. e \in ConnectionRecord
      BY <2>4, <3>1, FlagSet
    <3>3. /\ e.fault = r.fault /\ e.in_fail_timer = r.in_fail_timer /\ e.ev = r.ev
          /\ e.due = r.due /\ e.registered = r.registered /\ e.peer = r.peer
          /\ e.state = r.state
      BY <2>4, <3>1 DEF ConnectionRecord
    <3>4. QED  BY <2>1, <3>2, <3>3 DEF Sound
  <2>5. CASE r.peer = "reset" /\ e \in fail_connection(r)
    BY <2>1, <2>5, FailedOnce
  <2>6. QED  BY <2>2, <2>3, <2>4, <2>5 DEF try_write
<1>3. CASE "HUP" \notin events /\ "OUT" \notin events \cap Handled(mode)
  BY <1>3 DEF hup_or_write
<1>4. QED  BY <1>1, <1>2, <1>3

-----------------------------------------------------------------------------
(* The invariant. *)

LEMMA FirstConnInv == ASSUME Init PROVE ConnInv
<1>t. ticked \in BOOLEAN
  BY DEF Init
<1>1. TypeOK
  BY <1>t, BoundsAssumption, ProgramsAssumption
  DEF Init, TypeOK, create_connection, ConnectionRecord, Faults
<1>2. Sound(c) /\ Steps
  BY <1>1 DEF Init, create_connection, Sound, Steps, DueInTimers, NotPolled,
              RefusedInTimers, TriedInRead, TypeOK
<1>3. QED  BY <1>1, <1>2 DEF ConnInv, NullAfterRefusal, InsertedOnce, Sound

LEMMA ConnInvIsEnough == ASSUME ConnInv PROVE OneTimer
BY DEF ConnInv, OneTimer, InsertedOnce, TimerFound, TimerServesState, Sound, Running

(* What the phases know of a connection that the step leaves alone, but for *)
(* what the environment and send_query change.                             *)
LEMMA LeftAlone ==
  ASSUME ConnInv, Running, c'.fault = "none", c' \in ConnectionRecord,
         c'.ev = c.ev, c'.in_fail_timer = c.in_fail_timer,
         c'.registered = c.registered, c'.state = c.state, c'.refused = c.refused,
         c'.peer = c.peer \/ c.state # "failed",
         c'.due => ~c'.this_second /\ phase \in {"poll", "timers"},
         ticked' \in BOOLEAN,
         phase = "rest" /\ (c.this_second \/ ticked) => c'.this_second \/ ticked',
         UNCHANGED <<phase, program, mode, fds, revents>>, breaks' \in 0 .. MaxBreaks
  PROVE  ConnInv'
<1>1. Sound(c) /\ Steps
  BY DEF ConnInv
<1>2. Sound(c')
  BY <1>1 DEF Sound
<1>3. Steps'
  BY <1>1 DEF Steps, DueInTimers, NotPolled, RefusedInTimers, TriedInRead
<1>4. TypeOK'
  BY DEF ConnInv, TypeOK
<1>5. QED  BY <1>2, <1>3, <1>4 DEF ConnInv, NullAfterRefusal, InsertedOnce, Running

LEMMA SendQuery == ASSUME ConnInv, encrypt_send_message PROVE ConnInv'
<1>1. /\ Running /\ c \in ConnectionRecord /\ c.fault = "none"
      /\ breaks \in 0 .. MaxBreaks /\ ticked \in BOOLEAN
  BY DEF encrypt_send_message, ConnInv, Running, TypeOK
<1>2. c' \in ConnectionRecord
  BY <1>1, FlagSet DEF encrypt_send_message
<1>3. /\ c'.fault = c.fault /\ c'.ev = c.ev /\ c'.in_fail_timer = c.in_fail_timer
      /\ c'.registered = c.registered /\ c'.state = c.state
      /\ c'.refused = c.refused /\ c'.peer = c.peer /\ c'.due = c.due
      /\ c'.this_second = c.this_second
  BY <1>1 DEF encrypt_send_message, ConnectionRecord
<1>4. c.due => ~c.this_second /\ phase \in {"poll", "timers"}
  BY <1>1 DEF ConnInv, Steps, DueInTimers
<1>5. QED  BY <1>1, <1>2, <1>3, <1>4, LeftAlone DEF encrypt_send_message

(* Time.                                                                   *)
LEMMA Time ==
  ASSUME ConnInv, SecondPasses \/ TenSecondsPass \/ Suspended
  PROVE  ConnInv'
<1>1. /\ Running /\ c \in ConnectionRecord /\ c.fault = "none" /\ Sound(c)
      /\ breaks \in 0 .. MaxBreaks /\ ticked \in BOOLEAN
  BY DEF SecondPasses, TenSecondsPass, Suspended, ConnInv, Running, TypeOK
<1>2. breaks' \in 0 .. MaxBreaks
  BY <1>1, BoundsAssumption DEF SecondPasses, TenSecondsPass, Suspended
<1>3. CASE SecondPasses
  <2>1. c' \in ConnectionRecord
    BY <1>1, <1>3, FlagSet DEF SecondPasses
  <2>2. /\ c'.fault = c.fault /\ c'.ev = c.ev /\ c'.in_fail_timer = c.in_fail_timer
        /\ c'.registered = c.registered /\ c'.state = c.state
        /\ c'.refused = c.refused /\ c'.peer = c.peer /\ ~c'.this_second
        /\ c'.due = c.due
    BY <1>1, <1>3 DEF SecondPasses, ConnectionRecord
  <2>3. c.due => phase \in {"poll", "timers"}
    BY <1>1 DEF ConnInv, Steps, DueInTimers
  <2>4. QED  BY <1>1, <1>2, <1>3, <2>1, <2>2, <2>3, LeftAlone DEF SecondPasses
<1>4. CASE TenSecondsPass \/ Suspended
  <2>1. PICK silence \in 0 .. 2 : c' = After(c, silence)
    BY <1>4 DEF TenSecondsPass, Suspended
  <2> DEFINE due == c.ev # "none"
  <2>2. c' = [c EXCEPT !.this_second = FALSE, !.due = due, !.silence = silence]
    BY <2>1 DEF After
  <2> HIDE DEF due
  <2>3. due \in BOOLEAN
    BY DEF due
  <2>4. [c EXCEPT !.this_second = FALSE, !.due = due] \in ConnectionRecord
    BY <1>1, <2>3, FlagSet
  <2>5. c' \in ConnectionRecord
    BY <2>2, <2>4, SilenceSet
  <2>6. /\ c'.fault = c.fault /\ c'.ev = c.ev /\ c'.in_fail_timer = c.in_fail_timer
        /\ c'.registered = c.registered /\ c'.state = c.state
        /\ c'.refused = c.refused /\ c'.peer = c.peer /\ ~c'.this_second
    BY <1>1, <2>2 DEF ConnectionRecord
  <2>7. QED
    BY <1>1, <1>2, <1>4, <2>5, <2>6, LeftAlone DEF TenSecondsPass, Suspended
<1>5. QED  BY <1>3, <1>4

LEMMA Network == ASSUME ConnInv, ConnectCompletes \/ NetworkBreaks PROVE ConnInv'
<1>1. /\ Running /\ c \in ConnectionRecord /\ c.fault = "none" /\ Sound(c)
      /\ breaks \in 0 .. MaxBreaks /\ ticked \in BOOLEAN /\ c.peer \in {"syn", "up"}
  BY DEF ConnectCompletes, NetworkBreaks, ConnInv, Running, TypeOK
<1>2. breaks' \in 0 .. MaxBreaks
  BY <1>1, BoundsAssumption DEF ConnectCompletes, NetworkBreaks
<1>3. PICK p \in {"up", "mute", "eof", "reset"} : c' = [c EXCEPT !.peer = p]
  BY DEF ConnectCompletes, NetworkBreaks
<1>4. c' \in ConnectionRecord
  BY <1>1, <1>3, NameSet
<1>5. /\ c'.fault = c.fault /\ c'.ev = c.ev /\ c'.in_fail_timer = c.in_fail_timer
      /\ c'.registered = c.registered /\ c'.state = c.state
      /\ c'.refused = c.refused /\ c'.due = c.due /\ c'.this_second = c.this_second
  BY <1>1, <1>3 DEF ConnectionRecord
<1>6. c.state # "failed"
  BY <1>1 DEF Sound
<1>7. c.due => ~c.this_second /\ phase \in {"poll", "timers"}
  BY <1>1 DEF ConnInv, Steps, DueInTimers
<1>8. QED
  BY <1>1, <1>2, <1>4, <1>5, <1>6, <1>7, LeftAlone DEF ConnectCompletes, NetworkBreaks

(* The loop.                                                               *)
LEMMA MakesPollArray ==
  ASSUME ConnInv, NEW m, connections_make_poll_array(m) PROVE ConnInv'
<1>1. Running /\ Sound(c) /\ Steps /\ TypeOK
  BY DEF connections_make_poll_array, ConnInv
<1>2. TypeOK'
  BY <1>1 DEF connections_make_poll_array, TypeOK, Events
<1>3. Steps'
  BY <1>1
  DEF connections_make_poll_array, Steps, DueInTimers, NotPolled, RefusedInTimers,
      TriedInRead
<1>4. QED  BY <1>1, <1>2, <1>3 
  DEF connections_make_poll_array, ConnInv, NullAfterRefusal, InsertedOnce, Sound

LEMMA Polls == ASSUME ConnInv, poll \/ poll_fails PROVE ConnInv'
<1>1. /\ Running /\ Sound(c) /\ Steps /\ TypeOK /\ phase = "poll" /\ phase' = "timers"
      /\ UNCHANGED <<c, program, mode, fds, ticked>>
  BY DEF poll, poll_fails, ConnInv
<1>2. revents' \subseteq Events /\ (fds = {} => revents' = {})
  BY <1>1 DEF poll, poll_fails, TypeOK
<1>3. breaks' \in 0 .. MaxBreaks
  BY <1>1, BoundsAssumption DEF poll, poll_fails, TypeOK
<1>4. TypeOK'
  BY <1>1, <1>2, <1>3 DEF TypeOK
<1>5. Steps'
  BY <1>1, <1>2 DEF Steps, DueInTimers, NotPolled, RefusedInTimers, TriedInRead
<1>6. QED
  BY <1>1, <1>4, <1>5 DEF ConnInv, NullAfterRefusal, InsertedOnce, Sound

LEMMA WorksTimers == ASSUME ConnInv, work_timers PROVE ConnInv'
<1>1. Running /\ Sound(c) /\ Steps /\ TypeOK
  BY DEF work_timers, ConnInv
<1>2. /\ Sound(c') /\ ~c'.due
      /\ ~c'.registered /\ revents # {} => c'.refused > 0
  <2> DEFINE popped == [c EXCEPT !.ev = "none", !.due = FALSE]
  <2>2. c.ev # "none"
    BY <1>1 DEF Sound
  <2>3. c.due => ~c.this_second
    BY <1>1 DEF Steps, DueInTimers
  <2>4. ~c.registered => revents = {}
    BY <1>1 DEF Steps, NotPolled, work_timers
  <2>5. remove_event_timer(c) = popped
    BY <2>2 DEF remove_event_timer
  <2>6. CASE ~c.due
    BY <1>1, <2>4, <2>6 DEF work_timers
  <2>7. CASE c.due /\ c.ev = "ping"
    <3>1. c' \in ping_alarm(popped)
      BY <2>2, <2>5, <2>7 DEF work_timers
    <3>2. Sound(c') /\ ~c'.due /\ (c'.state = "failed" => c'.refused > 0)
      BY <1>1, <2>3, <2>7, <3>1, PingAlarm
    <3>3. QED  BY <3>2 DEF Sound
  <2>8. CASE c.due /\ c.ev # "ping"
    <3>1. c' \in fail_alarm(popped)
      BY <2>2, <2>5, <2>8 DEF work_timers
    <3>2. QED  BY <1>1, <2>4, <2>8, <3>1, FailAlarm
  <2>9. QED  BY <2>6, <2>7, <2>8
<1>3. TypeOK'
  BY <1>1, <1>2 DEF work_timers, TypeOK, Sound
<1>4. Steps'
  BY <1>2 DEF work_timers, Steps, DueInTimers, NotPolled, RefusedInTimers, TriedInRead
<1>5. QED  BY <1>2, <1>3, <1>4 DEF ConnInv, NullAfterRefusal, InsertedOnce, Sound

LEMMA Reads == ASSUME ConnInv, connections_poll_result_read PROVE ConnInv'
<1>1. /\ Running /\ Sound(c) /\ Steps /\ TypeOK /\ phase = "read" /\ phase' = "rest"
      /\ UNCHANGED <<program, mode, fds, revents, ticked, breaks>>
  BY DEF connections_poll_result_read, ConnInv
<1>2. ~c.due /\ (~c.registered /\ revents # {} => c.refused > 0)
  BY <1>1 DEF Steps, DueInTimers, RefusedInTimers
<1>3. CASE revents \cap Handled(mode) # {} /\ ~c.registered
  <2>1. c' = [c EXCEPT !.fault = "null connection"]
    BY <1>3 DEF connections_poll_result_read, Fault
  <2>2. /\ c' \in ConnectionRecord /\ c'.fault = "null connection"
        /\ c'.refused = c.refused
    <3>1. c \in ConnectionRecord /\ "null connection" \in Faults
      BY <1>1 DEF Sound, Faults
    <3>2. c' \in ConnectionRecord
      BY <2>1, <3>1, FaultSet
    <3>3. QED  BY <2>1, <3>1, <3>2 DEF ConnectionRecord
  <2>3. c.refused > 0
    BY <1>2, <1>3
  <2>4. TypeOK'
    BY <1>1, <2>2 DEF TypeOK
  <2>5. QED  BY <2>2, <2>3, <2>4 DEF ConnInv, NullAfterRefusal, InsertedOnce, Running
<1>4. CASE ~(revents \cap Handled(mode) # {} /\ ~c.registered)
  <2>1. /\ Sound(c') /\ ~c'.due
        /\ c'.state = "failed" /\ "HUP" \in revents =>
             c'.this_second /\ "IN" \in revents \cap Handled(mode)
    <3>1. CASE c.registered /\ "IN" \in revents \cap Handled(mode)
      <4>1. c' \in try_read(c)
        BY <3>1 DEF connections_poll_result_read
      <4>2. QED  BY <1>1, <1>2, <3>1, <4>1, Read
    <3>2. CASE ~(c.registered /\ "IN" \in revents \cap Handled(mode))
      <4>1. c' = c
        BY <1>4, <3>2 DEF connections_poll_result_read
      <4>2. "HUP" \in Handled(mode)
        <5>1. mode \in AllModes
          BY <1>1, ProgramsAssumption DEF TypeOK
        <5>2. QED  BY <5>1 DEF AllModes, Handled, Events
      <4>3. "HUP" \in revents => c.registered
        BY <1>4, <4>2
      <4>4. QED  BY <1>1, <1>2, <4>1, <4>3 DEF Sound
    <3>3. QED  BY <3>1, <3>2
  <2>2. TypeOK'
    BY <1>1, <2>1 DEF TypeOK, Sound
  <2>3. Steps'
    BY <1>1, <2>1 DEF Steps, DueInTimers, NotPolled, RefusedInTimers, TriedInRead
  <2>4. QED  BY <2>1, <2>2, <2>3 DEF ConnInv, NullAfterRefusal, InsertedOnce, Sound
<1>5. QED  BY <1>3, <1>4

LEMMA Rests == ASSUME ConnInv, connections_poll_result_rest PROVE ConnInv'
<1>1. /\ Running /\ Sound(c) /\ Steps /\ TypeOK /\ phase = "rest" /\ phase' = "top"
      /\ UNCHANGED <<program, mode, fds, revents, ticked, breaks>>
      /\ c' \in hup_or_write(c, revents)
  BY DEF connections_poll_result_rest, ConnInv
<1>2. ~c.due
  BY <1>1 DEF Steps, DueInTimers
<1>3. CASE Sound(c') /\ ~c'.due
  <2>1. TypeOK'
    BY <1>1, <1>3 DEF TypeOK, Sound
  <2>2. Steps'
    BY <1>1, <1>3 DEF Steps, DueInTimers, NotPolled, RefusedInTimers, TriedInRead
  <2>3. QED  BY <1>3, <2>1, <2>2 DEF ConnInv, NullAfterRefusal, InsertedOnce, Sound
<1>4. CASE InsertedTwice(c') /\ "HUP" \in revents /\ c.state = "failed" /\ ~c.this_second
  <2>1. ticked /\ "IN" \in revents \cap Handled(mode)
    BY <1>1, <1>4 DEF Steps, TriedInRead
  <2>2. "HUP" \in Handled(mode)
    <3>1. mode \in AllModes
      BY <1>1, ProgramsAssumption DEF TypeOK
    <3>2. QED  BY <3>1 DEF AllModes, Handled, Events
  <2>3. TypeOK'
    BY <1>1, <1>4 DEF TypeOK, InsertedTwice
  <2>4. InsertedOnce'
    BY <1>1, <1>4, <2>1, <2>2 DEF InsertedOnce, Handled
  <2>5. QED  BY <1>4, <2>3, <2>4 DEF ConnInv, NullAfterRefusal, InsertedTwice, Running
<1>5. QED  BY <1>1, <1>2, <1>3, <1>4, HupOrWrite

LEMMA NextKeepsConnInv == ASSUME ConnInv, [Next]_vars PROVE ConnInv'
<1>1. CASE UNCHANGED vars
  BY <1>1 DEF vars, ConnInv, TypeOK, NullAfterRefusal, InsertedOnce, Running, Sound, Steps, DueInTimers,
              NotPolled, RefusedInTimers, TriedInRead
<1>2. CASE Loop
  BY <1>2, MakesPollArray, Polls, WorksTimers, Reads, Rests DEF Loop
<1>3. CASE Next /\ ~Loop
  BY <1>3, SendQuery, Time, Network DEF Next
<1>4. QED  BY <1>1, <1>2, <1>3 DEF Next

-----------------------------------------------------------------------------
(* OneTimer: the one timer of a connection (net.c: start_ping_timer,       *)
(* stop_ping_timer, start_fail_timer) is always registered, once, with the *)
(* alarm that fits the state.  It is inserted twice only when the second   *)
(* changes between the failure in try_read and the hang-up of the same     *)
(* round, and only a connect that failed at once leaves a poll result      *)
(* without its connection.                                                 *)
THEOREM OneTimerAlways == SafetySpec => []OneTimer
<1>1. Init => ConnInv
  BY FirstConnInv
<1>2. ConnInv /\ [Next]_vars => ConnInv'
  BY NextKeepsConnInv
<1>3. ConnInv => OneTimer
  BY ConnInvIsEnough
<1>4. QED  BY <1>1, <1>2, <1>3, PTL DEF SafetySpec

-----------------------------------------------------------------------------
(* The incoming buffer. *)

(* Where the ith of some packets ends, and what is in it.                  *)
Ends(q, i) ==
  LET end[n \in 0 .. Len(q)] == IF n = 0 THEN 0 ELSE end[n - 1] + Size(q[n])
  IN end[i]
PayloadOf(q, i) == Stream(Ends(q, i - 1) + HeaderSize(q[i]), Ends(q, i))

TailHasRoom(blocks) == blocks = <<>> \/ Last(blocks).room > 0

(* What a buffer holds of the stream: from a on, up to t.                  *)
Holds(d, a, t) ==
  /\ d \in Buffer /\ TailHasRoom(d.blocks) /\ d.in_step
  /\ a <= t /\ Held(d.blocks) = Stream(a, t) /\ d.in_bytes = t - a

(* d has executed the first k of the packets q, and holds what is after    *)
(* them in the first t bytes of the stream.                                *)
At(q, d, k, t) ==
  /\ Holds(d, Ends(q, k), t)
  /\ d.executed = [i \in 1 .. k |-> PayloadOf(q, i)]

(* Of the packets after the kth none is whole in the first t bytes.        *)
NoMore(q, k, t) == k < Len(q) => t < Ends(q, k + 1)

InInv ==
  /\ packets \in Seq(Packets) /\ Len(packets) <= MaxPackets
  /\ taken \in 0 .. Ends(packets, Len(packets))
  /\ \E k \in 0 .. Len(packets) : At(packets, buf, k, taken) /\ NoMore(packets, k, taken)

LEMMA InConstants ==
  /\ Word \in Nat \ {0} /\ Packets \subseteq Nat \ {0}
  /\ LongPacket \in Nat /\ TooLong \in Nat /\ MaxPackets \in Nat
BY PacketsAssumption

LEMMA SizeIs ==
  ASSUME NEW len \in Packets
  PROVE  /\ len \in Nat \ {0} /\ HeaderSize(len) \in Nat \ {0} /\ Word * len \in Nat \ {0}
         /\ Size(len) = HeaderSize(len) + Word * len /\ Size(len) \in Nat \ {0}
<1>1. len \in Nat \ {0} /\ Word \in Nat \ {0}
  BY InConstants
<1>2. Word * len \in Nat \ {0}
  BY <1>1
<1>3. HeaderSize(len) \in Nat \ {0}
  BY <1>1 DEF HeaderSize
<1>4. QED  BY <1>1, <1>2, <1>3 DEF Size

-----------------------------------------------------------------------------
(* A function that is defined by what it has at the number before.         *)

HasSteps(A, N, d, g) ==
  \E f \in [0 .. N -> A] : f[0] = d /\ \A n \in 1 .. N : f[n] = g[n][f[n - 1]]

LEMMA StepsExist ==
  ASSUME NEW A, NEW N \in Nat, NEW d \in A, NEW g \in [1 .. N -> [A -> A]]
  PROVE  HasSteps(A, N, d, g)
<1> DEFINE Fits(f, m) == /\ f \in [0 .. m -> A] /\ f[0] = d
                         /\ \A n \in 1 .. m : f[n] = g[n][f[n - 1]]
           T == {m \in Nat : m <= N => \E f : Fits(f, m)}
<1>1. 0 \in T
  <2> DEFINE f == [n \in 0 .. 0 |-> d]
  <2>1. Fits(f, 0)
    OBVIOUS
  <2> HIDE DEF f, Fits
  <2>2. QED  BY <2>1
<1>2. ASSUME NEW m \in Nat, m \in T PROVE m + 1 \in T
  <2>1. SUFFICES ASSUME m + 1 <= N PROVE \E f : Fits(f, m + 1)
    OBVIOUS
  <2>2. PICK f : Fits(f, m)
    BY <1>2, <2>1
  <2> DEFINE x == g[m + 1][f[m]]
             h == [n \in 0 .. m + 1 |-> IF n = m + 1 THEN x ELSE f[n]]
  <2>3. x \in A
    <3>1. f[m] \in A /\ m + 1 \in 1 .. N
      BY <2>1, <2>2
    <3>2. g[m + 1] \in [A -> A]
      BY <3>1
    <3>3. QED  BY <3>1, <3>2
  <2>4. \A n \in 0 .. m : h[n] = f[n]
    OBVIOUS
  <2>5. h[m + 1] = x
    OBVIOUS
  <2>6. h \in [0 .. m + 1 -> A]
    <3> HIDE DEF x
    <3>1. \A n \in 0 .. m + 1 : (IF n = m + 1 THEN x ELSE f[n]) \in A
      BY <2>2, <2>3
    <3>2. QED  BY <3>1
  <2> HIDE DEF h
  <2>7. ASSUME NEW n \in 1 .. m + 1 PROVE h[n] = g[n][h[n - 1]]
    <3>1. CASE n = m + 1
      <4>1. h[n - 1] = f[m]
        BY <2>4, <3>1
      <4>2. QED  BY <2>5, <3>1, <4>1
    <3>2. CASE n # m + 1
      <4>1. n \in 1 .. m /\ n \in 0 .. m /\ n - 1 \in 0 .. m
        BY <3>2
      <4>2. h[n] = f[n] /\ h[n - 1] = f[n - 1]
        BY <2>4, <4>1
      <4>3. f[n] = g[n][f[n - 1]]
        BY <2>2, <4>1
      <4>4. QED  BY <4>2, <4>3
    <3>3. QED  BY <3>1, <3>2
  <2>8. h[0] = d
    BY <2>2, <2>4
  <2>9. Fits(h, m + 1)
    BY <2>6, <2>7, <2>8
  <2> HIDE DEF Fits
  <2>10. QED  BY <2>9
<1>3. N \in T
  <2> HIDE DEF T
  <2>1. QED  BY <1>1, <1>2, Induction
<1>4. PICK f : Fits(f, N)
  BY <1>3
<1>5. QED  BY <1>4 DEF HasSteps

-----------------------------------------------------------------------------
(* Where packets end. *)

LEMMA EndsAre ==
  ASSUME NEW q \in Seq(Packets)
  PROVE  /\ Ends(q, 0) = 0 /\ \A i \in 0 .. Len(q) : Ends(q, i) \in Nat
         /\ \A i \in 1 .. Len(q) : Ends(q, i) = Ends(q, i - 1) + Size(q[i])
<1> DEFINE N == Len(q)
           Fits(f) == f = [n \in 0 .. N |-> IF n = 0 THEN 0 ELSE f[n - 1] + Size(q[n])]
           g == [n \in 1 .. N |-> [m \in Nat |-> m + Size(q[n])]]
<1>1. N \in Nat /\ 0 \in Nat
  BY LenProperties
<1>2. \A n \in 1 .. N : q[n] \in Packets /\ Size(q[n]) \in Nat
  <2>1. TAKE n \in 1 .. N
  <2>2. q[n] \in Packets
    BY ElementOfSeq
  <2>3. QED  BY <2>2, SizeIs
<1>3. g \in [1 .. N -> [Nat -> Nat]]
  <2>1. \A n \in 1 .. N : [m \in Nat |-> m + Size(q[n])] \in [Nat -> Nat]
    BY <1>2
  <2>2. QED  BY <2>1
<1>4. \A m \in Nat, n \in 1 .. N : g[n][m] = m + Size(q[n])
  OBVIOUS
<1> HIDE DEF g, N
<1>5. PICK f \in [0 .. N -> Nat] : f[0] = 0 /\ \A n \in 1 .. N : f[n] = g[n][f[n - 1]]
  <2> DEFINE A == Nat
             d == 0
  <2>1. N \in Nat /\ d \in A /\ g \in [1 .. N -> [A -> A]]
    BY <1>1, <1>3
  <2> HIDE DEF A, d
  <2>2. HasSteps(A, N, d, g)
    BY <2>1, StepsExist
  <2>3. QED  BY <2>2 DEF A, d, HasSteps
<1>6. \A n \in 1 .. N : f[n] = f[n - 1] + Size(q[n])
  <2>1. TAKE n \in 1 .. N
  <2>2. n - 1 \in 0 .. N
    BY <1>1
  <2>3. f[n - 1] \in Nat
    BY <1>5, <2>2
  <2>4. QED  BY <1>4, <1>5, <2>3
<1>7. Fits(f)
  <2>1. \A n \in 0 .. N : f[n] = IF n = 0 THEN 0 ELSE f[n - 1] + Size(q[n])
    <3>1. TAKE n \in 0 .. N
    <3>2. n = 0 \/ n \in 1 .. N
      BY <1>1
    <3>3. QED  BY <1>5, <1>6, <3>2
  <2>2. QED  BY <1>5, <2>1
<1> DEFINE e == CHOOSE h : Fits(h)
<1>8. Fits(e)
  BY <1>7
<1>9. \A i : Ends(q, i) = e[i]
  BY DEF Ends, N
<1> HIDE DEF e
<1>10. \A n \in 0 .. N : e[n] = IF n = 0 THEN 0 ELSE e[n - 1] + Size(q[n])
  BY <1>8
<1> HIDE DEF Fits
<1>11. e[0] = 0 /\ \A n \in 1 .. N : e[n] = e[n - 1] + Size(q[n])
  <2>1. 0 \in 0 .. N /\ \A n \in 1 .. N : n \in 0 .. N /\ n # 0
    BY <1>1
  <2>2. QED  BY <1>10, <2>1
<1> DEFINE T == {n \in Nat : n <= N => e[n] \in Nat}
<1>12. 0 \in T
  BY <1>11
<1>13. ASSUME NEW n \in Nat, n \in T PROVE n + 1 \in T
  <2>1. SUFFICES ASSUME n + 1 <= N PROVE e[n + 1] \in Nat
    OBVIOUS
  <2>2. n + 1 \in 1 .. N /\ (n + 1) - 1 = n /\ n <= N
    BY <1>1, <2>1
  <2>3. e[n + 1] = e[n] + Size(q[n + 1])
    BY <1>11, <2>2
  <2>4. QED  BY <1>2, <1>13, <2>2, <2>3
<1>14. ASSUME NEW n \in 0 .. N PROVE e[n] \in Nat
  <2>1. n \in T
    <3> HIDE DEF T
    <3>1. n \in Nat
      BY <1>1
    <3>2. QED  BY <1>12, <1>13, <3>1, Induction
  <2>2. QED  BY <1>1, <2>1
<1>15. QED  BY <1>9, <1>11, <1>14 DEF N

(* What follows a packet does not change where it ends.                    *)
LEMMA EndsStay ==
  ASSUME NEW q \in Seq(Packets), NEW len \in Packets, NEW i \in 0 .. Len(q)
  PROVE  Ends(Append(q, len), i) = Ends(q, i)
<1> DEFINE p == Append(q, len)
           T == {n \in Nat : n <= Len(q) => Ends(p, n) = Ends(q, n)}
<1>1. /\ p \in Seq(Packets) /\ Len(p) = Len(q) + 1 /\ Len(q) \in Nat
      /\ \A n \in 1 .. Len(q) : p[n] = q[n]
  BY AppendProperties, LenProperties
<1> HIDE DEF p
<1>2. 0 \in T
  BY <1>1, EndsAre
<1>3. ASSUME NEW n \in Nat, n \in T PROVE n + 1 \in T
  <2>1. SUFFICES ASSUME n + 1 <= Len(q) PROVE Ends(p, n + 1) = Ends(q, n + 1)
    OBVIOUS
  <2>2. /\ n + 1 \in 1 .. Len(q) /\ n + 1 \in 1 .. Len(p) /\ (n + 1) - 1 = n /\ n <= Len(q)
    BY <1>1, <2>1
  <2>3. Ends(p, n + 1) = Ends(p, n) + Size(p[n + 1])
    BY <1>1, <2>2, EndsAre
  <2>4. Ends(q, n + 1) = Ends(q, n) + Size(q[n + 1])
    BY <2>2, EndsAre
  <2>5. QED  BY <1>1, <1>3, <2>2, <2>3, <2>4
<1>4. i \in T
  <2> HIDE DEF T
  <2>1. i \in Nat
    BY <1>1
  <2>2. QED  BY <1>2, <1>3, <2>1, Induction
<1>5. QED  BY <1>1, <1>4 DEF p

LEMMA EndsRise ==
  ASSUME NEW q \in Seq(Packets), NEW i \in 0 .. Len(q), NEW j \in 0 .. Len(q), i < j
  PROVE  Ends(q, i) < Ends(q, j)
<1> DEFINE T == {n \in Nat : i + 1 + n <= Len(q) => Ends(q, i) < Ends(q, i + 1 + n)}
<1>1. Len(q) \in Nat /\ i \in Nat /\ j - (i + 1) \in Nat
  BY LenProperties
<1>2. ASSUME NEW n \in 0 .. Len(q) - 1
      PROVE  /\ Ends(q, n) \in Nat /\ Ends(q, n + 1) \in Nat /\ Ends(q, n) < Ends(q, n + 1)
  <2>1. n + 1 \in 1 .. Len(q) /\ n + 1 \in 0 .. Len(q) /\ n \in 0 .. Len(q) /\ (n + 1) - 1 = n
    BY <1>1
  <2>2. Size(q[n + 1]) \in Nat \ {0}
    BY <2>1, ElementOfSeq, SizeIs
  <2>3. Ends(q, n + 1) = Ends(q, n) + Size(q[n + 1]) /\ Ends(q, n) \in Nat /\ Ends(q, n + 1) \in Nat
    BY <2>1, EndsAre
  <2>4. QED  BY <2>2, <2>3
<1>3. 0 \in T
  <2>1. SUFFICES ASSUME i + 1 + 0 <= Len(q) PROVE Ends(q, i) < Ends(q, i + 1 + 0)
    OBVIOUS
  <2>2. i \in 0 .. Len(q) - 1 /\ i + 1 + 0 = i + 1
    BY <1>1, <2>1
  <2>3. QED  BY <1>2, <2>2
<1>4. ASSUME NEW n \in Nat, n \in T PROVE n + 1 \in T
  <2>1. SUFFICES ASSUME i + 1 + (n + 1) <= Len(q) PROVE Ends(q, i) < Ends(q, i + 1 + (n + 1))
    OBVIOUS
  <2>2. i + 1 + n \in 0 .. Len(q) - 1 /\ i + 1 + (n + 1) = (i + 1 + n) + 1 /\ i + 1 + n <= Len(q)
        /\ i \in 0 .. Len(q) - 1
    BY <1>1, <2>1
  <2>3. Ends(q, i) < Ends(q, i + 1 + n)
    BY <1>4, <2>2
  <2>4. QED  BY <1>2, <2>2, <2>3
<1>5. j - (i + 1) \in T
  <2> HIDE DEF T
  <2>1. QED  BY <1>1, <1>3, <1>4, Induction
<1>6. i + 1 + (j - (i + 1)) = j
  BY <1>1
<1>7. QED  BY <1>1, <1>5, <1>6

-----------------------------------------------------------------------------
(* Pieces of the stream. *)

LEMMA StreamIs ==
  ASSUME NEW a \in Nat, NEW b \in Nat, a <= b
  PROVE  /\ Stream(a, b) \in Seq(Bytes) /\ Len(Stream(a, b)) = b - a
         /\ \A i \in 1 .. b - a : Stream(a, b)[i] = a + i
<1>1. b - a \in Nat /\ \A i \in 1 .. b - a : a + i \in Bytes
  BY DEF Bytes
<1> DEFINE s == [i \in 1 .. b - a |-> a + i]
<1>2. s \in [1 .. b - a -> Bytes]
  BY <1>1
<1>3. s \in Seq(Bytes)
  BY <1>1, <1>2
<1>4. Len(s) = b - a /\ \A i \in 1 .. b - a : s[i] = a + i
  BY <1>1
<1> HIDE DEF s
<1>5. QED  BY <1>3, <1>4 DEF Stream, s

LEMMA StreamThenStream ==
  ASSUME NEW a \in Nat, NEW b \in Nat, NEW e \in Nat, a <= b, b <= e
  PROVE  Stream(a, b) \o Stream(b, e) = Stream(a, e)
<1> DEFINE s == Stream(a, b)
           t == Stream(b, e)
           u == Stream(a, e)
           v == s \o t
<1>0. a <= e
  OBVIOUS
<1>1. s \in Seq(Bytes) /\ Len(s) = b - a /\ \A i \in 1 .. b - a : s[i] = a + i
  BY StreamIs
<1>2. t \in Seq(Bytes) /\ Len(t) = e - b /\ \A i \in 1 .. e - b : t[i] = b + i
  BY StreamIs
<1>3. u \in Seq(Bytes) /\ Len(u) = e - a /\ \A i \in 1 .. e - a : u[i] = a + i
  BY <1>0, StreamIs
<1> HIDE DEF s, t, u
<1>4. /\ v \in Seq(Bytes) /\ Len(v) = (b - a) + (e - b)
      /\ \A i \in 1 .. (b - a) + (e - b) : v[i] = IF i <= b - a THEN s[i] ELSE t[i - (b - a)]
  <2>1. /\ v \in Seq(Bytes) /\ Len(v) = Len(s) + Len(t)
        /\ \A i \in 1 .. Len(s) + Len(t) : v[i] = IF i <= Len(s) THEN s[i] ELSE t[i - Len(s)]
    BY <1>1, <1>2, ConcatProperties
  <2> HIDE DEF v
  <2>2. QED  BY <1>1, <1>2, <2>1
<1>5. (b - a) + (e - b) = e - a
  OBVIOUS
<1> HIDE DEF v
<1>6. ASSUME NEW i \in 1 .. e - a PROVE v[i] = u[i]
  <2>1. CASE i <= b - a
    <3>1. i \in 1 .. b - a
      BY <2>1
    <3>2. QED  BY <1>1, <1>3, <1>4, <1>5, <2>1, <3>1
  <2>2. CASE ~(i <= b - a)
    <3>1. i - (b - a) \in 1 .. e - b /\ b + (i - (b - a)) = a + i
      BY <2>2
    <3>2. QED  BY <1>2, <1>3, <1>4, <1>5, <2>2, <3>1
  <2>3. QED  BY <2>1, <2>2
<1>7. v = u
  BY <1>3, <1>4, <1>5, <1>6, SeqEqual
<1>8. QED  BY <1>7 DEF s, t, u, v

(* What is behind the front of a piece of the stream.                      *)
LEMMA StreamRest ==
  ASSUME NEW a \in Nat, NEW b \in Nat, a <= b, NEW u \in Seq(Bytes), NEW v \in Seq(Bytes),
         u \o v = Stream(a, b)
  PROVE  Len(u) <= b - a /\ v = Stream(a + Len(u), b)
<1> DEFINE s == Stream(a, b)
           n == Len(u)
           t == Stream(a + n, b)
<1>1. s \in Seq(Bytes) /\ Len(s) = b - a /\ \A i \in 1 .. b - a : s[i] = a + i
  BY StreamIs
<1>2. n \in Nat /\ Len(v) \in Nat
  BY LenProperties
<1> HIDE DEF s
<1>3. u \o v = s
  BY DEF s
<1>4. /\ Len(s) = n + Len(v)
      /\ \A i \in 1 .. n + Len(v) : s[i] = IF i <= n THEN u[i] ELSE v[i - n]
  BY <1>3, ConcatProperties
<1>5. n <= b - a /\ Len(v) = b - (a + n) /\ a + n \in Nat /\ a + n <= b
  BY <1>1, <1>2, <1>4
<1>6. /\ t \in Seq(Bytes) /\ Len(t) = b - (a + n)
      /\ \A i \in 1 .. b - (a + n) : t[i] = (a + n) + i
  BY <1>5, StreamIs
<1> HIDE DEF t
<1>7. ASSUME NEW i \in 1 .. b - (a + n) PROVE v[i] = t[i]
  <2>1. n + i \in 1 .. n + Len(v) /\ ~(n + i <= n) /\ (n + i) - n = i /\ n + i \in 1 .. b - a
    BY <1>2, <1>5
  <2>2. s[n + i] = v[i]
    BY <1>4, <2>1
  <2>3. s[n + i] = a + (n + i) /\ a + (n + i) = (a + n) + i
    BY <1>1, <1>2, <2>1
  <2>4. QED  BY <1>6, <2>2, <2>3
<1>8. v = t
  BY <1>5, <1>6, <1>7, SeqEqual
<1>9. QED  BY <1>5, <1>8 DEF t

LEMMA StreamFront ==
  ASSUME NEW a \in Nat, NEW b \in Nat, NEW n \in Nat, a + n <= b
  PROVE  SubSeq(Stream(a, b), 1, n) = Stream(a, a + n)
<1> DEFINE s == Stream(a, b)
           t == Stream(a, a + n)
           f == SubSeq(s, 1, n)
<1>1. a <= b /\ a + n \in Nat /\ a <= a + n /\ (a + n) - a = n /\ n <= b - a
  OBVIOUS
<1>2. s \in Seq(Bytes) /\ Len(s) = b - a /\ \A i \in 1 .. b - a : s[i] = a + i
  BY <1>1, StreamIs
<1>3. t \in Seq(Bytes) /\ Len(t) = n /\ \A i \in 1 .. n : t[i] = a + i
  BY <1>1, StreamIs
<1> HIDE DEF s, t
<1>4. \A i \in 1 .. n : s[i] \in Bytes
  <2>1. \A i \in 1 .. n : i \in 1 .. Len(s)
    BY <1>1, <1>2
  <2>2. QED  BY <1>2, <2>1, ElementOfSeq
<1>5. /\ f \in Seq(Bytes) /\ Len(f) = IF 1 <= n THEN n - 1 + 1 ELSE 0
      /\ \A i \in 1 .. n - 1 + 1 : f[i] = s[1 + i - 1]
  <2>1. 1 \in Int /\ n \in Int
    OBVIOUS
  <2>2. QED  BY <1>2, <1>4, <2>1, SubSeqProperties
<1>6. Len(f) = n
  BY <1>5
<1> HIDE DEF f
<1>7. ASSUME NEW i \in 1 .. n PROVE f[i] = t[i]
  <2>1. i \in 1 .. n - 1 + 1 /\ 1 + i - 1 = i /\ i \in 1 .. b - a
    BY <1>1
  <2>2. QED  BY <1>2, <1>3, <1>5, <2>1
<1>8. f = t
  BY <1>3, <1>5, <1>6, <1>7, SeqEqual
<1>9. QED  BY <1>8 DEF f, s, t

-----------------------------------------------------------------------------
(* try_read: what is received. *)

LEMMA LastIs ==
  ASSUME NEW q \in Seq(Block), Len(q) > 0
  PROVE  /\ Last(q) = q[Len(q)] /\ Last(q) \in Block
         /\ Last(q).room \in Nat /\ Last(q).data \in Seq(Bytes) /\ q # <<>>
<1>1. Len(q) \in 1 .. Len(q)
  BY LenProperties
<1>2. q[Len(q)] \in Block
  BY <1>1, ElementOfSeq
<1>3. BlockSize \in Nat
  BY Constants
<1>4. q # <<>>
  BY EmptySeq
<1>5. Last(q) = q[Len(q)]
  BY DEF Last
<1>6. Last(q).data \in Seq(Bytes) /\ Last(q).room \in 0 .. BlockSize
  BY <1>2, <1>5, BlockFields
<1>7. QED  BY <1>2, <1>3, <1>4, <1>5, <1>6

LEMMA PutHolds ==
  ASSUME NEW q \in Seq(Block), Len(q) > 0, Last(q).room > 0, NEW b \in Bytes
  PROVE  /\ Put(q, b) \in Seq(Block) /\ Len(Put(q, b)) > 0 /\ Last(Put(q, b)).room > 0
         /\ Held(Put(q, b)) = Held(q) \o <<b>>
<1> DEFINE x == <<b>>
           f == Fill(q, x)
<1>1. x \in Seq(Bytes) /\ Len(x) = 1
  OBVIOUS
<1> HIDE DEF x
<1>2. Len(x) <= Last(q).room
  <2>1. Last(q).room \in Nat
    BY LastIs
  <2>2. QED  BY <1>1, <2>1
<1>3. /\ f \in Seq(Block) /\ Len(f) = Len(q) /\ Held(f) = Held(q) \o x
  BY <1>1, <1>2, FillHolds
<1>4. CASE Last(f).room > 0
  <2>1. Put(q, b) = f
    BY <1>4 DEF Put, x
  <2>2. QED  BY <1>3, <1>4, <2>1 DEF x
<1>5. CASE ~(Last(f).room > 0)
  <2>1. Put(q, b) = Append(f, new_connection_buffer)
    BY <1>5 DEF Put, x
  <2> HIDE DEF f
  <2>2. LET y == Append(f, new_connection_buffer) IN
        y \in Seq(Block) /\ Len(y) > 0 /\ Held(y) = Held(f) /\ Last(y).room = BlockSize
    BY <1>3, AppendHolds
  <2>3. BlockSize > 0
    BY Constants
  <2>4. QED  BY <1>3, <2>1, <2>2, <2>3 DEF x
<1>6. QED  BY <1>4, <1>5

(* A chain that is read into. *)
Open(q) == q \in Seq(Block) /\ Len(q) > 0 /\ Last(q).room > 0

LEMMA ChainOpen ==
  ASSUME NEW q \in Seq(Block), TailHasRoom(q)
  PROVE  Open(Chain(q)) /\ Held(Chain(q)) = Held(q)
<1>1. CASE q = <<>>
  <2>1. Append(<<>>, new_connection_buffer) = <<new_connection_buffer>>
    OBVIOUS
  <2>2. LET y == Append(q, new_connection_buffer) IN
        y \in Seq(Block) /\ Len(y) > 0 /\ Held(y) = Held(q) /\ Last(y).room = BlockSize
    BY AppendHolds
  <2>3. BlockSize > 0
    BY Constants
  <2>4. Chain(q) = Append(q, new_connection_buffer)
    BY <1>1, <2>1 DEF Chain
  <2>5. QED  BY <2>2, <2>3, <2>4 DEF Open
<1>2. CASE q # <<>>
  <2>1. Len(q) > 0
    BY <1>2, EmptySeq
  <2>2. QED  BY <1>2, <2>1 DEF Open, TailHasRoom, Chain
<1>3. QED  BY <1>1, <1>2

LEMMA ReceiveHolds ==
  ASSUME NEW q \in Seq(Block), TailHasRoom(q), NEW a \in Nat, NEW t \in Nat, NEW m \in Nat,
         a <= t, Held(q) = Stream(a, t)
  PROVE  LET r == Receive(q, Stream(t, t + m))
         IN Open(r) /\ Held(r) = Stream(a, t + m)
<1> DEFINE b == Stream(t, t + m)
           N == Len(b)
           A == {h \in Seq(Block) : Open(h)}
           d == Chain(q)
           g == [n \in 1 .. N |-> [h \in A |-> Put(h, b[n])]]
           Fits(f) == f = [n \in 0 .. N |-> IF n = 0 THEN d ELSE Put(f[n - 1], b[n])]
<1>1. /\ t + m \in Nat /\ t <= t + m /\ (t + m) - t = m
  OBVIOUS
<1>2. b \in Seq(Bytes) /\ N = m /\ \A n \in 1 .. m : b[n] = t + n /\ b[n] \in Bytes
  <2>1. b \in Seq(Bytes) /\ N = m /\ \A n \in 1 .. m : b[n] = t + n
    BY <1>1, StreamIs
  <2>2. \A n \in 1 .. m : t + n \in Bytes
    BY DEF Bytes
  <2>3. QED  BY <2>1, <2>2
<1>3. d \in A /\ Held(d) = Stream(a, t)
  BY ChainOpen DEF Open
<1>4. Receive(q, b) = (CHOOSE f : Fits(f))[N]
  BY DEF Receive
<1> HIDE DEF b, N, d
<1>5. ASSUME NEW h \in A, NEW n \in 1 .. N
      PROVE  Put(h, b[n]) \in A /\ Held(Put(h, b[n])) = Held(h) \o <<b[n]>>
  <2>1. b[n] \in Bytes
    BY <1>2
  <2>2. h \in Seq(Block) /\ Len(h) > 0 /\ Last(h).room > 0
    BY DEF Open
  <2>3. QED  BY <2>1, <2>2, PutHolds DEF Open
<1> HIDE DEF A
<1>6. g \in [1 .. N -> [A -> A]]
  <2>1. \A n \in 1 .. N : [h \in A |-> Put(h, b[n])] \in [A -> A]
    BY <1>5
  <2>2. QED  BY <2>1
<1>7. \A h \in A, n \in 1 .. N : g[n][h] = Put(h, b[n])
  OBVIOUS
<1> HIDE DEF g
<1>8. HasSteps(A, N, d, g)
  BY <1>2, <1>3, <1>6, StepsExist
<1>9. PICK f \in [0 .. N -> A] : f[0] = d /\ \A n \in 1 .. N : f[n] = g[n][f[n - 1]]
  BY <1>8 DEF HasSteps
<1>10. Fits(f)
  <2>1. \A n \in 0 .. N : f[n] = IF n = 0 THEN d ELSE Put(f[n - 1], b[n])
    <3>1. TAKE n \in 0 .. N
    <3>2. CASE n = 0
      BY <1>9, <3>2
    <3>3. CASE n # 0
      <4>1. n \in 1 .. N /\ n - 1 \in 0 .. N
        BY <1>2, <3>3
      <4>2. f[n - 1] \in A /\ f[n] = g[n][f[n - 1]]
        BY <1>9, <4>1
      <4>3. QED  BY <1>7, <3>3, <4>1, <4>2
    <3>4. QED  BY <3>2, <3>3
  <2>2. QED  BY <1>9, <2>1
<1> DEFINE e == CHOOSE h : Fits(h)
<1>11. Fits(e)
  BY <1>10
<1>12. Receive(q, b) = e[N]
  BY <1>4
<1> HIDE DEF e
<1>13. \A n \in 0 .. N : e[n] = IF n = 0 THEN d ELSE Put(e[n - 1], b[n])
  BY <1>11
<1> HIDE DEF Fits
<1> DEFINE T == {n \in Nat : n <= N => e[n] \in A /\ Held(e[n]) = Stream(a, t + n)}
<1>14. 0 \in T
  <2>1. e[0] = d /\ t + 0 = t
    <3>1. 0 \in 0 .. N
      BY <1>2
    <3>2. QED  BY <1>13, <3>1
  <2>2. QED  BY <1>3, <2>1
<1>15. ASSUME NEW n \in Nat, n \in T PROVE n + 1 \in T
  <2>1. SUFFICES ASSUME n + 1 <= N
                 PROVE  e[n + 1] \in A /\ Held(e[n + 1]) = Stream(a, t + (n + 1))
    OBVIOUS
  <2>2. /\ n + 1 \in 0 .. N /\ n + 1 \in 1 .. N /\ n + 1 # 0 /\ (n + 1) - 1 = n /\ n <= N
        /\ n + 1 \in 1 .. m
    BY <1>2, <2>1
  <2>3. e[n] \in A /\ Held(e[n]) = Stream(a, t + n)
    BY <1>15, <2>2
  <2>4. e[n + 1] = Put(e[n], b[n + 1])
    BY <1>13, <2>2
  <2>5. e[n + 1] \in A /\ Held(e[n + 1]) = Stream(a, t + n) \o <<b[n + 1]>>
    BY <1>5, <2>2, <2>3, <2>4
  <2>6. b[n + 1] = t + (n + 1)
    BY <1>2, <2>2
  <2>7. <<t + (n + 1)>> = Stream(t + n, t + (n + 1))
    <3>1. (t + (n + 1)) - (t + n) = 1 /\ t + (n + 1) = (t + n) + 1
      OBVIOUS
    <3>2. Stream(t + n, t + (n + 1)) = [i \in 1 .. 1 |-> (t + n) + i]
      BY <3>1 DEF Stream
    <3>3. QED  BY <3>1, <3>2
  <2>8. Stream(a, t + n) \o Stream(t + n, t + (n + 1)) = Stream(a, t + (n + 1))
    <3>1. t + n \in Nat /\ t + (n + 1) \in Nat /\ a <= t + n /\ t + n <= t + (n + 1)
      OBVIOUS
    <3>2. QED  BY <3>1, StreamThenStream
  <2>9. QED  BY <2>5, <2>6, <2>7, <2>8
<1>16. N \in T
  <2> HIDE DEF T
  <2>1. N \in Nat
    BY <1>2
  <2>2. QED  BY <1>14, <1>15, <2>1, Induction
<1>17. e[N] \in A /\ Held(e[N]) = Stream(a, t + m)
  BY <1>2, <1>16
<1>18. QED  BY <1>12, <1>17 DEF A, b

-----------------------------------------------------------------------------
(* read_in. *)

(* Every byte that the blocks hold has a place.                            *)
LEMMA PlaceExists ==
  ASSUME NEW q \in Seq(Block), NEW len \in Nat \ {0}, len <= Len(Held(q))
  PROVE  \E k \in 1 .. Len(q), r \in 1 .. len :
           IsPlace(q, k, r) /\ Len(Upto(q, k, r)) = len
<1> DEFINE F(k) == Len(Flat(q, k))
           T == {k \in Nat : k <= Len(q) /\ len <= F(k)}
<1>1. Len(q) \in Nat /\ \A k \in 0 .. Len(q) : Flat(q, k) \in Seq(Bytes) /\ F(k) \in Nat
  <2>1. \A k \in 0 .. Len(q) : Flat(q, k) \in Seq(Bytes)
    BY FlatType
  <2>2. QED  BY <2>1, LenProperties
<1>2. Len(q) \in T
  BY <1>1 DEF Held
<1>3. PICK k \in T : \A j \in T : k <= j
  <2> HIDE DEF T
  <2>1. T # {}
    BY <1>2
  <2>2. T \in SUBSET Nat
    BY DEF T
  <2>3. QED  BY <2>1, <2>2, LeastNumber
<1>4. k \in Nat /\ k <= Len(q) /\ len <= F(k)
  OBVIOUS
<1>5. k # 0
  <2>1. Flat(q, 0) = <<>> /\ Len(<<>>) = 0
    BY FlatNone, EmptySeq
  <2>2. QED  BY <1>4, <2>1
<1>6. k - 1 \in Nat /\ k - 1 < Len(q) /\ (k - 1) + 1 = k /\ k - 1 \in 0 .. Len(q) /\ k \in 1 .. Len(q)
  BY <1>1, <1>4, <1>5
<1>7. F(k - 1) < len
  <2>1. k - 1 \notin T
    <3> HIDE DEF T
    <3>1. ~(k <= k - 1)
      BY <1>4
    <3>2. QED  BY <1>3, <3>1
  <2>2. F(k - 1) \in Nat
    BY <1>1, <1>6
  <2>3. QED  BY <1>1, <1>6, <2>1, <2>2
<1> HIDE DEF T
<1> DEFINE D == q[k].data
           A == Flat(q, k - 1)
           r == len - Len(A)
           x == SubSeq(D, 1, r)
<1>8. D \in Seq(Bytes) /\ Flat(q, k) = A \o D
  <2>1. q[(k - 1) + 1].data \in Seq(Bytes)
        /\ Flat(q, (k - 1) + 1) = Flat(q, k - 1) \o q[(k - 1) + 1].data
    BY <1>6, FlatMore
  <2>2. QED  BY <1>6, <2>1
<1>9. A \in Seq(Bytes) /\ Len(A) \in Nat /\ Len(A) < len
  BY <1>1, <1>6, <1>7
<1>10. len <= Len(Flat(q, k))
  BY <1>4
<1>11. Upto(q, k, r) = A \o x
  BY DEF Upto
<1> HIDE DEF F, D, A
<1>12. Len(A \o D) = Len(A) + Len(D) /\ Len(D) \in Nat
  BY <1>8, <1>9, ConcatProperties, LenProperties
<1>13. r \in 1 .. len /\ r <= Len(D) /\ r \in 1 .. Len(D)
  BY <1>8, <1>9, <1>10, <1>12
<1>14. x \in Seq(Bytes) /\ Len(x) = r
  <2>1. \A i \in 1 .. r : D[i] \in Bytes
    <3>1. \A i \in 1 .. r : i \in 1 .. Len(D)
      BY <1>12, <1>13
    <3>2. QED  BY <1>8, <3>1, ElementOfSeq
  <2>2. 1 \in Int /\ r \in Int /\ 1 <= r
    BY <1>13
  <2> HIDE DEF r
  <2>3. /\ x \in Seq(Bytes) /\ Len(x) = IF 1 <= r THEN r - 1 + 1 ELSE 0
    BY <1>8, <2>1, <2>2, SubSeqProperties
  <2> HIDE DEF x
  <2>4. QED  BY <2>2, <2>3
<1>15. Len(A \o x) = len
  <2>1. Len(A \o x) = Len(A) + Len(x)
    BY <1>9, <1>14, ConcatProperties
  <2>2. QED  BY <1>9, <1>14, <2>1
<1>16. IsPlace(q, k, r)
  BY <1>6, <1>13 DEF IsPlace, D
<1> HIDE DEF r, x
<1>17. QED  BY <1>6, <1>11, <1>13, <1>15, <1>16

(* Reading does not fill the last block.                                   *)
LEMMA FromHasRoom ==
  ASSUME NEW q \in Seq(Block), TailHasRoom(q), NEW k \in 1 .. Len(q), NEW r \in Nat,
         IsPlace(q, k, r)
  PROVE  TailHasRoom(From(q, k, r))
<1> DEFINE n == Len(q)
           w == From(q, k, r)
<1>1. n \in Nat /\ k \in 0 .. n /\ k - 1 \in 0 .. n /\ (k - 1) + 1 = k /\ n > 0
  BY LenProperties
<1>2. Last(q) = q[n] /\ q[n].room > 0
  <2>1. Last(q) = q[n] /\ q # <<>>
    BY <1>1, LastIs
  <2>2. QED  BY <2>1 DEF TailHasRoom
<1>3. CASE r = Len(q[k].data)
  <2>1. w = SubSeq(q, k + 1, n)
    BY <1>3 DEF From
  <2> HIDE DEF w
  <2>2. w \in Seq(Block) /\ Len(w) = n - k /\ \A i \in 1 .. n - k : w[i] = q[k + i]
    BY <1>1, <2>1, RestOf
  <2>3. CASE k = n
    <3>1. w = <<>>
      BY <1>1, <2>2, <2>3, EmptySeq
    <3>2. QED  BY <3>1 DEF TailHasRoom, w
  <2>4. CASE k # n
    <3>1. n - k \in 1 .. n - k /\ k + (n - k) = n /\ Len(w) > 0
      BY <1>1, <2>2, <2>4
    <3>2. Last(w) = w[Len(w)]
      BY <2>2, <3>1, LastIs
    <3>3. w[Len(w)] = q[n]
      BY <2>2, <3>1
    <3>4. QED  BY <1>2, <3>2, <3>3 DEF TailHasRoom, w
  <2>5. QED  BY <2>3, <2>4
<1>4. CASE r # Len(q[k].data)
  <2> DEFINE s == SubSeq(q, k, n)
             e == [s[1] EXCEPT !.data = SubSeq(@, r + 1, Len(@))]
  <2>1. s \in Seq(Block) /\ Len(s) = n - (k - 1) /\ \A i \in 1 .. n - (k - 1) : s[i] = q[(k - 1) + i]
    BY <1>1, RestOf
  <2>2. w = [s EXCEPT ![1] = e]
    BY <1>4 DEF From
  <2>3. w \in Seq(Block)
    BY FrontAndRest
  <2>4. Len(s) \in Nat /\ Len(s) > 0 /\ 1 \in 1 .. Len(s)
    BY <1>1, <2>1
  <2>5. s[1] \in Block
    BY <2>1, <2>4, ElementOfSeq
  <2>6. e.room = s[1].room
    BY <2>5 DEF Block
  <2> HIDE DEF w, s, e
  <2>7. Len(w) = Len(s) /\ \A i \in 1 .. Len(s) : w[i].room = s[i].room
    <3>1. \A i \in 1 .. Len(s) : w[i] = IF i = 1 THEN e ELSE s[i]
      BY <2>1, <2>2
    <3>2. Len(w) = Len(s)
      BY <2>1, <2>2
    <3>3. QED  BY <2>6, <3>1, <3>2
  <2>8. Last(w) = w[Len(w)]
    BY <2>3, <2>4, <2>7, LastIs
  <2>9. w[Len(w)].room = q[n].room
    <3>1. Len(s) \in 1 .. Len(s) /\ Len(s) \in 1 .. n - (k - 1) /\ (k - 1) + Len(s) = n
      BY <1>1, <2>1, <2>4
    <3>2. QED  BY <2>1, <2>7, <3>1
  <2>10. QED  BY <1>2, <2>8, <2>9 DEF TailHasRoom, w
<1>5. QED  BY <1>3, <1>4

LEMMA BufferFields ==
  ASSUME NEW d \in Buffer
  PROVE  /\ d.blocks \in Seq(Block) /\ d.in_bytes \in Nat
         /\ d.executed \in Seq(Seq(Bytes)) /\ d.in_step \in BOOLEAN
BY DEF Buffer

(* d with other blocks, and d with one more packet executed.               *)
WithBlocks(d, q, n) == [d EXCEPT !.blocks = q, !.in_bytes = n]
WithExecuted(d, x) == [d EXCEPT !.executed = Append(@, x)]

LEMMA MakeBuffer ==
  ASSUME NEW d \in Buffer, NEW q \in Seq(Block), NEW n \in Nat
  PROVE  LET y == WithBlocks(d, q, n) IN
         /\ y \in Buffer /\ y.blocks = q /\ y.in_bytes = n
         /\ y.in_step = d.in_step /\ y.executed = d.executed
BY DEF Buffer, WithBlocks

LEMMA MakeExecuted ==
  ASSUME NEW d \in Buffer, NEW x \in Seq(Bytes)
  PROVE  LET y == WithExecuted(d, x) IN
         /\ y \in Buffer /\ y.executed = Append(d.executed, x)
         /\ y.blocks = d.blocks /\ y.in_bytes = d.in_bytes /\ y.in_step = d.in_step
<1>1. d.executed \in Seq(Seq(Bytes))
  BY BufferFields
<1> DEFINE e == Append(d.executed, x)
<1>2. e \in Seq(Seq(Bytes))
  BY <1>1, AppendProperties
<1> HIDE DEF e
<1>3. WithExecuted(d, x) = [d EXCEPT !.executed = e]
  BY DEF WithExecuted, e
<1>4. LET y == [d EXCEPT !.executed = e] IN
      /\ y \in Buffer /\ y.executed = e
      /\ y.blocks = d.blocks /\ y.in_bytes = d.in_bytes /\ y.in_step = d.in_step
  BY <1>2 DEF Buffer
<1>5. QED  BY <1>3, <1>4 DEF e

LEMMA ReadInHolds ==
  ASSUME NEW a \in Nat, NEW t \in Nat, NEW d, Holds(d, a, t),
         NEW len \in Nat \ {0}, a + len <= t
  PROVE  /\ Holds(read_in(d, len), a + len, t)
         /\ read_in(d, len).executed = d.executed
         /\ read_in_lookup(d, len) = Stream(a, a + len)
<1> DEFINE q == d.blocks
           IsLast(p) == IsPlace(q, p[1], p[2]) /\ Len(Upto(q, p[1], p[2])) = len
           S == (1 .. Len(q)) \X (1 .. len)
           last == CHOOSE p \in S : IsLast(p)
           k == last[1]
           r == last[2]
           w == From(q, k, r)
           u == Upto(q, k, r)
           n == d.in_bytes - len
<1>1. /\ d \in Buffer /\ TailHasRoom(q) /\ d.in_step /\ a <= t
      /\ Held(q) = Stream(a, t) /\ d.in_bytes = t - a /\ q \in Seq(Block)
  BY BufferFields DEF Holds
<1>2. Stream(a, t) \in Seq(Bytes) /\ Len(Stream(a, t)) = t - a
  BY <1>1, StreamIs
<1>3. read_in(d, len) = [d EXCEPT !.blocks = w, !.in_bytes = n]
  BY DEF read_in
<1>4. read_in_lookup(d, len) = Stream(a, a + len)
  BY <1>1, StreamFront DEF read_in_lookup
<1> HIDE DEF q
<1>5. \E p \in S : IsLast(p)
  <2>1. len <= Len(Held(q))
    BY <1>1, <1>2
  <2>2. PICK k1 \in 1 .. Len(q), r1 \in 1 .. len : IsPlace(q, k1, r1) /\ Len(Upto(q, k1, r1)) = len
    BY <1>1, <2>1, PlaceExists
  <2>3. <<k1, r1>> \in S /\ IsLast(<<k1, r1>>)
    BY <2>2
  <2> HIDE DEF S, IsLast
  <2>4. QED  BY <2>3
<1>6. last \in S /\ IsLast(last)
  <2> HIDE DEF S, IsLast
  <2>1. QED  BY <1>5
<1>7. k \in 1 .. Len(q) /\ r \in 1 .. len /\ r \in Nat /\ IsPlace(q, k, r) /\ Len(u) = len
  <2> HIDE DEF last
  <2>1. last[1] \in 1 .. Len(q) /\ last[2] \in 1 .. len
    BY <1>6
  <2>2. QED  BY <1>6, <2>1
<1> HIDE DEF last, k, r
<1>8. /\ w \in Seq(Block) /\ u \in Seq(Bytes) /\ Held(w) \in Seq(Bytes)
      /\ u \o Held(w) = Held(q)
  BY <1>1, <1>7, FrontAndRest
<1>9. TailHasRoom(w)
  BY <1>1, <1>7, FromHasRoom
<1> HIDE DEF w, u
<1>10. Held(w) = Stream(a + len, t)
  <2>1. u \o Held(w) = Stream(a, t)
    BY <1>1, <1>8
  <2> DEFINE h == Held(w)
  <2>2. h \in Seq(Bytes) /\ u \o h = Stream(a, t)
    BY <1>8, <2>1
  <2> HIDE DEF h
  <2>3. h = Stream(a + Len(u), t)
    BY <1>1, <1>8, <2>2, StreamRest
  <2>4. QED  BY <1>7, <2>3 DEF h
<1>11. n \in Nat /\ n = t - (a + len)
  BY <1>1
<1> HIDE DEF n
<1> DEFINE y == WithBlocks(d, w, n)
<1>13. /\ y \in Buffer /\ y.blocks = w /\ y.in_bytes = n /\ y.in_step = d.in_step
       /\ y.executed = d.executed
  <2>1. d \in Buffer /\ w \in Seq(Block) /\ n \in Nat
    BY <1>1, <1>8, <1>11
  <2>2. QED  BY <2>1, MakeBuffer
<1> HIDE DEF y
<1>14. Holds(y, a + len, t)
  BY <1>1, <1>9, <1>10, <1>11, <1>13 DEF Holds
<1>15. read_in(d, len) = y
  BY <1>3 DEF y, WithBlocks
<1>16. QED  BY <1>4, <1>13, <1>14, <1>15

-----------------------------------------------------------------------------
(* try_rpc_read. *)

(* What begins behind the kth packet is the header of the next one.        *)
LEMMA NextPacket ==
  ASSUME packets \in Seq(Packets), NEW k \in 0 .. Len(packets), k < Len(packets),
         NEW t \in Nat, Ends(packets, k) < t, NEW d, At(packets, d, k, t)
  PROVE  LET len == packets[k + 1] IN
         /\ len \in Packets /\ k + 1 \in 1 .. Len(packets)
         /\ Ends(packets, k + 1) = Ends(packets, k) + Size(len)
         /\ Ends(packets, k) \in Nat /\ Ends(packets, k + 1) \in Nat
         /\ try_one(d) = IF d.in_bytes < Size(len) THEN d
                         ELSE rpc_execute(read_in(d, HeaderSize(len)), len)
<1> DEFINE a == Ends(packets, k)
           len == packets[k + 1]
           here == IF d.in_bytes = 0 THEN {} ELSE PacketsAt(d)
<1>1. /\ Len(packets) \in Nat /\ k + 1 \in 1 .. Len(packets) /\ (k + 1) - 1 = k
  BY LenProperties
<1>2. len \in Packets
  BY <1>1, ElementOfSeq
<1>3. Ends(packets, k + 1) = Ends(packets, k) + Size(len) /\ a \in Nat /\ Ends(packets, k + 1) \in Nat
  BY <1>1, EndsAre
<1>4. Holds(d, a, t) /\ d.in_bytes = t - a /\ d.in_bytes # 0 /\ d.in_bytes > 0
  <2>1. Holds(d, a, t)
    BY DEF At
  <2>2. d.in_bytes = t - a
    BY <2>1 DEF Holds
  <2>3. QED  BY <1>3, <2>1, <2>2
<1>5. read_in_lookup(d, 1)[1] = a + 1
  <2>1. a + 1 <= t /\ a + 1 \in Nat /\ a <= a + 1 /\ (a + 1) - a = 1
    BY <1>3
  <2>2. read_in_lookup(d, 1) = Stream(a, a + 1)
    BY <1>3, <1>4, <2>1, ReadInHolds
  <2>3. \A i \in 1 .. (a + 1) - a : Stream(a, a + 1)[i] = a + i
    BY <1>3, <2>1, StreamIs
  <2>4. 1 \in 1 .. (a + 1) - a
    BY <2>1
  <2>5. QED  BY <2>2, <2>3, <2>4
<1>6. PacketsAt(d) = {k + 1}
  <2>1. PacketsAt(d) = {i \in 1 .. Len(packets) : a + 1 = Ends(packets, i - 1) + 1}
    BY <1>5 DEF PacketsAt, End, Ends
  <2>2. ASSUME NEW i \in 1 .. Len(packets), a + 1 = Ends(packets, i - 1) + 1 PROVE i = k + 1
    <3>1. i - 1 \in 0 .. Len(packets)
      BY <1>1
    <3>2. Ends(packets, i - 1) \in Nat
      BY <3>1, EndsAre
    <3>3. Ends(packets, i - 1) = a
      BY <1>3, <2>2, <3>2
    <3>4. ~(i - 1 < k)
      <4>1. i - 1 < k => Ends(packets, i - 1) < Ends(packets, k)
        BY <3>1, EndsRise
      <4>2. QED  BY <1>3, <3>3, <4>1
    <3>5. ~(k < i - 1)
      <4>1. k < i - 1 => Ends(packets, k) < Ends(packets, i - 1)
        BY <3>1, EndsRise
      <4>2. QED  BY <1>3, <3>3, <4>1
    <3>6. QED  BY <1>1, <3>4, <3>5
  <2>3. a + 1 = Ends(packets, (k + 1) - 1) + 1
    BY <1>1
  <2>4. QED  BY <1>1, <2>1, <2>2, <2>3
<1>7. here = {k + 1} /\ here # {} /\ packets[CHOOSE i \in here : TRUE] = len
  BY <1>4, <1>6
<1> HIDE DEF here
<1>8. try_one(d) = IF d.in_bytes < Size(len) THEN d
                   ELSE rpc_execute(read_in(d, HeaderSize(len)), len)
  <2>1. try_one(d) =
          CASE d.in_bytes = 0 -> d
            [] d.in_bytes > 0 /\ here = {} -> [d EXCEPT !.in_step = FALSE]
            [] here # {} -> IF d.in_bytes < Size(packets[CHOOSE i \in here : TRUE]) THEN d
                            ELSE rpc_execute(read_in(d, HeaderSize(packets[CHOOSE i \in here : TRUE])),
                                             packets[CHOOSE i \in here : TRUE])
    BY DEF try_one, here
  <2>2. QED  BY <1>4, <1>7, <2>1
<1>9. QED  BY <1>1, <1>2, <1>3, <1>8

LEMMA OneStops ==
  ASSUME packets \in Seq(Packets), NEW k \in 0 .. Len(packets),
         NEW t \in 0 .. Ends(packets, Len(packets)), NEW d,
         At(packets, d, k, t), NoMore(packets, k, t)
  PROVE  try_one(d) = d
<1>1. /\ Len(packets) \in Nat /\ Len(packets) \in 0 .. Len(packets)
  BY LenProperties
<1>2. Ends(packets, k) \in Nat /\ Ends(packets, Len(packets)) \in Nat
  BY <1>1, EndsAre
<1>3. t \in Nat /\ Ends(packets, k) <= t /\ d.in_bytes = t - Ends(packets, k)
  BY <1>2 DEF At, Holds
<1>4. CASE t = Ends(packets, k)
  <2>1. d.in_bytes = 0
    BY <1>2, <1>3, <1>4
  <2>2. QED  BY <2>1 DEF try_one
<1>5. CASE t # Ends(packets, k)
  <2>1. Ends(packets, k) < t
    BY <1>2, <1>3, <1>5
  <2>2. k < Len(packets)
    BY <1>1, <1>2, <2>1
  <2> DEFINE len == packets[k + 1]
  <2>3. /\ Ends(packets, k + 1) = Ends(packets, k) + Size(len) /\ len \in Packets
        /\ try_one(d) = IF d.in_bytes < Size(len) THEN d
                        ELSE rpc_execute(read_in(d, HeaderSize(len)), len)
    BY <1>3, <2>1, <2>2, NextPacket
  <2>4. Size(len) \in Nat
    BY <2>3, SizeIs
  <2>5. d.in_bytes < Size(len)
    BY <1>2, <1>3, <2>2, <2>3, <2>4 DEF NoMore
  <2>6. QED  BY <2>3, <2>5
<1>6. QED  BY <1>4, <1>5

LEMMA OneMore ==
  ASSUME packets \in Seq(Packets), NEW k \in 0 .. Len(packets), k < Len(packets),
         NEW t \in Nat, Ends(packets, k + 1) <= t, NEW d, At(packets, d, k, t),
         \A len \in Packets : len < TooLong
  PROVE  At(packets, try_one(d), k + 1, t)
<1> DEFINE a == Ends(packets, k)
           e == Ends(packets, k + 1)
           len == packets[k + 1]
           h == HeaderSize(len)
           n == Word * len
           x == read_in(d, h)
           y == read_in(x, n)
           z == WithExecuted(y, Stream(a + h, e))
<1>1. /\ Len(packets) \in Nat /\ k + 1 \in 1 .. Len(packets) /\ (k + 1) - 1 = k
      /\ k \in Nat
  BY LenProperties
<1>2. len \in Packets
  BY <1>1, ElementOfSeq
<1>3. /\ h \in Nat \ {0} /\ n \in Nat \ {0} /\ Size(len) = h + n /\ len \in Nat
  BY <1>2, SizeIs
<1>4. e = a + Size(len) /\ a \in Nat /\ e \in Nat
  BY <1>1, EndsAre
<1> HIDE DEF h, n
<1>5. /\ a < t /\ a + h \in Nat /\ a + h <= t /\ (a + h) + n = e /\ e <= t /\ a + h <= e
  BY <1>3, <1>4
<1>6. Holds(d, a, t) /\ d.in_bytes = t - a /\ d.executed = [i \in 1 .. k |-> PayloadOf(packets, i)]
  BY DEF At, Holds
<1>7. try_one(d) = rpc_execute(x, len)
  <2>1. try_one(d) = IF d.in_bytes < Size(len) THEN d ELSE rpc_execute(x, len)
    BY <1>5, NextPacket DEF h
  <2>2. ~(d.in_bytes < Size(len))
    BY <1>3, <1>4, <1>5, <1>6
  <2>3. QED  BY <2>1, <2>2
<1> HIDE DEF len, a, e
<1>8. Holds(x, a + h, t) /\ x.executed = d.executed
  BY <1>3, <1>4, <1>5, <1>6, ReadInHolds
<1> HIDE DEF x
<1>9. /\ Holds(y, e, t) /\ y.executed = x.executed
      /\ read_in_lookup(x, n) = Stream(a + h, e)
  <2>1. /\ Holds(y, (a + h) + n, t) /\ y.executed = x.executed
        /\ read_in_lookup(x, n) = Stream(a + h, (a + h) + n)
    BY <1>3, <1>5, <1>8, ReadInHolds
  <2>2. QED  BY <1>5, <2>1
<1>10. rpc_execute(x, len) = z
  <2>1. ~(len >= TooLong)
    <3>1. TooLong \in Nat
      BY InConstants
    <3>2. QED  BY <1>2, <1>3, <3>1
  <2>2. rpc_execute(x, len) = [y EXCEPT !.executed = Append(@, read_in_lookup(x, n))]
    BY <2>1 DEF rpc_execute, n
  <2> HIDE DEF y
  <2>3. QED  BY <1>9, <2>2 DEF WithExecuted
<1> HIDE DEF y
<1>11. Stream(a + h, e) \in Seq(Bytes)
  BY <1>4, <1>5, StreamIs
<1>12. /\ z \in Buffer /\ z.executed = Append(y.executed, Stream(a + h, e))
       /\ z.blocks = y.blocks /\ z.in_bytes = y.in_bytes /\ z.in_step = y.in_step
  <2>1. y \in Buffer
    BY <1>9 DEF Holds
  <2> DEFINE s == Stream(a + h, e)
  <2>2. s \in Seq(Bytes)
    BY <1>11
  <2> HIDE DEF s
  <2>3. LET v == WithExecuted(y, s) IN
        /\ v \in Buffer /\ v.executed = Append(y.executed, s)
        /\ v.blocks = y.blocks /\ v.in_bytes = y.in_bytes /\ v.in_step = y.in_step
    BY <2>1, <2>2, MakeExecuted
  <2>4. QED  BY <2>3 DEF s
<1> HIDE DEF z
<1>13. Holds(z, e, t)
  BY <1>9, <1>12 DEF Holds
<1>14. z.executed = [i \in 1 .. k + 1 |-> PayloadOf(packets, i)]
  <2> DEFINE P(i) == PayloadOf(packets, i)
  <2>1. P(k + 1) = Stream(a + h, e)
    BY <1>1 DEF PayloadOf, a, e, h, len
  <2>2. z.executed = Append([i \in 1 .. k |-> P(i)], P(k + 1))
    BY <1>6, <1>8, <1>9, <1>12, <2>1
  <2> HIDE DEF P
  <2>3. Append([i \in 1 .. k |-> P(i)], P(k + 1)) = [i \in 1 .. k + 1 |-> P(i)]
    BY <1>1
  <2>4. z.executed = [i \in 1 .. k + 1 |-> P(i)]
    BY <2>2, <2>3
  <2>5. QED  BY <2>4 DEF P
<1>15. At(packets, z, k + 1, t)
  BY <1>13, <1>14 DEF At, e
<1>16. QED  BY <1>7, <1>10, <1>15

(* All that has arrived whole is executed when it has gone round as often  *)
(* as there were bytes.                                                    *)
LEMMA AllExecuted ==
  ASSUME packets \in Seq(Packets), NEW k \in 0 .. Len(packets),
         NEW t \in 0 .. Ends(packets, Len(packets)), NEW d, At(packets, d, k, t),
         \A len \in Packets : len < TooLong
  PROVE  \E j \in 0 .. Len(packets) : At(packets, try_rpc_read(d), j, t) /\ NoMore(packets, j, t)
<1> DEFINE a == Ends(packets, k)
           N == d.in_bytes
           Some(x, j) == j \in 0 .. Len(packets) /\ At(packets, x, j, t)
           A == {x \in Buffer : \E j \in Nat : Some(x, j)}
           g == [n \in 1 .. N |-> [x \in A |-> try_one(x)]]
           Fits(f) == f = [n \in 0 .. N |-> IF n = 0 THEN d ELSE try_one(f[n - 1])]
           Far(x, n) == \E j \in Nat : Some(x, j) /\ (NoMore(packets, j, t) \/ a + n <= Ends(packets, j))
<1>1. /\ Len(packets) \in Nat /\ Len(packets) \in 0 .. Len(packets) /\ k \in Nat
      /\ \A j \in 0 .. Len(packets) : Ends(packets, j) \in Nat
  BY LenProperties, EndsAre
<1>2. t \in Nat /\ a \in Nat /\ a <= t /\ N = t - a /\ N \in Nat
  <2>1. a <= t /\ N = t - a
    BY DEF At, Holds
  <2>2. QED  BY <1>1, <2>1
<1>3. d \in A /\ Far(d, 0)
  <2>1. Some(d, k) /\ d \in Buffer /\ a + 0 <= Ends(packets, k)
    BY <1>2 DEF At, Holds
  <2>2. QED  BY <1>1, <2>1
<1>4. try_rpc_read(d) = (CHOOSE f : Fits(f))[N]
  BY DEF try_rpc_read
<1>5. ASSUME NEW x, NEW j \in Nat, Some(x, j)
      PROVE  \/ NoMore(packets, j, t) /\ try_one(x) = x
             \/ Some(try_one(x), j + 1) /\ Ends(packets, j) < Ends(packets, j + 1)
  <2>1. CASE NoMore(packets, j, t)
    BY <1>5, <2>1, OneStops
  <2>2. CASE ~NoMore(packets, j, t)
    <3>1. j \in 0 .. Len(packets) /\ j < Len(packets) /\ ~(t < Ends(packets, j + 1))
      BY <1>5, <2>2 DEF NoMore
    <3>2. j + 1 \in 0 .. Len(packets) /\ j < j + 1
      BY <1>1, <3>1
    <3>3. Ends(packets, j + 1) <= t
      BY <1>1, <1>2, <3>1, <3>2
    <3>4. At(packets, try_one(x), j + 1, t)
      BY <1>2, <1>5, <3>1, <3>3, OneMore
    <3>5. Ends(packets, j) < Ends(packets, j + 1)
      BY <3>1, <3>2, EndsRise
    <3>6. QED  BY <3>2, <3>4, <3>5
  <2>3. QED  BY <2>1, <2>2
<1>6. ASSUME NEW x \in A PROVE try_one(x) \in A
  <2>1. PICK j \in Nat : Some(x, j)
    OBVIOUS
  <2>2. CASE try_one(x) = x
    BY <2>2
  <2>3. CASE Some(try_one(x), j + 1)
    <3>1. try_one(x) \in Buffer /\ j + 1 \in Nat
      BY <2>3 DEF At, Holds
    <3>2. QED  BY <2>3, <3>1
  <2>4. QED  BY <1>5, <2>1, <2>2, <2>3
<1>7. ASSUME NEW x, NEW n \in Nat, Far(x, n) PROVE Far(try_one(x), n + 1)
  <2>1. PICK j \in Nat : Some(x, j) /\ (NoMore(packets, j, t) \/ a + n <= Ends(packets, j))
    BY <1>7
  <2>2. CASE NoMore(packets, j, t) /\ try_one(x) = x
    BY <2>1, <2>2
  <2>3. CASE /\ Some(try_one(x), j + 1) /\ Ends(packets, j) < Ends(packets, j + 1)
             /\ ~NoMore(packets, j, t)
    <3>1. j \in 0 .. Len(packets) /\ j + 1 \in 0 .. Len(packets) /\ j + 1 \in Nat
      BY <2>1, <2>3
    <3>2. Ends(packets, j) \in Nat /\ Ends(packets, j + 1) \in Nat
      BY <1>1, <3>1
    <3>3. a + (n + 1) <= Ends(packets, j + 1)
      BY <1>2, <2>1, <2>3, <3>2
    <3>4. QED  BY <2>3, <3>1, <3>3
  <2>4. CASE NoMore(packets, j, t)
    <3>1. try_one(x) = x
      BY <2>1, <2>4, OneStops
    <3>2. QED  BY <2>2, <2>4, <3>1
  <2>5. QED  BY <1>5, <2>1, <2>3, <2>4
<1> HIDE DEF N, A, Far
<1>8. HasSteps(A, N, d, g)
  <2>1. g \in [1 .. N -> [A -> A]]
    <3>1. \A n \in 1 .. N : [x \in A |-> try_one(x)] \in [A -> A]
      BY <1>6
    <3>2. QED  BY <3>1
  <2> HIDE DEF g
  <2>2. QED  BY <1>2, <1>3, <2>1, StepsExist
<1>9. \A x \in A, n \in 1 .. N : g[n][x] = try_one(x)
  OBVIOUS
<1> HIDE DEF g
<1>10. PICK f \in [0 .. N -> A] : f[0] = d /\ \A n \in 1 .. N : f[n] = g[n][f[n - 1]]
  BY <1>8 DEF HasSteps
<1>11. Fits(f)
  <2>1. \A n \in 0 .. N : f[n] = IF n = 0 THEN d ELSE try_one(f[n - 1])
    <3>1. TAKE n \in 0 .. N
    <3>2. CASE n = 0
      BY <1>10, <3>2
    <3>3. CASE n # 0
      <4>1. n \in 1 .. N /\ n - 1 \in 0 .. N
        BY <1>2, <3>3
      <4>2. f[n - 1] \in A /\ f[n] = g[n][f[n - 1]]
        BY <1>10, <4>1
      <4>3. QED  BY <1>9, <3>3, <4>1, <4>2
    <3>4. QED  BY <3>2, <3>3
  <2>2. QED  BY <1>10, <2>1
<1> DEFINE e == CHOOSE h : Fits(h)
<1>12. Fits(e)
  BY <1>11
<1>13. try_rpc_read(d) = e[N]
  BY <1>4
<1> HIDE DEF e
<1>14. \A n \in 0 .. N : e[n] = IF n = 0 THEN d ELSE try_one(e[n - 1])
  BY <1>12
<1> HIDE DEF Fits
<1> DEFINE T == {n \in Nat : n <= N => Far(e[n], n)}
<1>15. 0 \in T
  <2>1. e[0] = d
    <3>1. 0 \in 0 .. N
      BY <1>2
    <3>2. QED  BY <1>14, <3>1
  <2>2. QED  BY <1>3, <2>1
<1>16. ASSUME NEW n \in Nat, n \in T PROVE n + 1 \in T
  <2>1. SUFFICES ASSUME n + 1 <= N PROVE Far(e[n + 1], n + 1)
    OBVIOUS
  <2>2. n + 1 \in 0 .. N /\ n + 1 # 0 /\ (n + 1) - 1 = n /\ n <= N
    BY <1>2, <2>1
  <2>3. e[n + 1] = try_one(e[n])
    BY <1>14, <2>2
  <2>4. QED  BY <1>7, <1>16, <2>2, <2>3
<1>17. Far(e[N], N)
  <2>1. N \in T
    <3> HIDE DEF T
    <3>1. QED  BY <1>2, <1>15, <1>16, Induction
  <2>2. QED  BY <1>2, <2>1
<1>18. PICK j \in Nat : Some(e[N], j) /\ (NoMore(packets, j, t) \/ a + N <= Ends(packets, j))
  BY <1>17 DEF Far
<1>19. NoMore(packets, j, t)
  <2>1. SUFFICES ASSUME a + N <= Ends(packets, j), j < Len(packets) PROVE t < Ends(packets, j + 1)
    BY <1>18 DEF NoMore
  <2>2. j \in 0 .. Len(packets) /\ j + 1 \in 0 .. Len(packets) /\ j < j + 1
    BY <1>1, <2>1
  <2>3. Ends(packets, j) < Ends(packets, j + 1) /\ Ends(packets, j) \in Nat /\ Ends(packets, j + 1) \in Nat
    BY <1>1, <2>2, EndsRise
  <2>4. QED  BY <1>2, <2>1, <2>3
<1>20. QED  BY <1>13, <1>18, <1>19

-----------------------------------------------------------------------------
(* The invariant of the incoming buffer. *)

LEMMA EmptyAt ==
  /\ <<>> \in Seq(Packets) /\ Len(<<>>) = 0 /\ Ends(<<>>, 0) = 0
  /\ At(<<>>, Empty, 0, 0) /\ NoMore(<<>>, 0, 0)
<1>1. <<>> \in Seq(Packets) /\ Len(<<>>) = 0 /\ <<>> \in Seq(Block) /\ <<>> \in Seq(Seq(Bytes))
  BY EmptySeq
<1>2. Ends(<<>>, 0) = 0
  BY <1>1, EndsAre
<1>3. Held(<<>>) = <<>> /\ Stream(0, 0) = <<>>
  <2>1. Held(<<>>) = <<>>
    BY <1>1, FlatNone DEF Held
  <2>2. Stream(0, 0) = <<>>
    BY DEF Stream
  <2>3. QED  BY <2>1, <2>2
<1>4. Empty \in Buffer /\ Empty.blocks = <<>> /\ Empty.in_bytes = 0 /\ Empty.in_step
      /\ Empty.executed = <<>>
  BY <1>1 DEF Empty, Buffer
<1>5. Empty.executed = [i \in 1 .. 0 |-> PayloadOf(<<>>, i)]
  BY <1>4
<1>6. Holds(Empty, 0, 0)
  BY <1>3, <1>4 DEF Holds, TailHasRoom
<1>7. At(<<>>, Empty, 0, 0)
  BY <1>2, <1>5, <1>6 DEF At
<1>8. NoMore(<<>>, 0, 0)
  BY <1>1 DEF NoMore
<1>9. QED  BY <1>1, <1>2, <1>7, <1>8

LEMMA EmptyInv ==
  ASSUME packets' = <<>>, taken' = 0, buf' = Empty
  PROVE  InInv'
<1>1. MaxPackets \in Nat
  BY InConstants
<1>2. packets' \in Seq(Packets) /\ Len(packets') <= MaxPackets
  BY <1>1, EmptyAt
<1>3. taken' \in 0 .. Ends(packets', Len(packets'))
  BY EmptyAt
<1>4. \E k \in 0 .. Len(packets') : At(packets', buf', k, taken') /\ NoMore(packets', k, taken')
  <2>1. 0 \in 0 .. Len(packets')
    BY EmptyAt
  <2>2. At(packets', buf', 0, taken') /\ NoMore(packets', 0, taken')
    BY EmptyAt
  <2>3. QED  BY <2>1, <2>2
<1>5. QED  BY <1>2, <1>3, <1>4 DEF InInv

LEMMA FirstInInv == ASSUME InInit PROVE InInv
<1>1. packets = <<>> /\ taken = 0 /\ buf = Empty
  BY DEF InInit
<1>2. MaxPackets \in Nat
  BY InConstants
<1>3. packets \in Seq(Packets) /\ Len(packets) <= MaxPackets
  BY <1>1, <1>2, EmptyAt
<1>4. taken \in 0 .. Ends(packets, Len(packets))
  BY <1>1, EmptyAt
<1>5. \E k \in 0 .. Len(packets) : At(packets, buf, k, taken) /\ NoMore(packets, k, taken)
  <2>1. 0 \in 0 .. Len(packets)
    BY <1>1, EmptyAt
  <2>2. At(packets, buf, 0, taken) /\ NoMore(packets, 0, taken)
    BY <1>1, EmptyAt
  <2>3. QED  BY <2>1, <2>2
<1>6. QED  BY <1>3, <1>4, <1>5 DEF InInv

LEMMA ServerSendsKeeps ==
  ASSUME InInv, NEW len \in Packets, ServerSends(len)
  PROVE  InInv'
<1> DEFINE q == packets
           p == Append(packets, len)
           N == Len(packets)
<1>1. packets' = p /\ taken' = taken /\ buf' = buf /\ Len(packets) < MaxPackets
  BY DEF ServerSends
<1>2. q \in Seq(Packets) /\ taken \in 0 .. Ends(q, N)
  BY DEF InInv
<1>3. /\ p \in Seq(Packets) /\ Len(p) = N + 1 /\ N \in Nat
      /\ \A n \in 1 .. N : p[n] = q[n]
  BY <1>2, AppendProperties, LenProperties
<1>4. \A i \in 0 .. N : Ends(p, i) = Ends(q, i)
  BY <1>2, EndsStay
<1>5. PICK k \in 0 .. N : At(q, buf, k, taken) /\ NoMore(q, k, taken)
  BY DEF InInv
<1> HIDE DEF p
<1>6. /\ Ends(p, N) = Ends(q, N) /\ Ends(p, N) < Ends(p, N + 1)
      /\ Ends(p, N) \in Nat /\ Ends(p, N + 1) \in Nat
  <2>1. N \in 0 .. Len(p) /\ N + 1 \in 0 .. Len(p) /\ N < N + 1 /\ N \in 0 .. N
    BY <1>3
  <2>2. Ends(p, N) < Ends(p, N + 1)
    BY <1>3, <2>1, EndsRise
  <2>3. QED  BY <1>3, <1>4, <2>1, <2>2, EndsAre
<1>7. At(p, buf, k, taken)
  <2>1. \A i \in 1 .. k : PayloadOf(p, i) = PayloadOf(q, i)
    <3>1. TAKE i \in 1 .. k
    <3>2. i \in 1 .. N /\ i \in 0 .. N /\ i - 1 \in 0 .. N
      BY <1>3
    <3>3. p[i] = q[i] /\ Ends(p, i) = Ends(q, i) /\ Ends(p, i - 1) = Ends(q, i - 1)
      BY <1>3, <1>4, <3>2
    <3>4. QED  BY <3>3 DEF PayloadOf
  <2>2. [i \in 1 .. k |-> PayloadOf(p, i)] = [i \in 1 .. k |-> PayloadOf(q, i)]
    BY <2>1
  <2>3. Ends(p, k) = Ends(q, k)
    BY <1>4
  <2>4. QED  BY <1>5, <2>2, <2>3 DEF At
<1>8. NoMore(p, k, taken)
  <2>1. CASE k = N
    BY <1>2, <1>6, <2>1 DEF NoMore
  <2>2. CASE k # N
    <3>1. k + 1 \in 0 .. N /\ k < N
      BY <1>3, <2>2
    <3>2. QED  BY <1>4, <1>5, <3>1 DEF NoMore
  <2>3. QED  BY <2>1, <2>2
<1>9. k \in 0 .. Len(p)
  BY <1>3
<1>10. taken \in 0 .. Ends(p, Len(p))
  BY <1>2, <1>3, <1>6
<1>11. Len(p) <= MaxPackets
  <2>1. MaxPackets \in Nat
    BY InConstants
  <2>2. QED  BY <1>1, <1>3, <2>1
<1>12. /\ packets' \in Seq(Packets) /\ Len(packets') <= MaxPackets
       /\ taken' \in 0 .. Ends(packets', Len(packets'))
  BY <1>1, <1>3, <1>10, <1>11
<1>13. \E j \in 0 .. Len(packets') : At(packets', buf', j, taken') /\ NoMore(packets', j, taken')
  BY <1>1, <1>7, <1>8, <1>9
<1>14. QED  BY <1>12, <1>13 DEF InInv

LEMMA TryReadKeeps ==
  ASSUME InInv, NEW m \in 0 .. End(Len(packets)) - taken, try_read_in(m),
         \A len \in Packets : len < TooLong
  PROVE  InInv'
<1> DEFINE q == packets
           b == Receive(buf.blocks, Stream(taken, taken + m))
           n == buf.in_bytes + m
           y == WithBlocks(buf, b, n)
           t == taken + m
<1>1. /\ q \in Seq(Packets) /\ Len(q) <= MaxPackets /\ taken \in 0 .. Ends(q, Len(q))
  BY DEF InInv
<1>2. PICK k \in 0 .. Len(q) : At(q, buf, k, taken) /\ NoMore(q, k, taken)
  BY DEF InInv
<1>3. /\ Ends(q, Len(q)) \in Nat /\ Ends(q, k) \in Nat /\ Len(q) \in Nat
  <2>1. Len(q) \in Nat /\ Len(q) \in 0 .. Len(q)
    BY <1>1, LenProperties
  <2>2. QED  BY <1>1, <2>1, EndsAre
<1>4. taken \in Nat /\ m \in Nat /\ t \in 0 .. Ends(q, Len(q)) /\ t \in Nat
  <2>1. End(Len(q)) = Ends(q, Len(q))
    BY DEF End, Ends
  <2>2. QED  BY <1>1, <1>3, <2>1
<1>5. packets' = packets /\ taken' = t /\ buf' = IF m = 0 THEN y ELSE try_rpc_read(y)
  <2>1. y = [buf EXCEPT !.blocks = Receive(@, Stream(taken, taken + m)), !.in_bytes = @ + m]
    BY DEF WithBlocks
  <2> HIDE DEF y
  <2>2. QED  BY <2>1 DEF try_read_in
<1>6. /\ Holds(buf, Ends(q, k), taken)
      /\ buf.executed = [i \in 1 .. k |-> PayloadOf(q, i)]
  BY <1>2 DEF At
<1>7. /\ buf \in Buffer /\ buf.blocks \in Seq(Block) /\ TailHasRoom(buf.blocks) /\ buf.in_step
      /\ Held(buf.blocks) = Stream(Ends(q, k), taken) /\ Ends(q, k) <= taken
      /\ buf.in_bytes = taken - Ends(q, k)
  BY <1>6, BufferFields DEF Holds
<1>8. Open(b) /\ Held(b) = Stream(Ends(q, k), t)
  <2> DEFINE x == buf.blocks
             a == Ends(q, k)
  <2>1. x \in Seq(Block) /\ TailHasRoom(x) /\ a \in Nat /\ a <= taken /\ Held(x) = Stream(a, taken)
    BY <1>3, <1>7
  <2> HIDE DEF x, a
  <2>2. LET r == Receive(x, Stream(taken, taken + m)) IN Open(r) /\ Held(r) = Stream(a, taken + m)
    BY <1>4, <2>1, ReceiveHolds
  <2>3. QED  BY <2>2 DEF x, a
<1> HIDE DEF b
<1>9. n \in Nat /\ n = t - Ends(q, k) /\ Ends(q, k) <= t
  BY <1>3, <1>4, <1>7
<1>10. b \in Seq(Block) /\ TailHasRoom(b)
  BY <1>8 DEF Open, TailHasRoom
<1> HIDE DEF n, t
<1>11. /\ y \in Buffer /\ y.blocks = b /\ y.in_bytes = n
       /\ y.in_step = buf.in_step /\ y.executed = buf.executed
  BY <1>7, <1>9, <1>10, MakeBuffer
<1> HIDE DEF y
<1>12. At(q, y, k, t)
  BY <1>6, <1>7, <1>8, <1>9, <1>10, <1>11 DEF At, Holds
<1>13. \E j \in 0 .. Len(q) : At(q, buf', j, t) /\ NoMore(q, j, t)
  <2>1. CASE m = 0
    <3>1. t = taken /\ buf' = y
      BY <1>4, <1>5, <2>1 DEF t
    <3>2. QED  BY <1>2, <1>12, <3>1
  <2>2. CASE m # 0
    <3>1. buf' = try_rpc_read(y)
      BY <1>5, <2>2
    <3>2. \E j \in 0 .. Len(q) : At(q, try_rpc_read(y), j, t) /\ NoMore(q, j, t)
      BY <1>1, <1>4, <1>12, AllExecuted
    <3>3. QED  BY <3>1, <3>2
  <2>3. QED  BY <2>1, <2>2
<1>14. /\ packets' \in Seq(Packets) /\ Len(packets') <= MaxPackets
       /\ taken' \in 0 .. Ends(packets', Len(packets'))
  BY <1>1, <1>4, <1>5
<1>15. \E j \in 0 .. Len(packets') : At(packets', buf', j, taken') /\ NoMore(packets', j, taken')
  BY <1>5, <1>13
<1>16. QED  BY <1>14, <1>15 DEF InInv

LEMMA InStepKeeps ==
  ASSUME InInv, [InNext]_in_vars, \A len \in Packets : len < TooLong
  PROVE  InInv'
<1>1. ASSUME NEW len \in Packets, ServerSends(len) PROVE InInv'
  BY <1>1, ServerSendsKeeps
<1>2. ASSUME NEW m \in 0 .. End(Len(packets)) - taken, try_read_in(m) PROVE InInv'
  BY <1>2, TryReadKeeps
<1>3. CASE fail_connection_in
  BY <1>3, EmptyInv DEF fail_connection_in
<1>4. CASE UNCHANGED in_vars
  <2>1. packets' = packets /\ taken' = taken /\ buf' = buf
    BY <1>4 DEF in_vars
  <2>2. QED  BY <2>1 DEF InInv
<1>5. QED  BY <1>1, <1>2, <1>3, <1>4 DEF InNext

LEMMA InInvHolds == (\A len \in Packets : len < TooLong) => (InSpec => []InInv)
<1>1. SUFFICES ASSUME \A len \in Packets : len < TooLong PROVE InSpec => []InInv
  OBVIOUS
<1>2. InInit => InInv
  BY FirstInInv
<1>3. InInv /\ [InNext]_in_vars => InInv'
  BY <1>1, InStepKeeps
<1>4. QED  BY <1>2, <1>3, PTL DEF InSpec

LEMMA InInvShows ==
  ASSUME InInv
  PROVE  ExecutedAsArrived /\ ReaderInStep
<1>1. /\ packets \in Seq(Packets) /\ Len(packets) <= MaxPackets
      /\ taken \in 0 .. Ends(packets, Len(packets))
  BY DEF InInv
<1>2. PICK k \in 0 .. Len(packets) : At(packets, buf, k, taken) /\ NoMore(packets, k, taken)
  BY DEF InInv
<1>3. Len(packets) \in Nat /\ \A i \in 0 .. Len(packets) : Ends(packets, i) \in Nat
  BY <1>1, LenProperties, EndsAre
<1>4. \A i : End(i) = Ends(packets, i)
  BY DEF End, Ends
<1>5. /\ Holds(buf, Ends(packets, k), taken)
      /\ buf.executed = [i \in 1 .. k |-> PayloadOf(packets, i)]
  BY <1>2 DEF At
<1>6. Max(Arrived) = k
  <2>1. Arrived = {i \in 0 .. Len(packets) : Ends(packets, i) <= taken}
    BY <1>4 DEF Arrived
  <2>2. k \in Arrived
    BY <1>5, <2>1 DEF Holds
  <2>3. ASSUME NEW i \in Arrived PROVE i <= k
    <3>1. i \in 0 .. Len(packets) /\ Ends(packets, i) <= taken
      BY <2>1
    <3>2. SUFFICES ASSUME k < i PROVE FALSE
      BY <1>3, <3>1
    <3>3. k + 1 \in 0 .. Len(packets) /\ k < Len(packets)
      BY <1>3, <3>1, <3>2
    <3>4. taken < Ends(packets, k + 1)
      BY <1>2, <3>3 DEF NoMore
    <3>5. Ends(packets, k + 1) <= Ends(packets, i)
      <4>1. CASE i = k + 1
        BY <1>3, <3>3, <4>1
      <4>2. CASE i # k + 1
        <5>1. k + 1 < i
          BY <3>1, <3>2, <4>2
        <5>2. Ends(packets, k + 1) < Ends(packets, i)
          BY <1>1, <3>1, <3>3, <5>1, EndsRise
        <5>3. QED  BY <1>3, <3>1, <3>3, <5>2
      <4>3. QED  BY <4>1, <4>2
    <3>6. Ends(packets, k + 1) \in Nat /\ Ends(packets, i) \in Nat /\ taken \in Nat
      BY <1>1, <1>3, <3>1, <3>3
    <3>7. QED  BY <3>1, <3>4, <3>5, <3>6
  <2>4. \A x \in Arrived : (\A y \in Arrived : x >= y) => x = k
    <3>1. \A x \in Arrived : x \in Nat
      BY <2>1
    <3>2. QED  BY <2>2, <2>3, <3>1
  <2>5. \A y \in Arrived : k >= y
    BY <2>1, <2>3
  <2>6. QED  BY <2>2, <2>4, <2>5 DEF Max
<1>7. ExecutedAsArrived
  <2>1. \A i \in 1 .. k : Payload(i) = PayloadOf(packets, i)
    BY <1>4 DEF Payload, PayloadOf
  <2>2. [i \in 1 .. k |-> Payload(i)] = [i \in 1 .. k |-> PayloadOf(packets, i)]
    BY <2>1
  <2>3. QED  BY <1>5, <1>6, <2>2 DEF ExecutedAsArrived
<1>8. BlocksHoldTheRest
  <2>1. Ends(packets, k) \in Nat /\ taken \in Nat
    BY <1>1, <1>3
  <2>2. Ends(packets, k) <= taken /\ buf.in_bytes = taken - Ends(packets, k)
        /\ Held(buf.blocks) = Stream(Ends(packets, k), taken)
    BY <1>5 DEF Holds
  <2>3. Len(Stream(Ends(packets, k), taken)) = taken - Ends(packets, k)
    BY <2>1, <2>2, StreamIs
  <2>4. QED  BY <1>4, <1>6, <2>2, <2>3 DEF BlocksHoldTheRest
<1>9. InTypeOK /\ InStep
  BY <1>1, <1>4, <1>5 DEF InTypeOK, InStep, Holds
<1>10. QED  BY <1>7, <1>8, <1>9 DEF ReaderInStep

(* ExecutedAsArrived: however read() and the blocks cut the stream, each   *)
(* packet is handed on as soon as it has arrived whole, once, in order,    *)
(* with exactly its own bytes, for blocks, words and packets of any size.  *)
(* A packet of MAX_RESPONSE_SIZE or more is skipped by its header only,    *)
(* and what is in it is taken for packets: hence the hypothesis.           *)
THEOREM AlwaysExecutedAsArrived ==
  (\A len \in Packets : len < TooLong) => (InSpec => []ExecutedAsArrived)
<1>1. SUFFICES ASSUME \A len \in Packets : len < TooLong PROVE InSpec => []ExecutedAsArrived
  OBVIOUS
<1>2. InInv => ExecutedAsArrived
  BY InInvShows
<1>3. QED  BY <1>1, <1>2, InInvHolds, PTL

(* ReaderInStep: between two calls of try_rpc_read the blocks hold exactly *)
(* what has come of the packets not handed on, in_bytes is how much that   *)
(* is, and what is read next begins a packet.                              *)
THEOREM ReaderAlwaysInStep ==
  (\A len \in Packets : len < TooLong) => (InSpec => []ReaderInStep)
<1>1. SUFFICES ASSUME \A len \in Packets : len < TooLong PROVE InSpec => []ReaderInStep
  OBVIOUS
<1>2. InInv => ReaderInStep
  BY InInvShows
<1>3. QED  BY <1>1, <1>2, InInvHolds, PTL

=============================================================================
