----------------------------- MODULE FileProofs -----------------------------
(***************************************************************************)
(* Proofs of FilesRight, DownloadsCounted and WholeStays of Download, for  *)
(* any finite set of media, of any sizes, and any number of loads and      *)
(* faults; and of SentIsWhole, SentIsKnown and UploadsCounted of Upload,   *)
(* for files of any finite set of sizes, any part sizes of whole blocks,   *)
(* any limits and any number of sends and faults.                          *)
(*                                                                         *)
(* A download: what is on disk is only what a struct downloads wrote where *)
(* it was.  A struct that took no offset from a file is in step with its   *)
(* file and its iv (Clean), and as many of them as there are write the     *)
(* same bytes to the same places.                                          *)
(*                                                                         *)
(* An upload: while it is open, its offset is that of its part_num whole   *)
(* parts, and those are what the server has or is asked to keep (OpenAt);  *)
(* when it is closed the last of them is the rest of the file (ClosedAt).  *)
(* The answer to the last part is then the whole file (AllParts).          *)
(*                                                                         *)
(* The counters of both are sums over the structs, of which a step changes *)
(* one (SumChanged).                                                       *)
(***************************************************************************)
EXTENDS Download, Upload, FiniteSetTheorems, SequenceTheorems,
        WellFoundedInduction, TLAPS

-----------------------------------------------------------------------------
(* Induction, from the library's theorem that < is well founded on Nat.    *)

LEMMA LeastNumber ==
  ASSUME NEW T \in SUBSET Nat, T # {}
  PROVE  \E m \in T : \A k \in T : m <= k
<1> DEFINE R == OpToRel(<, Nat)
<1>1. IsWellFoundedOn(R, Nat)
  BY NatLessThanWellFounded
<1>2. PICK m \in T : \A k \in T : <<k, m>> \notin R
  <2> HIDE DEF R
  <2>1. QED  BY <1>1, WFMin
<1>3. \A k \in T : m <= k
  <2>1. R = {ss \in Nat \X Nat : ss[1] < ss[2]}
    BY DEF OpToRel
  <2> HIDE DEF R
  <2>2. TAKE k \in T
  <2>3. ~ (k < m)
    BY <1>2, <2>1
  <2>4. QED  BY <2>3
<1>4. QED  BY <1>3

LEMMA Induction ==
  ASSUME NEW T, 0 \in T, \A n \in Nat : n \in T => n + 1 \in T
  PROVE  Nat \subseteq T
<1>1. SUFFICES ASSUME Nat \ T # {} PROVE FALSE
  OBVIOUS
<1>2. PICK m \in Nat \ T : \A k \in Nat \ T : m <= k
  BY <1>1, LeastNumber
<1>3. m - 1 \in Nat
  BY <1>2
<1>4. m - 1 \in T
  BY <1>2, <1>3
<1>5. QED  BY <1>2, <1>3, <1>4

-----------------------------------------------------------------------------
(* SumFunction.  It is a fold: it takes out an element at a time and adds  *)
(* its value to the sum of the rest.                                       *)

Chosen(s) == CHOOSE x \in s : TRUE
Adding(f, g, s) == IF s = {} THEN 0 ELSE f[Chosen(s)] + g[s \ {Chosen(s)}]
Sums(f, g) == g = [s \in SUBSET DOMAIN f |-> Adding(f, g, s)]
Summed(f, S, g) ==
  /\ g \in [SUBSET S -> Int] /\ SumFunction(f) = g[S]
  /\ \A s \in SUBSET S : g[s] = Adding(f, g, s)

LEMMA RestCounted ==
  ASSUME NEW s, s # {}, IsFiniteSet(s)
  PROVE  /\ Chosen(s) \in s /\ IsFiniteSet(s \ {Chosen(s)})
         /\ Cardinality(s) \in Nat \ {0}
         /\ Cardinality(s \ {Chosen(s)}) = Cardinality(s) - 1
<1>1. Chosen(s) \in s
  BY DEF Chosen
<1>2. Cardinality(s) \in Nat /\ Cardinality(s) # 0
  BY FS_CardinalityType, FS_EmptySet
<1>3. QED  BY <1>1, <1>2, FS_RemoveElement

LEMMA SumsExist ==
  ASSUME NEW S, IsFiniteSet(S), NEW f \in [S -> Int]
  PROVE  \E g \in [SUBSET S -> Int] : Sums(f, g)
<1> DEFINE Fits(g, n) == \A s \in SUBSET S : Cardinality(s) <= n => g[s] = Adding(f, g, s)
           T == {n \in Nat : \E g \in [SUBSET S -> Int] : Fits(g, n)}
<1>1. \A s \in SUBSET S : IsFiniteSet(s) /\ Cardinality(s) \in Nat
  BY FS_Subset, FS_CardinalityType
<1>2. 0 \in T
  <2> DEFINE g == [s \in SUBSET S |-> 0]
  <2>1. ASSUME NEW s \in SUBSET S, Cardinality(s) <= 0 PROVE g[s] = Adding(f, g, s)
    <3>1. s = {}
      BY <2>1, <1>1, FS_EmptySet
    <3>2. QED  BY <3>1 DEF Adding
  <2>2. g \in [SUBSET S -> Int] /\ Fits(g, 0)
    BY <2>1
  <2> HIDE DEF g, Fits
  <2>3. QED  BY <2>2
<1>3. ASSUME NEW n \in Nat, n \in T PROVE n + 1 \in T
  <2>1. PICK g \in [SUBSET S -> Int] : Fits(g, n)
    BY <1>3
  <2> DEFINE h == [s \in SUBSET S |-> Adding(f, g, s)]
  <2>2. ASSUME NEW s \in SUBSET S PROVE Adding(f, g, s) \in Int
    <3>1. CASE s = {}
      BY <3>1 DEF Adding
    <3>2. CASE s # {}
      <4>1. Chosen(s) \in S /\ s \ {Chosen(s)} \in SUBSET S
        BY <3>2 DEF Chosen
      <4>2. QED  BY <3>2, <4>1 DEF Adding
    <3>3. QED  BY <3>1, <3>2
  <2>3. ASSUME NEW s \in SUBSET S, Cardinality(s) <= n + 1
        PROVE  h[s] = Adding(f, h, s)
    <3>1. CASE s = {}
      BY <3>1 DEF Adding
    <3>2. CASE s # {}
      <4> DEFINE r == s \ {Chosen(s)}
      <4>1. r \in SUBSET S /\ Cardinality(r) <= n
        BY <3>2, <2>3, <1>1, RestCounted
      <4>2. g[r] = Adding(f, g, r)
        BY <2>1, <4>1
      <4>3. h[r] = g[r]
        BY <4>1, <4>2
      <4>4. QED  BY <3>2, <4>3 DEF Adding
    <3>3. QED  BY <3>1, <3>2
  <2>4. h \in [SUBSET S -> Int] /\ Fits(h, n + 1)
    BY <2>2, <2>3
  <2> HIDE DEF h, Fits
  <2>5. n + 1 \in Nat
    OBVIOUS
  <2>6. QED  BY <2>4, <2>5
<1>4. Nat \subseteq T
  <2> HIDE DEF T
  <2>1. QED  BY <1>2, <1>3, Induction
<1>5. PICK g \in [SUBSET S -> Int] : Fits(g, Cardinality(S))
  BY <1>1, <1>4
<1>6. ASSUME NEW s \in SUBSET S PROVE g[s] = Adding(f, g, s)
  <2>1. Cardinality(s) <= Cardinality(S)
    BY FS_Subset
  <2>2. QED  BY <2>1, <1>5
<1>7. g = [s \in SUBSET S |-> Adding(f, g, s)]
  BY <1>6
<1>8. QED  BY <1>7 DEF Sums

LEMMA SumIs ==
  ASSUME NEW S, IsFiniteSet(S), NEW f \in [S -> Int]
  PROVE  \E g : Summed(f, S, g)
<1> DEFINE g == CHOOSE g : Sums(f, g)
<1>1. DOMAIN f = S
  OBVIOUS
<1>2. \E h : Sums(f, h)
  BY SumsExist
<1>3. Sums(f, g)
  BY <1>2
<1>4. SumFunction(f) = g[S]
  BY <1>1 DEF SumFunction, SumFunctionOnSet, FoldFunctionOnSet, MapThenFoldSet,
              Sums, Adding, Chosen
<1>5. ASSUME NEW h \in [SUBSET S -> Int], Sums(f, h) PROVE h = g
  <2> HIDE DEF g
  <2> DEFINE T == {n \in Nat : \A s \in SUBSET S : Cardinality(s) = n => h[s] = g[s]}
  <2>1. \A s \in SUBSET S : /\ IsFiniteSet(s) /\ Cardinality(s) \in Nat
                            /\ h[s] = Adding(f, h, s) /\ g[s] = Adding(f, g, s)
    BY <1>1, <1>3, <1>5, FS_Subset, FS_CardinalityType DEF Sums
  <2>2. 0 \in T
    <3>1. ASSUME NEW s \in SUBSET S, Cardinality(s) = 0 PROVE h[s] = g[s]
      <4>1. s = {}
        BY <2>1, <3>1, FS_EmptySet
      <4>2. QED  BY <2>1, <4>1 DEF Adding
    <3>2. QED  BY <3>1
  <2>3. ASSUME NEW n \in Nat, n \in T PROVE n + 1 \in T
    <3>1. ASSUME NEW s \in SUBSET S, Cardinality(s) = n + 1 PROVE h[s] = g[s]
      <4>1. s # {}
        BY <2>1, <3>1, FS_EmptySet
      <4>2. s \ {Chosen(s)} \in SUBSET S /\ Cardinality(s \ {Chosen(s)}) = n
        BY <2>1, <3>1, <4>1, RestCounted
      <4>3. h[s \ {Chosen(s)}] = g[s \ {Chosen(s)}]
        BY <2>3, <4>2
      <4>4. QED  BY <2>1, <4>3 DEF Adding
    <3>2. QED  BY <3>1
  <2>4. Nat \subseteq T
    <3> HIDE DEF T
    <3>1. QED  BY <2>2, <2>3, Induction
  <2>5. \A s \in SUBSET S : h[s] = g[s]
    BY <2>1, <2>4
  <2>6. g = [s \in SUBSET S |-> Adding(f, g, s)]
    BY <1>1, <1>3 DEF Sums
  <2>7. QED  BY <2>5, <2>6
<1>6. g \in [SUBSET S -> Int]
  <2>1. PICK h \in [SUBSET S -> Int] : Sums(f, h)
    BY SumsExist
  <2> HIDE DEF g
  <2>2. QED  BY <1>5, <2>1
<1> HIDE DEF g
<1>7. QED  BY <1>1, <1>3, <1>4, <1>6 DEF Sums, Summed

(* What holds of the sum of nothing and is kept by each value that is added. *)
LEMMA SumOfNothing ==
  ASSUME NEW S, IsFiniteSet(S), NEW f \in [S -> Int], \A x \in S : f[x] = 0
  PROVE  SumFunction(f) = 0
<1>1. PICK g : Summed(f, S, g)
  BY SumIs
<1> DEFINE T == {n \in Nat : \A s \in SUBSET S : Cardinality(s) = n => g[s] = 0}
<1>2. \A s \in SUBSET S : IsFiniteSet(s) /\ Cardinality(s) \in Nat
  BY FS_Subset, FS_CardinalityType
<1>3. 0 \in T
  <2>1. ASSUME NEW s \in SUBSET S, Cardinality(s) = 0 PROVE g[s] = 0
    <3>1. s = {}
      BY <1>2, <2>1, FS_EmptySet
    <3>2. QED  BY <1>1, <3>1 DEF Adding, Summed
  <2>2. QED  BY <2>1
<1>4. ASSUME NEW n \in Nat, n \in T PROVE n + 1 \in T
  <2>1. ASSUME NEW s \in SUBSET S, Cardinality(s) = n + 1 PROVE g[s] = 0
    <3>1. s # {}
      BY <1>2, <2>1, FS_EmptySet
    <3>2. /\ s \ {Chosen(s)} \in SUBSET S /\ Cardinality(s \ {Chosen(s)}) = n
          /\ Chosen(s) \in S
      BY <1>2, <2>1, <3>1, RestCounted
    <3>3. g[s \ {Chosen(s)}] = 0
      BY <1>4, <3>2
    <3>4. QED  BY <1>1, <3>2, <3>3 DEF Adding, Summed
  <2>2. QED  BY <2>1
<1>5. Nat \subseteq T
  <2> HIDE DEF T
  <2>1. QED  BY <1>3, <1>4, Induction
<1>6. QED  BY <1>1, <1>2, <1>5 DEF Summed

LEMMA SumOfNaturals ==
  ASSUME NEW S, IsFiniteSet(S), NEW f \in [S -> Nat]
  PROVE  SumFunction(f) \in Nat
<1>1. PICK g : Summed(f, S, g)
  <2>1. f \in [S -> Int]
    OBVIOUS
  <2>2. QED  BY <2>1, SumIs
<1> DEFINE T == {n \in Nat : \A s \in SUBSET S : Cardinality(s) = n => g[s] \in Nat}
<1>2. \A s \in SUBSET S : IsFiniteSet(s) /\ Cardinality(s) \in Nat
  BY FS_Subset, FS_CardinalityType
<1>3. 0 \in T
  <2>1. ASSUME NEW s \in SUBSET S, Cardinality(s) = 0 PROVE g[s] \in Nat
    <3>1. s = {}
      BY <1>2, <2>1, FS_EmptySet
    <3>2. g[s] = 0
      BY <1>1, <3>1 DEF Adding, Summed
    <3>3. QED  BY <3>2
  <2>2. QED  BY <2>1
<1>4. ASSUME NEW n \in Nat, n \in T PROVE n + 1 \in T
  <2>1. ASSUME NEW s \in SUBSET S, Cardinality(s) = n + 1 PROVE g[s] \in Nat
    <3>1. s # {}
      BY <1>2, <2>1, FS_EmptySet
    <3>2. /\ s \ {Chosen(s)} \in SUBSET S /\ Cardinality(s \ {Chosen(s)}) = n
          /\ Chosen(s) \in S
      BY <1>2, <2>1, <3>1, RestCounted
    <3>3. g[s \ {Chosen(s)}] \in Nat
      BY <1>4, <3>2
    <3>4. QED  BY <1>1, <3>2, <3>3 DEF Adding, Summed
  <2>2. QED  BY <2>1
<1>5. Nat \subseteq T
  <2> HIDE DEF T
  <2>1. QED  BY <1>3, <1>4, Induction
<1>6. QED  BY <1>1, <1>2, <1>5 DEF Summed

(* One value changes.                                                      *)
LEMMA SumChanged ==
  ASSUME NEW S, IsFiniteSet(S), NEW f \in [S -> Int], NEW x \in S, NEW v \in Int,
         NEW e, e = [f EXCEPT ![x] = v]
  PROVE  SumFunction(e) = SumFunction(f) - f[x] + v
<1>1. e \in [S -> Int] /\ e[x] = v /\ \A y \in S : y # x => e[y] = f[y]
  OBVIOUS
<1>2. PICK g : Summed(f, S, g)
  BY SumIs
<1>3. PICK h : Summed(e, S, h)
  BY <1>1, SumIs
<1> DEFINE More(s) == IF x \in s THEN v - f[x] ELSE 0
           T == {n \in Nat : \A s \in SUBSET S : Cardinality(s) = n => h[s] = g[s] + More(s)}
<1>4. \A s \in SUBSET S : IsFiniteSet(s) /\ Cardinality(s) \in Nat
  BY FS_Subset, FS_CardinalityType
<1>5. 0 \in T
  <2>1. ASSUME NEW s \in SUBSET S, Cardinality(s) = 0 PROVE h[s] = g[s] + More(s)
    <3>1. s = {}
      BY <1>4, <2>1, FS_EmptySet
    <3>2. h[s] = 0 /\ g[s] = 0
      BY <1>2, <1>3, <3>1 DEF Adding, Summed
    <3>3. QED  BY <3>1, <3>2
  <2>2. QED  BY <2>1
<1>6. ASSUME NEW n \in Nat, n \in T PROVE n + 1 \in T
  <2>1. ASSUME NEW s \in SUBSET S, Cardinality(s) = n + 1 PROVE h[s] = g[s] + More(s)
    <3> DEFINE r == s \ {Chosen(s)}
    <3>1. s # {}
      BY <1>4, <2>1, FS_EmptySet
    <3>2. /\ r \in SUBSET S /\ Cardinality(r) = n /\ Chosen(s) \in s /\ Chosen(s) \in S
      BY <1>4, <2>1, <3>1, RestCounted
    <3>3. h[r] = g[r] + More(r)
      BY <1>6, <3>2
    <3>4. g[s] = f[Chosen(s)] + g[r] /\ h[s] = e[Chosen(s)] + h[r]
      BY <1>2, <1>3, <3>1 DEF Adding, Summed
    <3>5. g[r] \in Int /\ f[Chosen(s)] \in Int /\ f[x] \in Int
      BY <1>2, <3>2 DEF Summed
    <3>6. CASE Chosen(s) = x
      <4>1. h[r] = g[r] /\ e[Chosen(s)] = v /\ More(s) = v - f[x]
        BY <1>1, <3>2, <3>3, <3>5, <3>6
      <4>2. QED  BY <4>1, <3>4, <3>5, <3>6
    <3>7. CASE Chosen(s) # x
      <4>1. e[Chosen(s)] = f[Chosen(s)] /\ More(r) = More(s)
        BY <1>1, <3>2, <3>7
      <4>2. More(s) \in Int
        BY <3>5
      <4> HIDE DEF More
      <4>3. QED  BY <4>1, <4>2, <3>3, <3>4, <3>5
    <3>8. QED  BY <3>6, <3>7
  <2>2. QED  BY <2>1
<1>7. Nat \subseteq T
  <2> HIDE DEF T
  <2>1. QED  BY <1>5, <1>6, Induction
<1>8. h[S] = g[S] + (v - f[x])
  BY <1>4, <1>7
<1>9. g[S] \in Int /\ f[x] \in Int
  BY <1>2 DEF Summed
<1>10. QED  BY <1>2, <1>3, <1>8, <1>9 DEF Summed

-----------------------------------------------------------------------------
(* Max and Min. *)

LEMMA MaxOfFinite ==
  ASSUME NEW S \in SUBSET Nat, IsFiniteSet(S), S # {}
  PROVE  Max(S) \in S /\ \A x \in S : x <= Max(S)
<1> DEFINE T == {n \in Nat : \A s \in SUBSET S : Cardinality(s) = n /\ s # {} =>
                               \E m \in s : \A x \in s : x <= m}
<1>1. \A s \in SUBSET S : IsFiniteSet(s) /\ Cardinality(s) \in Nat
  BY FS_Subset, FS_CardinalityType
<1>2. 0 \in T
  BY <1>1, FS_EmptySet
<1>3. ASSUME NEW n \in Nat, n \in T PROVE n + 1 \in T
  <2>1. ASSUME NEW s \in SUBSET S, Cardinality(s) = n + 1, s # {}
        PROVE  \E m \in s : \A x \in s : x <= m
    <3> DEFINE r == s \ {Chosen(s)}
    <3>1. r \in SUBSET S /\ Cardinality(r) = n /\ Chosen(s) \in s /\ Chosen(s) \in Nat
      <4>1. Chosen(s) \in s /\ Cardinality(r) = Cardinality(s) - 1
        BY <1>1, <2>1, RestCounted
      <4>2. Cardinality(r) = n
        <5> HIDE DEF r
        <5>1. QED  BY <4>1, <2>1
      <4>3. QED  BY <4>1, <4>2
    <3>2. CASE r = {}
      <4>1. \A x \in s : x = Chosen(s)
        BY <3>2
      <4>2. QED  BY <3>1, <4>1
    <3>3. CASE r # {}
      <4>1. PICK m \in r : \A x \in r : x <= m
        BY <1>3, <3>1, <3>3
      <4>2. m \in s /\ m \in Nat /\ \A x \in s : x = Chosen(s) \/ x \in r
        BY <4>1
      <4>3. CASE Chosen(s) <= m
        BY <4>1, <4>2, <4>3
      <4>4. CASE ~(Chosen(s) <= m)
        <5>1. \A x \in s : x \in Nat
          OBVIOUS
        <5>2. \A x \in r : x <= Chosen(s)
          BY <3>1, <4>1, <4>2, <4>4, <5>1
        <5> HIDE DEF r
        <5>3. QED  BY <3>1, <4>2, <5>2
      <4>5. QED  BY <4>3, <4>4
    <3>4. QED  BY <3>2, <3>3
  <2>2. QED  BY <2>1
<1>4. Nat \subseteq T
  <2> HIDE DEF T
  <2>1. QED  BY <1>2, <1>3, Induction
<1>5. \E m \in S : \A x \in S : x <= m
  BY <1>1, <1>4
<1>6. \E m \in S : \A x \in S : m >= x
  BY <1>5
<1>7. Max(S) \in S /\ \A x \in S : Max(S) >= x
  BY <1>6 DEF Max
<1>8. QED  BY <1>7

LEMMA MaxOfTwo ==
  ASSUME NEW a \in Int, NEW b \in Int
  PROVE  Max({a, b}) = IF a >= b THEN a ELSE b
<1>1. \E x \in {a, b} : \A y \in {a, b} : x >= y
  OBVIOUS
<1>2. Max({a, b}) \in {a, b} /\ \A y \in {a, b} : Max({a, b}) >= y
  BY <1>1 DEF Max
<1>3. QED  BY <1>2

LEMMA MinOfTwo ==
  ASSUME NEW a \in Int, NEW b \in Int
  PROVE  Min({a, b}) = IF a <= b THEN a ELSE b
<1>1. \E x \in {a, b} : \A y \in {a, b} : x =< y
  OBVIOUS
<1>2. Min({a, b}) \in {a, b} /\ \A y \in {a, b} : Min({a, b}) =< y
  BY <1>1 DEF Min
<1>3. QED  BY <1>2

-----------------------------------------------------------------------------
(* Sequences. *)

LEMMA ElementOf ==
  ASSUME NEW S, NEW s \in Seq(S), NEW i \in 1 .. Len(s)
  PROVE  s[i] \in S
OBVIOUS

LEMMA SameSequence ==
  ASSUME NEW S, NEW s \in Seq(S), NEW t \in Seq(S), Len(s) = Len(t),
         \A i \in 1 .. Len(s) : s[i] = t[i]
  PROVE  s = t
OBVIOUS

LEMMA MadeSequence ==
  ASSUME NEW S, NEW n \in Nat, NEW s \in [1 .. n -> S]
  PROVE  s \in Seq(S) /\ Len(s) = n
OBVIOUS

LEMMA SeqOfMore ==
  ASSUME NEW S, NEW T, S \subseteq T, NEW s \in Seq(S)
  PROVE  s \in Seq(T)
<1>1. Len(s) \in Nat /\ s \in [1 .. Len(s) -> S]
  OBVIOUS
<1>2. s \in [1 .. Len(s) -> T]
  BY <1>1
<1>3. QED  BY <1>1, <1>2

(* A sequence of computed elements.                                        *)
LEMMA MadeIs ==
  ASSUME NEW S, NEW k \in Int, NEW s \in [1 .. k -> S]
  PROVE  s \in Seq(S) /\ Len(s) = IF k >= 0 THEN k ELSE 0
<1>1. CASE k >= 0
  <2>1. k \in Nat
    BY <1>1
  <2>2. s \in Seq(S) /\ Len(s) = k
    BY <2>1, MadeSequence
  <2>3. QED  BY <1>1, <2>2
<1>2. CASE ~(k >= 0)
  <2>1. 1 .. k = 1 .. 0
    BY <1>2
  <2>2. s \in [1 .. 0 -> S] /\ 0 \in Nat
    BY <2>1
  <2>3. s \in Seq(S) /\ Len(s) = 0
    BY ONLY <2>2, MadeSequence
  <2>4. QED  BY <1>2, <2>3
<1>3. QED  BY <1>1, <1>2

LEMMA CutIs ==
  ASSUME NEW S, NEW s \in Seq(S), NEW n \in 0 .. Len(s)
  PROVE  /\ SubSeq(s, 1, n) \in Seq(S) /\ Len(SubSeq(s, 1, n)) = n
         /\ \A i \in 1 .. n : SubSeq(s, 1, n)[i] = s[i]
<1>1. SubSeq(s, 1, n) = [i \in 1 .. n |-> s[i]]
  <2>1. CASE n = 0
    BY <2>1
  <2>2. CASE n > 0
    BY <2>2, SubSeqProperties
  <2>3. QED  BY <2>1, <2>2
<1>2. QED  BY <1>1

-----------------------------------------------------------------------------
(* Download: the inductive invariant. *)

(* What of a download counts, and how much of it there is.                 *)
SizeOf(d) == IF d = NoDownload THEN 0 ELSE size[d.of]
Got(d) == IF d = NoDownload THEN 0 ELSE d.offset
Sizes == [l \in Loads |-> SizeOf(D[l])]
Gots == [l \in Loads |-> Got(D[l])]

FileOK(file) == file \in Seq(0 .. Longest) /\ Len(file) <= Longest
Right(file) == file = [i \in 1 .. Len(file) |-> i]

(* A download that goes on is not at the end, and has not written more than*)
(* it counts.                                                              *)
GoesOn(d) == d \in Download /\ Position(d) <= d.offset /\ d.offset < size[d.of]

(* One that has taken no offset from a file writes where it is, decrypts   *)
(* what it gets, and has all before in the file.                           *)
Clean(d, file) == Position(d) = d.offset /\ d.iv = d.offset /\ d.offset <= Len(file)

Begun ==
  \A l \in Loads : D[l] # NoDownload =>
    l <= calls /\ GoesOn(D[l]) /\ Position(D[l]) <= Len(disk[D[l].of])
FilesSound ==
  \A m \in Media \ resumed :
    /\ Right(disk[m]) /\ (m \in said => Len(disk[m]) >= size[m])
    /\ \A l \in Loads : D[l] # NoDownload /\ D[l].of = m => Clean(D[l], disk[m])

IInv == TypeOK /\ Begun /\ FilesSound /\ CountersAddUp

-----------------------------------------------------------------------------
(* Sizes. *)

LEMMA LongestIs ==
  /\ Longest \in Nat /\ PartSize \in Nat \ {0}
  /\ \A m \in Media : /\ size[m] \in Nat \ {0} /\ length[m] \in Nat \ {0}
                      /\ size[m] + PartSize <= Longest /\ length[m] + PartSize <= Longest
<1> DEFINE S == {size[m] : m \in Media}
           T == {length[m] : m \in Media}
<1>1. IsFiniteSet(Media) /\ Media # {} /\ PartSize \in Nat \ {0}
  BY DownloadAssumption
<1>2. \A m \in Media : size[m] \in Nat \ {0} /\ length[m] \in Nat \ {0}
  BY DownloadAssumption
<1>3. IsFiniteSet(S) /\ IsFiniteSet(T)
  <2>1. size \in [Media -> Nat \ {0}] /\ length \in [Media -> Nat \ {0}]
    BY DownloadAssumption
  <2>2. size \in Surjection(Media, S) /\ length \in Surjection(Media, T)
    BY <2>1 DEF Surjection
  <2> HIDE DEF S, T
  <2>3. QED  BY <1>1, <2>2, FS_Surjection
<1>4. S \cup T \in SUBSET Nat /\ IsFiniteSet(S \cup T) /\ S \cup T # {}
  <2>1. S \cup T \in SUBSET Nat /\ S \cup T # {}
    BY <1>1, <1>2
  <2> HIDE DEF S, T
  <2>2. QED  BY <2>1, <1>3, FS_Union
<1>5. Max(S \cup T) \in Nat /\ \A x \in S \cup T : x <= Max(S \cup T)
  <2> HIDE DEF S, T
  <2>1. QED  BY <1>4, MaxOfFinite
<1>6. Longest = Max(S \cup T) + PartSize
  BY DEF Longest
<1>7. \A m \in Media : size[m] \in S \cup T /\ length[m] \in S \cup T
  OBVIOUS
<1>8. \A m \in Media : size[m] <= Max(S \cup T) /\ length[m] <= Max(S \cup T)
  BY <1>5, <1>7
<1> HIDE DEF S, T
<1>9. QED  BY <1>1, <1>2, <1>5, <1>6, <1>8

LEMMA NoneIsNoDownload == NoDownload \notin Download
BY DEF NoDownload, Download

LEMMA DownloadIs ==
  ASSUME NEW d \in Download
  PROVE  /\ d.of \in Media /\ d.offset \in 0 .. Longest /\ d.fd \in 0 .. Longest + 1
         /\ d.iv \in 0 .. Broken /\ d # NoDownload
         /\ d.offset \in Nat /\ Position(d) \in Nat
         /\ SizeOf(d) = size[d.of] /\ Got(d) = d.offset
<1>1. d.of \in Media /\ d.offset \in 0 .. Longest /\ d.fd \in 0 .. Longest + 1 /\ d.iv \in 0 .. Broken
  BY DEF Download
<1>2. d # NoDownload
  BY NoneIsNoDownload
<1>3. d.offset \in Nat /\ Position(d) \in Nat
  BY <1>1, LongestIs DEF Position, Closed
<1>4. QED  BY <1>1, <1>2, <1>3 DEF SizeOf, Got

(* An offset is set. *)
LEMMA OffsetSet ==
  ASSUME NEW d \in Download, NEW n \in 0 .. Longest
  PROVE  LET e == [d EXCEPT !.offset = n]
         IN /\ e \in Download /\ e.of = d.of /\ e.offset = n /\ e.iv = d.iv
            /\ Position(e) = Position(d)
<1> DEFINE e == [d EXCEPT !.offset = n]
<1>1. e \in Download /\ e.of = d.of /\ e.offset = n /\ e.iv = d.iv /\ e.fd = d.fd
  BY DEF Download
<1> HIDE DEF e
<1>2. Position(e) = Position(d)
  BY <1>1 DEF Position
<1>3. QED  BY <1>1, <1>2 DEF e

-----------------------------------------------------------------------------
(* Parts and files. *)

(* What comes: not more than a part, and that of the file.                 *)
PartFor(d, p) ==
  /\ p \in Seq(1 .. Longest) /\ Len(p) <= PartSize
  /\ \A i \in 1 .. Len(p) : p[i] = d.offset + i

LEMMA PartComes ==
  ASSUME NEW d, GoesOn(d)
  PROVE  PartFor(d, Part(d)) /\ PartFor(d, <<>>)
<1> DEFINE k == Min({PartSize, length[d.of] - d.offset})
           p == [i \in 1 .. k |-> d.offset + i]
<1>1. /\ d.of \in Media /\ d.offset \in Nat /\ PartSize \in Nat \ {0} /\ Longest \in Nat
      /\ length[d.of] \in Nat /\ length[d.of] + PartSize <= Longest
  BY DownloadIs, LongestIs DEF GoesOn
<1>2. k \in Int /\ k <= PartSize /\ k <= length[d.of] - d.offset
  BY <1>1, MinOfTwo
<1> HIDE DEF k
<1>3. \A i \in 1 .. k : p[i] \in 1 .. Longest /\ p[i] = d.offset + i
  BY <1>1, <1>2
<1>4. p \in [1 .. k -> 1 .. Longest]
  BY <1>3
<1> HIDE DEF p
<1>5. p \in Seq(1 .. Longest) /\ Len(p) = IF k >= 0 THEN k ELSE 0
  BY <1>2, <1>4, MadeIs
<1>6. Len(p) <= PartSize /\ \A i \in 1 .. Len(p) : p[i] = d.offset + i
  BY <1>1, <1>2, <1>3, <1>5
<1>7. p = Part(d)
  BY DEF p, k, Part
<1>8. PartFor(d, Part(d))
  BY <1>5, <1>6, <1>7 DEF PartFor
<1>9. <<>> \in Seq(1 .. Longest) /\ Len(<<>>) = 0
  OBVIOUS
<1>10. PartFor(d, <<>>)
  BY <1>1, <1>9 DEF PartFor
<1>11. QED  BY <1>8, <1>10

(* What is written of it: all of it, or enough to make the file complete;  *)
(* and as it is when the chaining has not been broken.                     *)
Written(d, p, b) ==
  /\ b \in Seq(0 .. Longest) /\ Len(b) <= PartSize /\ Len(b) <= Len(p)
  /\ Len(b) # Len(p) => d.offset + Len(b) = size[d.of]
  /\ d.iv = d.offset => \A i \in 1 .. Len(b) : b[i] = d.offset + i

LEMMA DecryptedIs ==
  ASSUME NEW d, GoesOn(d), NEW p, PartFor(d, p)
  PROVE  /\ Decrypted(d, p) \in Seq(0 .. Longest) /\ Len(Decrypted(d, p)) = Len(p)
         /\ d.iv = d.offset => Decrypted(d, p) = p
<1>1. p \in Seq(0 .. Longest) /\ Len(p) \in Nat
  <2>1. 1 .. Longest \subseteq 0 .. Longest
    BY LongestIs
  <2>2. p \in Seq(1 .. Longest)
    BY DEF PartFor
  <2>3. p \in Seq(0 .. Longest)
    BY <2>1, <2>2, SeqOfMore
  <2>4. QED  BY <2>3
<1> DEFINE g == [i \in 1 .. Len(p) |-> Garbage]
<1>2. g \in Seq(0 .. Longest) /\ Len(g) = Len(p)
  BY <1>1, LongestIs DEF Garbage
<1>3. QED  BY <1>1, <1>2 DEF Decrypted

LEMMA ClippedIs ==
  ASSUME NEW d, GoesOn(d), NEW p, PartFor(d, p)
  PROVE  Written(d, p, Clipped(d, p))
<1> DEFINE room == size[d.of] - d.offset
           c == Decrypted(d, p)
           b == Clipped(d, p)
<1>1. room \in Nat \ {0} /\ d.offset \in Nat /\ size[d.of] \in Nat
  BY DownloadIs, LongestIs DEF GoesOn
<1>2. /\ c \in Seq(0 .. Longest) /\ Len(c) = Len(p)
      /\ d.iv = d.offset => c = p
  BY DecryptedIs
<1>3. /\ Len(p) \in Nat /\ Len(p) <= PartSize /\ \A i \in 1 .. Len(p) : p[i] = d.offset + i
  BY DEF PartFor
<1>4. b = IF d.of \in encrypted /\ Len(p) > room THEN SubSeq(c, 1, room) ELSE c
  BY DEF Clipped
<1> HIDE DEF c, b
<1>5. CASE d.of \in encrypted /\ Len(p) > room
  <2>1. b = SubSeq(c, 1, room) /\ room \in 0 .. Len(c)
    BY <1>1, <1>2, <1>3, <1>4, <1>5
  <2> HIDE DEF room
  <2>2. b \in Seq(0 .. Longest) /\ Len(b) = room /\ \A i \in 1 .. room : b[i] = c[i]
    BY <2>1, <1>2, CutIs
  <2>3. Len(b) <= PartSize /\ Len(b) <= Len(p)
    BY <2>2, <1>1, <1>3, <1>5, LongestIs
  <2>4. d.iv = d.offset => \A i \in 1 .. Len(b) : b[i] = d.offset + i
    BY <2>2, <2>3, <1>1, <1>2, <1>3
  <2>5. d.offset + Len(b) = size[d.of]
    BY <2>2, <1>1 DEF room
  <2>6. QED  BY <2>2, <2>3, <2>4, <2>5 DEF Written, b
<1>6. CASE ~(d.of \in encrypted /\ Len(p) > room)
  <2>1. b = c
    BY <1>4, <1>6
  <2>2. QED  BY <2>1, <1>2, <1>3 DEF Written, b
<1>7. QED  BY <1>5, <1>6

LEMMA WriteIs ==
  ASSUME NEW file, FileOK(file), NEW b \in Seq(0 .. Longest),
         NEW at \in 0 .. Len(file), at + Len(b) <= Longest
  PROVE  LET w == write(file, at, b)
         IN /\ FileOK(w) /\ Len(w) >= Len(file) /\ Len(w) >= at + Len(b)
            /\ Right(file) /\ (\A i \in 1 .. Len(b) : b[i] = at + i) => Right(w)
<1> DEFINE n == IF Len(file) >= at + Len(b) THEN Len(file) ELSE at + Len(b)
           w == [i \in 1 .. n |-> IF i > at /\ i <= at + Len(b) THEN b[i - at] ELSE file[i]]
<1>1. /\ Len(file) \in Nat /\ Len(b) \in Nat /\ at \in Nat /\ at <= Len(file)
      /\ Len(file) <= Longest /\ Longest \in Nat
  BY LongestIs DEF FileOK
<1>2. n \in Nat /\ n <= Longest /\ n >= Len(file) /\ n >= at + Len(b)
  BY <1>1
<1>3. w = write(file, at, b)
  BY <1>1, MaxOfTwo DEF write
<1>4. ASSUME NEW i \in 1 .. n PROVE w[i] \in 0 .. Longest
  <2>1. CASE i > at /\ i <= at + Len(b)
    <3>1. i - at \in 1 .. Len(b) /\ w[i] = b[i - at]
      BY <1>1, <1>2, <2>1
    <3> HIDE DEF w
    <3>2. QED  BY <3>1, ElementOf
  <2>2. CASE ~(i > at /\ i <= at + Len(b))
    <3>1. i \in 1 .. Len(file) /\ w[i] = file[i]
      BY <1>1, <1>2, <2>2
    <3>2. file \in Seq(0 .. Longest)
      BY DEF FileOK
    <3> HIDE DEF w
    <3>3. QED  BY <3>1, <3>2, ElementOf
  <2>3. QED  BY <2>1, <2>2
<1>5. w \in [1 .. n -> 0 .. Longest]
  BY <1>4
<1>6. w \in Seq(0 .. Longest) /\ Len(w) = n
  <2> HIDE DEF w, n
  <2>1. QED  BY <1>2, <1>5, MadeSequence
<1>7. ASSUME Right(file), \A i \in 1 .. Len(b) : b[i] = at + i PROVE Right(w)
  <2>1. ASSUME NEW i \in 1 .. n PROVE w[i] = i
    <3>1. CASE i > at /\ i <= at + Len(b)
      <4>1. i - at \in 1 .. Len(b) /\ w[i] = b[i - at]
        BY <1>1, <1>2, <3>1
      <4>2. at + (i - at) = i
        BY <1>1, <1>2
      <4> HIDE DEF w
      <4>3. QED  BY <1>7, <4>1, <4>2
    <3>2. CASE ~(i > at /\ i <= at + Len(b))
      <4>1. i \in 1 .. Len(file) /\ w[i] = file[i]
        BY <1>1, <1>2, <3>2
      <4> HIDE DEF w
      <4>2. file[i] = i
        BY <1>7, <4>1 DEF Right
      <4>3. QED  BY <4>1, <4>2
    <3>3. QED  BY <3>1, <3>2
  <2>2. w = [i \in 1 .. n |-> i]
    BY <2>1
  <2> HIDE DEF w
  <2>3. QED  BY <2>2, <1>6 DEF Right
<1> HIDE DEF w, n
<1>8. QED  BY <1>2, <1>3, <1>6, <1>7 DEF FileOK

(* A file that grows in this way goes on from the one there was.           *)
LEMMA PrefixOfRight ==
  ASSUME NEW f \in Seq(0 .. Longest), NEW g \in Seq(0 .. Longest), Right(f), Right(g),
         Len(f) <= Len(g)
  PROVE  IsPrefix(f, g)
<1>1. Len(f) \in Nat /\ Len(g) \in Nat /\ Len(f) \in 0 .. Len(f) /\ Len(f) \in 0 .. Len(g)
  OBVIOUS
<1> DEFINE n == Len(f)
<1>2. /\ Len(SubSeq(f, 1, n)) = n /\ Len(SubSeq(g, 1, n)) = n
      /\ SubSeq(f, 1, n) \in Seq(0 .. Longest) /\ SubSeq(g, 1, n) \in Seq(0 .. Longest)
      /\ \A i \in 1 .. n : SubSeq(f, 1, n)[i] = f[i]
      /\ \A i \in 1 .. n : SubSeq(g, 1, n)[i] = g[i]
  BY <1>1, CutIs
<1>3. \A i \in 1 .. n : f[i] = i /\ g[i] = i
  BY <1>1 DEF Right
<1>4. SubSeq(f, 1, n) = SubSeq(g, 1, n)
  <2> DEFINE a == SubSeq(f, 1, n)
             b == SubSeq(g, 1, n)
  <2>1. \A i \in 1 .. n : a[i] = b[i]
    BY <1>2, <1>3
  <2>2. Len(a) = n /\ Len(b) = n /\ a \in Seq(0 .. Longest) /\ b \in Seq(0 .. Longest)
    BY <1>2
  <2> HIDE DEF a, b, n
  <2>3. (\A i \in 1 .. Len(a) : a[i] = b[i]) /\ Len(a) = Len(b)
    BY <2>1, <2>2
  <2>4. a = b
    BY <2>2, <2>3, SameSequence
  <2>5. QED  BY <2>4 DEF a, b
<1>5. QED  BY <1>4 DEF IsPrefix

-----------------------------------------------------------------------------
(* What changes when the download of one call does. *)

LEMMA LoadsFinite == IsFiniteSet(Loads) /\ Loads \subseteq Nat \ {0}
<1>1. MaxLoads \in Nat
  BY DownloadAssumption
<1>2. QED  BY <1>1, FS_Interval DEF Loads

LEMMA SumsTyped ==
  ASSUME TypeOK, Begun
  PROVE  /\ Sizes \in [Loads -> Nat] /\ Gots \in [Loads -> Nat]
         /\ SumFunction(Sizes) \in Nat /\ SumFunction(Gots) \in Nat
<1>1. ASSUME NEW l \in Loads PROVE SizeOf(D[l]) \in Nat /\ Got(D[l]) \in Nat
  <2>1. CASE D[l] = NoDownload
    BY <2>1 DEF SizeOf, Got
  <2>2. CASE D[l] # NoDownload
    <3>1. D[l] \in Download
      BY <2>2 DEF Begun, GoesOn
    <3>2. QED  BY <3>1, DownloadIs, LongestIs
  <2>3. QED  BY <2>1, <2>2
<1>2. Sizes \in [Loads -> Nat] /\ Gots \in [Loads -> Nat]
  BY <1>1 DEF Sizes, Gots
<1>3. QED  BY <1>2, LoadsFinite, SumOfNaturals

(* The counters are as CountersAddUp says.                                 *)
LEMMA CountersAre ==
  CountersAddUp <=> /\ cur_downloading_bytes = excess.ing + SumFunction(Sizes)
                    /\ cur_downloaded_bytes = excess.ed + SumFunction(Gots)
BY DEF CountersAddUp, Sizes, Gots, SizeOf, Got

(* x takes the place of the struct of l; its file, of medium m, becomes w. *)
Stays(m, w) == m \notin resumed' => Right(w) /\ (m \in said' => Len(w) >= size[m])
Fits(x, m, w) ==
  x # NoDownload => /\ GoesOn(x) /\ x.of = m /\ Position(x) <= Len(w)
                    /\ m \notin resumed' => Clean(x, w)
Reports(m) ==
  /\ resumed \subseteq resumed' /\ resumed' \subseteq resumed \cup {m}
  /\ said \subseteq said' /\ said' \subseteq said \cup {m}

(* The counters lose what they had for l, and get x.                       *)
Counts(l, x) ==
  /\ excess' \in [ing : Nat, ed : Nat]
  /\ cur_downloading_bytes' \in Int /\ cur_downloaded_bytes' \in Int
  /\ cur_downloading_bytes' - excess'.ing
       = cur_downloading_bytes - excess.ing - SizeOf(D[l]) + SizeOf(x)
  /\ cur_downloaded_bytes' - excess'.ed
       = cur_downloaded_bytes - excess.ed - Got(D[l]) + Got(x)

Takes(l, x, m, w) ==
  /\ D' = [D EXCEPT ![l] = x] /\ disk' = [disk EXCEPT ![m] = w]
  /\ FileOK(w) /\ Len(w) >= Len(disk[m])
  /\ Reports(m) /\ Stays(m, w) /\ Fits(x, m, w) /\ Counts(l, x)
  /\ x # NoDownload => l <= calls'

(* What a step owes: IInv, and the files of WholeStays.                    *)
Kept == \A m \in Media \ resumed' : Len(disk[m]) >= size[m] => IsPrefix(disk[m], disk'[m])
Keeps == IInv' /\ Kept

LEMMA FilesTyped ==
  ASSUME TypeOK, NEW m \in Media
  PROVE  /\ disk \in [Media -> Seq(0 .. Longest)] /\ FileOK(disk[m])
         /\ disk[m] \in Seq(0 .. Longest) /\ Len(disk[m]) \in Nat
BY DEF TypeOK, FileOK

LEMMA BegunKept ==
  ASSUME IInv, NEW l \in Loads, NEW x, NEW m \in Media, NEW w, Takes(l, x, m, w),
         calls' \in Nat, calls <= calls'
  PROVE  Begun' /\ D' \in [Loads -> Download \cup {NoDownload}]
<1>1. D \in [Loads -> Download \cup {NoDownload}] /\ calls \in Nat
  BY DEF IInv, TypeOK
<1>2. /\ D'[l] = x /\ D' = [D EXCEPT ![l] = x]
      /\ \A k \in Loads : k # l => D'[k] = D[k]
  BY <1>1 DEF Takes
<1>3. \A y \in Media : Len(disk'[y]) >= Len(disk[y]) /\ Len(disk'[y]) \in Nat
  <2>1. FileOK(w) /\ Len(w) >= Len(disk[m]) /\ disk' = [disk EXCEPT ![m] = w]
    BY DEF Takes
  <2>2. Len(w) \in Nat
    BY <2>1 DEF FileOK
  <2>3. \A y \in Media : Len(disk[y]) \in Nat /\ disk \in [Media -> Seq(0 .. Longest)]
    BY FilesTyped DEF IInv
  <2>4. QED  BY <2>1, <2>2, <2>3
<1>4. disk'[m] = w
  BY FilesTyped DEF Takes, IInv
<1>5. x # NoDownload => l <= calls' /\ GoesOn(x) /\ Position(x) <= Len(w) /\ x.of = m
  BY DEF Takes, Fits
<1>6. x \in Download \cup {NoDownload}
  BY <1>5 DEF GoesOn
<1>7. ASSUME NEW k \in Loads, D'[k] # NoDownload
      PROVE  k <= calls' /\ GoesOn(D'[k]) /\ Position(D'[k]) <= Len(disk'[D'[k].of])
  <2>1. CASE k = l
    BY <1>2, <1>4, <1>5, <1>7, <2>1
  <2>2. CASE k # l
    <3>1. D'[k] = D[k] /\ D[k] # NoDownload
      BY <1>2, <1>7, <2>2
    <3>2. k <= calls /\ GoesOn(D[k]) /\ Position(D[k]) <= Len(disk[D[k].of])
      BY <3>1 DEF IInv, Begun
    <3>3. D[k].of \in Media /\ Position(D[k]) \in Nat
      BY <3>2, DownloadIs DEF GoesOn
    <3>4. /\ Len(disk'[D[k].of]) >= Len(disk[D[k].of]) /\ Len(disk'[D[k].of]) \in Nat
          /\ Len(disk[D[k].of]) \in Nat /\ k \in Nat
      BY <3>3, <1>3, FilesTyped, LoadsFinite DEF IInv
    <3>5. Position(D[k]) <= Len(disk'[D[k].of]) /\ k <= calls'
      BY <3>2, <3>3, <3>4, <1>1
    <3>6. QED  BY <3>1, <3>2, <3>5
  <2>3. QED  BY <2>1, <2>2
<1>8. Begun'
  BY <1>7 DEF Begun, GoesOn, Position
<1>9. D' \in [Loads -> Download \cup {NoDownload}]
  BY <1>1, <1>2, <1>6
<1>10. QED  BY <1>8, <1>9

LEMMA CountersKept ==
  ASSUME IInv, NEW l \in Loads, NEW x, NEW m \in Media, NEW w, Takes(l, x, m, w), Begun'
  PROVE  CountersAddUp' /\ {cur_downloading_bytes', cur_downloaded_bytes'} \subseteq Nat
<1>1. /\ D \in [Loads -> Download \cup {NoDownload}]
      /\ D' = [D EXCEPT ![l] = x]
      /\ excess \in [ing : Nat, ed : Nat] /\ excess' \in [ing : Nat, ed : Nat]
  BY DEF IInv, TypeOK, Takes, Counts
<1>2. x # NoDownload => x \in Download
  BY DEF Takes, Fits, GoesOn
<1>3. SizeOf(x) \in Nat /\ Got(x) \in Nat
  <2>1. CASE x = NoDownload
    BY <2>1 DEF SizeOf, Got
  <2>2. CASE x # NoDownload
    BY <1>2, <2>2, DownloadIs, LongestIs
  <2>3. QED  BY <2>1, <2>2
<1>4. /\ Sizes \in [Loads -> Nat] /\ Gots \in [Loads -> Nat]
      /\ SumFunction(Sizes) \in Nat /\ SumFunction(Gots) \in Nat
  BY SumsTyped DEF IInv
<1>5. Sizes' = [Sizes EXCEPT ![l] = SizeOf(x)] /\ Gots' = [Gots EXCEPT ![l] = Got(x)]
  <2>1. \A k \in Loads : D'[k] = IF k = l THEN x ELSE D[k]
    BY <1>1
  <2>2. Sizes' = [k \in Loads |-> SizeOf(D'[k])] /\ Gots' = [k \in Loads |-> Got(D'[k])]
    BY DEF Sizes, Gots, SizeOf, Got
  <2>3. /\ Sizes' = [k \in Loads |-> IF k = l THEN SizeOf(x) ELSE Sizes[k]]
        /\ Gots' = [k \in Loads |-> IF k = l THEN Got(x) ELSE Gots[k]]
    BY <2>1, <2>2 DEF Sizes, Gots
  <2>4. QED  BY <2>3, <1>4
<1>6. /\ SumFunction(Sizes') = SumFunction(Sizes) - Sizes[l] + SizeOf(x)
      /\ SumFunction(Gots') = SumFunction(Gots) - Gots[l] + Got(x)
  <2>1. Sizes \in [Loads -> Int] /\ Gots \in [Loads -> Int] /\ SizeOf(x) \in Int /\ Got(x) \in Int
    BY <1>3, <1>4
  <2>2. IsFiniteSet(Loads)
    BY LoadsFinite
  <2>3. SumFunction(Sizes') = SumFunction(Sizes) - Sizes[l] + SizeOf(x)
    BY ONLY <2>1, <2>2, <1>5, SumChanged, l \in Loads
  <2>4. SumFunction(Gots') = SumFunction(Gots) - Gots[l] + Got(x)
    BY ONLY <2>1, <2>2, <1>5, SumChanged, l \in Loads
  <2>5. QED  BY <2>3, <2>4
<1>7. Sizes[l] = SizeOf(D[l]) /\ Gots[l] = Got(D[l]) /\ Sizes[l] \in Nat /\ Gots[l] \in Nat
  BY <1>4 DEF Sizes, Gots
<1>8. SumFunction(Sizes') \in Nat /\ SumFunction(Gots') \in Nat
  <2>1. Sizes' \in [Loads -> Nat] /\ Gots' \in [Loads -> Nat]
    BY <1>3, <1>4, <1>5
  <2>2. QED  BY <2>1, LoadsFinite, SumOfNaturals
<1>9. /\ cur_downloading_bytes = excess.ing + SumFunction(Sizes)
      /\ cur_downloaded_bytes = excess.ed + SumFunction(Gots)
  BY CountersAre DEF IInv
<1>10. /\ cur_downloading_bytes' - excess'.ing
            = cur_downloading_bytes - excess.ing - SizeOf(D[l]) + SizeOf(x)
       /\ cur_downloaded_bytes' - excess'.ed
            = cur_downloaded_bytes - excess.ed - Got(D[l]) + Got(x)
       /\ cur_downloading_bytes' \in Int /\ cur_downloaded_bytes' \in Int
  BY DEF Takes, Counts
<1>11. {excess.ing, excess.ed, excess'.ing, excess'.ed} \subseteq Nat
  BY <1>1
<1>12. /\ cur_downloading_bytes' = excess'.ing + SumFunction(Sizes')
       /\ cur_downloaded_bytes' = excess'.ed + SumFunction(Gots')
  <2>1. cur_downloading_bytes' - excess'.ing = SumFunction(Sizes')
    BY <1>3, <1>4, <1>6, <1>7, <1>9, <1>10, <1>11
  <2>2. cur_downloaded_bytes' - excess'.ed = SumFunction(Gots')
    BY <1>3, <1>4, <1>6, <1>7, <1>9, <1>10, <1>11
  <2>3. QED  BY <2>1, <2>2, <1>8, <1>10, <1>11
<1>13. CountersAddUp'
  BY <1>12 DEF CountersAddUp, Sizes, Gots, SizeOf, Got
<1>14. QED  BY <1>8, <1>11, <1>12, <1>13

LEMMA SoundKept ==
  ASSUME IInv, NEW l \in Loads, NEW x, NEW m \in Media, NEW w, Takes(l, x, m, w)
  PROVE  /\ FilesSound' /\ Kept
         /\ disk' \in [Media -> Seq(0 .. Longest)] /\ \A y \in Media : Len(disk'[y]) <= Longest
<1>1. /\ D \in [Loads -> Download \cup {NoDownload}] /\ D' = [D EXCEPT ![l] = x]
      /\ disk' = [disk EXCEPT ![m] = w] /\ FileOK(w) /\ Len(w) >= Len(disk[m])
      /\ Reports(m) /\ Stays(m, w) /\ Fits(x, m, w)
  BY DEF IInv, TypeOK, Takes
<1>2. \A y \in Media : /\ disk \in [Media -> Seq(0 .. Longest)] /\ FileOK(disk[y])
                       /\ disk[y] \in Seq(0 .. Longest) /\ Len(disk[y]) \in Nat
  BY FilesTyped DEF IInv
<1>3. /\ disk'[m] = w /\ w \in Seq(0 .. Longest) /\ Len(w) \in Nat /\ Len(w) <= Longest
      /\ \A y \in Media \ {m} : disk'[y] = disk[y]
  BY <1>1, <1>2 DEF FileOK
<1>4. D'[l] = x /\ \A k \in Loads \ {l} : D'[k] = D[k]
  BY <1>1
<1>5. ASSUME NEW y \in Media \ resumed'
      PROVE  /\ y \notin resumed /\ Right(disk[y])
             /\ \A k \in Loads : D[k] # NoDownload /\ D[k].of = y => Clean(D[k], disk[y])
  <2>1. y \notin resumed
    BY <1>1 DEF Reports
  <2>2. QED  BY <2>1 DEF IInv, FilesSound
<1>6. ASSUME NEW y \in Media \ resumed'
      PROVE  Right(disk'[y]) /\ (y \in said' => Len(disk'[y]) >= size[y])
  <2>1. CASE y = m
    BY <1>1, <1>3, <2>1 DEF Stays
  <2>2. CASE y # m
    <3>1. disk'[y] = disk[y] /\ Right(disk[y]) /\ y \notin resumed /\ (y \in said' => y \in said)
      BY <1>1, <1>3, <1>5, <2>2 DEF Reports
    <3>2. y \in said => Len(disk[y]) >= size[y]
      BY <3>1 DEF IInv, FilesSound
    <3>3. QED  BY <3>1, <3>2
  <2>3. QED  BY <2>1, <2>2
<1>7. ASSUME NEW y \in Media \ resumed', NEW k \in Loads, D'[k] # NoDownload, D'[k].of = y
      PROVE  Clean(D'[k], disk'[y])
  <2>1. CASE k = l
    BY <1>1, <1>3, <1>4, <1>7, <2>1 DEF Fits
  <2>2. CASE k # l
    <3>1. D'[k] = D[k] /\ Clean(D[k], disk[y]) /\ D[k] # NoDownload
      BY <1>4, <1>5, <1>7, <2>2
    <3>2. D[k].offset \in Nat
      BY <3>1, DownloadIs, <1>1
    <3>3. Len(disk'[y]) >= Len(disk[y]) /\ Len(disk'[y]) \in Nat /\ Len(disk[y]) \in Nat
      <4>1. CASE y = m
        BY <4>1, <1>1, <1>2, <1>3
      <4>2. CASE y # m
        BY <4>2, <1>2, <1>3
      <4>3. QED  BY <4>1, <4>2
    <3>4. Clean(D[k], disk'[y])
      BY <3>1, <3>2, <3>3 DEF Clean
    <3>5. QED  BY <3>1, <3>4
  <2>3. QED  BY <2>1, <2>2
<1>8. FilesSound'
  BY <1>6, <1>7 DEF FilesSound, Right, Clean, Position
<1>9. Kept
  <2>1. ASSUME NEW y \in Media \ resumed' PROVE IsPrefix(disk[y], disk'[y])
    <3>1. Right(disk[y]) /\ Right(disk'[y])
      BY <1>5, <1>6
    <3>2. disk[y] \in Seq(0 .. Longest) /\ disk'[y] \in Seq(0 .. Longest) /\ Len(disk[y]) <= Len(disk'[y])
      <4>1. CASE y = m
        BY <4>1, <1>1, <1>2, <1>3
      <4>2. CASE y # m
        BY <4>2, <1>2, <1>3
      <4>3. QED  BY <4>1, <4>2
    <3>3. QED  BY <3>1, <3>2, PrefixOfRight
  <2>2. QED  BY <2>1 DEF Kept
<1>10. disk' \in [Media -> Seq(0 .. Longest)]
  BY <1>1, <1>2, <1>3
<1>11. \A y \in Media : Len(disk'[y]) <= Longest
  BY <1>2, <1>3 DEF FileOK
<1>12. QED  BY <1>8, <1>9, <1>10, <1>11

(* A step that changes one download keeps all.                             *)
LEMMA TakesKeeps ==
  ASSUME IInv, NEW l \in Loads, NEW x, NEW m \in Media, NEW w, Takes(l, x, m, w),
         calls' \in 0 .. MaxLoads, calls <= calls', faults' \in 0 .. MaxFaults,
         leaked' = leaked
  PROVE  Keeps
<1>1. calls' \in Nat
  BY DownloadAssumption
<1>2. Begun' /\ D' \in [Loads -> Download \cup {NoDownload}]
  BY <1>1, BegunKept
<1>3. CountersAddUp' /\ {cur_downloading_bytes', cur_downloaded_bytes'} \subseteq Nat
  BY <1>2, CountersKept
<1>4. /\ FilesSound' /\ Kept
      /\ disk' \in [Media -> Seq(0 .. Longest)] /\ \A y \in Media : Len(disk'[y]) <= Longest
  BY SoundKept
<1>5. said' \subseteq Media /\ resumed' \subseteq Media /\ excess' \in [ing : Nat, ed : Nat]
  BY DEF Takes, Reports, Counts, IInv, TypeOK
<1>6. leaked' \subseteq Loads
  BY DEF IInv, TypeOK
<1>7. TypeOK'
  BY <1>2, <1>3, <1>4, <1>5, <1>6 DEF TypeOK
<1>8. QED  BY <1>2, <1>3, <1>4, <1>7 DEF Keeps, IInv

-----------------------------------------------------------------------------
(* The end of a download, and its next part.  They are described by what   *)
(* was counted for l and by what cur_downloaded_bytes has come to.         *)

Ready(l, d, w, ed, again) ==
  /\ GoesOn(d) /\ (d.offset > 0 => again) /\ again \in BOOLEAN /\ ed \in Int
  /\ IF again THEN D[l] # NoDownload /\ D[l].of = d.of ELSE D[l] = NoDownload
  /\ FileOK(w) /\ Len(w) >= Len(disk[d.of]) /\ Position(d) <= Len(w)
  /\ d.of \notin resumed => Right(w) /\ Clean(d, w)
  /\ ed = cur_downloaded_bytes - Got(D[l]) + d.offset

LEMMA LoadNext ==
  ASSUME IInv, NEW l \in Loads, NEW d, NEW w, NEW ed, NEW again,
         Ready(l, d, w, ed, again), disk' = [disk EXCEPT ![d.of] = w], l <= calls',
         load_next_part(l, d, disk', ed, again)
  PROVE  \E x : Takes(l, x, d.of, w)
<1> DEFINE m == d.of
           there == Len(w)
<1>0. /\ GoesOn(d) /\ (d.offset > 0 => again) /\ again \in BOOLEAN /\ ed \in Int
      /\ IF again THEN D[l] # NoDownload /\ D[l].of = d.of ELSE D[l] = NoDownload
      /\ FileOK(w) /\ Len(w) >= Len(disk[d.of]) /\ Position(d) <= Len(w)
      /\ d.of \notin resumed => Right(w) /\ Clean(d, w)
      /\ ed = cur_downloaded_bytes - Got(D[l]) + d.offset
  BY DEF Ready
<1>00. ed \in Int /\ ed = cur_downloaded_bytes - Got(D[l]) + d.offset
  BY <1>0
<1>1. /\ m \in Media /\ d \in Download /\ d.offset \in Nat /\ d.offset < size[m]
      /\ size[m] \in Nat \ {0} /\ there \in Nat /\ there <= Longest
      /\ d # NoDownload /\ SizeOf(d) = size[m] /\ Got(d) = d.offset
      /\ Position(d) \in Nat /\ Position(d) <= d.offset
  BY <1>0, DownloadIs, LongestIs DEF GoesOn, FileOK
<1>2. /\ excess \in [ing : Nat, ed : Nat] /\ cur_downloading_bytes \in Nat
      /\ cur_downloaded_bytes \in Nat /\ excess.ing \in Nat /\ excess.ed \in Nat
  BY DEF IInv, TypeOK
<1> DEFINE found == IF there > 0 THEN resumed \cup {m} ELSE resumed
           more == IF again THEN size[m] ELSE 0
<1>3. SizeOf(D[l]) = more /\ more \in Nat
  <2>1. CASE again
    BY <1>0, <1>1, <2>1 DEF SizeOf
  <2>2. CASE ~again
    BY <1>0, <2>2 DEF SizeOf
  <2>3. QED  BY <2>1, <2>2
<1>4. Got(D[l]) \in Nat
  <2>1. CASE D[l] = NoDownload
    BY <2>1 DEF Got
  <2>2. CASE D[l] # NoDownload
    <3>1. D[l] \in Download
      BY <2>2 DEF IInv, TypeOK
    <3>2. QED  BY <3>1, DownloadIs
  <2>3. QED  BY <2>1, <2>2
<1>5. disk' = [disk EXCEPT ![m] = w] /\ FileOK(w) /\ Len(w) >= Len(disk[m])
  BY <1>0
<1>6. m \notin resumed => Right(w) /\ Clean(d, w)
  BY <1>0
<1>7. m \in said /\ m \notin resumed => Len(w) >= size[m]
  <2>1. m \in said /\ m \notin resumed => Len(disk[m]) >= size[m]
    BY <1>1 DEF IInv, FilesSound
  <2>2. Len(disk[m]) \in Nat
    BY <1>1, FilesTyped DEF IInv
  <2>3. QED  BY <2>1, <2>2, <1>0, <1>1
<1>8. disk'[m] = w
  BY <1>1, <1>5, FilesTyped DEF IInv
<1>80. d.offset > 0 => more = size[m]
  BY <1>0
<1> HIDE DEF more
<1>9. CASE /\ d.offset > 0
           /\ D' = [D EXCEPT ![l] = d] /\ cur_downloaded_bytes' = ed
           /\ UNCHANGED <<said, cur_downloading_bytes, resumed, excess>>
  <2>1. Reports(m)
    BY <1>9 DEF Reports
  <2>2. Stays(m, w)
    BY <1>6, <1>7, <1>9 DEF Stays
  <2>3. Fits(d, m, w)
    BY <1>0, <1>6, <1>9 DEF Fits
  <2>4. Counts(l, d)
    <3>1. SizeOf(D[l]) = size[m] /\ SizeOf(d) = size[m] /\ Got(d) = d.offset
      BY <1>1, <1>3, <1>80, <1>9
    <3>2. excess' = excess /\ cur_downloading_bytes' = cur_downloading_bytes
      BY <1>9
    <3>3. cur_downloading_bytes' - excess'.ing
            = cur_downloading_bytes - excess.ing - SizeOf(D[l]) + SizeOf(d)
      <4>1. size[m] \in Int /\ excess.ing \in Int /\ cur_downloading_bytes \in Int
        BY <1>1, <1>2
      <4>2. QED  BY ONLY <3>1, <3>2, <4>1
    <3>4. cur_downloaded_bytes' - excess'.ed
            = cur_downloaded_bytes - excess.ed - Got(D[l]) + Got(d)
      <4>1. /\ excess.ed \in Int /\ Got(D[l]) \in Int /\ cur_downloaded_bytes \in Int
            /\ d.offset \in Int /\ cur_downloaded_bytes' = ed
        BY <1>1, <1>2, <1>4, <1>9
      <4>2. QED  BY ONLY <1>00, <3>1, <3>2, <4>1
    <3>5. cur_downloading_bytes' \in Int /\ cur_downloaded_bytes' \in Int
      BY <1>00, <1>2, <1>9
    <3>6. QED  BY <1>2, <3>2, <3>3, <3>4, <3>5 DEF Counts
  <2>5. Takes(l, d, m, w)
    BY <1>0, <1>5, <1>9, <2>1, <2>2, <2>3, <2>4 DEF Takes
  <2>6. QED  BY <2>5
<1>10. CASE /\ d.offset = 0 /\ there >= size[m]
            /\ end_load(l, m, cur_downloading_bytes + size[m], ed + there)
            /\ excess' = [ing |-> excess.ing + more, ed |-> excess.ed + there - size[m]]
            /\ UNCHANGED resumed
  <2>0. /\ D' = [D EXCEPT ![l] = NoDownload] /\ said' = said \cup {m}
        /\ cur_downloading_bytes' = (cur_downloading_bytes + size[m]) - size[m]
        /\ cur_downloaded_bytes' = (ed + there) - size[m]
    BY <1>10 DEF end_load
  <2>00. /\ cur_downloading_bytes' = (cur_downloading_bytes + size[m]) - size[m]
         /\ cur_downloaded_bytes' = (ed + there) - size[m]
    BY <2>0
  <2>1. Reports(m)
    BY <1>10, <2>0 DEF Reports
  <2>2. Stays(m, w)
    BY <1>6, <1>7, <1>10 DEF Stays
  <2>3. Fits(NoDownload, m, w)
    BY DEF Fits
  <2>4. SizeOf(NoDownload) = 0 /\ Got(NoDownload) = 0
    BY DEF SizeOf, Got
  <2> DEFINE a == excess.ing + more
             b == excess.ed + there - size[m]
  <2>5. a \in Nat /\ b \in Nat
    <3>1. there >= size[m]
      BY <1>10
    <3>2. QED  BY <3>1, <1>1, <1>2, <1>3
  <2>05. excess' = [ing |-> a, ed |-> b]
    BY <1>10
  <2>06. excess' \in [ing : Nat, ed : Nat] /\ excess'.ing = a /\ excess'.ed = b
    <3> HIDE DEF a, b
    <3>1. QED  BY <2>5, <2>05
  <2>6. excess'.ing = excess.ing + more /\ excess'.ed = excess.ed + there - size[m]
    BY <2>06
  <2>7. Counts(l, NoDownload)
    <3>1. cur_downloading_bytes' \in Int /\ cur_downloaded_bytes' \in Int
      <4>1. size[m] \in Int /\ there \in Int /\ cur_downloading_bytes \in Int
        BY <1>1, <1>2
      <4>2. QED  BY ONLY <1>00, <2>00, <4>1
    <3>2. /\ cur_downloading_bytes' - excess'.ing
              = cur_downloading_bytes - excess.ing - SizeOf(D[l]) + SizeOf(NoDownload)
      <4>1. /\ size[m] \in Int /\ more \in Int /\ cur_downloading_bytes \in Int
            /\ excess.ing \in Int
        BY <1>1, <1>2, <1>3
      <4>2. excess'.ing = excess.ing + more
        BY <2>6
      <4>3. cur_downloading_bytes' = cur_downloading_bytes
        BY ONLY <2>00, <4>1
      <4> HIDE DEF more
      <4>4. QED  BY ONLY <1>3, <2>4, <4>1, <4>2, <4>3
    <3>3. /\ cur_downloaded_bytes' - excess'.ed
              = cur_downloaded_bytes - excess.ed - Got(D[l]) + Got(NoDownload)
      <4>1. /\ size[m] \in Int /\ there \in Int /\ cur_downloaded_bytes \in Int
            /\ excess.ed \in Int /\ Got(D[l]) \in Int /\ d.offset = 0
        BY <1>1, <1>2, <1>4, <1>10
      <4>2. cur_downloaded_bytes' = ed + (there - size[m]) /\ ed = cur_downloaded_bytes - Got(D[l])
        BY ONLY <1>00, <2>00, <4>1
      <4>3. excess'.ed = excess.ed + (there - size[m])
        BY <2>6
      <4> DEFINE k == there - size[m]
      <4>4. k \in Int
        BY <4>1
      <4> HIDE DEF k
      <4>5. cur_downloaded_bytes' = ed + k /\ excess'.ed = excess.ed + k
        BY <4>2, <4>3 DEF k
      <4>6. cur_downloaded_bytes' - excess'.ed = cur_downloaded_bytes - Got(D[l]) - excess.ed
        BY ONLY <1>00, <4>1, <4>2, <4>4, <4>5
      <4>7. QED  BY ONLY <4>1, <4>6, <2>4
    <3>4. QED  BY <3>1, <3>2, <3>3, <2>06 DEF Counts
  <2>8. Takes(l, NoDownload, m, w)
    BY <1>0, <1>5, <2>0, <2>1, <2>2, <2>3, <2>7 DEF Takes
  <2>9. QED  BY <2>8
<1>11. CASE /\ d.offset = 0 /\ there < size[m]
            /\ D' = [D EXCEPT ![l] = [d EXCEPT !.offset = there]]
            /\ cur_downloading_bytes' = cur_downloading_bytes + size[m]
            /\ cur_downloaded_bytes' = ed + there
            /\ resumed' = found /\ excess' = [excess EXCEPT !.ing = @ + more]
            /\ UNCHANGED said
  <2> DEFINE x == [d EXCEPT !.offset = there]
  <2>0. /\ x \in Download /\ x.of = m /\ x.offset = there /\ x.iv = d.iv
        /\ Position(x) = Position(d) /\ x # NoDownload /\ SizeOf(x) = size[m] /\ Got(x) = there
    <3>1. there \in 0 .. Longest
      BY <1>1
    <3> HIDE DEF there
    <3>2. x \in Download /\ x.of = m /\ x.offset = there /\ x.iv = d.iv /\ Position(x) = Position(d)
      BY <1>1, <3>1, OffsetSet
    <3> HIDE DEF x
    <3>3. QED  BY <3>2, DownloadIs
  <2>00. D' = [D EXCEPT ![l] = x]
    BY <1>11
  <2> HIDE DEF x
  <2>1. Reports(m)
    BY <1>11 DEF Reports
  <2>2. Stays(m, w)
    BY <1>6, <1>7, <1>11 DEF Stays
  <2>3. Fits(x, m, w)
    <3>1. Position(x) = 0
      BY <1>1, <1>11, <2>0
    <3>2. GoesOn(x)
      BY <1>1, <1>11, <2>0, <3>1 DEF GoesOn
    <3>3. m \notin resumed' => Clean(x, w)
      <4>1. ASSUME m \notin resumed' PROVE Clean(x, w)
        <5>1. there = 0 /\ m \notin resumed
          BY <4>1, <1>1, <1>11
        <5>2. Clean(d, w)
          BY <5>1, <1>6
        <5>3. QED  BY <5>1, <5>2, <2>0, <3>1, <1>11 DEF Clean
      <4>2. QED  BY <4>1
    <3>4. QED  BY <1>0, <1>1, <2>0, <3>1, <3>2, <3>3 DEF Fits
  <2>4. excess' \in [ing : Nat, ed : Nat] /\ excess'.ing = excess.ing + more /\ excess'.ed = excess.ed
    BY <1>1, <1>2, <1>3, <1>11
  <2>5. Counts(l, x)
    <3>1. cur_downloading_bytes' \in Int /\ cur_downloaded_bytes' \in Int
      BY <1>0, <1>1, <1>2, <1>11
    <3>2. /\ cur_downloading_bytes' - excess'.ing
              = cur_downloading_bytes - excess.ing - SizeOf(D[l]) + SizeOf(x)
      BY <1>1, <1>2, <1>3, <1>11, <2>0, <2>4
    <3>3. /\ cur_downloaded_bytes' - excess'.ed
              = cur_downloaded_bytes - excess.ed - Got(D[l]) + Got(x)
      <4>1. /\ there \in Int /\ cur_downloaded_bytes \in Int /\ excess.ed \in Int
            /\ Got(D[l]) \in Int /\ d.offset = 0 /\ cur_downloaded_bytes' = ed + there
        BY <1>1, <1>2, <1>4, <1>11
      <4>2. excess'.ed = excess.ed /\ Got(x) = there
        BY <2>0, <2>4
      <4>3. QED  BY ONLY <1>00, <4>1, <4>2
    <3>4. QED  BY <3>1, <3>2, <3>3, <2>4 DEF Counts
  <2>6. Takes(l, x, m, w)
    BY <1>0, <1>5, <2>00, <2>1, <2>2, <2>3, <2>5 DEF Takes
  <2>7. QED  BY <2>6
<1>12. QED  BY <1>8, <1>9, <1>10, <1>11, <1>0 DEF load_next_part, more

-----------------------------------------------------------------------------
(* The actions. *)

LEMMA DoLoadKeeps ==
  ASSUME IInv, NEW m \in Media, do_load(m)
  PROVE  Keeps
<1> DEFINE l == calls + 1
           d == [of |-> m, offset |-> 0, fd |-> Closed, iv |-> 0]
<1>1. /\ calls < MaxLoads /\ calls' = calls + 1 /\ disk' = disk
      /\ load_next_part(l, d, disk, cur_downloaded_bytes, FALSE)
      /\ faults' = faults /\ leaked' = leaked
  BY DEF do_load
<1>2. calls \in Nat /\ MaxLoads \in Nat /\ l \in Loads /\ l <= calls'
  BY <1>1, DownloadAssumption DEF IInv, TypeOK, Loads
<1>3. D[l] = NoDownload
  <2>1. D[l] # NoDownload => l <= calls
    BY <1>2 DEF IInv, Begun
  <2>2. QED  BY <2>1, <1>2
<1>4. GoesOn(d) /\ Position(d) = 0 /\ d.of = m /\ d.offset = 0 /\ d.iv = 0
  <2>1. Closed \in 0 .. Longest + 1 /\ 0 \in 0 .. Longest /\ 0 \in 0 .. Broken
    BY LongestIs DEF Closed, Broken
  <2>2. d \in Download
    BY <2>1 DEF Download
  <2>3. d.of = m /\ d.offset = 0 /\ d.iv = 0 /\ d.fd = Closed
    OBVIOUS
  <2> HIDE DEF d
  <2>4. Position(d) = 0
    BY <2>3 DEF Position
  <2>5. size[m] \in Nat \ {0}
    BY LongestIs
  <2>6. QED  BY <2>2, <2>3, <2>4, <2>5 DEF GoesOn
<1> HIDE DEF d
<1>5. /\ FileOK(disk[m]) /\ Len(disk[m]) \in Nat /\ disk \in [Media -> Seq(0 .. Longest)]
      /\ m \notin resumed => Right(disk[m])
  BY FilesTyped DEF IInv, FilesSound
<1>6. disk' = [disk EXCEPT ![d.of] = disk[m]]
  BY <1>1, <1>4, <1>5
<1>7. Ready(l, d, disk[m], cur_downloaded_bytes, FALSE)
  <2>1. m \notin resumed => Right(disk[m]) /\ Clean(d, disk[m])
    BY <1>4, <1>5 DEF Clean
  <2>2. cur_downloaded_bytes \in Nat /\ Got(D[l]) = 0
    BY <1>3 DEF IInv, TypeOK, Got
  <2>3. Len(disk[m]) >= Len(disk[m]) /\ Position(d) <= Len(disk[m])
    BY <1>4, <1>5
  <2>4. cur_downloaded_bytes = cur_downloaded_bytes - Got(D[l]) + d.offset
    BY <2>2, <1>4
  <2>5. QED  BY <1>3, <1>4, <1>5, <2>1, <2>2, <2>3, <2>4 DEF Ready
<1>8. PICK x : Takes(l, x, m, disk[m])
  <2>1. load_next_part(l, d, disk', cur_downloaded_bytes, FALSE)
    BY <1>1
  <2>2. \E x : Takes(l, x, d.of, disk[m])
    BY <1>2, <1>6, <1>7, <2>1, LoadNext
  <2>3. QED  BY <2>2, <1>4
<1>9. calls' \in 0 .. MaxLoads /\ calls <= calls' /\ faults' \in 0 .. MaxFaults /\ leaked' = leaked
  BY <1>1, <1>2 DEF IInv, TypeOK
<1> HIDE DEF l
<1>10. QED  BY <1>2, <1>8, <1>9, TakesKeeps

(* What a written part makes of a file.                                    *)
LEMMA PartWritten ==
  ASSUME IInv, NEW d, GoesOn(d), Position(d) <= Len(disk[d.of]),
         NEW b \in Seq(0 .. Longest), Len(b) <= PartSize,
         d.iv = d.offset => \A i \in 1 .. Len(b) : b[i] = d.offset + i,
         d.of \notin resumed => Clean(d, disk[d.of])
  PROVE  LET w == write(disk[d.of], Position(d), b)
         IN /\ FileOK(w) /\ Len(w) >= Len(disk[d.of]) /\ Len(w) >= Position(d) + Len(b)
            /\ d.of \notin resumed => Right(w)
<1> DEFINE m == d.of
           at == Position(d)
           w == write(disk[m], at, b)
<1>1. /\ m \in Media /\ at \in Nat /\ at <= d.offset /\ d.offset < size[m] /\ d.offset \in Nat
      /\ size[m] \in Nat /\ PartSize \in Nat /\ Longest \in Nat /\ size[m] + PartSize <= Longest
  BY DownloadIs, LongestIs DEF GoesOn
<1>2. FileOK(disk[m]) /\ Len(disk[m]) \in Nat /\ (m \notin resumed => Right(disk[m]))
  BY <1>1, FilesTyped DEF IInv, FilesSound
<1>3. at \in 0 .. Len(disk[m]) /\ at + Len(b) <= Longest
  BY <1>1, <1>2
<1>4. m \notin resumed => at = d.offset /\ d.iv = d.offset
  BY DEF Clean
<1> HIDE DEF at
<1>5. /\ FileOK(w) /\ Len(w) >= Len(disk[m]) /\ Len(w) >= at + Len(b)
      /\ Right(disk[m]) /\ (\A i \in 1 .. Len(b) : b[i] = at + i) => Right(w)
  BY <1>2, <1>3, WriteIs
<1>6. m \notin resumed => Right(w)
  <2> HIDE DEF m, w
  <2>1. QED  BY <1>2, <1>4, <1>5
<1>7. QED  BY <1>5, <1>6 DEF at

LEMMA AnswerKeeps ==
  ASSUME IInv, NEW l \in Loads, NEW p, PartFor(D[l], p), D[l] # NoDownload,
         download_on_answer(l, p), faults' \in 0 .. MaxFaults
  PROVE  Keeps
<1> DEFINE d == D[l]
           m == d.of
           b == Clipped(d, p)
           w == write(disk[m], Position(d), b)
           ed == cur_downloaded_bytes + Len(p)
           next == [d EXCEPT !.offset = @ + Len(b), !.iv = NextIv(d, p),
                             !.fd = Position(d) + Len(b) + 1]
           over == Len(p) - Len(b)
<1>1. GoesOn(d) /\ l <= calls /\ Position(d) <= Len(disk[m])
  BY DEF IInv, Begun
<1>2. /\ m \in Media /\ d \in Download /\ d.offset \in Nat /\ d.offset < size[m] /\ d # NoDownload
      /\ size[m] \in Nat \ {0} /\ PartSize \in Nat /\ Longest \in Nat
      /\ size[m] + PartSize <= Longest
      /\ Position(d) \in Nat /\ Position(d) <= d.offset /\ SizeOf(d) = size[m] /\ Got(d) = d.offset
      /\ d.iv \in 0 .. Broken
  BY <1>1, DownloadIs, LongestIs DEF GoesOn
<1>3. /\ disk' = [disk EXCEPT ![m] = w] /\ calls' = calls /\ leaked' = leaked
      /\ \/ /\ Ends(d, Len(b))
            /\ end_load(l, m, cur_downloading_bytes, ed)
            /\ excess' = [excess EXCEPT !.ed = @ + over + next.offset - size[m]]
            /\ UNCHANGED resumed
         \/ /\ ~Ends(d, Len(b))
            /\ load_next_part(l, next, disk', ed, TRUE)
  BY DEF download_on_answer
<1>4. Written(d, p, b)
  BY <1>1, ClippedIs
<1>5. /\ b \in Seq(0 .. Longest) /\ Len(b) <= PartSize /\ Len(b) <= Len(p)
      /\ Len(b) # Len(p) => d.offset + Len(b) = size[m]
      /\ Len(b) \in Nat /\ Len(p) \in Nat
      /\ d.iv = d.offset => \A i \in 1 .. Len(b) : b[i] = d.offset + i
  BY <1>4 DEF Written, PartFor
<1>6. m \notin resumed => Clean(d, disk[m])
  BY <1>2 DEF IInv, FilesSound
<1>7. /\ FileOK(w) /\ Len(w) >= Len(disk[m]) /\ Len(w) >= Position(d) + Len(b)
      /\ m \notin resumed => Right(w)
  <2> HIDE DEF b, d
  <2>1. QED  BY <1>1, <1>5, <1>6, PartWritten
<1>8. /\ excess \in [ing : Nat, ed : Nat] /\ cur_downloading_bytes \in Nat
      /\ cur_downloaded_bytes \in Nat /\ excess.ing \in Nat /\ excess.ed \in Nat
      /\ calls \in 0 .. MaxLoads /\ calls \in Nat
  BY DownloadAssumption DEF IInv, TypeOK
<1>9. next.of = m /\ next.offset = d.offset + Len(b) /\ next.iv = NextIv(d, p)
      /\ next.fd = Position(d) + Len(b) + 1
  BY <1>2 DEF Download
<1>10. Len(w) \in Nat
  BY <1>7 DEF FileOK
<1> DEFINE o == d.offset
           z == size[m]
           lb == Len(b)
           lp == Len(p)
<1>101. /\ o \in Nat /\ z \in Nat /\ lb \in Nat /\ lp \in Nat /\ o < z /\ lb <= lp
        /\ z + PartSize <= Longest /\ lb <= PartSize /\ PartSize \in Nat /\ Longest \in Nat
        /\ next.offset = o + lb /\ Position(d) \in Nat /\ Position(d) <= o
        /\ lb # lp => o + lb = z
  BY <1>2, <1>5, <1>9
<1>11. \E x : Takes(l, x, m, w)
  <2>1. CASE Ends(d, Len(b))
    <3> HIDE DEF w, b, next
    <3>1. /\ end_load(l, m, cur_downloading_bytes, ed) /\ UNCHANGED resumed
          /\ excess' = [excess EXCEPT !.ed = @ + over + next.offset - size[m]]
      BY <1>3, <2>1
    <3>2. /\ D' = [D EXCEPT ![l] = NoDownload] /\ said' = said \cup {m}
          /\ cur_downloading_bytes' = cur_downloading_bytes - size[m]
          /\ cur_downloaded_bytes' = ed - size[m]
      BY <3>1 DEF end_load
    <3>3. d.offset + Len(b) >= size[m]
      BY <2>1 DEF Ends
    <3>4. Reports(m)
      BY <3>1, <3>2 DEF Reports
    <3>5. Stays(m, w)
      <4>1. m \notin resumed => Right(w) /\ Position(d) = d.offset
        BY <1>6, <1>7 DEF Clean
      <4>2. m \notin resumed => Len(w) >= size[m]
        BY <4>1, <3>3, <1>2, <1>5, <1>7, <1>10
      <4>3. QED  BY <4>1, <4>2, <3>1 DEF Stays
    <3>6. Fits(NoDownload, m, w)
      BY DEF Fits
    <3> DEFINE k == over + next.offset - size[m]
    <3>7. k = Len(p) + d.offset - size[m] /\ k \in Nat
      <4>1. k = (lp - lb) + ((o + lb) - z) /\ o + lb >= z
        BY <1>101, <3>3
      <4> HIDE DEF k, lp, lb, o, z
      <4>2. k = lp + o - z /\ k \in Nat
        BY ONLY <4>1, <1>101
      <4>3. QED  BY <4>2 DEF lp, o, z
    <3>8. excess' = [excess EXCEPT !.ed = excess.ed + k]
      <4>1. excess.ed + over + next.offset - size[m] = excess.ed + k
        <5>1. over \in Int /\ next.offset - z \in Int /\ excess.ed \in Int
          BY <1>101, <1>8
        <5>2. k = over + (next.offset - z)
          OBVIOUS
        <5> HIDE DEF over, next, k, z
        <5>3. excess.ed + over + (next.offset - z) = excess.ed + k
          BY ONLY <5>1, <5>2
        <5>4. QED  BY <5>3 DEF z
      <4>2. excess' = [excess EXCEPT !.ed = excess.ed + over + next.offset - size[m]]
        BY <3>1
      <4> HIDE DEF over, k
      <4>3. QED  BY <4>1, <4>2
    <3> HIDE DEF k
    <3>9. excess' \in [ing : Nat, ed : Nat] /\ excess'.ing = excess.ing /\ excess'.ed = excess.ed + k
      <4>1. excess.ed + k \in Nat
        BY <3>7, <1>8
      <4>2. QED  BY <3>8, <4>1, <1>8
    <3>10. SizeOf(NoDownload) = 0 /\ Got(NoDownload) = 0
      BY DEF SizeOf, Got
    <3>11. Counts(l, NoDownload)
      <4>0. /\ cur_downloading_bytes' = cur_downloading_bytes - z
            /\ cur_downloaded_bytes' = (cur_downloaded_bytes + lp) - z
            /\ SizeOf(D[l]) = z /\ Got(D[l]) = o /\ k = lp + o - z
            /\ cur_downloading_bytes \in Nat /\ cur_downloaded_bytes \in Nat
            /\ excess.ing \in Nat /\ excess.ed \in Nat
        BY <1>2, <1>8, <3>2, <3>7
      <4> HIDE DEF lp, lb, o, z
      <4>1. cur_downloading_bytes' \in Int /\ cur_downloaded_bytes' \in Int
        BY ONLY <4>0, <1>101
      <4>2. cur_downloading_bytes' - excess'.ing
              = cur_downloading_bytes - excess.ing - SizeOf(D[l]) + SizeOf(NoDownload)
        BY ONLY <4>0, <1>101, <3>9, <3>10
      <4>3. cur_downloaded_bytes' - excess'.ed
              = cur_downloaded_bytes - excess.ed - Got(D[l]) + Got(NoDownload)
        BY ONLY <4>0, <1>101, <3>9, <3>10
      <4>4. QED  BY <4>1, <4>2, <4>3, <3>9 DEF Counts
    <3>12. Takes(l, NoDownload, m, w)
      BY <1>3, <1>7, <3>2, <3>4, <3>5, <3>6, <3>11 DEF Takes
    <3>13. QED  BY <3>12
  <2>2. CASE ~Ends(d, Len(b))
    <3>1. load_next_part(l, next, disk', ed, TRUE)
      BY <1>3, <2>2
    <3>2. d.offset + Len(b) < size[m]
      BY <2>2, <1>2, <1>5 DEF Ends
    <3>3. Len(p) = Len(b)
      BY <3>2, <1>2, <1>5
    <3>4. next \in Download
      <4>1. NextIv(d, p) \in 0 .. Broken
        <5>1. NextIv(d, p) = IF d.iv = o THEN o + lb ELSE Longest + 1
          BY <3>3 DEF NextIv, Broken
        <5> HIDE DEF o, lb, lp, z
        <5>2. QED  BY <1>101, <5>1 DEF Broken
      <4>2. d.offset + Len(b) \in 0 .. Longest /\ Position(d) + Len(b) + 1 \in 0 .. Longest + 1
        <5>1. o + lb \in 0 .. Longest /\ Position(d) + lb + 1 \in 0 .. Longest + 1
          <6> HIDE DEF o, lb, lp, z, d
          <6>1. QED  BY ONLY <1>101
        <5>2. QED  BY <5>1
      <4> DEFINE i == NextIv(d, p)
                 r == d.offset + Len(b)
                 g == Position(d) + Len(b) + 1
      <4>3. next = [[[d EXCEPT !.offset = r] EXCEPT !.iv = i] EXCEPT !.fd = g]
        BY <1>2 DEF Download
      <4>4. /\ i \in 0 .. Broken /\ r \in 0 .. Longest /\ g \in 0 .. Longest + 1
        BY <4>1, <4>2
      <4> HIDE DEF i, r, g, next, d
      <4>5. next = [of |-> d.of, offset |-> r, fd |-> g, iv |-> i]
        BY <4>3, <1>2 DEF Download
      <4>6. QED  BY <4>4, <4>5, <1>2 DEF Download
    <3>5. Position(next) = Position(d) + Len(b)
      <4> HIDE DEF next, b
      <4>1. QED  BY <1>2, <1>5, <1>9 DEF Position, Closed
    <3>6. GoesOn(next) /\ Position(next) <= Len(w)
      <4> HIDE DEF next, b, w
      <4>1. QED  BY <1>2, <1>5, <1>7, <1>9, <3>2, <3>4, <3>5 DEF GoesOn
    <3>7. m \notin resumed => Clean(next, w)
      <4> HIDE DEF next, b, w
      <4>1. ASSUME m \notin resumed PROVE Clean(next, w)
        <5>1. Position(d) = d.offset /\ d.iv = d.offset
          BY <1>6, <4>1 DEF Clean
        <5>2. next.iv = d.offset + Len(b)
          BY <5>1, <1>9, <3>3 DEF NextIv
        <5>3. QED  BY <5>1, <5>2, <3>5, <1>7, <1>9 DEF Clean
      <4>2. QED  BY <4>1
    <3>8. ed \in Int /\ ed = cur_downloaded_bytes - Got(D[l]) + next.offset
      BY <1>2, <1>5, <1>8, <1>9, <3>3
    <3> HIDE DEF next, b, w, ed
    <3>9. Ready(l, next, w, ed, TRUE)
      BY <1>2, <1>7, <1>9, <3>6, <3>7, <3>8 DEF Ready
    <3>10. disk' = [disk EXCEPT ![next.of] = w] /\ l <= calls'
      BY <1>1, <1>3, <1>9
    <3>11. \E x : Takes(l, x, next.of, w)
      BY <3>1, <3>9, <3>10, LoadNext
    <3>12. QED  BY <3>11, <1>9
  <2>3. QED  BY <2>1, <2>2
<1>12. PICK x : Takes(l, x, m, w)
  BY <1>11
<1>13. calls' \in 0 .. MaxLoads /\ calls <= calls' /\ leaked' = leaked
  BY <1>3, <1>8
<1> HIDE DEF w
<1>14. QED  BY <1>2, <1>12, <1>13, TakesKeeps

(* After the process has ended only files are left, one of them maybe with *)
(* a part more.                                                            *)
LEMMA EndedKeeps ==
  ASSUME IInv, Ended, NEW m \in Media, NEW w, disk' = [disk EXCEPT ![m] = w], FileOK(w),
         Len(w) >= Len(disk[m]), m \notin resumed => Right(w), faults' \in 0 .. MaxFaults
  PROVE  Keeps
<1>1. /\ D' = [k \in Loads |-> NoDownload] /\ leaked' = {}
      /\ cur_downloading_bytes' = 0 /\ cur_downloaded_bytes' = 0
      /\ excess' = [ing |-> 0, ed |-> 0]
      /\ calls' = calls /\ said' = said /\ resumed' = resumed
  BY DEF Ended
<1>2. \A y \in Media : /\ disk \in [Media -> Seq(0 .. Longest)] /\ FileOK(disk[y])
                       /\ disk[y] \in Seq(0 .. Longest) /\ Len(disk[y]) \in Nat
  BY FilesTyped DEF IInv
<1>3. /\ disk'[m] = w /\ w \in Seq(0 .. Longest) /\ Len(w) \in Nat /\ Len(w) <= Longest
      /\ \A y \in Media \ {m} : disk'[y] = disk[y]
  BY <1>2 DEF FileOK
<1>4. disk' \in [Media -> Seq(0 .. Longest)] /\ \A y \in Media : Len(disk'[y]) <= Longest
  BY <1>2, <1>3 DEF FileOK
<1>5. TypeOK'
  <2>1. D' \in [Loads -> Download \cup {NoDownload}]
    BY <1>1
  <2>2. excess' \in [ing : Nat, ed : Nat]
    BY <1>1
  <2>3. calls \in 0 .. MaxLoads /\ said \subseteq Media /\ resumed \subseteq Media
    BY DEF IInv, TypeOK
  <2>4. QED  BY <1>1, <1>4, <2>1, <2>2, <2>3 DEF TypeOK
<1>6. Begun'
  <2>1. \A l \in Loads : D'[l] = NoDownload
    BY <1>1
  <2>2. QED  BY <2>1 DEF Begun
<1>7. ASSUME NEW y \in Media \ resumed
      PROVE  /\ Right(disk[y]) /\ Right(disk'[y]) /\ Len(disk[y]) <= Len(disk'[y])
             /\ disk[y] \in Seq(0 .. Longest) /\ disk'[y] \in Seq(0 .. Longest)
             /\ (y \in said => Len(disk'[y]) >= size[y])
  <2>1. Right(disk[y]) /\ (y \in said => Len(disk[y]) >= size[y]) /\ size[y] \in Nat
    BY LongestIs DEF IInv, FilesSound
  <2>2. CASE y = m
    BY <1>2, <1>3, <2>1, <2>2
  <2>3. CASE y # m
    BY <1>2, <1>3, <2>1, <2>3
  <2>4. QED  BY <2>2, <2>3
<1>8. FilesSound'
  <2>1. \A l \in Loads : D'[l] = NoDownload
    BY <1>1
  <2>2. QED  BY <1>1, <1>7, <2>1 DEF FilesSound, Right
<1>9. Kept
  BY <1>1, <1>7, PrefixOfRight DEF Kept
<1>10. CountersAddUp'
  <2>1. Sizes' = [l \in Loads |-> 0] /\ Gots' = [l \in Loads |-> 0]
    BY <1>1 DEF Sizes, Gots, SizeOf, Got
  <2> DEFINE z == [l \in Loads |-> 0]
  <2>2. z \in [Loads -> Int] /\ \A l \in Loads : z[l] = 0
    OBVIOUS
  <2> HIDE DEF z
  <2>3. SumFunction(z) = 0
    BY <2>2, LoadsFinite, SumOfNothing
  <2>4. SumFunction(Sizes') = 0 /\ SumFunction(Gots') = 0
    BY <2>1, <2>3 DEF z
  <2>5. /\ cur_downloading_bytes' = excess'.ing + SumFunction(Sizes')
        /\ cur_downloaded_bytes' = excess'.ed + SumFunction(Gots')
    BY <1>1, <2>4
  <2>6. QED  BY <2>5 DEF CountersAddUp, Sizes, Gots, SizeOf, Got
<1>11. QED  BY <1>5, <1>6, <1>8, <1>9, <1>10 DEF Keeps, IInv

LEMMA FaultIs == ASSUME IInv, Fault PROVE faults' \in 0 .. MaxFaults
BY DownloadAssumption DEF Fault, IInv, TypeOK

LEMMA CrashKeeps == ASSUME IInv, crash PROVE Keeps
<1>1. PICK m \in Media : TRUE
  BY DownloadAssumption
<1>2. Fault /\ Ended /\ disk' = disk
  BY DEF crash
<1>3. /\ FileOK(disk[m]) /\ Len(disk[m]) \in Nat /\ disk \in [Media -> Seq(0 .. Longest)]
      /\ m \notin resumed => Right(disk[m])
  BY FilesTyped DEF IInv, FilesSound
<1>4. disk' = [disk EXCEPT ![m] = disk[m]] /\ Len(disk[m]) >= Len(disk[m])
  BY <1>2, <1>3
<1>5. QED  BY <1>2, <1>3, <1>4, FaultIs, EndedKeeps

LEMMA DiskFullKeeps ==
  ASSUME IInv, NEW l \in Loads, NEW n \in 0 .. PartSize - 1, disk_full(l, n)
  PROVE  Keeps
<1> DEFINE d == D[l]
           m == d.of
           b == Clipped(d, Part(d))
           s == SubSeq(b, 1, n)
           w == write(disk[m], Position(d), s)
<1>1. /\ d # NoDownload /\ Fault /\ Ended /\ n < Len(b)
      /\ disk' = [disk EXCEPT ![m] = w]
  BY DEF disk_full, Active
<1>2. GoesOn(d) /\ Position(d) <= Len(disk[m]) /\ m \in Media
  BY <1>1, DownloadIs DEF IInv, Begun, GoesOn
<1>3. Written(d, Part(d), b)
  BY <1>2, PartComes, ClippedIs
<1>4. /\ b \in Seq(0 .. Longest) /\ Len(b) <= PartSize /\ Len(b) \in Nat /\ n \in 0 .. Len(b)
      /\ d.iv = d.offset => \A i \in 1 .. Len(b) : b[i] = d.offset + i
      /\ PartSize \in Nat
  BY <1>1, <1>3, LongestIs DEF Written
<1> HIDE DEF b
<1>5. s \in Seq(0 .. Longest) /\ Len(s) = n /\ \A i \in 1 .. n : s[i] = b[i]
  BY <1>4, CutIs
<1> HIDE DEF s
<1>6. /\ Len(s) <= PartSize
      /\ d.iv = d.offset => \A i \in 1 .. Len(s) : s[i] = d.offset + i
  BY <1>4, <1>5
<1>7. m \notin resumed => Clean(d, disk[m])
  BY <1>1, <1>2 DEF IInv, FilesSound
<1>8. FileOK(w) /\ Len(w) >= Len(disk[m]) /\ (m \notin resumed => Right(w))
  <2> HIDE DEF d
  <2>1. QED  BY <1>2, <1>5, <1>6, <1>7, PartWritten
<1> HIDE DEF w
<1>9. QED  BY <1>1, <1>2, <1>8, FaultIs, EndedKeeps

LEMMA SameFiles == ASSUME IInv, disk' = disk PROVE Kept
<1>1. \A m \in Media : IsPrefix(disk[m], disk[m])
  BY FilesTyped DEF IInv, IsPrefix
<1>2. QED  BY <1>1 DEF Kept

LEMMA RefusedKeeps == ASSUME IInv, NEW l \in Loads, refused(l) PROVE Keeps
<1>1. /\ Fault /\ leaked' = leaked \cup {l}
      /\ D' = D /\ calls' = calls /\ disk' = disk /\ said' = said
      /\ cur_downloading_bytes' = cur_downloading_bytes
      /\ cur_downloaded_bytes' = cur_downloaded_bytes
      /\ resumed' = resumed /\ excess' = excess
  BY DEF refused
<1>2. faults' \in 0 .. MaxFaults /\ Kept
  BY <1>1, FaultIs, SameFiles
<1>3. TypeOK'
  BY <1>1, <1>2 DEF IInv, TypeOK
<1>4. Begun' /\ FilesSound' /\ CountersAddUp'
  BY <1>1 DEF IInv, Begun, FilesSound, CountersAddUp, GoesOn, Position, Right, Clean
<1>5. QED  BY <1>2, <1>3, <1>4 DEF Keeps, IInv

LEMMA AnsweredKeeps ==
  ASSUME IInv, NEW l \in Loads, answered(l) \/ answered_with_nothing(l)
  PROVE  Keeps
<1>1. D[l] # NoDownload
  BY DEF answered, answered_with_nothing, download_on_answer, Active
<1>2. PartFor(D[l], Part(D[l])) /\ PartFor(D[l], <<>>)
  BY <1>1, PartComes DEF IInv, Begun
<1>3. faults' \in 0 .. MaxFaults
  BY FaultIs DEF answered, answered_with_nothing, IInv, TypeOK
<1>4. QED  BY <1>1, <1>2, <1>3, AnswerKeeps DEF answered, answered_with_nothing

LEMMA NothingKeeps == ASSUME IInv, UNCHANGED vars PROVE Keeps
<1>1. /\ D' = D /\ calls' = calls /\ disk' = disk /\ said' = said
      /\ cur_downloading_bytes' = cur_downloading_bytes
      /\ cur_downloaded_bytes' = cur_downloaded_bytes /\ faults' = faults
      /\ resumed' = resumed /\ excess' = excess /\ leaked' = leaked
  BY DEF vars
<1>2. Kept
  BY <1>1, SameFiles
<1>3. TypeOK'
  BY <1>1 DEF IInv, TypeOK
<1>4. Begun' /\ FilesSound' /\ CountersAddUp'
  BY <1>1 DEF IInv, Begun, FilesSound, CountersAddUp, GoesOn, Position, Right, Clean
<1>5. QED  BY <1>2, <1>3, <1>4 DEF Keeps, IInv

LEMMA StepKeeps == ASSUME IInv, [Next]_vars PROVE Keeps
<1>1. CASE Next
  <2>1. CASE \E m \in Media : do_load(m)
    BY <2>1, DoLoadKeeps
  <2>2. CASE \E l \in Loads : answered(l) \/ answered_with_nothing(l) \/ refused(l)
    BY <2>2, AnsweredKeeps, RefusedKeeps
  <2>3. CASE \E l \in Loads, n \in 0 .. PartSize - 1 : disk_full(l, n)
    BY <2>3, DiskFullKeeps
  <2>4. CASE crash
    BY <2>4, CrashKeeps
  <2>5. QED  BY <1>1, <2>1, <2>2, <2>3, <2>4 DEF Next
<1>2. CASE UNCHANGED vars
  BY <1>2, NothingKeeps
<1>3. QED  BY <1>1, <1>2

LEMMA InitInv == ASSUME Init PROVE IInv
<1>1. /\ D = [l \in Loads |-> NoDownload] /\ calls = 0
      /\ disk = [m \in Media |-> <<>>] /\ said = {}
      /\ cur_downloading_bytes = 0 /\ cur_downloaded_bytes = 0 /\ faults = 0
      /\ resumed = {} /\ leaked = {} /\ excess = [ing |-> 0, ed |-> 0]
  BY DEF Init
<1>2. <<>> \in Seq(0 .. Longest) /\ Len(<<>>) = 0 /\ Longest \in Nat
  BY LongestIs
<1>3. /\ disk \in [Media -> Seq(0 .. Longest)]
      /\ \A m \in Media : disk[m] = <<>> /\ Len(disk[m]) = 0
  BY <1>1, <1>2
<1>4. TypeOK
  <2>1. D \in [Loads -> Download \cup {NoDownload}]
    BY <1>1
  <2>2. excess \in [ing : Nat, ed : Nat]
    BY <1>1
  <2>3. 0 \in 0 .. MaxLoads /\ 0 \in 0 .. MaxFaults
    BY DownloadAssumption
  <2>4. \A m \in Media : Len(disk[m]) <= Longest
    BY <1>2, <1>3
  <2>5. QED  BY <1>1, <1>3, <2>1, <2>2, <2>3, <2>4 DEF TypeOK
<1>5. \A l \in Loads : D[l] = NoDownload
  BY <1>1
<1>6. Begun
  BY <1>5 DEF Begun
<1>7. FilesSound
  <2>1. Right(<<>>)
    <3>1. <<>> = [i \in 1 .. 0 |-> i]
      OBVIOUS
    <3>2. QED  BY <3>1, <1>2 DEF Right
  <2>2. QED  BY <1>1, <1>3, <1>5, <2>1 DEF FilesSound
<1>8. CountersAddUp
  <2> DEFINE z == [l \in Loads |-> 0]
  <2>1. Sizes = z /\ Gots = z
    BY <1>1 DEF Sizes, Gots, SizeOf, Got
  <2>2. z \in [Loads -> Int] /\ \A l \in Loads : z[l] = 0
    OBVIOUS
  <2> HIDE DEF z
  <2>3. SumFunction(z) = 0
    BY <2>2, LoadsFinite, SumOfNothing
  <2>4. /\ cur_downloading_bytes = excess.ing + SumFunction(Sizes)
        /\ cur_downloaded_bytes = excess.ed + SumFunction(Gots)
    BY <1>1, <2>1, <2>3
  <2>5. QED  BY <2>4, CountersAre
<1>9. QED  BY <1>4, <1>6, <1>7, <1>8 DEF IInv

LEMMA InvHolds == Spec => []IInv
<1>1. Init => IInv
  BY InitInv
<1>2. IInv /\ [Next]_vars => IInv'
  BY StepKeeps DEF Keeps
<1>3. QED  BY <1>1, <1>2, PTL DEF Spec

-----------------------------------------------------------------------------
(* The theorems. *)

(* FilesRight: what is on disk has its bytes in their places, and what is  *)
(* reported as loaded is there, unless a download took its offset from a   *)
(* file that it found.                                                     *)
THEOREM FilesAlwaysRight == Spec => []FilesRight
<1>1. IInv => FilesRight
  <2>1. SUFFICES ASSUME IInv PROVE FilesRight
    OBVIOUS
  <2>2. OnlyResumedAreWrong
    BY <2>1 DEF IInv, FilesSound, OnlyResumedAreWrong, Right
  <2>3. SaidIsWhole
    <3>1. SUFFICES ASSUME NEW m \in said \ resumed
                   PROVE  Len(disk[m]) >= IF size[m] <= length[m] THEN size[m] ELSE length[m]
      BY DEF SaidIsWhole
    <3>2. m \in Media
      BY <2>1 DEF IInv, TypeOK
    <3>3. Len(disk[m]) >= size[m] /\ Len(disk[m]) \in Nat
      BY <2>1, <3>1, <3>2, FilesTyped DEF IInv, FilesSound
    <3>4. size[m] \in Nat /\ length[m] \in Nat
      BY <3>2, LongestIs
    <3>5. QED  BY <3>3, <3>4
  <2>4. QED  BY <2>2, <2>3 DEF FilesRight
<1>2. QED  BY <1>1, InvHolds, PTL

(* DownloadsCounted: the counters of the prompt are the sums over the      *)
(* downloads begun, and what the code adds twice or too much.              *)
THEOREM DownloadsAlwaysCounted == Spec => []DownloadsCounted
<1>1. IInv => DownloadsCounted
  BY DEF IInv, DownloadsCounted
<1>2. QED  BY <1>1, InvHolds, PTL

(* WholeStays: no later load changes a byte of a whole file, with the same *)
(* exception.                                                              *)
THEOREM WholeAlwaysStays == Spec => WholeStays
<1>1. IInv /\ [Next]_vars =>
        [\A m \in Media \ resumed' :
           Len(disk[m]) >= size[m] => IsPrefix(disk[m], disk'[m])]_vars
  BY StepKeeps DEF Keeps, Kept
<1>2. QED  BY <1>1, InvHolds, PTL DEF Spec, WholeStays
-----------------------------------------------------------------------------
(* Upload: the constants, and the arithmetic of parts and blocks.          *)

LEMMA UploadConstants ==
  /\ Block \in Nat \ {0} /\ ManyParts \in Nat \ {0} /\ BigFile \in Nat \ {0}
  /\ MaxSends \in Nat /\ MaxUpFaults \in Nat /\ LongestFile \in Nat
  /\ \A z \in FileSizes : z \in Nat /\ z + 1 <= LongestFile
  /\ \A p \in PartSizes : p \in Nat \ {0} /\ p % Block = 0
<1>1. Max(FileSizes) \in FileSizes /\ \A z \in FileSizes : z <= Max(FileSizes)
  BY UploadAssumption, MaxOfFinite DEF UploadAssumption
<1> DEFINE m == Max(FileSizes)
<1>2. m \in Nat /\ \A z \in FileSizes : z \in Nat /\ z <= m
  BY <1>1, UploadAssumption DEF UploadAssumption
<1>3. LongestFile = m + 1
  BY DEF LongestFile
<1> HIDE DEF m
<1>4. LongestFile \in Nat /\ \A z \in FileSizes : z \in Nat /\ z + 1 <= LongestFile
  BY <1>2, <1>3
<1>5. QED  BY <1>4, UploadAssumption DEF UploadAssumption

LEMMA SendsFinite == IsFiniteSet(Sends)
BY UploadConstants, FS_Interval DEF Sends

LEMMA DivisionIs ==
  ASSUME NEW x \in Int, NEW y \in Nat \ {0}
  PROVE  /\ x \div y \in Int /\ x % y \in 0 .. y - 1
         /\ x = (x \div y) * y + (x % y)
OBVIOUS

LEMMA Cancelled ==
  ASSUME NEW y \in Nat \ {0}, NEW q \in Int, NEW p \in Int, q * y < p * y
  PROVE  q < p
OBVIOUS

LEMMA TimesMore ==
  ASSUME NEW y \in Nat, NEW q \in Int, NEW p \in Int, q <= p
  PROVE  q * y <= p * y
OBVIOUS

LEMMA OneTimeMore ==
  ASSUME NEW y \in Int, NEW q \in Int
  PROVE  /\ q * y \in Int /\ (q + 1) * y = q * y + y /\ (q - 1) * y = q * y - y
         /\ (q \in Nat /\ y \in Nat => q * y \in Nat)
OBVIOUS

LEMMA CeilIs ==
  ASSUME NEW x \in Nat, NEW y \in Nat \ {0}
  PROVE  Ceil(x, y) \in Nat /\ x <= Ceil(x, y) * y /\ (Ceil(x, y) - 1) * y < x
<1> DEFINE q == (x + y - 1) \div y
           r == (x + y - 1) % y
<1>1. x + y - 1 \in Int
  OBVIOUS
<1>2. q \in Int /\ r \in 0 .. y - 1 /\ x + y - 1 = q * y + r
  BY <1>1, DivisionIs
<1> HIDE DEF q, r
<1>3. x <= q * y /\ (q - 1) * y < x
  <2>1. q * y \in Int /\ (q - 1) * y = q * y - y
    BY <1>2, OneTimeMore
  <2>2. QED  BY <1>2, <2>1
<1>4. q \in Nat
  <2>1. SUFFICES ASSUME q < 0 PROVE FALSE
    BY <1>2
  <2>2. (q + 1) * y <= 0 * y
    BY <1>2, <2>1, TimesMore
  <2>3. (q + 1) * y = q * y + y /\ q * y \in Int
    BY <1>2, OneTimeMore
  <2>4. QED  BY <1>2, <2>2, <2>3
<1>5. QED  BY <1>3, <1>4 DEF Ceil, q

(* As many parts as Ceil says, and no more.                                *)
LEMMA CeilIsOnly ==
  ASSUME NEW x \in Nat, NEW y \in Nat \ {0}, NEW n \in Nat, x <= n * y, (n - 1) * y < x
  PROVE  Ceil(x, y) = n
<1> DEFINE q == Ceil(x, y)
<1>1. q \in Nat /\ x <= q * y /\ (q - 1) * y < x
  BY CeilIs
<1> HIDE DEF q
<1>2. (q - 1) * y \in Int /\ (n - 1) * y \in Int /\ q * y \in Int /\ n * y \in Int
  BY <1>1
<1>3. (q - 1) * y < n * y /\ (n - 1) * y < q * y
  BY <1>1, <1>2
<1>4. q - 1 < n
  <2>1. q - 1 \in Int
    BY <1>1
  <2>2. QED  BY ONLY <1>3, <2>1, Cancelled, y \in Nat \ {0}, n \in Nat
<1>5. n - 1 < q
  <2>1. n - 1 \in Int
    OBVIOUS
  <2>2. QED  BY ONLY <1>1, <1>3, <2>1, Cancelled, y \in Nat \ {0}
<1>6. q = n
  BY <1>1, <1>4, <1>5
<1>7. QED  BY <1>6 DEF q

(* The padding of n units to whole blocks.                                 *)
Pad(n) == (-n) % Block

LEMMA PadIs ==
  ASSUME NEW n \in Nat
  PROVE  /\ Pad(n) \in 0 .. Block - 1
         /\ \E q \in Int : n + Pad(n) = q * Block
<1> DEFINE q == (-n) \div Block
<1>1. -n \in Int /\ Block \in Nat \ {0}
  BY UploadConstants
<1>2. q \in Int /\ Pad(n) \in 0 .. Block - 1 /\ -n = q * Block + Pad(n)
  BY <1>1, DivisionIs DEF Pad
<1> HIDE DEF q
<1>3. q * Block \in Int /\ (0 - q) * Block = 0 - q * Block /\ 0 - q \in Int
  BY <1>1, <1>2
<1>4. n + Pad(n) = (0 - q) * Block
  BY <1>1, <1>2, <1>3
<1>5. QED  BY <1>2, <1>3, <1>4

LEMMA PadIsOnly ==
  ASSUME NEW n \in Nat, NEW r \in 0 .. Block - 1, NEW q \in Int, n + r = q * Block
  PROVE  Pad(n) = r
<1>0. Block \in Nat \ {0} /\ Pad(n) \in 0 .. Block - 1
  BY UploadConstants, PadIs
<1>1. PICK p \in Int : n + Pad(n) = p * Block
  BY PadIs
<1> DEFINE k == Pad(n)
           b == Block
<1>2. k \in 0 .. b - 1 /\ b \in Nat \ {0} /\ n + k = p * b /\ n + r = q * b /\ r \in 0 .. b - 1
  BY <1>0, <1>1
<1> HIDE DEF k, b
<1>3. q * b \in Int /\ p * b \in Int /\ (q + 1) * b = q * b + b /\ (p + 1) * b = p * b + b
  BY <1>2, OneTimeMore
<1>4. q * b < (p + 1) * b /\ p * b < (q + 1) * b
  BY <1>2, <1>3
<1>5. q < p + 1 /\ p < q + 1
  BY <1>2, <1>4, Cancelled
<1>6. p = q
  BY <1>5
<1>7. k = r
  BY <1>2, <1>3, <1>6
<1>8. QED  BY <1>7 DEF k

LEMMA WholeBlocks ==
  ASSUME NEW m \in Nat, m % Block = 0
  PROVE  Pad(m) = 0 /\ \E q \in Int : m = q * Block
<1>1. Block \in Nat \ {0}
  BY UploadConstants
<1>2. m \div Block \in Int /\ m = (m \div Block) * Block + 0
  BY <1>1, DivisionIs
<1> DEFINE d == (m \div Block) * Block
<1>20. d \in Int /\ m = d + 0
  BY <1>1, <1>2
<1>3. m + 0 = (m \div Block) * Block
  <2>1. m = d
    <3> HIDE DEF d
    <3>1. QED  BY <1>20
  <2>2. QED  BY <2>1
<1>4. 0 \in 0 .. Block - 1
  BY <1>1
<1>5. Pad(m) = 0
  BY <1>2, <1>3, <1>4, PadIsOnly
<1>6. m = (m \div Block) * Block
  BY <1>3
<1>7. QED  BY <1>2, <1>5, <1>6

(* Whole blocks that are taken off leave the padding as it is, and n units *)
(* with it do not take more than the whole blocks that hold them.          *)
LEMMA PadOfRest ==
  ASSUME NEW n \in Nat, NEW m \in Nat, NEW j \in Int, m = j * Block, m <= n
  PROVE  Pad(n - m) = Pad(n)
<1>0. Block \in Nat \ {0} /\ Pad(n) \in 0 .. Block - 1 /\ n - m \in Nat
  BY UploadConstants, PadIs
<1>1. PICK p \in Int : n + Pad(n) = p * Block
  BY PadIs
<1> DEFINE k == Pad(n)
           b == Block
<1>2. k \in 0 .. b - 1 /\ b \in Nat \ {0} /\ n + k = p * b /\ m = j * b
  BY <1>0, <1>1
<1>3. p - j \in Int /\ (n - m) + k = (p - j) * b
  <2> HIDE DEF k, b
  <2>1. (p - j) * b = p * b - j * b /\ p * b \in Int /\ j * b \in Int /\ k \in Int
    BY <1>2
  <2> DEFINE u == p * b
             v == j * b
  <2>2. (n - m) + k = u - v
    <3>1. u \in Int /\ v \in Int /\ k \in Int /\ n + k = u /\ m = v
      BY <1>2, <2>1
    <3> HIDE DEF u, v
    <3>2. QED  BY <3>1
  <2>3. QED  BY <2>1, <2>2
<1>4. QED  BY <1>0, <1>2, <1>3, PadIsOnly

LEMMA PadFits ==
  ASSUME NEW n \in Nat, NEW m \in Nat, NEW j \in Int, m = j * Block, n <= m
  PROVE  n + Pad(n) <= m
<1>0. Block \in Nat \ {0} /\ Pad(n) \in 0 .. Block - 1
  BY UploadConstants, PadIs
<1>1. PICK p \in Int : n + Pad(n) = p * Block
  BY PadIs
<1> DEFINE k == Pad(n)
           b == Block
<1>2. k \in 0 .. b - 1 /\ b \in Nat \ {0} /\ n + k = p * b /\ m = j * b
  BY <1>0, <1>1
<1> HIDE DEF k, b
<1>3. p * b \in Int /\ j * b \in Int /\ (j + 1) * b = j * b + b
  BY <1>2, OneTimeMore
<1>4. p * b < (j + 1) * b
  BY <1>2, <1>3
<1>5. p < j + 1
  BY <1>2, <1>4, Cancelled
<1>6. p * b <= j * b
  <2>1. p <= j /\ b \in Nat
    BY <1>2, <1>5
  <2>2. QED  BY <2>1, TimesMore
<1>7. n + k <= m
  BY <1>2, <1>6
<1>8. QED  BY <1>7 DEF k

LEMMA PartsAreBlocks ==
  ASSUME NEW p \in PartSizes, NEW n \in Nat
  PROVE  \E j \in Int : n * p = j * Block
<1>1. p \in Nat \ {0} /\ Block \in Nat \ {0}
  BY UploadConstants
<1>2. PICK q \in Int : p = q * Block
  BY <1>1, UploadConstants, WholeBlocks
<1>3. n * p = (n * q) * Block /\ n * q \in Int
  BY <1>1, <1>2
<1>4. QED  BY <1>3
-----------------------------------------------------------------------------
(* The parts of a file. *)

Full(g, n) == [i \in 1 .. g.part_size |-> n * g.part_size + i]
Rest(g, n) == Padded(g, [i \in 1 .. g.size - n * g.part_size |-> n * g.part_size + i])
SendFields(g) ==
  /\ g.state \in {"open", "closed", "freed"} /\ g.size \in Nat \ {0}
  /\ g.size <= LongestFile /\ g.offset \in Nat /\ g.offset <= LongestFile
  /\ g.part_num \in Nat /\ g.part_num <= ManyParts + 1 /\ g.part_size \in Nat
  /\ g.media_type \in Types /\ g.encr \in BOOLEAN

LEMMA SendFileIs ==
  ASSUME NEW g \in SendFile
  PROVE  SendFields(g) /\ g # NoFile
<1>1. ManyParts \in Nat /\ LongestFile \in Nat
  BY UploadConstants
<1>2. g.offset \in 0 .. LongestFile /\ g.size \in 1 .. LongestFile
  BY DEF SendFile
<1>3. /\ g.part_num \in 0 .. ManyParts + 1 /\ g.part_size \in Nat
      /\ g.state \in {"open", "closed", "freed"}
      /\ g.media_type \in Types /\ g.encr \in BOOLEAN
  BY DEF SendFile
<1>4. g.state # NoFile.state
  BY <1>3 DEF NoFile
<1>5. SendFields(g)
  BY <1>1, <1>2, <1>3 DEF SendFields
<1>6. QED  BY <1>4, <1>5

LEMMA PartSizeIs ==
  ASSUME NEW z \in Nat, \E p \in PartSizes : p >= Ceil(z, ManyParts)
  PROVE  part_size(z) \in PartSizes /\ part_size(z) >= Ceil(z, ManyParts)
<1> DEFINE T == {p \in PartSizes : p >= Ceil(z, ManyParts)}
<1>1. T \in SUBSET Nat /\ T # {}
  BY UploadConstants
<1>2. PICK m \in T : \A k \in T : m <= k
  <2> HIDE DEF T
  <2>1. QED  BY <1>1, LeastNumber
<1>3. Min(T) \in T
  BY <1>2 DEF Min
<1>4. QED  BY <1>3 DEF part_size

(* A part size that do_send_photo chose is enough.                         *)
Chose(g) == g.part_size \in PartSizes /\ g.part_size >= Ceil(g.size, ManyParts)

LEMMA EnoughParts ==
  ASSUME NEW g, SendFields(g), Chose(g)
  PROVE  /\ g.part_size \in Nat \ {0} /\ g.size <= ManyParts * g.part_size
         /\ Ceil(g.size, g.part_size) \in 0 .. ManyParts
<1> DEFINE p == g.part_size
           z == g.size
           q == Ceil(z, ManyParts)
           b == Ceil(z, p)
<1>1. p \in Nat \ {0} /\ z \in Nat /\ ManyParts \in Nat \ {0} /\ p >= q
  BY UploadConstants DEF Chose, SendFields
<1>2. q \in Nat /\ z <= q * ManyParts
  BY <1>1, CeilIs
<1>3. b \in Nat /\ (b - 1) * p < z
  BY <1>1, CeilIs
<1> HIDE DEF p, z, q, b
<1>4. q * ManyParts <= p * ManyParts
  BY <1>1, <1>2, TimesMore
<1>5. z <= ManyParts * p
  <2>1. p * ManyParts = ManyParts * p /\ q * ManyParts \in Int /\ p * ManyParts \in Int
    BY <1>1, <1>2
  <2>2. QED  BY <1>1, <1>2, <1>4, <2>1
<1>6. b - 1 < ManyParts
  <2>1. (b - 1) * p \in Int /\ ManyParts * p \in Int /\ b - 1 \in Int
    BY <1>1, <1>3
  <2>2. (b - 1) * p < ManyParts * p
    BY <1>1, <1>3, <1>5, <2>1
  <2>3. QED  BY <1>1, <2>1, <2>2, Cancelled
<1>7. b \in 0 .. ManyParts
  BY <1>1, <1>3, <1>6
<1>8. QED  BY <1>1, <1>5, <1>7 DEF p, z, b

LEMMA TotalIs ==
  ASSUME NEW g, SendFields(g), Chose(g)
  PROVE  total(g) \in 0 .. ManyParts + 1
<1>1. Ceil(g.size, g.part_size) \in 0 .. ManyParts /\ ManyParts \in Nat
  BY EnoughParts, UploadConstants
<1>2. QED  BY <1>1 DEF total

(* What read returns of a file of len units, from an offset in it.         *)
LEMMA ReadIs ==
  ASSUME NEW g, SendFields(g), Chose(g), NEW len \in Nat, len <= LongestFile
  PROVE  LET k == IF g.part_size <= len - g.offset THEN g.part_size ELSE len - g.offset
         IN /\ k \in Int /\ read(g, len) = [i \in 1 .. k |-> g.offset + i]
            /\ read(g, len) \in Seq(0 .. LongestFile)
            /\ Len(read(g, len)) = IF k >= 0 THEN k ELSE 0
            /\ \A i \in 1 .. k : read(g, len)[i] = g.offset + i
<1> DEFINE k == IF g.part_size <= len - g.offset THEN g.part_size ELSE len - g.offset
<1>1. /\ g.part_size \in Nat \ {0} /\ g.offset \in Nat /\ LongestFile \in Nat
  BY EnoughParts, UploadConstants DEF SendFields
<1>2. Min({g.part_size, len - g.offset}) = k /\ k \in Int
  BY <1>1, MinOfTwo
<1>3. k <= len - g.offset
  BY <1>1
<1> DEFINE x == [i \in 1 .. k |-> g.offset + i]
<1>4. read(g, len) = x
  BY <1>2 DEF read
<1> HIDE DEF k
<1>5. \A i \in 1 .. k : x[i] = g.offset + i
  OBVIOUS
<1>6. x \in [1 .. k -> 0 .. LongestFile]
  BY <1>1, <1>2, <1>3
<1> HIDE DEF x
<1>7. x \in Seq(0 .. LongestFile) /\ Len(x) = IF k >= 0 THEN k ELSE 0
  BY ONLY <1>2, <1>6, MadeIs
<1>8. QED  BY <1>2, <1>4, <1>5, <1>7 DEF k, x

LEMMA PaddedIs ==
  ASSUME NEW g, g.encr \in BOOLEAN, NEW x \in Seq(0 .. LongestFile)
  PROVE  /\ Padded(g, x) \in Seq(0 .. LongestFile)
         /\ Len(Padded(g, x)) = Len(x) + (IF g.encr THEN Pad(Len(x)) ELSE 0)
         /\ \A i \in 1 .. Len(Padded(g, x)) :
              Padded(g, x)[i] = IF i <= Len(x) THEN x[i] ELSE Padding
<1> DEFINE k == Pad(Len(x))
           z == [i \in 1 .. k |-> Padding]
<1>1. k \in Nat /\ Len(x) \in Nat /\ LongestFile \in Nat
  BY PadIs, UploadConstants
<1>2. z \in Seq(0 .. LongestFile) /\ Len(z) = k /\ \A i \in 1 .. k : z[i] = Padding
  <2> HIDE DEF k
  <2>1. z \in [1 .. k -> 0 .. LongestFile] /\ \A i \in 1 .. k : z[i] = Padding
    BY <1>1 DEF Padding
  <2> HIDE DEF z
  <2>2. QED  BY <1>1, <2>1, MadeSequence
<1>3. Padded(g, x) = IF g.encr THEN x \o z ELSE x
  BY DEF Padded, Pad
<1> HIDE DEF k, z
<1>4. /\ x \o z \in Seq(0 .. LongestFile) /\ Len(x \o z) = Len(x) + k
      /\ \A i \in 1 .. Len(x) + k : (x \o z)[i] = IF i <= Len(x) THEN x[i] ELSE Padding
  BY <1>1, <1>2
<1>5. CASE g.encr
  BY <1>3, <1>4, <1>5 DEF k
<1>6. CASE ~g.encr
  BY <1>1, <1>3, <1>6
<1>7. QED  BY <1>5, <1>6
-----------------------------------------------------------------------------
(* send_part sends a whole part, or the rest of the file.                  *)

PartSent(g, x) ==
  /\ x \in Seq(0 .. LongestFile) /\ Len(x) \in Nat \ {0} /\ g.part_num <= ManyParts
  /\ AtEnd(g, x) => /\ g.part_num * g.part_size < g.size
                    /\ g.size <= (g.part_num + 1) * g.part_size
                    /\ Padded(g, x) = Rest(g, g.part_num)
  /\ ~AtEnd(g, x) => /\ g.offset + Len(x) = (g.part_num + 1) * g.part_size
                     /\ Padded(g, x) = Full(g, g.part_num)

LEMMA OnePart ==
  ASSUME NEW g, SendFields(g), Chose(g), g.size + 1 <= LongestFile,
         NEW len \in 0 .. g.size + 1, g.offset = g.part_num * g.part_size,
         Asserted(g, read(g, len))
  PROVE  PartSent(g, read(g, len)) /\ g.offset + Len(read(g, len)) <= len
<1> DEFINE x == read(g, len)
           p == g.part_size
           n == g.part_num
           o == g.offset
           z == g.size
           k == IF g.part_size <= len - g.offset THEN g.part_size ELSE len - g.offset
<1>1. /\ p \in Nat \ {0} /\ n \in Nat /\ o \in Nat /\ z \in Nat \ {0} /\ o = n * p
      /\ z <= ManyParts * p /\ ManyParts \in Nat \ {0} /\ LongestFile \in Nat
      /\ len \in Nat /\ len <= LongestFile /\ len <= z + 1
  BY EnoughParts, UploadConstants DEF SendFields
<1>2. /\ k \in Int /\ x = [i \in 1 .. k |-> g.offset + i] /\ x \in Seq(0 .. LongestFile)
      /\ Len(x) = IF k >= 0 THEN k ELSE 0
  BY <1>1, ReadIs
<1>3. k <= p /\ k <= len - o
  BY <1>1
<1> HIDE DEF x, k
<1>20. k \in Int /\ x \in Seq(0 .. LongestFile) /\ Len(x) = IF k >= 0 THEN k ELSE 0
  BY <1>2
<1>4. k > 0 /\ Len(x) = k
  <2>1. Len(x) # 0
    <3>1. x # <<>>
      BY DEF Asserted, x
    <3>2. QED  BY <3>1, <1>20, EmptySeq
  <2>2. k > 0
    BY <2>1, <1>20
  <2>3. QED  BY <2>2, <1>20
<1>5. (n + 1) * p = o + p /\ (ManyParts + 1) * p = ManyParts * p + p /\ ManyParts * p \in Int
  BY <1>1, OneTimeMore
<1>6. n <= ManyParts
  <2>1. n * p < (ManyParts + 1) * p
    <3> HIDE DEF p, n, o, z
    <3>1. QED  BY <1>1, <1>3, <1>4, <1>5
  <2>2. n < ManyParts + 1
    <3> HIDE DEF p, n, o, z
    <3>1. QED  BY <1>1, <2>1, Cancelled
  <2>3. QED  BY <2>2, <1>1
<1>7. ASSUME AtEnd(g, x)
      PROVE  n * p < z /\ z <= (n + 1) * p /\ Padded(g, x) = Rest(g, n)
  <2>1. o + k = z
    BY <1>7, <1>4 DEF AtEnd
  <2>2. n * p < z /\ z <= (n + 1) * p /\ k = z - n * p
    <3> HIDE DEF p, n, o, z
    <3>1. QED  BY <2>1, <1>1, <1>3, <1>4, <1>5
  <2>3. x = [i \in 1 .. g.size - n * g.part_size |-> n * g.part_size + i]
    BY <2>2, <1>1, <1>2
  <2>4. QED  BY <2>2, <2>3 DEF Rest
<1>8. ASSUME ~AtEnd(g, x)
      PROVE  o + k = (n + 1) * p /\ Padded(g, x) = Full(g, n)
  <2>1. Len(Padded(g, x)) = p
    BY <1>8 DEF Asserted, AtEnd, x
  <2>2. g.encr \in BOOLEAN
    BY DEF SendFields
  <2>3. /\ Padded(g, x) \in Seq(0 .. LongestFile)
        /\ Len(Padded(g, x)) = Len(x) + (IF g.encr THEN Pad(Len(x)) ELSE 0)
        /\ \A i \in 1 .. Len(Padded(g, x)) :
             Padded(g, x)[i] = IF i <= Len(x) THEN x[i] ELSE Padding
    BY ONLY <1>20, <2>2, PaddedIs
  <2>4. g.encr => Pad(k) = 0
    <3>1. g.encr => k % Block = 0
      BY <1>8, <1>4 DEF Asserted, AtEnd, x
    <3>2. QED  BY <3>1, <1>2, <1>4, WholeBlocks
  <2>5. k = p
    BY <2>1, <2>3, <2>4, <1>4, <1>20
  <2>6. Padded(g, x) = x
    <3>1. Len(Padded(g, x)) = Len(x)
      BY <2>1, <2>5, <1>4
    <3>2. \A i \in 1 .. Len(x) : Padded(g, x)[i] = x[i]
      BY <2>3, <3>1, <1>2, <1>4
    <3>3. QED  BY ONLY <2>3, <3>1, <3>2, <1>2, SameSequence
  <2>7. x = Full(g, n)
    BY <1>1, <1>2, <2>5 DEF Full
  <2>8. o + k = (n + 1) * p
    BY <1>5, <2>5
  <2>9. QED  BY <2>6, <2>7, <2>8
<1>9. PartSent(g, x)
  BY <1>2, <1>4, <1>6, <1>7, <1>8 DEF PartSent
<1>10. o + Len(x) <= len
  BY <1>1, <1>2, <1>3, <1>4
<1>11. QED  BY <1>9, <1>10 DEF x

(* The assertions hold while the file is as fstat saw it.                  *)
LEMMA AssertedOf ==
  ASSUME NEW g, SendFields(g), Chose(g), g.size + 1 <= LongestFile, g.offset < g.size
  PROVE  Asserted(g, read(g, g.size))
<1> DEFINE x == read(g, g.size)
           p == g.part_size
           o == g.offset
           z == g.size
           k == IF g.part_size <= g.size - g.offset THEN g.part_size ELSE g.size - g.offset
<1>1. /\ p \in Nat \ {0} /\ o \in Nat /\ z \in Nat \ {0} /\ LongestFile \in Nat
      /\ z <= LongestFile /\ o < z
  BY EnoughParts, UploadConstants DEF SendFields
<1>2. /\ k \in Int /\ x = [i \in 1 .. k |-> g.offset + i] /\ x \in Seq(0 .. LongestFile)
      /\ Len(x) = IF k >= 0 THEN k ELSE 0
  BY <1>1, ReadIs
<1>3. k > 0 /\ (o + k = z \/ k = p)
  BY <1>1
<1> HIDE DEF x, k
<1>4. Len(x) = k
  BY <1>2, <1>3
<1>5. x # <<>>
  BY <1>2, <1>3, <1>4, EmptySeq
<1>6. p % Block = 0
  BY UploadConstants DEF Chose
<1>7. g.encr /\ Len(x) % Block # 0 => g.offset + Len(x) = g.size
  BY <1>3, <1>4, <1>6
<1>8. ASSUME g.offset + Len(x) # g.size PROVE Len(Padded(g, x)) = g.part_size
  <2>1. k = p
    BY <1>3, <1>4, <1>8
  <2>2. Pad(k) = 0
    BY <2>1, <1>1, <1>6, WholeBlocks
  <2>3. g.encr \in BOOLEAN
    BY DEF SendFields
  <2>4. Len(Padded(g, x)) = Len(x) + (IF g.encr THEN Pad(Len(x)) ELSE 0)
    <3>1. x \in Seq(0 .. LongestFile)
      BY <1>2
    <3>2. QED  BY ONLY <2>3, <3>1, PaddedIs
  <2>5. QED  BY <2>1, <2>2, <2>4, <1>1, <1>4
<1>9. QED  BY <1>5, <1>7, <1>8 DEF Asserted, x
-----------------------------------------------------------------------------
(* The parts that were sent are the whole file.                            *)

LEMMA UnitsIs ==
  ASSUME NEW g, SendFields(g), g.size + 1 <= LongestFile
  PROVE  /\ Units(g) \in Seq(0 .. LongestFile)
         /\ Len(Units(g)) = g.size + (IF g.encr THEN Pad(g.size) ELSE 0)
         /\ \A i \in 1 .. Len(Units(g)) : Units(g)[i] = IF i > g.size THEN Padding ELSE i
<1> DEFINE k == g.size + (IF g.encr THEN Pad(g.size) ELSE 0)
           u == Units(g)
<1>1. /\ g.size \in Nat /\ LongestFile \in Nat /\ g.encr \in BOOLEAN
      /\ Pad(g.size) \in Nat
  BY UploadConstants, PadIs DEF SendFields
<1>2. k \in Nat
  BY <1>1
<1>3. u = [i \in 1 .. k |-> IF i > g.size THEN Padding ELSE i]
  BY DEF Units, Pad
<1> HIDE DEF k
<1>4. u \in [1 .. k -> 0 .. LongestFile]
  BY <1>1, <1>2, <1>3 DEF Padding
<1>5. \A i \in 1 .. k : u[i] = IF i > g.size THEN Padding ELSE i
  BY <1>3
<1> HIDE DEF u
<1>6. u \in Seq(0 .. LongestFile) /\ Len(u) = k
  BY ONLY <1>2, <1>4, MadeSequence
<1>7. QED  BY <1>5, <1>6 DEF k, u

LEMMA CutOfUnits ==
  ASSUME NEW u \in Seq(0 .. LongestFile), NEW m \in Nat, NEW e \in Nat, m <= e, e <= Len(u)
  PROVE  /\ SubSeq(u, m + 1, e) \in Seq(0 .. LongestFile)
         /\ Len(SubSeq(u, m + 1, e)) = e - m
         /\ \A i \in 1 .. e - m : SubSeq(u, m + 1, e)[i] = u[m + i]
<1>1. \A i \in m + 1 .. e : u[i] \in 0 .. LongestFile
  <2>1. TAKE i \in m + 1 .. e
  <2>2. i \in 1 .. Len(u)
    OBVIOUS
  <2>3. QED  BY <2>2, ElementOf
<1>2. m + 1 \in Int /\ e \in Int /\ e - (m + 1) + 1 = e - m
  OBVIOUS
<1>3. /\ SubSeq(u, m + 1, e) \in Seq(0 .. LongestFile)
      /\ Len(SubSeq(u, m + 1, e)) = IF m + 1 <= e THEN e - (m + 1) + 1 ELSE 0
      /\ \A i \in 1 .. e - (m + 1) + 1 : SubSeq(u, m + 1, e)[i] = u[m + 1 + i - 1]
  BY ONLY <1>1, <1>2, SubSeqProperties
<1>4. \A i \in 1 .. e - m : m + 1 + i - 1 = m + i
  OBVIOUS
<1>5. QED  BY <1>2, <1>3, <1>4

(* A part of the file n * p units into it.                                 *)
LEMMA FullIs ==
  ASSUME NEW g, SendFields(g), Chose(g), g.size + 1 <= LongestFile, NEW n \in Nat,
         (n + 1) * g.part_size <= g.size
  PROVE  Full(g, n) = SubSeq(Units(g), n * g.part_size + 1,
                             Min({(n + 1) * g.part_size, Len(Units(g))}))
<1> DEFINE p == g.part_size
           u == Units(g)
           m == n * p
           e == (n + 1) * p
<1>1. p \in Nat \ {0} /\ g.size \in Nat /\ LongestFile \in Nat
  BY EnoughParts, UploadConstants DEF SendFields
<1>2. m \in Nat /\ e = m + p /\ e <= g.size
  BY <1>1, OneTimeMore
<1>3. /\ u \in Seq(0 .. LongestFile) /\ g.size <= Len(u)
      /\ \A i \in 1 .. Len(u) : u[i] = IF i > g.size THEN Padding ELSE i
  <2>1. Pad(g.size) \in Nat
    BY <1>1, PadIs
  <2>2. QED  BY <1>1, <2>1, UnitsIs
<1> HIDE DEF p, u, m, e
<1>4. e \in Nat /\ m <= e /\ e <= Len(u) /\ e - m = p /\ Len(u) \in Nat
  BY <1>1, <1>2, <1>3
<1>5. Min({e, Len(u)}) = e
  BY <1>4, MinOfTwo
<1>6. /\ SubSeq(u, m + 1, e) \in Seq(0 .. LongestFile) /\ Len(SubSeq(u, m + 1, e)) = p
      /\ \A i \in 1 .. p : SubSeq(u, m + 1, e)[i] = u[m + i]
  <2>1. /\ SubSeq(u, m + 1, e) \in Seq(0 .. LongestFile) /\ Len(SubSeq(u, m + 1, e)) = e - m
        /\ \A i \in 1 .. e - m : SubSeq(u, m + 1, e)[i] = u[m + i]
    <3>1. u \in Seq(0 .. LongestFile) /\ m \in Nat
      BY <1>2, <1>3
    <3>2. QED  BY ONLY <1>4, <3>1, CutOfUnits
  <2>2. QED  BY <1>4, <2>1
<1> DEFINE x == [i \in 1 .. p |-> m + i]
<1>7. x \in [1 .. p -> 0 .. LongestFile] /\ \A i \in 1 .. p : x[i] = m + i /\ m + i <= g.size
  <2>1. g.size <= LongestFile
    BY DEF SendFields
  <2>2. QED  BY <2>1, <1>1, <1>2
<1>8. \A i \in 1 .. p : u[m + i] = m + i
  <2> TAKE i \in 1 .. p
  <2>1. m + i \in 1 .. Len(u) /\ ~(m + i > g.size)
    BY <1>1, <1>2, <1>3, <1>4
  <2>2. QED  BY <2>1, <1>3
<1>9. x \in Seq(0 .. LongestFile) /\ Len(x) = p
  <2> HIDE DEF x
  <2>1. QED  BY <1>1, <1>7, MadeSequence
<1>10. x = SubSeq(u, m + 1, e)
  <2> HIDE DEF x
  <2>1. \A i \in 1 .. Len(x) : x[i] = SubSeq(u, m + 1, e)[i]
    BY <1>6, <1>7, <1>8, <1>9
  <2>2. Len(x) = Len(SubSeq(u, m + 1, e))
    BY <1>6, <1>9
  <2>3. QED  BY ONLY <1>6, <1>9, <2>1, <2>2, SameSequence
<1>11. QED  BY <1>5, <1>10 DEF Full, p, u, m, e

LEMMA RestIs ==
  ASSUME NEW g, SendFields(g), Chose(g), g.size + 1 <= LongestFile, NEW n \in Nat,
         n * g.part_size < g.size, g.size <= (n + 1) * g.part_size
  PROVE  Rest(g, n) = SubSeq(Units(g), n * g.part_size + 1,
                             Min({(n + 1) * g.part_size, Len(Units(g))}))
<1> DEFINE p == g.part_size
           u == Units(g)
           m == n * p
           e == (n + 1) * p
           z == g.size
           pad == IF g.encr THEN Pad(z) ELSE 0
<1>1. p \in Nat \ {0} /\ z \in Nat /\ LongestFile \in Nat /\ g.encr \in BOOLEAN
  BY EnoughParts, UploadConstants DEF SendFields
<1>2. m \in Nat /\ e \in Nat /\ m < z /\ z <= e
  BY <1>1, OneTimeMore
<1>3. /\ u \in Seq(0 .. LongestFile) /\ Len(u) = z + pad
      /\ \A i \in 1 .. Len(u) : u[i] = IF i > z THEN Padding ELSE i
  BY UnitsIs
<1>4. /\ pad \in Nat /\ z + pad <= e
      /\ (IF g.encr THEN Pad(z - m) ELSE 0) = pad
  <2>1. PICK j \in Int : m = j * Block
    BY PartsAreBlocks DEF Chose
  <2>2. PICK h \in Int : e = h * Block
    <3>1. n + 1 \in Nat
      OBVIOUS
    <3>2. QED  BY <3>1, PartsAreBlocks DEF Chose
  <2> HIDE DEF m, e, z
  <2>3. Pad(z) \in Nat
    BY <1>1, PadIs
  <2>4. Pad(z - m) = Pad(z)
    <3>1. m <= z
      BY <1>1, <1>2
    <3>2. QED  BY ONLY <3>1, <1>1, <1>2, <2>1, PadOfRest
  <2>5. z + Pad(z) <= e
    BY ONLY <1>1, <1>2, <2>2, PadFits
  <2>6. QED  BY <1>1, <1>2, <2>3, <2>4, <2>5
<1> DEFINE x == [i \in 1 .. z - m |-> m + i]
<1>5. z - m \in Nat /\ z <= LongestFile
  BY <1>1, <1>2 DEF SendFields
<1>6. /\ x \in [1 .. z - m -> 0 .. LongestFile]
      /\ \A i \in 1 .. z - m : x[i] = m + i
  <2> HIDE DEF m, z
  <2>1. QED  BY <1>1, <1>2, <1>5
<1> HIDE DEF pad
<1>7. x \in Seq(0 .. LongestFile) /\ Len(x) = z - m
  <2> HIDE DEF x
  <2>1. QED  BY <1>5, <1>6, MadeSequence
<1> DEFINE y == Padded(g, x)
<1>8. y \in Seq(0 .. LongestFile) /\ Len(y) = z - m + pad
      /\ \A i \in 1 .. Len(y) : y[i] = IF i <= z - m THEN x[i] ELSE Padding
  <2> HIDE DEF x
  <2>1. /\ y \in Seq(0 .. LongestFile)
        /\ Len(y) = Len(x) + (IF g.encr THEN Pad(Len(x)) ELSE 0)
        /\ \A i \in 1 .. Len(y) : y[i] = IF i <= Len(x) THEN x[i] ELSE Padding
    <3>1. g.encr \in BOOLEAN /\ x \in Seq(0 .. LongestFile)
      BY <1>1, <1>7
    <3> HIDE DEF y
    <3>2. y = Padded(g, x)
      BY DEF y
    <3>3. QED  BY ONLY <3>1, <3>2, PaddedIs
  <2>2. QED  BY <1>4, <1>7, <2>1
<1>9. y = Rest(g, n)
  BY DEF Rest
<1> HIDE DEF u, m, e, z, x, y
<1> DEFINE t == z + pad
<1>10. /\ t = z + pad /\ t \in Nat /\ m <= t /\ t <= Len(u) /\ Min({e, Len(u)}) = t
  <2>1. t = z + pad
    OBVIOUS
  <2> HIDE DEF t
  <2>2. t \in Nat /\ m <= t /\ t = Len(u) /\ t <= e
    BY <2>1, <1>1, <1>2, <1>3, <1>4
  <2>3. Min({e, Len(u)}) = t
    BY <2>2, <1>2, MinOfTwo
  <2>4. QED  BY <2>1, <2>2, <2>3
<1> HIDE DEF t
<1> DEFINE w == SubSeq(u, m + 1, t)
<1>11. /\ w \in Seq(0 .. LongestFile) /\ Len(w) = t - m
       /\ \A i \in 1 .. t - m : w[i] = u[m + i]
  <2>1. u \in Seq(0 .. LongestFile) /\ m \in Nat /\ t \in Nat /\ m <= t /\ t <= Len(u)
    BY <1>2, <1>3, <1>10
  <2>2. QED  BY ONLY <2>1, CutOfUnits
<1> HIDE DEF w
<1>12. \A i \in 1 .. Len(y) : y[i] = w[i]
  <2> TAKE i \in 1 .. Len(y)
  <2>1. i \in 1 .. t - m /\ m + i \in 1 .. Len(u)
    BY <1>1, <1>2, <1>3, <1>4, <1>8, <1>10
  <2>2. w[i] = IF m + i > z THEN Padding ELSE m + i
    BY <2>1, <1>3, <1>11
  <2>3. CASE i <= z - m
    <3>1. i \in 1 .. z - m /\ ~(m + i > z)
      BY <2>1, <2>3, <1>1, <1>2
    <3>2. QED  BY <3>1, <2>2, <2>3, <1>6, <1>8
  <2>4. CASE ~(i <= z - m)
    <3>1. m + i > z
      BY <2>1, <2>4, <1>1, <1>2
    <3>2. QED  BY <3>1, <2>2, <2>4, <1>8
  <2>5. QED  BY <2>3, <2>4
<1>13. Len(y) = Len(w)
  BY <1>1, <1>2, <1>4, <1>8, <1>10, <1>11
<1>14. y = w
  BY ONLY <1>8, <1>11, <1>12, <1>13, SameSequence
<1>15. QED  BY <1>9, <1>10, <1>14 DEF u, m, e, w

LEMMA SameParts ==
  ASSUME NEW g, NEW h, h.part_size = g.part_size, h.size = g.size, h.encr = g.encr
  PROVE  /\ \A n : Full(h, n) = Full(g, n) /\ Rest(h, n) = Rest(g, n)
         /\ total(h) = total(g) /\ (Chose(g) => Chose(h)) /\ Units(h) = Units(g)
<1>1. \A x : Padded(h, x) = Padded(g, x)
  BY DEF Padded
<1>2. Units(h) = Units(g)
  BY DEF Units
<1>3. total(h) = total(g) /\ (Chose(g) => Chose(h))
  BY DEF total, Chose
<1>4. \A n : Full(h, n) = Full(g, n) /\ Rest(h, n) = Rest(g, n)
  BY <1>1 DEF Full, Rest
<1>5. QED  BY <1>2, <1>3, <1>4

Numbers(S) == {p.n : p \in S}

LEMMA AllParts ==
  ASSUME NEW g, SendFields(g), Chose(g), g.size + 1 <= LongestFile,
         NEW S \in SUBSET FilePart,
         g.part_num > 0, (g.part_num - 1) * g.part_size < g.size,
         g.size <= g.part_num * g.part_size, Numbers(S) = 0 .. g.part_num - 1,
         \A p \in S : /\ p.units = IF p.n < g.part_num - 1 THEN Full(g, p.n)
                                                           ELSE Rest(g, g.part_num - 1)
                      /\ p.total = total(g)
  PROVE  WholeIn(g, S)
<1> DEFINE n == g.part_num
           ps == g.part_size
           z == g.size
<1>1. /\ ps \in Nat \ {0} /\ n \in Nat /\ n > 0 /\ z \in Nat \ {0} /\ z <= ManyParts * ps
      /\ ManyParts \in Nat \ {0} /\ (n - 1) * ps < z /\ z <= n * ps
  BY EnoughParts, UploadConstants DEF SendFields
<1> HIDE DEF n, ps, z
<1>2. n <= ManyParts
  <2>1. (n - 1) * ps \in Int /\ ManyParts * ps \in Int /\ n - 1 \in Int
    BY <1>1
  <2>2. (n - 1) * ps < ManyParts * ps
    BY <1>1, <2>1
  <2>3. n - 1 < ManyParts
    BY <2>1, <2>2, <1>1, Cancelled
  <2>4. QED  BY <2>3, <1>1
<1>3. Ceil(z, ps) = n
  BY <1>1, CeilIsOnly
<1>4. z >= BigFile => total(g) = n
  <2>1. BigFile \in Nat
    BY UploadConstants
  <2>2. QED  BY <2>1, <1>1, <1>3 DEF total, z, ps
<1>5. ASSUME NEW p \in S
      PROVE  p.units = SubSeq(Units(g), p.n * g.part_size + 1,
                              Min({(p.n + 1) * g.part_size, Len(Units(g))}))
  <2>1. p.n \in Numbers(S)
    BY DEF Numbers
  <2>2. p.n \in 0 .. n - 1
    BY <2>1 DEF n
  <2>3. CASE p.n < n - 1
    <3>1. p.n \in Nat /\ n - 1 \in Nat /\ p.n + 1 <= n - 1 /\ p.n + 1 \in Nat
      BY <1>1, <2>2, <2>3
    <3>2. (p.n + 1) * ps <= (n - 1) * ps /\ (p.n + 1) * ps \in Int /\ (n - 1) * ps \in Int
      BY <3>1, <1>1, TimesMore
    <3>3. (p.n + 1) * ps <= z
      BY <3>2, <1>1
    <3>4. Full(g, p.n) = SubSeq(Units(g), p.n * g.part_size + 1,
                                Min({(p.n + 1) * g.part_size, Len(Units(g))}))
      BY <3>1, <3>3, FullIs DEF ps, z
    <3>5. QED  BY <3>4, <2>3 DEF n
  <2>4. CASE ~(p.n < n - 1)
    <3>1. p.n = n - 1 /\ p.n \in Nat /\ p.n + 1 = n
      BY <1>1, <2>2, <2>4
    <3>2. p.n * ps < z /\ z <= (p.n + 1) * ps
      BY <3>1, <1>1
    <3>3. Rest(g, p.n) = SubSeq(Units(g), p.n * g.part_size + 1,
                                Min({(p.n + 1) * g.part_size, Len(Units(g))}))
      BY <3>1, <3>2, RestIs DEF ps, z
    <3>4. p.units = Rest(g, p.n)
      BY <3>1, <2>4 DEF n
    <3>5. QED  BY <3>3, <3>4
  <2>5. QED  BY <2>3, <2>4
<1>6. \A p \in S : g.size >= BigFile => p.total = g.part_num
  BY <1>4 DEF n, z
<1>7. {p.n : p \in S} = 0 .. g.part_num - 1
  BY DEF Numbers
<1>8. g.part_num <= ManyParts
  BY <1>2 DEF n
<1>9. QED  BY <1>5, <1>6, <1>7, <1>8 DEF WholeIn
-----------------------------------------------------------------------------
(* The inductive invariant: how far each upload has come, and what the     *)
(* server has of it.                                                       *)

PartsOf(s) == stored[s] \cup IF query[s].kind = "part" THEN {query[s].part} ELSE {}
ThumbThere(s) == thumbed(F[s].media_type, F[s].encr) => s \in thumbs
MessageOut(s) == query[s].kind \in {"media", "encrypted_file"} \/ s \in messages

NotBegun(s) ==
  /\ query[s] = NoQuery /\ stored[s] = {}
  /\ s \notin done /\ s \notin thumbs /\ s \notin messages /\ s \notin known

FitsFile(s) ==
  /\ SendFields(F[s]) /\ Chose(F[s]) /\ F[s].size + 1 <= LongestFile
  /\ readable[s] \in 0 .. F[s].size + 1 /\ F[s].offset <= F[s].size + 1

MessageAt(s) ==
  /\ query[s].kind \in {"media", "encrypted_file"} => (s \in messages <=> s \in done)
  /\ query[s] = NoQuery /\ s \in messages => s \in known \/ (F[s].encr /\ s \in dead)
  /\ s \in known => s \in messages
  /\ MessageOut(s) => WholeIn(F[s], stored[s]) /\ ThumbThere(s)

OpenAt(s) ==
  /\ F[s].offset = F[s].part_num * F[s].part_size
  /\ s \notin odd => readable[s] = F[s].size /\ F[s].offset < F[s].size
  /\ \A p \in PartsOf(s) : p.units = Full(F[s], p.n)
  /\ F[s].part_num = 0 => query[s].kind \in {"none", "thumb"} /\ stored[s] = {}
  /\ F[s].part_num # 0 => query[s].kind \in {"none", "part"}

ClosedAt(s) ==
  /\ F[s].offset = F[s].size /\ F[s].part_num > 0
  /\ (F[s].part_num - 1) * F[s].part_size < F[s].size
  /\ F[s].size <= F[s].part_num * F[s].part_size
  /\ \A p \in PartsOf(s) :
       p.units = IF p.n < F[s].part_num - 1 THEN Full(F[s], p.n)
                                            ELSE Rest(F[s], F[s].part_num - 1)
  /\ query[s].kind \in {"none", "part"}

GoingOn(s) ==
  /\ s \notin messages
  /\ \A p \in PartsOf(s) : p.n < F[s].part_num /\ p.total = total(F[s])
  /\ query[s].kind = "part" =>
       /\ query[s].part.n = F[s].part_num - 1
       /\ Numbers(stored[s]) = 0 .. F[s].part_num - (IF s \in done THEN 1 ELSE 2)
  /\ F[s].part_num > 0 \/ (query[s].kind = "thumb" /\ s \in done) => ThumbThere(s)

Good(s) ==
  /\ s > sends => F[s] = NoFile
  /\ F[s] = NoFile => NotBegun(s)
  /\ F[s] # NoFile => FitsFile(s) /\ MessageAt(s)
  /\ F[s].state = "open" => OpenAt(s) /\ GoingOn(s)
  /\ F[s].state = "closed" => ClosedAt(s) /\ GoingOn(s)
  /\ F[s].state = "freed" => query[s].kind \in {"media", "encrypted_file", "none"}

UpInv == UpTypeOK /\ AbortsAreOdd /\ UpCountersAddUp /\ \A s \in Sends : Good(s)

LEMMA QueryIs ==
  ASSUME NEW q \in Query \cup {NoQuery}
  PROVE  /\ q.kind \in {"none", "thumb", "media", "encrypted_file", "part"}
         /\ q.kind = "none" <=> q = NoQuery
         /\ q.kind = "part" => q.part \in FilePart
<1>1. CASE q = NoQuery
  BY <1>1 DEF NoQuery
<1>2. CASE q \in [kind : {"thumb", "media", "encrypted_file"}]
  BY <1>2 DEF NoQuery
<1>3. CASE q \in [kind : {"part"}, part : FilePart]
  <2>1. q.kind = "part" /\ q.part \in FilePart
    BY <1>3
  <2>2. QED  BY <2>1 DEF NoQuery
<1>4. QED  BY <1>1, <1>2, <1>3 DEF Query

(* What UpTypeOK and Good say of one upload.                               *)
LEMMA SendIs ==
  ASSUME UpInv, NEW s \in Sends
  PROVE  /\ Good(s) /\ F[s] \in SendFile \cup {NoFile} /\ readable[s] \in 0 .. LongestFile
         /\ query[s] \in Query \cup {NoQuery} /\ stored[s] \in SUBSET FilePart
         /\ s \in Nat \ {0} /\ sends \in Nat
         /\ F[s] = NoFile <=> F[s] \notin SendFile
         /\ F[s].state \in {"none", "open", "closed", "freed"}
         /\ F[s].state = "none" <=> F[s] = NoFile
<1>1. /\ F \in [Sends -> SendFile \cup {NoFile}] /\ readable \in [Sends -> 0 .. LongestFile]
      /\ query \in [Sends -> Query \cup {NoQuery}] /\ stored \in [Sends -> SUBSET FilePart]
      /\ sends \in 0 .. MaxSends
  BY DEF UpInv, UpTypeOK
<1>2. Good(s)
  BY DEF UpInv
<1>3. s \in Nat \ {0} /\ sends \in Nat
  BY <1>1, UploadConstants DEF Sends
<1>4. NoFile.state = "none"
  BY DEF NoFile
<1>5. F[s] \in SendFile \cup {NoFile}
  BY <1>1
<1>6. F[s] \in SendFile => F[s] # NoFile /\ F[s].state \in {"open", "closed", "freed"}
  BY SendFileIs DEF SendFields
<1>7. F[s] = NoFile <=> F[s] \notin SendFile
  BY <1>5, <1>6
<1>8. F[s].state \in {"none", "open", "closed", "freed"} /\ (F[s].state = "none" <=> F[s] = NoFile)
  BY <1>4, <1>5, <1>6
<1>9. QED  BY <1>1, <1>2, <1>3, <1>5, <1>7, <1>8

Same(t) ==
  /\ t > sends' => t > sends
  /\ F'[t] = F[t] /\ readable'[t] = readable[t] /\ query'[t] = query[t]
  /\ stored'[t] = stored[t]
  /\ t \in done' <=> t \in done
  /\ t \in thumbs' <=> t \in thumbs
  /\ t \in messages' <=> t \in messages
  /\ t \in known' <=> t \in known
  /\ t \in odd' <=> t \in odd
  /\ t \in dead => t \in dead'

LEMMA SameStays ==
  ASSUME NEW t \in Sends, Good(t), Same(t)
  PROVE  Good(t)'
<1>1. PartsOf(t)' = PartsOf(t)
  BY DEF Same, PartsOf
<1>2. ThumbThere(t)' <=> ThumbThere(t)
  BY DEF Same, ThumbThere
<1>3. MessageOut(t)' <=> MessageOut(t)
  BY DEF Same, MessageOut
<1>4. FitsFile(t) => FitsFile(t)'
  BY DEF Same, FitsFile
<1>5. MessageAt(t) => MessageAt(t)'
  BY <1>2, <1>3 DEF Same, MessageAt
<1>6. NotBegun(t) => NotBegun(t)'
  BY DEF Same, NotBegun
<1>7. OpenAt(t) => OpenAt(t)'
  BY <1>1 DEF Same, OpenAt
<1>8. ClosedAt(t) => ClosedAt(t)'
  BY <1>1 DEF Same, ClosedAt
<1>9. GoingOn(t) => GoingOn(t)'
  BY <1>1, <1>2 DEF Same, GoingOn
<1>10. F'[t] = F[t] /\ query'[t] = query[t] /\ (t > sends' => t > sends)
  BY DEF Same
<1>11. QED  BY <1>4, <1>5, <1>6, <1>7, <1>8, <1>9, <1>10 DEF Good
-----------------------------------------------------------------------------
(* The counters. *)

Uploading(g) == IF g.state \in {"open", "closed"} /\ g.part_num > 0 THEN g.size ELSE 0
Uploaded(g) == IF g.state \in {"open", "closed"} THEN g.offset ELSE 0
BegunSizes == [s \in Sends |-> Uploading(F[s])]
SentSizes == [s \in Sends |-> Uploaded(F[s])]

LEMMA SentSumsTyped ==
  ASSUME F \in [Sends -> SendFile \cup {NoFile}]
  PROVE  BegunSizes \in [Sends -> Nat] /\ SentSizes \in [Sends -> Nat]
<1>1. ASSUME NEW s \in Sends PROVE Uploading(F[s]) \in Nat /\ Uploaded(F[s]) \in Nat
  <2>1. CASE F[s] = NoFile
    BY <2>1 DEF NoFile, Uploading, Uploaded
  <2>2. CASE F[s] \in SendFile
    <3>1. F[s].size \in Nat /\ F[s].offset \in Nat
      BY <2>2, SendFileIs DEF SendFields
    <3>2. QED  BY <3>1 DEF Uploading, Uploaded
  <2>3. QED  BY <2>1, <2>2
<1>2. QED  BY <1>1 DEF BegunSizes, SentSizes

LEMMA SentCountersAre ==
  UpCountersAddUp <=> /\ cur_uploading_bytes = SumFunction(BegunSizes)
                      /\ cur_uploaded_bytes = SumFunction(SentSizes)
BY DEF UpCountersAddUp, BegunSizes, SentSizes, Uploading, Uploaded

(* One upload changes: the counters follow it.                             *)
LEMMA OneCounted ==
  ASSUME UpInv, NEW s \in Sends, NEW g \in SendFile \cup {NoFile}, F' = [F EXCEPT ![s] = g],
         cur_uploading_bytes' = cur_uploading_bytes - Uploading(F[s]) + Uploading(g),
         cur_uploaded_bytes' = cur_uploaded_bytes - Uploaded(F[s]) + Uploaded(g)
  PROVE  UpCountersAddUp' /\ {cur_uploading_bytes', cur_uploaded_bytes'} \subseteq Nat
<1>1. F \in [Sends -> SendFile \cup {NoFile}] /\ UpCountersAddUp
  BY DEF UpInv, UpTypeOK
<1>2. F' \in [Sends -> SendFile \cup {NoFile}]
  BY <1>1
<1>3. BegunSizes \in [Sends -> Nat] /\ SentSizes \in [Sends -> Nat]
  BY <1>1, SentSumsTyped
<1>4. BegunSizes' \in [Sends -> Nat] /\ SentSizes' \in [Sends -> Nat]
  <2>1. (F \in [Sends -> SendFile \cup {NoFile}])' =>
          (BegunSizes \in [Sends -> Nat] /\ SentSizes \in [Sends -> Nat])'
    BY SentSumsTyped, PTL
  <2>2. QED  BY <1>2, <2>1
<1>5. F'[s] = g /\ \A t \in Sends : t # s => F'[t] = F[t]
  BY <1>1
<1>6. /\ BegunSizes' = [BegunSizes EXCEPT ![s] = Uploading(g)]
      /\ SentSizes' = [SentSizes EXCEPT ![s] = Uploaded(g)]
  <2>1. \A t \in Sends : /\ Uploading(F'[t]) = IF t = s THEN Uploading(g) ELSE Uploading(F[t])
                         /\ Uploaded(F'[t]) = IF t = s THEN Uploaded(g) ELSE Uploaded(F[t])
    BY <1>5
  <2>2. /\ BegunSizes' = [t \in Sends |-> IF t = s THEN Uploading(g) ELSE Uploading(F[t])]
        /\ SentSizes' = [t \in Sends |-> IF t = s THEN Uploaded(g) ELSE Uploaded(F[t])]
    BY <2>1 DEF BegunSizes, SentSizes
  <2>3. /\ [BegunSizes EXCEPT ![s] = Uploading(g)] =
             [t \in Sends |-> IF t = s THEN Uploading(g) ELSE Uploading(F[t])]
        /\ [SentSizes EXCEPT ![s] = Uploaded(g)] =
             [t \in Sends |-> IF t = s THEN Uploaded(g) ELSE Uploaded(F[t])]
    BY DEF BegunSizes, SentSizes
  <2>4. QED  BY ONLY <2>2, <2>3
<1>7. /\ BegunSizes[s] = Uploading(F[s]) /\ SentSizes[s] = Uploaded(F[s])
      /\ BegunSizes'[s] = Uploading(g) /\ SentSizes'[s] = Uploaded(g)
  BY <1>5 DEF BegunSizes, SentSizes
<1>8. /\ BegunSizes \in [Sends -> Int] /\ SentSizes \in [Sends -> Int]
      /\ Uploading(g) \in Int /\ Uploaded(g) \in Int
  <2> DEFINE b == BegunSizes
             c == SentSizes
             bb == BegunSizes'
             cc == SentSizes'
  <2>1. b \in [Sends -> Nat] /\ c \in [Sends -> Nat] /\ bb[s] \in Nat /\ cc[s] \in Nat
    BY <1>3, <1>4
  <2> HIDE DEF b, c, bb, cc
  <2>2. b \in [Sends -> Int] /\ c \in [Sends -> Int] /\ bb[s] \in Int /\ cc[s] \in Int
    BY <2>1
  <2>3. QED  BY <2>2, <1>7 DEF b, c, bb, cc
<1>9. /\ SumFunction(BegunSizes') = SumFunction(BegunSizes) - Uploading(F[s]) + Uploading(g)
      /\ SumFunction(SentSizes') = SumFunction(SentSizes) - Uploaded(F[s]) + Uploaded(g)
  <2>1. SumFunction(BegunSizes') = SumFunction(BegunSizes) - BegunSizes[s] + Uploading(g)
    BY ONLY <1>6, <1>8, SendsFinite, SumChanged, s \in Sends
  <2>2. SumFunction(SentSizes') = SumFunction(SentSizes) - SentSizes[s] + Uploaded(g)
    BY ONLY <1>6, <1>8, SendsFinite, SumChanged, s \in Sends
  <2>3. BegunSizes[s] = Uploading(F[s]) /\ SentSizes[s] = Uploaded(F[s])
    BY <1>7
  <2>4. QED  BY ONLY <2>1, <2>2, <2>3
<1>10. /\ cur_uploading_bytes = SumFunction(BegunSizes)
       /\ cur_uploaded_bytes = SumFunction(SentSizes)
  BY <1>1, SentCountersAre
<1>11. /\ cur_uploading_bytes' = SumFunction(BegunSizes')
       /\ cur_uploaded_bytes' = SumFunction(SentSizes')
  BY <1>9, <1>10
<1>12. UpCountersAddUp'
  BY <1>11 DEF UpCountersAddUp, BegunSizes, SentSizes, Uploading, Uploaded
<1>13. SumFunction(BegunSizes') \in Nat /\ SumFunction(SentSizes') \in Nat
  BY <1>4, SendsFinite, SumOfNaturals
<1>14. QED  BY <1>11, <1>12, <1>13

LEMMA NoneCounted ==
  ASSUME UpInv, F' = F, cur_uploading_bytes' = cur_uploading_bytes,
         cur_uploaded_bytes' = cur_uploaded_bytes
  PROVE  UpCountersAddUp' /\ {cur_uploading_bytes', cur_uploaded_bytes'} \subseteq Nat
BY DEF UpInv, UpTypeOK, UpCountersAddUp
-----------------------------------------------------------------------------
(* The steps. *)

LEMMA SameWhole ==
  ASSUME NEW g, NEW h, NEW S, h.part_size = g.part_size, h.size = g.size,
         h.encr = g.encr, h.part_num = g.part_num, WholeIn(g, S)
  PROVE  WholeIn(h, S)
<1>1. Units(h) = Units(g)
  BY SameParts
<1>2. QED  BY <1>1 DEF WholeIn

LEMMA FileSet ==
  ASSUME NEW g \in SendFile, NEW o \in 0 .. LongestFile, NEW n \in 0 .. ManyParts + 1,
         NEW st \in {"open", "closed", "freed"},
         NEW h, h = [g EXCEPT !.offset = o, !.part_num = n, !.state = st]
  PROVE  /\ h \in SendFile /\ h.offset = o /\ h.part_num = n /\ h.state = st
         /\ h.part_size = g.part_size /\ h.size = g.size /\ h.encr = g.encr
         /\ h.media_type = g.media_type
BY DEF SendFile

LEMMA FreedIs ==
  ASSUME NEW g \in SendFile, NEW h, h = [g EXCEPT !.state = "freed"]
  PROVE  /\ h \in SendFile /\ h.state = "freed" /\ h.offset = g.offset
         /\ h.part_num = g.part_num /\ h.part_size = g.part_size /\ h.size = g.size
         /\ h.encr = g.encr /\ h.media_type = g.media_type
BY DEF SendFile

LEMMA SameSend ==
  ASSUME NEW g \in SendFile, NEW h \in SendFile, Chose(g),
         h.offset = g.offset, h.part_num = g.part_num, h.part_size = g.part_size,
         h.size = g.size, h.encr = g.encr
  PROVE  SendFields(h) /\ Chose(h) /\ h # NoFile
BY SendFileIs DEF Chose

LEMMA SetsTyped ==
  UpTypeOK <=>
    /\ sends \in 0 .. MaxSends /\ up_faults \in 0 .. MaxUpFaults
    /\ F \in [Sends -> SendFile \cup {NoFile}]
    /\ readable \in [Sends -> 0 .. LongestFile]
    /\ query \in [Sends -> Query \cup {NoQuery}] /\ stored \in [Sends -> SUBSET FilePart]
    /\ done \subseteq Sends /\ thumbs \subseteq Sends /\ messages \subseteq Sends
    /\ known \subseteq Sends /\ odd \subseteq Sends /\ aborted \subseteq Sends
    /\ dead \subseteq Sends
    /\ cur_uploading_bytes \in Nat /\ cur_uploaded_bytes \in Nat
BY DEF UpTypeOK

(* What the steps of one upload have to show.                              *)
FilesKept ==
  /\ F' \in [Sends -> SendFile \cup {NoFile}] /\ query' \in [Sends -> Query \cup {NoQuery}]
  /\ known' \subseteq Sends /\ dead' \subseteq Sends
  /\ UpCountersAddUp' /\ cur_uploading_bytes' \in Nat /\ cur_uploaded_bytes' \in Nat
  /\ \A t \in Sends : Good(t)'
  /\ aborted' \subseteq odd'
OthersKept ==
  /\ sends' \in 0 .. MaxSends /\ up_faults' \in 0 .. MaxUpFaults
  /\ readable' \in [Sends -> 0 .. LongestFile] /\ stored' \in [Sends -> SUBSET FilePart]
  /\ done' \subseteq Sends /\ thumbs' \subseteq Sends /\ messages' \subseteq Sends
  /\ odd' \subseteq Sends

LEMMA AllKept == ASSUME FilesKept, OthersKept PROVE UpInv'
<1>1. aborted' \subseteq Sends
  BY DEF FilesKept, OthersKept
<1>2. UpTypeOK'
  BY <1>1 DEF UpTypeOK, FilesKept, OthersKept
<1>3. QED  BY <1>2 DEF UpInv, FilesKept, AbortsAreOdd

LEMMA AllGood ==
  ASSUME UpInv, NEW s \in Sends, Good(s)', \A t \in Sends : t # s => Same(t)
  PROVE  \A t \in Sends : Good(t)'
<1>1. ASSUME NEW t \in Sends, t # s PROVE Good(t)'
  <2>1. Good(t) /\ Same(t)
    BY <1>1 DEF UpInv
  <2>2. QED  BY <2>1, SameStays
<1>2. QED  BY <1>1

(* The process ends. *)
LEMMA EndedGood ==
  ASSUME UpInv, UpEnded, stored' = stored, thumbs' = thumbs, messages' = messages,
         NEW t \in Sends, t > sends' => t > sends, t \in done' => t \in done,
         F[t] # NoFile => readable'[t] = readable[t]
  PROVE  Good(t)' /\ F'[t] \in SendFile \cup {NoFile}
         /\ Uploading(F'[t]) = 0 /\ Uploaded(F'[t]) = 0
<1>1. /\ Good(t) /\ F[t] \in SendFile \cup {NoFile}
      /\ F[t] = NoFile <=> F[t] \notin SendFile
  BY SendIs
<1>2. /\ F'[t] = IF F[t] = NoFile THEN NoFile ELSE [F[t] EXCEPT !.state = "freed"]
      /\ query'[t] = NoQuery /\ (t \in known' <=> t \in messages /\ ~F[t].encr)
      /\ (F[t] # NoFile => t \in dead')
  BY DEF UpEnded, Secret
<1>3. CASE F[t] = NoFile
  <2>1. F'[t] = NoFile /\ NotBegun(t)
    BY <1>1, <1>2, <1>3 DEF Good
  <2>2. NotBegun(t)'
    BY <2>1, <1>2 DEF NotBegun
  <2>3. F'[t].state = "none"
    BY <2>1 DEF NoFile
  <2>4. QED  BY <2>1, <2>2, <2>3 DEF Good, Uploading, Uploaded
<1>4. CASE F[t] # NoFile
  <2> DEFINE g == F[t]
             h == F'[t]
  <2>1. g \in SendFile /\ h = [g EXCEPT !.state = "freed"]
    BY <1>1, <1>2, <1>4
  <2>2. FitsFile(t) /\ MessageAt(t) /\ (t > sends => F[t] = NoFile)
    BY <1>1, <1>4 DEF Good
  <2> HIDE DEF g, h
  <2>3. /\ h \in SendFile /\ h.state = "freed" /\ h.offset = g.offset
        /\ h.part_num = g.part_num /\ h.part_size = g.part_size /\ h.size = g.size
        /\ h.encr = g.encr /\ h.media_type = g.media_type
    BY <2>1, FreedIs
  <2>4. SendFields(h) /\ Chose(h) /\ h # NoFile
    <3>1. Chose(g)
      BY <2>2 DEF FitsFile, g
    <3>2. QED  BY ONLY <3>1, <2>1, <2>3, SameSend
  <2>5. FitsFile(t)'
    <3>1. /\ g.size + 1 <= LongestFile /\ readable'[t] \in 0 .. g.size + 1
          /\ g.offset <= g.size + 1
      BY <2>2, <1>4 DEF FitsFile, g
    <3>2. /\ h.size + 1 <= LongestFile /\ readable'[t] \in 0 .. h.size + 1
          /\ h.offset <= h.size + 1
      BY <3>1, <2>3
    <3>3. QED  BY <3>2, <2>4 DEF FitsFile, h
  <2>6. query'[t].kind = "none"
    BY <1>2 DEF NoQuery
  <2>7. MessageOut(t)' => WholeIn(h, stored'[t]) /\ ThumbThere(t)'
    <3>1. SUFFICES ASSUME MessageOut(t)' PROVE WholeIn(h, stored'[t]) /\ ThumbThere(t)'
      OBVIOUS
    <3>2. MessageOut(t)
      BY <3>1, <2>6 DEF MessageOut
    <3>3. WholeIn(g, stored[t]) /\ ThumbThere(t)
      BY <3>2, <2>2 DEF MessageAt, g
    <3>4. WholeIn(h, stored[t])
      BY ONLY <3>3, <2>3, SameWhole
    <3>5. ThumbThere(t)'
      BY <3>3, <2>3 DEF ThumbThere, g, h
    <3>6. QED  BY <3>4, <3>5
  <2>8. MessageAt(t)'
    <3>1. query'[t].kind \notin {"media", "encrypted_file"}
      BY <2>6
    <3>2. t \in messages' => t \in known' \/ (h.encr /\ t \in dead')
      BY <1>2, <1>4, <2>3 DEF g
    <3>3. t \in known' => t \in messages'
      BY <1>2
    <3>4. QED  BY <3>1, <3>2, <3>3, <2>7 DEF MessageAt, h
  <2>9. Good(t)'
    BY <2>2, <2>3, <2>4, <2>5, <2>6, <2>8, <1>4 DEF Good, h
  <2>10. QED  BY <2>3, <2>9 DEF Uploading, Uploaded, h
<1>5. QED  BY <1>3, <1>4

LEMMA EndedKeepsFiles ==
  ASSUME UpInv, UpEnded, stored' = stored, thumbs' = thumbs, messages' = messages,
         aborted' \subseteq odd',
         \A t \in Sends : /\ t > sends' => t > sends
                          /\ t \in done' => t \in done
                          /\ F[t] # NoFile => readable'[t] = readable[t]
  PROVE  FilesKept
<1>1. ASSUME NEW t \in Sends
      PROVE  /\ Good(t)' /\ F'[t] \in SendFile \cup {NoFile}
             /\ Uploading(F'[t]) = 0 /\ Uploaded(F'[t]) = 0
  BY EndedGood
<1>2. F' \in [Sends -> SendFile \cup {NoFile}]
  <2>1. F' = [s \in Sends |-> F'[s]]
    BY DEF UpEnded
  <2>2. QED  BY <1>1, <2>1
<1>3. query' \in [Sends -> Query \cup {NoQuery}]
  BY DEF UpEnded
<1>4. known' \subseteq Sends /\ dead' \subseteq Sends
  BY SetsTyped DEF UpEnded, UpInv
<1>5. cur_uploading_bytes' = 0 /\ cur_uploaded_bytes' = 0
  BY DEF UpEnded
<1>6. UpCountersAddUp'
  <2>1. /\ \A t \in Sends : BegunSizes'[t] = 0 /\ SentSizes'[t] = 0
        /\ BegunSizes' \in [Sends -> Int] /\ SentSizes' \in [Sends -> Int]
    BY <1>1 DEF BegunSizes, SentSizes
  <2>2. SumFunction(BegunSizes') = 0 /\ SumFunction(SentSizes') = 0
    BY <2>1, SendsFinite, SumOfNothing
  <2>3. QED  BY <2>2, <1>5 DEF UpCountersAddUp, BegunSizes, SentSizes, Uploading, Uploaded
<1>7. QED  BY <1>1, <1>2, <1>3, <1>4, <1>5, <1>6 DEF FilesKept

(* What do_send_photo and the answers give to send_one_part.               *)
ReadyToSend(s, g, len) ==
  /\ g \in SendFile /\ g.state = "open" /\ Chose(g) /\ g.size + 1 <= LongestFile
  /\ len \in 0 .. g.size + 1 /\ g.offset = g.part_num * g.part_size
  /\ readable'[s] = len /\ s \notin done' /\ stored'[s] = stored[s]
  /\ s \notin messages' /\ s \notin known /\ ~(s > sends')
  /\ s \notin odd' => len = g.size /\ g.offset < g.size
  /\ \A p \in stored[s] :
       p.units = Full(g, p.n) /\ p.n < g.part_num /\ p.total = total(g)
  /\ Numbers(stored[s]) = 0 .. g.part_num - 1
  /\ thumbed(g.media_type, g.encr) => s \in thumbs'
  /\ Uploading(F[s]) = Uploading(g) /\ Uploaded(F[s]) = Uploaded(g)

SentOne(g, x, h, q) ==
  /\ h = [g EXCEPT !.offset = @ + Len(x), !.part_num = @ + 1,
                   !.state = IF AtEnd(g, x) THEN "closed" ELSE "open"]
  /\ q = [kind |-> "part",
          part |-> [n |-> g.part_num, units |-> Padded(g, x), total |-> total(g)]]

LEMMA PartGood ==
  ASSUME NEW s \in Sends, UpTypeOK, NEW g, NEW len, ReadyToSend(s, g, len),
         Asserted(g, read(g, len)), SentOne(g, read(g, len), F'[s], query'[s]),
         known' = known
  PROVE  /\ Good(s)' /\ F'[s] \in SendFile /\ query'[s] \in Query
         /\ Uploading(F'[s]) = Uploading(g) + (IF g.part_num = 0 THEN g.size ELSE 0)
         /\ Uploaded(F'[s]) = Uploaded(g) + Len(read(g, len))
<1> DEFINE x == read(g, len)
           h == F'[s]
           q == query'[s]
           n == g.part_num
           ps == g.part_size
           z == g.size
           o == g.offset
<1>1. /\ SendFields(g) /\ g # NoFile /\ g.state = "open" /\ Chose(g) /\ g \in SendFile
      /\ z + 1 <= LongestFile /\ len \in 0 .. z + 1 /\ o = n * ps
  BY SendFileIs DEF ReadyToSend
<1>2. /\ o \in Nat /\ n \in Nat /\ z \in Nat \ {0} /\ ManyParts \in Nat /\ LongestFile \in Nat
      /\ ps \in Nat \ {0}
  BY <1>1, UploadConstants, EnoughParts DEF SendFields
<1>3. /\ x \in Seq(0 .. LongestFile) /\ Len(x) \in Nat \ {0} /\ n <= ManyParts
      /\ AtEnd(g, x) => n * ps < z /\ z <= (n + 1) * ps /\ Padded(g, x) = Rest(g, n)
      /\ ~AtEnd(g, x) => o + Len(x) = (n + 1) * ps /\ Padded(g, x) = Full(g, n)
      /\ o + Len(x) <= len
  BY <1>1, OnePart DEF PartSent
<1>4. AtEnd(g, x) <=> o + Len(x) = z
  BY DEF AtEnd
<1> HIDE DEF x
<1>5. /\ h \in SendFile /\ h.offset = o + Len(x) /\ h.part_num = n + 1
      /\ h.state = IF AtEnd(g, x) THEN "closed" ELSE "open"
      /\ h.part_size = g.part_size /\ h.size = g.size /\ h.encr = g.encr
      /\ h.media_type = g.media_type
  <2> DEFINE st == IF AtEnd(g, x) THEN "closed" ELSE "open"
             oo == o + Len(x)
             nn == n + 1
  <2>1. oo \in 0 .. LongestFile /\ nn \in 0 .. ManyParts + 1 /\ st \in {"open", "closed", "freed"}
    <3> DEFINE k == Len(x)
    <3>1. k \in Nat /\ o + k <= len /\ len \in 0 .. z + 1 /\ n <= ManyParts
          /\ z + 1 <= LongestFile
      BY <1>1, <1>3
    <3> HIDE DEF o, n, z, k
    <3>2. o + k \in 0 .. LongestFile /\ n + 1 \in 0 .. ManyParts + 1
      BY ONLY <3>1, <1>2
    <3>3. QED  BY <3>2 DEF k
  <2>2. h = [g EXCEPT !.offset = oo, !.part_num = nn, !.state = st]
    BY DEF SentOne, x
  <2>3. g \in SendFile
    BY <1>1
  <2> HIDE DEF h, st, oo, nn
  <2>4. /\ h \in SendFile /\ h.offset = oo /\ h.part_num = nn /\ h.state = st
        /\ h.part_size = g.part_size /\ h.size = g.size /\ h.encr = g.encr
        /\ h.media_type = g.media_type
    BY ONLY <2>1, <2>2, <2>3 DEF SendFile
  <2>5. QED  BY <2>4 DEF st, oo, nn
<1>6. /\ q.kind = "part" /\ q.part.n = n /\ q.part.units = Padded(g, x)
      /\ q.part.total = total(g)
  BY DEF SentOne, x
<1>7. q \in Query
  <2>1. total(g) \in 0 .. ManyParts + 1
    BY <1>1, TotalIs
  <2>2. Padded(g, x) \in Seq(0 .. LongestFile)
    <3>1. g.encr \in BOOLEAN
      BY <1>1 DEF SendFields
    <3>2. QED  BY ONLY <3>1, <1>3, PaddedIs
  <2>3. n \in 0 .. ManyParts
    BY <1>2, <1>3
  <2>4. [n |-> g.part_num, units |-> Padded(g, x), total |-> total(g)] \in FilePart
    BY <2>1, <2>2, <2>3 DEF FilePart
  <2>5. QED  BY <2>4 DEF Query, SentOne, x
<1> HIDE DEF h, q
<1>8. SendFields(h) /\ h # NoFile /\ Chose(h)
  BY <1>1, <1>5, SendFileIs DEF Chose
<1>9. /\ \A m : Full(h, m) = Full(g, m) /\ Rest(h, m) = Rest(g, m)
      /\ total(h) = total(g)
  BY ONLY <1>5, SameParts
<1>10. PartsOf(s)' = stored[s] \cup {q.part}
  <2>1. stored'[s] = stored[s]
    BY DEF ReadyToSend
  <2>2. QED  BY <2>1, <1>6 DEF PartsOf, q
<1>11. \A p \in stored[s] : /\ p.units = Full(g, p.n) /\ p.n < n /\ p.total = total(g)
                            /\ p.n \in Nat
  <2>1. \A p \in stored[s] : p.n \in Numbers(stored[s])
    BY DEF Numbers
  <2>2. QED  BY <2>1, <1>2 DEF ReadyToSend
<1>12. FitsFile(s)'
  <2>1. /\ h.size + 1 <= LongestFile /\ readable'[s] \in 0 .. h.size + 1
        /\ h.offset <= h.size + 1
    BY <1>1, <1>2, <1>3, <1>5 DEF ReadyToSend
  <2>2. QED  BY <2>1, <1>8 DEF FitsFile, h
<1>13. MessageAt(s)'
  <2>1. q.kind \notin {"media", "encrypted_file"} /\ q # NoQuery
    BY <1>6 DEF NoQuery
  <2>2. s \notin messages' /\ s \notin known'
    BY DEF ReadyToSend
  <2>3. QED  BY <2>1, <2>2 DEF MessageAt, MessageOut, q
<1>14. GoingOn(s)'
  <2>1. \A p \in PartsOf(s)' : p.n < h.part_num /\ p.total = total(h)
    <3>1. ASSUME NEW p \in stored[s] PROVE p.n < n + 1
      BY <1>2, <1>11
    <3>2. q.part.n < n + 1
      BY <1>2, <1>6
    <3>3. QED  BY <3>1, <3>2, <1>5, <1>6, <1>9, <1>10, <1>11
  <2>2. q.part.n = h.part_num - 1
    BY <1>2, <1>5, <1>6
  <2>3. Numbers(stored'[s]) = 0 .. h.part_num - 2
    <3>1. Numbers(stored'[s]) = 0 .. n - 1
      BY DEF ReadyToSend
    <3>2. h.part_num - 2 = n - 1
      BY <1>2, <1>5
    <3>3. QED  BY <3>1, <3>2
  <2>4. ThumbThere(s)'
    <3>1. thumbed(g.media_type, g.encr) => s \in thumbs'
      BY DEF ReadyToSend
    <3>2. QED  BY <3>1, <1>5 DEF ThumbThere, h
  <2>5. s \notin messages' /\ s \notin done'
    BY DEF ReadyToSend
  <2>6. QED  BY <2>1, <2>2, <2>3, <2>4, <2>5 DEF GoingOn, h, q
<1>15. ASSUME AtEnd(g, x) PROVE ClosedAt(s)' /\ h.state = "closed"
  <2>1. h.offset = h.size /\ h.part_num > 0 /\ h.part_num - 1 = n
    BY <1>2, <1>4, <1>5, <1>15
  <2>2. (h.part_num - 1) * h.part_size < h.size /\ h.size <= h.part_num * h.part_size
    BY <2>1, <1>3, <1>5, <1>15
  <2>3. ASSUME NEW p \in PartsOf(s)'
        PROVE  p.units = IF p.n < n THEN Full(h, p.n) ELSE Rest(h, n)
    <3>1. CASE p \in stored[s]
      BY <3>1, <1>9, <1>11
    <3>2. CASE p = q.part
      <4>1. ~(p.n < n)
        BY <3>2, <1>2, <1>6
      <4>2. QED  BY <4>1, <3>2, <1>3, <1>6, <1>9, <1>15
    <3>3. QED  BY <3>1, <3>2, <2>3, <1>10
  <2>4. q.kind \in {"none", "part"} /\ h.state = "closed"
    BY <1>5, <1>6, <1>15
  <2>5. QED  BY <2>1, <2>2, <2>3, <2>4 DEF ClosedAt, h, q
<1>16. ASSUME ~AtEnd(g, x) PROVE OpenAt(s)' /\ h.state = "open"
  <2>1. h.offset = h.part_num * h.part_size /\ h.part_num # 0
    BY <1>2, <1>3, <1>5, <1>16
  <2>2. s \notin odd' => readable'[s] = h.size /\ h.offset < h.size
    <3>1. SUFFICES ASSUME s \notin odd' PROVE readable'[s] = h.size /\ h.offset < h.size
      OBVIOUS
    <3>2. len = z /\ readable'[s] = len
      BY <3>1 DEF ReadyToSend
    <3>3. h.offset = o + Len(x) /\ h.size = z /\ o + Len(x) <= len /\ o + Len(x) # z
      BY <1>3, <1>4, <1>5, <1>16
    <3>4. o + Len(x) \in Nat /\ z \in Nat
      BY <1>2, <1>3
    <3>5. QED  BY <3>2, <3>3, <3>4
  <2>3. ASSUME NEW p \in PartsOf(s)' PROVE p.units = Full(h, p.n)
    <3>1. CASE p \in stored[s]
      BY <3>1, <1>9, <1>11
    <3>2. CASE p = q.part
      BY <3>2, <1>3, <1>6, <1>9, <1>16
    <3>3. QED  BY <3>1, <3>2, <2>3, <1>10
  <2>4. q.kind \in {"none", "part"} /\ h.state = "open"
    BY <1>5, <1>6, <1>16
  <2>5. QED  BY <2>1, <2>2, <2>3, <2>4 DEF OpenAt, h, q
<1>17. Good(s)'
  <2>1. ~(s > sends') /\ h.state # "freed"
    BY <1>15, <1>16 DEF ReadyToSend
  <2>2. h.state = "open" => ~AtEnd(g, x)
    BY <1>15
  <2>3. h.state = "closed" => AtEnd(g, x)
    BY <1>16
  <2>4. QED  BY <2>1, <2>2, <2>3, <1>8, <1>12, <1>13, <1>14, <1>15, <1>16 DEF Good, h
<1>18. Uploading(h) = Uploading(g) + (IF n = 0 THEN z ELSE 0)
  <2>1. h.state \in {"open", "closed"} /\ h.part_num > 0 /\ h.size = z
    BY <1>2, <1>5
  <2>2. Uploading(h) = z
    BY <2>1 DEF Uploading
  <2>3. Uploading(g) = IF n > 0 THEN z ELSE 0
    BY <1>1 DEF Uploading
  <2>4. QED  BY <2>2, <2>3, <1>2
<1>19. Uploaded(h) = Uploaded(g) + Len(x)
  BY <1>1, <1>5 DEF Uploaded
<1>20. QED  BY <1>5, <1>7, <1>17, <1>18, <1>19 DEF h, q, x

(* send_one_part: a part is sent, or an assertion fails.                   *)
LEMMA PartKeepsFiles ==
  ASSUME UpInv, NEW s \in Sends, NEW g, NEW len, ReadyToSend(s, g, len),
         send_one_part(s, g, len), stored' = stored, thumbs' = thumbs, messages' = messages,
         odd \subseteq odd',
         \A t \in Sends : /\ t > sends' => t > sends
                          /\ t \in done' => t \in done
                          /\ F[t] # NoFile => readable'[t] = readable[t]
                          /\ t # s => /\ t \in done' <=> t \in done
                                      /\ readable'[t] = readable[t]
                                      /\ t \in odd' <=> t \in odd
  PROVE  FilesKept
<1> DEFINE x == read(g, len)
<1>0. UpTypeOK /\ aborted \subseteq odd'
  BY DEF UpInv, AbortsAreOdd
<1>1. CASE ~Asserted(g, x)
  <2>1. UpEnded /\ aborted' = aborted \cup {s}
    BY <1>1 DEF send_one_part
  <2>2. s \in odd'
    <3>1. SUFFICES ASSUME s \notin odd' PROVE FALSE
      OBVIOUS
    <3>2. len = g.size /\ g.offset < g.size /\ Chose(g) /\ g.size + 1 <= LongestFile
      BY <3>1 DEF ReadyToSend
    <3>3. SendFields(g)
      BY SendFileIs DEF ReadyToSend
    <3>4. QED  BY <3>2, <3>3, <1>1, AssertedOf
  <2>3. aborted' \subseteq odd'
    BY <2>1, <2>2, <1>0
  <2>4. QED  BY <2>1, <2>3, EndedKeepsFiles
<1>2. CASE Asserted(g, x)
  <2> DEFINE h == [g EXCEPT !.offset = @ + Len(x), !.part_num = @ + 1,
                            !.state = IF AtEnd(g, x) THEN "closed" ELSE "open"]
             q == [kind |-> "part",
                   part |-> [n |-> g.part_num, units |-> Padded(g, x), total |-> total(g)]]
  <2>1. /\ F' = [F EXCEPT ![s] = h] /\ query' = [query EXCEPT ![s] = q]
        /\ cur_uploading_bytes' =
             cur_uploading_bytes + IF g.part_num = 0 THEN g.size ELSE 0
        /\ cur_uploaded_bytes' = cur_uploaded_bytes + Len(x)
        /\ known' = known /\ aborted' = aborted /\ dead' = dead
    BY <1>2 DEF send_one_part
  <2>2. /\ F \in [Sends -> SendFile \cup {NoFile}] /\ query \in [Sends -> Query \cup {NoQuery}]
        /\ known \subseteq Sends /\ dead \subseteq Sends
        /\ cur_uploading_bytes \in Nat /\ cur_uploaded_bytes \in Nat
    BY <1>0, SetsTyped
  <2> HIDE DEF h, q
  <2>3. F'[s] = h /\ query'[s] = q
    BY <2>1, <2>2
  <2>4. /\ Good(s)' /\ F'[s] \in SendFile /\ query'[s] \in Query
        /\ Uploading(F'[s]) = Uploading(g) + (IF g.part_num = 0 THEN g.size ELSE 0)
        /\ Uploaded(F'[s]) = Uploaded(g) + Len(x)
    <3>1. SentOne(g, x, F'[s], query'[s])
      BY <2>3 DEF SentOne, h, q
    <3>2. known' = known /\ UpTypeOK
      BY <1>0, <2>1
    <3>3. QED  BY <3>1, <3>2, <1>2, PartGood
  <2>5. \A t \in Sends : t # s => Same(t)
    BY <2>1, <2>2 DEF Same
  <2>6. \A t \in Sends : Good(t)'
    BY <2>4, <2>5, AllGood
  <2>7. /\ Uploading(F[s]) = Uploading(g) /\ Uploaded(F[s]) = Uploaded(g) /\ g \in SendFile
        /\ g.state = "open"
    BY DEF ReadyToSend
  <2>8. UpCountersAddUp' /\ {cur_uploading_bytes', cur_uploaded_bytes'} \subseteq Nat
    <3>1. /\ Uploading(g) \in Int /\ Uploaded(g) \in Int
      <4>1. g.size \in Nat /\ g.offset \in Nat
        BY <2>7, SendFileIs DEF SendFields
      <4>2. QED  BY <4>1 DEF Uploading, Uploaded
    <3>2. cur_uploading_bytes' = cur_uploading_bytes - Uploading(F[s]) + Uploading(h)
      <4>1. Uploading(h) = Uploading(g) + (IF g.part_num = 0 THEN g.size ELSE 0)
        BY <2>3, <2>4
      <4>2. (IF g.part_num = 0 THEN g.size ELSE 0) \in Nat
        BY <2>7, SendFileIs DEF SendFields
      <4>3. QED  BY <4>1, <4>2, <3>1, <2>1, <2>2, <2>7
    <3>3. cur_uploaded_bytes' = cur_uploaded_bytes - Uploaded(F[s]) + Uploaded(h)
      <4>1. Uploaded(h) = Uploaded(g) + Len(x)
        BY <2>3, <2>4
      <4>2. Len(x) \in Int
        <5>1. SendFields(g) /\ Chose(g) /\ g.size + 1 <= LongestFile /\ len \in 0 .. g.size + 1
          BY SendFileIs DEF ReadyToSend
        <5>2. g.offset = g.part_num * g.part_size
          BY DEF ReadyToSend
        <5>3. QED  BY <5>1, <5>2, <1>2, OnePart DEF PartSent
      <4>3. QED  BY <4>1, <4>2, <3>1, <2>1, <2>2, <2>7
    <3>4. h \in SendFile \cup {NoFile}
      BY <2>3, <2>4
    <3>5. QED  BY <3>2, <3>3, <3>4, <2>1, OneCounted
  <2>9. F' \in [Sends -> SendFile \cup {NoFile}] /\ query' \in [Sends -> Query \cup {NoQuery}]
    BY <2>1, <2>2, <2>3, <2>4
  <2>10. QED  BY <2>1, <2>2, <2>6, <2>8, <2>9, <1>0 DEF FilesKept
<1>3. QED  BY <1>1, <1>2

(* send_message: the last part was answered.                               *)
LEMMA MessageKeepsFiles ==
  ASSUME UpInv, NEW s \in Sends, F[s].state = "closed", query[s].kind = "part", s \in done,
         done' = done \ {s}, send_message(s, F[s]), stored' = stored, thumbs' = thumbs,
         messages' = messages, readable' = readable, sends' = sends, odd' = odd
  PROVE  FilesKept
<1> DEFINE g == F[s]
           h == [g EXCEPT !.state = "freed"]
           q == [kind |-> IF g.encr THEN "encrypted_file" ELSE "media"]
<1>1. /\ g \in SendFile /\ ClosedAt(s) /\ GoingOn(s) /\ FitsFile(s) /\ MessageAt(s)
      /\ g # NoFile /\ stored[s] \in SUBSET FilePart /\ (s > sends => F[s] = NoFile)
  <2>1. Good(s) /\ F[s] # NoFile /\ F[s] \in SendFile /\ stored[s] \in SUBSET FilePart
    BY SendIs
  <2>2. QED  BY <2>1 DEF Good
<1>2. /\ F' = [F EXCEPT ![s] = h] /\ query' = [query EXCEPT ![s] = q]
      /\ known' = known /\ aborted' = aborted /\ dead' = dead
      /\ cur_uploading_bytes' = cur_uploading_bytes - g.size
      /\ cur_uploaded_bytes' = cur_uploaded_bytes - g.size
  BY DEF send_message, out_message
<1>3. /\ F \in [Sends -> SendFile \cup {NoFile}] /\ query \in [Sends -> Query \cup {NoQuery}]
      /\ known \subseteq Sends /\ dead \subseteq Sends /\ aborted \subseteq odd
      /\ cur_uploading_bytes \in Nat /\ cur_uploaded_bytes \in Nat
  BY SetsTyped DEF UpInv, AbortsAreOdd
<1>4. /\ h \in SendFile /\ h.state = "freed" /\ h.offset = g.offset
      /\ h.part_num = g.part_num /\ h.part_size = g.part_size /\ h.size = g.size
      /\ h.encr = g.encr /\ h.media_type = g.media_type
  <2> HIDE DEF g
  <2>1. QED  BY <1>1, FreedIs
<1>5. /\ q.kind \in {"media", "encrypted_file"} /\ q \in Query /\ q # NoQuery
  BY DEF Query, NoQuery
<1>6. WholeIn(g, stored[s]) /\ ThumbThere(s) /\ s \notin messages /\ s \notin known
  <2>1. /\ SendFields(g) /\ Chose(g) /\ g.size + 1 <= LongestFile
    BY <1>1 DEF FitsFile
  <2>2. /\ g.part_num > 0 /\ (g.part_num - 1) * g.part_size < g.size
        /\ g.size <= g.part_num * g.part_size
    BY <1>1 DEF ClosedAt
  <2>3. /\ Numbers(stored[s]) = 0 .. g.part_num - 1 /\ s \notin messages /\ ThumbThere(s)
    BY <1>1, <2>2 DEF GoingOn
  <2>4. \A p \in stored[s] :
          /\ p.units = IF p.n < g.part_num - 1 THEN Full(g, p.n) ELSE Rest(g, g.part_num - 1)
          /\ p.total = total(g)
    <3>1. stored[s] \subseteq PartsOf(s)
      BY DEF PartsOf
    <3>2. QED  BY <3>1, <1>1 DEF ClosedAt, GoingOn
  <2>5. WholeIn(g, stored[s])
    <3> HIDE DEF g
    <3>1. QED  BY ONLY <1>1, <2>1, <2>2, <2>3, <2>4, AllParts
  <2>6. s \notin known
    BY <1>1, <2>3 DEF MessageAt
  <2>7. QED  BY <2>3, <2>5, <2>6
<1> HIDE DEF h, q
<1>7. F'[s] = h /\ query'[s] = q
  BY <1>2, <1>3
<1>8. SendFields(h) /\ Chose(h) /\ h # NoFile
  <2>1. Chose(g)
    BY <1>1 DEF FitsFile
  <2> HIDE DEF g
  <2>2. QED  BY ONLY <2>1, <1>1, <1>4, SameSend
<1>9. Good(s)'
  <2>1. FitsFile(s)'
    <3>1. /\ g.size + 1 <= LongestFile /\ readable[s] \in 0 .. g.size + 1
          /\ g.offset <= g.size + 1
      BY <1>1 DEF FitsFile
    <3>2. /\ h.size + 1 <= LongestFile /\ readable'[s] \in 0 .. h.size + 1
          /\ h.offset <= h.size + 1
      BY <3>1, <1>4
    <3>3. QED  BY <3>2, <1>7, <1>8 DEF FitsFile
  <2>2. MessageAt(s)'
    <3>1. WholeIn(h, stored[s])
      <4> HIDE DEF g
      <4>1. QED  BY ONLY <1>4, <1>6, SameWhole
    <3>2. ThumbThere(s)'
      BY <1>4, <1>6, <1>7 DEF ThumbThere
    <3>3. s \notin messages' /\ s \notin known' /\ s \notin done'
      BY <1>2, <1>6
    <3>4. QED  BY <3>1, <3>2, <3>3, <1>5, <1>7 DEF MessageAt
  <2>3. F'[s].state = "freed" /\ F'[s] # NoFile /\ ~(s > sends')
    BY <1>1, <1>4, <1>7, <1>8
  <2>4. QED  BY <2>1, <2>2, <2>3, <1>5, <1>7 DEF Good
<1>10. \A t \in Sends : t # s => Same(t)
  BY <1>2, <1>3 DEF Same
<1>11. \A t \in Sends : Good(t)'
  BY <1>9, <1>10, AllGood
<1>12. UpCountersAddUp' /\ {cur_uploading_bytes', cur_uploaded_bytes'} \subseteq Nat
  <2>1. Uploading(F[s]) = g.size /\ Uploaded(F[s]) = g.size /\ Uploading(h) = 0 /\ Uploaded(h) = 0
    BY <1>1, <1>4 DEF Uploading, Uploaded, ClosedAt
  <2>2. g.size \in Nat
    BY <1>1 DEF FitsFile, SendFields
  <2>3. /\ cur_uploading_bytes' = cur_uploading_bytes - Uploading(F[s]) + Uploading(h)
        /\ cur_uploaded_bytes' = cur_uploaded_bytes - Uploaded(F[s]) + Uploaded(h)
    <3> HIDE DEF g
    <3>1. QED  BY <2>1, <2>2, <1>2, <1>3
  <2>4. QED  BY <2>3, <1>2, <1>4, OneCounted
<1>13. F' \in [Sends -> SendFile \cup {NoFile}] /\ query' \in [Sends -> Query \cup {NoQuery}]
  BY <1>2, <1>3, <1>4, <1>5
<1>14. QED  BY <1>2, <1>3, <1>11, <1>12, <1>13 DEF FilesKept

(* An open upload is ready for its next part when the answer has come.     *)
LEMMA OpenIsReady ==
  ASSUME UpInv, NEW s \in Sends, F[s].state = "open", s \in done, done' = done \ {s},
         query[s].kind \in {"thumb", "part"}, stored' = stored, thumbs' = thumbs,
         messages' = messages, readable' = readable, sends' = sends, odd' = odd
  PROVE  ReadyToSend(s, F[s], readable[s])
<1> DEFINE g == F[s]
<1>1. /\ g \in SendFile /\ OpenAt(s) /\ GoingOn(s) /\ FitsFile(s) /\ MessageAt(s)
      /\ g # NoFile /\ stored[s] \in SUBSET FilePart /\ (s > sends => F[s] = NoFile)
  <2>1. Good(s) /\ F[s] # NoFile /\ F[s] \in SendFile /\ stored[s] \in SUBSET FilePart
    BY SendIs
  <2>2. QED  BY <2>1 DEF Good
<1>2. /\ Chose(g) /\ g.size + 1 <= LongestFile /\ readable[s] \in 0 .. g.size + 1
      /\ g.part_num \in Nat
  BY <1>1 DEF FitsFile, SendFields
<1>3. s \notin messages /\ s \notin known
  BY <1>1 DEF GoingOn, MessageAt
<1>4. \A p \in stored[s] :
        p.units = Full(g, p.n) /\ p.n < g.part_num /\ p.total = total(g)
  BY <1>1 DEF OpenAt, GoingOn, PartsOf
<1>5. CASE query[s].kind = "part"
  <2>1. g.part_num # 0
    BY <1>1, <1>5 DEF OpenAt
  <2>2. Numbers(stored[s]) = 0 .. g.part_num - 1 /\ ThumbThere(s)
    BY <2>1, <1>1, <1>2, <1>5 DEF GoingOn
  <2>3. QED  BY <2>2, <1>1, <1>2, <1>3, <1>4 DEF ReadyToSend, OpenAt, ThumbThere
<1>6. CASE query[s].kind = "thumb"
  <2>1. g.part_num = 0 /\ stored[s] = {}
    BY <1>1, <1>6 DEF OpenAt
  <2>2. Numbers(stored[s]) = 0 .. g.part_num - 1
    BY <2>1 DEF Numbers
  <2>3. ThumbThere(s)
    BY <1>1, <1>6 DEF GoingOn
  <2>4. QED  BY <2>2, <2>3, <1>1, <1>2, <1>3, <1>4 DEF ReadyToSend, OpenAt, ThumbThere
<1>7. QED  BY <1>5, <1>6

LEMMA PartAnswerKeeps ==
  ASSUME UpInv, NEW s \in Sends, send_file_part_on_answer(s)
  PROVE  UpInv'
<1>1. /\ s \in done /\ query[s].kind \in {"thumb", "part"} /\ done' = done \ {s}
      /\ send_part(s, F[s], readable[s])
      /\ sends' = sends /\ readable' = readable /\ stored' = stored /\ thumbs' = thumbs
      /\ messages' = messages /\ up_faults' = up_faults /\ odd' = odd
  BY DEF send_file_part_on_answer, Answered
<1>2. OthersKept
  BY <1>1, SetsTyped DEF OthersKept, UpInv
<1>3. Good(s) /\ F[s].state \in {"none", "open", "closed", "freed"}
      /\ (F[s].state = "none" <=> F[s] = NoFile)
  BY SendIs
<1>4. F[s].state \in {"open", "closed"}
  <2>1. CASE F[s] = NoFile
    BY <2>1, <1>1, <1>3 DEF Good, NotBegun, NoQuery
  <2>2. CASE F[s].state = "freed"
    BY <2>2, <1>1, <1>3 DEF Good
  <2>3. QED  BY <2>1, <2>2, <1>3
<1>5. CASE F[s].state = "open"
  <2>1. send_one_part(s, F[s], readable[s])
    BY <1>1, <1>5 DEF send_part
  <2>2. ReadyToSend(s, F[s], readable[s])
    BY <1>1, <1>5, OpenIsReady
  <2>3. FilesKept
    BY <1>1, <2>1, <2>2, PartKeepsFiles
  <2>4. QED  BY <2>3, <1>2, AllKept
<1>6. CASE F[s].state = "closed"
  <2>1. send_message(s, F[s])
    BY <1>1, <1>6 DEF send_part
  <2>2. query[s].kind = "part"
    BY <1>1, <1>3, <1>6 DEF Good, ClosedAt
  <2>3. FilesKept
    BY <1>1, <1>6, <2>1, <2>2, MessageKeepsFiles
  <2>4. QED  BY <2>3, <1>2, AllKept
<1>7. QED  BY <1>4, <1>5, <1>6

(* The steps that leave every struct as it is.                             *)
LEMMA StructsStay ==
  ASSUME UpInv, NEW s \in Sends, Good(s)', \A t \in Sends : t # s => Same(t),
         F' = F, cur_uploading_bytes' = cur_uploading_bytes,
         cur_uploaded_bytes' = cur_uploaded_bytes,
         query' \in [Sends -> Query \cup {NoQuery}], known' \subseteq Sends,
         dead' \subseteq Sends, aborted' = aborted, odd \subseteq odd'
  PROVE  FilesKept
<1>1. F \in [Sends -> SendFile \cup {NoFile}] /\ aborted \subseteq odd
  BY SetsTyped DEF UpInv, AbortsAreOdd
<1>2. \A t \in Sends : Good(t)'
  BY AllGood
<1>3. UpCountersAddUp' /\ {cur_uploading_bytes', cur_uploaded_bytes'} \subseteq Nat
  BY NoneCounted
<1>4. QED  BY <1>1, <1>2, <1>3 DEF FilesKept

(* What Good says of a struct that is there.                               *)
LEMMA BegunIs ==
  ASSUME UpInv, NEW s \in Sends, query[s] # NoQuery \/ F[s].state = "open"
  PROVE  /\ F[s] # NoFile /\ F[s] \in SendFile /\ ~(s > sends) /\ FitsFile(s) /\ MessageAt(s)
         /\ F[s].state = "open" => OpenAt(s) /\ GoingOn(s)
         /\ F[s].state = "closed" => ClosedAt(s) /\ GoingOn(s)
         /\ F[s].state = "freed" => query[s].kind \in {"media", "encrypted_file", "none"}
         /\ F[s].state \in {"open", "closed", "freed"}
         /\ query[s].kind \in {"none", "thumb", "media", "encrypted_file", "part"}
         /\ query[s].kind = "none" <=> query[s] = NoQuery
<1>1. /\ Good(s) /\ F[s] \in SendFile \cup {NoFile} /\ (F[s].state = "none" <=> F[s] = NoFile)
      /\ F[s].state \in {"none", "open", "closed", "freed"}
      /\ query[s] \in Query \cup {NoQuery}
  BY SendIs
<1>2. F[s] # NoFile
  BY <1>1 DEF Good, NotBegun
<1>3. /\ query[s].kind \in {"none", "thumb", "media", "encrypted_file", "part"}
      /\ query[s].kind = "none" <=> query[s] = NoQuery
  BY <1>1, QueryIs
<1>4. QED  BY <1>1, <1>2, <1>3 DEF Good

LEMMA CarryOutKeeps == ASSUME UpInv, NEW s \in Sends, carry_out(s) PROVE UpInv'
<1> DEFINE kind == query[s].kind
           p == query[s].part
<1>1. /\ query[s] # NoQuery /\ s \notin done /\ done' = done \cup {s}
      /\ thumbs' = IF kind = "thumb" THEN thumbs \cup {s} ELSE thumbs
      /\ stored' = IF kind = "part" THEN [stored EXCEPT ![s] = @ \cup {p}] ELSE stored
      /\ messages' = IF kind \in {"media", "encrypted_file"} THEN messages \cup {s}
                     ELSE messages
      /\ sends' = sends /\ F' = F /\ query' = query /\ readable' = readable
      /\ cur_uploading_bytes' = cur_uploading_bytes
      /\ cur_uploaded_bytes' = cur_uploaded_bytes
      /\ known' = known /\ up_faults' = up_faults /\ odd' = odd /\ aborted' = aborted
      /\ dead' = dead
  BY DEF carry_out, client
<1>2. /\ F[s] # NoFile /\ ~(s > sends) /\ FitsFile(s) /\ MessageAt(s) /\ F[s] \in SendFile
      /\ F[s].state = "open" => OpenAt(s) /\ GoingOn(s)
      /\ F[s].state = "closed" => ClosedAt(s) /\ GoingOn(s)
      /\ F[s].state = "freed" => kind \in {"media", "encrypted_file", "none"}
      /\ F[s].state \in {"open", "closed", "freed"}
      /\ kind \in {"none", "thumb", "media", "encrypted_file", "part"}
      /\ kind # "none"
  BY <1>1, BegunIs
<1>3. UpTypeOK /\ query[s] \in Query \cup {NoQuery} /\ stored[s] \in SUBSET FilePart
  BY SendIs DEF UpInv
<1>4. kind = "part" => p \in FilePart
  BY <1>3, QueryIs
<1>5. stored'[s] = stored[s] \cup IF kind = "part" THEN {p} ELSE {}
  BY <1>1, <1>3, SetsTyped
<1>6. PartsOf(s)' = PartsOf(s)
  BY <1>1, <1>5 DEF PartsOf
<1>7. OthersKept
  <2>1. stored' \in [Sends -> SUBSET FilePart]
    BY <1>1, <1>3, <1>4, SetsTyped
  <2>2. done' \subseteq Sends /\ thumbs' \subseteq Sends /\ messages' \subseteq Sends
    BY <1>1, <1>3, SetsTyped
  <2>3. QED  BY <2>1, <2>2, <1>1, <1>3, SetsTyped DEF OthersKept
<1>8. ThumbThere(s) => ThumbThere(s)'
  BY <1>1 DEF ThumbThere
<1>9. FitsFile(s)'
  BY <1>1, <1>2 DEF FitsFile
<1>10. MessageAt(s)'
  <2>1. kind \in {"media", "encrypted_file"} => (s \in messages' /\ s \in done')
    BY <1>1
  <2>2. query'[s] # NoQuery /\ (s \in known' => s \in messages')
    BY <1>1, <1>2 DEF MessageAt
  <2>3. MessageOut(s)' => MessageOut(s)
    BY <1>1 DEF MessageOut
  <2>4. MessageOut(s) => kind # "part"
    BY <1>2 DEF GoingOn, MessageOut
  <2>5. MessageOut(s)' => WholeIn(F[s], stored'[s]) /\ ThumbThere(s)'
    BY <2>3, <2>4, <1>2, <1>5, <1>8 DEF MessageAt
  <2>6. QED  BY <2>1, <2>2, <2>5, <1>1 DEF MessageAt
<1>11. OpenAt(s) /\ GoingOn(s) => OpenAt(s)'
  <2>1. SUFFICES ASSUME OpenAt(s), GoingOn(s) PROVE OpenAt(s)'
    OBVIOUS
  <2>2. F[s].part_num = 0 => kind # "part"
    BY <2>1 DEF OpenAt
  <2>3. F'[s].part_num = 0 => query'[s].kind \in {"none", "thumb"} /\ stored'[s] = {}
    BY <2>1, <2>2, <1>1, <1>5 DEF OpenAt
  <2>4. QED  BY <2>1, <2>3, <1>1, <1>6 DEF OpenAt
<1>12. ClosedAt(s) => ClosedAt(s)'
  BY <1>1, <1>6 DEF ClosedAt
<1>13. GoingOn(s) /\ kind \in {"thumb", "part"} => GoingOn(s)'
  <2>1. SUFFICES ASSUME GoingOn(s), kind \in {"thumb", "part"} PROVE GoingOn(s)'
    OBVIOUS
  <2>2. s \notin messages' /\ s \in done'
    BY <2>1, <1>1 DEF GoingOn
  <2>3. ASSUME kind = "part" PROVE Numbers(stored'[s]) = 0 .. F[s].part_num - 1
    <3>1. Numbers(stored[s]) = 0 .. F[s].part_num - 2 /\ p.n = F[s].part_num - 1
      BY <2>1, <2>3, <1>1 DEF GoingOn
    <3>2. Numbers(stored'[s]) = Numbers(stored[s]) \cup {p.n}
      BY <1>5, <2>3 DEF Numbers
    <3>3. p.n \in Nat /\ F[s].part_num \in Nat
      <4>1. F[s].part_num \in Nat
        BY <1>2 DEF FitsFile, SendFields
      <4>2. p.n \in Nat
        BY <1>4, <2>3 DEF FilePart
      <4>3. QED  BY <4>1, <4>2
    <3>4. QED  BY <3>1, <3>2, <3>3
  <2>4. ThumbThere(s)' \/ ~(F[s].part_num > 0 \/ kind = "thumb")
    <3>1. kind = "thumb" => ThumbThere(s)'
      BY <1>1 DEF ThumbThere
    <3>2. F[s].part_num > 0 => ThumbThere(s)'
      BY <2>1, <1>8 DEF GoingOn
    <3>3. QED  BY <3>1, <3>2
  <2>5. \A r \in PartsOf(s)' : r.n < F[s].part_num /\ r.total = total(F[s])
    BY <2>1, <1>6 DEF GoingOn
  <2>6. kind = "part" => p.n = F[s].part_num - 1
    BY <2>1 DEF GoingOn
  <2>7. F'[s] = F[s] /\ query'[s] = query[s]
    BY <1>1
  <2>8. QED  BY <2>2, <2>3, <2>4, <2>5, <2>6, <2>7 DEF GoingOn
<1>14. Good(s)'
  <2>1. F[s].state = "open" => OpenAt(s)' /\ GoingOn(s)'
    BY <1>2, <1>11, <1>13 DEF OpenAt
  <2>2. F[s].state = "closed" => ClosedAt(s)' /\ GoingOn(s)'
    BY <1>2, <1>12, <1>13 DEF ClosedAt
  <2>3. F'[s] = F[s] /\ query'[s] = query[s] /\ sends' = sends
    BY <1>1
  <2>4. QED  BY <2>1, <2>2, <2>3, <1>2, <1>9, <1>10 DEF Good
<1>15. \A t \in Sends : t # s => Same(t)
  BY <1>1, <1>3, SetsTyped DEF Same
<1>16. FilesKept
  <2>1. query' \in [Sends -> Query \cup {NoQuery}] /\ known' \subseteq Sends /\ dead' \subseteq Sends
    BY <1>1, <1>3, SetsTyped
  <2>2. QED  BY <2>1, <1>1, <1>14, <1>15, StructsStay
<1>17. QED  BY <1>7, <1>16, AllKept

(* No query any more, and nothing new sent: the upload stands still.       *)
LEMMA NoQueryStays ==
  ASSUME UpInv, NEW s \in Sends, query[s] # NoQuery, query'[s] = NoQuery, F' = F,
         sends' = sends, readable' = readable, stored' = stored, thumbs' = thumbs,
         messages' = messages, odd' = odd,
         s \in known' => s \in messages, s \in messages => s \in known'
  PROVE  Good(s)'
<1>1. /\ F[s] # NoFile /\ F[s] \in SendFile /\ ~(s > sends) /\ FitsFile(s) /\ MessageAt(s)
      /\ F[s].state = "open" => OpenAt(s) /\ GoingOn(s)
      /\ F[s].state = "closed" => ClosedAt(s) /\ GoingOn(s)
  BY BegunIs
<1>2. query'[s].kind = "none" /\ PartsOf(s)' \subseteq PartsOf(s)
  BY DEF NoQuery, PartsOf
<1>3. FitsFile(s)'
  BY <1>1 DEF FitsFile
<1>4. MessageAt(s)'
  BY <1>1, <1>2 DEF MessageAt, MessageOut, ThumbThere
<1>5. OpenAt(s) => OpenAt(s)'
  BY <1>2 DEF OpenAt
<1>6. ClosedAt(s) => ClosedAt(s)'
  BY <1>2 DEF ClosedAt
<1>7. GoingOn(s) => GoingOn(s)'
  BY <1>2 DEF GoingOn, ThumbThere
<1>8. QED  BY <1>1, <1>2, <1>3, <1>4, <1>5, <1>6, <1>7 DEF Good

LEMMA FileAnswerKeeps ==
  ASSUME UpInv, NEW s \in Sends, send_file_on_answer(s)
  PROVE  UpInv'
<1>1. /\ s \in done /\ query[s].kind \in {"media", "encrypted_file"} /\ done' = done \ {s}
      /\ query' = [query EXCEPT ![s] = NoQuery] /\ known' = known \cup {s}
      /\ sends' = sends /\ F' = F /\ readable' = readable /\ stored' = stored
      /\ thumbs' = thumbs /\ messages' = messages
      /\ cur_uploading_bytes' = cur_uploading_bytes
      /\ cur_uploaded_bytes' = cur_uploaded_bytes /\ up_faults' = up_faults /\ odd' = odd
      /\ aborted' = aborted /\ dead' = dead
  BY DEF send_file_on_answer, Answered
<1>2. UpTypeOK /\ query[s] # NoQuery
  BY <1>1 DEF UpInv, NoQuery
<1>3. s \in messages
  BY <1>1, <1>2, BegunIs DEF MessageAt
<1>4. query'[s] = NoQuery /\ query' \in [Sends -> Query \cup {NoQuery}]
  BY <1>1, <1>2, SetsTyped
<1>5. Good(s)'
  BY <1>1, <1>2, <1>3, <1>4, NoQueryStays
<1>6. \A t \in Sends : t # s => Same(t)
  BY <1>1, <1>2, SetsTyped DEF Same
<1>7. known' \subseteq Sends /\ dead' \subseteq Sends
  BY <1>1, <1>2, SetsTyped
<1>8. FilesKept
  BY <1>1, <1>4, <1>5, <1>6, <1>7, StructsStay
<1>9. OthersKept
  BY <1>1, <1>2, SetsTyped DEF OthersKept
<1>10. QED  BY <1>8, <1>9, AllKept

LEMMA UpFaultIs == ASSUME UpInv, UpFault PROVE up_faults' \in 0 .. MaxUpFaults
BY UploadConstants, SetsTyped DEF UpInv, UpFault

LEMMA UpRefusedKeeps == ASSUME UpInv, NEW s \in Sends, up_refused(s) PROVE UpInv'
<1>1. /\ query[s] # NoQuery /\ s \notin done /\ UpFault
      /\ query' = [query EXCEPT ![s] = NoQuery] /\ dead' = dead \cup {s}
      /\ sends' = sends /\ F' = F /\ readable' = readable /\ done' = done /\ stored' = stored
      /\ thumbs' = thumbs /\ messages' = messages /\ known' = known
      /\ cur_uploading_bytes' = cur_uploading_bytes
      /\ cur_uploaded_bytes' = cur_uploaded_bytes /\ odd' = odd /\ aborted' = aborted
  BY DEF up_refused, server
<1>2. UpTypeOK
  BY DEF UpInv
<1>3. s \notin messages /\ s \notin known
  <2>1. /\ MessageAt(s) /\ F[s].state \in {"open", "closed", "freed"}
        /\ F[s].state = "open" => GoingOn(s)
        /\ F[s].state = "closed" => GoingOn(s)
        /\ F[s].state = "freed" => query[s].kind \in {"media", "encrypted_file", "none"}
        /\ query[s].kind = "none" <=> query[s] = NoQuery
    BY <1>1, BegunIs
  <2>2. QED  BY <2>1, <1>1 DEF MessageAt, GoingOn
<1>4. query'[s] = NoQuery /\ query' \in [Sends -> Query \cup {NoQuery}]
  BY <1>1, <1>2, SetsTyped
<1>5. Good(s)'
  BY <1>1, <1>2, <1>3, <1>4, NoQueryStays
<1>6. \A t \in Sends : t # s => Same(t)
  BY <1>1, <1>2, SetsTyped DEF Same
<1>7. known' \subseteq Sends /\ dead' \subseteq Sends
  BY <1>1, <1>2, SetsTyped
<1>8. FilesKept
  BY <1>1, <1>4, <1>5, <1>6, <1>7, StructsStay
<1>9. OthersKept
  BY <1>1, <1>2, UpFaultIs, SetsTyped DEF OthersKept
<1>10. QED  BY <1>8, <1>9, AllKept

LEMMA FileChangeKeeps == ASSUME UpInv, NEW s \in Sends, file_changes(s) PROVE UpInv'
<1>1. /\ F[s].state = "open" /\ s \notin odd /\ UpFault /\ odd' = odd \cup {s}
      /\ sends' = sends /\ F' = F /\ query' = query /\ done' = done /\ stored' = stored
      /\ thumbs' = thumbs /\ messages' = messages /\ known' = known
      /\ cur_uploading_bytes' = cur_uploading_bytes
      /\ cur_uploaded_bytes' = cur_uploaded_bytes /\ aborted' = aborted /\ dead' = dead
  BY DEF file_changes, server, client
<1>2. PICK len \in {readable[s] - 1, readable[s] + 1} :
        readable' = [readable EXCEPT ![s] = len]
  BY DEF file_changes
<1>3. UpTypeOK
  BY DEF UpInv
<1>4. /\ F[s] # NoFile /\ ~(s > sends) /\ FitsFile(s) /\ MessageAt(s)
      /\ OpenAt(s) /\ GoingOn(s)
  BY <1>1, BegunIs
<1>5. readable[s] = F[s].size /\ F[s].size \in Nat \ {0} /\ F[s].size + 1 <= LongestFile
  BY <1>1, <1>4 DEF OpenAt, FitsFile, SendFields
<1>6. len \in 0 .. F[s].size + 1 /\ len \in 0 .. LongestFile
  BY <1>5, UploadConstants
<1>7. readable'[s] = len /\ readable' \in [Sends -> 0 .. LongestFile]
  BY <1>2, <1>3, <1>6, SetsTyped
<1>8. PartsOf(s)' = PartsOf(s) /\ (ThumbThere(s)' <=> ThumbThere(s))
      /\ (MessageOut(s)' <=> MessageOut(s))
  BY <1>1 DEF PartsOf, ThumbThere, MessageOut
<1>9. FitsFile(s)'
  BY <1>1, <1>4, <1>6, <1>7 DEF FitsFile
<1>10. MessageAt(s)'
  BY <1>1, <1>4, <1>8 DEF MessageAt
<1>11. OpenAt(s)' /\ GoingOn(s)'
  BY <1>1, <1>4, <1>8 DEF OpenAt, GoingOn
<1>12. Good(s)'
  BY <1>1, <1>4, <1>9, <1>10, <1>11 DEF Good
<1>13. \A t \in Sends : t # s => Same(t)
  BY <1>1, <1>2, <1>3, SetsTyped DEF Same
<1>14. query' \in [Sends -> Query \cup {NoQuery}] /\ known' \subseteq Sends /\ dead' \subseteq Sends
       /\ odd \subseteq odd'
  BY <1>1, <1>3, SetsTyped
<1>15. FilesKept
  BY <1>1, <1>12, <1>13, <1>14, StructsStay
<1>16. OthersKept
  BY <1>1, <1>3, <1>7, UpFaultIs, SetsTyped DEF OthersKept
<1>17. QED  BY <1>15, <1>16, AllKept

LEMMA UpCrashKeeps == ASSUME UpInv, up_crash PROVE UpInv'
<1>1. /\ UpFault /\ UpEnded /\ sends' = sends /\ readable' = readable /\ done' = done
      /\ stored' = stored /\ thumbs' = thumbs /\ messages' = messages /\ odd' = odd
      /\ aborted' = aborted
  BY DEF up_crash, server
<1>2. FilesKept
  <2>1. aborted' \subseteq odd'
    BY <1>1 DEF UpInv, AbortsAreOdd
  <2>2. QED  BY <2>1, <1>1, EndedKeepsFiles
<1>3. OthersKept
  BY <1>1, UpFaultIs, SetsTyped DEF OthersKept, UpInv
<1>4. QED  BY <1>2, <1>3, AllKept

LEMMA DoSendKeeps ==
  ASSUME UpInv, NEW type \in Types, NEW z \in FileSizes, NEW encr \in BOOLEAN,
         NEW directory \in BOOLEAN, do_send_photo(type, encr, z, directory)
  PROVE  UpInv'
<1>0. sends < MaxSends /\ sends \in Nat /\ MaxSends \in Nat
  BY UploadConstants, SetsTyped DEF UpInv, do_send_photo
<1>01. PICK s \in Sends : s = sends + 1
  BY <1>0 DEF Sends
<1> DEFINE g == [state |-> "open", size |-> z, offset |-> 0, part_num |-> 0,
                 part_size |-> part_size(z), media_type |-> type, encr |-> encr]
           HasParts == z > 0 /\ \E p \in PartSizes : p >= Ceil(z, ManyParts)
           len == IF directory THEN 0 ELSE z
<1>1. /\ sends < MaxSends /\ sends' = s
      /\ readable' = [readable EXCEPT ![s] = len]
      /\ odd' = (IF directory THEN odd \cup {s} ELSE odd)
      /\ done' = done /\ stored' = stored /\ thumbs' = thumbs /\ messages' = messages
      /\ up_faults' = up_faults
      /\ \/ ~HasParts /\ UNCHANGED <<client, known, aborted, dead>>
         \/ HasParts /\ thumbed(type, encr) /\ send_file_thumb(s, g)
         \/ HasParts /\ ~thumbed(type, encr) /\ send_part(s, g, readable'[s])
  BY <1>01 DEF do_send_photo, server
<1>2. UpTypeOK
  BY DEF UpInv
<1>3. s > sends /\ sends' \in 0 .. MaxSends
  BY <1>0, <1>01, <1>1
<1>4. z \in Nat /\ z + 1 <= LongestFile /\ LongestFile \in Nat
  BY UploadConstants
<1>5. F[s] = NoFile /\ NotBegun(s)
  BY <1>3 DEF UpInv, Good
<1>6. len \in 0 .. LongestFile /\ len \in 0 .. z + 1
  BY <1>4
<1> HIDE DEF g, HasParts, len
<1>7. readable'[s] = len /\ readable' \in [Sends -> 0 .. LongestFile]
  BY <1>1, <1>2, <1>3, <1>6, SetsTyped
<1>8. OthersKept
  BY <1>1, <1>2, <1>3, <1>7, SetsTyped DEF OthersKept
<1>9. /\ odd \subseteq odd' /\ (s \notin odd' => len = z)
      /\ \A t \in Sends : /\ t > sends' => t > sends
                          /\ t # s => /\ readable'[t] = readable[t]
                                      /\ t \in odd' <=> t \in odd
  <2>1. sends' = sends + 1
    BY <1>01, <1>1
  <2>2. \A t \in Sends : t > sends' => t > sends
    BY <2>1, <1>0 DEF Sends
  <2>3. \A t \in Sends : t # s => readable'[t] = readable[t] /\ (t \in odd' <=> t \in odd)
    BY <1>1, <1>2, SetsTyped
  <2>4. odd \subseteq odd' /\ (s \notin odd' => len = z)
    BY <1>1 DEF len
  <2>5. QED  BY <2>2, <2>3, <2>4
<1>10. HasParts => /\ g \in SendFile /\ Chose(g) /\ g.state = "open" /\ g.size = z
                   /\ g.offset = 0 /\ g.part_num = 0 /\ g.media_type = type /\ g.encr = encr
                   /\ z > 0
  <2>1. SUFFICES ASSUME HasParts
                 PROVE  /\ g \in SendFile /\ Chose(g) /\ g.state = "open" /\ g.size = z
                        /\ g.offset = 0 /\ g.part_num = 0 /\ g.media_type = type
                        /\ g.encr = encr /\ z > 0
    OBVIOUS
  <2>2. part_size(z) \in PartSizes /\ part_size(z) >= Ceil(z, ManyParts) /\ z > 0
    BY <2>1, <1>4, PartSizeIs DEF HasParts
  <2>3. part_size(z) \in Nat /\ z \in 1 .. LongestFile /\ 0 \in 0 .. LongestFile
        /\ 0 \in 0 .. ManyParts + 1
    BY <2>2, <1>4, UploadConstants
  <2>4. g \in SendFile
    BY <2>3 DEF SendFile, g
  <2>5. Chose(g)
    BY <2>2 DEF Chose, g
  <2>6. QED  BY <2>2, <2>4, <2>5 DEF g
<1>11. CASE ~HasParts /\ UNCHANGED <<client, known, aborted, dead>>
  <2>1. /\ F' = F /\ query' = query /\ cur_uploading_bytes' = cur_uploading_bytes
        /\ cur_uploaded_bytes' = cur_uploaded_bytes /\ known' = known
        /\ aborted' = aborted /\ dead' = dead
    BY <1>11 DEF client
  <2>2. Good(s)'
    <3>1. NotBegun(s)'
      BY <1>1, <1>5, <2>1 DEF NotBegun
    <3>2. F'[s] = NoFile /\ F'[s].state = "none"
      BY <1>5, <2>1 DEF NoFile
    <3>3. QED  BY <3>1, <3>2 DEF Good
  <2>3. \A t \in Sends : t # s => Same(t)
    BY <1>1, <1>9, <2>1 DEF Same
  <2>4. query' \in [Sends -> Query \cup {NoQuery}] /\ known' \subseteq Sends /\ dead' \subseteq Sends
    BY <1>2, <2>1, SetsTyped
  <2>5. FilesKept
    BY <1>3, <1>9, <2>1, <2>2, <2>3, <2>4, StructsStay
  <2>6. QED  BY <2>5, <1>8, AllKept
<1>12. CASE HasParts /\ thumbed(type, encr) /\ send_file_thumb(s, g)
  <2> DEFINE q == [kind |-> "thumb"]
  <2>1. /\ F' = [F EXCEPT ![s] = g] /\ query' = [query EXCEPT ![s] = q]
        /\ cur_uploading_bytes' = cur_uploading_bytes
        /\ cur_uploaded_bytes' = cur_uploaded_bytes /\ known' = known
        /\ aborted' = aborted /\ dead' = dead
    BY <1>12 DEF send_file_thumb
  <2>2. q.kind = "thumb" /\ q \in Query /\ q # NoQuery
    BY DEF Query, NoQuery
  <2> HIDE DEF q
  <2>3. /\ F \in [Sends -> SendFile \cup {NoFile}] /\ query \in [Sends -> Query \cup {NoQuery}]
        /\ known \subseteq Sends /\ dead \subseteq Sends /\ aborted \subseteq odd
        /\ cur_uploading_bytes \in Nat /\ cur_uploaded_bytes \in Nat
    BY <1>2, SetsTyped DEF UpInv, AbortsAreOdd
  <2>4. F'[s] = g /\ query'[s] = q
    BY <2>1, <2>3, <1>3
  <2>5. /\ g \in SendFile /\ Chose(g) /\ g.state = "open" /\ g.size = z
        /\ g.offset = 0 /\ g.part_num = 0 /\ z > 0
    BY <1>10, <1>12
  <2>6. SendFields(g) /\ g # NoFile
    BY <2>5, SendFileIs
  <2>7. Good(s)'
    <3>1. FitsFile(s)'
      BY <1>4, <1>6, <1>7, <2>4, <2>5, <2>6 DEF FitsFile
    <3>2. s \notin done' /\ s \notin messages' /\ s \notin known' /\ stored'[s] = {}
      BY <1>1, <1>5, <2>1 DEF NotBegun
    <3>3. MessageAt(s)'
      BY <2>2, <2>4, <3>2 DEF MessageAt, MessageOut
    <3>4. PartsOf(s)' = {}
      BY <2>2, <2>4, <3>2 DEF PartsOf
    <3>5. OpenAt(s)'
      <4>1. g.part_size \in Nat
        BY <2>5, EnoughParts, <2>6
      <4>2. g.offset = g.part_num * g.part_size
        BY <4>1, <2>5
      <4>3. s \notin odd' => readable'[s] = g.size /\ g.offset < g.size
        BY <1>4, <1>7, <1>9, <2>5
      <4>4. QED  BY <4>2, <4>3, <2>2, <2>4, <2>5, <3>2, <3>4 DEF OpenAt
    <3>6. GoingOn(s)'
      BY <2>2, <2>4, <2>5, <3>2, <3>4 DEF GoingOn
    <3>7. ~(s > sends')
      BY <1>0, <1>01, <1>1
    <3>8. QED  BY <2>4, <2>5, <2>6, <3>1, <3>3, <3>5, <3>6, <3>7 DEF Good
  <2>8. \A t \in Sends : t # s => Same(t)
    BY <1>1, <1>9, <2>1, <2>3 DEF Same
  <2>9. \A t \in Sends : Good(t)'
    BY <1>3, <2>7, <2>8, AllGood
  <2>10. UpCountersAddUp' /\ {cur_uploading_bytes', cur_uploaded_bytes'} \subseteq Nat
    <3>1. Uploading(F[s]) = 0 /\ Uploaded(F[s]) = 0
      BY <1>5 DEF NoFile, Uploading, Uploaded
    <3>2. Uploading(g) = 0 /\ Uploaded(g) = 0
      BY <2>5 DEF Uploading, Uploaded
    <3>3. /\ cur_uploading_bytes' = cur_uploading_bytes - Uploading(F[s]) + Uploading(g)
          /\ cur_uploaded_bytes' = cur_uploaded_bytes - Uploaded(F[s]) + Uploaded(g)
      BY <3>1, <3>2, <2>1, <2>3
    <3>4. QED  BY <3>3, <1>3, <2>1, <2>5, OneCounted
  <2>11. F' \in [Sends -> SendFile \cup {NoFile}] /\ query' \in [Sends -> Query \cup {NoQuery}]
    BY <2>1, <2>2, <2>3, <2>5
  <2>12. FilesKept
    BY <1>9, <2>1, <2>3, <2>9, <2>10, <2>11 DEF FilesKept
  <2>13. QED  BY <2>12, <1>8, AllKept
<1>13. CASE HasParts /\ ~thumbed(type, encr) /\ send_part(s, g, readable'[s])
  <2>1. /\ g \in SendFile /\ Chose(g) /\ g.state = "open" /\ g.size = z
        /\ g.offset = 0 /\ g.part_num = 0 /\ z > 0 /\ g.media_type = type /\ g.encr = encr
    BY <1>10, <1>13
  <2>2. send_one_part(s, g, len)
    BY <1>7, <1>13, <2>1 DEF send_part
  <2>3. ReadyToSend(s, g, len)
    <3>1. g.part_size \in Nat
      BY <2>1, EnoughParts, SendFileIs
    <3>2. g.offset = g.part_num * g.part_size
      BY <3>1, <2>1
    <3>3. /\ s \notin done' /\ s \notin messages' /\ s \notin known
          /\ stored'[s] = stored[s] /\ stored[s] = {}
      BY <1>1, <1>5 DEF NotBegun
    <3>4. Numbers(stored[s]) = 0 .. g.part_num - 1
      BY <3>3, <2>1 DEF Numbers
    <3>5. ~(s > sends')
      BY <1>0, <1>01, <1>1
    <3>6. Uploading(F[s]) = Uploading(g) /\ Uploaded(F[s]) = Uploaded(g)
      <4>1. Uploading(F[s]) = 0 /\ Uploaded(F[s]) = 0
        BY <1>5 DEF NoFile, Uploading, Uploaded
      <4>2. Uploading(g) = 0 /\ Uploaded(g) = 0
        BY <2>1 DEF Uploading, Uploaded
      <4>3. QED  BY <4>1, <4>2
    <3>7. ~thumbed(g.media_type, g.encr)
      BY <1>13, <2>1
    <3>8. s \notin odd' => len = g.size /\ g.offset < g.size
      BY <1>4, <1>9, <2>1
    <3>9. g.size + 1 <= LongestFile /\ len \in 0 .. g.size + 1
      BY <1>4, <1>6, <2>1
    <3>10. \A p \in stored[s] : FALSE
      BY <3>3
    <3>11. QED  BY <1>7, <2>1, <3>2, <3>3, <3>4, <3>5, <3>6, <3>7, <3>8, <3>9, <3>10
                DEF ReadyToSend
  <2>4. \A t \in Sends : F[t] # NoFile => readable'[t] = readable[t]
    BY <1>5, <1>9
  <2>5. FilesKept
    BY <1>1, <1>3, <1>9, <2>2, <2>3, <2>4, PartKeepsFiles
  <2>6. QED  BY <2>5, <1>8, AllKept
<1>14. QED
  <2>1. \/ ~HasParts /\ UNCHANGED <<client, known, aborted, dead>>
        \/ HasParts /\ thumbed(type, encr) /\ send_file_thumb(s, g)
        \/ HasParts /\ ~thumbed(type, encr) /\ send_part(s, g, readable'[s])
    BY <1>1
  <2>2. QED  BY <2>1, <1>11, <1>12, <1>13

LEMMA UpStutterKeeps == ASSUME UpInv, UNCHANGED up_vars PROVE UpInv'
<1>1. /\ sends' = sends /\ F' = F /\ readable' = readable /\ query' = query /\ done' = done
      /\ stored' = stored /\ thumbs' = thumbs /\ messages' = messages /\ known' = known
      /\ cur_uploading_bytes' = cur_uploading_bytes
      /\ cur_uploaded_bytes' = cur_uploaded_bytes /\ up_faults' = up_faults /\ odd' = odd
      /\ aborted' = aborted /\ dead' = dead
  BY DEF up_vars
<1>2. OthersKept
  BY <1>1, SetsTyped DEF OthersKept, UpInv
<1>3. \A t \in Sends : Good(t)'
  <2>1. \A t \in Sends : Same(t) /\ Good(t)
    BY <1>1 DEF Same, UpInv
  <2>2. QED  BY <2>1, SameStays
<1>4. UpCountersAddUp' /\ {cur_uploading_bytes', cur_uploaded_bytes'} \subseteq Nat
  BY <1>1, NoneCounted
<1>5. /\ F \in [Sends -> SendFile \cup {NoFile}] /\ query \in [Sends -> Query \cup {NoQuery}]
      /\ known \subseteq Sends /\ dead \subseteq Sends /\ aborted \subseteq odd
  BY SetsTyped DEF UpInv, AbortsAreOdd
<1>6. FilesKept
  BY <1>1, <1>3, <1>4, <1>5 DEF FilesKept
<1>7. QED  BY <1>2, <1>6, AllKept

LEMMA UpStepKeeps == ASSUME UpInv, [UpNext]_up_vars PROVE UpInv'
<1>1. CASE \E type \in Types, z \in FileSizes, encr, directory \in BOOLEAN :
             do_send_photo(type, encr, z, directory)
  BY <1>1, DoSendKeeps
<1>2. CASE \E s \in Sends : carry_out(s)
  BY <1>2, CarryOutKeeps
<1>3. CASE \E s \in Sends : up_refused(s)
  BY <1>3, UpRefusedKeeps
<1>4. CASE \E s \in Sends : file_changes(s)
  BY <1>4, FileChangeKeeps
<1>5. CASE \E s \in Sends : send_file_part_on_answer(s)
  BY <1>5, PartAnswerKeeps
<1>6. CASE \E s \in Sends : send_file_on_answer(s)
  BY <1>6, FileAnswerKeeps
<1>7. CASE up_crash
  BY <1>7, UpCrashKeeps
<1>8. CASE UNCHANGED up_vars
  BY <1>8, UpStutterKeeps
<1>9. QED  BY <1>1, <1>2, <1>3, <1>4, <1>5, <1>6, <1>7, <1>8 DEF UpNext

LEMMA UpInitInv == ASSUME UpInit PROVE UpInv
<1>1. /\ sends = 0 /\ F = [s \in Sends |-> NoFile] /\ readable = [s \in Sends |-> 0]
      /\ query = [s \in Sends |-> NoQuery] /\ done = {}
      /\ stored = [s \in Sends |-> {}] /\ thumbs = {} /\ messages = {} /\ known = {}
      /\ cur_uploading_bytes = 0 /\ cur_uploaded_bytes = 0 /\ up_faults = 0
      /\ odd = {} /\ aborted = {} /\ dead = {}
  BY DEF UpInit
<1>2. UpTypeOK
  BY <1>1, UploadConstants, SetsTyped
<1>3. UpCountersAddUp
  <2>1. /\ \A s \in Sends : BegunSizes[s] = 0 /\ SentSizes[s] = 0
        /\ BegunSizes \in [Sends -> Int] /\ SentSizes \in [Sends -> Int]
    BY <1>1 DEF BegunSizes, SentSizes, Uploading, Uploaded, NoFile
  <2>2. SumFunction(BegunSizes) = 0 /\ SumFunction(SentSizes) = 0
    BY <2>1, SendsFinite, SumOfNothing
  <2>3. QED  BY <1>1, <2>2, SentCountersAre
<1>4. ASSUME NEW s \in Sends PROVE Good(s)
  <2>1. F[s] = NoFile /\ F[s].state = "none"
    BY <1>1 DEF NoFile
  <2>2. NotBegun(s)
    BY <1>1 DEF NotBegun
  <2>3. QED  BY <2>1, <2>2 DEF Good
<1>5. QED  BY <1>1, <1>2, <1>3, <1>4 DEF UpInv, AbortsAreOdd

LEMMA UpInvHolds == UpSpec => []UpInv
<1>1. UpInit => UpInv
  BY UpInitInv
<1>2. UpInv /\ [UpNext]_up_vars => UpInv'
  BY UpStepKeeps
<1>3. QED  BY <1>1, <1>2, PTL DEF UpSpec

(* The message that names the parts is sent when the server has the whole  *)
(* file in them, and its thumbnail: send_part, send_file_part_on_answer.   *)
THEOREM SentAlwaysWhole == UpSpec => []SentIsWhole
<1>1. UpInv => SentIsWhole
  <2>1. SUFFICES ASSUME UpInv, NEW s \in Sends,
                        query[s].kind \in {"media", "encrypted_file"} \/ s \in messages
                 PROVE  /\ WholeIn(F[s], stored[s])
                        /\ F[s].media_type \in {"video", "document"} /\ ~F[s].encr =>
                             s \in thumbs
    BY DEF SentIsWhole
  <2>2. Good(s)
    BY <2>1 DEF UpInv
  <2>3. F[s] # NoFile
    BY <2>1, <2>2 DEF Good, NotBegun, NoQuery
  <2>4. WholeIn(F[s], stored[s]) /\ ThumbThere(s)
    BY <2>1, <2>2, <2>3 DEF Good, MessageAt, MessageOut
  <2>5. QED  BY <2>4 DEF ThumbThere, thumbed
<1>2. QED  BY <1>1, UpInvHolds, PTL

(* A message that was sent is known as soon as it is answered, and ever    *)
(* after, but for a secret chat's when the process has ended.              *)
THEOREM SentAlwaysKnown == UpSpec => []SentIsKnown
<1>1. UpInv => SentIsKnown
  <2>1. SUFFICES ASSUME UpInv PROVE SentIsKnown
    OBVIOUS
  <2>2. known \subseteq Sends /\ messages \subseteq Sends
    BY <2>1, SetsTyped DEF UpInv
  <2>3. ASSUME NEW s \in Sends
        PROVE  /\ s \in known => s \in messages
               /\ s \in messages /\ query[s] = NoQuery =>
                    s \in known \/ (F[s].encr /\ s \in dead)
    BY <2>1 DEF UpInv, Good, NotBegun, MessageAt
  <2>4. QED  BY <2>2, <2>3 DEF SentIsKnown, Secret
<1>2. QED  BY <1>1, UpInvHolds, PTL

(* The counters of the prompt are the sums over the uploads, and the       *)
(* assertions of send_part fail for nothing but a directory and a file     *)
(* that changed after fstat.                                               *)
THEOREM UploadsAlwaysCounted == UpSpec => []UploadsCounted
<1>1. UpInv => UploadsCounted
  BY DEF UpInv, UploadsCounted
<1>2. QED  BY <1>1, UpInvHolds, PTL

=============================================================================
