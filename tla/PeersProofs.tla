--------------------------- MODULE PeersProofs ----------------------------
(***************************************************************************)
(* Proofs of NamesFindPeers, RestartKeeps, AbortsExplained and             *)
(* ListIsServers of Peers, for any users, chats and names.                 *)
(*                                                                         *)
(* Good says of a memory what NamesFindPeers needs, and Kept is what a     *)
(* restart keeps of it.  A record is applied to both alike (Logged), so    *)
(* that each step of a handler keeps RunOK, and a packet does by induction *)
(* on its parts.  ListsRight ties the lists to the server's; what cannot   *)
(* fail while no packet is lost or overtaken rests on InOrder and          *)
(* ListsCome: the steps of a list after the noted version are on their way *)
(* in their order.                                                         *)
(***************************************************************************)
EXTENDS Peers, FiniteSetTheorems, SequenceTheorems, WellFoundedInduction, TLAPS

(* Types of a memory. *)
Prints == {Suffixed(n, cc) : n \in Names, cc \in Nat} \cup {NoName}
Faults == {"none", "created twice", "unknown", "addition", "deletion"}

PeerType == [state : {"absent", "allocated", "created"},
             name : Names \cup {NoName}, print : Prints]
UserType == [real : Names \cup {NoName}, contact : BOOLEAN, deleted : BOOLEAN]
ChatType == [forbidden : BOOLEAN, version : Int, users_num : Int]
ListType == [version : Nat, users : SUBSET Users, skipped : BOOLEAN]
Memory ==
  [peer : [Ids -> PeerType], user : [Users -> UserType], chat : [Chats -> ChatType],
   list : [Chats -> ListType], index : SUBSET [name : Prints, peer : Ids],
   our_id : Users \cup {Nobody}, fault : Faults]

(* The names of the peers but p, and what the index says of them.          *)
Entry(d, q) == [name |-> d.peer[q].print, peer |-> q]
IndexedBut(d, p) ==
  /\ {e \in d.index : e.peer # p} = {Entry(d, q) : q \in {q \in Ids \ {p} : Created(d, q)}}
  /\ \A q, r \in Ids \ {p} : Created(d, q) /\ Created(d, r)
                             /\ d.peer[q].print = d.peer[r].print => q = r
  /\ \A q \in Ids \ {p} :
       IF Created(d, q)
       THEN d.peer[q].name \in Names /\ \E cc \in Nat : d.peer[q].print = Suffixed(d.peer[q].name, cc)
       ELSE d.peer[q].name = NoName /\ d.peer[q].print = NoName
  /\ \A c \in Chats : ~Created(d, c) => d.list[c] = NoList

Indexed(d) ==
  /\ d.index = {Entry(d, q) : q \in {q \in Ids : Created(d, q)}}
  /\ \A q, r \in Ids : Created(d, q) /\ Created(d, r)
                       /\ d.peer[q].print = d.peer[r].print => q = r
  /\ \A q \in Ids :
       IF Created(d, q)
       THEN d.peer[q].name \in Names /\ \E cc \in Nat : d.peer[q].print = Suffixed(d.peer[q].name, cc)
       ELSE d.peer[q].name = NoName /\ d.peer[q].print = NoName
  /\ \A c \in Chats : ~Created(d, c) => d.list[c] = NoList

Good(d) == d \in Memory /\ d.fault = "none" /\ Indexed(d)

(* What a restart keeps of a memory. *)
Kept(d) == [d EXCEPT !.peer = [p \in Ids |->
              IF Created(d, p) THEN d.peer[p] ELSE Empty.peer[p]]]

ListsRight(d) ==
  \A c \in Chats : d.list[c].version <= Len(members[c])
    /\ (d.list[c].version > 0 /\ ~d.list[c].skipped =>
          d.list[c].users = members[c][d.list[c].version])

(* The packets. *)
Part ==
  [kind : {"user"}, of : Users, name : Names,
   shape : {"self", "contact", "deleted", "empty", "foreign"}]
    \cup [kind : {"chat"}, of : Chats, name : Names, shape : {"chat", "forbidden", "empty"},
          users_num : Nat, version : Nat]
    \cup [kind : {"user_full", "update_user_name"}, of : Users, name : Names]
    \cup [kind : {"chat_full", "update_chat_participants"}, of : Chats,
          version : Nat, users : SUBSET Users]
    \cup [kind : {"update_chat_participant_add", "update_chat_participant_delete"},
          of : Chats, version : Nat, user : Users]

StepKinds == {"update_chat_participants", "update_chat_participant_add",
              "update_chat_participant_delete"}
ListKinds == StepKinds \cup {"chat_full"}

(* What a part says of a list of members is what the server had.           *)
PartRight(ms, d) ==
  /\ d.kind \in ListKinds => d.version \in 1 .. Len(ms[d.of])
  /\ d.kind \in {"chat_full", "update_chat_participants"} =>
       d.users = ms[d.of][d.version]
  /\ d.kind = "update_chat_participant_add" =>
       /\ d.version > 1 /\ d.user \notin ms[d.of][d.version - 1]
       /\ ms[d.of][d.version] = ms[d.of][d.version - 1] \cup {d.user}

(* A full description comes after the description.                         *)
Describes(d, p) == d.of = p /\ d.kind \in {"chat", "user"} /\ d.shape # "empty"
PacketRight(ms, q) ==
  /\ \A k \in DOMAIN q : PartRight(ms, q[k])
  /\ \A k \in DOMAIN q : q[k].kind \in {"user_full", "chat_full"} =>
       \E j \in 1 .. k - 1 : Describes(q[j], q[k].of)
  /\ \A j, k \in DOMAIN q : q[j].kind \in ListKinds /\ q[k].kind \in ListKinds => j = k

(* Unless packets were lost or overtaken, what the server did to a list    *)
(* after the version v is on its way.                                      *)
ListsIn(q, c) == {k \in DOMAIN q : q[k].kind \in ListKinds /\ q[k].of = c}
StepsIn(q, c) == {k \in DOMAIN q : q[k].kind \in StepKinds /\ q[k].of = c}
Coming(c, v) ==
  \A w \in v + 1 .. Len(members[c]) :
    \E i \in DOMAIN net : \E k \in StepsIn(net[i], c) : net[i][k].version = w
ListsCome(d) ==
  \A c \in Chats : d.list[c].version > 0 =>
    Coming(c, d.list[c].version) /\ ~d.list[c].skipped
InOrder ==
  \A c \in Chats, i \in DOMAIN net :
    /\ \A k \in ListsIn(net[i], c) : Coming(c, net[i][k].version)
    /\ \A j \in DOMAIN net : i < j =>
         \A k \in ListsIn(net[i], c), l \in ListsIn(net[j], c) :
           /\ net[i][k].version <= net[j][l].version
           /\ l \in StepsIn(net[j], c) => net[i][k].version < net[j][l].version

ServerOK ==
  /\ name \in [Ids -> Names] /\ shape \in [Users -> {"self", "contact", "deleted"}]
  /\ members \in [Chats -> Seq(SUBSET Users)] /\ \A c \in Chats : Len(members[c]) > 0
  /\ net \in Seq(Seq(Part)) /\ \A i \in DOMAIN net : PacketRight(members, net[i])

IInv ==
  /\ ServerOK /\ faults \in Nat /\ torn \in BOOLEAN /\ up \in BOOLEAN
  /\ torn => faults > 0
  /\ faults = 0 => InOrder /\ ListsCome(disk)
  /\ Good(mem) /\ Good(disk) /\ Kept(disk) = disk /\ ListsRight(disk)
  /\ IF up THEN disk = Kept(mem) ELSE mem = Empty
  /\ cause \in {"none", "crash", "deletion", "addition", "replay"}
  /\ cause \in {"addition", "replay"} => faults > 0
(* Induction, from the library's theorem that < is well founded on Nat.     *)
LEMMA LeastNumber ==
  ASSUME NEW T \in SUBSET Nat, T # {}
  PROVE  \E x \in T : \A k \in T : x <= k
<1> DEFINE R == OpToRel(<, Nat)
<1>1. IsWellFoundedOn(R, Nat)
  BY NatLessThanWellFounded
<1>2. PICK x \in T : \A k \in T : <<k, x>> \notin R
  <2> HIDE DEF R
  <2>1. QED  BY <1>1, WFMin
<1>3. \A k \in T : x <= k
  <2>1. R = {ss \in Nat \X Nat : ss[1] < ss[2]}
    BY DEF OpToRel
  <2> HIDE DEF R
  <2>2. TAKE k \in T
  <2>3. ~ (k < x)
    BY <1>2, <2>1
  <2>4. k \in Nat /\ x \in Nat
    OBVIOUS
  <2>5. QED  BY <2>3, <2>4
<1>4. QED  BY <1>3

LEMMA Induction ==
  ASSUME NEW T, 0 \in T, \A n \in Nat : n \in T => n + 1 \in T
  PROVE  Nat \subseteq T
<1>1. SUFFICES ASSUME Nat \ T # {} PROVE FALSE
  OBVIOUS
<1>2. PICK x \in Nat \ T : \A k \in Nat \ T : x <= k
  BY <1>1, LeastNumber
<1>3. x - 1 \in Nat
  BY <1>2
<1>4. x - 1 \in T
  BY <1>2, <1>3
<1>5. QED  BY <1>2, <1>3, <1>4

-----------------------------------------------------------------------------
(* Names. *)

Symbols == Nat \cup UNION {{n[i] : i \in 1 .. Len(n)} : n \in Names}

LEMMA NamesAreSequences ==
  ASSUME NEW n \in Names
  PROVE  n \in Seq(Symbols)
<1>1. Len(n) \in Nat /\ n = [i \in 1 .. Len(n) |-> n[i]]
  BY PeersAssumption
<1>2. \A i \in 1 .. Len(n) : n[i] \in Symbols
  BY DEF Symbols
<1>3. n \in [1 .. Len(n) -> Symbols]
  BY <1>1, <1>2
<1>4. QED  BY <1>1, <1>3

LEMMA SuffixesDiffer ==
  ASSUME NEW n \in Names, NEW c \in Nat, NEW d \in Nat, Suffixed(n, c) = Suffixed(n, d)
  PROVE  c = d
<1>1. n \in Seq(Symbols) /\ c \in Symbols /\ d \in Symbols
  BY NamesAreSequences DEF Symbols
<1>2. /\ \A e \in Symbols : Len(Append(n, e)) = Len(n) + 1
      /\ \A e \in Symbols : Append(n, e)[Len(n) + 1] = e
      /\ Len(n) \in Nat
  BY <1>1, AppendProperties, LenProperties
<1>3. CASE c = 0 \/ d = 0
  <2>1. \A e \in Symbols : Append(n, e) # n
    BY <1>2
  <2>2. QED  BY <1>1, <1>3, <2>1 DEF Suffixed
<1>4. CASE c # 0 /\ d # 0
  <2>1. Append(n, c) = Append(n, d)
    BY <1>4 DEF Suffixed
  <2>2. Append(n, c)[Len(n) + 1] = c /\ Append(n, d)[Len(n) + 1] = d
    BY <1>1, <1>2
  <2>3. QED  BY <2>1, <2>2
<1>5. QED  BY <1>3, <1>4

LEMMA SuffixCutOff ==
  ASSUME NEW n \in Names, NEW c \in Nat
  PROVE  Suffixed(n, c) = n \/ Front(Suffixed(n, c)) = n
<1>1. n \in Seq(Symbols) /\ c \in Symbols
  BY NamesAreSequences DEF Symbols
<1>2. CASE c = 0
  BY <1>2 DEF Suffixed
<1>3. CASE c # 0
  <2> DEFINE s == Append(n, c)
             f == SubSeq(s, 1, Len(s) - 1)
  <2>1. /\ s \in Seq(Symbols) /\ Len(s) = Len(n) + 1 /\ Len(n) \in Nat
        /\ \A i \in 1 .. Len(n) : s[i] = n[i]
    BY <1>1, AppendProperties, LenProperties
  <2>2. Suffixed(n, c) = s
    BY <1>3 DEF Suffixed
  <2> HIDE DEF s
  <2>3. f \in Seq(Symbols) /\ Len(f) = Len(n) /\ \A i \in 1 .. Len(n) : f[i] = n[i]
    BY <2>1, SubSeqProperties
  <2> HIDE DEF f
  <2>4. f = n
    BY <1>1, <2>3, SeqEqual
  <2>5. QED  BY <2>2, <2>4 DEF Front, f
<1>4. QED  BY <1>2, <1>3

(* An index of K names leaves one of K + 1 suffixes free.                  *)
LEMMA SuffixFree ==
  ASSUME NEW n \in Names, NEW I, IsFiniteSet(I), NEW p
  PROVE  \E cc \in Nat : /\ create_print_name(I, n, p) = Suffixed(n, cc)
                         /\ ~Taken(I, Suffixed(n, cc), p)
<1> DEFINE K == Cardinality(I)
           Free == {cc \in 0 .. K : ~Taken(I, Suffixed(n, cc), p)}
<1>1. K \in Nat
  BY FS_CardinalityType
<1>2. Free # {}
  <2>1. SUFFICES ASSUME Free = {} PROVE FALSE
    OBVIOUS
  <2>2. \A cc \in 0 .. K : \E e \in I : e.name = Suffixed(n, cc)
    BY <2>1 DEF Taken
  <2> DEFINE f == [cc \in 0 .. K |-> CHOOSE e \in I : e.name = Suffixed(n, cc)]
  <2>3. \A cc \in 0 .. K : f[cc] \in I /\ f[cc].name = Suffixed(n, cc)
    BY <2>2
  <2>4. \A c, d \in 0 .. K : f[c] = f[d] => c = d
    <3> HIDE DEF f, K
    <3>1. TAKE c, d \in 0 .. K
    <3>2. c \in Nat /\ d \in Nat
      BY <1>1
    <3>3. QED  BY <2>3, <3>2, SuffixesDiffer
  <2>5. f \in Injection(0 .. K, I)
    <3>1. f \in [0 .. K -> I]
      BY <2>3
    <3> HIDE DEF f
    <3>2. QED  BY <2>4, <3>1 DEF Injection, IsInjective
  <2> HIDE DEF f
  <2>6. Cardinality(0 .. K) <= K
    BY <2>5, FS_Injection
  <2>7. Cardinality(0 .. K) = K + 1
    <3>1. 0 \in Int /\ K \in Int /\ ~(0 > K) /\ K - 0 + 1 = K + 1
      BY <1>1
    <3> HIDE DEF K
    <3>2. QED  BY <3>1, FS_Interval
  <2> HIDE DEF K
  <2>8. QED  BY <1>1, <2>6, <2>7
<1>3. Free \in SUBSET Nat
  BY <1>1
<1> DEFINE cc == Min(Free)
<1>4. cc \in Free
  <2> HIDE DEF Free
  <2>1. \E x \in Free : \A y \in Free : x <= y
    BY <1>2, <1>3, LeastNumber
  <2>2. QED  BY <2>1 DEF Min
<1>5. create_print_name(I, n, p) = Suffixed(n, cc)
  BY DEF create_print_name
<1> HIDE DEF cc
<1>6. cc \in Nat /\ ~Taken(I, Suffixed(n, cc), p)
  BY <1>1, <1>4
<1>7. QED  BY <1>5, <1>6

-----------------------------------------------------------------------------
(* Memory: a peer created or named anew. *)

LEMMA MemoryFields ==
  ASSUME NEW d \in Memory
  PROVE  /\ d.peer \in [Ids -> PeerType] /\ d.user \in [Users -> UserType]
         /\ d.chat \in [Chats -> ChatType] /\ d.list \in [Chats -> ListType]
         /\ d.index \in SUBSET [name : Prints, peer : Ids]
         /\ d.our_id \in Users \cup {Nobody} /\ d.fault \in Faults
BY DEF Memory

LEMMA SameMemory ==
  ASSUME NEW d \in Memory, NEW e \in Memory, d.peer = e.peer, d.user = e.user,
         d.chat = e.chat, d.list = e.list, d.index = e.index, d.our_id = e.our_id,
         d.fault = e.fault
  PROVE  d = e
BY DEF Memory

Absent == [state |-> "absent", name |-> NoName, print |-> NoName]

LEMMA EmptyFields ==
  /\ Empty \in Memory /\ Empty.peer = [p \in Ids |-> Absent] /\ Empty.index = {}
  /\ Empty.list = [c \in Chats |-> NoList] /\ Empty.fault = "none"
  /\ \A p \in Ids : ~Created(Empty, p)
<1>1. Absent \in PeerType
  BY DEF Absent, PeerType, Prints
<1>2. NoList \in ListType
  BY DEF NoList, ListType
<1>3. [real |-> NoName, contact |-> FALSE, deleted |-> FALSE] \in UserType
  BY DEF UserType
<1>4. [forbidden |-> FALSE, version |-> 0, users_num |-> 0] \in ChatType
  BY DEF ChatType
<1>5. /\ Empty.peer = [p \in Ids |-> Absent] /\ Empty.index = {}
      /\ Empty.list = [c \in Chats |-> NoList] /\ Empty.fault = "none"
  BY DEF Empty, Absent
<1>6. Empty \in Memory
  BY <1>1, <1>2, <1>3, <1>4, <1>5 DEF Empty, Memory, Faults, Absent
<1>7. \A p \in Ids : ~Created(Empty, p)
  BY <1>5 DEF Created, Absent
<1>8. QED  BY <1>5, <1>6, <1>7

KeptDone(d, k) ==
  /\ k \in Memory /\ k.peer = [p \in Ids |-> IF Created(d, p) THEN d.peer[p] ELSE Absent]
  /\ k.user = d.user /\ k.chat = d.chat /\ k.list = d.list /\ k.index = d.index
  /\ k.our_id = d.our_id /\ k.fault = d.fault
  /\ \A p \in Ids : Created(k, p) <=> Created(d, p)

LEMMA KeptFields ==
  ASSUME NEW d \in Memory
  PROVE  KeptDone(d, Kept(d))
<1> DEFINE k == Kept(d)
           peers == [p \in Ids |-> IF Created(d, p) THEN d.peer[p] ELSE Absent]
<1>1. k = [d EXCEPT !.peer = peers]
  BY EmptyFields DEF Kept
<1>2. peers \in [Ids -> PeerType]
  BY MemoryFields DEF Absent, PeerType, Prints
<1>3. \A p \in Ids : peers[p].state = "created" <=> Created(d, p)
  BY DEF Created, Absent
<1> HIDE DEF peers, k
<1>4. /\ k \in Memory /\ k.peer = peers /\ k.user = d.user /\ k.chat = d.chat
      /\ k.list = d.list /\ k.index = d.index /\ k.our_id = d.our_id /\ k.fault = d.fault
  BY <1>1, <1>2 DEF Memory
<1>5. KeptDone(d, k)
  BY <1>3, <1>4 DEF KeptDone, Created, peers
<1>6. QED  BY <1>5 DEF k

PrintFor(d, p, n) == create_print_name({e \in d.index : e.peer # p}, n, p)

RenamedDone(d, p, n, e) ==
  /\ e \in Memory
  /\ e.peer = [d.peer EXCEPT ![p] = [state |-> d.peer[p].state, name |-> n,
                                     print |-> PrintFor(d, p, n)]]
  /\ e.index = {x \in d.index : x.peer # p}
                 \cup {[name |-> PrintFor(d, p, n), peer |-> p]}
  /\ e.user = d.user /\ e.chat = d.chat /\ e.list = d.list /\ e.our_id = d.our_id
  /\ e.fault = d.fault

LEMMA RenamedFields ==
  ASSUME NEW d \in Memory, NEW p \in Ids, NEW n \in Names, PrintFor(d, p, n) \in Prints
  PROVE  RenamedDone(d, p, n, Renamed(d, p, n))
<1> DEFINE e == Renamed(d, p, n)
           print == PrintFor(d, p, n)
           others == {x \in d.index : x.peer # p}
<1>1. e = [d EXCEPT !.peer[p].name = n, !.peer[p].print = print,
                    !.index = others \cup {[name |-> print, peer |-> p]}]
  BY DEF Renamed, PrintFor
<1>2. print \in Prints /\ others \in SUBSET [name : Prints, peer : Ids]
  BY MemoryFields
<1> HIDE DEF e, print, others
<1>3. d.peer \in [Ids -> PeerType]
  BY MemoryFields
<1>4. e.peer = [d.peer EXCEPT ![p] = [state |-> d.peer[p].state, name |-> n, print |-> print]]
  BY <1>1, <1>3 DEF PeerType, Memory
<1>5. e.peer \in [Ids -> PeerType]
  BY <1>2, <1>3, <1>4 DEF PeerType
<1>6. /\ e.index = others \cup {[name |-> print, peer |-> p]}
      /\ e.user = d.user /\ e.chat = d.chat /\ e.list = d.list /\ e.our_id = d.our_id
      /\ e.fault = d.fault
  BY <1>1 DEF Memory
<1>7. e \in Memory
  <2>1. e = [peer |-> e.peer, user |-> e.user, chat |-> e.chat, list |-> e.list,
             index |-> e.index, our_id |-> e.our_id, fault |-> e.fault]
    BY <1>1 DEF Memory
  <2>2. e.index \in SUBSET [name : Prints, peer : Ids]
    BY <1>2, <1>6
  <2>3. QED  BY <1>5, <1>6, <2>1, <2>2, MemoryFields DEF Memory
<1>8. RenamedDone(d, p, n, e)
  BY <1>4, <1>6, <1>7 DEF RenamedDone, print, others
<1>9. QED  BY <1>8 DEF e

LEMMA IdsFinite == IsFiniteSet(Ids) /\ Users \subseteq Ids /\ Chats \subseteq Ids
                   /\ Users \cap Chats = {}
BY PeersAssumption DEF Ids

(* The index has one entry for each peer, so it is finite.                 *)
LEMMA PrintIsFree ==
  ASSUME NEW d \in Memory, NEW p \in Ids, IndexedBut(d, p), NEW n \in Names
  PROVE  /\ PrintFor(d, p, n) \in Prints
         /\ \E cc \in Nat : PrintFor(d, p, n) = Suffixed(n, cc)
         /\ \A q \in Ids \ {p} : Created(d, q) => d.peer[q].print # PrintFor(d, p, n)
<1> DEFINE I == {e \in d.index : e.peer # p}
           S == {q \in Ids \ {p} : Created(d, q)}
           f == [e \in I |-> e.peer]
<1>1. I = {Entry(d, q) : q \in S}
  BY DEF IndexedBut
<1>2. \A q : Entry(d, q).peer = q /\ Entry(d, q).name = d.peer[q].print
  BY DEF Entry
<1>3. S \subseteq Ids
  OBVIOUS
<1> HIDE DEF I, S
<1>4. f \in Injection(I, Ids)
  <2>1. f \in [I -> Ids] /\ \A a, b \in I : f[a] = f[b] => a = b
    BY <1>1, <1>2, <1>3
  <2> HIDE DEF f
  <2>2. QED  BY <2>1 DEF Injection, IsInjective
<1> HIDE DEF f
<1>5. IsFiniteSet(I)
  BY <1>4, IdsFinite, FS_Injection
<1>6. PICK cc \in Nat : /\ create_print_name(I, n, p) = Suffixed(n, cc)
                        /\ ~Taken(I, Suffixed(n, cc), p)
  BY <1>5, SuffixFree
<1>7. PrintFor(d, p, n) = Suffixed(n, cc)
  BY <1>6 DEF PrintFor, I
<1>8. ASSUME NEW q \in Ids \ {p}, Created(d, q) PROVE d.peer[q].print # PrintFor(d, p, n)
  <2>1. Entry(d, q) \in I
    BY <1>1, <1>8 DEF S
  <2>2. Entry(d, q).peer # p
    BY <1>2, <1>8
  <2>3. Entry(d, q).name # Suffixed(n, cc)
    BY <1>6, <2>1, <2>2 DEF Taken
  <2>4. QED  BY <1>2, <1>7, <2>3
<1>9. QED  BY <1>7, <1>8 DEF Prints

LEMMA RenamedIndexed ==
  ASSUME NEW d \in Memory, NEW p \in Ids, IndexedBut(d, p), Created(d, p), NEW n \in Names
  PROVE  /\ Indexed(Renamed(d, p, n)) /\ RenamedDone(d, p, n, Renamed(d, p, n))
         /\ \A q \in Ids : Created(Renamed(d, p, n), q) <=> Created(d, q)
<1> DEFINE e == Renamed(d, p, n)
           print == PrintFor(d, p, n)
<1>1. /\ print \in Prints /\ \E cc \in Nat : print = Suffixed(n, cc)
      /\ \A q \in Ids \ {p} : Created(d, q) => d.peer[q].print # print
  BY PrintIsFree
<1>2. RenamedDone(d, p, n, e)
  BY <1>1, RenamedFields
<1> HIDE DEF e
<1>3. d.peer \in [Ids -> PeerType]
  BY MemoryFields
<1>4. e.peer = [d.peer EXCEPT ![p] = [state |-> d.peer[p].state, name |-> n, print |-> print]]
      /\ e.index = {x \in d.index : x.peer # p} \cup {[name |-> print, peer |-> p]}
      /\ e.list = d.list
  BY <1>2 DEF RenamedDone
<1> HIDE DEF print
<1>5. /\ e.peer[p].state = "created" /\ e.peer[p].name = n /\ e.peer[p].print = print
      /\ \A q \in Ids \ {p} : e.peer[q] = d.peer[q]
  BY <1>3, <1>4 DEF Created
<1>6. \A q \in Ids : Created(e, q) <=> Created(d, q)
  BY <1>5 DEF Created
<1>7. Entry(e, p) = [name |-> print, peer |-> p] /\ \A q \in Ids \ {p} : Entry(e, q) = Entry(d, q)
  BY <1>5 DEF Entry
<1>8. e.index = {Entry(e, q) : q \in {q \in Ids : Created(e, q)}}
  <2>1. {x \in d.index : x.peer # p} = {Entry(d, q) : q \in {q \in Ids \ {p} : Created(d, q)}}
    BY DEF IndexedBut
  <2>2. {Entry(e, q) : q \in {q \in Ids : Created(e, q)}}
          = {Entry(d, q) : q \in {q \in Ids \ {p} : Created(d, q)}} \cup {Entry(e, p)}
    BY <1>6, <1>7
  <2>3. QED  BY <1>4, <1>7, <2>1, <2>2
<1>9. \A q, r \in Ids : Created(e, q) /\ Created(e, r)
                        /\ e.peer[q].print = e.peer[r].print => q = r
  <2>1. \A q, r \in Ids \ {p} : Created(d, q) /\ Created(d, r)
                                /\ d.peer[q].print = d.peer[r].print => q = r
    BY DEF IndexedBut
  <2>2. QED  BY <1>1, <1>5, <1>6, <2>1
<1>10. \A q \in Ids :
       IF Created(e, q)
       THEN e.peer[q].name \in Names /\ \E cc \in Nat : e.peer[q].print = Suffixed(e.peer[q].name, cc)
       ELSE e.peer[q].name = NoName /\ e.peer[q].print = NoName
  <2>1. ASSUME NEW q \in Ids \ {p}
        PROVE  IF Created(e, q)
               THEN e.peer[q].name \in Names /\ \E cc \in Nat : e.peer[q].print = Suffixed(e.peer[q].name, cc)
               ELSE e.peer[q].name = NoName /\ e.peer[q].print = NoName
    BY <1>5, <1>6 DEF IndexedBut
  <2>2. QED  BY <1>1, <1>5, <1>6, <2>1
<1>11. \A c \in Chats : ~Created(e, c) => e.list[c] = NoList
  BY <1>4, <1>6, IdsFinite DEF IndexedBut
<1>12. QED  BY <1>2, <1>6, <1>8, <1>9, <1>10, <1>11 DEF Indexed, e

LEMMA GoodFields ==
  ASSUME NEW d, Good(d)
  PROVE  /\ d \in Memory /\ d.fault = "none" /\ Indexed(d)
         /\ \A p \in Ids : IndexedBut(d, p)
         /\ \A q \in Ids : ~Created(d, q) => d.peer[q].name = NoName /\ d.peer[q].print = NoName
<1>1. ASSUME NEW p \in Ids PROVE IndexedBut(d, p)
  <2>1. \A q : Entry(d, q).peer = q
    BY DEF Entry
  <2>2. {e \in d.index : e.peer # p} = {Entry(d, q) : q \in {q \in Ids \ {p} : Created(d, q)}}
    BY <2>1 DEF Good, Indexed
  <2>3. QED  BY <2>2 DEF Good, Indexed, IndexedBut
<1>2. QED  BY <1>1 DEF Good, Indexed

(* What a restart keeps is named alike.                                    *)
LEMMA KeptRenamed ==
  ASSUME NEW d \in Memory, NEW p \in Ids, IndexedBut(d, p), Created(d, p), NEW n \in Names
  PROVE  Kept(Renamed(d, p, n)) = Renamed(Kept(d), p, n)
<1> DEFINE e == Renamed(d, p, n)
           k == Kept(d)
           f == Renamed(k, p, n)
<1>1. KeptDone(d, k)
  BY KeptFields
<1>2. RenamedDone(d, p, n, e) /\ \A q \in Ids : Created(e, q) <=> Created(d, q)
  BY RenamedIndexed
<1> HIDE DEF e, k
<1>3. k \in Memory /\ k.index = d.index /\ Created(k, p) /\ k.list = d.list
      /\ \A q \in Ids : Created(k, q) <=> Created(d, q)
  BY <1>1 DEF KeptDone
<1>4. \A q \in Ids : k.peer[q] = IF Created(d, q) THEN d.peer[q] ELSE Absent
  BY <1>1 DEF KeptDone
<1>5. IndexedBut(k, p)
  <2>1. \A q \in Ids : Created(d, q) => Entry(k, q) = Entry(d, q)
    BY <1>4 DEF Entry
  <2>2. {Entry(k, q) : q \in {q \in Ids \ {p} : Created(k, q)}}
          = {Entry(d, q) : q \in {q \in Ids \ {p} : Created(d, q)}}
    BY <1>3, <2>1
  <2>3. {x \in k.index : x.peer # p} = {Entry(k, q) : q \in {q \in Ids \ {p} : Created(k, q)}}
    BY <1>3, <2>2 DEF IndexedBut
  <2>4. \A q, r \in Ids \ {p} : Created(k, q) /\ Created(k, r)
                                /\ k.peer[q].print = k.peer[r].print => q = r
    BY <1>3, <1>4 DEF IndexedBut
  <2>5. \A q \in Ids \ {p} :
       IF Created(k, q)
       THEN k.peer[q].name \in Names /\ \E cc \in Nat : k.peer[q].print = Suffixed(k.peer[q].name, cc)
       ELSE k.peer[q].name = NoName /\ k.peer[q].print = NoName
    BY <1>3, <1>4 DEF IndexedBut, Absent
  <2>6. \A c \in Chats : ~Created(k, c) => k.list[c] = NoList
    BY <1>3, IdsFinite DEF IndexedBut
  <2>7. QED  BY <2>3, <2>4, <2>5, <2>6 DEF IndexedBut
<1>6. RenamedDone(k, p, n, f)
  BY <1>3, <1>5, RenamedIndexed
<1> HIDE DEF f
<1>7. PrintFor(k, p, n) = PrintFor(d, p, n)
  BY <1>3 DEF PrintFor
<1> DEFINE g == Kept(e)
<1>8. KeptDone(e, g)
  BY <1>2, KeptFields DEF RenamedDone
<1> HIDE DEF g
<1>9. d.peer \in [Ids -> PeerType] /\ k.peer \in [Ids -> PeerType]
  BY <1>3, MemoryFields
<1>10. g.peer = f.peer
  <2> DEFINE P == [state |-> d.peer[p].state, name |-> n, print |-> PrintFor(d, p, n)]
  <2>1. k.peer[p] = d.peer[p]
    BY <1>3, <1>4
  <2>2. f.peer = [k.peer EXCEPT ![p] = P] /\ e.peer = [d.peer EXCEPT ![p] = P]
    BY <1>2, <1>6, <1>7, <2>1 DEF RenamedDone
  <2> HIDE DEF P
  <2>3. g.peer = [q \in Ids |-> IF Created(d, q) THEN e.peer[q] ELSE Absent]
    BY <1>2, <1>8 DEF KeptDone
  <2>4. f.peer \in [Ids -> PeerType]
    BY <1>6, MemoryFields DEF RenamedDone
  <2>5. \A q \in Ids : f.peer[q] = IF Created(d, q) THEN e.peer[q] ELSE Absent
    BY <1>3, <1>4, <1>9, <2>2
  <2>6. QED  BY <2>3, <2>4, <2>5
<1>11. /\ g \in Memory /\ f \in Memory /\ g.user = f.user /\ g.chat = f.chat
       /\ g.list = f.list /\ g.index = f.index /\ g.our_id = f.our_id /\ g.fault = f.fault
  BY <1>1, <1>2, <1>6, <1>7, <1>8 DEF KeptDone, RenamedDone
<1>12. g = f
  BY <1>10, <1>11, SameMemory
<1>13. QED  BY <1>12 DEF g, f, e, k

(* A peer that memory has under a name, others as they were.               *)
NamedDone(d, p, e) ==
  /\ Good(e) /\ Created(e, p)
  /\ \A q \in Ids : Created(e, q) <=> Created(d, q) \/ q = p
  /\ e.user = d.user /\ e.chat = d.chat /\ e.list = d.list /\ e.our_id = d.our_id

LEMMA RenameRight ==
  ASSUME NEW d, Good(d), NEW p \in Ids, Created(d, p), NEW n \in Names
  PROVE  /\ NamedDone(d, p, Renamed(d, p, n))
         /\ Kept(Renamed(d, p, n)) = Renamed(Kept(d), p, n)
<1> DEFINE e == Renamed(d, p, n)
<1>1. d \in Memory /\ IndexedBut(d, p) /\ d.fault = "none"
  BY GoodFields
<1>2. Kept(e) = Renamed(Kept(d), p, n)
  BY <1>1, KeptRenamed
<1>3. Indexed(e) /\ RenamedDone(d, p, n, e) /\ \A q \in Ids : Created(e, q) <=> Created(d, q)
  BY <1>1, RenamedIndexed
<1> HIDE DEF e
<1>4. NamedDone(d, p, e)
  BY <1>1, <1>3 DEF NamedDone, RenamedDone, Good
<1>5. QED  BY <1>2, <1>4 DEF e

MarkedDone(d, p, e) ==
  /\ e \in Memory
  /\ e.peer = [d.peer EXCEPT ![p] = [state |-> "created", name |-> d.peer[p].name,
                                     print |-> d.peer[p].print]]
  /\ e.index = d.index /\ e.user = d.user /\ e.chat = d.chat /\ e.list = d.list
  /\ e.our_id = d.our_id /\ e.fault = d.fault

LEMMA MarkedFields ==
  ASSUME NEW d \in Memory, NEW p \in Ids
  PROVE  MarkedDone(d, p, [d EXCEPT !.peer[p].state = "created"])
<1> DEFINE e == [d EXCEPT !.peer[p].state = "created"]
<1>1. e = [d EXCEPT !.peer[p].state = "created"]
  OBVIOUS
<1> HIDE DEF e
<1>2. d.peer \in [Ids -> PeerType]
  BY MemoryFields
<1>3. e.peer = [d.peer EXCEPT ![p] = [state |-> "created", name |-> d.peer[p].name,
                                     print |-> d.peer[p].print]]
  BY <1>1, <1>2 DEF Memory, PeerType
<1>4. e.peer \in [Ids -> PeerType]
  BY <1>2, <1>3 DEF PeerType
<1>5. /\ e.index = d.index /\ e.user = d.user /\ e.chat = d.chat /\ e.list = d.list
      /\ e.our_id = d.our_id /\ e.fault = d.fault
      /\ e = [peer |-> e.peer, user |-> e.user, chat |-> e.chat, list |-> e.list,
             index |-> e.index, our_id |-> e.our_id, fault |-> e.fault]
  BY <1>1 DEF Memory
<1>6. e \in Memory
  BY <1>4, <1>5, MemoryFields DEF Memory
<1>7. MarkedDone(d, p, e)
  BY <1>3, <1>5, <1>6 DEF MarkedDone
<1>8. QED  BY <1>7 DEF e

LEMMA CreateRight ==
  ASSUME NEW d, Good(d), NEW p \in Ids, ~Created(d, p), NEW n \in Names
  PROVE  /\ NamedDone(d, p, Create(d, p, n))
         /\ Kept(Create(d, p, n)) = Create(Kept(d), p, n)
<1> DEFINE marked == [d EXCEPT !.peer[p].state = "created"]
           k == Kept(d)
           kept == [k EXCEPT !.peer[p].state = "created"]
           e == Create(d, p, n)
<1>1. /\ d \in Memory /\ d.fault = "none" /\ IndexedBut(d, p)
      /\ d.peer[p].name = NoName /\ d.peer[p].print = NoName
  BY GoodFields
<1>2. MarkedDone(d, p, marked)
  BY <1>1, MarkedFields
<1>3. KeptDone(d, k)
  BY <1>1, KeptFields
<1>4. MarkedDone(k, p, kept)
  <2>1. k \in Memory
    BY <1>3 DEF KeptDone
  <2> HIDE DEF k
  <2>2. QED  BY <2>1, MarkedFields
<1>5. e = Renamed(marked, p, n)
  BY DEF Create
<1>6. Create(k, p, n) = Renamed(kept, p, n)
  <2>1. ~Created(k, p)
    BY <1>3 DEF KeptDone
  <2> HIDE DEF k
  <2>2. QED  BY <2>1 DEF Create
<1> HIDE DEF marked, kept, k, e
<1>7. d.peer \in [Ids -> PeerType] /\ k.peer \in [Ids -> PeerType]
  BY <1>1, <1>3, MemoryFields DEF KeptDone
<1>8. /\ Created(marked, p) /\ \A q \in Ids \ {p} : marked.peer[q] = d.peer[q]
      /\ \A q \in Ids \ {p} : Created(marked, q) <=> Created(d, q)
      /\ marked.peer[p] = [state |-> "created", name |-> NoName, print |-> NoName]
  BY <1>1, <1>2, <1>7 DEF MarkedDone, Created
<1>9. IndexedBut(marked, p)
  <2>1. marked.index = d.index /\ marked.list = d.list
    BY <1>2 DEF MarkedDone
  <2>2. \A q \in Ids \ {p} : Entry(marked, q) = Entry(d, q)
    BY <1>8 DEF Entry
  <2>3. {Entry(marked, q) : q \in {q \in Ids \ {p} : Created(marked, q)}}
          = {Entry(d, q) : q \in {q \in Ids \ {p} : Created(d, q)}}
    BY <1>8, <2>2
  <2>4. {x \in marked.index : x.peer # p}
          = {Entry(marked, q) : q \in {q \in Ids \ {p} : Created(marked, q)}}
    BY <1>1, <2>1, <2>3 DEF IndexedBut
  <2>5. \A c \in Chats : ~Created(marked, c) => marked.list[c] = NoList
    BY <1>1, <1>8, <2>1, IdsFinite DEF IndexedBut
  <2>6. QED  BY <1>1, <1>8, <2>4, <2>5 DEF IndexedBut
<1>10. /\ Indexed(e) /\ RenamedDone(marked, p, n, e)
       /\ \A q \in Ids : Created(e, q) <=> Created(marked, q)
  BY <1>2, <1>5, <1>8, <1>9, RenamedIndexed DEF MarkedDone
<1>11. NamedDone(d, p, e)
  BY <1>1, <1>2, <1>8, <1>10 DEF NamedDone, RenamedDone, MarkedDone, Good
<1>12. Kept(marked) = kept
  <2> DEFINE g == Kept(marked)
  <2>1. KeptDone(marked, g)
    BY <1>2, KeptFields DEF MarkedDone
  <2> HIDE DEF g
  <2>2. k.peer[p] = Absent /\ \A q \in Ids \ {p} : k.peer[q] = IF Created(d, q) THEN d.peer[q] ELSE Absent
    BY <1>3 DEF KeptDone
  <2>3. \A q \in Ids : g.peer[q] = kept.peer[q]
    BY <1>4, <1>7, <1>8, <2>1, <2>2 DEF KeptDone, MarkedDone, Absent
  <2>4. g.peer = kept.peer
    <3>1. g \in Memory /\ kept \in Memory
      BY <1>4, <2>1 DEF KeptDone, MarkedDone
    <3>2. g.peer \in [Ids -> PeerType] /\ kept.peer \in [Ids -> PeerType]
      BY <3>1, MemoryFields
    <3>3. QED  BY <2>3, <3>2
  <2>5. /\ g \in Memory /\ kept \in Memory /\ g.user = kept.user /\ g.chat = kept.chat
        /\ g.list = kept.list /\ g.index = kept.index /\ g.our_id = kept.our_id
        /\ g.fault = kept.fault
    BY <1>2, <1>3, <1>4, <2>1 DEF KeptDone, MarkedDone
  <2>6. g = kept
    BY <2>4, <2>5, SameMemory
  <2>7. QED  BY <2>6 DEF g
<1>13. Kept(e) = Renamed(Kept(marked), p, n)
  BY <1>2, <1>5, <1>8, <1>9, KeptRenamed DEF MarkedDone
<1>14. Kept(e) = Create(k, p, n)
  BY <1>6, <1>12, <1>13
<1>15. QED  BY <1>11, <1>14 DEF e, k

-----------------------------------------------------------------------------
(* The records. *)

(* r is applied to a sound memory without a fault, and alike to what a     *)
(* restart keeps of it.                                                    *)
Logged(d, r) ==
  /\ Good(Replay(d, r)) /\ Kept(Replay(d, r)) = Replay(Kept(d), r)
  /\ \A q \in Ids : Created(d, q) => Created(Replay(d, r), q)

(* Records that change no name.                                            *)
LEMMA SamePeers ==
  ASSUME NEW d, Good(d), NEW e \in Memory, NEW f \in Memory,
         e.peer = d.peer, f.peer = Kept(d).peer, e.index = d.index, f.index = d.index,
         e.user = f.user, e.chat = f.chat, e.list = f.list, e.our_id = f.our_id,
         e.fault = "none", f.fault = "none",
         \A c \in Chats : ~Created(d, c) => e.list[c] = NoList
  PROVE  Good(e) /\ Kept(e) = f /\ \A q \in Ids : Created(e, q) <=> Created(d, q)
<1> DEFINE g == Kept(e)
           k == Kept(d)
<1>1. \A q \in Ids : Created(e, q) <=> Created(d, q)
  BY DEF Created
<1>2. \A q : Entry(e, q) = Entry(d, q)
  BY DEF Entry
<1>3. Good(e)
  <2>1. Indexed(d)
    BY DEF Good
  <2>2. e.index = {Entry(e, q) : q \in {q \in Ids : Created(e, q)}}
    BY <1>1, <1>2, <2>1 DEF Indexed
  <2>3. \A c \in Chats : ~Created(e, c) => e.list[c] = NoList
    BY <1>1, IdsFinite
  <2>4. Indexed(e)
    BY <1>1, <2>1, <2>2, <2>3 DEF Indexed
  <2>5. QED  BY <2>4 DEF Good
<1>4. KeptDone(e, g) /\ KeptDone(d, k)
  BY GoodFields, KeptFields
<1>5. f.peer = k.peer
  OBVIOUS
<1> HIDE DEF g, k
<1>6. g.peer = f.peer
  BY <1>1, <1>4, <1>5 DEF KeptDone
<1>7. g = f
  BY <1>4, <1>6, SameMemory DEF KeptDone
<1>8. QED  BY <1>1, <1>3, <1>7 DEF g

(* A field of a memory set anew. *)
UserDone(d, U, e) ==
  /\ e \in Memory /\ e.user = U /\ e.peer = d.peer /\ e.chat = d.chat
  /\ e.list = d.list /\ e.index = d.index /\ e.our_id = d.our_id /\ e.fault = d.fault

LEMMA UserFields ==
  ASSUME NEW d \in Memory, NEW u \in Users
  PROVE  /\ UserDone(d, [d.user EXCEPT ![u].deleted = TRUE], [d EXCEPT !.user[u].deleted = TRUE])
         /\ \A b \in BOOLEAN : UserDone(d, [d.user EXCEPT ![u].contact = b],
                                        [d EXCEPT !.user[u].contact = b])
         /\ \A n \in Names : UserDone(d, [d.user EXCEPT ![u].real = n],
                                      [d EXCEPT !.user[u].real = n])
<1>1. d.user \in [Users -> UserType]
  BY MemoryFields
<1>2. /\ [d.user EXCEPT ![u].deleted = TRUE] \in [Users -> UserType]
      /\ \A b \in BOOLEAN : [d.user EXCEPT ![u].contact = b] \in [Users -> UserType]
      /\ \A n \in Names : [d.user EXCEPT ![u].real = n] \in [Users -> UserType]
  BY <1>1 DEF UserType
<1>3. ASSUME NEW U \in [Users -> UserType], NEW e, e = [d EXCEPT !.user = U]
      PROVE  UserDone(d, U, e)
  BY <1>3 DEF UserDone, Memory
<1>4. [d EXCEPT !.user[u].deleted = TRUE] = [d EXCEPT !.user = [d.user EXCEPT ![u].deleted = TRUE]]
  BY DEF Memory
<1>5. \A b \in BOOLEAN : [d EXCEPT !.user[u].contact = b]
                           = [d EXCEPT !.user = [d.user EXCEPT ![u].contact = b]]
  BY DEF Memory
<1>6. \A n \in Names : [d EXCEPT !.user[u].real = n]
                         = [d EXCEPT !.user = [d.user EXCEPT ![u].real = n]]
  BY DEF Memory
<1>7. QED  BY <1>2, <1>3, <1>4, <1>5, <1>6

LEMMA UserLogged ==
  ASSUME NEW d, Good(d), NEW e, NEW f, NEW U, UserDone(d, U, e), UserDone(Kept(d), U, f)
  PROVE  Good(e) /\ Kept(e) = f /\ \A q \in Ids : Created(e, q) <=> Created(d, q)
<1>1. KeptDone(d, Kept(d)) /\ d.fault = "none"
  BY GoodFields, KeptFields
<1>2. \A c \in Chats : ~Created(d, c) => d.list[c] = NoList
  BY DEF Good, Indexed
<1>3. /\ e \in Memory /\ e.peer = d.peer /\ e.user = U /\ e.chat = d.chat /\ e.list = d.list
      /\ e.index = d.index /\ e.our_id = d.our_id /\ e.fault = d.fault
  BY DEF UserDone
<1>4. /\ f \in Memory /\ f.peer = Kept(d).peer /\ f.user = U /\ f.chat = Kept(d).chat
      /\ f.list = Kept(d).list /\ f.index = Kept(d).index /\ f.our_id = Kept(d).our_id
      /\ f.fault = Kept(d).fault
  BY DEF UserDone
<1>5. /\ Kept(d).chat = d.chat /\ Kept(d).list = d.list /\ Kept(d).index = d.index
      /\ Kept(d).our_id = d.our_id /\ Kept(d).fault = d.fault
  BY <1>1 DEF KeptDone
<1>6. QED  BY <1>1, <1>2, <1>3, <1>4, <1>5, SamePeers

LEMMA UserRecords ==
  ASSUME NEW d, Good(d), NEW r, r.of \in Users, Created(d, r.of),
         \/ r.op = "user_delete"
         \/ r.op = "friend" /\ r.contact \in BOOLEAN
         \/ r.op = "full_name" /\ r.name \in Names
  PROVE  Logged(d, r) /\ Replay(d, r).list = d.list
<1> DEFINE u == r.of
           k == Kept(d)
           e == Replay(d, r)
           f == Replay(k, r)
<1>1. d \in Memory /\ KeptDone(d, k) /\ u \in Ids
  BY GoodFields, KeptFields, IdsFinite
<1>2. k \in Memory /\ k.user = d.user /\ Created(k, u)
  BY <1>1 DEF KeptDone
<1> HIDE DEF k
<1>3. d.peer[u].state # "absent" /\ k.peer[u].state # "absent"
  BY <1>2 DEF Created
<1>4. \E U : UserDone(d, U, e) /\ UserDone(k, U, f)
  <2>1. CASE r.op = "user_delete"
    <3>1. e = [d EXCEPT !.user[u].deleted = TRUE] /\ f = [k EXCEPT !.user[u].deleted = TRUE]
      BY <1>3, <2>1 DEF Replay, ReplayUser
    <3> HIDE DEF e, f
    <3>2. QED  BY <1>1, <1>2, <3>1, UserFields
  <2>2. CASE r.op = "friend" /\ r.contact \in BOOLEAN
    <3>1. e = [d EXCEPT !.user[u].contact = r.contact] /\ f = [k EXCEPT !.user[u].contact = r.contact]
      BY <1>3, <2>2 DEF Replay, ReplayUser
    <3> HIDE DEF e, f
    <3>2. QED  BY <1>1, <1>2, <2>2, <3>1, UserFields
  <2>3. CASE r.op = "full_name" /\ r.name \in Names
    <3>1. e = [d EXCEPT !.user[u].real = r.name] /\ f = [k EXCEPT !.user[u].real = r.name]
      BY <1>3, <2>3 DEF Replay, ReplayUser
    <3> HIDE DEF e, f
    <3>2. QED  BY <1>1, <1>2, <2>3, <3>1, UserFields
  <2>4. QED  BY <2>1, <2>2, <2>3
<1> HIDE DEF e, f
<1>5. Good(e) /\ Kept(e) = f /\ \A q \in Ids : Created(e, q) <=> Created(d, q)
  BY <1>4, UserLogged DEF k
<1>6. e.list = d.list
  BY <1>4 DEF UserDone
<1>7. QED  BY <1>5, <1>6 DEF Logged, e, f, k

LEMMA OurIdRecord ==
  ASSUME NEW d, Good(d), NEW r, r.of \in Users, r.op = "our_id"
  PROVE  /\ Logged(d, r) /\ Replay(d, r).list = d.list
         /\ \A q \in Ids : Created(Replay(d, r), q) <=> Created(d, q)
<1> DEFINE u == r.of
           k == Kept(d)
           e == Replay(d, r)
           f == Replay(k, r)
<1>1. d \in Memory /\ KeptDone(d, k) /\ d.fault = "none"
      /\ \A c \in Chats : ~Created(d, c) => d.list[c] = NoList
  BY GoodFields, KeptFields DEF Indexed
<1>2. k \in Memory /\ f.peer = f.peer
  BY <1>1 DEF KeptDone
<1> HIDE DEF k
<1>3. e = [d EXCEPT !.our_id = u] /\ f = [k EXCEPT !.our_id = u]
  BY DEF Replay, ReplayUser
<1> HIDE DEF e, f
<1>4. /\ e \in Memory /\ e.our_id = u /\ e.peer = d.peer /\ e.user = d.user /\ e.chat = d.chat
      /\ e.list = d.list /\ e.index = d.index /\ e.fault = d.fault
      /\ f \in Memory /\ f.our_id = u /\ f.peer = k.peer /\ f.user = k.user /\ f.chat = k.chat
      /\ f.list = k.list /\ f.index = k.index /\ f.fault = k.fault
  BY <1>1, <1>2, <1>3 DEF Memory
<1>5. f.peer = Kept(d).peer
  BY <1>4 DEF k
<1>6. Good(e) /\ Kept(e) = f /\ \A q \in Ids : Created(e, q) <=> Created(d, q)
  BY <1>1, <1>4, <1>5, SamePeers DEF KeptDone
<1>7. QED  BY <1>4, <1>6 DEF Logged, e, f, k

LEMMA NameRecord ==
  ASSUME NEW d, Good(d), NEW r, r.of \in Ids, Created(d, r.of), r.op = "name", r.name \in Names
  PROVE  Logged(d, r) /\ Replay(d, r).list = d.list
<1>1. KeptDone(d, Kept(d))
  BY GoodFields, KeptFields
<1>2. Created(Kept(d), r.of)
  BY <1>1 DEF KeptDone
<1>3. Replay(d, r) = Renamed(d, r.of, r.name)
  BY DEF Replay, ReplayUser, ReplayChat, Created
<1>4. Replay(Kept(d), r) = Renamed(Kept(d), r.of, r.name)
  BY <1>2 DEF Replay, ReplayUser, ReplayChat, Created
<1>5. NamedDone(d, r.of, Renamed(d, r.of, r.name))
      /\ Kept(Renamed(d, r.of, r.name)) = Renamed(Kept(d), r.of, r.name)
  BY RenameRight
<1>6. QED  BY <1>3, <1>4, <1>5 DEF Logged, NamedDone

LEMMA NewUserRecord ==
  ASSUME NEW d, Good(d), NEW r, r.of \in Users, ~Created(d, r.of), r.op = "new_user",
         r.name \in Names, r.contact \in BOOLEAN
  PROVE  Logged(d, r) /\ Replay(d, r).list = d.list /\ Created(Replay(d, r), r.of)
<1> DEFINE u == r.of
           k == Kept(d)
           d1 == Create(d, u, r.name)
           k1 == Create(k, u, r.name)
           e == Replay(d, r)
           f == Replay(k, r)
<1>1. u \in Ids
  BY IdsFinite
<1>2. NamedDone(d, u, d1) /\ Kept(d1) = k1
  BY <1>1, CreateRight
<1>3. d1 \in Memory /\ Good(d1) /\ KeptDone(d1, k1)
  BY <1>2, KeptFields, GoodFields DEF NamedDone
<1>4. e = [d1 EXCEPT !.user[u].contact = r.contact] /\ f = [k1 EXCEPT !.user[u].contact = r.contact]
  BY DEF Replay, ReplayUser
<1> HIDE DEF e, f, d1, k1, k
<1>5. k1 \in Memory /\ k1.user = d1.user
  BY <1>3 DEF KeptDone
<1> DEFINE U == [d1.user EXCEPT ![u].contact = r.contact]
<1>6. UserDone(d1, U, e) /\ UserDone(k1, U, f)
  BY <1>3, <1>4, <1>5, UserFields
<1> HIDE DEF U
<1>7. Good(e) /\ Kept(e) = f /\ \A q \in Ids : Created(e, q) <=> Created(d1, q)
  BY <1>2, <1>3, <1>6, UserLogged
<1>8. e.list = d.list
  BY <1>2, <1>6 DEF UserDone, NamedDone
<1>9. \A q \in Ids : Created(d, q) \/ q = u => Created(e, q)
  BY <1>2, <1>7 DEF NamedDone
<1>10. QED  BY <1>1, <1>7, <1>8, <1>9 DEF Logged, e, f, k

ChatDone(d, C, e) ==
  /\ e \in Memory /\ e.chat = C /\ e.peer = d.peer /\ e.user = d.user
  /\ e.list = d.list /\ e.index = d.index /\ e.our_id = d.our_id /\ e.fault = d.fault

ChatsVersioned(C, c, v, n) == [C EXCEPT ![c].version = v, ![c].users_num = n]
Versioned(d, c, v, n) == [d EXCEPT !.chat[c].version = v, !.chat[c].users_num = n]

LEMMA ChatFields ==
  ASSUME NEW d \in Memory, NEW c \in Chats
  PROVE  /\ \A t \in ChatType : ChatDone(d, [d.chat EXCEPT ![c] = t], [d EXCEPT !.chat[c] = t])
         /\ \A b \in BOOLEAN : ChatDone(d, [d.chat EXCEPT ![c].forbidden = b],
                                        [d EXCEPT !.chat[c].forbidden = b])
         /\ \A v, n \in Int : ChatDone(d, ChatsVersioned(d.chat, c, v, n), Versioned(d, c, v, n))
<1>1. d.chat \in [Chats -> ChatType]
  BY MemoryFields
<1>2. /\ \A t \in ChatType : [d.chat EXCEPT ![c] = t] \in [Chats -> ChatType]
      /\ \A b \in BOOLEAN : [d.chat EXCEPT ![c].forbidden = b] \in [Chats -> ChatType]
      /\ \A v, n \in Int : [d.chat EXCEPT ![c].version = v, ![c].users_num = n]
                             \in [Chats -> ChatType]
  BY <1>1 DEF ChatType
<1>3. ASSUME NEW C \in [Chats -> ChatType], NEW e, e = [d EXCEPT !.chat = C]
      PROVE  ChatDone(d, C, e)
  BY <1>3 DEF ChatDone, Memory
<1>4. \A t : [d EXCEPT !.chat[c] = t] = [d EXCEPT !.chat = [d.chat EXCEPT ![c] = t]]
  BY DEF Memory
<1>5. \A b : [d EXCEPT !.chat[c].forbidden = b]
               = [d EXCEPT !.chat = [d.chat EXCEPT ![c].forbidden = b]]
  BY DEF Memory
<1>6. \A v, n : [d EXCEPT !.chat[c].version = v, !.chat[c].users_num = n]
                  = [d EXCEPT !.chat = [d.chat EXCEPT ![c].version = v, ![c].users_num = n]]
  BY DEF Memory
<1>7. \A t \in ChatType : ChatDone(d, [d.chat EXCEPT ![c] = t], [d EXCEPT !.chat[c] = t])
  BY <1>2, <1>3, <1>4
<1>8. \A b \in BOOLEAN : ChatDone(d, [d.chat EXCEPT ![c].forbidden = b],
                                 [d EXCEPT !.chat[c].forbidden = b])
  BY <1>2, <1>3, <1>5
<1>9. ASSUME NEW v \in Int, NEW n \in Int
      PROVE  ChatDone(d, ChatsVersioned(d.chat, c, v, n), Versioned(d, c, v, n))
  <2>1. /\ ChatsVersioned(d.chat, c, v, n) \in [Chats -> ChatType]
        /\ Versioned(d, c, v, n) = [d EXCEPT !.chat = ChatsVersioned(d.chat, c, v, n)]
    BY <1>2, <1>6 DEF ChatsVersioned, Versioned
  <2>2. QED  BY <1>3, <2>1
<1>10. QED  BY <1>7, <1>8, <1>9

LEMMA ChatLogged ==
  ASSUME NEW d, Good(d), NEW e, NEW f, NEW C, ChatDone(d, C, e), ChatDone(Kept(d), C, f)
  PROVE  Good(e) /\ Kept(e) = f /\ \A q \in Ids : Created(e, q) <=> Created(d, q)
<1>1. KeptDone(d, Kept(d)) /\ d.fault = "none"
  BY GoodFields, KeptFields
<1>2. \A c \in Chats : ~Created(d, c) => d.list[c] = NoList
  BY DEF Good, Indexed
<1>3. /\ e \in Memory /\ e.peer = d.peer /\ e.chat = C /\ e.user = d.user /\ e.list = d.list
      /\ e.index = d.index /\ e.our_id = d.our_id /\ e.fault = d.fault
  BY DEF ChatDone
<1>4. /\ f \in Memory /\ f.peer = Kept(d).peer /\ f.chat = C /\ f.user = Kept(d).user
      /\ f.list = Kept(d).list /\ f.index = Kept(d).index /\ f.our_id = Kept(d).our_id
      /\ f.fault = Kept(d).fault
  BY DEF ChatDone
<1>5. /\ Kept(d).user = d.user /\ Kept(d).list = d.list /\ Kept(d).index = d.index
      /\ Kept(d).our_id = d.our_id /\ Kept(d).fault = d.fault
  BY <1>1 DEF KeptDone
<1>6. QED  BY <1>1, <1>2, <1>3, <1>4, <1>5, SamePeers

LEMMA ChatRecords ==
  ASSUME NEW d, Good(d), NEW r, r.of \in Chats, Created(d, r.of),
         \/ r.op = "flags" /\ r.forbidden \in BOOLEAN
         \/ r.op = "version" /\ r.version \in Int /\ r.users_num \in Int
  PROVE  Logged(d, r) /\ Replay(d, r).list = d.list
<1> DEFINE c == r.of
           k == Kept(d)
           e == Replay(d, r)
           f == Replay(k, r)
<1>1. d \in Memory /\ KeptDone(d, k) /\ c \in Ids /\ c \notin Users
  BY GoodFields, KeptFields, IdsFinite
<1>2. k \in Memory /\ k.chat = d.chat /\ Created(k, c)
  BY <1>1 DEF KeptDone
<1> HIDE DEF k
<1>3. \E C : ChatDone(d, C, e) /\ ChatDone(k, C, f)
  <2>1. CASE r.op = "flags" /\ r.forbidden \in BOOLEAN
    <3>1. e = [d EXCEPT !.chat[c].forbidden = r.forbidden]
      BY <1>1, <2>1 DEF Replay, ReplayChat
    <3>2. f = [k EXCEPT !.chat[c].forbidden = r.forbidden]
      BY <1>1, <1>2, <2>1 DEF Replay, ReplayChat
    <3> HIDE DEF e, f
    <3>3. QED  BY <1>1, <1>2, <2>1, <3>1, <3>2, ChatFields
  <2>2. CASE r.op = "version" /\ r.version \in Int /\ r.users_num \in Int
    <3>1. e = Versioned(d, c, r.version, r.users_num)
      BY <1>1, <2>2 DEF Replay, ReplayChat, Versioned
    <3>2. f = Versioned(k, c, r.version, r.users_num)
      BY <1>1, <1>2, <2>2 DEF Replay, ReplayChat, Versioned
    <3> HIDE DEF e, f
    <3>3. QED  BY <1>1, <1>2, <2>2, <3>1, <3>2, ChatFields
  <2>3. QED  BY <2>1, <2>2
<1> HIDE DEF e, f
<1>4. Good(e) /\ Kept(e) = f /\ \A q \in Ids : Created(e, q) <=> Created(d, q)
  BY <1>3, ChatLogged DEF k
<1>5. e.list = d.list
  BY <1>3 DEF ChatDone
<1>6. QED  BY <1>4, <1>5 DEF Logged, e, f, k

LEMMA NewChatRecord ==
  ASSUME NEW d, Good(d), NEW r, r.of \in Chats, ~Created(d, r.of), r.op = "chat_create",
         r.name \in Names, r.forbidden \in BOOLEAN, r.version \in Int, r.users_num \in Int
  PROVE  Logged(d, r) /\ Replay(d, r).list = d.list /\ Created(Replay(d, r), r.of)
<1> DEFINE c == r.of
           t == [forbidden |-> r.forbidden, version |-> r.version, users_num |-> r.users_num]
           k == Kept(d)
           d1 == Create(d, c, r.name)
           k1 == Create(k, c, r.name)
           e == Replay(d, r)
           f == Replay(k, r)
<1>1. c \in Ids /\ c \notin Users /\ t \in ChatType
  BY IdsFinite DEF ChatType
<1>2. NamedDone(d, c, d1) /\ Kept(d1) = k1
  BY <1>1, CreateRight
<1>3. d1 \in Memory /\ Good(d1) /\ KeptDone(d1, k1)
  BY <1>2, KeptFields, GoodFields DEF NamedDone
<1>4. e = [d1 EXCEPT !.chat[c] = t] /\ f = [k1 EXCEPT !.chat[c] = t]
  BY <1>1 DEF Replay, ReplayChat
<1> HIDE DEF e, f, d1, k1, k, t
<1>5. k1 \in Memory /\ k1.chat = d1.chat
  BY <1>3 DEF KeptDone
<1> DEFINE C == [d1.chat EXCEPT ![c] = t]
<1>6. ChatDone(d1, C, e) /\ ChatDone(k1, C, f)
  BY <1>1, <1>3, <1>4, <1>5, ChatFields
<1> HIDE DEF C
<1>7. Good(e) /\ Kept(e) = f /\ \A q \in Ids : Created(e, q) <=> Created(d1, q)
  BY <1>2, <1>3, <1>6, ChatLogged
<1>8. e.list = d.list
  BY <1>2, <1>6 DEF ChatDone, NamedDone
<1>9. \A q \in Ids : Created(d, q) \/ q = c => Created(e, q)
  BY <1>2, <1>7 DEF NamedDone
<1>10. QED  BY <1>1, <1>7, <1>8, <1>9 DEF Logged, e, f, k

(* The records of a list of members. *)
LEMMA ListRecord ==
  ASSUME NEW d, Good(d), NEW r, r.of \in Chats, Created(d, r.of), NEW l \in ListType,
         \A m : m.list = d.list /\ Created(m, r.of)
                  => Replay(m, r) = [m EXCEPT !.list[r.of] = l]
  PROVE  Logged(d, r) /\ Replay(d, r).list = [d.list EXCEPT ![r.of] = l]
<1> DEFINE c == r.of
           k == Kept(d)
           e == Replay(d, r)
           f == Replay(k, r)
           L == [d.list EXCEPT ![c] = l]
<1>1. d \in Memory /\ KeptDone(d, k) /\ c \in Ids /\ d.fault = "none"
  BY GoodFields, KeptFields, IdsFinite
<1>2. k \in Memory /\ k.list = d.list /\ Created(k, c)
  BY <1>1 DEF KeptDone
<1> HIDE DEF k
<1>3. e = [d EXCEPT !.list[c] = l] /\ f = [k EXCEPT !.list[c] = l]
  BY <1>2
<1> HIDE DEF e, f
<1>4. d.list \in [Chats -> ListType]
  BY <1>1, MemoryFields
<1>5. L \in [Chats -> ListType]
  BY <1>4
<1>6. /\ e \in Memory /\ e.list = L /\ e.peer = d.peer /\ e.user = d.user /\ e.chat = d.chat
      /\ e.index = d.index /\ e.our_id = d.our_id /\ e.fault = d.fault
  <2>1. e = [d EXCEPT !.list = L]
    BY <1>1, <1>3 DEF Memory
  <2> HIDE DEF L
  <2>2. QED  BY <1>1, <1>5, <2>1 DEF Memory
<1>7. /\ f \in Memory /\ f.list = L /\ f.peer = k.peer /\ f.user = k.user /\ f.chat = k.chat
      /\ f.index = k.index /\ f.our_id = k.our_id /\ f.fault = k.fault
  <2>1. f = [k EXCEPT !.list = L]
    BY <1>2, <1>3 DEF Memory
  <2> HIDE DEF L
  <2>2. QED  BY <1>2, <1>5, <2>1 DEF Memory
<1>8. \A b \in Chats : ~Created(d, b) => e.list[b] = NoList
  BY <1>4, <1>6 DEF Good, Indexed
<1>9. /\ k.user = d.user /\ k.chat = d.chat /\ k.index = d.index
      /\ k.our_id = d.our_id /\ k.fault = d.fault
  BY <1>1 DEF KeptDone
<1>10. f.peer = Kept(d).peer
  BY <1>7 DEF k
<1>11. Good(e) /\ Kept(e) = f /\ \A q \in Ids : Created(e, q) <=> Created(d, q)
  <2> HIDE DEF L
  <2>1. QED  BY <1>1, <1>6, <1>7, <1>8, <1>9, <1>10, SamePeers
<1>12. QED  BY <1>6, <1>11 DEF Logged, e, f, k

ListOf(r) == [version |-> r.version, users |-> r.users, skipped |-> FALSE]
ListWith(d, r) ==
  [version |-> r.version, users |-> d.list[r.of].users \cup {r.user},
   skipped |-> d.list[r.of].skipped \/ r.version # d.list[r.of].version + 1]

LEMMA ParticipantsRecord ==
  ASSUME NEW d, Good(d), NEW r, r.of \in Chats, Created(d, r.of), r.op = "participants",
         r.version \in Nat, r.users \in SUBSET Users
  PROVE  Logged(d, r) /\ Replay(d, r).list = [d.list EXCEPT ![r.of] = ListOf(r)]
<1>1. ListOf(r) \in ListType
  BY DEF ListOf, ListType
<1>2. r.of \notin Users
  BY IdsFinite
<1>3. ASSUME NEW m, m.list = d.list, Created(m, r.of)
      PROVE  Replay(m, r) = [m EXCEPT !.list[r.of] = ListOf(r)]
  BY <1>2, <1>3 DEF Replay, ReplayChat, ListOf
<1>4. QED  BY <1>1, <1>3, ListRecord

LEMMA AddRecordRight ==
  ASSUME NEW d, Good(d), NEW r, r.of \in Chats, Created(d, r.of), r.op = "add",
         r.version \in Nat, r.user \in Users, r.short = FALSE,
         d.list[r.of].version < r.version, r.user \notin d.list[r.of].users
  PROVE  Logged(d, r) /\ Replay(d, r).list = [d.list EXCEPT ![r.of] = ListWith(d, r)]
<1>1. d.list \in [Chats -> ListType]
  BY GoodFields, MemoryFields
<1>2. ListWith(d, r) \in ListType
  BY <1>1 DEF ListWith, ListType
<1>3. r.of \notin Users /\ ~(d.list[r.of].version >= r.version)
  BY <1>1, IdsFinite DEF ListType
<1>4. ASSUME NEW m, m.list = d.list, Created(m, r.of)
      PROVE  Replay(m, r) = [m EXCEPT !.list[r.of] = ListWith(d, r)]
  <2>1. Replay(m, r) = add_chat_participant(m, r)
    BY <1>3, <1>4 DEF Replay, ReplayChat
  <2>2. QED  BY <1>3, <1>4, <2>1 DEF add_chat_participant, ListWith
<1>5. QED  BY <1>2, <1>4, ListRecord

(* An add record that fails an assertion. *)
LEMMA AddRecordFails ==
  ASSUME NEW d, Good(d), NEW r, r.of \in Chats, Created(d, r.of), r.op = "add",
         r.short \in BOOLEAN, r.short \/ r.user \in d.list[r.of].users
  PROVE  Replay(d, r).fault = IF r.short THEN "deletion" ELSE "addition"
<1>1. r.of \notin Users /\ d \in Memory
  BY GoodFields, IdsFinite
<1>2. Replay(d, r) = add_chat_participant(d, r)
  BY <1>1 DEF Replay, ReplayChat
<1>3. add_chat_participant(d, r) = Fault(d, IF r.short THEN "deletion" ELSE "addition")
  BY DEF add_chat_participant
<1>4. QED  BY <1>1, <1>2, <1>3 DEF Fault, Memory

-----------------------------------------------------------------------------
(* The runs of a handler. *)

Strict(i) == i = 1 /\ faults = 0
Run == [mem : Memory, disk : Memory, left : Nat,
        stop : {"none", "crash", "deletion", "addition"}]

(* A run on the packet i.                                                  *)
RunOK(x, i) ==
  /\ x \in Run /\ Good(x.mem) /\ x.disk = Kept(x.mem) /\ ListsRight(x.mem)
  /\ Strict(i) => ListsCome(x.mem) /\ x.stop # "addition"

After(x, y, i) ==
  /\ RunOK(y, i) /\ (Running(y) => Running(x))
  /\ \A q \in Ids : Created(x.mem, q) => Created(y.mem, q)
AfterSame(x, y, i) == After(x, y, i) /\ y.mem.list = x.mem.list

LEMMA AfterItself ==
  ASSUME NEW x, NEW i, RunOK(x, i)
  PROVE  AfterSame(x, x, i)
BY DEF AfterSame, After

LEMMA AfterTwo ==
  ASSUME NEW x, NEW y, NEW z, NEW i, After(x, y, i), After(y, z, i)
  PROVE  /\ After(x, z, i)
         /\ AfterSame(x, y, i) /\ AfterSame(y, z, i) => AfterSame(x, z, i)
BY DEF AfterSame, After

LEMMA ListsSame ==
  ASSUME NEW d, NEW e, e.list = d.list
  PROVE  (ListsRight(d) => ListsRight(e)) /\ (ListsCome(d) => ListsCome(e))
BY DEF ListsRight, ListsCome

LEMMA LogEvent ==
  ASSUME NEW x, NEW i, NEW r, RunOK(x, i),
         Running(x) => /\ Logged(x.mem, r) /\ ListsRight(Replay(x.mem, r))
                       /\ Strict(i) => ListsCome(Replay(x.mem, r))
  PROVE  /\ After(x, add_log_event(x, r), i)
         /\ Running(add_log_event(x, r)) => add_log_event(x, r).mem = Replay(x.mem, r)
         /\ add_log_event(x, r).mem # x.mem => add_log_event(x, r).mem = Replay(x.mem, r)
                                               /\ Running(x)
<1> DEFINE y == add_log_event(x, r)
           m == Replay(x.mem, r)
           n == Replay(x.disk, r)
<1>1. CASE ~Running(x)
  <2>1. y = x
    BY <1>1 DEF add_log_event
  <2> HIDE DEF y
  <2>2. QED  BY <1>1, <2>1, AfterItself DEF y, AfterSame
<1>2. CASE Running(x) /\ x.left = 0
  <2>1. y = [x EXCEPT !.stop = "crash"]
    BY <1>2 DEF add_log_event
  <2> HIDE DEF y
  <2>2. y \in Run /\ y.mem = x.mem /\ y.disk = x.disk /\ y.stop = "crash"
    BY <2>1 DEF RunOK, Run
  <2>3. After(x, y, i) /\ ~Running(y)
    BY <2>2 DEF RunOK, After, Running
  <2>4. QED  BY <2>2, <2>3 DEF y
<1>3. CASE Running(x) /\ x.left # 0
  <2>1. /\ Good(m) /\ Kept(m) = n /\ ListsRight(m) /\ (Strict(i) => ListsCome(m))
        /\ \A q \in Ids : Created(x.mem, q) => Created(m, q)
    BY <1>3 DEF Logged, RunOK
  <2>2. m \in Memory /\ m.fault = "none" /\ KeptDone(m, Kept(m))
    BY <2>1, GoodFields, KeptFields
  <2>3. n \in Memory
    BY <2>1, <2>2 DEF KeptDone
  <2>4. y = [x EXCEPT !.mem = m, !.disk = n, !.left = x.left - 1]
    BY <1>3, <2>2 DEF add_log_event
  <2> HIDE DEF y, m, n
  <2>5. y \in Run /\ y.mem = m /\ y.disk = n /\ y.stop = x.stop
    <3>1. x \in Run /\ m \in Memory
      BY <2>2 DEF RunOK
    <3>2. x.left - 1 \in Nat
      BY <1>3, <3>1 DEF Run
    <3>3. QED  BY <2>3, <2>4, <3>1, <3>2 DEF Run
  <2>6. After(x, y, i)
    BY <1>3, <2>1, <2>5 DEF After, RunOK, Running
  <2>7. QED  BY <1>3, <2>5, <2>6 DEF y, m
<1>4. QED  BY <1>1, <1>2, <1>3

LEMMA LogSame ==
  ASSUME NEW x, NEW i, NEW r, RunOK(x, i),
         Running(x) => Logged(x.mem, r) /\ Replay(x.mem, r).list = x.mem.list
  PROVE  /\ AfterSame(x, add_log_event(x, r), i)
         /\ Running(add_log_event(x, r)) => add_log_event(x, r).mem = Replay(x.mem, r)
<1>1. Running(x) => /\ ListsRight(Replay(x.mem, r))
                    /\ Strict(i) => ListsCome(Replay(x.mem, r))
  BY ListsSame DEF RunOK
<1>2. /\ After(x, add_log_event(x, r), i)
      /\ Running(add_log_event(x, r)) => add_log_event(x, r).mem = Replay(x.mem, r)
      /\ add_log_event(x, r).mem # x.mem => add_log_event(x, r).mem = Replay(x.mem, r)
                                            /\ Running(x)
  BY <1>1, LogEvent
<1>3. QED  BY <1>2 DEF AfterSame

LEMMA LogFails ==
  ASSUME NEW x, NEW i, NEW r, RunOK(x, i), Running(x),
         Replay(x.mem, r).fault \in {"deletion", "addition"},
         Strict(i) => Replay(x.mem, r).fault # "addition"
  PROVE  AfterSame(x, add_log_event(x, r), i) /\ ~Running(add_log_event(x, r))
<1> DEFINE y == add_log_event(x, r)
           fault == Replay(x.mem, r).fault
<1>1. y = [x EXCEPT !.stop = "crash"] \/ y = [x EXCEPT !.stop = fault]
  BY DEF add_log_event
<1> HIDE DEF y, fault
<1>2. y \in Run /\ y.mem = x.mem /\ y.disk = x.disk /\ y.stop \in {"crash", fault}
  BY <1>1 DEF RunOK, Run, fault
<1>3. AfterSame(x, y, i) /\ ~Running(y)
  BY <1>2 DEF AfterSame, After, RunOK, Running, fault
<1>4. QED  BY <1>3 DEF y

LEMMA RunFields ==
  ASSUME NEW x, NEW i, RunOK(x, i)
  PROVE  /\ x \in Run /\ Good(x.mem) /\ x.mem \in Memory
         /\ x.mem.peer \in [Ids -> PeerType] /\ x.mem.list \in [Chats -> ListType]
         /\ \A p \in Ids : Created(x.mem, p) => x.mem.peer[p].state # "absent"
BY GoodFields, MemoryFields DEF RunOK, Created

LEMMA OurIdStep ==
  ASSUME NEW x, NEW i, RunOK(x, i), NEW u \in Users
  PROVE  /\ AfterSame(x, bl_do_set_our_id(x, u), i)
         /\ \A q \in Ids : Running(bl_do_set_our_id(x, u)) =>
              (Created(bl_do_set_our_id(x, u).mem, q) <=> Created(x.mem, q))
<1> DEFINE r == [op |-> "our_id", of |-> u]
<1>1. r.of \in Users /\ r.op = "our_id"
  OBVIOUS
<1>2. bl_do_set_our_id(x, u) = add_log_event(x, r)
  BY DEF bl_do_set_our_id
<1> HIDE DEF r
<1>3. /\ Logged(x.mem, r) /\ Replay(x.mem, r).list = x.mem.list
      /\ \A q \in Ids : Created(Replay(x.mem, r), q) <=> Created(x.mem, q)
  BY <1>1, RunFields, OurIdRecord
<1>4. QED  BY <1>2, <1>3, LogSame

LEMMA NewUserStep ==
  ASSUME NEW x, NEW i, RunOK(x, i), NEW u \in Users, NEW n \in Names, NEW b \in BOOLEAN,
         Running(x) => ~Created(x.mem, u)
  PROVE  /\ AfterSame(x, bl_do_new_user(x, u, n, b), i)
         /\ Running(bl_do_new_user(x, u, n, b)) => Created(bl_do_new_user(x, u, n, b).mem, u)
<1> DEFINE r == [op |-> "new_user", of |-> u, name |-> n, contact |-> b]
<1>1. r.of = u /\ r.op = "new_user" /\ r.name \in Names /\ r.contact \in BOOLEAN
  OBVIOUS
<1>2. bl_do_new_user(x, u, n, b) = add_log_event(x, r)
  BY DEF bl_do_new_user
<1> HIDE DEF r
<1>3. Running(x) => Logged(x.mem, r) /\ Replay(x.mem, r).list = x.mem.list
                    /\ Created(Replay(x.mem, r), u)
  BY <1>1, RunFields, NewUserRecord
<1>4. /\ AfterSame(x, add_log_event(x, r), i)
      /\ Running(add_log_event(x, r)) => add_log_event(x, r).mem = Replay(x.mem, r)
  BY <1>3, LogSame
<1>5. QED  BY <1>2, <1>3, <1>4 DEF AfterSame, After

LEMMA UserSteps ==
  ASSUME NEW x, NEW i, RunOK(x, i), NEW u \in Users, Running(x) => Created(x.mem, u)
  PROVE  /\ AfterSame(x, bl_do_user_delete(x, u), i)
         /\ \A b \in BOOLEAN : AfterSame(x, bl_do_set_user_friend(x, u, b), i)
         /\ \A n \in Names : AfterSame(x, bl_do_set_user_real_name(x, u, n), i)
<1>1. AfterSame(x, x, i) /\ Good(x.mem)
  BY AfterItself, RunFields
<1>2. ASSUME NEW r, r.of = u, \/ r.op = "user_delete"
                              \/ r.op = "friend" /\ r.contact \in BOOLEAN
                              \/ r.op = "full_name" /\ r.name \in Names
      PROVE  \A same \in BOOLEAN : AfterSame(x, LogUnless(x, same, r), i)
  <2>1. Running(x) => Logged(x.mem, r) /\ Replay(x.mem, r).list = x.mem.list
    BY <1>1, <1>2, UserRecords
  <2>2. AfterSame(x, add_log_event(x, r), i)
    BY <2>1, LogSame
  <2>3. QED  BY <1>1, <2>2 DEF LogUnless
<1>3. AfterSame(x, bl_do_user_delete(x, u), i)
  <2> DEFINE r == [op |-> "user_delete", of |-> u]
             same == x.mem.user[u].deleted
  <2>1. r.of = u /\ r.op = "user_delete"
    OBVIOUS
  <2>2. bl_do_user_delete(x, u) = LogUnless(x, same, r)
    BY DEF bl_do_user_delete
  <2>3. same \in BOOLEAN
    BY RunFields, MemoryFields DEF UserType
  <2> HIDE DEF r, same
  <2>4. QED  BY <1>2, <2>1, <2>2, <2>3
<1>4. ASSUME NEW b \in BOOLEAN PROVE AfterSame(x, bl_do_set_user_friend(x, u, b), i)
  <2> DEFINE r == [op |-> "friend", of |-> u, contact |-> b]
             same == x.mem.user[u].contact = b
  <2>1. r.of = u /\ r.op = "friend" /\ r.contact \in BOOLEAN
    OBVIOUS
  <2>2. bl_do_set_user_friend(x, u, b) = LogUnless(x, same, r)
    BY DEF bl_do_set_user_friend
  <2>3. same \in BOOLEAN
    OBVIOUS
  <2> HIDE DEF r, same
  <2>4. QED  BY <1>2, <2>1, <2>2, <2>3
<1>5. ASSUME NEW n \in Names PROVE AfterSame(x, bl_do_set_user_real_name(x, u, n), i)
  <2> DEFINE r == [op |-> "full_name", of |-> u, name |-> n]
             same == x.mem.user[u].real = n
  <2>1. r.of = u /\ r.op = "full_name" /\ r.name \in Names
    OBVIOUS
  <2>2. bl_do_set_user_real_name(x, u, n) = LogUnless(x, same, r)
    BY DEF bl_do_set_user_real_name
  <2>3. same \in BOOLEAN
    OBVIOUS
  <2> HIDE DEF r, same
  <2>4. QED  BY <1>2, <2>1, <2>2, <2>3
<1>6. QED  BY <1>3, <1>4, <1>5

LEMMA NameStep ==
  ASSUME NEW x, NEW i, RunOK(x, i), NEW p \in Ids, NEW n \in Names,
         Running(x) => Created(x.mem, p)
  PROVE  AfterSame(x, bl_do_set_name(x, p, n), i)
<1> DEFINE r == [op |-> "name", of |-> p, name |-> n]
           same == x.mem.peer[p].name = n
<1>1. r.of = p /\ r.op = "name" /\ r.name = n
  OBVIOUS
<1>2. bl_do_set_name(x, p, n) = LogUnless(x, same, r)
  BY DEF bl_do_set_name
<1> HIDE DEF r, same
<1>3. Running(x) => Logged(x.mem, r) /\ Replay(x.mem, r).list = x.mem.list
  BY <1>1, RunFields, NameRecord
<1>4. AfterSame(x, add_log_event(x, r), i) /\ AfterSame(x, x, i)
  BY <1>3, LogSame, AfterItself
<1>5. QED  BY <1>2, <1>4 DEF LogUnless

LEMMA NewChatStep ==
  ASSUME NEW x, NEW i, RunOK(x, i), NEW c \in Chats, NEW n \in Names, NEW b \in BOOLEAN,
         NEW users_num \in Int, NEW version \in Int, Running(x) => ~Created(x.mem, c)
  PROVE  /\ AfterSame(x, bl_do_create_chat(x, c, n, b, users_num, version), i)
         /\ Running(bl_do_create_chat(x, c, n, b, users_num, version)) =>
              Created(bl_do_create_chat(x, c, n, b, users_num, version).mem, c)
<1> DEFINE r == [op |-> "chat_create", of |-> c, name |-> n, forbidden |-> b,
                 users_num |-> users_num, version |-> version]
<1>1. /\ r.of = c /\ r.op = "chat_create" /\ r.name \in Names /\ r.forbidden \in BOOLEAN
      /\ r.users_num \in Int /\ r.version \in Int
  OBVIOUS
<1>2. bl_do_create_chat(x, c, n, b, users_num, version) = add_log_event(x, r)
  BY DEF bl_do_create_chat
<1> HIDE DEF r
<1>3. Running(x) => Logged(x.mem, r) /\ Replay(x.mem, r).list = x.mem.list
                    /\ Created(Replay(x.mem, r), c)
  BY <1>1, RunFields, NewChatRecord
<1>4. /\ AfterSame(x, add_log_event(x, r), i)
      /\ Running(add_log_event(x, r)) => add_log_event(x, r).mem = Replay(x.mem, r)
  BY <1>3, LogSame
<1>5. Running(add_log_event(x, r)) => Created(add_log_event(x, r).mem, c)
  BY <1>3, <1>4 DEF AfterSame, After
<1>6. QED  BY <1>2, <1>4, <1>5

LEMMA ChatSteps ==
  ASSUME NEW x, NEW i, RunOK(x, i), NEW c \in Chats, Running(x) => Created(x.mem, c)
  PROVE  /\ \A b \in BOOLEAN : AfterSame(x, bl_do_chat_forbid(x, c, b), i)
         /\ \A v, n \in Int : AfterSame(x, bl_do_set_chat_version(x, c, v, n), i)
<1>1. AfterSame(x, x, i) /\ Good(x.mem)
  BY AfterItself, RunFields
<1>2. ASSUME NEW r, r.of = c, \/ r.op = "flags" /\ r.forbidden \in BOOLEAN
                              \/ r.op = "version" /\ r.version \in Int /\ r.users_num \in Int
      PROVE  \A same \in BOOLEAN : AfterSame(x, LogUnless(x, same, r), i)
  <2>1. Running(x) => Logged(x.mem, r) /\ Replay(x.mem, r).list = x.mem.list
    BY <1>1, <1>2, ChatRecords
  <2>2. AfterSame(x, add_log_event(x, r), i)
    BY <2>1, LogSame
  <2>3. QED  BY <1>1, <2>2 DEF LogUnless
<1>3. ASSUME NEW b \in BOOLEAN PROVE AfterSame(x, bl_do_chat_forbid(x, c, b), i)
  <2> DEFINE r == [op |-> "flags", of |-> c, forbidden |-> b]
             same == x.mem.chat[c].forbidden = b
  <2>1. r.of = c /\ r.op = "flags" /\ r.forbidden \in BOOLEAN
    OBVIOUS
  <2>2. bl_do_chat_forbid(x, c, b) = LogUnless(x, same, r)
    BY DEF bl_do_chat_forbid
  <2>3. same \in BOOLEAN
    OBVIOUS
  <2> HIDE DEF r, same
  <2>4. QED  BY <1>2, <2>1, <2>2, <2>3
<1>4. ASSUME NEW v \in Int, NEW n \in Int
      PROVE  AfterSame(x, bl_do_set_chat_version(x, c, v, n), i)
  <2> DEFINE r == [op |-> "version", of |-> c, version |-> v, users_num |-> n]
             same == x.mem.chat[c].version >= v
  <2>1. r.of = c /\ r.op = "version" /\ r.version \in Int /\ r.users_num \in Int
    OBVIOUS
  <2>2. bl_do_set_chat_version(x, c, v, n) = LogUnless(x, same, r)
    BY DEF bl_do_set_chat_version
  <2>3. same \in BOOLEAN
    OBVIOUS
  <2> HIDE DEF r, same
  <2>4. QED  BY <1>2, <2>1, <2>2, <2>3
<1>5. QED  BY <1>3, <1>4

-----------------------------------------------------------------------------
(* The lists of members. *)

LEMMA Members ==
  ASSUME ServerOK, NEW c \in Chats
  PROVE  /\ Len(members[c]) \in Nat /\ Len(members[c]) > 0
         /\ \A v \in 1 .. Len(members[c]) : members[c][v] \in SUBSET Users
<1>1. members[c] \in Seq(SUBSET Users) /\ Len(members[c]) > 0
  BY DEF ServerOK
<1>2. QED  BY <1>1, ElementOfSeq, LenProperties

ListStepped(x, y, c, v, i) ==
  After(x, y, i) /\ (Running(y) => y.mem.list[c].version = 0 \/ y.mem.list[c].version >= v)

LEMMA ParticipantsStep ==
  ASSUME ServerOK, NEW x, NEW i, RunOK(x, i), NEW c \in Chats, Running(x) => Created(x.mem, c),
         NEW v \in 1 .. Len(members[c]), Strict(i) => Coming(c, v)
  PROVE  ListStepped(x, bl_do_set_chat_participants(x, c, v, members[c][v]), c, v, i)
<1> DEFINE U == members[c][v]
           r == [op |-> "participants", of |-> c, version |-> v, users |-> U]
           y == bl_do_set_chat_participants(x, c, v, U)
           m == Replay(x.mem, r)
<1>1. Len(members[c]) \in Nat /\ U \in SUBSET Users
  BY Members
<1>2. v \in Nat /\ v <= Len(members[c])
  BY <1>1
<1>3. r.of = c /\ r.op = "participants" /\ r.version = v /\ r.users = U
  OBVIOUS
<1>4. y = LogUnless(x, x.mem.list[c].version >= v, r)
  BY DEF bl_do_set_chat_participants
<1> HIDE DEF y, r, U
<1>5. x.mem.list \in [Chats -> ListType] /\ Good(x.mem) /\ ListsRight(x.mem)
      /\ (Strict(i) => ListsCome(x.mem))
  BY RunFields DEF RunOK
<1>6. CASE x.mem.list[c].version >= v
  <2>1. y = x
    BY <1>4, <1>6 DEF LogUnless
  <2>2. QED  BY <1>6, <2>1, AfterItself DEF ListStepped, AfterSame, y, U
<1>7. CASE ~(x.mem.list[c].version >= v)
  <2>1. y = add_log_event(x, r)
    BY <1>4, <1>7 DEF LogUnless
  <2>2. Running(x) => Logged(x.mem, r) /\ m.list = [x.mem.list EXCEPT ![c] = ListOf(r)]
    BY <1>1, <1>2, <1>3, <1>5, ParticipantsRecord
  <2> HIDE DEF m
  <2>3. ListOf(r) = [version |-> v, users |-> U, skipped |-> FALSE]
    BY <1>3 DEF ListOf
  <2>4. Running(x) => /\ m.list[c] = ListOf(r)
                      /\ \A b \in Chats \ {c} : m.list[b] = x.mem.list[b]
    BY <1>5, <2>2
  <2>5. Running(x) => ListsRight(m)
    BY <1>2, <1>5, <2>3, <2>4 DEF ListsRight, U
  <2>6. Running(x) /\ Strict(i) => ListsCome(m)
    BY <1>5, <2>3, <2>4 DEF ListsCome
  <2>7. After(x, y, i) /\ (Running(y) => y.mem = m)
    BY <2>1, <2>2, <2>5, <2>6, LogEvent DEF m
  <2>8. Running(y) => y.mem.list[c].version >= v
    BY <1>2, <2>3, <2>4, <2>7 DEF After
  <2>9. QED  BY <2>7, <2>8 DEF ListStepped, y, U
<1>8. QED  BY <1>6, <1>7

LEMMA DeleteStep ==
  ASSUME NEW x, NEW i, RunOK(x, i), NEW c \in Chats, Running(x) => Created(x.mem, c),
         NEW v \in Nat, NEW u \in Users
  PROVE  ListStepped(x, bl_do_chat_del_user(x, c, v, u), c, v, i)
<1> DEFINE r == [op |-> "add", of |-> c, version |-> v, user |-> u, short |-> TRUE]
           y == bl_do_chat_del_user(x, c, v, u)
           same == x.mem.list[c].version >= v \/ x.mem.list[c].version = 0
<1>1. r.of = c /\ r.op = "add" /\ r.short = TRUE
  OBVIOUS
<1>2. y = LogUnless(x, same, r)
  BY DEF bl_do_chat_del_user, AddRecord
<1> HIDE DEF y, r
<1>3. CASE same
  <2>1. y = x
    BY <1>2, <1>3 DEF LogUnless
  <2>2. QED  BY <1>3, <2>1, AfterItself DEF ListStepped, AfterSame, y
<1>4. CASE ~same
  <2>1. y = add_log_event(x, r)
    BY <1>2, <1>4 DEF LogUnless
  <2>2. CASE ~Running(x)
    <3>1. y = x
      BY <2>1, <2>2 DEF add_log_event
    <3>2. QED  BY <2>2, <3>1, AfterItself DEF ListStepped, AfterSame, y
  <2>3. CASE Running(x)
    <3>1. Replay(x.mem, r).fault = "deletion"
      BY <1>1, <2>3, RunFields, AddRecordFails
    <3>2. After(x, y, i) /\ ~Running(y)
      BY <2>1, <2>3, <3>1, LogFails DEF AfterSame
    <3>3. QED  BY <3>2 DEF ListStepped, y
  <2>4. QED  BY <2>2, <2>3
<1>5. QED  BY <1>3, <1>4

LEMMA AddStep ==
  ASSUME ServerOK, NEW x, NEW i, RunOK(x, i), NEW c \in Chats, Running(x) => Created(x.mem, c),
         NEW v \in 2 .. Len(members[c]), NEW u \in Users, u \notin members[c][v - 1],
         members[c][v] = members[c][v - 1] \cup {u}, Strict(i) => Coming(c, v),
         Strict(i) /\ x.mem.list[c].version > 0 /\ x.mem.list[c].version < v =>
           v = x.mem.list[c].version + 1
  PROVE  ListStepped(x, bl_do_chat_add_user(x, c, v, u), c, v, i)
<1> DEFINE r == [op |-> "add", of |-> c, version |-> v, user |-> u, short |-> FALSE]
           y == bl_do_chat_add_user(x, c, v, u)
           l == x.mem.list[c]
           m == Replay(x.mem, r)
           same == l.version >= v \/ l.version = 0
<1>1. Len(members[c]) \in Nat
  BY Members
<1>2. v \in Nat /\ v <= Len(members[c]) /\ v - 1 \in Nat
  BY <1>1
<1>3. r.of = c /\ r.op = "add" /\ r.version = v /\ r.user = u /\ r.short = FALSE
  OBVIOUS
<1>4. y = LogUnless(x, same, r)
  BY DEF bl_do_chat_add_user, AddRecord
<1> HIDE DEF y, r
<1>5. /\ x.mem.list \in [Chats -> ListType] /\ Good(x.mem)
      /\ \A b \in Chats : x.mem.list[b].version <= Len(members[b])
           /\ (x.mem.list[b].version > 0 /\ ~x.mem.list[b].skipped =>
                 x.mem.list[b].users = members[b][x.mem.list[b].version])
      /\ Strict(i) => \A b \in Chats : x.mem.list[b].version > 0 =>
                        Coming(b, x.mem.list[b].version) /\ ~x.mem.list[b].skipped
  BY RunFields DEF RunOK, ListsRight, ListsCome
<1>6. l.version \in Nat /\ l.skipped \in BOOLEAN
  BY <1>5 DEF ListType
<1>7. CASE same
  <2>1. y = x
    BY <1>4, <1>7 DEF LogUnless
  <2>2. QED  BY <1>7, <2>1, AfterItself DEF ListStepped, AfterSame, y
<1>8. CASE ~same /\ ~Running(x)
  <2>1. y = x
    BY <1>4, <1>8 DEF LogUnless, add_log_event
  <2>2. QED  BY <1>8, <2>1, AfterItself DEF ListStepped, AfterSame, y
<1>9. CASE ~same /\ Running(x)
  <2>1. y = add_log_event(x, r) /\ Created(x.mem, c)
    BY <1>4, <1>9 DEF LogUnless
  <2>2. l.version > 0 /\ l.version < v
    BY <1>2, <1>6, <1>9
  <2>3. Strict(i) => v = l.version + 1 /\ ~l.skipped /\ u \notin l.users
    BY <1>2, <1>5, <1>6, <2>2
  <2>4. CASE u \in l.users
    <3>1. Replay(x.mem, r).fault = "addition"
      BY <1>3, <1>5, <2>1, <2>4, AddRecordFails
    <3>2. After(x, y, i) /\ ~Running(y)
      BY <1>9, <2>1, <2>3, <2>4, <3>1, LogFails DEF AfterSame
    <3>3. QED  BY <3>2 DEF ListStepped, y
  <2>5. CASE u \notin l.users
    <3>1. Logged(x.mem, r) /\ m.list = [x.mem.list EXCEPT ![c] = ListWith(x.mem, r)]
      BY <1>2, <1>3, <1>5, <2>1, <2>2, <2>5, AddRecordRight
    <3> HIDE DEF m
    <3>2. ListWith(x.mem, r) = [version |-> v, users |-> l.users \cup {u},
                                skipped |-> l.skipped \/ v # l.version + 1]
      BY <1>3 DEF ListWith
    <3>3. /\ m.list[c] = ListWith(x.mem, r)
          /\ \A b \in Chats \ {c} : m.list[b] = x.mem.list[b]
      BY <1>5, <3>1
    <3>4. m.list[c].version = v /\ (m.list[c].skipped <=> l.skipped \/ v # l.version + 1)
      <4> DEFINE skips == l.skipped \/ v # l.version + 1
      <4>1. ListWith(x.mem, r) = [version |-> v, users |-> l.users \cup {u}, skipped |-> skips]
        BY <3>2
      <4>2. skips \in BOOLEAN
        OBVIOUS
      <4> HIDE DEF skips
      <4>3. m.list[c].version = v /\ m.list[c].skipped = skips
        BY <3>3, <4>1
      <4>4. m.list[c].skipped <=> skips
        BY <4>3
      <4>5. QED  BY <4>3, <4>4 DEF skips
    <3>5. ListsRight(m)
      <4>1. v <= Len(members[c]) /\ m.list[c].version = v
        BY <1>2, <3>2, <3>3
      <4>2. ~m.list[c].skipped => m.list[c].users = members[c][v]
        <5>1. ~m.list[c].skipped => ~l.skipped /\ l.version = v - 1
          BY <1>2, <1>6, <3>4
        <5>2. ~l.skipped => l.users = members[c][l.version]
          BY <1>5, <2>2
        <5>3. QED  BY <3>2, <3>3, <5>1, <5>2
      <4>3. QED  BY <1>5, <3>3, <4>1, <4>2 DEF ListsRight
    <3>6. Strict(i) => ListsCome(m)
      <4>1. Strict(i) => Coming(c, m.list[c].version) /\ ~m.list[c].skipped
        BY <2>3, <3>4
      <4>2. QED  BY <1>5, <3>3, <4>1 DEF ListsCome
    <3>7. After(x, y, i) /\ (Running(y) => y.mem = m)
      BY <2>1, <3>1, <3>5, <3>6, LogEvent DEF m
    <3>8. Running(y) => y.mem.list[c].version >= v
      BY <1>2, <3>2, <3>3, <3>7
    <3>9. QED  BY <3>7, <3>8 DEF ListStepped, y
  <2>6. QED  BY <2>4, <2>5
<1>10. QED  BY <1>7, <1>8, <1>9

(* Unless packets were lost or overtaken, the first packet has the step    *)
(* that comes after the noted version.                                     *)
LEMMA NextVersion ==
  ASSUME ServerOK, InOrder, NEW d \in Memory, ListsCome(d), NEW c \in Chats,
         1 \in DOMAIN net, NEW k \in StepsIn(net[1], c),
         d.list[c].version > 0, d.list[c].version < net[1][k].version
  PROVE  net[1][k].version = d.list[c].version + 1
<1> DEFINE v == d.list[c].version
           w == v + 1
<1>1. v \in Nat
  BY MemoryFields DEF ListType
<1>2. k \in DOMAIN net[1] /\ net[1][k].kind \in ListKinds /\ net[1][k].of = c
      /\ k \in ListsIn(net[1], c)
  BY DEF StepsIn, ListsIn, ListKinds
<1>3. net[1][k].version \in 1 .. Len(members[c]) /\ Len(members[c]) \in Nat
  BY <1>2, Members DEF ServerOK, PacketRight, PartRight
<1>4. w \in v + 1 .. Len(members[c])
  BY <1>1, <1>3
<1>5. PICK i \in DOMAIN net : \E l \in StepsIn(net[i], c) : net[i][l].version = w
  BY <1>4 DEF ListsCome, Coming
<1>6. PICK l \in StepsIn(net[i], c) : net[i][l].version = w
  BY <1>5
<1>7. l \in DOMAIN net[i] /\ net[i][l].kind \in ListKinds /\ l \in ListsIn(net[i], c)
  BY DEF StepsIn, ListsIn, ListKinds
<1>8. CASE i = 1
  <2>1. l = k
    BY <1>2, <1>7, <1>8 DEF ServerOK, PacketRight
  <2>2. QED  BY <1>6, <1>8, <2>1
<1>9. CASE i # 1
  <2>1. 1 < i
    BY <1>9 DEF ServerOK
  <2>2. net[1][k].version < net[i][l].version
    BY <1>2, <1>7, <2>1 DEF InOrder
  <2>3. QED  BY <1>1, <1>3, <1>6, <2>2
<1>10. QED  BY <1>8, <1>9

-----------------------------------------------------------------------------
(* The parts of a packet. *)

LEMMA KnownStep ==
  ASSUME NEW x, NEW i, RunOK(x, i), NEW p \in Ids
  PROVE  AfterSame(x, Known(x, p), i)
<1> DEFINE y == Known(x, p)
           e == [x.mem EXCEPT !.peer[p].state = "allocated"]
           d == x.mem
<1>1. CASE ~(Running(x) /\ x.mem.peer[p].state = "absent")
  BY <1>1, AfterItself DEF Known
<1>2. CASE Running(x) /\ x.mem.peer[p].state = "absent"
  <2>1. x \in Run /\ d \in Memory /\ d.peer \in [Ids -> PeerType] /\ Good(d)
    BY RunFields
  <2>2. y = [x EXCEPT !.mem = e]
    BY <1>2, <2>1 DEF Known, Run, Memory
  <2>3. e.peer = [d.peer EXCEPT ![p] = [state |-> "allocated", name |-> d.peer[p].name,
                                        print |-> d.peer[p].print]]
    BY <2>1 DEF Memory, PeerType
  <2>4. /\ e.index = d.index /\ e.user = d.user /\ e.chat = d.chat /\ e.list = d.list
        /\ e.our_id = d.our_id /\ e.fault = d.fault
        /\ e = [peer |-> e.peer, user |-> e.user, chat |-> e.chat, list |-> e.list,
               index |-> e.index, our_id |-> e.our_id, fault |-> e.fault]
    BY <2>1 DEF Memory
  <2> HIDE DEF e, y
  <2>5. e.peer \in [Ids -> PeerType]
    BY <2>1, <2>3 DEF PeerType
  <2>6. e \in Memory
    BY <2>1, <2>4, <2>5, MemoryFields DEF Memory
  <2>7. /\ \A q \in Ids \ {p} : e.peer[q] = d.peer[q]
        /\ e.peer[p].name = d.peer[p].name /\ e.peer[p].print = d.peer[p].print
        /\ e.peer[p].state = "allocated"
    BY <2>1, <2>3
  <2>8. \A q \in Ids : Created(e, q) <=> Created(d, q)
    BY <1>2, <2>7 DEF Created
  <2>9. \A q \in Ids : e.peer[q].name = d.peer[q].name /\ e.peer[q].print = d.peer[q].print
    BY <2>7
  <2>10. Good(e)
    <3>1. Indexed(d) /\ d.fault = "none"
      BY <2>1, GoodFields
    <3>2. \A q \in Ids : Entry(e, q) = Entry(d, q)
      BY <2>9 DEF Entry
    <3>3. {Entry(e, q) : q \in {q \in Ids : Created(e, q)}}
            = {Entry(d, q) : q \in {q \in Ids : Created(d, q)}}
      BY <2>8, <3>2
    <3>4. e.index = {Entry(e, q) : q \in {q \in Ids : Created(e, q)}}
      BY <2>4, <3>1, <3>3 DEF Indexed
    <3>5. \A c \in Chats : ~Created(e, c) => e.list[c] = NoList
      BY <2>4, <2>8, <3>1, IdsFinite DEF Indexed
    <3>6. \A q, r \in Ids : Created(e, q) /\ Created(e, r)
                            /\ e.peer[q].print = e.peer[r].print => q = r
      BY <2>8, <2>9, <3>1 DEF Indexed
    <3>7. \A q \in Ids :
            IF Created(e, q)
            THEN e.peer[q].name \in Names
                 /\ \E cc \in Nat : e.peer[q].print = Suffixed(e.peer[q].name, cc)
            ELSE e.peer[q].name = NoName /\ e.peer[q].print = NoName
      <4>1. TAKE q \in Ids
      <4>2. IF Created(d, q)
            THEN d.peer[q].name \in Names
                 /\ \E cc \in Nat : d.peer[q].print = Suffixed(d.peer[q].name, cc)
            ELSE d.peer[q].name = NoName /\ d.peer[q].print = NoName
        BY <3>1 DEF Indexed
      <4>3. QED  BY <2>8, <2>9, <4>2
    <3>8. QED  BY <2>4, <2>6, <3>1, <3>4, <3>5, <3>6, <3>7 DEF Good, Indexed
  <2>11. Kept(e) = Kept(d)
    <3> DEFINE f == Kept(e)
               k == Kept(d)
    <3>1. KeptDone(e, f) /\ KeptDone(d, k)
      BY <2>1, <2>6, KeptFields
    <3> HIDE DEF f, k
    <3>2. f.peer = k.peer
      BY <2>1, <2>7, <2>8, <3>1 DEF KeptDone, Created
    <3>3. f = k
      BY <2>4, <3>1, <3>2, SameMemory DEF KeptDone
    <3>4. QED  BY <3>3 DEF f, k
  <2>12. y \in Run /\ y.mem = e /\ y.disk = x.disk /\ y.stop = x.stop
    BY <2>1, <2>2, <2>6 DEF Run
  <2>13. (ListsRight(d) => ListsRight(e)) /\ (ListsCome(d) => ListsCome(e))
    BY <2>4, ListsSame
  <2>14. AfterSame(x, y, i)
    BY <2>4, <2>8, <2>10, <2>11, <2>12, <2>13 DEF AfterSame, After, RunOK, Running
  <2>15. QED  BY <2>14 DEF y
<1>3. QED  BY <1>1, <1>2

(* What a part does to a run. *)
PartStepped(x, y, d, i) ==
  /\ After(x, y, i)
  /\ Running(y) => \A p \in Ids : Describes(d, p) => Created(y.mem, p)
  /\ IF d.kind \in ListKinds
     THEN Running(y) => y.mem.list[d.of].version = 0 \/ y.mem.list[d.of].version >= d.version
     ELSE y.mem.list = x.mem.list

LEMMA UserPart ==
  ASSUME NEW x, NEW i, RunOK(x, i), NEW d \in Part, d.kind = "user"
  PROVE  /\ AfterSame(x, fetch_user(x, d), i)
         /\ Running(fetch_user(x, d)) /\ d.shape # "empty" => Created(fetch_user(x, d).mem, d.of)
<1> DEFINE u == d.of
           y == IF d.shape = "self" /\ x.mem.our_id = Nobody THEN bl_do_set_our_id(x, u) ELSE x
           contact == d.shape = "contact"
           named == bl_do_set_name(y, u, d.name)
           new == bl_do_new_user(y, u, d.name, contact)
           z == IF Created(x.mem, u) THEN named ELSE new
           end == fetch_user(x, d)
<1>1. u \in Users /\ u \in Ids /\ d.name \in Names /\ contact \in BOOLEAN
  BY IdsFinite DEF Part
<1>2. AfterSame(x, y, i) /\ (Running(y) => (Created(y.mem, u) <=> Created(x.mem, u)))
  BY <1>1, AfterItself, OurIdStep
<1> HIDE DEF y
<1>3. RunOK(y, i)
  BY <1>2 DEF AfterSame, After
<1>4. Created(x.mem, u) => /\ AfterSame(y, named, i)
                           /\ (Running(named) => Created(named.mem, u))
  <2>1. SUFFICES ASSUME Created(x.mem, u)
                 PROVE  AfterSame(y, named, i) /\ (Running(named) => Created(named.mem, u))
    OBVIOUS
  <2>2. AfterSame(y, named, i)
    BY <1>1, <1>2, <1>3, <2>1, NameStep
  <2> HIDE DEF named
  <2>3. QED  BY <1>1, <1>2, <2>1, <2>2 DEF AfterSame, After
<1>5. ~Created(x.mem, u) => /\ AfterSame(y, new, i)
                            /\ (Running(new) => Created(new.mem, u))
  BY <1>1, <1>2, <1>3, NewUserStep
<1> HIDE DEF named, new, contact
<1>6. AfterSame(x, z, i) /\ (Running(z) => Created(z.mem, u))
  BY <1>2, <1>4, <1>5, AfterTwo DEF AfterSame
<1>7. CASE d.shape = "empty"
  <2>1. end = x
    BY <1>7 DEF fetch_user
  <2> HIDE DEF end
  <2>2. AfterSame(x, end, i)
    BY <2>1, AfterItself
  <2>3. QED  BY <1>7, <2>2 DEF end
<1>8. CASE d.shape = "deleted"
  <2>1. end = bl_do_user_delete(z, u)
    BY <1>8 DEF fetch_user, y, named, new, contact
  <2> HIDE DEF end, z
  <2>2. AfterSame(z, end, i)
    BY <1>1, <1>6, <2>1, UserSteps DEF AfterSame, After
  <2>3. AfterSame(x, end, i) /\ (Running(end) => Created(end.mem, u))
    BY <1>1, <1>6, <2>2, AfterTwo DEF AfterSame, After
  <2>4. QED  BY <2>3 DEF end
<1>9. CASE d.shape # "empty" /\ d.shape # "deleted"
  <2>1. end = IF Created(x.mem, u) THEN bl_do_set_user_friend(z, u, contact) ELSE z
    BY <1>9 DEF fetch_user, y, named, new, contact
  <2> HIDE DEF end, z
  <2>2. AfterSame(z, end, i)
    BY <1>1, <1>6, <2>1, UserSteps, AfterItself DEF AfterSame, After, contact
  <2>3. AfterSame(x, end, i) /\ (Running(end) => Created(end.mem, u))
    BY <1>1, <1>6, <2>2, AfterTwo DEF AfterSame, After
  <2>4. QED  BY <2>3 DEF end
<1>10. QED  BY <1>7, <1>8, <1>9

LEMMA ChatPart ==
  ASSUME NEW x, NEW i, RunOK(x, i), NEW d \in Part, d.kind = "chat"
  PROVE  /\ AfterSame(x, fetch_chat(x, d), i)
         /\ Running(fetch_chat(x, d)) /\ d.shape # "empty" => Created(fetch_chat(x, d).mem, d.of)
<1> DEFINE c == d.of
           forbidden == d.shape = "forbidden"
           marked == bl_do_chat_forbid(x, c, forbidden)
           titled == bl_do_set_name(marked, c, d.name)
           end == fetch_chat(x, d)
<1>1. c \in Chats /\ c \in Ids /\ d.name \in Names /\ forbidden \in BOOLEAN
      /\ d.users_num \in Int /\ d.version \in Int
  BY IdsFinite DEF Part
<1>2. CASE d.shape # "empty" /\ ~Created(x.mem, c)
  <2>1. \/ end = bl_do_create_chat(x, c, d.name, TRUE, -1, -1)
        \/ end = bl_do_create_chat(x, c, d.name, FALSE, d.users_num, d.version)
    BY <1>2 DEF fetch_chat
  <2> HIDE DEF end
  <2>2. AfterSame(x, end, i) /\ (Running(end) => Created(end.mem, c))
    <3>1. -1 \in Int /\ TRUE \in BOOLEAN /\ FALSE \in BOOLEAN
      OBVIOUS
    <3>2. QED  BY <1>1, <1>2, <2>1, <3>1, NewChatStep
  <2>3. QED  BY <2>2 DEF end
<1>3. CASE d.shape # "empty" /\ Created(x.mem, c)
  <2>1. end = IF forbidden THEN titled
              ELSE bl_do_set_chat_version(titled, c, d.users_num, d.version)
    BY <1>3 DEF fetch_chat
  <2>2. AfterSame(x, marked, i)
    BY <1>1, <1>3, ChatSteps
  <2> HIDE DEF forbidden, marked, end
  <2>3. RunOK(marked, i) /\ Created(marked.mem, c)
    BY <1>1, <1>3, <2>2 DEF AfterSame, After
  <2>4. AfterSame(marked, titled, i)
    BY <1>1, <2>3, NameStep
  <2> HIDE DEF titled
  <2>5. RunOK(titled, i) /\ Created(titled.mem, c) /\ AfterSame(x, titled, i)
    BY <1>1, <2>2, <2>3, <2>4, AfterTwo DEF AfterSame, After
  <2>6. AfterSame(titled, end, i)
    BY <1>1, <2>1, <2>5, ChatSteps, AfterItself
  <2>7. AfterSame(x, end, i) /\ Created(end.mem, c)
    BY <1>1, <2>5, <2>6, AfterTwo DEF AfterSame, After
  <2>8. QED  BY <2>7 DEF end
<1>4. CASE d.shape = "empty"
  <2>1. end = x
    BY <1>4 DEF fetch_chat
  <2> HIDE DEF end
  <2>2. AfterSame(x, end, i)
    BY <2>1, AfterItself
  <2>3. QED  BY <1>4, <2>2 DEF end
<1>5. QED  BY <1>2, <1>3, <1>4

(* What a part that tells of a list says of it. *)
LEMMA ListPart ==
  ASSUME ServerOK, NEW i \in DOMAIN net, NEW k \in DOMAIN net[i], Strict(i) => InOrder
  PROVE  /\ net[i][k] \in Part /\ PartRight(members, net[i][k])
         /\ net[i][k].kind \in ListKinds =>
              /\ net[i][k].of \in Chats
              /\ net[i][k].version \in 1 .. Len(members[net[i][k].of])
              /\ Strict(i) => Coming(net[i][k].of, net[i][k].version)
<1> DEFINE d == net[i][k]
<1>1. d \in Part
  <2>1. net[i] \in Seq(Part)
    BY ElementOfSeq DEF ServerOK
  <2>2. QED  BY <2>1, ElementOfSeq
<1>2. PartRight(members, d)
  BY DEF ServerOK, PacketRight
<1> HIDE DEF d
<1>3. d.kind \in ListKinds => d.of \in Chats /\ d.version \in 1 .. Len(members[d.of])
  BY <1>1, <1>2 DEF Part, PartRight, ListKinds, StepKinds
<1>4. d.kind \in ListKinds /\ Strict(i) => Coming(d.of, d.version)
  <2>1. SUFFICES ASSUME d.kind \in ListKinds, Strict(i) PROVE Coming(d.of, d.version)
    OBVIOUS
  <2>2. k \in ListsIn(net[i], d.of)
    BY <2>1 DEF ListsIn, d
  <2>3. d.of \in Chats
    BY <1>3, <2>1
  <2>4. \A c \in Chats : \A l \in ListsIn(net[i], c) : Coming(c, net[i][l].version)
    BY <2>1 DEF InOrder
  <2>5. QED  BY <2>2, <2>3, <2>4 DEF d
<1>5. QED  BY <1>1, <1>2, <1>3, <1>4 DEF d

LEMMA FetchStep ==
  ASSUME ServerOK, NEW i \in DOMAIN net, Strict(i) => InOrder, NEW k \in DOMAIN net[i],
         NEW x, RunOK(x, i),
         net[i][k].kind \in {"user_full", "chat_full"} /\ Running(x) =>
           Created(x.mem, net[i][k].of)
  PROVE  PartStepped(x, Fetch(x, net[i][k]), net[i][k], i)
<1> DEFINE d == net[i][k]
           y == Fetch(x, d)
<1>1. /\ d \in Part /\ PartRight(members, d)
      /\ d.kind \in ListKinds => /\ d.of \in Chats /\ d.version \in 1 .. Len(members[d.of])
                                 /\ Strict(i) => Coming(d.of, d.version)
      /\ d.kind \in {"user_full", "chat_full"} /\ Running(x) => Created(x.mem, d.of)
  BY ListPart
<1>2. Strict(i) => /\ i = 1 /\ InOrder /\ ListsCome(x.mem)
  BY DEF Strict, RunOK
<1>3. d.kind \in StepKinds => k \in StepsIn(net[i], d.of)
  BY DEF StepsIn
<1>4. Strict(i) /\ d.kind \in StepKinds => /\ net[1][k] = d /\ k \in StepsIn(net[1], d.of)
                                           /\ 1 \in DOMAIN net
  BY <1>2, <1>3
<1> HIDE DEF d
<1>5. CASE d.kind = "user"
  <2> DEFINE z == Known(x, d.of)
  <2>1. y = fetch_user(z, d)
    BY <1>5 DEF Fetch
  <2>2. d.of \in Ids
    BY <1>1, <1>5, IdsFinite DEF Part
  <2>3. AfterSame(x, z, i)
    BY <2>2, KnownStep
  <2> HIDE DEF z, y
  <2>4. RunOK(z, i)
    BY <2>3 DEF AfterSame, After
  <2>5. AfterSame(z, y, i) /\ (Running(y) /\ d.shape # "empty" => Created(y.mem, d.of))
    BY <1>1, <1>5, <2>1, <2>4, UserPart
  <2>6. AfterSame(x, y, i)
    BY <2>3, <2>5, AfterTwo DEF AfterSame
  <2>7. QED  BY <1>5, <2>5, <2>6 DEF PartStepped, AfterSame, Describes, ListKinds, StepKinds, d, y
<1>6. CASE d.kind = "chat"
  <2> DEFINE z == Known(x, d.of)
  <2>1. y = fetch_chat(z, d)
    BY <1>6 DEF Fetch
  <2>2. d.of \in Ids
    BY <1>1, <1>6, IdsFinite DEF Part
  <2>3. AfterSame(x, z, i)
    BY <2>2, KnownStep
  <2> HIDE DEF z, y
  <2>4. RunOK(z, i)
    BY <2>3 DEF AfterSame, After
  <2>5. AfterSame(z, y, i) /\ (Running(y) /\ d.shape # "empty" => Created(y.mem, d.of))
    BY <1>1, <1>6, <2>1, <2>4, ChatPart
  <2>6. AfterSame(x, y, i)
    BY <2>3, <2>5, AfterTwo DEF AfterSame
  <2>7. QED  BY <1>6, <2>5, <2>6 DEF PartStepped, AfterSame, Describes, ListKinds, StepKinds, d, y
<1>7. CASE d.kind = "user_full"
  <2>1. y = bl_do_set_user_real_name(x, d.of, d.name)
    BY <1>7 DEF Fetch, fetch_user_full
  <2>2. d.of \in Users /\ d.name \in Names
    BY <1>1, <1>7 DEF Part
  <2> HIDE DEF y
  <2>3. AfterSame(x, y, i)
    BY <1>1, <1>7, <2>1, <2>2, UserSteps
  <2>4. QED  BY <1>7, <2>3 DEF PartStepped, AfterSame, Describes, ListKinds, StepKinds, d, y
<1>8. ASSUME d.kind \in {"chat_full", "update_chat_participants"}, Running(x) => Created(x.mem, d.of),
             y = bl_do_set_chat_participants(x, d.of, d.version, d.users)
      PROVE  PartStepped(x, y, d, i)
  <2>1. d.kind \in ListKinds
    BY <1>8 DEF ListKinds, StepKinds
  <2>2. d.users = members[d.of][d.version]
    BY <1>1, <1>8 DEF PartRight
  <2> HIDE DEF y
  <2>3. ListStepped(x, y, d.of, d.version, i)
    BY <1>1, <1>8, <2>1, <2>2, ParticipantsStep
  <2>4. \A p \in Ids : ~Describes(d, p)
    BY <1>8 DEF Describes
  <2>5. QED  BY <2>1, <2>3, <2>4 DEF PartStepped, ListStepped
<1>9. CASE d.kind = "chat_full"
  <2>1. y = bl_do_set_chat_participants(x, d.of, d.version, d.users)
    BY <1>9 DEF Fetch, fetch_chat_full
  <2> HIDE DEF y
  <2>2. QED  BY <1>1, <1>8, <1>9, <2>1 DEF d, y
<1>10. CASE d.kind \notin {"user", "chat", "user_full", "chat_full"}
  <2>1. y = work_update(x, d)
    BY <1>10 DEF Fetch
  <2>2. CASE ~Created(x.mem, d.of)
    <3>1. y = x
      BY <2>1, <2>2 DEF work_update
    <3>2. CASE d.kind \notin ListKinds
      <4> HIDE DEF y
      <4>1. QED  BY <1>10, <3>1, <3>2, AfterItself DEF PartStepped, AfterSame, Describes, d, y
    <3>3. CASE d.kind \in ListKinds
      <4>1. x.mem.list[d.of] = NoList
        BY <1>1, <2>2, <3>3 DEF RunOK, Good, Indexed
      <4>2. x.mem.list[d.of].version = 0
        BY <4>1 DEF NoList
      <4> HIDE DEF y
      <4>3. QED  BY <1>10, <3>1, <3>3, <4>2, AfterItself DEF PartStepped, AfterSame, Describes, d, y
    <3>4. QED  BY <3>2, <3>3
  <2>3. CASE Created(x.mem, d.of) /\ d.kind = "update_user_name"
    <3>1. y = bl_do_set_user_real_name(x, d.of, d.name)
      BY <2>1, <2>3 DEF work_update
    <3>2. d.of \in Users /\ d.name \in Names
      BY <1>1, <2>3 DEF Part
    <3> HIDE DEF y
    <3>3. AfterSame(x, y, i)
      BY <2>3, <3>1, <3>2, UserSteps
    <3>4. QED  BY <2>3, <3>3 DEF PartStepped, AfterSame, Describes, ListKinds, StepKinds, d, y
  <2>4. CASE Created(x.mem, d.of) /\ d.kind = "update_chat_participants"
    <3>1. y = bl_do_set_chat_participants(x, d.of, d.version, d.users)
      BY <2>1, <2>4 DEF work_update
    <3> HIDE DEF y
    <3>2. QED  BY <1>8, <2>4, <3>1 DEF d, y
  <2>5. CASE Created(x.mem, d.of) /\ d.kind = "update_chat_participant_add"
    <3>1. y = bl_do_chat_add_user(x, d.of, d.version, d.user)
      BY <2>1, <2>5 DEF work_update
    <3>2. d.kind \in ListKinds /\ d.kind \in StepKinds /\ \A p \in Ids : ~Describes(d, p)
      BY <2>5 DEF ListKinds, StepKinds, Describes
    <3>3. d.user \in Users /\ d.of \in Chats /\ d.version \in Nat
      BY <1>1, <2>5 DEF Part
    <3>4. /\ d.version > 1 /\ d.user \notin members[d.of][d.version - 1]
          /\ members[d.of][d.version] = members[d.of][d.version - 1] \cup {d.user}
      BY <1>1, <2>5 DEF PartRight
    <3>5. d.version \in 2 .. Len(members[d.of])
      BY <1>1, <3>2, <3>4
    <3> HIDE DEF y
    <3>6. Strict(i) /\ x.mem.list[d.of].version > 0 /\ x.mem.list[d.of].version < d.version =>
            d.version = x.mem.list[d.of].version + 1
      BY <1>2, <1>4, <3>2, <3>3, RunFields, NextVersion
    <3>7. ListStepped(x, y, d.of, d.version, i)
      BY <1>1, <2>5, <3>1, <3>2, <3>3, <3>4, <3>5, <3>6, AddStep
    <3>8. QED  BY <3>2, <3>7 DEF PartStepped, ListStepped, d, y
  <2>6. CASE Created(x.mem, d.of) /\ d.kind = "update_chat_participant_delete"
    <3>1. y = bl_do_chat_del_user(x, d.of, d.version, d.user)
      BY <2>1, <2>6 DEF work_update
    <3>2. d.kind \in ListKinds /\ \A p \in Ids : ~Describes(d, p)
      BY <2>6 DEF ListKinds, StepKinds, Describes
    <3>3. d.user \in Users /\ d.of \in Chats /\ d.version \in Nat
      BY <1>1, <2>6 DEF Part
    <3> HIDE DEF y
    <3>4. ListStepped(x, y, d.of, d.version, i)
      BY <2>6, <3>1, <3>3, DeleteStep
    <3>5. QED  BY <3>2, <3>4 DEF PartStepped, ListStepped, d, y
  <2>7. d.kind \in {"update_user_name", "update_chat_participants",
                    "update_chat_participant_add", "update_chat_participant_delete"}
    BY <1>1, <1>10 DEF Part
  <2>8. QED  BY <2>2, <2>3, <2>4, <2>5, <2>6, <2>7
<1>11. QED  BY <1>5, <1>6, <1>7, <1>9, <1>10


-----------------------------------------------------------------------------
(* A packet handled: the run after each of its parts. *)

FirstRun(left) == [mem |-> mem, disk |-> disk, left |-> left, stop |-> "none"]
Steps(f, left, parts) ==
  f[0] = FirstRun(left) /\ \A k \in 1 .. Len(parts) : f[k] = Fetch(f[k - 1], parts[k])

LEMMA HandledSteps ==
  ASSUME NEW left, NEW parts \in Seq(Part)
  PROVE  \E f : Steps(f, left, parts) /\ HandledBy(parts, left) = f[Len(parts)]
<1> DEFINE Step(f, k) == IF k = 0 THEN FirstRun(left) ELSE Fetch(f[k - 1], parts[k])
           Fits(f, n) == f = [k \in 0 .. n |-> Step(f, k)]
           T == {n \in Nat : \E f : Fits(f, n)}
<1>1. 0 \in T
  <2> DEFINE g == [k \in 0 .. 0 |-> FirstRun(left)]
  <2>1. \A k \in 0 .. 0 : Step(g, k) = FirstRun(left)
    OBVIOUS
  <2>2. Fits(g, 0)
    <3> HIDE DEF Step
    <3>1. QED  BY <2>1
  <2>3. QED  BY <2>2
<1>2. ASSUME NEW n \in Nat, n \in T PROVE n + 1 \in T
  <2>1. PICK f : Fits(f, n)
    BY <1>2
  <2> DEFINE g == [k \in 0 .. n + 1 |-> IF k \in 0 .. n THEN f[k] ELSE Step(f, k)]
  <2>2. ASSUME NEW k \in 0 .. n + 1 PROVE g[k] = Step(g, k)
    <3>1. CASE k \in 0 .. n
      <4>1. g[k] = f[k] /\ (k # 0 => g[k - 1] = f[k - 1])
        BY <3>1
      <4>2. f[k] = Step(f, k)
        <5> HIDE DEF Step
        <5>1. QED  BY <2>1, <3>1
      <4>3. Step(g, k) = Step(f, k)
        BY <4>1
      <4> HIDE DEF g, Step
      <4>4. QED  BY <4>1, <4>2, <4>3
    <3>2. CASE k = n + 1
      <4>1. g[k] = Step(f, k)
        <5> HIDE DEF Step
        <5>1. QED  BY <3>2
      <4>2. g[k - 1] = f[k - 1]
        BY <3>2
      <4>3. Step(g, k) = Step(f, k)
        BY <4>2
      <4> HIDE DEF g, Step
      <4>4. QED  BY <4>1, <4>3
    <3>3. QED  BY <3>1, <3>2
  <2>3. Fits(g, n + 1)
    <3>1. g = [k \in 0 .. n + 1 |-> g[k]]
      OBVIOUS
    <3> HIDE DEF g, Step
    <3>2. QED  BY <2>2, <3>1
  <2>4. \E h : Fits(h, n + 1)
    <3> HIDE DEF g, Fits
    <3>1. QED  BY <2>3
  <2>5. n + 1 \in Nat
    OBVIOUS
  <2> HIDE DEF Fits
  <2>6. QED  BY <2>4, <2>5
<1>3. Len(parts) \in Nat
  BY LenProperties
<1>4. Len(parts) \in T
  <2> HIDE DEF T
  <2>1. QED BY <1>1, <1>2, <1>3, Induction
<1>5. PICK f : Fits(f, Len(parts))
  BY <1>4
<1> DEFINE c == CHOOSE f1 : Fits(f1, Len(parts))
<1>6. Fits(c, Len(parts))
  <2> HIDE DEF Fits
  <2>1. QED  BY <1>5
<1>7. HandledBy(parts, left) = c[Len(parts)]
  BY DEF HandledBy, FirstRun
<1> HIDE DEF c
<1>8. \A k \in 0 .. Len(parts) : c[k] = Step(c, k)
  <2> HIDE DEF Step
  <2>1. QED  BY <1>6
<1>9. Steps(c, left, parts)
  BY <1>3, <1>8 DEF Steps
<1>10. QED  BY <1>7, <1>9

(* The lists that the first k parts of the packet i tell of. *)
ListsReached(x, i, k) ==
  \A j \in 1 .. k : net[i][j].kind \in ListKinds =>
    \/ x.mem.list[net[i][j].of].version = 0
    \/ x.mem.list[net[i][j].of].version >= net[i][j].version

PartsRight(x, i, k) ==
  /\ RunOK(x, i)
  /\ Running(x) =>
       /\ \A j \in 1 .. k, p \in Ids : Describes(net[i][j], p) => Created(x.mem, p)
       /\ ListsReached(x, i, k)

LEMMA PartsStep ==
  ASSUME ServerOK, NEW i \in DOMAIN net, Strict(i) => InOrder, NEW k \in 1 .. Len(net[i]),
         NEW x, PartsRight(x, i, k - 1)
  PROVE  PartsRight(Fetch(x, net[i][k]), i, k)
<1> DEFINE d == net[i][k]
           y == Fetch(x, d)
<1>1. /\ net[i] \in Seq(Part) /\ Len(net[i]) \in Nat /\ DOMAIN net[i] = 1 .. Len(net[i])
      /\ PacketRight(members, net[i])
  BY ElementOfSeq, LenProperties DEF ServerOK
<1>2. k \in DOMAIN net[i] /\ k \in Nat /\ d \in Part
  BY <1>1, ListPart
<1>3. d.kind \in {"user_full", "chat_full"} /\ Running(x) => Created(x.mem, d.of)
  <2>1. SUFFICES ASSUME d.kind \in {"user_full", "chat_full"}, Running(x) PROVE Created(x.mem, d.of)
    OBVIOUS
  <2>2. \E j \in 1 .. k - 1 : Describes(net[i][j], d.of)
    BY <1>1, <1>2, <2>1 DEF PacketRight
  <2>3. d.of \in Ids
    BY <1>2, <2>1, IdsFinite DEF Part
  <2>4. QED  BY <2>1, <2>2, <2>3 DEF PartsRight
<1>4. PartStepped(x, y, d, i)
  BY <1>2, <1>3, FetchStep DEF PartsRight
<1> HIDE DEF y
<1>5. SUFFICES ASSUME Running(y)
               PROVE  /\ \A j \in 1 .. k, p \in Ids : Describes(net[i][j], p) => Created(y.mem, p)
                      /\ ListsReached(y, i, k)
  BY <1>4 DEF PartStepped, After, PartsRight, y
<1>6. Running(x) /\ \A q \in Ids : Created(x.mem, q) => Created(y.mem, q)
  BY <1>4, <1>5 DEF PartStepped, After
<1>7. ASSUME NEW j \in 1 .. k, NEW p \in Ids, Describes(net[i][j], p) PROVE Created(y.mem, p)
  <2>1. CASE j = k
    BY <1>4, <1>5, <1>7, <2>1 DEF PartStepped
  <2>2. CASE j # k
    <3>1. j \in 1 .. k - 1
      BY <1>2, <2>2
    <3>2. QED  BY <1>6, <1>7, <3>1 DEF PartsRight
  <2>3. QED  BY <2>1, <2>2
<1>8. ListsReached(y, i, k)
  <2>1. CASE d.kind \in ListKinds
    <3>1. \A j \in 1 .. k : net[i][j].kind \in ListKinds => j = k
      <4>1. 1 .. k \subseteq DOMAIN net[i]
        BY <1>1, <1>2
      <4>2. QED  BY <1>1, <1>2, <2>1, <4>1 DEF PacketRight
    <3>2. QED  BY <1>4, <1>5, <2>1, <3>1 DEF PartStepped, ListsReached
  <2>2. CASE d.kind \notin ListKinds
    <3>1. y.mem.list = x.mem.list
      BY <1>4, <2>2 DEF PartStepped
    <3>2. ListsReached(x, i, k - 1)
      BY <1>6 DEF PartsRight
    <3>3. \A j \in 1 .. k : net[i][j].kind \in ListKinds => j \in 1 .. k - 1
      BY <1>2, <2>2
    <3>4. QED  BY <3>1, <3>2, <3>3 DEF ListsReached
  <2>3. QED  BY <2>1, <2>2
<1>9. QED  BY <1>7, <1>8

LEMMA HandledRight ==
  ASSUME ServerOK, NEW i \in DOMAIN net, Strict(i) => InOrder /\ ListsCome(disk),
         Good(mem), disk = Kept(mem), ListsRight(disk), NEW left \in Nat
  PROVE  PartsRight(HandledBy(net[i], left), i, Len(net[i]))
<1> DEFINE parts == net[i]
<1>1. parts \in Seq(Part) /\ Len(parts) \in Nat
  BY ElementOfSeq, LenProperties DEF ServerOK
<1> HIDE DEF parts
<1>2. PICK f : Steps(f, left, parts) /\ HandledBy(parts, left) = f[Len(parts)]
  BY <1>1, HandledSteps
<1> DEFINE T == {k \in Nat : k <= Len(parts) => PartsRight(f[k], i, k)}
<1>3. 0 \in T
  <2>1. KeptDone(mem, disk) /\ mem \in Memory
    BY GoodFields, KeptFields
  <2>2. disk.list = mem.list /\ disk \in Memory
    BY <2>1 DEF KeptDone
  <2>3. ListsRight(mem) /\ (Strict(i) => ListsCome(mem))
    BY <2>2, ListsSame
  <2>4. /\ FirstRun(left) \in Run /\ FirstRun(left).mem = mem /\ FirstRun(left).disk = disk
        /\ FirstRun(left).stop = "none"
    BY <2>1, <2>2 DEF FirstRun, Run
  <2>5. RunOK(FirstRun(left), i)
    BY <2>3, <2>4 DEF RunOK
  <2>6. PartsRight(FirstRun(left), i, 0)
    BY <2>5 DEF PartsRight, ListsReached
  <2>7. f[0] = FirstRun(left)
    BY <1>2 DEF Steps
  <2>8. QED  BY <2>6, <2>7
<1>4. ASSUME NEW k \in Nat, k \in T PROVE k + 1 \in T
  <2>1. SUFFICES ASSUME k + 1 <= Len(parts) PROVE PartsRight(f[k + 1], i, k + 1)
    OBVIOUS
  <2>2. k <= Len(parts) /\ k + 1 \in 1 .. Len(parts) /\ (k + 1) - 1 = k
    BY <1>1, <2>1
  <2>3. PartsRight(f[k], i, k)
    BY <1>4, <2>2
  <2>4. f[k + 1] = Fetch(f[k], net[i][k + 1])
    BY <1>2, <2>2 DEF Steps, parts
  <2>5. Strict(i) => InOrder
    OBVIOUS
  <2> DEFINE n == k + 1
  <2>6. n \in 1 .. Len(net[i]) /\ n - 1 = k
    BY <2>2 DEF parts
  <2> HIDE DEF n
  <2>7. PartsRight(Fetch(f[k], net[i][n]), i, n)
    BY <2>3, <2>5, <2>6, PartsStep
  <2>8. QED  BY <2>4, <2>7 DEF n
<1>5. Len(parts) \in T
  <2> HIDE DEF T
  <2>1. QED  BY <1>1, <1>3, <1>4, Induction
<1>6. QED  BY <1>2, <1>5, <1>1 DEF parts

-----------------------------------------------------------------------------
(* The packets on their way. *)

LEMMA RemovedFields ==
  ASSUME NEW S, NEW s \in Seq(S), NEW i \in DOMAIN s
  PROVE  /\ RemoveAt(s, i) \in Seq(S) /\ Len(RemoveAt(s, i)) = Len(s) - 1
         /\ DOMAIN RemoveAt(s, i) = 1 .. Len(s) - 1 /\ DOMAIN s = 1 .. Len(s) /\ Len(s) \in Nat
         /\ \A j \in 1 .. Len(s) - 1 :
              RemoveAt(s, i)[j] = IF j < i THEN s[j] ELSE s[j + 1]
<1> DEFINE a == SubSeq(s, 1, i - 1)
           b == SubSeq(s, i + 1, Len(s))
           q == RemoveAt(s, i)
<1>1. i \in 1 .. Len(s) /\ Len(s) \in Nat /\ DOMAIN s = 1 .. Len(s)
  BY LenProperties
<1>2. a \in Seq(S) /\ Len(a) = i - 1 /\ \A j \in 1 .. i - 1 : a[j] = s[j]
  BY <1>1, SubSeqProperties
<1>3. /\ b \in Seq(S) /\ Len(b) = Len(s) - i
      /\ \A j \in 1 .. Len(s) - i : b[j] = s[i + j]
  <2>1. \A j \in i + 1 .. Len(s) : s[j] \in S
    BY <1>1, ElementOfSeq
  <2>2. Len(b) = Len(s) - i /\ \A j \in 1 .. Len(s) - i : b[j] = s[i + j]
    BY <1>1, SubSeqProperties
  <2>3. b \in Seq(S)
    BY <1>1, <2>1, SubSeqProperties
  <2>4. QED  BY <2>2, <2>3
<1>4. q = a \o b
  BY DEF RemoveAt
<1> HIDE DEF a, b, q
<1>5. /\ q \in Seq(S) /\ Len(q) = Len(a) + Len(b)
      /\ \A j \in 1 .. Len(q) : q[j] = IF j <= Len(a) THEN a[j] ELSE b[j - Len(a)]
  BY <1>2, <1>3, <1>4, ConcatProperties
<1>6. Len(q) = Len(s) - 1 /\ DOMAIN q = 1 .. Len(q)
  BY <1>1, <1>2, <1>3, <1>5, LenProperties
<1>7. ASSUME NEW j \in 1 .. Len(s) - 1 PROVE q[j] = IF j < i THEN s[j] ELSE s[j + 1]
  <2>1. j \in 1 .. Len(q) /\ j \in Nat /\ i \in Nat
    BY <1>1, <1>6
  <2>2. CASE j < i
    <3>1. j <= Len(a) /\ j \in 1 .. i - 1
      BY <1>1, <1>2, <2>1, <2>2
    <3>2. QED  BY <1>2, <1>5, <2>1, <2>2, <3>1
  <2>3. CASE ~(j < i)
    <3>1. ~(j <= Len(a)) /\ j - Len(a) \in 1 .. Len(s) - i /\ i + (j - Len(a)) = j + 1
      BY <1>1, <1>2, <2>1, <2>3
    <3>2. QED  BY <1>3, <1>5, <2>1, <2>3, <3>1
  <2>4. QED  BY <2>2, <2>3
<1>8. QED  BY <1>1, <1>5, <1>6, <1>7 DEF q

(* net[Before(i, j)] is in the place j when the packet i is gone.          *)
Before(i, j) == IF j < i THEN j ELSE j + 1

LEMMA ServerLess ==
  ASSUME ServerOK, NEW i \in DOMAIN net, net' = RemoveAt(net, i), UNCHANGED server
  PROVE  /\ ServerOK'
         /\ \A j \in DOMAIN net' : /\ Before(i, j) \in DOMAIN net /\ Before(i, j) # i
                                   /\ net'[j] = net[Before(i, j)]
         /\ \A j \in DOMAIN net \ {i} : \E l \in DOMAIN net' : j = Before(i, l)
         /\ \A j, l \in DOMAIN net' : j < l => Before(i, j) < Before(i, l)
<1>1. net \in Seq(Seq(Part))
  BY DEF ServerOK
<1>2. /\ net' \in Seq(Seq(Part)) /\ Len(net) \in Nat /\ DOMAIN net = 1 .. Len(net)
      /\ DOMAIN net' = 1 .. Len(net) - 1
      /\ \A j \in 1 .. Len(net) - 1 : net'[j] = net[Before(i, j)]
  <2>1. \A j : net[Before(i, j)] = IF j < i THEN net[j] ELSE net[j + 1]
    BY DEF Before
  <2>2. QED  BY <1>1, <2>1, RemovedFields
<1>3. ASSUME NEW j \in DOMAIN net'
      PROVE  Before(i, j) \in DOMAIN net /\ Before(i, j) # i /\ net'[j] = net[Before(i, j)]
  BY <1>2 DEF Before
<1>4. ASSUME NEW j \in DOMAIN net \ {i} PROVE \E l \in DOMAIN net' : j = Before(i, l)
  <2>1. CASE j < i
    <3>1. j \in DOMAIN net' /\ j = Before(i, j)
      BY <1>2, <2>1 DEF Before
    <3>2. QED  BY <3>1
  <2>2. CASE ~(j < i)
    <3>1. j - 1 \in DOMAIN net' /\ j = Before(i, j - 1)
      BY <1>2, <2>2 DEF Before
    <3>2. QED  BY <3>1
  <2>3. QED  BY <2>1, <2>2
<1>5. \A j, l \in DOMAIN net' : j < l => Before(i, j) < Before(i, l)
  BY <1>2 DEF Before
<1>6. members' = members /\ name' = name /\ shape' = shape
  BY DEF server
<1>7. ServerOK'
  BY <1>2, <1>3, <1>6 DEF ServerOK
<1>8. QED  BY <1>3, <1>4, <1>5, <1>7

(* Coming of the next state, of a version in either. *)
ComingNext(c, v) ==
  \A w \in v + 1 .. Len(members'[c]) :
    \E i \in DOMAIN net' : \E k \in StepsIn(net'[i], c) : net'[i][k].version = w

LEMMA OrderNext ==
  /\ (\A c \in Chats, i \in DOMAIN net' :
        /\ \A k \in ListsIn(net'[i], c) : ComingNext(c, net'[i][k].version)
        /\ \A j \in DOMAIN net' : i < j =>
             \A k \in ListsIn(net'[i], c), l \in ListsIn(net'[j], c) :
               /\ net'[i][k].version <= net'[j][l].version
               /\ l \in StepsIn(net'[j], c) => net'[i][k].version < net'[j][l].version)
       => InOrder'
  /\ (\A c \in Chats : disk'.list[c].version > 0 =>
         ComingNext(c, disk'.list[c].version) /\ ~disk'.list[c].skipped) => ListsCome(disk)'
BY DEF InOrder, Coming, ListsCome, ComingNext

(* The first packet is handled in full. *)
LEMMA ListsComeOn ==
  ASSUME ServerOK, InOrder, 1 \in DOMAIN net, net' = RemoveAt(net, 1), UNCHANGED server,
         NEW d \in Memory, ListsCome(d),
         \A k \in DOMAIN net[1] : net[1][k].kind \in ListKinds =>
           \/ d.list[net[1][k].of].version = 0
           \/ d.list[net[1][k].of].version >= net[1][k].version
  PROVE  InOrder' /\ (disk' = d => ListsCome(disk)')
<1>1. /\ \A j \in DOMAIN net' : /\ Before(1, j) \in DOMAIN net /\ Before(1, j) # 1
                                /\ net'[j] = net[Before(1, j)]
      /\ \A j \in DOMAIN net \ {1} : \E l \in DOMAIN net' : j = Before(1, l)
      /\ \A j, l \in DOMAIN net' : j < l => Before(1, j) < Before(1, l)
  BY ServerLess
<1>2. members' = members
  BY DEF server
<1>3. ASSUME NEW c \in Chats, NEW v \in Nat, Coming(c, v),
             \A k \in StepsIn(net[1], c) : net[1][k].version <= v
      PROVE  ComingNext(c, v)
  <2>1. SUFFICES ASSUME NEW w \in v + 1 .. Len(members[c])
                 PROVE  \E i \in DOMAIN net' : \E k \in StepsIn(net'[i], c) : net'[i][k].version = w
    BY <1>2 DEF ComingNext
  <2>2. PICK i \in DOMAIN net : \E k \in StepsIn(net[i], c) : net[i][k].version = w
    BY <1>3 DEF Coming
  <2>3. Len(members[c]) \in Nat
    BY Members
  <2>4. i # 1
    BY <1>3, <2>2, <2>3
  <2>5. PICK l \in DOMAIN net' : i = Before(1, l)
    BY <1>1, <2>4
  <2>6. net'[l] = net[i]
    BY <1>1, <2>5
  <2>7. QED  BY <2>2, <2>6
<1>4. \A i, c : StepsIn(net[i], c) \subseteq ListsIn(net[i], c)
  BY DEF StepsIn, ListsIn, ListKinds
<1>5. InOrder'
  <2>1. SUFFICES ASSUME NEW c \in Chats, NEW i \in DOMAIN net'
                 PROVE  /\ \A k \in ListsIn(net'[i], c) : ComingNext(c, net'[i][k].version)
                        /\ \A j \in DOMAIN net' : i < j =>
                             \A k \in ListsIn(net'[i], c), l \in ListsIn(net'[j], c) :
                               /\ net'[i][k].version <= net'[j][l].version
                               /\ l \in StepsIn(net'[j], c) => net'[i][k].version < net'[j][l].version
    BY OrderNext
  <2>2. ASSUME NEW k \in ListsIn(net'[i], c) PROVE ComingNext(c, net'[i][k].version)
    <3> DEFINE b == Before(1, i)
               v == net[b][k].version
    <3>1. b \in DOMAIN net /\ b # 1 /\ net'[i] = net[b]
      BY <1>1
    <3>2. 1 < b
      BY <3>1 DEF ServerOK
    <3> HIDE DEF b
    <3>3. k \in ListsIn(net[b], c) /\ k \in DOMAIN net[b] /\ net[b][k].kind \in ListKinds
          /\ net[b][k].of = c
      BY <3>1 DEF ListsIn
    <3>4. Coming(c, v)
      BY <3>1, <3>3 DEF InOrder
    <3>5. v \in Nat
      <4>1. Len(members[c]) \in Nat
        BY Members
      <4>2. v \in 1 .. Len(members[c])
        BY <3>1, <3>3 DEF ServerOK, PacketRight, PartRight
      <4>3. QED  BY <4>1, <4>2
    <3>6. \A l \in StepsIn(net[1], c) : net[1][l].version <= v
      <4>1. \A l \in ListsIn(net[1], c) : net[1][l].version <= net[b][k].version
        BY <3>1, <3>2, <3>3 DEF InOrder
      <4>2. QED  BY <1>4, <4>1
    <3> HIDE DEF v
    <3>7. ComingNext(c, v)
      BY <1>3, <3>4, <3>5, <3>6
    <3>8. v = net'[i][k].version
      BY <3>1 DEF v
    <3>9. QED  BY <3>7, <3>8
  <2>3. ASSUME NEW j \in DOMAIN net', i < j, NEW k \in ListsIn(net'[i], c),
               NEW l \in ListsIn(net'[j], c)
        PROVE  /\ net'[i][k].version <= net'[j][l].version
               /\ l \in StepsIn(net'[j], c) => net'[i][k].version < net'[j][l].version
    <3>1. /\ Before(1, i) \in DOMAIN net /\ Before(1, j) \in DOMAIN net
          /\ net'[i] = net[Before(1, i)] /\ net'[j] = net[Before(1, j)]
          /\ Before(1, i) < Before(1, j)
      BY <1>1, <2>3
    <3>2. QED  BY <2>3, <3>1 DEF InOrder
  <2>4. QED  BY <2>2, <2>3
<1>6. disk' = d => ListsCome(disk)'
  <2>1. SUFFICES ASSUME disk' = d, NEW c \in Chats, d.list[c].version > 0
                 PROVE  ComingNext(c, d.list[c].version) /\ ~d.list[c].skipped
    BY OrderNext
  <2> DEFINE v == d.list[c].version
  <2>2. v \in Nat
    BY MemoryFields DEF ListType
  <2>3. Coming(c, v) /\ ~d.list[c].skipped
    BY <2>1 DEF ListsCome
  <2>4. \A k \in StepsIn(net[1], c) : net[1][k].version <= v
    <3>1. TAKE k \in StepsIn(net[1], c)
    <3>2. k \in DOMAIN net[1] /\ net[1][k].kind \in ListKinds /\ net[1][k].of = c
      BY DEF StepsIn, ListKinds
    <3>3. net[1][k].version \in Nat
      <4>1. Len(members[c]) \in Nat
        BY Members
      <4>2. net[1][k].version \in 1 .. Len(members[c])
        BY <3>2 DEF ServerOK, PacketRight, PartRight
      <4>3. QED  BY <4>1, <4>2
    <3>4. v >= net[1][k].version
      BY <2>1, <2>2, <3>2
    <3>5. QED  BY <2>2, <3>3, <3>4
  <2> HIDE DEF v
  <2>5. ComingNext(c, v)
    BY <1>3, <2>2, <2>3, <2>4
  <2>6. QED  BY <2>3, <2>5 DEF v
<1>7. QED  BY <1>5, <1>6

-----------------------------------------------------------------------------
(* The steps of the client. *)

LEMMA EmptyGood == Good(Empty) /\ Kept(Empty) = Empty /\ (ServerOK => ListsRight(Empty)) /\ ListsCome(Empty)
<1>1. \A p \in Ids : Empty.peer[p].name = NoName /\ Empty.peer[p].print = NoName
  BY EmptyFields DEF Absent
<1>2. Good(Empty)
  BY <1>1, EmptyFields, IdsFinite DEF Good, Indexed
<1>3. Kept(Empty) = Empty
  <2> DEFINE k == Kept(Empty)
  <2>1. KeptDone(Empty, k)
    BY EmptyFields, KeptFields
  <2> HIDE DEF k
  <2>2. k.peer = Empty.peer
    BY <2>1, EmptyFields DEF KeptDone
  <2>3. k = Empty
    BY <2>1, <2>2, EmptyFields, SameMemory DEF KeptDone
  <2>4. QED  BY <2>3 DEF k
<1>4. \A c \in Chats : Empty.list[c].version = 0
  BY EmptyFields DEF NoList
<1>5. ListsRight(Empty) \/ ~ServerOK
  BY <1>4, Members DEF ListsRight
<1>6. ListsCome(Empty)
  BY <1>4 DEF ListsCome
<1>7. QED  BY <1>2, <1>3, <1>5, <1>6

LEMMA KeptGood ==
  ASSUME NEW d, Good(d)
  PROVE  Good(Kept(d)) /\ Kept(Kept(d)) = Kept(d)
<1> DEFINE k == Kept(d)
           g == Kept(k)
<1>1. KeptDone(d, k) /\ Indexed(d) /\ d.fault = "none"
  BY GoodFields, KeptFields
<1> HIDE DEF k
<1>2. k \in Memory /\ \A q \in Ids : Created(k, q) <=> Created(d, q)
  BY <1>1 DEF KeptDone
<1>3. KeptDone(k, g)
  BY <1>2, KeptFields
<1> HIDE DEF g
<1>4. \A q \in Ids : k.peer[q] = IF Created(d, q) THEN d.peer[q] ELSE Absent
  BY <1>1 DEF KeptDone
<1>5. g = k
  <2>1. \A q \in Ids : g.peer[q] = k.peer[q]
    BY <1>2, <1>3, <1>4 DEF KeptDone
  <2>2. g.peer \in [Ids -> PeerType] /\ k.peer \in [Ids -> PeerType]
    BY <1>2, <1>3, MemoryFields DEF KeptDone
  <2>3. g.peer = k.peer
    BY <2>1, <2>2
  <2>4. QED  BY <1>2, <1>3, <2>3, SameMemory DEF KeptDone
<1>6. Good(k)
  <2>1. \A q \in Ids : Created(d, q) => Entry(k, q) = Entry(d, q)
    BY <1>4 DEF Entry
  <2>2. {Entry(k, q) : q \in {q \in Ids : Created(k, q)}}
          = {Entry(d, q) : q \in {q \in Ids : Created(d, q)}}
    BY <1>2, <2>1
  <2>3. k.index = {Entry(k, q) : q \in {q \in Ids : Created(k, q)}}
    BY <1>1, <2>2 DEF KeptDone, Indexed
  <2>4. \A q, r \in Ids : Created(k, q) /\ Created(k, r)
                          /\ k.peer[q].print = k.peer[r].print => q = r
    BY <1>1, <1>2, <1>4 DEF Indexed
  <2>5. \A q \in Ids :
          IF Created(k, q)
          THEN k.peer[q].name \in Names
               /\ \E cc \in Nat : k.peer[q].print = Suffixed(k.peer[q].name, cc)
          ELSE k.peer[q].name = NoName /\ k.peer[q].print = NoName
    <3>1. TAKE q \in Ids
    <3>2. CASE Created(d, q)
      BY <1>1, <1>2, <1>4, <3>2 DEF Indexed
    <3>3. CASE ~Created(d, q)
      BY <1>2, <1>4, <3>3 DEF Absent
    <3>4. QED  BY <3>2, <3>3
  <2>6. \A c \in Chats : ~Created(k, c) => k.list[c] = NoList
    BY <1>1, <1>2, IdsFinite DEF KeptDone, Indexed
  <2>7. k.fault = "none"
    BY <1>1 DEF KeptDone
  <2>8. QED  BY <1>2, <2>3, <2>4, <2>5, <2>6, <2>7 DEF Good, Indexed
<1>7. QED  BY <1>5, <1>6 DEF g, k

(* A run of the packet i, at any of its records. *)
LEMMA RunRight ==
  ASSUME IInv, up, NEW i \in DOMAIN net, NEW left \in Nat
  PROVE  LET x == HandledBy(net[i], left)
         IN /\ PartsRight(x, i, Len(net[i])) /\ RunOK(x, i) /\ x.stop \in {"none", "crash", "deletion", "addition"}
            /\ Good(x.mem) /\ Good(x.disk) /\ x.disk = Kept(x.mem) /\ Kept(x.disk) = x.disk
            /\ ListsRight(x.disk) /\ (Strict(i) => ListsCome(x.disk) /\ x.stop # "addition")
            /\ x.disk.list = x.mem.list
<1> DEFINE x == HandledBy(net[i], left)
<1>1. PartsRight(x, i, Len(net[i]))
  BY HandledRight DEF IInv, Strict
<1> HIDE DEF x
<1>2. RunOK(x, i)
  BY <1>1 DEF PartsRight
<1>3. /\ Good(x.mem) /\ x.disk = Kept(x.mem) /\ ListsRight(x.mem)
      /\ Strict(i) => ListsCome(x.mem) /\ x.stop # "addition"
  BY <1>2 DEF RunOK
<1>4. Good(Kept(x.mem)) /\ Kept(Kept(x.mem)) = Kept(x.mem)
  BY <1>3, KeptGood
<1>5. Kept(x.mem).list = x.mem.list
  BY <1>3, GoodFields, KeptFields DEF KeptDone
<1>6. ListsRight(x.disk) /\ (Strict(i) => ListsCome(x.disk))
  BY <1>3, <1>5, ListsSame
<1>7. x.stop \in {"none", "crash", "deletion", "addition"}
  BY <1>2 DEF RunOK, Run
<1>8. QED  BY <1>1, <1>2, <1>3, <1>4, <1>5, <1>6, <1>7 DEF x

LEMMA ServerSame ==
  ASSUME UNCHANGED <<server, net>>
  PROVE  (ServerOK => ServerOK') /\ (InOrder => InOrder')
         /\ (ListsRight(disk') => ListsRight(disk)') /\ (ListsCome(disk') => ListsCome(disk)')
<1>1. net' = net /\ members' = members /\ name' = name /\ shape' = shape
  BY DEF server
<1>2. ServerOK => ServerOK'
  BY <1>1 DEF ServerOK, PacketRight, PartRight
<1>3. InOrder => InOrder'
  BY <1>1 DEF InOrder, Coming
<1>4. ListsRight(disk') => ListsRight(disk)'
  BY <1>1 DEF ListsRight
<1>5. ListsCome(disk') => ListsCome(disk)'
  BY <1>1 DEF ListsCome, Coming
<1>6. QED  BY <1>2, <1>3, <1>4, <1>5

(* The process ends on the way. *)
LEMMA EndsRight ==
  ASSUME IInv, up, NEW i \in DOMAIN net, NEW left \in Nat, NEW why, NEW tears \in BOOLEAN,
         Ends(why, HandledBy(net[i], left).disk, tears), UNCHANGED <<server, net>>,
         faults' \in Nat, faults' = 0 => Strict(i), tears => faults' > 0,
         why \in {"crash", "deletion", "addition"}, why = "addition" => faults' > 0
  PROVE  IInv'
<1> DEFINE x == HandledBy(net[i], left)
<1>1. /\ Good(x.disk) /\ Kept(x.disk) = x.disk /\ ListsRight(x.disk)
      /\ Strict(i) => ListsCome(x.disk)
  BY RunRight
<1>2. up' = FALSE /\ cause' = why /\ mem' = Empty /\ disk' = x.disk /\ torn' = tears
  BY DEF Ends
<1> HIDE DEF x
<1>3. ServerOK' /\ (Strict(i) => InOrder')
  BY ServerSame DEF IInv, Strict
<1>4. ListsRight(disk)' /\ (Strict(i) => ListsCome(disk)')
  BY <1>1, <1>2, ServerSame
<1>5. Good(mem)' /\ Good(disk)' /\ (Kept(disk) = disk)'
  <2>1. Good(mem') /\ Good(disk') /\ Kept(disk') = disk'
    BY <1>1, <1>2, EmptyGood
  <2>2. QED  BY <2>1
<1>6. QED  BY <1>2, <1>3, <1>4, <1>5 DEF IInv

LEMMA HandleRight ==
  ASSUME IInv, NEW i \in DOMAIN net, Handle(i)
  PROVE  IInv'
<1> DEFINE x == HandledBy(net[i], MaxRecords)
           late == IF i > 1 THEN 1 ELSE 0
<1>1. up /\ UNCHANGED server
  BY DEF Handle
<1>2. MaxRecords \in Nat
  <2>1. Cardinality(Users) \in Nat
    BY IdsFinite, FS_Subset, FS_CardinalityType
  <2>2. QED  BY <2>1 DEF MaxRecords
<1>3. /\ PartsRight(x, i, Len(net[i])) /\ RunOK(x, i)
      /\ x.stop \in {"none", "crash", "deletion", "addition"}
      /\ Good(x.mem) /\ Good(x.disk) /\ x.disk = Kept(x.mem) /\ Kept(x.disk) = x.disk
      /\ ListsRight(x.disk) /\ (Strict(i) => ListsCome(x.disk) /\ x.stop # "addition")
      /\ x.disk.list = x.mem.list
  BY <1>1, <1>2, RunRight
<1>4. /\ faults \in Nat /\ late \in Nat /\ i \in Nat /\ i >= 1 /\ net \in Seq(Seq(Part))
      /\ torn \in BOOLEAN /\ (torn => faults > 0) /\ DOMAIN net = 1 .. Len(net)
  BY LenProperties DEF IInv, ServerOK
<1>5. late \in Nat /\ (late = 0 => i = 1)
  BY <1>4
<1> HIDE DEF late
<1>6. faults + late \in Nat /\ (faults > 0 => faults + late > 0)
  BY <1>4, <1>5
<1>7. faults + late = 0 => Strict(i)
  BY <1>4, <1>5 DEF Strict
<1>8. CASE /\ Running(x)
           /\ mem' = x.mem /\ disk' = x.disk /\ net' = RemoveAt(net, i)
           /\ faults' = faults + late
           /\ UNCHANGED <<up, torn, cause>>
  <2> HIDE DEF x
  <2>1. ServerOK'
    BY <1>1, <1>8, ServerLess DEF IInv
  <2>2. faults' \in Nat /\ (faults' = 0 => Strict(i)) /\ (faults > 0 => faults' > 0)
    BY <1>8, <1>6, <1>7
  <2>3. Strict(i) => InOrder' /\ ListsCome(disk)'
    <3>1. SUFFICES ASSUME Strict(i) PROVE InOrder' /\ ListsCome(disk)'
      OBVIOUS
    <3>2. i = 1 /\ InOrder /\ ServerOK
      BY <3>1 DEF Strict, IInv
    <3>3. x.disk \in Memory /\ ListsCome(x.disk)
      BY <1>3, <3>1, GoodFields
    <3>4. \A k \in DOMAIN net[1] : net[1][k].kind \in ListKinds =>
            \/ x.disk.list[net[1][k].of].version = 0
            \/ x.disk.list[net[1][k].of].version >= net[1][k].version
      <4>1. DOMAIN net[1] = 1 .. Len(net[1])
        BY <1>4, <3>2, ElementOfSeq, LenProperties
      <4>2. QED  BY <1>3, <1>8, <3>2, <4>1 DEF PartsRight, ListsReached
    <3>5. QED  BY <1>1, <1>8, <3>2, <3>3, <3>4, ListsComeOn
  <2>4. members' = members
    BY <1>1 DEF server
  <2>5. ListsRight(disk)'
    BY <1>3, <1>8, <2>4 DEF ListsRight
  <2>6. Good(mem)' /\ Good(disk)' /\ (Kept(disk) = disk)' /\ (disk = Kept(mem))'
    <3>1. Good(mem') /\ Good(disk') /\ Kept(disk') = disk' /\ disk' = Kept(mem')
      BY <1>3, <1>8
    <3>2. QED  BY <3>1
  <2>7. /\ up' = TRUE /\ torn' = torn /\ cause' = cause
    BY <1>1, <1>8 DEF IInv
  <2>8. QED  BY <2>1, <2>2, <2>3, <2>5, <2>6, <2>7 DEF IInv
<1>9. CASE /\ ~Running(x) /\ Ends(x.stop, x.disk, torn)
           /\ faults' = faults + late /\ UNCHANGED net
  <2>1. x.stop \in {"crash", "deletion", "addition"}
    BY <1>3, <1>9 DEF Running
  <2>2. /\ faults' \in Nat /\ (faults' = 0 => Strict(i)) /\ (torn => faults' > 0)
    BY <1>4, <1>9, <1>6, <1>7
  <2>3. x.stop = "addition" => faults' > 0
    BY <1>3, <2>2
  <2>4. UNCHANGED <<server, net>>
    BY <1>1, <1>9
  <2>5. QED  BY <1>1, <1>2, <1>4, <1>9, <2>1, <2>2, <2>3, <2>4, EndsRight
<1>10. CASE \E left \in 0 .. MaxRecords - x.left - 1, tears \in BOOLEAN :
             /\ faults' = faults + late + (IF tears THEN 1 ELSE 0)
             /\ faults' <= MaxFaults
             /\ Ends("crash", HandledBy(net[i], left).disk, tears) /\ UNCHANGED net
  <2>1. PICK left \in 0 .. MaxRecords - x.left - 1, tears \in BOOLEAN :
             /\ faults' = faults + late + (IF tears THEN 1 ELSE 0)
             /\ Ends("crash", HandledBy(net[i], left).disk, tears) /\ UNCHANGED net
    BY <1>10
  <2>2. left \in Nat
    OBVIOUS
  <2>3. /\ faults' \in Nat /\ (faults' = 0 => Strict(i)) /\ (tears => faults' > 0)
    <3>1. CASE tears
      BY <2>1, <3>1, <1>6
    <3>2. CASE ~tears
      BY <2>1, <3>2, <1>6, <1>7
    <3>3. QED  BY <3>1, <3>2
  <2>4. UNCHANGED <<server, net>>
    BY <1>1, <2>1
  <2>5. QED  BY <1>1, <2>1, <2>2, <2>3, <2>4, EndsRight
<1>11. QED  BY <1>8, <1>9, <1>10 DEF Handle, late

LEMMA StartRight ==
  ASSUME IInv, Start
  PROVE  IInv'
<1>1. disk' = disk /\ torn' = torn /\ faults' = faults /\ UNCHANGED <<server, net>>
  BY DEF Start
<1>2. ServerOK' /\ (InOrder => InOrder') /\ ListsRight(disk)' /\ (ListsCome(disk) => ListsCome(disk)')
  BY <1>1, ServerSame DEF IInv
<1>3. /\ ~up /\ disk.fault = "none" /\ mem = Empty
  BY DEF Start, IInv, Good
<1>4. \/ torn /\ cause' = "replay" /\ up' = up /\ mem' = mem
      \/ up' = TRUE /\ mem' = disk /\ cause' = "none"
  BY <1>3 DEF Start
<1>5. Good(mem') /\ Good(disk') /\ Kept(disk') = disk'
      /\ (IF up' THEN disk' = Kept(mem') ELSE mem' = Empty)
  BY <1>1, <1>3, <1>4 DEF IInv
<1>6. Good(mem)' /\ Good(disk)' /\ (Kept(disk) = disk)'
      /\ (IF up THEN disk = Kept(mem) ELSE mem = Empty)'
  BY <1>5
<1>7. QED  BY <1>1, <1>2, <1>3, <1>4, <1>6 DEF IInv

LEMMA LoseRight ==
  ASSUME IInv, NEW i \in DOMAIN net, Lose(i)
  PROVE  IInv'
<1>1. /\ faults' = faults + 1 /\ net' = RemoveAt(net, i) /\ UNCHANGED server
      /\ up' = up /\ torn' = torn /\ cause' = cause /\ mem' = mem /\ disk' = disk
  BY DEF Lose, process
<1>2. ServerOK'
  BY <1>1, ServerLess DEF IInv
<1>3. faults' \in Nat /\ faults' > 0
  BY <1>1 DEF IInv
<1>4. ListsRight(disk)'
  BY <1>1 DEF IInv, ListsRight, server
<1>5. Good(mem)' /\ Good(disk)' /\ (Kept(disk) = disk)'
      /\ (IF up THEN disk = Kept(mem) ELSE mem = Empty)'
  BY <1>1 DEF IInv
<1>6. QED  BY <1>1, <1>2, <1>3, <1>4, <1>5 DEF IInv

-----------------------------------------------------------------------------
(* The steps of the server. *)

(* What a packet that is sent says is the newest, and each change of a list *)
(* is in one.                                                              *)
Newest(parts) ==
  \A c \in Chats :
    /\ \/ members'[c] = members[c] /\ StepsIn(parts, c) = {}
       \/ \E S \in SUBSET Users :
            /\ members'[c] = Append(members[c], S)
            /\ \E k \in StepsIn(parts, c) : parts[k].version = Len(members[c]) + 1
    /\ \A k \in ListsIn(parts, c) : parts[k].version = Len(members'[c])

LEMMA Grown ==
  ASSUME ServerOK, NEW parts, Newest(parts), NEW c \in Chats
  PROVE  /\ Len(members[c]) \in Nat /\ Len(members'[c]) \in Nat
         /\ Len(members'[c]) > 0 /\ Len(members[c]) <= Len(members'[c])
         /\ members'[c] \in Seq(SUBSET Users)
         /\ \A v \in 1 .. Len(members[c]) : members'[c][v] = members[c][v]
         /\ Len(members'[c]) > Len(members[c]) =>
              /\ Len(members'[c]) = Len(members[c]) + 1
              /\ \E k \in StepsIn(parts, c) : parts[k].version = Len(members'[c])
         /\ StepsIn(parts, c) # {} => Len(members'[c]) > Len(members[c])
<1>1. members[c] \in Seq(SUBSET Users) /\ Len(members[c]) \in Nat /\ Len(members[c]) > 0
  BY Members DEF ServerOK
<1>2. CASE members'[c] = members[c] /\ StepsIn(parts, c) = {}
  BY <1>1, <1>2
<1>3. CASE \E S \in SUBSET Users :
             /\ members'[c] = Append(members[c], S)
             /\ \E k \in StepsIn(parts, c) : parts[k].version = Len(members[c]) + 1
  <2>1. PICK S \in SUBSET Users :
             /\ members'[c] = Append(members[c], S)
             /\ \E k \in StepsIn(parts, c) : parts[k].version = Len(members[c]) + 1
    BY <1>3
  <2>2. /\ members'[c] \in Seq(SUBSET Users) /\ Len(members'[c]) = Len(members[c]) + 1
        /\ \A v \in 1 .. Len(members[c]) : members'[c][v] = members[c][v]
    BY <1>1, <2>1, AppendProperties
  <2>3. QED  BY <1>1, <2>1, <2>2
<1>4. QED  BY <1>2, <1>3 DEF Newest

LEMMA ServerSends ==
  ASSUME ServerOK, NEW parts \in Seq(Part), Newest(parts), net' = Append(net, parts),
         PacketRight(members', parts), name' \in [Ids -> Names],
         shape' \in [Users -> {"self", "contact", "deleted"}], DOMAIN members' = Chats,
         members' = [c \in Chats |-> members'[c]]
  PROVE  /\ ServerOK'
         /\ DOMAIN net = 1 .. Len(net) /\ DOMAIN net' = 1 .. Len(net) + 1 /\ Len(net) \in Nat
         /\ \A i \in DOMAIN net : net'[i] = net[i]
         /\ net'[Len(net) + 1] = parts
<1>1. net \in Seq(Seq(Part))
  BY DEF ServerOK
<1>2. /\ net' \in Seq(Seq(Part)) /\ Len(net') = Len(net) + 1 /\ Len(net) \in Nat
      /\ \A i \in 1 .. Len(net) : net'[i] = net[i]
      /\ net'[Len(net) + 1] = parts /\ DOMAIN net = 1 .. Len(net) /\ DOMAIN net' = 1 .. Len(net')
  BY <1>1, AppendProperties, LenProperties
<1>3. ASSUME NEW i \in DOMAIN net PROVE PacketRight(members', net[i])
  <2>1. PacketRight(members, net[i])
    BY DEF ServerOK
  <2>2. ASSUME NEW k \in DOMAIN net[i] PROVE PartRight(members', net[i][k])
    <3> DEFINE d == net[i][k]
    <3>1. d \in Part /\ PartRight(members, d)
      <4>1. net[i] \in Seq(Part)
        BY <1>1, ElementOfSeq
      <4>2. QED  BY <2>1, <4>1, ElementOfSeq DEF PacketRight
    <3> HIDE DEF d
    <3>2. ASSUME d.kind \notin ListKinds PROVE PartRight(members', d)
      BY <3>2 DEF PartRight, ListKinds, StepKinds
    <3>3. ASSUME d.kind \in ListKinds PROVE PartRight(members', d)
      <4>1. d.of \in Chats /\ d.version \in 1 .. Len(members[d.of])
        BY <3>1, <3>3 DEF Part, PartRight, ListKinds, StepKinds
      <4>2. /\ Len(members[d.of]) \in Nat /\ Len(members'[d.of]) \in Nat
            /\ Len(members[d.of]) <= Len(members'[d.of])
            /\ \A v \in 1 .. Len(members[d.of]) : members'[d.of][v] = members[d.of][v]
        BY <4>1, Grown
      <4>3. d.version \in 1 .. Len(members'[d.of])
        BY <4>1, <4>2
      <4>4. members'[d.of][d.version] = members[d.of][d.version]
        BY <4>1, <4>2
      <4>5. d.version > 1 => members'[d.of][d.version - 1] = members[d.of][d.version - 1]
        <5>1. d.version > 1 => d.version - 1 \in 1 .. Len(members[d.of])
          BY <4>1, <4>2
        <5>2. QED  BY <4>2, <5>1
      <4>6. QED  BY <3>1, <4>3, <4>4, <4>5 DEF PartRight
    <3>4. QED  BY <3>2, <3>3 DEF d
  <2>3. QED  BY <2>1, <2>2 DEF PacketRight
<1>4. \A i \in DOMAIN net' : PacketRight(members', net'[i])
  <2>1. \A i \in DOMAIN net' : i \in DOMAIN net \/ i = Len(net) + 1
    BY <1>2
  <2>2. QED  BY <1>2, <1>3, <2>1
<1>5. \A c \in Chats : members'[c] \in Seq(SUBSET Users) /\ Len(members'[c]) > 0
  BY Grown
<1>6. ServerOK'
  BY <1>2, <1>4, <1>5 DEF ServerOK
<1>7. QED  BY <1>2, <1>6

LEMMA SentInOrder ==
  ASSUME ServerOK, NEW parts \in Seq(Part), Newest(parts), net' = Append(net, parts), ServerOK',
         DOMAIN net = 1 .. Len(net), DOMAIN net' = 1 .. Len(net) + 1, Len(net) \in Nat,
         \A i \in DOMAIN net : net'[i] = net[i], net'[Len(net) + 1] = parts
  PROVE  /\ InOrder => InOrder'
         /\ Good(disk) /\ ListsRight(disk) /\ ListsCome(disk) /\ disk' = disk => ListsCome(disk)'
<1>1. ASSUME NEW c \in Chats, NEW v \in Nat, Coming(c, v) PROVE ComingNext(c, v)
  <2>1. SUFFICES ASSUME NEW w \in v + 1 .. Len(members'[c])
                 PROVE  \E i \in DOMAIN net' : \E k \in StepsIn(net'[i], c) : net'[i][k].version = w
    BY DEF ComingNext
  <2>2. /\ Len(members[c]) \in Nat /\ Len(members'[c]) \in Nat
        /\ Len(members'[c]) > Len(members[c]) =>
              /\ Len(members'[c]) = Len(members[c]) + 1
              /\ \E k \in StepsIn(parts, c) : parts[k].version = Len(members'[c])
    BY Grown
  <2>3. CASE w <= Len(members[c])
    <3>1. w \in v + 1 .. Len(members[c])
      BY <2>2, <2>3
    <3>2. \E i \in DOMAIN net : \E k \in StepsIn(net[i], c) : net[i][k].version = w
      BY <1>1, <3>1 DEF Coming
    <3>3. DOMAIN net \subseteq DOMAIN net'
      OBVIOUS
    <3>4. QED  BY <3>2, <3>3
  <2>4. CASE ~(w <= Len(members[c]))
    <3>1. w = Len(members'[c]) /\ Len(members'[c]) > Len(members[c])
      BY <2>2, <2>4
    <3>2. Len(net) + 1 \in DOMAIN net'
      OBVIOUS
    <3>3. QED  BY <2>2, <3>1, <3>2
  <2>5. QED  BY <2>3, <2>4
<1>2. ASSUME NEW c \in Chats, NEW i \in DOMAIN net, NEW k \in ListsIn(net[i], c)
      PROVE  net[i][k].version \in 1 .. Len(members[c])
  BY DEF ListsIn, ServerOK, PacketRight, PartRight
<1>3. ASSUME InOrder PROVE InOrder'
  <2>1. ASSUME NEW c \in Chats, NEW i \in DOMAIN net', NEW k \in ListsIn(net'[i], c)
        PROVE  ComingNext(c, net'[i][k].version)
    <3>1. CASE i \in DOMAIN net
      <4>1. k \in ListsIn(net[i], c) /\ net'[i] = net[i]
        BY <2>1, <3>1
      <4>2. net[i][k].version \in Nat
        <5>1. Len(members[c]) \in Nat
          BY Members
        <5>2. QED  BY <1>2, <3>1, <4>1, <5>1
      <4>3. Coming(c, net[i][k].version)
        BY <1>3, <3>1, <4>1 DEF InOrder
      <4>4. QED  BY <1>1, <4>1, <4>2, <4>3
    <3>2. CASE i = Len(net) + 1
      <4>1. net'[i][k].version = Len(members'[c])
        BY <2>1, <3>2 DEF Newest
      <4>2. Len(members'[c]) \in Nat
        BY Grown
      <4>3. QED  BY <4>1, <4>2 DEF ComingNext
    <3>3. QED  BY <3>1, <3>2
  <2>2. ASSUME NEW c \in Chats, NEW i \in DOMAIN net', NEW j \in DOMAIN net', i < j,
               NEW k \in ListsIn(net'[i], c), NEW l \in ListsIn(net'[j], c)
        PROVE  /\ net'[i][k].version <= net'[j][l].version
               /\ l \in StepsIn(net'[j], c) => net'[i][k].version < net'[j][l].version
    <3>1. i \in DOMAIN net
      BY <2>2
    <3>2. CASE j \in DOMAIN net
      BY <1>3, <2>2, <3>1, <3>2 DEF InOrder
    <3>3. CASE j = Len(net) + 1
      <4>1. net'[j][l].version = Len(members'[c])
        BY <2>2, <3>3 DEF Newest
      <4>2. net'[i] = net[i] /\ k \in ListsIn(net[i], c)
        BY <2>2, <3>1
      <4>3. net[i][k].version \in 1 .. Len(members[c])
        BY <1>2, <3>1, <4>2
      <4>4. /\ Len(members[c]) \in Nat /\ Len(members'[c]) \in Nat
            /\ Len(members[c]) <= Len(members'[c])
            /\ StepsIn(parts, c) # {} => Len(members'[c]) > Len(members[c])
        BY Grown
      <4>5. QED  BY <3>3, <4>1, <4>2, <4>3, <4>4
    <3>4. QED  BY <3>2, <3>3
  <2>3. QED  BY <2>1, <2>2, OrderNext
<1>4. ASSUME Good(disk), ListsRight(disk), ListsCome(disk), disk' = disk PROVE ListsCome(disk)'
  <2>1. \A c \in Chats : disk.list[c].version \in Nat
    BY <1>4, GoodFields, MemoryFields DEF ListType
  <2>2. \A c \in Chats : disk'.list[c].version > 0 =>
          ComingNext(c, disk'.list[c].version) /\ ~disk'.list[c].skipped
    BY <1>1, <1>4, <2>1 DEF ListsCome
  <2>3. QED  BY <2>2, OrderNext
<1>5. QED  BY <1>3, <1>4

LEMMA SentRight ==
  ASSUME IInv, UNCHANGED <<process, faults>>, NEW parts \in Seq(Part), Newest(parts),
         net' = Append(net, parts), PacketRight(members', parts), name' \in [Ids -> Names],
         shape' \in [Users -> {"self", "contact", "deleted"}], DOMAIN members' = Chats,
         members' = [c \in Chats |-> members'[c]]
  PROVE  IInv'
<1>1. /\ ServerOK'
      /\ DOMAIN net = 1 .. Len(net) /\ DOMAIN net' = 1 .. Len(net) + 1 /\ Len(net) \in Nat
      /\ \A i \in DOMAIN net : net'[i] = net[i]
      /\ net'[Len(net) + 1] = parts
  BY ServerSends DEF IInv
<1>2. /\ faults' = faults /\ up' = up /\ torn' = torn /\ cause' = cause
      /\ mem' = mem /\ disk' = disk
  BY DEF process
<1>3. faults' = 0 => InOrder' /\ ListsCome(disk)'
  BY <1>1, <1>2, SentInOrder DEF IInv
<1>4. ListsRight(disk)'
  <2>1. SUFFICES ASSUME NEW c \in Chats
                 PROVE  /\ disk.list[c].version <= Len(members'[c])
                        /\ disk.list[c].version > 0 /\ ~disk.list[c].skipped =>
                             disk.list[c].users = members'[c][disk.list[c].version]
    BY <1>2 DEF ListsRight
  <2>2. /\ Len(members[c]) \in Nat /\ Len(members'[c]) \in Nat
        /\ Len(members[c]) <= Len(members'[c])
        /\ \A v \in 1 .. Len(members[c]) : members'[c][v] = members[c][v]
    BY Grown DEF IInv
  <2>3. disk.list[c].version \in Nat
    BY GoodFields, MemoryFields DEF IInv, ListType
  <2>4. /\ disk.list[c].version <= Len(members[c])
        /\ disk.list[c].version > 0 /\ ~disk.list[c].skipped =>
             disk.list[c].users = members[c][disk.list[c].version]
    BY DEF IInv, ListsRight
  <2>5. disk.list[c].version > 0 => disk.list[c].version \in 1 .. Len(members[c])
    BY <2>2, <2>3, <2>4
  <2>6. QED  BY <2>2, <2>3, <2>4, <2>5
<1>5. Good(mem)' /\ Good(disk)' /\ (Kept(disk) = disk)'
      /\ (IF up THEN disk = Kept(mem) ELSE mem = Empty)'
  BY <1>2 DEF IInv
<1>6. QED  BY <1>1, <1>2, <1>3, <1>4, <1>5 DEF IInv

LEMMA LatestRight ==
  ASSUME ServerOK, NEW c \in Chats
  PROVE  /\ Latest(c) \in SUBSET Users /\ Cardinality(Latest(c)) \in Nat
         /\ Latest(c) = members[c][Len(members[c])] /\ Len(members[c]) \in Nat /\ Len(members[c]) > 0
<1>1. /\ Len(members[c]) \in Nat /\ Len(members[c]) > 0
      /\ \A v \in 1 .. Len(members[c]) : members[c][v] \in SUBSET Users
  BY Members
<1>2. Latest(c) \in SUBSET Users
  BY <1>1 DEF Latest
<1>3. IsFiniteSet(Latest(c))
  BY <1>2, IdsFinite, FS_Subset
<1>4. QED  BY <1>1, <1>2, <1>3, FS_CardinalityType DEF Latest

LEMMA DescriptionParts ==
  ASSUME ServerOK
  PROVE  /\ \A u \in Users : /\ Describe(u) \in Part /\ Describe(u).kind = "user"
                             /\ Describe(u).of = u /\ Describe(u).shape # "empty"
         /\ \A c \in Chats, how \in {"chat", "forbidden", "empty"} :
              /\ Title(c, how) \in Part /\ Title(c, how).kind = "chat"
              /\ Title(c, how).of = c /\ Title(c, how).shape = how
<1>1. name \in [Ids -> Names] /\ shape \in [Users -> {"self", "contact", "deleted"}]
  BY DEF ServerOK
<1>2. ASSUME NEW u \in Users
      PROVE  /\ Describe(u) \in Part /\ Describe(u).kind = "user"
             /\ Describe(u).of = u /\ Describe(u).shape # "empty"
  <2>1. name[u] \in Names /\ shape[u] \in {"self", "contact", "deleted"}
    BY <1>1, IdsFinite
  <2>2. QED  BY <2>1 DEF Describe, Part
<1>3. ASSUME NEW c \in Chats, NEW how \in {"chat", "forbidden", "empty"}
      PROVE  /\ Title(c, how) \in Part /\ Title(c, how).kind = "chat"
             /\ Title(c, how).of = c /\ Title(c, how).shape = how
  <2>1. name[c] \in Names /\ Cardinality(Latest(c)) \in Nat /\ Len(members[c]) \in Nat
    BY <1>1, IdsFinite, LatestRight
  <2>2. QED  BY <2>1 DEF Title, Part
<1>4. QED  BY <1>2, <1>3

LEMMA DescribedParts ==
  ASSUME ServerOK, NEW us \in SUBSET Users, NEW q \in Described(us)
  PROVE  q \in Seq(Part) /\ \A k \in DOMAIN q : q[k].kind = "user"
<1> DEFINE S == {Describe(u) : u \in us}
           f == [d \in S |-> d.of]
<1>1. S \subseteq Part /\ \A d \in S : d.kind = "user" /\ d.of \in Users
  BY DescriptionParts
<1>2. f \in Injection(S, Users)
  <2>1. f \in [S -> Users] /\ \A a, b \in S : f[a] = f[b] => a = b
    BY <1>1, DescriptionParts
  <2> HIDE DEF f, S
  <2>2. QED  BY <2>1 DEF Injection, IsInjective
<1>3. Cardinality(S) \in Nat
  <2>1. IsFiniteSet(Users)
    BY IdsFinite, FS_Subset
  <2> HIDE DEF f, S
  <2>2. QED  BY <1>2, <2>1, FS_Injection, FS_CardinalityType
<1>4. q \in [1 .. Cardinality(S) -> S]
  BY DEF Described, SetToSeqs
<1> HIDE DEF S
<1>5. q \in Seq(S)
  BY <1>3, <1>4, IsASeq
<1>6. QED  BY <1>1, <1>4, <1>5, SeqMonotonic

PlainKinds == {"user", "chat", "update_user_name"}

LEMMA PlainSent ==
  ASSUME IInv, UNCHANGED <<process, faults, members>>, NEW parts \in Seq(Part), Send(parts),
         \A k \in DOMAIN parts : parts[k].kind \in PlainKinds,
         name' \in [Ids -> Names], shape' = shape
  PROVE  IInv'
<1>1. \A c : ListsIn(parts, c) = {} /\ StepsIn(parts, c) = {}
  BY DEF ListsIn, StepsIn, PlainKinds, ListKinds, StepKinds
<1>2. Newest(parts)
  BY <1>1 DEF Newest
<1>3. PacketRight(members', parts)
  BY DEF PacketRight, PartRight, PlainKinds, ListKinds, StepKinds
<1>4. /\ shape' \in [Users -> {"self", "contact", "deleted"}] /\ DOMAIN members' = Chats
      /\ members' = [c \in Chats |-> members'[c]]
  BY DEF IInv, ServerOK
<1>5. net' = Append(net, parts) /\ UNCHANGED <<process, faults>>
  BY DEF Send
<1>6. QED  BY <1>2, <1>3, <1>4, <1>5, SentRight

LEMMA OnePart ==
  ASSUME NEW d \in Part
  PROVE  <<d>> \in Seq(Part) /\ DOMAIN <<d>> = {1} /\ <<d>>[1] = d
OBVIOUS

LEMMA RenameStep ==
  ASSUME IInv, NEW u \in Users, NEW n \in Names, Rename(u, n)
  PROVE  IInv'
<1> DEFINE d == [kind |-> "update_user_name", of |-> u, name |-> n]
<1>1. d \in Part /\ d.kind = "update_user_name"
  BY DEF Part
<1>2. UNCHANGED <<process, faults, members>> /\ Send(<<d>>) /\ shape' = shape
      /\ name' = [name EXCEPT ![u] = n]
  BY DEF Rename
<1> HIDE DEF d
<1>3. name' \in [Ids -> Names]
  BY <1>2, IdsFinite DEF IInv, ServerOK
<1>4. <<d>> \in Seq(Part) /\ \A k \in DOMAIN <<d>> : <<d>>[k].kind \in PlainKinds
  BY <1>1, OnePart DEF PlainKinds
<1>5. QED  BY <1>2, <1>3, <1>4, PlainSent

LEMMA RenameChatStep ==
  ASSUME IInv, NEW c \in Chats, NEW n \in Names, do_rename_chat(c, n)
  PROVE  IInv'
<1> DEFINE d == [Title(c, "chat") EXCEPT !.name = n]
<1>1. d \in Part /\ d.kind = "chat"
  <2>1. Title(c, "chat") \in Part /\ Title(c, "chat").kind = "chat"
    BY DescriptionParts DEF IInv
  <2>2. QED  BY <2>1 DEF Part
<1>2. UNCHANGED <<process, faults, members>> /\ Send(<<d>>) /\ shape' = shape
      /\ name' = [name EXCEPT ![c] = n]
  BY DEF do_rename_chat
<1> HIDE DEF d
<1>3. name' \in [Ids -> Names]
  BY <1>2, IdsFinite DEF IInv, ServerOK
<1>4. <<d>> \in Seq(Part) /\ \A k \in DOMAIN <<d>> : <<d>>[k].kind \in PlainKinds
  BY <1>1, OnePart DEF PlainKinds
<1>5. QED  BY <1>2, <1>3, <1>4, PlainSent

LEMMA ReshapeStep ==
  ASSUME IInv, NEW u \in Users, Reshape(u)
  PROVE  IInv'
<1>1. /\ shape' = [shape EXCEPT ![u] = "deleted"] /\ name' = name /\ members' = members
      /\ net' = net /\ faults' = faults /\ up' = up /\ torn' = torn /\ cause' = cause
      /\ mem' = mem /\ disk' = disk
  BY DEF Reshape, process
<1>2. ServerOK'
  <2>1. shape' \in [Users -> {"self", "contact", "deleted"}]
    BY <1>1 DEF IInv, ServerOK
  <2>2. QED  BY <1>1, <2>1 DEF IInv, ServerOK
<1>3. (InOrder => InOrder') /\ (ListsCome(disk) => ListsCome(disk)') /\ ListsRight(disk)'
  BY <1>1 DEF IInv, InOrder, ListsCome, Coming, ListsRight
<1>4. Good(mem)' /\ Good(disk)' /\ (Kept(disk) = disk)'
      /\ (IF up THEN disk = Kept(mem) ELSE mem = Empty)'
  BY <1>1 DEF IInv
<1>5. QED  BY <1>1, <1>2, <1>3, <1>4 DEF IInv

LEMMA MentionStep ==
  ASSUME IInv, Mention
  PROVE  IInv'
<1>1. UNCHANGED <<process, faults, members>> /\ shape' = shape /\ name' \in [Ids -> Names]
  BY DEF Mention, server, IInv, ServerOK
<1>2. ASSUME NEW d \in Part, d.kind \in PlainKinds, Send(<<d>>) PROVE IInv'
  <2>1. <<d>> \in Seq(Part) /\ \A k \in DOMAIN <<d>> : <<d>>[k].kind \in PlainKinds
    BY <1>2, OnePart
  <2>2. QED  BY <1>1, <1>2, <2>1, PlainSent
<1>3. ASSUME NEW u \in Others, NEW how \in {"empty", "foreign"},
             Send(<<[Describe(u) EXCEPT !.shape = how]>>)
      PROVE  IInv'
  <2> DEFINE d == [Describe(u) EXCEPT !.shape = how]
  <2>1. d \in Part /\ d.kind \in PlainKinds
    <3>1. Describe(u) \in Part /\ Describe(u).kind = "user"
      BY DescriptionParts DEF IInv, Others
    <3>2. QED  BY <3>1 DEF Part, PlainKinds
  <2>2. Send(<<d>>)
    BY <1>3
  <2> HIDE DEF d
  <2>3. QED  BY <1>2, <2>1, <2>2
<1>4. ASSUME NEW c \in Chats, NEW how \in {"empty", "forbidden"}, Send(<<Title(c, how)>>)
      PROVE  IInv'
  <2>1. Title(c, how) \in Part /\ Title(c, how).kind \in PlainKinds
    BY DescriptionParts DEF IInv, PlainKinds
  <2>2. QED  BY <1>2, <1>4, <2>1
<1>5. QED  BY <1>3, <1>4 DEF Mention

(* A change of a list, with what the packet says first. *)
LEMMA ChangeChatUserStep ==
  ASSUME IInv, NEW c \in Chats, NEW u \in Users, do_change_chat_user(c, u)
  PROVE  IInv'
<1> DEFINE joins == u \notin Latest(c)
           next == IF joins THEN Latest(c) \cup {u} ELSE Latest(c) \ {u}
           kind == IF joins THEN "update_chat_participant_add" ELSE "update_chat_participant_delete"
           v == Len(members[c]) + 1
           step == [kind |-> kind, of |-> c, version |-> v, user |-> u]
           list == [kind |-> "update_chat_participants", of |-> c, version |-> v, users |-> next]
<1>1. /\ Latest(c) \in SUBSET Users /\ Latest(c) = members[c][Len(members[c])]
      /\ Len(members[c]) \in Nat /\ Len(members[c]) > 0 /\ members[c] \in Seq(SUBSET Users)
      /\ members \in [Chats -> Seq(SUBSET Users)]
  BY LatestRight DEF IInv, ServerOK
<1>2. next \in SUBSET Users
  BY <1>1
<1>3. PICK d \in {step, list} : Send(<<d, Describe(u)>>)
  BY DEF do_change_chat_user
<1>4. /\ d \in Part /\ d.kind \in StepKinds /\ d.of = c /\ d.version = v
      /\ d.kind = "update_chat_participants" => d.users = next
      /\ d.kind = "update_chat_participant_add" => d.user = u /\ joins
  <2>1. v \in Nat
    BY <1>1
  <2> HIDE DEF v, next
  <2>2. CASE d = step
    BY <2>1, <2>2 DEF Part, StepKinds
  <2>3. CASE d = list
    BY <1>2, <2>1, <2>3 DEF Part, StepKinds
  <2>4. QED  BY <2>2, <2>3
<1>5. /\ members' = [members EXCEPT ![c] = Append(members[c], next)]
      /\ UNCHANGED <<process, faults>> /\ name' = name /\ shape' = shape
  BY DEF do_change_chat_user
<1> HIDE DEF step, list
<1>6. /\ members'[c] = Append(members[c], next) /\ \A b \in Chats \ {c} : members'[b] = members[b]
      /\ DOMAIN members' = Chats /\ members' = [b \in Chats |-> members'[b]]
  BY <1>1, <1>5
<1>7. /\ Len(members'[c]) = v /\ members'[c][v] = next
      /\ members'[c][v - 1] = Latest(c) /\ v > 1 /\ v \in 1 .. v
  BY <1>1, <1>2, <1>6, AppendProperties
<1> DEFINE parts == <<d, Describe(u)>>
<1>8. /\ Describe(u) \in Part /\ Describe(u).kind = "user"
  BY DescriptionParts DEF IInv
<1>9. /\ parts \in Seq(Part) /\ DOMAIN parts = {1, 2} /\ parts[1] = d /\ parts[2] = Describe(u)
  BY <1>4, <1>8
<1> HIDE DEF parts, v
<1>10. parts[2].kind \notin ListKinds /\ parts[1].kind \in StepKinds /\ parts[1].kind \in ListKinds
       /\ parts[1].kind \notin {"user_full", "chat_full"}
       /\ parts[2].kind \notin {"user_full", "chat_full"}
  BY <1>4, <1>8, <1>9 DEF ListKinds, StepKinds
<1>11. PacketRight(members', parts)
  <2>1. PartRight(members', parts[1])
    <3>1. d.kind = "update_chat_participant_add" => next = Latest(c) \cup {u}
      BY <1>4
    <3> HIDE DEF next
    <3>2. d.kind # "chat_full"
      BY <1>4 DEF StepKinds
    <3>3. PartRight(members', d)
      BY <1>4, <1>7, <3>1, <3>2 DEF PartRight
    <3>4. QED  BY <1>9, <3>3
  <2>2. PartRight(members', parts[2])
    BY <1>8, <1>9 DEF PartRight, ListKinds, StepKinds
  <2>3. QED  BY <1>9, <1>10, <2>1, <2>2 DEF PacketRight
<1>12. Newest(parts)
  <2>1. \A b \in Chats : StepsIn(parts, b) = (IF b = c THEN {1} ELSE {})
                         /\ ListsIn(parts, b) = (IF b = c THEN {1} ELSE {})
    <3>1. parts[1].of = c /\ parts[2].kind \notin StepKinds
      BY <1>4, <1>9, <1>10 DEF ListKinds
    <3>2. \A b, k : k \in StepsIn(parts, b) <=> k = 1 /\ b = c
      BY <1>9, <1>10, <3>1 DEF StepsIn
    <3>3. \A b, k : k \in ListsIn(parts, b) <=> k = 1 /\ b = c
      BY <1>9, <1>10, <3>1 DEF ListsIn
    <3>4. QED  BY <3>2, <3>3
  <2>2. parts[1].version = Len(members[c]) + 1
    BY <1>4, <1>9 DEF v
  <2>3. parts[1].version = Len(members'[c])
    BY <1>4, <1>7, <1>9
  <2> HIDE DEF next
  <2>4. QED  BY <1>2, <1>6, <2>1, <2>2, <2>3 DEF Newest
<1>13. net' = Append(net, parts)
  BY <1>3 DEF Send, parts
<1>14. name' \in [Ids -> Names] /\ shape' \in [Users -> {"self", "contact", "deleted"}]
  BY <1>5 DEF IInv, ServerOK
<1>15. QED  BY <1>5, <1>6, <1>9, <1>11, <1>12, <1>13, <1>14, SentRight

LEMMA UserInfoStep ==
  ASSUME IInv, NEW u \in Users, do_get_user_info(u), UNCHANGED <<process, faults, server>>
  PROVE  IInv'
<1> DEFINE full == [kind |-> "user_full", of |-> u, name |-> name[u]]
           parts == <<Describe(u), full>>
<1>1. Describe(u) \in Part /\ Describe(u).kind = "user" /\ Describes(Describe(u), u)
  BY DescriptionParts DEF IInv, Describes
<1>2. full \in Part /\ full.kind = "user_full" /\ full.of = u
  <2>1. name[u] \in Names
    BY IdsFinite DEF IInv, ServerOK
  <2>2. QED  BY <2>1 DEF Part
<1>3. Send(parts)
  BY DEF do_get_user_info
<1> HIDE DEF full
<1>4. /\ parts \in Seq(Part) /\ DOMAIN parts = {1, 2} /\ parts[1] = Describe(u) /\ parts[2] = full
  BY <1>1, <1>2
<1> HIDE DEF parts
<1>5. \A k \in DOMAIN parts : parts[k].kind \in {"user", "user_full"}
  BY <1>1, <1>2, <1>4
<1>6. \A c : ListsIn(parts, c) = {} /\ StepsIn(parts, c) = {}
  BY <1>5 DEF ListsIn, StepsIn, ListKinds, StepKinds
<1>7. members' = members /\ name' = name /\ shape' = shape
  BY DEF server
<1>8. Newest(parts)
  BY <1>6, <1>7 DEF Newest
<1>9. PacketRight(members', parts)
  <2>1. \A k \in DOMAIN parts : PartRight(members', parts[k])
    BY <1>5 DEF PartRight, ListKinds, StepKinds
  <2>2. ASSUME NEW k \in DOMAIN parts, parts[k].kind \in {"user_full", "chat_full"}
        PROVE  \E j \in 1 .. k - 1 : Describes(parts[j], parts[k].of)
    <3>1. k = 2 /\ parts[k].of = u
      BY <1>1, <1>2, <1>4, <2>2
    <3>2. 1 \in 1 .. k - 1 /\ Describes(parts[1], parts[k].of)
      BY <1>1, <1>4, <3>1
    <3>3. QED  BY <3>2
  <2>3. \A k \in DOMAIN parts : parts[k].kind \notin ListKinds
    BY <1>5 DEF ListKinds, StepKinds
  <2>4. QED  BY <2>1, <2>2, <2>3 DEF PacketRight
<1>10. /\ name' \in [Ids -> Names] /\ shape' \in [Users -> {"self", "contact", "deleted"}]
       /\ DOMAIN members' = Chats /\ members' = [c \in Chats |-> members'[c]]
  BY <1>7 DEF IInv, ServerOK
<1>11. net' = Append(net, parts)
  BY <1>3 DEF Send
<1>12. QED  BY <1>4, <1>8, <1>9, <1>10, <1>11, SentRight

LEMMA ContactsStep ==
  ASSUME IInv, do_update_contact_list, UNCHANGED <<process, faults, server>>
  PROVE  IInv'
<1> DEFINE us == {u \in Users : shape[u] = "contact"}
<1>1. PICK users \in Described(us) : Send(users)
  BY DEF do_update_contact_list
<1>2. us \in SUBSET Users
  OBVIOUS
<1> HIDE DEF us
<1>3. users \in Seq(Part) /\ \A k \in DOMAIN users : users[k].kind \in PlainKinds
  BY <1>2, DescribedParts DEF IInv, PlainKinds
<1>4. members' = members /\ name' \in [Ids -> Names] /\ shape' = shape
  BY DEF server, IInv, ServerOK
<1>5. QED  BY <1>1, <1>3, <1>4, PlainSent

LEMMA ChatInfoStep ==
  ASSUME IInv, NEW c \in Chats, do_get_chat_info(c), UNCHANGED <<process, faults, server>>
  PROVE  IInv'
<1> DEFINE full == [kind |-> "chat_full", of |-> c, version |-> Len(members[c]), users |-> Latest(c)]
           title == Title(c, "chat")
           me == Describe(Me)
           us == Latest(c) \ {Me}
<1>1. PICK users \in Described(us) : Send(<<title, me>> \o users \o <<full>>)
  BY DEF do_get_chat_info
<1>2. /\ Latest(c) \in SUBSET Users /\ Len(members[c]) \in Nat /\ Len(members[c]) > 0
      /\ Latest(c) = members[c][Len(members[c])]
  BY LatestRight DEF IInv
<1>3. title \in Part /\ title.kind = "chat" /\ Describes(title, c)
  BY DescriptionParts DEF IInv, Describes
<1>4. me \in Part /\ me.kind = "user"
  BY PeersAssumption, DescriptionParts DEF IInv
<1>5. users \in Seq(Part) /\ \A k \in DOMAIN users : users[k].kind = "user"
  <2>1. us \in SUBSET Users
    BY <1>2
  <2> HIDE DEF us
  <2>2. QED  BY <2>1, DescribedParts DEF IInv
<1>6. /\ full \in Part /\ full.kind = "chat_full" /\ full.of = c
      /\ full.version = Len(members[c]) /\ full.users = Latest(c)
  BY <1>2 DEF Part
<1> DEFINE start == <<title, me>>
           front == start \o users
           parts == front \o <<full>>
           n == Len(front)
<1> HIDE DEF full, title, me
<1>7. /\ start \in Seq(Part) /\ Len(start) = 2 /\ start[1] = title /\ start[2] = me
  BY <1>3, <1>4
<1> HIDE DEF start
<1>8. /\ front \in Seq(Part) /\ n = 2 + Len(users) /\ Len(users) \in Nat
      /\ front[1] = title /\ front[2] = me
      /\ \A k \in 3 .. n : front[k] = users[k - 2]
  <2>1. Len(users) \in Nat
    BY <1>5, LenProperties
  <2>2. front \in Seq(Part) /\ Len(front) = Len(start) + Len(users)
        /\ \A k \in 1 .. Len(front) : front[k] = IF k <= Len(start) THEN start[k]
                                                 ELSE users[k - Len(start)]
    <3>1. /\ Len(front) = Len(start) + Len(users)
          /\ \A k \in 1 .. Len(start) + Len(users) :
               front[k] = IF k <= Len(start) THEN start[k] ELSE users[k - Len(start)]
      BY <1>5, <1>7, ConcatProperties
    <3>2. front \in Seq(Part)
      BY <1>5, <1>7, ConcatProperties
    <3>3. QED  BY <3>1, <3>2
  <2>3. QED  BY <1>7, <2>1, <2>2
<1>9. \A k \in 1 .. n : front[k].kind \in {"chat", "user"}
  <2>1. \A k \in 3 .. n : k - 2 \in DOMAIN users
    BY <1>5, <1>8, LenProperties
  <2>2. \A k \in 3 .. n : front[k].kind = "user"
    BY <1>5, <1>8, <2>1
  <2>3. \A k \in 1 .. n : k = 1 \/ k = 2 \/ k \in 3 .. n
    BY <1>8
  <2> HIDE DEF front, n
  <2>4. QED  BY <1>3, <1>4, <1>8, <2>2, <2>3
<1>10. n \in Nat /\ n > 1
  BY <1>8
<1>11. Len(<<full>>) = 1 /\ <<full>>[1] = full /\ <<full>> \in Seq(Part)
  BY <1>6
<1> DEFINE last == <<full>>
<1> HIDE DEF front
<1>12. /\ parts \in Seq(Part) /\ DOMAIN parts = 1 .. n + 1 /\ parts[n + 1] = full
       /\ \A k \in 1 .. n : parts[k] = front[k]
  <2>1. parts = front \o last /\ last \in Seq(Part) /\ Len(last) = 1 /\ last[1] = full
    BY <1>11
  <2> HIDE DEF last, parts
  <2>2. /\ parts \in Seq(Part) /\ Len(parts) = n + 1
        /\ \A k \in 1 .. n + 1 : parts[k] = IF k <= n THEN front[k] ELSE last[k - n]
    <3>1. /\ parts \in Seq(Part) /\ Len(parts) = Len(front) + Len(last)
          /\ \A k \in 1 .. Len(front) + Len(last) :
               parts[k] = IF k <= Len(front) THEN front[k] ELSE last[k - Len(front)]
      BY <1>8, <2>1, ConcatProperties
    <3>2. QED  BY <2>1, <3>1
  <2>3. QED  BY <1>10, <2>1, <2>2, LenProperties
<1> HIDE DEF parts, n, last
<1>13. Send(parts)
  BY <1>1 DEF parts, front, start
<1>14. \A k \in DOMAIN parts : k = n + 1 \/ (k \in 1 .. n /\ parts[k].kind \in {"chat", "user"})
  BY <1>9, <1>10, <1>12
<1>15. members' = members /\ name' = name /\ shape' = shape
  BY DEF server
<1>16. PacketRight(members', parts)
  <2>1. ASSUME NEW k \in DOMAIN parts PROVE PartRight(members', parts[k])
    <3>1. CASE k = n + 1
      <4>1. full.version \in 1 .. Len(members'[c])
        BY <1>2, <1>6, <1>15
      <4>2. PartRight(members', full)
        BY <1>2, <1>6, <1>15, <4>1 DEF PartRight
      <4>3. QED  BY <1>12, <3>1, <4>2
    <3>2. CASE k # n + 1
      <4>1. parts[k].kind \in {"chat", "user"}
        BY <1>14, <3>2
      <4>2. QED  BY <4>1 DEF PartRight, ListKinds, StepKinds
    <3>3. QED  BY <3>1, <3>2
  <2>2. ASSUME NEW k \in DOMAIN parts, parts[k].kind \in {"user_full", "chat_full"}
        PROVE  \E j \in 1 .. k - 1 : Describes(parts[j], parts[k].of)
    <3>1. k = n + 1 /\ parts[k].of = c
      BY <1>6, <1>12, <1>14, <2>2
    <3>2. 1 \in 1 .. k - 1 /\ Describes(parts[1], parts[k].of)
      BY <1>3, <1>8, <1>10, <1>12, <3>1
    <3>3. QED  BY <3>2
  <2>3. \A k \in DOMAIN parts : parts[k].kind \in ListKinds => k = n + 1
    BY <1>14 DEF ListKinds, StepKinds
  <2>4. QED  BY <2>1, <2>2, <2>3 DEF PacketRight
<1>17. Newest(parts)
  <2>1. full.kind \notin StepKinds
    BY <1>6 DEF StepKinds
  <2>2. \A b : StepsIn(parts, b) = {}
    BY <1>12, <1>14, <2>1 DEF StepsIn, StepKinds
  <2>3. \A b, k : k \in ListsIn(parts, b) => k = n + 1 /\ b = c
    BY <1>6, <1>12, <1>14 DEF ListsIn, ListKinds, StepKinds
  <2>4. parts[n + 1].version = Len(members'[c])
    BY <1>6, <1>12, <1>15
  <2>5. QED  BY <1>15, <2>2, <2>3, <2>4 DEF Newest
<1>18. /\ name' \in [Ids -> Names] /\ shape' \in [Users -> {"self", "contact", "deleted"}]
       /\ DOMAIN members' = Chats /\ members' = [b \in Chats |-> members'[b]]
  BY <1>15 DEF IInv, ServerOK
<1>19. net' = Append(net, parts)
  BY <1>13 DEF Send
<1>20. QED  BY <1>12, <1>16, <1>17, <1>18, <1>19, SentRight

-----------------------------------------------------------------------------
LEMMA InitRight == Init => IInv
<1> SUFFICES ASSUME Init PROVE IInv
  OBVIOUS
<1>1. /\ up = TRUE /\ faults = 0 /\ torn = FALSE /\ cause = "none" /\ mem = Empty /\ disk = Empty
      /\ name = [p \in Ids |-> First] /\ net = <<>>
      /\ shape \in [Users -> {"self", "contact"}]
      /\ members \in [Chats -> {<<S>> : S \in {T \in SUBSET Users : Me \in T /\ T # Users}}]
  BY DEF Init
<1>2. name \in [Ids -> Names]
  BY <1>1, PeersAssumption
<1>3. \A c \in Chats : members[c] \in Seq(SUBSET Users) /\ Len(members[c]) > 0
  <2>1. TAKE c \in Chats
  <2>2. PICK S \in SUBSET Users : members[c] = <<S>>
    BY <1>1
  <2>3. QED  BY <2>2
<1>4. net \in Seq(Seq(Part)) /\ DOMAIN net = {}
  BY <1>1
<1>5. members \in [Chats -> Seq(SUBSET Users)]
  <2>1. DOMAIN members = Chats /\ members = [c \in Chats |-> members[c]]
    BY <1>1
  <2>2. QED  BY <1>3, <2>1
<1>6. ServerOK
  BY <1>1, <1>2, <1>3, <1>4, <1>5 DEF ServerOK
<1>7. InOrder
  BY <1>4 DEF InOrder
<1>8. QED  BY <1>1, <1>6, <1>7, EmptyGood DEF IInv

LEMMA NextRight == IInv /\ [Next]_vars => IInv'
<1> SUFFICES ASSUME IInv, [Next]_vars PROVE IInv'
  OBVIOUS
<1>1. CASE Start
  BY <1>1, StartRight
<1>2. CASE Info
  <2>1. UNCHANGED <<process, faults, server>>
    BY <1>2 DEF Info
  <2>2. ASSUME NEW c \in Chats, do_get_chat_info(c) PROVE IInv'
    BY <2>1, <2>2, ChatInfoStep
  <2>3. ASSUME NEW u \in Others, do_get_user_info(u) PROVE IInv'
    BY <2>1, <2>3, UserInfoStep DEF Others
  <2>4. CASE do_update_contact_list
    BY <2>1, <2>4, ContactsStep
  <2>5. QED  BY <1>2, <2>2, <2>3, <2>4 DEF Info
<1>3. CASE Mention
  BY <1>3, MentionStep
<1>4. CASE \E i \in DOMAIN net : Handle(i) \/ Lose(i)
  BY <1>4, HandleRight, LoseRight
<1>5. ASSUME NEW u \in Others, Reshape(u) PROVE IInv'
  BY <1>5, ReshapeStep DEF Others
<1>6. ASSUME NEW u \in Others, NEW n \in Names, Rename(u, n) PROVE IInv'
  BY <1>6, RenameStep DEF Others
<1>7. ASSUME NEW c \in Chats, NEW n \in Names, do_rename_chat(c, n) PROVE IInv'
  BY <1>7, RenameChatStep
<1>8. ASSUME NEW c \in Chats, NEW u \in Others, do_change_chat_user(c, u) PROVE IInv'
  BY <1>8, ChangeChatUserStep DEF Others
<1>9. CASE UNCHANGED vars
  <2>1. /\ UNCHANGED <<server, net>> /\ mem' = mem /\ disk' = disk /\ faults' = faults
        /\ up' = up /\ torn' = torn /\ cause' = cause
    BY <1>9 DEF vars, process
  <2>2. /\ ServerOK' /\ (InOrder => InOrder') /\ ListsRight(disk)'
        /\ (ListsCome(disk) => ListsCome(disk)')
    BY <2>1, ServerSame DEF IInv
  <2>3. Good(mem)' /\ Good(disk)' /\ (Kept(disk) = disk)'
        /\ (IF up THEN disk = Kept(mem) ELSE mem = Empty)'
    BY <2>1 DEF IInv
  <2>4. QED  BY <2>1, <2>2, <2>3 DEF IInv
<1>10. QED  BY <1>1, <1>2, <1>3, <1>4, <1>5, <1>6, <1>7, <1>8, <1>9 DEF Next

LEMMA Invariant == Spec => []IInv
BY InitRight, NextRight, PTL DEF Spec

LEMMA GoodNames ==
  ASSUME NEW d, Good(d)
  PROVE  /\ MemOK(d)
         /\ d.index = {[name |-> d.peer[p].print, peer |-> p] : p \in {q \in Ids : Created(d, q)}}
         /\ \A e, f \in d.index : e.name = f.name => e = f
         /\ \A p \in Ids : Created(d, p) =>
              d.peer[p].print = d.peer[p].name \/ Front(d.peer[p].print) = d.peer[p].name
<1>1. d \in Memory /\ Indexed(d)
  BY GoodFields
<1>2. MemOK(d)
  <2>1. /\ d.peer \in [Ids -> PeerType] /\ d.user \in [Users -> UserType]
        /\ d.list \in [Chats -> ListType] /\ d.our_id \in Users \cup {Nobody}
    BY <1>1, MemoryFields
  <2>2. QED  BY <2>1 DEF MemOK, PeerType, UserType, ListType
<1>3. d.index = {Entry(d, p) : p \in {q \in Ids : Created(d, q)}}
  BY <1>1 DEF Indexed
<1>4. \A e, f \in d.index : e.name = f.name => e = f
  BY <1>1, <1>3 DEF Indexed, Entry
<1>5. ASSUME NEW p \in Ids, Created(d, p)
      PROVE  d.peer[p].print = d.peer[p].name \/ Front(d.peer[p].print) = d.peer[p].name
  <2>1. PICK cc \in Nat : d.peer[p].print = Suffixed(d.peer[p].name, cc)
    BY <1>1, <1>5 DEF Indexed
  <2>2. d.peer[p].name \in Names
    BY <1>1, <1>5 DEF Indexed
  <2>3. QED  BY <2>1, <2>2, SuffixCutOff
<1>6. QED  BY <1>2, <1>3, <1>4, <1>5 DEF Entry

(* NamesFound: the index by name has each created peer once, by a name of  *)
(* its own, however names change and whatever is replayed.                 *)
THEOREM NamesFound == Spec => []NamesFindPeers
<1>1. IInv => NamesFindPeers
  BY GoodNames DEF IInv, NamesFindPeers
<1>2. QED  BY <1>1, Invariant, PTL

(* RestartsKeep: what a restart reads is what the process knows.           *)
THEOREM RestartsKeep == Spec => []RestartKeeps
<1>1. IInv => RestartKeeps
  <2>1. SUFFICES ASSUME IInv PROVE RestartKeeps
    OBVIOUS
  <2>2. disk.fault = "none" /\ (up => Kept(mem) = disk)
    BY <2>1 DEF IInv, Good
  <2>3. QED  BY <2>2 DEF RestartKeeps, Kept
<1>2. QED  BY <1>1, Invariant, PTL

(* AbortsAllExplained: without faults, no assertion ends the process but   *)
(* the one that the record of a deletion fails.                            *)
THEOREM AbortsAllExplained == Spec => []AbortsExplained
<1>1. IInv => AbortsExplained
  BY DEF IInv, AbortsExplained
<1>2. QED  BY <1>1, Invariant, PTL

(* ListsAreServers: the members of a chat in memory and in the log are the *)
(* server's of that version, unless a version was passed over.             *)
THEOREM ListsAreServers == Spec => []ListIsServers
<1>1. IInv => ListIsServers
  <2>1. SUFFICES ASSUME IInv, NEW c \in Chats, NEW m \in {mem, disk}
                 PROVE  m.list[c].version > 0 /\ ~m.list[c].skipped =>
                          m.list[c].users = members[c][m.list[c].version]
    BY DEF ListIsServers
  <2>2. disk.list[c].version > 0 /\ ~disk.list[c].skipped =>
          disk.list[c].users = members[c][disk.list[c].version]
    BY <2>1 DEF IInv, ListsRight
  <2>3. up => mem.list = disk.list
    BY <2>1, GoodFields, KeptFields DEF IInv, KeptDone
  <2>4. ~up => mem.list[c].version = 0
    BY <2>1, EmptyFields DEF IInv, NoList
  <2>5. up \in BOOLEAN
    BY <2>1 DEF IInv
  <2>6. CASE m = disk
    BY <2>2, <2>6
  <2>7. CASE m = mem /\ up
    BY <2>2, <2>3, <2>7
  <2>8. CASE m = mem /\ ~up
    BY <2>4, <2>8
  <2>9. QED  BY <2>1, <2>5, <2>6, <2>7, <2>8
<1>2. QED  BY <1>1, Invariant, PTL

=============================================================================
