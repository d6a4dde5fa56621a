---------------------------- MODULE StartupProofs ----------------------------
(***************************************************************************)
(* Proofs about Startup, for every number of data centres, starts and      *)
(* faults: with one inductive invariant, that the client agrees with the   *)
(* server wherever the process ends, that what makes it ready is on disk,  *)
(* which keys on disk can be wrong, and what alone is ever lost.           *)
(***************************************************************************)
EXTENDS Startup, TLAPS

(* Where loop() stands once every DC has its key, and once the user is     *)
(* signed in at the DC to work with.                                       *)
SignedIn == {"export", "export_auth", "import_auth", "get_difference", "ready"}
WithKeys == SignedIn \cup
  {"check_phone", "check_phone again", "nearest_dc", "send_code",
   "send_code again", "type_code", "sign_in"}

(* A process that has ended waits for nothing; what is asked is asked of   *)
(* the DC to work with, or of the one the authorization is for.            *)
Phases ==
  /\ up <=> pc # "dead"
  /\ up => starts # 0
  /\ starts = 0 => disk.signed = {} /\ \A d \in DC : disk.key[d] = NoKey
  /\ asked # "no" => pc \in Waits
  /\ asked # "no" => target = IF pc = "import_auth" THEN current ELSE mem.working

(* An exchange is for a DC without a key, and the server has the key when  *)
(* its last answer is on the way.                                          *)
Exchanges ==
  /\ exch # NoDC => /\ up /\ mem.key[exch] = NoKey
                    /\ \/ pc = "authorizing" /\ exch = mem.working
                       \/ pc = "authorize_others"
  /\ net # "nothing" => exch # NoDC
  /\ c_state = "st_client_dh_sent" =>
       exch # NoDC /\ power # NoKey /\ power.start = starts
  /\ net = "dh_gen_ok" => starts \in agreed[exch]
  /\ wire # "up" => exch # NoDC /\ net = "nothing"

(* Memory and disk of a process that runs.                                 *)
Synced ==
  up => /\ mem.key = disk.key
        /\ disk.signed \subseteq mem.signed /\ disk.dcs \subseteq mem.dcs
        /\ binlog_enabled => /\ disk.signed = mem.signed /\ disk.dcs = mem.dcs
                             /\ disk.working = mem.working \/ moved

(* What has been reached where loop() stands.                              *)
Reached ==
  /\ pc \in WithKeys \cup {"authorize_others"} => mem.dcs = DC
  /\ pc \in WithKeys => \A d \in DC : mem.key[d] # NoKey
  /\ (pc = "authorizing" /\ exch = NoDC) \/ pc = "get_config" =>
       mem.key[mem.working] # NoKey
  /\ pc = "check_phone again" => ~Migrates
  /\ pc \in SignedIn => mem.working \in mem.signed
  /\ pc \in {"sign_in", "import_auth"} /\ asked = "done" =>
       target \in authorized /\ mem.key[target].kind = "full"
  /\ pc \in {"get_difference", "ready"} =>
       /\ disk.signed = DC /\ disk.dcs = DC
       /\ ~binlog_enabled => disk.working = mem.working

(* What a key on disk may be, and what knowledge may be there: only a DC   *)
(* with a whole key was ever signed.                                       *)
Fits(k, d) ==
  /\ k.start \in agreed[d]
  /\ k.kind = "short" => binlog_enabled
  /\ k.kind = "torn" => ~binlog_enabled

Good(m) ==
  /\ m.signed \subseteq authorized
  /\ \A d \in m.signed : m.key[d].kind = "full"
  /\ \A d \in DC : m.key[d] # NoKey => Fits(m.key[d], d)

IInv ==
  /\ TypeOK /\ Phases /\ Exchanges /\ Synced /\ Reached
  /\ Good(mem) /\ Good(disk) /\ LoginDecision

-----------------------------------------------------------------------------
(* The constants, and what a process leaves behind. *)

LEMMA ConstantFacts ==
  /\ 1 \in DC /\ NoDC \notin DC /\ NoKey \in Key
  /\ \A d \in DC : 1 .. d \subseteq DC
  /\ \A k \in KeyKinds, s \in 1 .. MaxStarts :
       [start |-> s, kind |-> k] \in Key \ {NoKey}
BY KeyExchangeAssumption DEF DC, NoDC, NoKey, Key

LEMMA FreshFacts ==
  \A m \in {Fresh, Unreadable} :
    /\ m \in Knowledge /\ Good(m) /\ m.signed = {}
    /\ \A d \in DC : m.key[d] = NoKey
<1>1. Fresh \in Knowledge /\ Fresh.signed = {} /\ Fresh.key = [d \in DC |-> NoKey]
  BY ConstantFacts DEF Fresh, Knowledge
<1>2. Unreadable \in Knowledge /\ Unreadable.signed = {} /\ Unreadable.key = Fresh.key
  BY <1>1 DEF Unreadable, Knowledge
<1> QED BY <1>1, <1>2 DEF Good

LEMMA Typed ==
  ASSUME NEW m \in Knowledge
  PROVE  /\ m.dcs \in SUBSET DC /\ m.signed \in SUBSET DC /\ m.working \in DC
         /\ m.key \in [DC -> Key]
BY DEF Knowledge

(* What the next start relies on: it is on disk while the process runs.    *)
LEMMA DiskIsGood == ASSUME IInv PROVE disk \in Knowledge /\ Good(disk)
BY DEF IInv, TypeOK, KxTypeOK

LEMMA FaultCounts == ASSUME TypeOK, Fault PROVE faults' \in 0 .. MaxFaults
BY KeyExchangeAssumption DEF TypeOK, KxTypeOK, Fault

(* The end of a process: it leaves on disk what the next one may rely on.  *)
LEMMA DiesKeeps ==
  ASSUME IInv, up, faults' \in 0 .. MaxFaults, UNCHANGED world,
         NEW d \in Knowledge, Dies(d), Good(d)
  PROVE  IInv'
<1> USE DEF IInv, Dies, KxDies, Forgets
<1>1. KxTypeOK'
  BY ConstantFacts, FreshFacts DEF TypeOK, KxTypeOK
<1>2. TypeOK'
  BY <1>1, ConstantFacts DEF TypeOK, Places, world
<1>3. Phases' /\ Exchanges' /\ Synced' /\ LoginDecision'
  BY DEF Phases, Exchanges, Synced, LoginDecision
<1>4. Reached'
  BY DEF Reached, WithKeys, SignedIn
<1>5. Good(mem)' /\ Good(disk)'
  BY FreshFacts DEF Good, Fits, world
<1> QED BY <1>2, <1>3, <1>4, <1>5

(* A step that only asks or goes on.  What remains to be seen is that the   *)
(* place it goes to has been earned.                                       *)
LEMMA GoesOnKeeps ==
  ASSUME IInv, up, exch = NoDC, pc' \in Places \ {"dead"},
         UNCHANGED <<process, faults, mem, disk, kxvars, world, moved>>,
         asked' \in {"no", "sent", "garbled"}, target' \in DC, current' \in DC,
         asked' # "no" => pc' \in Waits /\
           target' = (IF pc' = "import_auth" THEN current' ELSE mem.working),
         Reached', LoginDecision'
  PROVE  IInv'
<1> USE DEF IInv
<1>1. KxTypeOK'
  BY DEF TypeOK, KxTypeOK, process, kxvars
<1>2. TypeOK'
  BY <1>1 DEF TypeOK, world
<1>3. Phases' /\ Exchanges' /\ Synced'
  BY DEF Phases, Exchanges, Synced, process, kxvars
<1>4. Good(mem)' /\ Good(disk)'
  BY DEF Good, Fits, process, world, kxvars
<1> QED BY <1>2, <1>3, <1>4

(* Nothing else runs while a key is being made.                            *)
LEMMA NoExchange ==
  ASSUME IInv, pc \notin {"authorizing", "authorize_others"} PROVE exch = NoDC
BY DEF IInv, Exchanges

-----------------------------------------------------------------------------
(* Writes of the auth file that stop in the middle. *)

(* Whatever is written, a key that is on disk stays as it is.              *)
Extends(m) == \A d \in DC : disk.key[d] # NoKey => m.key[d] = disk.key[d]

(* The fields of a file that was overwritten in part.                      *)
LEMMA MixedFields ==
  ASSUME IInv, NEW m \in Knowledge, NEW n \in Nat, Extends(m)
  PROVE  /\ Mixed(m, n) \in Knowledge
         /\ Mixed(m, n).signed = {d \in DC : d \in IF n >= 3 * d + 2 THEN m.signed
                                                 ELSE disk.signed}
         /\ \A d \in DC :
              \/ Mixed(m, n).key[d] \in {m.key[d], disk.key[d]}
              \/ disk.key[d] = NoKey /\ m.key[d] # NoKey
                 /\ Mixed(m, n).key[d] = [m.key[d] EXCEPT !.kind = "torn"]
         /\ \A d \in DC : n >= 3 * d + 2 => Mixed(m, n).key[d] = m.key[d]
<1> DEFINE key(d) == IF n > 3 * d THEN m.key[d]
                     ELSE IF n = 3 * d /\ m.key[d] # disk.key[d]
                          THEN [m.key[d] EXCEPT !.kind = "torn"] ELSE disk.key[d]
           keys == [d \in DC |-> key(d)]
           sig == {d \in DC : d \in IF n >= 3 * d + 2 THEN m.signed ELSE disk.signed}
<1>1. disk \in Knowledge /\ disk.key \in [DC -> Key] /\ m.key \in [DC -> Key]
  BY Typed DEF IInv, TypeOK, KxTypeOK
<1>2. \A d \in DC : d \in Nat
  BY DEF DC
<1>3. ASSUME NEW d \in DC, n = 3 * d, m.key[d] # disk.key[d]
      PROVE  /\ [m.key[d] EXCEPT !.kind = "torn"] \in Key
             /\ disk.key[d] = NoKey /\ m.key[d] # NoKey
  BY <1>1, <1>3 DEF Extends, Key
<1>4. \A d \in DC : key(d) \in Key
  BY <1>1, <1>2, <1>3
<1>5. keys \in [DC -> Key] /\ sig \in SUBSET DC
  BY <1>4
<1>6. /\ Mixed(m, n).key = keys /\ Mixed(m, n).signed = sig
      /\ Mixed(m, n) \in Knowledge
  <2> DEFINE working == IF n >= 1 THEN m.working ELSE disk.working
             state == IF n >= 2 THEN m.auth_state ELSE disk.auth_state
  <2>1. working \in DC /\ state \in {0, 100, 300}
    BY <1>1 DEF Knowledge
  <2>2. Mixed(m, n) = [disk EXCEPT !.working = working, !.auth_state = state,
                                   !.key = keys, !.signed = sig]
    BY DEF Mixed
  <2> HIDE DEF keys, sig, working, state
  <2>3. Mixed(m, n) = [dcs |-> disk.dcs, key |-> keys, signed |-> sig,
                       working |-> working, auth_state |-> state,
                       our_id |-> disk.our_id]
    BY <1>1, <2>2 DEF Knowledge
  <2>4. disk.dcs \in SUBSET DC /\ disk.our_id \in BOOLEAN
    BY <1>1 DEF Knowledge
  <2> QED BY <1>5, <2>1, <2>3, <2>4 DEF Knowledge
<1>7. ASSUME NEW d \in DC
      PROVE  \/ key(d) \in {m.key[d], disk.key[d]}
             \/ disk.key[d] = NoKey /\ m.key[d] # NoKey
                /\ key(d) = [m.key[d] EXCEPT !.kind = "torn"]
  <2>1. CASE n = 3 * d /\ m.key[d] # disk.key[d]
    BY <1>2, <1>3, <2>1
  <2>2. CASE ~(n = 3 * d /\ m.key[d] # disk.key[d])
    BY <2>2
  <2> QED BY <2>1, <2>2
<1>8. \A d \in DC : n >= 3 * d + 2 => key(d) = m.key[d]
  BY <1>2
<1> QED BY <1>6, <1>7, <1>8

(* A file that was overwritten in part holds only what was good.           *)
LEMMA MixedGood ==
  ASSUME IInv, ~binlog_enabled, NEW m \in Knowledge, Good(m), Extends(m), NEW n \in Nat
  PROVE  Mixed(m, n) \in Knowledge /\ Good(Mixed(m, n))
<1> DEFINE x == Mixed(m, n)
<1>1. Good(disk) /\ disk.signed \subseteq DC /\ disk.key \in [DC -> Key]
      /\ m.key \in [DC -> Key]
  BY DiskIsGood, Typed
<1>2. x.signed \subseteq authorized
  BY <1>1, MixedFields DEF Good
<1>3. ASSUME NEW d \in x.signed PROVE x.key[d].kind = "full"
  <2>1. d \in DC /\ d \in IF n >= 3 * d + 2 THEN m.signed ELSE disk.signed
    BY <1>3, MixedFields
  <2>2. CASE n >= 3 * d + 2
    BY <2>1, <2>2, MixedFields DEF Good
  <2>3. CASE ~(n >= 3 * d + 2)
    <3>1. disk.key[d].kind = "full"
      BY <1>1, <2>1, <2>3 DEF Good
    <3>2. m.key[d] = disk.key[d] /\ disk.key[d] # NoKey
      BY <2>1, <3>1 DEF Extends, NoKey
    <3> QED BY <2>1, <3>1, <3>2, MixedFields
  <2> QED BY <2>2, <2>3
<1>4. ASSUME NEW d \in DC, x.key[d] # NoKey PROVE Fits(x.key[d], d)
  <2>1. CASE x.key[d] \in {m.key[d], disk.key[d]}
    BY <1>1, <1>4, <2>1 DEF Good
  <2>2. CASE m.key[d] # NoKey /\ x.key[d] = [m.key[d] EXCEPT !.kind = "torn"]
    <3>1. Fits(m.key[d], d)
      BY <2>2 DEF Good
    <3>2. x.key[d].kind = "torn" /\ x.key[d].start = m.key[d].start
      BY <1>1, <2>2 DEF Key
    <3> QED BY <3>1, <3>2 DEF Fits
  <2> QED BY <2>1, <2>2, MixedFields
<1> QED BY <1>2, <1>3, <1>4, MixedFields DEF Good

LEMMA TornGood ==
  ASSUME IInv, ~binlog_enabled, NEW m \in Knowledge, Good(m), Extends(m), NEW d \in Torn(m)
  PROVE  d \in Knowledge /\ Good(d)
<1>1. CASE \E n \in Nat : d = Mixed(m, n)
  BY <1>1, MixedGood
<1>2. CASE d = Unreadable
  BY <1>2, FreshFacts
<1>3. CASE d = [m EXCEPT !.our_id = FALSE]
  <2>1. d \in Knowledge /\ d.signed = m.signed /\ d.key = m.key
    BY <1>3 DEF Knowledge
  <2> QED BY <2>1 DEF Good
<1>4. 3 * NumDC + 2 \in Nat /\ 3 * NumDC \in Nat
  BY KeyExchangeAssumption
<1> QED BY <1>1, <1>2, <1>3, <1>4 DEF Torn

(* The process stops in the middle of a write of m.                        *)
LEMMA InterruptedKeeps ==
  ASSUME IInv, up, NEW m \in Knowledge, Good(m), Extends(m), Interrupted(m),
         UNCHANGED world
  PROVE  IInv'
<1>1. PICK d \in Torn(m) : KxDies(d) /\ Forgets
  BY DEF Interrupted, WriteStops
<1>2. ~binlog_enabled /\ faults' \in 0 .. MaxFaults
  BY FaultCounts DEF Interrupted, WriteStops, IInv
<1>3. d \in Knowledge /\ Good(d)
  BY <1>2, TornGood
<1> QED BY <1>1, <1>2, <1>3, DiesKeeps DEF Dies

(* What the process knows when it writes: its keys are those on disk.      *)
LEMMA MemoryExtends ==
  ASSUME IInv, up, NEW m, m.key = mem.key, m.signed \subseteq mem.signed
  PROVE  Good(m) /\ Extends(m)
BY DEF IInv, Synced, Good, Extends

-----------------------------------------------------------------------------
(* The key exchange. *)

(* dc_authorize, for a DC that has no key.                                 *)
LEMMA AuthorizeKeeps ==
  ASSUME IInv, up, NEW d \in DC, mem.key[d] = NoKey, NEW after, Authorize(d, after),
         \/ after = "authorizing" /\ d = mem.working
         \/ after = "authorize_others" /\ mem.dcs = DC
  PROVE  IInv'
<1> USE DEF IInv, Authorize, dc_authorize, tc_becomes_ready, send_req_pq_packet, Goto
<1>1. KxTypeOK'
  BY DEF TypeOK, KxTypeOK, process
<1>2. TypeOK'
  BY <1>1, ConstantFacts DEF TypeOK, Places, world
<1>3. Phases' /\ Exchanges' /\ Synced' /\ LoginDecision'
  BY ConstantFacts DEF Phases, Exchanges, Synced, LoginDecision, process
<1>4. Reached'
  BY ConstantFacts DEF Reached, WithKeys, SignedIn, process
<1>5. Good(mem)' /\ Good(disk)'
  BY DEF Good, Fits, process, world
<1> QED BY <1>2, <1>3, <1>4, <1>5

(* The steps of an exchange that neither end it nor touch memory or disk.  *)
LEMMA ExchangeGoesOnKeeps ==
  ASSUME IInv, exch # NoDC, KxTypeOK', Exchanges',
         UNCHANGED <<process, mem, disk, exch, stvars>>,
         \A d \in DC : agreed[d] \subseteq agreed'[d]
  PROVE  IInv'
<1> USE DEF IInv, process, stvars
<1>1. TypeOK'
  BY DEF TypeOK
<1>2. Phases' /\ Synced' /\ LoginDecision'
  BY DEF Phases, Synced, LoginDecision
<1>3. Reached'
  BY DEF Reached, WithKeys, SignedIn, Migrates
<1>4. Good(mem)' /\ Good(disk)'
  BY DEF Good, Fits, process
<1> QED BY <1>1, <1>2, <1>3, <1>4

LEMMA ServerReplyKeeps == ASSUME IInv, Exchanging(ServerReply) PROVE IInv'
<1> USE DEF IInv, Exchanging, ServerReply
<1>1. exch # NoDC /\ exch \in DC /\ up
  BY DEF Exchanges, TypeOK, KxTypeOK
<1>2. starts \in 1 .. MaxStarts
  BY <1>1 DEF Phases, TypeOK, KxTypeOK
<1>3. KxTypeOK'
  BY <1>1, <1>2 DEF TypeOK, KxTypeOK, process
<1>4. Exchanges'
  BY <1>1, <1>3 DEF Exchanges, TypeOK, KxTypeOK, process, stvars
<1>5. \A d \in DC : agreed[d] \subseteq agreed'[d]
  BY <1>1 DEF TypeOK, KxTypeOK
<1> QED BY <1>1, <1>3, <1>4, <1>5, ExchangeGoesOnKeeps DEF process

LEMMA RespqKeeps == ASSUME IInv, Exchanging(process_respq_answer) PROVE IInv'
<1> USE DEF IInv, Exchanging, process_respq_answer
<1>1. exch # NoDC /\ up
  BY DEF Exchanges
<1>2. KxTypeOK' /\ UNCHANGED stvars
  BY <1>1 DEF TypeOK, KxTypeOK, process
<1>3. Exchanges'
  BY <1>1, <1>2 DEF Exchanges, process, stvars
<1> QED BY <1>1, <1>2, <1>3, ExchangeGoesOnKeeps DEF process

LEMMA DhAnswerKeeps == ASSUME IInv, Exchanging(process_dh_answer) PROVE IInv'
<1> USE DEF IInv, Exchanging, process_dh_answer
<1>1. exch # NoDC /\ up
  BY DEF Exchanges
<1>2. power' \in Key \ {NoKey} /\ power'.start = starts
  BY <1>1, ConstantFacts DEF Phases, TypeOK, KxTypeOK
<1>3. KxTypeOK' /\ UNCHANGED stvars
  BY <1>1, <1>2 DEF TypeOK, KxTypeOK, process
<1>4. Exchanges'
  BY <1>1, <1>2, <1>3 DEF Exchanges, process, stvars
<1> QED BY <1>1, <1>3, <1>4, ExchangeGoesOnKeeps DEF process

LEMMA RestartConnectionKeeps ==
  ASSUME IInv, Exchanging(restart_connection) PROVE IInv'
<1> USE DEF IInv, Exchanging, restart_connection
<1>1. exch # NoDC /\ up
  BY DEF Exchanges
<1>2. KxTypeOK' /\ UNCHANGED stvars
  BY <1>1 DEF TypeOK, KxTypeOK, process
<1>3. Exchanges'
  BY <1>1, <1>2 DEF Exchanges, process, stvars
<1> QED BY <1>1, <1>2, <1>3, ExchangeGoesOnKeeps DEF process

LEMMA FailConnectionKeeps ==
  ASSUME IInv, Exchanging(fail_connection) PROVE IInv'
<1> USE DEF IInv, Exchanging, fail_connection
<1>1. exch # NoDC /\ up
  BY DEF Exchanges
<1>2. KxTypeOK' /\ UNCHANGED stvars
  BY <1>1, FaultCounts DEF TypeOK, KxTypeOK, process
<1>3. Exchanges'
  BY <1>1, <1>2 DEF Exchanges, process, stvars
<1> QED BY <1>1, <1>2, <1>3, ExchangeGoesOnKeeps DEF process

LEMMA PingAlarmKeeps == ASSUME IInv, Exchanging(ping_alarm) PROVE IInv'
<1>1. ~up' /\ KxDies(disk)
  BY DEF Exchanging, ping_alarm, KxDies
<1>2. Dies(disk) /\ UNCHANGED world
  BY <1>1 DEF Exchanging, Dies
<1>3. faults' \in 0 .. MaxFaults /\ up
  BY FaultCounts DEF Exchanging, ping_alarm, IInv, TypeOK, KxTypeOK, Exchanges
<1> QED BY <1>2, <1>3, DiskIsGood, DiesKeeps

(* The key is stored before it is checked: a short one is found out by the *)
(* assertion that ends the process.                                        *)
LEMMA AuthCompleteKeeps ==
  ASSUME IInv, Exchanging(process_auth_complete) PROVE IInv'
<1> DEFINE log == bl_do_set_auth_key_id(exch, power)
           keep == [mem EXCEPT !.key[exch] = power]
<1>1. /\ exch \in DC /\ exch # NoDC /\ up /\ mem.key[exch] = NoKey
      /\ power \in Key \ {NoKey} /\ power.start \in agreed[exch]
      /\ mem \in Knowledge /\ disk \in Knowledge /\ wire = "up"
      /\ mem.key = disk.key
  BY DEF Exchanging, process_auth_complete, IInv, TypeOK, KxTypeOK, Exchanges, Synced
<1>2. /\ log \in Knowledge /\ log.dcs = disk.dcs /\ log.signed = disk.signed
      /\ log.working = disk.working
      /\ log.key = IF binlog_enabled THEN [disk.key EXCEPT ![exch] = power]
                                     ELSE disk.key
  BY <1>1 DEF bl_do_set_auth_key_id, Logged, Knowledge
<1>3. /\ keep \in Knowledge /\ keep.dcs = mem.dcs /\ keep.signed = mem.signed
      /\ keep.working = mem.working /\ keep.key = [mem.key EXCEPT ![exch] = power]
  BY <1>1 DEF Knowledge
<1>4. keep.key[exch] = power /\ \A e \in DC \ {exch} : keep.key[e] = disk.key[e]
  BY <1>1, <1>3, Typed
<1>5. CASE power.kind = "short" /\ KxDies(log) /\ UNCHANGED faults
  <2>1. Dies(log) /\ UNCHANGED world
    BY <1>5 DEF Exchanging, Dies, KxDies
  <2>2. faults' \in 0 .. MaxFaults
    BY <1>5 DEF IInv, TypeOK, KxTypeOK
  <2>3. Good(log)
    <3>1. ~binlog_enabled => log = disk
      BY DEF bl_do_set_auth_key_id, Logged
    <3>2. CASE binlog_enabled
      <4>1. log.key = [disk.key EXCEPT ![exch] = power] /\ disk.key \in [DC -> Key]
        BY <1>1, <1>2, <3>2, Typed
      <4>2. exch \notin disk.signed /\ disk.signed \subseteq DC
        BY <1>1, DiskIsGood, Typed DEF Good, NoKey
      <4>3. Fits(power, exch)
        BY <1>1, <1>5, <3>2 DEF Fits
      <4> HIDE DEF log
      <4> QED BY <1>1, <1>2, <4>1, <4>2, <4>3, DiskIsGood DEF Good
    <3> QED BY <3>1, <3>2, DiskIsGood
  <2> QED BY <1>1, <1>2, <2>1, <2>2, <2>3, DiesKeeps
<1>6. Extends(keep) /\ (power.kind = "full" => Good(keep))
  <2>1. mem.signed \subseteq DC /\ exch \notin mem.signed
    BY <1>1, Typed DEF IInv, Good, NoKey
  <2>2. power.kind = "full" => Fits(power, exch)
    BY <1>1 DEF Fits
  <2> HIDE DEF keep
  <2> QED BY <1>1, <1>3, <1>4, <2>1, <2>2 DEF IInv, Good, Extends
<1>7. CASE power.kind = "full" /\ WriteStops(keep)
  <2>1. Interrupted(keep) /\ UNCHANGED world
    BY <1>1, <1>7 DEF Exchanging, Interrupted, WriteStops, KxDies
  <2> QED BY <1>1, <1>3, <1>6, <1>7, <2>1, InterruptedKeeps
<1>8. CASE /\ power.kind = "full"
           /\ mem' = keep /\ disk' = write_auth_file(keep, log)
           /\ c_state' = "st_authorized" /\ exch' = NoDC /\ power' = NoKey
           /\ net' = "nothing"
           /\ UNCHANGED <<process, faults, wire, agreed>>
  <2> DEFINE after == write_auth_file(keep, log)
  <2>1. /\ mem' = keep /\ disk' = after /\ c_state' = "st_authorized"
        /\ exch' = NoDC /\ power' = NoKey /\ net' = "nothing"
        /\ UNCHANGED <<process, wire, agreed>> /\ UNCHANGED stvars
    BY <1>1, <1>8 DEF Exchanging, process
  <2>2. /\ after \in Knowledge /\ after.key = keep.key
        /\ after.signed \subseteq disk.signed \cup mem.signed
        /\ binlog_enabled => after.signed = disk.signed /\ after.dcs = disk.dcs
                             /\ after.working = disk.working
        /\ ~binlog_enabled => after.signed = mem.signed /\ after.dcs = mem.dcs
    BY <1>1, <1>2, <1>3 DEF write_auth_file
  <2> HIDE DEF after, keep, log
  <2>3. KxTypeOK'
    BY <1>1, <1>3, <1>8, <2>1, <2>2, ConstantFacts DEF IInv, TypeOK, KxTypeOK, process
  <2>4. TypeOK'
    BY <2>1, <2>3 DEF IInv, TypeOK, stvars
  <2>5. mem.key \in [DC -> Key] /\ mem.working \in DC /\ keep.key[exch] # NoKey
        /\ \A d \in DC : mem.key[d] # NoKey => keep.key[d] # NoKey
    BY <1>1, <1>3, Typed
  <2>6. pc \in {"authorizing", "authorize_others"}
        /\ (pc = "authorizing" => exch = mem.working)
    BY <1>1 DEF IInv, Exchanges
  <2>7. Phases' /\ Exchanges' /\ LoginDecision'
    BY <1>1, <1>3, <2>1, <2>6 DEF IInv, Phases, Exchanges, LoginDecision, process, stvars
  <2>8. Synced'
    BY <1>1, <1>3, <2>1, <2>2 DEF IInv, Synced, process, stvars
  <2>9. Reached'
    BY <1>3, <2>1, <2>5, <2>6 DEF IInv, Reached, WithKeys, SignedIn, process, stvars
  <2>10. Good(mem)' /\ Good(disk)'
    <3>1. Good(keep) /\ after.signed \subseteq keep.signed /\ after.key = keep.key
      BY <1>1, <1>3, <1>6, <1>8, <2>2 DEF IInv, Synced
    <3> QED BY <2>1, <3>1 DEF Good, Fits, process, stvars
  <2> QED BY <2>4, <2>7, <2>8, <2>9, <2>10 DEF IInv
<1>9. \/ power.kind = "short" /\ KxDies(log) /\ UNCHANGED faults
      \/ /\ power.kind = "full"
         /\ mem' = keep /\ disk' = write_auth_file(keep, log)
         /\ c_state' = "st_authorized" /\ exch' = NoDC /\ power' = NoKey
         /\ net' = "nothing"
         /\ UNCHANGED <<process, faults, wire, agreed>>
      \/ power.kind = "full" /\ WriteStops(keep)
  BY DEF Exchanging, process_auth_complete
<1> QED BY <1>5, <1>7, <1>8, <1>9
-----------------------------------------------------------------------------
(* The steps of loop(). *)

LEMMA StartKeeps == ASSUME IInv, Start PROVE IInv'
<1> USE DEF IInv, Start, Loaded, Goto
<1>1. exch = NoDC
  BY DEF Exchanges
<1>2. KxTypeOK'
  BY KeyExchangeAssumption DEF TypeOK, KxTypeOK, kxvars
<1>3. TypeOK'
  BY <1>2, ConstantFacts DEF TypeOK, Places, world
<1>4. Phases' /\ Exchanges' /\ Synced' /\ LoginDecision'
  BY <1>1 DEF Phases, Exchanges, Synced, LoginDecision, kxvars, TypeOK, KxTypeOK
<1>5. Reached'
  BY DEF Reached, WithKeys, SignedIn
<1>6. Good(mem)' /\ Good(disk)'
  BY DEF Good, Fits, process, world, kxvars
<1> QED BY <1>3, <1>4, <1>5, <1>6

LEMMA StartFailsKeeps == ASSUME IInv, StartFails PROVE IInv'
<1> USE DEF IInv, StartFails, kxvars, stvars
<1>1. disk' \in Knowledge /\ Good(disk') /\ faults' \in 0 .. MaxFaults
      /\ starts' \in 1 .. MaxStarts
  BY DiskIsGood, FreshFacts, FaultCounts, KeyExchangeAssumption DEF TypeOK, KxTypeOK
<1>2. TypeOK'
  BY <1>1 DEF TypeOK, KxTypeOK
<1>3. Phases' /\ Exchanges' /\ Synced' /\ LoginDecision'
  BY <1>1 DEF Phases, Exchanges, Synced, LoginDecision
<1>4. Reached'
  BY DEF Phases, Reached, WithKeys, SignedIn
<1>5. Good(mem)' /\ Good(disk)'
  BY <1>1 DEF Good, Fits
<1> QED BY <1>2, <1>3, <1>4, <1>5

LEMMA ConfigAsked ==
  ASSUME IInv, up, exch = NoDC, mem.key[mem.working] # NoKey,
         pc \in {"authorize_working", "authorizing"},
         do_help_get_config(mem'), UNCHANGED <<binlog_enabled, agreed>>,
         mem' \in Knowledge, disk' \in Knowledge,
         mem'.key = mem.key, mem'.working = mem.working, mem'.signed = mem.signed,
         mem'.dcs = mem.dcs, disk'.key = disk.key,
         \/ disk' = disk
         \/ ~binlog_enabled /\ disk'.signed = mem.signed /\ disk'.dcs = mem.dcs
  PROVE  IInv'
<1> USE DEF IInv, do_help_get_config, Ask
<1>1. KxTypeOK'
  BY DEF TypeOK, KxTypeOK, process, kxvars
<1>2. TypeOK'
  BY <1>1, Typed DEF TypeOK, Places, Waits, world
<1>3. Phases' /\ LoginDecision'
  BY DEF Phases, LoginDecision, process, Waits
<1>6. Exchanges'
  BY DEF Exchanges, kxvars
<1>7. Synced'
  BY DEF Synced, process
<1>4. Reached'
  BY DEF Reached, WithKeys, SignedIn
<1>5. Good(mem)' /\ Good(disk)'
  BY DEF Good, Fits, Synced, process, world, kxvars
<1> QED BY <1>2, <1>3, <1>4, <1>5, <1>6, <1>7

LEMMA AuthorizeWorkingKeeps == ASSUME IInv, AuthorizeWorking PROVE IInv'
<1>1. mem \in Knowledge /\ disk \in Knowledge /\ mem.working \in DC
  BY Typed DEF IInv, TypeOK, KxTypeOK
<1>2. CASE At("authorize_working") /\ mem.key[mem.working] = NoKey
  <2>1. Authorize(mem.working, "authorizing") /\ up
    BY <1>2 DEF AuthorizeWorking, At
  <2> QED BY <1>1, <1>2, <2>1, AuthorizeKeeps
<1>3. CASE At("authorize_working") /\ mem.key[mem.working] # NoKey
  <2>1. /\ do_help_get_config(mem) /\ UNCHANGED <<mem, disk>> /\ up
        /\ pc = "authorize_working"
    BY <1>3 DEF AuthorizeWorking, At
  <2>2. do_help_get_config(mem') /\ UNCHANGED <<binlog_enabled, agreed>>
    BY <2>1 DEF do_help_get_config, Ask, process, kxvars
  <2>3. exch = NoDC
    BY <2>1, NoExchange
  <2> QED BY <1>1, <1>3, <2>1, <2>2, <2>3, ConfigAsked
<1>4. CASE At("authorizing")
  <2> DEFINE m == [mem EXCEPT !.auth_state = 100]
  <2>1. exch = NoDC /\ up /\ pc = "authorizing"
    BY <1>4 DEF AuthorizeWorking, At
  <2>2. /\ m \in Knowledge /\ m.key = mem.key /\ m.working = mem.working
        /\ m.signed = mem.signed /\ m.dcs = mem.dcs
    BY <1>1 DEF Knowledge
  <2>3. CASE mem' = m /\ disk' = write_auth_file(m, disk) /\ do_help_get_config(m)
    <3>1. /\ disk' \in Knowledge /\ disk'.key = disk.key
          /\ \/ disk' = disk
             \/ ~binlog_enabled /\ disk'.signed = mem.signed /\ disk'.dcs = mem.dcs
      BY <1>1, <2>1, <2>2, <2>3 DEF write_auth_file, IInv, Synced
    <3>2. do_help_get_config(mem') /\ UNCHANGED <<binlog_enabled, agreed>>
      BY <2>3 DEF do_help_get_config, Ask, process, kxvars
    <3>3. mem.key[mem.working] # NoKey
      BY <2>1 DEF IInv, Reached
    <3> QED BY <1>1, <2>1, <2>2, <2>3, <3>1, <3>2, <3>3, ConfigAsked
  <2>4. CASE Interrupted(m) /\ UNCHANGED world
    BY <2>1, <2>2, <2>4, MemoryExtends, InterruptedKeeps
  <2> QED BY <1>4, <2>3, <2>4 DEF AuthorizeWorking, Saves, At
<1> QED BY <1>2, <1>3, <1>4 DEF AuthorizeWorking

LEMMA ConfigAnswerKeeps == ASSUME IInv, help_get_config_on_answer PROVE IInv'
<1> USE DEF IInv, help_get_config_on_answer, At, Goto
<1>1. mem \in Knowledge /\ disk \in Knowledge /\ exch = NoDC
  BY NoExchange DEF TypeOK, KxTypeOK
<1>2. /\ mem' \in Knowledge /\ mem'.dcs = DC /\ mem'.key = mem.key
      /\ mem'.signed = mem.signed /\ mem'.working = mem.working
  BY <1>1 DEF Knowledge
<1>3. /\ disk' \in Knowledge /\ disk'.key = disk.key
      /\ disk'.signed = disk.signed /\ disk'.working = disk.working
      /\ binlog_enabled => disk'.dcs = disk.dcs \cup DC
  BY <1>1 DEF bl_do_dc_option, Logged, Knowledge
<1>4. disk.dcs \subseteq DC /\ disk'.dcs \subseteq DC
  BY <1>1, <1>3, Typed
<1>5. KxTypeOK'
  BY <1>2, <1>3 DEF TypeOK, KxTypeOK, process, kxvars
<1>6. TypeOK'
  BY <1>5, ConstantFacts DEF TypeOK, Places, world
<1>7. Phases' /\ Exchanges' /\ LoginDecision'
  BY <1>1 DEF Phases, Exchanges, LoginDecision, process, kxvars
<1>8. Synced'
  BY <1>2, <1>3, <1>4 DEF Synced, process
<1>9. Reached'
  BY <1>2 DEF Reached, WithKeys, SignedIn
<1>10. Good(mem)' /\ Good(disk)'
  BY <1>2, <1>3 DEF Good, Fits, process, world, kxvars
<1> QED BY <1>6, <1>7, <1>8, <1>9, <1>10

LEMMA AuthorizeOthersKeeps == ASSUME IInv, AuthorizeOthers PROVE IInv'
<1>1. up /\ exch = NoDC /\ pc = "authorize_others" /\ mem.dcs = DC
  BY DEF AuthorizeOthers, At, IInv, Reached
<1>2. mem.working \in DC
  BY Typed DEF IInv, TypeOK, KxTypeOK
<1>3. CASE \E d \in Keyless : Authorize(d, "authorize_others")
  <2> PICK d \in Keyless : Authorize(d, "authorize_others")
    BY <1>3
  <2>1. d \in DC /\ mem.key[d] = NoKey
    BY <1>1 DEF Keyless
  <2> QED BY <1>1, <2>1, AuthorizeKeeps
<1>4. CASE /\ Keyless = {}
           /\ \/ NeedsLogin /\ Ask("check_phone", mem.working)
              \/ ~NeedsLogin /\ Goto("export")
           /\ UNCHANGED <<process, faults, mem, disk, kxvars, world, current, moved>>
  <2>1. \A d \in DC : mem.key[d] # NoKey
    BY <1>1, <1>4 DEF Keyless
  <2>2. Reached'
    BY <1>1, <1>4, <2>1 DEF Reached, WithKeys, SignedIn, Ask, Goto, NeedsLogin
  <2>3. LoginDecision' /\ current' \in DC
    BY <1>4 DEF LoginDecision, Ask, Goto, IInv, TypeOK
  <2> QED BY <1>1, <1>2, <1>4, <2>2, <2>3, ConstantFacts, GoesOnKeeps
          DEF Ask, Goto, Places, Waits
<1> QED BY <1>3, <1>4 DEF AuthorizeOthers

LEMMA CarriesOutKeeps == ASSUME IInv, CarriesOut PROVE IInv'
<1> USE DEF IInv, CarriesOut
<1>1. target \in DC /\ authorized \subseteq authorized' /\ authorized' \subseteq DC
  BY DEF TypeOK
<1>2. /\ pc \in {"sign_in", "import_auth"} => target \in authorized'
      /\ mem.key[target].kind = "full"
  BY DEF Reached, SignedIn, Good, Works
<1>3. KxTypeOK'
  BY DEF TypeOK, KxTypeOK, process, kxvars
<1>4. TypeOK'
  BY <1>1, <1>3 DEF TypeOK
<1>5. Phases' /\ Exchanges' /\ Synced' /\ LoginDecision'
  BY DEF Phases, Exchanges, Synced, LoginDecision, process, kxvars
<1>6. Reached'
  BY <1>2 DEF Reached, Migrates, process, kxvars
<1>7. Good(mem)' /\ Good(disk)'
  BY <1>1 DEF Good, Fits, process, kxvars
<1> QED BY <1>4, <1>5, <1>6, <1>7

(* The end of the process where nothing has just been written.             *)
LEMMA DiesWithDisk ==
  ASSUME IInv, up, Fault, Dies(disk), UNCHANGED world PROVE IInv'
BY FaultCounts, DiskIsGood, DiesKeeps DEF IInv

LEMMA RefusedKeeps == ASSUME IInv, Refused PROVE IInv'
<1>1. CASE Dies(disk)
  BY <1>1, DiesWithDisk DEF Refused
<1>2. CASE /\ asked' = "refused"
           /\ UNCHANGED <<process, mem, disk, kxvars, pc, target, current, moved>>
  <2> USE <1>2 DEF IInv, Refused
  <2>1. KxTypeOK'
    BY FaultCounts DEF TypeOK, KxTypeOK, process, kxvars
  <2>2. TypeOK'
    BY <2>1 DEF TypeOK, world
  <2>3. Phases' /\ Exchanges' /\ Synced' /\ LoginDecision'
    BY DEF Phases, Exchanges, Synced, LoginDecision, process, kxvars, world
  <2>4. Reached'
    BY DEF Reached, Migrates, process, kxvars, world
  <2>5. Good(mem)' /\ Good(disk)'
    BY DEF Good, Fits, process, kxvars, world
  <2> QED BY <2>2, <2>3, <2>4, <2>5
<1> QED BY <1>1, <1>2 DEF Refused

LEMMA CrashKeeps == ASSUME IInv, Crash PROVE IInv'
<1>1. CASE Dies(disk)
  BY <1>1, DiesWithDisk DEF Crash
<1>2. CASE \E d \in DC : Dies(bl_do_dc_option(1 .. d))
  <2> PICK d \in DC : Dies(bl_do_dc_option(1 .. d))
    BY <1>2
  <2>1. disk \in Knowledge /\ 1 .. d \subseteq DC
    BY DiskIsGood, ConstantFacts
  <2>2. /\ bl_do_dc_option(1 .. d) \in Knowledge
        /\ bl_do_dc_option(1 .. d).key = disk.key
        /\ bl_do_dc_option(1 .. d).signed = disk.signed
    BY <2>1 DEF bl_do_dc_option, Logged, Knowledge
  <2>3. faults' \in 0 .. MaxFaults /\ UNCHANGED world /\ up
    BY FaultCounts DEF Crash, IInv
  <2>4. Good(bl_do_dc_option(1 .. d))
    BY <2>2, DiskIsGood DEF Good
  <2> QED BY <2>2, <2>3, <2>4, DiesKeeps
<1> QED BY <1>1, <1>2 DEF Crash

(* A login moves to another DC: the working DC changes, and what is asked  *)
(* next is asked there.                                                    *)
LEMMA WorksWith ==
  ASSUME IInv, up, exch = NoDC, pc \in {"check_phone", "nearest_dc", "send_code"},
         NEW d \in DC,
         NEW next \in {"check_phone again", "send_code", "send_code again"},
         mem' = Moved(d), moved' \in BOOLEAN,
         Ask(next, d) \/ (next = "check_phone again" /\ AskGarbled(next, d)),
         UNCHANGED <<process, faults, kxvars, world, current>>,
         disk' \in Knowledge, disk'.key = disk.key, disk'.signed \subseteq mem.signed,
         disk'.dcs \subseteq mem.dcs,
         binlog_enabled => /\ disk'.signed = disk.signed /\ disk'.dcs = disk.dcs
                           /\ disk'.working = d \/ moved',
         next = "check_phone again" => home = d,
         next = "send_code" => moved'
  PROVE  IInv'
<1>1. /\ mem' \in Knowledge /\ mem'.key = mem.key /\ mem'.signed = mem.signed
      /\ mem'.dcs = mem.dcs /\ mem'.working = d
  BY DEF IInv, TypeOK, KxTypeOK, Knowledge, Moved
<1> USE DEF IInv, Ask, AskGarbled
<1>2. KxTypeOK'
  BY <1>1 DEF TypeOK, KxTypeOK, process, kxvars
<1>3. TypeOK'
  BY <1>2 DEF TypeOK, Places, Waits, world
<1>4. Phases' /\ LoginDecision'
  BY <1>1 DEF Phases, LoginDecision, process, Waits
<1>5. Exchanges'
  BY DEF Exchanges, kxvars
<1>6. Synced'
  BY <1>1 DEF Synced, process
<1>7. Reached'
  BY <1>1 DEF Reached, WithKeys, SignedIn, Migrates, world
<1>8. Good(mem)' /\ Good(disk)'
  BY <1>1 DEF Good, Fits, Synced, process, world, kxvars
<1> QED BY <1>3, <1>4, <1>5, <1>6, <1>7, <1>8

(* What a migration writes.                                                *)
LEMMA MovesKeeps ==
  ASSUME IInv, up, exch = NoDC, pc \in {"check_phone", "send_code"}, Migrates,
         NEW next \in {"check_phone again", "send_code again"},
         MovesTo(home),
         Ask(next, home) \/ (next = "check_phone again" /\ AskGarbled(next, home)),
         UNCHANGED <<process, faults, kxvars, world, current>>
  PROVE  IInv'
<1> DEFINE m == Moved(home)
           logged == bl_do_set_working_dc(home)
<1>1. home \in DC /\ mem \in Knowledge /\ disk \in Knowledge /\ mem.key = disk.key
      /\ disk.signed \subseteq mem.signed /\ disk.dcs \subseteq mem.dcs
  BY DEF Migrates, IInv, TypeOK, KxTypeOK, Synced
<1>2. /\ m \in Knowledge /\ m.key = mem.key /\ m.signed = mem.signed
      /\ m.dcs = mem.dcs
  BY <1>1 DEF Knowledge, Moved
<1>3. /\ logged \in Knowledge /\ logged.key = disk.key
      /\ logged.signed = disk.signed /\ logged.dcs = disk.dcs
      /\ binlog_enabled => logged.working = home
  <2> DEFINE e == [disk EXCEPT !.working = home]
  <2>1. /\ e \in Knowledge /\ e.key = disk.key /\ e.signed = disk.signed
        /\ e.dcs = disk.dcs /\ e.working = home
    BY <1>1 DEF Knowledge
  <2>2. logged = IF binlog_enabled THEN e ELSE disk
    BY DEF bl_do_set_working_dc, Logged
  <2> HIDE DEF e, logged
  <2> QED BY <1>1, <2>1, <2>2
<1>4. /\ mem' = m /\ moved' = FALSE
      /\ disk' = logged \/ disk' = write_auth_file(m, logged)
  BY DEF MovesTo
<1> HIDE DEF logged
<1>5. /\ disk' \in Knowledge /\ disk'.key = disk.key /\ disk'.signed \subseteq mem.signed
      /\ disk'.dcs \subseteq mem.dcs
      /\ binlog_enabled => /\ disk'.signed = disk.signed /\ disk'.dcs = disk.dcs
                           /\ disk'.working = home
  BY <1>1, <1>2, <1>3, <1>4 DEF write_auth_file
<1> QED BY <1>1, <1>4, <1>5, WorksWith

(* The working DC has changed in what is written when the process stops.   *)
LEMMA MoveInterrupted ==
  ASSUME IInv, up, NEW d \in DC, Interrupted(Moved(d)), UNCHANGED world
  PROVE  IInv'
<1>1. Moved(d) \in Knowledge /\ Moved(d).key = mem.key /\ Moved(d).signed = mem.signed
  BY DEF IInv, TypeOK, KxTypeOK, Knowledge, Moved
<1> QED BY <1>1, MemoryExtends, InterruptedKeeps

LEMMA CheckPhoneKeeps == ASSUME IInv, check_phone PROVE IInv'
<1>1. CASE \E q \in {"check_phone", "check_phone again"} : CheckPhone(q)
  <2> PICK q \in {"check_phone", "check_phone again"} : CheckPhone(q)
    BY <1>1
  <2> DEFINE to == IF Migrates THEN home ELSE mem.working
  <2>1. up /\ pc = q /\ asked = "done" /\ exch = NoDC
        /\ UNCHANGED <<process, faults, kxvars, world, current>>
    BY NoExchange DEF check_phone, CheckPhone, Answered, At
  <2>2. /\ target = mem.working /\ mem.working \in DC /\ current \in DC
        /\ (q = "check_phone again" => ~Migrates)
    BY <2>1, Typed DEF IInv, Phases, Reached, TypeOK, KxTypeOK
  <2>3. /\ target' = to
        /\ q = "check_phone" => \/ Ask("check_phone again", to)
                                \/ AskGarbled("check_phone again", to)
        /\ q # "check_phone" =>
             asked' = "sent" /\ pc' = IF (Migrates \/ registered) /\ ~register_mode
                                     THEN "send_code" ELSE "nearest_dc"
    BY DEF CheckPhone, Ask, AskGarbled
  <2>4. CASE Migrates
    <3>1. MovesTo(home) /\ pc = "check_phone" /\ to = home
      BY <2>1, <2>2, <2>4 DEF CheckPhone
    <3> QED BY <2>1, <2>3, <2>4, <3>1, MovesKeeps
  <2>5. CASE ~Migrates
    <3>1. /\ UNCHANGED <<mem, disk, moved>> /\ target' = mem.working
          /\ asked' \in {"sent", "garbled"}
          /\ pc' \in {"check_phone again", "send_code", "nearest_dc"}
          /\ pc' = "send_code" => registered
      BY <2>3, <2>5 DEF CheckPhone, Ask, AskGarbled
    <3>2. Reached'
      BY <2>1, <2>2, <2>5, <3>1
         DEF IInv, Reached, WithKeys, SignedIn, Migrates, world, process
    <3>3. LoginDecision'
      BY <2>1, <3>1 DEF LoginDecision, world
    <3>4. pc' \in Waits /\ pc' \in Places \ {"dead"} /\ pc' # "import_auth"
      BY <3>1 DEF Places, Waits
    <3> QED BY <2>1, <2>2, <3>1, <3>2, <3>3, <3>4, GoesOnKeeps
  <2> QED BY <2>4, <2>5
<1>2. CASE up /\ Migrates /\ Interrupted(Moved(home))
  <2>1. home \in DC /\ UNCHANGED world
    BY <1>2 DEF Migrates, IInv, TypeOK, check_phone
  <2> QED BY <1>2, <2>1, MoveInterrupted
<1> QED BY <1>1, <1>2 DEF check_phone, Answered, At

LEMMA NearestDcKeeps == ASSUME IInv, nearest_dc PROVE IInv'
<1>1. CASE \E d \in DC : /\ mem' = [mem EXCEPT !.working = d] /\ moved' = TRUE
                         /\ Ask("send_code", d)
                         /\ UNCHANGED <<process, faults, disk, kxvars, current>>
  <2> PICK d \in DC : /\ mem' = [mem EXCEPT !.working = d] /\ moved' = TRUE
                      /\ Ask("send_code", d)
                      /\ UNCHANGED <<process, faults, disk, kxvars, current>>
    BY <1>1
  <2>1. up /\ pc = "nearest_dc" /\ exch = NoDC /\ UNCHANGED world
    BY NoExchange DEF nearest_dc, Answered, At
  <2>2. disk \in Knowledge /\ disk.signed \subseteq mem.signed
        /\ disk.dcs \subseteq mem.dcs /\ mem' = Moved(d)
    BY <2>1 DEF IInv, TypeOK, KxTypeOK, Synced, Moved
  <2> QED BY <2>1, <2>2, WorksWith
<1>2. CASE Fault /\ Dies(disk)
  BY <1>2, DiesWithDisk DEF nearest_dc, Answered, At
<1> QED BY <1>1, <1>2 DEF nearest_dc

LEMMA SendCodeKeeps == ASSUME IInv, do_send_code PROVE IInv'
<1>1. CASE /\ Answered("send_code") /\ Migrates
           /\ MovesTo(home) /\ Ask("send_code again", home)
           /\ UNCHANGED <<process, faults, kxvars, current>>
  <2>1. up /\ pc = "send_code" /\ exch = NoDC /\ UNCHANGED world
    BY <1>1, NoExchange DEF do_send_code, Answered, At
  <2> QED BY <1>1, <2>1, MovesKeeps
<1>2. CASE /\ \E q \in {"send_code", "send_code again"} : Answered(q)
           /\ ~Migrates /\ Goto("type_code")
           /\ UNCHANGED <<process, faults, mem, disk, kxvars, current, moved>>
  <2>1. up /\ pc \in {"send_code", "send_code again"} /\ exch = NoDC /\ UNCHANGED world
    BY <1>2, NoExchange DEF do_send_code, Answered, At
  <2>2. Reached' /\ LoginDecision'
    BY <1>2, <2>1 DEF IInv, Reached, WithKeys, SignedIn, LoginDecision, Goto
  <2>3. current' \in DC /\ target' \in DC /\ pc' \in Places \ {"dead"} /\ asked' = "no"
    BY <1>2, ConstantFacts DEF IInv, TypeOK, Places, Goto
  <2> QED BY <1>2, <2>1, <2>2, <2>3, GoesOnKeeps
<1> QED BY <1>1, <1>2 DEF do_send_code

LEMMA TypesCodeKeeps == ASSUME IInv, TypesCode PROVE IInv'
<1>1. CASE /\ Ask("sign_in", mem.working)
           /\ UNCHANGED <<process, faults, mem, disk, kxvars, current, moved>>
  <2>1. up /\ pc = "type_code" /\ exch = NoDC /\ UNCHANGED world
    BY NoExchange DEF TypesCode, At
  <2>2. Reached' /\ LoginDecision'
    BY <1>1, <2>1 DEF IInv, Reached, WithKeys, SignedIn, LoginDecision, Ask
  <2>3. current' \in DC /\ mem.working \in DC
    BY <1>1, Typed DEF IInv, TypeOK, KxTypeOK
  <2>4. pc' \in Places \ {"dead"} /\ pc' \in Waits /\ asked' = "sent"
        /\ pc' = "sign_in" /\ target' = mem.working
    BY <1>1 DEF Places, Waits, Ask
  <2> QED BY <1>1, <2>1, <2>2, <2>3, <2>4, GoesOnKeeps
<1>2. CASE Fault /\ Dies(disk)
  BY <1>2, DiesWithDisk DEF TypesCode, At
<1> QED BY <1>1, <1>2 DEF TypesCode

(* A DC is signed, in memory and on disk.                                  *)
LEMMA SignsKeeps ==
  ASSUME IInv, up, exch = NoDC, pc \in WithKeys, Goto("export"),
         NEW d \in authorized, mem.key[d].kind = "full",
         UNCHANGED <<process, faults, kxvars, world, current, moved>>,
         mem' \in Knowledge, mem'.key = mem.key, mem'.dcs = mem.dcs,
         mem'.working = mem.working, mem'.signed = mem.signed \cup {d},
         mem.working \in mem'.signed,
         disk' \in Knowledge, disk'.key = mem.key, disk'.signed \subseteq mem'.signed,
         disk'.dcs \subseteq mem.dcs,
         binlog_enabled => /\ disk'.signed = mem'.signed /\ disk'.dcs = disk.dcs
                           /\ disk'.working = disk.working
  PROVE  IInv'
<1> USE DEF IInv, Goto
<1>1. KxTypeOK'
  BY DEF TypeOK, KxTypeOK, process, kxvars
<1>2. TypeOK'
  BY <1>1, ConstantFacts DEF TypeOK, Places, world
<1>3. Phases' /\ LoginDecision'
  BY DEF Phases, LoginDecision, process
<1>4. Exchanges'
  BY DEF Exchanges, kxvars
<1>5. Synced'
  BY DEF Synced, process
<1>6. Reached'
  BY DEF Reached, WithKeys, SignedIn
<1>7. Good(mem)' /\ Good(disk)'
  BY DEF Good, Fits, process, world, kxvars
<1> QED BY <1>2, <1>3, <1>4, <1>5, <1>6, <1>7

LEMMA SignInKeeps == ASSUME IInv, sign_in_on_answer PROVE IInv'
<1> DEFINE m == [mem EXCEPT !.our_id = TRUE]
           d1 == write_auth_file(m, bl_do_set_our_id)
           d2 == bl_do_dc_signed(d1, mem.working)
           m2 == [m EXCEPT !.signed = @ \cup {mem.working}, !.auth_state = 300]
<1>1. up /\ pc = "sign_in" /\ asked = "done" /\ exch = NoDC /\ UNCHANGED world
  BY NoExchange DEF sign_in_on_answer, Answered, At
<1>2. /\ target = mem.working /\ mem.working \in authorized /\ mem.working \in DC
      /\ mem.key[mem.working].kind = "full"
  BY <1>1 DEF IInv, Phases, Reached, TypeOK
<1>3. mem \in Knowledge /\ disk \in Knowledge /\ mem.key = disk.key
      /\ disk.signed \subseteq mem.signed /\ mem.signed \subseteq authorized
      /\ disk.dcs \subseteq mem.dcs
      /\ (binlog_enabled => disk.signed = mem.signed)
  BY <1>1 DEF IInv, TypeOK, KxTypeOK, Synced, Good
<1>4. /\ d1 \in Knowledge /\ d1.key = mem.key /\ d1.signed \subseteq mem.signed
      /\ d1.dcs \subseteq mem.dcs
      /\ binlog_enabled => /\ d1.signed = disk.signed /\ d1.dcs = disk.dcs
                           /\ d1.working = disk.working
  BY <1>3 DEF write_auth_file, bl_do_set_our_id, Logged, Knowledge
<1>5. /\ m2 \in Knowledge /\ m2.key = mem.key /\ m2.dcs = mem.dcs
      /\ m2.working = mem.working /\ m2.signed = mem.signed \cup {mem.working}
  <2>1. /\ m \in Knowledge /\ m.key = mem.key /\ m.dcs = mem.dcs
        /\ m.working = mem.working /\ m.signed = mem.signed
    BY <1>3 DEF Knowledge
  <2> DEFINE n == [m EXCEPT !.signed = @ \cup {mem.working}]
  <2>2. /\ n \in Knowledge /\ n.key = mem.key /\ n.dcs = mem.dcs
        /\ n.working = mem.working /\ n.signed = mem.signed \cup {mem.working}
    <3> HIDE DEF m
    <3> QED BY <1>2, <2>1 DEF Knowledge
  <2>3. m2 = [n EXCEPT !.auth_state = 300]
    BY <2>1 DEF Knowledge
  <2> HIDE DEF m2, n
  <2> QED BY <2>2, <2>3 DEF Knowledge
<1>6. /\ d2 \in Knowledge /\ d2.key = mem.key /\ d2.dcs \subseteq mem.dcs
      /\ d2.signed \subseteq mem.signed \cup {mem.working}
      /\ binlog_enabled => /\ d2.signed = disk.signed \cup {mem.working}
                           /\ d2.dcs = disk.dcs /\ d2.working = disk.working
  <2> HIDE DEF d1
  <2> QED BY <1>2, <1>4 DEF bl_do_dc_signed, Knowledge
<1>7. \/ /\ mem' = m2 /\ disk' = d2 /\ Goto("export")
         /\ UNCHANGED <<process, faults, kxvars, current, moved>>
      \/ \E d \in {d1, d2} : Fault /\ Dies(d)
      \/ Interrupted(m)
  BY DEF sign_in_on_answer
<1>10. m \in Knowledge /\ m.key = mem.key /\ m.signed = mem.signed
  BY <1>3 DEF Knowledge
<1> HIDE DEF m, d1, d2, m2
<1>8. CASE /\ mem' = m2 /\ disk' = d2 /\ Goto("export")
           /\ UNCHANGED <<process, faults, kxvars, current, moved>>
  <2>1. pc \in WithKeys
    BY <1>1 DEF WithKeys
  <2> QED BY <1>1, <1>2, <1>3, <1>5, <1>6, <1>8, <2>1, SignsKeeps
<1>9. CASE \E d \in {d1, d2} : Fault /\ Dies(d)
  <2> PICK d \in {d1, d2} : Fault /\ Dies(d)
    BY <1>9
  <2>1. /\ d \in Knowledge /\ d.key = mem.key
        /\ d.signed \subseteq mem.signed \cup {mem.working}
    BY <1>4, <1>6
  <2>2. faults' \in 0 .. MaxFaults
    BY FaultCounts DEF IInv
  <2>3. Good(d)
    BY <1>2, <1>3, <2>1 DEF IInv, Good
  <2> QED BY <1>1, <2>1, <2>2, <2>3, DiesKeeps
<1>11. CASE Interrupted(m)
  BY <1>1, <1>10, <1>11, MemoryExtends, InterruptedKeeps
<1> QED BY <1>7, <1>8, <1>9, <1>11

LEMMA ExportKeeps == ASSUME IInv, Export PROVE IInv'
<1>1. up /\ pc = "export" /\ exch = NoDC /\ mem \in Knowledge
      /\ UNCHANGED <<process, faults, mem, disk, kxvars, world, moved>>
      /\ Ask("export_auth", mem.working) /\ current' \in Unsigned
  BY NoExchange DEF Export, At, IInv, TypeOK, KxTypeOK
<1>2. current' \in DC /\ mem.working \in DC
  BY <1>1, Typed DEF Unsigned
<1>3. Reached' /\ LoginDecision'
  BY <1>1 DEF IInv, Reached, WithKeys, SignedIn, LoginDecision, Ask
<1>4. pc' \in Places \ {"dead"} /\ pc' \in Waits /\ asked' = "sent"
      /\ pc' = "export_auth" /\ target' = mem.working
  BY <1>1 DEF Places, Waits, Ask
<1> QED BY <1>1, <1>2, <1>3, <1>4, GoesOnKeeps

LEMMA ImportKeeps == ASSUME IInv, Import PROVE IInv'
<1>1. up /\ exch = NoDC /\ mem \in Knowledge /\ disk \in Knowledge /\ current \in DC
      /\ pc \in {"export_auth", "import_auth"} /\ asked = "done" /\ UNCHANGED world
  BY NoExchange DEF Import, Answered, At, IInv, TypeOK, KxTypeOK
<1>2. CASE /\ pc = "export_auth" /\ Ask("import_auth", current)
           /\ UNCHANGED <<mem, disk>>
           /\ UNCHANGED <<process, faults, kxvars, world, current, moved>>
  <2>1. Reached' /\ LoginDecision'
    BY <1>1, <1>2 DEF IInv, Reached, WithKeys, SignedIn, LoginDecision, Ask
  <2>2. pc' \in Places \ {"dead"} /\ pc' \in Waits /\ asked' = "sent"
        /\ pc' = "import_auth" /\ target' = current'
    BY <1>1, <1>2 DEF Places, Waits, Ask
  <2> QED BY <1>1, <1>2, <2>1, <2>2, GoesOnKeeps
<1> DEFINE m == Signed(current)
           log == bl_do_dc_signed(disk, current)
<1>3. pc = "import_auth" =>
        /\ current \in authorized /\ mem.key[current].kind = "full"
        /\ mem.working \in mem.signed /\ pc \in WithKeys
  BY <1>1 DEF IInv, Phases, Reached, SignedIn, WithKeys
<1>4. /\ m \in Knowledge /\ m.key = mem.key /\ m.dcs = mem.dcs
      /\ m.working = mem.working /\ m.signed = mem.signed \cup {current}
  BY <1>1 DEF Signed, Knowledge
<1>5. CASE /\ pc = "import_auth" /\ Goto("export") /\ Signs(current)
           /\ UNCHANGED <<process, faults, kxvars, world, current, moved>>
  <2>1. mem' = m /\ disk' = write_auth_file(m, log)
    BY <1>5 DEF Signs, Saves
  <2>2. mem.key = disk.key /\ disk.signed \subseteq mem.signed
        /\ disk.dcs \subseteq mem.dcs
        /\ (binlog_enabled => disk.signed = mem.signed)
    BY <1>1 DEF IInv, Synced
  <2>3. /\ log \in Knowledge /\ log.key = disk.key
        /\ log.dcs = disk.dcs /\ log.working = disk.working
        /\ log.signed = IF binlog_enabled THEN disk.signed \cup {current}
                                          ELSE disk.signed
    BY <1>1 DEF bl_do_dc_signed, Knowledge
  <2> HIDE DEF m, log
  <2>4. /\ disk' \in Knowledge /\ disk'.key = mem.key /\ disk'.signed \subseteq mem'.signed
        /\ disk'.dcs \subseteq mem.dcs
        /\ binlog_enabled => /\ disk'.signed = mem'.signed /\ disk'.dcs = disk.dcs
                             /\ disk'.working = disk.working
    BY <1>4, <2>1, <2>2, <2>3 DEF write_auth_file
  <2> QED BY <1>1, <1>3, <1>4, <1>5, <2>1, <2>4, SignsKeeps
<1>6. CASE pc = "import_auth" /\ Interrupted(m)
  <2> HIDE DEF m
  <2>1. Good(m) /\ Extends(m)
    BY <1>1, <1>3, <1>4, <1>6 DEF IInv, Synced, Good, Extends
  <2> QED BY <1>1, <1>4, <1>6, <2>1, InterruptedKeeps
<1> QED BY <1>2, <1>5, <1>6 DEF Import, Answered, At

LEMMA DifferenceAsked ==
  ASSUME IInv, At("export"), Unsigned = {}, Saves(mem, disk),
         Ask("get_difference", mem.working),
         UNCHANGED <<process, faults, kxvars, world, current, moved>>
  PROVE  IInv'
<1>1. up /\ pc = "export" /\ exch = NoDC /\ mem \in Knowledge /\ disk \in Knowledge
      /\ mem' = mem /\ disk' = write_auth_file(mem, disk)
  BY NoExchange DEF Saves, At, IInv, TypeOK, KxTypeOK
<1>2. mem.signed = DC /\ mem.dcs = DC /\ mem.working \in DC
  BY <1>1, Typed DEF Unsigned, IInv, Reached, WithKeys, SignedIn
<1>3. /\ disk' \in Knowledge /\ disk'.key = mem.key /\ disk'.dcs = DC /\ disk'.signed = DC
      /\ ~binlog_enabled => disk'.working = mem.working
      /\ binlog_enabled => disk' = disk
  BY <1>1, <1>2 DEF write_auth_file, IInv, Synced
<1> USE DEF IInv, Ask
<1>4. KxTypeOK'
  BY <1>1, <1>3 DEF TypeOK, KxTypeOK, process, kxvars
<1>5. TypeOK'
  BY <1>1, <1>2, <1>4 DEF TypeOK, Places, Waits, world
<1>6. Phases' /\ LoginDecision'
  BY <1>1 DEF Phases, LoginDecision, process, Waits
<1>7. Exchanges'
  BY <1>1 DEF Exchanges, kxvars
<1>8. Synced'
  BY <1>1, <1>2, <1>3 DEF Synced, process
<1>9. Reached'
  BY <1>1, <1>2, <1>3 DEF Reached, WithKeys, SignedIn, process
<1>10. Good(mem)' /\ Good(disk)'
  BY <1>1, <1>2, <1>3 DEF Good, Fits, Synced, process, world, kxvars
<1> QED BY <1>5, <1>6, <1>7, <1>8, <1>9, <1>10

LEMMA GetDifferenceKeeps == ASSUME IInv, do_get_difference PROVE IInv'
<1>1. up /\ mem \in Knowledge
  BY DEF do_get_difference, At, IInv, TypeOK, KxTypeOK
<1>2. CASE Interrupted(mem) /\ UNCHANGED world
  BY <1>1, <1>2, MemoryExtends, InterruptedKeeps
<1> QED BY <1>2, DifferenceAsked DEF do_get_difference

(* A new salt: all that the process knows is written.                      *)
LEMMA RpcMessageKeeps == ASSUME IInv, process_rpc_message PROVE IInv'
<1>1. up /\ mem \in Knowledge /\ disk \in Knowledge /\ ~binlog_enabled /\ UNCHANGED world
  BY DEF process_rpc_message, stvars, world, IInv, TypeOK, KxTypeOK
<1>2. CASE Interrupted(mem)
  BY <1>1, <1>2, MemoryExtends, InterruptedKeeps
<1>3. CASE Saves(mem, disk) /\ UNCHANGED <<process, faults, kxvars, stvars>>
  <2> USE <1>1, <1>3 DEF IInv, Saves, write_auth_file, process, kxvars, stvars
  <2>1. TypeOK'
    BY DEF TypeOK, KxTypeOK
  <2>2. Phases' /\ Exchanges' /\ Synced' /\ LoginDecision'
    BY DEF Phases, Exchanges, Synced, LoginDecision
  <2>3. Reached'
    <3>1. pc \in {"get_difference", "ready"} =>
            mem.signed = DC /\ mem.dcs = DC
      BY Typed DEF Reached, Synced, WithKeys, SignedIn
    <3> QED BY <3>1 DEF Reached, WithKeys, SignedIn, Migrates
  <2>4. Good(mem)' /\ Good(disk)'
    BY DEF Good, Fits
  <2> QED BY <2>1, <2>2, <2>3, <2>4
<1> QED BY <1>2, <1>3 DEF process_rpc_message

LEMMA DifferenceGotKeeps == ASSUME IInv, DifferenceGot PROVE IInv'
<1>1. up /\ pc = "get_difference" /\ exch = NoDC
      /\ UNCHANGED <<process, faults, mem, disk, kxvars, world, current, moved>>
  BY NoExchange DEF DifferenceGot, Answered, At
<1>2. pc' = "ready" /\ asked' = "no" /\ target' \in DC /\ current' \in DC
  BY <1>1, ConstantFacts DEF DifferenceGot, Goto, IInv, TypeOK
<1>3. Reached' /\ LoginDecision'
  BY <1>1, <1>2 DEF IInv, Reached, WithKeys, SignedIn, LoginDecision, process
<1> QED BY <1>1, <1>2, <1>3, GoesOnKeeps DEF Places

-----------------------------------------------------------------------------
(* All of them together. *)

LEMMA InitInv == Init => IInv
<1> SUFFICES ASSUME Init PROVE IInv
  OBVIOUS
<1> USE DEF Init, KxInit
<1>1. KxTypeOK
  <2>1. starts \in 0 .. MaxStarts /\ faults \in 0 .. MaxFaults
    BY KeyExchangeAssumption
  <2>2. mem \in Knowledge /\ disk \in Knowledge
    BY FreshFacts
  <2> QED BY <2>1, <2>2, ConstantFacts DEF KxTypeOK
<1>2. TypeOK
  BY <1>1, ConstantFacts DEF TypeOK, Places
<1>3. Phases /\ Exchanges /\ Synced /\ LoginDecision
  BY DEF Phases, Exchanges, Synced, LoginDecision, Fresh
<1>4. Reached
  BY DEF Reached, WithKeys, SignedIn
<1>5. Good(mem) /\ Good(disk)
  BY FreshFacts
<1> QED BY <1>2, <1>3, <1>4, <1>5 DEF IInv

LEMMA StutterKeeps == ASSUME IInv, UNCHANGED vars PROVE IInv'
<1> USE DEF IInv, vars, process, kxvars, stvars
<1>1. TypeOK' /\ Good(mem)' /\ Good(disk)' /\ LoginDecision'
  BY DEF TypeOK, KxTypeOK, Good, Fits, LoginDecision
<1>2. Phases' /\ Exchanges' /\ Synced'
  BY DEF Phases, Exchanges, Synced
<1>3. Reached'
  BY DEF Reached, WithKeys, SignedIn, Migrates
<1> QED BY <1>1, <1>2, <1>3

LEMMA StepInv == IInv /\ [Next]_vars => IInv'
<1> SUFFICES ASSUME IInv, [Next]_vars PROVE IInv'
  OBVIOUS
<1>1. CASE Exchanging(ExchangeStep)
  <2>1. CASE Exchanging(ServerReply) BY <2>1, ServerReplyKeeps
  <2>2. CASE Exchanging(process_respq_answer) BY <2>2, RespqKeeps
  <2>3. CASE Exchanging(process_dh_answer) BY <2>3, DhAnswerKeeps
  <2>4. CASE Exchanging(process_auth_complete) BY <2>4, AuthCompleteKeeps
  <2>5. CASE Exchanging(restart_connection) BY <2>5, RestartConnectionKeeps
  <2> QED BY <1>1, <2>1, <2>2, <2>3, <2>4, <2>5 DEF Exchanging, ExchangeStep
<1>2. CASE Step /\ ~Exchanging(ExchangeStep)
  BY <1>2, StartKeeps, StartFailsKeeps, AuthorizeWorkingKeeps, ConfigAnswerKeeps, AuthorizeOthersKeeps,
     CarriesOutKeeps, CheckPhoneKeeps, NearestDcKeeps, SendCodeKeeps, TypesCodeKeeps,
     SignInKeeps, ExportKeeps, ImportKeeps, GetDifferenceKeeps, DifferenceGotKeeps
     DEF Step
<1>3. CASE Exchanging(ping_alarm) BY <1>3, PingAlarmKeeps
<1>4. CASE Exchanging(fail_connection) BY <1>4, FailConnectionKeeps
<1>5. CASE Refused \/ Crash \/ process_rpc_message
  BY <1>5, RefusedKeeps, CrashKeeps, RpcMessageKeeps
<1>6. CASE UNCHANGED vars BY <1>6, StutterKeeps
<1> QED BY <1>1, <1>2, <1>3, <1>4, <1>5, <1>6 DEF Next

THEOREM AlwaysInv == Spec => []IInv
BY InitInv, StepInv, PTL DEF Spec

(* What is asked is asked of a DC that has its key.                        *)
LEMMA KeysFollow == IInv => QueriesHaveKeys
<1> SUFFICES ASSUME IInv, asked # "no" PROVE mem.key[target] # NoKey
  BY DEF QueriesHaveKeys
<1>1. pc \in Waits /\ target = (IF pc = "import_auth" THEN current ELSE mem.working)
  BY DEF IInv, Phases
<1>2. pc = "get_config" \/ pc \in WithKeys
  BY <1>1 DEF Waits, WithKeys, SignedIn
<1>3. target \in DC
  BY DEF IInv, TypeOK
<1> QED BY <1>1, <1>2, <1>3 DEF IInv, Reached

(* The client agrees with the server, wherever its process ended: it asks  *)
(* only where it has a key, has_auth of memory and of the disk stands for  *)
(* an authorization the server knows, and a number is taken for registered *)
(* only if it is.                                                          *)
THEOREM AgreesAlways == Spec => []AgreesWithServer
<1>1. IInv => AgreesWithServer
  BY KeysFollow DEF IInv, AgreesWithServer, SignedByServer, Good
<1> QED BY <1>1, AlwaysInv, PTL

(* A key on disk was made with the server, whatever is lost and wherever   *)
(* the process ends.  With a log its number may be short; without one, the *)
(* write of the file may have stopped in the middle of it; and that is all.*)
THEOREM WrongKeysAlwaysExplained == Spec => []WrongKeysExplained
<1>1. IInv => WrongKeysExplained
  BY DEF IInv, WrongKeysExplained, Good, Fits
<1> QED BY <1>1, AlwaysInv, PTL

(* What makes a client ready is on disk: the whole keys and the            *)
(* authorizations of every DC, and the DC to work with unless it moved to  *)
(* register.                                                               *)
THEOREM ReadyAlwaysKept == Spec => []ReadyIsKept
<1>1. IInv => ReadyIsKept
  <2> SUFFICES ASSUME IInv, pc = "ready" PROVE ReadyIsKept
    BY DEF ReadyIsKept, ReadyIsComplete, HomeKept
  <2>1. /\ disk.signed = DC /\ disk.dcs = DC
        /\ ~binlog_enabled => disk.working = mem.working
    BY DEF IInv, Reached
  <2>2. \A d \in DC : mem.key[d] # NoKey
    BY DEF IInv, Reached, WithKeys, SignedIn
  <2>3. /\ mem.key = disk.key /\ (binlog_enabled => disk.working = mem.working \/ moved)
        /\ \A d \in disk.signed : disk.key[d].kind = "full"
    BY DEF IInv, Phases, Synced, Good
  <2> QED BY <2>1, <2>2, <2>3 DEF ReadyIsKept, ReadyIsComplete, HomeKept
<1> QED BY <1>1, AlwaysInv, PTL

-----------------------------------------------------------------------------
(* Nothing is forgotten: what each step leaves on disk. *)

Kept(d) == /\ \A e \in DC : disk.key[e] # NoKey => d.key[e] = disk.key[e]
           /\ disk.signed \subseteq d.signed

(* What any record leaves on disk holds at least what was there.           *)
LEMMA RecordsKeep ==
  ASSUME disk \in Knowledge,
         NEW d \in Knowledge, NEW w \in DC, NEW s \in SUBSET DC
  PROVE  /\ Kept(disk) /\ Kept(bl_do_dc_option(s)) /\ Kept(bl_do_set_working_dc(w))
         /\ Kept(bl_do_set_our_id) /\ (Kept(d) => Kept(bl_do_dc_signed(d, w)))
         /\ \A e \in DC, k \in Key : disk.key[e] = NoKey => Kept(bl_do_set_auth_key_id(e, k))
<1>1. Kept(disk) /\ Kept(bl_do_dc_option(s)) /\ Kept(bl_do_set_working_dc(w))
      /\ Kept(bl_do_set_our_id)
  BY DEF Kept, bl_do_dc_option, bl_do_set_working_dc, bl_do_set_our_id, Logged, Knowledge
<1>2. Kept(d) => Kept(bl_do_dc_signed(d, w))
  BY DEF Kept, bl_do_dc_signed, Knowledge
<1>3. ASSUME NEW e \in DC, NEW k \in Key, disk.key[e] = NoKey
      PROVE  Kept(bl_do_set_auth_key_id(e, k))
  BY <1>3 DEF Kept, bl_do_set_auth_key_id, Logged, Knowledge
<1> QED BY <1>1, <1>2, <1>3

(* write_auth_file with what the program knows, when that is in step.      *)
LEMMA FileKeeps ==
  ASSUME disk \in Knowledge, NEW m \in Knowledge, NEW d \in Knowledge,
         Kept(d), Kept(m)
  PROVE  Kept(write_auth_file(m, d))
BY DEF write_auth_file, Kept

(* The end of a process that had added DCs to the auth file: the one step  *)
(* that takes anything from the disk.                                      *)
FileLost == /\ ~binlog_enabled /\ up /\ ~up'
            /\ disk' = Unreadable /\ ~(mem.dcs \subseteq disk.dcs)

LEMMA InterruptedLoses ==
  ASSUME IInv, up, NEW m \in Knowledge, Kept(m), m.dcs = mem.dcs, WriteStops(m)
  PROVE  Kept(disk') \/ FileLost
<1>1. PICK d \in Torn(m) : disk' = d /\ ~up' /\ ~binlog_enabled
  BY DEF WriteStops, KxDies
<1>2. CASE \E n \in Nat : d = Mixed(m, n)
  <2> PICK n \in Nat : d = Mixed(m, n)
    BY <1>2
  <2>1. Extends(m) /\ disk.signed \subseteq m.signed /\ disk.signed \subseteq DC
    BY DiskIsGood, Typed DEF Kept, Extends
  <2>2. \A e \in DC : disk.key[e] # NoKey => d.key[e] = disk.key[e]
    BY <2>1, MixedFields DEF Extends
  <2>3. disk.signed \subseteq d.signed
    BY <2>1, MixedFields
  <2> QED BY <1>1, <2>2, <2>3 DEF Kept
<1>3. CASE d = [m EXCEPT !.our_id = FALSE]
  <2>1. d.signed = m.signed /\ d.key = m.key
    BY <1>3 DEF Knowledge
  <2> QED BY <1>1, <2>1 DEF Kept
<1>4. CASE d = Unreadable /\ m.dcs # disk.dcs
  BY <1>1, <1>4 DEF FileLost, IInv, Synced
<1>5. 3 * NumDC + 2 \in Nat /\ 3 * NumDC \in Nat
  BY KeyExchangeAssumption
<1> QED BY <1>2, <1>3, <1>4, <1>5 DEF Torn

LEMMA StepKeeps == IInv /\ [Next]_vars => Kept(disk') \/ FileLost
<1> SUFFICES ASSUME IInv, [Next]_vars PROVE Kept(disk') \/ FileLost
  OBVIOUS
<1>1. /\ disk \in Knowledge /\ mem \in Knowledge /\ Kept(disk)
      /\ home \in DC \cup {AnyDC} /\ current \in DC /\ mem.working \in DC
  BY Typed DEF IInv, TypeOK, KxTypeOK, Kept
<1>2. ASSUME up, NEW m \in Knowledge, m.key = mem.key, mem.signed \subseteq m.signed
      PROVE  Kept(m) /\ (m.dcs = mem.dcs /\ Interrupted(m) => Kept(disk') \/ FileLost)
  <2>1. Kept(m)
    BY <1>2 DEF Kept, IInv, Synced
  <2> QED BY <1>2, <2>1, InterruptedLoses DEF Interrupted
<1>3. CASE UNCHANGED disk
  BY <1>1, <1>3
<1>4. CASE \E d \in DC : Dies(bl_do_dc_option(1 .. d))
  BY <1>1, <1>4, ConstantFacts, RecordsKeep DEF Dies, KxDies
<1>5. CASE Exchanging(process_auth_complete)
  <2> DEFINE keep == [mem EXCEPT !.key[exch] = power]
             log == bl_do_set_auth_key_id(exch, power)
  <2>1. /\ exch \in DC /\ up /\ mem.key[exch] = NoKey /\ power \in Key
        /\ mem.key = disk.key /\ disk.signed \subseteq mem.signed
    BY <1>5 DEF Exchanging, process_auth_complete, IInv, TypeOK, KxTypeOK, Exchanges, Synced
  <2>2. Kept(log)
    BY <1>1, <2>1, RecordsKeep
  <2>3. /\ keep \in Knowledge /\ keep.signed = mem.signed /\ keep.dcs = mem.dcs
        /\ keep.key = [mem.key EXCEPT ![exch] = power]
    BY <1>1, <2>1 DEF Knowledge
  <2>4. mem.key \in [DC -> Key]
    BY <1>1, Typed
  <2>5. Kept(keep)
    <3> HIDE DEF keep
    <3> QED BY <2>1, <2>3, <2>4 DEF Kept
  <2>6. \/ disk' = log \/ disk' = IF binlog_enabled THEN log ELSE keep
        \/ WriteStops(keep)
    BY <1>5 DEF Exchanging, process_auth_complete, KxDies, write_auth_file
  <2> QED BY <2>1, <2>2, <2>3, <2>5, <2>6, InterruptedLoses
<1>6. CASE AuthorizeWorking
  <2> DEFINE m == [mem EXCEPT !.auth_state = 100]
  <2>1. up /\ (disk' = disk \/ disk' = write_auth_file(m, disk) \/ Interrupted(m))
    BY <1>6 DEF AuthorizeWorking, At, Authorize, dc_authorize, Saves
  <2>2. m \in Knowledge /\ m.key = mem.key /\ m.signed = mem.signed /\ m.dcs = mem.dcs
    BY <1>1 DEF Knowledge
  <2> HIDE DEF m
  <2> QED BY <1>1, <1>2, <2>1, <2>2, FileKeeps
<1>7. CASE help_get_config_on_answer
  BY <1>1, <1>7, ConstantFacts, RecordsKeep DEF help_get_config_on_answer
<1>8. CASE check_phone \/ do_send_code
  <2>1. up /\ \/ UNCHANGED disk
              \/ Migrates /\ (MovesTo(home) \/ Interrupted(Moved(home)))
    BY <1>8 DEF check_phone, CheckPhone, do_send_code, Answered, At
  <2>2. CASE Migrates /\ (MovesTo(home) \/ Interrupted(Moved(home)))
    <3> DEFINE m == Moved(home)
               log == bl_do_set_working_dc(home)
    <3>1. home \in DC /\ \/ disk' = log \/ disk' = IF binlog_enabled THEN log ELSE m
                         \/ Interrupted(m)
      BY <1>1, <2>2 DEF Migrates, MovesTo, write_auth_file
    <3>2. m \in Knowledge /\ m.key = mem.key /\ m.signed = mem.signed /\ m.dcs = mem.dcs
      BY <1>1, <3>1 DEF Knowledge, Moved
    <3>3. Kept(log)
      BY <1>1, <3>1, RecordsKeep
    <3> HIDE DEF m
    <3> QED BY <1>2, <2>1, <3>1, <3>2, <3>3
  <2> QED BY <1>3, <2>1, <2>2
<1>9. CASE sign_in_on_answer
  <2> DEFINE m == [mem EXCEPT !.our_id = TRUE]
             log == bl_do_set_our_id
             d1 == write_auth_file(m, log)
  <2>1. up /\ \/ disk' = d1 \/ disk' = bl_do_dc_signed(d1, mem.working)
              \/ Interrupted(m)
    BY <1>9 DEF sign_in_on_answer, Answered, At, Dies, KxDies
  <2>2. m \in Knowledge /\ m.key = mem.key /\ m.signed = mem.signed /\ m.dcs = mem.dcs
    BY <1>1 DEF Knowledge
  <2>3. log \in Knowledge
    BY <1>1 DEF bl_do_set_our_id, Logged, Knowledge
  <2>4. Kept(m) /\ Kept(log)
    BY <1>1, <1>2, <2>1, <2>2, RecordsKeep
  <2>5. d1 \in Knowledge /\ Kept(d1)
    BY <2>2, <2>3, <2>4 DEF write_auth_file
  <2> HIDE DEF d1, m
  <2> QED BY <1>1, <1>2, <2>1, <2>2, <2>5, RecordsKeep
<1>10. CASE Import
  <2> DEFINE m == Signed(current)
             log == bl_do_dc_signed(disk, current)
  <2>1. up /\ \/ disk' = disk \/ disk' = IF binlog_enabled THEN log ELSE m
              \/ Interrupted(m)
    BY <1>10 DEF Import, Answered, At, Signs, Saves, write_auth_file
  <2>2. /\ m \in Knowledge /\ m.key = mem.key /\ mem.signed \subseteq m.signed
        /\ m.dcs = mem.dcs
    BY <1>1 DEF Knowledge, Signed
  <2>3. Kept(log)
    BY <1>1, RecordsKeep
  <2> HIDE DEF m
  <2> QED BY <1>1, <1>2, <2>1, <2>2, <2>3
<1>11. CASE do_get_difference \/ process_rpc_message
  <2>1. up /\ (disk' = write_auth_file(mem, disk) \/ Interrupted(mem))
    BY <1>11 DEF do_get_difference, process_rpc_message, Saves, At
  <2> QED BY <1>1, <1>2, <2>1, FileKeeps
<1>13. CASE StartFails
  <2>1. CASE starts = 0
    BY <2>1 DEF Kept, IInv, Phases
  <2> QED BY <1>1, <1>13, <2>1 DEF StartFails
<1>12. \/ UNCHANGED disk \/ \E d \in DC : Dies(bl_do_dc_option(1 .. d))
       \/ Exchanging(process_auth_complete) \/ AuthorizeWorking
       \/ help_get_config_on_answer \/ check_phone \/ do_send_code
       \/ sign_in_on_answer \/ Import \/ do_get_difference \/ process_rpc_message
       \/ StartFails
  <2>1. CASE UNCHANGED vars BY <2>1 DEF vars
  <2>2. CASE Exchanging(ExchangeStep) /\ ~Exchanging(process_auth_complete)
    BY <2>2 DEF Exchanging, ExchangeStep, ServerReply, process_respq_answer,
                process_dh_answer, restart_connection
  <2>3. CASE Exchanging(ping_alarm) BY <2>3 DEF Exchanging, ping_alarm, KxDies
  <2>4. CASE Exchanging(fail_connection) BY <2>4 DEF Exchanging, fail_connection
  <2>5. CASE Refused \/ Crash BY <2>5 DEF Refused, Crash, Dies, KxDies
  <2>6. CASE Start BY <2>6 DEF Start
  <2>7. CASE AuthorizeOthers BY <2>7 DEF AuthorizeOthers, Authorize, dc_authorize
  <2>8. CASE CarriesOut \/ Export \/ DifferenceGot
    BY <2>8 DEF CarriesOut, Export, DifferenceGot
  <2>9. CASE nearest_dc \/ TypesCode
    BY <2>9 DEF nearest_dc, TypesCode, Dies, KxDies
  <2> QED BY <2>1, <2>2, <2>3, <2>4, <2>5, <2>6, <2>7, <2>8, <2>9 DEF Next, Step
<1> QED BY <1>3, <1>4, <1>5, <1>6, <1>7, <1>8, <1>9, <1>10, <1>11, <1>12, <1>13

(* No step of the program, and no end of it, takes a key or a signature    *)
(* from the disk, for any number of starts and faults, but for the end in  *)
(* the middle of the write that adds DCs to the auth file.                 *)
THEOREM NothingIsForgotten == Spec => NothingForgotten
<1>1. IInv /\ [Next]_vars =>
        [\/ /\ \A d \in DC : disk.key[d] # NoKey => disk'.key[d] = disk.key[d]
            /\ disk.signed \subseteq disk'.signed
         \/ /\ ~binlog_enabled /\ up /\ ~up'
            /\ disk' = Unreadable /\ ~(mem.dcs \subseteq disk.dcs)]_vars
  BY StepKeeps DEF Kept, FileLost
<1> QED BY <1>1, AlwaysInv, PTL DEF Spec, NothingForgotten
=============================================================================
