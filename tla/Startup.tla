------------------------------ MODULE Startup ------------------------------
(***************************************************************************)
(* The start of the client: loop() of loop.c, from the log or the auth file*)
(* to the difference, through the key exchanges (KeyExchange), the login   *)
(* and the transfer of the authorization to the other data centres, with   *)
(* the queries of queries.c it waits for.                                  *)
(*                                                                         *)
(* loop() is one thread that asks and waits in net_loop; pc is where it    *)
(* stands.  What it asks is answered at most once (QueryLayer).  The       *)
(* process may end anywhere, also between two records of one answer or in  *)
(* the middle of a write of the auth file, and be started again.           *)
(***************************************************************************)
EXTENDS KeyExchange

CONSTANTS
  AnyDC,          \* the home of a number that any data centre would register
  register_mode   \* option of the terminal client

ASSUME StartupAssumption == AnyDC \notin DC /\ register_mode \in BOOLEAN

VARIABLES
  pc,           \* where loop() stands; the name of the query it waits for
  asked,        \* "no", "sent", "refused", "garbled", or "done": the server
                \* has carried it out
  target,       \* the DC that was asked
  current,      \* the DC that the last loop exports the authorization to
  registered, home,   \* of the telephone number, as the server knows it
  authorized,   \* the server's side: the DCs that know this client's user
  moved         \* history: the last DC chosen was the nearest, not the home

stvars == <<pc, asked, target, current, registered, home, authorized, moved>>
vars == <<process, faults, mem, disk, kxvars, stvars>>

Waits == {"get_config", "check_phone", "check_phone again", "nearest_dc",
          "send_code", "send_code again", "sign_in", "export_auth",
          "import_auth", "get_difference"}
Places == Waits \cup {"dead", "authorize_working", "authorize_others",
                      "authorizing", "type_code", "export", "ready"}

TypeOK ==
  /\ KxTypeOK
  /\ pc \in Places
  /\ asked \in {"no", "sent", "garbled", "done", "refused"} /\ target \in DC
  /\ current \in DC /\ registered \in BOOLEAN /\ home \in DC \cup {AnyDC}
  /\ authorized \subseteq DC /\ moved \in BOOLEAN

Init ==
  /\ KxInit
  /\ pc = "dead" /\ asked = "no" /\ target = 1 /\ current = 1
  /\ registered \in BOOLEAN /\ home \in DC \cup {AnyDC}
  /\ (registered => home # AnyDC)
  /\ authorized = {} /\ moved = FALSE

world == <<registered, home, authorized>>
Forgets == pc' = "dead" /\ asked' = "no" /\ target' = 1
           /\ current' = 1 /\ moved' = FALSE
Dies(d) == KxDies(d) /\ Forgets

(* A handler saves m, or stops in the middle of it.                        *)
Saves(m, log) == mem' = m /\ disk' = write_auth_file(m, log)
Interrupted(m) == WriteStops(m) /\ Forgets

(* send_query; it asserts that there is a key.                             *)
Ask(what, d) == pc' = what /\ asked' = "sent" /\ target' = d
AskGarbled(what, d) == pc' = what /\ asked' = "garbled" /\ target' = d
Goto(where) == pc' = where /\ asked' = "no" /\ target' = 1
At(where) == up /\ pc = where

-----------------------------------------------------------------------------
(* Keys and data centres. *)

(* Seeded fault of read_auth_file: has_auth is not read.                   *)
Loaded_unsigned(d) == IF binlog_enabled THEN d ELSE [d EXCEPT !.signed = {}]

(* replay_log or read_auth_file.                                           *)
Loaded(d) == d

Start ==
  /\ ~up /\ disk.dcs # {} /\ starts < MaxStarts
  /\ up' = TRUE /\ starts' = starts + 1
  /\ mem' = Loaded(disk)
  /\ Goto("authorize_working")
  /\ UNCHANGED <<binlog_enabled, faults, disk, kxvars, world, current, moved>>

(* read_auth_file asserts on an unreadable file, at this start as at every *)
(* other.  The first start may leave such a file, in empty_auth_file.      *)
StartFails ==
  /\ ~up /\ starts < MaxStarts /\ starts' = starts + 1
  /\ \/ disk.dcs = {} /\ UNCHANGED <<faults, disk>>
     \/ starts = 0 /\ ~binlog_enabled /\ Fault /\ disk' = Unreadable
  /\ UNCHANGED <<binlog_enabled, up, mem, kxvars, stvars>>

Authorize(d, after) ==
  /\ dc_authorize(d) /\ Goto(after) /\ UNCHANGED <<world, current, moved>>

do_help_get_config(m) ==
  /\ Ask("get_config", m.working)
  /\ UNCHANGED <<process, faults, kxvars, world, current, moved>>

(* The DC to work with gets its key first, and then auth_state is 100.     *)
AuthorizeWorking ==
  \/ At("authorize_working")
     /\ \/ /\ mem.key[mem.working] = NoKey
           /\ Authorize(mem.working, "authorizing")
        \/ /\ mem.key[mem.working] # NoKey
           /\ do_help_get_config(mem) /\ UNCHANGED <<mem, disk>>
  \/ LET m == [mem EXCEPT !.auth_state = 100]
     IN /\ At("authorizing") /\ exch = NoDC
        /\ \/ Saves(m, disk) /\ do_help_get_config(m)
           \/ Interrupted(m) /\ UNCHANGED world

(* Only DCs that are not there yet are recorded.                           *)
bl_do_dc_option(ds) == Logged([disk EXCEPT !.dcs = @ \cup ds])

(* fetch_dc_option for each DC of the configuration.                       *)
help_get_config_on_answer ==
  /\ At("get_config") /\ asked = "done"
  /\ mem' = [mem EXCEPT !.dcs = DC] /\ disk' = bl_do_dc_option(DC)
  /\ Goto("authorize_others")
  /\ UNCHANGED <<process, faults, kxvars, world, current, moved>>

NeedsLogin == mem.auth_state = 100 \/ mem.working \notin mem.signed

Keyless == {d \in mem.dcs : mem.key[d] = NoKey}
Lowest(d, ds) == \A e \in ds : d <= e

(* The other DCs, in their order; then the login, if it is needed.         *)
AuthorizeOthers ==
  /\ At("authorize_others") /\ exch = NoDC
  /\ \/ \E d \in Keyless : Lowest(d, Keyless) /\ Authorize(d, "authorize_others")
     \/ /\ Keyless = {}
        /\ \/ NeedsLogin /\ Ask("check_phone", mem.working)
           \/ ~NeedsLogin /\ Goto("export")
        /\ UNCHANGED <<process, faults, mem, disk, kxvars, world, current, moved>>

-----------------------------------------------------------------------------
(* What the server does with a query.  It answers only one that it can     *)
(* decrypt.                                                                *)
Works(d) == mem.key[d].start \in agreed[d] /\ mem.key[d].kind = "full"

CarriesOut ==
  /\ up /\ asked = "sent" /\ Works(target)
  /\ asked' = "done"
  /\ authorized' = (CASE pc = "sign_in" -> authorized \cup {target}
                      [] pc = "import_auth" /\ mem.working \in authorized
                           -> authorized \cup {target}
                      [] OTHER -> authorized)
  /\ UNCHANGED <<process, faults, mem, disk, kxvars, pc, target, current,
                 registered, home, moved>>

(* Seeded fault of Refused: the methods of sign_in have no on_error.       *)
Refused_ignored ==
  /\ up /\ asked = "sent" /\ Fault
  /\ IF pc \in {"get_config", "get_difference", "sign_in"}
     THEN asked' = "refused"
          /\ UNCHANGED <<process, mem, disk, kxvars, pc, target, current, moved>>
     ELSE Dies(disk)
  /\ UNCHANGED world

(* query_error.  get_config and get_difference have no on_error: the query *)
(* is dropped and net_loop waits on.  The others assert.                   *)
Refused ==
  /\ up /\ asked = "sent" /\ Fault
  /\ IF pc \in {"get_config", "get_difference"}
     THEN asked' = "refused"
          /\ UNCHANGED <<process, mem, disk, kxvars, pc, target, current, moved>>
     ELSE Dies(disk)
  /\ UNCHANGED world

(* A message with a new salt makes process_rpc_message save all there is,  *)
(* before it is handled.  It comes from the DC that is asked or, once there *)
(* is a configuration, from any that was.                                  *)
process_rpc_message ==
  /\ up /\ ~binlog_enabled
  /\ pc \notin {"authorize_working", "authorizing"}
  /\ pc = "get_config" => Works(target)
  /\ \/ Saves(mem, disk) /\ UNCHANGED <<process, faults, kxvars, stvars>>
     \/ Interrupted(mem) /\ UNCHANGED world

Answered(q) == At(q) /\ asked = "done"

Migrates == home # AnyDC /\ home # target

bl_do_set_working_dc(d) == Logged([disk EXCEPT !.working = d])

Moved(d) == [mem EXCEPT !.working = d]

(* Only check_phone_on_error writes the auth file, too.                    *)
MovesTo(d) ==
  /\ mem' = Moved(d) /\ moved' = FALSE
  /\ disk' = IF At("send_code") THEN bl_do_set_working_dc(d)
             ELSE write_auth_file(Moved(d), bl_do_set_working_dc(d))

-----------------------------------------------------------------------------
(* The login. *)

CheckPhone(q) ==
  LET to == IF Migrates THEN home ELSE mem.working
      res == Migrates \/ registered
  IN /\ Answered(q)
     /\ \/ q = "check_phone" /\ Ask("check_phone again", to)
        \/ q = "check_phone" /\ AskGarbled("check_phone again", to)
        \/ /\ q = "check_phone again"
           /\ Ask(IF res /\ ~register_mode THEN "send_code" ELSE "nearest_dc", to)
     /\ \/ Migrates /\ MovesTo(home)
        \/ ~Migrates /\ UNCHANGED <<mem, disk, moved>>
     /\ UNCHANGED <<process, faults, kxvars, current>>

(* do_auth_check_phone asks twice.  A migration counts as "registered" and *)
(* only the second question tells.  That one is not built again: it is what*)
(* packet_buffer holds, where alarm_query or send_all_acks may have put    *)
(* something else in the meantime.                                         *)
check_phone ==
  /\ \E q \in {"check_phone", "check_phone again"} :
       \/ CheckPhone(q)
       \/ Answered(q) /\ Migrates /\ Interrupted(Moved(home))
  /\ UNCHANGED world

(* To register, the program moves to the nearest DC, in memory only.  The  *)
(* user may also decline.                                                  *)
nearest_dc ==
  /\ Answered("nearest_dc")
  /\ \/ \E d \in DC : /\ mem' = [mem EXCEPT !.working = d] /\ moved' = TRUE
                      /\ Ask("send_code", d)
                      /\ UNCHANGED <<process, faults, disk, kxvars, current>>
     \/ Fault /\ Dies(disk)
  /\ UNCHANGED world

(* do_send_code follows one migration.  It asserts that there is no second,*)
(* and the server here sends a number to one home only.                    *)
do_send_code ==
  /\ \/ /\ Answered("send_code") /\ Migrates
        /\ MovesTo(home) /\ Ask("send_code again", home)
        /\ UNCHANGED <<process, faults, kxvars, current>>
     \/ /\ \E q \in {"send_code", "send_code again"} : Answered(q)
        /\ ~Migrates /\ Goto("type_code")
        /\ UNCHANGED <<process, faults, mem, disk, kxvars, current, moved>>
  /\ UNCHANGED world

(* A wrong code is refused, and sign_in_on_error asserts.  "call" asks for *)
(* a telephone call and goes on.                                           *)
TypesCode ==
  /\ At("type_code")
  /\ \/ /\ Ask("sign_in", mem.working)
        /\ UNCHANGED <<process, faults, mem, disk, kxvars, current, moved>>
     \/ Fault /\ Dies(disk)
  /\ UNCHANGED world

bl_do_set_our_id == Logged([disk EXCEPT !.our_id = TRUE])
bl_do_dc_signed(disk_, d) ==
  IF binlog_enabled THEN [disk_ EXCEPT !.signed = @ \cup {d}] ELSE disk_

(* The records of an answer: our_id, and then the signature.               *)
sign_in_on_answer ==
  LET m == [mem EXCEPT !.our_id = TRUE]
      d1 == write_auth_file(m, bl_do_set_our_id)
      d2 == bl_do_dc_signed(d1, mem.working)
      m2 == [m EXCEPT !.signed = @ \cup {mem.working}, !.auth_state = 300]
  IN /\ Answered("sign_in")
     /\ \/ /\ mem' = m2 /\ disk' = d2 /\ Goto("export")
           /\ UNCHANGED <<process, faults, kxvars, current, moved>>
        \/ \E d \in {d1, d2} : Fault /\ Dies(d)
        \/ Interrupted(m)
     /\ UNCHANGED world

-----------------------------------------------------------------------------
(* The other data centres, and the difference. *)

(* Seeded fault of Unsigned: the last DC is left out.                      *)
Unsigned_but_last == (mem.dcs \ {NumDC}) \ mem.signed
Unsigned == mem.dcs \ mem.signed

(* do_export_auth of the DC to work with, do_import_auth of the other.     *)
Export ==
  /\ At("export") /\ Ask("export_auth", mem.working)
  /\ \E d \in Unsigned : Lowest(d, Unsigned) /\ current' = d
  /\ UNCHANGED <<process, faults, mem, disk, kxvars, world, moved>>

Signed(d) == [mem EXCEPT !.signed = @ \cup {d}]
Signs(d) == Saves(Signed(d), bl_do_dc_signed(disk, d))

(* Seeded fault of Import: the DC is signed when the export has come.      *)
Import_early ==
  /\ \/ Answered("export_auth") /\ Ask("import_auth", current) /\ Signs(current)
     \/ Answered("import_auth") /\ Goto("export") /\ UNCHANGED <<mem, disk>>
  /\ UNCHANGED <<process, faults, kxvars, world, current, moved>>

Import ==
  \/ /\ \/ Answered("export_auth") /\ Ask("import_auth", current)
           /\ UNCHANGED <<mem, disk>>
        \/ Answered("import_auth") /\ Goto("export") /\ Signs(current)
     /\ UNCHANGED <<process, faults, kxvars, world, current, moved>>
  \/ Answered("import_auth") /\ Interrupted(Signed(current)) /\ UNCHANGED world

(* The state and secret chat files are read, and the difference is asked.  *)
do_get_difference ==
  /\ At("export") /\ Unsigned = {}
  /\ \/ Saves(mem, disk) /\ Ask("get_difference", mem.working)
        /\ UNCHANGED <<process, faults, kxvars, current, moved>>
     \/ Interrupted(mem)
  /\ UNCHANGED world

(* dgot; then send_all_unsent and the dialog list, which are not waited    *)
(* for.                                                                    *)
DifferenceGot ==
  /\ Answered("get_difference") /\ Goto("ready")
  /\ UNCHANGED <<process, faults, mem, disk, kxvars, world, current, moved>>

(* The process ends: anywhere, or after some of the DCs of the             *)
(* configuration were recorded.                                            *)
Crash ==
  /\ up /\ Fault
  /\ \/ Dies(disk)
     \/ /\ Answered("get_config")
        /\ \E d \in DC : Dies(bl_do_dc_option(1 .. d))
  /\ UNCHANGED world

Exchanging(A) ==
  /\ A
  /\ \/ up' /\ UNCHANGED stvars
     \/ ~up' /\ Forgets /\ UNCHANGED world

Step ==
  \/ Start \/ StartFails \/ AuthorizeWorking \/ help_get_config_on_answer
  \/ AuthorizeOthers \/ CarriesOut \/ check_phone \/ nearest_dc
  \/ do_send_code \/ TypesCode \/ sign_in_on_answer \/ Export
  \/ Import \/ do_get_difference \/ DifferenceGot \/ Exchanging(ExchangeStep)

Next ==
  \/ Step \/ Exchanging(ping_alarm) \/ Exchanging(fail_connection)
  \/ process_rpc_message \/ Refused \/ Crash

(* The loop goes on, the server answers, the user types, and someone starts*)
(* the program again; the ping timer runs.                                 *)
Fairness == WF_vars(Step) /\ WF_vars(Exchanging(ping_alarm))
Spec == Init /\ [][Next]_vars /\ Fairness

-----------------------------------------------------------------------------

(* Invariant.  send_query asserts a key: nothing is asked of a DC without. *)
QueriesHaveKeys == asked # "no" => mem.key[target] # NoKey

(* Invariant.  has_auth on disk means that the server, too, knows the user *)
(* at this DC, wherever the process ended.                                 *)
SignedByServer == disk.signed \cup mem.signed \subseteq authorized

(* Invariant.  Only a registered number is asked for its code as such: the *)
(* 1 that a migration leaves in check_phone_result is never the last word. *)
LoginDecision ==
  pc = "send_code" /\ ~moved => registered

(* AgreesWithServer: whatever ends the process between two steps, it asks  *)
(* only where it has a key, believes only what the server knows, and takes *)
(* a number for registered only if it is.                                  *)
AgreesWithServer == TypeOK /\ QueriesHaveKeys /\ SignedByServer /\ LoginDecision

(* Invariant.  When the client is ready, the next start would work with    *)
(* the same DC, unless it moved to the nearest one to register.            *)
HomeKept == pc = "ready" /\ disk.working # mem.working => binlog_enabled /\ moved

(* Invariant.  A client that is ready has a whole key and an authorization *)
(* for every DC, and they are on disk.                                     *)
ReadyIsComplete ==
  pc = "ready" => /\ disk.dcs = DC /\ disk.signed = DC
                  /\ \A d \in DC : /\ disk.key[d] = mem.key[d]
                                   /\ disk.key[d].kind = "full"

(* ReadyIsKept: what makes the client ready is found by the next start.    *)
ReadyIsKept == ReadyIsComplete /\ HomeKept

(* Action property.  No start and no end of the process loses a key or an  *)
(* authorization, but for one: the process that stops while it writes the  *)
(* first auth file that has the DCs of the configuration leaves a file that*)
(* cannot be read, and all keys and authorizations are lost.               *)
NothingForgotten ==
  [][\/ /\ \A d \in DC : disk.key[d] # NoKey => disk'.key[d] = disk.key[d]
        /\ disk.signed \subseteq disk'.signed
     \/ /\ ~binlog_enabled /\ up /\ ~up'
        /\ disk' = Unreadable /\ ~(mem.dcs \subseteq disk.dcs)]_vars

(* What no later step of the program can repair.                           *)
Stuck == \/ asked = "refused" /\ pc \in {"get_config", "get_difference"}
         \/ asked = "garbled"
         \/ up /\ asked = "sent" /\ mem.key[target].kind # "full"

(* Temporal property.  Every start comes to its end: the client is ready,  *)
(* the process ends, or it waits for an answer that was refused without    *)
(* on_error, or cannot come: to a second check_phone that is none, or      *)
(* because of a short or torn key.                                         *)
Arrives == <>[](pc = "ready" \/ Stuck \/ (~up /\ starts = MaxStarts))
=============================================================================
