---------------------------- MODULE KeyExchange ----------------------------
(***************************************************************************)
(* The key exchange with a data centre: dc_authorize and the packets of    *)
(* mtproto-client.c (send_req_pq_packet, process_respq_answer,             *)
(* process_dh_answer, process_auth_complete), with what net.c does to the  *)
(* connection meanwhile, and where the key is kept: in the log (binlog.c)  *)
(* or in the auth file (loop.c).                                           *)
(*                                                                         *)
(* None of the packets is ever sent twice.  c_state is one global variable *)
(* and only create_connection calls the method ready, so a connection that *)
(* was lost and is open again stays silent; the ping that would tell needs *)
(* the key that is being made, and init_enc_msg asserts it.                *)
(*                                                                         *)
(* Numbers are not modelled: a key is the start it was made in, and whether*)
(* it fills its 256 bytes.  BN_bn2bin writes a short one to the front of   *)
(* auth_key, where the server has zeros.                                   *)
(***************************************************************************)
EXTENDS Naturals

CONSTANTS
  NumDC,       \* data centres of the network; only the first is built in
  KeyKinds,    \* "full", or "short": g_a ^ dh_power has a leading zero byte
  MaxStarts,   \* bound: times the program is started
  MaxFaults    \* bound: faults of network, server, user and process together

ASSUME KeyExchangeAssumption ==
  /\ {NumDC, MaxStarts} \subseteq Nat \ {0} /\ MaxFaults \in Nat
  /\ KeyKinds # {} /\ KeyKinds \subseteq {"full", "short"}

DC == 1 .. NumDC
NoDC == 0

(* A torn key has its id on disk, and zeros for its 256 bytes.             *)
NoKey == [start |-> 0, kind |-> "none"]
Key == [start : 1 .. MaxStarts, kind : KeyKinds \cup {"torn"}] \cup {NoKey}

VARIABLES
  binlog_enabled,
  up,          \* the process runs
  starts,      \* how often it was started
  faults,
  mem,         \* what the process knows
  disk,        \* the same, as the next start will find it
  exch,        \* the DC in dc_authorize, or NoDC
  c_state,
  power,       \* the key process_dh_answer has left in auth_key
  wire,        \* the connection of the exchange
  net,         \* the packet on its way, "nothing" if there is none
  agreed       \* the server's side: the starts in which a key was made

kxvars == <<exch, c_state, power, wire, net, agreed>>
process == <<binlog_enabled, up, starts>>

Knowledge ==
  [dcs : SUBSET DC,         \* DC_list
   key : [DC -> Key],       \* auth_key, with flags & 1
   signed : SUBSET DC,      \* has_auth
   working : DC,            \* dc_working_num
   auth_state : {0, 100, 300},
   our_id : BOOLEAN]

(* create_new_binlog and empty_auth_file.                                  *)
Fresh == [dcs |-> {1}, key |-> [d \in DC |-> NoKey], signed |-> {},
          working |-> 1, auth_state |-> 0, our_id |-> FALSE]

(* An auth file whose list of DCs ends in the middle: read_dc asserts.     *)
Unreadable == [Fresh EXCEPT !.dcs = {}]

KxTypeOK ==
  /\ binlog_enabled \in BOOLEAN /\ up \in BOOLEAN
  /\ starts \in 0 .. MaxStarts /\ faults \in 0 .. MaxFaults
  /\ mem \in Knowledge /\ disk \in Knowledge
  /\ exch \in DC \cup {NoDC} /\ power \in Key
  /\ c_state \in {"st_init", "st_reqpq_sent", "st_reqdh_sent",
                  "st_client_dh_sent", "st_authorized"}
  /\ wire \in {"up", "lost", "reopened"}
  /\ net \in {"nothing", "req_pq", "resPQ", "req_DH_params",
              "server_DH_params_ok", "set_client_DH_params", "dh_gen_ok"}
  /\ agreed \in [DC -> SUBSET (1 .. MaxStarts)]

KxInit ==
  /\ binlog_enabled \in BOOLEAN /\ up = FALSE /\ starts = 0 /\ faults = 0
  /\ mem = Fresh /\ disk = Fresh
  /\ exch = NoDC /\ c_state = "st_init" /\ power = NoKey
  /\ wire = "up" /\ net = "nothing" /\ agreed = [d \in DC |-> {}]

Fault == faults < MaxFaults /\ faults' = faults + 1

(* add_log_event applies a record, then writes it; without a log only      *)
(* write_auth_file saves anything.  d is what the record leaves on disk.   *)
Logged(d) == IF binlog_enabled THEN d ELSE disk
write_auth_file(m, d) == IF binlog_enabled THEN d ELSE m

(* write_auth_file overwrites the file field by field: working, auth_state, *)
(* then id, bytes and has_auth of the key of each DC, and our_id.  What is *)
(* there when it stops after n of them, if they stand where they stood.    *)
Mixed(m, n) ==
  [disk EXCEPT
     !.working = IF n >= 1 THEN m.working ELSE @,
     !.auth_state = IF n >= 2 THEN m.auth_state ELSE @,
     !.key = [d \in DC |->
                IF n > 3 * d THEN m.key[d]
                ELSE IF n = 3 * d /\ m.key[d] # disk.key[d]
                     THEN [m.key[d] EXCEPT !.kind = "torn"] ELSE disk.key[d]],
     !.signed = {d \in DC : d \in IF n >= 3 * d + 2 THEN m.signed ELSE disk.signed}]

(* With a DC that was not in the file, all that follows is moved: the file *)
(* ends where read_auth_file reads on, unless only our_id is missing.      *)
Torn(m) ==
  IF m.dcs = disk.dcs THEN {Mixed(m, n) : n \in 0 .. 3 * NumDC + 2}
  ELSE {Mixed(m, n) : n \in {n \in 0 .. 3 * NumDC :
                                \A d \in m.dcs \ disk.dcs : n < 3 * d}}
       \cup {Unreadable, [m EXCEPT !.our_id = FALSE]}

bl_do_set_auth_key_id(d, k) == Logged([disk EXCEPT !.key[d] = k])

(* The process ends, by assert, exit or otherwise, and leaves d on disk.   *)
KxDies(d) ==
  /\ up' = FALSE /\ disk' = d /\ mem' = Fresh
  /\ exch' = NoDC /\ c_state' = "st_init" /\ power' = NoKey
  /\ wire' = "up" /\ net' = "nothing"
  /\ UNCHANGED <<binlog_enabled, starts, agreed>>

(* write_auth_file(m) stops: the process ends there, or a write fails.     *)
WriteStops(m) == ~binlog_enabled /\ Fault /\ \E d \in Torn(m) : KxDies(d)

-----------------------------------------------------------------------------

send_req_pq_packet == c_state' = "st_reqpq_sent" /\ net' = "req_pq"

(* create_connection has the connection open before it calls ready.        *)
tc_becomes_ready == wire' = "up" /\ send_req_pq_packet

(* dc_authorize sets c_state and auth_success back and creates the session.*)
dc_authorize(d) ==
  /\ exch = NoDC /\ exch' = d /\ tc_becomes_ready
  /\ UNCHANGED <<process, faults, mem, disk, power, agreed>>

(* The server, which has its key when it has the client's half.            *)
ServerReply ==
  LET Reply(p, q) == net = p /\ net' = q
  IN /\ \/ /\ \/ Reply("req_pq", "resPQ")
              \/ Reply("req_DH_params", "server_DH_params_ok")
           /\ UNCHANGED agreed
        \/ /\ Reply("set_client_DH_params", "dh_gen_ok")
           /\ agreed' = [agreed EXCEPT ![exch] = @ \cup {starts}]
     /\ UNCHANGED <<process, faults, mem, disk, exch, c_state, power, wire>>

process_respq_answer ==
  /\ net = "resPQ" /\ c_state = "st_reqpq_sent"
  /\ net' = "req_DH_params" /\ c_state' = "st_reqdh_sent"
  /\ UNCHANGED <<process, faults, mem, disk, exch, power, wire, agreed>>

(* Seeded fault of process_dh_answer: the key is stored when it has been   *)
(* computed.                                                               *)
process_dh_answer_early ==
  /\ net = "server_DH_params_ok" /\ c_state = "st_reqdh_sent"
  /\ \E k \in KeyKinds :
       LET key == [start |-> starts, kind |-> k]
       IN /\ power' = key /\ mem' = [mem EXCEPT !.key[exch] = key]
          /\ disk' = [disk EXCEPT !.key[exch] = key]
  /\ net' = "set_client_DH_params" /\ c_state' = "st_client_dh_sent"
  /\ UNCHANGED <<process, faults, exch, wire, agreed>>

process_dh_answer ==
  /\ net = "server_DH_params_ok" /\ c_state = "st_reqdh_sent"
  /\ \E k \in KeyKinds : power' = [start |-> starts, kind |-> k]
  /\ net' = "set_client_DH_params" /\ c_state' = "st_client_dh_sent"
  /\ UNCHANGED <<process, faults, mem, disk, exch, wire, agreed>>

(* process_auth_complete stores the key by bl_do_set_auth_key_id, and only *)
(* then compares the hash of new_nonce and key with the server's.          *)
process_auth_complete ==
  LET keep == [mem EXCEPT !.key[exch] = power]
      log == bl_do_set_auth_key_id(exch, power)
  IN /\ net = "dh_gen_ok" /\ c_state = "st_client_dh_sent"
     /\ \/ power.kind = "short" /\ KxDies(log) /\ UNCHANGED faults
        \/ /\ power.kind = "full"
           /\ mem' = keep /\ disk' = write_auth_file(keep, log)
           /\ c_state' = "st_authorized" /\ exch' = NoDC /\ power' = NoKey
           /\ net' = "nothing"
           /\ UNCHANGED <<process, faults, wire, agreed>>
        \/ power.kind = "full" /\ WriteStops(keep)

(* fail_connection: what is under way is lost.                             *)
fail_connection ==
  /\ exch # NoDC /\ wire # "lost" /\ Fault
  /\ wire' = "lost" /\ net' = "nothing"
  /\ UNCHANGED <<process, mem, disk, exch, c_state, power, agreed>>

(* restart_connection: the byte 0xef, and nothing of the exchange.         *)
restart_connection ==
  /\ wire = "lost" /\ wire' = "reopened"
  /\ UNCHANGED <<process, faults, mem, disk, exch, c_state, power, net, agreed>>

(* ping_alarm after 50 seconds without a byte: nothing is under way, or    *)
(* the server is slow.                                                     *)
ping_alarm ==
  /\ exch # NoDC /\ wire # "lost"
  /\ \/ net = "nothing" /\ UNCHANGED faults
     \/ net # "nothing" /\ Fault
  /\ KxDies(disk)

ExchangeStep == \/ ServerReply \/ process_respq_answer \/ process_dh_answer
                \/ process_auth_complete \/ restart_connection

(* Invariant.  A key on disk, where every later start takes it from, is one*)
(* that the server has made too.  It may be of no use in two ways: its     *)
(* number was short, which is found out after it was logged, or the write  *)
(* of the auth file has stopped in the middle of it.                       *)
WrongKeysExplained ==
  \A d \in DC : disk.key[d] # NoKey =>
    /\ disk.key[d].start \in agreed[d]
    /\ disk.key[d].kind = "short" => binlog_enabled
    /\ disk.key[d].kind = "torn" => ~binlog_enabled
=============================================================================
