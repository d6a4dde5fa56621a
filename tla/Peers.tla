------------------------------- MODULE Peers --------------------------------
(***************************************************************************)
(* Users and chats: what the server says of them, the names they are found *)
(* by, the lists of a chat's members, and the log that a restart reads.    *)
(*                                                                         *)
(* fetch_user, fetch_chat and the updates (structures.c, mtproto-client.c) *)
(* turn a description into calls of bl_do_* (binlog.c), each of which       *)
(* writes a record unless memory says the same already.  add_log_event     *)
(* applies a record to memory with replay_log_event and then writes it.    *)
(*                                                                         *)
(* disk is what a replay of the file as it is gives.  The process may end  *)
(* before any record, or in the middle of its write.  What it was handling *)
(* comes again: it was not acknowledged, or is in the difference.          *)
(*                                                                         *)
(* Left out: photos, phones, dates, access hashes, admins, the statuses    *)
(* and the flags SELF and CHAT_IN_CHAT, which are set as the names are and *)
(* read by nothing here; and a client without the log, which keeps none    *)
(* of this.  The server is external.                                       *)
(***************************************************************************)
EXTENDS Integers, Sequences, SequencesExt, FiniteSetsExt

CONSTANTS
  Users, Chats,
  Me,           \* the user of this client
  Names,        \* names and titles, as create_print_name joins them: a
                \* sequence, as a name may itself end as a suffix does
  First,        \* the name that all have at first
  Nobody,       \* no user
  MaxChanges,   \* bound: changes at the server
  MaxPackets,   \* bound: packets the server sends
  MaxWaiting,   \* bound: packets on their way at once
  MaxFaults,    \* bound: packets lost or overtaken, and writes torn
  MaxStarts     \* bound: times the client is started

ASSUME PeersAssumption ==
  /\ Users \cap Chats = {} /\ Me \in Users /\ Nobody \notin Users
  /\ IsFiniteSet(Users \cup Chats) /\ First \in Names
  /\ \A n \in Names : Len(n) \in Nat /\ n = [i \in 1 .. Len(n) |-> n[i]]
  /\ {MaxChanges, MaxPackets, MaxWaiting, MaxFaults, MaxStarts} \subseteq Nat

Ids == Users \cup Chats

VARIABLES
  up, starts, faults,
  torn,           \* the file ends in a part of a record
  cause,          \* why the process last ended
  mem, disk,
  name,           \* the server's names and titles
  shape,          \* how the server describes a user
  members,        \* the members of a chat, by version
  changes, packets,
  net             \* packets on their way to the client

process == <<up, starts, torn, cause, mem, disk>>
server == <<name, shape, members, changes>>
vars == <<process, faults, server, packets, net>>

-----------------------------------------------------------------------------
(* Memory. *)

NoName == <<>>
NoList == [version |-> 0, users |-> {}, skipped |-> FALSE]

(* A struct may be allocated and not yet FLAG_CREATED.  A list's skipped   *)
(* is history: a version was passed over.                                  *)
Empty ==
  [peer |-> [p \in Ids |-> [state |-> "absent", name |-> NoName, print |-> NoName]],
   user |-> [u \in Users |-> [real |-> NoName, contact |-> FALSE, deleted |-> FALSE]],
   chat |-> [c \in Chats |-> [forbidden |-> FALSE, version |-> 0, users_num |-> 0]],
   list |-> [c \in Chats |-> NoList],
   index |-> {},
   our_id |-> Nobody,
   fault |-> "none"]

Created(m, p) == m.peer[p].state = "created"

(* peer_lookup_name finds another peer. *)
Taken(index, n, p) == \E e \in index : e.name = n /\ e.peer # p
Suffixed(n, cc) == IF cc = 0 THEN n ELSE Append(n, cc)

(* Seeded fault of create_print_name: it takes the name as it is.          *)
create_print_name_as_is(index, n, p) == n
create_print_name(index, n, p) ==
  Suffixed(n, Min({cc \in 0 .. Cardinality(index) : ~Taken(index, Suffixed(n, cc), p)}))

(* peer_delete_name, if the peer had a name; create_print_name and         *)
(* peer_insert_name.                                                       *)
Renamed(m, p, n) ==
  LET others == {e \in m.index : e.peer # p}
      print == create_print_name(others, n, p)
  IN [m EXCEPT !.peer[p].name = n, !.peer[p].print = print,
               !.index = others \cup {[name |-> print, peer |-> p]}]

Fault(m, what) == [m EXCEPT !.fault = what]

Create(m, p, n) ==
  IF Created(m, p) THEN Fault(m, "created twice")
  ELSE Renamed([m EXCEPT !.peer[p].state = "created"], p, n)

(* Seeded fault of add_chat_participant: the version stays as it was.      *)
add_chat_participant_late(m, r) ==
  IF r.user \in m.list[r.of].users \/ r.short
  THEN Fault(m, IF r.short THEN "deletion" ELSE "addition")
  ELSE [m EXCEPT !.list[r.of].users = @ \cup {r.user}]

(* A short record is the one that bl_do_chat_del_user writes: two fields   *)
(* are read that it does not have, and add_log_event finds it overread.    *)
add_chat_participant(m, r) ==
  LET c == r.of
      list == m.list[c]
  IN IF list.version >= r.version \/ r.user \in list.users \/ r.short
     THEN Fault(m, IF r.short THEN "deletion" ELSE "addition")
     ELSE [m EXCEPT !.list[c] =
             [version |-> r.version, users |-> list.users \cup {r.user},
              skipped |-> list.skipped \/ r.version # list.version + 1]]

(* replay_log_event: the record r applied to m. *)
ReplayUser(m, r) ==
  LET u == r.of
      unknown == m.peer[u].state = "absent"
  IN
  IF unknown /\ r.op \notin {"our_id", "new_user", "name"} THEN Fault(m, "unknown") ELSE
  CASE r.op = "our_id" -> [m EXCEPT !.our_id = u]
    [] r.op = "new_user" -> [Create(m, u, r.name) EXCEPT !.user[u].contact = r.contact]
    [] r.op = "name" -> IF unknown THEN m ELSE Renamed(m, u, r.name)
    [] r.op = "user_delete" -> [m EXCEPT !.user[u].deleted = TRUE]
    [] r.op = "friend" -> [m EXCEPT !.user[u].contact = r.contact]
    [] r.op = "full_name" -> [m EXCEPT !.user[u].real = r.name]

ReplayChat(m, r) ==
  LET c == r.of IN
  IF ~Created(m, c) /\ r.op # "chat_create" THEN Fault(m, "unknown") ELSE
  CASE r.op = "chat_create" ->
         [Create(m, c, r.name) EXCEPT !.chat[c] =
            [forbidden |-> r.forbidden, version |-> r.version, users_num |-> r.users_num]]
    [] r.op = "name" -> Renamed(m, c, r.name)
    [] r.op = "flags" -> [m EXCEPT !.chat[c].forbidden = r.forbidden]
    [] r.op = "version" -> [m EXCEPT !.chat[c].version = r.version,
                                     !.chat[c].users_num = r.users_num]
    [] r.op = "participants" ->
         [m EXCEPT !.list[c] = [version |-> r.version, users |-> r.users, skipped |-> FALSE]]
    [] r.op = "add" -> add_chat_participant(m, r)

Replay(m, r) == IF r.of \in Users THEN ReplayUser(m, r) ELSE ReplayChat(m, r)

-----------------------------------------------------------------------------
(* The bl_do functions, on a run x of a handler: x.mem and x.disk, the     *)
(* records x.left until the process ends, and why it ended, x.stop.        *)

Running(x) == x.stop = "none"

(* Seeded fault of add_log_event: full names are applied and not written.  *)
add_log_event_unwritten(x, r) ==
  IF ~Running(x) THEN x
  ELSE IF x.left = 0 THEN [x EXCEPT !.stop = "crash"]
  ELSE LET m == Replay(x.mem, r)
       IN IF m.fault # "none" THEN [x EXCEPT !.stop = m.fault]
          ELSE [x EXCEPT !.mem = m, !.left = @ - 1,
                  !.disk = IF r.op = "full_name" THEN @ ELSE Replay(@, r)]
add_log_event(x, r) ==
  IF ~Running(x) THEN x
  ELSE IF x.left = 0 THEN [x EXCEPT !.stop = "crash"]
  ELSE LET m == Replay(x.mem, r)
       IN IF m.fault # "none" THEN [x EXCEPT !.stop = m.fault]
          ELSE [x EXCEPT !.mem = m, !.disk = Replay(@, r), !.left = @ - 1]

LogUnless(x, same, r) == IF same THEN x ELSE add_log_event(x, r)

bl_do_set_our_id(x, u) == add_log_event(x, [op |-> "our_id", of |-> u])
bl_do_new_user(x, u, n, contact) ==
  add_log_event(x, [op |-> "new_user", of |-> u, name |-> n, contact |-> contact])
bl_do_user_delete(x, u) ==
  LogUnless(x, x.mem.user[u].deleted, [op |-> "user_delete", of |-> u])
bl_do_set_name(x, p, n) ==     \* bl_do_set_user_name, bl_do_set_chat_title
  LogUnless(x, x.mem.peer[p].name = n, [op |-> "name", of |-> p, name |-> n])
bl_do_set_user_friend(x, u, friend) ==
  LogUnless(x, x.mem.user[u].contact = friend,
            [op |-> "friend", of |-> u, contact |-> friend])
bl_do_set_user_real_name(x, u, n) ==
  LogUnless(x, x.mem.user[u].real = n, [op |-> "full_name", of |-> u, name |-> n])
bl_do_create_chat(x, c, n, forbidden, users_num, version) ==
  add_log_event(x, [op |-> "chat_create", of |-> c, name |-> n, forbidden |-> forbidden,
                    users_num |-> users_num, version |-> version])
bl_do_chat_forbid(x, c, on) ==
  LogUnless(x, x.mem.chat[c].forbidden = on,
            [op |-> "flags", of |-> c, forbidden |-> on])
bl_do_set_chat_version(x, c, version, user_num) ==
  LogUnless(x, x.mem.chat[c].version >= version,
            [op |-> "version", of |-> c, version |-> version, users_num |-> user_num])
bl_do_set_chat_participants(x, c, version, users) ==
  LogUnless(x, x.mem.list[c].version >= version,
            [op |-> "participants", of |-> c, version |-> version, users |-> users])
AddRecord(x, c, version, u, short) ==
  LogUnless(x, x.mem.list[c].version >= version \/ x.mem.list[c].version = 0,
            [op |-> "add", of |-> c, version |-> version, user |-> u, short |-> short])
(* Seeded fault of bl_do_chat_add_user: no comparison of versions.         *)
bl_do_chat_add_user_again(x, c, version, u) ==
  LogUnless(x, x.mem.list[c].version > version \/ x.mem.list[c].version = 0,
            [op |-> "add", of |-> c, version |-> version, user |-> u, short |-> FALSE])
bl_do_chat_add_user(x, c, version, u) == AddRecord(x, c, version, u, FALSE)

(* It writes the type of bl_do_chat_add_user, with two fields less.        *)
bl_do_chat_del_user(x, c, version, u) == AddRecord(x, c, version, u, TRUE)

-----------------------------------------------------------------------------
(* What a packet says, one part after the other. *)

(* A struct is made for a peer that is not known. *)
Known(x, p) ==
  IF Running(x) /\ x.mem.peer[p].state = "absent"
  THEN [x EXCEPT !.mem.peer[p].state = "allocated"] ELSE x

fetch_user(x, d) ==
  LET u == d.of
      y == IF d.shape = "self" /\ x.mem.our_id = Nobody THEN bl_do_set_our_id(x, u) ELSE x
      contact == d.shape = "contact"
      named == bl_do_set_name(y, u, d.name)
      new == bl_do_new_user(y, u, d.name, contact)
  IN CASE d.shape = "empty" -> x
       [] d.shape = "deleted" -> bl_do_user_delete(IF Created(x.mem, u) THEN named ELSE new, u)
       [] OTHER -> IF Created(x.mem, u) THEN bl_do_set_user_friend(named, u, contact) ELSE new

(* The number of users and the version are passed the wrong way round for  *)
(* a chat that is known; chatEmpty has an id and nothing else.             *)
fetch_chat(x, d) ==
  LET c == d.of
      forbidden == d.shape = "forbidden"
      titled == bl_do_set_name(bl_do_chat_forbid(x, c, forbidden), c, d.name)
  IN IF d.shape = "empty" THEN x
     ELSE IF Created(x.mem, c)
     THEN IF forbidden THEN titled
          ELSE bl_do_set_chat_version(titled, c, d.users_num, d.version)
     ELSE IF forbidden THEN bl_do_create_chat(x, c, d.name, TRUE, -1, -1)
          ELSE bl_do_create_chat(x, c, d.name, FALSE, d.users_num, d.version)

(* What a full description has besides the descriptions it contains. *)
fetch_user_full(x, d) == bl_do_set_user_real_name(x, d.of, d.name)
fetch_chat_full(x, d) == bl_do_set_chat_participants(x, d.of, d.version, d.users)

(* Updates are for peers that are created.  A new name of a user goes where *)
(* the full description's goes, not where a description's does.            *)
work_update(x, d) ==
  IF ~Created(x.mem, d.of) THEN x ELSE
  CASE d.kind = "update_user_name" -> bl_do_set_user_real_name(x, d.of, d.name)
    [] d.kind = "update_chat_participants" ->
         bl_do_set_chat_participants(x, d.of, d.version, d.users)
    [] d.kind = "update_chat_participant_add" -> bl_do_chat_add_user(x, d.of, d.version, d.user)
    [] d.kind = "update_chat_participant_delete" ->
         bl_do_chat_del_user(x, d.of, d.version, d.user)

Fetch(x, d) ==
  CASE d.kind = "user" -> fetch_user(Known(x, d.of), d)
    [] d.kind = "chat" -> fetch_chat(Known(x, d.of), d)
    [] d.kind = "user_full" -> fetch_user_full(x, d)
    [] d.kind = "chat_full" -> fetch_chat_full(x, d)
    [] OTHER -> work_update(x, d)

(* The process ends, perhaps with a part of a record written. *)
Ends(why, d, tears) ==
  /\ up' = FALSE /\ cause' = why /\ mem' = Empty /\ disk' = d /\ torn' = tears

MaxRecords == 4 * (1 + Cardinality(Users))   \* bound: more than a packet makes
HandledBy(parts, left) ==
  LET after[k \in 0 .. Len(parts)] ==
        IF k = 0 THEN [mem |-> mem, disk |-> disk, left |-> left, stop |-> "none"]
        ELSE Fetch(after[k - 1], parts[k])
  IN after[Len(parts)]

(* A packet is handled, or fails an assertion on the way, or the process   *)
(* crashes before one of its records.  Only the first packet is in order.  *)
Handle(i) ==
  LET x == HandledBy(net[i], MaxRecords)
      late == IF i > 1 THEN 1 ELSE 0
  IN /\ up /\ i \in DOMAIN net /\ faults + late <= MaxFaults
     /\ \/ /\ Running(x)
           /\ mem' = x.mem /\ disk' = x.disk /\ net' = RemoveAt(net, i)
           /\ faults' = faults + late
           /\ UNCHANGED <<up, torn, cause>>
        \/ /\ ~Running(x) /\ Ends(x.stop, x.disk, torn)
           /\ faults' = faults + late /\ UNCHANGED net
        \/ \E left \in 0 .. MaxRecords - x.left - 1, tears \in BOOLEAN :
             /\ faults' = faults + late + (IF tears THEN 1 ELSE 0)
             /\ faults' <= MaxFaults
             /\ Ends("crash", HandledBy(net[i], left).disk, tears) /\ UNCHANGED net
     /\ UNCHANGED <<starts, server, packets>>

(* replay_log.  It ends the process at a partial record.                   *)
Start ==
  /\ ~up /\ starts < MaxStarts /\ starts' = starts + 1
  /\ IF torn \/ disk.fault # "none"
     THEN cause' = "replay" /\ UNCHANGED <<up, mem>>
     ELSE up' = TRUE /\ mem' = disk /\ cause' = "none"
  /\ UNCHANGED <<torn, disk, faults, server, packets, net>>

-----------------------------------------------------------------------------
(* The server, and what is asked of it. *)

Describe(u) == [kind |-> "user", of |-> u, name |-> name[u], shape |-> shape[u]]
Others == Users \ {Me}
Latest(c) == members[c][Len(members[c])]
Title(c, how) ==
  [kind |-> "chat", of |-> c, name |-> name[c], shape |-> how,
   users_num |-> Cardinality(Latest(c)), version |-> Len(members[c])]
Described(us) == SetToSeqs({Describe(u) : u \in us})     \* in any order

Send(parts) ==
  /\ packets < MaxPackets /\ Len(net) < MaxWaiting
  /\ packets' = packets + 1 /\ net' = Append(net, parts)
Change == changes < MaxChanges /\ changes' = changes + 1

Rename(u, n) ==
  /\ Change /\ n # name[u] /\ name' = [name EXCEPT ![u] = n]
  /\ Send(<<[kind |-> "update_user_name", of |-> u, name |-> n]>>)
  /\ UNCHANGED <<shape, members, process, faults>>

(* Edited from here or elsewhere; the title comes with the description.    *)
do_rename_chat(c, n) ==
  /\ Change /\ n # name[c] /\ name' = [name EXCEPT ![c] = n]
  /\ Send(<<[Title(c, "chat") EXCEPT !.name = n]>>)
  /\ UNCHANGED <<shape, members, process, faults>>

Reshape(u) ==
  /\ Change /\ shape[u] # "deleted" /\ shape' = [shape EXCEPT ![u] = "deleted"]
  /\ UNCHANGED <<name, members, process, faults, packets, net>>

(* do_add_user_to_chat, do_del_user_from_chat, or another client's.        *)
do_change_chat_user(c, u) ==
  LET joins == u \notin Latest(c)
      next == IF joins THEN Latest(c) \cup {u} ELSE Latest(c) \ {u}
      kind == IF joins THEN "update_chat_participant_add" ELSE "update_chat_participant_delete"
      step == [kind |-> kind, of |-> c, version |-> Len(members[c]) + 1, user |-> u]
      list == [kind |-> "update_chat_participants", of |-> c,
               version |-> Len(members[c]) + 1, users |-> next]
  IN /\ Change /\ members' = [members EXCEPT ![c] = Append(@, next)]
     /\ \E update \in {step, list} : Send(<<update, Describe(u)>>)
     /\ UNCHANGED <<name, shape, process, faults>>

(* A message mentions a user or a chat; do_rename_chat and Info bring the   *)
(* other descriptions of a chat.                                           *)
Mention ==
  /\ \/ \E u \in Others, how \in {"empty", "foreign"} : Send(<<[Describe(u) EXCEPT !.shape = how]>>)
     \/ \E c \in Chats, how \in {"empty", "forbidden"} : Send(<<Title(c, how)>>)
  /\ UNCHANGED <<process, faults, server>>

(* What is asked for, and how it is answered. *)
do_get_chat_info(c) ==
  \E users \in Described(Latest(c) \ {Me}) :
    Send(<<Title(c, "chat"), Describe(Me)>> \o users \o
         <<[kind |-> "chat_full", of |-> c, version |-> Len(members[c]), users |-> Latest(c)]>>)
do_get_user_info(u) ==
  Send(<<Describe(u), [kind |-> "user_full", of |-> u, name |-> name[u]]>>)
do_update_contact_list ==
  \E users \in Described({u \in Users : shape[u] = "contact"}) : Send(users)

Info ==
  /\ up
  /\ \/ \E c \in Chats : do_get_chat_info(c)
     \/ \E u \in Others : do_get_user_info(u)
     \/ do_update_contact_list
  /\ UNCHANGED <<process, faults, server>>

Lose(i) ==
  /\ i \in DOMAIN net /\ faults < MaxFaults /\ faults' = faults + 1
  /\ net' = RemoveAt(net, i)
  /\ UNCHANGED <<process, server, packets>>

-----------------------------------------------------------------------------
Init ==
  /\ up = TRUE /\ starts = 1 /\ faults = 0 /\ torn = FALSE /\ cause = "none"
  /\ mem = Empty /\ disk = Empty
  /\ name = [p \in Ids |-> First]
  /\ shape \in {s \in [Users -> {"self", "contact"}] : \A u \in Users : s[u] = "self" <=> u = Me}
  /\ members \in [Chats -> {<<S>> : S \in {T \in SUBSET Users : Me \in T /\ T # Users}}]
  /\ changes = 0 /\ packets = 0 /\ net = <<>>

Next ==
  \/ Start \/ Info \/ Mention
  \/ \E i \in DOMAIN net : Handle(i) \/ Lose(i)
  \/ \E u \in Others : Reshape(u) \/ \E n \in Names : Rename(u, n)
  \/ \E c \in Chats : \/ \E n \in Names : do_rename_chat(c, n)
                       \/ \E u \in Others : do_change_chat_user(c, u)

Spec == Init /\ [][Next]_vars

-----------------------------------------------------------------------------
(* Types of what is in memory or read from disk. *)
MemOK(m) ==
  /\ \A p \in Ids : m.peer[p].state \in {"absent", "allocated", "created"}
                   /\ m.peer[p].name \in Names \cup {NoName}
  /\ \A u \in Users : m.user[u].real \in Names \cup {NoName}
  /\ \A c \in Chats : m.list[c].users \subseteq Users /\ m.list[c].version \in Nat
  /\ m.our_id \in Users \cup {Nobody}

(* NamesFindPeers: the index by name, which peer_lookup_name walks, holds   *)
(* each peer that is created, once and by its present name, which is the   *)
(* name the server gave with a suffix at most; no two peers share a name,  *)
(* and no name of the past is left in it, whose string has been freed.     *)
NamesFindPeers ==
  /\ MemOK(mem) /\ MemOK(disk)
  /\ mem.index = {[name |-> mem.peer[p].print, peer |-> p] :
                    p \in {q \in Ids : Created(mem, q)}}
  /\ \A e, f \in mem.index : e.name = f.name => e = f
  /\ \A p \in Ids : Created(mem, p) =>
       mem.peer[p].print = mem.peer[p].name \/ Front(mem.peer[p].print) = mem.peer[p].name

(* RestartKeeps: a restart that reads the log as it is gets every peer that *)
(* the process knows, as it knows it, also by the same name; structs that   *)
(* are only allocated are forgotten.                                       *)
RestartKeeps ==
  LET kept(m) == [m EXCEPT !.peer = [p \in Ids |->
                    IF Created(m, p) THEN m.peer[p] ELSE Empty.peer[p]]]
  IN /\ disk.fault = "none"
     /\ up => kept(mem) = disk

(* AbortsExplained: unless packets were lost or overtaken, or a write was   *)
(* torn, no assertion of add_log_event or replay_log_event ends the        *)
(* process, save for the record that bl_do_chat_del_user writes.           *)
AbortsExplained ==
  /\ cause \in {"none", "crash", "deletion", "addition", "replay"}
  /\ cause \in {"addition", "replay"} => faults > 0

(* ListIsServers: the members of a chat at the version that is noted are   *)
(* the ones that the server had at it, unless a version was passed over,   *)
(* however updates, answers, crashes and what comes again are interleaved. *)
ListIsServers ==
  \A c \in Chats, m \in {mem, disk} :
    m.list[c].version > 0 /\ ~m.list[c].skipped =>
      m.list[c].users = members[c][m.list[c].version]
====
