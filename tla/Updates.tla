------------------------------ MODULE Updates ------------------------------
(***************************************************************************)
(* The updates of the server and the counters pts and seq: work_updates,   *)
(* work_update, work_update_short_message, work_updates_to_long, fetch_pts *)
(* and fetch_seq of mtproto-client.c, fetch_message_short of structures.c, *)
(* do_get_difference and its answers of queries.c, and where the counters  *)
(* are kept: in the log (binlog.c) or, without one, in the state file      *)
(* (loop.c).                                                               *)
(*                                                                         *)
(* The nth update of an account has the counters n and stands for a        *)
(* message.  An update that was pushed may overtake another, or be lost;   *)
(* what is missing is fetched at the next start by getDifference, from pts *)
(* on.  So the pts on disk must not run ahead of what has been taken in.   *)
(*                                                                         *)
(* No handler begins before the one before it has ended, but the process   *)
(* may end between two of the records it writes.  qts and the date, which  *)
(* are stored beside pts, are left out.                                    *)
(***************************************************************************)
EXTENDS Naturals, Sequences, SequencesExt

CONSTANTS
  Slice,        \* the most updates the server puts into one difference
  Before,       \* the updates of the account before the first start
  MaxUpdates,   \* bound: updates of the account
  MaxCrashes,   \* bound: times the process ends
  MaxLosses     \* bound: pushes lost, and pushed requests to get a difference

ASSUME UpdatesAssumption ==
  /\ {Slice, Before} \subseteq Nat \ {0} /\ MaxUpdates \in Nat
  /\ Before <= MaxUpdates /\ MaxCrashes \in Nat /\ MaxLosses \in Nat

Numbers == 1 .. MaxUpdates
Counter == 0 .. MaxUpdates

VARIABLES
  binlog_enabled,
  sync_from_start,  \* option of the terminal client
  server,    \* how many updates the account has had
  pushes,    \* those on their way to the client, with the form they have
  asked,     \* getState and getDifference queries on their way
  answers,   \* their answers on their way
  mem,       \* pts, seq, and the updates taken into memory
  disk,      \* the same, as the next start will find it
  written,   \* wpts and wseq of write_state_file
  todo,      \* what the running handler has yet to do
  base,      \* history: how many updates the first counters left aside
  shown,     \* history: updates that were printed
  jumped,    \* history: updates that fetch_pts jumped over
  lost,      \* history: updates whose push was lost
  cut,       \* history: updates whose handler was cut off too late
  crashes, losses

options == <<binlog_enabled, sync_from_start>>
counts == <<base, shown, jumped, lost, cut>>
vars == <<options, server, pushes, asked, answers, mem, disk, written, todo,
          counts, crashes, losses>>

Forms == {"short_message", "updates"}
Push == [form : Forms, n : Numbers]
Query == [op : {"get_state"}, pts : {0}] \cup [op : {"get_difference"}, pts : Numbers]
Answer == [op : {"get_state", "get_difference"}, from : Counter, to : Counter,
           slice : BOOLEAN]
Counters == [pts : Counter, seq : Counter]
State == [pts : Counter, seq : Counter, in : SUBSET Numbers]
Step == [do : {"fetch_pts", "pts", "seq"}, to : Counter]
        \cup [do : {"update", "print"}, ns : SUBSET Numbers, late : BOOLEAN]
        \cup [do : {"save", "ask"}]

TypeOK ==
  /\ binlog_enabled \in BOOLEAN /\ sync_from_start \in BOOLEAN
  /\ server \in Counter
  /\ pushes \subseteq Push /\ asked \subseteq Query /\ answers \subseteq Answer
  /\ mem \in State /\ disk \in State /\ written \in Counters
  /\ todo \in Seq(Step) /\ base \in Counter
  /\ {shown, jumped, lost, cut} \subseteq SUBSET Numbers
  /\ crashes \in 0 .. MaxCrashes /\ losses \in 0 .. MaxLosses

(* do_get_difference looks at seq, not at pts, for whether there was a     *)
(* start before.                                                           *)
do_get_difference(d) ==
  IF d.seq > 0 \/ sync_from_start
  THEN LET pts == IF d.pts = 0 THEN 1 ELSE d.pts
       IN [mem |-> [d EXCEPT !.pts = pts],
           query |-> [op |-> "get_difference", pts |-> pts]]
  ELSE [mem |-> d, query |-> [op |-> "get_state", pts |-> 0]]

NoCounters == [pts |-> 0, seq |-> 0]

Init ==
  /\ binlog_enabled \in BOOLEAN /\ sync_from_start \in BOOLEAN
  /\ server = Before /\ pushes = {}
  /\ disk = [pts |-> 0, seq |-> 0, in |-> {}] /\ written = NoCounters
  /\ LET d == do_get_difference(disk) IN mem = d.mem /\ asked = {d.query}
  /\ answers = {} /\ todo = <<>>
  /\ base = (IF sync_from_start THEN 1 ELSE Before)
  /\ shown = {} /\ jumped = {} /\ lost = {} /\ cut = {}
  /\ crashes = 0 /\ losses = 0

-----------------------------------------------------------------------------
(* What the handlers do, as sequences of steps. *)

SetPts(p) == [do |-> "pts", to |-> p]
SetSeq(x) == [do |-> "seq", to |-> x]
print_message(ns, late) == [do |-> "print", ns |-> ns, late |-> late]

(* FLAG_CREATED: a message that is there is not created again.             *)
Create(n, late) ==
  IF n \in mem.in THEN <<>> ELSE <<[do |-> "update", ns |-> {n}, late |-> late]>>

(* fetch_pts: a hole is jumped over.                                       *)
fetch_pts(p) == IF p <= mem.pts THEN <<>> ELSE <<[do |-> "fetch_pts", to |-> p]>>

(* fetch_seq: a hole is not.                                               *)
fetch_seq(x) == IF x = mem.seq + 1 THEN <<SetSeq(x)>> ELSE <<>>

(* Seeded fault of work_update: fetch_pts comes first.                     *)
work_update_late(n) == fetch_pts(n) \o Create(n, FALSE) \o <<print_message({n}, FALSE)>>

work_update(n) == Create(n, FALSE) \o fetch_pts(n) \o <<print_message({n}, FALSE)>>

(* seq is set to what the server says, also when it is less than before.   *)
work_updates(n) == work_update(n) \o <<SetSeq(n)>>

(* fetch_message_short stores the counters first, and is late with the     *)
(* message.                                                                *)
work_update_short_message(n) ==
  fetch_pts(n) \o fetch_seq(n) \o Create(n, TRUE) \o <<print_message({n}, FALSE)>>

Difference(a) == (a.from + 1) .. a.to

(* Seeded fault of get_difference_on_answer: a slice is taken for all.     *)
get_difference_once(a) ==
  FlattenSeq([i \in 1 .. a.to - a.from |-> Create(a.from + i, FALSE)])
  \o <<SetPts(a.to), SetSeq(a.to), [do |-> "save"], print_message(Difference(a), TRUE)>>

(* get_difference_on_answer: an empty difference has no pts; the messages  *)
(* are printed after the counters have been saved; a slice is not all.     *)
get_difference_on_answer(a) ==
  IF a.to = a.from THEN <<SetSeq(a.to)>>
  ELSE FlattenSeq([i \in 1 .. a.to - a.from |-> Create(a.from + i, FALSE)])
       \o <<SetPts(a.to), SetSeq(a.to), [do |-> "save"], print_message(Difference(a), TRUE)>>
       \o (IF a.slice THEN <<[do |-> "ask"]>> ELSE <<>>)

get_state_on_answer(a) == <<SetPts(a.to), SetSeq(a.to), [do |-> "save"]>>

-----------------------------------------------------------------------------
(* The client. *)

Begin(steps) ==
  /\ todo = <<>> /\ todo' = steps
  /\ UNCHANGED <<options, server, mem, disk, written, counts, crashes, losses>>

process_update(p) ==
  /\ p \in pushes /\ pushes' = pushes \ {p}
  /\ Begin(IF p.form = "updates" THEN work_updates(p.n)
                                 ELSE work_update_short_message(p.n))
  /\ UNCHANGED <<asked, answers>>

query_result(a) ==
  /\ a \in answers /\ answers' = answers \ {a}
  /\ Begin(IF a.op = "get_state" THEN get_state_on_answer(a)
                                 ELSE get_difference_on_answer(a))
  /\ UNCHANGED <<pushes, asked>>

Ask ==
  LET d == do_get_difference(mem) IN mem' = d.mem /\ asked' = asked \cup {d.query}

work_updates_to_long ==
  /\ losses < MaxLosses /\ losses' = losses + 1 /\ todo = <<>> /\ Ask
  /\ UNCHANGED <<options, server, pushes, answers, disk, written, todo, counts, crashes>>

(* replay_log_event: what a record does.                                   *)
replay_log_event(d, s) ==
  CASE s.do \in {"fetch_pts", "pts"} -> [d EXCEPT !.pts = s.to]
    [] s.do = "seq" -> [d EXCEPT !.seq = s.to]
    [] s.do = "update" -> [d EXCEPT !.in = @ \cup s.ns]

(* add_log_event: the record is applied, and appended to the log.          *)
add_log_event(s) ==
  /\ mem' = replay_log_event(mem, s)
  /\ disk' = IF binlog_enabled THEN replay_log_event(disk, s) ELSE disk
  /\ UNCHANGED <<asked, written, shown>>

(* The updates that fetch_pts passes over; the first pts is no hole.       *)
Passes(p) ==
  IF mem.pts = 0
  THEN base' = (IF p - 1 > base THEN p - 1 ELSE base) /\ UNCHANGED jumped
  ELSE jumped' = jumped \cup ((mem.pts + 1) .. (p - 1)) /\ UNCHANGED base

(* write_state_file does nothing when all of the counters are what they    *)
(* were or less.  The date may have risen when pts and seq have not.       *)
write_state_file ==
  \/ /\ ~binlog_enabled
     /\ disk' = [disk EXCEPT !.pts = mem.pts, !.seq = mem.seq]
     /\ written' = [pts |-> mem.pts, seq |-> mem.seq]
  \/ /\ binlog_enabled \/ (mem.pts <= written.pts /\ mem.seq <= written.seq)
     /\ UNCHANGED <<disk, written>>

HandlerStep ==
  /\ todo # <<>> /\ todo' = Tail(todo)
  /\ LET s == Head(todo) IN
     /\ IF s.do = "fetch_pts" THEN Passes(s.to) ELSE UNCHANGED <<base, jumped>>
     /\ \/ s.do \in {"fetch_pts", "pts", "seq", "update"} /\ add_log_event(s)
        \/ /\ s.do = "print" /\ shown' = shown \cup s.ns
           /\ UNCHANGED <<mem, disk, asked, written>>
        \/ s.do = "save" /\ write_state_file /\ UNCHANGED <<mem, asked, shown>>
        \/ s.do = "ask" /\ Ask /\ UNCHANGED <<disk, written, shown>>
  /\ UNCHANGED <<options, server, pushes, answers, lost, cut, crashes, losses>>

(* net_loop saves the counters in every round; net_connection, the loop of *)
(* the binding, never does.                                                *)
net_loop ==
  /\ todo = <<>> /\ write_state_file
  /\ UNCHANGED <<options, server, pushes, asked, answers, mem, todo, counts,
                 crashes, losses>>

(* Messages that the handler stores after it has stored a pts that covers  *)
(* them.                                                                   *)
Late == UNION {s.ns : s \in {t \in ToSet(todo) : t.do \in {"update", "print"} /\ t.late}}

(* The process ends and is started again; the difference brings what was   *)
(* pushed and has not been passed.                                         *)
Restart ==
  /\ crashes < MaxCrashes /\ crashes' = crashes + 1
  /\ LET d == do_get_difference(disk) IN mem' = d.mem /\ asked' = {d.query}
  /\ written' = NoCounters /\ todo' = <<>> /\ answers' = {} /\ pushes' = {}
  /\ cut' = cut \cup {n \in Late : n <= disk.pts}
  /\ UNCHANGED <<options, server, disk, base, shown, jumped, lost, losses>>

-----------------------------------------------------------------------------
(* The server. *)

ServerUpdates(form) ==
  /\ server < MaxUpdates /\ server' = server + 1
  /\ pushes' = pushes \cup {[form |-> form, n |-> server + 1]}
  /\ UNCHANGED <<options, asked, answers, mem, disk, written, todo, counts,
                 crashes, losses>>

PushIsLost(p) ==
  /\ losses < MaxLosses /\ losses' = losses + 1
  /\ p \in pushes /\ pushes' = pushes \ {p} /\ lost' = lost \cup {p.n}
  /\ UNCHANGED <<options, server, asked, answers, mem, disk, written, todo,
                 base, shown, jumped, cut, crashes>>

ServerAnswers(q) ==
  /\ q \in asked /\ asked' = asked \ {q}
  /\ LET slice == q.op = "get_difference" /\ q.pts + Slice < server
     IN answers' = answers \cup {[op |-> q.op, from |-> q.pts, slice |-> slice,
                                  to |-> IF slice THEN q.pts + Slice ELSE server]}
  /\ base' = IF q.op = "get_state" THEN server ELSE base
  /\ UNCHANGED <<options, server, pushes, mem, disk, written, todo, shown,
                 jumped, lost, cut, crashes, losses>>

Progress ==
  \/ \E p \in pushes : process_update(p)
  \/ \E q \in asked : ServerAnswers(q)
  \/ \E a \in answers : query_result(a)
  \/ HandlerStep

Next == \/ Progress
        \/ net_loop \/ work_updates_to_long \/ Restart
        \/ \E form \in Forms : ServerUpdates(form)
        \/ \E p \in pushes : PushIsLost(p)

Spec == Init /\ [][Next]_vars /\ WF_vars(Progress)

-----------------------------------------------------------------------------
(* Properties. *)

(* What a start finds taken in: with a log, what is in the log; without,   *)
(* what some run has printed.                                              *)
Kept == IF binlog_enabled THEN disk.in ELSE shown

(* Whatever overtakes what, in push or difference, and wherever the        *)
(* process ends: the pts that a start would find has not passed an update  *)
(* that was not taken in, except for those that fetch_pts jumped over, and *)
(* for those whose handler stores pts before the message                   *)
(* (fetch_message_short, and the print_message of a difference).           *)
OnlyHolesAreMissed ==
  \A n \in base + 1 .. disk.pts : n \in Kept \cup jumped \cup Late \cup cut

(* StartMissesOnlyHoles: what a start finds is of its type and misses only *)
(* what was jumped over, late or cut.                                      *)
StartMissesOnlyHoles == TypeOK /\ OnlyHolesAreMissed

(* mtproto-client.c:794 says "get difference should be here": an update    *)
(* that fetch_pts jumps over and that does not come late is fetched.       *)
HolesAreFilled ==
  \A n \in jumped :
    \/ n <= base \/ n \in mem.in \cup shown \/ todo # <<>>
    \/ \E p \in pushes : p.n = n
    \/ \E q \in asked : q.pts < n
    \/ \E a \in answers : a.from < n /\ (n <= a.to \/ a.slice)

(* In the end every update since the first start has been taken in, slice  *)
(* by slice if the difference is long, with the same exceptions and but    *)
(* for a lost push that nothing has followed yet.                          *)
Settles ==
  <>[](\A n \in base + 1 .. server :
         n \in Kept \cup jumped \cup cut \/ (n \in lost /\ n > mem.pts))

=============================================================================
