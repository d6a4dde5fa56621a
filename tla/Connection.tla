----------------------------- MODULE Connection -----------------------------
(***************************************************************************)
(* One TCP connection of net.c: its states, the single event timer c->ev   *)
(* that serves both the ping timer and the fail timer, its place in the    *)
(* Connections table, and the poll loop around it (net_loop and            *)
(* net_connection in loop.c), whose steps use poll results that an earlier *)
(* step of the same iteration may have made stale.                         *)
(*                                                                         *)
(* struct connection is a record, and each function of net.c that changes  *)
(* it is an operator from a connection to the set of connections it may    *)
(* leave, according to what the system calls return.  The kernel and the   *)
(* peer are external.                                                      *)
(***************************************************************************)
EXTENDS Naturals

CONSTANTS
  Programs,              \* the sets of loops that programs use: "both" is
                         \* net_loop, "send" and "recv" are net_connection
                         \* with 1 and with 0
  MaxRefused,            \* bound: connects that fail at once, with other
                         \* than EINPROGRESS
  MaxBreaks              \* bound: times the network breaks the connection or
                         \* a signal interrupts poll

AllModes == {"both", "send", "recv"}

ASSUME ProgramsAssumption == Programs \subseteq SUBSET AllModes \ {{}}
ASSUME BoundsAssumption == {MaxRefused, MaxBreaks} \subseteq Nat

Events == {"IN", "OUT", "HUP"}    \* HUP for POLLHUP, POLLERR and POLLRDHUP
Faults == {"none",
           "timer inserted twice",   \* assert (c) in tree_insert
           "timer not found",        \* assert (T) in tree_delete
           "ping in failed state",   \* the assertion of ping_alarm
           "null connection"}        \* Connections[fd] is 0 and is used

VARIABLES
  c,        \* the connection
  phase,    \* where the loop is: "top", "poll", "timers", "read", "rest"
  program,  \* the loops this program uses
  mode,     \* which of them is running
  fds,      \* the events polled for, or {} when c is not in the poll array
  revents,  \* what poll reported, or left there
  ticked,   \* history: the second has changed between the two halves of this
            \* round
  breaks

vars == <<c, phase, program, mode, fds, revents, ticked, breaks>>

(* ev is the alarm c->ev is registered with; due: its ten seconds are over; *)
(* this_second: last_connect_time = time (0); silence: time since          *)
(* last_receive_time, 0 below 50 seconds, 1 up to 200 and 2 above.         *)
(* peer is the kernel's end of the socket; heard: something was written on *)
(* this socket, before which the server has nothing to send.               *)
ConnectionRecord ==
  [state : {"connecting", "ready", "failed"}, registered : BOOLEAN,
   ev : {"none", "ping", "fail"}, due : BOOLEAN, in_fail_timer : BOOLEAN,
   port : {443, 80, 25}, this_second : BOOLEAN, silence : 0 .. 2, out_bytes : BOOLEAN,
   peer : {"syn", "up", "mute", "eof", "reset", "closed"}, heard : BOOLEAN,
   refused : 0 .. MaxRefused, fault : Faults]

TypeOK ==
  /\ c \in ConnectionRecord
  /\ phase \in {"top", "poll", "timers", "read", "rest"}
  /\ program \in Programs /\ mode \in program
  /\ fds \subseteq Events
  /\ revents \subseteq Events
  /\ ticked \in BOOLEAN
  /\ breaks \in 0 .. MaxBreaks

(* create_connection waits for the connect and then registers the ping     *)
(* timer; it leaves last_connect_time alone.                               *)
create_connection ==
  [state |-> "ready", registered |-> TRUE, ev |-> "ping", due |-> FALSE,
   in_fail_timer |-> FALSE, port |-> 443, this_second |-> FALSE, silence |-> 0,
   out_bytes |-> TRUE, peer |-> "up", heard |-> FALSE, refused |-> 0,
   fault |-> "none"]

Init ==
  /\ c = create_connection
  /\ phase = "top" /\ program \in Programs /\ mode \in program
  /\ fds = {} /\ revents = {} /\ ticked = FALSE /\ breaks = 0

-----------------------------------------------------------------------------
(* The functions of net.c. *)

(* What an assertion or a null pointer leaves behind: nothing runs again.  *)
Fault(d, f) == [d EXCEPT !.fault = f]

insert_event_timer(d, alarm) ==
  IF d.ev # "none" THEN Fault(d, "timer inserted twice")
  ELSE [d EXCEPT !.ev = alarm, !.due = FALSE]
remove_event_timer(d) ==
  IF d.ev = "none" THEN Fault(d, "timer not found")
  ELSE [d EXCEPT !.ev = "none", !.due = FALSE]

start_ping_timer(d) == insert_event_timer(d, "ping")
stop_ping_timer(d) == remove_event_timer(d)

start_fail_timer(d) ==
  IF d.in_fail_timer THEN d
  ELSE insert_event_timer([d EXCEPT !.in_fail_timer = TRUE], "fail")

restart_connection(d) ==
  LET tried == [d EXCEPT !.this_second = TRUE]
      connected == start_ping_timer(
        [tried EXCEPT !.state = "connecting", !.silence = 0, !.peer = "syn"])
  IN IF d.this_second THEN {start_fail_timer(d)}
     ELSE {[connected EXCEPT !.registered = TRUE, !.out_bytes = TRUE]}
          \cup (IF d.refused < MaxRefused
                THEN {start_fail_timer([tried EXCEPT !.refused = @ + 1])} ELSE {})

rotate_port(p) == CASE p = 443 -> 80 [] p = 80 -> 25 [] p = 25 -> 443

fail_connection(d) ==
  LET stopped == IF d.state # "failed" THEN stop_ping_timer(d) ELSE d
  IN restart_connection(
       [stopped EXCEPT !.state = "failed", !.registered = FALSE,
                       !.out_bytes = FALSE, !.peer = "closed",
                       !.heard = FALSE, !.port = rotate_port(@)])

(* Seeded fault: the ping timer is only started again with a ping. *)
ping_alarm_once(d) ==
  IF d.silence = 2 THEN fail_connection([d EXCEPT !.state = "failed"])
  ELSE IF d.silence = 1 /\ d.state = "ready"
       THEN {start_ping_timer([d EXCEPT !.out_bytes = TRUE])}
       ELSE {d}

(* The timer has been taken out of the tree by work_timers. *)
ping_alarm(d) ==
  IF d.state = "failed" THEN {Fault(d, "ping in failed state")}
  ELSE IF d.silence = 2 THEN fail_connection([d EXCEPT !.state = "failed"])
  ELSE {start_ping_timer([d EXCEPT !.out_bytes =
          @ \/ (d.silence = 1 /\ d.state = "ready")])}

(* Seeded fault: in_fail_timer is not cleared. *)
fail_alarm_flagged(d) == restart_connection(d)

fail_alarm(d) == restart_connection([d EXCEPT !.in_fail_timer = FALSE])

(* read returns data, 0 at the end of the stream, EAGAIN, or an error.     *)
(* Data goes to try_rpc_read, whose handlers may write an answer.          *)
try_read(d) ==
  CASE d.peer = "up" ->
         {d} \cup {[start_ping_timer(stop_ping_timer([d EXCEPT !.silence = 0]))
                     EXCEPT !.out_bytes = w] : w \in {d.out_bytes, TRUE}}
    [] d.peer = "reset" -> fail_connection(d)
    [] OTHER -> {d}

(* write takes everything, or says EAGAIN, or fails. *)
try_write(d) ==
  LET written == [d EXCEPT !.out_bytes = FALSE, !.heard = TRUE]
  IN CASE d.peer = "reset" -> fail_connection(d)
       [] d.peer = "syn" -> {d}
       [] d.peer = "mute" -> {d, written}
       [] OTHER -> {written}

(* The events each of the three loops looks at. *)
Handled(m) == CASE m = "both" -> Events
                [] m = "send" -> {"OUT", "HUP"}
                [] m = "recv" -> {"IN", "HUP"}

(* The last part of connections_poll_result, connections_send_data and     *)
(* connections_recv_data, on the events of one connection.                 *)
hup_or_write(d, events) ==
  LET writable == [d EXCEPT
        !.state = IF @ = "connecting" THEN "ready" ELSE @,
        !.silence = IF d.state = "connecting" THEN 0 ELSE @]
  IN CASE "HUP" \in events -> fail_connection(d)
       [] "HUP" \notin events /\ "OUT" \in events \cap Handled(mode) ->
            IF d.out_bytes THEN try_write(writable) ELSE {writable}
       [] OTHER -> {d}

-----------------------------------------------------------------------------
(* The loop. *)

Running == c.fault = "none"

(* Seeded fault: POLLOUT is only asked for while connecting. *)
make_poll_array_connecting(m) ==
  /\ Running /\ phase = "top"
  /\ m \in program /\ mode' = m
  /\ fds' = IF ~c.registered THEN {}
            ELSE IF c.state = "connecting" THEN Events ELSE Events \ {"OUT"}
  /\ phase' = "poll" /\ revents' = {} /\ ticked' = FALSE
  /\ UNCHANGED <<c, program, breaks>>

(* connections_make_poll_array. *)
connections_make_poll_array(m) ==
  /\ Running /\ phase = "top"
  /\ m \in program /\ mode' = m
  /\ fds' = IF ~c.registered THEN {}
            ELSE IF c.out_bytes \/ c.state = "connecting"
                 THEN Events ELSE Events \ {"OUT"}
  /\ phase' = "poll" /\ revents' = {} /\ ticked' = FALSE
  /\ UNCHANGED <<c, program, breaks>>

(* What the kernel reports of a socket, with or without data to read. *)
Ready(d, data) ==
  CASE d.peer = "up" -> {"OUT"} \cup (IF data /\ d.heard THEN {"IN"} ELSE {})
    [] d.peer = "mute" -> {"OUT"}
    [] d.peer = "eof" -> {"IN", "HUP", "OUT"}
    [] d.peer = "reset" -> {"IN", "HUP", "OUT"}
    [] OTHER -> {}

poll ==
  /\ Running /\ phase = "poll"
  /\ \E data \in BOOLEAN : revents' = fds \cap Ready(c, data)
  /\ phase' = "timers"
  /\ UNCHANGED <<c, program, mode, fds, ticked, breaks>>

(* poll fails, for instance because of a signal.  net_loop runs the timers *)
(* and goes round; net_connection handles what stands in revents, which    *)
(* nothing has written: the array is on the stack.                         *)
poll_fails ==
  /\ Running /\ phase = "poll" /\ breaks < MaxBreaks
  /\ revents' \in IF mode = "both" \/ fds = {} THEN {{}} ELSE SUBSET Events
  /\ phase' = "timers"
  /\ breaks' = breaks + 1
  /\ UNCHANGED <<c, program, mode, fds, ticked>>

work_timers ==
  /\ Running /\ phase = "timers"
  /\ IF c.ev # "none" /\ c.due
     THEN LET popped == remove_event_timer(c) IN
          c' \in IF c.ev = "ping" THEN ping_alarm(popped) ELSE fail_alarm(popped)
     ELSE UNCHANGED c
  /\ phase' = "read"
  /\ UNCHANGED <<program, mode, fds, revents, ticked, breaks>>

(* connections_poll_result and its two halves look the connection up again *)
(* and act on the events of before work_timers.  With one connection the   *)
(* new socket has the number of the one just closed.                       *)
connections_poll_result_read ==
  /\ Running /\ phase = "read"
  /\ CASE revents \cap Handled(mode) # {} /\ ~c.registered ->
            c' = Fault(c, "null connection")
       [] c.registered /\ "IN" \in revents \cap Handled(mode) ->
            c' \in try_read(c)
       [] OTHER -> UNCHANGED c
  /\ phase' = "rest"
  /\ UNCHANGED <<program, mode, fds, revents, ticked, breaks>>

connections_poll_result_rest ==
  /\ Running /\ phase = "rest"
  /\ c' \in hup_or_write(c, revents)
  /\ phase' = "top"
  /\ UNCHANGED <<program, mode, fds, revents, ticked, breaks>>

(* send_query and the other callers, in any state of the connection. *)
encrypt_send_message ==
  /\ Running /\ phase = "top"
  /\ c' = [c EXCEPT !.out_bytes = TRUE]
  /\ UNCHANGED <<phase, program, mode, fds, revents, ticked, breaks>>

-----------------------------------------------------------------------------
(* The environment: time, and the network. *)

(* Time passes while the loop waits in poll.  The second may change        *)
(* anywhere else too, but never ten of them.                               *)
SecondPasses ==
  /\ Running
  /\ c' = [c EXCEPT !.this_second = FALSE]
  /\ ticked' = (phase = "rest")
  /\ UNCHANGED <<phase, program, mode, fds, revents, breaks>>

After(d, silence) == [d EXCEPT !.this_second = FALSE, !.due = (d.ev # "none"),
                              !.silence = silence]

(* A peer that is there connects and answers within 200 seconds.           *)
TenSecondsPass ==
  /\ Running /\ phase = "poll"
  /\ c' = After(c, IF c.silence = 0 \/ c.peer \in {"syn", "up"} THEN 1 ELSE 2)
  /\ UNCHANGED <<phase, program, mode, fds, revents, ticked, breaks>>

(* The machine sleeps, or its clock is set, for more than 200 seconds.     *)
Suspended ==
  /\ Running /\ phase = "poll" /\ breaks < MaxBreaks
  /\ c' = After(c, 2)
  /\ breaks' = breaks + 1
  /\ UNCHANGED <<phase, program, mode, fds, revents, ticked>>

ConnectCompletes ==
  /\ Running /\ c.peer = "syn"
  /\ c' = [c EXCEPT !.peer = "up"]
  /\ UNCHANGED <<phase, program, mode, fds, revents, ticked, breaks>>

NetworkBreaks ==
  /\ Running /\ c.peer \in {"syn", "up"} /\ breaks < MaxBreaks
  /\ \E p \in {"mute", "eof", "reset"} : c' = [c EXCEPT !.peer = p]
  /\ breaks' = breaks + 1
  /\ UNCHANGED <<phase, program, mode, fds, revents, ticked>>

Loop == \/ \E m \in AllModes : connections_make_poll_array(m)
        \/ poll \/ poll_fails \/ work_timers
        \/ connections_poll_result_read \/ connections_poll_result_rest

Next == Loop \/ encrypt_send_message \/ SecondPasses \/ TenSecondsPass
        \/ Suspended \/ ConnectCompletes \/ NetworkBreaks

SafetySpec == Init /\ [][Next]_vars

(* The program keeps calling each loop it uses, and a loop goes round; a   *)
(* connect completes; time passes again and again while it waits in poll.  *)
Fairness ==
  /\ WF_vars(Loop)
  /\ \A m \in AllModes : m \in program => SF_vars(connections_make_poll_array(m))
  /\ SF_vars(TenSecondsPass)
  /\ WF_vars(ConnectCompletes)

Spec == SafetySpec /\ Fairness

-----------------------------------------------------------------------------
(* Properties. *)

(* A registered event is never inserted into the timer tree again, although *)
(* the two timers of a connection share c->ev (the assertion of            *)
(* tree_insert), except in one case: try_read fails the connection, and    *)
(* the second changes before the hang-up that the same round reported      *)
(* fails it again, so that restart_connection does not wait for the timer  *)
(* that it has just started.                                               *)
InsertedOnce ==
  c.fault = "timer inserted twice" =>
    ticked /\ phase = "top" /\ {"IN", "HUP"} \subseteq revents \cap Handled(mode)

(* stop_ping_timer always finds the timer it removes, and ping_alarm always *)
(* finds its connection alive, however often fail_connection runs between. *)
TimerFound == c.fault \notin {"timer not found", "ping in failed state"}

(* A poll result is applied to a connection that work_timers has taken out *)
(* of Connections only if ping_alarm closed it after 200 seconds and the   *)
(* connect that followed failed at once, for instance for want of a route. *)
NullAfterRefusal == c.fault = "null connection" => c.refused > 0

(* The timer is registered with the alarm that fits the state: a failed    *)
(* connection is going to be retried and is in no poll array, any other is *)
(* watched by the ping timer and polled.                                   *)
TimerServesState ==
  Running => /\ c.ev = IF c.state = "failed" THEN "fail" ELSE "ping"
             /\ c.in_fail_timer <=> c.state = "failed"
             /\ c.registered <=> c.state # "failed"

(* OneTimer: the one timer of a connection is always registered, once, with *)
(* the alarm that fits the state, whatever closes and opens the connection *)
(* between the poll and the handling of what it reported, but in the cases *)
(* that InsertedOnce and NullAfterRefusal name.                            *)
OneTimer ==
  TypeOK /\ InsertedOnce /\ TimerFound /\ NullAfterRefusal /\ TimerServesState

(* A connection that has failed is opened again and written to, so that    *)
(* the server can answer, unless one of OneTimer's exceptions ends it all. *)
FailedComesBack ==
  c.state = "failed" ~> ((c.state = "ready" /\ c.heard) \/ ~Running)

(* A connection whose other end is gone is closed: by the error, by the    *)
(* hang-up, or after 200 seconds of silence by the ping timer.             *)
BrokenIsNoticed == c.peer \in {"mute", "eof", "reset"}
                     ~> c.peer \notin {"mute", "eof", "reset"}

(* What is written is sent, or dropped with its connection, with the same  *)
(* exceptions.                                                             *)
WrittenGoesOut == c.out_bytes ~> (~c.out_bytes \/ ~Running)

(* README.md:91 of the repository says of Telegram.poll_messages that it   *)
(* "will get messages".  So a program that only polls should be connected   *)
(* again after a failure; connections_recv_data, which is all that it runs, *)
(* never takes a connection from connecting to ready.                      *)
PollGetsMessages ==
  (c.state = "failed" /\ program = {"recv"}) ~> (c.state = "ready" \/ ~Running)

=============================================================================
