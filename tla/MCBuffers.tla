------------------------------ MODULE MCBuffers ------------------------------
(***************************************************************************)
(* The two buffers of one connection, for TLC.  They share no state: what  *)
(* goes out and what comes in are chains of their own, and fail_connection *)
(* empties both.  So it is enough to use a connection one way at a time;   *)
(* the chain that is not used stays empty.                                 *)
(***************************************************************************)
EXTENDS OutBuffer, InBuffer

Quiet == out = <<>> /\ out_bytes = 0 /\ accepted = 0 /\ wire = <<>>

Init == OutInit /\ InInit
Next == \/ InInit /\ OutNext /\ UNCHANGED in_vars
        \/ Quiet /\ InNext /\ UNCHANGED out_vars

Spec == Init /\ [][Next]_<<out_vars, in_vars>>

=============================================================================
