-------------------------------- MODULE Rpc --------------------------------
(***************************************************************************)
(* What the query layer promises to the rest of the client (the callers of *)
(* send_query in queries.c): a query is sent once, the server carries it   *)
(* out at most once however often it is retransmitted, its on_answer or    *)
(* on_error callback runs at most once and only after the server has       *)
(* carried the query out, and it does run in the end.                      *)
(*                                                                         *)
(* QueryLayer is shown to implement this module.                           *)
(***************************************************************************)
EXTENDS Naturals

CONSTANT Queries    \* the queries the callers may issue

VARIABLES
  status,           \* what the caller knows: "new", "pending" or "answered"
  carriedOut        \* the queries whose effect has taken place at the server

vars == <<status, carriedOut>>

TypeOK == /\ status \in [Queries -> {"new", "pending", "answered"}]
          /\ carriedOut \subseteq Queries

Init == /\ status = [q \in Queries |-> "new"]
        /\ carriedOut = {}

Send(q) == /\ status[q] = "new"
           /\ status' = [status EXCEPT ![q] = "pending"]
           /\ UNCHANGED carriedOut

CarryOut(q) == /\ status[q] = "pending"
               /\ q \notin carriedOut
               /\ carriedOut' = carriedOut \cup {q}
               /\ UNCHANGED status

Answer(q) == /\ status[q] = "pending"
             /\ q \in carriedOut
             /\ status' = [status EXCEPT ![q] = "answered"]
             /\ UNCHANGED carriedOut

Next == \E q \in Queries : Send(q) \/ CarryOut(q) \/ Answer(q)

Fairness == \A q \in Queries : WF_vars(CarryOut(q)) /\ WF_vars(Answer(q))

SafetySpec == Init /\ [][Next]_vars
Spec == SafetySpec /\ Fairness

=============================================================================
