---------------------------- MODULE CallContract ----------------------------
(***************************************************************************)
(* What a user of TsIpc::call can rely on.  A call is opened, its request  *)
(* is run by a worker at most once in each of two attempts, and it ends    *)
(* exactly once: answered, failed or abandoned by its client.  An answer   *)
(* presupposes a run.  A run may come after the end: a call that timed out *)
(* may still be carried out.                                               *)
(***************************************************************************)
CONSTANT Callers

VARIABLES
    status,  \* of each call
    runs     \* the attempts of each call that a worker has begun to carry out

vars == <<status, runs>>

Init ==
    /\ status = [c \in Callers |-> "idle"]
    /\ runs = [c \in Callers |-> {}]

Begin(c) ==
    /\ status[c] = "idle"
    /\ status' = [status EXCEPT ![c] = "open"]
    /\ UNCHANGED runs

\* A request that does not call the worker.
Skip(c) ==
    /\ status[c] = "idle"
    /\ status' = [status EXCEPT ![c] = "failed"]
    /\ UNCHANGED runs

Run(c) ==
    /\ status[c] # "idle"
    /\ \E k \in {1, 2} \ runs[c] : runs' = [runs EXCEPT ![c] = @ \cup {k}]
    /\ UNCHANGED status

End(c) ==
    /\ status[c] = "open"
    /\ \/ runs[c] # {} /\ status' = [status EXCEPT ![c] = "answered"]
       \/ status' = [status EXCEPT ![c] = "failed"]
       \/ status' = [status EXCEPT ![c] = "abandoned"]
    /\ UNCHANGED runs

Next == \E c \in Callers : Begin(c) \/ Skip(c) \/ Run(c) \/ End(c)

Spec == Init /\ [][Next]_vars
=============================================================================
