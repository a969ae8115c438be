----------------------------- MODULE ProgressMC -----------------------------
(* The handlers of the worker and the service checks of the page, for the  *)
(* run about what ends in both.  They share no state, so that TLC explores *)
(* them one at a time: one moves only while the other has not begun.       *)
EXTENDS AuthorityLockMC, ServiceStatuses

progressVars == <<vars, statusVars>>

NoChecks   == ~mounted /\ started = 0 /\ UNCHANGED statusVars
NoHandlers == (\A r \in Requests : status[r] = "new") /\ UNCHANGED vars

\* The checks do not depend on what the requests will be.
OneStart == /\ kind = [r \in Requests |-> CHOOSE k \in Handlers : TRUE]
            /\ chain = [w \in Wallets |-> Missing]

ProgressInit == Init /\ StatusInit
ProgressNext == \/ NoChecks /\ Next
                \/ NoHandlers /\ OneStart /\ StatusNext

ProgressSpec ==
    /\ ProgressInit /\ [][ProgressNext]_progressVars
    /\ \A r \in Requests : WF_progressVars(NoChecks /\ HandlerStep(r))
    /\ \A s \in Sections : WF_progressVars(NoChecks /\ SectionStep(s))
    /\ WF_progressVars(NoHandlers /\ OneStart /\ Tick)
    /\ WF_progressVars(NoHandlers /\ OneStart /\ GoesOn)
=============================================================================
