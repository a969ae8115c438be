-------------------------- MODULE ServiceStatuses --------------------------
(***************************************************************************)
(* useServiceStatuses of the page (frontend/hooks/useServiceStatuses.ts).  *)
(*                                                                         *)
(* Checks of the two services are started when the hook is mounted, every  *)
(* 15 seconds after that, and by the Refresh button.  A timer check counts *)
(* itself when it ends, not when it starts, and the timer is stopped once  *)
(* LIMIT were counted; checks that take longer than the interval overlap.  *)
(* What a check shows of the services is left out: each answer is shown as *)
(* it arrives, and nothing is decided by it.                               *)
(***************************************************************************)
EXTENDS Naturals

CONSTANTS
    LIMIT,       \* SERVICE_RETRY_LIMIT
    MaxChecks,   \* bound: checks of the timer
    MaxRefreshes \* bound: presses of the button

ASSUME StatusAssumption == /\ LIMIT \in Nat \ {0} /\ MaxChecks \in Nat
                           /\ MaxRefreshes \in Nat

VARIABLES
    mounted,    \* whether the hook is
    running,    \* how many timer checks stand at each stage
    started,    \* how many were started
    retryCount,
    interval,   \* whether the timer runs
    button,     \* where the check of the button stands
    refreshing,
    presses,
    overlap     \* history: the most timer checks that ever ran at once

statusVars == <<mounted, running, started, retryCount, interval, button, refreshing,
                presses, overlap>>

\* What a check waits for, in this order; at the end it goes on by itself.
Stages == {"execution", "health", "fallback", "end"}
After(stage, up) == CASE stage = "execution"                -> "health"
                      [] stage = "health" /\ ~up            -> "fallback"
                      [] stage = "fallback" \/ (stage = "health" /\ up) -> "end"

Running == running["execution"] + running["health"] + running["fallback"] + running["end"]
Larger(m, n) == IF m > n THEN m ELSE n

StatusInit ==
    /\ mounted = FALSE /\ interval = FALSE /\ retryCount = 0
    /\ running = [stage \in Stages |-> 0] /\ started = 0 /\ overlap = 0
    /\ button = "none" /\ refreshing = FALSE /\ presses = 0

\* A timer check begins with the first fetch of fetchServiceStatuses.
TimerBegins ==
    /\ started < MaxChecks
    /\ running' = [running EXCEPT !["execution"] = @ + 1]
    /\ started' = started + 1
    /\ overlap' = Larger(Running + 1, overlap)

\* The effect: a check at once, and the timer.
Mount ==
    /\ ~mounted /\ started = 0
    /\ mounted' = TRUE /\ interval' = TRUE
    /\ TimerBegins
    /\ UNCHANGED <<retryCount, button, refreshing, presses>>

\* The timer fires: a check, or the end of the timer.
Tick ==
    /\ interval
    /\ \/ retryCount < LIMIT /\ TimerBegins /\ UNCHANGED interval
       \/ /\ retryCount >= LIMIT
          /\ interval' = FALSE
          /\ UNCHANGED <<running, started, overlap>>
    /\ UNCHANGED <<mounted, retryCount, button, refreshing, presses>>

\* A fetch is answered, or fails; the health of the indexer has a second try.
Fetched(stage) ==
    /\ stage # "end"
    /\ \E up \in BOOLEAN :
          \/ /\ running[stage] > 0
             /\ running' = [running EXCEPT ![stage] = @ - 1, ![After(stage, up)] = @ + 1]
             /\ UNCHANGED button
          \/ button = stage /\ button' = After(stage, up) /\ UNCHANGED running
    /\ UNCHANGED <<mounted, started, retryCount, interval, refreshing, presses, overlap>>

Ends == /\ running["end"] > 0
        /\ running' = [running EXCEPT !["end"] = @ - 1]
        /\ UNCHANGED <<mounted, started, button, refreshing, presses, overlap>>

\* Mutant: the count is read when a check starts and written when it ends.
CountLost ==
    /\ Ends
    /\ retryCount' = IF Running = 1 THEN retryCount + 1 ELSE retryCount
    /\ interval' = (interval /\ retryCount' < LIMIT)

\* A timer check goes on after its fetches.
Count ==
    /\ Ends
    /\ retryCount' = retryCount + 1
    /\ interval' = (interval /\ retryCount' < LIMIT)

\* The button is disabled while it refreshes.
Refresh ==
    /\ mounted /\ ~refreshing /\ presses < MaxRefreshes
    /\ refreshing' = TRUE /\ presses' = presses + 1 /\ button' = "execution"
    /\ UNCHANGED <<mounted, running, started, retryCount, interval, overlap>>

\* Mutant: a refresh only ends when no other check runs.
RefreshedAlone ==
    /\ button = "end"
    /\ button' = "none" /\ refreshing' = (Running > 0)
    /\ UNCHANGED <<mounted, running, started, retryCount, interval, presses, overlap>>

\* `finally'
Refreshed ==
    /\ button = "end"
    /\ button' = "none" /\ refreshing' = FALSE
    /\ UNCHANGED <<mounted, running, started, retryCount, interval, presses, overlap>>

\* The effect's cleanup.  Checks that run go on.
Unmount ==
    /\ mounted
    /\ mounted' = FALSE /\ interval' = FALSE
    /\ UNCHANGED <<running, started, retryCount, button, refreshing, presses, overlap>>

AtRest == ~interval /\ Running = 0 /\ button = "none" /\ UNCHANGED statusVars

GoesOn == Count \/ Refreshed \/ \E stage \in Stages : Fetched(stage)
StatusNext == Mount \/ Tick \/ Refresh \/ Unmount \/ GoesOn \/ AtRest

\* The timer fires, and every fetch is answered or fails.
StatusSpec == /\ StatusInit /\ [][StatusNext]_statusVars
              /\ WF_statusVars(Tick) /\ WF_statusVars(GoesOn)

-----------------------------------------------------------------------------
(* Types. *)
StatusTypeOK ==
    /\ {mounted, interval, refreshing} \subseteq BOOLEAN
    /\ running \in [Stages -> 0..MaxChecks] /\ started \in 0..MaxChecks
    /\ retryCount \in Nat /\ overlap \in Nat /\ presses \in 0..MaxRefreshes
    /\ button \in Stages \cup {"none"} /\ (refreshing <=> button # "none")

(* The counter is read before an await and written after it.  No count is  *)
(* lost all the same, so that the hook starts more checks than the limit   *)
(* only by as many as ever ran at once, less one.                          *)
OvershootIsTheOverlap == started > 0 => started + 1 <= LIMIT + overlap

(* However its checks overlap with each other and with the button's, the   *)
(* timer is stopped in the end: the page does not poll for ever.  And the  *)
(* Refresh button is usable again after every press.                       *)
ChecksEnd == (interval ~> ~interval) /\ (refreshing ~> ~refreshing)
=============================================================================
