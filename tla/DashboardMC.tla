---------------------------- MODULE DashboardMC ----------------------------
(* Constants of the model-checking runs of Dashboard. *)
EXTENDS Dashboard, TLC

CONSTANTS h1, h2

\* One press is of the order form, the other may be, or closes a position. (A
\* transfer of margin is handled like a close; the button for a deposit into the
\* Drift account refreshes the balances alone.)
Buttons == (h1 :> {"open"}) @@ (h2 :> {"open", "close"})
=============================================================================
