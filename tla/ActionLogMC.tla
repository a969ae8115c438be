---------------------------- MODULE ActionLogMC ----------------------------
(* Instances of ActionLog for TLC. *)
EXTENDS ActionLog

CONSTANTS open1, open2, close1, decode1

RouteOf == open1 :> "open" @@ open2 :> "open" @@ close1 :> "other" @@ decode1 :> "decode"
RequestKinds == [r \in Requests |-> RouteOf[r]]

\* Opening deposits and orders; a close withdraws, or leaves nothing the
\* decoder knows.
RouteShapes == "open" :> {<<"deposit", "order">>} @@ "other" :> {<<"withdraw">>, <<>>}

=============================================================================
