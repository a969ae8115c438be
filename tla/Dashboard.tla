----------------------------- MODULE Dashboard -----------------------------
(***************************************************************************)
(* The data of the frontend's page (pages/index.tsx) and of its hooks: who *)
(* asks for what, and in which order the answers are shown.                *)
(*                                                                         *)
(* An action is what runs between two awaits. A hook's fetch function is a *)
(* closure over the wallet of the render that made it. An effect calls the *)
(* new one when the wallet has changed; a call that is under way goes on   *)
(* with the wallet it has, and so does a handler.                          *)
(***************************************************************************)
EXTENDS Integers, FiniteSets, Sequences, Functions, Bags

CONSTANTS
    Handlers,     \* bound: presses of a button that sends an order
    Operations,   \* what each may send, see Refreshes
    Admin,        \* the wallet /server/public-key answers
    Visitor,      \* a wallet connected in the browser
    Nobody,       \* no wallet
    MaxEvents,    \* bound: fires of the 60 s timer of useAdminWallet, the visitor's
                  \* wallet coming or going, refresh buttons pressed
    MaxFailures,  \* bound: requests that fail or are answered in part
    HistoryRoom   \* orders of this page that an answer about the history has room for:
                  \* TRADE_HISTORY_LIMIT less what others put into the log meanwhile

Wallets == {Admin, Visitor}
Panes   == {"admin", "positions", "balances", "history"}

\* what a handler refreshes, in this order, after its order was executed;
\* depositing and withdrawing margin are both "transfer"
Refreshes == [open         |-> <<"positions", "balances", "history">>,
              close        |-> <<"positions", "balances", "history">>,
              transfer     |-> <<"positions", "balances", "history">>,
              depositDrift |-> <<"balances">>]

ASSUME DashboardAssumption ==
    /\ Cardinality({Admin, Visitor, Nobody}) = 3
    /\ IsFiniteSet(Handlers) /\ Nobody \notin Handlers
    /\ Operations \in [Handlers -> SUBSET DOMAIN Refreshes]
    /\ {MaxEvents, MaxFailures, HistoryRoom} \subseteq Nat

VARIABLES
    admin,       \* adminWallet
    visitor,     \* publicKey of the wallet adapter
    fetches,     \* bag of the calls of fetch functions that wait for an answer
    loading,     \* the panes whose loading flag is set
    shown,       \* per pane, the wallet whose data it shows, Nobody for none
    settled,     \* history: panes set for the wallet they have now
    submitting,  \* whether the order form is disabled
    at,          \* where each handler is
    order,       \* what it does, with the wallets of its closure
    left,        \* the panes it still has to refresh
    executed,    \* the handlers whose order the server has executed
    stored,      \* those whose order its route has put into the log
    behind,      \* history: panes that can know of its order, and have neither shown
                 \* it nor failed to
    events, failures

handlerVars == <<submitting, at, order, left>>
vars == <<admin, visitor, fetches, loading, shown, settled, handlerVars, executed,
          stored, behind, events, failures>>

(* The orders that what a request now reads tells of: the chain those that *)
(* were executed, the log only those that were stored in it.               *)
Known(pane) == CASE pane = "admin"   -> {}
                 [] pane = "history" -> stored
                 [] OTHER            -> executed

(* A call: the pane, whose data it asks for, the handler that waits for it,*)
(* and the orders known when it was made. (The server may read later, and  *)
(* then may know of more.)                                                 *)
Call(pane, wallet, by) ==
    [pane |-> pane, wallet |-> wallet, by |-> by, seen |-> Known(pane)]
Calls == [pane : Panes, wallet : Wallets \cup {Nobody}, by : Handlers \cup {Nobody},
          seen : SUBSET Handlers]

NeedsWallet(pane) == pane \in {"positions", "balances"}
Key(pane, a, v) == CASE pane = "positions" -> IF a # Nobody THEN a ELSE v
                     [] pane = "balances"  -> a
                     [] OTHER              -> Nobody
InFlight(pane)  == {f \in BagToSet(fetches) : f.pane = pane}
Happens         == events < MaxEvents /\ events' = events + 1
Fails           == failures < MaxFailures /\ failures' = failures + 1

\* Mutant: the wallet is not checked.
AsksUnchecked(calls) == calls

(* Starting calls: one without a wallet clears the pane and returns, the   *)
(* others set the flag of their pane and wait beside the rest.             *)
Asks(calls)   == {f \in calls : NeedsWallet(f.pane) => f.wallet # Nobody}
Clears(calls) == {f.pane : f \in calls \ Asks(calls)}
Flags(calls)  == {f.pane : f \in Asks(calls)}
Begin(calls, rest) ==
    /\ fetches' = rest (+) SetToBag(Asks(calls))
    /\ shown' = [p \in Panes |-> IF p \in Clears(calls) THEN Nobody ELSE shown[p]]

Init ==
    LET mount == {[pane |-> p, wallet |-> Nobody, by |-> Nobody, seen |-> {}] : p \in Panes}
    IN  /\ admin = Nobody /\ visitor = Nobody
        /\ fetches = SetToBag(Asks(mount)) /\ loading = Flags(mount)
        /\ shown = [p \in Panes |-> Nobody] /\ settled = Clears(mount)
        /\ submitting = FALSE /\ at = [h \in Handlers |-> "idle"]
        /\ order = [h \in Handlers |-> [op |-> "none", wallet |-> Nobody, funds |-> Nobody]]
        /\ left = [h \in Handlers |-> <<>>]
        /\ executed = {} /\ stored = {} /\ behind = [h \in Handlers |-> {}]
        /\ events = 0 /\ failures = 0
-----------------------------------------------------------------------------
(* The wallets change, in a render whose effects call the new fetch        *)
(* functions. Calls under way stay; rest are the fetches that do.          *)
Changed(a, v) == {p \in Panes : Key(p, a, v) # Key(p, admin, visitor)}
\* Mutant: the effect does not depend on the wallet.
EffectsAtMount(a, v) == {}

Effects(a, v) == {Call(p, Key(p, a, v), Nobody) : p \in Changed(a, v)}

Rerender(a, v, rest) ==
    /\ admin' = a /\ visitor' = v
    /\ Begin(Effects(a, v), rest)

\* setInterval(fetchAdminWallet, 60000)
Poll ==
    /\ Happens
    /\ fetches' = fetches (+) SetToBag({Call("admin", Nobody, Nobody)})
    /\ loading' = loading \cup {"admin"}
    /\ UNCHANGED <<admin, visitor, shown, settled, handlerVars, executed, stored,
                   behind, failures>>

\* The browser's wallet connects or disconnects.
Visit ==
    /\ Happens
    /\ LET v == IF visitor = Nobody THEN Visitor ELSE Nobody
       IN  /\ Rerender(admin, v, fetches)
           /\ loading' = loading \cup Flags(Effects(admin, v))
           /\ settled' = (settled \ Changed(admin, v)) \cup Clears(Effects(admin, v))
    /\ UNCHANGED <<handlerVars, executed, stored, behind, failures>>

\* A pane's refresh button, disabled while the pane is loading.
Click(pane) ==
    /\ Happens
    /\ pane \notin loading
    /\ LET calls == {Call(pane, Key(pane, admin, visitor), Nobody)}
       IN  Begin(calls, fetches) /\ loading' = loading \cup Flags(calls)
    /\ UNCHANGED <<admin, visitor, settled, handlerVars, executed, stored, behind,
                   failures>>

\* The wallet of a handler that its refresh of a pane asks for.
AskedBy(h, pane) == CASE pane = "positions" -> order[h].wallet
                      [] pane = "balances"  -> order[h].funds
                      [] OTHER              -> Nobody

\* Mutant: the handler refreshes a pane again instead of the next one.
ResumeSamePane(f) ==
    IF f.by = Nobody THEN UNCHANGED <<at, left>>
    ELSE at' = [at EXCEPT ![f.by] = "refresh"] /\ UNCHANGED left

\* The handler that waits for a call goes on whatever the call returned.
Resume(f) ==
    IF f.by = Nobody THEN UNCHANGED <<at, left>>
    ELSE /\ at' = [at EXCEPT ![f.by] = "refresh"]
         /\ left' = [left EXCEPT ![f.by] = Tail(@)]

(* An answer to the hook of a pane that shows data: what was asked last    *)
(* need not be answered last, and every answer is shown.                   *)
Show(f, wallet, told) ==
    /\ fetches' = fetches (-) SetToBag({f})
    /\ loading' = loading \ {f.pane}
    /\ shown' = [shown EXCEPT ![f.pane] = wallet]
    /\ settled' = IF f.wallet = Key(f.pane, admin, visitor)
                  THEN settled \cup {f.pane} ELSE settled
    /\ behind' = [h \in Handlers |-> IF h \in told THEN behind[h] \ {f.pane} ELSE behind[h]]
    /\ Resume(f)
    /\ UNCHANGED <<admin, visitor, submitting, order, executed, stored, events>>

(* An answer about the history has the newest orders that were stored, not *)
(* all of them once there are more than it has room for.                   *)
Overflowing == IF Cardinality(stored) > HistoryRoom THEN {"history"} ELSE {}

Arrives(f) ==
    /\ f.pane # "admin"
    /\ Show(f, f.wallet, IF f.pane \in Overflowing THEN {}
                         ELSE {h \in f.seen : f.wallet = AskedBy(h, f.pane)})
    /\ UNCHANGED failures

(* The worker's answer is not an error but tells less: balances of which an*)
(* RPC failed (Balances), margins of an account cached too late (Positions).*)
ComesShort(f) ==
    /\ NeedsWallet(f.pane) /\ Fails
    /\ Show(f, f.wallet, {f.by})

FetchFails(f) ==
    /\ f.pane # "admin" /\ Fails
    /\ Show(f, Nobody, {f.by})

\* useAdminWallet: an error takes the wallet away.
AdminIs(f, a) ==
    /\ f.pane = "admin"
    /\ Rerender(a, visitor, fetches (-) SetToBag({f}))
    /\ loading' = (loading \ {"admin"}) \cup Flags(Effects(a, visitor))
    /\ settled' = (settled \ Changed(a, visitor)) \cup Clears(Effects(a, visitor))
                      \cup {"admin"}
    /\ UNCHANGED <<handlerVars, executed, stored, behind, events>>

AdminArrives(f) == AdminIs(f, Admin) /\ UNCHANGED failures
AdminFails(f)   == AdminIs(f, Nobody) /\ Fails
-----------------------------------------------------------------------------
\* A button that sends an order: the form, which is disabled while one of
\* its orders is under way, a row of the positions, or the balances card.
Offered(op) == CASE op = "open"         -> ~submitting
                 [] op = "depositDrift" -> admin # Nobody
                 [] OTHER               -> shown["positions"] # Nobody

Press(h, op) ==
    LET wallet == Key("positions", admin, visitor)
    IN  /\ at[h] = "idle" /\ Offered(op) /\ wallet # Nobody
        /\ at' = [at EXCEPT ![h] = "order"]
        /\ order' = [order EXCEPT ![h] = [op |-> op, wallet |-> wallet, funds |-> admin]]
        /\ submitting' = (submitting \/ op = "open")
        /\ UNCHANGED <<admin, visitor, fetches, loading, shown, settled, left, executed,
                       stored, behind, events, failures>>

(* The server executes the order. From now on a pane that reads the chain  *)
(* and is to be refreshed is behind until it shows it.                     *)
Execute(h) ==
    /\ at[h] = "order" /\ h \notin executed
    /\ executed' = executed \cup {h}
    /\ behind' = [behind EXCEPT ![h] = {p \in Range(Refreshes[order[h].op]) :
                                           NeedsWallet(p) /\ AskedBy(h, p) # Nobody}]
    /\ UNCHANGED <<admin, visitor, fetches, loading, shown, settled, handlerVars,
                   stored, events, failures>>

\* Mutant: the route answers without waiting until the order is stored.
StoresBeside(h) ==
    /\ order[h].op = "open" /\ h \in executed \ stored
    /\ stored' = stored \cup {h}
    /\ behind' = [behind EXCEPT ![h] = @ \cup {"history"}]
    /\ UNCHANGED <<admin, visitor, fetches, loading, shown, settled, handlerVars,
                   executed, events, failures>>

(* The route of an order that opens a position then stores it in the log   *)
(* and answers. It need not: to decode or to store the order may fail,     *)
(* which is only warned about. The routes of the other orders store none,  *)
(* so the history that is refreshed after them does not show them.         *)
StoreOpened(h) ==
    /\ at[h] = "order" /\ order[h].op = "open" /\ h \in executed \ stored
    /\ stored' = stored \cup {h}
    /\ behind' = [behind EXCEPT ![h] = @ \cup {"history"}]
    /\ UNCHANGED <<admin, visitor, fetches, loading, shown, settled, handlerVars,
                   executed, events, failures>>

\* finally { setSubmitting(false) }, which only the order form has
Reopen(h) == submitting' = (submitting /\ order[h].op # "open")

\* Mutant: the form is enabled again before what it shows is refreshed.
OrderAnsweredReopens(h) ==
    /\ at[h] = "order" /\ h \in executed
    /\ at' = [at EXCEPT ![h] = "refresh"]
    /\ left' = [left EXCEPT ![h] = Refreshes[order[h].op]]
    /\ Reopen(h)
    /\ UNCHANGED <<admin, visitor, fetches, loading, shown, settled, order, executed,
                   stored, behind, events, failures>>

OrderAnswered(h) ==
    /\ at[h] = "order" /\ h \in executed
    /\ at' = [at EXCEPT ![h] = "refresh"]
    /\ left' = [left EXCEPT ![h] = Refreshes[order[h].op]]
    /\ UNCHANGED <<admin, visitor, fetches, loading, shown, settled, submitting, order,
                   executed, stored, behind, events, failures>>

\* Mutant: the form is enabled again only after success.
OrderFailsInTry(h) ==
    /\ at[h] = "order" /\ Fails
    /\ at' = [at EXCEPT ![h] = "failed"]
    /\ UNCHANGED <<admin, visitor, fetches, loading, shown, settled, submitting, order,
                   left, executed, stored, behind, events>>

\* The answer is an error, which does not say that nothing was executed.
OrderFails(h) ==
    /\ at[h] = "order" /\ Fails
    /\ at' = [at EXCEPT ![h] = "failed"]
    /\ Reopen(h)
    /\ UNCHANGED <<admin, visitor, fetches, loading, shown, settled, order, left,
                   executed, stored, behind, events>>

\* Mutant: an await is missing.
RefreshUnawaited(h) ==
    /\ at[h] = "refresh" /\ left[h] # <<>>
    /\ LET calls == {Call(Head(left[h]), AskedBy(h, Head(left[h])), Nobody)}
       IN  Begin(calls, fetches) /\ loading' = loading \cup Flags(calls)
    /\ left' = [left EXCEPT ![h] = Tail(@)]
    /\ UNCHANGED <<admin, visitor, settled, submitting, at, order, executed, stored,
                   behind, events, failures>>

\* await refreshPositions(), await refreshBalances(), await fetchTradeHistory()
RefreshNext(h) ==
    /\ at[h] = "refresh" /\ left[h] # <<>>
    /\ LET calls == {Call(Head(left[h]), AskedBy(h, Head(left[h])), h)}
       IN  /\ Begin(calls, fetches) /\ loading' = loading \cup Flags(calls)
           /\ IF Clears(calls) = {}
              THEN at' = [at EXCEPT ![h] = "await"] /\ UNCHANGED left
              ELSE left' = [left EXCEPT ![h] = Tail(@)] /\ UNCHANGED at
    /\ UNCHANGED <<admin, visitor, settled, submitting, order, executed, stored,
                   behind, events, failures>>

HandlerEnds(h) ==
    /\ at[h] = "refresh" /\ left[h] = <<>>
    /\ at' = [at EXCEPT ![h] = "ended"]
    /\ Reopen(h)
    /\ UNCHANGED <<admin, visitor, fetches, loading, shown, settled, order, left,
                   executed, stored, behind, events, failures>>
-----------------------------------------------------------------------------
Runs(h) == Execute(h) \/ OrderAnswered(h) \/ RefreshNext(h) \/ HandlerEnds(h)
Answered(h) == \E f \in BagToSet(fetches) : f.by = h /\ Arrives(f)

Quiescent ==
    /\ fetches = EmptyBag /\ \A h \in Handlers : at[h] \in {"idle", "ended", "failed"}
    /\ UNCHANGED vars

Next ==
    \/ Poll \/ Visit \/ Quiescent
    \/ \E pane \in Panes \ {"admin"} : Click(pane)
    \/ \E f \in BagToSet(fetches) :
           \/ Arrives(f) \/ ComesShort(f) \/ FetchFails(f)
           \/ AdminArrives(f) \/ AdminFails(f)
    \/ \E h \in Handlers : \/ Runs(h) \/ StoreOpened(h) \/ OrderFails(h)
                           \/ \E op \in Operations[h] : Press(h, op)

Spec == Init /\ [][Next]_vars

\* The API answers every request and the browser runs what waits for it.
FairSpec == Spec /\ \A h \in Handlers : WF_vars(Runs(h) \/ Answered(h))
-----------------------------------------------------------------------------
(* Types. A call without a wallet never reaches the API.                   *)
TypeOK ==
    /\ admin \in {Nobody, Admin} /\ visitor \in {Nobody, Visitor}
    /\ IsABag(fetches)
    /\ \A f \in BagToSet(fetches) : f \in Calls /\ (NeedsWallet(f.pane) => f.wallet # Nobody)
    /\ loading \subseteq Panes /\ settled \subseteq Panes
    /\ shown \in [Panes -> Wallets \cup {Nobody}]
    /\ submitting \in BOOLEAN
    /\ at \in [Handlers -> {"idle", "order", "refresh", "await", "ended", "failed"}]
    /\ order \in [Handlers -> [op : DOMAIN Refreshes \cup {"none"}, wallet : Wallets \cup {Nobody},
                               funds : {Nobody, Admin}]]
    /\ left \in [Handlers -> Seq(Panes)]
    /\ executed \subseteq Handlers /\ stored \subseteq executed
    /\ behind \in [Handlers -> SUBSET Panes]

UnderWay(h) == at[h] \in {"order", "refresh", "await"}
Opening     == {h \in Handlers : UnderWay(h) /\ order[h].op = "open"}

(* A disabled button will work again: a loading flag is set only while a   *)
(* call of its pane waits, the form is disabled only while an order of its *)
(* is under way. Wallets change and handlers fail in between.  And the     *)
(* form never has two orders under way, from its press until what it       *)
(* changed has been shown: a second press cannot open a second position by *)
(* mistake. (The row and deposit buttons have no such guard.)              *)
ButtonsTellWhatRuns ==
    /\ \A pane \in loading : InFlight(pane) # {}
    /\ submitting => Opening # {}
    /\ Cardinality(Opening) <= 1

(* When a pane waits for nothing, the data of the wallet it is for has     *)
(* been asked for and answered since that wallet became the one it is for. *)
(* (An answer for a former wallet may have replaced it since.)             *)
PresentWalletWasShown == \A pane \in Panes : InFlight(pane) = {} => pane \in settled

(* When a handler has ended without an error, the positions and balances   *)
(* it refreshes have been shown from what was read after its order was     *)
(* executed, and the history from what was read after it was stored, if it *)
(* was and there was room: unless that pane's own refresh failed or came   *)
(* short. One that fails does not keep the next from being refreshed.      *)
OrdersAreShown == \A h \in Handlers : at[h] = "ended" => behind[h] \subseteq Overflowing

(* Every handler comes to an end, and with it the form is enabled again.   *)
HandlersEnd == \A h \in Handlers : UnderWay(h) ~> ~UnderWay(h)

=============================================================================
