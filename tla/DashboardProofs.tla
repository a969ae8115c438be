--------------------------- MODULE DashboardProofs ---------------------------
(***************************************************************************)
(* Proofs about Dashboard, for any buttons, operations and bounds.  The    *)
(* argument: a pane that has not been set for its present wallet has a     *)
(* call under way for it, because the effect of the change has made one    *)
(* and no answer but its own takes it away; a handler waits for one call   *)
(* at a time, which asks for the wallet of the handler's own closure and   *)
(* was made after its order was executed, and stored if it ever is; and    *)
(* what is not yet among the panes it has been through is among those it   *)
(* has left, but for a history that has overflowed, and stays so.          *)
(***************************************************************************)
EXTENDS Dashboard, FiniteSetTheorems, TLAPS

-----------------------------------------------------------------------------
(* The inductive invariant. *)

(* A loading flag is set only while a call of its pane waits. *)
LoadingInv == \A pane \in loading : InFlight(pane) # {}

(* The form is disabled while an order of its is under way, and only then; *)
(* there is one at most.                                                   *)
FormInv ==
    /\ submitting <=> Opening # {}
    /\ \A g, h \in Opening : g = h

(* A pane that has not been set for its wallet waits for an answer about it. *)
SettledInv ==
    \A pane \in Panes \ settled : \E f \in BagToSet(fetches) :
        f.pane = pane /\ f.wallet = Key(pane, admin, visitor)

(* What a handler waits for was asked for when all that its pane will know *)
(* of the order was known.                                                 *)
Informed(f) == f.by \in f.seen \/ (f.pane = "history" /\ f.by \notin stored)

(* The call a handler waits for is its only one, asks for what the handler *)
(* is about to tick off, and will tell of its order.                       *)
AwaitInv ==
    \A f \in BagToSet(fetches) : f.by # Nobody =>
        /\ at[f.by] = "await" /\ left[f.by] # <<>> /\ f.pane = Head(left[f.by])
        /\ f.wallet = AskedBy(f.by, f.pane) /\ Informed(f)
        /\ fetches[f] = 1
        /\ \A g \in BagToSet(fetches) : g.by = f.by => g = f

(* The panes that can know of a handler's order. *)
Concerns(h, pane) == IF NeedsWallet(pane) THEN AskedBy(h, pane) # Nobody ELSE h \in stored

(* What has not shown a handler's order is still to be refreshed by it, or *)
(* is the history with more orders than it has room for.                   *)
OrderOf(h) ==
    /\ left[h] \in Seq(Panes \ {"admin"})
    /\ at[h] # "idle" => order[h].op # "none"
    /\ at[h] = "idle" => h \notin executed
    /\ at[h] \in {"refresh", "await", "ended"} => h \in executed
    /\ h \notin executed => behind[h] = {}
    /\ \A p \in behind[h] : Concerns(h, p)
    /\ at[h] = "order" => behind[h] \subseteq Range(Refreshes[order[h].op])
    /\ at[h] \in {"refresh", "await"} => behind[h] \subseteq Range(left[h]) \cup Overflowing
    /\ at[h] = "ended" => behind[h] \subseteq Overflowing

OrderInv == \A h \in Handlers : OrderOf(h)

IInv == TypeOK /\ LoadingInv /\ FormInv /\ SettledInv /\ AwaitInv /\ OrderInv
-----------------------------------------------------------------------------
(* Bags of calls. *)

(* Calls that are made wait beside the others. *)
LEMMA BagGrows ==
    ASSUME NEW B, IsABag(B), NEW S
    PROVE  /\ IsABag(B (+) SetToBag(S))
           /\ BagToSet(B (+) SetToBag(S)) = BagToSet(B) \cup S
           /\ \A e \in BagToSet(B) \ S : (B (+) SetToBag(S))[e] = B[e]
           /\ \A e \in S \ BagToSet(B) : (B (+) SetToBag(S))[e] = 1
<1> DEFINE D == (DOMAIN B) \cup S
<1> DEFINE n(e) == (IF e \in DOMAIN B THEN B[e] ELSE 0) + (IF e \in S THEN 1 ELSE 0)
<1>1. DOMAIN SetToBag(S) = S /\ \A e \in S : SetToBag(S)[e] = 1
  BY DEF SetToBag
<1>2. B (+) SetToBag(S) = [e \in D |-> n(e)]
  BY <1>1 DEF (+)
<1>3. \A e \in DOMAIN B : B[e] \in Nat /\ B[e] > 0
  BY DEF IsABag
<1>4. \A e \in D : n(e) \in Nat /\ n(e) > 0
  BY <1>3
<1>5. \A e \in BagToSet(B) \ S : n(e) = B[e]
  BY <1>3 DEF BagToSet
<1>6. \A e \in S \ BagToSet(B) : n(e) = 1
  BY DEF BagToSet
<1> HIDE DEF n
<1> QED
  BY <1>2, <1>4, <1>5, <1>6 DEF IsABag, BagToSet

(* An answer takes one copy of its call and leaves the other calls. *)
LEMMA BagShrinks ==
    ASSUME NEW B, IsABag(B), NEW f \in BagToSet(B)
    PROVE  /\ IsABag(B (-) SetToBag({f}))
           /\ BagToSet(B (-) SetToBag({f})) \subseteq BagToSet(B)
           /\ BagToSet(B) \ {f} \subseteq BagToSet(B (-) SetToBag({f}))
           /\ B[f] = 1 => f \notin BagToSet(B (-) SetToBag({f}))
           /\ \A e \in BagToSet(B) \ {f} : (B (-) SetToBag({f}))[e] = B[e]
<1> DEFINE C == [e \in DOMAIN B |-> IF e = f THEN B[e] - 1 ELSE B[e]]
<1> DEFINE D == {e \in DOMAIN B : C[e] > 0}
<1>1. DOMAIN SetToBag({f}) = {f} /\ SetToBag({f})[f] = 1
  BY DEF SetToBag
<1>2. B (-) SetToBag({f}) = [e \in D |-> C[e]]
  BY <1>1 DEF (-)
<1>3. \A e \in DOMAIN B : B[e] \in Nat /\ B[e] > 0
  BY DEF IsABag
<1>4. \A e \in D : C[e] \in Nat /\ C[e] > 0
  BY <1>3
<1>5. \A e \in DOMAIN B : e # f => C[e] = B[e] /\ e \in D
  BY <1>3
<1>6. B[f] = 1 => f \notin D
  BY DEF BagToSet
<1>7. D \subseteq DOMAIN B
  OBVIOUS
<1> HIDE DEF C, D
<1> QED
  BY <1>2, <1>4, <1>5, <1>6, <1>7 DEF IsABag, BagToSet
-----------------------------------------------------------------------------
(* Types. *)

LEMMA CallTypes ==
    ASSUME TypeOK, NEW pane \in Panes, NEW wallet \in Wallets \cup {Nobody},
           NEW by \in Handlers \cup {Nobody}
    PROVE  /\ Call(pane, wallet, by) \in Calls
           /\ Call(pane, wallet, by).pane = pane /\ Call(pane, wallet, by).wallet = wallet
           /\ Call(pane, wallet, by).by = by
           /\ Call(pane, wallet, by).seen = Known(pane)
BY DEF Call, Calls, Known, TypeOK

LEMMA KeyType ==
    ASSUME NEW a \in {Nobody, Admin}, NEW v \in {Nobody, Visitor}, NEW pane \in Panes
    PROVE  Key(pane, a, v) \in Wallets \cup {Nobody}
BY DEF Key, Wallets

LEMMA EffectTypes ==
    ASSUME TypeOK, NEW a \in {Nobody, Admin}, NEW v \in {Nobody, Visitor}
    PROVE  /\ Effects(a, v) \subseteq Calls
           /\ \A f \in Effects(a, v) :
                 f.by = Nobody /\ f.pane \in Changed(a, v) /\ f.wallet = Key(f.pane, a, v)
           /\ \A p \in Changed(a, v) : \E f \in Effects(a, v) : f.pane = p
           /\ Changed(a, v) \subseteq Panes \ {"admin"}
<1>1. Changed(a, v) \subseteq Panes \ {"admin"}
  BY DEF Changed, Key
<1>2. ASSUME NEW p \in Changed(a, v)
      PROVE  LET f == Call(p, Key(p, a, v), Nobody)
             IN  f \in Calls /\ f.by = Nobody /\ f.pane = p /\ f.wallet = Key(p, a, v)
  BY <1>1, CallTypes, KeyType
<1> QED
  BY <1>1, <1>2 DEF Effects

LEMMA AskedByType ==
    ASSUME TypeOK, NEW h \in Handlers, NEW pane
    PROVE  AskedBy(h, pane) \in Wallets \cup {Nobody}
BY DEF TypeOK, AskedBy, Wallets

(* What starting some calls makes of the calls under way. *)
LEMMA BeginTypes ==
    ASSUME TypeOK, NEW rest, IsABag(rest), BagToSet(rest) \subseteq BagToSet(fetches),
           NEW calls \in SUBSET Calls, Begin(calls, rest)
    PROVE  /\ IsABag(fetches') /\ BagToSet(fetches') = BagToSet(rest) \cup Asks(calls)
           /\ \A f \in BagToSet(fetches') :
                 f \in Calls /\ (NeedsWallet(f.pane) => f.wallet # Nobody)
           /\ Flags(calls) \subseteq Panes /\ Clears(calls) \subseteq Panes
           /\ shown' \in [Panes -> Wallets \cup {Nobody}]
<1>1. IsABag(fetches') /\ BagToSet(fetches') = BagToSet(rest) \cup Asks(calls)
  BY BagGrows DEF Begin
<1>2. Asks(calls) \subseteq calls /\ \A f \in Asks(calls) : NeedsWallet(f.pane) => f.wallet # Nobody
  BY DEF Asks
<1>3. \A f \in Calls : f.pane \in Panes
  BY DEF Calls
<1>4. Flags(calls) \subseteq Panes /\ Clears(calls) \subseteq Panes
  BY <1>2, <1>3 DEF Flags, Clears
<1>5. shown' \in [Panes -> Wallets \cup {Nobody}]
  BY DEF Begin, TypeOK
<1> QED
  BY <1>1, <1>2, <1>4, <1>5 DEF TypeOK

LEMMA RefreshesType ==
    \A op \in DOMAIN Refreshes : Refreshes[op] \in Seq(Panes \ {"admin"})
<1> DEFINE P == Panes \ {"admin"}
<1>1. "positions" \in P /\ "balances" \in P /\ "history" \in P
  BY DEF Panes
<1> HIDE DEF P
<1>2. <<"positions", "balances", "history">> \in Seq(P) /\ <<"balances">> \in Seq(P)
  BY <1>1
<1>3. /\ DOMAIN Refreshes = {"open", "close", "transfer", "depositDrift"}
      /\ Refreshes["open"] = <<"positions", "balances", "history">>
      /\ Refreshes["close"] = <<"positions", "balances", "history">>
      /\ Refreshes["transfer"] = <<"positions", "balances", "history">>
      /\ Refreshes["depositDrift"] = <<"balances">>
  BY DEF Refreshes
<1>4. \A op \in DOMAIN Refreshes : Refreshes[op] \in Seq(P)
  BY <1>2, <1>3
<1> QED
  BY <1>4 DEF P

(* The call of an answer is of a pane, and leaves its handler at the next. *)
LEMMA ResumeTypes ==
    ASSUME IInv, NEW f \in BagToSet(fetches), Resume(f)
    PROVE  /\ at' \in [Handlers -> {"idle", "order", "refresh", "await", "ended", "failed"}]
           /\ left' \in [Handlers -> Seq(Panes)]
<1>1. CASE f.by = Nobody
  BY <1>1 DEF Resume, IInv, TypeOK
<1>2. CASE f.by # Nobody
  <2>1. left[f.by] # <<>> /\ f.by \in Handlers
    BY <1>2 DEF IInv, AwaitInv, TypeOK, Calls
  <2>2. left[f.by] \in Seq(Panes) /\ Tail(left[f.by]) \in Seq(Panes)
    BY <2>1 DEF IInv, TypeOK
  <2> QED
    BY <1>2, <2>1, <2>2 DEF Resume, IInv, TypeOK
<1> QED
  BY <1>1, <1>2

LEMMA ShowTypes ==
    ASSUME IInv, NEW f \in BagToSet(fetches), NEW wallet \in Wallets \cup {Nobody}, NEW told,
           Show(f, wallet, told)
    PROVE  TypeOK'
<1> USE DEF Show, TypeOK
<1>1. TypeOK /\ f \in Calls /\ f.pane \in Panes
  BY DEF IInv, Calls
<1>2. IsABag(fetches') /\ BagToSet(fetches') \subseteq BagToSet(fetches)
  BY <1>1, BagShrinks
<1>3. loading' \subseteq Panes /\ settled' \subseteq Panes
  BY <1>1
<1>4. shown' \in [Panes -> Wallets \cup {Nobody}]
  BY <1>1
<1>5. behind' \in [Handlers -> SUBSET Panes]
  BY <1>1
<1> QED
  BY <1>1, <1>2, <1>3, <1>4, <1>5, ResumeTypes

LEMMA RerenderTypes ==
    ASSUME TypeOK, NEW a \in {Nobody, Admin}, NEW v \in {Nobody, Visitor}, NEW rest,
           IsABag(rest), BagToSet(rest) \subseteq BagToSet(fetches), Rerender(a, v, rest),
           loading' \subseteq loading \cup Flags(Effects(a, v)),
           settled' \subseteq settled \cup Clears(Effects(a, v)) \cup {"admin"},
           UNCHANGED <<handlerVars, executed, stored, behind>>
    PROVE  TypeOK'
<1>1. Begin(Effects(a, v), rest) /\ Effects(a, v) \in SUBSET Calls
  BY EffectTypes DEF Rerender
<1>2. /\ IsABag(fetches')
      /\ \A f \in BagToSet(fetches') : f \in Calls /\ (NeedsWallet(f.pane) => f.wallet # Nobody)
      /\ Flags(Effects(a, v)) \subseteq Panes /\ Clears(Effects(a, v)) \subseteq Panes
      /\ shown' \in [Panes -> Wallets \cup {Nobody}]
  BY <1>1, BeginTypes
<1>3. admin' \in {Nobody, Admin} /\ visitor' \in {Nobody, Visitor}
  BY DEF Rerender
<1>4. loading' \subseteq Panes /\ settled' \subseteq Panes
  BY <1>2 DEF TypeOK, Panes
<1> QED
  BY <1>2, <1>3, <1>4 DEF TypeOK, handlerVars


LEMMA AdminTypes ==
    ASSUME IInv, NEW f \in BagToSet(fetches), NEW a \in {Nobody, Admin}, AdminIs(f, a)
    PROVE  TypeOK'
<1> DEFINE rest == fetches (-) SetToBag({f})
<1>1. IsABag(rest) /\ BagToSet(rest) \subseteq BagToSet(fetches)
  BY BagShrinks DEF IInv, TypeOK
<1>2. /\ TypeOK /\ visitor \in {Nobody, Visitor} /\ Rerender(a, visitor, rest)
      /\ loading' \subseteq loading \cup Flags(Effects(a, visitor))
      /\ settled' \subseteq settled \cup Clears(Effects(a, visitor)) \cup {"admin"}
      /\ UNCHANGED <<handlerVars, executed, stored, behind>>
  BY DEF AdminIs, IInv, TypeOK
<1> HIDE DEF rest
<1> QED
  BY <1>1, <1>2, RerenderTypes

LEMMA VisitTypes ==
    ASSUME TypeOK, Visit
    PROVE  TypeOK'
<1> DEFINE v == IF visitor = Nobody THEN Visitor ELSE Nobody
<1>1. /\ v \in {Nobody, Visitor} /\ admin \in {Nobody, Admin} /\ Rerender(admin, v, fetches)
      /\ loading' \subseteq loading \cup Flags(Effects(admin, v))
      /\ settled' \subseteq settled \cup Clears(Effects(admin, v)) \cup {"admin"}
      /\ UNCHANGED <<handlerVars, executed, stored, behind>>
  BY DEF Visit, TypeOK
<1>2. IsABag(fetches)
  BY DEF TypeOK
<1> HIDE DEF v
<1> QED
  BY <1>1, <1>2, RerenderTypes

(* What a handler is about to ask for. *)
LEMMA HeadTypes ==
    ASSUME IInv, NEW h \in Handlers, left[h] # <<>>
    PROVE  /\ Head(left[h]) \in Panes \ {"admin"} /\ Tail(left[h]) \in Seq(Panes \ {"admin"})
           /\ LET f == Call(Head(left[h]), AskedBy(h, Head(left[h])), h)
              IN  /\ f \in Calls /\ f.pane = Head(left[h]) /\ f.by = h
                  /\ f.wallet = AskedBy(h, Head(left[h])) /\ f.seen = Known(Head(left[h]))
<1>1. left[h] \in Seq(Panes \ {"admin"}) /\ TypeOK
  BY DEF IInv, OrderInv, OrderOf
<1>2. Head(left[h]) \in Panes \ {"admin"} /\ Tail(left[h]) \in Seq(Panes \ {"admin"})
  BY <1>1
<1> DEFINE pane == Head(left[h])
           wallet == AskedBy(h, Head(left[h]))
<1>3. pane \in Panes /\ pane # "admin" /\ wallet \in Wallets \cup {Nobody}
  BY <1>1, <1>2, AskedByType
<1> HIDE DEF pane, wallet
<1>4. /\ Call(pane, wallet, h) \in Calls /\ Call(pane, wallet, h).pane = pane
      /\ Call(pane, wallet, h).wallet = wallet /\ Call(pane, wallet, h).by = h
      /\ Call(pane, wallet, h).seen = Known(pane)
  BY <1>1, <1>3 DEF Call, Calls, Known, TypeOK
<1> QED
  BY <1>2, <1>4 DEF pane, wallet

LEMMA RefreshTypes ==
    ASSUME IInv, NEW h \in Handlers, RefreshNext(h)
    PROVE  TypeOK'
<1> DEFINE f == Call(Head(left[h]), AskedBy(h, Head(left[h])), h)
<1>1. /\ at[h] = "refresh" /\ left[h] # <<>> /\ Begin({f}, fetches)
      /\ loading' = loading \cup Flags({f})
      /\ \/ at' = [at EXCEPT ![h] = "await"] /\ UNCHANGED left
         \/ left' = [left EXCEPT ![h] = Tail(@)] /\ UNCHANGED at
      /\ UNCHANGED <<admin, visitor, settled, submitting, order, executed, stored, behind>>
  BY DEF RefreshNext
<1>2. {f} \in SUBSET Calls /\ TypeOK /\ IsABag(fetches)
  BY <1>1, HeadTypes DEF IInv, TypeOK
<1>3. Tail(left[h]) \in Seq(Panes)
  BY <1>1, HeadTypes
<1> HIDE DEF f
<1>4. /\ IsABag(fetches')
      /\ \A g \in BagToSet(fetches') : g \in Calls /\ (NeedsWallet(g.pane) => g.wallet # Nobody)
      /\ Flags({f}) \subseteq Panes
      /\ shown' \in [Panes -> Wallets \cup {Nobody}]
  BY <1>1, <1>2, BeginTypes
<1>5. left' \in [Handlers -> Seq(Panes)]
  BY <1>1, <1>2, <1>3 DEF TypeOK
<1> QED
  BY <1>1, <1>2, <1>4, <1>5 DEF TypeOK

LEMMA TypeStep ==
    ASSUME IInv, [Next]_vars
    PROVE  TypeOK'
<1>0. TypeOK
  BY DEF IInv
<1>1. CASE Poll
  <2> DEFINE f == Call("admin", Nobody, Nobody)
  <2>1. f \in Calls /\ f.pane = "admin"
    BY <1>0, CallTypes DEF Panes
  <2>2. IsABag(fetches') /\ BagToSet(fetches') = BagToSet(fetches) \cup {f}
    BY <1>0, <1>1, BagGrows DEF Poll, TypeOK
  <2>3. ~NeedsWallet("admin")
    BY DEF NeedsWallet
  <2> QED
    BY <1>0, <1>1, <2>1, <2>2, <2>3 DEF Poll, TypeOK, Panes, handlerVars
<1>2. CASE Visit
  BY <1>0, <1>2, VisitTypes
<1>3. ASSUME NEW pane \in Panes, Click(pane)
      PROVE  TypeOK'
  <2> DEFINE f == Call(pane, Key(pane, admin, visitor), Nobody)
  <2>1. {f} \in SUBSET Calls /\ IsABag(fetches)
    <3>1. Key(pane, admin, visitor) \in Wallets \cup {Nobody} /\ IsABag(fetches)
      BY <1>0, KeyType DEF TypeOK
    <3>2. f \in Calls
      BY <1>0, <3>1, CallTypes
    <3> QED
      BY <3>1, <3>2
  <2>2. Begin({f}, fetches) /\ loading' = loading \cup Flags({f})
        /\ UNCHANGED <<admin, visitor, settled, handlerVars, executed, stored, behind, failures>>
    BY <1>3 DEF Click
  <2> HIDE DEF f
  <2>3. /\ IsABag(fetches')
        /\ \A g \in BagToSet(fetches') : g \in Calls /\ (NeedsWallet(g.pane) => g.wallet # Nobody)
        /\ Flags({f}) \subseteq Panes
        /\ shown' \in [Panes -> Wallets \cup {Nobody}]
    BY <1>0, <2>1, <2>2, BeginTypes
  <2> QED
    BY <1>0, <2>2, <2>3 DEF TypeOK, handlerVars
<1>4. ASSUME NEW f \in BagToSet(fetches), Arrives(f) \/ ComesShort(f) \/ FetchFails(f)
      PROVE  TypeOK'
  <2>1. f.wallet \in Wallets \cup {Nobody}
    BY <1>0 DEF TypeOK, Calls
  <2> QED
    BY <1>4, <2>1, ShowTypes DEF Arrives, ComesShort, FetchFails
<1>5. ASSUME NEW f \in BagToSet(fetches), AdminArrives(f) \/ AdminFails(f)
      PROVE  TypeOK'
  BY <1>5, AdminTypes DEF AdminArrives, AdminFails
<1>6. ASSUME NEW h \in Handlers, Execute(h)
      PROVE  TypeOK'
  <2>1. order[h].op \in DOMAIN Refreshes
    BY <1>6 DEF IInv, OrderInv, OrderOf, Execute, TypeOK
  <2>2. Range(Refreshes[order[h].op]) \subseteq Panes
    BY <2>1, RefreshesType DEF Range
  <2> QED
    BY <1>0, <1>6, <2>2 DEF Execute, TypeOK, handlerVars
<1>7. ASSUME NEW h \in Handlers, OrderAnswered(h)
      PROVE  TypeOK'
  <2>1. order[h].op \in DOMAIN Refreshes
    BY <1>7 DEF IInv, OrderInv, OrderOf, OrderAnswered, TypeOK
  <2>2. Refreshes[order[h].op] \in Seq(Panes \ {"admin"})
    BY <2>1, RefreshesType
  <2>3. Refreshes[order[h].op] \in Seq(Panes)
    BY <2>2
  <2> QED
    BY <1>0, <1>7, <2>3 DEF OrderAnswered, TypeOK
<1>8. ASSUME NEW h \in Handlers, RefreshNext(h)
      PROVE  TypeOK'
  BY <1>8, RefreshTypes
<1>9. ASSUME NEW h \in Handlers, HandlerEnds(h) \/ OrderFails(h)
      PROVE  TypeOK'
  BY <1>0, <1>9 DEF HandlerEnds, OrderFails, Reopen, TypeOK
<1>10. ASSUME NEW h \in Handlers, NEW op \in Operations[h], Press(h, op)
       PROVE  TypeOK'
  <2>1. op \in DOMAIN Refreshes
    BY DashboardAssumption
  <2>2. Key("positions", admin, visitor) \in Wallets \cup {Nobody} /\ admin \in {Nobody, Admin}
    BY <1>0, KeyType DEF TypeOK, Panes
  <2> HIDE DEF Refreshes
  <2> QED
    BY <1>0, <1>10, <2>1, <2>2 DEF Press, TypeOK
<1>11. ASSUME NEW h \in Handlers, StoreOpened(h)
       PROVE  TypeOK'
  BY <1>0, <1>11 DEF StoreOpened, TypeOK, Panes, handlerVars
<1>12. CASE UNCHANGED vars
  BY <1>0, <1>12 DEF vars, handlerVars, TypeOK
<1> QED
  BY <1>1, <1>2, <1>3, <1>4, <1>5, <1>6, <1>7, <1>8, <1>9, <1>10, <1>11, <1>12
  DEF Next, Runs, Quiescent


-----------------------------------------------------------------------------
(* What an action makes of the calls under way: it may take one and makes  *)
(* some, which wait beside the rest.                                       *)

Takes(gone, calls) ==
    /\ gone \subseteq BagToSet(fetches)
    /\ BagToSet(fetches') \subseteq BagToSet(fetches) \cup calls
    /\ (BagToSet(fetches) \ gone) \cup calls \subseteq BagToSet(fetches')
    /\ \A g \in BagToSet(fetches) \ (gone \cup calls) : fetches'[g] = fetches[g]
    /\ \A g \in calls \ BagToSet(fetches) : fetches'[g] = 1
    /\ \A g \in gone \ calls : fetches[g] = 1 => g \notin BagToSet(fetches')

LEMMA MakesOnly ==
    ASSUME TypeOK, NEW S, fetches' = fetches (+) SetToBag(S)
    PROVE  Takes({}, S)
<1>1. IsABag(fetches)
  BY DEF TypeOK
<1> QED
  BY <1>1, BagGrows DEF Takes

LEMMA TakesOnly ==
    ASSUME TypeOK, NEW f \in BagToSet(fetches), fetches' = fetches (-) SetToBag({f})
    PROVE  Takes({f}, {})
<1>1. IsABag(fetches)
  BY DEF TypeOK
<1> QED
  BY <1>1, BagShrinks DEF Takes

LEMMA TakesAndMakes ==
    ASSUME TypeOK, NEW f \in BagToSet(fetches), NEW S,
           NEW rest, rest = fetches (-) SetToBag({f}), fetches' = rest (+) SetToBag(S)
    PROVE  Takes({f}, S)
<1>1. IsABag(fetches)
  BY DEF TypeOK
<1>2. /\ IsABag(rest) /\ BagToSet(rest) \subseteq BagToSet(fetches)
      /\ BagToSet(fetches) \ {f} \subseteq BagToSet(rest)
      /\ fetches[f] = 1 => f \notin BagToSet(rest)
      /\ \A e \in BagToSet(fetches) \ {f} : rest[e] = fetches[e]
  BY <1>1, BagShrinks
<1>3. IsABag(rest)
  BY <1>2
<1>4. /\ BagToSet(rest (+) SetToBag(S)) = BagToSet(rest) \cup S
      /\ \A e \in BagToSet(rest) \ S : (rest (+) SetToBag(S))[e] = rest[e]
      /\ \A e \in S \ BagToSet(rest) : (rest (+) SetToBag(S))[e] = 1
  BY ONLY <1>3, BagGrows
<1> QED
  <2>1. /\ BagToSet(fetches') = BagToSet(rest) \cup S
        /\ \A e \in BagToSet(rest) \ S : fetches'[e] = rest[e]
        /\ \A e \in S \ BagToSet(rest) : fetches'[e] = 1
    BY <1>4
  <2>2. \A g \in BagToSet(fetches) \ ({f} \cup S) : fetches'[g] = fetches[g]
    BY <1>2, <2>1
  <2>3. \A g \in S \ BagToSet(fetches) : fetches'[g] = 1
    BY <1>2, <2>1
  <2>4. (BagToSet(fetches) \ {f}) \cup S \subseteq BagToSet(fetches')
        /\ BagToSet(fetches') \subseteq BagToSet(fetches) \cup S
    BY <1>2, <2>1
  <2>5. \A g \in {f} \ S : fetches[g] = 1 => g \notin BagToSet(fetches')
    BY <1>2, <2>1
  <2> QED
    BY <2>2, <2>3, <2>4, <2>5 DEF Takes

(* Each call of some either waits for an answer or has cleared its pane. *)
LEMMA AsksOf ==
    ASSUME NEW calls
    PROVE  /\ Asks(calls) \subseteq calls
           /\ \A p \in Flags(calls) : \E f \in Asks(calls) : f.pane = p
           /\ \A f \in calls : f \in Asks(calls) \/ f.pane \in Clears(calls)
BY DEF Asks, Flags, Clears

(* An answer about the administrator's wallet is not one a handler awaits. *)
LEMMA AdminIsNotAwaited ==
    ASSUME IInv, NEW f \in BagToSet(fetches), f.pane = "admin"
    PROVE  f.by = Nobody
<1> SUFFICES ASSUME f.by # Nobody PROVE FALSE
  OBVIOUS
<1>1. f.by \in Handlers /\ left[f.by] # <<>> /\ f.pane = Head(left[f.by])
  BY DEF IInv, AwaitInv, TypeOK, Calls
<1> QED
  BY <1>1, HeadTypes

-----------------------------------------------------------------------------
(* Loading flags. *)

LEMMA LoadingFrame ==
    ASSUME IInv, NEW gone, NEW calls, Takes(gone, calls),
           \A p \in loading' : \/ p \in loading /\ \A g \in gone : g.pane # p
                               \/ \E f \in calls : f.pane = p
    PROVE  LoadingInv'
<1> SUFFICES ASSUME NEW p \in loading'
             PROVE  \E f \in BagToSet(fetches') : f.pane = p
  BY DEF LoadingInv, InFlight
<1>1. CASE p \in loading /\ \A g \in gone : g.pane # p
  BY <1>1 DEF IInv, LoadingInv, InFlight, Takes
<1>2. CASE \E f \in calls : f.pane = p
  BY <1>2 DEF Takes
<1> QED
  BY <1>1, <1>2

LEMMA LoadingStep ==
    ASSUME IInv, [Next]_vars
    PROVE  LoadingInv'
<1>0. TypeOK
  BY DEF IInv
<1>1. CASE Poll
  <2> DEFINE f == Call("admin", Nobody, Nobody)
  <2>1. Takes({}, {f}) /\ loading' = loading \cup {"admin"}
    BY <1>0, <1>1, MakesOnly DEF Poll
  <2>2. f.pane = "admin"
    BY DEF Call
  <2> HIDE DEF f
  <2> QED
    BY <2>1, <2>2, LoadingFrame
<1>2. CASE Visit
  <2> DEFINE v == IF visitor = Nobody THEN Visitor ELSE Nobody
             calls == Asks(Effects(admin, v))
  <2>1. /\ fetches' = fetches (+) SetToBag(calls)
        /\ loading' = loading \cup Flags(Effects(admin, v))
    BY <1>2 DEF Visit, Rerender, Begin
  <2>2. \A p \in Flags(Effects(admin, v)) : \E f \in calls : f.pane = p
    BY AsksOf
  <2>3. Takes({}, calls)
    BY <1>0, <2>1, MakesOnly
  <2> HIDE DEF calls, v
  <2> QED
    BY <2>1, <2>2, <2>3, LoadingFrame
<1>3. ASSUME NEW pane \in Panes, Click(pane)
      PROVE  LoadingInv'
  <2> DEFINE S == {Call(pane, Key(pane, admin, visitor), Nobody)}
             calls == Asks(S)
  <2>1. fetches' = fetches (+) SetToBag(calls) /\ loading' = loading \cup Flags(S)
    BY <1>3 DEF Click, Begin
  <2>2. \A p \in Flags(S) : \E f \in calls : f.pane = p
    BY AsksOf
  <2>3. Takes({}, calls)
    BY <1>0, <2>1, MakesOnly
  <2> HIDE DEF calls, S
  <2> QED
    BY <2>1, <2>2, <2>3, LoadingFrame
<1>4. ASSUME NEW f \in BagToSet(fetches), Arrives(f) \/ ComesShort(f) \/ FetchFails(f)
      PROVE  LoadingInv'
  <2>1. fetches' = fetches (-) SetToBag({f}) /\ loading' = loading \ {f.pane}
    BY <1>4 DEF Arrives, ComesShort, FetchFails, Show
  <2>2. Takes({f}, {})
    BY <1>0, <2>1, TakesOnly
  <2>3. \A p \in loading' : p \in loading /\ \A g \in {f} : g.pane # p
    BY <2>1
  <2> QED
    BY <2>2, <2>3, LoadingFrame
<1>5. ASSUME NEW f \in BagToSet(fetches), NEW a, AdminIs(f, a)
      PROVE  LoadingInv'
  <2> DEFINE calls == Asks(Effects(a, visitor))
  <2>1. /\ fetches' = (fetches (-) SetToBag({f})) (+) SetToBag(calls) /\ f.pane = "admin"
        /\ loading' = (loading \ {"admin"}) \cup Flags(Effects(a, visitor))
    BY <1>5 DEF AdminIs, Rerender, Begin
  <2>2. \A p \in Flags(Effects(a, visitor)) : \E g \in calls : g.pane = p
    BY AsksOf
  <2>3. Takes({f}, calls)
    BY <1>0, <2>1, TakesAndMakes
  <2> HIDE DEF calls
  <2>4. \A p \in loading' : \/ p \in loading /\ \A g \in {f} : g.pane # p
                            \/ \E g \in calls : g.pane = p
    BY <2>1, <2>2
  <2> QED
    BY <2>3, <2>4, LoadingFrame
<1>6. ASSUME NEW h \in Handlers, RefreshNext(h)
      PROVE  LoadingInv'
  <2> DEFINE S == {Call(Head(left[h]), AskedBy(h, Head(left[h])), h)}
             calls == Asks(S)
  <2>1. fetches' = fetches (+) SetToBag(calls) /\ loading' = loading \cup Flags(S)
    BY <1>6 DEF RefreshNext, Begin
  <2>2. \A p \in Flags(S) : \E f \in calls : f.pane = p
    BY AsksOf
  <2>3. Takes({}, calls)
    BY <1>0, <2>1, MakesOnly
  <2> HIDE DEF calls, S
  <2> QED
    BY <2>1, <2>2, <2>3, LoadingFrame
<1>7. CASE UNCHANGED <<fetches, loading>>
  BY <1>7 DEF IInv, LoadingInv, InFlight
<1>8. ASSUME NEW h \in Handlers, \/ Execute(h) \/ StoreOpened(h) \/ OrderAnswered(h)
                                  \/ HandlerEnds(h) \/ OrderFails(h)
      PROVE  UNCHANGED <<fetches, loading>>
  BY <1>8 DEF Execute, StoreOpened, OrderAnswered, HandlerEnds, OrderFails
<1>9. ASSUME NEW h \in Handlers, NEW op, Press(h, op)
      PROVE  UNCHANGED <<fetches, loading>>
  BY <1>9 DEF Press
<1> QED
  BY <1>1, <1>2, <1>3, <1>4, <1>5, <1>6, <1>7, <1>8, <1>9
  DEF Next, Runs, Quiescent, vars, AdminArrives, AdminFails


-----------------------------------------------------------------------------
(* The order form. *)

LEMMA FormFrame ==
    ASSUME IInv, UNCHANGED submitting,
           \A h \in Handlers : (UnderWay(h) /\ order[h].op = "open")' <=>
                               (UnderWay(h) /\ order[h].op = "open")
    PROVE  FormInv'
<1>1. Opening' = Opening
  BY DEF Opening
<1> QED
  BY <1>1 DEF IInv, FormInv

LEMMA ReopenStep ==
    ASSUME IInv, NEW h \in Handlers, UnderWay(h), Reopen(h), UNCHANGED order,
           NEW end \in {"ended", "failed"}, at' = [at EXCEPT ![h] = end]
    PROVE  FormInv'
<1>1. \A g \in Handlers : g # h => at'[g] = at[g]
  BY DEF IInv, TypeOK
<1>2. at'[h] = end
  BY DEF IInv, TypeOK
<1>3. Opening' = Opening \ {h}
  BY <1>1, <1>2 DEF Opening, UnderWay
<1>4. CASE order[h].op = "open"
  <2>1. Opening' = {} /\ ~submitting'
    BY <1>3, <1>4 DEF IInv, FormInv, Opening, Reopen
  <2> QED
    BY <2>1 DEF FormInv
<1>5. CASE order[h].op # "open"
  <2>1. Opening' = Opening /\ (submitting' <=> submitting)
    BY <1>3, <1>5 DEF Opening, Reopen
  <2> QED
    BY <2>1 DEF IInv, FormInv
<1> QED
  BY <1>4, <1>5

LEMMA PressStep ==
    ASSUME IInv, NEW h \in Handlers, NEW op \in Operations[h], Press(h, op)
    PROVE  FormInv'
<1>1. /\ \A g \in Handlers : g # h => at'[g] = at[g] /\ order'[g] = order[g]
      /\ at'[h] = "order" /\ order'[h].op = op /\ at[h] = "idle"
  BY DEF Press, IInv, TypeOK
<1>2. h \notin Opening
  BY <1>1 DEF Opening, UnderWay
<1>3. CASE op = "open"
  <2>1. ~submitting /\ submitting'
    BY <1>3 DEF Press, Offered
  <2>2. Opening = {}
    BY <2>1 DEF IInv, FormInv
  <2>3. Opening' = {h}
    BY <1>1, <1>3, <2>2 DEF Opening, UnderWay
  <2> QED
    BY <2>1, <2>3 DEF FormInv
<1>4. CASE op # "open"
  <2>1. submitting' <=> submitting
    BY <1>4 DEF Press
  <2>2. Opening' = Opening
    BY <1>1, <1>2, <1>4 DEF Opening, UnderWay
  <2> QED
    BY <2>1, <2>2 DEF IInv, FormInv
<1> QED
  BY <1>3, <1>4

(* A handler that an answer resumes was under way and still is. *)
LEMMA ResumeMoves ==
    ASSUME IInv, NEW f \in BagToSet(fetches), Resume(f)
    PROVE  \A h \in Handlers : \/ at'[h] = at[h] /\ left'[h] = left[h] /\ h # f.by
                               \/ /\ h = f.by /\ at[h] = "await" /\ at'[h] = "refresh"
                                  /\ left[h] # <<>> /\ left'[h] = Tail(left[h])
<1>1. CASE f.by = Nobody
  BY <1>1, DashboardAssumption DEF Resume
<1>2. CASE f.by # Nobody
  <2>1. f.by \in Handlers /\ at[f.by] = "await" /\ left[f.by] # <<>>
    BY <1>2 DEF IInv, TypeOK, Calls, AwaitInv
  <2> QED
    BY <1>2, <2>1 DEF Resume, IInv, TypeOK
<1> QED
  BY <1>1, <1>2

LEMMA FormStep ==
    ASSUME IInv, [Next]_vars
    PROVE  FormInv'
<1>1. CASE UNCHANGED handlerVars
  BY <1>1, FormFrame DEF handlerVars, UnderWay
<1>2. CASE Poll \/ Visit \/ Quiescent
  BY <1>1, <1>2 DEF Poll, Visit, Quiescent, vars, handlerVars
<1>3. ASSUME NEW pane \in Panes, Click(pane)
      PROVE  FormInv'
  BY <1>1, <1>3 DEF Click
<1>4. ASSUME NEW f \in BagToSet(fetches), Arrives(f) \/ ComesShort(f) \/ FetchFails(f)
      PROVE  FormInv'
  <2>1. Resume(f) /\ UNCHANGED <<submitting, order>>
    BY <1>4 DEF Arrives, ComesShort, FetchFails, Show
  <2>2. \A h \in Handlers : UnderWay(h)' <=> UnderWay(h)
    BY <2>1, ResumeMoves DEF UnderWay
  <2> QED
    BY <2>1, <2>2, FormFrame
<1>5. ASSUME NEW f \in BagToSet(fetches), AdminArrives(f) \/ AdminFails(f)
      PROVE  FormInv'
  BY <1>1, <1>5 DEF AdminArrives, AdminFails, AdminIs
<1>6. ASSUME NEW h \in Handlers, Execute(h) \/ StoreOpened(h)
      PROVE  FormInv'
  BY <1>1, <1>6 DEF Execute, StoreOpened
<1>7. ASSUME NEW h \in Handlers, OrderAnswered(h) \/ RefreshNext(h)
      PROVE  FormInv'
  <2>1. UNCHANGED <<submitting, order>> /\ UnderWay(h)
    BY <1>7 DEF OrderAnswered, RefreshNext, UnderWay
  <2>2. UnderWay(h)' /\ \A g \in Handlers : g # h => at'[g] = at[g]
    BY <1>7 DEF OrderAnswered, RefreshNext, UnderWay, IInv, TypeOK
  <2>3. \A g \in Handlers : UnderWay(g)' <=> UnderWay(g)
    BY <2>1, <2>2 DEF UnderWay
  <2> QED
    BY <2>1, <2>3, FormFrame
<1>8. ASSUME NEW h \in Handlers, HandlerEnds(h)
      PROVE  FormInv'
  BY <1>8, ReopenStep DEF HandlerEnds, UnderWay
<1>9. ASSUME NEW h \in Handlers, OrderFails(h)
      PROVE  FormInv'
  BY <1>9, ReopenStep DEF OrderFails, UnderWay
<1>10. ASSUME NEW h \in Handlers, NEW op \in Operations[h], Press(h, op)
       PROVE  FormInv'
  BY <1>10, PressStep
<1>11. CASE UNCHANGED vars
  BY <1>1, <1>11 DEF vars
<1> QED
  BY <1>2, <1>3, <1>4, <1>5, <1>6, <1>7, <1>8, <1>9, <1>10, <1>11 DEF Next, Runs

-----------------------------------------------------------------------------
(* Panes that wait for the data of their present wallet. *)

(* Calls that stay go on waiting; what was not settled and is not settled  *)
(* now either waits as before or has just been asked for.                  *)
LEMMA SettledFrame ==
    ASSUME IInv, NEW gone, NEW calls, Takes(gone, calls),
           \A p \in Panes \ settled' :
               \/ \E f \in calls : f.pane = p /\ f.wallet = Key(p, admin', visitor')
               \/ /\ p \notin settled /\ Key(p, admin', visitor') = Key(p, admin, visitor)
                  /\ \A g \in gone : g.pane = p => g.wallet # Key(p, admin, visitor)
    PROVE  SettledInv'
<1> SUFFICES ASSUME NEW p \in Panes \ settled'
             PROVE  \E f \in BagToSet(fetches') :
                        f.pane = p /\ f.wallet = Key(p, admin', visitor')
  BY DEF SettledInv
<1>1. CASE \E f \in calls : f.pane = p /\ f.wallet = Key(p, admin', visitor')
  BY <1>1 DEF Takes
<1>2. CASE /\ p \notin settled /\ Key(p, admin', visitor') = Key(p, admin, visitor)
           /\ \A g \in gone : g.pane = p => g.wallet # Key(p, admin, visitor)
  <2>1. PICK f \in BagToSet(fetches) : f.pane = p /\ f.wallet = Key(p, admin, visitor)
    BY <1>2 DEF IInv, SettledInv
  <2> QED
    BY <1>2, <2>1 DEF Takes
<1> QED
  BY <1>1, <1>2


LEMMA RerenderSettles ==
    ASSUME IInv, NEW a \in {Nobody, Admin}, NEW v \in {Nobody, Visitor}, NEW gone,
           Takes(gone, Asks(Effects(a, v))), \A g \in gone : g.pane \in settled',
           (settled \ Changed(a, v)) \cup Clears(Effects(a, v)) \subseteq settled',
           admin' = a, visitor' = v
    PROVE  SettledInv'
<1>1. ASSUME NEW p \in Panes \ settled', p \in Changed(a, v)
      PROVE  \E f \in Asks(Effects(a, v)) : f.pane = p /\ f.wallet = Key(p, admin', visitor')
  <2>1. PICK f \in Effects(a, v) : f.pane = p
    BY <1>1, EffectTypes DEF IInv
  <2>2. f.wallet = Key(p, a, v)
    BY <2>1, EffectTypes DEF IInv
  <2>3. f \in Asks(Effects(a, v))
    BY <1>1, <2>1, AsksOf
  <2> QED
    BY <2>1, <2>2, <2>3
<1>2. ASSUME NEW p \in Panes \ settled', p \notin Changed(a, v)
      PROVE  /\ p \notin settled /\ Key(p, admin', visitor') = Key(p, admin, visitor)
             /\ \A g \in gone : g.pane # p
  BY <1>2 DEF Changed
<1>3. \A p \in Panes \ settled' :
         \/ \E f \in Asks(Effects(a, v)) : f.pane = p /\ f.wallet = Key(p, admin', visitor')
         \/ /\ p \notin settled /\ Key(p, admin', visitor') = Key(p, admin, visitor)
            /\ \A g \in gone : g.pane = p => g.wallet # Key(p, admin, visitor)
  BY <1>1, <1>2
<1> QED
  BY <1>3, SettledFrame

LEMMA SettledStep ==
    ASSUME IInv, [Next]_vars
    PROVE  SettledInv'
<1>0. TypeOK
  BY DEF IInv
<1>1. ASSUME NEW S, fetches' = fetches (+) SetToBag(S), UNCHANGED <<admin, visitor, settled>>
      PROVE  SettledInv'
  <2>1. Takes({}, S)
    BY <1>0, <1>1, MakesOnly
  <2> QED
    BY <1>1, <2>1, SettledFrame
<1>2. CASE Poll
  BY <1>1, <1>2 DEF Poll
<1>3. CASE Visit
  <2> DEFINE v == IF visitor = Nobody THEN Visitor ELSE Nobody
             calls == Asks(Effects(admin, v))
  <2>1. /\ fetches' = fetches (+) SetToBag(calls) /\ admin' = admin /\ visitor' = v
        /\ settled' = (settled \ Changed(admin, v)) \cup Clears(Effects(admin, v))
        /\ v \in {Nobody, Visitor} /\ admin \in {Nobody, Admin}
    BY <1>0, <1>3 DEF Visit, Rerender, Begin, TypeOK
  <2>2. Takes({}, calls)
    BY <1>0, <2>1, MakesOnly
  <2> HIDE DEF v
  <2> QED
    BY <2>1, <2>2, RerenderSettles
<1>4. ASSUME NEW pane \in Panes, Click(pane)
      PROVE  SettledInv'
  <2> DEFINE S == {Call(pane, Key(pane, admin, visitor), Nobody)}
  <2>1. fetches' = fetches (+) SetToBag(Asks(S)) /\ UNCHANGED <<admin, visitor, settled>>
    BY <1>4 DEF Click, Begin
  <2> QED
    BY <1>1, <2>1
<1>5. ASSUME NEW f \in BagToSet(fetches), Arrives(f) \/ ComesShort(f) \/ FetchFails(f)
      PROVE  SettledInv'
  <2>1. /\ fetches' = fetches (-) SetToBag({f}) /\ UNCHANGED <<admin, visitor>>
        /\ settled' = IF f.wallet = Key(f.pane, admin, visitor)
                      THEN settled \cup {f.pane} ELSE settled
    BY <1>5 DEF Arrives, ComesShort, FetchFails, Show
  <2>2. Takes({f}, {})
    BY <1>0, <2>1, TakesOnly
  <2>3. \A p \in Panes \ settled' :
           /\ p \notin settled /\ Key(p, admin', visitor') = Key(p, admin, visitor)
           /\ \A g \in {f} : g.pane = p => g.wallet # Key(p, admin, visitor)
    BY <2>1
  <2> QED
    BY <2>2, <2>3, SettledFrame
<1>6. ASSUME NEW f \in BagToSet(fetches), NEW a \in {Nobody, Admin}, AdminIs(f, a)
      PROVE  SettledInv'
  <2> DEFINE calls == Asks(Effects(a, visitor))
  <2>1. /\ fetches' = (fetches (-) SetToBag({f})) (+) SetToBag(calls)
        /\ f.pane = "admin" /\ admin' = a /\ visitor' = visitor
        /\ settled' = (settled \ Changed(a, visitor)) \cup Clears(Effects(a, visitor))
                          \cup {"admin"}
        /\ visitor \in {Nobody, Visitor}
    BY <1>0, <1>6 DEF AdminIs, Rerender, Begin, TypeOK
  <2>2. Takes({f}, calls)
    BY <1>0, <2>1, TakesAndMakes
  <2>3. /\ \A g \in {f} : g.pane \in settled'
        /\ (settled \ Changed(a, visitor)) \cup Clears(Effects(a, visitor)) \subseteq settled'
    BY <2>1
  <2> QED
    BY <2>1, <2>2, <2>3, RerenderSettles
<1>7. ASSUME NEW h \in Handlers, RefreshNext(h)
      PROVE  SettledInv'
  <2> DEFINE S == {Call(Head(left[h]), AskedBy(h, Head(left[h])), h)}
  <2>1. fetches' = fetches (+) SetToBag(Asks(S)) /\ UNCHANGED <<admin, visitor, settled>>
    BY <1>7 DEF RefreshNext, Begin
  <2> QED
    BY <1>1, <2>1
<1>8. CASE UNCHANGED <<fetches, admin, visitor, settled>>
  BY <1>8 DEF IInv, SettledInv, Key
<1>9. ASSUME NEW h \in Handlers, \/ Execute(h) \/ StoreOpened(h) \/ OrderAnswered(h)
                                  \/ HandlerEnds(h) \/ OrderFails(h)
      PROVE  UNCHANGED <<fetches, admin, visitor, settled>>
  BY <1>9 DEF Execute, StoreOpened, OrderAnswered, HandlerEnds, OrderFails
<1>10. ASSUME NEW h \in Handlers, NEW op, Press(h, op)
       PROVE  UNCHANGED <<fetches, admin, visitor, settled>>
  BY <1>10 DEF Press
<1> QED
  BY <1>2, <1>3, <1>4, <1>5, <1>6, <1>7, <1>8, <1>9, <1>10
  DEF Next, Runs, Quiescent, vars, AdminArrives, AdminFails

-----------------------------------------------------------------------------
(* Calls that a handler waits for. *)

LEMMA AwaitFrame ==
    ASSUME IInv,
           \A g \in BagToSet(fetches') : g.by # Nobody =>
               /\ g \in BagToSet(fetches) /\ fetches'[g] = fetches[g]
               /\ at'[g.by] = at[g.by] /\ left'[g.by] = left[g.by] /\ order'[g.by] = order[g.by]
               /\ g.by \in stored' => g.by \in stored
    PROVE  AwaitInv'
<1> SUFFICES ASSUME NEW f \in BagToSet(fetches'), f.by # Nobody
             PROVE  /\ at'[f.by] = "await" /\ left'[f.by] # <<>> /\ f.pane = Head(left'[f.by])
                    /\ f.wallet = AskedBy(f.by, f.pane)' /\ Informed(f)'
                    /\ fetches'[f] = 1
                    /\ \A g \in BagToSet(fetches') : g.by = f.by => g = f
  BY DEF AwaitInv, Informed
<1>1. f \in BagToSet(fetches)
  OBVIOUS
<1>2. AskedBy(f.by, f.pane)' = AskedBy(f.by, f.pane)
  BY DEF AskedBy
<1>3. Informed(f) => Informed(f)'
  BY DEF Informed
<1> QED
  BY <1>1, <1>2, <1>3 DEF IInv, AwaitInv

(* Calls made by the page itself. *)
LEMMA PageCalls ==
    ASSUME IInv, NEW gone, NEW calls, Takes(gone, calls),
           \A g \in calls : g.by = Nobody, \A g \in gone : g.by = Nobody,
           UNCHANGED <<at, left, order, stored>>
    PROVE  AwaitInv'
<1>1. \A g \in BagToSet(fetches') : g.by # Nobody =>
         g \in BagToSet(fetches) /\ fetches'[g] = fetches[g]
  BY DEF Takes
<1> QED
  BY <1>1, AwaitFrame

(* An answer takes the only call of the handler that waited for it. *)
LEMMA AnswerTakes ==
    ASSUME IInv, NEW f \in BagToSet(fetches), Takes({f}, {}), Resume(f),
           UNCHANGED <<order, stored>>
    PROVE  AwaitInv'
<1>1. ASSUME NEW g \in BagToSet(fetches'), g.by # Nobody
      PROVE  /\ g \in BagToSet(fetches) /\ fetches'[g] = fetches[g]
             /\ at'[g.by] = at[g.by] /\ left'[g.by] = left[g.by]
  <2>1. g \in BagToSet(fetches) /\ g.by \in Handlers
    BY <1>1 DEF Takes, IInv, TypeOK, Calls
  <2>2. g.by # f.by
    <3> SUFFICES ASSUME g.by = f.by PROVE FALSE
      OBVIOUS
    <3>1. g = f /\ fetches[f] = 1
      BY <1>1, <2>1 DEF IInv, AwaitInv
    <3> QED
      BY <3>1 DEF Takes
  <2>3. fetches'[g] = fetches[g]
    BY <2>1, <2>2 DEF Takes
  <2> QED
    BY <2>1, <2>2, <2>3, ResumeMoves
<1> QED
  BY <1>1, AwaitFrame

(* A handler that waits for no call may go anywhere. *)
LEMMA NotAwaited ==
    ASSUME IInv, NEW h \in Handlers, at[h] # "await", UNCHANGED fetches,
           \A g \in Handlers \ {h} :
               /\ at'[g] = at[g] /\ left'[g] = left[g] /\ order'[g] = order[g]
               /\ g \in stored' => g \in stored
    PROVE  AwaitInv'
<1>1. \A g \in BagToSet(fetches') : g.by # Nobody => g.by \in Handlers \ {h}
  BY DEF IInv, TypeOK, Calls, AwaitInv
<1> QED
  BY <1>1, AwaitFrame


(* A handler that calls goes to wait, and has no other call. *)
LEMMA RefreshAwaits ==
    ASSUME IInv, NEW h \in Handlers, RefreshNext(h)
    PROVE  AwaitInv'
<1>0. PICK f : f = Call(Head(left[h]), AskedBy(h, Head(left[h])), h)
  OBVIOUS
<1> DEFINE calls == Asks({f})
<1>1. /\ at[h] = "refresh" /\ left[h] # <<>> /\ fetches' = fetches (+) SetToBag(calls)
      /\ IF Clears({f}) = {} THEN at' = [at EXCEPT ![h] = "await"] /\ UNCHANGED left
         ELSE left' = [left EXCEPT ![h] = Tail(@)] /\ UNCHANGED at
      /\ UNCHANGED <<order, stored>>
  BY <1>0 DEF RefreshNext, Begin
<1>2. /\ f.pane = Head(left[h]) /\ f.by = h /\ f.wallet = AskedBy(h, f.pane)
      /\ f.pane # "admin" /\ f.seen = Known(f.pane)
  BY <1>0, <1>1, HeadTypes
<1>3. h \in executed /\ h # Nobody /\ TypeOK
  BY <1>1, DashboardAssumption DEF IInv, OrderInv, OrderOf
<1>11. Informed(f)'
  BY <1>1, <1>2, <1>3 DEF Informed, Known
<1>4. Takes({}, calls)
  BY <1>1, <1>3, MakesOnly
<1>5. calls \subseteq {f} /\ (f \in calls \/ f.pane \in Clears({f}))
  BY AsksOf
<1>6. Clears({f}) = {} <=> f \in calls
  BY <1>5 DEF Clears
<1>7. \A g \in BagToSet(fetches) : g.by # Nobody => g.by \in Handlers \ {h}
  BY <1>1, <1>3 DEF IInv, TypeOK, Calls, AwaitInv
<1>8. \A g \in Handlers \ {h} : at'[g] = at[g] /\ left'[g] = left[g] /\ order'[g] = order[g]
  BY <1>1, <1>3 DEF TypeOK
<1> HIDE DEF calls
<1>9. CASE f \notin calls
  <2>1. calls = {}
    BY <1>5, <1>9
  <2>2. \A g \in BagToSet(fetches') : g \in BagToSet(fetches) /\ fetches'[g] = fetches[g]
    BY <1>4, <2>1 DEF Takes
  <2> QED
    BY <1>1, <1>7, <1>8, <2>2, AwaitFrame
<1>10. CASE f \in calls
  <2>1. at'[h] = "await" /\ left'[h] = left[h]
    BY <1>1, <1>3, <1>6, <1>10 DEF TypeOK
  <2>2. f \notin BagToSet(fetches)
    BY <1>2, <1>3, <1>7
  <2>3. BagToSet(fetches') = BagToSet(fetches) \cup {f} /\ fetches'[f] = 1
        /\ \A g \in BagToSet(fetches) : fetches'[g] = fetches[g]
    BY <1>4, <1>5, <1>10, <2>2 DEF Takes
  <2>4. ASSUME NEW g \in BagToSet(fetches'), g.by # Nobody, g # f
        PROVE  /\ at'[g.by] = "await" /\ left'[g.by] # <<>> /\ g.pane = Head(left'[g.by])
               /\ g.wallet = AskedBy(g.by, g.pane)' /\ Informed(g)'
               /\ fetches'[g] = 1
               /\ \A e \in BagToSet(fetches') : e.by = g.by => e = g
    <3>1. g \in BagToSet(fetches) /\ g.by \in Handlers \ {h}
      BY <1>7, <2>3, <2>4
    <3>2. AskedBy(g.by, g.pane)' = AskedBy(g.by, g.pane)
      BY <1>8, <3>1 DEF AskedBy
    <3>3. \A e \in BagToSet(fetches') : e.by = g.by => e = g
      BY <1>2, <2>3, <2>4, <3>1 DEF IInv, AwaitInv
    <3>4. Informed(g) => Informed(g)'
      BY <1>1 DEF Informed
    <3> QED
      BY <1>8, <2>3, <2>4, <3>1, <3>2, <3>3, <3>4 DEF IInv, AwaitInv
  <2>5. /\ at'[f.by] = "await" /\ left'[f.by] # <<>> /\ f.pane = Head(left'[f.by])
        /\ f.wallet = AskedBy(f.by, f.pane)' /\ Informed(f)'
        /\ fetches'[f] = 1
    <3>0. order' = order /\ f.by = h
      BY <1>1, <1>2
    <3>1. AskedBy(f.by, f.pane)' = AskedBy(h, f.pane)
      BY <3>0 DEF AskedBy
    <3> QED
      BY <1>1, <1>2, <1>3, <1>11, <2>1, <2>3, <3>1
  <2>6. \A e \in BagToSet(fetches') : e.by = f.by => e = f
    BY <1>2, <1>3, <1>7, <2>3
  <2>7. ASSUME NEW g \in BagToSet(fetches'), g.by # Nobody
        PROVE  /\ at'[g.by] = "await" /\ left'[g.by] # <<>> /\ g.pane = Head(left'[g.by])
               /\ g.wallet = AskedBy(g.by, g.pane)' /\ Informed(g)'
               /\ fetches'[g] = 1
               /\ \A e \in BagToSet(fetches') : e.by = g.by => e = g
    <3>1. CASE g = f
      BY <2>5, <2>6, <3>1
    <3>2. CASE g # f
      BY <2>4, <2>7, <3>2
    <3> QED
      BY <3>1, <3>2
  <2> QED
    BY <2>7 DEF AwaitInv, Informed
<1> QED
  BY <1>9, <1>10

LEMMA AwaitStep ==
    ASSUME IInv, [Next]_vars
    PROVE  AwaitInv'
<1>0. TypeOK
  BY DEF IInv
<1>1. ASSUME NEW S, fetches' = fetches (+) SetToBag(S), \A g \in S : g.by = Nobody,
             UNCHANGED <<at, left, order, stored>>
      PROVE  AwaitInv'
  <2>1. Takes({}, S)
    BY <1>0, <1>1, MakesOnly
  <2> QED
    BY <1>1, <2>1, PageCalls
<1>2. CASE Poll
  BY <1>1, <1>2 DEF Poll, handlerVars, Call
<1>3. CASE Visit
  <2> DEFINE v == IF visitor = Nobody THEN Visitor ELSE Nobody
             calls == Asks(Effects(admin, v))
  <2>1. /\ fetches' = fetches (+) SetToBag(calls) /\ UNCHANGED <<at, left, order, stored>>
        /\ v \in {Nobody, Visitor} /\ admin \in {Nobody, Admin}
    BY <1>0, <1>3 DEF Visit, Rerender, Begin, TypeOK, handlerVars
  <2>2. \A g \in calls : g.by = Nobody
    BY <1>0, <2>1, AsksOf, EffectTypes
  <2> QED
    BY <1>1, <2>1, <2>2
<1>4. ASSUME NEW pane \in Panes, Click(pane)
      PROVE  AwaitInv'
  <2> DEFINE S == {Call(pane, Key(pane, admin, visitor), Nobody)}
  <2>1. fetches' = fetches (+) SetToBag(Asks(S)) /\ UNCHANGED <<at, left, order, stored>>
    BY <1>4 DEF Click, Begin, handlerVars
  <2>2. \A g \in Asks(S) : g.by = Nobody
    BY AsksOf DEF Call
  <2> QED
    BY <1>1, <2>1, <2>2
<1>5. ASSUME NEW f \in BagToSet(fetches), Arrives(f) \/ ComesShort(f) \/ FetchFails(f)
      PROVE  AwaitInv'
  <2>1. fetches' = fetches (-) SetToBag({f}) /\ Resume(f)
        /\ UNCHANGED <<order, stored>>
    BY <1>5 DEF Arrives, ComesShort, FetchFails, Show
  <2>2. Takes({f}, {})
    BY <1>0, <2>1, TakesOnly
  <2> QED
    BY <2>1, <2>2, AnswerTakes
<1>6. ASSUME NEW f \in BagToSet(fetches), NEW a \in {Nobody, Admin}, AdminIs(f, a)
      PROVE  AwaitInv'
  <2> DEFINE calls == Asks(Effects(a, visitor))
  <2>1. /\ fetches' = (fetches (-) SetToBag({f})) (+) SetToBag(calls)
        /\ f.pane = "admin" /\ UNCHANGED <<at, left, order, stored>> /\ visitor \in {Nobody, Visitor}
    BY <1>0, <1>6 DEF AdminIs, Rerender, Begin, TypeOK, handlerVars
  <2>2. \A g \in calls : g.by = Nobody
    BY <1>0, <2>1, AsksOf, EffectTypes
  <2>3. Takes({f}, calls)
    BY <1>0, <2>1, TakesAndMakes
  <2>4. \A g \in {f} : g.by = Nobody
    BY <2>1, AdminIsNotAwaited
  <2> HIDE DEF calls
  <2> QED
    BY <2>1, <2>2, <2>3, <2>4, PageCalls
<1>7. ASSUME NEW h \in Handlers, RefreshNext(h)
      PROVE  AwaitInv'
  BY <1>7, RefreshAwaits
<1>8. CASE UNCHANGED <<fetches, at, left, order, stored>>
  BY <1>8, AwaitFrame
<1>9. ASSUME NEW h \in Handlers, OrderAnswered(h) \/ HandlerEnds(h) \/ OrderFails(h)
      PROVE  AwaitInv'
  <2>1. /\ at[h] # "await" /\ UNCHANGED <<fetches, stored>>
        /\ \A g \in Handlers \ {h} :
              at'[g] = at[g] /\ left'[g] = left[g] /\ order'[g] = order[g]
    BY <1>0, <1>9 DEF OrderAnswered, HandlerEnds, OrderFails, TypeOK
  <2> QED
    BY <2>1, NotAwaited
<1>10. ASSUME NEW h \in Handlers, NEW op, Press(h, op)
       PROVE  AwaitInv'
  <2>1. /\ at[h] # "await" /\ UNCHANGED <<fetches, stored>>
        /\ \A g \in Handlers \ {h} :
              at'[g] = at[g] /\ left'[g] = left[g] /\ order'[g] = order[g]
    BY <1>0, <1>10 DEF Press, TypeOK
  <2> QED
    BY <2>1, NotAwaited
<1>11. ASSUME NEW h \in Handlers, Execute(h)
       PROVE  AwaitInv'
  BY <1>8, <1>11 DEF Execute, handlerVars
<1>12. ASSUME NEW h \in Handlers, StoreOpened(h)
       PROVE  AwaitInv'
  <2>1. /\ at[h] # "await" /\ UNCHANGED <<fetches, at, left, order>>
        /\ stored' = stored \cup {h}
    BY <1>12 DEF StoreOpened, handlerVars
  <2> QED
    BY <2>1, NotAwaited
<1> QED
  BY <1>2, <1>3, <1>4, <1>5, <1>6, <1>7, <1>8, <1>9, <1>10, <1>11, <1>12
  DEF Next, Runs, Quiescent, vars, handlerVars, AdminArrives, AdminFails

-----------------------------------------------------------------------------
(* Orders and the panes that are behind them. *)

(* Nothing is taken out of the log: a history without room never has room. *)
LEMMA OverflowStays ==
    ASSUME TypeOK, stored \subseteq stored', stored' \subseteq Handlers
    PROVE  Overflowing \subseteq Overflowing'
<1>1. /\ IsFiniteSet(stored) /\ IsFiniteSet(stored')
      /\ Cardinality(stored) <= Cardinality(stored')
  BY FS_Subset, DashboardAssumption
<1>2. Cardinality(stored) \in Nat /\ Cardinality(stored') \in Nat /\ HistoryRoom \in Nat
  BY <1>1, FS_CardinalityType, DashboardAssumption
<1> QED
  BY <1>1, <1>2 DEF Overflowing

(* What a handler's panes can know stays known while its order stands. *)
LEMMA ConcernsStay ==
    ASSUME NEW h \in Handlers, order'[h] = order[h], stored \subseteq stored', NEW p, Concerns(h, p)
    PROVE  Concerns(h, p)'
BY DEF Concerns, AskedBy

(* A handler that does nothing may see its panes catch up. *)
LEMMA OrderFrame ==
    ASSUME IInv, NEW h \in Handlers, at'[h] = at[h], left'[h] = left[h], order'[h] = order[h],
           h \in executed' <=> h \in executed, behind'[h] \subseteq behind[h],
           stored \subseteq stored', stored' \subseteq Handlers
    PROVE  OrderOf(h)'
<1>1. OrderOf(h) /\ TypeOK
  BY DEF IInv, OrderInv, OrderOf
<1>2. \A p \in behind'[h] : Concerns(h, p)'
  BY <1>1, ConcernsStay DEF OrderOf
<1>3. Overflowing \subseteq Overflowing'
  BY <1>1, OverflowStays
<1> QED
  BY <1>1, <1>2, <1>3 DEF OrderOf

(* What is refreshed first is behind no more once it is ticked off. *)
LEMMA TickedOff ==
    ASSUME NEW P, NEW q \in Seq(P), q # <<>>, NEW p \in Range(q), p # Head(q)
    PROVE  p \in Range(Tail(q))
<1>1. PICK i \in 1..Len(q) : p = q[i]
  BY DEF Range
<1>2. i # 1 /\ i - 1 \in 1..Len(Tail(q)) /\ Tail(q)[i - 1] = q[i]
  BY <1>1
<1>3. DOMAIN Tail(q) = 1..Len(Tail(q))
  OBVIOUS
<1> QED
  BY <1>1, <1>2, <1>3 DEF Range

LEMMA TickStep ==
    ASSUME IInv, NEW h \in Handlers, at[h] \in {"refresh", "await"}, left[h] # <<>>,
           at'[h] = "refresh", left'[h] = Tail(left[h]), order'[h] = order[h],
           h \in executed', UNCHANGED stored, behind'[h] \subseteq behind[h],
           Head(left[h]) \in behind'[h] => Head(left[h]) \in Overflowing
    PROVE  OrderOf(h)'
<1>1. /\ left[h] \in Seq(Panes \ {"admin"}) /\ order[h].op # "none"
      /\ behind[h] \subseteq Range(left[h]) \cup Overflowing
      /\ \A p \in behind[h] : Concerns(h, p)
  BY DEF IInv, OrderInv, OrderOf
<1>2. Tail(left[h]) \in Seq(Panes \ {"admin"})
  BY <1>1
<1>3. \A p \in behind'[h] : Concerns(h, p)'
  BY <1>1, ConcernsStay
<1>4. Overflowing' = Overflowing
  BY DEF Overflowing
<1>5. \A p \in behind'[h] : p \in Range(Tail(left[h])) \cup Overflowing'
  BY <1>1, <1>4, TickedOff
<1> QED
  BY <1>1, <1>2, <1>3, <1>5 DEF OrderOf

(* A handler whose call is answered has its order shown, or nothing that   *)
(* the pane could have shown it for, or the history has overflowed.        *)
LEMMA ShowCatchesUp ==
    ASSUME IInv, NEW f \in BagToSet(fetches), NEW wallet, NEW told, Show(f, wallet, told),
           f.by \in Handlers => \/ f.by \in told \/ f.pane \in Overflowing
                                \/ f.pane \notin behind[f.by],
           NEW h \in Handlers
    PROVE  OrderOf(h)'
<1>0. TypeOK /\ stored \subseteq Handlers
  BY DEF IInv, TypeOK
<1>1. Resume(f) /\ UNCHANGED <<order, executed, stored>>
      /\ behind' = [g \in Handlers |-> IF g \in told THEN behind[g] \ {f.pane} ELSE behind[g]]
  BY DEF Show
<1>2. behind'[h] \subseteq behind[h]
  BY <1>1
<1>3. CASE at'[h] = at[h] /\ left'[h] = left[h]
  BY <1>0, <1>1, <1>2, <1>3, OrderFrame
<1>4. CASE /\ h = f.by /\ at[h] = "await" /\ at'[h] = "refresh"
           /\ left[h] # <<>> /\ left'[h] = Tail(left[h])
  <2>1. Head(left[h]) = f.pane
    BY <1>4, DashboardAssumption DEF IInv, AwaitInv
  <2>2. Head(left[h]) \in behind'[h] => Head(left[h]) \in Overflowing
    BY <1>1, <1>4, <2>1
  <2>3. h \in executed'
    BY <1>1, <1>4 DEF IInv, OrderInv, OrderOf
  <2> QED
    BY <1>1, <1>2, <1>4, <2>2, <2>3, TickStep
<1> QED
  BY <1>1, <1>3, <1>4, ResumeMoves

LEMMA RefreshTicks ==
    ASSUME IInv, NEW h \in Handlers, RefreshNext(h)
    PROVE  OrderOf(h)'
<1>0. PICK f : f = Call(Head(left[h]), AskedBy(h, Head(left[h])), h)
  OBVIOUS
<1>1. /\ at[h] = "refresh" /\ left[h] # <<>>
      /\ IF Clears({f}) = {} THEN at' = [at EXCEPT ![h] = "await"] /\ UNCHANGED left
         ELSE left' = [left EXCEPT ![h] = Tail(@)] /\ UNCHANGED at
      /\ UNCHANGED <<order, executed, stored, behind>>
  BY <1>0 DEF RefreshNext
<1>2. f.pane = Head(left[h]) /\ f.wallet = AskedBy(h, Head(left[h])) /\ TypeOK
  BY <1>0, <1>1, HeadTypes DEF IInv
<1>3. CASE Clears({f}) = {}
  <2>1. at'[h] = "await" /\ left'[h] = left[h]
    BY <1>1, <1>2, <1>3 DEF TypeOK
  <2>2. OrderOf(h) /\ \A p \in behind[h] : Concerns(h, p)'
    BY <1>1, ConcernsStay DEF IInv, OrderInv, OrderOf
  <2>3. Overflowing' = Overflowing
    BY <1>1 DEF Overflowing
  <2> QED
    BY <1>1, <2>1, <2>2, <2>3 DEF OrderOf
<1>4. CASE Clears({f}) # {}
  <2>1. at'[h] = "refresh" /\ left'[h] = Tail(left[h])
    BY <1>1, <1>2, <1>4 DEF TypeOK
  <2>2. NeedsWallet(f.pane) /\ f.wallet = Nobody
    BY <1>4 DEF Clears, Asks
  <2>3. ~Concerns(h, Head(left[h]))
    BY <1>2, <2>2 DEF Concerns
  <2>4. Head(left[h]) \notin behind[h] /\ h \in executed
    BY <1>1, <2>3 DEF IInv, OrderInv, OrderOf
  <2> QED
    BY <1>1, <2>1, <2>4, TickStep
<1> QED
  BY <1>3, <1>4

LEMMA OrderStep ==
    ASSUME IInv, [Next]_vars, NEW h \in Handlers
    PROVE  OrderOf(h)'
<1>0. TypeOK /\ OrderOf(h) /\ stored \subseteq Handlers
  BY DEF IInv, OrderInv, OrderOf, TypeOK
<1>1. CASE UNCHANGED <<at, left, order, executed, stored, behind>>
  BY <1>0, <1>1, OrderFrame
<1>2. CASE Poll \/ Visit \/ Quiescent
  BY <1>1, <1>2 DEF Poll, Visit, Quiescent, vars, handlerVars
<1>3. ASSUME NEW pane, Click(pane)
      PROVE  OrderOf(h)'
  BY <1>1, <1>3 DEF Click, handlerVars
<1>4. ASSUME NEW f \in BagToSet(fetches), Arrives(f)
      PROVE  OrderOf(h)'
  <2> DEFINE told == IF f.pane \in Overflowing THEN {}
                     ELSE {g \in f.seen : f.wallet = AskedBy(g, f.pane)}
  <2>1. Show(f, f.wallet, told)
    BY <1>4 DEF Arrives
  <2>2. ASSUME f.by \in Handlers
        PROVE  \/ f.by \in told \/ f.pane \in Overflowing \/ f.pane \notin behind[f.by]
    <3>1. f.wallet = AskedBy(f.by, f.pane) /\ Informed(f)
      BY <2>2, DashboardAssumption DEF IInv, AwaitInv
    <3>2. f.pane \in behind[f.by] => Concerns(f.by, f.pane)
      BY <2>2 DEF IInv, OrderInv, OrderOf
    <3>3. f.pane = "history" /\ f.by \notin stored => ~Concerns(f.by, f.pane)
      BY DEF Concerns, NeedsWallet
    <3> QED
      BY <3>1, <3>2, <3>3 DEF Informed
  <2> HIDE DEF told
  <2> QED
    BY <2>1, <2>2, ShowCatchesUp
<1>5. ASSUME NEW f \in BagToSet(fetches), ComesShort(f) \/ FetchFails(f)
      PROVE  OrderOf(h)'
  <2>1. PICK wallet : Show(f, wallet, {f.by})
    BY <1>5 DEF ComesShort, FetchFails
  <2>2. f.by \in Handlers => f.by \in {f.by}
    OBVIOUS
  <2> QED
    BY <2>1, <2>2, ShowCatchesUp
<1>6. ASSUME NEW f, AdminArrives(f) \/ AdminFails(f)
      PROVE  OrderOf(h)'
  BY <1>1, <1>6 DEF AdminArrives, AdminFails, AdminIs, handlerVars
<1>7. ASSUME NEW g \in Handlers, Runs(g) \/ OrderFails(g), g # h
      PROVE  OrderOf(h)'
  <2>1. /\ at'[h] = at[h] /\ left'[h] = left[h] /\ order'[h] = order[h]
        /\ h \in executed' <=> h \in executed
        /\ behind'[h] = behind[h] /\ UNCHANGED stored
    <3>1. CASE Execute(g)
      BY <1>0, <1>7, <3>1 DEF Execute, TypeOK, handlerVars
    <3>2. CASE OrderAnswered(g)
      BY <1>0, <1>7, <3>2 DEF OrderAnswered, TypeOK
    <3>3. CASE RefreshNext(g)
      BY <1>0, <1>7, <3>3 DEF RefreshNext, TypeOK
    <3>4. CASE HandlerEnds(g) \/ OrderFails(g)
      BY <1>0, <1>7, <3>4 DEF HandlerEnds, OrderFails, TypeOK
    <3> QED
      BY <1>7, <3>1, <3>2, <3>3, <3>4 DEF Runs
  <2> QED
    BY <1>0, <2>1, OrderFrame
<1>8. CASE Execute(h)
  <2>1. /\ at[h] = "order" /\ h \notin executed /\ executed' = executed \cup {h}
        /\ UNCHANGED <<at, left, order, stored>>
        /\ behind'[h] = {p \in Range(Refreshes[order[h].op]) :
                             NeedsWallet(p) /\ AskedBy(h, p) # Nobody}
    BY <1>0, <1>8 DEF Execute, TypeOK, handlerVars
  <2>2. \A p \in behind'[h] : Concerns(h, p)'
    BY <2>1 DEF Concerns, AskedBy
  <2> QED
    BY <1>0, <2>1, <2>2 DEF OrderOf
<1>9. CASE OrderAnswered(h)
  <2>1. /\ at[h] = "order" /\ h \in executed /\ at'[h] = "refresh"
        /\ left'[h] = Refreshes[order[h].op] /\ UNCHANGED <<order, executed, stored, behind>>
    BY <1>0, <1>9 DEF OrderAnswered, TypeOK
  <2>2. \A p \in behind[h] : Concerns(h, p)'
    BY <1>0, <2>1, ConcernsStay DEF OrderOf
  <2>3. order[h].op \in DOMAIN Refreshes
    BY <1>0, <2>1 DEF OrderOf, TypeOK
  <2>4. Refreshes[order[h].op] \in Seq(Panes \ {"admin"})
    BY <2>3, RefreshesType
  <2> HIDE DEF Refreshes
  <2> QED
    BY <1>0, <2>1, <2>2, <2>4 DEF OrderOf
<1>10. CASE RefreshNext(h)
  BY <1>10, RefreshTicks
<1>11. CASE HandlerEnds(h)
  <2>1. /\ at[h] = "refresh" /\ left[h] = <<>> /\ at'[h] = "ended"
        /\ UNCHANGED <<left, order, executed, stored, behind>>
    BY <1>0, <1>11 DEF HandlerEnds, TypeOK
  <2>2. Range(<<>>) = {}
    BY DEF Range
  <2>3. behind[h] \subseteq Overflowing'
    BY <1>0, <2>1, <2>2 DEF OrderOf, Overflowing
  <2>4. \A p \in behind[h] : Concerns(h, p)'
    BY <1>0, <2>1, ConcernsStay DEF OrderOf
  <2> QED
    BY <1>0, <2>1, <2>3, <2>4 DEF OrderOf
<1>12. CASE OrderFails(h)
  <2>1. /\ at[h] = "order" /\ at'[h] = "failed"
        /\ UNCHANGED <<left, order, executed, stored, behind>>
    BY <1>0, <1>12 DEF OrderFails, TypeOK
  <2>2. \A p \in behind[h] : Concerns(h, p)'
    BY <1>0, <2>1, ConcernsStay DEF OrderOf
  <2> QED
    BY <1>0, <2>1, <2>2 DEF OrderOf
<1>13. ASSUME NEW g \in Handlers, NEW op \in Operations[g], Press(g, op)
       PROVE  OrderOf(h)'
  <2>1. CASE g # h
    <3>1. /\ at'[h] = at[h] /\ left'[h] = left[h] /\ order'[h] = order[h]
          /\ UNCHANGED <<executed, stored, behind>>
      BY <1>0, <1>13, <2>1 DEF Press, TypeOK
    <3> QED
      BY <1>0, <3>1, OrderFrame
  <2>2. CASE g = h
    <3>1. /\ at[h] = "idle" /\ at'[h] = "order" /\ order'[h].op = op
          /\ UNCHANGED <<left, executed, stored, behind>>
      BY <1>0, <1>13, <2>2 DEF Press, TypeOK
    <3>2. op # "none"
      BY <1>13, DashboardAssumption DEF Refreshes
    <3> QED
      BY <1>0, <3>1, <3>2 DEF OrderOf
  <2> QED
    BY <2>1, <2>2
<1>14. CASE UNCHANGED vars
  BY <1>1, <1>14 DEF vars, handlerVars
<1>16. ASSUME NEW g \in Handlers, StoreOpened(g)
       PROVE  OrderOf(h)'
  <2>1. /\ stored' = stored \cup {g} /\ UNCHANGED <<at, left, order, executed>>
        /\ at[g] = "order" /\ order[g].op = "open" /\ g \in executed
        /\ behind' = [behind EXCEPT ![g] = @ \cup {"history"}]
    BY <1>16 DEF StoreOpened, handlerVars
  <2>2. CASE g # h
    <3>1. behind'[h] = behind[h]
      BY <1>0, <2>1, <2>2 DEF TypeOK
    <3> QED
      BY <1>0, <2>1, <3>1, OrderFrame
  <2>3. CASE g = h
    <3>1. behind'[h] = behind[h] \cup {"history"}
      BY <1>0, <2>1, <2>3 DEF TypeOK
    <3>2. \A p \in behind[h] : Concerns(h, p)'
      BY <1>0, <2>1, ConcernsStay DEF OrderOf
    <3>3. Concerns(h, "history")'
      BY <2>1, <2>3 DEF Concerns, NeedsWallet
    <3>4. "history" \in Range(Refreshes["open"])
      BY DEF Range, Refreshes
    <3> HIDE DEF Refreshes
    <3> QED
      BY <1>0, <2>1, <2>3, <3>1, <3>2, <3>3, <3>4 DEF OrderOf
  <2> QED
    BY <2>2, <2>3
<1>15. ASSUME NEW g \in Handlers, Runs(g) \/ OrderFails(g)
       PROVE  OrderOf(h)'
  BY <1>7, <1>8, <1>9, <1>10, <1>11, <1>12, <1>15 DEF Runs
<1> QED
  BY <1>2, <1>3, <1>4, <1>5, <1>6, <1>13, <1>14, <1>15, <1>16 DEF Next

-----------------------------------------------------------------------------
(* The theorems. *)

LEMMA InitEstablishes == Init => IInv
<1> SUFFICES ASSUME Init PROVE IInv
  OBVIOUS
<1> DEFINE mount == {[pane |-> p, wallet |-> Nobody, by |-> Nobody, seen |-> {}] : p \in Panes}
<1>1. /\ admin = Nobody /\ visitor = Nobody /\ fetches = SetToBag(Asks(mount))
      /\ loading = Flags(mount) /\ shown = [p \in Panes |-> Nobody] /\ settled = Clears(mount)
      /\ submitting = FALSE /\ at = [h \in Handlers |-> "idle"]
      /\ order = [h \in Handlers |-> [op |-> "none", wallet |-> Nobody, funds |-> Nobody]]
      /\ left = [h \in Handlers |-> <<>>]
      /\ executed = {} /\ stored = {} /\ behind = [h \in Handlers |-> {}]
  BY DEF Init
<1>2. /\ mount \subseteq Calls
      /\ \A f \in mount : f.by = Nobody /\ f.wallet = Nobody /\ f.pane \in Panes
      /\ \A p \in Panes : \E f \in mount : f.pane = p
  <2> DEFINE first(p) == [pane |-> p, wallet |-> Nobody, by |-> Nobody, seen |-> {}]
  <2>1. \A p \in Panes : /\ first(p) \in Calls /\ first(p).pane = p
                         /\ first(p).by = Nobody /\ first(p).wallet = Nobody
    BY DEF Calls
  <2>2. mount = {first(p) : p \in Panes}
    OBVIOUS
  <2> HIDE DEF first, mount
  <2> QED
    BY <2>1, <2>2
<1> HIDE DEF mount
<1>3. Asks(mount) \subseteq mount /\ Flags(mount) \subseteq Panes /\ Clears(mount) \subseteq Panes
  BY <1>2 DEF Asks, Flags, Clears
<1>4. IsABag(fetches) /\ BagToSet(fetches) = Asks(mount)
  BY <1>1 DEF IsABag, BagToSet, SetToBag
<1>5. TypeOK
  <2>1. \A f \in BagToSet(fetches) : f \in Calls /\ (NeedsWallet(f.pane) => f.wallet # Nobody)
    BY <1>2, <1>3, <1>4 DEF Asks
  <2>2. order \in [Handlers -> [op : DOMAIN Refreshes \cup {"none"}, wallet : Wallets \cup {Nobody},
                                funds : {Nobody, Admin}]]
    BY <1>1
  <2>3. left \in [Handlers -> Seq(Panes)]
    BY <1>1
  <2>4. /\ shown \in [Panes -> Wallets \cup {Nobody}] /\ behind \in [Handlers -> SUBSET Panes]
        /\ at \in [Handlers -> {"idle", "order", "refresh", "await", "ended", "failed"}]
    BY <1>1
  <2> QED
    BY <1>1, <1>3, <1>4, <2>1, <2>2, <2>3, <2>4 DEF TypeOK
<1>6. LoadingInv
  BY <1>1, <1>4, AsksOf DEF LoadingInv, InFlight
<1>7. FormInv
  BY <1>1 DEF FormInv, Opening, UnderWay
<1>8. SettledInv
  <2> SUFFICES ASSUME NEW p \in Panes \ settled
               PROVE  \E f \in BagToSet(fetches) : f.pane = p /\ f.wallet = Key(p, admin, visitor)
    BY DEF SettledInv
  <2>1. PICK f \in mount : f.pane = p
    BY <1>2
  <2>2. f \in BagToSet(fetches)
    BY <1>1, <1>4, <2>1, AsksOf
  <2>3. Key(p, admin, visitor) = Nobody
    BY <1>1 DEF Key
  <2> QED
    BY <1>2, <2>1, <2>2, <2>3
<1>9. AwaitInv
  BY <1>2, <1>3, <1>4 DEF AwaitInv
<1>10. OrderInv
  BY <1>1 DEF OrderInv, OrderOf
<1> QED
  BY <1>5, <1>6, <1>7, <1>8, <1>9, <1>10 DEF IInv

LEMMA StepPreserves == IInv /\ [Next]_vars => IInv'
<1> SUFFICES ASSUME IInv, [Next]_vars PROVE IInv'
  OBVIOUS
<1>1. OrderInv'
  BY OrderStep DEF OrderInv, OrderOf
<1> QED
  BY <1>1, TypeStep, LoadingStep, FormStep, SettledStep, AwaitStep DEF IInv

(* The invariant holds in every reachable state. *)
THEOREM Invariant == Spec => []IInv
BY InitEstablishes, StepPreserves, PTL DEF Spec

(* The page's data keep their types, and no call without a wallet waits. *)
THEOREM TypeCorrect == Spec => []TypeOK
<1>1. IInv => TypeOK
  BY DEF IInv
<1> QED
  BY <1>1, Invariant, PTL

(* A disabled button will work again, and the order form never has two     *)
(* orders under way.                                                       *)
THEOREM ButtonsTellWhatRunsHolds == Spec => []ButtonsTellWhatRuns
<1>1. ASSUME IInv PROVE ButtonsTellWhatRuns
  <2>1. Cardinality(Opening) <= 1
    <3>1. CASE Opening = {}
      BY <3>1, FS_EmptySet
    <3>2. CASE Opening # {}
      <4>1. PICK h \in Opening : TRUE
        BY <3>2
      <4>2. Opening = {h}
        BY <1>1, <4>1 DEF IInv, FormInv
      <4>3. Cardinality({h}) = 1
        BY FS_Singleton, Zenon
      <4>4. Cardinality(Opening) = 1
        BY <4>2, <4>3, Zenon
      <4> QED
        BY <4>4
    <3> QED
      BY <3>1, <3>2
  <2> QED
    BY <1>1, <2>1 DEF IInv, LoadingInv, FormInv, ButtonsTellWhatRuns
<1> QED
  BY <1>1, Invariant, PTL

(* A pane that waits for nothing has been set for its present wallet. *)
THEOREM PresentWalletWasShownHolds == Spec => []PresentWalletWasShown
<1>1. ASSUME IInv PROVE PresentWalletWasShown
  BY <1>1 DEF IInv, SettledInv, PresentWalletWasShown, InFlight
<1> QED
  BY <1>1, Invariant, PTL

(* What a handler that has ended has refreshed was shown from what knew of *)
(* its order, but for a refresh that failed or came short and a history    *)
(* without room.                                                           *)
THEOREM OrdersAreShownHolds == Spec => []OrdersAreShown
<1>1. IInv => OrdersAreShown
  BY DEF IInv, OrderInv, OrderOf, OrdersAreShown
<1> QED
  BY <1>1, Invariant, PTL

=============================================================================
