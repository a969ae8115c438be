----------------------------- MODULE Positions -----------------------------
(***************************************************************************)
(* What the worker makes of a user account (ts-worker/src/drift.ts): the   *)
(* rows getPositionDetails answers, and the transaction that               *)
(* buildClosePositionTx builds for one of them.                            *)
(*                                                                         *)
(* An account is a sequence of slots.  A slot that is neither open nor     *)
(* funded is dead but keeps the market it had, 0 at first, so that several *)
(* slots may carry a market: both handlers have to find the live one.      *)
(* The account is fetched once; margins are read later, from the client's  *)
(* cache, which other handlers overwrite.  AuthorityLock models the lock   *)
(* and its failures; here a section of it is one step.                     *)
(***************************************************************************)
EXTENDS Integers, Sequences, FiniteSets, FiniteSetsExt

CONSTANTS
    Listed,     \* PerpMarkets[NETWORK]: the configurations, in their order
    Traded,     \* indices of the markets an account may use
    Orders,     \* the kinds of orders it has in each, see OrderKinds
    Closers,    \* close requests
    CloseSizes, \* the sizes they may ask for
    Whole,      \* req.size is undefined
    Length,     \* bound: slots of an account (8 in Drift)
    MaxBase,    \* bound: size of a position
    MaxFunds,   \* bound: isolated margin of a position
    MaxMoves,   \* bound: deposits and fills of other transactions
    MaxBegun    \* bound: requests

\* A filled order that has amounts, an open limit order, another open order.
OrderKinds == {"filled", "limit", "market"}
Slot == [market : Traded \cup {0}, base : Int, margin : Nat]

ASSUME PositionsAssumption ==
    /\ Listed \in Seq([index : Nat, symbol : Seq(STRING), base : STRING])
    /\ Traded \subseteq Nat /\ IsFiniteSet(Traded)
    /\ Orders \in [Traded \cup {0} -> SUBSET OrderKinds]
    /\ CloseSizes \subseteq Nat \cup {Whole}
    /\ {Length, MaxBase, MaxFunds, MaxMoves, MaxBegun} \subseteq Nat

VARIABLES
    account,   \* perpPositions of the account on chain
    cached,    \* those of the client's cached account
    details,   \* a getPositionDetails request
    closes,    \* the close requests
    moves

positionVars == <<account, cached, details, closes, moves>>

Markets == Traded \cup {0}
Blank   == [i \in 1..Length |-> [market |-> 0, base |-> 0, margin |-> 0]]

-----------------------------------------------------------------------------
(* Markets by name.  A key is the name in capitals, split at separators.   *)

\* buildMarketMaps: the synonyms of a configuration.
Keys(cfg) == {cfg.symbol, <<cfg.base>>, <<cfg.base, "PERP">>, <<"PERP", cfg.base>>}
Named(key) == {i \in DOMAIN Listed : key \in Keys(Listed[i])}

\* External: in the SDK's table no symbol is also a name of another market before it.
ASSUME ListedAssumption ==
    \A i, j \in DOMAIN Listed : j < i /\ Listed[i].symbol \in Keys(Listed[j]) =>
        Listed[i].index = Listed[j].index

\* Mutant: a later configuration replaces an earlier one.
LastNamed(key) == IF Named(key) = {} THEN {} ELSE {Listed[Max(Named(key))].index}

\* resolveMarketConfig: the first that has the name; without one it throws.
Resolve(key) == IF Named(key) = {} THEN {} ELSE {Listed[Min(Named(key))].index}

InTable(m) == \E i \in DOMAIN Listed : Listed[i].index = m
Label(m) == IF InTable(m)
            THEN Listed[CHOOSE i \in DOMAIN Listed : Listed[i].index = m].symbol
            ELSE <<"MARKET", m>>

-----------------------------------------------------------------------------
(* The account on chain: Drift gives a market the slot it lives in, or     *)
(* else the first dead one.                                                *)

Open(p) == p.base # 0
Live(p) == Open(p) \/ p.margin > 0
LiveAt(acct, m) == {i \in DOMAIN acct : acct[i].market = m /\ Live(acct[i])}
MarginOf(acct, m) == IF LiveAt(acct, m) = {} THEN 0 ELSE acct[Min(LiveAt(acct, m))].margin
BaseOf(acct, m)   == IF LiveAt(acct, m) = {} THEN 0 ELSE acct[Min(LiveAt(acct, m))].base
OpenIn(acct, m)   == BaseOf(acct, m) # 0

SlotFor(m) == IF LiveAt(account, m) # {} THEN LiveAt(account, m)
              ELSE LET dead == {i \in DOMAIN account : ~Live(account[i])}
                   IN  IF dead = {} THEN {} ELSE {Min(dead)}

Moves == /\ moves < MaxMoves /\ moves' = moves + 1
         /\ UNCHANGED <<cached, details, closes>>

\* Another transaction deposits isolated margin.
Funds(m) ==
    /\ MarginOf(account, m) < MaxFunds /\ Moves
    /\ \E i \in SlotFor(m) :
          account' = [account EXCEPT ![i] = [market |-> m, base |-> @.base,
                                             margin |-> @.margin + 1]]

\* Another order is filled.
Fills(m, way) ==
    /\ MarginOf(account, m) > 0 /\ BaseOf(account, m) + way \in -MaxBase..MaxBase /\ Moves
    /\ \E i \in LiveAt(account, m) : account' = [account EXCEPT ![i].base = @ + way]

-----------------------------------------------------------------------------
Begun == {c \in Closers : closes[c].at # "idle"}
         \cup (IF details.at = "idle" THEN {} ELSE {"details"})
MayBegin == Cardinality(Begun) < MaxBegun

(* getPositionDetails *)

DetailsFetch ==
    /\ details.at = "idle" /\ MayBegin
    /\ details' = [details EXCEPT !.at = "cache", !.snap = account]
    /\ UNCHANGED <<account, cached, closes, moves>>

\* ensureDriftUserCached
DetailsCache ==
    /\ details.at = "cache"
    /\ cached' = details.snap
    /\ details' = [details EXCEPT !.at = "probe"]
    /\ UNCHANGED <<account, closes, moves>>

(* An open slot needs no probe.  The probes of the others queue at the     *)
(* lock in one go, and the lock is first come, first served: nothing comes *)
(* between them, but something may have come before.                       *)
DetailsProbe ==
    /\ details.at = "probe"
    /\ details' = [details EXCEPT
           !.at = "rows",
           !.found = {i \in DOMAIN details.snap : \/ Open(details.snap[i])
                                                 \/ MarginOf(cached, details.snap[i].market) > 0}]
    /\ UNCHANGED <<account, cached, closes, moves>>

\* Mutant: a later slot of a market replaces an earlier one.
KeepLast(acct, kept, i) == {j \in kept : acct[j].market # acct[i].market} \cup {i}

\* One turn of the loop that leaves one slot to a market.
Keep(acct, kept, i) ==
    LET existing == {j \in kept : acct[j].market = acct[i].market}
    IN  IF existing = {} \/ (Open(acct[i]) /\ \A j \in existing : ~Open(acct[j]))
        THEN (kept \ existing) \cup {i}
        ELSE kept

Relevant(acct, found) ==
    LET kept[i \in 0..Length] ==
            IF i = 0 THEN {}
            ELSE IF i \in found THEN Keep(acct, kept[i - 1], i)
            ELSE kept[i - 1]
    IN  kept[Length]

\* Where the entry price comes from.
EntryPrice(p) ==
    IF Open(p)                            THEN "position"
    ELSE IF "filled" \in Orders[p.market] THEN "fills"
    ELSE IF "limit" \in Orders[p.market]  THEN "limit"
    ELSE "oracle"

\* External: Drift keeps deposits as scaled balances, which are not amounts of tokens.
ScaledBalance(p) == 2 * p.margin

(* The margin, and what the leverage is measured by: equity as the helper  *)
(* User sees it, or, if that throws or is not positive, the slot's scaled  *)
(* balance.  `pnl' is what the oracle makes of an open position.           *)
Row(acct, i, helper, pnl) ==
    LET m      == acct[i].market
        equity == helper /\ MarginOf(acct, m) + pnl > 0
        margin == IF equity THEN MarginOf(acct, m) ELSE ScaledBalance(acct[i])
    IN  [market |-> m, label |-> Label(m), size |-> acct[i].base,
         entry |-> EntryPrice(acct[i]), margin |-> margin,
         leverage |-> IF equity THEN "equity" ELSE IF margin > 0 THEN "balance" ELSE "null"]

DetailsAnswer ==
    /\ details.at = "rows"
    /\ \E helper \in BOOLEAN, pnl \in {-MaxFunds, 0} :
          details' = [details EXCEPT
              !.at = "answered", !.found = {},
              !.rows = {Row(details.snap, i, helper, IF Open(details.snap[i]) THEN pnl ELSE 0) :
                           i \in Relevant(details.snap, details.found)}]
    /\ UNCHANGED <<account, cached, closes, moves>>

-----------------------------------------------------------------------------
(* buildClosePositionTx *)

CloseFetch(c) ==
    /\ closes[c].at = "idle" /\ MayBegin
    /\ \E i \in DOMAIN Listed, size \in CloseSizes : \E m \in Resolve(Listed[i].symbol) :
          closes' = [closes EXCEPT ![c].at = "cache", ![c].snap = account,
                                   ![c].market = m, ![c].size = size]
    /\ UNCHANGED <<account, cached, details, moves>>

\* Mutant: the account fetched is not cached.
CloseNotCached(c) ==
    /\ closes[c].at = "cache"
    /\ closes' = [closes EXCEPT ![c].at = "margin"]
    /\ UNCHANGED <<account, cached, details, moves>>

CloseCache(c) ==
    /\ closes[c].at = "cache"
    /\ cached' = closes[c].snap
    /\ closes' = [closes EXCEPT ![c].at = "margin"]
    /\ UNCHANGED <<account, details, moves>>

CloseMargin(c) ==
    /\ closes[c].at = "margin"
    /\ closes' = [closes EXCEPT ![c].at = "build", ![c].had = MarginOf(cached, closes[c].market)]
    /\ UNCHANGED <<account, cached, details, moves>>

\* perpPositions.find(...): the first slot that carries the market.
Carrying(acct, m) == {i \in DOMAIN acct : acct[i].market = m}
\* Mutant: the last one.
FindLast(acct, m) == IF Carrying(acct, m) = {} THEN 0 ELSE acct[Max(Carrying(acct, m))].base
FindBase(acct, m) == IF Carrying(acct, m) = {} THEN 0 ELSE acct[Min(Carrying(acct, m))].base

Size(n) == IF n < 0 THEN -n ELSE n
TargetSize(asked, base) ==
    IF asked = Whole THEN Size(base) ELSE IF asked < Size(base) THEN asked ELSE Size(base)

NoOrder == [way |-> 0, size |-> 0, reduceOnly |-> TRUE]

\* A request that has ended keeps what it was about and the account it fetched.
Ended(req, at) == [req EXCEPT !.at = at, !.had = 0, !.order = NoOrder, !.withdraw = 0]

\* Mutant: the order may open a position.
PlainOrder(base, target) ==
    [way |-> IF base > 0 THEN -1 ELSE 1, size |-> target, reduceOnly |-> FALSE]
CloseOrder(base, target) ==
    [way |-> IF base > 0 THEN -1 ELSE 1, size |-> target, reduceOnly |-> TRUE]

(* Without an open position what margin there is, is withdrawn.  A close   *)
(* of the whole also withdraws what is cached by then, unless that throws. *)
CloseBuild(c) ==
    /\ closes[c].at = "build"
    /\ LET req    == closes[c]
           base   == FindBase(req.snap, req.market)
           target == TargetSize(req.size, base)
           built(order, sum) ==
               [req EXCEPT !.at = "built", !.order = order, !.withdraw = sum]
       IN  \/ /\ base = 0 /\ req.had > 0
              /\ closes' = [closes EXCEPT ![c] = built(NoOrder, req.had)]
           \/ /\ (base = 0 /\ req.had = 0) \/ (base # 0 /\ target = 0)
              /\ closes' = [closes EXCEPT ![c] = Ended(@, "rejected")]
           \/ /\ base # 0 /\ target # 0
              /\ \E sum \in {0} \cup (IF target = Size(base) /\ req.had > 0
                                      THEN {MarginOf(cached, req.market)} ELSE {}) :
                    closes' = [closes EXCEPT ![c] = built(CloseOrder(base, target), sum)]
    /\ UNCHANGED <<account, cached, details, moves>>

(* The chain executes a close: the order is filled as far as there are     *)
(* makers, then the margin of a position that is closed is withdrawn; when *)
(* an instruction fails, so does the transaction.                          *)
Filled(base, order) ==
    LET room == IF ~order.reduceOnly THEN order.size
                ELSE IF order.way * base < 0 THEN TargetSize(order.size, base) ELSE 0
    IN  {base + order.way * n : n \in 0..room}

CloseLands(c) ==
    /\ closes[c].at = "built"
    /\ \E i \in LiveAt(account, closes[c].market) :
       \E base \in Filled(account[i].base, closes[c].order) :
          /\ closes[c].withdraw > 0 => base = 0 /\ closes[c].withdraw <= account[i].margin
          /\ account' = [account EXCEPT ![i].base = base, ![i].margin = @ - closes[c].withdraw]
    /\ closes' = [closes EXCEPT ![c] = Ended(@, "landed")]
    /\ UNCHANGED <<cached, details, moves>>

CloseFails(c) ==
    /\ closes[c].at = "built"
    /\ closes' = [closes EXCEPT ![c] = Ended(@, "failed")]
    /\ UNCHANGED <<account, cached, details, moves>>

-----------------------------------------------------------------------------
PositionsInit ==
    /\ account = Blank /\ cached = Blank
    /\ details = [at |-> "idle", snap |-> Blank, found |-> {}, rows |-> {}]
    /\ closes = [c \in Closers |->
           [at |-> "idle", snap |-> Blank, market |-> 0, size |-> Whole, had |-> 0,
            order |-> NoOrder, withdraw |-> 0]]
    /\ moves = 0

CloseStep(c) == \/ CloseFetch(c) \/ CloseCache(c) \/ CloseMargin(c) \/ CloseBuild(c)
                \/ CloseLands(c) \/ CloseFails(c)
DetailsStep  == DetailsFetch \/ DetailsCache \/ DetailsProbe \/ DetailsAnswer

\* Every request that was begun has ended.
PositionsAtRest ==
    /\ details.at \in {"idle", "answered"}
    /\ \A c \in Closers : closes[c].at \in {"idle", "landed", "failed", "rejected"}
    /\ UNCHANGED positionVars

PositionsNext ==
    \/ \E m \in Traded : Funds(m) \/ \E way \in {-1, 1} : Fills(m, way)
    \/ DetailsStep \/ PositionsAtRest
    \/ \E c \in Closers : CloseStep(c)

PositionsSpec == PositionsInit /\ [][PositionsNext]_positionVars

-----------------------------------------------------------------------------
(* Properties. *)

(* The accounts some request has fetched. *)
Fetched == {closes[c].snap : c \in {d \in Closers : closes[d].at # "idle"}}
           \cup (IF details.at = "idle" THEN {} ELSE {details.snap})

(* The rows of getPositionDetails, found in slots of which several may     *)
(* carry a market and in a cache that others may overwrite before it asks: *)
(* one row at most for a market, the position of the account it fetched    *)
(* with its own entry price, and its margin in tokens when the leverage is *)
(* of equity.  A margin without a position is left out, or shown after it  *)
(* is gone, only if another account was cached in between.                 *)
DetailsTellTheAccount ==
    details.at = "answered" =>
        \A m \in Markets :
            LET rows == {row \in details.rows : row.market = m}
            IN  /\ Cardinality(rows) <= 1
                /\ \A row \in rows :
                      /\ row.size = BaseOf(details.snap, m)
                      /\ row.entry = "position" <=> OpenIn(details.snap, m)
                      /\ row.leverage = "equity" => row.margin = MarginOf(details.snap, m)
                      /\ row.margin > 0 <=> MarginOf(details.snap, m) > 0
                /\ OpenIn(details.snap, m) => rows # {}
                /\ (\A acct \in Fetched : MarginOf(acct, m) > 0) => rows # {}
                /\ (\A acct \in Fetched : LiveAt(acct, m) = {}) => rows = {}

RowsResolve ==
    \A row \in details.rows : InTable(row.market) =>
        /\ Resolve(row.label) = {row.market}
        /\ FindBase(details.snap, row.market) = row.size
RefusedForAReason ==
    \A c \in Closers : closes[c].at = "rejected" =>
        \/ closes[c].size = 0
        \/ /\ ~OpenIn(closes[c].snap, closes[c].market)
           /\ \E acct \in Fetched : MarginOf(acct, closes[c].market) = 0

(* The page closes a row by its label.  For a market the SDK lists, the    *)
(* worker resolves the label to the row's market, and finds in the account *)
(* of the row the position that was shown.  A close is refused only for a  *)
(* size of zero, or if the account it fetched had no position and some     *)
(* request had fetched one without margin: a stale account that is cached  *)
(* can hide margin, nothing else.                                          *)
ShownCanBeClosed == RowsResolve /\ RefusedForAReason

(* Closing has no guard against a second click: two closes of one position *)
(* are built from accounts that are old when they land.  Still a close     *)
(* only takes from its market's position and never turns it around.        *)
Between(b, a) == (0 <= b /\ b <= a) \/ (a <= b /\ b <= 0)
ClosesOnlyReduce ==
    [][\A c \in Closers : (closes[c].at = "built" /\ closes'[c].at = "landed") =>
          \A m \in Markets :
              IF m = closes[c].market THEN Between(BaseOf(account', m), BaseOf(account, m))
              ELSE BaseOf(account', m) = BaseOf(account, m)
      ]_positionVars

=============================================================================
