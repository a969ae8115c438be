------------------------------ MODULE WorkerMC ------------------------------
(* The lock of the worker, what its handlers make of an account, and       *)
(* getBalances, for one safety run.  The modules share no state, so that   *)
(* TLC explores them one at a time: one moves only while the others have   *)
(* not begun.                                                              *)
EXTENDS AuthorityLockMC, Positions, Balances

\* Two markets with one base, of which the first has the name of the base; a
\* third that accounts may use is not listed.
Perps == << [index |-> 0, symbol |-> <<"SOL", "PERP">>, base |-> "SOL"],
            [index |-> 1, symbol |-> <<"SOL", "BET">>, base |-> "SOL"] >>

PerpOrders == (0 :> {"filled", "limit"}) @@ (2 :> {"limit", "market"})

WorkerSymmetry == RequestWalletSymmetry \cup Permutations(Closers)

workerVars == <<vars, positionVars, balanceVars>>

NoLock      == (\A r \in Requests : status[r] = "new") /\ UNCHANGED vars
NoPositions == Begun = {} /\ moves = 0 /\ UNCHANGED positionVars
AHolding    == CHOOSE f \in Holding : TRUE
NoBalances  == /\ funds = AHolding /\ summary = Asked /\ transfers = 0
               /\ UNCHANGED balanceVars

\* The others do not depend on what the requests will be.
OneStart == /\ kind = [r \in Requests |-> "open"]
            /\ Cardinality({wallet[r] : r \in Requests}) = 1
            /\ chain = [w \in Wallets |-> Missing]

WorkerInit == /\ Init /\ PositionsInit /\ BalancesInit
              /\ OneStart \/ funds = AHolding
WorkerNext == \/ NoPositions /\ NoBalances /\ Next
              \/ NoLock /\ OneStart /\ NoBalances /\ PositionsNext
              \/ NoLock /\ OneStart /\ NoPositions /\ BalancesNext

WorkerSpec == WorkerInit /\ [][WorkerNext]_workerVars
=============================================================================
