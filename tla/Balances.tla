------------------------------ MODULE Balances ------------------------------
(***************************************************************************)
(* getBalances of the worker (ts-worker/src/drift.ts): the native and      *)
(* token balances of a wallet and of its Drift account.  Each comes from   *)
(* an RPC of its own, which may fail, and between two of them transactions *)
(* move funds, so that the answer is of no one moment.  The handler shares *)
(* nothing with the others.                                                *)
(***************************************************************************)
EXTENDS Integers, Sequences, FiniteSets, FiniteSetsExt, SequencesExt

CONSTANTS
    Mints,        \* of the tokens held
    Native,       \* the mint of wrapped SOL, in which lamports count too
    Holdings,     \* bound: token accounts of the wallet, spot positions of its user
    MaxTransfers  \* bound: transactions that land while the request runs

ASSUME BalancesAssumption ==
    /\ IsFiniteSet(Mints) /\ Native \in Mints
    /\ {Holdings, MaxTransfers} \subseteq Nat

VARIABLES
    funds,      \* what the chain holds for the wallet, see Holding
    summary,    \* the request: the read it is at, and what it has gathered
    forward,    \* history: what has gone from the wallet to its account or
                \* from there into an isolated position, per mint
    back,       \* history: what has come the other way
    transfers

balanceVars == <<funds, summary, forward, back, transfers>>

Shares(amounts) == [1..Holdings -> [mint : Mints, amount : amounts]]
Empty(held)     == \A n \in DOMAIN held : held[n].amount = 0
Holding == {f \in [lamports : 0..1, tokens : Shares(0..1), found : BOOLEAN, rent : 0..1,
                   spot : Shares(-1..1)] :
               IF f.found THEN f.rent = 1 ELSE f.rent = 0 /\ Empty(f.spot)}

NoTokens    == [mint \in {} |-> 0]
Of(part, m) == IF m \in DOMAIN part THEN part[m] ELSE 0
Unknown     == [known |-> FALSE, sol |-> 0, tokens |-> NoTokens]
Asked       == [at |-> "lamports", sol |-> 0, tokens |-> NoTokens, account |-> <<>>,
                drift |-> Unknown, failed |-> {}]

BalancesInit ==
    /\ funds \in Holding /\ summary = Asked /\ transfers = 0
    /\ forward = [m \in Mints |-> 0] /\ back = [m \in Mints |-> 0]

-----------------------------------------------------------------------------
(* External: transactions.  A deposit goes from the wallet to its account  *)
(* or into an isolated position, a margin transfer from the account into a *)
(* position, what is withdrawn comes back.  Lending may leave a debt.      *)
Order == <<"wallet", "account", "position">>

\* The funds after d more of a mint at a place; positions are not looked at.
Plus(f, place, m, d) ==
    CASE place = "wallet"  -> {[f EXCEPT !.lamports = @ + d] : x \in {Native} \cap {m}} \cup
                              {[f EXCEPT !.tokens[n].amount = @ + d] :
                                  n \in {k \in 1..Holdings : f.tokens[k].mint = m}}
      [] place = "account" -> {[f EXCEPT !.spot[n].amount = @ + d] :
                                  n \in {k \in 1..Holdings : f.spot[k].mint = m}}
      [] OTHER             -> {f}
Covered(f) == /\ f.lamports >= 0
              /\ \A n \in 1..Holdings : f.tokens[n].amount >= 0 /\ f.spot[n].amount >= -1

Lands == summary.at # "answered" /\ transfers < MaxTransfers /\ transfers' = transfers + 1

Transfer(from, to, m) ==
    /\ Lands /\ funds.found /\ from # to
    /\ \E f \in Plus(funds, Order[from], m, -1) :
       \E g \in Plus(f, Order[to], m, 1) : Covered(g) /\ funds' = g
    /\ forward' = IF from < to THEN [forward EXCEPT ![m] = @ + 1] ELSE forward
    /\ back' = IF to < from THEN [back EXCEPT ![m] = @ + 1] ELSE back
    /\ UNCHANGED summary

\* The account is created and the wallet pays its rent.
CreateUser ==
    /\ Lands /\ ~funds.found /\ funds.lamports > 0
    /\ funds' = [funds EXCEPT !.found = TRUE, !.rent = 1, !.lamports = @ - 1]
    /\ forward' = [forward EXCEPT ![Native] = @ + 1]
    /\ UNCHANGED <<summary, back>>

-----------------------------------------------------------------------------
(* The loops over token accounts and over spot positions.                  *)

\* Mutant: the aggregate is overwritten instead of added to.
LatestOf(sums, item) ==
    IF item.amount = 0 THEN sums
    ELSE [m \in DOMAIN sums \cup {item.mint} |->
             IF m = item.mint THEN item.amount ELSE sums[m]]

\* One turn: an empty item is skipped.
AddTo(sums, item) ==
    IF item.amount = 0 THEN sums
    ELSE [m \in DOMAIN sums \cup {item.mint} |->
             IF m = item.mint THEN Of(sums, m) + item.amount ELSE sums[m]]
PerMint(items) == FoldLeft(AddTo, NoTokens, items)

\* A debt in one spot market may cancel a deposit in another of the same mint.
NonZero(sums) == [m \in {k \in DOMAIN sums : sums[k] # 0} |-> sums[m]]

-----------------------------------------------------------------------------
(* The reads, in this order.  One that fails shows nothing for its part.   *)
Fail(read) == summary.failed \cup {read}

\* buildAccountSummary: getBalance(...).catch(() => 0)
ReadLamports ==
    /\ summary.at = "lamports"
    /\ \/ summary' = [summary EXCEPT !.at = "tokens", !.sol = funds.lamports]
       \/ summary' = [summary EXCEPT !.at = "tokens", !.failed = Fail("lamports")]
    /\ UNCHANGED <<funds, forward, back, transfers>>

\* fetchTokenBalancesForOwner: what throws in the loop leaves the sums as they are.
ReadTokens ==
    /\ summary.at = "tokens"
    /\ \/ summary' = [summary EXCEPT !.at = "account", !.tokens = PerMint(funds.tokens)]
       \/ \E n \in 0..(Holdings - 1) :
             summary' = [summary EXCEPT !.at = "account", !.failed = Fail("tokens"),
                                        !.tokens = PerMint(SubSeq(funds.tokens, 1, n))]
    /\ UNCHANGED <<funds, forward, back, transfers>>

\* getBalances, the part in `try': fetchUserAccount.
ReadAccount ==
    /\ summary.at = "account"
    /\ \/ /\ ~funds.found
          /\ summary' = [summary EXCEPT !.at = "answered", !.drift.known = TRUE]
       \/ /\ funds.found
          /\ summary' = [summary EXCEPT !.at = "rent", !.account = funds.spot]
       \/ summary' = [summary EXCEPT !.at = "answered", !.failed = Fail("account")]
    /\ UNCHANGED <<funds, forward, back, transfers>>

\* Mutant: the wallet's lamports are asked for last.
ReadRentThenWallet ==
    /\ summary.at = "rent"
    /\ summary' = [summary EXCEPT !.at = "answered", !.account = <<>>, !.sol = funds.lamports,
           !.drift = [known |-> TRUE, sol |-> funds.rent,
                      tokens |-> NonZero(PerMint(summary.account))]]
    /\ UNCHANGED <<funds, forward, back, transfers>>

\* The account's lamports, whose failure is caught apart; then its spot positions
\* as fetched before.  If these throw, the lamports are not answered either.
ReadRent ==
    /\ summary.at = "rent"
    /\ \/ \E rent \in {0, funds.rent} :
             summary' = [summary EXCEPT !.at = "answered", !.account = <<>>,
                 !.failed = IF rent = funds.rent THEN @ ELSE Fail("rent"),
                 !.drift = [known |-> TRUE, sol |-> rent,
                            tokens |-> NonZero(PerMint(summary.account))]]
       \/ summary' = [summary EXCEPT !.at = "answered", !.account = <<>>,
                                     !.failed = Fail("account")]
    /\ UNCHANGED <<funds, forward, back, transfers>>

BalancesDone == summary.at = "answered" /\ UNCHANGED balanceVars

BalancesNext ==
    \/ ReadLamports \/ ReadTokens \/ ReadAccount \/ ReadRent \/ CreateUser \/ BalancesDone
    \/ \E from, to \in DOMAIN Order, m \in Mints : Transfer(from, to, m)
BalancesSpec == BalancesInit /\ [][BalancesNext]_balanceVars

-----------------------------------------------------------------------------
Sum(items, m) == MapThenSumSet(LAMBDA n : items[n].amount,
                               {n \in DOMAIN items : items[n].mint = m})
Coins(n, m)   == IF m = Native THEN n ELSE 0

InWallet(m)  == Coins(funds.lamports, m) + Sum(funds.tokens, m)
InAccount(m) == Coins(funds.rent, m) + Sum(funds.spot, m)
ToldOfWallet(m)  == Coins(summary.sol, m) + Of(summary.tokens, m)
ToldOfAccount(m) == Coins(summary.drift.sol, m) + Of(summary.drift.tokens, m)

(* What an answer of getBalances tells of a mint, over all accounts that   *)
(* hold it and debts included.  Whatever else failed, a part that did not  *)
(* fail differs from what is there by no more than was moved meanwhile.    *)
(* And the wallet is read before its account: funds that go into Drift     *)
(* meanwhile are never missing from the whole, at worst they are told in   *)
(* both parts; only what is withdrawn meanwhile can be missing.            *)
BalancesAddUp ==
    summary.at = "answered" => \A m \in Mints :
        LET near(told, held, less, more) == held - less <= told /\ told <= held + more
            any    == forward[m] + back[m]
            wallet == {"lamports", "tokens"} \cap summary.failed = {}
            drift  == {"account", "rent"} \cap summary.failed = {}
        IN  /\ wallet => near(ToldOfWallet(m), InWallet(m), back[m], forward[m])
            /\ drift => near(ToldOfAccount(m), InAccount(m), any, any)
            /\ (wallet /\ drift) =>
                   near(ToldOfWallet(m) + ToldOfAccount(m), InWallet(m) + InAccount(m),
                        back[m], forward[m])
=============================================================================
