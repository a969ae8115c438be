--------------------------- MODULE AuthorityLock ---------------------------
(***************************************************************************)
(* The Drift adapter of the TypeScript worker (ts-worker/src/drift.ts).    *)
(*                                                                         *)
(* One DriftClient serves every wallet.  Its `authority' says on whose     *)
(* behalf instructions are built and positions read, so a handler swaps    *)
(* its own wallet in for the length of a section, under the promise chain  *)
(* AsyncLock.  Handlers run interleaved: ipc.ts starts one per line and    *)
(* JavaScript switches between them at every await.  A step is what a      *)
(* handler does from one await to the next.                                *)
(***************************************************************************)
EXTENDS Integers, Sequences, FiniteSets

CONSTANTS
    Requests,    \* requests dispatched by processLine
    Wallets,     \* wallets they name
    Server,      \* the server's own key, authority of the client at rest
    Nobody,      \* no authority: nothing read, nothing saved
    Slots,       \* perp position slots of an account; 1 is the market asked for
    MaxMargin,   \* bound: units of isolated margin
    MaxChanges,  \* bound: versions of an account on chain
    Handlers     \* bound: the handlers requests may call

Kinds == {"open", "depositIsolated", "close", "transferIn", "transferOut",
          "positions", "isolatedBalance", "depositSol", "details", "depositToken"}
Authorities == Wallets \cup {Server}

ASSUME LockAssumption ==
    /\ IsFiniteSet(Slots) /\ Slots \subseteq Nat /\ 1 \in Slots
    /\ MaxMargin \in Nat /\ MaxChanges \in Nat
    /\ Handlers \subseteq Kinds
    /\ Nobody \notin Authorities

VARIABLES
    status,     \* of each request: "new", "running", "done" or "failed"
    kind,       \* the handler it called
    wallet,     \* the wallet it named
    rest,       \* what remains of the handler's body
    fetched,    \* the account fetchUserAccount returned to it
    read,       \* the cached account it last read, and whose it was
    tx,         \* instructions collected: what, and under which authority
    ticket,     \* position of a pending section in the promise chain
    phase,      \* where each section is
    saved,      \* originalAuthority of a section that is inside the lock
    issued,     \* sections appended to the promise chain
    served,     \* sections of the chain that have settled
    authority,  \* driftClient.authority, with its wallet and user stats key
    users,      \* the client's cache of accounts
    chain       \* the accounts on chain

requestVars == <<status, kind, wallet, rest>>
dataVars    == <<fetched, read, tx>>
lockVars    == <<ticket, phase, saved, issued, served>>
vars == <<requestVars, dataVars, lockVars, authority, users, chain>>

-----------------------------------------------------------------------------
(* The bodies of the handlers, as the steps an await separates.            *)

IxSteps == {"deposit", "order", "wrap", "transfer", "placeAndTake", "settle",
            "withdrawAll", "withdrawAvailable", "withdrawDelta"}
LockedSteps  == {"initUser", "cache", "margin", "probe"} \cup IxSteps
OutsideSteps == {"fetch", "require", "list", "tokenAccount", "peek", "build"}
Steps == LockedSteps \cup OutsideSteps

OpenIsolated      == <<"initUser", "fetch", "cache", "tokenAccount",
                       "deposit", "order", "build">>
DepositIsolated   == <<"initUser", "fetch", "cache", "tokenAccount", "deposit", "build">>
DepositToken      == <<"initUser", "fetch", "cache", "tokenAccount", "deposit", "build">>
ClosePosition     == <<"require", "cache", "margin">>       \* then ChooseClose
TransferIn        == <<"require", "cache", "initUser", "transfer", "build">>
TransferOut       == <<"require", "cache", "margin", "initUser", "withdrawDelta", "build">>
GetIsolatedBalance == <<"fetch", "cache", "margin">>
GetPositions       == <<"list", "peek">>
GetPositionDetails == <<"list", "cache", "probe">>

\* Mutant: the account is fetched before its existence is checked.
DepositSolFetchFirst == <<"fetch", "initUser", "cache", "wrap", "deposit", "build">>
DepositNativeSol == <<"initUser", "fetch", "cache", "wrap", "deposit", "build">>

Body == [
    open            |-> OpenIsolated,
    depositIsolated |-> DepositIsolated,
    depositToken    |-> DepositToken,
    depositSol      |-> DepositNativeSol,
    close           |-> ClosePosition,
    transferIn      |-> TransferIn,
    transferOut     |-> TransferOut,
    isolatedBalance |-> GetIsolatedBalance,
    positions       |-> GetPositions,
    details         |-> GetPositionDetails]

(* A user account; version 0 is the account that does not exist. *)
Account == [v : 0..MaxChanges + 1, margin : 0..MaxMargin, open : BOOLEAN]
Missing == [v |-> 0, margin |-> 0, open |-> FALSE]
Exists(a) == a.v > 0

Sections == Requests \X Slots
Own(r)   == {r} \X Slots
Waiting  == {s \in Sections : phase[s] = "queued"}
Inside   == {s \in Sections : phase[s] = "inside"}

Init ==
    /\ status = [r \in Requests |-> "new"]
    /\ kind \in [Requests -> Handlers]
    /\ wallet \in [Requests -> Wallets]
    /\ rest = [r \in Requests |-> <<>>]
    /\ fetched = [r \in Requests |-> Missing]
    /\ read = [r \in Requests |-> [of |-> Nobody, account |-> Missing]]
    /\ tx = [r \in Requests |-> {}]
    /\ ticket = [s \in Sections |-> 0]
    /\ phase = [s \in Sections |-> "none"]
    /\ saved = [s \in Sections |-> Nobody]
    /\ issued = 0 /\ served = 0
    /\ authority = Server
    /\ users = [w \in Authorities |-> Missing]       \* skipLoadUsers
    /\ chain \in [Wallets -> {a \in Account : a = Missing \/ a.v = 1}]

(* processLine hands the request to its handler. *)
Dispatch(r) ==
    /\ status[r] = "new"
    /\ status' = [status EXCEPT ![r] = "running"]
    /\ rest' = [rest EXCEPT ![r] = Body[kind[r]]]
    /\ UNCHANGED <<kind, wallet, dataVars, lockVars, authority, users, chain>>

At(r, step) == status[r] = "running" /\ rest[r] # <<>> /\ Head(rest[r]) = step
Proceed(r)  == /\ rest' = [rest EXCEPT ![r] = Tail(@)]
               /\ UNCHANGED status
Return(r)   == /\ status' = [status EXCEPT ![r] = "done"]
               /\ rest' = [rest EXCEPT ![r] = <<>>]
Reject(r)   == /\ status' = [status EXCEPT ![r] = "failed"]
               /\ rest' = [rest EXCEPT ![r] = <<>>]

-----------------------------------------------------------------------------
(* Steps outside the lock. *)

(* fetchUserAccount: null for an account that does not exist.  Handlers     *)
(* that require one throw, those that list positions return an empty list. *)
FetchUserAccount(r) ==
    /\ \E step \in {"fetch", "require", "list"} :
          /\ At(r, step)
          /\ IF Exists(chain[wallet[r]]) \/ step = "fetch" THEN Proceed(r)
             ELSE IF step = "require" THEN Reject(r)
             ELSE Return(r)
    /\ fetched' = [fetched EXCEPT ![r] = chain[wallet[r]]]
    /\ UNCHANGED <<kind, wallet, read, tx, lockVars, authority, users, chain>>

(* Associated token account lookups, which read nothing that is shared. *)
LookUpTokenAccount(r) ==
    /\ At(r, "tokenAccount")
    /\ Proceed(r)
    /\ UNCHANGED <<kind, wallet, dataVars, lockVars, authority, users, chain>>

(* getPositions reads the isolated margin of an open position outside the  *)
(* lock, of whichever wallet is swapped in; getUser throws when that one   *)
(* is not cached.                                                          *)
PeekMargin(r) ==
    /\ At(r, "peek")
    /\ IF ~fetched[r].open THEN Return(r) /\ UNCHANGED read
       ELSE IF ~Exists(users[authority]) THEN Reject(r) /\ UNCHANGED read
       ELSE /\ Return(r)
            /\ read' = [read EXCEPT ![r] = [of |-> authority,
                                            account |-> users[authority]]]
    /\ UNCHANGED <<kind, wallet, fetched, tx, lockVars, authority, users, chain>>

(* buildTransaction takes a blockhash and serializes what was collected. *)
BuildTransaction(r) ==
    /\ At(r, "build")
    /\ IF tx[r] = {} THEN Reject(r) ELSE Return(r)
    /\ UNCHANGED <<kind, wallet, dataVars, lockVars, authority, users, chain>>

(* An RPC of an outside step rejects, and the handler with it. *)
RpcFails(r) ==
    /\ \E step \in OutsideSteps \ {"peek"} : At(r, step)
    /\ Reject(r)
    /\ UNCHANGED <<kind, wallet, dataVars, lockVars, authority, users, chain>>

-----------------------------------------------------------------------------
(* Sections: withAuthority runs its function under AsyncLock.runExclusive. *)

(* The sections one step queues at once: getPositionDetails probes every    *)
(* slot without an open position (slot 1 is the market other handlers ask  *)
(* about, any other may be open or not); any other step runs one section.  *)
Lanes(r, step) ==
    IF step = "probe" THEN {lanes \in SUBSET Slots : 1 \in lanes <=> ~fetched[r].open}
    ELSE {{1}}

\* A lane's place among the sections queued with it, in slot order.
Place(lanes, k) == Cardinality({j \in lanes : j < k})

(* withAuthority(...): `this.last.then(fn)' and `this.last = run'. *)
AppendToChain(r) ==
    \E step \in LockedSteps : \E lanes \in Lanes(r, step) :
        /\ At(r, step)
        /\ \A s \in Own(r) : phase[s] = "none"
        /\ lanes # {}
        /\ phase' = [s \in Sections |-> IF s \in {r} \X lanes THEN "queued"
                                        ELSE phase[s]]
        /\ ticket' = [s \in Sections |->
                         IF s \in {r} \X lanes
                         THEN issued + Place(lanes, s[2])
                         ELSE ticket[s]]
        /\ issued' = issued + Cardinality(lanes)
        /\ UNCHANGED <<requestVars, dataVars, saved, served, authority, users, chain>>

\* Mutant: withAuthority swaps without runExclusive.
EnterAtOnce(s) ==
    /\ phase[s] = "queued"
    /\ phase' = [phase EXCEPT ![s] = "inside"]
    /\ saved' = [saved EXCEPT ![s] = authority]
    /\ authority' = wallet[s[1]]
    /\ UNCHANGED <<requestVars, dataVars, ticket, issued, served, users, chain>>

\* Mutant: the authority is swapped without being saved.
EnterUnsaved(s) ==
    /\ phase[s] = "queued" /\ ticket[s] = served
    /\ phase' = [phase EXCEPT ![s] = "inside"]
    /\ authority' = wallet[s[1]]
    /\ UNCHANGED <<requestVars, dataVars, ticket, saved, issued, served, users, chain>>

(* The earlier sections of the chain have settled: save and swap. *)
EnterLock(s) ==
    /\ phase[s] = "queued" /\ ticket[s] = served
    /\ phase' = [phase EXCEPT ![s] = "inside"]
    /\ saved' = [saved EXCEPT ![s] = authority]
    /\ authority' = wallet[s[1]]
    /\ UNCHANGED <<requestVars, dataVars, ticket, issued, served, users, chain>>

(* The step a section works for; a handler that failed while its other     *)
(* probes were queued leaves them behind.                                  *)
Task(s) == IF status[s[1]] = "running" THEN Head(rest[s[1]]) ELSE "probe"

(* ensureUserInitIxs *)
InitUser(r) ==
    /\ tx' = IF Exists(chain[wallet[r]]) THEN tx
             ELSE [tx EXCEPT ![r] = @ \cup {[op |-> "initUser", by |-> authority]}]
    /\ UNCHANGED <<read, users>>

(* ensureDriftUserCached: the account the handler fetched replaces the     *)
(* cached one; without it a missing entry is fetched afresh.               *)
CacheUser(r) ==
    LET w == wallet[r] IN
    /\ users' = [users EXCEPT ![w] = IF Exists(fetched[r]) THEN fetched[r]
                                     ELSE IF Exists(@) THEN @
                                     ELSE chain[w]]
    /\ UNCHANGED <<read, tx>>

(* getIsolatedPerpPositionTokenAmount for the current authority *)
ReadMargin(r) ==
    /\ Exists(users[authority])
    /\ read' = [read EXCEPT ![r] = [of |-> authority, account |-> users[authority]]]
    /\ UNCHANGED <<tx, users>>

(* An instruction builder of the client. *)
AddInstruction(r, op) ==
    /\ op = "withdrawAvailable" => users[authority].margin > 0
    /\ tx' = [tx EXCEPT ![r] = @ \cup {[op |-> op, by |-> authority]}]
    /\ UNCHANGED <<read, users>>

Work(r, step) == CASE step = "initUser" -> InitUser(r)
                   [] step = "cache"    -> CacheUser(r)
                   [] step \in {"margin", "probe"} -> ReadMargin(r)
                   [] OTHER -> AddInstruction(r, step)

\* Mutant: no `finally', so a section that throws keeps its authority.
RestoreOnReturn(s, how) ==
    /\ phase' = [phase EXCEPT ![s] = how]
    /\ authority' = IF how = "returned" THEN saved[s] ELSE authority
    /\ saved' = [saved EXCEPT ![s] = Nobody]
    /\ ticket' = [ticket EXCEPT ![s] = 0]
    /\ served' = served + 1
    /\ UNCHANGED <<requestVars, fetched, issued, chain>>

\* Mutant: `this.last = run', so a rejection is never followed by anyone.
SettleOnReturn(s, how) ==
    /\ phase' = [phase EXCEPT ![s] = how]
    /\ authority' = saved[s]
    /\ saved' = [saved EXCEPT ![s] = Nobody]
    /\ ticket' = [ticket EXCEPT ![s] = 0]
    /\ served' = IF how = "returned" THEN served + 1 ELSE served
    /\ UNCHANGED <<requestVars, fetched, issued, chain>>

(* The `finally' block restores what the section saved, and the chain      *)
(* settles whether the section returned or threw.                          *)
LeaveLock(s, how) ==
    /\ phase' = [phase EXCEPT ![s] = how]
    /\ authority' = saved[s]
    /\ saved' = [saved EXCEPT ![s] = Nobody]
    /\ ticket' = [ticket EXCEPT ![s] = 0]
    /\ served' = served + 1
    /\ UNCHANGED <<requestVars, fetched, issued, chain>>

FinishSection(s) ==
    /\ phase[s] = "inside"
    /\ Work(s[1], Task(s))
    /\ LeaveLock(s, "returned")

(* An RPC or the client throws inside the section. *)
ThrowSection(s) ==
    /\ phase[s] = "inside"
    /\ LeaveLock(s, "threw")
    /\ UNCHANGED <<read, tx, users>>

-----------------------------------------------------------------------------
(* The handler goes on after its sections. *)

Settled(r) == /\ \A s \in Own(r) : phase[s] \in {"none", "returned"}
              /\ \E s \in Own(r) : phase[s] = "returned"
Threw(r)   == \E s \in Own(r) : phase[s] = "threw"
Forget(r)  == phase' = [s \in Sections |->
                  IF s \in Own(r) /\ phase[s] \in {"returned", "threw"}
                  THEN "none" ELSE phase[s]]
UntouchedByHandler ==
    UNCHANGED <<kind, wallet, dataVars, ticket, saved, issued, served,
                authority, users, chain>>

(* buildClosePositionTx after the margin was read: withdraw what is left,  *)
(* or reduce the position and, for the whole of it, withdraw as well.      *)
ChooseClose(r) ==
    LET hasMargin == read[r].account.margin > 0 IN
    IF fetched[r].open
    THEN \E full \in BOOLEAN :
            /\ rest' = [rest EXCEPT ![r] =
                  IF full /\ hasMargin
                  THEN <<"placeAndTake", "settle", "withdrawAvailable", "build">>
                  ELSE <<"placeAndTake", "settle", "build">>]
            /\ UNCHANGED status
    ELSE IF hasMargin
    THEN /\ rest' = [rest EXCEPT ![r] = <<"withdrawAll", "build">>]
         /\ UNCHANGED status
    ELSE Reject(r)

(* buildTransferIsolatedMarginTx: an open position keeps its own margin. *)
CheckWithdrawal(r) ==
    LET total == read[r].account.margin
        kept  == IF fetched[r].open THEN fetched[r].margin ELSE 0
    IN  \E amount \in 1..MaxMargin :
            IF amount > total - kept THEN Reject(r) ELSE Proceed(r)

Continue(r) ==
    /\ status[r] = "running" /\ Settled(r)
    /\ IF At(r, "margin") /\ kind[r] = "close" THEN ChooseClose(r)
       ELSE IF At(r, "margin") /\ kind[r] = "transferOut" THEN CheckWithdrawal(r)
       ELSE IF Len(rest[r]) = 1 THEN Return(r)
       ELSE Proceed(r)
    /\ Forget(r)
    /\ UntouchedByHandler

(* getPositionDetails of an account whose slots are all open probes none. *)
NothingToProbe(r) ==
    /\ At(r, "probe") /\ {} \in Lanes(r, "probe")
    /\ \A s \in Own(r) : phase[s] = "none"
    /\ Return(r)
    /\ UNCHANGED <<kind, wallet, dataVars, lockVars, authority, users, chain>>

\* Mutant: the catch block also drops the reduce-only order.
SwallowedOrder == {"placeAndTake", "settle", "withdrawAvailable"}

(* A close goes on without the settlement or withdrawal that threw; any    *)
(* other rejection is the handler's.                                       *)
Swallowed == {"settle", "withdrawAvailable"}
CatchOrReject(r) ==
    /\ status[r] = "running" /\ Threw(r)
    /\ IF Head(rest[r]) \in Swallowed THEN Proceed(r) ELSE Reject(r)
    /\ Forget(r)
    /\ UntouchedByHandler

(* The account changes on chain: created, deposited into, traded, settled. *)
ChainMoves(w) ==
    /\ chain[w].v <= MaxChanges
    /\ \E a \in Account : a.v = chain[w].v + 1 /\ chain' = [chain EXCEPT ![w] = a]
    /\ UNCHANGED <<requestVars, dataVars, lockVars, authority, users>>

Answered(r) == status[r] \in {"done", "failed"} /\ \A s \in Own(r) : phase[s] # "queued"
                                                                   /\ phase[s] # "inside"
Quiescent == (\A r \in Requests : Answered(r)) /\ UNCHANGED vars

HandlerStep(r) ==
    \/ FetchUserAccount(r) \/ LookUpTokenAccount(r) \/ PeekMargin(r)
    \/ BuildTransaction(r) \/ RpcFails(r) \/ AppendToChain(r)
    \/ Continue(r) \/ NothingToProbe(r) \/ CatchOrReject(r)
SectionStep(s) == EnterLock(s) \/ FinishSection(s) \/ ThrowSection(s)

Next ==
    \/ \E r \in Requests : Dispatch(r) \/ HandlerStep(r)
    \/ \E s \in Sections : SectionStep(s)
    \/ \E w \in Wallets : ChainMoves(w)
    \/ Quiescent

Spec == Init /\ [][Next]_vars

(* Every RPC is answered or rejects: web3.js puts no bound on when. *)
FairSpec == /\ Spec
            /\ \A r \in Requests : WF_vars(HandlerStep(r))
            /\ \A s \in Sections : WF_vars(SectionStep(s))

-----------------------------------------------------------------------------
(* Properties. *)

(* The types of all variables. *)
TypeOK ==
    /\ status \in [Requests -> {"new", "running", "done", "failed"}]
    /\ kind \in [Requests -> Handlers] /\ wallet \in [Requests -> Wallets]
    /\ rest \in [Requests -> Seq(Steps)]
    /\ fetched \in [Requests -> Account]
    /\ read \in [Requests -> [of : Authorities \cup {Nobody}, account : Account]]
    /\ tx \in [Requests -> SUBSET [op : IxSteps \cup {"initUser"}, by : Authorities]]
    /\ ticket \in [Sections -> Nat]
    /\ phase \in [Sections -> {"none", "queued", "inside", "returned", "threw"}]
    /\ saved \in [Sections -> Authorities \cup {Nobody}]
    /\ issued \in Nat /\ served \in Nat
    /\ authority \in Authorities
    /\ users \in [Authorities -> Account] /\ chain \in [Wallets -> Account]

(* withAuthority: for as long as a section is inside the lock the client    *)
(* acts for that section's wallet, whatever the other handlers do at their *)
(* awaits; so no two sections are ever inside.                             *)
ActsForItsOwnWallet == \A s \in Inside : authority = wallet[s[1]]

(* The `finally' of withAuthority: when nobody is inside, the client has   *)
(* the server's authority back, also after sections that threw.            *)
RestoredAtRest == Inside = {} => authority = Server

(* Every instruction a handler collects, over sections that others run in  *)
(* between, was built for the wallet the request named.                    *)
InstructionsForOwnWallet == \A r \in Requests : \A i \in tx[r] : i.by = wallet[r]

(* A margin read under the lock is that of the request's wallet. *)
LockedReadsOwnMargin ==
    \A r \in Requests : kind[r] # "positions" => read[r].of \in {Nobody, wallet[r]}

(* ensureUserInitIxs before fetchUserAccount: a deposit built for an       *)
(* account that was missing when it was fetched also creates the account.  *)
MissingAccountIsCreated ==
    \A r \in Requests :
        /\ status[r] = "done" /\ ~Exists(fetched[r])
        /\ kind[r] \in {"open", "depositIsolated", "depositSol", "depositToken"}
        => \E i \in tx[r] : i.op = "initUser"

(* buildClosePositionTx, whose try blocks drop the settlement and the      *)
(* withdrawal: a transaction that closes an open position always holds the *)
(* reduce-only order and never withdraws ahead of it.                      *)
CloseKeepsItsOrder ==
    \A r \in Requests :
        status[r] = "done" /\ kind[r] = "close" /\ fetched[r].open
        => /\ \E i \in tx[r] : i.op = "placeAndTake"
           /\ \A i \in tx[r] : i.op # "withdrawAll"

(* README.md:120: GET /positions is a snapshot `for the wallet'. *)
PositionsReadOwnMargin ==
    \A r \in Requests : kind[r] = "positions" => read[r].of \in {Nobody, wallet[r]}

(* A section that throws does not break the promise chain: every request    *)
(* that was dispatched is answered, and none of its sections stays queued. *)
EveryRequestAnswered ==
    \A r \in Requests : (status[r] = "running") ~> Answered(r)
-----------------------------------------------------------------------------
(* The parts of the inductive invariant that AuthorityLockProofs uses.     *)

Pending(s) == phase[s] \in {"queued", "inside"}

(* Sections hold distinct places of the chain, from `served' on, and the   *)
(* one inside is the first.                                                *)
TicketInv ==
    /\ served <= issued
    /\ \A s \in Sections : Pending(s) => served <= ticket[s] /\ ticket[s] < issued
    /\ \A s, t \in Sections : Pending(s) /\ Pending(t) /\ s # t => ticket[s] # ticket[t]
    /\ \A s \in Sections : phase[s] = "inside" => ticket[s] = served

(* The section inside acts for its wallet and will restore the server's key. *)
HolderInv ==
    /\ RestoredAtRest
    /\ \A s \in Sections : phase[s] = "inside" => /\ authority = wallet[s[1]]
                                                  /\ saved[s] = Server

(* Sections belong to the step their handler stands at, or to the probes a *)
(* failed handler left behind.                                             *)
TaskInv ==
    \A s \in Sections : phase[s] # "none" =>
        /\ status[s[1]] \in {"running", "failed"}
        /\ status[s[1]] = "running" =>
              /\ rest[s[1]] # <<>>
              /\ Head(rest[s[1]]) \in LockedSteps
              /\ s[2] = 1 \/ Head(rest[s[1]]) = "probe"

(* Only getPositions reads a margin outside the lock. *)
PeekInv == \A r \in Requests : kind[r] # "positions" =>
               \A i \in 1..Len(rest[r]) : rest[r][i] # "peek"

IInv == /\ TypeOK /\ TicketInv /\ HolderInv /\ TaskInv /\ PeekInv
        /\ InstructionsForOwnWallet /\ LockedReadsOwnMargin
=============================================================================
