----------------------------- MODULE ActionLog -----------------------------
(***************************************************************************)
(* Server-side execution and the action log: the /execute routes, the      *)
(* executor's lock, the decoder, the table drift_action_logs,              *)
(* POST /actions/decode, GET /actions/history and rust-api's backfill.     *)
(*                                                                         *)
(* A request that executes stands for the transaction it builds, and so    *)
(* for its signature.  A transaction is the sequence of its instructions   *)
(* that the decoder knows; the position of one in it stands for its        *)
(* instruction_index.                                                      *)
(***************************************************************************)
EXTENDS Integers, Sequences, FiniteSets, SequencesExt

CONSTANTS
    Requests,       \* HTTP requests
    Kind,           \* their routes: [Requests -> Kinds]
    Shapes,         \* what a route's transaction may hold, see Instructions
    Nobody,         \* no request
    SlotsTie,       \* whether two transactions may share a slot
    MaxFailures,    \* bound: decodings and statements that fail
    MaxReverts,     \* bound: transactions that land and fail
    MaxDrops,       \* bound: losses of the database connection
    MaxRestarts,    \* bound: restarts of the API
    MaxCancels,     \* bound: clients that disconnect
    MaxBackfills,   \* bound: runs of the backfill
    BackfillLimit,  \* BACKFILL_LIMIT
    PageCap,        \* signatures an RPC node returns at once (1000 in the code)
    HistoryLimit,   \* the limit of a history request
    MaxReads        \* bound: history requests that are answered from the log

\* "open" is the one executing route that stores what it executed.
Kinds == {"open", "other", "decode"}
Instructions == {"deposit", "withdraw", "order"}

ASSUME ActionLogAssumption ==
    /\ Kind \in [Requests -> Kinds]
    /\ Shapes \in [Kinds \ {"decode"} -> SUBSET Seq(Instructions)]
    /\ Nobody \notin Requests
    /\ SlotsTie \in BOOLEAN
    /\ {MaxFailures, MaxReverts, MaxDrops, MaxRestarts, MaxCancels, MaxBackfills, MaxReads} \subseteq Nat
    /\ {BackfillLimit, PageCap, HistoryLimit} \subseteq Nat \ {0}

\* Of what a route builds the decoder knows a deposit and an order, or a withdrawal.
ASSUME ShapesAssumption ==
    \A kind \in Kinds \ {"decode"} : \A shape \in Shapes[kind] : Len(shape) <= 3

VARIABLES
    at,         \* where a request's handler is
    outcome,    \* what it answered, see Outcomes
    signature,  \* the transaction a handler decodes and stores
    next,       \* the instruction it stores next
    tx,         \* what a request built: its decodable instructions
    lock,       \* TxExecutor.lock
    pool,       \* transactions sent and neither landed nor expired
    chain,      \* landed transactions, their slots and errors, oldest first
    db,         \* the API's one connection: "up" or "down"
    log,        \* drift_action_logs: <<signature, instruction>>
    backfill,   \* the backfill: where it is and what it holds
    history,    \* a history request: what it was answered, and from which rows
    sent,       \* history: transactions in the order they were sent
    failures, drops, restarts, cancels, backfills, reads

handlerVars == <<at, outcome, signature, next, tx>>
chainVars   == <<pool, chain, sent>>
counters    == <<failures, drops, restarts, cancels, backfills, reads>>
vars == <<handlerVars, lock, chainVars, db, log, backfill, history, counters>>

\* "unlogged" is the same answer as "ok", after the warning that nothing was
\* stored; "gone" is a request whose client left or whose server restarted.
Outcomes == {"none", "ok", "unlogged", "error", "gone"}

Landed == {chain[i].sig : i \in DOMAIN chain}
Reverted == {chain[i].sig : i \in {j \in DOMAIN chain : chain[j].err}}
Slot(sig) == chain[CHOOSE i \in DOMAIN chain : chain[i].sig = sig].slot
Rows(sig) == {<<sig, n>> : n \in DOMAIN tx[sig]}

Init ==
    /\ at = [r \in Requests |-> "idle"] /\ outcome = [r \in Requests |-> "none"]
    /\ signature = [r \in Requests |-> r] /\ next = [r \in Requests |-> 1]
    /\ tx = [r \in Requests |-> <<>>]
    /\ lock = Nobody
    /\ pool = {} /\ chain = <<>> /\ sent = <<>>
    /\ db = "up" /\ log = {}
    /\ backfill = [at |-> "idle", acc |-> <<>>, next |-> 1, newest |-> {}, clean |-> TRUE]
    /\ history = [at |-> "idle", entries |-> {}, rows |-> {}]
    /\ failures = 0 /\ drops = 0 /\ restarts = 0 /\ cancels = 0 /\ backfills = 0
    /\ reads = 0

Fails == failures < MaxFailures /\ failures' = failures + 1
OtherCounters == UNCHANGED <<drops, restarts, cancels, backfills, reads>>

Answer(r, what) ==
    /\ at' = [at EXCEPT ![r] = "answered"]
    /\ outcome' = [outcome EXCEPT ![r] = what]
Goto(r, where) == at' = [at EXCEPT ![r] = where] /\ UNCHANGED outcome

-----------------------------------------------------------------------------
(* The routes *)

(* The worker builds the transaction, or the request is refused. *)
Build(r) ==
    /\ at[r] = "idle" /\ Kind[r] # "decode"
    /\ \/ /\ \E shape \in Shapes[Kind[r]] : tx' = [tx EXCEPT ![r] = shape]
          /\ Goto(r, "lock")
       \/ Answer(r, "error") /\ UNCHANGED tx
    /\ UNCHANGED <<signature, next, lock, chainVars, db, log, backfill, history, counters>>

\* Mutant: the guard is dropped at once (let _ = lock.lock().await).
TakeLockAndDrop(r) ==
    /\ at[r] = "lock" /\ lock = Nobody
    /\ Goto(r, "send")
    /\ UNCHANGED <<signature, next, tx, lock, chainVars, db, log, backfill, history, counters>>

(* TxExecutor::execute waits for the lock, *)
TakeLock(r) ==
    /\ at[r] = "lock" /\ lock = Nobody
    /\ lock' = r
    /\ Goto(r, "send")
    /\ UNCHANGED <<signature, next, tx, chainVars, db, log, backfill, history, counters>>

(* signs and sends, unless the preflight refuses the transaction; *)
Send(r) ==
    /\ at[r] = "send"
    /\ \/ /\ pool' = pool \cup {r} /\ sent' = Append(sent, r)
          /\ Goto(r, "confirm") /\ UNCHANGED lock
       \/ Answer(r, "error") /\ lock' = Nobody /\ UNCHANGED <<pool, sent>>
    /\ UNCHANGED <<signature, next, tx, chain, db, log, backfill, history, counters>>

\* Mutant: it does not look at the status of the transaction.
ConfirmedAnyway(r) ==
    /\ at[r] = "confirm" /\ r \in Landed
    /\ lock' = Nobody
    /\ IF Kind[r] = "open" THEN Goto(r, "decode") ELSE Answer(r, "ok")
    /\ UNCHANGED <<signature, next, tx, chainVars, db, log, backfill, history, counters>>

(* it returns, and releases the lock, when the transaction has succeeded, *)
Confirmed(r) ==
    /\ at[r] = "confirm" /\ r \in Landed \ Reverted
    /\ lock' = Nobody
    /\ IF Kind[r] = "open" THEN Goto(r, "decode") ELSE Answer(r, "ok")
    /\ UNCHANGED <<signature, next, tx, chainVars, db, log, backfill, history, counters>>

(* or when it has failed or can no longer land, or when an RPC call fails: *)
(* landed or not.                                                          *)
ConfirmFails(r) ==
    /\ at[r] = "confirm"
    /\ lock' = Nobody
    /\ Answer(r, "error")
    /\ UNCHANGED <<signature, next, tx, chainVars, db, log, backfill, history, counters>>

(* POST /actions/decode names a signature. *)
AskDecode(r) ==
    /\ at[r] = "idle" /\ Kind[r] = "decode"
    /\ \E sig \in Landed : signature' = [signature EXCEPT ![r] = sig]
    /\ Goto(r, "decode")
    /\ UNCHANGED <<next, tx, lock, chainVars, db, log, backfill, history, counters>>

(* insert_actions does nothing for no rows. *)
Decode(r) ==
    /\ at[r] = "decode"
    /\ IF tx[signature[r]] = <<>> THEN Answer(r, "ok") ELSE Goto(r, "insert")
    /\ UNCHANGED <<signature, next, tx, lock, chainVars, db, log, backfill, history, counters>>

\* Mutant: only the first row is inserted.
InsertFirst(r) ==
    /\ at[r] = "insert" /\ db = "up"
    /\ log' = log \cup {<<signature[r], next[r]>>}
    /\ Answer(r, "ok")
    /\ UNCHANGED <<signature, next, tx, lock, chainVars, db, backfill, history, counters>>

\* Mutant: one row too many.
InsertPastEnd(r) ==
    /\ at[r] = "insert" /\ db = "up"
    /\ log' = log \cup {<<signature[r], next[r]>>}
    /\ next' = [next EXCEPT ![r] = @ + 1]
    /\ IF next[r] > Len(tx[signature[r]]) THEN Answer(r, "ok") ELSE UNCHANGED <<at, outcome>>
    /\ UNCHANGED <<signature, tx, lock, chainVars, db, backfill, history, counters>>

(* One upsert per row, outside any transaction. *)
InsertRow(r) ==
    /\ at[r] = "insert" /\ db = "up"
    /\ log' = log \cup {<<signature[r], next[r]>>}
    /\ next' = [next EXCEPT ![r] = @ + 1]
    /\ IF next[r] = Len(tx[signature[r]]) THEN Answer(r, "ok") ELSE UNCHANGED <<at, outcome>>
    /\ UNCHANGED <<signature, tx, lock, chainVars, db, backfill, history, counters>>

(* The RPC node does not return the transaction, or a statement fails: an  *)
(* error for the decode route, a warning for the open route.               *)
Unstored(r) == Answer(r, IF Kind[r] = "open" THEN "unlogged" ELSE "error")
StoreFails(r) ==
    /\ at[r] \in {"decode", "insert"}
    /\ Fails /\ Unstored(r) /\ OtherCounters
    /\ UNCHANGED <<signature, next, tx, lock, chainVars, db, log, backfill, history>>

\* Mutant: the insert is tried again until it succeeds.
RetryInsert(r) == at[r] = "insert" /\ db = "down" /\ UNCHANGED vars

(* The connection is down, and nothing opens another. *)
InsertNoConnection(r) ==
    /\ at[r] = "insert" /\ db = "down"
    /\ Unstored(r)
    /\ UNCHANGED <<signature, next, tx, lock, chainVars, db, log, backfill, history, counters>>

(* The client disconnects: the handler's future is dropped, and with it    *)
(* the guard.  A statement already written to the socket runs all the same.*)
Cancel(r) ==
    /\ at[r] \notin {"idle", "answered"} /\ cancels < MaxCancels
    /\ cancels' = cancels + 1
    /\ Answer(r, "gone")
    /\ lock' = IF lock = r THEN Nobody ELSE lock
    /\ log' \in IF at[r] = "insert" /\ db = "up" THEN {log, log \cup {<<signature[r], next[r]>>}}
                ELSE {log}
    /\ pool' \in IF at[r] = "send" THEN {pool, pool \cup {r}} ELSE {pool}
    /\ sent' = IF pool' = pool THEN sent ELSE Append(sent, r)
    /\ UNCHANGED <<signature, next, tx, chain, db, backfill, history,
                   failures, drops, restarts, backfills, reads>>

(* The API dies with its handlers and is started again. *)
Running == {r \in Requests : at[r] \notin {"idle", "answered"}}
Written == IF db = "down" THEN {}
           ELSE {<<signature[r], next[r]>> : r \in {q \in Requests : at[q] = "insert"}}
Restart ==
    /\ restarts < MaxRestarts /\ restarts' = restarts + 1
    /\ at' = [r \in Requests |-> IF r \in Running THEN "answered" ELSE at[r]]
    /\ outcome' = [r \in Requests |-> IF r \in Running THEN "gone" ELSE outcome[r]]
    /\ \E rows \in SUBSET Written : log' = log \cup rows
    /\ lock' = Nobody /\ db' = "up"
    /\ history' = [at |-> "idle", entries |-> {}, rows |-> {}]
    /\ UNCHANGED <<signature, next, tx, chainVars, backfill, failures, drops,
                   cancels, backfills, reads>>

DropConnection ==
    /\ db = "up" /\ drops < MaxDrops
    /\ drops' = drops + 1
    /\ db' = "down"
    /\ UNCHANGED <<handlerVars, lock, chainVars, log, backfill, history,
                   failures, restarts, cancels, backfills, reads>>

-----------------------------------------------------------------------------
(* The chain: a transaction lands, in a new slot or in the last one, and   *)
(* succeeds or fails there, or its blockhash expires.                      *)

Land(r) ==
    /\ r \in pool
    /\ pool' = pool \ {r}
    /\ LET last == IF chain = <<>> THEN 0 ELSE chain[Len(chain)].slot
       IN  \E slot \in {last + 1} \cup (IF SlotsTie /\ chain # <<>> THEN {last} ELSE {}),
              err \in {e \in BOOLEAN : e => Cardinality(Reverted) < MaxReverts} :
              chain' = Append(chain, [sig |-> r, slot |-> slot, err |-> err])
    /\ UNCHANGED <<handlerVars, lock, sent, db, log, backfill, history, counters>>

Expire(r) ==
    /\ r \in pool
    /\ pool' = pool \ {r}
    /\ UNCHANGED <<handlerVars, lock, chain, sent, db, log, backfill, history, counters>>

-----------------------------------------------------------------------------
(* bin/backfill.rs: fetch_signatures, then each signature in turn.         *)

Place(sig) == CHOOSE i \in DOMAIN chain : chain[i].sig = sig
Older == IF backfill.acc = <<>> THEN Landed
         ELSE {sig \in Landed : Place(sig) < Place(Last(backfill.acc))}
Newer(S, sig) == Cardinality({t \in S : Place(t) > Place(sig)})
Newest(S, n) == {sig \in S : Newer(S, sig) < n}
NewestFirst(S) == [k \in 1..Cardinality(S) |-> CHOOSE sig \in S : Newer(S, sig) = k - 1]
Smaller(m, n) == IF m < n THEN m ELSE n

\* Mutant: the page is cut where the node cuts it.
OnePage == Newest(Older, Smaller(BackfillLimit, PageCap) - Len(backfill.acc))
Page == Newest(Older, Smaller(BackfillLimit - Len(backfill.acc), PageCap))

StartBackfill ==
    /\ backfill.at \in {"idle", "done"} /\ backfills < MaxBackfills
    /\ backfills' = backfills + 1
    /\ backfill' = [at |-> "first", acc |-> <<>>, next |-> 1, newest |-> {}, clean |-> TRUE]
    /\ UNCHANGED <<handlerVars, lock, chainVars, db, log, history, failures, drops,
                   restarts, cancels, reads>>

(* `newest' remembers, at the first page, what the run should import. *)
FetchPage ==
    /\ backfill.at \in {"first", "page"}
    /\ backfill' =
          LET base == [backfill EXCEPT !.newest = IF backfill.at = "first"
                                                  THEN Newest(Landed, BackfillLimit) ELSE @]
          IN  IF Page = {} THEN [base EXCEPT !.at = "decode"]
              ELSE [base EXCEPT !.at = "page", !.acc = @ \o NewestFirst(Page)]
    /\ UNCHANGED <<handlerVars, lock, chainVars, db, log, history, counters>>

(* A page that cannot be read ends the run. *)
PageFails ==
    /\ backfill.at \in {"first", "page"} /\ Len(backfill.acc) < BackfillLimit
    /\ Fails /\ OtherCounters
    /\ backfill' = [backfill EXCEPT !.at = "idle"]
    /\ UNCHANGED <<handlerVars, lock, chainVars, db, log, history>>

Current == Head(backfill.acc)
Skip(was) == [was EXCEPT !.at = "decode", !.acc = Tail(@), !.next = 1]

DecodeNext ==
    /\ backfill.at = "decode"
    /\ backfill' = IF backfill.acc = <<>> THEN [backfill EXCEPT !.at = "done"]
                   ELSE IF tx[Current] = <<>> THEN Skip(backfill)
                   ELSE [backfill EXCEPT !.at = "insert"]
    /\ UNCHANGED <<handlerVars, lock, chainVars, db, log, history, counters>>

(* On a connection of its own. *)
BackfillRow ==
    /\ backfill.at = "insert"
    /\ log' = log \cup {<<Current, backfill.next>>}
    /\ backfill' = IF backfill.next = Len(tx[Current]) THEN Skip(backfill)
                   ELSE [backfill EXCEPT !.next = @ + 1]
    /\ UNCHANGED <<handlerVars, lock, chainVars, db, history, counters>>

(* A failure is printed, and the next signature taken. *)
BackfillFails ==
    /\ backfill.at \in {"decode", "insert"} /\ backfill.acc # <<>>
    /\ Fails /\ OtherCounters
    /\ backfill' = [Skip(backfill) EXCEPT !.clean = FALSE]
    /\ UNCHANGED <<handlerVars, lock, chainVars, db, log, history>>

-----------------------------------------------------------------------------
(* get_admin_history: one query, newest slots first and in any order       *)
(* within a slot; then the rows of a signature become one entry.           *)

\* Mutant: as many rows as entries are asked for.
FetchLimitOfEntries == HistoryLimit
FetchLimit == 3 * HistoryLimit

SigsOf(rows) == {row[1] : row \in rows}
\* Mutant: no ORDER BY.
AnyOf(S, slot, n) == {T \in SUBSET S : Cardinality(T) = Smaller(n, Cardinality(S))}
\* What may be the first n of S by descending slot.
Firsts(S, slot, n) ==
    {T \in SUBSET S : /\ Cardinality(T) = Smaller(n, Cardinality(S))
                      /\ \A s \in T, t \in S : slot[t] > slot[s] => t \in T}

Action(row) == tx[row[1]][row[2]]
Orders(rows) == {row \in rows : Action(row) = "order"}
\* build_history_entry: the order if there is one, else the first row.
Primaries(group) == IF Orders(group) # {} THEN Orders(group) ELSE group

GroupOf(rows, sig) == {row \in rows : row[1] = sig}
Entries(rows, sigs) ==
    {E \in SUBSET {[sig |-> sig, shown |-> Action(row)] : sig \in sigs,
                                                          row \in rows} :
        /\ {e.sig : e \in E} = sigs /\ Cardinality(E) = Cardinality(sigs)
        /\ \A e \in E : \E row \in Primaries(GroupOf(rows, e.sig)) : e.shown = Action(row)}

ReadHistory ==
    /\ history.at = "idle" /\ reads < MaxReads
    /\ reads' = reads + 1
    /\ db = "up"
    /\ \E rows \in Firsts(log, [row \in log |-> Slot(row[1])], FetchLimit) :
       \E sigs \in Firsts(SigsOf(rows), [sig \in SigsOf(rows) |-> Slot(sig)], HistoryLimit) :
       \E entries \in Entries(rows, sigs) :
          history' = [at |-> "answered", entries |-> entries, rows |-> log]
    /\ UNCHANGED <<handlerVars, lock, chainVars, db, log, backfill, failures, drops,
                   restarts, cancels, backfills>>

\* Its answer is an error, and nothing changes.
HistoryNoConnection == history.at = "idle" /\ db = "down" /\ UNCHANGED vars

CloseHistory ==
    /\ history.at = "answered"
    /\ history' = [at |-> "idle", entries |-> {}, rows |-> {}]
    /\ UNCHANGED <<handlerVars, lock, chainVars, db, log, backfill, counters>>

-----------------------------------------------------------------------------
(* Every request is answered, or asks about a transaction there is none of.*)
Quiescent ==
    /\ \A r \in Requests : at[r] = "answered" \/ (at[r] = "idle" /\ Kind[r] = "decode" /\ chain = <<>>)
    /\ pool = {} /\ backfill.at \in {"idle", "done"} /\ history.at = "idle"
    /\ UNCHANGED vars

Execute(r) == TakeLock(r) \/ Send(r) \/ Confirmed(r) \/ ConfirmFails(r)
Store(r)   == Decode(r) \/ InsertRow(r) \/ StoreFails(r) \/ InsertNoConnection(r)
Chain      == \E r \in Requests : Land(r) \/ Expire(r)
Backfill   == \/ StartBackfill \/ FetchPage \/ PageFails \/ DecodeNext \/ BackfillRow
              \/ BackfillFails
History    == ReadHistory \/ HistoryNoConnection \/ CloseHistory

Next ==
    \/ \E r \in Requests : Build(r) \/ AskDecode(r) \/ Execute(r) \/ Store(r) \/ Cancel(r)
    \/ Chain \/ Restart \/ DropConnection \/ Backfill \/ History \/ Quiescent

Spec == Init /\ [][Next]_vars

(* send_and_confirm polls until the transaction is confirmed or cannot     *)
(* land any more, RPC calls and statements end, and tokio's mutex is fair. *)
FairSpec ==
    /\ Spec
    /\ \A r \in Requests : WF_vars(Send(r)) /\ WF_vars(Confirmed(r) \/ ConfirmFails(r))
                           /\ SF_vars(TakeLock(r)) /\ WF_vars(Store(r))

-----------------------------------------------------------------------------
(* What a client is promised: see ExecutionContract. *)
Sent(r) == \E i \in DOMAIN sent : sent[i] = r
Fate == [r \in Requests |-> IF r \in Reverted THEN "reverted"
                            ELSE IF r \in Landed THEN "landed"
                            ELSE IF r \in pool THEN "flying"
                            ELSE IF Sent(r) THEN "expired" ELSE "unsent"]
Stored == {sig \in Landed : Rows(sig) \subseteq log}
Contract == INSTANCE ExecutionContract WITH
    Executing <- {r \in Requests : Kind[r] # "decode"},
    Storing   <- {r \in Requests : Kind[r] # "other"},
    asked     <- signature,
    reply     <- outcome,
    fate      <- Fate,
    stored    <- Stored

-----------------------------------------------------------------------------
(* Types. *)
TypeOK ==
    /\ at \in [Requests -> {"idle", "lock", "send", "confirm", "decode", "insert", "answered"}]
    /\ outcome \in [Requests -> Outcomes]
    /\ signature \in [Requests -> Requests] /\ next \in [Requests -> Nat \ {0}]
    /\ tx \in [Requests -> Seq(Instructions)]
    /\ lock \in Requests \cup {Nobody}
    /\ pool \subseteq Requests /\ sent \in Seq(Requests)
    /\ chain \in Seq([sig : Requests, slot : Nat \ {0}, err : BOOLEAN])
    /\ db \in {"up", "down"}
    /\ \A row \in log : row \in UNION {Rows(sig) : sig \in Landed}
    /\ backfill.at \in {"idle", "first", "page", "decode", "insert", "done"}
    /\ backfill.acc \in Seq(Requests) /\ backfill.newest \subseteq Landed
    /\ history.at \in {"idle", "answered"} /\ history.rows \subseteq log

(* The executor's lock orders the server's transactions: one that was      *)
(* executed without an error has landed before any that was sent after it. *)
Executed(r) == at[r] \in {"decode", "insert"} \/ outcome[r] \in {"ok", "unlogged"}
OkInSendOrder ==
    \A i, j \in DOMAIN sent : (i < j /\ Executed(sent[i])) =>
        /\ sent[i] \in Landed
        /\ sent[j] \in Landed => Place(sent[i]) < Place(sent[j])

(* decode_signature does not look at the status of a transaction: one that *)
(* landed and failed gets its rows when a decode request or the backfill   *)
(* names it.  The route that executed it never writes them, not even when  *)
(* its handler is cancelled or restarted.                                  *)
RevertedOnlyOnRequest ==
    \A row \in log : (row[1] \in Reverted /\ backfills = 0) =>
        \E r \in Requests : Kind[r] = "decode" /\ at[r] # "idle" /\ signature[r] = row[1]

(* A backfill that met no error has stored every action of the newest      *)
(* BACKFILL_LIMIT transactions, the ones the routes left out included.     *)
BackfillRepairs ==
    (backfill.at = "done" /\ backfill.clean) =>
        \A sig \in backfill.newest : Rows(sig) \subseteq log

NewestAreShown(shown, all) ==
    /\ Cardinality(shown) = Smaller(HistoryLimit, Cardinality(all))
    /\ \A s \in shown, t \in all \ shown : Slot(t) <= Slot(s)
GroupIsWhole(entry) ==
    \/ Orders(GroupOf(history.rows, entry.sig)) = {}
    \/ \E t \in SigsOf(history.rows) \ {entry.sig} : Slot(t) = Slot(entry.sig)
    \/ entry.shown = "order"

(* /actions/history has as many entries as it was asked for, or all there  *)
(* are, and leaves no signature out for an older one, although its query   *)
(* limits rows and not signatures.  An entry for a transaction with a      *)
(* logged order shows the order, and not the deposit that paid for it,     *)
(* when no other transaction has its slot: the limit does not cut its rows.*)
HistoryTellsTheLog ==
    history.at = "answered" =>
        /\ NewestAreShown({e.sig : e \in history.entries}, SigsOf(history.rows))
        /\ \A e \in history.entries : GroupIsWhole(e)

(* The routes, the executor and the log carry out ExecutionContract: an    *)
(* answer tells what happened, whatever was lost, cancelled or restarted.  *)
(* A request that stores and is answered "ok" has every action of its      *)
(* transaction in the log, whoever else was writing them.                  *)
ImplementsContract == Contract!Spec

(* Every request is answered, or its client has gone: an error, a          *)
(* disconnect or a restart never leaves the executor locked.               *)
EveryRequestAnswered == \A r \in Requests : (at[r] # "idle") ~> (at[r] = "answered")

=============================================================================
