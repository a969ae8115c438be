------------------------------ MODULE Indexer ------------------------------
(***************************************************************************)
(* The order-indexing service: the streamer and its health route           *)
(* (indexer-bin), the importer (backfill-bin) and the history API          *)
(* (history-bin), which share the table trade_history.                     *)
(*                                                                         *)
(* The chain is the sequence of transactions that have been confirmed; a   *)
(* transaction's place in it stands for its signature.                     *)
(***************************************************************************)
EXTENDS Integers, Sequences, FiniteSets, SequencesExt

CONSTANTS
    TxKinds,        \* bound: what a transaction mentions, see Mentions
    MaxTxs,         \* bound: transactions confirmed over a behaviour
    SlotsTie,       \* whether two transactions may share a slot
    MaxCuts,        \* bound: websocket drops
    MaxCrashes,     \* bound: restarts of indexer-bin
    MaxFailures,    \* bound: RPC or database calls that fail
    MaxBackfills,   \* bound: runs of backfill-bin
    BackfillLimit,  \* BACKFILL_LIMIT
    PageCap,        \* signatures an RPC node returns at once (1000 in the code)
    MaxReads,       \* bound: health requests
    HistoryLimit    \* rows of a history page, 0 when nobody reads it

Mentions == [program : BOOLEAN, wallet : BOOLEAN, account : BOOLEAN]

ASSUME IndexerAssumption ==
    /\ TxKinds \subseteq Mentions
    /\ {MaxTxs, MaxCuts, MaxCrashes, MaxFailures, MaxBackfills, MaxReads} \subseteq Nat
    /\ HistoryLimit \in Nat /\ SlotsTie \in BOOLEAN
    /\ BackfillLimit \in Nat \ {0} /\ PageCap \in Nat \ {0}

VARIABLES
    chain,      \* confirmed transactions, oldest first
    table,      \* trade_history: the signatures it has rows for
    \* indexer-bin
    stream,     \* the subscription: "up", or "down" once the node dropped it
    inbox,      \* notifications received and not yet taken
    streamer,   \* where run_streamer is
    current,    \* the notification it is working on
    lastSlot,   \* StreamStats.last_slot
    lastSig,    \* StreamStats.last_signature, 0 for None
    gap,        \* history: transactions confirmed while nothing was subscribed
    health,     \* a health request: what it has read, and what it answered
    \* backfill-bin
    backfill,   \* where it is
    acc,        \* signatures collected
    before,     \* cursor of the address it is paging through, 0 for None
    todo,       \* collected signatures not yet fetched
    started,    \* history: length of the chain at the first page
    clean,      \* history: no call of this run has failed
    \* a client of history-bin
    client,     \* where it is in paging through the table
    cuts, crashes, failures, backfills, reads

streamVars   == <<stream, inbox, streamer, current, lastSlot, lastSig, gap>>
backfillVars == <<backfill, acc, before, todo, started, clean, backfills>>
vars == <<chain, table, streamVars, health, backfillVars, client, cuts, crashes,
          failures, reads>>

Signatures == 1..MaxTxs
Txs == 1..Len(chain)

-----------------------------------------------------------------------------
(* parse_trade_from_tx keeps a transaction that logs the Drift program and *)
(* mentions the admin wallet or its Drift account.                         *)
Parses(i) == chain[i].mentions.program /\ (chain[i].mentions.wallet \/ chain[i].mentions.account)

(* getSignaturesForAddress: newest first, older than the cursor. *)
Of(address, i) == IF address = "wallet" THEN chain[i].mentions.wallet ELSE chain[i].mentions.account
Older(address, cursor) == {i \in Txs : Of(address, i) /\ (cursor = 0 \/ i < cursor)}
Newest(S, n) == {i \in S : Cardinality({j \in S : j > i}) < n}

Init ==
    /\ chain = <<>> /\ table = {}
    /\ stream = "down" /\ inbox = <<>> /\ streamer = "connect"
    /\ current = 0 /\ lastSlot = 0 /\ lastSig = 0 /\ gap = {}
    /\ health = [at |-> "idle", sig |-> 0, slot |-> 0]
    /\ backfill = "idle" /\ acc = {} /\ before = 0 /\ todo = {} /\ started = 0
    /\ clean = TRUE
    /\ client = [at |-> "idle", offset |-> 0, seen |-> {}, there |-> {}]
    /\ cuts = 0 /\ crashes = 0 /\ failures = 0 /\ backfills = 0 /\ reads = 0

(* A transaction is confirmed, in a new slot or in that of the one before; *)
(* the node notifies a live subscription if it mentions the program.       *)
LastSlot == IF chain = <<>> THEN 0 ELSE chain[Len(chain)].slot
Confirm ==
    /\ Len(chain) < MaxTxs
    /\ \E tx \in TxKinds, tied \in BOOLEAN :
          /\ tied => SlotsTie /\ chain # <<>>
          /\ chain' = Append(chain, [mentions |-> tx,
                                    slot |-> LastSlot + (IF tied THEN 0 ELSE 1)])
          /\ inbox' = IF stream = "up" /\ tx.program THEN Append(inbox, Len(chain) + 1)
                      ELSE inbox
    /\ gap' = IF stream = "up" THEN gap ELSE gap \cup {Len(chain) + 1}
    /\ UNCHANGED <<table, stream, streamer, current, lastSlot, lastSig,
                   health, backfillVars, client, cuts, crashes, failures, reads>>

Fails == failures < MaxFailures /\ failures' = failures + 1

-----------------------------------------------------------------------------
(* run_streamer *)

(* logs_subscribe; a failed attempt only sleeps and tries again. *)
Subscribe ==
    /\ streamer = "connect"
    /\ streamer' = "recv" /\ stream' = "up"
    /\ UNCHANGED <<chain, table, inbox, current, lastSlot, lastSig, gap, health,
                   backfillVars, client, cuts, crashes, failures, reads>>

(* The websocket drops: what was received stays in the channel. *)
CutStream ==
    /\ stream = "up" /\ cuts < MaxCuts
    /\ stream' = "down" /\ cuts' = cuts + 1
    /\ UNCHANGED <<chain, table, inbox, streamer, current, lastSlot, lastSig, gap,
                   health, backfillVars, client, crashes, failures, reads>>

\* Mutants: the loop is left for good; the loop polls a closed receiver; the
\* receiver is dropped with what it holds.
StopAtEnd ==
    /\ streamer = "recv" /\ stream = "down" /\ inbox = <<>>
    /\ streamer' = "stopped"
    /\ UNCHANGED <<chain, table, stream, inbox, current, lastSlot, lastSig, gap,
                   health, backfillVars, client, cuts, crashes, failures, reads>>
SpinAtEnd ==
    /\ streamer = "recv" /\ stream = "down" /\ inbox = <<>>
    /\ UNCHANGED vars
DropAtEnd ==
    /\ streamer = "recv" /\ stream = "down"
    /\ streamer' = "connect" /\ inbox' = <<>>
    /\ UNCHANGED <<chain, table, stream, current, lastSlot, lastSig, gap,
                   health, backfillVars, client, cuts, crashes, failures, reads>>

(* receiver.recv() returns None: sleep and reconnect. *)
EndOfStream ==
    /\ streamer = "recv" /\ stream = "down" /\ inbox = <<>>
    /\ streamer' = "connect"
    /\ UNCHANGED <<chain, table, stream, inbox, current, lastSlot, lastSig, gap,
                   health, backfillVars, client, cuts, crashes, failures, reads>>

\* Mutant: the slot is not stored.
ReceiveKeepsSlot ==
    /\ streamer = "recv" /\ inbox # <<>>
    /\ current' = Head(inbox) /\ inbox' = Tail(inbox)
    /\ streamer' = "publish"
    /\ UNCHANGED <<chain, table, stream, lastSlot, lastSig, gap, health, backfillVars,
                   client, cuts, crashes, failures, reads>>

(* Take a notification and store its slot ... *)
Receive ==
    /\ streamer = "recv" /\ inbox # <<>>
    /\ current' = Head(inbox) /\ inbox' = Tail(inbox)
    /\ lastSlot' = chain[Head(inbox)].slot
    /\ streamer' = "publish"
    /\ UNCHANGED <<chain, table, stream, lastSig, gap, health, backfillVars, client,
                   cuts, crashes, failures, reads>>

(* ... then its signature, ... *)
PublishSignature ==
    /\ streamer = "publish"
    /\ lastSig' = current
    /\ streamer' = "fetch"
    /\ UNCHANGED <<chain, table, stream, inbox, current, lastSlot, gap, health,
                   backfillVars, client, cuts, crashes, failures, reads>>

(* ... then fetch and parse the transaction ... *)
FetchTransaction ==
    /\ streamer = "fetch"
    /\ streamer' = IF Parses(current) THEN "insert" ELSE "recv"
    /\ UNCHANGED <<chain, table, stream, inbox, current, lastSlot, lastSig, gap,
                   health, backfillVars, client, cuts, crashes, failures, reads>>

(* ... and insert it: ON CONFLICT DO NOTHING. *)
InsertTrade ==
    /\ streamer = "insert"
    /\ table' = table \cup {current}
    /\ streamer' = "recv"
    /\ UNCHANGED <<chain, stream, inbox, current, lastSlot, lastSig, gap, health,
                   backfillVars, client, cuts, crashes, failures, reads>>

(* handle_signature returns an error: a warning, and the next notification. *)
SignatureFails ==
    /\ streamer \in {"fetch", "insert"}
    /\ Fails
    /\ streamer' = "recv"
    /\ UNCHANGED <<chain, table, stream, inbox, current, lastSlot, lastSig, gap,
                   health, backfillVars, client, cuts, crashes, reads>>

(* The process dies and is started again, and requests to it with it. *)
CrashIndexer ==
    /\ crashes < MaxCrashes
    /\ crashes' = crashes + 1
    /\ stream' = "down" /\ inbox' = <<>> /\ streamer' = "connect"
    /\ current' = 0 /\ lastSlot' = 0 /\ lastSig' = 0
    /\ health' = [health EXCEPT !.at = "idle", !.sig = 0, !.slot = 0]
    /\ UNCHANGED <<chain, table, gap, backfillVars, client, cuts, failures, reads>>

-----------------------------------------------------------------------------
(* health: the signature is read under its lock, the slot after it. *)

ReadSignature ==
    /\ health.at = "idle" /\ reads < MaxReads
    /\ reads' = reads + 1
    /\ health' = [at |-> "slot", sig |-> lastSig, slot |-> 0]
    /\ UNCHANGED <<chain, table, streamVars, backfillVars, client, cuts, crashes, failures>>

ReadSlot ==
    /\ health.at = "slot"
    /\ health' = [health EXCEPT !.at = "answered", !.slot = lastSlot]
    /\ UNCHANGED <<chain, table, streamVars, backfillVars, client, cuts, crashes,
                   failures, reads>>

CloseHealth ==
    /\ health.at = "answered"
    /\ health' = [at |-> "idle", sig |-> 0, slot |-> 0]
    /\ UNCHANGED <<chain, table, streamVars, backfillVars, client, cuts, crashes,
                   failures, reads>>

-----------------------------------------------------------------------------
(* backfill-bin: collect_signatures for the wallet, then for the account,  *)
(* into one set; then each signature is fetched and inserted.              *)

StartBackfill ==
    /\ backfill \in {"idle", "done"} /\ backfills < MaxBackfills
    /\ backfills' = backfills + 1
    /\ backfill' = "wallet"
    /\ acc' = {} /\ before' = 0 /\ todo' = {} /\ started' = Len(chain) /\ clean' = TRUE
    /\ UNCHANGED <<chain, table, streamVars, health, client, cuts, crashes, failures, reads>>

(* The page asked for: what is left of the limit, which counts what both   *)
(* addresses have given, and no more than a node returns.                  *)
Page == LET room == BackfillLimit - Cardinality(acc)
        IN  Newest(Older(backfill, before), IF room < PageCap THEN room ELSE PageCap)
\* Mutant: the page size clamps the limit.
FullPage == Cardinality(acc) >= BackfillLimit \/ Cardinality(acc) >= PageCap
Full == Cardinality(acc) >= BackfillLimit

Oldest(S) == CHOOSE i \in S : \A j \in S : i <= j

CollectPage ==
    /\ backfill \in {"wallet", "account"}
    /\ ~Full /\ Page # {}
    /\ acc' = acc \cup Page
    /\ before' = Oldest(Page)
    /\ started' = IF backfill = "wallet" /\ before = 0 THEN Len(chain) ELSE started
    /\ UNCHANGED <<chain, table, streamVars, health, backfill, todo, clean, backfills,
                   client, cuts, crashes, failures, reads>>

(* The limit is reached or the page is empty: the next address, or the     *)
(* transactions.                                                           *)
NextAddress ==
    /\ backfill \in {"wallet", "account"}
    /\ Full \/ Page = {}
    /\ before' = 0
    /\ IF backfill = "wallet" THEN backfill' = "account" /\ UNCHANGED todo
       ELSE backfill' = "fetch" /\ todo' = acc
    /\ UNCHANGED <<chain, table, streamVars, health, acc, started, clean, backfills,
                   client, cuts, crashes, failures, reads>>

(* A page that cannot be read ends the run with an error. *)
CollectFails ==
    /\ backfill \in {"wallet", "account"} /\ ~Full
    /\ Fails
    /\ backfill' = "idle"
    /\ UNCHANGED <<chain, table, streamVars, health, acc, before, todo, started, clean,
                   backfills, client, cuts, crashes, reads>>

(* The set is iterated in no order that can be relied on. *)
Import ==
    /\ backfill = "fetch"
    /\ \E i \in todo :
          /\ todo' = todo \ {i}
          /\ table' = IF Parses(i) THEN table \cup {i} ELSE table
    /\ UNCHANGED <<chain, streamVars, health, backfill, acc, before, started, clean,
                   backfills, client, cuts, crashes, failures, reads>>

(* A transaction that cannot be fetched or inserted is logged and skipped. *)
ImportFails ==
    /\ backfill = "fetch"
    /\ \E i \in todo : todo' = todo \ {i}
    /\ Fails
    /\ clean' = FALSE
    /\ UNCHANGED <<chain, table, streamVars, health, backfill, acc, before, started,
                   backfills, client, cuts, crashes, reads>>

FinishBackfill ==
    /\ backfill = "fetch" /\ todo = {}
    /\ backfill' = "done"
    /\ UNCHANGED <<chain, table, streamVars, health, acc, before, todo, started, clean,
                   backfills, client, cuts, crashes, failures, reads>>

-----------------------------------------------------------------------------
(* history_handler, read page after page by a client: LIMIT, OFFSET, and   *)
(* ORDER BY slot DESC, which leaves the order within a slot open.          *)

Slot(i) == chain[i].slot
IsTop(S) == \A i \in S, j \in table : Slot(j) > Slot(i) => j \in S
Tops(n) == {S \in SUBSET table : IsTop(S) /\ Cardinality(S) = n}
Capped(n) == IF n < Cardinality(table) THEN n ELSE Cardinality(table)

\* Mutant: no ORDER BY.
PagesInAnyOrder(offset) ==
    {page \in SUBSET table : Cardinality(page) = Capped(offset + HistoryLimit) - Capped(offset)}
Pages(offset) ==
    {page \in SUBSET table :
        \E above \in Tops(Capped(offset)) :
           above \cap page = {} /\ (above \cup page) \in Tops(Capped(offset + HistoryLimit))}

OpenHistory ==
    /\ client.at = "idle" /\ HistoryLimit > 0
    /\ client' = [at |-> "paging", offset |-> 0, seen |-> {}, there |-> table]
    /\ UNCHANGED <<chain, table, streamVars, health, backfillVars, cuts, crashes,
                   failures, reads>>

ReadPage ==
    /\ client.at = "paging"
    /\ \E page \in Pages(client.offset) :
          client' = [client EXCEPT
                       !.at = IF Cardinality(page) < HistoryLimit THEN "done" ELSE "paging",
                       !.offset = @ + HistoryLimit, !.seen = @ \cup page]
    /\ UNCHANGED <<chain, table, streamVars, health, backfillVars, cuts, crashes,
                   failures, reads>>

-----------------------------------------------------------------------------
(* Everything has been confirmed and indexed: the services wait. *)
Quiescent ==
    /\ Len(chain) = MaxTxs
    /\ streamer = "recv" /\ inbox = <<>> /\ stream = "up"
    /\ health.at = "idle" /\ backfill \in {"idle", "done"}
    /\ client.at # "paging"
    /\ UNCHANGED vars

Streamer == \/ Subscribe \/ EndOfStream \/ Receive \/ PublishSignature
            \/ FetchTransaction \/ InsertTrade \/ SignatureFails
Health   == ReadSignature \/ ReadSlot \/ CloseHealth
Backfill == \/ StartBackfill \/ CollectPage \/ NextAddress \/ CollectFails
            \/ Import \/ ImportFails \/ FinishBackfill
History  == OpenHistory \/ ReadPage

Next == \/ Confirm \/ CutStream \/ CrashIndexer
        \/ Streamer \/ Health \/ Backfill \/ History \/ Quiescent

Spec == Init /\ [][Next]_vars

(* The streamer's task is polled by the runtime, sleeps end, a node can be *)
(* reached again in the end, and every RPC call has a timeout.             *)
FairSpec == Spec /\ WF_vars(Streamer)

-----------------------------------------------------------------------------
(* Types. *)
TypeOK ==
    /\ chain \in Seq([mentions : Mentions, slot : Signatures]) /\ Len(chain) <= MaxTxs
    /\ {table, gap, acc, todo, client.seen, client.there} \subseteq SUBSET Txs
    /\ stream \in {"up", "down"}
    /\ streamer \in {"connect", "recv", "publish", "fetch", "insert"}
    /\ inbox \in Seq(Txs)
    /\ {current, lastSlot, lastSig, before, started} \subseteq 0..Len(chain)
    /\ health \in [at : {"idle", "slot", "answered"}, sig : 0..Len(chain), slot : 0..Len(chain)]
    /\ backfill \in {"idle", "wallet", "account", "fetch", "done"}
    /\ clean \in BOOLEAN
    /\ client.at \in {"idle", "paging", "done"} /\ client.offset \in Nat

(* The pair /health answers is read in two steps while the streamer writes *)
(* it in two: the slot may be newer than the signature, never older.       *)
SlotCovers(sig, slot) == sig # 0 => Slot(sig) <= slot
HealthSlotCoversSignature == health.at = "answered" => SlotCovers(health.sig, health.slot)

(* The only trades the streamer misses without an error or a restart are   *)
(* those confirmed while it had no subscription: a dropped websocket loses *)
(* nothing it had already brought.                                         *)
OnlyGapsAndFailuresMiss ==
    (failures = 0 /\ crashes = 0 /\ streamer = "recv") =>
        \A i \in Txs : Parses(i) => i \in table \cup gap \/ \E n \in DOMAIN inbox : inbox[n] = i

(* A run of backfill-bin that met no error has imported the trades among   *)
(* the wallet's newest BACKFILL_LIMIT transactions as of its first page,   *)
(* for any page size and however many are confirmed while it pages.        *)
Newly(address) == {i \in Newest({j \in 1..started : Of(address, j)}, BackfillLimit) : Parses(i)}
BackfillCoversWallet == (backfill = "done" /\ clean) => Newly("wallet") \subseteq table

(* The README's claim for both addresses: up to BACKFILL_LIMIT each.       *)
BackfillCoversBoth ==
    (backfill = "done" /\ clean) => (Newly("wallet") \cup Newly("account")) \subseteq table

(* A client that pages to the end while rows are being inserted has seen   *)
(* every row that was there when it began and has a slot of its own.       *)
Alone(i) == \A j \in table \ {i} : Slot(j) # Slot(i)
PagesMissNothing ==
    client.at = "done" => \A i \in client.there : Alone(i) => i \in client.seen

(* The streamer reconnects after a websocket drop, however often.          *)
Reconnects == stream = "down" ~> stream = "up"

=============================================================================
