------------------------------- MODULE TsIpc -------------------------------
(***************************************************************************)
(* The IPC client of the Rust API (rust-api/src/ipc.rs) together with the  *)
(* process at the other end of the pipe (ts-worker/src/index.ts, ipc.ts).  *)
(*                                                                         *)
(* Tasks of the Tokio runtime run concurrently: one per HTTP request (a    *)
(* caller), one reader per spawned worker, and one task per dropped copy   *)
(* of TsIpc.  They share the map `pending' and the mutex that guards the   *)
(* current worker.  A step is what a task does between two points where    *)
(* another task can be observed: an await, or an access to shared state.   *)
(***************************************************************************)
EXTENDS Integers, Sequences, FiniteSets

CONSTANTS
    Callers,         \* HTTP requests; each makes at most one TsIpc::call
    Free, DropTask,  \* holders of the worker mutex besides callers and readers
    MaxSpawns,       \* bound: worker processes started over a behaviour
    MaxCrashes,      \* bound: workers that die by themselves
    MaxDisconnects,  \* bound: HTTP clients that go away mid-request
    PipeCap,         \* bound: lines the stdin pipe holds before a write blocks
    Replies,         \* bound: the kinds of answer the worker gives
    StateClones,     \* copies of AppState that axum makes for one request
    StartupDrops     \* copies of AppState dropped when the router is built

Gens == 1..MaxSpawns          \* worker processes, in the order of spawning
Ids  == Callers \X {1, 2}     \* the UUID of a caller's first and second attempt
AnswerKinds == {"ok", "remote", "protocol"}

ASSUME BoundsAssumption ==
    /\ MaxSpawns \in Nat \ {0} /\ MaxCrashes \in Nat /\ MaxDisconnects \in Nat
    /\ Replies \subseteq AnswerKinds
    /\ PipeCap \in Nat \ {0} /\ StateClones \in Nat \ {0} /\ StartupDrops \in Nat
ASSUME TasksAssumption ==
    /\ Callers \cap Gens = {}
    /\ Free \notin Callers \cup Gens
    /\ DropTask \notin Callers \cup Gens \cup {Free}

VARIABLES
    pc,       \* where each caller's task is
    try,      \* the attempt it is making: call() retries once
    outcome,  \* what its call() returned
    clones,   \* copies of TsIpc held on behalf of the request
    drops,    \* drop tasks spawned and not finished
    pending,  \* keys of Inner.pending
    slot,     \* what the oneshot channel of a caller's attempt holds
    sentTo,   \* the worker whose stdin the attempt locked, 0 if none
    lock,     \* holder of Inner.worker's mutex
    worker,   \* content of that mutex: a worker, or 0 for None
    taken,    \* the worker a teardown holding the mutex has taken out of it
    reader,   \* state of each worker's reader task
    proc,     \* state of each worker's process
    stdin,    \* complete lines in its stdin pipe, each the set of ids in it
    partial,  \* ids written after the last newline
    working,  \* requests whose handler is running
    stdout,   \* responses written and not read
    handled,  \* history: ids some worker parsed and dispatched
    spawned, crashes, disconnects

callerVars == <<pc, try, outcome, clones>>
mapVars    == <<pending, slot>>
mutexVars  == <<lock, worker, taken>>
pipeVars   == <<stdin, partial, working, stdout, handled>>
countVars  == <<spawned, crashes, disconnects>>
vars == <<callerVars, drops, mapVars, sentTo, mutexVars, reader, proc,
          pipeVars, countVars>>

-----------------------------------------------------------------------------
(* Values. *)

SlotValues  == {"empty", "crashed"} \cup AnswerKinds
Outcomes    == AnswerKinds \cup {"none", "timeout", "crashed", "write", "spawn"}
CallerPCs   == {"idle", "ensure", "insert", "lock", "body", "newline", "wait",
                "fail", "kill", "restart", "done", "gone"}
ReaderStates == {"none", "reading", "stopping", "failing", "killing", "done"}
ProcStates   == {"none", "init", "ready", "dead"}
BadRequest   == [ids |-> {}, kind |-> "bad"]     \* answered with id ''
Answers      == [ids : SUBSET Ids, kind : AnswerKinds] \cup {BadRequest}

Id(c)   == <<c, try[c]>>
Ended   == {"done", "gone"}
Listening(c) == pc[c] \in {"lock", "body", "newline", "wait"}  \* receiver alive
Alive(g) == proc[g] \in {"init", "ready"}

Init ==
    /\ pc = [c \in Callers |-> "idle"]
    /\ try = [c \in Callers |-> 1]
    /\ outcome = [c \in Callers |-> "none"]
    /\ clones = [c \in Callers |-> 0]
    /\ drops = StartupDrops
    /\ pending = {}
    /\ slot = [c \in Callers |-> "empty"]
    /\ sentTo = [c \in Callers |-> 0]
    /\ lock = Free /\ worker = 1 /\ taken = 0
    /\ reader = [g \in Gens |-> IF g = 1 THEN "reading" ELSE "none"]
    /\ proc = [g \in Gens |-> IF g = 1 THEN "init" ELSE "none"]
    /\ stdin = [g \in Gens |-> <<>>]
    /\ partial = [g \in Gens |-> {}]
    /\ working = [g \in Gens |-> {}]
    /\ stdout = [g \in Gens |-> <<>>]
    /\ handled = {}
    /\ spawned = 1 /\ crashes = 0 /\ disconnects = 0

-----------------------------------------------------------------------------
(* Pieces shared by several handlers. *)

Goto(c, l) == pc' = [pc EXCEPT ![c] = l]

\* The senders of `ids' are taken out of the map and used; to send to a receiver
\* that has been dropped does nothing.
Send(ids, value) ==
    /\ pending' = pending \ ids
    /\ slot' = [c \in Callers |->
                  IF Id(c) \in ids \cap pending /\ Listening(c) THEN value ELSE slot[c]]

\* fail_all_pending
FailAllPending == Send(pending, "crashed")

\* A process is gone: what it had not answered goes with it; what it wrote to
\* its stdout can still be read.
Die(g) ==
    /\ proc' = [h \in Gens |-> IF h = g THEN "dead" ELSE proc[h]]
    /\ stdin' = [h \in Gens |-> IF h = g THEN <<>> ELSE stdin[h]]
    /\ partial' = [h \in Gens |-> IF h = g THEN {} ELSE partial[h]]
    /\ working' = [h \in Gens |-> IF h = g THEN {} ELSE working[h]]

\* Mutant of Settle: no retry.
SettleAtOnce(c, result) ==
    /\ Goto(c, "done") /\ outcome' = [outcome EXCEPT ![c] = result]
    /\ slot' = [slot EXCEPT ![c] = "empty"]
    /\ sentTo' = [sentTo EXCEPT ![c] = 0]

\* call_internal returned: call() retries a crash or a failed write once, and
\* returns everything else.
Settle(c, result) ==
    /\ IF result \in {"crashed", "write"} /\ try[c] = 1
       THEN Goto(c, "fail") /\ UNCHANGED outcome
       ELSE Goto(c, "done") /\ outcome' = [outcome EXCEPT ![c] = result]
    /\ slot' = [slot EXCEPT ![c] = "empty"]
    /\ sentTo' = [sentTo EXCEPT ![c] = 0]

\* spawn_worker, under the mutex.  Starting a process may fail, and does when
\* the bound MaxSpawns is used up.
Spawn ==
    /\ spawned < MaxSpawns
    /\ spawned' = spawned + 1
    /\ worker' = spawned + 1
    /\ proc' = [proc EXCEPT ![spawned + 1] = "init"]
    /\ reader' = [reader EXCEPT ![spawned + 1] = "reading"]

\* ensure_worker then `next', or a Spawn error.  There is no await between
\* locking and unlocking, so it is one step.
EnsureWorker(c, next) ==
    /\ lock = Free
    /\ \/ /\ worker # 0
          /\ Goto(c, next)
          /\ UNCHANGED <<outcome, spawned, worker, proc, reader>>
       \/ /\ worker = 0
          /\ Spawn
          /\ Goto(c, next)
          /\ UNCHANGED outcome
       \/ /\ worker = 0
          /\ Goto(c, "done")
          /\ outcome' = [outcome EXCEPT ![c] = "spawn"]
          /\ UNCHANGED <<spawned, worker, proc, reader>>
    /\ UNCHANGED <<clones, drops, mapVars, sentTo, lock, taken, pipeVars,
                   crashes, disconnects>>

\* Mutant of TakeWorker: the child is dropped and not killed.
TakeWorkerAlive(task) ==
    /\ lock = Free
    /\ lock' = task
    /\ taken' = worker
    /\ worker' = 0
    /\ UNCHANGED <<proc, stdin, partial, working>>

\* The first half of a teardown: lock, guard.take(), and the SIGKILL that
\* Child::kill sends before it first waits.
TakeWorker(task) ==
    /\ lock = Free
    /\ lock' = task
    /\ taken' = worker
    /\ worker' = 0
    /\ Die(worker)

\* Mutant of FinishTeardown: fail_all_pending is forgotten.
FinishTeardownSilently(task) ==
    /\ lock = task
    /\ lock' = Free
    /\ taken' = 0
    /\ UNCHANGED mapVars

\* The second half: the child is reaped, its reader aborted, and all pending
\* attempts failed before the mutex is released.  A reader that waits for the
\* mutex never gets it; one that is reading stops at its next await.
FinishTeardown(task) ==
    /\ lock = task
    /\ lock' = Free
    /\ taken' = 0
    /\ FailAllPending

Aborted(s) == CASE s = "reading" -> "stopping"
                [] s = "failing" -> "done"
                [] OTHER -> s

AbortReader(g) == [h \in Gens |-> IF h = g THEN Aborted(reader[h]) ELSE reader[h]]

-----------------------------------------------------------------------------
(* A caller: TsIpc::call and call_internal. *)

\* A request of a route that calls the worker arrives.
StartCall(c) ==
    /\ pc[c] = "idle"
    /\ Goto(c, "ensure")
    /\ clones' = [clones EXCEPT ![c] = StateClones]
    /\ UNCHANGED <<try, outcome, drops, mapVars, sentTo, mutexVars, reader, proc,
                   pipeVars, countVars>>

\* A request of a route that does not (/actions/history, /actions/decode): the
\* copies of the state are made and dropped all the same.
ServeWithoutIpc(c) ==
    /\ pc[c] = "idle"
    /\ Goto(c, "done")
    /\ clones' = [clones EXCEPT ![c] = StateClones]
    /\ UNCHANGED <<try, outcome, drops, mapVars, sentTo, mutexVars, reader, proc,
                   pipeVars, countVars>>

CallEnsuresWorker(c) ==
    /\ pc[c] = "ensure"
    /\ EnsureWorker(c, "insert")
    /\ UNCHANGED try

InsertPending(c) ==
    /\ pc[c] = "insert"
    /\ pending' = pending \cup {Id(c)}
    /\ Goto(c, "lock")
    /\ UNCHANGED <<try, outcome, clones, drops, slot, sentTo, mutexVars, reader,
                   proc, pipeVars, countVars>>

\* Mutant of LockStdin: the guard is dropped before the writes.
LockStdinBriefly(c) ==
    /\ pc[c] = "lock"
    /\ lock = Free /\ worker # 0
    /\ sentTo' = [sentTo EXCEPT ![c] = worker]
    /\ Goto(c, "body")
    /\ UNCHANGED <<try, outcome, clones, drops, mapVars, mutexVars, reader, proc,
                   pipeVars, countVars>>

LockStdin(c) ==
    /\ pc[c] = "lock"
    /\ lock = Free /\ worker # 0
    /\ lock' = c
    /\ sentTo' = [sentTo EXCEPT ![c] = worker]
    /\ Goto(c, "body")
    /\ UNCHANGED <<try, outcome, clones, drops, mapVars, worker, taken, reader,
                   proc, pipeVars, countVars>>

\* The mutex holds None: WorkerCrashed is returned and the entry in `pending'
\* stays.
LockFindsNoWorker(c) ==
    /\ pc[c] = "lock"
    /\ lock = Free /\ worker = 0
    /\ Settle(c, "crashed")
    /\ UNCHANGED <<try, clones, drops, pending, mutexVars, reader, proc,
                   pipeVars, countVars>>

\* The JSON text goes to the pipe while the mutex is held; no timeout applies,
\* so a full pipe blocks here.
WriteBody(c) ==
    /\ pc[c] = "body"
    /\ Alive(sentTo[c])
    /\ Len(stdin[sentTo[c]]) < PipeCap
    /\ partial' = [partial EXCEPT ![sentTo[c]] = @ \cup {Id(c)}]
    /\ Goto(c, "newline")
    /\ UNCHANGED <<try, outcome, clones, drops, mapVars, sentTo, mutexVars, reader,
                   proc, stdin, working, stdout, handled, countVars>>

\* The newline completes the line, with whatever was left before the body.
WriteNewline(c) ==
    /\ pc[c] = "newline"
    /\ Alive(sentTo[c])
    /\ stdin' = [stdin EXCEPT ![sentTo[c]] = Append(@, partial[sentTo[c]])]
    /\ partial' = [partial EXCEPT ![sentTo[c]] = {}]
    /\ lock' = Free
    /\ Goto(c, "wait")
    /\ UNCHANGED <<try, outcome, clones, drops, mapVars, sentTo, worker, taken,
                   reader, proc, working, stdout, handled, countVars>>

\* Nobody reads the pipe any more: EPIPE.
WriteFails(c) ==
    /\ pc[c] \in {"body", "newline"}
    /\ ~Alive(sentTo[c])
    /\ pending' = pending \ {Id(c)}
    /\ lock' = Free
    /\ Settle(c, "write")
    /\ UNCHANGED <<try, clones, drops, worker, taken, reader, proc,
                   pipeVars, countVars>>

Receive(c) ==
    /\ pc[c] = "wait"
    /\ slot[c] # "empty"
    /\ Settle(c, slot[c])
    /\ UNCHANGED <<try, clones, drops, pending, mutexVars, reader, proc,
                   pipeVars, countVars>>

\* Mutants of Timeout: the entry is left behind; the wait has no timeout.
TimeoutKeepsEntry(c) ==
    /\ pc[c] = "wait"
    /\ slot[c] = "empty"
    /\ Settle(c, "timeout")
    /\ UNCHANGED <<try, clones, drops, pending, mutexVars, reader, proc, pipeVars,
                   countVars>>
NoTimeout(c) == pc[c] = "wait" /\ FALSE /\ UNCHANGED vars

\* tokio::time::timeout polls the receiver first, so an answer that has arrived
\* wins.
Timeout(c) ==
    /\ pc[c] = "wait"
    /\ slot[c] = "empty"
    /\ pending' = pending \ {Id(c)}
    /\ Settle(c, "timeout")
    /\ UNCHANGED <<try, clones, drops, mutexVars, reader, proc,
                   pipeVars, countVars>>

\* handle_worker_failure, called by call() after a crash or a failed write.  It
\* takes whatever worker is there by now.
CallTakesWorker(c) ==
    /\ pc[c] = "fail"
    /\ TakeWorker(c)
    /\ Goto(c, "kill")
    /\ UNCHANGED <<try, outcome, clones, drops, mapVars, sentTo, reader, stdout,
                   handled, countVars>>

CallFinishesTeardown(c) ==
    /\ pc[c] = "kill"
    /\ FinishTeardown(c)
    /\ reader' = AbortReader(taken)
    /\ Goto(c, "restart")
    /\ UNCHANGED <<try, outcome, clones, drops, sentTo, worker, proc, pipeVars,
                   countVars>>

CallRestartsWorker(c) ==
    /\ pc[c] = "restart"
    /\ EnsureWorker(c, "ensure")
    /\ try' = [try EXCEPT ![c] = IF pc'[c] = "ensure" THEN 2 ELSE 1]

\* The HTTP client goes away and hyper drops the handler at its await: locks are
\* released, nothing else is undone.
Disconnect(c) ==
    /\ disconnects < MaxDisconnects
    /\ pc[c] \in {"ensure", "lock", "body", "newline", "wait", "fail", "kill", "restart"}
    /\ pc[c] = "kill" => taken # 0
    /\ disconnects' = disconnects + 1
    /\ Goto(c, "gone")
    /\ lock' = IF lock = c THEN Free ELSE lock
    /\ taken' = IF lock = c THEN 0 ELSE taken
    /\ slot' = [slot EXCEPT ![c] = "empty"]
    /\ sentTo' = [sentTo EXCEPT ![c] = 0]
    /\ UNCHANGED <<try, outcome, clones, drops, pending, worker, reader,
                   proc, pipeVars, spawned, crashes>>

-----------------------------------------------------------------------------
(* Drop for TsIpc.  TsIpc is Clone, so every copy of AppState runs it.     *)

\* A copy is dropped: at any time for those axum keeps for itself, at the end of
\* the handler for the one the handler holds.
DropClone(c) ==
    /\ clones[c] > 0
    /\ pc[c] \notin Ended => clones[c] > 1
    /\ clones' = [clones EXCEPT ![c] = @ - 1]
    /\ drops' = drops + 1
    /\ UNCHANGED <<pc, try, outcome, mapVars, sentTo, mutexVars, reader, proc,
                   pipeVars, countVars>>

\* Mutant of DropTakesWorker: teardowns nobody asked for.
DropTakesWorkerUnasked ==
    /\ TakeWorker(DropTask)
    /\ UNCHANGED <<callerVars, drops, mapVars, sentTo, reader, stdout, handled,
                   countVars>>

DropTakesWorker ==
    /\ drops > 0
    /\ TakeWorker(DropTask)
    /\ UNCHANGED <<callerVars, drops, mapVars, sentTo, reader, stdout, handled,
                   countVars>>

DropFinishesTeardown ==
    /\ FinishTeardown(DropTask)
    /\ drops' = drops - 1
    /\ reader' = AbortReader(taken)
    /\ UNCHANGED <<callerVars, sentTo, worker, proc, pipeVars, countVars>>

-----------------------------------------------------------------------------
(* The reader task of a worker: read_loop, then handle_worker_failure. *)

\* Mutant of Dispatch: an answer goes to whoever waits.
DispatchToAnyone(g) ==
    /\ reader[g] \in {"reading", "stopping"}
    /\ stdout[g] # <<>>
    /\ \E i \in pending : Send({i}, Head(stdout[g]).kind)
    /\ stdout' = [stdout EXCEPT ![g] = Tail(@)]
    /\ UNCHANGED <<callerVars, drops, sentTo, mutexVars, reader, proc, stdin,
                   partial, working, handled, countVars>>

\* dispatch_response.  An id nobody waits for, or '' for a bad request, is only
\* logged.
Dispatch(g) ==
    /\ reader[g] \in {"reading", "stopping"}
    /\ stdout[g] # <<>>
    /\ Send(Head(stdout[g]).ids, Head(stdout[g]).kind)
    /\ stdout' = [stdout EXCEPT ![g] = Tail(@)]
    /\ UNCHANGED <<callerVars, drops, sentTo, mutexVars, reader, proc, stdin,
                   partial, working, handled, countVars>>

ReaderSeesEof(g) ==
    /\ reader[g] = "reading"
    /\ proc[g] = "dead" /\ stdout[g] = <<>>
    /\ reader' = [reader EXCEPT ![g] = "failing"]
    /\ UNCHANGED <<callerVars, drops, mapVars, sentTo, mutexVars, proc, pipeVars,
                   countVars>>

ReaderTakesWorker(g) ==
    /\ reader[g] = "failing"
    /\ TakeWorker(g)
    /\ reader' = [reader EXCEPT ![g] = "killing"]
    /\ UNCHANGED <<callerVars, drops, mapVars, sentTo, stdout, handled, countVars>>

\* The reader may abort itself here; the task is past its last await by then.
ReaderFinishesTeardown(g) ==
    /\ reader[g] = "killing"
    /\ FinishTeardown(g)
    /\ reader' = [AbortReader(taken) EXCEPT ![g] = "done"]
    /\ UNCHANGED <<callerVars, drops, sentTo, worker, proc, pipeVars, countVars>>

\* An aborted reader reaches an await.
ReaderStops(g) ==
    /\ reader[g] = "stopping"
    /\ reader' = [reader EXCEPT ![g] = "done"]
    /\ UNCHANGED <<callerVars, drops, mapVars, sentTo, mutexVars, proc, pipeVars,
                   countVars>>

-----------------------------------------------------------------------------
(* The worker process: main of index.ts, then startIpc and processLine. *)

\* initDrift resolved.  Until then nothing reads stdin; requests wait in the pipe.
WorkerReady(g) ==
    /\ proc[g] = "init"
    /\ proc' = [proc EXCEPT ![g] = "ready"]
    /\ UNCHANGED <<callerVars, drops, mapVars, sentTo, mutexVars, reader, pipeVars,
                   countVars>>

\* A line that is one request starts a handler, which then runs concurrently with
\* the others; a line that is not is answered at once with id ''.
ReadLine(g) ==
    /\ proc[g] = "ready"
    /\ stdin[g] # <<>>
    /\ stdin' = [stdin EXCEPT ![g] = Tail(@)]
    /\ IF Cardinality(Head(stdin[g])) = 1
       THEN /\ working' = [working EXCEPT ![g] = @ \cup Head(stdin[g])]
            /\ handled' = handled \cup Head(stdin[g])
            /\ UNCHANGED stdout
       ELSE /\ stdout' = [stdout EXCEPT ![g] = Append(@, BadRequest)]
            /\ UNCHANGED <<working, handled>>
    /\ UNCHANGED <<callerVars, drops, mapVars, sentTo, mutexVars, reader, proc,
                   partial, countVars>>

\* A handler resolves or throws, in any order.  A result that is null or undefined
\* reaches Rust as `ok' without result: a protocol error.
Answer(g) ==
    \E i \in working[g], kind \in Replies :
        /\ proc[g] = "ready"
        /\ working' = [working EXCEPT ![g] = @ \ {i}]
        /\ stdout' = [stdout EXCEPT ![g] = Append(@, [ids |-> {i}, kind |-> kind])]
        /\ UNCHANGED <<callerVars, drops, mapVars, sentTo, mutexVars, reader, proc,
                       stdin, partial, handled, countVars>>

\* The process dies by itself: initDrift threw, Node crashed, it was killed.
Crash(g) ==
    /\ crashes < MaxCrashes
    /\ Alive(g)
    /\ Die(g)
    /\ crashes' = crashes + 1
    /\ UNCHANGED <<callerVars, drops, mapVars, sentTo, mutexVars, reader, stdout,
                   handled, spawned, disconnects>>

-----------------------------------------------------------------------------

\* Everything a caller does once its request has arrived.
Call(c) ==
    \/ CallEnsuresWorker(c) \/ InsertPending(c) \/ LockStdin(c)
    \/ LockFindsNoWorker(c) \/ WriteBody(c) \/ WriteNewline(c) \/ WriteFails(c)
    \/ Receive(c) \/ Timeout(c) \/ CallTakesWorker(c) \/ CallFinishesTeardown(c)
    \/ CallRestartsWorker(c)

Read(g) ==
    \/ Dispatch(g) \/ ReaderSeesEof(g) \/ ReaderTakesWorker(g)
    \/ ReaderFinishesTeardown(g) \/ ReaderStops(g)

Drop == DropTakesWorker \/ DropFinishesTeardown

\* Every request has ended and every task has run: the API waits.
Quiescent ==
    /\ \A c \in Callers : pc[c] \in Ended /\ clones[c] = 0
    /\ drops = 0
    /\ \A g \in Gens : reader[g] \in {"none", "reading", "done"}
    /\ UNCHANGED vars

Next ==
    \/ \E c \in Callers : \/ StartCall(c) \/ ServeWithoutIpc(c) \/ Call(c)
                          \/ Disconnect(c) \/ DropClone(c)
    \/ \E g \in Gens : \/ Read(g) \/ WorkerReady(g) \/ ReadLine(g) \/ Answer(g)
                       \/ Crash(g)
    \/ Drop
    \/ Quiescent

Spec == Init /\ [][Next]_vars

(* Fairness.  The Tokio runtime keeps polling every task that can run, and    *)
(* hands the mutex out in FIFO order; since each task takes the mutex a       *)
(* bounded number of times, weak fairness of each task is enough.  Of the     *)
(* worker, ApiFairness assumes nothing; DrainFairness assumes that it gets    *)
(* through initDrift and keeps reading its stdin, not that it ever answers.   *)
ApiFairness ==
    /\ \A c \in Callers : WF_vars(Call(c))
    /\ \A g \in Gens : WF_vars(Read(g))
    /\ WF_vars(Drop)
DrainFairness == \A g \in Gens : WF_vars(WorkerReady(g)) /\ WF_vars(ReadLine(g))

ApiFairSpec == Spec /\ ApiFairness
FairSpec    == Spec /\ ApiFairness /\ DrainFairness

-----------------------------------------------------------------------------
(* Properties. *)

CallerTypes ==
    /\ pc \in [Callers -> CallerPCs]
    /\ try \in [Callers -> {1, 2}]
    /\ outcome \in [Callers -> Outcomes]
    /\ clones \in [Callers -> 0..StateClones]

TaskTypes ==
    /\ pending \subseteq Ids
    /\ slot \in [Callers -> SlotValues]
    /\ sentTo \in [Callers -> Gens \cup {0}]
    /\ lock \in Callers \cup Gens \cup {Free, DropTask}
    /\ worker \in Gens \cup {0}
    /\ taken \in Gens \cup {0}
    /\ reader \in [Gens -> ReaderStates]
    /\ drops \in Nat /\ spawned \in Gens /\ crashes \in Nat /\ disconnects \in Nat

ProcessTypes ==
    /\ proc \in [Gens -> ProcStates]
    /\ stdin \in [Gens -> Seq(SUBSET Ids)]
    /\ partial \in [Gens -> SUBSET Ids]
    /\ working \in [Gens -> SUBSET Ids]
    /\ stdout \in [Gens -> Seq(Answers)]
    /\ handled \subseteq Ids

TypeOK == CallerTypes /\ TaskTypes /\ ProcessTypes

\* The worker in the mutex is the only one that can be alive: no teardown, in
\* whatever order teardowns, crashes and cancelled requests happen, leaves a
\* Node process running that nobody owns (ipc.rs:164-172, 293-305).
NoOrphanProcess == \A g \in Gens : Alive(g) => worker = g

\* A caller that waits for an answer it has not got is still registered, and the
\* reader of the worker it wrote to will either dispatch the answer or, at end
\* of file, fail the call: it never has to wait for its timeout because of a
\* dead worker (ipc.rs:105-111, 204-235).
NoStrandedWaiter ==
    \A c \in Callers :
        pc[c] = "wait" /\ slot[c] = "empty" =>
            /\ Id(c) \in pending
            /\ reader[sentTo[c]] \in {"reading", "failing", "killing"}

\* An entry of `pending' belongs to an attempt that is being made, but for two
\* leaks: the retry that finds no worker (ipc.rs:208 returns without removing
\* it) and the request whose client went away.
OnlyKnownLeaks ==
    \A c \in Callers, k \in {1, 2} :
        <<c, k>> \in pending =>
            /\ k = try[c]
            /\ \/ pc[c] \in {"lock", "body", "newline", "wait", "fail", "kill", "gone"}
               \/ pc[c] = "done" /\ outcome[c] = "crashed" /\ try[c] = 2

\* A line with more than one request in it was started by a request that was
\* cancelled between its body and its newline (ipc.rs:212-223).
MergedOnlyAfterDisconnect ==
    \A g \in Gens : \A n \in 1..Len(stdin[g]) :
        Cardinality(stdin[g][n]) # 1 =>
            \E c \in Callers, k \in {1, 2} : <<c, k>> \in stdin[g][n] /\ pc[c] = "gone"

\* A call reports a crash or a failed write to its client only after two workers
\* have died: the single retry of ipc.rs:276-287 absorbs the first death.
CrashErrorNeedsTwoDeaths ==
    \A c \in Callers :
        outcome[c] \in {"crashed", "write"} =>
            \E g, h \in Gens : g # h /\ proc[g] = "dead" /\ proc[h] = "dead"

\* Every call returns, whatever the worker does with the requests it has read:
\* "IPC calls have a default timeout of 10s" (README.md:137).
CallReturns ==
    \A c \in Callers : pc[c] = "ensure" ~> pc[c] \in Ended

\* "worker crashed" (ipc.rs:24) is what a call reports when a worker crashed.
WorkerCrashedMeansCrash ==
    \A c \in Callers : outcome[c] = "crashed" => crashes > 0

(* The inductive invariant of TsIpcProofs, in named parts. *)

\* The mutex: who holds it, and what a teardown that holds it has done so far.
MutexInv ==
    /\ \A c \in Callers : lock = c <=> pc[c] \in {"body", "newline", "kill"}
    /\ \A g \in Gens : lock = g <=> reader[g] = "killing"
    /\ lock = DropTask => drops > 0
    /\ lock \in Gens \cup {DropTask} => worker = 0
    /\ \A c \in Callers : pc[c] = "kill" => worker = 0

\* The worker in the mutex has a reader nobody has aborted; a generation that has
\* not been spawned has neither process nor reader.
WorkerInv ==
    /\ NoOrphanProcess
    /\ worker <= spawned
    /\ \A g \in Gens : g > spawned => reader[g] = "none" /\ proc[g] = "none"
    /\ worker # 0 => reader[worker] \in {"reading", "failing"}
    /\ \A c \in Callers :
          pc[c] \in {"body", "newline"} => worker # 0 /\ sentTo[c] = worker

\* The oneshot channel and the map entry of an attempt: one of them, never both.
SlotInv ==
    /\ \A c \in Callers : slot[c] # "empty" => Listening(c) /\ Id(c) \notin pending
    /\ \A c \in Callers : Listening(c) /\ slot[c] = "empty" => Id(c) \in pending
    /\ \A c \in Callers : pc[c] = "wait" => sentTo[c] \in Gens

IInv == TypeOK /\ MutexInv /\ WorkerInv /\ SlotInv /\ NoStrandedWaiter /\ OnlyKnownLeaks

(* What a call promises, apart from how it is carried out. *)
Status(c) == CASE pc[c] = "idle" -> "idle"
               [] pc[c] = "gone" -> "abandoned"
               [] pc[c] = "done" /\ outcome[c] \in AnswerKinds -> "answered"
               [] pc[c] = "done" /\ outcome[c] \notin AnswerKinds -> "failed"
               [] OTHER -> "open"
Runs(c) == {k \in {1, 2} : <<c, k>> \in handled}

Contract == INSTANCE CallContract WITH
    status <- [c \in Callers |-> Status(c)],
    runs   <- [c \in Callers |-> Runs(c)]

\* TsIpc carries a call out as CallContract says: an answer is the answer of a
\* request some worker dispatched in this very attempt, a call ends once, and its
\* request runs at most once per attempt, possibly after the call has ended.
ImplementsContract == Contract!Spec
=============================================================================
