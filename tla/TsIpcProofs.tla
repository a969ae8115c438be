---------------------------- MODULE TsIpcProofs ----------------------------
(* Proofs about TsIpc, for every set of callers and every value of the bounds. *)
EXTENDS TsIpc, TLAPS

USE BoundsAssumption, TasksAssumption

-----------------------------------------------------------------------------
(* Types, one lemma for each group of variables. *)

LEMMA CallerTypesStep ==
    ASSUME CallerTypes, TaskTypes, [Next]_vars
    PROVE  CallerTypes'
<1>. USE DEF CallerTypes, Outcomes, CallerPCs, AnswerKinds, callerVars
<1>1. ASSUME NEW c \in Callers, CallEnsuresWorker(c)  PROVE CallerTypes'
  BY <1>1 DEF CallEnsuresWorker, EnsureWorker, Goto
<1>2. ASSUME NEW c \in Callers, InsertPending(c)  PROVE CallerTypes'
  BY <1>2 DEF InsertPending, Goto
<1>3. ASSUME NEW c \in Callers, LockStdin(c)  PROVE CallerTypes'
  BY <1>3 DEF LockStdin, Goto
<1>4. ASSUME NEW c \in Callers, LockFindsNoWorker(c)  PROVE CallerTypes'
  BY <1>4 DEF LockFindsNoWorker, Settle, Goto
<1>5. ASSUME NEW c \in Callers, WriteBody(c)  PROVE CallerTypes'
  BY <1>5 DEF WriteBody, Goto
<1>6. ASSUME NEW c \in Callers, WriteNewline(c)  PROVE CallerTypes'
  BY <1>6 DEF WriteNewline, Goto
<1>7. ASSUME NEW c \in Callers, WriteFails(c)  PROVE CallerTypes'
  BY <1>7 DEF WriteFails, Settle, Goto
<1>8. ASSUME NEW c \in Callers, Receive(c)  PROVE CallerTypes'
  BY <1>8 DEF Receive, Settle, Goto, SlotValues, TaskTypes
<1>9. ASSUME NEW c \in Callers, Timeout(c)  PROVE CallerTypes'
  BY <1>9 DEF Timeout, Settle, Goto
<1>10. ASSUME NEW c \in Callers, CallTakesWorker(c)  PROVE CallerTypes'
  BY <1>10 DEF CallTakesWorker, Goto
<1>11. ASSUME NEW c \in Callers, CallFinishesTeardown(c)  PROVE CallerTypes'
  BY <1>11 DEF CallFinishesTeardown, Goto
<1>12. ASSUME NEW c \in Callers, CallRestartsWorker(c)  PROVE CallerTypes'
  BY <1>12 DEF CallRestartsWorker, EnsureWorker, Goto
<1>13. ASSUME NEW c \in Callers, StartCall(c)  PROVE CallerTypes'
  BY <1>13 DEF StartCall, Goto
<1>14. ASSUME NEW c \in Callers, ServeWithoutIpc(c)  PROVE CallerTypes'
  BY <1>14 DEF ServeWithoutIpc, Goto
<1>15. ASSUME NEW c \in Callers, Disconnect(c)  PROVE CallerTypes'
  BY <1>15 DEF Disconnect, Goto
<1>16. ASSUME NEW c \in Callers, DropClone(c)  PROVE CallerTypes'
  BY <1>16 DEF DropClone
<1>17. ASSUME UNCHANGED callerVars  PROVE CallerTypes'
  BY <1>17
<1>18. ASSUME NEW g \in Gens,
             Read(g) \/ WorkerReady(g) \/ ReadLine(g) \/ Answer(g) \/ Crash(g)
      PROVE  UNCHANGED callerVars
  BY <1>18 DEF Read, Dispatch, ReaderSeesEof, ReaderTakesWorker,
        ReaderFinishesTeardown, ReaderStops, WorkerReady, ReadLine, Answer, Crash
<1>19. Drop \/ Quiescent \/ UNCHANGED vars => UNCHANGED callerVars
  BY DEF Drop, DropTakesWorker, DropFinishesTeardown, Quiescent, vars
<1>20. QED
  BY <1>1, <1>2, <1>3, <1>4, <1>5, <1>6, <1>7, <1>8, <1>9, <1>10, <1>11, <1>12, <1>13, <1>14, <1>15, <1>16, <1>17, <1>18, <1>19 DEF Next, Call

LEMMA TaskTypesStep ==
    ASSUME TypeOK, MutexInv, [Next]_vars
    PROVE  TaskTypes'
<1>. USE DEF TypeOK, TaskTypes, Gens, SlotValues, AnswerKinds, ReaderStates,
             mapVars, mutexVars, countVars
<1>1. ASSUME NEW c \in Callers, CallEnsuresWorker(c)  PROVE TaskTypes'
  BY <1>1 DEF CallEnsuresWorker, EnsureWorker, Spawn
<1>2. ASSUME NEW c \in Callers, InsertPending(c)  PROVE TaskTypes'
  BY <1>2 DEF InsertPending, Ids, Id, CallerTypes
<1>3. ASSUME NEW c \in Callers, LockStdin(c)  PROVE TaskTypes'
  BY <1>3 DEF LockStdin
<1>4. ASSUME NEW c \in Callers, LockFindsNoWorker(c)  PROVE TaskTypes'
  BY <1>4 DEF LockFindsNoWorker, Settle
<1>5. ASSUME NEW c \in Callers, WriteNewline(c)  PROVE TaskTypes'
  BY <1>5 DEF WriteNewline
<1>6. ASSUME NEW c \in Callers, WriteFails(c)  PROVE TaskTypes'
  BY <1>6 DEF WriteFails, Settle
<1>7. ASSUME NEW c \in Callers, Receive(c)  PROVE TaskTypes'
  BY <1>7 DEF Receive, Settle
<1>8. ASSUME NEW c \in Callers, Timeout(c)  PROVE TaskTypes'
  BY <1>8 DEF Timeout, Settle
<1>9. ASSUME NEW c \in Callers, CallTakesWorker(c)  PROVE TaskTypes'
  BY <1>9 DEF CallTakesWorker, TakeWorker
<1>10. ASSUME NEW c \in Callers, CallFinishesTeardown(c)  PROVE TaskTypes'
  BY <1>10 DEF CallFinishesTeardown, FinishTeardown, FailAllPending, Send, AbortReader, Aborted
<1>11. ASSUME NEW c \in Callers, CallRestartsWorker(c)  PROVE TaskTypes'
  BY <1>11 DEF CallRestartsWorker, EnsureWorker, Spawn
<1>12. ASSUME NEW c \in Callers, Disconnect(c)  PROVE TaskTypes'
  BY <1>12 DEF Disconnect
<1>13. ASSUME NEW c \in Callers, DropClone(c)  PROVE TaskTypes'
  BY <1>13 DEF DropClone
<1>14. ASSUME NEW g \in Gens, Dispatch(g)  PROVE TaskTypes'
  BY <1>14 DEF Dispatch, Send, Answers, BadRequest, ProcessTypes
<1>15. ASSUME NEW g \in Gens, ReaderSeesEof(g)  PROVE TaskTypes'
  BY <1>15 DEF ReaderSeesEof
<1>16. ASSUME NEW g \in Gens, ReaderTakesWorker(g)  PROVE TaskTypes'
  BY <1>16 DEF ReaderTakesWorker, TakeWorker
<1>17. ASSUME NEW g \in Gens, ReaderFinishesTeardown(g)  PROVE TaskTypes'
  BY <1>17 DEF ReaderFinishesTeardown, FinishTeardown, FailAllPending, Send, AbortReader, Aborted
<1>18. ASSUME NEW g \in Gens, ReaderStops(g)  PROVE TaskTypes'
  BY <1>18 DEF ReaderStops
<1>19. ASSUME NEW g \in Gens, Crash(g)  PROVE TaskTypes'
  BY <1>19 DEF Crash
<1>20. CASE DropTakesWorker
  BY <1>20 DEF DropTakesWorker, TakeWorker
<1>21. CASE DropFinishesTeardown
  BY <1>21 DEF DropFinishesTeardown, FinishTeardown, FailAllPending, Send, AbortReader, Aborted, MutexInv
<1>22. ASSUME NEW c \in Callers, StartCall(c) \/ ServeWithoutIpc(c) \/ WriteBody(c)
      PROVE  TaskTypes'
  BY <1>22 DEF StartCall, ServeWithoutIpc, WriteBody
<1>23. ASSUME NEW g \in Gens, WorkerReady(g) \/ ReadLine(g) \/ Answer(g)
      PROVE  TaskTypes'
  BY <1>23 DEF WorkerReady, ReadLine, Answer
<1>24. CASE Quiescent \/ UNCHANGED vars
  BY <1>24 DEF Quiescent, vars
<1>25. QED
  BY <1>1, <1>2, <1>3, <1>4, <1>5, <1>6, <1>7, <1>8, <1>9, <1>10, <1>11, <1>12, <1>13, <1>14, <1>15, <1>16, <1>17, <1>18, <1>19, <1>20, <1>21, <1>22, <1>23, <1>24 DEF Next, Call, Read, Drop

LEMMA AppendType ==
    ASSUME NEW S, NEW s \in Seq(S), NEW x \in S
    PROVE  Append(s, x) \in Seq(S)
OBVIOUS

LEMMA PopType ==
    ASSUME NEW S, NEW s \in Seq(S), s # <<>>
    PROVE  Head(s) \in S /\ Tail(s) \in Seq(S)
OBVIOUS

LEMMA DieTypes ==
    ASSUME ProcessTypes, NEW g, Die(g)
    PROVE  /\ proc' \in [Gens -> ProcStates]
           /\ stdin' \in [Gens -> Seq(SUBSET Ids)]
           /\ partial' \in [Gens -> SUBSET Ids]
           /\ working' \in [Gens -> SUBSET Ids]
BY DEF Die, ProcessTypes, ProcStates, Gens, Ids

LEMMA ProcessTypesStep ==
    ASSUME TypeOK, WorkerInv, [Next]_vars
    PROVE  ProcessTypes'
<1>. USE DEF TypeOK, ProcessTypes, ProcStates, Gens, Ids, Answers, AnswerKinds, BadRequest
<1>1. ASSUME NEW c \in Callers, NEW next, EnsureWorker(c, next)  PROVE ProcessTypes'
  BY <1>1 DEF EnsureWorker, Spawn, pipeVars
<1>2. ASSUME NEW c \in Callers, WriteBody(c)  PROVE ProcessTypes'
  <2>1. sentTo[c] \in Gens /\ Id(c) \in Ids
    BY <1>2 DEF WriteBody, WorkerInv, CallerTypes, TaskTypes, Id
  <2>2. QED
    BY <1>2, <2>1 DEF WriteBody
<1>3. ASSUME NEW c \in Callers, WriteNewline(c)  PROVE ProcessTypes'
  <2>1. sentTo[c] \in Gens
    BY <1>3 DEF WriteNewline, WorkerInv, TaskTypes
  <2>2. QED
    <3>1. Append(stdin[sentTo[c]], partial[sentTo[c]]) \in Seq(SUBSET Ids)
      BY <2>1
    <3>2. stdin' \in [Gens -> Seq(SUBSET Ids)] /\ partial' \in [Gens -> SUBSET Ids]
      BY <1>3, <2>1, <3>1 DEF WriteNewline
    <3>3. QED
      BY <1>3, <3>2 DEF WriteNewline
<1>4. ASSUME NEW g \in Gens, Dispatch(g)  PROVE ProcessTypes'
  <2>. HIDE DEF Answers
  <2>1. Tail(stdout[g]) \in Seq(Answers)
    BY <1>4, PopType DEF Dispatch
  <2>2. stdout' \in [Gens -> Seq(Answers)]
    BY <1>4, <2>1 DEF Dispatch
  <2>3. QED
    BY <1>4, <2>2 DEF Dispatch
<1>5. ASSUME NEW g \in Gens, WorkerReady(g)  PROVE ProcessTypes'
  BY <1>5 DEF WorkerReady, pipeVars
<1>6. ASSUME NEW g \in Gens, ReadLine(g)  PROVE ProcessTypes'
  <2>1. Head(stdin[g]) \in SUBSET Ids /\ Tail(stdin[g]) \in Seq(SUBSET Ids)
    BY <1>6 DEF ReadLine
  <2>2. Append(stdout[g], BadRequest) \in Seq(Answers)
    BY DEF Answers
  <2>3. stdin' \in [Gens -> Seq(SUBSET Ids)] /\ UNCHANGED <<proc, partial>>
    BY <1>6, <2>1 DEF ReadLine
  <2>4. working' \in [Gens -> SUBSET Ids] /\ handled' \subseteq Ids
    <3>1. CASE Cardinality(Head(stdin[g])) = 1
      BY <1>6, <2>1, <3>1 DEF ReadLine
    <3>2. CASE Cardinality(Head(stdin[g])) # 1
      BY <1>6, <3>2 DEF ReadLine
    <3>3. QED
      BY <3>1, <3>2
  <2>5. stdout' \in [Gens -> Seq(Answers)]
    BY <1>6, <2>2 DEF ReadLine
  <2>6. QED
    BY <2>3, <2>4, <2>5
<1>7. ASSUME NEW g \in Gens, Answer(g)  PROVE ProcessTypes'
  <2>1. PICK i \in working[g], kind \in Replies :
          /\ working' = [working EXCEPT ![g] = @ \ {i}]
          /\ stdout' = [stdout EXCEPT ![g] = Append(@, [ids |-> {i}, kind |-> kind])]
          /\ UNCHANGED <<proc, stdin, partial, handled>>
    BY <1>7 DEF Answer
  <2>2. [ids |-> {i}, kind |-> kind] \in Answers
    BY DEF Answers
  <2>3. working' \in [Gens -> SUBSET Ids]
    BY <2>1
  <2>4. stdout' \in [Gens -> Seq(Answers)]
    <3>1. Append(stdout[g], [ids |-> {i}, kind |-> kind]) \in Seq(Answers)
      <4>. HIDE DEF Answers
      <4>. QED
        BY <2>2, AppendType
    <3>2. QED
      BY <2>1, <3>1
  <2>5. QED
    BY <2>1, <2>3, <2>4
<1>8. ASSUME NEW g \in Gens, Crash(g)  PROVE ProcessTypes'
  BY <1>8, DieTypes DEF Crash
<1>9. ASSUME NEW task, TakeWorker(task), UNCHANGED <<stdout, handled>>
      PROVE  ProcessTypes'
  BY <1>9, DieTypes DEF TakeWorker
<1>10. ASSUME UNCHANGED <<proc, pipeVars>>  PROVE ProcessTypes'
  BY <1>10 DEF pipeVars
<1>11. ASSUME NEW c \in Callers,
              \/ StartCall(c) \/ ServeWithoutIpc(c) \/ InsertPending(c) \/ LockStdin(c)
              \/ LockFindsNoWorker(c) \/ WriteFails(c) \/ Receive(c) \/ Timeout(c)
              \/ CallFinishesTeardown(c) \/ Disconnect(c) \/ DropClone(c)
       PROVE  UNCHANGED <<proc, pipeVars>>
  BY <1>11 DEF StartCall, ServeWithoutIpc, InsertPending, LockStdin, LockFindsNoWorker,
       WriteFails, Receive, Timeout, CallFinishesTeardown, Disconnect, DropClone
<1>12. ASSUME NEW g \in Gens,
              ReaderSeesEof(g) \/ ReaderFinishesTeardown(g) \/ ReaderStops(g)
       PROVE  UNCHANGED <<proc, pipeVars>>
  BY <1>12 DEF ReaderSeesEof, ReaderFinishesTeardown, ReaderStops
<1>13. DropFinishesTeardown \/ Quiescent \/ UNCHANGED vars => UNCHANGED <<proc, pipeVars>>
  BY DEF DropFinishesTeardown, Quiescent, vars
<1>14. ASSUME NEW c \in Callers, Call(c)  PROVE ProcessTypes'
  BY <1>14, <1>1, <1>2, <1>3, <1>9, <1>10, <1>11
     DEF Call, CallEnsuresWorker, CallRestartsWorker, CallTakesWorker
<1>15. ASSUME NEW g \in Gens, Read(g)  PROVE ProcessTypes'
  BY <1>15, <1>4, <1>9, <1>10, <1>12 DEF Read, ReaderTakesWorker
<1>16. ASSUME Drop  PROVE ProcessTypes'
  BY <1>16, <1>9, <1>10, <1>13 DEF Drop, DropTakesWorker
<1>17. QED
  BY <1>5, <1>6, <1>7, <1>8, <1>10, <1>11, <1>13, <1>14, <1>15, <1>16 DEF Next

LEMMA MutexStep ==
    ASSUME IInv, [Next]_vars
    PROVE  MutexInv'
<1>. USE DEF IInv, TypeOK, CallerTypes, TaskTypes, MutexInv, CallerPCs, ReaderStates,
             callerVars, mapVars, mutexVars, pipeVars, countVars
<1>1. ASSUME NEW c \in Callers, CallEnsuresWorker(c)  PROVE MutexInv'
  BY <1>1 DEF CallEnsuresWorker, EnsureWorker, Spawn, Goto
<1>2. ASSUME NEW c \in Callers, LockStdin(c)  PROVE MutexInv'
  BY <1>2 DEF LockStdin, Goto
<1>3. ASSUME NEW c \in Callers, LockFindsNoWorker(c)  PROVE MutexInv'
  BY <1>3 DEF LockFindsNoWorker, Settle, Goto
<1>4. ASSUME NEW c \in Callers, WriteNewline(c)  PROVE MutexInv'
  BY <1>4 DEF WriteNewline, Goto
<1>5. ASSUME NEW c \in Callers, WriteFails(c)  PROVE MutexInv'
  BY <1>5 DEF WriteFails, Settle, Goto
<1>6. ASSUME NEW c \in Callers, CallTakesWorker(c)  PROVE MutexInv'
  BY <1>6 DEF CallTakesWorker, TakeWorker, Goto
<1>7. ASSUME NEW c \in Callers, CallFinishesTeardown(c)  PROVE MutexInv'
  BY <1>7 DEF CallFinishesTeardown, FinishTeardown, FailAllPending, Send, AbortReader, Aborted, Goto
<1>8. ASSUME NEW c \in Callers, CallRestartsWorker(c)  PROVE MutexInv'
  BY <1>8 DEF CallRestartsWorker, EnsureWorker, Spawn, Goto
<1>9. ASSUME NEW c \in Callers, Disconnect(c)  PROVE MutexInv'
  BY <1>9 DEF Disconnect, Goto
<1>10. ASSUME NEW c \in Callers, DropClone(c)  PROVE MutexInv'
  BY <1>10 DEF DropClone
<1>11. ASSUME NEW g \in Gens, ReaderSeesEof(g)  PROVE MutexInv'
  BY <1>11 DEF ReaderSeesEof
<1>12. ASSUME NEW g \in Gens, ReaderTakesWorker(g)  PROVE MutexInv'
  BY <1>12 DEF ReaderTakesWorker, TakeWorker
<1>13. ASSUME NEW g \in Gens, ReaderFinishesTeardown(g)  PROVE MutexInv'
  BY <1>13 DEF ReaderFinishesTeardown, FinishTeardown, FailAllPending, Send, AbortReader, Aborted
<1>14. ASSUME NEW g \in Gens, ReaderStops(g)  PROVE MutexInv'
  BY <1>14 DEF ReaderStops
<1>15. CASE DropTakesWorker
  BY <1>15 DEF DropTakesWorker, TakeWorker
<1>16. CASE DropFinishesTeardown
  BY <1>16 DEF DropFinishesTeardown, FinishTeardown, FailAllPending, Send, AbortReader, Aborted
<1>17. ASSUME NEW c \in Callers,
             StartCall(c) \/ ServeWithoutIpc(c) \/ InsertPending(c) \/ WriteBody(c) \/ Receive(c) \/ Timeout(c)
      PROVE  MutexInv'
  BY <1>17 DEF StartCall, ServeWithoutIpc, InsertPending, WriteBody, Receive, Timeout, Goto, Settle
<1>18. ASSUME NEW g \in Gens,
             Dispatch(g) \/ WorkerReady(g) \/ ReadLine(g) \/ Answer(g) \/ Crash(g)
      PROVE  MutexInv'
  BY <1>18 DEF Dispatch, WorkerReady, ReadLine, Answer, Crash
<1>19. CASE Quiescent \/ UNCHANGED vars
  BY <1>19 DEF Quiescent, vars
<1>20. QED
  BY <1>1, <1>2, <1>3, <1>4, <1>5, <1>6, <1>7, <1>8, <1>9, <1>10, <1>11, <1>12, <1>13, <1>14, <1>15, <1>16, <1>17, <1>18, <1>19 DEF Next, Call, Read, Drop

LEMMA EnsureWorkerKeepsWorkerInv ==
    ASSUME IInv, NEW c \in Callers, NEW next \in {"insert", "ensure"},
           EnsureWorker(c, next)
    PROVE  WorkerInv'
<1>. USE DEF IInv, TypeOK, CallerTypes, TaskTypes, MutexInv, WorkerInv,
             NoOrphanProcess, Alive, Gens, ProcStates, ReaderStates, CallerPCs,
             callerVars, mapVars, mutexVars, pipeVars, countVars
<1>1. proc \in [Gens -> ProcStates]
  BY DEF ProcessTypes
<1>2. CASE worker # 0 \/ UNCHANGED <<spawned, worker, proc, reader>>
  BY <1>1, <1>2 DEF EnsureWorker, Goto
<1>3. CASE worker = 0 /\ Spawn /\ Goto(c, next)
  <2>1. spawned + 1 \in Gens /\ spawned' = spawned + 1 /\ worker' = spawned + 1
    BY <1>3 DEF Spawn
  <2>2. \A g \in Gens : proc'[g] = IF g = spawned + 1 THEN "init" ELSE proc[g]
    BY <1>1, <1>3, <2>1 DEF Spawn
  <2>3. \A g \in Gens : reader'[g] = IF g = spawned + 1 THEN "reading" ELSE reader[g]
    BY <1>3, <2>1 DEF Spawn
  <2>4. NoOrphanProcess'
    BY <1>3, <2>1, <2>2
  <2>5. \A d \in Callers : pc'[d] \notin {"body", "newline"}
    BY <1>3 DEF EnsureWorker, Goto
  <2>6. QED
    BY <2>1, <2>2, <2>3, <2>4, <2>5
<1>4. QED
  BY <1>2, <1>3 DEF EnsureWorker

LEMMA WorkerStep ==
    ASSUME IInv, [Next]_vars
    PROVE  WorkerInv'
<1>. USE DEF IInv, TypeOK, CallerTypes, TaskTypes, MutexInv, WorkerInv,
             NoOrphanProcess, Alive, Gens, ProcStates, ReaderStates, CallerPCs,
             callerVars, mapVars, mutexVars, pipeVars, countVars
<1>0. proc \in [Gens -> ProcStates]
  BY DEF ProcessTypes
<1>. USE <1>0
<1>1. ASSUME NEW c \in Callers, CallEnsuresWorker(c)  PROVE WorkerInv'
  BY <1>1, EnsureWorkerKeepsWorkerInv DEF CallEnsuresWorker
<1>2. ASSUME NEW c \in Callers, LockStdin(c)  PROVE WorkerInv'
  BY <1>2 DEF LockStdin, Goto
<1>3. ASSUME NEW c \in Callers, LockFindsNoWorker(c)  PROVE WorkerInv'
  BY <1>3 DEF LockFindsNoWorker, Settle, Goto
<1>4. ASSUME NEW c \in Callers, WriteBody(c)  PROVE WorkerInv'
  BY <1>4 DEF WriteBody, Goto
<1>5. ASSUME NEW c \in Callers, WriteNewline(c)  PROVE WorkerInv'
  BY <1>5 DEF WriteNewline, Goto
<1>6. ASSUME NEW c \in Callers, WriteFails(c)  PROVE WorkerInv'
  BY <1>6 DEF WriteFails, Settle, Goto
<1>7. ASSUME NEW c \in Callers, Receive(c)  PROVE WorkerInv'
  BY <1>7 DEF Receive, Settle, Goto
<1>8. ASSUME NEW c \in Callers, Timeout(c)  PROVE WorkerInv'
  BY <1>8 DEF Timeout, Settle, Goto
<1>9. ASSUME NEW c \in Callers, CallTakesWorker(c)  PROVE WorkerInv'
  BY <1>9 DEF CallTakesWorker, TakeWorker, Goto, Die
<1>10. ASSUME NEW c \in Callers, CallFinishesTeardown(c)  PROVE WorkerInv'
  BY <1>10 DEF CallFinishesTeardown, FinishTeardown, FailAllPending, Send, AbortReader, Aborted, Goto
<1>11. ASSUME NEW c \in Callers, CallRestartsWorker(c)  PROVE WorkerInv'
  BY <1>11, EnsureWorkerKeepsWorkerInv DEF CallRestartsWorker
<1>12. ASSUME NEW c \in Callers, Disconnect(c)  PROVE WorkerInv'
  BY <1>12 DEF Disconnect, Goto
<1>13. ASSUME NEW g \in Gens, ReaderSeesEof(g)  PROVE WorkerInv'
  BY <1>13 DEF ReaderSeesEof
<1>14. ASSUME NEW g \in Gens, ReaderTakesWorker(g)  PROVE WorkerInv'
  BY <1>14 DEF ReaderTakesWorker, TakeWorker, Die
<1>15. ASSUME NEW g \in Gens, ReaderFinishesTeardown(g)  PROVE WorkerInv'
  BY <1>15 DEF ReaderFinishesTeardown, FinishTeardown, FailAllPending, Send, AbortReader, Aborted
<1>16. ASSUME NEW g \in Gens, ReaderStops(g)  PROVE WorkerInv'
  BY <1>16 DEF ReaderStops
<1>17. ASSUME NEW g \in Gens, WorkerReady(g)  PROVE WorkerInv'
  BY <1>17 DEF WorkerReady
<1>18. ASSUME NEW g \in Gens, Crash(g)  PROVE WorkerInv'
  BY <1>18 DEF Crash, Die
<1>19. CASE DropTakesWorker
  BY <1>19 DEF DropTakesWorker, TakeWorker, Die
<1>20. CASE DropFinishesTeardown
  BY <1>20 DEF DropFinishesTeardown, FinishTeardown, FailAllPending, Send, AbortReader, Aborted
<1>21. ASSUME NEW c \in Callers,
             StartCall(c) \/ ServeWithoutIpc(c) \/ InsertPending(c) \/ DropClone(c)
      PROVE  WorkerInv'
  BY <1>21 DEF StartCall, ServeWithoutIpc, InsertPending, DropClone, Goto
<1>22. ASSUME NEW g \in Gens,
             Dispatch(g) \/ ReadLine(g) \/ Answer(g)
      PROVE  WorkerInv'
  <2>1. UNCHANGED <<pc, sentTo, worker, spawned, reader, proc>>
    BY <1>22 DEF Dispatch, ReadLine, Answer
  <2>2. QED
    BY <2>1
<1>23. CASE Quiescent \/ UNCHANGED vars
  BY <1>23 DEF Quiescent, vars
<1>24. QED
  BY <1>1, <1>2, <1>3, <1>4, <1>5, <1>6, <1>7, <1>8, <1>9, <1>10, <1>11, <1>12, <1>13, <1>14, <1>15, <1>16, <1>17, <1>18, <1>19, <1>20, <1>21, <1>22, <1>23 DEF Next, Call, Read, Drop

\* What ensure_worker does to the caller and the map.
LEMMA EnsureWorkerMoves ==
    ASSUME CallerTypes, NEW c \in Callers, NEW next, EnsureWorker(c, next)
    PROVE  /\ \E l \in {next, "done"} : Goto(c, l)
           /\ pc'[c] = "done" /\ next # "done" => outcome'[c] = "spawn"
           /\ \A d \in Callers \ {c} : outcome'[d] = outcome[d]
           /\ UNCHANGED <<pending, slot, sentTo>>
BY DEF EnsureWorker, Goto, CallerTypes, mapVars

\* No answer is the value of an unused channel.
LEMMA AnswerIsAValue ==
    ASSUME ProcessTypes, NEW g \in Gens, stdout[g] # <<>>
    PROVE  /\ Head(stdout[g]).kind # "empty"
           /\ Head(stdout[g]).kind = "bad" => Head(stdout[g]).ids = {}
           /\ Head(stdout[g]).kind \in AnswerKinds \cup {"bad"}
<1>1. Head(stdout[g]) \in Answers
  BY PopType DEF ProcessTypes
<1>2. QED
  BY <1>1 DEF Answers, BadRequest, AnswerKinds

LEMMA SlotStep ==
    ASSUME IInv, [Next]_vars
    PROVE  SlotInv'
<1>. USE DEF IInv, TypeOK, CallerTypes, TaskTypes, MutexInv, WorkerInv, SlotInv,
             NoStrandedWaiter, Listening, Id, Ids, Gens, SlotValues, CallerPCs, OnlyKnownLeaks,
             callerVars, mapVars, mutexVars, pipeVars, countVars
<1>1. ASSUME NEW c \in Callers, StartCall(c)  PROVE SlotInv'
  BY <1>1 DEF StartCall, Goto
<1>2. ASSUME NEW c \in Callers, ServeWithoutIpc(c)  PROVE SlotInv'
  BY <1>2 DEF ServeWithoutIpc, Goto
<1>3. ASSUME NEW c \in Callers, CallEnsuresWorker(c)  PROVE SlotInv'
  <2>1. pc[c] = "ensure" /\ UNCHANGED <<try, pending, slot, sentTo>>
    BY <1>3, EnsureWorkerMoves DEF CallEnsuresWorker
  <2>2. PICK l \in {"insert", "done"} : pc' = [pc EXCEPT ![c] = l]
    BY <1>3, EnsureWorkerMoves DEF CallEnsuresWorker, Goto
  <2>3. QED
    BY <2>1, <2>2
<1>4. ASSUME NEW c \in Callers, InsertPending(c)  PROVE SlotInv'
  BY <1>4 DEF InsertPending, Goto
<1>5. ASSUME NEW c \in Callers, LockStdin(c)  PROVE SlotInv'
  BY <1>5 DEF LockStdin, Goto
<1>6. ASSUME NEW c \in Callers, LockFindsNoWorker(c)  PROVE SlotInv'
  BY <1>6 DEF LockFindsNoWorker, Settle, Goto
<1>7. ASSUME NEW c \in Callers, WriteBody(c)  PROVE SlotInv'
  BY <1>7 DEF WriteBody, Goto
<1>8. ASSUME NEW c \in Callers, WriteNewline(c)  PROVE SlotInv'
  BY <1>8 DEF WriteNewline, Goto
<1>9. ASSUME NEW c \in Callers, WriteFails(c)  PROVE SlotInv'
  BY <1>9 DEF WriteFails, Settle, Goto
<1>10. ASSUME NEW c \in Callers, Receive(c)  PROVE SlotInv'
  BY <1>10 DEF Receive, Settle, Goto
<1>11. ASSUME NEW c \in Callers, Timeout(c)  PROVE SlotInv'
  BY <1>11 DEF Timeout, Settle, Goto
<1>12. ASSUME NEW c \in Callers, CallTakesWorker(c)  PROVE SlotInv'
  BY <1>12 DEF CallTakesWorker, TakeWorker, Goto
<1>13. ASSUME NEW c \in Callers, CallFinishesTeardown(c)  PROVE SlotInv'
  BY <1>13 DEF CallFinishesTeardown, FinishTeardown, FailAllPending, Send, AbortReader, Aborted, Goto
<1>14. ASSUME NEW c \in Callers, CallRestartsWorker(c)  PROVE SlotInv'
  <2>1. pc[c] = "restart" /\ UNCHANGED <<pending, slot, sentTo>>
    BY <1>14, EnsureWorkerMoves DEF CallRestartsWorker
  <2>2. PICK l \in {"ensure", "done"} : pc' = [pc EXCEPT ![c] = l]
    BY <1>14, EnsureWorkerMoves DEF CallRestartsWorker, Goto
  <2>3. \A d \in Callers \ {c} : try'[d] = try[d]
    BY <1>14 DEF CallRestartsWorker
  <2>4. slot'[c] = "empty" /\ pc'[c] \in {"ensure", "done"}
    <3>1. ~Listening(c)
      BY <2>1
    <3>2. slot[c] = "empty"
      BY <3>1
    <3>3. QED
      BY <2>1, <2>2, <3>2
  <2>5. ASSUME NEW d \in Callers \ {c}
        PROVE  pc'[d] = pc[d] /\ try'[d] = try[d] /\ slot'[d] = slot[d] /\ sentTo'[d] = sentTo[d]
    BY <2>1, <2>2, <2>3
  <2>6. QED
    <3>. HIDE DEF TypeOK, CallerTypes, TaskTypes, OnlyKnownLeaks, NoStrandedWaiter, MutexInv, WorkerInv
    <3>. QED  BY <2>1, <2>4, <2>5
<1>15. ASSUME NEW c \in Callers, Disconnect(c)  PROVE SlotInv'
  BY <1>15 DEF Disconnect, Goto
<1>16. ASSUME NEW c \in Callers, DropClone(c)  PROVE SlotInv'
  BY <1>16 DEF DropClone
<1>17. ASSUME NEW g \in Gens, Dispatch(g)  PROVE SlotInv'
  <2>1. Head(stdout[g]).kind # "empty"
    BY <1>17, AnswerIsAValue DEF Dispatch
  <2>2. UNCHANGED <<pc, try, sentTo>>
    BY <1>17 DEF Dispatch
  <2>3. QED
    BY <1>17, <2>1, <2>2 DEF Dispatch, Send
<1>18. ASSUME NEW g \in Gens, ReaderTakesWorker(g)  PROVE SlotInv'
  BY <1>18 DEF ReaderTakesWorker, TakeWorker
<1>19. ASSUME NEW g \in Gens, ReaderFinishesTeardown(g)  PROVE SlotInv'
  BY <1>19 DEF ReaderFinishesTeardown, FinishTeardown, FailAllPending, Send, AbortReader, Aborted
<1>20. CASE DropTakesWorker
  BY <1>20 DEF DropTakesWorker, TakeWorker
<1>21. CASE DropFinishesTeardown
  BY <1>21 DEF DropFinishesTeardown, FinishTeardown, FailAllPending, Send, AbortReader, Aborted
<1>22. ASSUME NEW g \in Gens,
             ReaderSeesEof(g) \/ ReaderStops(g) \/ WorkerReady(g) \/ ReadLine(g) \/ Answer(g) \/ Crash(g)
      PROVE  SlotInv'
  <2>1. UNCHANGED <<pc, try, pending, slot, sentTo>>
    BY <1>22 DEF ReaderSeesEof, ReaderStops, WorkerReady, ReadLine, Answer, Crash
  <2>2. QED
    BY <2>1
<1>23. CASE Quiescent \/ UNCHANGED vars
  BY <1>23 DEF Quiescent, vars
<1>24. QED
  BY <1>1, <1>2, <1>3, <1>4, <1>5, <1>6, <1>7, <1>8, <1>9, <1>10, <1>11, <1>12, <1>13, <1>14, <1>15, <1>16, <1>17, <1>18, <1>19, <1>20, <1>21, <1>22, <1>23 DEF Next, Call, Read, Drop

LEMMA EnsureWorkerReaders ==
    ASSUME IInv, NEW c \in Callers, NEW next, EnsureWorker(c, next)
    PROVE  \A g \in Gens : reader[g] # "none" => reader'[g] = reader[g]
BY DEF EnsureWorker, Spawn, IInv, TypeOK, TaskTypes, WorkerInv, Gens

LEMMA StrandedStep ==
    ASSUME IInv, SlotInv', [Next]_vars
    PROVE  NoStrandedWaiter'
<1>. USE DEF IInv, TypeOK, CallerTypes, TaskTypes, MutexInv, WorkerInv, SlotInv,
             NoStrandedWaiter, Listening, Id, Ids, Gens, SlotValues, ReaderStates, CallerPCs,
             callerVars, mapVars, mutexVars, pipeVars, countVars
<1>1. ASSUME NEW c \in Callers, StartCall(c)  PROVE NoStrandedWaiter'
  BY <1>1 DEF StartCall, Goto
<1>2. ASSUME NEW c \in Callers, ServeWithoutIpc(c)  PROVE NoStrandedWaiter'
  BY <1>2 DEF ServeWithoutIpc, Goto
<1>3. ASSUME NEW c \in Callers, CallEnsuresWorker(c)  PROVE NoStrandedWaiter'
  <2>1. pc[c] = "ensure" /\ UNCHANGED <<pending, slot, sentTo>>
    BY <1>3, EnsureWorkerMoves DEF CallEnsuresWorker
  <2>2. PICK l \in {"insert", "done"} : pc' = [pc EXCEPT ![c] = l]
    BY <1>3, EnsureWorkerMoves DEF CallEnsuresWorker, Goto
  <2>3. \A d \in Callers \ {c} : try'[d] = try[d]
    BY <1>3 DEF CallEnsuresWorker
  <2>4. \A g \in Gens : reader[g] # "none" => reader'[g] = reader[g]
    BY <1>3, EnsureWorkerReaders DEF CallEnsuresWorker
  <2>5. QED
    BY <2>1, <2>2, <2>3, <2>4
<1>4. ASSUME NEW c \in Callers, InsertPending(c)  PROVE NoStrandedWaiter'
  BY <1>4 DEF InsertPending, Goto
<1>5. ASSUME NEW c \in Callers, LockStdin(c)  PROVE NoStrandedWaiter'
  BY <1>5 DEF LockStdin, Goto
<1>6. ASSUME NEW c \in Callers, LockFindsNoWorker(c)  PROVE NoStrandedWaiter'
  BY <1>6 DEF LockFindsNoWorker, Settle, Goto
<1>7. ASSUME NEW c \in Callers, WriteBody(c)  PROVE NoStrandedWaiter'
  BY <1>7 DEF WriteBody, Goto
<1>8. ASSUME NEW c \in Callers, WriteNewline(c)  PROVE NoStrandedWaiter'
  BY <1>8 DEF WriteNewline, Goto
<1>9. ASSUME NEW c \in Callers, WriteFails(c)  PROVE NoStrandedWaiter'
  BY <1>9 DEF WriteFails, Settle, Goto
<1>10. ASSUME NEW c \in Callers, Receive(c)  PROVE NoStrandedWaiter'
  BY <1>10 DEF Receive, Settle, Goto
<1>11. ASSUME NEW c \in Callers, Timeout(c)  PROVE NoStrandedWaiter'
  BY <1>11 DEF Timeout, Settle, Goto
<1>12. ASSUME NEW c \in Callers, CallTakesWorker(c)  PROVE NoStrandedWaiter'
  BY <1>12 DEF CallTakesWorker, TakeWorker, Goto
<1>13. ASSUME NEW c \in Callers, CallFinishesTeardown(c)  PROVE NoStrandedWaiter'
  BY <1>13 DEF CallFinishesTeardown, FinishTeardown, FailAllPending, Send, AbortReader, Aborted, Goto
<1>14. ASSUME NEW c \in Callers, CallRestartsWorker(c)  PROVE NoStrandedWaiter'
  <2>1. pc[c] = "restart" /\ UNCHANGED <<pending, slot, sentTo>>
    BY <1>14, EnsureWorkerMoves DEF CallRestartsWorker
  <2>2. PICK l \in {"ensure", "done"} : pc' = [pc EXCEPT ![c] = l]
    BY <1>14, EnsureWorkerMoves DEF CallRestartsWorker, Goto
  <2>3. \A d \in Callers \ {c} : try'[d] = try[d]
    BY <1>14 DEF CallRestartsWorker
  <2>4. \A g \in Gens : reader[g] # "none" => reader'[g] = reader[g]
    BY <1>14, EnsureWorkerReaders DEF CallRestartsWorker
  <2>5. QED
    BY <2>1, <2>2, <2>3, <2>4
<1>15. ASSUME NEW c \in Callers, Disconnect(c)  PROVE NoStrandedWaiter'
  BY <1>15 DEF Disconnect, Goto
<1>16. ASSUME NEW c \in Callers, DropClone(c)  PROVE NoStrandedWaiter'
  BY <1>16 DEF DropClone
<1>17. ASSUME NEW g \in Gens, Dispatch(g)  PROVE NoStrandedWaiter'
  <2>1. Head(stdout[g]).kind # "empty"
    BY <1>17, AnswerIsAValue DEF Dispatch
  <2>2. UNCHANGED <<pc, try, sentTo, reader>>
    BY <1>17 DEF Dispatch
  <2>3. QED
    BY <1>17, <2>1, <2>2 DEF Dispatch, Send
<1>18. ASSUME NEW g \in Gens, ReaderSeesEof(g)  PROVE NoStrandedWaiter'
  BY <1>18 DEF ReaderSeesEof
<1>19. ASSUME NEW g \in Gens, ReaderTakesWorker(g)  PROVE NoStrandedWaiter'
  BY <1>19 DEF ReaderTakesWorker, TakeWorker
<1>20. ASSUME NEW g \in Gens, ReaderFinishesTeardown(g)  PROVE NoStrandedWaiter'
  BY <1>20 DEF ReaderFinishesTeardown, FinishTeardown, FailAllPending, Send, AbortReader, Aborted
<1>21. ASSUME NEW g \in Gens, ReaderStops(g)  PROVE NoStrandedWaiter'
  BY <1>21 DEF ReaderStops
<1>22. CASE DropTakesWorker
  BY <1>22 DEF DropTakesWorker, TakeWorker
<1>23. CASE DropFinishesTeardown
  BY <1>23 DEF DropFinishesTeardown, FinishTeardown, FailAllPending, Send, AbortReader, Aborted
<1>24. ASSUME NEW g \in Gens,
             WorkerReady(g) \/ ReadLine(g) \/ Answer(g) \/ Crash(g)
      PROVE  NoStrandedWaiter'
  <2>1. UNCHANGED <<pc, try, pending, slot, sentTo, reader>>
    BY <1>24 DEF WorkerReady, ReadLine, Answer, Crash
  <2>2. QED
    BY <2>1
<1>25. CASE Quiescent \/ UNCHANGED vars
  BY <1>25 DEF Quiescent, vars
<1>26. QED
  BY <1>1, <1>2, <1>3, <1>4, <1>5, <1>6, <1>7, <1>8, <1>9, <1>10, <1>11, <1>12, <1>13, <1>14, <1>15, <1>16, <1>17, <1>18, <1>19, <1>20, <1>21, <1>22, <1>23, <1>24, <1>25 DEF Next, Call, Read, Drop

\* One caller moves and no entry is added: only its own entries need a look.
LEMMA LeaksOfOneCaller ==
    ASSUME OnlyKnownLeaks, NEW c \in Callers, pending' \subseteq pending,
           \A d \in Callers \ {c} :
               pc'[d] = pc[d] /\ try'[d] = try[d] /\ outcome'[d] = outcome[d],
           \A k \in {1, 2} : <<c, k>> \in pending' =>
               /\ k = try'[c]
               /\ \/ pc'[c] \in {"lock", "body", "newline", "wait", "fail", "kill", "gone"}
                  \/ pc'[c] = "done" /\ outcome'[c] = "crashed" /\ try'[c] = 2
    PROVE  OnlyKnownLeaks'
<1>. SUFFICES ASSUME NEW d \in Callers, NEW k \in {1, 2}, <<d, k>> \in pending'
              PROVE  /\ k = try'[d]
                     /\ \/ pc'[d] \in {"lock", "body", "newline", "wait", "fail", "kill", "gone"}
                        \/ pc'[d] = "done" /\ outcome'[d] = "crashed" /\ try'[d] = 2
  BY DEF OnlyKnownLeaks
<1>1. CASE d = c
  BY <1>1
<1>2. CASE d # c
  BY <1>2 DEF OnlyKnownLeaks
<1>3. QED
  BY <1>1, <1>2

\* The end of an attempt moves one caller, to the retry or to the end of the call.
LEMMA SettleMoves ==
    ASSUME CallerTypes, NEW c \in Callers, NEW r, Settle(c, r), UNCHANGED try
    PROVE  /\ \A d \in Callers \ {c} :
                 pc'[d] = pc[d] /\ try'[d] = try[d] /\ outcome'[d] = outcome[d]
           /\ try'[c] = try[c]
           /\ \/ pc'[c] = "fail" /\ try[c] = 1
              \/ pc'[c] = "done" /\ outcome'[c] = r
                 /\ (r \in {"crashed", "write"} => try[c] = 2)
BY DEF Settle, Goto, CallerTypes

LEMMA LeaksStep ==
    ASSUME IInv, [Next]_vars
    PROVE  OnlyKnownLeaks'
<1>. USE DEF IInv, TypeOK, CallerTypes, TaskTypes, SlotInv, OnlyKnownLeaks,
             Listening, Id, Ids, SlotValues, CallerPCs, Outcomes, AnswerKinds,
             callerVars, mapVars, mutexVars, pipeVars, countVars
<1>0. CallerTypes /\ OnlyKnownLeaks
  OBVIOUS
<1>1. ASSUME NEW c \in Callers, StartCall(c)  PROVE OnlyKnownLeaks'
  BY <1>1 DEF StartCall, Goto
<1>2. ASSUME NEW c \in Callers, ServeWithoutIpc(c)  PROVE OnlyKnownLeaks'
  BY <1>2 DEF ServeWithoutIpc, Goto
<1>3. ASSUME NEW c \in Callers, CallEnsuresWorker(c)  PROVE OnlyKnownLeaks'
  <2>1. pc[c] = "ensure" /\ UNCHANGED pending
    BY <1>3, EnsureWorkerMoves DEF CallEnsuresWorker
  <2>2. PICK l \in {"insert", "done"} : pc' = [pc EXCEPT ![c] = l]
    BY <1>3, EnsureWorkerMoves DEF CallEnsuresWorker, Goto
  <2>3. \A d \in Callers \ {c} : try'[d] = try[d] /\ outcome'[d] = outcome[d]
    BY <1>3, EnsureWorkerMoves DEF CallEnsuresWorker
  <2>4. \A k \in {1, 2} : <<c, k>> \notin pending
    BY <2>1
  <2>5. pending' \subseteq pending /\ \A d \in Callers \ {c} : pc'[d] = pc[d]
    BY <2>1, <2>2
  <2>6. QED
    <3>. HIDE DEF IInv, TypeOK, CallerTypes, TaskTypes, SlotInv, OnlyKnownLeaks
    <3>. QED  BY <1>0, <2>1, <2>3, <2>4, <2>5, LeaksOfOneCaller
<1>4. ASSUME NEW c \in Callers, InsertPending(c)  PROVE OnlyKnownLeaks'
  BY <1>4 DEF InsertPending, Goto
<1>5. ASSUME NEW c \in Callers, LockStdin(c)  PROVE OnlyKnownLeaks'
  BY <1>5 DEF LockStdin, Goto
<1>6. ASSUME NEW c \in Callers, LockFindsNoWorker(c)  PROVE OnlyKnownLeaks'
  <2>1. pc[c] = "lock" /\ UNCHANGED <<pending, try>> /\ Settle(c, "crashed")
    BY <1>6 DEF LockFindsNoWorker
  <2>2. \A k \in {1, 2} : <<c, k>> \in pending => k = try[c]
    OBVIOUS
  <2>3. QED
    <3>. HIDE DEF IInv, TypeOK, CallerTypes, TaskTypes, SlotInv, OnlyKnownLeaks
    <3>. QED  BY <1>0, <2>1, <2>2, SettleMoves, LeaksOfOneCaller
<1>7. ASSUME NEW c \in Callers, WriteBody(c)  PROVE OnlyKnownLeaks'
  BY <1>7 DEF WriteBody, Goto
<1>8. ASSUME NEW c \in Callers, WriteNewline(c)  PROVE OnlyKnownLeaks'
  BY <1>8 DEF WriteNewline, Goto
<1>9. ASSUME NEW c \in Callers, WriteFails(c)  PROVE OnlyKnownLeaks'
  <2>1. pending' = pending \ {Id(c)} /\ UNCHANGED try /\ Settle(c, "write")
    BY <1>9 DEF WriteFails
  <2>2. \A k \in {1, 2} : <<c, k>> \notin pending'
    BY <2>1
  <2>3. QED
    <3>. HIDE DEF IInv, TypeOK, CallerTypes, TaskTypes, SlotInv, OnlyKnownLeaks
    <3>. QED  BY <1>0, <2>1, <2>2, SettleMoves, LeaksOfOneCaller
<1>10. ASSUME NEW c \in Callers, Receive(c)  PROVE OnlyKnownLeaks'
  <2>1. slot[c] # "empty" /\ UNCHANGED <<pending, try>> /\ Settle(c, slot[c])
    BY <1>10 DEF Receive
  <2>2. \A k \in {1, 2} : <<c, k>> \notin pending
    <3>1. Id(c) \notin pending
      BY <2>1
    <3>2. QED
      BY <3>1
  <2>3. QED
    <3>. HIDE DEF IInv, TypeOK, CallerTypes, TaskTypes, SlotInv, OnlyKnownLeaks
    <3>. QED  BY <1>0, <2>1, <2>2, SettleMoves, LeaksOfOneCaller
<1>11. ASSUME NEW c \in Callers, Timeout(c)  PROVE OnlyKnownLeaks'
  <2>1. pending' = pending \ {Id(c)} /\ UNCHANGED try /\ Settle(c, "timeout")
    BY <1>11 DEF Timeout
  <2>2. \A k \in {1, 2} : <<c, k>> \notin pending'
    BY <2>1
  <2>3. QED
    <3>. HIDE DEF IInv, TypeOK, CallerTypes, TaskTypes, SlotInv, OnlyKnownLeaks
    <3>. QED  BY <1>0, <2>1, <2>2, SettleMoves, LeaksOfOneCaller
<1>12. ASSUME NEW c \in Callers, CallTakesWorker(c)  PROVE OnlyKnownLeaks'
  BY <1>12 DEF CallTakesWorker, TakeWorker, Goto
<1>13. ASSUME NEW c \in Callers, CallFinishesTeardown(c)  PROVE OnlyKnownLeaks'
  BY <1>13 DEF CallFinishesTeardown, FinishTeardown, FailAllPending, Send, AbortReader, Aborted, Goto
<1>14. ASSUME NEW c \in Callers, CallRestartsWorker(c)  PROVE OnlyKnownLeaks'
  <2>1. pc[c] = "restart" /\ UNCHANGED pending
    BY <1>14, EnsureWorkerMoves DEF CallRestartsWorker
  <2>2. PICK l \in {"ensure", "done"} : pc' = [pc EXCEPT ![c] = l]
    BY <1>14, EnsureWorkerMoves DEF CallRestartsWorker, Goto
  <2>3. \A d \in Callers \ {c} : try'[d] = try[d] /\ outcome'[d] = outcome[d]
    BY <1>14, EnsureWorkerMoves DEF CallRestartsWorker
  <2>4. \A k \in {1, 2} : <<c, k>> \notin pending
    BY <2>1
  <2>5. pending' \subseteq pending /\ \A d \in Callers \ {c} : pc'[d] = pc[d]
    BY <2>1, <2>2
  <2>6. QED
    <3>. HIDE DEF IInv, TypeOK, CallerTypes, TaskTypes, SlotInv, OnlyKnownLeaks
    <3>. QED  BY <1>0, <2>1, <2>3, <2>4, <2>5, LeaksOfOneCaller
<1>15. ASSUME NEW c \in Callers, Disconnect(c)  PROVE OnlyKnownLeaks'
  BY <1>15 DEF Disconnect, Goto
<1>16. ASSUME NEW g \in Gens, Dispatch(g)  PROVE OnlyKnownLeaks'
  BY <1>16 DEF Dispatch, Send
<1>17. ASSUME NEW g \in Gens, ReaderFinishesTeardown(g)  PROVE OnlyKnownLeaks'
  BY <1>17 DEF ReaderFinishesTeardown, FinishTeardown, FailAllPending, Send, AbortReader, Aborted
<1>18. CASE DropTakesWorker
  BY <1>18 DEF DropTakesWorker, TakeWorker
<1>19. CASE DropFinishesTeardown
  BY <1>19 DEF DropFinishesTeardown, FinishTeardown, FailAllPending, Send, AbortReader, Aborted
<1>20. ASSUME NEW c \in Callers,
             DropClone(c)
      PROVE  OnlyKnownLeaks'
  BY <1>20 DEF DropClone
<1>21. ASSUME NEW g \in Gens,
             ReaderSeesEof(g) \/ ReaderTakesWorker(g) \/ ReaderStops(g) \/ WorkerReady(g) \/ ReadLine(g) \/ Answer(g) \/ Crash(g)
      PROVE  OnlyKnownLeaks'
  <2>1. UNCHANGED <<pc, try, pending, outcome>>
    BY <1>21 DEF ReaderSeesEof, ReaderTakesWorker, ReaderStops, WorkerReady, ReadLine,
         Answer, Crash
  <2>2. QED
    BY <2>1
<1>22. CASE Quiescent \/ UNCHANGED vars
  BY <1>22 DEF Quiescent, vars
<1>23. QED
  BY <1>1, <1>2, <1>3, <1>4, <1>5, <1>6, <1>7, <1>8, <1>9, <1>10, <1>11, <1>12, <1>13, <1>14, <1>15, <1>16, <1>17, <1>18, <1>19, <1>20, <1>21, <1>22 DEF Next, Call, Read, Drop

-----------------------------------------------------------------------------
(* The inductive invariant and the theorems it gives. *)

LEMMA InitEstablishes == Init => IInv
<1>. SUFFICES ASSUME Init  PROVE IInv
  OBVIOUS
<1>. USE DEF Init, Gens
<1>1. CallerTypes
  BY DEF CallerTypes, CallerPCs, Outcomes
<1>2. TaskTypes
  BY DEF TaskTypes, SlotValues, ReaderStates
<1>3. ProcessTypes
  BY DEF ProcessTypes, ProcStates
<1>4. MutexInv
  BY DEF MutexInv
<1>5. WorkerInv
  BY DEF WorkerInv, NoOrphanProcess, Alive
<1>6. SlotInv /\ NoStrandedWaiter /\ OnlyKnownLeaks
  BY DEF SlotInv, NoStrandedWaiter, OnlyKnownLeaks, Listening
<1>7. QED
  BY <1>1, <1>2, <1>3, <1>4, <1>5, <1>6 DEF IInv, TypeOK

LEMMA StepPreserves == IInv /\ [Next]_vars => IInv'
<1>. SUFFICES ASSUME IInv, [Next]_vars  PROVE IInv'
  OBVIOUS
<1>1. TypeOK'
  BY CallerTypesStep, TaskTypesStep, ProcessTypesStep DEF IInv, TypeOK
<1>2. MutexInv' /\ WorkerInv' /\ SlotInv' /\ OnlyKnownLeaks'
  BY MutexStep, WorkerStep, SlotStep, LeaksStep
<1>3. NoStrandedWaiter'
  BY <1>2, StrandedStep
<1>4. QED
  BY <1>1, <1>2, <1>3 DEF IInv

\* IInv holds in every reachable state.
THEOREM Invariant == Spec => []IInv
BY InitEstablishes, StepPreserves, PTL DEF Spec

\* Every variable has its type.
THEOREM TypeCorrect == Spec => []TypeOK
<1>1. IInv => TypeOK
  BY DEF IInv
<1>2. QED
  BY <1>1, Invariant, PTL

\* The worker in the mutex is the only process that can be alive, for any number
\* of requests, crashes, cancelled requests and dropped copies of the client.
THEOREM NoOrphanProcessHolds == Spec => []NoOrphanProcess
<1>1. IInv => NoOrphanProcess
  BY DEF IInv, WorkerInv
<1>2. QED
  BY <1>1, Invariant, PTL

\* A caller that waits is registered, and the reader of the worker it wrote to is
\* still there to answer or to fail it.
THEOREM NoStrandedWaiterHolds == Spec => []NoStrandedWaiter
<1>1. IInv => NoStrandedWaiter
  BY DEF IInv
<1>2. QED
  BY <1>1, Invariant, PTL

\* Entries of the pending map outlive their attempt in the two known ways only.
THEOREM OnlyKnownLeaksHolds == Spec => []OnlyKnownLeaks
<1>1. IInv => OnlyKnownLeaks
  BY DEF IInv
<1>2. QED
  BY <1>1, Invariant, PTL
=============================================================================
