------------------------- MODULE CallContractProofs -------------------------
(***************************************************************************)
(* TsIpc carries a call out as CallContract says, and two properties that  *)
(* rest on the same strengthening of IInv, for every set of callers and    *)
(* every value of the bounds.                                              *)
(***************************************************************************)
EXTENDS TsIpcProofs, FiniteSetTheorems

-----------------------------------------------------------------------------
(* The strengthening. *)

Lines(s)   == {s[n] : n \in 1..Len(s)}
Begun(ids) == \A i \in ids : pc[i[1]] # "idle"

(* The pipes hold requests of calls that were begun, finitely many a line. *)
LineInv ==
    /\ \A g \in Gens : IsFiniteSet(partial[g]) /\ Begun(partial[g])
    /\ \A g \in Gens : \A line \in Lines(stdin[g]) : IsFiniteSet(line) /\ Begun(line)
    /\ Begun(handled)

(* Answers are about requests that a worker has begun to handle. *)
AnswerInv ==
    /\ \A g \in Gens : working[g] \subseteq handled
    /\ \A g \in Gens : \A answer \in Lines(stdout[g]) : answer.ids \subseteq handled
    /\ \A c \in Callers : slot[c] \in AnswerKinds => Id(c) \in handled
    /\ \A c \in Callers : pc[c] # "done" => outcome[c] = "none"

(* What stands before the newline was written by the call that is about to *)
(* end the line, or by one that is gone.                                   *)
MergeInv ==
    /\ \A g \in Gens : \A i \in partial[g] :
          \/ pc[i[1]] = "gone"
          \/ pc[i[1]] = "newline" /\ sentTo[i[1]] = g /\ i = Id(i[1])
    /\ \A g \in Gens : Alive(g) \/ partial[g] = {}
    /\ \A c \in Callers : pc[c] = "newline" /\ Alive(sentTo[c]) => Id(c) \in partial[sentTo[c]]
    /\ MergedOnlyAfterDisconnect

(* The last worker started is the one in the mutex or dead, all before it  *)
(* are dead, and a call on its second attempt has met a second worker.     *)
TwoDead == \E g, h \in Gens : g # h /\ proc[g] = "dead" /\ proc[h] = "dead"
DeathInv ==
    /\ worker \in {0, spawned}
    /\ \A g \in Gens : g <= spawned => proc[g] # "none"
    /\ \A c \in Callers : pc[c] \in {"kill", "restart"} => worker = 0 \/ spawned > 1
    /\ \A c \in Callers : try[c] = 2 => spawned > 1
    /\ \A c \in Callers : slot[c] = "crashed" /\ try[c] = 2 => TwoDead
    /\ CrashErrorNeedsTwoDeaths

JInv == IInv /\ LineInv /\ AnswerInv /\ MergeInv /\ DeathInv

-----------------------------------------------------------------------------
(* What a step can do to the callers and to the pipes. *)

LEMMA LinesOfAppend ==
    ASSUME NEW S, NEW s \in Seq(S), NEW x \in S
    PROVE  Lines(Append(s, x)) \subseteq Lines(s) \cup {x}
<1>1. Len(Append(s, x)) = Len(s) + 1 /\ Len(s) \in Nat
  OBVIOUS
<1>2. \A n \in 1..(Len(s) + 1) : Append(s, x)[n] = IF n = Len(s) + 1 THEN x ELSE s[n]
  OBVIOUS
<1>3. \A n \in 1..(Len(s) + 1) : n = Len(s) + 1 \/ n \in 1..Len(s)
  BY <1>1
<1> QED
  BY <1>1, <1>2, <1>3 DEF Lines

LEMMA LinesOfTail ==
    ASSUME NEW S, NEW s \in Seq(S), s # <<>>
    PROVE  Lines(Tail(s)) \subseteq Lines(s) /\ Head(s) \in Lines(s)
<1>1. Len(Tail(s)) = Len(s) - 1 /\ Len(s) \in Nat \ {0} /\ Head(s) = s[1]
  OBVIOUS
<1>2. \A n \in 1..(Len(s) - 1) : Tail(s)[n] = s[n + 1]
  OBVIOUS
<1>3. 1 \in 1..Len(s) /\ \A n \in 1..(Len(s) - 1) : n + 1 \in 1..Len(s)
  BY <1>1
<1> QED
  BY <1>1, <1>2, <1>3 DEF Lines

LEMMA LinesOfEmpty == Lines(<<>>) = {}
BY DEF Lines

(* The steps of a request, and where they take it. *)
Request(c) == StartCall(c) \/ ServeWithoutIpc(c) \/ Call(c) \/ Disconnect(c)

LEMMA RequestMoves ==
    ASSUME CallerTypes, NEW c \in Callers, Request(c)
    PROVE  \E l \in CallerPCs \ {"idle"} : pc' = [pc EXCEPT ![c] = l] /\ pc[c] \notin Ended
<1> USE DEF Goto, Ended, CallerPCs
<1>1. CASE StartCall(c) \/ ServeWithoutIpc(c) \/ Disconnect(c)
  BY <1>1 DEF StartCall, ServeWithoutIpc, Disconnect
<1>2. CASE CallEnsuresWorker(c) \/ CallRestartsWorker(c)
  BY <1>2 DEF CallEnsuresWorker, CallRestartsWorker, EnsureWorker
<1>3. CASE InsertPending(c) \/ LockStdin(c) \/ WriteBody(c) \/ WriteNewline(c)
           \/ CallTakesWorker(c) \/ CallFinishesTeardown(c)
  BY <1>3 DEF InsertPending, LockStdin, WriteBody, WriteNewline, CallTakesWorker,
              CallFinishesTeardown
<1>4. CASE LockFindsNoWorker(c) \/ WriteFails(c) \/ Receive(c) \/ Timeout(c)
  BY <1>4 DEF LockFindsNoWorker, WriteFails, Receive, Timeout, Settle
<1> QED
  BY <1>1, <1>2, <1>3, <1>4 DEF Request, Call

(* All other steps leave the callers where they are. *)
LEMMA OtherSteps ==
    ASSUME [Next]_vars, \A c \in Callers : ~Request(c)
    PROVE  UNCHANGED <<pc, try, outcome, sentTo>>
<1>1. ASSUME NEW c \in Callers, DropClone(c) PROVE UNCHANGED <<pc, try, outcome, sentTo>>
  BY <1>1 DEF DropClone
<1>2. ASSUME NEW g \in Gens, Read(g) PROVE UNCHANGED <<pc, try, outcome, sentTo>>
  BY <1>2 DEF Read, Dispatch, ReaderSeesEof, ReaderTakesWorker, ReaderFinishesTeardown,
              ReaderStops, callerVars
<1>3. ASSUME NEW g \in Gens, WorkerReady(g) \/ ReadLine(g) \/ Answer(g) \/ Crash(g)
      PROVE  UNCHANGED <<pc, try, outcome, sentTo>>
  BY <1>3 DEF WorkerReady, ReadLine, Answer, Crash, callerVars
<1>4. CASE Drop
  BY <1>4 DEF Drop, DropTakesWorker, DropFinishesTeardown, callerVars
<1>5. CASE Quiescent \/ UNCHANGED vars
  BY <1>5 DEF Quiescent, vars, callerVars
<1> QED
  BY <1>1, <1>2, <1>3, <1>4, <1>5 DEF Next, Request

(* A call does not return to idle, and one that has ended stays where it is. *)
LEMMA PcGrows ==
    ASSUME CallerTypes, [Next]_vars, NEW c \in Callers
    PROVE  /\ pc[c] # "idle" => pc'[c] # "idle"
           /\ pc[c] \in Ended => pc'[c] = pc[c]
<1>1. ASSUME NEW d \in Callers, Request(d)
      PROVE  (pc[c] # "idle" => pc'[c] # "idle") /\ (pc[c] \in Ended => pc'[c] = pc[c])
  <2>1. PICK l \in CallerPCs \ {"idle"} : pc' = [pc EXCEPT ![d] = l] /\ pc[d] \notin Ended
    BY <1>1, RequestMoves
  <2> QED
    BY <2>1 DEF CallerTypes
<1> QED
  BY <1>1, OtherSteps

(* The steps that move what is in the pipes. *)
LEMMA PipeCases ==
    ASSUME [Next]_vars
    PROVE  \/ UNCHANGED pipeVars
           \/ \E c \in Callers : WriteBody(c)
           \/ \E c \in Callers : WriteNewline(c)
           \/ \E h : Die(h) /\ UNCHANGED <<stdout, handled>>
           \/ \E g \in Gens : ReadLine(g)
           \/ \E g \in Gens : Answer(g)
           \/ \E g \in Gens : Dispatch(g)
<1>1. ASSUME NEW c \in Callers,
             \/ StartCall(c) \/ ServeWithoutIpc(c) \/ CallEnsuresWorker(c) \/ InsertPending(c)
             \/ LockStdin(c) \/ LockFindsNoWorker(c) \/ WriteFails(c) \/ Receive(c)
             \/ Timeout(c) \/ CallFinishesTeardown(c) \/ CallRestartsWorker(c)
             \/ Disconnect(c) \/ DropClone(c)
      PROVE  UNCHANGED pipeVars
  BY <1>1 DEF StartCall, ServeWithoutIpc, CallEnsuresWorker, InsertPending, LockStdin,
       LockFindsNoWorker, WriteFails, Receive, Timeout, CallFinishesTeardown,
       CallRestartsWorker, Disconnect, DropClone, EnsureWorker
<1>2. ASSUME NEW c \in Callers, CallTakesWorker(c)
      PROVE  Die(worker) /\ UNCHANGED <<stdout, handled>>
  BY <1>2 DEF CallTakesWorker, TakeWorker
<1>3. ASSUME NEW g \in Gens, ReaderTakesWorker(g)
      PROVE  Die(worker) /\ UNCHANGED <<stdout, handled>>
  BY <1>3 DEF ReaderTakesWorker, TakeWorker
<1>4. ASSUME NEW g \in Gens, Crash(g) PROVE Die(g) /\ UNCHANGED <<stdout, handled>>
  BY <1>4 DEF Crash
<1>5. CASE DropTakesWorker
  BY <1>5 DEF DropTakesWorker, TakeWorker
<1>6. ASSUME NEW g \in Gens,
             ReaderSeesEof(g) \/ ReaderFinishesTeardown(g) \/ ReaderStops(g) \/ WorkerReady(g)
      PROVE  UNCHANGED pipeVars
  BY <1>6 DEF ReaderSeesEof, ReaderFinishesTeardown, ReaderStops, WorkerReady
<1>7. CASE DropFinishesTeardown \/ Quiescent \/ UNCHANGED vars
  BY <1>7 DEF DropFinishesTeardown, Quiescent, vars
<1> QED
  BY <1>1, <1>2, <1>3, <1>4, <1>5, <1>6, <1>7 DEF Next, Call, Read, Drop

-----------------------------------------------------------------------------
(* The parts of the strengthening, one after the other. *)

LEMMA LineStep ==
    ASSUME IInv, LineInv, [Next]_vars
    PROVE  LineInv'
<1>1. \A ids \in SUBSET Ids : Begun(ids) => Begun(ids)'
  BY PcGrows DEF Begun, Ids, IInv, TypeOK
<1>2. /\ \A g \in Gens : partial[g] \in SUBSET Ids /\ stdin[g] \in Seq(SUBSET Ids)
      /\ handled \in SUBSET Ids
  BY DEF IInv, TypeOK, ProcessTypes
<1>3. \A g \in Gens : \A line \in Lines(stdin[g]) : line \in SUBSET Ids
  BY <1>2 DEF Lines
<1>4. CASE UNCHANGED <<stdin, partial, handled>>
  BY <1>1, <1>2, <1>3, <1>4 DEF LineInv
<1>5. ASSUME NEW c \in Callers, WriteBody(c) PROVE LineInv'
  <2>1. \A g \in Gens : partial'[g] = partial[g] \/ partial'[g] = partial[g] \cup {Id(c)}
    BY <1>5 DEF WriteBody, IInv, TypeOK, ProcessTypes
  <2>2. pc'[Id(c)[1]] # "idle" /\ UNCHANGED <<stdin, handled>>
    BY <1>5 DEF WriteBody, Begun, Id, Goto, IInv, TypeOK, CallerTypes
  <2>3. \A g \in Gens : IsFiniteSet(partial'[g]) /\ Begun(partial[g])'
    <3> SUFFICES ASSUME NEW g \in Gens PROVE IsFiniteSet(partial'[g]) /\ Begun(partial[g])'
      OBVIOUS
    <3>1. IsFiniteSet(partial[g] \cup {Id(c)}) /\ IsFiniteSet(partial[g])
      BY FS_AddElement DEF LineInv
    <3>2. \A i \in partial[g] : pc'[i[1]] # "idle"
      BY <1>1, <1>2 DEF LineInv, Begun
    <3>3. \A i \in partial'[g] : pc'[i[1]] # "idle"
      BY <2>1, <2>2, <3>2
    <3>4. IsFiniteSet(partial'[g])
      BY <2>1, <3>1
    <3> QED
      BY <3>3, <3>4 DEF Begun
  <2> QED
    BY <1>1, <1>2, <1>3, <2>2, <2>3 DEF LineInv
<1>6. ASSUME NEW c \in Callers, WriteNewline(c) PROVE LineInv'
  <2> DEFINE g == sentTo[c]
  <2>1. g \in Gens
    BY <1>6 DEF WriteNewline, IInv, WorkerInv, TypeOK, TaskTypes
  <2>2. /\ stdin' = [stdin EXCEPT ![g] = Append(stdin[g], partial[g])]
        /\ partial' = [partial EXCEPT ![g] = {}] /\ handled' = handled
    BY <1>6 DEF WriteNewline
  <2>3. Lines(Append(stdin[g], partial[g])) \subseteq Lines(stdin[g]) \cup {partial[g]}
    BY <1>2, <2>1, LinesOfAppend
  <2>4. \A h \in Gens : /\ partial'[h] = partial[h] \/ partial'[h] = {}
                        /\ Lines(stdin'[h]) \subseteq Lines(stdin[h]) \cup {partial[h]}
    BY <2>1, <2>2, <2>3 DEF IInv, TypeOK, ProcessTypes
  <2>5. IsFiniteSet({}) /\ Begun({})'
    BY FS_EmptySet DEF Begun
  <2> QED
    BY <1>1, <1>2, <1>3, <2>2, <2>4, <2>5 DEF LineInv
<1>7. ASSUME NEW h, Die(h), handled' = handled PROVE LineInv'
  <2>1. \A g \in Gens : /\ partial'[g] = partial[g] \/ partial'[g] = {}
                        /\ stdin'[g] = stdin[g] \/ stdin'[g] = <<>>
    BY <1>7 DEF Die
  <2>2. IsFiniteSet({}) /\ Begun({})'
    BY FS_EmptySet DEF Begun
  <2> QED
    BY <1>1, <1>2, <1>3, <1>7, <2>1, <2>2, LinesOfEmpty DEF LineInv
<1>8. ASSUME NEW g \in Gens, ReadLine(g) PROVE LineInv'
  <2>1. Head(stdin[g]) \in Lines(stdin[g]) /\ Lines(Tail(stdin[g])) \subseteq Lines(stdin[g])
    BY <1>2, <1>8, LinesOfTail DEF ReadLine
  <2>2. \A h \in Gens : Lines(stdin'[h]) \subseteq Lines(stdin[h])
    BY <1>8, <2>1 DEF ReadLine, IInv, TypeOK, ProcessTypes
  <2>3. handled' \subseteq handled \cup Head(stdin[g]) /\ partial' = partial
    BY <1>8 DEF ReadLine
  <2>4. \A i \in Head(stdin[g]) : pc'[i[1]] # "idle"
    BY <1>1, <1>3, <2>1 DEF LineInv, Begun
  <2>5. \A i \in handled : pc'[i[1]] # "idle"
    BY <1>1, <1>2 DEF LineInv, Begun
  <2>6. Begun(handled)'
    BY <2>3, <2>4, <2>5 DEF Begun
  <2> QED
    BY <1>1, <1>2, <1>3, <2>2, <2>3, <2>6 DEF LineInv
<1>9. ASSUME NEW g \in Gens, Answer(g) \/ Dispatch(g)
      PROVE  UNCHANGED <<stdin, partial, handled>>
  BY <1>9 DEF Answer, Dispatch
<1> QED
  BY <1>4, <1>5, <1>6, <1>7, <1>8, <1>9, PipeCases DEF pipeVars

(* The oneshot channel of a call is emptied, left alone, failed by a       *)
(* teardown, or gets an answer that the reader of a worker has read.       *)
SlotMove(c) ==
    \/ slot'[c] = "empty"
    \/ slot'[c] = slot[c] /\ try'[c] = try[c]
    \/ slot'[c] = "crashed" /\ worker = 0 /\ UNCHANGED <<proc, spawned, try>>
    \/ \E g \in Gens : /\ Dispatch(g) /\ slot'[c] = Head(stdout[g]).kind
                       /\ Id(c) \in Head(stdout[g]).ids /\ try' = try

LEMMA SlotMoves ==
    ASSUME IInv, [Next]_vars, NEW c \in Callers
    PROVE  SlotMove(c)
<1>0. slot \in [Callers -> SlotValues]
  BY DEF IInv, TypeOK, TaskTypes
<1>1. ASSUME NEW d \in Callers, CallRestartsWorker(d) PROVE SlotMove(c)
  <2>1. slot' = slot /\ pc[d] = "restart" /\ \A e \in Callers \ {d} : try'[e] = try[e]
    BY <1>1 DEF CallRestartsWorker, EnsureWorker, mapVars, IInv, TypeOK, CallerTypes
  <2>2. slot[d] = "empty"
    BY <2>1 DEF IInv, SlotInv, Listening
  <2> QED
    BY <2>1, <2>2 DEF SlotMove
<1>2. ASSUME NEW d \in Callers,
             LockFindsNoWorker(d) \/ WriteFails(d) \/ Receive(d) \/ Timeout(d) \/ Disconnect(d)
      PROVE  SlotMove(c)
  <2>1. slot' = [slot EXCEPT ![d] = "empty"] /\ try' = try
    BY <1>2 DEF LockFindsNoWorker, WriteFails, Receive, Timeout, Disconnect, Settle
  <2> QED
    BY <1>0, <2>1 DEF SlotMove
<1>3. ASSUME FailAllPending, worker = 0, UNCHANGED <<proc, spawned, try>> PROVE SlotMove(c)
  BY <1>3 DEF SlotMove, FailAllPending, Send
<1>4. ASSUME NEW d \in Callers, CallFinishesTeardown(d) PROVE SlotMove(c)
  BY <1>3, <1>4 DEF CallFinishesTeardown, FinishTeardown, IInv, MutexInv, countVars
<1>5. ASSUME NEW g \in Gens, ReaderFinishesTeardown(g) PROVE SlotMove(c)
  BY <1>3, <1>5 DEF ReaderFinishesTeardown, FinishTeardown, IInv, MutexInv, countVars, callerVars
<1>6. CASE DropFinishesTeardown
  BY <1>3, <1>6 DEF DropFinishesTeardown, FinishTeardown, IInv, MutexInv, countVars, callerVars
<1>7. ASSUME NEW g \in Gens, Dispatch(g) PROVE SlotMove(c)
  BY <1>7 DEF SlotMove, Dispatch, Send, callerVars
<1>8. ASSUME UNCHANGED <<slot, try>> PROVE SlotMove(c)
  BY <1>8 DEF SlotMove
<1>9. ASSUME NEW d \in Callers,
             \/ StartCall(d) \/ ServeWithoutIpc(d) \/ CallEnsuresWorker(d) \/ InsertPending(d)
             \/ LockStdin(d) \/ WriteBody(d) \/ WriteNewline(d) \/ CallTakesWorker(d)
             \/ DropClone(d)
      PROVE  UNCHANGED <<slot, try>>
  BY <1>9 DEF StartCall, ServeWithoutIpc, CallEnsuresWorker, InsertPending, LockStdin,
       WriteBody, WriteNewline, CallTakesWorker, DropClone, EnsureWorker, mapVars
<1>10. ASSUME NEW g \in Gens,
              \/ ReaderSeesEof(g) \/ ReaderTakesWorker(g) \/ ReaderStops(g)
              \/ WorkerReady(g) \/ ReadLine(g) \/ Answer(g) \/ Crash(g)
       PROVE  UNCHANGED <<slot, try>>
  BY <1>10 DEF ReaderSeesEof, ReaderTakesWorker, ReaderStops, WorkerReady, ReadLine, Answer,
       Crash, mapVars, callerVars
<1>11. CASE DropTakesWorker \/ Quiescent \/ UNCHANGED vars
  BY <1>8, <1>11 DEF DropTakesWorker, Quiescent, vars, mapVars, callerVars
<1>12. ASSUME NEW d \in Callers, Request(d) \/ DropClone(d) PROVE SlotMove(c)
  BY <1>1, <1>2, <1>4, <1>8, <1>9, <1>12 DEF Request, Call
<1>13. ASSUME NEW g \in Gens, Read(g) \/ WorkerReady(g) \/ ReadLine(g) \/ Answer(g) \/ Crash(g)
       PROVE  SlotMove(c)
  BY <1>5, <1>7, <1>8, <1>10, <1>13 DEF Read
<1>14. CASE Drop \/ Quiescent \/ UNCHANGED vars
  BY <1>6, <1>8, <1>11, <1>14 DEF Drop
<1> QED
  BY <1>12, <1>13, <1>14 DEF Next, Request

(* How a call ends: without a worker, without a process to write to, after *)
(* its timeout, or with what its channel holds.                            *)
EndsWith(c, r) ==
    /\ pc'[c] = "done" /\ outcome'[c] = r /\ pc[c] \notin Ended \cup {"idle"}
    /\ r \in {"crashed", "write"} => try[c] = 2
    /\ UNCHANGED <<proc, handled>>
    /\ \/ r \in {"spawn", "timeout"}
       \/ r = "crashed" /\ worker = 0
       \/ r = "write" /\ ~Alive(sentTo[c]) /\ pc[c] \in {"body", "newline"}
       \/ r = slot[c] /\ slot[c] # "empty"

RequestEnd(c) ==
    /\ \A d \in Callers \ {c} : outcome'[d] = outcome[d] /\ try'[d] = try[d]
    /\ try'[c] = try[c] \/ CallRestartsWorker(c)
    /\ \/ outcome'[c] = outcome[c] /\ (pc'[c] = "done" => pc[c] = "idle")
       \/ \E r \in Outcomes : EndsWith(c, r)

LEMMA RequestEnds ==
    ASSUME IInv, NEW c \in Callers, Request(c)
    PROVE  RequestEnd(c)
<1> USE DEF Goto, Ended, CallerPCs, Outcomes, AnswerKinds, CallerTypes, IInv, TypeOK
<1>1. CASE StartCall(c) \/ ServeWithoutIpc(c) \/ Disconnect(c)
  BY <1>1 DEF RequestEnd, StartCall, ServeWithoutIpc, Disconnect
<1>2. CASE CallEnsuresWorker(c) \/ CallRestartsWorker(c)
  <2>1. PICK next \in {"insert", "ensure"} : EnsureWorker(c, next) /\ pc[c] \in {"ensure", "restart"}
    BY <1>2 DEF CallEnsuresWorker, CallRestartsWorker
  <2>2. /\ \A d \in Callers \ {c} : outcome'[d] = outcome[d] /\ try'[d] = try[d]
        /\ try'[c] = try[c] \/ CallRestartsWorker(c)
    BY <1>2, <2>1 DEF CallEnsuresWorker, CallRestartsWorker, EnsureWorker
  <2>3. CASE UNCHANGED outcome /\ Goto(c, next)
    BY <2>1, <2>2, <2>3 DEF RequestEnd
  <2>4. CASE Goto(c, "done") /\ outcome' = [outcome EXCEPT ![c] = "spawn"]
             /\ UNCHANGED <<spawned, worker, proc, reader>>
    <3>1. EndsWith(c, "spawn")
      BY <2>1, <2>4 DEF EndsWith, EnsureWorker, pipeVars
    <3> QED
      BY <2>2, <3>1 DEF RequestEnd
  <2> QED
    BY <2>1, <2>3, <2>4 DEF EnsureWorker
<1>3. CASE InsertPending(c) \/ LockStdin(c) \/ WriteBody(c) \/ WriteNewline(c)
           \/ CallTakesWorker(c) \/ CallFinishesTeardown(c)
  BY <1>3 DEF RequestEnd, InsertPending, LockStdin, WriteBody, WriteNewline, CallTakesWorker,
              CallFinishesTeardown
<1>4. ASSUME NEW r \in Outcomes, Settle(c, r), UNCHANGED <<try, proc, handled>>,
             pc[c] \notin Ended \cup {"idle"},
             \/ r = "timeout"
             \/ r = "crashed" /\ worker = 0
             \/ r = "write" /\ ~Alive(sentTo[c]) /\ pc[c] \in {"body", "newline"}
             \/ r = slot[c] /\ slot[c] # "empty"
      PROVE  RequestEnd(c)
  <2>1. \A d \in Callers \ {c} : outcome'[d] = outcome[d] /\ try'[d] = try[d]
    BY <1>4 DEF Settle
  <2>2. CASE r \in {"crashed", "write"} /\ try[c] = 1
    BY <1>4, <2>1, <2>2 DEF Settle, RequestEnd
  <2>3. CASE ~(r \in {"crashed", "write"} /\ try[c] = 1)
    <3>1. EndsWith(c, r)
      BY <1>4, <2>3 DEF Settle, EndsWith
    <3> QED
      BY <1>4, <2>1, <3>1 DEF RequestEnd
  <2> QED
    BY <2>2, <2>3
<1>5. CASE LockFindsNoWorker(c)
  BY <1>4, <1>5 DEF LockFindsNoWorker, pipeVars
<1>6. CASE WriteFails(c)
  BY <1>4, <1>6 DEF WriteFails, pipeVars
<1>7. CASE Receive(c)
  <2>1. slot[c] \in Outcomes /\ slot[c] # "empty"
    BY <1>7 DEF Receive, TaskTypes, SlotValues
  <2> QED
    BY <1>4, <1>7, <2>1 DEF Receive, pipeVars
<1>8. CASE Timeout(c)
  BY <1>4, <1>8 DEF Timeout, pipeVars
<1> QED
  BY <1>1, <1>2, <1>3, <1>5, <1>6, <1>7, <1>8 DEF Request, Call

LEMMA AnswerStep ==
    ASSUME IInv, AnswerInv, [Next]_vars
    PROVE  AnswerInv'
<1>1. handled \subseteq handled'
  <2>1. ASSUME NEW c \in Callers, WriteBody(c) \/ WriteNewline(c) PROVE handled' = handled
    BY <2>1 DEF WriteBody, WriteNewline
  <2>2. ASSUME NEW g \in Gens, ReadLine(g) \/ Answer(g) \/ Dispatch(g)
        PROVE  handled \subseteq handled'
    BY <2>2 DEF ReadLine, Answer, Dispatch
  <2> QED
    BY <2>1, <2>2, PipeCases DEF pipeVars
<1>2. /\ working \in [Gens -> SUBSET Ids] /\ stdin \in [Gens -> Seq(SUBSET Ids)]
      /\ stdout \in [Gens -> Seq(Answers)]
  BY DEF IInv, TypeOK, ProcessTypes
<1>3. /\ \A g \in Gens : working'[g] \subseteq handled'
      /\ \A g \in Gens : \A answer \in Lines(stdout'[g]) : answer.ids \subseteq handled'
  <2> DEFINE Worked == \A g \in Gens : working'[g] \subseteq handled'
             Told == \A g \in Gens : \A answer \in Lines(stdout'[g]) : answer.ids \subseteq handled'
  <2>1. /\ (\A g \in Gens : working'[g] \subseteq working[g]) => Worked
        /\ (\A g \in Gens : Lines(stdout'[g]) \subseteq Lines(stdout[g])) => Told
    BY <1>1 DEF AnswerInv
  <2>2. ASSUME NEW h, Die(h), UNCHANGED <<stdout, handled>> PROVE Worked /\ Told
    BY <2>1, <2>2 DEF Die
  <2>3. ASSUME NEW g \in Gens, ReadLine(g) PROVE Worked /\ Told
    <3>1. CASE Cardinality(Head(stdin[g])) = 1
      <4>1. /\ \A h \in Gens : working'[h] \subseteq working[h] \cup Head(stdin[g])
            /\ handled' = handled \cup Head(stdin[g]) /\ stdout' = stdout
        BY <1>2, <2>3, <3>1 DEF ReadLine
      <4> QED
        BY <2>1, <4>1 DEF AnswerInv
    <3>2. CASE Cardinality(Head(stdin[g])) # 1
      <4>1. /\ working' = working /\ handled' = handled
            /\ stdout' = [stdout EXCEPT ![g] = Append(stdout[g], BadRequest)]
        BY <2>3, <3>2 DEF ReadLine
      <4>2. BadRequest \in Answers /\ BadRequest.ids = {}
        BY DEF Answers, BadRequest
      <4>3. Lines(Append(stdout[g], BadRequest)) \subseteq Lines(stdout[g]) \cup {BadRequest}
        BY <1>2, <4>2, LinesOfAppend
      <4>4. \A h \in Gens : Lines(stdout'[h]) \subseteq Lines(stdout[h]) \cup {BadRequest}
        BY <1>2, <4>1, <4>3
      <4> QED
        BY <2>1, <4>1, <4>2, <4>4 DEF AnswerInv
    <3> QED
      BY <3>1, <3>2
  <2>4. ASSUME NEW g \in Gens, Answer(g) PROVE Worked /\ Told
    <3>1. PICK i \in working[g], kind \in Replies :
            /\ working' = [working EXCEPT ![g] = @ \ {i}] /\ handled' = handled
            /\ stdout' = [stdout EXCEPT ![g] = Append(@, [ids |-> {i}, kind |-> kind])]
      BY <2>4 DEF Answer
    <3> DEFINE answer == [ids |-> {i}, kind |-> kind]
    <3>2. answer \in Answers /\ answer.ids \subseteq handled
      BY <1>2, BoundsAssumption DEF Answers, AnswerInv
    <3> HIDE DEF answer
    <3>3. Lines(Append(stdout[g], answer)) \subseteq Lines(stdout[g]) \cup {answer}
      BY <1>2, <3>2, LinesOfAppend
    <3>4. \A h \in Gens : Lines(stdout'[h]) \subseteq Lines(stdout[h]) \cup {answer}
      BY <1>2, <3>1, <3>3 DEF answer
    <3>5. \A h \in Gens : working'[h] \subseteq working[h]
      BY <1>2, <3>1
    <3> QED
      BY <2>1, <3>1, <3>2, <3>4, <3>5 DEF AnswerInv
  <2>5. ASSUME NEW g \in Gens, Dispatch(g) PROVE Worked /\ Told
    <3>1. Lines(Tail(stdout[g])) \subseteq Lines(stdout[g])
      BY <1>2, <2>5, LinesOfTail DEF Dispatch
    <3>2. \A h \in Gens : Lines(stdout'[h]) \subseteq Lines(stdout[h])
      BY <1>2, <2>5, <3>1 DEF Dispatch
    <3> QED
      BY <2>1, <2>5, <3>2 DEF Dispatch
  <2>6. ASSUME NEW c \in Callers, WriteBody(c) \/ WriteNewline(c)
        PROVE  UNCHANGED <<working, stdout>>
    BY <2>6 DEF WriteBody, WriteNewline
  <2> HIDE DEF Worked, Told
  <2>7. Worked /\ Told
    BY <2>1, <2>2, <2>3, <2>4, <2>5, <2>6, PipeCases DEF pipeVars
  <2> QED
    BY <2>7 DEF Worked, Told
<1>4. ASSUME NEW c \in Callers, slot'[c] \in AnswerKinds PROVE Id(c)' \in handled'
  <2>1. CASE slot'[c] = slot[c] /\ try'[c] = try[c]
    BY <1>1, <1>4, <2>1 DEF AnswerInv, Id
  <2>2. ASSUME NEW g \in Gens, Dispatch(g), Id(c) \in Head(stdout[g]).ids, try' = try
        PROVE  Id(c)' \in handled'
    <3>1. Head(stdout[g]) \in Lines(stdout[g])
      BY <1>2, <2>2, LinesOfTail DEF Dispatch
    <3> QED
      BY <1>1, <2>2, <3>1 DEF AnswerInv, Id
  <2> QED
    BY <1>4, <2>1, <2>2, SlotMoves DEF SlotMove, AnswerKinds
<1>5. ASSUME NEW c \in Callers, pc'[c] # "done" PROVE outcome'[c] = "none"
  <2>1. ASSUME NEW d \in Callers, Request(d) PROVE outcome'[c] = "none"
    <3>1. pc[c] # "done"
      BY <1>5, PcGrows DEF Ended, IInv, TypeOK
    <3>2. outcome'[c] = outcome[c]
      BY <1>5, <2>1, RequestEnds DEF RequestEnd, EndsWith
    <3> QED
      BY <3>1, <3>2 DEF AnswerInv
  <2> QED
    BY <1>5, <2>1, OtherSteps DEF AnswerInv
<1> QED
  BY <1>3, <1>4, <1>5 DEF AnswerInv

-----------------------------------------------------------------------------
(* The refinement. *)

(* A step that neither moves a call nor begins to handle a request changes *)
(* nothing that the contract speaks of.                                    *)
LEMMA NothingMoves ==
    ASSUME UNCHANGED <<pc, outcome, handled>>
    PROVE  UNCHANGED Contract!vars
BY DEF Contract!vars, Status, Runs

(* A request moves its own call only. *)
LEMMA OneCallMoves ==
    ASSUME NEW c \in Callers, handled' = handled,
           \A d \in Callers \ {c} : pc'[d] = pc[d] /\ outcome'[d] = outcome[d]
    PROVE  /\ [d \in Callers |-> Status(d)]' = [[d \in Callers |-> Status(d)] EXCEPT ![c] = Status(c)']
           /\ [d \in Callers |-> Runs(d)]' = [d \in Callers |-> Runs(d)]
BY DEF Status, Runs

LEMMA RequestRefines ==
    ASSUME IInv, AnswerInv, NEW c \in Callers, Request(c), handled' = handled
    PROVE  [Contract!Next]_(Contract!vars)
<1>1. PICK l \in CallerPCs \ {"idle"} : pc' = [pc EXCEPT ![c] = l] /\ pc[c] \notin Ended
  BY RequestMoves DEF IInv, TypeOK
<1>2. /\ \A d \in Callers \ {c} : pc'[d] = pc[d] /\ outcome'[d] = outcome[d]
      /\ pc'[c] = l
  BY <1>1, RequestEnds DEF RequestEnd, IInv, TypeOK, CallerTypes
<1>3. /\ [d \in Callers |-> Status(d)]' = [[d \in Callers |-> Status(d)] EXCEPT ![c] = Status(c)']
      /\ [d \in Callers |-> Runs(d)]' = [d \in Callers |-> Runs(d)]
  BY <1>2, OneCallMoves
<1>4. outcome[c] = "none"
  BY <1>1 DEF AnswerInv, Ended
<1>5. CASE pc[c] = "idle"
  <2>1. Status(c) = "idle" /\ pc'[c] \in {"ensure", "done"} /\ outcome' = outcome
    BY <1>5 DEF Request, StartCall, ServeWithoutIpc, Call, CallEnsuresWorker, InsertPending,
         LockStdin, LockFindsNoWorker, WriteBody, WriteNewline, WriteFails, Receive, Timeout,
         CallTakesWorker, CallFinishesTeardown, CallRestartsWorker, Disconnect, Goto, Status,
         IInv, TypeOK, CallerTypes
  <2>2. Status(c)' \in {"open", "failed"}
    BY <1>4, <2>1 DEF Status, AnswerKinds
  <2>3. Contract!Begin(c) \/ Contract!Skip(c)
    BY <1>3, <2>1, <2>2 DEF Contract!Begin, Contract!Skip
  <2> QED
    BY <2>3 DEF Contract!Next
<1>6. CASE pc[c] # "idle"
  <2>1. Status(c) = "open"
    BY <1>1, <1>6 DEF Status, Ended
  <2>2. CASE l = "gone"
    <3>1. Status(c)' = "abandoned"
      BY <1>2, <2>2 DEF Status
    <3>2. Contract!End(c)
      BY <1>3, <2>1, <3>1 DEF Contract!End
    <3> QED
      BY <3>2 DEF Contract!Next
  <2>3. CASE l = "done"
    <3>1. PICK r \in Outcomes : EndsWith(c, r)
      BY <1>2, <1>6, <2>3, RequestEnds DEF RequestEnd
    <3>2. Status(c)' = IF r \in AnswerKinds THEN "answered" ELSE "failed"
      BY <3>1 DEF EndsWith, Status
    <3>3. r \in AnswerKinds => Runs(c) # {}
      <4>1. ASSUME r \in AnswerKinds PROVE slot[c] \in AnswerKinds
        BY <3>1, <4>1 DEF EndsWith, AnswerKinds
      <4>2. slot[c] \in AnswerKinds => try[c] \in {1, 2} /\ <<c, try[c]>> \in handled
        BY DEF AnswerInv, Id, IInv, TypeOK, CallerTypes
      <4> QED
        BY <4>1, <4>2 DEF Runs
    <3>4. Contract!End(c)
      BY <1>3, <2>1, <3>2, <3>3 DEF Contract!End
    <3> QED
      BY <3>4 DEF Contract!Next
  <2>4. CASE l \notin {"gone", "done"}
    <3>1. Status(c)' = "open"
      BY <1>1, <1>2, <2>4 DEF Status
    <3> QED
      BY <1>3, <2>1, <3>1 DEF Contract!vars
  <2> QED
    BY <2>2, <2>3, <2>4
<1> QED
  BY <1>5, <1>6

(* A worker that reads a line begins to handle its request, if it is one.  *)
LEMMA ReadLineRefines ==
    ASSUME IInv, LineInv, NEW g \in Gens, ReadLine(g)
    PROVE  [Contract!Next]_(Contract!vars)
<1>1. /\ Head(stdin[g]) \in Lines(stdin[g]) /\ Head(stdin[g]) \in SUBSET Ids
      /\ pc' = pc /\ outcome' = outcome
  BY LinesOfTail, PopType DEF ReadLine, callerVars, IInv, TypeOK, ProcessTypes
<1>2. CASE Cardinality(Head(stdin[g])) # 1
  BY <1>1, <1>2, NothingMoves DEF ReadLine
<1>3. CASE Cardinality(Head(stdin[g])) = 1
  <2>1. PICK i : Head(stdin[g]) = {i}
    BY <1>1, <1>3, FS_Singleton DEF LineInv
  <2>2. PICK c \in Callers, k \in {1, 2} : i = <<c, k>>
    BY <1>1, <2>1 DEF Ids
  <2>3. handled' = handled \cup {<<c, k>>}
    BY <1>3, <2>1, <2>2 DEF ReadLine
  <2>4. Status(c) # "idle"
    <3>1. pc[c] # "idle"
      BY <1>1, <2>1, <2>2 DEF LineInv, Begun
    <3> QED
      BY <3>1 DEF Status
  <2>5. CASE k \in Runs(c)
    <3>1. handled' = handled
      BY <2>3, <2>5 DEF Runs
    <3> QED
      BY <1>1, <3>1, NothingMoves
  <2>6. CASE k \notin Runs(c)
    <3>1. \A d \in Callers : Runs(d)' = IF d = c THEN Runs(d) \cup {k} ELSE Runs(d)
      BY <2>3 DEF Runs
    <3>2. [d \in Callers |-> Runs(d)]' =
              [[d \in Callers |-> Runs(d)] EXCEPT ![c] = @ \cup {k}]
      BY <3>1
    <3>3. [d \in Callers |-> Status(d)]' = [d \in Callers |-> Status(d)]
      BY <1>1 DEF Status
    <3>4. Contract!Run(c)
      BY <2>4, <2>6, <3>2, <3>3 DEF Contract!Run
    <3> QED
      BY <3>4 DEF Contract!Next
  <2> QED
    BY <2>5, <2>6
<1> QED
  BY <1>2, <1>3

-----------------------------------------------------------------------------
(* Lines merge only after a disconnect. *)

(* Who holds the mutex is alone between body and newline. *)
LEMMA OneWriter ==
    ASSUME IInv, NEW c \in Callers, NEW d \in Callers,
           pc[c] \in {"body", "newline"}, pc[d] \in {"body", "newline"}
    PROVE  c = d
BY DEF IInv, MutexInv

(* A call comes to its newline with its body, and leaves it with the line, *)
(* with an error, or for good.                                             *)
LEMMA NewlineMoves ==
    ASSUME IInv, [Next]_vars, NEW c \in Callers
    PROVE  /\ pc'[c] = "newline" => \/ WriteBody(c)
                                    \/ pc[c] = "newline" /\ UNCHANGED <<sentTo[c], try[c]>>
           /\ pc[c] = "newline" => \/ WriteNewline(c) \/ WriteFails(c)
                                   \/ pc'[c] = "gone"
                                   \/ pc'[c] = "newline" /\ UNCHANGED <<sentTo[c], try[c]>>
<1> DEFINE Goal ==
           /\ pc'[c] = "newline" => \/ WriteBody(c)
                                    \/ pc[c] = "newline" /\ UNCHANGED <<sentTo[c], try[c]>>
           /\ pc[c] = "newline" => \/ WriteNewline(c) \/ WriteFails(c)
                                   \/ pc'[c] = "gone"
                                   \/ pc'[c] = "newline" /\ UNCHANGED <<sentTo[c], try[c]>>
<1>1. CASE Request(c)
  <2> USE DEF Goto, IInv, TypeOK, CallerTypes
  <2>1. CASE WriteBody(c) \/ WriteNewline(c) \/ WriteFails(c) \/ Disconnect(c)
    BY <2>1 DEF WriteBody, WriteNewline, WriteFails, Disconnect, Settle
  <2>2. CASE \/ StartCall(c) \/ ServeWithoutIpc(c) \/ InsertPending(c) \/ LockStdin(c)
             \/ CallTakesWorker(c) \/ CallFinishesTeardown(c)
    BY <2>2 DEF StartCall, ServeWithoutIpc, InsertPending, LockStdin, CallTakesWorker,
                CallFinishesTeardown
  <2>3. CASE LockFindsNoWorker(c) \/ Receive(c) \/ Timeout(c)
    BY <2>3 DEF LockFindsNoWorker, Receive, Timeout, Settle
  <2>4. CASE CallEnsuresWorker(c) \/ CallRestartsWorker(c)
    BY <2>4 DEF CallEnsuresWorker, CallRestartsWorker, EnsureWorker
  <2> QED
    BY <1>1, <2>1, <2>2, <2>3, <2>4 DEF Request, Call
<1>2. ASSUME NEW d \in Callers, Request(d), d # c PROVE Goal
  <2>1. pc'[c] = pc[c] /\ try'[c] = try[c]
    <3>1. PICK l \in CallerPCs : pc' = [pc EXCEPT ![d] = l]
      BY <1>2, RequestMoves DEF IInv, TypeOK
    <3>2. pc'[c] = pc[c]
      BY <1>2, <3>1 DEF IInv, TypeOK, CallerTypes
    <3>3. try'[c] = try[c]
      BY <1>2, RequestEnds DEF RequestEnd
    <3> QED
      BY <3>2, <3>3
  <2>2. sentTo'[c] = sentTo[c]
    BY <1>2 DEF Request, Call, StartCall, ServeWithoutIpc, CallEnsuresWorker, InsertPending,
         LockStdin, LockFindsNoWorker, WriteBody, WriteNewline, WriteFails, Receive, Timeout,
         CallTakesWorker, CallFinishesTeardown, CallRestartsWorker, Disconnect, EnsureWorker,
         Settle, IInv, TypeOK, TaskTypes
  <2> QED
    BY <2>1, <2>2
<1>3. CASE UNCHANGED <<pc, try, outcome, sentTo>>
  BY <1>3
<1> QED
  BY <1>1, <1>2, <1>3, OtherSteps

(* How the state of a process changes. *)
ProcMove(g) ==
    \/ proc'[g] = proc[g] /\ (Alive(g) \/ UNCHANGED partial[g])
    \/ proc'[g] = "dead" /\ partial'[g] = {}
    \/ proc[g] \in {"none", "init"} /\ proc'[g] \in {"init", "ready"}

LEMMA ProcMoves ==
    ASSUME IInv, [Next]_vars, NEW g \in Gens
    PROVE  ProcMove(g)
<1>1. /\ proc \in [Gens -> ProcStates] /\ worker \in Gens \cup {0}
      /\ partial \in [Gens -> SUBSET Ids]
  BY DEF IInv, TypeOK, TaskTypes, ProcessTypes
<1>2. ASSUME NEW h, Die(h) PROVE ProcMove(g)
  BY <1>2 DEF Die, ProcMove
<1>3. ASSUME NEW c \in Callers, NEW next, EnsureWorker(c, next) PROVE ProcMove(g)
  <2>1. spawned + 1 \in Gens => proc[spawned + 1] = "none"
    BY DEF IInv, WorkerInv, TypeOK, TaskTypes, Gens
  <2>2. partial' = partial
    BY <1>3 DEF EnsureWorker, pipeVars
  <2>3. proc' = proc \/ (proc' = [proc EXCEPT ![spawned + 1] = "init"])
    BY <1>3 DEF EnsureWorker, Spawn
  <2> QED
    BY <1>1, <2>1, <2>2, <2>3 DEF ProcMove
<1>4. ASSUME NEW h \in Gens, WorkerReady(h) PROVE ProcMove(g)
  BY <1>1, <1>4 DEF WorkerReady, ProcMove, pipeVars
<1>5. ASSUME NEW c \in Callers, WriteBody(c) \/ WriteNewline(c) PROVE ProcMove(g)
  BY <1>1, <1>5 DEF WriteBody, WriteNewline, ProcMove
<1>6. ASSUME UNCHANGED <<proc, partial>> PROVE ProcMove(g)
  BY <1>6 DEF ProcMove
<1>7. ASSUME NEW c \in Callers,
             \/ StartCall(c) \/ ServeWithoutIpc(c) \/ InsertPending(c) \/ LockStdin(c)
             \/ LockFindsNoWorker(c) \/ WriteFails(c) \/ Receive(c) \/ Timeout(c)
             \/ CallFinishesTeardown(c) \/ Disconnect(c) \/ DropClone(c)
      PROVE  ProcMove(g)
  BY <1>6, <1>7 DEF StartCall, ServeWithoutIpc, InsertPending, LockStdin, LockFindsNoWorker,
       WriteFails, Receive, Timeout, CallFinishesTeardown, Disconnect, DropClone, pipeVars
<1>8. ASSUME NEW c \in Callers,
             CallEnsuresWorker(c) \/ CallRestartsWorker(c) \/ CallTakesWorker(c)
      PROVE  ProcMove(g)
  BY <1>2, <1>3, <1>8 DEF CallEnsuresWorker, CallRestartsWorker, CallTakesWorker, TakeWorker
<1>9. ASSUME NEW h \in Gens, Read(h) \/ ReadLine(h) \/ Answer(h) \/ Crash(h) PROVE ProcMove(g)
  BY <1>2, <1>6, <1>9 DEF Read, Dispatch, ReaderSeesEof, ReaderTakesWorker, TakeWorker,
       ReaderFinishesTeardown, ReaderStops, ReadLine, Answer, Crash, pipeVars
<1>10. ASSUME Drop \/ Quiescent \/ UNCHANGED vars PROVE ProcMove(g)
  BY <1>2, <1>6, <1>10 DEF Drop, DropTakesWorker, TakeWorker, DropFinishesTeardown, Quiescent,
       vars, pipeVars
<1> QED
  BY <1>4, <1>5, <1>7, <1>8, <1>9, <1>10 DEF Next, Call

(* A step that ends no line leaves what stands before the newline, or adds *)
(* the body of the call that comes to its newline, or loses it with the    *)
(* process.                                                                *)
LEMMA MergeStep ==
    ASSUME IInv, LineInv, MergeInv, DeathInv, [Next]_vars
    PROVE  MergeInv'
<1>1. /\ partial \in [Gens -> SUBSET Ids] /\ stdin \in [Gens -> Seq(SUBSET Ids)]
      /\ try \in [Callers -> {1, 2}] /\ sentTo \in [Callers -> Gens \cup {0}]
      /\ pc \in [Callers -> CallerPCs]
  BY DEF IInv, TypeOK, ProcessTypes, CallerTypes, TaskTypes
<1> DEFINE Owned(g, i) == \/ pc[i[1]] = "gone"
                          \/ pc[i[1]] = "newline" /\ sentTo[i[1]] = g /\ i = Id(i[1])
<1>2. ASSUME NEW g \in Gens, NEW i \in partial'[g] PROVE Owned(g, i)'
  <2>1. CASE i \in partial[g]
    <3>1. i[1] \in Callers
      BY <1>1, <2>1 DEF Ids
    <3>2. CASE pc[i[1]] = "gone"
      BY <3>1, <3>2, PcGrows DEF Ended, IInv, TypeOK
    <3>3. CASE pc[i[1]] = "newline" /\ sentTo[i[1]] = g /\ i = Id(i[1])
      <4>1. CASE pc'[i[1]] = "newline" /\ UNCHANGED <<sentTo[i[1]], try[i[1]]>>
        BY <3>3, <4>1 DEF Id
      <4>2. CASE WriteNewline(i[1])
        BY <1>1, <1>2, <3>3, <4>2 DEF WriteNewline
      <4>3. CASE WriteFails(i[1])
        <5>1. ~Alive(g) /\ partial' = partial
          BY <3>3, <4>3 DEF WriteFails, pipeVars
        <5> QED
          BY <2>1, <5>1 DEF MergeInv
      <4> QED
        BY <3>1, <3>3, <4>1, <4>2, <4>3, NewlineMoves
    <3> QED
      BY <2>1, <3>2, <3>3 DEF MergeInv
  <2>2. CASE i \notin partial[g]
    <3>1. PICK c \in Callers : WriteBody(c)
      BY <1>1, <1>2, <2>2, PipeCases
         DEF pipeVars, WriteNewline, Die, ReadLine, Answer, Dispatch
    <3>2. i = Id(c) /\ g = sentTo[c] /\ pc'[c] = "newline" /\ sentTo' = sentTo /\ try' = try
      BY <1>1, <1>2, <2>2, <3>1 DEF WriteBody, Goto
    <3>3. i[1] = c
      BY <3>2 DEF Id
    <3> QED
      BY <3>2, <3>3 DEF Id
  <2> QED
    BY <2>1, <2>2
<1>3. ASSUME NEW g \in Gens PROVE Alive(g)' \/ partial'[g] = {}
  BY <1>1, ProcMoves DEF ProcMove, MergeInv, Alive
<1>4. ASSUME NEW c \in Callers, pc'[c] = "newline", Alive(sentTo[c])'
      PROVE  Id(c)' \in partial'[sentTo'[c]]
  <2>1. CASE WriteBody(c)
    <3>1. sentTo[c] \in Gens /\ sentTo' = sentTo /\ try' = try
      BY <1>1, <2>1 DEF WriteBody, IInv, WorkerInv
    <3> QED
      BY <1>1, <2>1, <3>1 DEF WriteBody, Id
  <2>2. CASE pc[c] = "newline" /\ UNCHANGED <<sentTo[c], try[c]>>
    <3> DEFINE g == sentTo[c]
    <3>1. g \in Gens /\ g = worker
      BY <1>1, <2>2 DEF IInv, WorkerInv
    <3>2. Alive(g)
      <4>1. proc[g] # "none"
        <5>1. g = spawned /\ spawned \in Nat
          BY <1>1, <3>1 DEF DeathInv, IInv, TypeOK, TaskTypes, Gens
        <5> QED
          BY <3>1, <5>1 DEF DeathInv
      <4>2. proc'[g] # "dead" /\ ProcMove(g)
        BY <1>4, <2>2, <3>1, ProcMoves DEF Alive
      <4> QED
        BY <2>2, <1>4, <4>1, <4>2 DEF ProcMove, Alive
    <3>3. Id(c) \in partial[g] /\ Id(c)' = Id(c) /\ sentTo'[c] = g
      BY <2>2, <3>2 DEF MergeInv, Id
    <3>4. ASSUME NEW d \in Callers, WriteNewline(d) PROVE FALSE
      <4>1. d = c
        BY <2>2, <3>4, OneWriter DEF WriteNewline
      <4> QED
        BY <1>1, <1>4, <3>4, <4>1 DEF WriteNewline, Goto
    <3>5. ASSUME NEW d \in Callers, WriteBody(d) PROVE partial[g] \subseteq partial'[g]
      BY <1>1, <3>5 DEF WriteBody
    <3>6. ASSUME NEW h, Die(h) PROVE partial'[g] = partial[g]
      BY <1>4, <2>2, <3>1, <3>6 DEF Die, Alive
    <3>7. ASSUME NEW h \in Gens, ReadLine(h) \/ Answer(h) \/ Dispatch(h) PROVE partial' = partial
      BY <3>7 DEF ReadLine, Answer, Dispatch
    <3> QED
      BY <3>3, <3>4, <3>5, <3>6, <3>7, PipeCases DEF pipeVars
  <2> QED
    BY <1>4, <2>1, <2>2, NewlineMoves
<1>5. ASSUME NEW g \in Gens, NEW line \in Lines(stdin'[g]), Cardinality(line) # 1
      PROVE  \E c \in Callers, k \in {1, 2} : <<c, k>> \in line /\ pc'[c] = "gone"
  <2>1. CASE line \in Lines(stdin[g])
    <3>1. PICK n \in 1..Len(stdin[g]) : line = stdin[g][n]
      BY <2>1 DEF Lines
    <3>2. PICK c \in Callers, k \in {1, 2} : <<c, k>> \in line /\ pc[c] = "gone"
      BY <1>5, <3>1 DEF MergeInv, MergedOnlyAfterDisconnect
    <3> QED
      BY <3>2, PcGrows DEF Ended, IInv, TypeOK
  <2>2. CASE line \notin Lines(stdin[g])
    <3>1. ASSUME NEW h, Die(h) PROVE FALSE
      BY <1>5, <2>2, <3>1, LinesOfEmpty DEF Die
    <3>2. ASSUME NEW h \in Gens, ReadLine(h) PROVE FALSE
      <4>1. Lines(Tail(stdin[h])) \subseteq Lines(stdin[h])
        BY <1>1, <3>2, LinesOfTail DEF ReadLine
      <4> QED
        BY <1>1, <1>5, <2>2, <3>2, <4>1 DEF ReadLine
    <3>3. ASSUME NEW h \in Gens, Answer(h) \/ Dispatch(h) PROVE FALSE
      BY <1>5, <2>2, <3>3 DEF Answer, Dispatch
    <3>4. ASSUME NEW d \in Callers, WriteBody(d) PROVE FALSE
      BY <1>5, <2>2, <3>4 DEF WriteBody
    <3>5. PICK c \in Callers : WriteNewline(c)
      BY <1>5, <2>2, <3>1, <3>2, <3>3, <3>4, PipeCases DEF pipeVars
    <3>6. g = sentTo[c] /\ line = partial[g] /\ pc[c] = "newline"
      <4>1. Lines(Append(stdin[g], partial[g])) \subseteq Lines(stdin[g]) \cup {partial[g]}
        BY <1>1, LinesOfAppend
      <4> QED
        BY <1>1, <1>5, <2>2, <3>5, <4>1 DEF WriteNewline
    <3>7. Id(c) \in line
      BY <3>5, <3>6 DEF MergeInv, WriteNewline
    <3>8. PICK i \in line : i # Id(c)
      <4>1. line # {Id(c)}
        BY <1>5, FS_Singleton
      <4> QED
        BY <3>7, <4>1
    <3>9. PICK d \in Callers, k \in {1, 2} : i = <<d, k>>
      BY <1>1, <3>6 DEF Ids
    <3>10. pc[d] # "newline" \/ i # Id(d)
      BY <3>6, <3>8, OneWriter
    <3>11. pc[d] = "gone"
      BY <3>6, <3>9, <3>10 DEF MergeInv
    <3> QED
      BY <3>9, <3>11, PcGrows DEF Ended, IInv, TypeOK
  <2> QED
    BY <2>1, <2>2
<1>6. MergedOnlyAfterDisconnect'
  BY <1>5 DEF MergedOnlyAfterDisconnect, Lines
<1> QED
  BY <1>2, <1>3, <1>4, <1>6 DEF MergeInv

-----------------------------------------------------------------------------
(* A crash is reported only after two deaths. *)

(* If no worker is left after the first, two are dead. *)
LEMMA AllDead ==
    ASSUME IInv, DeathInv, spawned > 1,
           worker = 0 \/ (worker = spawned /\ ~Alive(worker))
    PROVE  TwoDead
<1>1. spawned \in Gens /\ 1 \in Gens /\ proc \in [Gens -> ProcStates]
  BY BoundsAssumption DEF IInv, TypeOK, TaskTypes, ProcessTypes, Gens
<1>2. proc[1] # "none" /\ proc[spawned] # "none"
  BY <1>1 DEF DeathInv, Gens
<1>3. ~Alive(1) /\ ~Alive(spawned)
  BY <1>1 DEF IInv, WorkerInv, NoOrphanProcess, Gens
<1>4. proc[1] = "dead" /\ proc[spawned] = "dead"
  BY <1>1, <1>2, <1>3 DEF Alive, ProcStates
<1> QED
  BY <1>1, <1>4 DEF TwoDead, Gens

(* The worker in the mutex is taken out of it, or the next one is started. *)
LEMMA WorkerMoves ==
    ASSUME IInv, [Next]_vars
    PROVE  \/ UNCHANGED <<worker, spawned>>
           \/ worker' = 0 /\ spawned' = spawned
           \/ /\ worker = 0 /\ worker' = spawned + 1 /\ spawned' = spawned + 1
              /\ spawned + 1 \in Gens /\ proc'[spawned + 1] = "init"
<1> DEFINE Goal == \/ UNCHANGED <<worker, spawned>>
                   \/ worker' = 0 /\ spawned' = spawned
                   \/ /\ worker = 0 /\ worker' = spawned + 1 /\ spawned' = spawned + 1
                      /\ spawned + 1 \in Gens /\ proc'[spawned + 1] = "init"
<1>1. ASSUME NEW c \in Callers, NEW next, EnsureWorker(c, next) PROVE Goal
  <2>1. CASE UNCHANGED <<spawned, worker, proc, reader>>
    BY <2>1
  <2>2. CASE worker = 0 /\ Spawn
    <3>1. proc \in [Gens -> ProcStates] /\ spawned + 1 \in Gens
      BY <2>2, BoundsAssumption DEF Spawn, Gens, IInv, TypeOK, TaskTypes, ProcessTypes
    <3> QED
      BY <2>2, <3>1 DEF Spawn
  <2> QED
    BY <1>1, <2>1, <2>2 DEF EnsureWorker
<1>2. ASSUME NEW c \in Callers,
             \/ StartCall(c) \/ ServeWithoutIpc(c) \/ InsertPending(c) \/ LockStdin(c)
             \/ LockFindsNoWorker(c) \/ WriteBody(c) \/ WriteNewline(c) \/ WriteFails(c)
             \/ Receive(c) \/ Timeout(c) \/ CallTakesWorker(c) \/ CallFinishesTeardown(c)
             \/ Disconnect(c) \/ DropClone(c)
      PROVE  Goal
  BY <1>2 DEF StartCall, ServeWithoutIpc, InsertPending, LockStdin, LockFindsNoWorker, WriteBody,
       WriteNewline, WriteFails, Receive, Timeout, CallTakesWorker, TakeWorker,
       CallFinishesTeardown, Disconnect, DropClone, mutexVars, countVars
<1>3. ASSUME NEW c \in Callers, CallEnsuresWorker(c) \/ CallRestartsWorker(c) PROVE Goal
  BY <1>1, <1>3 DEF CallEnsuresWorker, CallRestartsWorker
<1>4. ASSUME NEW g \in Gens, Read(g) \/ WorkerReady(g) \/ ReadLine(g) \/ Answer(g) \/ Crash(g)
      PROVE  Goal
  BY <1>4 DEF Read, Dispatch, ReaderSeesEof, ReaderTakesWorker, TakeWorker,
       ReaderFinishesTeardown, ReaderStops, WorkerReady, ReadLine, Answer, Crash, mutexVars,
       countVars
<1>5. ASSUME Drop \/ Quiescent \/ UNCHANGED vars PROVE Goal
  BY <1>5 DEF Drop, DropTakesWorker, TakeWorker, DropFinishesTeardown, Quiescent, vars, mutexVars,
       countVars
<1> HIDE DEF Goal
<1>6. Goal
  BY <1>2, <1>3, <1>4, <1>5 DEF Next, Call
<1> QED
  BY <1>6 DEF Goal

(* A call is in a teardown from the step that takes the worker. *)
LEMMA TeardownMoves ==
    ASSUME IInv, [Next]_vars, NEW c \in Callers, pc'[c] \in {"kill", "restart"}
    PROVE  pc[c] \in {"kill", "restart"} \/ CallTakesWorker(c)
<1> USE DEF Goto, IInv, TypeOK, CallerTypes
<1>1. ASSUME NEW d \in Callers, Request(d), d # c PROVE pc'[c] = pc[c]
  BY <1>1, RequestMoves
<1>2. ASSUME Request(c), ~CallTakesWorker(c) PROVE pc[c] \in {"kill", "restart"}
  <2>1. CASE \/ StartCall(c) \/ ServeWithoutIpc(c) \/ InsertPending(c) \/ LockStdin(c)
             \/ WriteBody(c) \/ WriteNewline(c) \/ CallFinishesTeardown(c) \/ Disconnect(c)
    BY <2>1 DEF StartCall, ServeWithoutIpc, InsertPending, LockStdin, WriteBody, WriteNewline,
         CallFinishesTeardown, Disconnect
  <2>2. CASE LockFindsNoWorker(c) \/ WriteFails(c) \/ Receive(c) \/ Timeout(c)
    BY <2>2 DEF LockFindsNoWorker, WriteFails, Receive, Timeout, Settle
  <2>3. CASE CallEnsuresWorker(c) \/ CallRestartsWorker(c)
    BY <2>3 DEF CallEnsuresWorker, CallRestartsWorker, EnsureWorker
  <2> QED
    BY <1>2, <2>1, <2>2, <2>3 DEF Request, Call
<1> QED
  BY <1>1, <1>2, OtherSteps

LEMMA DeathStep ==
    ASSUME IInv, AnswerInv, DeathInv, [Next]_vars
    PROVE  DeathInv'
<1>1. /\ spawned \in Nat \ {0} /\ worker \in Gens \cup {0} /\ proc \in [Gens -> ProcStates]
      /\ try \in [Callers -> {1, 2}] /\ pc \in [Callers -> CallerPCs]
  BY DEF IInv, TypeOK, TaskTypes, ProcessTypes, CallerTypes, Gens
<1>2. TwoDead => TwoDead'
  BY ProcMoves DEF TwoDead, ProcMove
<1>3. worker' \in {0, spawned'}
  BY <1>1, WorkerMoves DEF DeathInv
<1>4. ASSUME NEW g \in Gens, g <= spawned' PROVE proc'[g] # "none"
  <2>1. CASE g <= spawned
    BY <2>1, ProcMoves DEF DeathInv, ProcMove
  <2>2. CASE ~(g <= spawned)
    <3>1. g \in Nat
      BY DEF Gens
    <3>2. g = spawned + 1 /\ proc'[spawned + 1] = "init"
      BY <1>1, <1>4, <2>2, <3>1, WorkerMoves
    <3> QED
      BY <3>2
  <2> QED
    BY <2>1, <2>2
<1>5. spawned > 1 => spawned' > 1
  BY <1>1, WorkerMoves
<1>6. (worker = 0 \/ spawned > 1) => (worker' = 0 \/ spawned' > 1)
  BY <1>1, WorkerMoves
<1>7. ASSUME NEW c \in Callers, pc'[c] \in {"kill", "restart"} PROVE worker' = 0 \/ spawned' > 1
  <2>1. CASE pc[c] \in {"kill", "restart"}
    BY <1>6, <2>1 DEF DeathInv
  <2>2. CASE CallTakesWorker(c)
    BY <2>2 DEF CallTakesWorker, TakeWorker
  <2> QED
    BY <1>7, <2>1, <2>2, TeardownMoves
<1>8. ASSUME NEW c \in Callers, try'[c] = 2 PROVE spawned' > 1
  <2>1. CASE try[c] = 2
    BY <1>5, <2>1 DEF DeathInv
  <2>2. CASE CallRestartsWorker(c) /\ try[c] # 2
    <3>1. pc[c] = "restart" /\ EnsureWorker(c, "ensure") /\ pc'[c] = "ensure"
      BY <1>1, <1>8, <2>2 DEF CallRestartsWorker
    <3>2. worker # 0 \/ spawned' = spawned + 1
      BY <1>1, <3>1 DEF EnsureWorker, Spawn, Goto
    <3>3. worker = 0 \/ spawned > 1
      BY <3>1 DEF DeathInv
    <3> QED
      BY <1>1, <1>5, <3>2, <3>3
  <2> QED
    BY <1>8, <2>1, <2>2, RequestEnds, OtherSteps DEF RequestEnd
<1>9. ASSUME NEW c \in Callers, slot'[c] = "crashed", try'[c] = 2 PROVE TwoDead'
  <2>1. CASE slot[c] = "crashed" /\ try[c] = 2
    BY <1>2, <2>1 DEF DeathInv
  <2>2. CASE worker = 0 /\ UNCHANGED <<proc, spawned, try>>
    <3>1. spawned > 1
      BY <1>9, <2>2 DEF DeathInv
    <3> QED
      BY <1>2, <2>2, <3>1, AllDead
  <2>3. ASSUME NEW g \in Gens, Dispatch(g), slot'[c] = Head(stdout[g]).kind PROVE FALSE
    <3>1. Head(stdout[g]).kind \in AnswerKinds \cup {"bad"}
      BY <2>3, AnswerIsAValue DEF Dispatch, IInv, TypeOK
    <3> QED
      BY <1>9, <2>3, <3>1 DEF AnswerKinds
  <2> QED
    BY <1>9, <2>1, <2>2, <2>3, SlotMoves DEF SlotMove
<1>10. ASSUME NEW c \in Callers, NEW r \in Outcomes, EndsWith(c, r), r \in {"crashed", "write"}
       PROVE  TwoDead'
  <2>1. try[c] = 2 /\ spawned > 1
    BY <1>10 DEF EndsWith, DeathInv
  <2>2. CASE r = slot[c] /\ slot[c] # "empty"
    <3>1. slot[c] = "crashed"
      BY <1>10, <2>2 DEF IInv, TypeOK, TaskTypes, SlotValues, AnswerKinds
    <3> QED
      BY <1>2, <2>1, <3>1 DEF DeathInv
  <2>3. CASE worker = 0
    BY <1>2, <2>1, <2>3, AllDead
  <2>4. CASE ~Alive(sentTo[c]) /\ pc[c] \in {"body", "newline"}
    <3>1. worker = sentTo[c] /\ worker = spawned
      BY <2>4 DEF IInv, WorkerInv, DeathInv
    <3> QED
      BY <1>2, <2>1, <2>4, <3>1, AllDead
  <2> QED
    BY <1>10, <2>2, <2>3, <2>4 DEF EndsWith
<1>11. ASSUME NEW c \in Callers, outcome'[c] \in {"crashed", "write"} PROVE TwoDead'
  <2>1. CASE outcome'[c] = outcome[c]
    BY <1>2, <1>11, <2>1 DEF DeathInv, CrashErrorNeedsTwoDeaths, TwoDead
  <2>2. CASE outcome'[c] # outcome[c]
    <3>1. PICK r \in Outcomes : EndsWith(c, r)
      BY <2>2, RequestEnds, OtherSteps DEF RequestEnd
    <3> QED
      BY <1>10, <1>11, <3>1 DEF EndsWith
  <2> QED
    BY <2>1, <2>2
<1>12. CrashErrorNeedsTwoDeaths'
  BY <1>11 DEF CrashErrorNeedsTwoDeaths, TwoDead
<1> QED
  BY <1>3, <1>4, <1>7, <1>8, <1>9, <1>12 DEF DeathInv

-----------------------------------------------------------------------------
(* The theorems. *)

(* Nothing was written, answered or killed in the initial state. *)
LEMMA InitEstablishesAll == Init => JInv
<1> SUFFICES ASSUME Init PROVE JInv
  OBVIOUS
<1> USE DEF Init, Gens
<1>1. IInv
  BY InitEstablishes
<1>2. LineInv
  BY FS_EmptySet, LinesOfEmpty DEF LineInv, Begun
<1>3. AnswerInv
  BY LinesOfEmpty DEF AnswerInv, AnswerKinds
<1>4. MergeInv
  BY DEF MergeInv, MergedOnlyAfterDisconnect
<1>5. DeathInv
  BY BoundsAssumption DEF DeathInv, CrashErrorNeedsTwoDeaths
<1> QED
  BY <1>1, <1>2, <1>3, <1>4, <1>5 DEF JInv

(* JInv holds in every reachable state. *)
THEOREM FullInvariant == Spec => []JInv
<1>1. JInv /\ [Next]_vars => JInv'
  BY StepPreserves, LineStep, AnswerStep, MergeStep, DeathStep DEF JInv
<1> QED
  BY <1>1, InitEstablishesAll, PTL DEF Spec

(* A line of more than one request was started by a request that was       *)
(* cancelled between its body and its newline.                             *)
THEOREM MergedOnlyAfterDisconnectHolds == Spec => []MergedOnlyAfterDisconnect
<1>1. JInv => MergedOnlyAfterDisconnect
  BY DEF JInv, MergeInv
<1> QED
  BY <1>1, FullInvariant, PTL

(* A crash is reported to a client only after two workers have died, for   *)
(* any number of callers, workers and teardowns.                           *)
THEOREM CrashErrorNeedsTwoDeathsHolds == Spec => []CrashErrorNeedsTwoDeaths
<1>1. JInv => CrashErrorNeedsTwoDeaths
  BY DEF JInv, DeathInv
<1> QED
  BY <1>1, FullInvariant, PTL

(* No call is answered with anything but the answer to a request that some *)
(* worker handled for it, each ends once, and each attempt runs once.      *)
THEOREM ImplementsContractHolds == Spec => ImplementsContract
<1>1. Init => Contract!Init
  BY DEF Init, Contract!Init, Status, Runs
<1>2. JInv /\ [Next]_vars => [Contract!Next]_(Contract!vars)
  <2> SUFFICES ASSUME JInv, [Next]_vars PROVE [Contract!Next]_(Contract!vars)
    OBVIOUS
  <2>1. ASSUME NEW c \in Callers, Request(c) PROVE [Contract!Next]_(Contract!vars)
    <3>1. handled' = handled
      BY <2>1 DEF Request, Call, StartCall, ServeWithoutIpc, CallEnsuresWorker, InsertPending,
           LockStdin, LockFindsNoWorker, WriteBody, WriteNewline, WriteFails, Receive, Timeout,
           CallTakesWorker, CallFinishesTeardown, CallRestartsWorker, Disconnect, EnsureWorker,
           pipeVars
    <3> QED
      BY <2>1, <3>1, RequestRefines DEF JInv
  <2>2. ASSUME NEW g \in Gens, ReadLine(g) PROVE [Contract!Next]_(Contract!vars)
    BY <2>2, ReadLineRefines DEF JInv
  <2>3. CASE (\A c \in Callers : ~Request(c)) /\ \A g \in Gens : ~ReadLine(g)
    <3>1. UNCHANGED <<pc, outcome>>
      BY <2>3, OtherSteps
    <3>2. ASSUME NEW c \in Callers, WriteBody(c) \/ WriteNewline(c) PROVE FALSE
      BY <2>3, <3>2 DEF Request, Call
    <3>3. handled' = handled
      BY <2>3, <3>2, PipeCases DEF pipeVars, Answer, Dispatch
    <3> QED
      BY <3>1, <3>3, NothingMoves
  <2> QED
    BY <2>1, <2>2, <2>3
<1> QED
  BY <1>1, <1>2, FullInvariant, PTL DEF Spec, ImplementsContract, Contract!Spec
=============================================================================
