------------------------ MODULE AuthorityLockProofs ------------------------
(***************************************************************************)
(* Proofs about AuthorityLock, for any set of requests, wallets, position  *)
(* slots and handlers.  The argument: pending sections hold distinct       *)
(* places of the promise chain and the one inside is the first, so there   *)
(* is at most one; it found the server's authority, because nobody was     *)
(* inside before it, and it puts back what it found.                       *)
(***************************************************************************)
EXTENDS AuthorityLock, FiniteSetTheorems, TLAPS

USE LockAssumption

(* Membership in the sections of one step, in the form the provers use. *)
LEMMA InLanes ==
    ASSUME NEW s \in Sections, NEW r, NEW lanes
    PROVE  /\ s \in {r} \X lanes <=> s[1] = r /\ s[2] \in lanes
           /\ s[1] \in Requests /\ s[2] \in Slots
           /\ s \in Own(r) <=> s[1] = r
BY DEF Sections, Own

(* Two sections of the same request in the same slot are the same. *)
LEMMA SectionExt ==
    ASSUME NEW s \in Sections, NEW t \in Sections, s[1] = t[1], s[2] = t[2]
    PROVE  s = t
BY DEF Sections

(* Places are distinct and below the number of lanes. *)
LEMMA Places ==
    ASSUME NEW lanes, lanes \subseteq Slots, NEW k \in lanes
    PROVE  /\ Place(lanes, k) \in Nat /\ Cardinality(lanes) \in Nat
           /\ Place(lanes, k) < Cardinality(lanes)
           /\ \A l \in lanes : k < l => Place(lanes, k) < Place(lanes, l)
PROOF
<1> DEFINE Below(l) == {j \in lanes : j < l}
<1>0. \A j \in lanes : j \in Nat
  OBVIOUS
<1>1. IsFiniteSet(lanes)
  BY FS_Subset
<1>2. /\ Below(k) \subseteq lanes /\ k \notin Below(k)
  BY <1>0
<1>3. /\ IsFiniteSet(Below(k)) /\ Cardinality(Below(k)) \in Nat
      /\ Cardinality(lanes) \in Nat
  BY <1>1, <1>2, FS_Subset, FS_CardinalityType
<1>4. Cardinality(Below(k)) < Cardinality(lanes)
  BY <1>1, <1>2, <1>3, FS_Subset
<1>5. ASSUME NEW l \in lanes, k < l PROVE Cardinality(Below(k)) < Cardinality(Below(l))
  <2>0. \A j \in lanes : j < k => j < l
    <3>1. k \in Nat /\ l \in Nat
      BY <1>0
    <3> QED BY <1>0, <1>5, <3>1
  <2>1. /\ Below(k) \subseteq Below(l) /\ k \in Below(l) /\ Below(l) \subseteq lanes
    BY <1>5, <2>0
  <2>2. IsFiniteSet(Below(l)) /\ Cardinality(Below(l)) \in Nat
    BY <1>1, <2>1, FS_Subset, FS_CardinalityType
  <2> QED BY <2>1, <2>2, <1>2, <1>3, FS_Subset
<1> QED BY <1>3, <1>4, <1>5 DEF Place

(* Steps that leave the promise chain and the authority alone. *)
Quiet(r) == Dispatch(r) \/ FetchUserAccount(r) \/ LookUpTokenAccount(r)
            \/ PeekMargin(r) \/ BuildTransaction(r) \/ RpcFails(r) \/ NothingToProbe(r)
Resume(r) == Continue(r) \/ CatchOrReject(r)

LEMMA QuietLeaves ==
    ASSUME NEW r \in Requests, Quiet(r)
    PROVE  UNCHANGED <<kind, wallet, lockVars, authority, users, chain, tx>>
BY DEF Quiet, Dispatch, FetchUserAccount, LookUpTokenAccount, PeekMargin,
       BuildTransaction, RpcFails, NothingToProbe, dataVars

LEMMA ResumeLeaves ==
    ASSUME NEW r \in Requests, Resume(r)
    PROVE  /\ Forget(r) /\ status[r] = "running"
           /\ UNCHANGED <<kind, wallet, fetched, read, tx, ticket, saved, issued,
                          served, authority, users, chain>>
BY DEF Resume, Continue, CatchOrReject, UntouchedByHandler, dataVars

(* Queueing is for the handler at a locked step, and only out of `none'. *)
LEMMA AppendLeaves ==
    ASSUME NEW r \in Requests, AppendToChain(r)
    PROVE  /\ \A s \in Sections :
                 \/ phase'[s] = phase[s]
                 \/ /\ s[1] = r /\ phase[s] = "none" /\ phase'[s] = "queued"
                    /\ s[2] = 1 \/ Head(rest[r]) = "probe"
           /\ status[r] = "running" /\ rest[r] # <<>> /\ Head(rest[r]) \in LockedSteps
           /\ UNCHANGED <<status, rest, authority, saved, kind, wallet>>
PROOF
<1>1. PICK step, lanes :
        /\ step \in LockedSteps /\ lanes \in Lanes(r, step) /\ At(r, step)
        /\ \A s \in Own(r) : phase[s] = "none"
        /\ phase' = [s \in Sections |-> IF s \in {r} \X lanes THEN "queued" ELSE phase[s]]
        /\ UNCHANGED <<status, rest, authority, saved, kind, wallet>>
  BY DEF AppendToChain, requestVars
<1>2. step = "probe" \/ lanes = {1}
  BY <1>1 DEF Lanes
<1>3. ASSUME NEW s \in Sections, s \in {r} \X lanes
      PROVE  s[1] = r /\ phase[s] = "none" /\ (s[2] = 1 \/ step = "probe")
  BY <1>1, <1>2, <1>3, InLanes
<1> QED BY <1>1, <1>3 DEF At

(* Next as the cases the proofs below distinguish. *)
LEMMA NextCases ==
    ASSUME [Next]_vars
    PROVE  \/ \E r \in Requests : Quiet(r)
           \/ \E r \in Requests : Resume(r)
           \/ \E r \in Requests : AppendToChain(r)
           \/ \E s \in Sections : EnterLock(s)
           \/ \E s \in Sections : FinishSection(s)
           \/ \E s \in Sections : ThrowSection(s)
           \/ \E w \in Wallets : ChainMoves(w)
           \/ UNCHANGED vars
BY DEF Next, HandlerStep, SectionStep, Quiet, Resume, Quiescent

-----------------------------------------------------------------------------
(* The promise chain. *)

LEMMA TicketStep ==
    ASSUME TypeOK, TicketInv, [Next]_vars
    PROVE  TicketInv'
PROOF
<1> DEFINE ChainOnly == <<phase, ticket, issued, served>>
<1>0. ASSUME UNCHANGED ChainOnly PROVE TicketInv'
  BY <1>0 DEF TicketInv, Pending
<1>1. ASSUME NEW r \in Requests, Quiet(r) PROVE TicketInv'
  BY <1>1, <1>0, QuietLeaves DEF lockVars
<1>2. ASSUME NEW r \in Requests, Resume(r) PROVE TicketInv'
  <2>1. /\ \A s \in Sections : phase'[s] = phase[s] \/ phase'[s] = "none"
        /\ UNCHANGED <<ticket, issued, served>>
    BY <1>2, ResumeLeaves DEF Forget
  <2> QED BY <2>1 DEF TicketInv, Pending
<1>3. ASSUME NEW r \in Requests, AppendToChain(r) PROVE TicketInv'
  <2>1. PICK step, lanes :
          /\ step \in LockedSteps /\ lanes \in Lanes(r, step)
          /\ \A s \in Own(r) : phase[s] = "none"
          /\ phase' = [s \in Sections |-> IF s \in {r} \X lanes THEN "queued" ELSE phase[s]]
          /\ ticket' = [s \in Sections |-> IF s \in {r} \X lanes
                           THEN issued + Place(lanes, s[2])
                           ELSE ticket[s]]
          /\ issued' = issued + Cardinality(lanes)
          /\ served' = served
          /\ lanes # {}
    BY <1>3 DEF AppendToChain
  <2>2. lanes \subseteq Slots
    BY <2>1 DEF Lanes
  <2>3. issued \in Nat /\ served \in Nat /\ Cardinality(lanes) \in Nat
    BY <2>1, <2>2, Places DEF TypeOK
  <2>4. ASSUME NEW s \in Sections, s \in {r} \X lanes
        PROVE  /\ phase'[s] = "queued" /\ ticket'[s] \in Nat
               /\ issued <= ticket'[s] /\ ticket'[s] < issued'
               /\ ticket'[s] = issued + Place(lanes, s[2])
               /\ s[1] = r /\ s[2] \in lanes
    <3>1. s[1] = r /\ s[2] \in lanes
      BY <2>4, InLanes
    <3>2. Place(lanes, s[2]) \in Nat /\ Place(lanes, s[2]) < Cardinality(lanes)
      BY <2>2, <3>1, Places
    <3>3. phase'[s] = "queued" /\ ticket'[s] = issued + Place(lanes, s[2])
      BY <2>1, <2>4
    <3> QED BY <2>1, <2>3, <3>1, <3>2, <3>3
  <2>5. ASSUME NEW s \in Sections, s \notin {r} \X lanes
        PROVE  phase'[s] = phase[s] /\ ticket'[s] = ticket[s]
    BY <2>1, <2>5
  <2>6. ASSUME NEW s \in Sections, NEW t \in Sections, s # t,
               s \in {r} \X lanes, t \in {r} \X lanes
        PROVE  ticket'[s] # ticket'[t]
    <3>1. s[2] # t[2] /\ s[2] \in Nat /\ t[2] \in Nat
      BY <2>2, <2>4, <2>6, SectionExt
    <3>2. /\ s[2] \in lanes /\ ticket'[s] = issued + Place(lanes, s[2])
          /\ t[2] \in lanes /\ ticket'[t] = issued + Place(lanes, t[2])
      BY <2>4, <2>6
    <3>3. Place(lanes, s[2]) \in Nat /\ Place(lanes, t[2]) \in Nat
      BY <2>2, <3>2, Places
    <3>4. CASE s[2] < t[2]
      <4>1. Place(lanes, s[2]) < Place(lanes, t[2])
        BY <2>2, <3>2, <3>4, Places
      <4> QED BY <4>1, <2>3, <3>2, <3>3
    <3>5. CASE t[2] < s[2]
      <4>1. Place(lanes, t[2]) < Place(lanes, s[2])
        BY <2>2, <3>2, <3>5, Places
      <4> QED BY <4>1, <2>3, <3>2, <3>3
    <3> QED BY <3>1, <3>4, <3>5
  <2>7. \A s \in Sections : ticket[s] \in Nat
    BY DEF TypeOK
  <2>8. \A s \in Sections : Pending(s)' => served <= ticket'[s] /\ ticket'[s] < issued'
    <3>1. ASSUME NEW s \in Sections, Pending(s)'
          PROVE served <= ticket'[s] /\ ticket'[s] < issued'
      <4>1. CASE s \in {r} \X lanes
        BY <4>1, <2>1, <2>3, <2>4 DEF TicketInv
      <4>2. CASE s \notin {r} \X lanes
        BY <4>2, <3>1, <2>1, <2>3, <2>5, <2>7 DEF TicketInv, Pending
      <4> QED BY <4>1, <4>2
    <3> QED BY <3>1
  <2>9. \A s, t \in Sections : Pending(s)' /\ Pending(t)' /\ s # t => ticket'[s] # ticket'[t]
    <3>1. ASSUME NEW s \in Sections, NEW t \in Sections, Pending(s)', Pending(t)', s # t
          PROVE ticket'[s] # ticket'[t]
      <4>1. CASE s \in {r} \X lanes /\ t \in {r} \X lanes
        BY <4>1, <3>1, <2>6
      <4>2. CASE s \in {r} \X lanes /\ t \notin {r} \X lanes
        <5>1. Pending(t) /\ ticket'[t] = ticket[t] /\ ticket[t] \in Nat
          BY <4>2, <3>1, <2>5, <2>7 DEF Pending
        <5>2. ticket[t] < issued
          BY <5>1 DEF TicketInv
        <5> QED BY <4>2, <5>1, <5>2, <2>3, <2>4
      <4>3. CASE s \notin {r} \X lanes /\ t \in {r} \X lanes
        <5>1. Pending(s) /\ ticket'[s] = ticket[s] /\ ticket[s] \in Nat
          BY <4>3, <3>1, <2>5, <2>7 DEF Pending
        <5>2. ticket[s] < issued
          BY <5>1 DEF TicketInv
        <5> QED BY <4>3, <5>1, <5>2, <2>3, <2>4
      <4>4. CASE s \notin {r} \X lanes /\ t \notin {r} \X lanes
        BY <4>4, <3>1, <2>5 DEF TicketInv, Pending
      <4> QED BY <4>1, <4>2, <4>3, <4>4
    <3> QED BY <3>1
  <2>10. \A s \in Sections : phase'[s] = "inside" => ticket'[s] = served'
    BY <2>1, <2>4, <2>5 DEF TicketInv
  <2>11. served' <= issued'
    BY <2>1, <2>3 DEF TicketInv
  <2> QED BY <2>1, <2>8, <2>9, <2>10, <2>11 DEF TicketInv, Pending
<1>4. ASSUME NEW s \in Sections, EnterLock(s) PROVE TicketInv'
  <2>1. /\ phase[s] = "queued" /\ ticket[s] = served
        /\ phase' = [phase EXCEPT ![s] = "inside"]
        /\ UNCHANGED <<ticket, issued, served>>
    BY <1>4 DEF EnterLock
  <2> QED BY <2>1 DEF TicketInv, Pending, TypeOK
<1>5. ASSUME NEW s \in Sections, NEW how \in {"returned", "threw"},
             phase[s] = "inside", LeaveLock(s, how)
      PROVE  TicketInv'
  <2>1. /\ phase' = [phase EXCEPT ![s] = how]
        /\ ticket' = [ticket EXCEPT ![s] = 0]
        /\ served' = served + 1 /\ issued' = issued
    BY <1>5 DEF LeaveLock
  <2>2. /\ Pending(s) /\ ticket[s] = served /\ served < issued
        /\ served \in Nat /\ issued \in Nat
    BY <1>5 DEF TicketInv, Pending, TypeOK
  <2>3. ASSUME NEW t \in Sections, Pending(t)'
        PROVE  /\ t # s /\ Pending(t) /\ ticket'[t] = ticket[t] /\ phase'[t] = phase[t]
               /\ ticket[t] \in Nat /\ ticket[t] # served /\ phase[t] # "inside"
    BY <2>1, <2>2, <2>3 DEF TicketInv, Pending, TypeOK
  <2>4. ASSUME NEW t \in Sections, Pending(t)'
        PROVE served' <= ticket'[t] /\ ticket'[t] < issued'
    BY <2>1, <2>2, <2>3, <2>4 DEF TicketInv
  <2>5. ASSUME NEW t \in Sections, NEW u \in Sections, Pending(t)', Pending(u)', t # u
        PROVE ticket'[t] # ticket'[u]
    BY <2>3, <2>5 DEF TicketInv
  <2>6. ASSUME NEW t \in Sections PROVE phase'[t] # "inside"
    BY <2>3 DEF Pending
  <2>7. served' <= issued'
    BY <2>1, <2>2
  <2> QED BY <2>4, <2>5, <2>6, <2>7 DEF TicketInv, Pending
<1>6. ASSUME NEW s \in Sections, FinishSection(s) PROVE TicketInv'
  BY <1>5, <1>6 DEF FinishSection
<1>7. ASSUME NEW s \in Sections, ThrowSection(s) PROVE TicketInv'
  BY <1>5, <1>7 DEF ThrowSection
<1>8. ASSUME NEW w \in Wallets, ChainMoves(w) PROVE TicketInv'
  BY <1>0, <1>8 DEF ChainMoves, lockVars
<1>9. CASE UNCHANGED vars
  BY <1>0, <1>9 DEF vars, lockVars
<1> QED BY <1>1, <1>2, <1>3, <1>4, <1>6, <1>7, <1>8, <1>9, NextCases

-----------------------------------------------------------------------------
(* Who acts. *)

(* With distinct places there is room for one section inside. *)
LEMMA OneInside ==
    ASSUME TicketInv, NEW s \in Sections, NEW t \in Sections,
           phase[s] = "inside", phase[t] = "inside"
    PROVE  s = t
BY DEF TicketInv, Pending

LEMMA HolderStep ==
    ASSUME TypeOK, TicketInv, HolderInv, [Next]_vars
    PROVE  HolderInv'
PROOF
<1>0. ASSUME \A s \in Sections : phase'[s] = "inside" <=> phase[s] = "inside",
             UNCHANGED <<authority, saved, wallet>>
      PROVE  HolderInv'
  BY <1>0 DEF HolderInv, RestoredAtRest, Inside
<1>1. ASSUME NEW r \in Requests, Quiet(r) PROVE HolderInv'
  BY <1>1, <1>0, QuietLeaves DEF lockVars
<1>2. ASSUME NEW r \in Requests, Resume(r) PROVE HolderInv'
  BY <1>2, <1>0, ResumeLeaves DEF Forget
<1>3. ASSUME NEW r \in Requests, AppendToChain(r) PROVE HolderInv'
  BY <1>0, <1>3, AppendLeaves
<1>4. ASSUME NEW s \in Sections, EnterLock(s) PROVE HolderInv'
  <2>1. /\ phase[s] = "queued" /\ ticket[s] = served
        /\ phase' = [phase EXCEPT ![s] = "inside"]
        /\ saved' = [saved EXCEPT ![s] = authority]
        /\ authority' = wallet[s[1]] /\ wallet' = wallet
    BY <1>4 DEF EnterLock, requestVars
  <2>2. \A t \in Sections : phase[t] # "inside"
    BY <2>1 DEF TicketInv, Pending
  <2>3. authority = Server
    BY <2>2 DEF HolderInv, RestoredAtRest, Inside
  <2>4. /\ \A t \in Sections : phase'[t] = "inside" => t = s
        /\ s \in Inside' /\ saved'[s] = Server
    BY <2>1, <2>2, <2>3 DEF TypeOK, Inside
  <2> QED BY <2>1, <2>4 DEF HolderInv, RestoredAtRest
<1>5. ASSUME NEW s \in Sections, NEW how \in {"returned", "threw"},
             phase[s] = "inside", LeaveLock(s, how)
      PROVE  HolderInv'
  <2>1. /\ phase' = [phase EXCEPT ![s] = how] /\ authority' = saved[s]
    BY <1>5 DEF LeaveLock
  <2>2. saved[s] = Server
    BY <1>5 DEF HolderInv
  <2>3. \A t \in Sections : phase'[t] # "inside"
    BY <1>5, <2>1, OneInside DEF TypeOK
  <2> QED BY <2>1, <2>2, <2>3 DEF HolderInv, RestoredAtRest
<1>6. ASSUME NEW s \in Sections, FinishSection(s) PROVE HolderInv'
  BY <1>5, <1>6 DEF FinishSection
<1>7. ASSUME NEW s \in Sections, ThrowSection(s) PROVE HolderInv'
  BY <1>5, <1>7 DEF ThrowSection
<1>8. ASSUME NEW w \in Wallets, ChainMoves(w) PROVE HolderInv'
  BY <1>0, <1>8 DEF ChainMoves, lockVars, requestVars
<1>9. CASE UNCHANGED vars
  BY <1>0, <1>9 DEF vars, lockVars, requestVars
<1> QED BY <1>1, <1>2, <1>3, <1>4, <1>6, <1>7, <1>8, <1>9, NextCases

(* The work of the section inside is done under its request's wallet. *)
LEMMA WorkStep ==
    ASSUME TypeOK, TaskInv, HolderInv, NEW s \in Sections, phase[s] = "inside",
           Work(s[1], Task(s)), InstructionsForOwnWallet, LockedReadsOwnMargin,
           UNCHANGED <<kind, wallet>>
    PROVE  InstructionsForOwnWallet' /\ LockedReadsOwnMargin'
PROOF
<1>1. authority = wallet[s[1]] /\ s[1] \in Requests
  BY DEF HolderInv, Sections
<1>2. CASE InitUser(s[1])
  BY <1>1, <1>2 DEF InitUser, InstructionsForOwnWallet, LockedReadsOwnMargin, TypeOK
<1>3. CASE CacheUser(s[1])
  BY <1>1, <1>3 DEF CacheUser, InstructionsForOwnWallet, LockedReadsOwnMargin
<1>4. CASE ReadMargin(s[1])
  BY <1>1, <1>4 DEF ReadMargin, InstructionsForOwnWallet, LockedReadsOwnMargin, TypeOK
<1>5. CASE AddInstruction(s[1], Task(s))
  BY <1>1, <1>5 DEF AddInstruction, InstructionsForOwnWallet, LockedReadsOwnMargin, TypeOK
<1> QED BY <1>2, <1>3, <1>4, <1>5 DEF Work

LEMMA DataStep ==
    ASSUME TypeOK, TaskInv, HolderInv, PeekInv, InstructionsForOwnWallet,
           LockedReadsOwnMargin, [Next]_vars
    PROVE  InstructionsForOwnWallet' /\ LockedReadsOwnMargin'
PROOF
<1>0. ASSUME UNCHANGED <<kind, wallet, read, tx>>
      PROVE  InstructionsForOwnWallet' /\ LockedReadsOwnMargin'
  BY <1>0 DEF InstructionsForOwnWallet, LockedReadsOwnMargin
<1>1. ASSUME NEW r \in Requests, Quiet(r)
      PROVE  InstructionsForOwnWallet' /\ LockedReadsOwnMargin'
  <2>1. CASE PeekMargin(r)
    <3>1. kind[r] = "positions"
      <4>1. rest[r] # <<>> /\ rest[r] \in Seq(Steps) /\ rest[r][1] = "peek"
        BY <2>1 DEF PeekMargin, At, TypeOK
      <4>2. 1 \in 1..Len(rest[r])
        BY <4>1
      <4> QED BY <4>1, <4>2 DEF PeekInv
    <3>2. \A q \in Requests : q # r => read'[q] = read[q]
      BY <2>1 DEF PeekMargin, TypeOK
    <3> QED BY <1>1, <3>1, <3>2, QuietLeaves DEF InstructionsForOwnWallet, LockedReadsOwnMargin
  <2>2. CASE ~PeekMargin(r)
    <3>1. UNCHANGED read
      BY <1>1, <2>2 DEF Quiet, Dispatch, FetchUserAccount, LookUpTokenAccount,
             BuildTransaction, RpcFails, NothingToProbe, dataVars
    <3> QED BY <1>0, <1>1, <3>1, QuietLeaves
  <2> QED BY <2>1, <2>2
<1>2. ASSUME NEW r \in Requests, Resume(r)
      PROVE  InstructionsForOwnWallet' /\ LockedReadsOwnMargin'
  BY <1>0, <1>2, ResumeLeaves
<1>3. ASSUME NEW r \in Requests, AppendToChain(r)
      PROVE  InstructionsForOwnWallet' /\ LockedReadsOwnMargin'
  BY <1>0, <1>3 DEF AppendToChain, requestVars, dataVars
<1>4. ASSUME NEW s \in Sections, EnterLock(s)
      PROVE  InstructionsForOwnWallet' /\ LockedReadsOwnMargin'
  BY <1>0, <1>4 DEF EnterLock, requestVars, dataVars
<1>5. ASSUME NEW s \in Sections, FinishSection(s)
      PROVE  InstructionsForOwnWallet' /\ LockedReadsOwnMargin'
  BY <1>5, WorkStep DEF FinishSection, LeaveLock, requestVars
<1>6. ASSUME NEW s \in Sections, ThrowSection(s)
      PROVE  InstructionsForOwnWallet' /\ LockedReadsOwnMargin'
  BY <1>0, <1>6 DEF ThrowSection, LeaveLock, requestVars
<1>7. ASSUME NEW w \in Wallets, ChainMoves(w)
      PROVE  InstructionsForOwnWallet' /\ LockedReadsOwnMargin'
  BY <1>0, <1>7 DEF ChainMoves, requestVars, dataVars
<1>8. CASE UNCHANGED vars
  BY <1>0, <1>8 DEF vars, requestVars, dataVars
<1> QED BY <1>1, <1>2, <1>3, <1>4, <1>5, <1>6, <1>7, <1>8, NextCases

-----------------------------------------------------------------------------
(* What pending sections work for. *)

LEMMA TaskStep ==
    ASSUME TypeOK, TaskInv, [Next]_vars
    PROVE  TaskInv'
PROOF
<1>0. ASSUME \A s \in Sections : phase'[s] = phase[s] \/ phase[s] # "none",
             UNCHANGED <<status, rest>>
      PROVE  TaskInv'
  BY <1>0 DEF TaskInv
<1>1. ASSUME NEW r \in Requests, Quiet(r) PROVE TaskInv'
  <2>1. phase' = phase
    BY <1>1, QuietLeaves DEF lockVars
  <2>2. \A s \in Sections : s[1] = r => phase[s] = "none"
    <3>1. CASE Dispatch(r)
      BY <3>1 DEF Dispatch, TaskInv
    <3>2. CASE NothingToProbe(r)
      BY <3>2, InLanes DEF NothingToProbe
    <3>3. CASE FetchUserAccount(r) \/ LookUpTokenAccount(r) \/ PeekMargin(r)
               \/ BuildTransaction(r) \/ RpcFails(r)
      <4>1. \E step \in OutsideSteps : At(r, step)
        BY <3>3 DEF FetchUserAccount, LookUpTokenAccount, PeekMargin,
                    BuildTransaction, RpcFails, OutsideSteps
      <4>2. status[r] = "running" /\ Head(rest[r]) \notin LockedSteps
        BY <4>1 DEF At, OutsideSteps, LockedSteps, IxSteps
      <4> QED BY <4>2 DEF TaskInv
    <3> QED BY <1>1, <3>1, <3>2, <3>3 DEF Quiet
  <2>3. \A q \in Requests : q # r => status'[q] = status[q] /\ rest'[q] = rest[q]
    BY <1>1 DEF Quiet, Dispatch, FetchUserAccount, LookUpTokenAccount, PeekMargin,
           BuildTransaction, RpcFails, NothingToProbe, Proceed, Return, Reject, TypeOK
  <2> QED BY <2>1, <2>2, <2>3, InLanes DEF TaskInv
<1>2. ASSUME NEW r \in Requests, Resume(r) PROVE TaskInv'
  <2>0. /\ \A s \in Sections : /\ s[1] # r => phase'[s] = phase[s]
                               /\ phase'[s] # "none" => phase'[s] = phase[s]
                               /\ s[1] = r => phase'[s] \notin {"returned", "threw"}
        /\ status[r] = "running"
    BY <1>2, ResumeLeaves, InLanes DEF Forget
  <2>1. \A q \in Requests : q # r => status'[q] = status[q] /\ rest'[q] = rest[q]
    BY <1>2 DEF Resume, Continue, CatchOrReject, ChooseClose, CheckWithdrawal,
           Proceed, Return, Reject, TypeOK
  <2>2. (\A s \in Sections : s[1] = r => phase'[s] = "none") \/ status'[r] = "failed"
    <3>1. CASE Continue(r)
      <4>1. \A s \in Sections : s[1] = r => phase[s] \in {"none", "returned"}
        BY <3>1, InLanes DEF Continue, Settled
      <4> QED BY <4>1, <2>0
    <3>2. CASE CatchOrReject(r) /\ Head(rest[r]) \in Swallowed
      <4>1. Head(rest[r]) # "probe"
        BY <3>2 DEF Swallowed
      <4>2. PICK t \in Sections : t[1] = r /\ phase[t] = "threw"
        BY <3>2, InLanes DEF CatchOrReject, Threw, Own, Sections
      <4>3. \A s \in Sections : s[1] = r /\ phase[s] # "none" => s[2] = 1
        BY <4>1, <2>0 DEF TaskInv
      <4>4. \A s \in Sections : s[1] = r /\ phase[s] # "none" => s = t
        BY <4>2, <4>3, SectionExt
      <4> QED BY <4>2, <4>4, <2>0
    <3>3. CASE CatchOrReject(r) /\ Head(rest[r]) \notin Swallowed
      BY <3>3 DEF CatchOrReject, Reject, TypeOK
    <3> QED BY <1>2, <3>1, <3>2, <3>3 DEF Resume
  <2> QED BY <2>0, <2>1, <2>2, InLanes DEF TaskInv
<1>3. ASSUME NEW r \in Requests, AppendToChain(r) PROVE TaskInv'
  BY <1>3, AppendLeaves DEF TaskInv
<1>4. ASSUME NEW s \in Sections, EnterLock(s) PROVE TaskInv'
  BY <1>0, <1>4 DEF EnterLock, requestVars, TypeOK
<1>5. ASSUME NEW s \in Sections, NEW how, phase[s] = "inside", LeaveLock(s, how)
      PROVE  TaskInv'
  BY <1>0, <1>5 DEF LeaveLock, requestVars, TypeOK
<1>6. ASSUME NEW s \in Sections, FinishSection(s) PROVE TaskInv'
  BY <1>5, <1>6 DEF FinishSection
<1>7. ASSUME NEW s \in Sections, ThrowSection(s) PROVE TaskInv'
  BY <1>5, <1>7 DEF ThrowSection
<1>8. ASSUME NEW w \in Wallets, ChainMoves(w) PROVE TaskInv'
  BY <1>0, <1>8 DEF ChainMoves, lockVars, requestVars
<1>9. CASE UNCHANGED vars
  BY <1>0, <1>9 DEF vars, lockVars, requestVars
<1> QED BY <1>1, <1>2, <1>3, <1>4, <1>6, <1>7, <1>8, <1>9, NextCases

(* No body but that of getPositions peeks. *)
LEMMA Bodies ==
    ASSUME NEW k \in Kinds
    PROVE  /\ Body[k] \in Seq(Steps)
           /\ k # "positions" => \A i \in 1..Len(Body[k]) : Body[k][i] # "peek"
PROOF
<1> USE DEF Steps, LockedSteps, IxSteps, OutsideSteps, OpenIsolated,
            DepositIsolated, DepositToken, DepositNativeSol, ClosePosition,
            TransferIn, TransferOut, GetIsolatedBalance, GetPositions,
            GetPositionDetails
<1>1. CASE k = "open"
  BY <1>1 DEF Body
<1>2. CASE k = "depositIsolated"
  BY <1>2 DEF Body
<1>3. CASE k = "depositToken"
  BY <1>3 DEF Body
<1>4. CASE k = "depositSol"
  BY <1>4 DEF Body
<1>5. CASE k = "close"
  BY <1>5 DEF Body
<1>6. CASE k = "transferIn"
  BY <1>6 DEF Body
<1>7. CASE k = "transferOut"
  BY <1>7 DEF Body
<1>8. CASE k = "isolatedBalance"
  BY <1>8 DEF Body
<1>9. CASE k = "positions"
  BY <1>9 DEF Body
<1>10. CASE k = "details"
  BY <1>10 DEF Body
<1> QED BY <1>1, <1>2, <1>3, <1>4, <1>5, <1>6, <1>7, <1>8, <1>9, <1>10 DEF Kinds

(* What remains of a handler's body only ever loses steps, but for a close *)
(* that chooses how to go on.                                   *)
LEMMA PeekStep ==
    ASSUME TypeOK, TaskInv, PeekInv, [Next]_vars
    PROVE  PeekInv'
PROOF
<1> DEFINE NoPeek(q) == \A i \in 1..Len(q) : q[i] # "peek"
<1>0. ASSUME UNCHANGED <<kind, rest>> PROVE PeekInv'
  BY <1>0 DEF PeekInv
<1>1. ASSUME NEW r \in Requests, kind' = kind, NEW q \in Seq(Steps),
             rest' = [rest EXCEPT ![r] = q], kind[r] # "positions" => NoPeek(q)
      PROVE  PeekInv'
  BY <1>1 DEF PeekInv, TypeOK
<1>2. ASSUME NEW r \in Requests, kind' = kind, rest[r] # <<>>, Proceed(r) PROVE PeekInv'
  <2>1. /\ rest[r] \in Seq(Steps) /\ Tail(rest[r]) \in Seq(Steps)
        /\ kind[r] # "positions" => NoPeek(Tail(rest[r]))
    BY <1>2 DEF PeekInv, TypeOK
  <2> HIDE DEF NoPeek
  <2> QED BY <1>1, <1>2, <2>1 DEF Proceed
<1>3. ASSUME NEW r \in Requests, kind' = kind, Return(r) \/ Reject(r) PROVE PeekInv'
  <2>1. <<>> \in Seq(Steps) /\ NoPeek(<<>>)
    OBVIOUS
  <2> HIDE DEF NoPeek
  <2> QED BY <1>3, <1>1, <2>1 DEF Return, Reject
<1>4. ASSUME NEW r \in Requests, kind' = kind, ChooseClose(r) PROVE PeekInv'
  <2>1. LET q == <<"placeAndTake", "settle", "withdrawAvailable", "build">>
        IN  q \in Seq(Steps) /\ NoPeek(q)
    BY DEF Steps, LockedSteps, IxSteps, OutsideSteps
  <2>2. LET q == <<"placeAndTake", "settle", "build">> IN q \in Seq(Steps) /\ NoPeek(q)
    BY DEF Steps, LockedSteps, IxSteps, OutsideSteps
  <2>3. LET q == <<"withdrawAll", "build">> IN q \in Seq(Steps) /\ NoPeek(q)
    BY DEF Steps, LockedSteps, IxSteps, OutsideSteps
  <2> HIDE DEF NoPeek
  <2> QED BY <1>1, <1>3, <1>4, <2>1, <2>2, <2>3 DEF ChooseClose
<1>5. ASSUME NEW r \in Requests, Dispatch(r) PROVE PeekInv'
  <2>1. /\ Body[kind[r]] \in Seq(Steps)
        /\ kind[r] # "positions" => NoPeek(Body[kind[r]])
    BY Bodies DEF TypeOK
  <2> HIDE DEF NoPeek
  <2> QED BY <1>1, <1>5, <2>1 DEF Dispatch
<1>6. ASSUME NEW r \in Requests, Quiet(r) PROVE PeekInv'
  <2>1. CASE Dispatch(r)
    BY <1>5, <2>1
  <2>2. CASE ~Dispatch(r)
    <3>1. rest[r] # <<>> /\ (Proceed(r) \/ Return(r) \/ Reject(r)) /\ kind' = kind
      BY <1>6, <2>2 DEF Quiet, FetchUserAccount, LookUpTokenAccount, PeekMargin,
             BuildTransaction, RpcFails, NothingToProbe, At
    <3> QED BY <1>2, <1>3, <3>1
  <2> QED BY <2>1, <2>2
<1>7. ASSUME NEW r \in Requests, Resume(r) PROVE PeekInv'
  <2>1. rest[r] # <<>>
    <3>1. \E s \in Sections : s[1] = r /\ phase[s] # "none"
      BY <1>7, InLanes DEF Resume, Continue, CatchOrReject, Settled, Threw, Own, Sections
    <3> QED BY <1>7, <3>1, ResumeLeaves DEF TaskInv
  <2>2. kind' = kind /\ (ChooseClose(r) \/ Proceed(r) \/ Return(r) \/ Reject(r))
    BY <1>7 DEF Resume, Continue, CatchOrReject, CheckWithdrawal, UntouchedByHandler
  <2> QED BY <1>2, <1>3, <1>4, <2>1, <2>2
<1>8. ASSUME ~\E r \in Requests : Quiet(r) \/ Resume(r) PROVE PeekInv'
  <2>1. UNCHANGED <<kind, rest>>
    BY <1>8, NextCases DEF AppendToChain, EnterLock, FinishSection, ThrowSection,
           LeaveLock, ChainMoves, requestVars, vars
  <2> QED BY <1>0, <2>1
<1> QED BY <1>6, <1>7, <1>8

-----------------------------------------------------------------------------
(* Types. *)

LEMMA RestType ==
    ASSUME TypeOK, NEW r \in Requests, kind' = kind,
           \/ Proceed(r) /\ rest[r] # <<>>
           \/ Return(r) \/ Reject(r) \/ ChooseClose(r)
           \/ Dispatch(r)
    PROVE  /\ status' \in [Requests -> {"new", "running", "done", "failed"}]
           /\ rest' \in [Requests -> Seq(Steps)]
PROOF
<1>1. ASSUME NEW q \in Seq(Steps), rest' = [rest EXCEPT ![r] = q]
      PROVE  rest' \in [Requests -> Seq(Steps)]
  BY <1>1 DEF TypeOK
<1>2. rest[r] \in Seq(Steps) /\ <<>> \in Seq(Steps)
  BY DEF TypeOK
<1>3. CASE Proceed(r) /\ rest[r] # <<>>
  BY <1>1, <1>2, <1>3 DEF Proceed, TypeOK
<1>4. CASE Return(r) \/ Reject(r)
  BY <1>1, <1>2, <1>4 DEF Return, Reject, TypeOK
<1>5. CASE ChooseClose(r)
  <2>1. /\ <<"placeAndTake", "settle", "withdrawAvailable", "build">> \in Seq(Steps)
        /\ <<"placeAndTake", "settle", "build">> \in Seq(Steps)
        /\ <<"withdrawAll", "build">> \in Seq(Steps)
    BY DEF Steps, LockedSteps, IxSteps, OutsideSteps
  <2> QED BY <1>1, <1>4, <1>5, <2>1 DEF ChooseClose, TypeOK
<1>6. CASE Dispatch(r)
  BY <1>1, <1>6, Bodies DEF Dispatch, TypeOK
<1> QED BY <1>3, <1>4, <1>5, <1>6

LEMMA AccountOf ==
    ASSUME TypeOK, NEW r \in Requests
    PROVE  chain[wallet[r]] \in Account /\ fetched[r] \in Account
           /\ users[authority] \in Account /\ wallet[r] \in Authorities
BY DEF TypeOK, Authorities

LEMMA TypeStep ==
    ASSUME TypeOK, TaskInv, TicketInv, HolderInv, [Next]_vars
    PROVE  TypeOK'
PROOF
<1>1. ASSUME NEW r \in Requests, Quiet(r) PROVE TypeOK'
  <2>1. UNCHANGED <<kind, wallet, lockVars, authority, users, chain, tx>>
    BY <1>1, QuietLeaves
  <2>2. Dispatch(r) \/ (rest[r] # <<>> /\ (Proceed(r) \/ Return(r) \/ Reject(r)))
    BY <1>1 DEF Quiet, FetchUserAccount, LookUpTokenAccount, PeekMargin,
           BuildTransaction, RpcFails, NothingToProbe, At
  <2>3. /\ status' \in [Requests -> {"new", "running", "done", "failed"}]
        /\ rest' \in [Requests -> Seq(Steps)]
    BY <2>1, <2>2, RestType
  <2>4. fetched' \in [Requests -> Account]
    BY <1>1, AccountOf DEF Quiet, Dispatch, FetchUserAccount, LookUpTokenAccount,
           PeekMargin, BuildTransaction, RpcFails, NothingToProbe, dataVars, TypeOK
  <2>5. read' \in [Requests -> [of : Authorities \cup {Nobody}, account : Account]]
    <3>1. CASE PeekMargin(r)
      <4>1. /\ users[authority] \in Account /\ authority \in Authorities
            /\ read \in [Requests -> [of : Authorities \cup {Nobody}, account : Account]]
        BY AccountOf DEF TypeOK
      <4>2. \/ UNCHANGED read
            \/ read' = [read EXCEPT ![r] = [of |-> authority, account |-> users[authority]]]
        BY <3>1 DEF PeekMargin
      <4> QED BY <4>1, <4>2
    <3>2. CASE ~PeekMargin(r)
      BY <1>1, <3>2 DEF Quiet, Dispatch, FetchUserAccount, LookUpTokenAccount,
             BuildTransaction, RpcFails, NothingToProbe, dataVars, TypeOK
    <3> QED BY <3>1, <3>2
  <2> QED BY <2>1, <2>3, <2>4, <2>5 DEF TypeOK, lockVars
<1>2. ASSUME NEW r \in Requests, Resume(r) PROVE TypeOK'
  <2>1. /\ Forget(r)
        /\ UNCHANGED <<kind, wallet, fetched, read, tx, ticket, saved, issued,
                       served, authority, users, chain>>
    BY <1>2, ResumeLeaves
  <2>2. rest[r] # <<>>
    <3>1. \E s \in Sections : s[1] = r /\ phase[s] # "none"
      BY <1>2, InLanes DEF Resume, Continue, CatchOrReject, Settled, Threw, Own, Sections
    <3> QED BY <1>2, <3>1, ResumeLeaves DEF TaskInv
  <2>3. ChooseClose(r) \/ Proceed(r) \/ Return(r) \/ Reject(r)
    BY <1>2 DEF Resume, Continue, CatchOrReject, CheckWithdrawal
  <2>4. /\ status' \in [Requests -> {"new", "running", "done", "failed"}]
        /\ rest' \in [Requests -> Seq(Steps)]
    BY <2>1, <2>2, <2>3, RestType
  <2>5. phase' \in [Sections -> {"none", "queued", "inside", "returned", "threw"}]
    BY <2>1 DEF Forget, TypeOK
  <2> QED BY <2>1, <2>4, <2>5 DEF TypeOK
<1>3. ASSUME NEW r \in Requests, AppendToChain(r) PROVE TypeOK'
  <2>1. PICK step, lanes :
          /\ step \in LockedSteps /\ lanes \in Lanes(r, step) /\ lanes # {}
          /\ phase' = [s \in Sections |-> IF s \in {r} \X lanes THEN "queued" ELSE phase[s]]
          /\ ticket' = [s \in Sections |-> IF s \in {r} \X lanes
                           THEN issued + Place(lanes, s[2]) ELSE ticket[s]]
          /\ issued' = issued + Cardinality(lanes)
          /\ UNCHANGED <<requestVars, dataVars, saved, served, authority, users, chain>>
    BY <1>3 DEF AppendToChain
  <2>2. lanes \subseteq Slots
    BY <2>1 DEF Lanes
  <2>3. ASSUME NEW s \in Sections, s \in {r} \X lanes
        PROVE  Place(lanes, s[2]) \in Nat
    <3>1. s[2] \in lanes
      BY <2>3, InLanes
    <3> QED BY <2>2, <3>1, Places
  <2>4. Cardinality(lanes) \in Nat
    BY <2>1, <2>2, Places
  <2>5. ticket' \in [Sections -> Nat] /\ issued' \in Nat
    BY <2>1, <2>3, <2>4 DEF TypeOK
  <2>6. phase' \in [Sections -> {"none", "queued", "inside", "returned", "threw"}]
    BY <2>1 DEF TypeOK
  <2> QED BY <2>1, <2>5, <2>6 DEF TypeOK, requestVars, dataVars
<1>4. ASSUME NEW s \in Sections, EnterLock(s) PROVE TypeOK'
  <2>1. wallet[s[1]] \in Authorities
    BY AccountOf DEF Sections
  <2> QED BY <1>4, <2>1 DEF EnterLock, TypeOK, requestVars, dataVars
<1>5. ASSUME NEW s \in Sections, NEW how \in {"returned", "threw"},
             phase[s] = "inside", LeaveLock(s, how),
             read' \in [Requests -> [of : Authorities \cup {Nobody}, account : Account]],
             tx' \in [Requests -> SUBSET [op : IxSteps \cup {"initUser"}, by : Authorities]],
             users' \in [Authorities -> Account]
      PROVE  TypeOK'
  <2>1. saved[s] = Server /\ Server \in Authorities
    BY <1>5 DEF HolderInv, Authorities
  <2> QED BY <1>5, <2>1 DEF LeaveLock, TypeOK, requestVars
<1>6. ASSUME NEW s \in Sections, FinishSection(s) PROVE TypeOK'
  <2> DEFINE r == s[1]
  <2>0. r \in Requests /\ phase[s] = "inside" /\ LeaveLock(s, "returned") /\ Work(r, Task(s))
    BY <1>6 DEF FinishSection, Sections
  <2>1. Task(s) \in LockedSteps
    BY <2>0 DEF Task, TaskInv, LockedSteps
  <2>2. CASE InitUser(r)
    <3>1. /\ tx' \in [Requests -> SUBSET [op : IxSteps \cup {"initUser"}, by : Authorities]]
          /\ UNCHANGED <<read, users>>
      BY <2>0, <2>2 DEF InitUser, TypeOK
    <3> QED BY <1>5, <2>0, <3>1 DEF TypeOK
  <2>3. CASE CacheUser(r)
    BY <1>5, <2>0, <2>3, AccountOf DEF CacheUser, TypeOK
  <2>4. CASE ReadMargin(r)
    BY <1>5, <2>0, <2>4, AccountOf DEF ReadMargin, TypeOK
  <2>5. CASE Task(s) \in IxSteps /\ AddInstruction(r, Task(s))
    <3>1. /\ tx' \in [Requests -> SUBSET [op : IxSteps \cup {"initUser"}, by : Authorities]]
          /\ UNCHANGED <<read, users>>
      BY <2>0, <2>5 DEF AddInstruction, TypeOK
    <3> QED BY <1>5, <2>0, <3>1 DEF TypeOK
  <2>6. \/ InitUser(r) \/ CacheUser(r) \/ ReadMargin(r)
        \/ Task(s) \in IxSteps /\ AddInstruction(r, Task(s))
    BY <2>0, <2>1 DEF Work, LockedSteps
  <2> QED BY <2>2, <2>3, <2>4, <2>5, <2>6
<1>7. ASSUME NEW s \in Sections, ThrowSection(s) PROVE TypeOK'
  BY <1>5, <1>7 DEF ThrowSection, TypeOK
<1>8. ASSUME NEW w \in Wallets, ChainMoves(w) PROVE TypeOK'
  BY <1>8 DEF ChainMoves, TypeOK, requestVars, dataVars, lockVars
<1>9. CASE UNCHANGED vars
  BY <1>9 DEF vars, TypeOK, requestVars, dataVars, lockVars
<1> QED BY <1>1, <1>2, <1>3, <1>4, <1>6, <1>7, <1>8, <1>9, NextCases

-----------------------------------------------------------------------------
(* The theorems. *)

LEMMA InitEstablishes == Init => IInv
PROOF
<1> SUFFICES ASSUME Init PROVE IInv
  OBVIOUS
<1>1. Missing \in Account
  BY DEF Missing, Account
<1>2. TypeOK
  BY <1>1 DEF Init, TypeOK, Authorities
<1>3. TicketInv
  BY DEF Init, TicketInv, Pending
<1>4. HolderInv /\ TaskInv
  BY DEF Init, HolderInv, RestoredAtRest, TaskInv
<1>5. PeekInv /\ InstructionsForOwnWallet /\ LockedReadsOwnMargin
  BY DEF Init, PeekInv, InstructionsForOwnWallet, LockedReadsOwnMargin
<1> QED BY <1>2, <1>3, <1>4, <1>5 DEF IInv

LEMMA StepPreserves == IInv /\ [Next]_vars => IInv'
BY TypeStep, TicketStep, HolderStep, TaskStep, PeekStep, DataStep DEF IInv

(* Every reachable state satisfies the inductive invariant. *)
THEOREM Invariant == Spec => []IInv
BY InitEstablishes, StepPreserves, PTL DEF Spec

(* The variables keep their types. *)
THEOREM TypeCorrect == Spec => []TypeOK
<1>1. IInv => TypeOK
  BY DEF IInv
<1> QED BY <1>1, Invariant, PTL

(* withAuthority: whatever other handlers do between its awaits, a section  *)
(* inside the lock finds its own wallet in the client.                     *)
THEOREM ActsForItsOwnWalletHolds == Spec => []ActsForItsOwnWallet
<1>1. IInv => ActsForItsOwnWallet
  BY DEF IInv, HolderInv, ActsForItsOwnWallet, Inside
<1> QED BY <1>1, Invariant, PTL

(* With nobody inside, the client has the server's authority back. *)
THEOREM RestoredAtRestHolds == Spec => []RestoredAtRest
<1>1. IInv => RestoredAtRest
  BY DEF IInv, HolderInv
<1> QED BY <1>1, Invariant, PTL

(* No transaction holds an instruction built for another wallet. *)
THEOREM InstructionsForOwnWalletHolds == Spec => []InstructionsForOwnWallet
<1>1. IInv => InstructionsForOwnWallet
  BY DEF IInv
<1> QED BY <1>1, Invariant, PTL

(* No margin read under the lock is another wallet's. *)
THEOREM LockedReadsOwnMarginHolds == Spec => []LockedReadsOwnMargin
<1>1. IInv => LockedReadsOwnMargin
  BY DEF IInv
<1> QED BY <1>1, Invariant, PTL

-----------------------------------------------------------------------------
(***************************************************************************)
(* Proofs about what the handlers of AuthorityLock put into a transaction, *)
(* for any requests and any interleaving of their sections.  The argument: *)
(* a deposit checks that the account exists before it fetches the account, *)
(* and accounts are not closed, so that one missing when it was fetched    *)
(* was missing when it was checked; and a close goes past its reduce-only  *)
(* order only when the section that adds it has returned.                  *)
(***************************************************************************)

Deposits   == {"open", "depositIsolated", "depositSol", "depositToken"}
Created(r) == \E i \in tx[r] : i.op = "initUser"
Placed(r)  == \E i \in tx[r] : i.op = "placeAndTake"
Returned(r) == \E s \in Own(r) : phase[s] = "returned"

(* The stages of a deposit: ahead of the check, of the fetch, and past both. *)
Later == Steps \ {"initUser", "fetch", "require", "list"}
ToCheck(q) == /\ Len(q) > 1 /\ q[1] = "initUser" /\ q[2] = "fetch"
              /\ \A i \in 1..Len(q) : i > 2 => q[i] \in Later
ToFetch(q) == /\ Len(q) > 0 /\ q[1] = "fetch"
              /\ \A i \in 1..Len(q) : i > 1 => q[i] \in Later
ToBuild(q) == \A i \in 1..Len(q) : q[i] \in Later

(* An account that is missing where the deposit relies on it is created. *)
DepositInv(r) ==
    LET made     == Exists(chain[wallet[r]]) \/ Created(r)
        provided == Exists(fetched[r]) \/ Created(r)
    IN  /\ status[r] = "running" =>
              \/ ToCheck(rest[r]) /\ (Returned(r) => made)
              \/ ToFetch(rest[r]) /\ made
              \/ ToBuild(rest[r]) /\ provided
        /\ status[r] = "done" => provided

(* The stages of a close: reading the margin, and carrying out its choice. *)
Carried == {"placeAndTake", "settle", "withdrawAvailable", "build"}
ToChoose(q) == /\ Len(q) > 0 /\ q[Len(q)] = "margin"
               /\ \A i \in 1..Len(q) : q[i] \in {"require", "cache", "margin"}
ToReduce(q) == /\ \A i \in 1..Len(q) : q[i] \in Carried
               /\ \A i \in 1..Len(q) : q[i] = "placeAndTake" => i = 1 /\ Len(q) > 1
ToWithdraw(q) == \A i \in 1..Len(q) : q[i] \in {"withdrawAll", "build"}

(* The close of an open position has its order, and nothing withdrawn ahead. *)
CloseInv(r) ==
    LET ahead  == rest[r] # <<>> /\ Head(rest[r]) = "placeAndTake" /\ ~Returned(r)
        intact == \A i \in tx[r] : i.op # "withdrawAll"
    IN  /\ status[r] = "running" =>
              \/ ToChoose(rest[r]) /\ intact
              \/ ToWithdraw(rest[r]) /\ ~fetched[r].open
              \/ ToReduce(rest[r]) /\ fetched[r].open /\ intact /\ (ahead \/ Placed(r))
        /\ status[r] = "new" => intact
        /\ status[r] = "done" => ~fetched[r].open \/ (intact /\ Placed(r))

HandlerInv == \A r \in Requests : /\ kind[r] \in Deposits => DepositInv(r)
                                  /\ kind[r] = "close" => CloseInv(r)

-----------------------------------------------------------------------------
(* What is left of a stage when its first step is done. *)

LEMMA TailOf ==
    ASSUME NEW q \in Seq(Steps), q # <<>>
    PROVE  /\ Len(q) \in Nat /\ Len(q) > 0 /\ Head(q) = q[1]
           /\ Tail(q) \in Seq(Steps) /\ Len(Tail(q)) = Len(q) - 1
           /\ \A i \in 1..Len(Tail(q)) : i + 1 \in 1..Len(q) /\ Tail(q)[i] = q[i + 1]
OBVIOUS

LEMMA DepositStages ==
    ASSUME NEW q \in Seq(Steps)
    PROVE  /\ ToCheck(q) => /\ q # <<>> /\ Head(q) = "initUser" /\ Len(q) # 1
                            /\ ToFetch(Tail(q))
           /\ ToFetch(q) => q # <<>> /\ Head(q) = "fetch" /\ ToBuild(Tail(q))
           /\ ToBuild(q) /\ q # <<>> => Head(q) \in Later /\ ToBuild(Tail(q))
           /\ ToBuild(<<>>)
PROOF
<1>1. ASSUME ToCheck(q)
      PROVE  q # <<>> /\ Head(q) = "initUser" /\ Len(q) # 1 /\ ToFetch(Tail(q))
  <2>1. q # <<>>
    BY <1>1 DEF ToCheck
  <2>2. Len(Tail(q)) > 0 /\ Tail(q)[1] = "fetch"
    BY <1>1, <2>1, TailOf DEF ToCheck
  <2>3. \A i \in 1..Len(Tail(q)) : i > 1 => Tail(q)[i] \in Later
    BY <1>1, <2>1, TailOf DEF ToCheck
  <2> QED BY <1>1, <2>1, <2>2, <2>3, TailOf DEF ToCheck, ToFetch
<1>2. ASSUME ToFetch(q) PROVE q # <<>> /\ Head(q) = "fetch" /\ ToBuild(Tail(q))
  <2>1. q # <<>>
    BY <1>2 DEF ToFetch
  <2> QED BY <1>2, <2>1, TailOf DEF ToFetch, ToBuild
<1>3. ASSUME ToBuild(q), q # <<>> PROVE Head(q) \in Later /\ ToBuild(Tail(q))
  BY <1>3, TailOf DEF ToBuild
<1> QED BY <1>1, <1>2, <1>3 DEF ToBuild

LEMMA CloseStages ==
    ASSUME NEW q \in Seq(Steps)
    PROVE  /\ ToChoose(q) => /\ q # <<>> /\ Head(q) \in {"require", "cache", "margin"}
                             /\ Head(q) # "margin" => Len(q) # 1 /\ ToChoose(Tail(q))
           /\ ToWithdraw(q) /\ q # <<>> => /\ Head(q) \in {"withdrawAll", "build"}
                                           /\ ToWithdraw(Tail(q))
           /\ ToReduce(q) /\ q # <<>> => /\ Head(q) \in Carried
                                         /\ Head(q) = "placeAndTake" => Len(q) # 1
                                         /\ ToReduce(Tail(q))
PROOF
<1>1. ASSUME ToChoose(q)
      PROVE  /\ q # <<>> /\ Head(q) \in {"require", "cache", "margin"}
             /\ Head(q) # "margin" => Len(q) # 1 /\ ToChoose(Tail(q))
  <2>1. q # <<>>
    BY <1>1 DEF ToChoose
  <2>2. Head(q) \in {"require", "cache", "margin"}
    BY <1>1, <2>1, TailOf DEF ToChoose
  <2>3. ASSUME Head(q) # "margin" PROVE Len(q) # 1 /\ ToChoose(Tail(q))
    <3>1. Len(q) > 1
      BY <1>1, <2>1, <2>3, TailOf DEF ToChoose
    <3>2. Len(Tail(q)) > 0 /\ Tail(q)[Len(Tail(q))] = "margin"
      BY <1>1, <2>1, <3>1, TailOf DEF ToChoose
    <3>3. \A i \in 1..Len(Tail(q)) : Tail(q)[i] \in {"require", "cache", "margin"}
      BY <1>1, <2>1, TailOf DEF ToChoose
    <3> QED BY <3>1, <3>2, <3>3 DEF ToChoose
  <2> QED BY <2>1, <2>2, <2>3
<1>2. ASSUME ToWithdraw(q), q # <<>>
      PROVE  Head(q) \in {"withdrawAll", "build"} /\ ToWithdraw(Tail(q))
  BY <1>2, TailOf DEF ToWithdraw
<1>3. ASSUME ToReduce(q), q # <<>>
      PROVE  /\ Head(q) \in Carried /\ (Head(q) = "placeAndTake" => Len(q) # 1)
             /\ ToReduce(Tail(q))
  <2>1. Head(q) \in Carried /\ (Head(q) = "placeAndTake" => Len(q) # 1)
    BY <1>3, TailOf DEF ToReduce
  <2>2. \A i \in 1..Len(Tail(q)) : Tail(q)[i] \in Carried /\ Tail(q)[i] # "placeAndTake"
    BY <1>3, TailOf DEF ToReduce
  <2> QED BY <2>1, <2>2 DEF ToReduce
<1> QED BY <1>1, <1>2, <1>3

(* Past the order a close never comes to it again. *)
LEMMA OrderIsFirst ==
    ASSUME NEW q \in Seq(Steps), ToReduce(q), q # <<>>, Tail(q) # <<>>
    PROVE  Head(Tail(q)) # "placeAndTake"
PROOF
<1>1. Tail(q) \in Seq(Steps) /\ Head(Tail(q)) = q[2] /\ 2 \in 1..Len(q)
  BY TailOf
<1> QED BY <1>1 DEF ToReduce

(* Where the handlers start, and how a close goes on. *)
LEMMA FirstStages ==
    /\ \A k \in Deposits : ToCheck(Body[k])
    /\ ToChoose(Body["close"])
    /\ ToReduce(<<"placeAndTake", "settle", "withdrawAvailable", "build">>)
    /\ ToReduce(<<"placeAndTake", "settle", "build">>)
    /\ ToWithdraw(<<"withdrawAll", "build">>)
PROOF
<1> USE DEF Later, Steps, LockedSteps, IxSteps, OutsideSteps
<1>1. ToCheck(Body["open"])
  BY DEF Body, OpenIsolated, ToCheck
<1>2. ToCheck(Body["depositIsolated"])
  BY DEF Body, DepositIsolated, ToCheck
<1>3. ToCheck(Body["depositSol"])
  BY DEF Body, DepositNativeSol, ToCheck
<1>4. ToCheck(Body["depositToken"])
  BY DEF Body, DepositToken, ToCheck
<1>5. ToChoose(Body["close"])
  BY DEF Body, ClosePosition, ToChoose
<1>6. /\ ToReduce(<<"placeAndTake", "settle", "withdrawAvailable", "build">>)
      /\ ToReduce(<<"placeAndTake", "settle", "build">>)
      /\ ToWithdraw(<<"withdrawAll", "build">>)
  BY DEF ToReduce, ToWithdraw, Carried
<1> QED BY <1>1, <1>2, <1>3, <1>4, <1>5, <1>6 DEF Deposits

-----------------------------------------------------------------------------
(* Steps that do not move the handler. *)

HandlerOf(r) == <<status[r], kind[r], wallet[r], rest[r], fetched[r]>>
Accounts == \A w \in Wallets : Exists(chain[w]) => Exists(chain[w])'

InvOf(r) == /\ kind[r] \in Deposits => DepositInv(r)
            /\ kind[r] = "close" => CloseInv(r)

LEMMA Frame ==
    ASSUME NEW r \in Requests, TypeOK, InvOf(r), UNCHANGED HandlerOf(r),
           tx'[r] = tx[r], Accounts, Returned(r)' => Returned(r)
    PROVE  InvOf(r)'
PROOF
<1>1. wallet[r] \in Wallets
  BY DEF TypeOK
<1>2. Created(r)' <=> Created(r)
  BY DEF Created
<1>3. Placed(r)' <=> Placed(r)
  BY DEF Placed
<1>4. Exists(chain[wallet[r]]) => Exists(chain[wallet[r]])'
  BY <1>1 DEF Accounts, HandlerOf, Exists
<1>5. Exists(fetched[r]) => Exists(fetched[r])'
  BY DEF HandlerOf, Exists
<1>6. ASSUME DepositInv(r) PROVE DepositInv(r)'
  BY <1>2, <1>4, <1>5, <1>6 DEF DepositInv, HandlerOf
<1>7. ASSUME CloseInv(r) PROVE CloseInv(r)'
  BY <1>3, <1>7 DEF CloseInv, HandlerOf
<1> QED BY <1>6, <1>7 DEF InvOf, HandlerOf

(* The sections of others, and what a handler does between its own steps. *)
LEMMA ReturnedOf ==
    ASSUME NEW r \in Requests
    PROVE  Returned(r) <=> \E s \in Sections : s[1] = r /\ phase[s] = "returned"
BY InLanes DEF Returned, Own, Sections

LEMMA OthersStep ==
    ASSUME TypeOK, NEW r \in Requests, InvOf(r), NEW q \in Requests, q # r,
           Quiet(q) \/ Resume(q) \/ AppendToChain(q)
    PROVE  InvOf(r)'
PROOF
<1>1. /\ UNCHANGED <<kind, wallet, tx, chain>>
      /\ status'[r] = status[r] /\ rest'[r] = rest[r] /\ fetched'[r] = fetched[r]
  BY DEF Quiet, Dispatch, FetchUserAccount, LookUpTokenAccount, PeekMargin,
         BuildTransaction, RpcFails, NothingToProbe, Resume, Continue, CatchOrReject,
         ChooseClose, CheckWithdrawal, AppendToChain, UntouchedByHandler, requestVars,
         dataVars, Proceed, Return, Reject, TypeOK
<1>2. \A s \in Sections : s[1] = r => phase'[s] = phase[s]
  <2>1. CASE Quiet(q)
    BY <2>1, QuietLeaves DEF lockVars
  <2>2. CASE Resume(q)
    BY <2>2, ResumeLeaves, InLanes DEF Forget
  <2>3. CASE AppendToChain(q)
    BY <2>3, AppendLeaves
  <2> QED BY <2>1, <2>2, <2>3
<1>3. Returned(r)' => Returned(r)
  BY <1>2 DEF Returned, Own, Sections
<1>4. UNCHANGED HandlerOf(r) /\ tx'[r] = tx[r] /\ Accounts
  BY <1>1 DEF HandlerOf, Accounts, Exists
<1> QED BY <1>3, <1>4, Frame

LEMMA QueueStep ==
    ASSUME TypeOK, NEW r \in Requests, InvOf(r), AppendToChain(r)
    PROVE  InvOf(r)'
PROOF
<1>1. UNCHANGED <<requestVars, dataVars, chain>>
  BY DEF AppendToChain
<1>2. \A s \in Sections : phase'[s] = phase[s] \/ phase'[s] = "queued"
  BY AppendLeaves
<1>3. Returned(r)' => Returned(r)
  BY <1>2 DEF Returned, Own, Sections
<1>4. UNCHANGED HandlerOf(r) /\ tx'[r] = tx[r] /\ Accounts
  BY <1>1 DEF HandlerOf, Accounts, Exists, requestVars, dataVars
<1> QED BY <1>3, <1>4, Frame

LEMMA ChainStep ==
    ASSUME TypeOK, NEW r \in Requests, InvOf(r), NEW w \in Wallets, ChainMoves(w)
    PROVE  InvOf(r)'
PROOF
<1>1. PICK a \in Account : a.v = chain[w].v + 1 /\ chain' = [chain EXCEPT ![w] = a]
  BY DEF ChainMoves
<1>2. chain[w].v \in Nat
  BY DEF TypeOK, Account
<1>3. Accounts
  BY <1>1, <1>2 DEF Accounts, Exists, TypeOK
<1>4. UNCHANGED <<requestVars, dataVars, lockVars>>
  BY DEF ChainMoves
<1>5. UNCHANGED HandlerOf(r) /\ tx'[r] = tx[r] /\ (Returned(r)' => Returned(r))
  BY <1>4 DEF HandlerOf, requestVars, dataVars, lockVars, Returned, Own
<1> QED BY <1>3, <1>5, Frame

(* A section that enters or throws, or that is another handler's. *)
LEMMA SectionMoves ==
    ASSUME TypeOK, TaskInv, NEW r \in Requests, InvOf(r), NEW s \in Sections,
           \/ EnterLock(s) \/ ThrowSection(s)
           \/ FinishSection(s) /\ s[1] # r
    PROVE  InvOf(r)'
PROOF
<1>1. CASE EnterLock(s)
  <2>1. /\ UNCHANGED <<requestVars, dataVars, chain>>
        /\ phase' = [phase EXCEPT ![s] = "inside"]
    BY <1>1 DEF EnterLock
  <2>2. Returned(r)' => Returned(r)
    BY <2>1 DEF Returned, Own, Sections, TypeOK
  <2>3. UNCHANGED HandlerOf(r) /\ tx'[r] = tx[r] /\ Accounts
    BY <2>1 DEF HandlerOf, Accounts, Exists, requestVars, dataVars
  <2> QED BY <2>2, <2>3, Frame
<1>2. CASE ThrowSection(s)
  <2>1. /\ UNCHANGED <<requestVars, fetched, tx, chain>>
        /\ phase' = [phase EXCEPT ![s] = "threw"]
    BY <1>2 DEF ThrowSection, LeaveLock
  <2>2. Returned(r)' => Returned(r)
    BY <2>1 DEF Returned, Own, Sections, TypeOK
  <2>3. UNCHANGED HandlerOf(r) /\ tx'[r] = tx[r] /\ Accounts
    BY <2>1 DEF HandlerOf, Accounts, Exists, requestVars
  <2> QED BY <2>2, <2>3, Frame
<1>3. CASE FinishSection(s) /\ s[1] # r
  <2>1. /\ UNCHANGED <<requestVars, fetched, chain>>
        /\ phase' = [phase EXCEPT ![s] = "returned"]
        /\ s[1] \in Requests /\ Work(s[1], Task(s))
    BY <1>3 DEF FinishSection, LeaveLock, Sections
  <2>2. tx'[r] = tx[r]
    <3>1. \/ InitUser(s[1]) \/ CacheUser(s[1]) \/ ReadMargin(s[1])
          \/ AddInstruction(s[1], Task(s))
      BY <2>1 DEF Work
    <3> QED BY <1>3, <2>1, <3>1 DEF InitUser, CacheUser, ReadMargin, AddInstruction, TypeOK
  <2>3. Returned(r)' => Returned(r)
    <3>1. \A t \in Sections : t[1] = r => phase'[t] = phase[t]
      BY <1>3, <2>1
    <3> QED BY <3>1 DEF Returned, Own, Sections
  <2>4. UNCHANGED HandlerOf(r) /\ Accounts
    BY <2>1 DEF HandlerOf, Accounts, Exists, requestVars
  <2> QED BY <2>2, <2>3, <2>4, Frame
<1> QED BY <1>1, <1>2, <1>3

-----------------------------------------------------------------------------
(* The handler's own section returns. *)

LEMMA WorkAdds ==
    ASSUME TypeOK, NEW r \in Requests, NEW step \in LockedSteps, Work(r, step)
    PROVE  /\ tx[r] \subseteq tx'[r]
           /\ \A i \in tx'[r] : i \in tx[r] \/ i.op = step
           /\ step = "initUser" => \/ Exists(chain[wallet[r]])
                                   \/ \E i \in tx'[r] : i.op = "initUser"
           /\ step = "placeAndTake" => \E i \in tx'[r] : i.op = "placeAndTake"
PROOF
<1>1. CASE step = "initUser"
  <2>1. InitUser(r)
    BY <1>1 DEF Work
  <2>2. CASE Exists(chain[wallet[r]])
    BY <1>1, <2>1, <2>2 DEF InitUser
  <2>3. CASE ~Exists(chain[wallet[r]])
    <3> DEFINE ix == [op |-> "initUser", by |-> authority]
    <3>1. ix.op = "initUser" /\ tx'[r] = tx[r] \cup {ix}
      BY <2>1, <2>3 DEF InitUser, TypeOK
    <3> HIDE DEF ix
    <3> QED BY <1>1, <3>1
  <2> QED BY <2>2, <2>3
<1>2. CASE step \in {"cache", "margin", "probe"}
  <2>1. tx' = tx
    BY <1>2 DEF Work, CacheUser, ReadMargin
  <2> QED BY <1>2, <2>1
<1>3. CASE step \in IxSteps
  <2>1. AddInstruction(r, step)
    BY <1>3 DEF Work, IxSteps
  <2> DEFINE ix == [op |-> step, by |-> authority]
  <2>2. ix.op = step /\ tx'[r] = tx[r] \cup {ix}
    BY <2>1 DEF AddInstruction, TypeOK
  <2>3. step # "initUser"
    BY <1>3 DEF IxSteps
  <2> HIDE DEF ix
  <2> QED BY <2>2, <2>3
<1> QED BY <1>1, <1>2, <1>3 DEF LockedSteps

LEMMA OwnSection ==
    ASSUME TypeOK, TaskInv, NEW s \in Sections, InvOf(s[1]), FinishSection(s)
    PROVE  InvOf(s[1])'
PROOF
<1> DEFINE r == s[1]
<1>1. /\ r \in Requests /\ phase[s] = "inside" /\ Work(r, Task(s))
      /\ UNCHANGED <<status, kind, wallet, rest, fetched, chain>>
  BY DEF FinishSection, LeaveLock, Sections, requestVars
<1>2. status[r] \in {"running", "failed"}
  BY <1>1 DEF TaskInv
<1>3. CASE status[r] = "failed"
  BY <1>1, <1>3 DEF InvOf, DepositInv, CloseInv
<1>4. CASE status[r] = "running"
  <2> DEFINE step == Head(rest[r])
  <2>1. /\ rest[r] # <<>> /\ step \in LockedSteps /\ Work(r, step)
        /\ rest[r] \in Seq(Steps)
    BY <1>1, <1>4 DEF TaskInv, Task, TypeOK
  <2>2. /\ tx[r] \subseteq tx'[r]
        /\ \A i \in tx'[r] : i \in tx[r] \/ i.op = step
        /\ step = "initUser" => \/ Exists(chain[wallet[r]])
                                \/ \E i \in tx'[r] : i.op = "initUser"
        /\ step = "placeAndTake" => \E i \in tx'[r] : i.op = "placeAndTake"
    BY <1>1, <2>1, WorkAdds
  <2>3. Exists(chain[wallet[r]])' <=> Exists(chain[wallet[r]])
    BY <1>1 DEF Exists
  <2>4. Exists(fetched[r])' <=> Exists(fetched[r])
    BY <1>1 DEF Exists
  <2>5. (Created(r) => Created(r)') /\ (Placed(r) => Placed(r)')
    BY <2>2 DEF Created, Placed
  <2>6. ASSUME DepositInv(r) PROVE DepositInv(r)'
    <3>1. CASE ToCheck(rest[r])
      <4>1. step = "initUser"
        BY <2>1, <3>1, DepositStages
      <4>2. Exists(chain[wallet[r]]) \/ Created(r)'
        BY <2>2, <4>1 DEF Created
      <4> QED BY <1>1, <1>4, <2>3, <3>1, <4>2 DEF DepositInv
    <3>2. CASE ToFetch(rest[r])
      <4>1. step = "fetch"
        BY <2>1, <3>2, DepositStages
      <4> QED BY <2>1, <4>1 DEF LockedSteps, IxSteps
    <3>3. CASE ToBuild(rest[r]) /\ (Exists(fetched[r]) \/ Created(r))
      BY <1>1, <1>4, <2>4, <2>5, <3>3 DEF DepositInv
    <3> QED BY <1>4, <2>6, <3>1, <3>2, <3>3 DEF DepositInv
  <2>7. ASSUME CloseInv(r) PROVE CloseInv(r)'
    <3> DEFINE intact == \A i \in tx[r] : i.op # "withdrawAll"
    <3>1. CASE ToChoose(rest[r]) /\ intact
      <4>1. step # "withdrawAll"
        BY <2>1, <3>1, CloseStages
      <4> QED BY <1>1, <1>4, <2>2, <3>1, <4>1 DEF CloseInv
    <3>2. CASE ToWithdraw(rest[r]) /\ ~fetched[r].open
      BY <1>1, <1>4, <3>2 DEF CloseInv
    <3>3. CASE /\ ToReduce(rest[r]) /\ fetched[r].open /\ intact
               /\ (step = "placeAndTake" \/ Placed(r))
      <4>1. step # "withdrawAll"
        BY <2>1, <3>3, CloseStages DEF Carried
      <4>2. Placed(r)'
        BY <2>2, <2>5, <3>3 DEF Placed
      <4>3. \A i \in tx'[r] : i.op # "withdrawAll"
        BY <2>2, <3>3, <4>1
      <4> QED BY <1>1, <1>4, <3>3, <4>2, <4>3 DEF CloseInv
    <3> QED BY <1>4, <2>7, <3>1, <3>2, <3>3 DEF CloseInv
  <2> QED BY <1>1, <2>6, <2>7 DEF InvOf
<1> QED BY <1>2, <1>3, <1>4

-----------------------------------------------------------------------------
(* The handler's own steps. *)

\* What a handler's step outside its sections does to its control state.
Moves(r) == Proceed(r) \/ Return(r) \/ Reject(r)

LEMMA MoveOf ==
    ASSUME TypeOK, NEW r \in Requests, Moves(r)
    PROVE  \/ status'[r] = status[r] /\ rest'[r] = Tail(rest[r]) /\ Proceed(r)
           \/ status'[r] = "done" /\ rest'[r] = <<>> /\ Return(r)
           \/ status'[r] = "failed" /\ rest'[r] = <<>> /\ Reject(r)
BY DEF Moves, Proceed, Return, Reject, TypeOK

LEMMA Dispatched ==
    ASSUME TypeOK, TaskInv, NEW r \in Requests, InvOf(r), Dispatch(r)
    PROVE  InvOf(r)'
PROOF
<1>1. /\ status[r] = "new" /\ status'[r] = "running" /\ rest'[r] = Body[kind[r]]
      /\ UNCHANGED <<kind, tx, fetched, phase>>
  BY DEF Dispatch, TypeOK, dataVars, lockVars
<1>2. ~Returned(r)'
  <2>1. \A s \in Sections : s[1] = r => phase[s] = "none"
    BY <1>1 DEF TaskInv
  <2> QED BY <1>1, <2>1 DEF Returned, Own, Sections
<1>3. kind[r] \in Deposits => DepositInv(r)'
  BY <1>1, <1>2, FirstStages DEF DepositInv
<1>4. kind[r] = "close" => CloseInv(r)'
  BY <1>1, <1>2, FirstStages DEF CloseInv, InvOf
<1> QED BY <1>1, <1>3, <1>4 DEF InvOf

(* A step outside the lock is taken where the handler stands at it. *)
LEMMA OutsideStep ==
    ASSUME TypeOK, NEW r \in Requests, Quiet(r), ~Dispatch(r)
    PROVE  /\ status[r] = "running" /\ rest[r] # <<>> /\ rest[r] \in Seq(Steps)
           /\ Head(rest[r]) \in OutsideSteps \cup {"probe"}
           /\ Moves(r) /\ UNCHANGED <<kind, wallet, tx, chain, phase>>
           /\ Head(rest[r]) \notin {"fetch", "require", "list"} => UNCHANGED fetched
           /\ Head(rest[r]) = "fetch" =>
                 fetched'[r] = chain[wallet[r]] \/ Reject(r)
           /\ Return(r) => Head(rest[r]) \notin {"fetch", "require"}
PROOF
<1>1. UNCHANGED <<kind, wallet, tx, chain, phase>> /\ rest[r] \in Seq(Steps)
  BY QuietLeaves DEF lockVars, TypeOK
<1>2. CASE FetchUserAccount(r)
  BY <1>1, <1>2 DEF FetchUserAccount, At, OutsideSteps, Moves, TypeOK, Return, Proceed, Reject
<1>3. CASE LookUpTokenAccount(r) \/ PeekMargin(r) \/ BuildTransaction(r) \/ NothingToProbe(r)
  BY <1>1, <1>3 DEF LookUpTokenAccount, PeekMargin, BuildTransaction, NothingToProbe,
         At, OutsideSteps, Moves, dataVars
<1>4. CASE RpcFails(r)
  BY <1>1, <1>4 DEF RpcFails, At, OutsideSteps, Moves, dataVars, Return, Reject, TypeOK
<1> QED BY <1>2, <1>3, <1>4 DEF Quiet

LEMMA OutsideOfDeposit ==
    ASSUME TypeOK, NEW r \in Requests, DepositInv(r), Quiet(r), ~Dispatch(r)
    PROVE  DepositInv(r)'
PROOF
<1>1. /\ status[r] = "running" /\ rest[r] # <<>> /\ rest[r] \in Seq(Steps)
      /\ Head(rest[r]) \in OutsideSteps \cup {"probe"}
      /\ Moves(r) /\ UNCHANGED <<kind, wallet, tx, chain, phase>>
  BY OutsideStep
<1>2. Created(r)' <=> Created(r)
  BY <1>1 DEF Created
<1>3. ~ToCheck(rest[r])
  BY <1>1, DepositStages DEF OutsideSteps
<1>4. CASE ToFetch(rest[r]) /\ (Exists(chain[wallet[r]]) \/ Created(r))
  <2>1. Head(rest[r]) = "fetch" /\ ToBuild(Tail(rest[r]))
    BY <1>1, <1>4, DepositStages
  <2>2. ~Return(r) /\ (fetched'[r] = chain[wallet[r]] \/ Reject(r))
    BY <2>1, OutsideStep
  <2>3. CASE Reject(r)
    BY <2>3 DEF Reject, DepositInv, TypeOK
  <2>4. CASE ~Reject(r)
    <3>1. status'[r] = "running" /\ rest'[r] = Tail(rest[r])
      BY <1>1, <2>2, <2>4, MoveOf
    <3>2. Exists(fetched[r])' \/ Created(r)'
      BY <1>2, <1>4, <2>2, <2>4 DEF Exists
    <3> QED BY <2>1, <3>1, <3>2 DEF DepositInv
  <2> QED BY <2>3, <2>4
<1>5. CASE ToBuild(rest[r]) /\ (Exists(fetched[r]) \/ Created(r))
  <2>1. Head(rest[r]) \in Later /\ ToBuild(Tail(rest[r]))
    BY <1>1, <1>5, DepositStages
  <2>2. UNCHANGED fetched
    BY <2>1, OutsideStep DEF Later
  <2>3. Exists(fetched[r])' \/ Created(r)'
    BY <1>2, <1>5, <2>2 DEF Exists
  <2> QED BY <1>1, <2>1, <2>3, MoveOf DEF DepositInv
<1> QED BY <1>1, <1>3, <1>4, <1>5 DEF DepositInv

LEMMA OutsideOfClose ==
    ASSUME TypeOK, NEW r \in Requests, CloseInv(r), Quiet(r), ~Dispatch(r)
    PROVE  CloseInv(r)'
PROOF
<1> DEFINE intact == \A i \in tx[r] : i.op # "withdrawAll"
<1>1. /\ status[r] = "running" /\ rest[r] # <<>> /\ rest[r] \in Seq(Steps)
      /\ Head(rest[r]) \in OutsideSteps \cup {"probe"}
      /\ Moves(r) /\ UNCHANGED <<kind, wallet, tx, chain, phase>>
  BY OutsideStep
<1>2. (intact <=> intact') /\ (Placed(r)' <=> Placed(r))
  BY <1>1 DEF Placed
<1>3. CASE ToChoose(rest[r]) /\ intact
  <2>1. Head(rest[r]) = "require" /\ ToChoose(Tail(rest[r]))
    BY <1>1, <1>3, CloseStages DEF OutsideSteps
  <2>2. ~Return(r)
    BY <2>1, OutsideStep
  <2> QED BY <1>1, <1>2, <1>3, <2>1, <2>2, MoveOf DEF CloseInv
<1>4. CASE ToWithdraw(rest[r]) /\ ~fetched[r].open
  <2>1. Head(rest[r]) = "build" /\ ToWithdraw(Tail(rest[r]))
    BY <1>1, <1>4, CloseStages DEF OutsideSteps
  <2>2. UNCHANGED fetched
    BY <2>1, OutsideStep
  <2> QED BY <1>1, <1>4, <2>1, <2>2, MoveOf DEF CloseInv
<1>5. CASE ToReduce(rest[r]) /\ fetched[r].open /\ intact
           /\ (Head(rest[r]) = "placeAndTake" \/ Placed(r))
  <2>1. Head(rest[r]) = "build" /\ ToReduce(Tail(rest[r]))
    BY <1>1, <1>5, CloseStages DEF OutsideSteps, Carried
  <2>2. UNCHANGED fetched
    BY <2>1, OutsideStep
  <2>3. Placed(r)' /\ intact' /\ fetched'[r].open
    BY <1>2, <1>5, <2>1, <2>2
  <2> QED BY <1>1, <2>1, <2>3, MoveOf DEF CloseInv
<1> QED BY <1>1, <1>3, <1>4, <1>5 DEF CloseInv

-----------------------------------------------------------------------------
(* The handler goes on after its sections. *)

LEMMA ResumedAt ==
    ASSUME TypeOK, TaskInv, NEW r \in Requests, Resume(r)
    PROVE  /\ status[r] = "running" /\ rest[r] # <<>> /\ rest[r] \in Seq(Steps)
           /\ Head(rest[r]) \in LockedSteps
           /\ UNCHANGED <<kind, wallet, tx, fetched, chain>>
           /\ ~Returned(r)'
PROOF
<1>1. \E s \in Sections : s[1] = r /\ phase[s] # "none"
  BY InLanes DEF Resume, Continue, CatchOrReject, Settled, Threw, Own, Sections
<1>2. status[r] = "running" /\ UNCHANGED <<kind, wallet, tx, fetched, chain>> /\ Forget(r)
  BY ResumeLeaves
<1>3. ~Returned(r)'
  BY <1>2, ReturnedOf DEF Forget, Returned, Own, Sections
<1> QED BY <1>1, <1>2, <1>3 DEF TaskInv, TypeOK

LEMMA ResumedDeposit ==
    ASSUME TypeOK, TaskInv, NEW r \in Requests, kind[r] \in Deposits, DepositInv(r),
           Resume(r)
    PROVE  DepositInv(r)'
PROOF
<1>1. /\ status[r] = "running" /\ rest[r] # <<>> /\ rest[r] \in Seq(Steps)
      /\ Head(rest[r]) \in LockedSteps
      /\ UNCHANGED <<kind, wallet, tx, fetched, chain>>
      /\ ~Returned(r)'
  BY ResumedAt
<1>2. /\ Created(r)' <=> Created(r)
      /\ Exists(chain[wallet[r]])' <=> Exists(chain[wallet[r]])
      /\ Exists(fetched[r])' <=> Exists(fetched[r])
  BY <1>1 DEF Created, Exists
<1>3. Moves(r)
  BY DEF Resume, Continue, CatchOrReject, Deposits, Moves
<1>4. CASE ToCheck(rest[r]) /\ (Returned(r) => Exists(chain[wallet[r]]) \/ Created(r))
  <2>1. Head(rest[r]) = "initUser" /\ Len(rest[r]) # 1 /\ ToFetch(Tail(rest[r]))
    BY <1>1, <1>4, DepositStages
  <2>2. CASE CatchOrReject(r)
    <3>1. Reject(r)
      BY <2>1, <2>2 DEF CatchOrReject, Swallowed
    <3> QED BY <3>1 DEF Reject, DepositInv, TypeOK
  <2>3. CASE Continue(r)
    <3>1. Proceed(r) /\ Returned(r)
      BY <2>1, <2>3 DEF Continue, At, Settled, Returned
    <3>2. status'[r] = "running" /\ rest'[r] = Tail(rest[r])
      BY <1>1, <3>1 DEF Proceed, TypeOK
    <3> QED BY <1>2, <1>4, <2>1, <3>1, <3>2 DEF DepositInv
  <2> QED BY <2>2, <2>3 DEF Resume
<1>5. ~ToFetch(rest[r])
  BY <1>1, DepositStages DEF LockedSteps, IxSteps
<1>6. CASE ToBuild(rest[r]) /\ (Exists(fetched[r]) \/ Created(r))
  <2>1. ToBuild(Tail(rest[r]))
    BY <1>1, <1>6, DepositStages
  <2> QED BY <1>1, <1>2, <1>3, <1>6, <2>1, MoveOf DEF DepositInv
<1> QED BY <1>1, <1>4, <1>5, <1>6 DEF DepositInv

LEMMA ResumedClose ==
    ASSUME TypeOK, TaskInv, NEW r \in Requests, kind[r] = "close", CloseInv(r), Resume(r)
    PROVE  CloseInv(r)'
PROOF
<1> DEFINE intact == \A i \in tx[r] : i.op # "withdrawAll"
<1>1. /\ status[r] = "running" /\ rest[r] # <<>> /\ rest[r] \in Seq(Steps)
      /\ Head(rest[r]) \in LockedSteps
      /\ UNCHANGED <<kind, wallet, tx, fetched, chain>>
      /\ ~Returned(r)'
  BY ResumedAt
<1>2. (intact <=> intact') /\ (Placed(r)' <=> Placed(r))
  BY <1>1 DEF Placed
<1>3. CASE ToChoose(rest[r]) /\ intact
  <2>1. Head(rest[r]) \in {"cache", "margin"}
    BY <1>1, <1>3, CloseStages DEF LockedSteps, IxSteps
  <2>2. CASE CatchOrReject(r)
    <3>1. Reject(r)
      BY <2>1, <2>2 DEF CatchOrReject, Swallowed
    <3> QED BY <3>1 DEF Reject, CloseInv, TypeOK
  <2>3. CASE Continue(r) /\ Head(rest[r]) # "margin"
    <3>1. Len(rest[r]) # 1 /\ ToChoose(Tail(rest[r]))
      BY <1>1, <1>3, <2>3, CloseStages
    <3>2. Proceed(r)
      BY <2>3, <3>1 DEF Continue, At
    <3>3. status'[r] = "running" /\ rest'[r] = Tail(rest[r])
      BY <1>1, <3>2 DEF Proceed, TypeOK
    <3> QED BY <1>2, <1>3, <3>1, <3>3 DEF CloseInv
  <2>4. CASE Continue(r) /\ Head(rest[r]) = "margin"
    <3>1. ChooseClose(r)
      BY <1>1, <2>4 DEF Continue, At
    <3>2. CASE fetched[r].open
      <4>1. PICK q \in {<<"placeAndTake", "settle", "withdrawAvailable", "build">>,
                        <<"placeAndTake", "settle", "build">>} :
               rest'[r] = q /\ status' = status
        BY <3>1, <3>2 DEF ChooseClose, TypeOK
      <4>2. q # <<>> /\ Head(q) = "placeAndTake"
        BY <4>1
      <4>3. ToReduce(q)
        BY <4>1, FirstStages
      <4> QED BY <1>1, <1>2, <1>3, <3>2, <4>1, <4>2, <4>3 DEF CloseInv
    <3>3. CASE ~fetched[r].open /\ ~Reject(r)
      <4>1. rest'[r] = <<"withdrawAll", "build">> /\ status' = status
        BY <3>1, <3>3 DEF ChooseClose, TypeOK
      <4> QED BY <1>1, <3>3, <4>1, FirstStages DEF CloseInv
    <3>4. CASE Reject(r)
      BY <3>4 DEF Reject, CloseInv, TypeOK
    <3> QED BY <3>2, <3>3, <3>4
  <2> QED BY <2>2, <2>3, <2>4 DEF Resume
<1>4. CASE ToWithdraw(rest[r]) /\ ~fetched[r].open
  <2>1. Head(rest[r]) = "withdrawAll" /\ ToWithdraw(Tail(rest[r]))
    BY <1>1, <1>4, CloseStages DEF LockedSteps, IxSteps
  <2>2. Moves(r)
    BY <2>1 DEF Resume, Continue, CatchOrReject, At, Moves
  <2> QED BY <1>1, <1>4, <2>1, <2>2, MoveOf DEF CloseInv
<1>5. CASE /\ ToReduce(rest[r]) /\ fetched[r].open /\ intact
           /\ (Head(rest[r]) = "placeAndTake" /\ ~Returned(r)) \/ Placed(r)
  <2>1. /\ Head(rest[r]) \in Carried /\ ToReduce(Tail(rest[r]))
        /\ Head(rest[r]) = "placeAndTake" => Len(rest[r]) # 1
    BY <1>1, <1>5, CloseStages
  <2>2. Moves(r)
    BY <2>1 DEF Resume, Continue, CatchOrReject, At, Moves, Carried
  <2>3. CASE Placed(r)
    BY <1>1, <1>2, <1>5, <2>1, <2>2, <2>3, MoveOf DEF CloseInv
  <2>4. CASE Head(rest[r]) = "placeAndTake" /\ ~Returned(r)
    <3>1. Reject(r)
      BY <2>4 DEF Resume, Continue, Settled, Returned, CatchOrReject, Swallowed
    <3> QED BY <3>1 DEF Reject, CloseInv, TypeOK
  <2> QED BY <1>5, <2>3, <2>4
<1> QED BY <1>1, <1>3, <1>4, <1>5 DEF CloseInv

-----------------------------------------------------------------------------
(* The theorems. *)

HInv == IInv /\ HandlerInv

LEMMA HandlerStepPreserves ==
    ASSUME IInv, NEW r \in Requests, InvOf(r), [Next]_vars
    PROVE  InvOf(r)'
PROOF
<1> USE DEF IInv
<1>1. ASSUME NEW q \in Requests, Quiet(q) \/ Resume(q) \/ AppendToChain(q), q # r
      PROVE  InvOf(r)'
  BY <1>1, OthersStep
<1>2. CASE Quiet(r)
  <2>1. CASE Dispatch(r)
    BY <2>1, Dispatched
  <2>2. CASE ~Dispatch(r)
    <3>1. UNCHANGED kind
      BY <1>2, QuietLeaves
    <3> QED BY <1>2, <2>2, <3>1, OutsideOfDeposit, OutsideOfClose DEF InvOf
  <2> QED BY <2>1, <2>2
<1>3. CASE Resume(r)
  <2>1. UNCHANGED kind
    BY <1>3, ResumeLeaves
  <2> QED BY <1>3, <2>1, ResumedDeposit, ResumedClose DEF InvOf
<1>4. CASE AppendToChain(r)
  BY <1>4, QueueStep
<1>5. ASSUME NEW s \in Sections, EnterLock(s) \/ FinishSection(s) \/ ThrowSection(s)
      PROVE  InvOf(r)'
  <2>1. CASE FinishSection(s) /\ s[1] = r
    BY <2>1, OwnSection
  <2>2. CASE ~(FinishSection(s) /\ s[1] = r)
    BY <1>5, <2>2, SectionMoves
  <2> QED BY <2>1, <2>2
<1>6. ASSUME NEW w \in Wallets, ChainMoves(w) PROVE InvOf(r)'
  BY <1>6, ChainStep
<1>7. CASE UNCHANGED vars
  <2>1. UNCHANGED HandlerOf(r) /\ tx'[r] = tx[r] /\ (Returned(r)' => Returned(r))
    BY <1>7 DEF vars, requestVars, dataVars, lockVars, HandlerOf, Returned, Own
  <2>2. Accounts
    BY <1>7 DEF vars, Accounts, Exists
  <2> QED BY <2>1, <2>2, Frame
<1> QED BY <1>1, <1>2, <1>3, <1>4, <1>5, <1>6, <1>7, NextCases

LEMMA HandlersStart == Init => HInv
PROOF
<1>1. Init => HandlerInv
  BY DEF Init, HandlerInv, DepositInv, CloseInv
<1> QED BY <1>1, InitEstablishes DEF HInv

LEMMA HandlersGoOn == HInv /\ [Next]_vars => HInv'
PROOF
<1> SUFFICES ASSUME HInv, [Next]_vars PROVE HInv'
  OBVIOUS
<1>1. IInv'
  BY StepPreserves DEF HInv
<1>2. ASSUME NEW r \in Requests PROVE InvOf(r)'
  BY HandlerStepPreserves DEF HInv, HandlerInv, InvOf
<1> QED BY <1>1, <1>2 DEF HInv, HandlerInv, InvOf

(* Every reachable state satisfies the handlers' inductive invariant. *)
THEOREM HandlerInvariant == Spec => []HInv
BY HandlersStart, HandlersGoOn, PTL DEF Spec

(* ensureUserInitIxs before fetchUserAccount: a deposit for an account that *)
(* was missing when it was fetched also creates the account, whenever      *)
(* others create it in between.                                            *)
THEOREM MissingAccountIsCreatedHolds == Spec => []MissingAccountIsCreated
<1>1. HInv => MissingAccountIsCreated
  BY DEF HInv, HandlerInv, DepositInv, MissingAccountIsCreated, Created, Deposits
<1> QED BY <1>1, HandlerInvariant, PTL

(* buildClosePositionTx: whatever its try blocks drop, the close of an open *)
(* position holds the reduce-only order and no withdrawal ahead of it.     *)
THEOREM CloseKeepsItsOrderHolds == Spec => []CloseKeepsItsOrder
<1>1. HInv => CloseKeepsItsOrder
  BY DEF HInv, HandlerInv, CloseInv, CloseKeepsItsOrder, Placed
<1> QED BY <1>1, HandlerInvariant, PTL

=============================================================================
