-------------------------- MODULE ActionLogProofs --------------------------
(***************************************************************************)
(* Proofs about ActionLog, for any set of requests, routes and faults.     *)
(* The argument: the executor's lock is held from before a transaction is  *)
(* sent until it is confirmed, so that the one a handler waits for is the  *)
(* last that was sent, and whatever was confirmed before it has landed.    *)
(* What a handler answers follows from where it has been: it is only past  *)
(* its confirmation if its transaction has succeeded, and only past its    *)
(* last insert if every row is in the log, which nothing ever leaves.      *)
(***************************************************************************)
EXTENDS ActionLog, FiniteSetTheorems, FunctionTheorems, TLAPS

-----------------------------------------------------------------------------
(* The inductive invariant. *)

Stations == {"idle", "lock", "send", "confirm", "decode", "insert", "answered"}

Transactions == [sig : Requests, slot : Nat \ {0}, err : BOOLEAN]

(* Types of what the routes, the executor and the chain keep. *)
ExecTypes ==
    /\ at \in [Requests -> Stations] /\ outcome \in [Requests -> Outcomes]
    /\ signature \in [Requests -> Requests] /\ next \in [Requests -> Nat \ {0}]
    /\ tx \in [Requests -> Seq(Instructions)]
    /\ lock \in Requests \cup {Nobody}
    /\ pool \subseteq Requests /\ sent \in Seq(Requests)
    /\ chain \in Seq(Transactions)
    /\ backfills \in Nat

(* An outcome is an answer; what executes is about its own transaction. *)
HandlerInv ==
    \A r \in Requests :
        /\ at[r] = "answered" <=> outcome[r] # "none"
        /\ Kind[r] # "decode" => signature[r] = r
        /\ Kind[r] = "decode" => at[r] \notin {"lock", "send", "confirm"}
        /\ at[r] \notin {"insert", "answered"} => next[r] = 1

(* Who sends or waits for a confirmation holds the lock. *)
LockInv == \A r \in Requests : at[r] \in {"send", "confirm"} => lock = r

(* A transaction is sent once, by its own handler, which waits for it      *)
(* while it is the last one.                                               *)
SentInv ==
    /\ \A i, j \in DOMAIN sent : sent[i] = sent[j] => i = j
    /\ \A i \in DOMAIN sent : /\ at[sent[i]] \notin {"idle", "lock", "send"}
                              /\ Kind[sent[i]] # "decode"
    /\ \A r \in Requests : at[r] = "confirm" => sent # <<>> /\ sent[Len(sent)] = r

(* What has landed was sent, landed once, and flies no more. *)
ChainInv ==
    /\ \A i, j \in DOMAIN chain : chain[i].sig = chain[j].sig => i = j
    /\ \A i \in DOMAIN chain : chain[i].sig \notin pool /\ Sent(chain[i].sig)
    /\ \A r \in pool : Sent(r)

(* Past its confirmation a transaction has succeeded. *)
ExecInv == \A r \in Requests : (Executed(r) /\ Kind[r] # "decode") => r \in Landed \ Reverted

(* What a handler has stored when it is about to store the next row. *)
StoredBy(r) ==
    /\ at[r] \in {"decode", "insert"} => signature[r] \in Landed
    /\ at[r] = "insert" => /\ next[r] <= Len(tx[signature[r]])
                          /\ \A n \in 1..(next[r] - 1) : <<signature[r], n>> \in log
    /\ (outcome[r] = "ok" /\ Kind[r] # "other") =>
           signature[r] \in Landed /\ Rows(signature[r]) \subseteq log
StoreInv == \A r \in Requests : StoredBy(r)

(* Without a backfill only the routes write rows. *)
RowInv ==
    backfills = 0 =>
        /\ backfill.at = "idle"
        /\ \A row \in log : /\ row[1] \in Landed
                            /\ row[1] \in Reverted =>
                                  \E r \in Requests : /\ Kind[r] = "decode" /\ at[r] # "idle"
                                                      /\ signature[r] = row[1]

IInv == ExecTypes /\ HandlerInv /\ LockInv /\ SentInv /\ ChainInv /\ ExecInv /\ StoreInv
        /\ RowInv /\ OkInSendOrder

USE ActionLogAssumption DEF ActionLogAssumption

(* Nothing has happened in the initial state. *)
LEMMA Initial == Init => IInv
<1> SUFFICES ASSUME Init PROVE IInv
  OBVIOUS
<1> USE DEF Init
<1>0. Landed = {} /\ Reverted = {} /\ sent = <<>> /\ chain = <<>> /\ log = {}
  BY DEF Landed, Reverted
<1>1. ExecTypes
  BY DEF ExecTypes, Stations, Outcomes
<1>2. HandlerInv /\ LockInv
  BY DEF HandlerInv, LockInv
<1>3. SentInv /\ ChainInv
  BY <1>0 DEF SentInv, ChainInv
<1>4. ExecInv /\ StoreInv
  BY <1>0 DEF ExecInv, Executed, StoreInv, StoredBy
<1>5. RowInv
  BY <1>0 DEF RowInv
<1>6. OkInSendOrder
  BY <1>0 DEF OkInSendOrder
<1> QED
  BY <1>1, <1>2, <1>3, <1>4, <1>5, <1>6 DEF IInv

-----------------------------------------------------------------------------
(* What a step leaves alone. *)

Early == {"idle", "lock", "send"}
Same(q) == /\ at'[q] = at[q] /\ outcome'[q] = outcome[q]
           /\ signature'[q] = signature[q] /\ next'[q] = next[q]

(* What has landed does not depend on the handlers. *)
LEMMA ChainFrame ==
    ASSUME chain' = chain
    PROVE  Landed' = Landed /\ Reverted' = Reverted /\ \A s : Place(s)' = Place(s)
BY DEF Landed, Reverted, Place

(* Membership in the landed transactions, in the form the provers use. *)
LEMMA InLanded ==
    ASSUME NEW s
    PROVE  /\ s \in Landed <=> \E i \in DOMAIN chain : chain[i].sig = s
           /\ s \in Reverted <=> \E i \in DOMAIN chain : chain[i].sig = s /\ chain[i].err
BY DEF Landed, Reverted

(* What has landed was sent, so that its handler has begun. *)
LEMMA LandedWasSent ==
    ASSUME IInv, NEW s \in Landed
    PROVE  s \in Requests /\ s \notin pool /\ Sent(s) /\ at[s] \notin Early
<1>1. PICK i \in DOMAIN chain : chain[i].sig = s
  BY InLanded
<1>2. s \notin pool /\ Sent(s) /\ s \in Requests
  <2>1. chain[i].sig \in Requests
    <3>1. chain[i] \in Transactions
      BY <1>1 DEF IInv, ExecTypes
    <3> QED
      BY <3>1 DEF Transactions
  <2> QED
    BY <1>1, <2>1 DEF IInv, ChainInv, Sent
<1>3. at[s] \notin Early
  BY <1>2 DEF IInv, SentInv, Sent, Early
<1> QED
  BY <1>2, <1>3

(* What a sequence is after its last element is appended. *)
LEMMA Appended ==
    ASSUME NEW S, NEW old \in Seq(S), NEW e \in S, NEW seq, seq = Append(old, e)
    PROVE  /\ Len(old) \in Nat /\ DOMAIN old = 1..Len(old)
           /\ seq \in Seq(S) /\ Len(seq) = Len(old) + 1 /\ DOMAIN seq = 1..(Len(old) + 1)
           /\ seq[Len(old) + 1] = e /\ seq # <<>>
           /\ \A i \in DOMAIN old : seq[i] = old[i] /\ i \in DOMAIN seq /\ old[i] \in S
BY SMTT(20)

(* The transactions sent stay in order while nothing is sent or lands. *)
LEMMA OrderFrame ==
    ASSUME IInv, chain' = chain, sent' = sent,
           \A q \in Requests : Executed(q)' =>
               \/ Executed(q) \/ Kind[q] = "decode"
               \/ q \in Landed /\ sent # <<>> /\ sent[Len(sent)] = q
    PROVE  OkInSendOrder'
<1>1. SUFFICES ASSUME NEW i \in DOMAIN sent, NEW j \in DOMAIN sent, i < j, Executed(sent[i])'
               PROVE  /\ sent[i] \in Landed
                      /\ sent[j] \in Landed => Place(sent[i]) < Place(sent[j])
  BY ChainFrame DEF OkInSendOrder
<1>2. sent \in Seq(Requests) /\ sent[i] \in Requests /\ Kind[sent[i]] # "decode"
  BY SMTT(20) DEF IInv, ExecTypes, SentInv
<1>3. CASE Executed(sent[i])
  BY <1>1, <1>3 DEF IInv, OkInSendOrder
<1>4. CASE sent[Len(sent)] = sent[i]
  <2>1. Len(sent) \in DOMAIN sent /\ j <= Len(sent) /\ i \in Nat /\ j \in Nat
    BY <1>2
  <2>2. i = Len(sent)
    BY <1>4, <2>1 DEF IInv, SentInv
  <2> QED
    BY <1>1, <2>1, <2>2
<1> QED
  BY <1>1, <1>2, <1>3, <1>4

(* A handler that does not move keeps what it has stored. *)
LEMMA StoredFrame ==
    ASSUME IInv, NEW q \in Requests, Same(q), log \subseteq log', Landed \subseteq Landed',
           \A s \in Landed : tx'[s] = tx[s]
    PROVE  StoredBy(q)'
<1>1. StoredBy(q)
  BY DEF IInv, StoreInv
<1>2. at'[q] \in {"decode", "insert"} => signature'[q] \in Landed'
  BY <1>1 DEF StoredBy, Same
<1>3. at'[q] = "insert" => /\ next'[q] <= Len(tx'[signature'[q]])
                           /\ \A n \in 1..(next'[q] - 1) : <<signature'[q], n>> \in log'
  BY <1>1, SMTT(20) DEF StoredBy, Same
<1>4. (outcome'[q] = "ok" /\ Kind[q] # "other") =>
          /\ signature'[q] \in Landed'
          /\ \A n \in DOMAIN tx'[signature'[q]] : <<signature'[q], n>> \in log'
  BY <1>1 DEF StoredBy, Same, Rows
<1> QED
  BY <1>2, <1>3, <1>4 DEF StoredBy, Rows

(* Rows that are written come from a handler that was storing them. *)
LEMMA RowFrame ==
    ASSUME IInv, chain' = chain, backfill' = backfill, backfills' = backfills,
           \A q \in Requests : at[q] # "idle" => at'[q] # "idle" /\ signature'[q] = signature[q],
           \A row \in log' \ log : \E q \in Requests : at[q] = "insert" /\ row[1] = signature[q]
    PROVE  RowInv'
<1>1. SUFFICES ASSUME backfills = 0, NEW row \in log'
               PROVE  /\ row[1] \in Landed
                      /\ row[1] \in Reverted =>
                            \E r \in Requests : /\ Kind[r] = "decode" /\ at'[r] # "idle"
                                                /\ signature'[r] = row[1]
  BY ChainFrame DEF IInv, RowInv
<1>2. CASE row \in log
  BY <1>1, <1>2 DEF IInv, RowInv
<1>3. CASE row \notin log
  <2>1. PICK q \in Requests : at[q] = "insert" /\ row[1] = signature[q]
    BY <1>1, <1>3
  <2>2. signature[q] \in Landed
    BY <2>1 DEF IInv, StoreInv, StoredBy
  <2>3. Kind[q] # "decode" => signature[q] = q /\ q \notin Reverted
    BY <2>1 DEF IInv, HandlerInv, ExecInv, Executed
  <2> QED
    BY <2>1, <2>2, <2>3
<1> QED
  BY <1>2, <1>3

(* A step of one handler that neither sends nor lands anything. *)
LEMMA HandlerStep ==
    ASSUME IInv, NEW r \in Requests, UNCHANGED <<chainVars, backfill, backfills>>,
           \A q \in Requests \ {r} : Same(q),
           ExecTypes', HandlerInv', LockInv',
           log \subseteq log',
           \A row \in log' \ log : at[r] = "insert" /\ row[1] = signature[r],
           \A s \in Landed : tx'[s] = tx[s],
           at[r] \notin Early => at'[r] \notin Early,
           at'[r] = "confirm" => at[r] = "confirm",
           at[r] # "idle" => at'[r] # "idle" /\ signature'[r] = signature[r],
           (Executed(r)' /\ Kind[r] # "decode") =>
               Executed(r) \/ (at[r] = "confirm" /\ r \in Landed \ Reverted),
           StoredBy(r)'
    PROVE  IInv'
<1> USE DEF chainVars
<1>1. Landed' = Landed /\ Reverted' = Reverted
  BY ChainFrame
<1>2. \A q \in Requests \ {r} : Executed(q)' <=> Executed(q)
  BY DEF Executed, Same
<1>3. SentInv'
  <2>1. \A q \in Requests : at[q] \notin Early => at'[q] \notin Early
    BY DEF Same
  <2>2. \A q \in Requests : at'[q] = "confirm" => at[q] = "confirm"
    BY DEF Same
  <2>3. \A i \in DOMAIN sent : sent[i] \in Requests /\ at[sent[i]] \notin Early
    BY SMTT(20) DEF IInv, ExecTypes, SentInv, Early
  <2> QED
    BY <2>1, <2>2, <2>3 DEF IInv, SentInv, Early
<1>4. ChainInv'
  BY DEF IInv, ChainInv, Sent
<1>5. ExecInv'
  BY <1>1, <1>2 DEF IInv, ExecInv
<1>6. StoreInv'
  BY <1>1, StoredFrame DEF StoreInv
<1>7. RowInv'
  BY RowFrame DEF Same
<1>8. OkInSendOrder'
  <2>1. \A q \in Requests : Executed(q)' =>
            \/ Executed(q) \/ Kind[q] = "decode"
            \/ q \in Landed /\ sent # <<>> /\ sent[Len(sent)] = q
    BY <1>2 DEF IInv, SentInv
  <2> QED
    BY <2>1, OrderFrame
<1> QED
  BY <1>3, <1>4, <1>5, <1>6, <1>7, <1>8 DEF IInv


(* A transaction is sent: its handler waits for it now, or has gone. *)
LEMMA SendStep ==
    ASSUME IInv, NEW r \in Requests, at[r] = "send", r \notin pool,
           sent' = Append(sent, r), pool' = pool \cup {r},
           UNCHANGED <<signature, tx, chain, log, backfill, backfills>>,
           \A q \in Requests \ {r} : Same(q),
           ExecTypes', HandlerInv', LockInv',
           (at'[r] = "confirm" /\ outcome'[r] = "none")
               \/ (at'[r] = "answered" /\ outcome'[r] = "gone")
    PROVE  IInv'
<1>1. /\ sent \in Seq(Requests) /\ Len(sent) \in Nat
      /\ DOMAIN sent = 1..Len(sent) /\ DOMAIN sent' = 1..(Len(sent) + 1)
      /\ Len(sent') = Len(sent) + 1 /\ sent' # <<>>
      /\ sent'[Len(sent) + 1] = r /\ \A i \in DOMAIN sent : sent'[i] = sent[i]
  <2>1. sent \in Seq(Requests)
    BY DEF IInv, ExecTypes
  <2> QED
    BY <2>1, Appended
<1>2. Landed' = Landed /\ Reverted' = Reverted /\ r \notin Landed
  BY ChainFrame, LandedWasSent DEF Early
<1>3. \A i \in DOMAIN sent : sent[i] \in Requests /\ sent[i] # r
  BY <1>1 DEF IInv, SentInv
<1>4. \A q \in Requests : Sent(q) => Sent(q)'
  BY <1>1 DEF Sent
<1>5. ~Executed(r)' /\ \A q \in Requests \ {r} : Executed(q)' <=> Executed(q)
  BY DEF Executed, Same
<1>6. SentInv'
  <2>1. \A i, j \in DOMAIN sent' : sent'[i] = sent'[j] => i = j
    BY <1>1, <1>3 DEF IInv, SentInv
  <2>2. \A i \in DOMAIN sent' : /\ at'[sent'[i]] \notin {"idle", "lock", "send"}
                                /\ Kind[sent'[i]] # "decode"
    <3>1. at'[r] \notin {"idle", "lock", "send"} /\ Kind[r] # "decode"
      BY DEF IInv, HandlerInv
    <3>2. ASSUME NEW i \in DOMAIN sent
          PROVE  at'[sent[i]] \notin {"idle", "lock", "send"} /\ Kind[sent[i]] # "decode"
      BY <1>3 DEF IInv, SentInv, Same
    <3>3. \A i \in DOMAIN sent' : sent'[i] = r \/ (i \in DOMAIN sent /\ sent'[i] = sent[i])
      BY <1>1
    <3> QED
      BY <3>1, <3>2, <3>3
  <2>3. \A q \in Requests : at'[q] = "confirm" => q = r
    BY DEF IInv, LockInv, Same
  <2> QED
    BY <1>1, <2>1, <2>2, <2>3 DEF SentInv
<1>7. ChainInv'
  <2>1. \A i \in DOMAIN chain : chain[i].sig \in Landed
    BY InLanded
  <2>2. \A i \in DOMAIN chain : chain[i].sig \notin pool' /\ Sent(chain[i].sig)'
    BY <1>2, <1>4, <2>1, LandedWasSent
  <2>3. Sent(r)'
    BY <1>1 DEF Sent
  <2>4. \A q \in pool' : Sent(q)'
    BY <1>4, <2>3 DEF IInv, ChainInv, ExecTypes
  <2> QED
    BY <2>2, <2>4 DEF IInv, ChainInv
<1>8. ExecInv'
  BY <1>2, <1>5 DEF IInv, ExecInv
<1>9. StoreInv'
  <2>1. StoredBy(r)'
    BY DEF StoredBy
  <2> QED
    BY <1>2, <2>1, StoredFrame DEF StoreInv
<1>10. RowInv'
  BY RowFrame DEF Same
<1>11. OkInSendOrder'
  <2>1. SUFFICES ASSUME NEW i \in DOMAIN sent', NEW j \in DOMAIN sent', i < j,
                        at'[sent'[i]] \in {"decode", "insert"}
                            \/ outcome'[sent'[i]] \in {"ok", "unlogged"}
                 PROVE  /\ sent'[i] \in Landed
                        /\ sent'[j] \in Landed => Place(sent'[i]) < Place(sent'[j])
    <3>1. \A s : Place(s)' = Place(s)
      BY ChainFrame
    <3> QED
      BY <1>2, <3>1 DEF OkInSendOrder, Executed
  <2>2. i \in DOMAIN sent /\ sent'[i] = sent[i] /\ Executed(sent[i])
    <3>1. i = Len(sent) + 1 => Executed(r)'
      BY <1>1, <2>1 DEF Executed
    <3>2. i \in DOMAIN sent
      BY <1>1, <1>5, <3>1
    <3>3. sent'[i] = sent[i] /\ sent[i] \in Requests \ {r}
      BY <1>1, <1>3, <3>2
    <3> QED
      BY <1>5, <2>1, <3>2, <3>3 DEF Executed
  <2>3. CASE j \in DOMAIN sent
    BY <1>1, <2>1, <2>2, <2>3 DEF IInv, OkInSendOrder
  <2>4. CASE j = Len(sent) + 1
    <3>1. sent[i] \in Landed
      BY <1>3, <2>2 DEF IInv, ExecInv, SentInv
    <3> QED
      BY <1>1, <1>2, <2>2, <2>4, <3>1
  <2> QED
    BY <1>1, <2>3, <2>4
<1> QED
  BY <1>6, <1>7, <1>8, <1>9, <1>10, <1>11 DEF IInv

(* A step of the database, of a reader or of the backfill. *)
LEMMA LogStep ==
    ASSUME IInv, UNCHANGED <<handlerVars, lock, chainVars>>, log \subseteq log',
           backfills' \in Nat,
           backfills' = 0 => backfills = 0 /\ log' = log /\ backfill'.at = "idle"
    PROVE  IInv'
<1> USE DEF handlerVars, chainVars
<1>1. Landed' = Landed /\ Reverted' = Reverted
  BY ChainFrame
<1>2. ExecTypes' /\ HandlerInv' /\ LockInv'
  BY DEF IInv, ExecTypes, Transactions, HandlerInv, LockInv
<1>3. SentInv' /\ ChainInv'
  BY DEF IInv, SentInv, ChainInv, Sent
<1>4. \A q \in Requests : Executed(q)' <=> Executed(q)
  BY DEF Executed
<1>5. ExecInv' /\ OkInSendOrder'
  BY <1>1, <1>4, OrderFrame DEF IInv, ExecInv
<1>6. StoreInv'
  BY <1>1, StoredFrame DEF StoreInv, Same
<1>7. RowInv'
  BY <1>1 DEF IInv, RowInv
<1> QED
  BY <1>2, <1>3, <1>5, <1>6, <1>7 DEF IInv

-----------------------------------------------------------------------------
(* The actions. *)

(* The worker builds, before anything is sent. *)
LEMMA BuildKeeps ==
    ASSUME IInv, NEW r \in Requests, Build(r)
    PROVE  IInv'
<1> USE DEF Build, Goto, Answer
<1>1. /\ at \in [Requests -> Stations] /\ outcome \in [Requests -> Outcomes]
      /\ at[r] = "idle" /\ outcome[r] = "none" /\ next[r] = 1 /\ Kind[r] # "decode"
      /\ UNCHANGED <<signature, next, lock, pool, sent, chain, backfills>>
  BY DEF IInv, ExecTypes, HandlerInv, chainVars, counters
<1>2. \/ at' = [at EXCEPT ![r] = "lock"] /\ outcome' = outcome
      \/ at' = [at EXCEPT ![r] = "answered"] /\ outcome' = [outcome EXCEPT ![r] = "error"]
  OBVIOUS
<1>3. ExecTypes'
  <2>1. \A shape \in Shapes[Kind[r]] : shape \in Seq(Instructions)
    OBVIOUS
  <2>2. tx' \in [Requests -> Seq(Instructions)]
    BY <2>1 DEF IInv, ExecTypes
  <2>3. at' \in [Requests -> Stations] /\ outcome' \in [Requests -> Outcomes]
    BY <1>1, <1>2 DEF Stations, Outcomes
  <2> QED
    BY <1>1, <2>2, <2>3 DEF IInv, ExecTypes, Transactions
<1> HIDE DEF Goto, Answer
<1>4. \A q \in Requests \ {r} : Same(q)
  BY <1>1, <1>2 DEF Same
<1>5. HandlerInv' /\ LockInv'
  <2>1. \/ at'[r] = "lock" /\ outcome'[r] = "none"
        \/ at'[r] = "answered" /\ outcome'[r] = "error"
    BY <1>1, <1>2
  <2> HIDE DEF Build
  <2>2. HandlerInv'
    BY <1>1, <1>4, <2>1 DEF IInv, HandlerInv, Same
  <2>3. LockInv'
    BY <1>1, <1>4, <2>1 DEF IInv, LockInv, Same
  <2> QED
    BY <2>2, <2>3
<1>6. \A s \in Landed : tx'[s] = tx[s]
  BY LandedWasSent DEF Early, IInv, ExecTypes
<1>7. /\ at[r] \notin Early => at'[r] \notin Early
      /\ at'[r] = "confirm" => at[r] = "confirm"
      /\ at[r] # "idle" => at'[r] # "idle" /\ signature'[r] = signature[r]
  BY <1>1, <1>2 DEF Early
<1>8. ~Executed(r)' /\ StoredBy(r)'
  BY <1>1, <1>2 DEF Executed, StoredBy
<1> QED
  BY <1>1, <1>3, <1>4, <1>6, <1>7, <1>8, <1>5, HandlerStep DEF chainVars, counters

(* A decode request names what has landed. *)
LEMMA AskDecodeKeeps ==
    ASSUME IInv, NEW r \in Requests, AskDecode(r)
    PROVE  IInv'
<1> USE DEF AskDecode, Goto
<1>1. ExecTypes'
  <2>1. signature' \in [Requests -> Requests]
    BY LandedWasSent DEF IInv, ExecTypes
  <2> QED
    BY <2>1 DEF IInv, ExecTypes, Transactions, Stations, Outcomes, chainVars, counters
<1>2. HandlerInv' /\ LockInv'
  BY DEF IInv, ExecTypes, HandlerInv, LockInv
<1>3. \A q \in Requests \ {r} : Same(q)
  BY DEF IInv, ExecTypes, Same
<1>4. \A s \in Landed : tx'[s] = tx[s]
  BY LandedWasSent DEF Early, IInv, ExecTypes
<1>5. /\ at[r] \notin Early => at'[r] \notin Early
      /\ at'[r] = "confirm" => at[r] = "confirm"
      /\ at[r] # "idle" => at'[r] # "idle" /\ signature'[r] = signature[r]
  BY DEF IInv, ExecTypes, Early
<1>6. (Executed(r)' /\ Kind[r] # "decode") =>
          Executed(r) \/ (at[r] = "confirm" /\ r \in Landed \ Reverted)
  BY DEF IInv, ExecTypes, HandlerInv, Executed
<1>7. StoredBy(r)'
  BY ChainFrame DEF IInv, ExecTypes, HandlerInv, StoreInv, StoredBy, ExecInv, chainVars, Rows
<1> QED
  BY <1>1, <1>2, <1>3, <1>4, <1>5, <1>6, <1>7, HandlerStep DEF counters

(* The lock was free, so that nobody sends or waits. *)
LEMMA TakeLockKeeps ==
    ASSUME IInv, NEW r \in Requests, TakeLock(r)
    PROVE  IInv'
<1> USE DEF TakeLock, Goto
<1>1. ExecTypes'
  BY DEF IInv, ExecTypes, Transactions, Stations, Outcomes, chainVars, counters
<1>2. HandlerInv' /\ LockInv'
  BY DEF IInv, ExecTypes, HandlerInv, LockInv
<1>3. \A q \in Requests \ {r} : Same(q)
  BY DEF IInv, ExecTypes, Same
<1>4. \A s \in Landed : tx'[s] = tx[s]
  BY LandedWasSent DEF Early, IInv, ExecTypes
<1>5. /\ at[r] \notin Early => at'[r] \notin Early
      /\ at'[r] = "confirm" => at[r] = "confirm"
      /\ at[r] # "idle" => at'[r] # "idle" /\ signature'[r] = signature[r]
  BY DEF IInv, ExecTypes, Early
<1>6. (Executed(r)' /\ Kind[r] # "decode") =>
          Executed(r) \/ (at[r] = "confirm" /\ r \in Landed \ Reverted)
  BY DEF IInv, ExecTypes, HandlerInv, Executed
<1>7. StoredBy(r)'
  BY ChainFrame DEF IInv, ExecTypes, HandlerInv, StoreInv, StoredBy, ExecInv, chainVars, Rows
<1> QED
  BY <1>1, <1>2, <1>3, <1>4, <1>5, <1>6, <1>7, HandlerStep DEF counters

(* Its transaction has succeeded, and was the last one sent. *)
LEMMA ConfirmedKeeps ==
    ASSUME IInv, NEW r \in Requests, Confirmed(r)
    PROVE  IInv'
<1> USE DEF Confirmed, Goto, Answer
<1>1. ExecTypes'
  BY DEF IInv, ExecTypes, Transactions, Stations, Outcomes, chainVars, counters
<1>2. HandlerInv' /\ LockInv'
  <2>1. at \in [Requests -> Stations] /\ outcome \in [Requests -> Outcomes] /\ next[r] = 1
    BY DEF IInv, ExecTypes, HandlerInv
  <2>2. CASE Kind[r] = "open"
    BY <2>1, <2>2 DEF IInv, HandlerInv, LockInv
  <2>3. CASE Kind[r] # "open"
    BY <2>1, <2>3 DEF IInv, HandlerInv, LockInv
  <2> QED
    BY <2>2, <2>3
<1>3. \A q \in Requests \ {r} : Same(q)
  BY DEF IInv, ExecTypes, Same
<1>4. \A s \in Landed : tx'[s] = tx[s]
  BY LandedWasSent DEF Early, IInv, ExecTypes
<1>5. /\ at[r] \notin Early => at'[r] \notin Early
      /\ at'[r] = "confirm" => at[r] = "confirm"
      /\ at[r] # "idle" => at'[r] # "idle" /\ signature'[r] = signature[r]
  BY DEF IInv, ExecTypes, Early
<1>6. (Executed(r)' /\ Kind[r] # "decode") =>
          Executed(r) \/ (at[r] = "confirm" /\ r \in Landed \ Reverted)
  BY DEF IInv, ExecTypes, HandlerInv, Executed
<1>7. StoredBy(r)'
  <2>1. at \in [Requests -> Stations] /\ outcome \in [Requests -> Outcomes]
    BY DEF IInv, ExecTypes
  <2>2. CASE Kind[r] = "open"
    <3>1. signature'[r] = r /\ r \in Landed' /\ at'[r] = "decode" /\ outcome'[r] = "none"
      BY <2>1, <2>2, ChainFrame DEF IInv, HandlerInv, chainVars
    <3> QED
      BY <3>1 DEF StoredBy
  <2>3. CASE Kind[r] # "open"
    <3>1. at'[r] = "answered" /\ Kind[r] = "other"
      BY <2>1, <2>3 DEF IInv, HandlerInv, Kinds
    <3> QED
      BY <3>1 DEF StoredBy
  <2> QED
    BY <2>2, <2>3
<1> QED
  BY <1>1, <1>2, <1>3, <1>4, <1>5, <1>6, <1>7, HandlerStep DEF counters

(* An error promises nothing. *)
LEMMA ConfirmFailsKeeps ==
    ASSUME IInv, NEW r \in Requests, ConfirmFails(r)
    PROVE  IInv'
<1> USE DEF ConfirmFails, Answer
<1>1. ExecTypes'
  BY DEF IInv, ExecTypes, Transactions, Stations, Outcomes, chainVars, counters
<1>2. HandlerInv' /\ LockInv'
  BY DEF IInv, ExecTypes, HandlerInv, LockInv
<1>3. \A q \in Requests \ {r} : Same(q)
  BY DEF IInv, ExecTypes, Same
<1>4. \A s \in Landed : tx'[s] = tx[s]
  BY LandedWasSent DEF Early, IInv, ExecTypes
<1>5. /\ at[r] \notin Early => at'[r] \notin Early
      /\ at'[r] = "confirm" => at[r] = "confirm"
      /\ at[r] # "idle" => at'[r] # "idle" /\ signature'[r] = signature[r]
  BY DEF IInv, ExecTypes, Early
<1>6. (Executed(r)' /\ Kind[r] # "decode") =>
          Executed(r) \/ (at[r] = "confirm" /\ r \in Landed \ Reverted)
  BY DEF IInv, ExecTypes, HandlerInv, Executed
<1>7. StoredBy(r)'
  BY ChainFrame DEF IInv, ExecTypes, HandlerInv, StoreInv, StoredBy, ExecInv, chainVars, Rows
<1> QED
  BY <1>1, <1>2, <1>3, <1>4, <1>5, <1>6, <1>7, HandlerStep DEF counters

(* Without actions there is nothing to store. *)
LEMMA DecodeKeeps ==
    ASSUME IInv, NEW r \in Requests, Decode(r)
    PROVE  IInv'
<1> USE DEF Decode, Goto, Answer
<1>1. ExecTypes'
  BY DEF IInv, ExecTypes, Transactions, Stations, Outcomes, chainVars, counters
<1>2. HandlerInv' /\ LockInv'
  <2>1. /\ at \in [Requests -> Stations] /\ outcome \in [Requests -> Outcomes]
        /\ outcome[r] = "none" /\ next[r] = 1 /\ at[r] = "decode"
    BY DEF IInv, ExecTypes, HandlerInv
  <2>2. \/ at' = [at EXCEPT ![r] = "insert"] /\ outcome' = outcome
        \/ at' = [at EXCEPT ![r] = "answered"] /\ outcome' = [outcome EXCEPT ![r] = "ok"]
    OBVIOUS
  <2>3. HandlerInv'
    BY <2>1, <2>2 DEF IInv, HandlerInv
  <2>4. LockInv'
    BY <2>1, <2>2 DEF IInv, LockInv
  <2> QED
    BY <2>3, <2>4
<1>3. \A q \in Requests \ {r} : Same(q)
  BY DEF IInv, ExecTypes, Same
<1>4. \A s \in Landed : tx'[s] = tx[s]
  BY LandedWasSent DEF Early, IInv, ExecTypes
<1>5. /\ at[r] \notin Early => at'[r] \notin Early
      /\ at'[r] = "confirm" => at[r] = "confirm"
      /\ at[r] # "idle" => at'[r] # "idle" /\ signature'[r] = signature[r]
  BY DEF IInv, ExecTypes, Early
<1>6. (Executed(r)' /\ Kind[r] # "decode") =>
          Executed(r) \/ (at[r] = "confirm" /\ r \in Landed \ Reverted)
  BY DEF IInv, ExecTypes, HandlerInv, Executed
<1>7. StoredBy(r)'
  <2>1. /\ at \in [Requests -> Stations] /\ outcome \in [Requests -> Outcomes]
        /\ signature[r] \in Landed /\ signature[r] \in Requests /\ next[r] = 1
        /\ outcome[r] = "none"
    BY DEF IInv, ExecTypes, HandlerInv, StoreInv, StoredBy
  <2>2. signature'[r] \in Landed'
    BY <2>1, ChainFrame DEF chainVars
  <2>3. CASE tx[signature[r]] = <<>>
    <3>1. Rows(signature[r])' = {} /\ at'[r] = "answered"
      BY <2>1, <2>3 DEF Rows
    <3> QED
      BY <2>2, <3>1 DEF StoredBy
  <2>4. CASE tx[signature[r]] # <<>>
    <3>1. Len(tx[signature[r]]) \in Nat \ {0}
      BY <2>1, <2>4 DEF IInv, ExecTypes
    <3> QED
      BY <2>1, <2>2, <2>4, <3>1 DEF StoredBy
  <2> QED
    BY <2>3, <2>4
<1> QED
  BY <1>1, <1>2, <1>3, <1>4, <1>5, <1>6, <1>7, HandlerStep DEF counters

(* The last row completes the rows of the transaction. *)
LEMMA InsertRowKeeps ==
    ASSUME IInv, NEW r \in Requests, InsertRow(r)
    PROVE  IInv'
<1> USE DEF InsertRow, Answer
<1>1. ExecTypes'
  <2>1. next' \in [Requests -> Nat \ {0}]
    BY SMTT(20) DEF IInv, ExecTypes
  <2>2. at' \in [Requests -> Stations] /\ outcome' \in [Requests -> Outcomes]
    BY DEF IInv, ExecTypes, Stations, Outcomes
  <2>3. UNCHANGED <<signature, tx, lock, pool, sent, chain, backfills>>
    BY DEF chainVars, counters
  <2> QED
    BY <2>1, <2>2, <2>3 DEF IInv, ExecTypes, Transactions
<1>2. HandlerInv' /\ LockInv'
  <2>1. /\ at \in [Requests -> Stations] /\ outcome \in [Requests -> Outcomes]
        /\ next \in [Requests -> Nat \ {0}] /\ outcome[r] = "none" /\ at[r] = "insert"
    BY DEF IInv, ExecTypes, HandlerInv
  <2>2. \/ at' = at /\ outcome' = outcome
        \/ at' = [at EXCEPT ![r] = "answered"] /\ outcome' = [outcome EXCEPT ![r] = "ok"]
    OBVIOUS
  <2>3. HandlerInv'
    BY <2>1, <2>2 DEF IInv, HandlerInv
  <2>4. LockInv'
    BY <2>1, <2>2 DEF IInv, LockInv
  <2> QED
    BY <2>3, <2>4
<1>3. \A q \in Requests \ {r} : Same(q)
  BY DEF IInv, ExecTypes, Same
<1>4. \A s \in Landed : tx'[s] = tx[s]
  BY LandedWasSent DEF Early, IInv, ExecTypes
<1>5. /\ at[r] \notin Early => at'[r] \notin Early
      /\ at'[r] = "confirm" => at[r] = "confirm"
      /\ at[r] # "idle" => at'[r] # "idle" /\ signature'[r] = signature[r]
  BY DEF IInv, ExecTypes, Early
<1>6. (Executed(r)' /\ Kind[r] # "decode") =>
          Executed(r) \/ (at[r] = "confirm" /\ r \in Landed \ Reverted)
  BY DEF IInv, ExecTypes, HandlerInv, Executed
<1>7. StoredBy(r)'
  <2> DEFINE sig == signature[r]
  <2>1. /\ at \in [Requests -> Stations] /\ outcome \in [Requests -> Outcomes]
        /\ next \in [Requests -> Nat \ {0}] /\ sig \in Requests
        /\ tx[sig] \in Seq(Instructions) /\ outcome[r] = "none"
    BY DEF IInv, ExecTypes, HandlerInv
  <2>2. /\ sig \in Landed /\ next[r] <= Len(tx[sig])
        /\ \A n \in 1..(next[r] - 1) : <<sig, n>> \in log
    BY DEF IInv, StoreInv, StoredBy
  <2>3. \A n \in 1..next[r] : <<sig, n>> \in log'
    BY <2>1, <2>2, SMTT(20)
  <2>4. signature'[r] = sig /\ sig \in Landed' /\ next'[r] = next[r] + 1
    BY <2>1, <2>2, ChainFrame DEF chainVars
  <2>5. CASE next[r] = Len(tx[sig])
    <3>1. at'[r] = "answered"
      BY <2>1, <2>5
    <3>2. \A n \in DOMAIN tx'[sig] : <<sig, n>> \in log'
      <4>1. tx' = tx /\ DOMAIN tx[sig] = 1..next[r]
        BY <2>1, <2>5
      <4> QED
        BY <2>3, <4>1
    <3> QED
      BY <2>4, <3>1, <3>2 DEF StoredBy, Rows
  <2>6. CASE next[r] # Len(tx[sig])
    <3>1. at'[r] = "insert" /\ outcome'[r] = "none" /\ next'[r] <= Len(tx'[sig])
      BY <2>1, <2>2, <2>4, <2>6
    <3>2. \A n \in 1..(next'[r] - 1) : <<sig, n>> \in log'
      BY <2>1, <2>3, <2>4
    <3> QED
      BY <2>4, <3>1, <3>2 DEF StoredBy
  <2> QED
    BY <2>5, <2>6
<1> QED
  BY <1>1, <1>2, <1>3, <1>4, <1>5, <1>6, <1>7, HandlerStep DEF counters

(* A warning or an error is not an "ok". *)
LEMMA StoreFailsKeeps ==
    ASSUME IInv, NEW r \in Requests, StoreFails(r)
    PROVE  IInv'
<1> USE DEF StoreFails, Fails, Unstored, Answer, OtherCounters
<1>1. ExecTypes'
  BY DEF IInv, ExecTypes, Transactions, Stations, Outcomes, chainVars, counters
<1>2. HandlerInv' /\ LockInv'
  BY DEF IInv, ExecTypes, HandlerInv, LockInv
<1>3. \A q \in Requests \ {r} : Same(q)
  BY DEF IInv, ExecTypes, Same
<1>4. \A s \in Landed : tx'[s] = tx[s]
  BY LandedWasSent DEF Early, IInv, ExecTypes
<1>5. /\ at[r] \notin Early => at'[r] \notin Early
      /\ at'[r] = "confirm" => at[r] = "confirm"
      /\ at[r] # "idle" => at'[r] # "idle" /\ signature'[r] = signature[r]
  BY DEF IInv, ExecTypes, Early
<1>6. (Executed(r)' /\ Kind[r] # "decode") =>
          Executed(r) \/ (at[r] = "confirm" /\ r \in Landed \ Reverted)
  BY DEF IInv, ExecTypes, HandlerInv, Executed
<1>7. StoredBy(r)'
  BY ChainFrame DEF IInv, ExecTypes, HandlerInv, StoreInv, StoredBy, ExecInv, chainVars, Rows
<1> QED
  BY <1>1, <1>2, <1>3, <1>4, <1>5, <1>6, <1>7, HandlerStep DEF counters

(* Nor without a connection. *)
LEMMA InsertNoConnectionKeeps ==
    ASSUME IInv, NEW r \in Requests, InsertNoConnection(r)
    PROVE  IInv'
<1> USE DEF InsertNoConnection, Unstored, Answer
<1>1. ExecTypes'
  BY DEF IInv, ExecTypes, Transactions, Stations, Outcomes, chainVars, counters
<1>2. HandlerInv' /\ LockInv'
  BY DEF IInv, ExecTypes, HandlerInv, LockInv
<1>3. \A q \in Requests \ {r} : Same(q)
  BY DEF IInv, ExecTypes, Same
<1>4. \A s \in Landed : tx'[s] = tx[s]
  BY LandedWasSent DEF Early, IInv, ExecTypes
<1>5. /\ at[r] \notin Early => at'[r] \notin Early
      /\ at'[r] = "confirm" => at[r] = "confirm"
      /\ at[r] # "idle" => at'[r] # "idle" /\ signature'[r] = signature[r]
  BY DEF IInv, ExecTypes, Early
<1>6. (Executed(r)' /\ Kind[r] # "decode") =>
          Executed(r) \/ (at[r] = "confirm" /\ r \in Landed \ Reverted)
  BY DEF IInv, ExecTypes, HandlerInv, Executed
<1>7. StoredBy(r)'
  BY ChainFrame DEF IInv, ExecTypes, HandlerInv, StoreInv, StoredBy, ExecInv, chainVars, Rows
<1> QED
  BY <1>1, <1>2, <1>3, <1>4, <1>5, <1>6, <1>7, HandlerStep DEF counters

(* The preflight refuses a transaction, or it is the last one sent. *)
LEMMA SendKeeps ==
    ASSUME IInv, NEW r \in Requests, Send(r)
    PROVE  IInv'
<1> USE DEF Send, Goto, Answer
<1>1. at \in [Requests -> Stations] /\ outcome \in [Requests -> Outcomes] /\ outcome[r] = "none"
      /\ r \notin pool
  BY SMTT(20) DEF IInv, ExecTypes, HandlerInv, ChainInv, SentInv, Sent
<1>2. \A q \in Requests \ {r} : Same(q)
  BY <1>1 DEF Same
<1>3. HandlerInv'
  BY <1>1 DEF IInv, HandlerInv
<1>4. LockInv'
  BY <1>1 DEF IInv, LockInv
<1>5. CASE pool' = pool \cup {r} /\ sent' = Append(sent, r) /\ at' = [at EXCEPT ![r] = "confirm"]
           /\ UNCHANGED <<outcome, lock>>
  <2>1. ExecTypes'
    BY <1>5, SMTT(20) DEF IInv, ExecTypes, Transactions, Stations, counters
  <2> QED
    BY <1>1, <1>2, <1>3, <1>4, <1>5, <2>1, SendStep DEF counters
<1>6. CASE UNCHANGED <<pool, sent>> /\ at' = [at EXCEPT ![r] = "answered"]
           /\ outcome' = [outcome EXCEPT ![r] = "error"] /\ lock' = Nobody
  <2>1. ExecTypes'
    BY <1>6 DEF IInv, ExecTypes, Transactions, Stations, Outcomes, counters
  <2>2. StoredBy(r)' /\ ~Executed(r)'
    BY <1>1, <1>6 DEF StoredBy, Executed
  <2> QED
    BY <1>1, <1>2, <1>3, <1>4, <1>6, <2>1, <2>2, HandlerStep DEF counters, chainVars, Early
<1> QED
  BY <1>5, <1>6

(* The client has gone: what was under way may still be sent or written. *)
LEMMA CancelKeeps ==
    ASSUME IInv, NEW r \in Requests, Cancel(r)
    PROVE  IInv'
<1> USE DEF Cancel, Answer
<1>1. /\ at \in [Requests -> Stations] /\ outcome \in [Requests -> Outcomes]
      /\ outcome[r] = "none"
      /\ at[r] = "send" => r \notin pool
  BY SMTT(20) DEF IInv, ExecTypes, HandlerInv, ChainInv, SentInv, Sent
<1>2. \A q \in Requests \ {r} : Same(q)
  BY <1>1 DEF Same
<1>3. /\ at'[r] = "answered" /\ outcome'[r] = "gone"
      /\ at[r] \notin {"idle", "answered"}
      /\ UNCHANGED <<signature, next, tx, chain, backfill, backfills>>
  BY <1>1
<1>4. HandlerInv'
  BY <1>2, <1>3 DEF IInv, HandlerInv, Same
<1>5. LockInv'
  <2>1. \A q \in Requests \ {r} : lock = q => lock' = q
    OBVIOUS
  <2>2. \A q \in Requests : at'[q] \in {"send", "confirm"} => q # r /\ lock = q
    BY <1>2, <1>3 DEF IInv, LockInv, Same
  <2> QED
    BY <2>1, <2>2 DEF LockInv
<1>6. ExecTypes'
  BY <1>1, SMTT(20) DEF IInv, ExecTypes, Transactions, Stations, Outcomes
<1>7. CASE pool' = pool
  <2>1. StoredBy(r)' /\ ~Executed(r)'
    BY <1>3 DEF StoredBy, Executed
  <2>2. log \subseteq log' /\ \A row \in log' \ log : at[r] = "insert" /\ row[1] = signature[r]
    OBVIOUS
  <2> QED
    BY <1>2, <1>4, <1>5, <1>6, <1>7, <1>3, <2>1, <2>2, HandlerStep DEF chainVars, Early
<1>8. CASE pool' # pool
  <2>1. at[r] = "send" /\ pool' = pool \cup {r} /\ sent' = Append(sent, r) /\ log' = log
    BY <1>8
  <2> QED
    BY <1>1, <1>2, <1>4, <1>5, <1>6, <1>3, <2>1, SendStep
<1> QED
  BY <1>7, <1>8

(* A blockhash expires. *)
LEMMA ExpireKeeps ==
    ASSUME IInv, NEW r \in Requests, Expire(r)
    PROVE  IInv'
<1> USE DEF Expire, handlerVars, counters
<1>1. Landed' = Landed /\ Reverted' = Reverted
  BY ChainFrame
<1>2. ExecTypes' /\ HandlerInv' /\ LockInv'
  BY DEF IInv, ExecTypes, Transactions, HandlerInv, LockInv
<1>3. SentInv' /\ ChainInv'
  BY DEF IInv, SentInv, ChainInv, Sent
<1>4. \A q \in Requests : Executed(q)' <=> Executed(q)
  BY DEF Executed
<1>5. ExecInv' /\ OkInSendOrder'
  BY <1>1, <1>4, OrderFrame DEF IInv, ExecInv
<1>6. StoreInv' /\ RowInv'
  BY <1>1, StoredFrame, RowFrame DEF StoreInv, Same
<1> QED
  BY <1>2, <1>3, <1>5, <1>6 DEF IInv

(* Every handler that was under way has gone. *)
LEMMA RestartKeeps == IInv /\ Restart => IInv'
<1> SUFFICES ASSUME IInv, Restart PROVE IInv'
  OBVIOUS
<1> USE DEF Restart, chainVars
<1>1. /\ at \in [Requests -> Stations] /\ outcome \in [Requests -> Outcomes]
      /\ \A q \in Requests : q \in Running => at'[q] = "answered" /\ outcome'[q] = "gone"
      /\ \A q \in Requests \ Running : Same(q)
  BY DEF IInv, ExecTypes, Same, Running
<1>2. Landed' = Landed /\ Reverted' = Reverted
  BY ChainFrame
<1>3. ExecTypes'
  BY DEF IInv, ExecTypes, Transactions, Stations, Outcomes
<1>4. HandlerInv'
  BY <1>1 DEF IInv, HandlerInv, Running
<1>5. LockInv'
  BY <1>1 DEF IInv, LockInv, Running, Same
<1>6. SentInv'
  <2>1. \A q \in Requests : /\ at[q] \notin Early => at'[q] \notin Early
                            /\ at'[q] # "confirm"
    BY <1>1 DEF Running, Same, Early
  <2>2. \A i \in DOMAIN sent : sent[i] \in Requests /\ at[sent[i]] \notin Early
    BY DEF IInv, ExecTypes, SentInv, Early
  <2> QED
    BY <2>1, <2>2 DEF IInv, SentInv, Early
<1>7. ChainInv'
  BY DEF IInv, ChainInv, Sent
<1>8. \A q \in Requests : Executed(q)' => Executed(q)
  BY <1>1 DEF Executed, Same
<1>9. ExecInv' /\ OkInSendOrder'
  BY <1>2, <1>8, OrderFrame DEF IInv, ExecInv
<1>10. StoreInv'
  <2>1. \A q \in Running : StoredBy(q)'
    BY <1>1 DEF StoredBy, Running
  <2> QED
    BY <1>1, <1>2, <2>1, StoredFrame DEF StoreInv
<1>11. RowInv'
  <2>1. \A row \in log' \ log : \E q \in Requests : at[q] = "insert" /\ row[1] = signature[q]
    BY DEF Written
  <2>2. \A q \in Requests : at[q] # "idle" => at'[q] # "idle" /\ signature'[q] = signature[q]
    BY <1>1 DEF Running
  <2> QED
    BY <2>1, <2>2, RowFrame
<1> QED
  BY <1>3, <1>4, <1>5, <1>6, <1>7, <1>9, <1>10, <1>11 DEF IInv

(* The chain after a transaction has landed. *)
LEMMA LandAdds ==
    ASSUME IInv, NEW r \in Requests, Land(r)
    PROVE  /\ Len(chain) \in Nat /\ DOMAIN chain = 1..Len(chain)
           /\ chain' \in Seq(Transactions) /\ DOMAIN chain' = 1..(Len(chain) + 1)
           /\ chain'[Len(chain) + 1].sig = r
           /\ \A i \in DOMAIN chain : chain'[i] = chain[i]
           /\ Landed' = Landed \cup {r}
           /\ \A s : s # r => (s \in Reverted' <=> s \in Reverted)
<1>1. PICK slot \in Nat \ {0}, err \in BOOLEAN :
        chain' = Append(chain, [sig |-> r, slot |-> slot, err |-> err])
  <2> DEFINE last == IF chain = <<>> THEN 0 ELSE chain[Len(chain)].slot
  <2>1. chain # <<>> => chain[Len(chain)] \in Transactions
    BY DEF IInv, ExecTypes
  <2>2. last \in Nat /\ (chain # <<>> => last # 0)
    BY <2>1 DEF Transactions
  <2>3. PICK slot \in {last + 1} \cup (IF SlotsTie /\ chain # <<>> THEN {last} ELSE {}),
             err \in {e \in BOOLEAN : e => Cardinality(Reverted) < MaxReverts} :
          chain' = Append(chain, [sig |-> r, slot |-> slot, err |-> err])
    BY DEF Land
  <2>4. slot \in Nat \ {0}
    <3> HIDE DEF last
    <3> QED
      BY <2>2
  <2> QED
    BY <2>3, <2>4
<1> DEFINE new == [sig |-> r, slot |-> slot, err |-> err]
<1>2. /\ chain \in Seq(Transactions) /\ new \in Transactions /\ Len(chain) \in Nat
      /\ DOMAIN chain = 1..Len(chain) /\ DOMAIN chain' = 1..(Len(chain) + 1)
      /\ chain'[Len(chain) + 1] = new /\ \A i \in DOMAIN chain : chain'[i] = chain[i]
      /\ chain' \in Seq(Transactions) /\ new.sig = r
  <2>1. chain \in Seq(Transactions)
    BY DEF IInv, ExecTypes
  <2>2. new \in Transactions /\ new.sig = r
    BY DEF Transactions
  <2> QED
    BY <1>1, <2>1, <2>2, Appended
<1>3. /\ Landed' = Landed \cup {r}
      /\ \A s : s # r => (s \in Reverted' <=> s \in Reverted)
  <2>1. \A s : s \in Landed' <=> \E i \in DOMAIN chain' : chain'[i].sig = s
    BY DEF Landed
  <2>2. \A s : s \in Reverted' <=> \E i \in DOMAIN chain' : chain'[i].sig = s /\ chain'[i].err
    BY DEF Reverted
  <2>3. \A i : i \in DOMAIN chain' <=> (i \in DOMAIN chain \/ i = Len(chain) + 1)
    BY <1>2, SMTT(20)
  <2>4. /\ \A i \in DOMAIN chain : chain'[i].sig = chain[i].sig /\ chain'[i].err = chain[i].err
        /\ chain'[Len(chain) + 1].sig = r
    BY <1>2
  <2> HIDE DEF new
  <2>5. \A s : s \in Landed' <=> (s \in Landed \/ s = r)
    <3> SUFFICES ASSUME NEW s PROVE s \in Landed' <=> (s \in Landed \/ s = r)
      OBVIOUS
    <3> QED
      BY <2>1, <2>3, <2>4, InLanded
  <2>6. ASSUME NEW s, s # r PROVE s \in Reverted' <=> s \in Reverted
    BY <2>2, <2>3, <2>4, <2>6, InLanded
  <2> QED
    BY <2>5, <2>6
<1> QED
  BY <1>2, <1>3

(* What lands does so after everything that has landed. *)
LEMMA LandKeeps ==
    ASSUME IInv, NEW r \in Requests, Land(r)
    PROVE  IInv'
<1> USE DEF handlerVars, counters
<1>1. /\ Len(chain) \in Nat /\ DOMAIN chain = 1..Len(chain)
      /\ DOMAIN chain' = 1..(Len(chain) + 1) /\ chain'[Len(chain) + 1].sig = r
      /\ \A i \in DOMAIN chain : chain'[i] = chain[i]
  BY LandAdds
<1>2. /\ r \in pool /\ r \notin Landed /\ pool' = pool \ {r}
      /\ UNCHANGED <<handlerVars, lock, sent, log, backfill, backfills>>
  BY LandedWasSent DEF Land
<1>3. /\ Landed' = Landed \cup {r}
      /\ \A s : s # r => (s \in Reverted' <=> s \in Reverted)
  BY LandAdds
<1>4. ExecTypes' /\ HandlerInv' /\ LockInv'
  <2>1. chain' \in Seq(Transactions)
    BY LandAdds
  <2> QED
    BY <1>2, <2>1 DEF IInv, ExecTypes, Transactions, HandlerInv, LockInv
<1>5. SentInv'
  BY <1>2 DEF IInv, SentInv
<1>6. ChainInv'
  <2>1. \A i \in DOMAIN chain : chain[i].sig # r
    BY <1>2, InLanded
  <2>2. \A i, j \in DOMAIN chain' : chain'[i].sig = chain'[j].sig => i = j
    <3> SUFFICES ASSUME NEW i \in DOMAIN chain', NEW j \in DOMAIN chain',
                        chain'[i].sig = chain'[j].sig
                 PROVE  i = j
      OBVIOUS
    <3>1. \A k \in DOMAIN chain' : k \in DOMAIN chain \/ k = Len(chain) + 1
      BY <1>1, SMTT(20)
    <3>2. \A k \in DOMAIN chain : chain'[k].sig = chain[k].sig
      BY <1>1
    <3> QED
      BY <1>1, <2>1, <3>1, <3>2 DEF IInv, ChainInv
  <2>3. \A i \in DOMAIN chain' : chain'[i].sig \notin pool' /\ Sent(chain'[i].sig)
    <3> SUFFICES ASSUME NEW i \in DOMAIN chain'
                 PROVE  chain'[i].sig \notin pool' /\ Sent(chain'[i].sig)
      OBVIOUS
    <3>1. CASE i \in DOMAIN chain
      BY <1>1, <1>2, <3>1 DEF IInv, ChainInv
    <3>2. CASE i = Len(chain) + 1
      BY <1>1, <1>2, <3>2 DEF IInv, ChainInv
    <3> QED
      BY <1>1, <3>1, <3>2
  <2> QED
    BY <1>2, <2>2, <2>3 DEF IInv, ChainInv, Sent
<1>7. \A q \in Requests : Executed(q)' <=> Executed(q)
  BY <1>2 DEF Executed
<1>8. ExecInv'
  BY <1>2, <1>3, <1>7 DEF IInv, ExecInv
<1>9. StoreInv'
  BY <1>2, <1>3, StoredFrame DEF StoreInv, Same
<1>10. RowInv'
  BY <1>2, <1>3 DEF IInv, RowInv
<1>11. OkInSendOrder'
  <2>1. \A i \in DOMAIN chain : chain[i].sig # r /\ Place(chain[i].sig) = i
    BY <1>2, InLanded DEF IInv, ChainInv, Place
  <2>2. \A s, i : (i \in DOMAIN chain' /\ chain'[i].sig = s) => Place(s)' = i
    BY <1>6 DEF ChainInv, Place
  <2>3. \A s \in Landed : Place(s)' = Place(s) /\ Place(s) \in 1..Len(chain)
    <3> SUFFICES ASSUME NEW s \in Landed
                 PROVE  Place(s)' = Place(s) /\ Place(s) \in 1..Len(chain)
      OBVIOUS
    <3>1. PICK i \in DOMAIN chain : chain[i].sig = s
      BY InLanded
    <3>2. Place(s) = i
      BY <2>1, <3>1
    <3>3. i \in DOMAIN chain' /\ chain'[i].sig = s
      BY <1>1, <3>1
    <3> QED
      BY <1>1, <2>2, <3>1, <3>2, <3>3
  <2>4. Place(r)' = Len(chain) + 1
    BY <1>1, <2>2, Len(chain) + 1 \in DOMAIN chain'
  <2>5. SUFFICES ASSUME NEW i \in DOMAIN sent, NEW j \in DOMAIN sent, i < j,
                        Executed(sent[i])
                 PROVE  /\ sent[i] \in Landed'
                        /\ sent[j] \in Landed' => Place(sent[i])' < Place(sent[j])'
    <3>1. sent' = sent
      BY <1>2
    <3>2. \A i \in DOMAIN sent : sent[i] \in Requests
      BY DEF IInv, ExecTypes
    <3>3. \A i \in DOMAIN sent : Executed(sent[i])' => Executed(sent[i])
      BY <1>2, <3>1, <3>2 DEF Executed
    <3> QED
      BY <3>1, <3>3 DEF OkInSendOrder
  <2>6. sent[i] \in Landed /\ (sent[j] \in Landed => Place(sent[i]) < Place(sent[j]))
    BY <2>5 DEF IInv, OkInSendOrder
  <2>7. sent'[i] = sent[i] /\ sent'[j] = sent[j]
    BY <1>2
  <2>8. Place(sent[i])' = Place(sent[i]) /\ Place(sent[i]) \in 1..Len(chain)
    BY <2>3, <2>6, <2>7
  <2>9. CASE sent[j] = r
    <3>1. Place(sent[j])' = Len(chain) + 1
      BY <2>4, <2>7, <2>9
    <3> QED
      BY <1>1, <1>3, <2>6, <2>7, <2>8, <3>1
  <2>10. CASE sent[j] # r
    <3>1. sent[j] \in Landed => Place(sent[j])' = Place(sent[j])
      BY <2>3, <2>7
    <3> QED
      BY <1>3, <2>6, <2>7, <2>8, <2>10, <3>1
  <2> QED
    BY <2>9, <2>10
<1> QED
  BY <1>4, <1>5, <1>6, <1>8, <1>9, <1>10, <1>11 DEF IInv

(* The backfill runs, or nothing but the connection and a reader changes. *)
LEMMA BackfillKeeps == IInv /\ (Backfill \/ History \/ DropConnection \/ Quiescent) => IInv'
<1> SUFFICES ASSUME IInv, Backfill \/ History \/ DropConnection \/ Quiescent PROVE IInv'
  OBVIOUS
<1>0. backfills \in Nat /\ (backfills = 0 => backfill.at = "idle")
  BY DEF IInv, ExecTypes, RowInv
<1>1. CASE StartBackfill
  BY <1>0, <1>1, LogStep DEF StartBackfill
<1>2. CASE FetchPage \/ PageFails \/ DecodeNext \/ BackfillRow \/ BackfillFails
  <2>1. backfills # 0 /\ backfills' = backfills /\ log \subseteq log'
        /\ UNCHANGED <<handlerVars, lock, chainVars>>
    BY <1>0, <1>2 DEF FetchPage, PageFails, DecodeNext, BackfillRow, BackfillFails,
                      OtherCounters, counters
  <2> QED
    BY <1>0, <2>1, LogStep
<1>3. CASE History \/ DropConnection \/ Quiescent
  <2>1. UNCHANGED <<handlerVars, lock, chainVars, log, backfill, backfills>>
    BY <1>3 DEF History, ReadHistory, HistoryNoConnection, CloseHistory, DropConnection,
                Quiescent, counters, vars
  <2> QED
    BY <1>0, <2>1, LogStep
<1> QED
  BY <1>1, <1>2, <1>3 DEF Backfill

-----------------------------------------------------------------------------
(* The theorems. *)

(* Every step keeps the invariant. *)
LEMMA Preserved == IInv /\ [Next]_vars => IInv'
<1> SUFFICES ASSUME IInv, [Next]_vars PROVE IInv'
  OBVIOUS
<1>1. ASSUME NEW r \in Requests, Build(r) \/ AskDecode(r) \/ Execute(r) \/ Store(r) \/ Cancel(r)
      PROVE  IInv'
  BY <1>1, BuildKeeps, AskDecodeKeeps, TakeLockKeeps, SendKeeps, ConfirmedKeeps,
     ConfirmFailsKeeps, DecodeKeeps, InsertRowKeeps, StoreFailsKeeps, InsertNoConnectionKeeps,
     CancelKeeps DEF Execute, Store
<1>2. CASE Chain
  BY <1>2, LandKeeps, ExpireKeeps DEF Chain
<1>3. CASE Restart
  BY <1>3, RestartKeeps
<1>4. CASE Backfill \/ History \/ DropConnection \/ Quiescent
  BY <1>4, BackfillKeeps
<1>5. CASE UNCHANGED vars
  <2>1. UNCHANGED <<handlerVars, lock, chainVars, log, backfill, backfills>>
    BY <1>5 DEF vars, counters
  <2>2. backfills \in Nat /\ (backfills = 0 => backfill.at = "idle")
    BY DEF IInv, ExecTypes, RowInv
  <2> QED
    BY <2>1, <2>2, LogStep
<1> QED
  BY <1>1, <1>2, <1>3, <1>4, <1>5 DEF Next

(* IInv holds in every reachable state of the routes, the executor and the *)
(* log.                                                                    *)
THEOREM Invariant == Spec => []IInv
BY Initial, Preserved, PTL DEF Spec

(* The executor's lock orders what the server's key signs: what was        *)
(* executed without an error has landed before all that was sent later.    *)
THEOREM OkInSendOrderHolds == Spec => []OkInSendOrder
<1>1. IInv => OkInSendOrder
  BY DEF IInv
<1> QED
  BY <1>1, Invariant, PTL

(* A route never stores the actions of its own transaction if that one has *)
(* landed and failed.                                                      *)
THEOREM RevertedOnlyOnRequestHolds == Spec => []RevertedOnlyOnRequest
<1>1. IInv => RevertedOnlyOnRequest
  BY DEF IInv, RowInv, RevertedOnlyOnRequest
<1> QED
  BY <1>1, Invariant, PTL

-----------------------------------------------------------------------------
(***************************************************************************)
(* The routes, the executor and the log carry out ExecutionContract, for   *)
(* any set of requests, routes and faults: every step that keeps IInv is a *)
(* step of the contract, or changes nothing that it speaks of.             *)
(***************************************************************************)

(* What the contract calls the fate of a transaction. *)
LEMMA Fates ==
    ASSUME IInv, NEW r \in Requests
    PROVE  /\ Fate[r] = "reverted" <=> r \in Reverted
           /\ Fate[r] = "landed" <=> r \in Landed \ Reverted
           /\ Fate[r] = "flying" <=> r \in pool
           /\ Fate[r] = "unsent" <=> ~Sent(r)
<1>1. r \in Reverted => r \in Landed
  BY InLanded
<1>2. r \in Landed => r \notin pool /\ Sent(r)
  BY LandedWasSent
<1>3. r \in pool => Sent(r)
  BY DEF IInv, ChainInv
<1> QED
  BY <1>1, <1>2, <1>3 DEF Fate

(* What has landed, for the contract, is what has landed. *)
LEMMA ContractLanded ==
    ASSUME IInv
    PROVE  Contract!Landed = Landed
<1>1. \A r \in Requests : r \in Landed <=> Fate[r] \in {"landed", "reverted"}
  BY Fates, InLanded
<1>2. Landed \subseteq Requests
  BY LandedWasSent
<1> QED
  BY <1>1, <1>2 DEF Contract!Landed

(* A fate changes only as the chain does. *)
LEMMA FateFrame ==
    ASSUME UNCHANGED chainVars
    PROVE  Fate' = Fate
<1>1. Landed' = Landed /\ Reverted' = Reverted /\ pool' = pool /\ sent' = sent
  BY ChainFrame DEF chainVars
<1> QED
  BY <1>1 DEF Fate, Sent

(* The log only grows, and a landed transaction is built no more. *)
LEMMA StoredGrows ==
    ASSUME IInv, chain' = chain, log \subseteq log', \A s \in Landed : tx'[s] = tx[s]
    PROVE  Contract!Stores
<1>1. Landed' = Landed
  BY ChainFrame
<1>2. \A s \in Landed : Rows(s)' = Rows(s)
  BY DEF Rows
<1>3. Stored \subseteq Stored' /\ Stored' \subseteq Landed
  BY <1>1, <1>2 DEF Stored
<1> QED
  BY <1>3, ContractLanded DEF Contract!Stores

(* A step that answers nobody stores, or nothing. *)
LEMMA SilentStep ==
    ASSUME IInv, UNCHANGED <<chainVars, signature, outcome>>,
           log \subseteq log', \A s \in Landed : tx'[s] = tx[s]
    PROVE  Contract!Next
BY FateFrame, StoredGrows DEF Contract!Next, Contract!Store, chainVars

(* An answer says what the invariant knows of its request. *)
LEMMA AnswerStep ==
    ASSUME IInv, IInv', NEW r \in Requests, outcome[r] = "none",
           UNCHANGED <<chainVars, signature>>,
           log \subseteq log', \A s \in Landed : tx'[s] = tx[s],
           NEW what \in {"ok", "unlogged", "error", "gone"},
           outcome' = [outcome EXCEPT ![r] = what]
    PROVE  Contract!Next
<1>1. Fate' = Fate /\ Contract!Stores /\ r \in Contract!Open
  BY FateFrame, StoredGrows DEF chainVars, Contract!Open
<1>2. CASE what = "gone"
  BY <1>1, <1>2 DEF Contract!Next, Contract!Leave
<1>3. CASE what # "gone"
  <2>1. outcome'[r] = what /\ Landed' = Landed /\ Reverted' = Reverted /\ signature' = signature
    BY ChainFrame DEF IInv, ExecTypes, chainVars
  <2>2. (what \in {"ok", "unlogged"} /\ Kind[r] # "decode") => Fate[r] = "landed"
    <3>1. (what \in {"ok", "unlogged"} /\ Kind[r] # "decode") => r \in Landed \ Reverted
      BY <2>1 DEF IInv, ExecInv, Executed
    <3> QED
      BY <3>1, Fates
  <2>3. (what = "ok" /\ Kind[r] # "other") => signature[r] \in Stored'
    BY <2>1 DEF IInv, StoreInv, StoredBy, Stored
  <2>4. Contract!Answer(r, what)
    BY <1>1, <2>2, <2>3 DEF Contract!Answer
  <2> QED
    BY <1>3, <2>4 DEF Contract!Next
<1> QED
  BY <1>2, <1>3

(* What a handler has been sent is what flies. *)
LEMMA Flies ==
    ASSUME IInv, NEW r \in Requests, at[r] = "send", chain' = chain,
           pool' = pool \cup {r}, sent' = Append(sent, r)
    PROVE  Fate[r] = "unsent" /\ Fate' = [Fate EXCEPT ![r] = "flying"]
<1>1. ~Sent(r)
  BY DEF IInv, SentInv, Sent
<1>2. Fate[r] = "unsent" /\ r \notin Landed
  BY <1>1, Fates, LandedWasSent
<1>3. Landed' = Landed /\ Reverted' = Reverted /\ r \notin Reverted
  BY <1>2, ChainFrame, InLanded
<1>4. \A q \in Requests \ {r} : Sent(q)' <=> Sent(q)
  <2>1. sent \in Seq(Requests)
    BY DEF IInv, ExecTypes
  <2>2. /\ Len(sent) \in Nat /\ DOMAIN sent = 1..Len(sent) /\ DOMAIN sent' = 1..(Len(sent) + 1)
        /\ sent'[Len(sent) + 1] = r /\ \A i \in DOMAIN sent : sent'[i] = sent[i]
    BY <2>1, Appended
  <2>3. \A i : i \in DOMAIN sent' <=> (i \in DOMAIN sent \/ i = Len(sent) + 1)
    BY <2>2
  <2> QED
    BY <2>2, <2>3 DEF Sent
<1>5. \A q \in Requests : Fate'[q] = IF q = r THEN "flying" ELSE Fate[q]
  BY <1>2, <1>3, <1>4 DEF Fate
<1> QED
  BY <1>2, <1>5 DEF Fate
-----------------------------------------------------------------------------
(* The actions. *)

(* What is built later is not what has landed. *)
LEMMA Unbuilt ==
    ASSUME IInv, NEW r \in Requests, at[r] = "idle", NEW shape, tx' = [tx EXCEPT ![r] = shape]
    PROVE  \A s \in Landed : tx'[s] = tx[s]
BY LandedWasSent DEF IInv, ExecTypes, Early

(* A step of a handler that leaves the chain and what was asked alone. *)
LEMMA HandlerRefines ==
    ASSUME IInv, IInv', NEW r \in Requests, at[r] \notin {"answered"},
           UNCHANGED <<chainVars, signature>>,
           log \subseteq log', \A s \in Landed : tx'[s] = tx[s],
           \/ outcome' = outcome
           \/ \E what \in {"ok", "unlogged", "error", "gone"} :
                 outcome' = [outcome EXCEPT ![r] = what]
    PROVE  Contract!Next
<1>1. outcome[r] = "none"
  BY DEF IInv, HandlerInv
<1> QED
  BY <1>1, SilentStep, AnswerStep

(* The routes, but for what they send. *)
LEMMA RoutesRefine ==
    ASSUME IInv, IInv', NEW r \in Requests,
           \/ Build(r) \/ TakeLock(r) \/ Confirmed(r) \/ ConfirmFails(r)
           \/ Decode(r) \/ InsertRow(r) \/ StoreFails(r) \/ InsertNoConnection(r)
    PROVE  Contract!Next
<1>1. CASE Build(r)
  BY <1>1, Unbuilt, HandlerRefines DEF Build, Goto, Answer
<1>2. CASE TakeLock(r)
  BY <1>2, HandlerRefines DEF TakeLock, Goto
<1>3. CASE Confirmed(r)
  BY <1>3, HandlerRefines DEF Confirmed, Goto, Answer
<1>4. CASE ConfirmFails(r)
  BY <1>4, HandlerRefines DEF ConfirmFails, Answer
<1>5. CASE Decode(r)
  BY <1>5, HandlerRefines DEF Decode, Goto, Answer
<1>6. CASE InsertRow(r)
  BY <1>6, HandlerRefines DEF InsertRow, Answer
<1>7. CASE StoreFails(r)
  BY <1>7, HandlerRefines DEF StoreFails, Unstored, Answer
<1>8. CASE InsertNoConnection(r)
  BY <1>8, HandlerRefines DEF InsertNoConnection, Unstored, Answer
<1> QED
  BY <1>1, <1>2, <1>3, <1>4, <1>5, <1>6, <1>7, <1>8

(* A decode request asks about what has landed. *)
LEMMA AskRefines ==
    ASSUME IInv, NEW r \in Requests, AskDecode(r)
    PROVE  Contract!Next
<1>1. Fate' = Fate
  BY FateFrame DEF AskDecode
<1>2. Stored' = Stored
  BY ChainFrame DEF AskDecode, chainVars, Stored, Rows
<1>3. r \in Contract!Open
  BY DEF AskDecode, IInv, HandlerInv, Contract!Open
<1>4. Contract!Asks(r)
  BY <1>1, <1>2, <1>3, ContractLanded DEF AskDecode, Goto, Contract!Asks
<1> QED
  BY <1>4 DEF Contract!Next

(* A sequence that has an element more is another one. *)
LEMMA Grown ==
    ASSUME IInv, NEW r \in Requests
    PROVE  Append(sent, r) # sent
<1>1. sent \in Seq(Requests)
  BY DEF IInv, ExecTypes
<1>2. Len(sent) \in Nat /\ Len(Append(sent, r)) = Len(sent) + 1
  BY <1>1, Appended
<1> QED
  BY <1>2

(* A transaction is sent while its request waits for the answer. *)
LEMMA SendRefines ==
    ASSUME IInv, IInv', NEW r \in Requests, Send(r)
    PROVE  Contract!Next
<1>1. CASE sent' = sent
  <2>1. outcome' = outcome \/ outcome' = [outcome EXCEPT ![r] = "error"]
    BY DEF Send, Goto, Answer
  <2>2. pool' = pool
    BY <1>1, Grown DEF Send
  <2> QED
    BY <1>1, <2>1, <2>2, HandlerRefines DEF Send, chainVars
<1>2. CASE sent' # sent
  <2>1. /\ pool' = pool \cup {r} /\ sent' = Append(sent, r) /\ outcome' = outcome
        /\ UNCHANGED <<signature, tx, chain, log>>
    BY <1>2 DEF Send, Goto
  <2>2. Fate[r] = "unsent" /\ Fate' = [Fate EXCEPT ![r] = "flying"]
    BY <2>1, Flies DEF Send
  <2>3. r \in Contract!Open /\ Kind[r] # "decode"
    BY DEF Send, IInv, HandlerInv, Contract!Open
  <2>4. Stored' = Stored
    BY <2>1, ChainFrame DEF Stored, Rows
  <2> QED
    BY <2>1, <2>2, <2>3, <2>4 DEF Contract!Next, Contract!Submit, Contract!Sends
<1> QED
  BY <1>1, <1>2

(* A client leaves, perhaps as its transaction is sent. *)
LEMMA CancelRefines ==
    ASSUME IInv, IInv', NEW r \in Requests, Cancel(r)
    PROVE  Contract!Next
<1>1. outcome' = [outcome EXCEPT ![r] = "gone"] /\ UNCHANGED <<signature, tx, chain>>
  BY DEF Cancel, Answer
<1>2. log \subseteq log' /\ at[r] # "answered" /\ outcome[r] = "none"
  BY DEF Cancel, IInv, HandlerInv
<1>3. CASE pool' = pool
  <2>1. sent' = sent
    BY <1>3 DEF Cancel
  <2> QED
    BY <1>1, <1>2, <1>3, <2>1, HandlerRefines DEF chainVars
<1>4. CASE pool' # pool
  <2>1. at[r] = "send" /\ pool' = pool \cup {r} /\ sent' = Append(sent, r)
    BY <1>4 DEF Cancel
  <2>2. Fate[r] = "unsent" /\ Fate' = [Fate EXCEPT ![r] = "flying"]
    BY <1>1, <2>1, Flies
  <2>3. r \in Contract!Open /\ Kind[r] # "decode"
    BY <1>2, <2>1 DEF IInv, HandlerInv, Contract!Open
  <2>4. Contract!Stores
    BY <1>1, <1>2, StoredGrows
  <2> QED
    BY <1>1, <2>2, <2>3, <2>4 DEF Contract!Next, Contract!Leave, Contract!Sends
<1> QED
  BY <1>3, <1>4

(* What lands was flying; one without actions has none to store. *)
LEMMA LandRefines ==
    ASSUME IInv, IInv', NEW r \in Requests, Land(r)
    PROVE  Contract!Next
<1>1. /\ r \in pool /\ pool' = pool \ {r} /\ r \notin Landed /\ r \notin Reverted
      /\ UNCHANGED <<signature, outcome, tx, sent, log>>
  BY LandedWasSent, InLanded DEF Land, handlerVars
<1>2. Landed' = Landed \cup {r} /\ \A s : s # r => (s \in Reverted' <=> s \in Reverted)
  BY LandAdds
<1>3. Sent(r) /\ \A q \in Requests : Sent(q)' <=> Sent(q)
  BY <1>1 DEF Sent, IInv, ChainInv
<1>4. PICK how \in {"landed", "reverted"} : how = IF r \in Reverted' THEN "reverted" ELSE "landed"
  OBVIOUS
<1>5. Fate[r] = "flying" /\ Fate' = [Fate EXCEPT ![r] = how]
  <2>1. \A q \in Requests : Fate'[q] = IF q = r THEN how ELSE Fate[q]
    BY <1>1, <1>2, <1>3, <1>4 DEF Fate
  <2> QED
    BY <1>1, <2>1, Fates DEF Fate
<1>6. Stored' \in {Stored, Stored \cup {r}}
  <2>1. \A s : Rows(s)' = Rows(s)
    BY <1>1 DEF Rows
  <2> QED
    BY <1>1, <1>2, <2>1 DEF Stored
<1> QED
  BY <1>1, <1>5, <1>6 DEF Contract!Next, Contract!Land

(* What expires was flying. *)
LEMMA ExpireRefines ==
    ASSUME IInv, NEW r \in Requests, Expire(r)
    PROVE  Contract!Next
<1>1. /\ r \in pool /\ pool' = pool \ {r} /\ UNCHANGED <<signature, outcome, tx, chain, sent, log>>
  BY DEF Expire, handlerVars
<1>2. Landed' = Landed /\ Reverted' = Reverted /\ r \notin Landed /\ r \notin Reverted
  BY <1>1, ChainFrame, LandedWasSent, InLanded
<1>3. Sent(r) /\ \A q \in Requests : Sent(q)' <=> Sent(q)
  BY <1>1 DEF Sent, IInv, ChainInv
<1>4. Fate[r] = "flying" /\ Fate' = [Fate EXCEPT ![r] = "expired"]
  <2>1. \A q \in Requests : Fate'[q] = IF q = r THEN "expired" ELSE Fate[q]
    BY <1>1, <1>2, <1>3 DEF Fate
  <2> QED
    BY <1>1, <2>1, Fates DEF Fate
<1>5. Stored' = Stored
  BY <1>1, <1>2 DEF Stored, Rows
<1> QED
  BY <1>1, <1>4, <1>5 DEF Contract!Next, Contract!Expire

(* Who was under way when the server died is gone. *)
LEMMA RestartRefines == IInv /\ Restart => Contract!Next
<1> SUFFICES ASSUME IInv, Restart PROVE Contract!Next
  OBVIOUS
<1>1. /\ outcome' = [r \in Requests |-> IF r \in Running THEN "gone" ELSE outcome[r]]
      /\ UNCHANGED <<signature, tx, chainVars>> /\ log \subseteq log'
  BY DEF Restart
<1>2. Running \in SUBSET Contract!Open
  BY DEF Running, Contract!Open, IInv, HandlerInv
<1>3. Fate' = Fate /\ Contract!Stores
  BY <1>1, FateFrame, StoredGrows DEF chainVars
<1>4. Contract!Restart
  BY <1>1, <1>2, <1>3 DEF Contract!Restart
<1> QED
  BY <1>4 DEF Contract!Next

(* The backfill, the readers and the database answer no request. *)
LEMMA BackfillRefines ==
    IInv /\ (Backfill \/ History \/ DropConnection \/ Quiescent) => Contract!Next
<1> SUFFICES ASSUME IInv, Backfill \/ History \/ DropConnection \/ Quiescent
             PROVE  Contract!Next
  OBVIOUS
<1>1. UNCHANGED <<handlerVars, chainVars>> /\ log \subseteq log'
  BY DEF Backfill, StartBackfill, FetchPage, PageFails, DecodeNext, BackfillRow, BackfillFails,
         History, ReadHistory, HistoryNoConnection, CloseHistory, DropConnection, Quiescent, vars
<1> QED
  BY <1>1, SilentStep DEF handlerVars

-----------------------------------------------------------------------------
(* The theorem. *)

LEMMA ContractInit == Init => Contract!Init
<1> SUFFICES ASSUME Init PROVE Contract!Init
  OBVIOUS
<1>1. Landed = {} /\ Reverted = {} /\ pool = {} /\ \A r : ~Sent(r)
  BY DEF Init, Landed, Reverted, Sent
<1>2. Fate = [r \in Requests |-> "unsent"] /\ Stored = {}
  BY <1>1 DEF Fate, Stored
<1> QED
  BY <1>2 DEF Init, Contract!Init

(* Every step is one of the contract's. *)
LEMMA ContractStep ==
    IInv /\ IInv' /\ [Next]_vars => [Contract!Next]_Contract!contractVars
<1> SUFFICES ASSUME IInv, IInv', [Next]_vars
             PROVE  Contract!Next \/ UNCHANGED Contract!contractVars
  OBVIOUS
<1>1. ASSUME NEW r \in Requests, Build(r) \/ AskDecode(r) \/ Execute(r) \/ Store(r) \/ Cancel(r)
      PROVE  Contract!Next
  BY <1>1, RoutesRefine, AskRefines, SendRefines, CancelRefines DEF Execute, Store
<1>2. CASE Chain
  BY <1>2, LandRefines, ExpireRefines DEF Chain
<1>3. CASE Restart
  BY <1>3, RestartRefines
<1>4. CASE Backfill \/ History \/ DropConnection \/ Quiescent
  BY <1>4, BackfillRefines
<1>5. CASE UNCHANGED vars
  <2>1. UNCHANGED <<handlerVars, chainVars, log>>
    BY <1>5 DEF vars
  <2> QED
    BY <2>1, SilentStep DEF handlerVars
<1> QED
  BY <1>1, <1>2, <1>3, <1>4, <1>5 DEF Next

(* An answer of the API tells what happened to the transaction and to its  *)
(* rows, however handlers interleave and whatever is lost, cancelled or    *)
(* restarted.                                                              *)
THEOREM ImplementsContractHolds == Spec => ImplementsContract
<1>1. IInv /\ IInv' /\ [Next]_vars => [Contract!Next]_Contract!contractVars
  BY ContractStep
<1> QED
  BY <1>1, ContractInit, Invariant, PTL DEF Spec, ImplementsContract, Contract!Spec

-----------------------------------------------------------------------------
(***************************************************************************)
(* The backfill and the history.  What has landed stays where it is, so    *)
(* that the signatures a run has collected are a stretch of the chain,     *)
(* from the newest there was at its first page down to the last it was     *)
(* given; below it there is nothing left, or the run has its limit.  An    *)
(* answered history speaks of rows that stay, of at most three to a        *)
(* transaction: three times as many rows as entries are enough.            *)
(***************************************************************************)

(* A row tells of an instruction of a landed transaction. *)
LogInv ==
    /\ db \in {"up", "down"}
    /\ \A r \in Requests : Len(tx[r]) <= 3
    /\ \A row \in log : \E sig \in Landed : row \in Rows(sig)

(* What a backfill has collected: a stretch of the chain, newest first,    *)
(* whose top is the newest transaction there was at its first page.        *)
Held(sig) == \E k \in DOMAIN backfill.acc : backfill.acc[k] = sig
Stretch(top) ==
    LET low == top - Len(backfill.acc) + 1
    IN  /\ Len(backfill.acc) \in 1..BackfillLimit /\ low >= 1
        /\ Last(backfill.acc) = chain[low].sig
        /\ \A i \in low..top : Held(chain[i].sig)
        /\ \A sig \in backfill.newest : \E i \in DOMAIN chain :
              chain[i].sig = sig /\ top - BackfillLimit < i /\ i <= top

BackfillInv ==
    /\ backfill \in [at : {"idle", "first", "page", "decode", "insert", "done"},
                     acc : Seq(Requests), next : Nat \ {0}, newest : SUBSET Requests,
                     clean : BOOLEAN]
    /\ backfill.newest \subseteq Landed
    /\ \A k \in DOMAIN backfill.acc : backfill.acc[k] \in Landed
    /\ backfill.at \in {"first", "page", "decode"} => backfill.next = 1
    /\ backfill.at = "first" => backfill.acc = <<>>
    /\ backfill.at = "page" => \E top \in DOMAIN chain : Stretch(top)
    /\ (backfill.at \in {"decode", "insert", "done"} /\ backfill.clean) =>
           \A sig \in backfill.newest : Held(sig) \/ Rows(sig) \subseteq log
    /\ backfill.at = "insert" =>
           /\ backfill.acc # <<>> /\ backfill.next <= Len(tx[Current])
           /\ \A n \in 1..(backfill.next - 1) : <<Current, n>> \in log
    /\ backfill.at = "done" => backfill.acc = <<>>

(* A history that was answered speaks of rows of the log. *)
HistoryInv ==
    /\ history.at \in {"idle", "answered"} /\ history.rows \subseteq log
    /\ history.at = "answered" =>
           /\ \A e \in history.entries : e.sig \in SigsOf(history.rows)
           /\ HistoryTellsTheLog

RecordInv == LogInv /\ BackfillInv /\ HistoryInv

HIDE ActionLogAssumption DEF ActionLogAssumption

LEMMA Limits ==
    /\ BackfillLimit \in Nat \ {0} /\ PageCap \in Nat \ {0} /\ HistoryLimit \in Nat \ {0}
    /\ Kind \in [Requests -> Kinds]
BY ActionLogAssumption DEF ActionLogAssumption

(* The signature a run is at is one it has collected. *)
LEMMA CurrentIsHeld ==
    ASSUME BackfillInv, backfill.acc # <<>>
    PROVE  /\ Current \in Landed /\ Held(Current) /\ Tail(backfill.acc) \in Seq(Requests)
           /\ \A k \in DOMAIN Tail(backfill.acc) : Tail(backfill.acc)[k] \in Landed
           /\ \A sig : Held(sig) =>
                 \/ sig = Current
                 \/ \E k \in DOMAIN Tail(backfill.acc) : Tail(backfill.acc)[k] = sig
<1> DEFINE acc == backfill.acc
<1>1. acc \in Seq(Requests) /\ acc # <<>> /\ \A k \in DOMAIN acc : acc[k] \in Landed
  BY DEF BackfillInv
<1> HIDE DEF acc
<1>2. /\ Len(acc) \in Nat \ {0} /\ DOMAIN acc = 1..Len(acc) /\ Head(acc) = acc[1]
      /\ Tail(acc) \in Seq(Requests) /\ DOMAIN Tail(acc) = 1..(Len(acc) - 1)
      /\ \A k \in 1..(Len(acc) - 1) : Tail(acc)[k] = acc[k + 1]
  BY <1>1
<1>3. 1 \in DOMAIN acc /\ \A k \in 1..(Len(acc) - 1) : k + 1 \in DOMAIN acc
  BY <1>2
<1>4. \A k \in DOMAIN acc : k = 1 \/ (k - 1 \in 1..(Len(acc) - 1) /\ Tail(acc)[k - 1] = acc[k])
  BY <1>2
<1>5. Head(acc) \in Landed /\ \A k \in DOMAIN Tail(acc) : Tail(acc)[k] \in Landed
  BY <1>1, <1>2, <1>3
<1>6. ASSUME NEW sig, NEW k \in DOMAIN acc, acc[k] = sig
      PROVE  sig = Head(acc) \/ \E l \in DOMAIN Tail(acc) : Tail(acc)[l] = sig
  BY <1>2, <1>4, <1>6
<1> QED
  BY <1>2, <1>3, <1>5, <1>6 DEF acc, Held, Current

(* Places. *)

LEMMA OwnPlace ==
    ASSUME NEW seq \in Seq(Transactions), \A i, j \in DOMAIN seq : seq[i].sig = seq[j].sig => i = j,
           NEW i \in DOMAIN seq
    PROVE  (CHOOSE j \in DOMAIN seq : seq[j].sig = seq[i].sig) = i
OBVIOUS

LEMMA PlaceIs ==
    ASSUME IInv
    PROVE  /\ Len(chain) \in Nat /\ DOMAIN chain = 1..Len(chain)
           /\ \A i \in DOMAIN chain : chain[i].sig \in Landed /\ Place(chain[i].sig) = i
           /\ \A s \in Landed : Place(s) \in DOMAIN chain /\ chain[Place(s)].sig = s
<1>1. chain \in Seq(Transactions) /\ \A i, j \in DOMAIN chain : chain[i].sig = chain[j].sig => i = j
  BY DEF IInv, ExecTypes, ChainInv
<1>2. Len(chain) \in Nat /\ DOMAIN chain = 1..Len(chain)
  BY <1>1
<1>3. \A i \in DOMAIN chain : chain[i].sig \in Landed /\ Place(chain[i].sig) = i
  BY <1>1, OwnPlace, InLanded DEF Place
<1>4. \A s \in Landed : \E i \in DOMAIN chain : chain[i].sig = s
  BY InLanded
<1> QED
  BY <1>2, <1>3, <1>4

(* A step leaves what has landed, and what was logged, where it is. *)
LEMMA RecordsStay ==
    ASSUME IInv, [Next]_vars
    PROVE  /\ Landed \subseteq Landed' /\ log \subseteq log'
           /\ \A i \in DOMAIN chain : i \in DOMAIN chain' /\ chain'[i] = chain[i]
           /\ \A s \in Landed : tx'[s] = tx[s]
<1>1. CASE chain' = chain /\ tx' = tx /\ log \subseteq log'
  BY <1>1 DEF Landed
<1>2. ASSUME NEW r \in Requests, Build(r)
      PROVE  UNCHANGED <<chain, log>> /\ \A s \in Landed : tx'[s] = tx[s]
  BY <1>2, Unbuilt DEF Build, chainVars
<1>3. ASSUME NEW r \in Requests, Land(r)
      PROVE  /\ Landed' = Landed \cup {r} /\ UNCHANGED <<tx, log>>
             /\ \A i \in DOMAIN chain : i \in DOMAIN chain' /\ chain'[i] = chain[i]
  <2>1. UNCHANGED <<tx, log>>
    BY <1>3 DEF Land, handlerVars
  <2>2. Landed' = Landed \cup {r}
    BY <1>3, LandAdds
  <2>3. \A i \in DOMAIN chain : i \in DOMAIN chain' /\ chain'[i] = chain[i]
    BY <1>3, LandAdds
  <2> QED
    BY <2>1, <2>2, <2>3
<1>4. ASSUME NEW r \in Requests, AskDecode(r) \/ Execute(r) \/ Store(r) \/ Cancel(r) \/ Expire(r)
      PROVE  chain' = chain /\ tx' = tx /\ log \subseteq log'
  BY <1>4 DEF AskDecode, Execute, TakeLock, Send, Confirmed, ConfirmFails, Store, Decode,
              InsertRow, StoreFails, InsertNoConnection, Cancel, Expire, handlerVars, chainVars
<1>5. CASE Restart \/ DropConnection \/ Backfill \/ History \/ Quiescent
  <2>1. chain' = chain /\ tx' = tx /\ log \subseteq log'
    BY <1>5 DEF Restart, DropConnection, Backfill, StartBackfill, FetchPage, PageFails,
                DecodeNext, BackfillRow, BackfillFails, History, ReadHistory,
                HistoryNoConnection, CloseHistory, Quiescent, vars, handlerVars, chainVars
  <2> QED
    BY <1>1, <2>1
<1>6. CASE UNCHANGED vars
  BY <1>1, <1>6 DEF vars, handlerVars, chainVars
<1>7. CASE \E r \in Requests : Build(r)
  BY <1>2, <1>7 DEF Landed
<1>8. CASE \E r \in Requests : Land(r)
  BY <1>3, <1>8
<1>9. CASE \E r \in Requests : AskDecode(r) \/ Execute(r) \/ Store(r) \/ Cancel(r) \/ Expire(r)
  BY <1>1, <1>4, <1>9
<1> QED
  BY <1>5, <1>6, <1>7, <1>8, <1>9 DEF Next, Chain

LEMMA PlacesStay ==
    ASSUME IInv, IInv', [Next]_vars
    PROVE  \A s \in Landed : Place(s)' = Place(s) /\ Slot(s)' = Slot(s)
<1> SUFFICES ASSUME NEW s \in Landed PROVE Place(s)' = Place(s) /\ Slot(s)' = Slot(s)
  OBVIOUS
<1>1. PICK i \in DOMAIN chain : chain[i].sig = s /\ Place(s) = i
  BY PlaceIs
<1>2. i \in DOMAIN chain' /\ chain'[i] = chain[i]
  BY RecordsStay
<1>3. (CHOOSE j \in DOMAIN chain' : chain'[j].sig = chain'[i].sig) = i
  BY <1>2, OwnPlace DEF IInv, ExecTypes, ChainInv
<1>4. Place(s)' = i
  BY <1>1, <1>2, <1>3 DEF Place
<1> QED
  BY <1>1, <1>2, <1>4 DEF Slot, Place

(* Who writes rows. *)
LEMMA RowsCome ==
    ASSUME IInv, [Next]_vars, NEW row \in log'
    PROVE  \/ row \in log
           \/ \E q \in Requests : at[q] = "insert" /\ row = <<signature[q], next[q]>>
           \/ BackfillRow /\ row = <<Current, backfill.next>>
<1>1. ASSUME NEW r \in Requests, Build(r) \/ AskDecode(r) \/ Execute(r) \/ Decode(r)
                                 \/ StoreFails(r) \/ InsertNoConnection(r) \/ Land(r) \/ Expire(r)
      PROVE  log' = log
  BY <1>1 DEF Build, AskDecode, Execute, TakeLock, Send, Confirmed, ConfirmFails, Decode,
              StoreFails, InsertNoConnection, Land, Expire
<1>2. ASSUME NEW r \in Requests, InsertRow(r) \/ Cancel(r)
      PROVE  row \in log \/ (at[r] = "insert" /\ row = <<signature[r], next[r]>>)
  BY <1>2 DEF InsertRow, Cancel
<1>3. CASE Restart
  <2>1. row \in log \/ row \in Written
    BY <1>3 DEF Restart
  <2> QED
    BY <2>1 DEF Written
<1>4. CASE BackfillRow
  BY <1>4 DEF BackfillRow
<1>5. CASE \/ DropConnection \/ StartBackfill \/ FetchPage \/ PageFails \/ DecodeNext
           \/ BackfillFails \/ History \/ Quiescent \/ UNCHANGED vars
  <2>1. log' = log
    BY <1>5 DEF DropConnection, StartBackfill, FetchPage, PageFails, DecodeNext, BackfillFails,
                History, ReadHistory, HistoryNoConnection, CloseHistory, Quiescent, vars
  <2> QED
    BY <2>1
<1> QED
  BY <1>1, <1>2, <1>3, <1>4, <1>5 DEF Next, Chain, Store, Backfill

LEMMA RowOf ==
    ASSUME IInv, NEW sig \in Requests, NEW n \in Nat \ {0}, n <= Len(tx[sig])
    PROVE  <<sig, n>> \in Rows(sig)
<1>1. DOMAIN tx[sig] = 1..Len(tx[sig]) /\ Len(tx[sig]) \in Nat
  BY DEF IInv, ExecTypes
<1> QED
  BY <1>1 DEF Rows

LEMMA LogKept ==
    ASSUME IInv, LogInv, BackfillInv, [Next]_vars
    PROVE  LogInv'
<1>1. ASSUME NEW r \in Requests
      PROVE  Len(tx'[r]) <= 3
  <2>1. ASSUME NEW q \in Requests, Build(q)
        PROVE  Len(tx'[r]) <= 3
    <3>1. CASE tx' = tx
      BY <3>1 DEF LogInv
    <3>2. ASSUME NEW shape \in Shapes[Kind[q]], tx' = [tx EXCEPT ![q] = shape]
          PROVE  Len(tx'[r]) <= 3
      <4>1. Len(shape) <= 3
        BY Limits, <2>1, ShapesAssumption DEF Build
      <4> QED
        BY <3>2, <4>1 DEF LogInv, IInv, ExecTypes
    <3> QED
      BY <2>1, <3>1, <3>2 DEF Build
  <2>2. ASSUME NEW q \in Requests, \/ AskDecode(q) \/ Execute(q) \/ Store(q) \/ Cancel(q)
                                   \/ Land(q) \/ Expire(q)
        PROVE  tx' = tx
    BY <2>2 DEF AskDecode, Execute, TakeLock, Send, Confirmed, ConfirmFails, Store, Decode,
                InsertRow, StoreFails, InsertNoConnection, Cancel, Land, Expire, handlerVars
  <2>3. CASE Restart \/ DropConnection \/ Backfill \/ History \/ Quiescent \/ UNCHANGED vars
    <3>1. tx' = tx
      BY <2>3 DEF Restart, DropConnection, Backfill, StartBackfill, FetchPage, PageFails,
                  DecodeNext, BackfillRow, BackfillFails, History, ReadHistory,
                  HistoryNoConnection, CloseHistory, Quiescent, vars, handlerVars
    <3> QED
      BY <3>1 DEF LogInv
  <2>4. CASE \E q \in Requests : \/ AskDecode(q) \/ Execute(q) \/ Store(q) \/ Cancel(q)
                                 \/ Land(q) \/ Expire(q)
    BY <2>2, <2>4 DEF LogInv
  <2> QED
    BY <2>1, <2>3, <2>4 DEF Next, Chain
<1>2. ASSUME NEW row \in log'
      PROVE  \E sig \in Landed' : row \in Rows(sig)'
  <2>1. ASSUME NEW sig \in Landed, row \in Rows(sig)
        PROVE  sig \in Landed' /\ row \in Rows(sig)'
    BY <2>1, RecordsStay DEF Rows
  <2>2. CASE row \in log
    BY <2>1, <2>2 DEF LogInv
  <2>3. ASSUME NEW q \in Requests, at[q] = "insert", row = <<signature[q], next[q]>>
        PROVE  \E sig \in Landed : row \in Rows(sig)
    <3>1. /\ signature[q] \in Landed /\ signature[q] \in Requests /\ next[q] \in Nat \ {0}
          /\ next[q] <= Len(tx[signature[q]])
      BY <2>3 DEF IInv, StoreInv, StoredBy, ExecTypes
    <3> QED
      BY <2>3, <3>1, RowOf
  <2>4. ASSUME BackfillRow, row = <<Current, backfill.next>>
        PROVE  \E sig \in Landed : row \in Rows(sig)
    <3>1. Current \in Landed /\ backfill.next <= Len(tx[Current]) /\ backfill.next \in Nat \ {0}
      BY <2>4, CurrentIsHeld DEF BackfillRow, BackfillInv
    <3>2. Current \in Requests
      BY <3>1, LandedWasSent
    <3> QED
      BY <2>4, <3>1, <3>2, RowOf
  <2> QED
    BY <2>1, <2>2, <2>3, <2>4, RowsCome
<1>3. db' \in {"up", "down"}
  <2>1. ASSUME NEW q \in Requests, \/ Build(q) \/ AskDecode(q) \/ Execute(q) \/ Store(q)
                                   \/ Cancel(q) \/ Land(q) \/ Expire(q)
        PROVE  db' = db
    BY <2>1 DEF Build, AskDecode, Execute, TakeLock, Send, Confirmed, ConfirmFails, Store, Decode,
                InsertRow, StoreFails, InsertNoConnection, Cancel, Land, Expire
  <2>2. CASE Backfill \/ History \/ Quiescent \/ UNCHANGED vars
    <3>1. db' = db
      BY <2>2 DEF Backfill, StartBackfill, FetchPage, PageFails, DecodeNext, BackfillRow,
                  BackfillFails, History, ReadHistory, HistoryNoConnection, CloseHistory,
                  Quiescent, vars
    <3> QED
      BY <3>1 DEF LogInv
  <2>3. CASE Restart \/ DropConnection
    BY <2>3 DEF Restart, DropConnection
  <2> QED
    BY <2>1, <2>2, <2>3 DEF Next, Chain, LogInv
<1> QED
  BY <1>1, <1>2, <1>3 DEF LogInv

-----------------------------------------------------------------------------
(* Stretches of the chain. *)

Between(a, b) == {s \in Landed : a <= Place(s) /\ Place(s) <= b}

LEMMA CountPlaces ==
    ASSUME IInv, NEW a \in Nat \ {0}, NEW b \in Int, b <= Len(chain)
    PROVE  /\ IsFiniteSet(Between(a, b))
           /\ Cardinality(Between(a, b)) = IF a > b THEN 0 ELSE b - a + 1
<1> DEFINE f == [i \in a..b |-> chain[i].sig]
<1>1. \A i \in a..b : i \in DOMAIN chain
  BY PlaceIs
<1>2. \A i \in a..b : f[i] \in Between(a, b) /\ Place(f[i]) = i
  BY <1>1, PlaceIs DEF Between
<1>3. \A s \in Between(a, b) : Place(s) \in a..b /\ f[Place(s)] = s
  BY PlaceIs DEF Between
<1>4. f \in Bijection(a..b, Between(a, b))
  <2>1. f \in [a..b -> Between(a, b)]
    BY <1>2
  <2>2. \A i, j \in a..b : f[i] = f[j] => i = j
    BY <1>2
  <2> HIDE DEF f
  <2> QED
    BY <1>3, <2>1, <2>2, Fun_IsBij
<1>5. ExistsBijection(a..b, Between(a, b))
  BY <1>4 DEF ExistsBijection
<1>6. /\ IsFiniteSet(a..b)
      /\ Cardinality(a..b) = IF a > b THEN 0 ELSE b - a + 1
  <2>1. a \in Int
    OBVIOUS
  <2> QED
    BY <2>1, FS_Interval
<1> QED
  BY <1>5, <1>6, FS_Bijection

LEMMA LandedIsFinite ==
    ASSUME IInv
    PROVE  /\ IsFiniteSet(Landed) /\ Cardinality(Landed) = Len(chain)
           /\ Landed = Between(1, Len(chain))
<1>1. Landed = Between(1, Len(chain)) /\ Len(chain) \in Nat
  BY PlaceIs DEF Between
<1> QED
  BY <1>1, CountPlaces

(* The ones of a stretch that are newer than one of it, *)
LEMMA NewerIs ==
    ASSUME IInv, NEW a \in Nat \ {0}, NEW b \in Int, b <= Len(chain), NEW s \in Between(a, b)
    PROVE  Newer(Between(a, b), s) = b - Place(s)
<1>1. Place(s) \in Nat \ {0} /\ a <= Place(s) /\ Place(s) <= b
  BY PlaceIs DEF Between
<1>2. \A t \in Landed : Place(t) \in Nat
  BY PlaceIs
<1>3. {t \in Between(a, b) : Place(t) > Place(s)} = Between(Place(s) + 1, b)
  BY <1>1, <1>2 DEF Between
<1>4. Cardinality(Between(Place(s) + 1, b)) = b - Place(s)
  BY <1>1, CountPlaces
<1> QED
  BY <1>3, <1>4 DEF Newer

(* the newest of what is at most at a place, *)
LEMMA NewestIs ==
    ASSUME IInv, NEW b \in Int, b <= Len(chain), NEW n \in Nat
    PROVE  Newest(Between(1, b), n) = Between(b - n + 1, b)
<1>1. ASSUME NEW s \in Between(1, b)
      PROVE  Newer(Between(1, b), s) < n <=> b - n + 1 <= Place(s)
  <2>1. Newer(Between(1, b), s) = b - Place(s)
    BY NewerIs
  <2>2. Place(s) \in Int
    BY PlaceIs DEF Between
  <2> QED
    BY <2>1, <2>2
<1>2. \A s : s \in Between(b - n + 1, b) <=> (s \in Between(1, b) /\ b - n + 1 <= Place(s))
  BY PlaceIs DEF Between
<1> QED
  BY <1>1, <1>2 DEF Newest

(* and a stretch from its newest to its oldest. *)
LEMMA NewestFirstIs ==
    ASSUME IInv, NEW a \in Nat \ {0}, NEW b \in Int, a <= b, b <= Len(chain)
    PROVE  NewestFirst(Between(a, b)) = [k \in 1..(b - a + 1) |-> chain[b - k + 1].sig]
<1> DEFINE S == Between(a, b)
<1>1. Cardinality(S) = b - a + 1
  BY CountPlaces
<1>2. ASSUME NEW k \in 1..(b - a + 1)
      PROVE  (CHOOSE sig \in S : Newer(S, sig) = k - 1) = chain[b - k + 1].sig
  <2> DEFINE s == chain[b - k + 1].sig
  <2>1. b - k + 1 \in DOMAIN chain /\ a <= b - k + 1 /\ b - k + 1 <= b
    BY PlaceIs
  <2>2. s \in S /\ Place(s) = b - k + 1
    BY <2>1, PlaceIs DEF Between
  <2>3. \A t \in S : Newer(S, t) = b - Place(t) /\ Place(t) \in Int /\ chain[Place(t)].sig = t
    BY NewerIs, PlaceIs DEF Between
  <2> HIDE DEF S
  <2>4. Newer(S, s) = k - 1
    <3>1. Newer(S, s) = b - Place(s)
      BY <2>2, <2>3
    <3> QED
      BY <2>2, <3>1
  <2>5. \A t \in S : Newer(S, t) = k - 1 => t = s
    <3> SUFFICES ASSUME NEW t \in S, Newer(S, t) = k - 1
                 PROVE  t = s
      OBVIOUS
    <3>1. Newer(S, t) = b - Place(t) /\ Place(t) \in Int /\ chain[Place(t)].sig = t
      BY <2>3
    <3>2. \A p \in Int : b - p = k - 1 => p = b - k + 1
      OBVIOUS
    <3>3. b - Place(t) = k - 1
      BY <3>1
    <3>4. Place(t) = b - k + 1
      BY <3>1, <3>2, <3>3
    <3> QED
      BY <3>1, <3>4 DEF s
  <2> HIDE DEF s
  <2>6. (CHOOSE sig \in S : Newer(S, sig) = k - 1) = s
    BY <2>2, <2>4, <2>5
  <2> QED
    BY <2>6 DEF s
<1>3. NewestFirst(S) = [k \in 1..(b - a + 1) |-> CHOOSE sig \in S : Newer(S, sig) = k - 1]
  BY <1>1 DEF NewestFirst
<1> HIDE DEF S
<1>4. NewestFirst(S) = [k \in 1..(b - a + 1) |-> chain[b - k + 1].sig]
  BY <1>2, <1>3
<1> QED
  BY <1>4 DEF S

-----------------------------------------------------------------------------
(* The backfill. *)

(* A step of anything else leaves it where it is. *)
LEMMA BackfillFrame ==
    ASSUME IInv, BackfillInv, [Next]_vars, backfill' = backfill
    PROVE  BackfillInv'
<1>1. /\ Landed \subseteq Landed' /\ log \subseteq log'
      /\ \A i \in DOMAIN chain : i \in DOMAIN chain' /\ chain'[i] = chain[i]
      /\ \A s \in Landed : tx'[s] = tx[s]
  BY RecordsStay
<1>2. \A s : Held(s)' <=> Held(s)
  BY DEF Held
<1>3. \A s \in Landed : Rows(s)' = Rows(s)
  BY <1>1 DEF Rows
<1>4. ASSUME NEW top \in DOMAIN chain, Stretch(top)
      PROVE  top \in DOMAIN chain' /\ Stretch(top)'
  <2> DEFINE low == top - Len(backfill.acc) + 1
  <2>1. /\ Len(backfill.acc) \in 1..BackfillLimit /\ low >= 1
        /\ Last(backfill.acc) = chain[low].sig
        /\ \A i \in low..top : Held(chain[i].sig)
        /\ \A sig \in backfill.newest : \E i \in DOMAIN chain :
              chain[i].sig = sig /\ top - BackfillLimit < i /\ i <= top
    BY <1>4 DEF Stretch
  <2>2. /\ low \in Int /\ top \in Int /\ low <= top
        /\ DOMAIN chain = 1..Len(chain) /\ Len(chain) \in Nat
    BY <2>1, PlaceIs
  <2> HIDE DEF low
  <2>3. \A i \in low..top : i \in DOMAIN chain /\ chain'[i] = chain[i]
    BY <1>1, <2>1, <2>2
  <2>4. Last(backfill.acc) = chain'[low].sig /\ \A i \in low..top : Held(chain'[i].sig)
    BY <2>1, <2>2, <2>3
  <2>5. \A sig \in backfill.newest : \E i \in DOMAIN chain' :
              chain'[i].sig = sig /\ top - BackfillLimit < i /\ i <= top
    <3> SUFFICES ASSUME NEW sig \in backfill.newest
                 PROVE  \E i \in DOMAIN chain' :
                           chain'[i].sig = sig /\ top - BackfillLimit < i /\ i <= top
      OBVIOUS
    <3>1. PICK i \in DOMAIN chain : chain[i].sig = sig /\ top - BackfillLimit < i /\ i <= top
      BY <2>1
    <3> QED
      BY <1>1, <3>1
  <2> QED
    BY <1>1, <1>2, <2>1, <2>4, <2>5 DEF Stretch, low
<1>5. /\ backfill \in [at : {"idle", "first", "page", "decode", "insert", "done"},
                       acc : Seq(Requests), next : Nat \ {0}, newest : SUBSET Requests,
                       clean : BOOLEAN]
      /\ backfill.newest \subseteq Landed'
      /\ \A k \in DOMAIN backfill.acc : backfill.acc[k] \in Landed'
  BY <1>1 DEF BackfillInv
<1>6. backfill.at = "page" => \E top \in DOMAIN chain' : Stretch(top)'
  BY <1>4 DEF BackfillInv
<1>7. ASSUME backfill.at \in {"decode", "insert", "done"}, backfill.clean,
             NEW sig \in backfill.newest
      PROVE  Held(sig)' \/ Rows(sig)' \subseteq log'
  <2>1. sig \in Landed /\ (Held(sig) \/ Rows(sig) \subseteq log)
    BY <1>7 DEF BackfillInv
  <2> QED
    BY <1>1, <1>2, <1>3, <2>1
<1>8. ASSUME backfill.at = "insert"
      PROVE  /\ backfill.acc # <<>> /\ backfill.next <= Len(tx'[Current])
             /\ \A n \in 1..(backfill.next - 1) : <<Current, n>> \in log'
  <2>1. /\ backfill.acc # <<>> /\ backfill.next <= Len(tx[Current])
        /\ \A n \in 1..(backfill.next - 1) : <<Current, n>> \in log
    BY <1>8 DEF BackfillInv
  <2>2. Current \in Landed
    BY <2>1, CurrentIsHeld
  <2> QED
    BY <1>1, <2>1, <2>2
<1>9. /\ backfill.at \in {"first", "page", "decode"} => backfill.next = 1
      /\ backfill.at = "first" => backfill.acc = <<>>
      /\ backfill.at = "done" => backfill.acc = <<>>
  BY DEF BackfillInv
<1>10. Current' = Current
  BY DEF Current
<1> HIDE DEF Current
<1> QED
  BY <1>5, <1>6, <1>7, <1>8, <1>9, <1>10 DEF BackfillInv

(* What a sequence holds when a page is appended. *)
Joins(S, acc, page, full) ==
    /\ full \in Seq(S) /\ Len(full) = Len(acc) + Len(page)
    /\ DOMAIN full = 1..(Len(acc) + Len(page))
    /\ \A k \in DOMAIN acc : k \in DOMAIN full /\ full[k] = acc[k]
    /\ \A k \in 1..Len(page) : Len(acc) + k \in DOMAIN full /\ full[Len(acc) + k] = page[k]

LEMMA Paged ==
    ASSUME NEW S, NEW acc \in Seq(S), NEW page \in Seq(S)
    PROVE  \A full : full = acc \o page => Joins(S, acc, page, full)
<1> SUFFICES ASSUME NEW full, full = acc \o page
             PROVE  Joins(S, acc, page, full)
  OBVIOUS
<1>1. Len(acc) \in Nat /\ DOMAIN acc = 1..Len(acc) /\ Len(page) \in Nat
  OBVIOUS
<1>2. /\ full \in Seq(S) /\ Len(full) = Len(acc) + Len(page)
      /\ \A k \in 1..(Len(acc) + Len(page)) : full[k] = IF k <= Len(acc) THEN acc[k]
                                                        ELSE page[k - Len(acc)]
  OBVIOUS
<1>3. DOMAIN full = 1..(Len(acc) + Len(page))
  BY <1>1, <1>2
<1> QED
  BY <1>1, <1>2, <1>3 DEF Joins

(* A page is the stretch below the last signature the run was given. *)
LEMMA PageIs ==
    ASSUME IInv, NEW b \in Nat, b <= Len(chain), Older = Between(1, b),
           Len(backfill.acc) \in 0..BackfillLimit
    PROVE  \E n \in Nat, a \in Nat \ {0} :
              /\ n <= BackfillLimit - Len(backfill.acc) /\ a <= b + 1 /\ b - n + 1 <= a
              /\ Page = Between(a, b)
              /\ a = b + 1 => b = 0 \/ Len(backfill.acc) = BackfillLimit
<1> DEFINE n == Smaller(BackfillLimit - Len(backfill.acc), PageCap)
           a == IF b - n + 1 < 1 THEN 1 ELSE b - n + 1
<1>1. n \in Nat /\ n <= BackfillLimit - Len(backfill.acc)
      /\ (n = 0 => Len(backfill.acc) = BackfillLimit)
  <2>1. PICK left \in Nat : left = BackfillLimit - Len(backfill.acc)
    <3>1. BackfillLimit \in Nat
      BY Limits
    <3>2. Len(backfill.acc) \in Nat /\ Len(backfill.acc) <= BackfillLimit
      BY <3>1
    <3>3. BackfillLimit - Len(backfill.acc) \in Nat
      BY <3>1, <3>2
    <3> QED
      BY <3>3
  <2>2. n = IF left < PageCap THEN left ELSE PageCap
    BY <2>1 DEF Smaller
  <2>3. n \in Nat /\ n <= left /\ (n = 0 => left = 0)
    BY Limits, <2>2
  <2>4. left = 0 => Len(backfill.acc) = BackfillLimit
    BY Limits, <2>1
  <2> QED
    BY <2>1, <2>3, <2>4
<1>2. Page = Newest(Between(1, b), n)
  BY DEF Page
<1> HIDE DEF n
<1>3. Page = Between(b - n + 1, b)
  BY <1>1, <1>2, NewestIs
<1>4. a \in Nat \ {0} /\ a <= b + 1 /\ b - n + 1 <= a /\ (a = b + 1 => b = 0 \/ n = 0)
  BY <1>1
<1>5. Between(b - n + 1, b) = Between(a, b)
  <2>1. \A s \in Landed : Place(s) \in Nat \ {0}
    BY PlaceIs
  <2> QED
    BY <1>1, <2>1 DEF Between
<1> HIDE DEF a
<1> QED
  BY <1>1, <1>3, <1>4, <1>5

(* What the backfill keeps, of a state that it may be in. *)
BackfillTypes(it) ==
    it \in [at : {"idle", "first", "page", "decode", "insert", "done"},
            acc : Seq(Requests), next : Nat \ {0}, newest : SUBSET Requests, clean : BOOLEAN]

LEMMA StartKeeps ==
    ASSUME IInv, BackfillInv, StartBackfill
    PROVE  BackfillInv'
<1>1. backfill' = [at |-> "first", acc |-> <<>>, next |-> 1, newest |-> {}, clean |-> TRUE]
  BY DEF StartBackfill
<1>2. backfill'.at = "first" /\ backfill'.acc = <<>> /\ backfill'.next = 1 /\ backfill'.newest = {}
  BY <1>1
<1>3. BackfillTypes(backfill')
  BY <1>1 DEF BackfillTypes
<1> QED
  BY <1>2, <1>3 DEF BackfillInv, BackfillTypes

LEMMA FetchKeeps ==
    ASSUME IInv, BackfillInv, FetchPage
    PROVE  BackfillInv'
<1> DEFINE L == Len(chain)
           acc == backfill.acc
<1>1. /\ BackfillTypes(backfill) /\ acc \in Seq(Requests) /\ Len(acc) \in Nat
      /\ DOMAIN acc = 1..Len(acc)
      /\ backfill.newest \subseteq Landed /\ \A k \in DOMAIN acc : acc[k] \in Landed
      /\ backfill.next = 1 /\ backfill.at \in {"first", "page"}
  BY DEF BackfillInv, BackfillTypes, FetchPage
<1>2. L \in Nat /\ DOMAIN chain = 1..L /\ Landed \subseteq Requests
  BY PlaceIs, LandedWasSent
<1>3. UNCHANGED <<chain, log, tx>>
  BY DEF FetchPage, chainVars, handlerVars
<1>4. Landed' = Landed /\ \A s : Rows(s)' = Rows(s)
  BY <1>3 DEF Landed, Rows
(* Where the run is: at the top of the chain, or at the end of its stretch. *)
<1> DEFINE newest == IF backfill.at = "first" THEN Newest(Landed, BackfillLimit)
                     ELSE backfill.newest
<1>5. \E top \in Nat, b \in Nat :
         /\ top <= L /\ b <= L /\ b = top - Len(acc) /\ Older = Between(1, b)
         /\ Len(acc) \in 0..BackfillLimit
         /\ \A i \in (b + 1)..top : Held(chain[i].sig)
         /\ \A sig \in newest : \E i \in DOMAIN chain :
               chain[i].sig = sig /\ top - BackfillLimit < i /\ i <= top
  <2>1. CASE backfill.at = "first"
    <3>1. acc = <<>> /\ Len(acc) = 0
      BY <2>1 DEF BackfillInv
    <3>2. Older = Between(1, L)
      BY <3>1, LandedIsFinite DEF Older
    <3>3. newest = Between(L - BackfillLimit + 1, L)
      <4>1. BackfillLimit \in Nat /\ L \in Int /\ L <= Len(chain)
        BY Limits, <1>2
      <4>2. Newest(Between(1, L), BackfillLimit) = Between(L - BackfillLimit + 1, L)
        BY <4>1, NewestIs
      <4> QED
        BY <2>1, <4>2, LandedIsFinite
    <3>4. ASSUME NEW sig \in newest
          PROVE  \E i \in DOMAIN chain : chain[i].sig = sig /\ L - BackfillLimit < i /\ i <= L
      <4>1. /\ sig \in Landed /\ L - BackfillLimit + 1 <= Place(sig) /\ Place(sig) <= L
        BY <3>3 DEF Between
      <4>2. Place(sig) \in DOMAIN chain /\ chain[Place(sig)].sig = sig
        BY <4>1, PlaceIs
      <4> QED
        BY Limits, <1>2, <4>1, <4>2
    <3> HIDE DEF L, newest, acc
    <3>5. \A i \in (L + 1)..L : FALSE
      BY <1>2
    <3>6. L = L - Len(acc)
      BY <1>2, <3>1
    <3> QED
      BY Limits, <1>2, <3>1, <3>2, <3>4, <3>5, <3>6
  <2>2. CASE backfill.at = "page"
    <3>1. PICK top \in DOMAIN chain : Stretch(top)
      BY <2>2 DEF BackfillInv
    <3> DEFINE low == top - Len(acc) + 1
    <3>2. /\ Len(acc) \in 1..BackfillLimit /\ low >= 1 /\ Last(acc) = chain[low].sig
          /\ \A i \in low..top : Held(chain[i].sig)
          /\ \A sig \in newest : \E i \in DOMAIN chain :
                chain[i].sig = sig /\ top - BackfillLimit < i /\ i <= top
      BY <2>2, <3>1 DEF Stretch
    <3> HIDE DEF L
    <3>3. low \in 1..top /\ top <= L /\ top \in Nat /\ low - 1 = top - Len(acc)
      <4>1. top \in 1..L /\ Len(acc) \in 1..BackfillLimit /\ low >= 1
        BY <1>2, <3>2
      <4> HIDE DEF acc
      <4> QED
        BY <1>2, <4>1
    <3>4. Place(Last(acc)) = low
      BY <1>2, <3>2, <3>3, PlaceIs
    <3>5. acc # <<>>
      BY <3>2
    <3>6. Older = {s \in Landed : Place(s) < low}
      BY <3>4, <3>5 DEF Older
    <3>7. {s \in Landed : Place(s) < low} = Between(1, low - 1)
      <4>1. \A s \in Landed : Place(s) \in Nat \ {0}
        BY PlaceIs
      <4>2. low \in Int
        BY <3>3
      <4> HIDE DEF low
      <4> QED
        BY <4>1, <4>2 DEF Between
    <3> HIDE DEF low, newest, acc
    <3>8. low - 1 \in Nat /\ low - 1 <= L /\ (low - 1) + 1 = low
      BY <1>2, <3>3
    <3>9. Len(acc) \in 0..BackfillLimit
      BY <3>2
    <3>10. Older = Between(1, low - 1)
      BY <3>6, <3>7
    <3> QED
      BY <3>2, <3>3, <3>8, <3>9, <3>10
  <2> QED
    BY <1>1, <2>1, <2>2
<1>6. PICK top \in Nat, b \in Nat :
         /\ top <= L /\ b <= L /\ b = top - Len(acc) /\ Older = Between(1, b)
         /\ Len(acc) \in 0..BackfillLimit
         /\ \A i \in (b + 1)..top : Held(chain[i].sig)
         /\ \A sig \in newest : \E i \in DOMAIN chain :
               chain[i].sig = sig /\ top - BackfillLimit < i /\ i <= top
  BY <1>5
<1>7. PICK n \in Nat, a \in Nat \ {0} :
         /\ n <= BackfillLimit - Len(acc) /\ a <= b + 1 /\ b - n + 1 <= a
         /\ Page = Between(a, b)
         /\ a = b + 1 => b = 0 \/ Len(acc) = BackfillLimit
  BY <1>6, PageIs
<1>13. /\ a \in Nat \ {0} /\ b \in Nat /\ n \in Nat /\ top \in Nat /\ Len(acc) \in Nat
       /\ b <= L /\ top <= L /\ b = top - Len(acc)
       /\ n <= BackfillLimit - Len(acc) /\ a <= b + 1 /\ b - n + 1 <= a
       /\ a = b + 1 => b = 0 \/ Len(acc) = BackfillLimit
  BY <1>1, <1>6, <1>7
<1>8. newest \subseteq Landed
  BY <1>1 DEF Newest
<1>9. backfill' = IF Page = {} THEN [backfill EXCEPT !.newest = newest, !.at = "decode"]
                  ELSE [backfill EXCEPT !.newest = newest, !.at = "page",
                                        !.acc = acc \o NewestFirst(Page)]
  BY <1>1 DEF FetchPage, BackfillTypes
<1>10. newest \in SUBSET Requests
  BY <1>2, <1>8
<1> HIDE DEF newest, L, acc
(* There is nothing more to be had: what was the newest is held. *)
<1>11. CASE a = b + 1
  <2>1. Page = {}
    <3>1. \A s \in Landed : Place(s) \in Nat
      BY PlaceIs
    <3>2. Between(a, b) = {}
      BY <1>11, <1>13, <3>1 DEF Between
    <3> QED
      BY <1>7, <3>2
  <2>2. /\ backfill' = [backfill EXCEPT !.newest = newest, !.at = "decode"]
    BY <1>9, <2>1
  <2>3. /\ BackfillTypes(backfill') /\ backfill'.acc = acc /\ backfill'.newest = newest
        /\ backfill'.at = "decode" /\ backfill'.next = 1
    BY <1>1, <1>10, <2>2 DEF BackfillTypes, acc
  <2>4. ASSUME NEW sig \in newest PROVE Held(sig)
    <3>1. PICK i \in DOMAIN chain : chain[i].sig = sig /\ top - BackfillLimit < i /\ i <= top
      BY <1>6
    <3>2. i \in (b + 1)..top
      <4>1. i \in 1..L /\ L \in Nat /\ BackfillLimit \in Nat
        BY Limits, <1>2
      <4>2. b < i
        <5>1. CASE b = 0
          BY <4>1, <5>1
        <5>2. CASE Len(acc) = BackfillLimit
          <6>1. b = top - BackfillLimit /\ top - BackfillLimit < i
            BY <1>13, <3>1, <5>2
          <6> QED
            BY <6>1
        <5> QED
          BY <1>11, <1>13, <5>1, <5>2
      <4>3. i \in Int /\ b \in Int /\ top \in Int /\ i <= top
        BY <1>13, <3>1, <4>1
      <4> QED
        BY <4>2, <4>3
    <3> QED
      BY <1>6, <3>1, <3>2
  <2>5. \A sig : Held(sig)' <=> Held(sig)
    BY <2>3 DEF Held, acc
  <2> QED
    BY <1>1, <1>4, <1>8, <2>3, <2>4, <2>5 DEF BackfillInv, BackfillTypes
<1>12. CASE a # b + 1
  <2>1. a <= b
    BY <1>12, <1>13
  <2> DEFINE page == NewestFirst(Page)
             m == b - a + 1
             full == acc \o page
  <2>2. page = [k \in 1..m |-> chain[b - k + 1].sig] /\ m \in Nat \ {0}
    <3>1. m \in Nat \ {0}
      BY <1>13, <2>1
    <3>2. b \in Int /\ b <= Len(chain)
      BY <1>13 DEF L
    <3>3. NewestFirst(Between(a, b)) = [k \in 1..(b - a + 1) |-> chain[b - k + 1].sig]
      BY <2>1, <3>2, NewestFirstIs
    <3> QED
      BY <1>7, <3>1, <3>3
  <2>3. /\ \A k \in 1..m : b - k + 1 \in DOMAIN chain
        /\ \A i \in a..b : b - i + 1 \in 1..m /\ b - (b - i + 1) + 1 = i
        /\ m \in 1..m /\ b - m + 1 = a
    <3>1. DOMAIN chain = 1..L /\ L \in Nat
      BY <1>2
    <3> HIDE DEF page
    <3> QED
      BY <1>13, <2>1, <3>1
  <2>4. Page # {}
    <3>1. b \in DOMAIN chain
      BY <1>2, <1>6, <1>7, <2>1
    <3>2. chain[b].sig \in Landed /\ Place(chain[b].sig) = b
      BY <3>1, PlaceIs
    <3> QED
      BY <1>7, <2>1, <3>2 DEF Between
  <2> HIDE DEF page, m
  <2>5. /\ page \in [1..m -> Requests]
        /\ \A k \in 1..m : page[k] = chain[b - k + 1].sig /\ page[k] \in Landed
    BY <1>2, <2>2, <2>3, PlaceIs
  <2>6. /\ full \in Seq(Requests) /\ Len(full) = Len(acc) + m
        /\ DOMAIN full = 1..(Len(acc) + m)
        /\ \A k \in DOMAIN acc : k \in DOMAIN full /\ full[k] = acc[k]
        /\ \A k \in 1..m : Len(acc) + k \in DOMAIN full /\ full[Len(acc) + k] = page[k]
    <3>1. acc \in Seq(Requests) /\ page \in Seq(Requests)
      BY <1>1, <2>2, <2>5
    <3>2. Len(page) = m
      <4>1. DOMAIN page = 1..m /\ m \in Nat
        BY <2>2, <2>5
      <4> QED
        BY <3>1, <4>1
    <3>3. full = acc \o page
      OBVIOUS
    <3> HIDE DEF full
    <3>4. PICK A, P, F : A = acc /\ P = page /\ F = full
      OBVIOUS
    <3>5. A \in Seq(Requests) /\ P \in Seq(Requests) /\ F = A \o P
      BY <3>1, <3>3, <3>4
    <3>6. Joins(Requests, A, P, F)
      BY <3>5, Paged, Zenon
    <3> QED
      BY <3>2, <3>4, <3>6 DEF Joins
  <2> HIDE DEF full
  <2>7. backfill' = [backfill EXCEPT !.newest = newest, !.at = "page", !.acc = full]
    BY <1>9, <2>4 DEF full, page
  <2>8. /\ BackfillTypes(backfill') /\ backfill'.acc = full /\ backfill'.newest = newest
        /\ backfill'.at = "page" /\ backfill'.next = 1
    BY <1>1, <1>10, <2>6, <2>7 DEF BackfillTypes
  <2>9. \A k \in DOMAIN full : full[k] \in Landed
    <3> SUFFICES ASSUME NEW k \in DOMAIN full PROVE full[k] \in Landed
      OBVIOUS
    <3>1. k \in 1..Len(acc) \/ (k - Len(acc) \in 1..m /\ Len(acc) + (k - Len(acc)) = k)
      BY <1>1, <2>2, <2>6
    <3>2. CASE k \in 1..Len(acc)
      BY <1>1, <2>6, <3>2
    <3>3. ASSUME k - Len(acc) \in 1..m, Len(acc) + (k - Len(acc)) = k
          PROVE  full[k] \in Landed
      <4>1. full[Len(acc) + (k - Len(acc))] = page[k - Len(acc)] /\ page[k - Len(acc)] \in Landed
        BY <2>5, <2>6, <3>3
      <4> QED
        BY <3>3, <4>1
    <3> QED
      BY <3>1, <3>2, <3>3
  <2>10. \A i \in a..top : \E k \in DOMAIN full : full[k] = chain[i].sig
    <3> SUFFICES ASSUME NEW i \in a..top
                 PROVE  \E k \in DOMAIN full : full[k] = chain[i].sig
      OBVIOUS
    <3>1. i \in a..b \/ i \in (b + 1)..top
      BY <1>6
    <3>2. CASE i \in a..b
      <4>1. page[b - i + 1] = chain[i].sig /\ b - i + 1 \in 1..m
        BY <2>3, <2>5, <3>2
      <4> QED
        BY <2>6, <4>1
    <3>3. CASE i \in (b + 1)..top
      <4>1. Held(chain[i].sig)
        BY <1>6, <3>3
      <4> QED
        BY <2>6, <4>1 DEF Held, acc
    <3> QED
      BY <3>1, <3>2, <3>3
  <2>11. Last(full) = chain[a].sig
    <3>1. full[Len(acc) + m] = page[m] /\ page[m] = chain[a].sig
      <4>1. page[m] = chain[b - m + 1].sig
        BY <2>3, <2>5
      <4>2. full[Len(acc) + m] = page[m]
        BY <2>3, <2>6
      <4> QED
        BY <2>3, <4>1, <4>2
    <3> QED
      BY <2>6, <3>1 DEF Last
  <2>12. /\ top - Len(full) + 1 = a /\ Len(full) \in 1..BackfillLimit /\ a >= 1
         /\ top \in DOMAIN chain
    <3>1. Len(full) = Len(acc) + m /\ m = b - a + 1 /\ DOMAIN chain = 1..L /\ L \in Nat
      BY <1>2, <2>6 DEF m
    <3> QED
      BY Limits, <1>13, <2>1, <3>1
  <2>13. Stretch(top)'
    <3>1. \A sig : Held(sig)' <=> \E k \in DOMAIN full : full[k] = sig
      BY <2>8 DEF Held
    <3> QED
      BY <1>3, <1>6, <2>8, <2>10, <2>11, <2>12, <3>1 DEF Stretch
  <2> QED
    BY <1>3, <1>4, <1>8, <2>8, <2>9, <2>12, <2>13 DEF BackfillInv, BackfillTypes
<1> QED
  BY <1>11, <1>12

(* What becomes of the run when it is through with a signature. *)
LEMMA SkipKeeps ==
    ASSUME IInv, BackfillInv, backfill.at \in {"decode", "insert"}, backfill.acc # <<>>,
           UNCHANGED <<chain, tx>>, log \subseteq log', NEW clean \in BOOLEAN,
           backfill' = [Skip(backfill) EXCEPT !.clean = clean],
           clean => backfill.clean /\ Rows(Current) \subseteq log'
    PROVE  BackfillInv'
<1>1. Landed' = Landed /\ \A s : Rows(s)' = Rows(s)
  BY DEF Landed, Rows
<1>2. /\ Tail(backfill.acc) \in Seq(Requests)
      /\ \A k \in DOMAIN Tail(backfill.acc) : Tail(backfill.acc)[k] \in Landed
      /\ \A sig : Held(sig) => \/ sig = Current
                               \/ \E k \in DOMAIN Tail(backfill.acc) : Tail(backfill.acc)[k] = sig
  BY CurrentIsHeld
<1> DEFINE rest == Tail(backfill.acc)
<1> HIDE DEF rest
<1>3. backfill' = [backfill EXCEPT !.at = "decode", !.acc = rest, !.next = 1, !.clean = clean]
  BY DEF Skip, rest
<1>4. BackfillTypes(backfill)
  BY DEF BackfillInv, BackfillTypes
<1>5. rest \in Seq(Requests)
  BY <1>2 DEF rest
<1>6. /\ BackfillTypes(backfill') /\ backfill'.at = "decode" /\ backfill'.acc = rest
      /\ backfill'.next = 1 /\ backfill'.newest = backfill.newest /\ backfill'.clean = clean
  <2>1. 1 \in Nat \ {0}
    OBVIOUS
  <2>2. BackfillTypes(backfill')
    BY <1>3, <1>4, <1>5, <2>1, Zenon DEF BackfillTypes
  <2>3. /\ backfill'.at = "decode" /\ backfill'.acc = rest /\ backfill'.next = 1
        /\ backfill'.newest = backfill.newest
    BY <1>3, <1>4 DEF BackfillTypes
  <2>4. backfill'.clean = clean
    BY <1>3, <1>4, Zenon DEF BackfillTypes
  <2> QED
    BY <2>2, <2>3, <2>4
<1>7. backfill.newest \subseteq Landed /\ \A k \in DOMAIN rest : rest[k] \in Landed
  BY <1>2 DEF BackfillInv, rest
<1>8. ASSUME clean, NEW sig \in backfill.newest
      PROVE  Held(sig)' \/ Rows(sig)' \subseteq log'
  <2>1. Held(sig) \/ Rows(sig) \subseteq log
    BY <1>8 DEF BackfillInv
  <2>2. CASE Rows(sig) \subseteq log
    BY <1>1, <2>2
  <2>3. CASE Held(sig)
    <3>1. CASE sig = Current
      BY <1>1, <1>8, <3>1
    <3>2. CASE \E k \in DOMAIN rest : rest[k] = sig
      BY <1>6, <3>2 DEF Held
    <3> QED
      BY <1>2, <2>3, <3>1, <3>2 DEF rest
  <2> QED
    BY <2>1, <2>2, <2>3
<1> QED
  BY <1>1, <1>6, <1>7, <1>8 DEF BackfillInv, BackfillTypes

LEMMA PageFailsKeeps ==
    ASSUME IInv, BackfillInv, PageFails
    PROVE  BackfillInv'
<1>1. UNCHANGED chain /\ backfill' = [backfill EXCEPT !.at = "idle"] /\ BackfillTypes(backfill)
  BY DEF PageFails, chainVars, BackfillInv, BackfillTypes
<1>2. /\ BackfillTypes(backfill') /\ backfill'.at = "idle" /\ backfill'.acc = backfill.acc
      /\ backfill'.newest = backfill.newest
  BY <1>1 DEF BackfillTypes
<1>3. Landed' = Landed
  BY <1>1 DEF Landed
<1> QED
  BY <1>2, <1>3 DEF BackfillInv, BackfillTypes

LEMMA DecodeNextKeeps ==
    ASSUME IInv, BackfillInv, DecodeNext
    PROVE  BackfillInv'
<1>1. UNCHANGED <<chain, tx, log>> /\ backfill.at = "decode" /\ BackfillTypes(backfill)
      /\ backfill.next = 1
  BY DEF DecodeNext, chainVars, handlerVars, BackfillInv, BackfillTypes
<1>2. Landed' = Landed /\ \A s : Rows(s)' = Rows(s)
  BY <1>1 DEF Landed, Rows
<1>3. ASSUME NEW where \in {"insert", "done"}, backfill' = [backfill EXCEPT !.at = where]
      PROVE  /\ BackfillTypes(backfill') /\ backfill'.at = where
             /\ \A f \in {"acc", "next", "newest", "clean"} : backfill'[f] = backfill[f]
  BY <1>1, <1>3 DEF BackfillTypes
<1>4. ASSUME NEW where \in {"insert", "done"}, backfill' = [backfill EXCEPT !.at = where]
      PROVE  /\ BackfillTypes(backfill') /\ backfill'.at = where
             /\ backfill'.acc = backfill.acc /\ backfill'.next = backfill.next
             /\ backfill'.newest = backfill.newest /\ backfill'.clean = backfill.clean
             /\ Current' = Current /\ \A s : Held(s)' <=> Held(s)
  BY <1>3, <1>4 DEF Held, Current
<1>5. /\ backfill.newest \subseteq Landed
      /\ \A k \in DOMAIN backfill.acc : backfill.acc[k] \in Landed
      /\ backfill.clean => \A sig \in backfill.newest : Held(sig) \/ Rows(sig) \subseteq log
  BY <1>1 DEF BackfillInv
<1>6. CASE backfill.acc = <<>>
  <2>1. backfill' = [backfill EXCEPT !.at = "done"]
    BY <1>6 DEF DecodeNext
  <2> QED
    BY <1>1, <1>2, <1>4, <1>5, <1>6, <2>1 DEF BackfillInv, BackfillTypes
<1>7. CASE backfill.acc # <<>> /\ tx[Current] # <<>>
  <2>1. backfill' = [backfill EXCEPT !.at = "insert"]
    BY <1>7 DEF DecodeNext
  <2>2. Current \in Requests
    BY <1>7, CurrentIsHeld, LandedWasSent
  <2>3. tx[Current] \in Seq(Instructions)
    BY <2>2 DEF IInv, ExecTypes
  <2> HIDE DEF Current
  <2>4. Len(tx[Current]) >= 1
    BY <1>7, <2>3
  <2>5. \A n \in 1..(backfill.next - 1) : <<Current, n>> \in log
    BY <1>1
  <2> QED
    BY <1>1, <1>2, <1>4, <1>5, <1>7, <2>1, <2>4, <2>5 DEF BackfillInv, BackfillTypes
<1>8. CASE backfill.acc # <<>> /\ tx[Current] = <<>>
  <2>1. backfill' = Skip(backfill)
    BY <1>8 DEF DecodeNext
  <2>2. PICK clean \in BOOLEAN : clean = backfill.clean
    BY <1>1 DEF BackfillTypes
  <2>3. backfill' = [Skip(backfill) EXCEPT !.clean = clean]
    BY <1>1, <2>1, <2>2 DEF Skip, BackfillTypes
  <2>4. Rows(Current) = {}
    BY <1>8 DEF Rows
  <2> QED
    BY <1>1, <1>8, <2>2, <2>3, <2>4, SkipKeeps
<1> QED
  BY <1>6, <1>7, <1>8

LEMMA BackfillRowKeeps ==
    ASSUME IInv, BackfillInv, BackfillRow
    PROVE  BackfillInv'
<1>1. /\ UNCHANGED <<chain, tx>> /\ backfill.at = "insert" /\ BackfillTypes(backfill)
      /\ log' = log \cup {<<Current, backfill.next>>} /\ backfill.acc # <<>>
      /\ backfill.next \in Nat \ {0} /\ backfill.next <= Len(tx[Current])
      /\ \A n \in 1..(backfill.next - 1) : <<Current, n>> \in log
  BY DEF BackfillRow, chainVars, handlerVars, BackfillInv, BackfillTypes
<1>2. Landed' = Landed /\ \A s : Rows(s)' = Rows(s)
  BY <1>1 DEF Landed, Rows
<1>3. /\ backfill.newest \subseteq Landed
      /\ \A k \in DOMAIN backfill.acc : backfill.acc[k] \in Landed
      /\ backfill.clean => \A sig \in backfill.newest : Held(sig) \/ Rows(sig) \subseteq log
  BY <1>1 DEF BackfillInv
<1>4. Current \in Requests
  BY <1>1, CurrentIsHeld, LandedWasSent
<1>5. tx[Current] \in Seq(Instructions)
  BY <1>4 DEF IInv, ExecTypes
<1>6. \A n \in 1..backfill.next : <<Current, n>> \in log'
  <2> SUFFICES ASSUME NEW n \in 1..backfill.next PROVE <<Current, n>> \in log'
    OBVIOUS
  <2> HIDE DEF Current
  <2>1. n = backfill.next \/ n \in 1..(backfill.next - 1)
    BY <1>1
  <2> QED
    BY <1>1, <2>1
<1>7. CASE backfill.next = Len(tx[Current])
  <2>1. backfill' = Skip(backfill)
    BY <1>7 DEF BackfillRow
  <2>2. PICK clean \in BOOLEAN : clean = backfill.clean
    BY <1>1 DEF BackfillTypes
  <2>3. backfill' = [Skip(backfill) EXCEPT !.clean = clean]
    BY <1>1, <2>1, <2>2 DEF Skip, BackfillTypes
  <2>4. Rows(Current) \subseteq log'
    <3>1. DOMAIN tx[Current] = 1..backfill.next
      BY <1>5, <1>7
    <3> QED
      BY <1>6, <3>1 DEF Rows
  <2>5. log \subseteq log'
    BY <1>1
  <2> QED
    BY <1>1, <2>2, <2>3, <2>4, <2>5, SkipKeeps
<1>8. CASE backfill.next # Len(tx[Current])
  <2>1. backfill' = [backfill EXCEPT !.next = backfill.next + 1]
    BY <1>1, <1>8 DEF BackfillRow, BackfillTypes
  <2>2. /\ BackfillTypes(backfill') /\ backfill'.at = "insert" /\ backfill'.acc = backfill.acc
        /\ backfill'.next = backfill.next + 1
        /\ backfill'.newest = backfill.newest /\ backfill'.clean = backfill.clean
    <3>1. backfill.next + 1 \in Nat \ {0}
      BY <1>1
    <3> QED
      BY <1>1, <2>1, <3>1 DEF BackfillTypes
  <2>3. Current' = Current /\ \A s : Held(s)' <=> Held(s)
    BY <2>2 DEF Held, Current
  <2>4. Len(tx[Current]) \in Nat
    BY <1>5
  <2> HIDE DEF Current
  <2>5. backfill.next + 1 <= Len(tx[Current]) /\ (backfill.next + 1) - 1 = backfill.next
    BY <1>1, <1>8, <2>4
  <2>6. backfill'.clean => \A sig \in backfill'.newest : Held(sig)' \/ Rows(sig)' \subseteq log'
    BY <1>1, <1>2, <1>3, <2>2, <2>3
  <2> QED
    BY <1>1, <1>2, <1>3, <1>6, <2>2, <2>3, <2>5, <2>6 DEF BackfillInv, BackfillTypes
<1> QED
  BY <1>7, <1>8

LEMMA BackfillFailsKeeps ==
    ASSUME IInv, BackfillInv, BackfillFails
    PROVE  BackfillInv'
<1>1. /\ UNCHANGED <<chain, tx, log>> /\ backfill.at \in {"decode", "insert"}
      /\ backfill.acc # <<>> /\ backfill' = [Skip(backfill) EXCEPT !.clean = FALSE]
  BY DEF BackfillFails, chainVars, handlerVars
<1> QED
  BY <1>1, SkipKeeps

(* Every step keeps what the backfill holds. *)
LEMMA BackfillKept ==
    ASSUME IInv, BackfillInv, [Next]_vars
    PROVE  BackfillInv'
<1>1. CASE Backfill
  BY <1>1, StartKeeps, FetchKeeps, PageFailsKeeps, DecodeNextKeeps, BackfillRowKeeps,
     BackfillFailsKeeps DEF Backfill
<1>2. ASSUME NEW r \in Requests, Build(r) \/ AskDecode(r) \/ Execute(r) \/ Store(r) \/ Cancel(r)
                                 \/ Land(r) \/ Expire(r)
      PROVE  backfill' = backfill
  BY <1>2 DEF Build, AskDecode, Execute, TakeLock, Send, Confirmed, ConfirmFails, Store, Decode,
              InsertRow, StoreFails, InsertNoConnection, Cancel, Land, Expire
<1>3. CASE Restart \/ DropConnection \/ History \/ Quiescent \/ UNCHANGED vars
  <2>1. backfill' = backfill
    BY <1>3 DEF Restart, DropConnection, History, ReadHistory, HistoryNoConnection,
                CloseHistory, Quiescent, vars
  <2> QED
    BY <2>1, BackfillFrame
<1>4. CASE \E r \in Requests : \/ Build(r) \/ AskDecode(r) \/ Execute(r) \/ Store(r) \/ Cancel(r)
                               \/ Land(r) \/ Expire(r)
  BY <1>2, <1>4, BackfillFrame
<1> QED
  BY <1>1, <1>3, <1>4 DEF Next, Chain

-----------------------------------------------------------------------------
(* The history. *)

LEMMA RowIs ==
    ASSUME IInv, LogInv, NEW row \in log
    PROVE  /\ row = <<row[1], row[2]>> /\ row[1] \in Landed /\ row[2] \in 1..3
           /\ row[2] \in DOMAIN tx[row[1]]
<1>1. PICK sig \in Landed : row \in Rows(sig)
  BY DEF LogInv
<1>2. PICK n \in DOMAIN tx[sig] : row = <<sig, n>>
  BY <1>1 DEF Rows
<1>3. sig \in Requests
  BY LandedWasSent
<1>4. tx[sig] \in Seq(Instructions) /\ Len(tx[sig]) <= 3
  BY <1>3 DEF IInv, ExecTypes, LogInv
<1>5. n \in 1..3
  BY <1>4
<1> QED
  BY <1>2, <1>5

(* At most three rows to a signature. *)
LEMMA ThreeEach ==
    ASSUME IInv, LogInv, NEW R \in SUBSET log, NEW T, SigsOf(R) \subseteq T, T \subseteq Landed
    PROVE  /\ IsFiniteSet(R) /\ IsFiniteSet(T)
           /\ Cardinality(R) \in Nat /\ Cardinality(T) \in Nat
           /\ Cardinality(R) <= 3 * Cardinality(T)
<1>1. IsFiniteSet(T)
  BY LandedIsFinite, FS_Subset
<1>2. IsFiniteSet(1..3) /\ Cardinality(1..3) = 3
  <2>1. PICK a \in Int, b \in Int : a = 1 /\ b = 3
    OBVIOUS
  <2>2. IsFiniteSet(a..b) /\ Cardinality(a..b) = IF a > b THEN 0 ELSE b - a + 1
    BY FS_Interval
  <2> QED
    BY <2>1, <2>2
<1>3. IsFiniteSet(T \X (1..3)) /\ Cardinality(T \X (1..3)) = Cardinality(T) * 3
  <2>1. /\ IsFiniteSet(T \X (1..3))
        /\ Cardinality(T \X (1..3)) = Cardinality(T) * Cardinality(1..3)
    BY <1>1, <1>2, FS_Product
  <2> QED
    BY <1>2, <2>1
<1>4. R \subseteq T \X (1..3)
  <2> SUFFICES ASSUME NEW row \in R PROVE row \in T \X (1..3)
    OBVIOUS
  <2>1. row[1] \in SigsOf(R)
    BY DEF SigsOf
  <2>2. row[1] \in T /\ row[2] \in 1..3 /\ row = <<row[1], row[2]>>
    BY <2>1, RowIs
  <2> QED
    BY <2>2
<1>5. IsFiniteSet(R) /\ Cardinality(R) <= Cardinality(T \X (1..3))
  BY <1>3, <1>4, FS_Subset
<1>6. Cardinality(T) \in Nat /\ Cardinality(R) \in Nat
  BY <1>1, <1>5, FS_CardinalityType
<1> QED
  BY <1>1, <1>3, <1>5, <1>6

LEMMA SigsOfRows ==
    ASSUME IInv, LogInv, NEW R \in SUBSET log
    PROVE  /\ SigsOf(R) \subseteq Landed /\ SigsOf(R) \subseteq SigsOf(log)
           /\ IsFiniteSet(SigsOf(R)) /\ Cardinality(SigsOf(R)) \in Nat
<1>1. SigsOf(R) \subseteq Landed
  BY RowIs DEF SigsOf
<1>2. SigsOf(R) \subseteq SigsOf(log)
  BY DEF SigsOf
<1>3. IsFiniteSet(SigsOf(R))
  BY <1>1, LandedIsFinite, FS_Subset
<1> QED
  BY <1>1, <1>2, <1>3, FS_CardinalityType

(* What a query with a limit returns. *)
Limited(T, S, n) == T \subseteq S /\ Cardinality(T) = Smaller(n, Cardinality(S))

(* A history answered from some first rows of the log tells of the log. *)
LEMMA ReadTells ==
    ASSUME IInv, LogInv,
           NEW rows, Limited(rows, log, 3 * HistoryLimit),
           \A s \in rows, t \in log : Slot(t[1]) > Slot(s[1]) => t \in rows,
           NEW sigs, Limited(sigs, SigsOf(rows), HistoryLimit),
           \A s \in sigs, t \in SigsOf(rows) : Slot(t) > Slot(s) => t \in sigs
    PROVE  /\ NewestAreShown(sigs, SigsOf(log))
           /\ \A o \in Orders(log) :
                 \/ o[1] \notin sigs \/ o \in rows
                 \/ \E t \in SigsOf(log) \ {o[1]} : Slot(t) = Slot(o[1])
<1> DEFINE L == HistoryLimit
<1>1. L \in Nat \ {0} /\ rows \subseteq log /\ sigs \subseteq SigsOf(rows)
  BY Limits DEF Limited
<1>2. /\ Cardinality(rows) \in Nat /\ Cardinality(log) \in Nat
      /\ IsFiniteSet(rows) /\ IsFiniteSet(log)
      /\ Cardinality(rows) <= 3 * Cardinality(SigsOf(rows))
      /\ Cardinality(SigsOf(rows)) \in Nat /\ Cardinality(SigsOf(log)) \in Nat
      /\ IsFiniteSet(SigsOf(rows)) /\ IsFiniteSet(SigsOf(log))
      /\ SigsOf(rows) \subseteq Landed /\ SigsOf(rows) \subseteq SigsOf(log)
      /\ SigsOf(log) \subseteq Landed
  <2>1. rows \in SUBSET log /\ log \in SUBSET log
    BY <1>1
  <2>2. /\ SigsOf(rows) \subseteq Landed /\ SigsOf(rows) \subseteq SigsOf(log)
        /\ IsFiniteSet(SigsOf(rows)) /\ Cardinality(SigsOf(rows)) \in Nat
    BY <2>1, SigsOfRows
  <2>3. /\ SigsOf(log) \subseteq Landed
        /\ IsFiniteSet(SigsOf(log)) /\ Cardinality(SigsOf(log)) \in Nat
    BY <2>1, SigsOfRows
  <2>4. /\ IsFiniteSet(rows) /\ Cardinality(rows) \in Nat
        /\ Cardinality(rows) <= 3 * Cardinality(SigsOf(rows))
    <3>1. PICK T : T = SigsOf(rows)
      OBVIOUS
    <3>2. SigsOf(rows) \subseteq T /\ T \subseteq Landed
      BY <2>2, <3>1
    <3> QED
      BY <2>1, <3>1, <3>2, ThreeEach
  <2>5. IsFiniteSet(log) /\ Cardinality(log) \in Nat
    <3>1. PICK T, R : T = SigsOf(log) /\ R = log
      OBVIOUS
    <3>2. SigsOf(R) \subseteq T /\ T \subseteq Landed /\ R \in SUBSET log
      BY <2>3, <3>1
    <3>3. IsFiniteSet(R) /\ Cardinality(R) \in Nat
      BY <3>2, ThreeEach
    <3> QED
      BY <3>1, <3>3
  <2> QED
    BY <2>2, <2>3, <2>4, <2>5
<1>3. Cardinality(sigs) = IF L < Cardinality(SigsOf(rows)) THEN L ELSE Cardinality(SigsOf(rows))
  BY DEF Limited, Smaller
<1>4. \A v \in log : v[1] \in SigsOf(log) /\ Slot(v[1]) \in Nat
  <2>1. \A s \in Landed : chain[Place(s)] \in Transactions
    BY PlaceIs DEF IInv, ExecTypes
  <2>2. \A s \in Landed : Slot(s) \in Nat
    BY <2>1 DEF Slot, Place, Transactions
  <2> QED
    BY <1>2, <2>2 DEF SigsOf
<1>5. \A s \in SigsOf(log) : Slot(s) \in Nat /\ \E v \in log : v[1] = s
  BY <1>4 DEF SigsOf
<1>6. \A s \in SigsOf(rows) : s \in SigsOf(log) /\ \E v \in rows : v[1] = s
  BY <1>2 DEF SigsOf
(* When the query leaves rows out, it has three times as many as entries. *)
<1>7. ASSUME rows # log
      PROVE  Cardinality(rows) = 3 * L
  <2>1. Cardinality(rows) # Cardinality(log)
    BY <1>1, <1>2, <1>7, FS_Subset
  <2> QED
    BY <2>1 DEF Limited, Smaller
<1>8. NewestAreShown(sigs, SigsOf(log))
  <2>1. CASE rows = log
    <3>1. Cardinality(sigs) = Smaller(L, Cardinality(SigsOf(log)))
      BY <2>1 DEF Limited
    <3>2. \A s \in sigs, t \in SigsOf(log) \ sigs : Slot(t) <= Slot(s)
      BY <1>1, <1>5, <2>1
    <3> QED
      BY <3>1, <3>2 DEF NewestAreShown
  <2>2. CASE rows # log
    <3>1. L <= Cardinality(SigsOf(rows))
      BY <1>1, <1>2, <1>7, <2>2
    <3>2. Cardinality(SigsOf(rows)) <= Cardinality(SigsOf(log))
      BY <1>2, FS_Subset
    <3>3. Cardinality(sigs) = Smaller(L, Cardinality(SigsOf(log)))
      BY <1>1, <1>2, <1>3, <3>1, <3>2 DEF Smaller
    <3>4. ASSUME NEW s \in sigs, NEW t \in SigsOf(log) \ sigs
          PROVE  Slot(t) <= Slot(s)
      <4>1. Slot(t) \in Nat /\ Slot(s) \in Nat
        BY <1>1, <1>5, <1>6
      <4>2. CASE t \in SigsOf(rows)
        BY <4>1, <4>2
      <4>3. CASE t \notin SigsOf(rows)
        <5>1. PICK w \in log : w[1] = t
          BY <1>5
        <5>2. PICK v \in rows : v[1] = s
          BY <1>1, <1>6
        <5>3. w \notin rows
          BY <4>3, <5>1 DEF SigsOf
        <5>4. ~(Slot(w[1]) > Slot(v[1]))
          BY <5>3
        <5> QED
          BY <4>1, <5>1, <5>2, <5>4
      <4> QED
        BY <4>2, <4>3
    <3> QED
      BY <3>3, <3>4 DEF NewestAreShown
  <2> QED
    BY <2>1, <2>2
<1>9. ASSUME NEW o \in Orders(log), o[1] \in sigs, o \notin rows,
             \A t \in SigsOf(log) \ {o[1]} : Slot(t) # Slot(o[1])
      PROVE  FALSE
  <2>1. o \in log /\ rows # log /\ o[1] \in SigsOf(rows)
    BY <1>1, <1>9 DEF Orders
  <2>2. \A t \in SigsOf(rows) : Slot(t) \in Nat /\ Slot(t) >= Slot(o[1])
    <3> SUFFICES ASSUME NEW t \in SigsOf(rows)
                 PROVE  Slot(t) \in Nat /\ Slot(t) >= Slot(o[1])
      OBVIOUS
    <3>1. PICK v \in rows : v[1] = t
      BY <1>6
    <3>2. ~(Slot(o[1]) > Slot(v[1]))
      BY <1>9, <2>1
    <3>3. Slot(t) \in Nat /\ Slot(o[1]) \in Nat
      BY <1>4, <1>5, <1>6, <2>1
    <3> QED
      BY <3>1, <3>2, <3>3
  <2>3. \A t \in SigsOf(rows) : t \in sigs
    <3> SUFFICES ASSUME NEW t \in SigsOf(rows), t # o[1] PROVE t \in sigs
      BY <1>9
    <3>1. Slot(t) # Slot(o[1])
      BY <1>6, <1>9
    <3>2. Slot(t) > Slot(o[1])
      BY <1>4, <2>1, <2>2, <3>1
    <3> QED
      BY <1>9, <3>2
  <2>4. sigs = SigsOf(rows)
    BY <1>1, <2>3
  <2>5. Cardinality(SigsOf(rows)) <= L
    BY <1>1, <1>2, <1>3, <2>4
  <2>6. PICK R, T : R = rows \cup {o} /\ T = SigsOf(rows)
    OBVIOUS
  <2>7. R \in SUBSET log /\ SigsOf(R) \subseteq T /\ T \subseteq Landed
    BY <1>1, <1>2, <2>1, <2>6 DEF SigsOf
  <2>8. Cardinality(R) \in Nat /\ Cardinality(R) <= 3 * Cardinality(T)
    BY <2>7, ThreeEach
  <2>9. Cardinality(R) = Cardinality(rows) + 1
    BY <1>2, <1>9, <2>6, FS_AddElement
  <2> QED
    BY <1>1, <1>2, <1>7, <2>1, <2>5, <2>6, <2>8, <2>9
<1> QED
  BY <1>8, <1>9

LEMMA ReadKeeps ==
    ASSUME IInv, LogInv, ReadHistory
    PROVE  HistoryInv'
<1>1. PICK rows \in Firsts(log, [row \in log |-> Slot(row[1])], FetchLimit) :
      \E sigs \in Firsts(SigsOf(rows), [sig \in SigsOf(rows) |-> Slot(sig)], HistoryLimit) :
      \E entries \in Entries(rows, sigs) :
         history' = [at |-> "answered", entries |-> entries, rows |-> log]
  BY DEF ReadHistory
<1>2. PICK sigs \in Firsts(SigsOf(rows), [sig \in SigsOf(rows) |-> Slot(sig)], HistoryLimit) :
      \E entries \in Entries(rows, sigs) :
         history' = [at |-> "answered", entries |-> entries, rows |-> log]
  BY <1>1
<1>3. PICK entries \in Entries(rows, sigs) :
         history' = [at |-> "answered", entries |-> entries, rows |-> log]
  BY <1>2
<1>4. UNCHANGED <<chain, tx, log>>
  BY DEF ReadHistory, chainVars, handlerVars
<1>5. history'.at = "answered" /\ history'.entries = entries /\ history'.rows = log
  BY <1>3
<1>6. /\ Limited(rows, log, 3 * HistoryLimit)
      /\ \A s \in rows, t \in log : Slot(t[1]) > Slot(s[1]) => t \in rows
  BY <1>1 DEF Firsts, FetchLimit, Limited
<1>7. /\ Limited(sigs, SigsOf(rows), HistoryLimit)
      /\ \A s \in sigs, t \in SigsOf(rows) : Slot(t) > Slot(s) => t \in sigs
  BY <1>2 DEF Firsts, Limited
<1>8. /\ NewestAreShown(sigs, SigsOf(log))
      /\ \A o \in Orders(log) : \/ o[1] \notin sigs \/ o \in rows
                                \/ \E t \in SigsOf(log) \ {o[1]} : Slot(t) = Slot(o[1])
  BY <1>6, <1>7, ReadTells
<1>9. /\ {e.sig : e \in entries} = sigs
      /\ \A e \in entries : \E row \in Primaries(GroupOf(rows, e.sig)) : e.shown = Action(row)
  BY <1>3 DEF Entries
<1>10. \A e \in entries : e.sig \in sigs /\ e.sig \in SigsOf(log)
  <2>1. sigs \subseteq SigsOf(log)
    BY <1>6, <1>7 DEF Limited, SigsOf
  <2> QED
    BY <1>9, <2>1
<1>11. ASSUME NEW e \in entries
       PROVE  \/ Orders(GroupOf(log, e.sig)) = {}
              \/ \E t \in SigsOf(log) \ {e.sig} : Slot(t) = Slot(e.sig)
              \/ e.shown = "order"
  <2> SUFFICES ASSUME NEW o \in Orders(GroupOf(log, e.sig)),
                      \A t \in SigsOf(log) \ {e.sig} : Slot(t) # Slot(e.sig)
               PROVE  e.shown = "order"
    OBVIOUS
  <2>1. o \in Orders(log) /\ o[1] = e.sig /\ Action(o) = "order"
    BY DEF Orders, GroupOf
  <2>2. o \in rows
    BY <1>8, <1>10, <2>1
  <2>3. o \in Orders(GroupOf(rows, e.sig))
    BY <2>1, <2>2 DEF Orders, GroupOf
  <2>4. Primaries(GroupOf(rows, e.sig)) = Orders(GroupOf(rows, e.sig))
    BY <2>3 DEF Primaries
  <2>5. PICK row \in Orders(GroupOf(rows, e.sig)) : e.shown = Action(row)
    BY <1>9, <2>4
  <2> QED
    BY <2>5 DEF Orders
<1>12. /\ \A s : Slot(s)' = Slot(s)
       /\ \A row : Action(row)' = Action(row)
  BY <1>4 DEF Slot, Action
<1>13. NewestAreShown({e.sig : e \in history.entries}, SigsOf(history.rows))'
  <2>1. NewestAreShown({e.sig : e \in entries}, SigsOf(log))'
    BY <1>4, <1>8, <1>9, <1>12 DEF NewestAreShown, SigsOf
  <2> QED
    BY <1>4, <1>5, <2>1
<1>14. ASSUME NEW e \in entries
       PROVE  GroupIsWhole(e)'
  <2>1. Orders(GroupOf(history.rows, e.sig))' = Orders(GroupOf(log, e.sig))
    BY <1>5, <1>12 DEF Orders, GroupOf
  <2>2. SigsOf(history.rows)' = SigsOf(log)
    BY <1>5 DEF SigsOf
  <2> QED
    BY <1>11, <1>12, <2>1, <2>2 DEF GroupIsWhole
<1>15. HistoryTellsTheLog'
  BY <1>5, <1>13, <1>14 DEF HistoryTellsTheLog
<1>16. \A e \in history'.entries : e.sig \in SigsOf(history.rows)'
  BY <1>5, <1>10 DEF SigsOf
<1> QED
  BY <1>4, <1>5, <1>15, <1>16 DEF HistoryInv

(* What was answered stays true: its rows tell of what has landed. *)
LEMMA HistoryFrame ==
    ASSUME IInv, IInv', LogInv, HistoryInv, [Next]_vars, history' = history
    PROVE  HistoryInv'
<1> DEFINE rows == history.rows
<1>1. rows \subseteq log /\ log \subseteq log' /\ \A s \in Landed : tx'[s] = tx[s]
  BY RecordsStay DEF HistoryInv
<1>2. SigsOf(rows) \subseteq Landed
  BY <1>1, RowIs DEF SigsOf
<1>3. \A s \in Landed : Slot(s)' = Slot(s)
  BY PlacesStay
<1>4. SigsOf(rows)' = SigsOf(rows)
  BY DEF SigsOf
<1>5. \A row \in rows : Action(row)' = Action(row)
  BY <1>1, RowIs DEF Action
<1> SUFFICES ASSUME history.at = "answered" PROVE HistoryInv'
  BY <1>1 DEF HistoryInv
<1>6. /\ \A e \in history.entries : e.sig \in SigsOf(rows)
      /\ NewestAreShown({e.sig : e \in history.entries}, SigsOf(rows))
      /\ \A e \in history.entries : GroupIsWhole(e)
  BY DEF HistoryInv, HistoryTellsTheLog
<1>7. NewestAreShown({e.sig : e \in history.entries}, SigsOf(history.rows))'
  <2> DEFINE shown == {e.sig : e \in history.entries}
  <2>1. shown' = shown /\ shown \subseteq SigsOf(rows)
    BY <1>6
  <2>2. \A s \in SigsOf(rows) : Slot(s)' = Slot(s)
    BY <1>2, <1>3
  <2>3. NewestAreShown(shown, SigsOf(rows))
    BY <1>6
  <2> HIDE DEF shown
  <2>4. \A s \in shown, t \in SigsOf(rows) \ shown : Slot(t)' <= Slot(s)'
    BY <2>1, <2>2, <2>3 DEF NewestAreShown
  <2> QED
    BY <1>4, <2>1, <2>3, <2>4 DEF NewestAreShown, shown
<1>8. ASSUME NEW e \in history.entries
      PROVE  GroupIsWhole(e)'
  <2>1. Orders(GroupOf(history.rows, e.sig))' = Orders(GroupOf(history.rows, e.sig))
    BY <1>5 DEF Orders, GroupOf
  <2>2. \A t \in SigsOf(rows) : Slot(t)' = Slot(t)
    BY <1>2, <1>3
  <2>3. e.sig \in SigsOf(rows)
    BY <1>6
  <2> QED
    BY <1>4, <1>6, <2>1, <2>2, <2>3 DEF GroupIsWhole
<1>9. HistoryTellsTheLog'
  BY <1>7, <1>8 DEF HistoryTellsTheLog
<1>10. \A e \in history'.entries : e.sig \in SigsOf(history.rows)'
  BY <1>4, <1>6
<1>11. history'.at \in {"idle", "answered"} /\ history'.rows \subseteq log'
  BY <1>1 DEF HistoryInv
<1> QED
  BY <1>9, <1>10, <1>11 DEF HistoryInv

LEMMA HistoryKept ==
    ASSUME IInv, IInv', LogInv, HistoryInv, [Next]_vars
    PROVE  HistoryInv'
<1>1. CASE ReadHistory
  BY <1>1, ReadKeeps
<1>2. CASE Restart \/ CloseHistory
  <2>1. history' = [at |-> "idle", entries |-> {}, rows |-> {}]
    BY <1>2 DEF Restart, CloseHistory
  <2>2. history'.at = "idle" /\ history'.rows = {}
    BY <2>1
  <2> QED
    BY <2>2 DEF HistoryInv
<1>3. ASSUME NEW r \in Requests, \/ Build(r) \/ AskDecode(r) \/ Execute(r) \/ Store(r)
                                 \/ Cancel(r) \/ Land(r) \/ Expire(r)
      PROVE  history' = history
  BY <1>3 DEF Build, AskDecode, Execute, TakeLock, Send, Confirmed, ConfirmFails, Store, Decode,
              InsertRow, StoreFails, InsertNoConnection, Cancel, Land, Expire
<1>4. CASE DropConnection \/ Backfill \/ HistoryNoConnection \/ Quiescent \/ UNCHANGED vars
  <2>1. history' = history
    BY <1>4 DEF DropConnection, Backfill, StartBackfill, FetchPage, PageFails, DecodeNext,
                BackfillRow, BackfillFails, HistoryNoConnection, Quiescent, vars
  <2> QED
    BY <2>1, HistoryFrame
<1>5. CASE \E r \in Requests : \/ Build(r) \/ AskDecode(r) \/ Execute(r) \/ Store(r) \/ Cancel(r)
                               \/ Land(r) \/ Expire(r)
  BY <1>3, <1>5, HistoryFrame
<1> QED
  BY <1>1, <1>2, <1>4, <1>5 DEF Next, Chain, History

-----------------------------------------------------------------------------
LEMMA RecordsInitial == Init => RecordInv
<1> SUFFICES ASSUME Init PROVE RecordInv
  OBVIOUS
<1>1. LogInv
  <2>1. log = {} /\ db = "up" /\ \A r \in Requests : tx[r] = <<>>
    BY DEF Init
  <2> QED
    BY <2>1 DEF LogInv
<1>2. BackfillInv
  <2>1. backfill = [at |-> "idle", acc |-> <<>>, next |-> 1, newest |-> {}, clean |-> TRUE]
    BY DEF Init
  <2>2. /\ BackfillTypes(backfill) /\ backfill.at = "idle" /\ backfill.acc = <<>>
        /\ backfill.newest = {}
    BY <2>1 DEF BackfillTypes
  <2> QED
    BY <2>2 DEF BackfillInv, BackfillTypes
<1>3. HistoryInv
  <2>1. history.at = "idle" /\ history.rows = {}
    BY DEF Init
  <2> QED
    BY <2>1 DEF HistoryInv
<1> QED
  BY <1>1, <1>2, <1>3 DEF RecordInv

(* In every reachable state a run of the backfill holds a stretch of the   *)
(* chain, and an answered history tells of the log.                        *)
THEOREM RecordInvariant == Spec => [](IInv /\ RecordInv)
<1>1. Init => IInv /\ RecordInv
  BY Initial, RecordsInitial
<1>2. IInv /\ RecordInv /\ [Next]_vars => (IInv /\ RecordInv)'
  <2> SUFFICES ASSUME IInv, LogInv, BackfillInv, HistoryInv, [Next]_vars
               PROVE  IInv' /\ LogInv' /\ BackfillInv' /\ HistoryInv'
    BY DEF RecordInv
  <2>1. IInv'
    BY Preserved
  <2> QED
    BY <2>1, LogKept, BackfillKept, HistoryKept
<1> QED
  BY <1>1, <1>2, PTL DEF Spec

(* The types of the log's module. *)
THEOREM TypeCorrect == Spec => []TypeOK
<1>1. IInv /\ RecordInv => TypeOK
  <2> SUFFICES ASSUME IInv, LogInv, BackfillInv, HistoryInv PROVE TypeOK
    BY DEF RecordInv
  <2>1. \A row \in log : row \in UNION {Rows(sig) : sig \in Landed}
    BY DEF LogInv
  <2>2. db \in {"up", "down"}
    BY DEF LogInv
  <2> QED
    BY <2>1, <2>2 DEF IInv, ExecTypes, Stations, Transactions, BackfillInv, HistoryInv, TypeOK
<1> QED
  BY <1>1, RecordInvariant, PTL

(* A backfill that met no error has stored every action of the newest      *)
(* transactions there were at its first page: nothing it collected is left,*)
(* and what was the newest was collected or is in the log.                 *)
THEOREM BackfillRepairsHolds == Spec => []BackfillRepairs
<1>1. BackfillInv => BackfillRepairs
  BY DEF BackfillInv, BackfillRepairs, Held
<1> QED
  BY <1>1, RecordInvariant, PTL DEF RecordInv

(* A history has the newest signatures, and shows their orders. *)
THEOREM HistoryTellsTheLogHolds == Spec => []HistoryTellsTheLog
<1>1. HistoryInv => HistoryTellsTheLog
  BY DEF HistoryInv, HistoryTellsTheLog
<1> QED
  BY <1>1, RecordInvariant, PTL DEF RecordInv

=============================================================================
