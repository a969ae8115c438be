---------------------------- MODULE IndexerProofs ----------------------------
(***************************************************************************)
(* Proofs about Indexer, for any kinds of transactions and any bounds.     *)
(* The argument: notifications are taken in the order of the chain, so     *)
(* that slots and signatures are published in that order too, and what the *)
(* streamer has not stored is in a gap, in its channel or in its hands.    *)
(***************************************************************************)
EXTENDS Indexer, FiniteSetTheorems, SequenceTheorems, WellFoundedInduction, TLAPS

-----------------------------------------------------------------------------
(* The inductive invariant. *)

Transactions == [mentions : Mentions, slot : Nat \ {0}]

(* Slots do not decrease along the chain. *)
ChainInv ==
    /\ chain \in Seq(Transactions) /\ Len(chain) <= MaxTxs
    /\ \A i \in Txs : Slot(i) <= i
    /\ \A i, j \in Txs : i <= j => Slot(i) <= Slot(j)

(* Who only adds to the table, and what a client has seen of it. *)
TableInv ==
    /\ table \subseteq Txs /\ gap \subseteq Txs
    /\ failures \in Nat /\ crashes \in Nat
    /\ client.at \in {"idle", "paging", "done"} /\ client.offset \in Nat
    /\ client.seen \subseteq Txs /\ client.there \subseteq Txs

Handling == {"publish", "fetch", "insert"}

(* The channel is in the order of the chain, after what was taken from it. *)
StreamInv ==
    /\ stream \in {"up", "down"} /\ streamer \in {"connect", "recv"} \cup Handling
    /\ inbox \in Seq(Txs)
    /\ \A m, n \in DOMAIN inbox : m < n => inbox[m] < inbox[n]
    /\ current \in 0..Len(chain) /\ \A n \in DOMAIN inbox : current < inbox[n]
    /\ streamer \in Handling => current \in Txs
    /\ lastSig \in 0..current
    /\ lastSlot = IF current = 0 THEN 0 ELSE Slot(current)

(* A health request has read a signature that was taken before. *)
HealthInv ==
    /\ health \in [at : {"idle", "slot", "answered"}, sig : 0..current, slot : 0..lastSlot]
    /\ HealthSlotCoversSignature

(* What is not stored is in a gap, in the channel or in hand. *)
Has(i) == i \in table \cup gap \/ \E n \in DOMAIN inbox : inbox[n] = i
MissInv ==
    (failures = 0 /\ crashes = 0) =>
        \A i \in Txs : Parses(i) => Has(i) \/ (i = current /\ streamer \in Handling)

IndexInv == ChainInv /\ TableInv /\ StreamInv /\ HealthInv /\ MissInv

(* The wallet's transactions that a run should import the newest of. *)
Due == {j \in 1..started : Of("wallet", j)}

(* While it pages through the wallet's transactions the importer has all   *)
(* from its cursor on; what it has collected it still has to fetch, or has *)
(* stored if it is a trade.                                                *)
ImportInv ==
    /\ backfill \in {"idle", "wallet", "account", "fetch", "done"}
    /\ acc \subseteq Txs /\ todo \subseteq Txs /\ clean \in BOOLEAN
    /\ before \in 0..Len(chain) /\ started \in 0..Len(chain)
    /\ backfill = "wallet" => /\ acc = IF before = 0 THEN {} ELSE {i \in Due : before <= i}
                             /\ before <= started
    /\ backfill \in {"account", "fetch", "done"} => Newest(Due, BackfillLimit) \subseteq acc
    /\ (backfill \in {"fetch", "done"} /\ clean) =>
          \A i \in acc : Parses(i) => i \in todo \cup table
    /\ backfill = "done" => todo = {}

IInv == IndexInv /\ ImportInv

USE IndexerAssumption DEF IndexerAssumption

(* Nothing has been confirmed in the initial state. *)
LEMMA Initial == Init => IInv
<1> SUFFICES ASSUME Init PROVE IInv
  OBVIOUS
<1> USE DEF Init
<1>1. ChainInv /\ Txs = {}
  BY DEF ChainInv, Txs, Slot
<1>2. TableInv /\ StreamInv
  BY <1>1 DEF TableInv, StreamInv, Handling
<1>3. HealthInv /\ MissInv
  BY <1>1 DEF HealthInv, HealthSlotCoversSignature, MissInv
<1>4. ImportInv
  BY <1>1 DEF ImportInv
<1> QED
  BY <1>1, <1>2, <1>3, <1>4 DEF IInv, IndexInv

-----------------------------------------------------------------------------
(* Sets of signatures. *)

LEMMA LeastOf ==
    ASSUME NEW S \in SUBSET Nat, S # {}
    PROVE  \E i \in S : \A j \in S : i <= j
<1>1. PICK i \in S : \A j \in S : <<j, i>> \notin OpToRel(<, Nat)
  BY NatLessThanWellFounded, WFMin
<1>2. \A j \in S : ~(j < i)
  BY <1>1 DEF OpToRel
<1> QED
  BY <1>2

LEMMA FiniteInterval ==
    ASSUME NEW n \in Nat, NEW S \in SUBSET (1..n)
    PROVE  IsFiniteSet(S) /\ \A i \in S : i \in Nat
<1>1. 1 \in Int /\ n \in Int
  OBVIOUS
<1>2. IsFiniteSet(1..n)
  BY <1>1, FS_Interval
<1>3. IsFiniteSet(S)
  BY <1>2, FS_Subset
<1>4. \A i \in S : i \in Nat
  OBVIOUS
<1> QED
  BY <1>3, <1>4

LEMMA GreatestOf ==
    ASSUME NEW n \in Nat, NEW S \in SUBSET (1..n), S # {}
    PROVE  \E i \in S : \A j \in S : j <= i
<1> DEFINE T == {k \in Nat : n - k \in S}
<1>1. PICK i : i \in S
  OBVIOUS
<1>2. i \in 1..n /\ n - i \in Nat /\ n - (n - i) = i
  BY <1>1
<1>3. n - i \in T
  BY <1>1, <1>2
<1>4. PICK k \in T : \A l \in T : k <= l
  BY <1>3, LeastOf
<1>5. ASSUME NEW j \in S PROVE j <= n - k
  <2>1. j \in 1..n /\ n - j \in Nat /\ n - (n - j) = j
    OBVIOUS
  <2>2. k \in Nat /\ k <= n - j
    BY <1>4, <2>1
  <2> QED
    BY <2>1, <2>2
<1> QED
  BY <1>4, <1>5

(* Whatever is newer than one of the newest is one of them. *)
LEMMA NewestUpward ==
    ASSUME NEW n \in Nat, NEW S \in SUBSET (1..n), NEW k \in Int,
           NEW i \in Newest(S, k), NEW j \in S, i <= j
    PROVE  j \in Newest(S, k)
<1> DEFINE Above(m) == {l \in S : l > m}
<1>1. IsFiniteSet(S)
  BY FiniteInterval
<1>2. Above(j) \subseteq Above(i) /\ Above(i) \subseteq S /\ Above(j) \subseteq S
  <2>1. \A l \in S : l > j => l > i
    BY DEF Newest
  <2> QED
    BY <2>1
<1>3. IsFiniteSet(Above(i)) /\ IsFiniteSet(Above(j))
  BY <1>1, <1>2, FS_Subset
<1>4. Cardinality(Above(j)) <= Cardinality(Above(i))
  BY <1>2, <1>3, FS_Subset
<1>5. Cardinality(Above(j)) \in Nat /\ Cardinality(Above(i)) \in Nat
  BY <1>3, FS_CardinalityType
<1>6. Cardinality(Above(i)) < k
  BY DEF Newest
<1>7. Cardinality(Above(j)) < k
  <2> HIDE DEF Above
  <2> QED
    BY <1>4, <1>5, <1>6
<1> QED
  BY <1>7 DEF Newest

(* A page is empty only if there is nothing more. *)
LEMMA NewestOfSome ==
    ASSUME NEW n \in Nat, NEW S \in SUBSET (1..n), S # {}, NEW k \in Nat \ {0}
    PROVE  Newest(S, k) # {}
<1>1. PICK i \in S : \A j \in S : j <= i
  BY GreatestOf
<1>2. {j \in S : j > i} = {}
  <2>1. \A j \in S : ~(j > i)
    BY <1>1, FiniteInterval
  <2> QED
    BY <2>1
<1>3. Cardinality({j \in S : j > i}) = 0
  BY <1>2, FS_EmptySet
<1>4. i \in Newest(S, k)
  BY <1>3 DEF Newest
<1> QED
  BY <1>4

(* If enough are known from one on, all of the newest are. *)
LEMMA NewestKnown ==
    ASSUME NEW n \in Nat, NEW S \in SUBSET (1..n), NEW k \in Nat, NEW b \in Nat,
           k <= Cardinality({i \in S : b <= i})
    PROVE  Newest(S, k) \subseteq {i \in S : b <= i}
<1> DEFINE A == {i \in S : b <= i}
<1> SUFFICES ASSUME NEW i \in S, i < b, Cardinality({j \in S : j > i}) < k
             PROVE  FALSE
  <2>1. \A i \in S : ~(i < b) => b <= i
    BY FiniteInterval
  <2> QED
    BY <2>1 DEF Newest
<1>1. A \subseteq {j \in S : j > i}
  <2>1. \A j \in S : b <= j => j > i
    BY FiniteInterval
  <2> QED
    BY <2>1
<1>2. IsFiniteSet(S)
  BY FiniteInterval
<1>3. IsFiniteSet({j \in S : j > i}) /\ IsFiniteSet(A)
  BY <1>2, FS_Subset
<1>4. Cardinality(A) <= Cardinality({j \in S : j > i})
  BY <1>1, <1>3, FS_Subset
<1>5. Cardinality(A) \in Nat /\ Cardinality({j \in S : j > i}) \in Nat
  BY <1>3, FS_CardinalityType
<1> QED
  BY <1>4, <1>5

-----------------------------------------------------------------------------
(* What a step leaves alone. *)

(* A step that neither confirms, nor takes, nor forgets a notification. *)
LEMMA QuietStep ==
    ASSUME IndexInv, UNCHANGED <<chain, inbox, current, lastSlot, lastSig, gap, health>>,
           table \subseteq table', TableInv',
           stream' \in {"up", "down"}, streamer' \in {"connect", "recv"} \cup Handling,
           streamer' \in Handling => streamer \in Handling,
           failures' = 0 => failures = 0, crashes' = 0 => crashes = 0,
           (failures' = 0 /\ streamer \in Handling /\ streamer' \notin Handling) =>
               (Parses(current) => current \in table')
    PROVE  IndexInv'
<1>1. Txs' = Txs /\ \A i : (Parses(i)' <=> Parses(i)) /\ Slot(i)' = Slot(i)
  BY DEF Txs, Parses, Slot
<1>2. ChainInv'
  BY <1>1 DEF IndexInv, ChainInv, Slot
<1>3. StreamInv'
  BY <1>1 DEF IndexInv, StreamInv
<1>4. HealthInv'
  BY <1>1 DEF IndexInv, HealthInv, HealthSlotCoversSignature, SlotCovers
<1>5. MissInv'
  <2>1. \A i : Has(i) => Has(i)'
    BY DEF Has
  <2>2. current \in table' => Has(current)'
    BY DEF Has
  <2> QED
    BY <1>1, <2>1, <2>2 DEF IndexInv, MissInv
<1> QED
  BY <1>2, <1>3, <1>4, <1>5 DEF IndexInv

-----------------------------------------------------------------------------
(* The actions. *)

(* A transaction is confirmed after all others. *)
LEMMA ConfirmAdds == Confirm => \E e : chain' = Append(chain, e)
BY DEF Confirm

(* The newest transaction is in the channel, or in a gap. *)
LEMMA ConfirmKeeps == IndexInv /\ Confirm => IndexInv'
<1> SUFFICES ASSUME IndexInv, Confirm PROVE IndexInv'
  OBVIOUS
<1>1. PICK new : new = Len(chain) + 1
  OBVIOUS
<1>2. chain \in Seq(Transactions) /\ Len(chain) \in Nat /\ Txs = 1..Len(chain)
      /\ MaxTxs \in Nat
  BY DEF IndexInv, ChainInv, Txs
<1>3. LastSlot \in Nat /\ LastSlot <= Len(chain)
      /\ \A i \in Txs : Slot(i) \in Nat \ {0} /\ Slot(i) <= LastSlot
  <2>1. \A i \in Txs : chain[i] \in Transactions
    BY <1>2
  <2>2. \A i \in Txs : Slot(i) \in Nat \ {0} /\ i <= Len(chain)
    BY <1>2, <2>1 DEF Transactions, Slot
  <2>3. CASE chain = <<>>
    BY <1>2, <2>3 DEF LastSlot
  <2>4. CASE chain # <<>>
    <3>1. Len(chain) \in Txs /\ LastSlot = Slot(Len(chain))
      BY <1>2, <2>4 DEF LastSlot, Slot
    <3> QED
      BY <2>2, <3>1 DEF IndexInv, ChainInv
  <2> QED
    BY <2>3, <2>4
<1>4. PICK tx \in TxKinds, tied \in BOOLEAN :
        /\ tied => SlotsTie /\ chain # <<>>
        /\ chain' = Append(chain, [mentions |-> tx, slot |-> LastSlot + (IF tied THEN 0 ELSE 1)])
        /\ inbox' = IF stream = "up" /\ tx.program THEN Append(inbox, new) ELSE inbox
  BY <1>1 DEF Confirm
<1> DEFINE slot == LastSlot + (IF tied THEN 0 ELSE 1)
<1>5. slot \in Nat \ {0} /\ LastSlot <= slot /\ slot <= new
  <2>1. chain # <<>> => LastSlot # 0
    <3>1. chain # <<>> => Len(chain) \in Txs
      BY <1>2
    <3> QED
      BY <1>3, <3>1
  <2> QED
    BY <1>1, <1>2, <1>3, <1>4, <2>1
<1>6. /\ chain' \in Seq(Transactions) /\ Len(chain') = new /\ new <= MaxTxs
      /\ chain'[new] = [mentions |-> tx, slot |-> slot]
      /\ \A i \in Txs : chain'[i] = chain[i]
  <2>1. [mentions |-> tx, slot |-> slot] \in Transactions
    BY <1>5 DEF Transactions
  <2> HIDE DEF slot
  <2>2. Len(chain) < MaxTxs /\ chain' = Append(chain, [mentions |-> tx, slot |-> slot])
    BY <1>4 DEF Confirm, slot
  <2> QED
    BY <1>1, <1>2, <2>1, <2>2
<1> HIDE DEF slot
<1>7. /\ Txs' = 1..new /\ Txs \subseteq Txs' /\ Txs' = Txs \cup {new}
      /\ Slot(new)' = slot /\ \A i \in Txs : Slot(i)' = Slot(i) /\ (Parses(i)' <=> Parses(i))
      /\ Parses(new)' => tx.program
  <2>1. Txs' = 1..new /\ Txs \subseteq Txs' /\ Txs' = Txs \cup {new}
    BY <1>1, <1>2, <1>6 DEF Txs
  <2>2. Slot(new)' = slot /\ (Parses(new)' => tx.program)
    BY <1>6 DEF Slot, Parses
  <2>3. \A i \in Txs : Slot(i)' = Slot(i) /\ (Parses(i)' <=> Parses(i))
    BY <1>6 DEF Slot, Parses
  <2> QED
    BY <2>1, <2>2, <2>3
<1>8. UNCHANGED <<table, stream, streamer, current, lastSlot, lastSig, health, client,
                  failures, crashes>>
      /\ gap' = IF stream = "up" THEN gap ELSE gap \cup {new}
  BY <1>1 DEF Confirm
<1>9. ChainInv'
  <2>1. \A i \in Txs' : Slot(i)' <= i
    <3>1. \A i \in Txs : Slot(i)' <= i
      BY <1>7 DEF IndexInv, ChainInv
    <3>2. Slot(new)' <= new
      BY <1>5, <1>7
    <3> QED
      BY <1>7, <3>1, <3>2
  <2>2. \A i, j \in Txs' : i <= j => Slot(i)' <= Slot(j)'
    <3> SUFFICES ASSUME NEW i \in Txs', NEW j \in Txs', i <= j PROVE Slot(i)' <= Slot(j)'
      OBVIOUS
    <3>1. CASE j = new
      <4>1. i = new \/ i \in Txs
        BY <1>7
      <4>2. Slot(i)' <= slot
        BY <1>3, <1>5, <1>7, <4>1
      <4> QED
        BY <1>7, <3>1, <4>2
    <3>2. CASE j # new
      <4>1. i \in Txs /\ j \in Txs
        BY <1>1, <1>2, <1>7, <3>2
      <4> QED
        BY <1>7, <4>1 DEF IndexInv, ChainInv
    <3> QED
      BY <3>1, <3>2
  <2> QED
    BY <1>6, <2>1, <2>2 DEF ChainInv
<1>10. TableInv'
  BY <1>7, <1>8 DEF IndexInv, TableInv
<1>11. /\ inbox' \in Seq(Txs')
       /\ \A m, n \in DOMAIN inbox' : m < n => inbox'[m] < inbox'[n]
       /\ \A n \in DOMAIN inbox' : current < inbox'[n]
       /\ \A i : (\E n \in DOMAIN inbox : inbox[n] = i) => \E n \in DOMAIN inbox' : inbox'[n] = i
       /\ (stream = "up" /\ tx.program) => \E n \in DOMAIN inbox' : inbox'[n] = new
  <2>1. inbox \in Seq(Txs) /\ inbox \in Seq(Txs') /\ current < new
        /\ \A n \in DOMAIN inbox : inbox[n] \in Txs /\ inbox[n] < new
    <3>1. inbox \in Seq(Txs) /\ current \in 0..Len(chain)
      BY DEF IndexInv, StreamInv
    <3>2. \A n \in DOMAIN inbox : inbox[n] \in Txs
      BY <3>1
    <3>3. inbox \in Seq(Txs')
      BY <1>7, <3>1
    <3> QED
      BY <1>1, <1>2, <3>1, <3>2, <3>3
  <2>2. CASE stream = "up" /\ tx.program
    <3>1. inbox' = Append(inbox, new) /\ new \in Txs'
      BY <1>4, <1>7, <2>2
    <3>2. /\ inbox' \in Seq(Txs') /\ Len(inbox) \in Nat /\ DOMAIN inbox = 1..Len(inbox)
          /\ DOMAIN inbox' = 1..(Len(inbox) + 1) /\ inbox'[Len(inbox) + 1] = new
          /\ \A n \in DOMAIN inbox : inbox'[n] = inbox[n]
      BY <2>1, <3>1
    <3>3. \A n \in DOMAIN inbox' : n \in DOMAIN inbox \/ n = Len(inbox) + 1
      BY <3>2
    <3>4. \A m, n \in DOMAIN inbox' : m < n => m \in DOMAIN inbox
      BY <3>2
    <3>5. \A m, n \in DOMAIN inbox' : m < n => inbox'[m] < inbox'[n]
      BY <2>1, <3>2, <3>3, <3>4 DEF IndexInv, StreamInv
    <3>6. \A n \in DOMAIN inbox' : current < inbox'[n]
      BY <2>1, <3>2, <3>3 DEF IndexInv, StreamInv
    <3>7. Len(inbox) + 1 \in DOMAIN inbox' /\ DOMAIN inbox \subseteq DOMAIN inbox'
      BY <3>2
    <3> QED
      BY <3>2, <3>5, <3>6, <3>7
  <2>3. CASE ~(stream = "up" /\ tx.program)
    <3>1. inbox' = inbox
      BY <1>4, <2>3
    <3> QED
      BY <2>1, <2>3, <3>1 DEF IndexInv, StreamInv
  <2> QED
    BY <2>2, <2>3
<1>12. current \in Txs => Slot(current)' = Slot(current)
  BY <1>7, <1>8 DEF Slot
<1>13. StreamInv'
  <2>1. current \in 0..Len(chain) /\ current \in 0..Len(chain') /\ (current # 0 => current \in Txs)
    <3>1. current \in 0..Len(chain) /\ Len(chain') = Len(chain) + 1
      BY <1>1, <1>6 DEF IndexInv, StreamInv
    <3> QED
      BY <1>2, <3>1
  <2> QED
    BY <1>7, <1>8, <1>11, <1>12, <2>1 DEF IndexInv, StreamInv
<1>14. HealthInv'
  <2>1. health.sig \in 0..current /\ current \in 0..Len(chain)
    BY DEF IndexInv, HealthInv, StreamInv
  <2>2. health.sig # 0 => health.sig \in Txs
    BY <1>2, <2>1
  <2> QED
    BY <1>7, <1>8, <2>2 DEF IndexInv, HealthInv, HealthSlotCoversSignature, SlotCovers
<1>15. MissInv'
  <2>1. \A i : Has(i) => Has(i)'
    BY <1>8, <1>11 DEF Has
  <2>2. Parses(new)' => Has(new)'
    BY <1>7, <1>8, <1>11 DEF Has
  <2>3. ASSUME NEW i \in Txs', failures = 0, crashes = 0, Parses(i)'
        PROVE  Has(i)' \/ (i = current /\ streamer \in Handling)
    <3>1. CASE i = new
      BY <2>2, <2>3, <3>1
    <3>2. CASE i \in Txs
      BY <1>7, <2>1, <2>3, <3>2 DEF IndexInv, MissInv
    <3> QED
      BY <1>7, <3>1, <3>2
  <2> QED
    BY <1>8, <2>3 DEF MissInv
<1> QED
  BY <1>9, <1>10, <1>13, <1>14, <1>15 DEF IndexInv

(* The next notification is later than the one before. *)
LEMMA ReceiveKeeps == IndexInv /\ Receive => IndexInv'
<1> SUFFICES ASSUME IndexInv, Receive PROVE IndexInv'
  OBVIOUS
<1> DEFINE head == Head(inbox)
<1>1. /\ current' = head /\ inbox' = Tail(inbox) /\ lastSlot' = Slot(head)
      /\ streamer' = "publish" /\ inbox # <<>> /\ streamer = "recv"
      /\ UNCHANGED <<chain, table, stream, lastSig, gap, health, client, crashes, failures>>
  BY DEF Receive, Slot
<1>2. inbox \in Seq(Txs) /\ chain \in Seq(Transactions) /\ Len(chain) \in Nat
      /\ current \in 0..Len(chain) /\ Txs = 1..Len(chain) /\ Len(inbox) \in Nat \ {0}
  BY <1>1 DEF IndexInv, StreamInv, ChainInv, Txs
<1>3. head \in Txs /\ head = inbox[1] /\ current < head /\ 1 \in DOMAIN inbox
  <2>1. head \in Txs /\ head = inbox[1] /\ 1 \in DOMAIN inbox
    BY <1>1, <1>2
  <2> QED
    BY <2>1 DEF IndexInv, StreamInv
<1>4. /\ inbox' \in Seq(Txs) /\ DOMAIN inbox = 1..Len(inbox) /\ DOMAIN inbox' = 1..(Len(inbox) - 1)
      /\ \A n \in DOMAIN inbox' : inbox'[n] = inbox[n + 1] /\ n + 1 \in DOMAIN inbox /\ 1 < n + 1
  <2>1. inbox' \in Seq(Txs) /\ Len(inbox') = Len(inbox) - 1 /\ inbox' = Tail(inbox)
    BY <1>1, <1>2
  <2>2. DOMAIN inbox = 1..Len(inbox) /\ DOMAIN inbox' = 1..(Len(inbox) - 1)
    BY <1>2, <2>1
  <2>3. \A n \in 1..(Len(inbox) - 1) : Tail(inbox)[n] = inbox[n + 1]
    BY <1>1, <1>2
  <2>4. \A n \in 1..(Len(inbox) - 1) : n + 1 \in 1..Len(inbox) /\ 1 < n + 1
    BY <1>2
  <2> QED
    BY <2>1, <2>2, <2>3, <2>4
<1>5. Txs' = Txs /\ \A i : (Parses(i)' <=> Parses(i)) /\ Slot(i)' = Slot(i)
  BY <1>1 DEF Txs, Parses, Slot
<1>6. ChainInv' /\ TableInv'
  BY <1>1, <1>5 DEF IndexInv, ChainInv, TableInv
<1>7. StreamInv'
  <2>1. \A m, n \in DOMAIN inbox' : m < n => inbox'[m] < inbox'[n]
    <3> SUFFICES ASSUME NEW m \in DOMAIN inbox', NEW n \in DOMAIN inbox', m < n
                 PROVE  inbox'[m] < inbox'[n]
      OBVIOUS
    <3>1. m + 1 < n + 1
      BY <1>2, <1>4
    <3> QED
      BY <1>4, <3>1 DEF IndexInv, StreamInv
  <2>2. \A n \in DOMAIN inbox' : head < inbox'[n]
    BY <1>3, <1>4 DEF IndexInv, StreamInv
  <2>3. head \in 0..Len(chain) /\ head # 0
    BY <1>2, <1>3
  <2>4. lastSig' \in 0..head
    BY <1>1, <1>2, <1>3 DEF IndexInv, StreamInv
  <2> HIDE DEF head
  <2> QED
    BY <1>1, <1>3, <1>4, <1>5, <2>1, <2>2, <2>3, <2>4 DEF IndexInv, StreamInv, Handling
<1>8. HealthInv'
  <2>1. lastSlot <= Slot(head) /\ lastSlot \in Nat /\ Slot(head) \in Nat
    <3>1. \A i \in Txs : Slot(i) \in Nat
      <4>1. \A i \in Txs : chain[i] \in Transactions
        BY <1>2
      <4> QED
        BY <4>1 DEF Slot, Transactions
    <3>2. current # 0 => current \in Txs /\ current <= head
      BY <1>2, <1>3
    <3> QED
      BY <1>3, <3>1, <3>2 DEF IndexInv, StreamInv, ChainInv
  <2>2. 0..current \subseteq 0..head /\ 0..lastSlot \subseteq 0..Slot(head)
    <3>1. current \in Nat /\ head \in Nat /\ current <= head
      BY <1>2, <1>3
    <3>2. 0..current \subseteq 0..head
      BY <3>1
    <3>3. 0..lastSlot \subseteq 0..Slot(head)
      BY <2>1
    <3> QED
      BY <3>2, <3>3
  <2> HIDE DEF head
  <2> QED
    BY <1>1, <1>5, <2>2 DEF IndexInv, HealthInv, HealthSlotCoversSignature, SlotCovers
<1>9. MissInv'
  <2>1. \A i : Has(i) => Has(i)' \/ i = head
    <3> SUFFICES ASSUME NEW i, NEW n \in DOMAIN inbox, inbox[n] = i
                 PROVE  i = head \/ \E m \in DOMAIN inbox' : inbox'[m] = i
      BY <1>1 DEF Has
    <3>1. n # 1 => n - 1 \in DOMAIN inbox' /\ (n - 1) + 1 = n
      <4>1. n \in 1..Len(inbox) /\ Len(inbox) \in Nat
        BY <1>2, <1>4
      <4> QED
        BY <1>4, <4>1
    <3>2. n # 1 => inbox'[n - 1] = inbox[n]
      BY <1>4, <3>1
    <3> QED
      BY <1>3, <3>1, <3>2
  <2>2. streamer \notin Handling /\ streamer' \in Handling
    BY <1>1 DEF Handling
  <2> HIDE DEF head
  <2> QED
    BY <1>1, <1>5, <2>1, <2>2 DEF IndexInv, MissInv
<1> QED
  BY <1>6, <1>7, <1>8, <1>9 DEF IndexInv

(* The signature that is published is the one in hand. *)
LEMMA PublishKeeps == IndexInv /\ PublishSignature => IndexInv'
<1> SUFFICES ASSUME IndexInv, PublishSignature PROVE IndexInv'
  OBVIOUS
<1>1. /\ streamer = "publish" /\ lastSig' = current /\ streamer' = "fetch"
      /\ UNCHANGED <<chain, table, stream, inbox, current, lastSlot, gap, health, client,
                     crashes, failures>>
  BY DEF PublishSignature
<1>2. Txs' = Txs /\ \A i : (Parses(i)' <=> Parses(i)) /\ Slot(i)' = Slot(i)
  BY <1>1 DEF Txs, Parses, Slot
<1>3. ChainInv' /\ TableInv'
  BY <1>1, <1>2 DEF IndexInv, ChainInv, TableInv
<1>4. StreamInv'
  <2>1. current \in 0..Len(chain) /\ Len(chain) \in Nat /\ current \in 0..current
    BY DEF IndexInv, StreamInv, ChainInv
  <2> QED
    BY <1>1, <1>2, <2>1 DEF IndexInv, StreamInv, Handling
<1>5. HealthInv'
  BY <1>1, <1>2 DEF IndexInv, HealthInv, HealthSlotCoversSignature, SlotCovers
<1>6. MissInv'
  BY <1>1, <1>2 DEF IndexInv, MissInv, Has, Handling
<1> QED
  BY <1>3, <1>4, <1>5, <1>6 DEF IndexInv

(* After a crash nothing is remembered, and trades may be missing. *)
LEMMA CrashKeeps == IndexInv /\ CrashIndexer => IndexInv'
<1> SUFFICES ASSUME IndexInv, CrashIndexer PROVE IndexInv'
  OBVIOUS
<1>1. /\ crashes' = crashes + 1 /\ stream' = "down" /\ inbox' = <<>> /\ streamer' = "connect"
      /\ current' = 0 /\ lastSlot' = 0 /\ lastSig' = 0
      /\ UNCHANGED <<chain, table, gap, client, failures>>
  BY DEF CrashIndexer
<1>2. health' = [at |-> "idle", sig |-> 0, slot |-> 0]
  BY DEF CrashIndexer, IndexInv, HealthInv
<1>3. Txs' = Txs /\ (\A i : Slot(i)' = Slot(i)) /\ Len(chain) \in Nat
  BY <1>1 DEF Txs, Slot, IndexInv, ChainInv
<1>4. ChainInv' /\ TableInv'
  BY <1>1, <1>3 DEF IndexInv, ChainInv, TableInv
<1>5. StreamInv'
  BY <1>1, <1>3 DEF StreamInv, Handling
<1>6. HealthInv'
  BY <1>1, <1>2 DEF HealthInv, HealthSlotCoversSignature
<1>7. MissInv'
  BY <1>1 DEF IndexInv, TableInv, MissInv
<1> QED
  BY <1>4, <1>5, <1>6, <1>7 DEF IndexInv

(* A health request reads the signature first. *)
LEMMA HealthKeeps == IndexInv /\ Health => IndexInv'
<1> SUFFICES ASSUME IndexInv, Health PROVE IndexInv'
  OBVIOUS
<1>1. UNCHANGED <<chain, table, streamVars, client, crashes, failures>>
  BY DEF Health, ReadSignature, ReadSlot, CloseHealth
<1>2. Txs' = Txs /\ \A i : (Parses(i)' <=> Parses(i)) /\ Slot(i)' = Slot(i)
  BY <1>1 DEF Txs, Parses, Slot
<1>3. ChainInv' /\ TableInv' /\ StreamInv' /\ MissInv'
  BY <1>1, <1>2 DEF IndexInv, ChainInv, TableInv, StreamInv, MissInv, Has, streamVars
<1>4. /\ chain \in Seq(Transactions) /\ Txs = 1..Len(chain) /\ Len(chain) \in Nat
      /\ current \in 0..Len(chain) /\ lastSig \in 0..current
      /\ lastSlot = IF current = 0 THEN 0 ELSE Slot(current)
      /\ health \in [at : {"idle", "slot", "answered"}, sig : 0..current, slot : 0..lastSlot]
      /\ current' = current /\ lastSlot' = lastSlot
  BY <1>1 DEF IndexInv, ChainInv, StreamInv, HealthInv, Txs, streamVars
<1>5. lastSlot \in Nat
  <2>1. current # 0 => chain[current] \in Transactions
    BY <1>4
  <2> QED
    BY <1>4, <2>1 DEF Slot, Transactions
<1>6. CASE ReadSignature
  <2>1. health' = [at |-> "slot", sig |-> lastSig, slot |-> 0]
    BY <1>6 DEF ReadSignature
  <2> QED
    BY <1>4, <1>5, <2>1, <1>3 DEF IndexInv, HealthInv, HealthSlotCoversSignature
<1>7. CASE ReadSlot
  <2>1. health' = [at |-> "answered", sig |-> health.sig, slot |-> lastSlot]
    BY <1>4, <1>7 DEF ReadSlot
  <2>2. health.sig # 0 => Slot(health.sig) <= lastSlot
    BY <1>4 DEF IndexInv, ChainInv
  <2>3. HealthSlotCoversSignature'
    BY <1>2, <2>1, <2>2 DEF HealthSlotCoversSignature, SlotCovers
  <2>4. health' \in [at : {"idle", "slot", "answered"}, sig : 0..current, slot : 0..lastSlot]
    BY <1>4, <1>5, <2>1
  <2> QED
    BY <1>3, <1>4, <2>3, <2>4 DEF IndexInv, HealthInv
<1>8. CASE CloseHealth
  <2>1. health' = [at |-> "idle", sig |-> 0, slot |-> 0]
    BY <1>8 DEF CloseHealth
  <2> QED
    BY <1>4, <1>5, <2>1, <1>3 DEF IndexInv, HealthInv, HealthSlotCoversSignature
<1> QED
  BY <1>6, <1>7, <1>8 DEF Health

(* What parses is inserted, unless something fails. *)
LEMMA StreamerKeeps ==
    IndexInv /\ (Subscribe \/ EndOfStream \/ CutStream \/ FetchTransaction \/ InsertTrade
             \/ SignatureFails) => IndexInv'
<1> SUFFICES ASSUME IndexInv, Subscribe \/ EndOfStream \/ CutStream \/ FetchTransaction
                          \/ InsertTrade \/ SignatureFails
             PROVE  IndexInv'
  OBVIOUS
<1>1. TableInv /\ StreamInv /\ failures \in Nat
  BY DEF IndexInv, TableInv
<1>2. CASE Subscribe \/ EndOfStream \/ CutStream
  <2>1. TableInv'
    BY <1>1, <1>2 DEF Subscribe, EndOfStream, CutStream, TableInv, Txs
  <2> QED
    BY <1>1, <1>2, <2>1, QuietStep DEF Subscribe, EndOfStream, CutStream, StreamInv, Handling
<1>3. CASE FetchTransaction
  <2>1. TableInv'
    BY <1>1, <1>3 DEF FetchTransaction, TableInv, Txs
  <2> QED
    BY <1>1, <1>3, <2>1, QuietStep DEF FetchTransaction, StreamInv, Handling
<1>4. CASE InsertTrade
  <2>1. current \in Txs
    BY <1>1, <1>4 DEF InsertTrade, StreamInv, Handling
  <2>2. TableInv'
    BY <1>1, <1>4, <2>1 DEF InsertTrade, TableInv, Txs
  <2> QED
    BY <1>1, <1>4, <2>2, QuietStep DEF InsertTrade, StreamInv, Handling
<1>5. CASE SignatureFails
  <2>1. TableInv' /\ failures' # 0
    BY <1>1, <1>5 DEF SignatureFails, Fails, TableInv, Txs
  <2> QED
    BY <1>1, <1>5, <2>1, QuietStep DEF SignatureFails, StreamInv, Handling
<1> QED
  BY <1>2, <1>3, <1>4, <1>5

(* The importer only adds what it collected; clients only read. *)
LEMMA OthersKeep == IInv /\ (Backfill \/ History) => IndexInv'
<1> SUFFICES ASSUME IInv, Backfill \/ History PROVE IndexInv'
  OBVIOUS
<1>1. TableInv /\ todo \subseteq Txs /\ IndexInv
      /\ streamer \in {"connect", "recv"} \cup Handling /\ stream \in {"up", "down"}
  BY DEF IInv, IndexInv, ImportInv, StreamInv
<1>2. /\ UNCHANGED <<chain, streamVars, health, crashes>> /\ table \subseteq table'
      /\ table' \subseteq Txs /\ failures' \in Nat /\ (failures' = 0 => failures = 0)
  <2>1. CASE StartBackfill \/ CollectPage \/ NextAddress \/ FinishBackfill \/ History
    BY <1>1, <2>1 DEF StartBackfill, CollectPage, NextAddress, FinishBackfill, History,
                      OpenHistory, ReadPage, TableInv
  <2>2. CASE Import
    BY <1>1, <2>2 DEF Import, TableInv
  <2>3. CASE CollectFails \/ ImportFails
    BY <1>1, <2>3 DEF CollectFails, ImportFails, Fails, TableInv
  <2> QED
    BY <2>1, <2>2, <2>3 DEF Backfill
<1>3. /\ client'.at \in {"idle", "paging", "done"} /\ client'.offset \in Nat
      /\ client'.seen \subseteq Txs /\ client'.there \subseteq Txs
  <2>1. CASE Backfill
    BY <1>1, <2>1 DEF Backfill, StartBackfill, CollectPage, NextAddress, CollectFails, Import,
                      ImportFails, FinishBackfill, TableInv
  <2>2. CASE OpenHistory
    BY <1>1, <2>2 DEF OpenHistory, TableInv
  <2>3. CASE ReadPage
    <3>1. PICK page \in SUBSET table :
            client' = [client EXCEPT
                         !.at = IF Cardinality(page) < HistoryLimit THEN "done" ELSE "paging",
                         !.offset = @ + HistoryLimit, !.seen = @ \cup page]
      BY <2>3 DEF ReadPage, Pages
    <3>2. client.seen \cup page \subseteq Txs
      BY <1>1 DEF TableInv
    <3> QED
      BY <1>1, <3>1, <3>2 DEF TableInv
  <2> QED
    BY <2>1, <2>2, <2>3 DEF History
<1>4. TableInv'
  BY <1>1, <1>2, <1>3 DEF TableInv, Txs, streamVars
<1> QED
  BY <1>1, <1>2, <1>4, QuietStep DEF streamVars

-----------------------------------------------------------------------------
(* The importer. *)

(* What the importer knows does not depend on the rest. *)
LEMMA ImportFrame ==
    ASSUME IInv, UNCHANGED <<backfill, acc, before, todo, started, clean>>,
           table \subseteq table', Len(chain) \in Nat, Len(chain') \in Nat, Len(chain) <= Len(chain'),
           \A i \in Txs : chain'[i] = chain[i]
    PROVE  ImportInv'
<1>1. Txs \subseteq Txs' /\ 0..Len(chain) \subseteq 0..Len(chain') /\ 1..started \subseteq Txs
  BY DEF IInv, ImportInv, Txs
<1>2. \A i \in Txs : (Of("wallet", i)' <=> Of("wallet", i)) /\ (Parses(i)' <=> Parses(i))
  BY DEF Of, Parses
<1>3. Due' = Due
  BY <1>1, <1>2 DEF Due
<1> QED
  BY <1>1, <1>2, <1>3 DEF IInv, ImportInv

LEMMA OldestIs ==
    ASSUME NEW n \in Nat, NEW S \in SUBSET (1..n), S # {}
    PROVE  Oldest(S) \in S /\ \A j \in S : Oldest(S) <= j
<1>1. \E i \in S : \A j \in S : i <= j
  BY LeastOf
<1> QED
  BY <1>1 DEF Oldest

(* A page is the newest of what is older than the cursor. *)
LEMMA PageIs ==
    ASSUME IInv, ~Full
    PROVE  /\ \E k \in Nat \ {0} : Page = Newest(Older(backfill, before), k)
           /\ Older(backfill, before) \in SUBSET (1..Len(chain)) /\ Len(chain) \in Nat
           /\ Page \subseteq Older(backfill, before)
<1>1. Len(chain) \in Nat /\ Older(backfill, before) \in SUBSET (1..Len(chain))
  BY DEF IInv, IndexInv, ChainInv, Older, Txs
<1>2. Cardinality(acc) \in Nat
  <2>1. acc \in SUBSET (1..Len(chain))
    BY DEF IInv, ImportInv, Txs
  <2> QED
    BY <1>1, <2>1, FiniteInterval, FS_CardinalityType
<1> DEFINE room == BackfillLimit - Cardinality(acc)
<1> DEFINE k == IF room < PageCap THEN room ELSE PageCap
<1>3. k \in Nat \ {0}
  BY <1>2 DEF Full
<1>4. Page = Newest(Older(backfill, before), k)
  BY DEF Page
<1> HIDE DEF k
<1> QED
  BY <1>1, <1>3, <1>4 DEF Newest

(* A page continues what was collected without leaving anything out. *)
LEMMA CollectKeeps == IInv /\ CollectPage => ImportInv'
<1> SUFFICES ASSUME IInv, CollectPage PROVE ImportInv'
  OBVIOUS
<1>1. /\ backfill \in {"wallet", "account"} /\ ~Full /\ Page # {}
      /\ acc' = acc \cup Page /\ before' = Oldest(Page)
      /\ started' = IF backfill = "wallet" /\ before = 0 THEN Len(chain) ELSE started
      /\ UNCHANGED <<chain, table, backfill, todo, clean>>
  BY DEF CollectPage
<1>2. PICK k \in Nat \ {0} : Page = Newest(Older(backfill, before), k)
  BY <1>1, PageIs
<1>3. /\ Older(backfill, before) \in SUBSET (1..Len(chain)) /\ Len(chain) \in Nat
      /\ Page \subseteq Older(backfill, before) /\ Page \in SUBSET (1..Len(chain))
  BY <1>1, PageIs
<1>4. before' \in Page /\ \A j \in Page : before' <= j
  BY <1>1, <1>3, OldestIs
<1>5. /\ acc' \subseteq Txs' /\ before' \in 1..Len(chain) /\ started' \in 0..Len(chain)
      /\ todo' \subseteq Txs' /\ Txs' = Txs
  <2>1. Txs' = Txs /\ Txs = 1..Len(chain)
    BY <1>1 DEF Txs
  <2> QED
    BY <1>1, <1>3, <1>4, <2>1 DEF IInv, ImportInv
<1>6. \A i : (Of("wallet", i)' <=> Of("wallet", i)) /\ (Parses(i)' <=> Parses(i))
  BY <1>1 DEF Of, Parses
<1>7. CASE backfill = "account"
  <2>1. Due' = Due
    BY <1>1, <1>6, <1>7 DEF Due
  <2> QED
    BY <1>1, <1>3, <1>5, <1>6, <1>7, <2>1 DEF IInv, ImportInv
<1>8. CASE backfill = "wallet"
  <2>1. \A i : i \in Due' <=> (i \in 1..started' /\ Of("wallet", i))
    BY <1>6 DEF Due
  <2>2. \A i : i \in Older(backfill, before) <=>
                 (i \in 1..Len(chain) /\ Of("wallet", i) /\ (before = 0 \/ i < before))
    BY <1>8 DEF Older, Txs
  <2>3. /\ before \in 0..Len(chain) /\ started \in 0..Len(chain) /\ before <= started
        /\ before = 0 => acc = {} /\ started' = Len(chain)
        /\ before # 0 => acc = {i \in Due : before <= i} /\ started' = started
    BY <1>1, <1>8 DEF IInv, ImportInv
  <2>4. \A i \in Page : /\ Of("wallet", i) /\ before' <= i /\ i \in 1..Len(chain)
                        /\ before # 0 => i < before
    BY <1>3, <1>4, <2>2
  <2>5. before' \in 1..started'
    BY <1>3, <1>4, <2>3, <2>4
  <2>6. \A i \in acc' : i \in Due' /\ before' <= i
    <3>1. ASSUME NEW i \in Page PROVE i \in Due' /\ before' <= i
      BY <1>3, <2>1, <2>3, <2>4
    <3>2. ASSUME NEW i \in acc PROVE i \in Due' /\ before' <= i
      <4>1. before # 0 /\ i \in Due /\ before <= i /\ before' < before
        BY <1>4, <2>3, <2>4
      <4>2. i \in Due'
        BY <2>1, <2>3, <4>1 DEF Due
      <4>3. i \in Nat /\ before' \in Nat /\ before \in Nat
        BY <1>3, <2>3, <2>5, <4>1 DEF Due
      <4> QED
        BY <4>1, <4>2, <4>3
    <3> QED
      BY <1>1, <3>1, <3>2
  <2>7. \A i \in Due' : before' <= i => i \in acc'
    <3> SUFFICES ASSUME NEW i \in Due', before' <= i PROVE i \in acc'
      OBVIOUS
    <3>1. i \in 1..started' /\ Of("wallet", i) /\ i \in 1..Len(chain) /\ i \in Nat
      BY <1>3, <1>5, <2>1
    <3>2. CASE before = 0 \/ i < before
      <4>1. i \in Older(backfill, before)
        BY <2>2, <3>1, <3>2
      <4>2. i \in Newest(Older(backfill, before), k)
        <5>1. before' \in Newest(Older(backfill, before), k) /\ k \in Int /\ before' <= i
          BY <1>2, <1>4, <3>1
        <5> QED
          BY <1>3, <4>1, <5>1, NewestUpward
      <4> QED
        BY <1>1, <1>2, <4>2
    <3>3. CASE before # 0 /\ ~(i < before)
      <4>1. before <= i
        BY <2>3, <3>1, <3>3
      <4>2. i \in Due
        BY <2>3, <3>1, <3>3 DEF Due
      <4> QED
        BY <1>1, <2>3, <3>3, <4>1, <4>2
    <3> QED
      BY <3>2, <3>3
  <2>8. acc' = {i \in Due' : before' <= i}
    BY <2>6, <2>7
  <2>9. before' # 0 /\ before' <= started'
    BY <1>3, <2>3, <2>5
  <2> QED
    BY <1>1, <1>5, <1>8, <2>8, <2>9 DEF IInv, ImportInv
<1> QED
  BY <1>1, <1>7, <1>8
(* The wallet's newest are collected when its pages end. *)
LEMMA NextAddressKeeps == IInv /\ NextAddress => ImportInv'
<1> SUFFICES ASSUME IInv, NextAddress PROVE ImportInv'
  OBVIOUS
<1>1. /\ backfill \in {"wallet", "account"} /\ (Full \/ Page = {}) /\ before' = 0
      /\ UNCHANGED <<chain, table, acc, started, clean>>
      /\ \/ backfill = "wallet" /\ backfill' = "account" /\ todo' = todo
         \/ backfill = "account" /\ backfill' = "fetch" /\ todo' = acc
  BY DEF NextAddress
<1>2. Txs' = Txs /\ Due' = Due /\ Len(chain) \in Nat /\ \A i : Parses(i)' <=> Parses(i)
  BY <1>1 DEF Txs, Due, Of, Parses, IInv, IndexInv, ChainInv
<1>3. started \in 0..Len(chain) /\ before \in 0..Len(chain) /\ Due \in SUBSET (1..Len(chain))
  BY <1>2 DEF IInv, ImportInv, Due
<1>4. backfill = "wallet" => Newest(Due, BackfillLimit) \subseteq acc
  <2> SUFFICES ASSUME backfill = "wallet" PROVE Newest(Due, BackfillLimit) \subseteq acc
    OBVIOUS
  <2>1. acc = IF before = 0 THEN {} ELSE {i \in Due : before <= i}
    BY DEF IInv, ImportInv
  <2>2. CASE Full
    <3>1. before # 0
      <4>1. Cardinality({}) = 0
        BY FS_EmptySet
      <4> QED
        BY <2>1, <2>2, <4>1 DEF Full
    <3>2. BackfillLimit <= Cardinality({i \in Due : before <= i})
      <4>1. {i \in Due : before <= i} \in SUBSET (1..Len(chain))
        BY <1>3
      <4>2. Cardinality({i \in Due : before <= i}) \in Nat
        BY <1>2, <4>1, FiniteInterval, FS_CardinalityType
      <4> QED
        BY <2>1, <2>2, <3>1, <4>2 DEF Full
    <3> QED
      <4>1. before \in Nat /\ BackfillLimit \in Nat
        BY <1>2, <1>3
      <4>2. Newest(Due, BackfillLimit) \subseteq {i \in Due : before <= i}
        BY <1>2, <1>3, <3>2, <4>1, NewestKnown
      <4> QED
        BY <2>1, <3>1, <4>2
  <2>3. CASE ~Full
    <3>1. Page = {}
      BY <1>1, <2>3
    <3>2. Older("wallet", before) = {}
      BY <2>3, <3>1, PageIs, NewestOfSome
    <3>3. \A i \in Due : i \in Txs /\ Of("wallet", i) /\ i \in Nat
      BY <1>3 DEF Due, Txs
    <3>4. \A i \in Due : before # 0 /\ ~(i < before)
      BY <3>2, <3>3 DEF Older
    <3>5. \A i \in Due : i \in acc
      BY <1>3, <2>1, <3>3, <3>4
    <3> QED
      BY <3>5 DEF Newest
  <2> QED
    BY <2>2, <2>3
<1>5. 0 \in 0..Len(chain)
  BY <1>2
<1> QED
  BY <1>1, <1>2, <1>4, <1>5 DEF IInv, ImportInv

(* Each collected transaction is imported, or the run is not clean. *)
LEMMA ImportKeeps ==
    IInv /\ (StartBackfill \/ CollectFails \/ Import \/ ImportFails \/ FinishBackfill) => ImportInv'
<1> SUFFICES ASSUME IInv, StartBackfill \/ CollectFails \/ Import \/ ImportFails \/ FinishBackfill
             PROVE  ImportInv'
  OBVIOUS
<1>1. chain' = chain /\ Len(chain) \in Nat /\ ImportInv
  BY DEF StartBackfill, CollectFails, Import, ImportFails, FinishBackfill, IInv, IndexInv, ChainInv
<1>2. Txs' = Txs /\ \A i : (Parses(i)' <=> Parses(i)) /\ (Of("wallet", i)' <=> Of("wallet", i))
  BY <1>1 DEF Txs, Parses, Of
<1>3. started' = started => Due' = Due
  BY <1>2 DEF Due
<1>4. CASE StartBackfill
  <2>1. 0 \in 0..Len(chain) /\ Len(chain) \in 0..Len(chain) /\ 0 <= Len(chain)
    BY <1>1
  <2> QED
    BY <1>1, <1>2, <1>4, <2>1 DEF StartBackfill, ImportInv
<1>5. CASE CollectFails
  BY <1>1, <1>2, <1>3, <1>5 DEF CollectFails, ImportInv
<1>6. CASE Import
  <2>1. PICK i \in todo : /\ todo' = todo \ {i}
                          /\ table' = IF Parses(i) THEN table \cup {i} ELSE table
    BY <1>6 DEF Import
  <2>2. UNCHANGED <<backfill, acc, before, started, clean>> /\ backfill = "fetch"
    BY <1>6 DEF Import
  <2> QED
    BY <1>1, <1>2, <1>3, <2>1, <2>2 DEF ImportInv
<1>7. CASE ImportFails
  BY <1>1, <1>2, <1>3, <1>7 DEF ImportFails, ImportInv
<1>8. CASE FinishBackfill
  BY <1>1, <1>2, <1>3, <1>8 DEF FinishBackfill, ImportInv
<1> QED
  BY <1>4, <1>5, <1>6, <1>7, <1>8

-----------------------------------------------------------------------------
(* The theorems. *)

LEMMA Preserved == IInv /\ [Next]_vars => IInv'
<1> SUFFICES ASSUME IInv, [Next]_vars PROVE IInv'
  OBVIOUS
<1>1. IndexInv /\ ImportInv /\ Len(chain) \in Nat /\ Txs = 1..Len(chain)
  BY DEF IInv, IndexInv, ChainInv, Txs
<1>2. CASE Confirm
  <2>1. IndexInv'
    BY <1>1, <1>2, ConfirmKeeps
  <2>2. UNCHANGED <<backfillVars, table>>
    BY <1>2 DEF Confirm
  <2>3. Len(chain') \in Nat /\ Len(chain) <= Len(chain') /\ \A i \in Txs : chain'[i] = chain[i]
    <3>1. PICK e : chain' = Append(chain, e)
      BY <1>2, ConfirmAdds
    <3>2. chain \in Seq(Transactions)
      BY <1>1 DEF IndexInv, ChainInv
    <3> QED
      BY <1>1, <3>1, <3>2
  <2> QED
    BY <1>1, <2>1, <2>2, <2>3, ImportFrame DEF IInv, backfillVars
<1>3. CASE CutStream \/ CrashIndexer \/ Streamer \/ Health
  <2>1. IndexInv'
    BY <1>1, <1>3, StreamerKeeps, ReceiveKeeps, PublishKeeps, CrashKeeps, HealthKeeps DEF Streamer
  <2>2. UNCHANGED <<chain, backfillVars>> /\ table \subseteq table'
    BY <1>3 DEF CutStream, CrashIndexer, Streamer, Subscribe, EndOfStream, Receive, PublishSignature,
                FetchTransaction, InsertTrade, SignatureFails, Health, ReadSignature, ReadSlot,
                CloseHealth
  <2> QED
    BY <1>1, <2>1, <2>2, ImportFrame DEF IInv, backfillVars
<1>4. CASE Backfill
  <2>1. IndexInv'
    BY <1>4, OthersKeep
  <2>2. ImportInv'
    BY <1>4, CollectKeeps, NextAddressKeeps, ImportKeeps DEF Backfill
  <2> QED
    BY <2>1, <2>2 DEF IInv
<1>5. CASE History
  <2>1. IndexInv'
    BY <1>5, OthersKeep
  <2>2. UNCHANGED <<chain, backfillVars, table>>
    BY <1>5 DEF History, OpenHistory, ReadPage
  <2> QED
    BY <1>1, <2>1, <2>2, ImportFrame DEF IInv, backfillVars
<1>6. CASE Quiescent \/ UNCHANGED vars
  <2>1. UNCHANGED <<chain, table, streamVars, health, backfillVars, client, crashes, failures>>
    BY <1>6 DEF Quiescent, vars
  <2>2. TableInv'
    BY <1>1, <2>1 DEF IndexInv, TableInv, Txs, streamVars
  <2>3. IndexInv'
    BY <1>1, <2>1, <2>2, QuietStep DEF streamVars, IndexInv, StreamInv
  <2> QED
    BY <1>1, <2>1, <2>3, ImportFrame DEF IInv, backfillVars
<1> QED
  BY <1>2, <1>3, <1>4, <1>5, <1>6 DEF Next

(* A function on the first n numbers is a sequence. *)
LEMMA FunctionIsSequence ==
    ASSUME NEW S, NEW n \in Nat, NEW f \in [1..n -> S]
    PROVE f \in Seq(S)
<1>1. f \in UNION {[1..k -> S] : k \in Nat}
  OBVIOUS
<1> QED
  BY <1>1, SeqDef, Zenon

(* IInv holds in every reachable state of the indexing service. *)
THEOREM Invariant == Spec => []IInv
BY Initial, Preserved, PTL DEF Spec

(* Every variable of the streamer, the importer and the history client     *)
(* keeps its type: no row, page or channel names an unconfirmed signature. *)
THEOREM TypeCorrect == Spec => []TypeOK
<1>1. IInv => TypeOK
  <2> SUFFICES ASSUME IInv PROVE TypeOK
    OBVIOUS
  <2>1. /\ chain \in Seq(Transactions) /\ Len(chain) \in Nat /\ Len(chain) <= MaxTxs
        /\ Txs = 1..Len(chain) /\ MaxTxs \in Nat
    BY DEF IInv, IndexInv, ChainInv, Txs
  <2>2. \A i \in Txs : /\ chain[i] \in Transactions /\ Slot(i) \in Nat \ {0} /\ Slot(i) <= i
                       /\ i \in 1..Len(chain)
    <3>1. \A i \in Txs : chain[i] \in Transactions /\ i \in 1..Len(chain)
      BY <2>1
    <3>2. \A i \in Txs : Slot(i) <= i
      BY DEF IInv, IndexInv, ChainInv
    <3> QED
      BY <3>1, <3>2 DEF Transactions, Slot
  <2>3. chain \in Seq([mentions : Mentions, slot : Signatures])
    <3>1. \A i \in 1..Len(chain) : chain[i] \in [mentions : Mentions, slot : Signatures]
      BY <2>1, <2>2 DEF Transactions, Slot, Signatures
    <3>2. chain \in [1..Len(chain) -> [mentions : Mentions, slot : Signatures]]
      BY <2>1, <3>1
    <3> QED
      BY <2>1, <3>2, FunctionIsSequence
  <2>4. current \in 0..Len(chain) /\ lastSlot \in 0..Len(chain) /\ lastSig \in 0..Len(chain)
    <3>1. /\ current \in 0..Len(chain) /\ lastSig \in 0..current
          /\ lastSlot = IF current = 0 THEN 0 ELSE Slot(current)
      BY DEF IInv, IndexInv, StreamInv
    <3>2. current # 0 => current \in Txs
      BY <2>1, <3>1
    <3> QED
      BY <2>1, <2>2, <3>1, <3>2
  <2>5. health \in [at : {"idle", "slot", "answered"}, sig : 0..Len(chain), slot : 0..Len(chain)]
    <3>1. 0..current \subseteq 0..Len(chain) /\ 0..lastSlot \subseteq 0..Len(chain)
      BY <2>1, <2>4
    <3> QED
      BY <3>1 DEF IInv, IndexInv, HealthInv
  <2> QED
    BY <2>1, <2>3, <2>4, <2>5
    DEF TypeOK, IInv, IndexInv, TableInv, StreamInv, ImportInv, Handling
<1> QED
  BY <1>1, Invariant, PTL

(* What /health reads in two steps, while the streamer writes it in two,   *)
(* has a slot that is not older than its signature.                        *)
THEOREM HealthSlotCoversSignatureHolds == Spec => []HealthSlotCoversSignature
<1>1. IInv => HealthSlotCoversSignature
  BY DEF IInv, IndexInv, HealthInv
<1> QED
  BY <1>1, Invariant, PTL

(* Without an error or a restart the streamer only misses what was         *)
(* confirmed while it had no subscription.                                 *)
THEOREM OnlyGapsAndFailuresMissHolds == Spec => []OnlyGapsAndFailuresMiss
<1>1. IInv => OnlyGapsAndFailuresMiss
  BY DEF IInv, IndexInv, MissInv, Has, Handling, OnlyGapsAndFailuresMiss
<1> QED
  BY <1>1, Invariant, PTL

(* A run of backfill-bin without an error imports the wallet's newest      *)
(* trades, for any limit and any page size.                                *)
THEOREM BackfillCoversWalletHolds == Spec => []BackfillCoversWallet
<1>1. IInv => BackfillCoversWallet
  BY DEF IInv, ImportInv, Due, Newly, BackfillCoversWallet, Newest
<1> QED
  BY <1>1, Invariant, PTL

-----------------------------------------------------------------------------
(***************************************************************************)
(* The history's pages.  A row of its own slot is below the rows of the    *)
(* higher slots and no others; rows only come, so that whoever has been    *)
(* given as many rows as there are above it, and one more, has seen it.    *)
(***************************************************************************)

Higher(i) == {j \in table : Slot(j) > Slot(i)}

PageInv ==
    /\ client \in [at : {"idle", "paging", "done"}, offset : Nat, seen : SUBSET Txs,
                   there : SUBSET table]
    /\ client.at = "paging" =>
          \A i \in client.there :
             Alone(i) /\ Cardinality(Higher(i)) < client.offset => i \in client.seen
    /\ PagesMissNothing

HIDE IndexerAssumption DEF IndexerAssumption

LEMMA TableIs ==
    ASSUME IInv
    PROVE  /\ IsFiniteSet(table) /\ Cardinality(table) \in Nat
           /\ \A i \in table : i \in Txs /\ Slot(i) \in Nat
           /\ \A S \in SUBSET table : IsFiniteSet(S) /\ Cardinality(S) \in Nat
<1>1. /\ chain \in Seq(Transactions) /\ Len(chain) \in Nat
      /\ Txs = 1..Len(chain) /\ table \subseteq Txs
  BY DEF IInv, IndexInv, ChainInv, TableInv, Txs
<1>2. \A i \in table : i \in Txs /\ Slot(i) \in Nat
  <2>1. \A i \in Txs : chain[i] \in Transactions
    BY <1>1
  <2> QED
    BY <1>1, <2>1 DEF Slot, Transactions
<1>3. IsFiniteSet(table)
  <2>1. PICK n \in Nat, S \in SUBSET Txs : n = Len(chain) /\ S = table
    BY <1>1
  <2>2. S \in SUBSET (1..n)
    BY <1>1, <2>1
  <2>3. IsFiniteSet(S)
    BY <2>2, FiniteInterval
  <2> QED
    BY <2>1, <2>3
<1>4. \A S \in SUBSET table : IsFiniteSet(S)
  BY <1>3, FS_Subset
<1> QED
  BY <1>2, <1>3, <1>4, FS_CardinalityType

(* A row of its own slot is among the first rows, whatever their order     *)
(* within a slot, if and only if there are more of them than above it.     *)
LEMMA TopHas ==
    ASSUME IInv, NEW i \in table, Alone(i), NEW S \in SUBSET table, IsTop(S)
    PROVE  i \in S <=> Cardinality(Higher(i)) < Cardinality(S)
<1>1. /\ \A j \in table : Slot(j) \in Nat
      /\ IsFiniteSet(S) /\ Cardinality(S) \in Nat
      /\ IsFiniteSet(Higher(i)) /\ Cardinality(Higher(i)) \in Nat
  BY TableIs DEF Higher
<1>2. ASSUME i \in S PROVE Cardinality(Higher(i)) < Cardinality(S)
  <2>1. \A j \in Higher(i) : j \in S
    BY <1>2 DEF Higher, IsTop
  <2>2. i \notin Higher(i)
    BY <1>1 DEF Higher
  <2>3. Higher(i) \cup {i} \subseteq S
    BY <1>2, <2>1
  <2>4. Cardinality(Higher(i) \cup {i}) = Cardinality(Higher(i)) + 1
    BY <1>1, <2>2, FS_AddElement
  <2>5. Cardinality(Higher(i) \cup {i}) <= Cardinality(S)
    BY <1>1, <2>3, FS_Subset
  <2> QED
    BY <1>1, <2>4, <2>5
<1>3. ASSUME i \notin S PROVE ~(Cardinality(Higher(i)) < Cardinality(S))
  <2>1. ASSUME NEW s \in S PROVE s \in Higher(i)
    <3>1. ~(Slot(i) > Slot(s)) /\ Slot(s) # Slot(i)
      BY <1>3 DEF IsTop, Alone
    <3>2. Slot(s) \in Nat /\ Slot(i) \in Nat
      BY <1>1
    <3>3. Slot(s) > Slot(i)
      BY <3>1, <3>2
    <3> QED
      BY <3>3 DEF Higher
  <2>2. Cardinality(S) <= Cardinality(Higher(i))
    BY <1>1, <2>1, FS_Subset
  <2> QED
    BY <1>1, <2>2
<1> QED
  BY <1>2, <1>3

(* Rows come, and stay where they are. *)
LEMMA TableGrows ==
    ASSUME IInv, [Next]_vars
    PROVE  /\ table \subseteq table' /\ \A i \in table : Slot(i)' = Slot(i)
           /\ client' = client \/ History
<1>1. CASE Confirm
  <2>1. PICK e : chain' = Append(chain, e)
    BY <1>1, ConfirmAdds
  <2>2. chain \in Seq(Transactions) /\ table \subseteq 1..Len(chain)
    BY DEF IInv, IndexInv, ChainInv, TableInv, Txs
  <2>3. \A i \in table : chain'[i] = chain[i]
    BY <2>1, <2>2
  <2> QED
    BY <1>1, <2>3 DEF Confirm, Slot
<1>2. CASE \/ CutStream \/ CrashIndexer \/ Streamer \/ Health \/ Backfill \/ Quiescent
           \/ UNCHANGED vars
  <2>1. chain' = chain /\ table \subseteq table' /\ client' = client
    BY <1>2 DEF CutStream, CrashIndexer, Streamer, Subscribe, EndOfStream, Receive,
                PublishSignature, FetchTransaction, InsertTrade, SignatureFails, Health,
                ReadSignature, ReadSlot, CloseHealth, Backfill, StartBackfill, CollectPage,
                NextAddress, CollectFails, Import, ImportFails, FinishBackfill, Quiescent, vars
  <2> QED
    BY <2>1 DEF Slot
<1>3. CASE History
  <2>1. chain' = chain /\ table' = table
    BY <1>3 DEF History, OpenHistory, ReadPage
  <2> QED
    BY <1>3, <2>1 DEF Slot
<1> QED
  BY <1>1, <1>2, <1>3 DEF Next

(* Rows that come put nothing before a client's offset that was not. *)
LEMMA PageFrame ==
    ASSUME IInv, IInv', PageInv, [Next]_vars, client' = client
    PROVE  PageInv'
<1>1. client.there \subseteq table /\ table \subseteq table' /\ \A i \in table : Slot(i)' = Slot(i)
  BY TableGrows DEF PageInv
<1>6. client \in [at : {"idle", "paging", "done"}, offset : Nat, seen : SUBSET Txs',
                  there : SUBSET table']
  <2>1. client.seen \subseteq Txs'
    BY DEF IInv, IndexInv, TableInv
  <2> QED
    BY <1>1, <2>1 DEF PageInv
<1>2. ASSUME NEW i \in table
      PROVE  /\ Alone(i)' => Alone(i)
             /\ Cardinality(Higher(i)) \in Nat /\ Cardinality(Higher(i)') \in Nat
             /\ Cardinality(Higher(i)) <= Cardinality(Higher(i)')
  <2>1. Alone(i)' => Alone(i)
    BY <1>1 DEF Alone
  <2>2. Higher(i) \subseteq Higher(i)'
    BY <1>1 DEF Higher
  <2>3. Cardinality(Higher(i)) \in Nat
    BY TableIs DEF Higher
  <2>4. IsFiniteSet(Higher(i)') /\ Cardinality(Higher(i)') \in Nat
    <3>1. Len(chain') \in Nat /\ Higher(i)' \subseteq 1..Len(chain')
      <4>1. chain' \in Seq(Transactions) /\ table' \subseteq Txs'
        BY DEF IInv, IndexInv, ChainInv, TableInv
      <4>2. Txs' = 1..Len(chain') /\ Higher(i)' \subseteq table'
        BY DEF Txs, Higher
      <4>3. Len(chain') \in Nat
        BY <4>1
      <4> QED
        BY <4>1, <4>2, <4>3, Zenon
    <3>2. \E m \in Nat : \E S \in SUBSET (1..m) : S = Higher(i)'
      BY <3>1
    <3>3. ASSUME NEW m \in Nat, NEW S \in SUBSET (1..m)
          PROVE  IsFiniteSet(S)
      BY FiniteInterval
    <3>4. IsFiniteSet(Higher(i)')
      BY <3>2, <3>3
    <3> QED
      BY <3>4, FS_CardinalityType
  <2>5. Cardinality(Higher(i)) <= Cardinality(Higher(i)')
    BY <2>2, <2>4, FS_Subset
  <2> QED
    BY <2>1, <2>3, <2>4, <2>5
<1>3. client.offset \in Nat
  BY DEF IInv, IndexInv, TableInv
<1>4. ASSUME client.at = "paging", NEW i \in client.there, Alone(i)',
             Cardinality(Higher(i)') < client.offset
      PROVE  i \in client.seen
  <2>1. i \in table
    BY <1>1, <1>4
  <2>2. Alone(i) /\ Cardinality(Higher(i)) < client.offset
    BY <1>2, <1>3, <1>4, <2>1
  <2> QED
    BY <1>4, <2>2 DEF PageInv
<1>5. PagesMissNothing'
  BY <1>1, <1>2 DEF PageInv, PagesMissNothing
<1> QED
  BY <1>4, <1>5, <1>6 DEF PageInv

(* A client that begins asks for the first rows. *)
LEMMA OpenKeeps ==
    ASSUME IInv, OpenHistory
    PROVE  PageInv'
<1>1. /\ client' = [at |-> "paging", offset |-> 0, seen |-> {}, there |-> table]
      /\ UNCHANGED <<chain, table>>
  BY DEF OpenHistory
<1>2. client'.at = "paging" /\ client'.offset = 0 /\ client'.there = table
  BY <1>1
<1>3. \A i \in table : Higher(i)' = Higher(i) /\ Cardinality(Higher(i)) \in Nat
  BY <1>1, TableIs DEF Higher, Slot
<1>4. \A i \in table : ~(Cardinality(Higher(i)') < 0)
  BY <1>3
<1>5. client' \in [at : {"idle", "paging", "done"}, offset : Nat, seen : SUBSET Txs',
                   there : SUBSET table']
  BY <1>1
<1> QED
  BY <1>2, <1>4, <1>5 DEF PageInv, PagesMissNothing

(* A page holds the rows that the offset and its length put on it; the     *)
(* last one is short because there are no more.                            *)
LEMMA ReadPageKeeps ==
    ASSUME IInv, PageInv, ReadPage
    PROVE  PageInv'
<1> DEFINE o == client.offset
           L == HistoryLimit
<1>1. /\ o \in Nat /\ L \in Nat /\ client.at = "paging" /\ client.there \subseteq table
      /\ UNCHANGED <<chain, table>>
  <2>1. L \in Nat
    BY IndexerAssumption DEF IndexerAssumption
  <2> QED
    BY <2>1 DEF IInv, IndexInv, TableInv, ReadPage, PageInv
<1>2. PICK page \in Pages(o) :
         client' = [client EXCEPT !.at = IF Cardinality(page) < L THEN "done" ELSE "paging",
                                  !.offset = @ + L, !.seen = @ \cup page]
  BY DEF ReadPage
<1>3. PICK above \in Tops(Capped(o)) :
         above \cap page = {} /\ (above \cup page) \in Tops(Capped(o + L))
  BY <1>2 DEF Pages
<1> DEFINE n == Cardinality(table)
<1>4. /\ page \subseteq table /\ above \subseteq table /\ above \cup page \in SUBSET table
      /\ IsTop(above) /\ IsTop(above \cup page)
      /\ Cardinality(above) = IF o < n THEN o ELSE n
      /\ Cardinality(above \cup page) = IF o + L < n THEN o + L ELSE n
  BY <1>2, <1>3 DEF Tops, Capped, Pages
<1>5. n \in Nat /\ IsFiniteSet(above) /\ IsFiniteSet(page)
      /\ Cardinality(above) \in Nat /\ Cardinality(page) \in Nat
  BY <1>4, TableIs
<1>6. Cardinality(above \cup page) = Cardinality(above) + Cardinality(page)
  <2>1. Cardinality(above \cap page) = 0
    BY <1>3, FS_EmptySet
  <2>2. Cardinality(above \cup page)
            = Cardinality(above) + Cardinality(page) - Cardinality(above \cap page)
    BY <1>5, FS_Union
  <2> QED
    BY <1>5, <2>1, <2>2
<1>7. ASSUME NEW i \in client.there, Alone(i), Cardinality(Higher(i)) < o + L
      PROVE  i \in client.seen \cup page
  <2> DEFINE h == Cardinality(Higher(i))
  <2>1. i \in table /\ h \in Nat /\ h < n
    <3>1. i \in table
      BY <1>1
    <3>2. IsTop(table) /\ table \in SUBSET table
      BY DEF IsTop
    <3>3. h < n
      BY <1>7, <3>1, <3>2, TopHas
    <3>4. h \in Nat
      BY TableIs DEF Higher
    <3> QED
      BY <3>1, <3>3, <3>4
  <2>2. /\ i \in above <=> h < Cardinality(above)
        /\ i \in above \cup page <=> h < Cardinality(above \cup page)
    <3>1. above \in SUBSET table /\ above \cup page \in SUBSET table
      BY <1>4
    <3> QED
      BY <1>4, <1>7, <2>1, <3>1, TopHas
  <2>3. CASE h < o
    BY <1>1, <1>7, <2>3 DEF PageInv
  <2>4. CASE ~(h < o)
    <3> HIDE DEF h, o, L, n
    <3>1. ~(h < Cardinality(above)) /\ h < Cardinality(above \cup page)
      <4>1. h < o + L
        BY <1>7 DEF h
      <4> QED
        BY <1>1, <1>4, <1>5, <2>1, <2>4, <4>1
    <3> QED
      BY <2>2, <3>1
  <2> QED
    BY <2>3, <2>4
<1>8. Cardinality(page) < L => n < o + L
  <2> HIDE DEF o, L, n
  <2> QED
    BY <1>1, <1>4, <1>5, <1>6
<1>9. \A i \in table : /\ (Alone(i)' <=> Alone(i)) /\ Higher(i)' = Higher(i)
                       /\ Cardinality(Higher(i)) \in Nat /\ Cardinality(Higher(i)) <= n
  <2>1. \A i \in table : /\ (Alone(i)' <=> Alone(i)) /\ Higher(i)' = Higher(i)
                         /\ Higher(i) \in SUBSET table
    BY <1>1 DEF Alone, Higher, Slot
  <2> QED
    BY <2>1, TableIs, FS_Subset
<1>10. /\ client'.at = IF Cardinality(page) < L THEN "done" ELSE "paging"
       /\ client'.offset = o + L /\ client'.seen = client.seen \cup page
       /\ client'.there = client.there
       /\ client' \in [at : {"idle", "paging", "done"}, offset : Nat, seen : SUBSET Txs,
                       there : SUBSET table]
  <2>1. client \in [at : {"idle", "paging", "done"}, offset : Nat, seen : SUBSET Txs,
                    there : SUBSET table]
    BY DEF PageInv
  <2>2. o + L \in Nat /\ client.seen \cup page \in SUBSET Txs
    BY <1>1, <1>4, <2>1, TableIs
  <2> HIDE DEF L
  <2> QED
    BY <1>2, <2>1, <2>2
<1>11. client'.at = "paging" =>
          \A i \in client.there :
             Alone(i)' /\ Cardinality(Higher(i)') < client'.offset => i \in client'.seen
  BY <1>1, <1>7, <1>9, <1>10
<1>12. PagesMissNothing'
  <2> SUFFICES ASSUME client'.at = "done", NEW i \in client.there, Alone(i)'
               PROVE  i \in client'.seen
    BY <1>10 DEF PagesMissNothing
  <2>1. i \in table /\ Alone(i)
    BY <1>1, <1>9
  <2>2. Cardinality(page) < L
    BY <1>10
  <2>3. n < o + L
    BY <1>8, <2>2
  <2>4. Cardinality(Higher(i)) \in Nat /\ Cardinality(Higher(i)) <= n
    BY <1>9, <2>1
  <2>5. Cardinality(Higher(i)) < o + L
    <3> HIDE DEF o, L, n
    <3> QED
      BY <1>1, <1>5, <2>3, <2>4
  <2> QED
    BY <1>7, <1>10, <2>1, <2>5
<1>13. table' = table /\ Txs' = Txs
  BY <1>1 DEF Txs
<1> QED
  BY <1>10, <1>11, <1>12, <1>13 DEF PageInv

LEMMA PagesInitial == Init => PageInv
<1> SUFFICES ASSUME Init PROVE PageInv
  OBVIOUS
<1>1. client = [at |-> "idle", offset |-> 0, seen |-> {}, there |-> {}]
  BY DEF Init
<1> QED
  BY <1>1 DEF PageInv, PagesMissNothing

(* A client's offset and what it has seen go together, page after page.    *)
THEOREM PageInvariant == Spec => [](IInv /\ PageInv)
<1>1. Init => IInv /\ PageInv
  BY Initial, PagesInitial
<1>2. IInv /\ PageInv /\ [Next]_vars => (IInv /\ PageInv)'
  <2> SUFFICES ASSUME IInv, PageInv, [Next]_vars
               PROVE  IInv' /\ PageInv'
    OBVIOUS
  <2>1. IInv'
    BY Preserved
  <2>2. CASE client' = client
    BY <2>1, <2>2, PageFrame
  <2>3. CASE History
    BY <2>1, <2>3, OpenKeeps, ReadPageKeeps DEF History
  <2>4. client' = client \/ History
    BY TableGrows
  <2> QED
    BY <2>2, <2>3, <2>4
<1> QED
  BY <1>1, <1>2, PTL DEF Spec

(* A client that pages to the end has seen every row that was there when   *)
(* it began and has a slot of its own, for any limit and any table.        *)
THEOREM PagesMissNothingHolds == Spec => []PagesMissNothing
<1>1. PageInv => PagesMissNothing
  BY DEF PageInv
<1> QED
  BY <1>1, PageInvariant, PTL
=============================================================================
