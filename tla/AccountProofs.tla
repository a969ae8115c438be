--------------------------- MODULE AccountProofs ---------------------------
(***************************************************************************)
(* Proofs about Positions, for any markets, accounts and requests.  The    *)
(* argument: an account is tidy, that is, the slot a market lives in is    *)
(* the first that carries the market, because Drift takes the first dead   *)
(* slot for a market that has none.  So both handlers find the live slot,  *)
(* each in its own way.  What they read from the cache is some account     *)
(* that a request has fetched.                                             *)
(***************************************************************************)
EXTENDS Positions, FiniteSetTheorems, WellFoundedInduction, TLAPS

-----------------------------------------------------------------------------
(* The inductive invariant. *)

Slots == 1..Length

Tidy(acct) ==
    /\ acct \in [Slots -> Slot]
    /\ \A i, j \in Slots : i < j /\ Live(acct[j]) => acct[i].market # acct[j].market

Orderings == [way : {-1, 0, 1}, size : Nat, reduceOnly : {TRUE}]

Request ==
    [at : {"idle", "cache", "margin", "build", "built", "rejected", "landed", "failed"},
     snap : [Slots -> Slot], market : Nat, size : Nat \cup {Whole}, had : Nat,
     order : Orderings, withdraw : Nat]

(* What Row makes of the rows is said by DetailsInv. *)
DetailsRequest(rows) ==
    [at : {"idle", "cache", "probe", "rows", "answered"}, snap : [Slots -> Slot],
     found : SUBSET Slots, rows : {rows}]

PositionTypes ==
    /\ details \in DetailsRequest(details.rows)
    /\ closes \in [Closers -> Request]

TidyInv ==
    /\ Tidy(account) /\ Tidy(cached) /\ Tidy(details.snap)
    /\ \A c \in Closers : Tidy(closes[c].snap)

(* Once some request has cached its account, the cache is an account that *)
(* some request has fetched.                                              *)
CacheInv ==
    (details.at \notin {"idle", "cache"} \/ \E c \in Closers : closes[c].at \notin {"idle", "cache"})
        => cached \in Fetched

(* The slots that are open, or whose market has margin in an account. *)
FoundBy(snap, acct) ==
    {i \in DOMAIN snap : Open(snap[i]) \/ MarginOf(acct, snap[i].market) > 0}

RowsOf(snap, acct, helper, pnl) ==
    {Row(snap, i, helper, IF Open(snap[i]) THEN pnl ELSE 0) :
        i \in Relevant(snap, FoundBy(snap, acct))}

(* What getPositionDetails has found, and what it has made of it. *)
DetailsInv ==
    /\ details.at = "rows" => \E acct \in Fetched : details.found = FoundBy(details.snap, acct)
    /\ IF details.at = "answered"
       THEN \E acct \in Fetched, helper \in BOOLEAN, pnl \in {-MaxFunds, 0} :
                details.rows = RowsOf(details.snap, acct, helper, pnl)
       ELSE details.rows = {}

(* The margin a close has read is one of a fetched account, and it was *)
(* refused for a reason.                                               *)
Refused(c) ==
    \/ closes[c].size = 0
    \/ /\ ~OpenIn(closes[c].snap, closes[c].market)
       /\ \E acct \in Fetched : MarginOf(acct, closes[c].market) = 0

ClosesInv ==
    \A c \in Closers :
        /\ closes[c].at = "build" =>
               \E acct \in Fetched : closes[c].had = MarginOf(acct, closes[c].market)
        /\ closes[c].at = "rejected" => Refused(c)

PInv == PositionTypes /\ TidyInv /\ CacheInv /\ DetailsInv /\ ClosesInv

-----------------------------------------------------------------------------
(* Accounts. *)

LEMMA LeastOf ==
    ASSUME NEW S \in SUBSET Nat, S # {}
    PROVE  \E i \in S : \A j \in S : i <= j
<1>1. PICK i \in S : \A j \in S : <<j, i>> \notin OpToRel(<, Nat)
  BY NatLessThanWellFounded, WFMin
<1>2. \A j \in S : ~(j < i)
  BY <1>1 DEF OpToRel
<1> QED
  BY <1>2

LEMMA MinIs ==
    ASSUME NEW S \in SUBSET Nat, S # {}
    PROVE  Min(S) \in S /\ \A j \in S : Min(S) <= j
BY LeastOf DEF Min

LEMMA SlotTypes ==
    ASSUME NEW acct, Tidy(acct)
    PROVE  /\ DOMAIN acct = Slots /\ Slots \in SUBSET Nat
           /\ \A i \in Slots : /\ acct[i] \in Slot /\ acct[i].market \in Markets
                               /\ acct[i].base \in Int /\ acct[i].margin \in Nat
BY PositionsAssumption DEF Tidy, Slots, Slot, Markets

(* The slot a market lives in is the only live one, and the first that *)
(* carries the market.                                                 *)
LEMMA LiveSlot ==
    ASSUME NEW acct, Tidy(acct), NEW m, NEW i \in LiveAt(acct, m)
    PROVE  /\ i \in Slots /\ LiveAt(acct, m) = {i} /\ Min(LiveAt(acct, m)) = i
           /\ MarginOf(acct, m) = acct[i].margin /\ BaseOf(acct, m) = acct[i].base
           /\ \A j \in Carrying(acct, m) : i <= j
<1>1. /\ DOMAIN acct = Slots /\ Slots \in SUBSET Nat
      /\ \A p, q \in Slots : p < q /\ Live(acct[q]) => acct[p].market # acct[q].market
  BY SlotTypes DEF Tidy
<1>2. i \in Slots /\ acct[i].market = m /\ Live(acct[i])
  BY <1>1 DEF LiveAt
<1>3. \A j \in Slots : acct[j].market = m => ~(j < i)
  BY <1>1, <1>2
<1>4. \A j \in Slots : acct[j].market = m /\ Live(acct[j]) => ~(i < j)
  BY <1>1, <1>2
<1>5. \A j \in Slots : j \in Nat /\ i \in Nat
  BY <1>1, <1>2
<1>6. \A j \in Slots : acct[j].market = m /\ Live(acct[j]) => j = i
  BY <1>3, <1>4, <1>5
<1>7. LiveAt(acct, m) = {i}
  BY <1>1, <1>2, <1>6 DEF LiveAt
<1>8. Min({i}) = i
  BY <1>2, <1>5, MinIs
<1>9. \A j \in Carrying(acct, m) : i <= j
  <2>1. \A j \in Carrying(acct, m) : j \in Slots /\ acct[j].market = m
    BY <1>1 DEF Carrying
  <2>2. \A j \in Carrying(acct, m) : ~(j < i) /\ j \in Nat /\ i \in Nat
    BY <1>3, <1>5, <2>1
  <2> QED
    BY <2>2
<1> QED
  BY <1>2, <1>7, <1>8, <1>9 DEF MarginOf, BaseOf

(* A slot that is dead has nothing in it. *)
LEMMA DeadSlot ==
    ASSUME NEW acct, Tidy(acct), NEW m, LiveAt(acct, m) = {}
    PROVE  /\ MarginOf(acct, m) = 0 /\ BaseOf(acct, m) = 0
           /\ \A i \in Slots : acct[i].market = m => acct[i].base = 0 /\ acct[i].margin = 0
<1>1. \A i \in Slots : acct[i].market = m => ~Live(acct[i])
  BY SlotTypes DEF LiveAt
<1> QED
  BY <1>1, SlotTypes DEF MarginOf, BaseOf, Live, Open

LEMMA AmountTypes ==
    ASSUME NEW acct, Tidy(acct), NEW m
    PROVE  MarginOf(acct, m) \in Nat /\ BaseOf(acct, m) \in Int
<1>1. CASE LiveAt(acct, m) = {}
  BY <1>1, DeadSlot
<1>2. ASSUME NEW i \in LiveAt(acct, m)
      PROVE  MarginOf(acct, m) \in Nat /\ BaseOf(acct, m) \in Int
  BY LiveSlot, SlotTypes
<1> QED
  BY <1>1, <1>2

(* The first slot that carries a market, which is what a close looks for, *)
(* holds its position.                                                    *)
LEMMA FindsTheBase ==
    ASSUME NEW acct, Tidy(acct), NEW m
    PROVE  FindBase(acct, m) = BaseOf(acct, m)
<1>1. Carrying(acct, m) \in SUBSET Slots /\ Slots \in SUBSET Nat
  BY SlotTypes DEF Carrying
<1>2. CASE Carrying(acct, m) = {}
  <2>1. LiveAt(acct, m) = {}
    BY <1>2 DEF Carrying, LiveAt
  <2> QED
    BY <1>2, <2>1 DEF FindBase, BaseOf
<1>3. CASE Carrying(acct, m) # {} /\ LiveAt(acct, m) = {}
  <2>1. Min(Carrying(acct, m)) \in Carrying(acct, m)
    BY <1>1, <1>3, MinIs
  <2> QED
    BY <1>1, <1>3, <2>1, DeadSlot DEF FindBase, Carrying
<1>4. ASSUME NEW i \in LiveAt(acct, m)
      PROVE  FindBase(acct, m) = BaseOf(acct, m)
  <2>1. i \in Carrying(acct, m)
    BY DEF LiveAt, Carrying
  <2>2. Min(Carrying(acct, m)) \in Carrying(acct, m) /\ Min(Carrying(acct, m)) <= i
    BY <1>1, <2>1, MinIs
  <2>3. i <= Min(Carrying(acct, m))
    BY <2>2, LiveSlot
  <2>4. Min(Carrying(acct, m)) \in Nat /\ i \in Nat
    BY <1>1, <2>1, <2>2
  <2>5. Min(Carrying(acct, m)) = i
    BY <2>2, <2>3, <2>4
  <2> QED
    BY <2>1, <2>5, LiveSlot DEF FindBase
<1> QED
  BY <1>2, <1>3, <1>4

(* What keeps an account tidy: a slot that stays with its market, or a     *)
(* dead slot that is the first one and goes to a market that has none.     *)
LEMMA TidyMove ==
    ASSUME NEW acct, Tidy(acct), NEW i \in Slots, NEW p \in Slot,
           \/ p.market = acct[i].market /\ Live(acct[i])
           \/ /\ ~Live(acct[i]) /\ LiveAt(acct, p.market) = {}
              /\ \A j \in Slots : ~Live(acct[j]) => i <= j
    PROVE  Tidy([acct EXCEPT ![i] = p])
<1> DEFINE new == [acct EXCEPT ![i] = p]
<1>1. new \in [Slots -> Slot] /\ new[i] = p /\ \A j \in Slots \ {i} : new[j] = acct[j]
  BY DEF Tidy
<1>2. Slots \in SUBSET Nat
  BY SlotTypes
<1> HIDE DEF new
<1>3. ASSUME NEW j \in Slots, NEW k \in Slots, j < k, Live(new[k])
      PROVE  new[j].market # new[k].market
  <2>1. CASE j # i /\ k # i
    BY <1>1, <1>3, <2>1 DEF Tidy
  <2>2. CASE p.market = acct[i].market /\ Live(acct[i])
    <3>1. CASE k = i
      BY <1>1, <1>2, <1>3, <2>2, <3>1 DEF Tidy
    <3>2. CASE j = i
      BY <1>1, <1>2, <1>3, <2>2, <3>2 DEF Tidy
    <3> QED
      BY <2>1, <3>1, <3>2
  <2>3. CASE /\ ~Live(acct[i]) /\ LiveAt(acct, p.market) = {}
             /\ \A l \in Slots : ~Live(acct[l]) => i <= l
    <3>1. \A l \in Slots : Live(acct[l]) => acct[l].market # p.market
      BY <2>3, SlotTypes DEF LiveAt
    <3>2. CASE k = i
      <4>1. j # i /\ Live(acct[j])
        BY <1>2, <1>3, <2>3, <3>2
      <4> QED
        BY <1>1, <3>1, <3>2, <4>1
    <3>3. CASE j = i
      BY <1>1, <1>2, <1>3, <3>1, <3>3
    <3> QED
      BY <2>1, <3>2, <3>3
  <2> QED
    BY <2>2, <2>3
<1> QED
  BY <1>1, <1>3 DEF Tidy, new

-----------------------------------------------------------------------------
(* The loop that leaves one slot to a market: it keeps the first of those  *)
(* found, an open one always being the first that carries its market.      *)

Firsts(acct, found, n) ==
    {i \in found : i <= n /\ \A j \in found : j < i => acct[j].market # acct[i].market}

LEMMA KeepsTheFirst ==
    ASSUME NEW acct, Tidy(acct), NEW found \in SUBSET Slots, NEW n \in Slots
    PROVE  Firsts(acct, found, n) = IF n \in found THEN Keep(acct, Firsts(acct, found, n - 1), n)
                                    ELSE Firsts(acct, found, n - 1)
<1> DEFINE kept == Firsts(acct, found, n - 1)
           existing == {j \in kept : acct[j].market = acct[n].market}
<1>1. Slots \in SUBSET Nat /\ n \in Nat /\ found \in SUBSET Nat
  BY SlotTypes
<1>2. \A i \in found : i <= n <=> (i <= n - 1 \/ i = n)
  BY <1>1
<1>3. CASE n \notin found
  BY <1>2, <1>3 DEF Firsts
<1>4. CASE n \in found /\ existing = {}
  <2>1. \A j \in found : j < n => acct[j].market # acct[n].market
    <3> SUFFICES ASSUME NEW j0 \in found, j0 < n, acct[j0].market = acct[n].market PROVE FALSE
      OBVIOUS
    <3> DEFINE same == {j \in found : j < n /\ acct[j].market = acct[n].market}
    <3>1. same \in SUBSET Nat /\ same # {}
      BY <1>1
    <3>2. PICK i \in same : \A j \in same : i <= j
      BY <3>1, LeastOf
    <3>3. \A j \in found : j < i => acct[j].market # acct[i].market
      BY <1>1, <3>2
    <3>4. i \in existing
      BY <1>1, <3>2, <3>3 DEF Firsts
    <3> QED
      BY <1>4, <3>4
  <2>2. Firsts(acct, found, n) = kept \cup {n}
    BY <1>1, <1>2, <1>4, <2>1 DEF Firsts
  <2>3. Keep(acct, kept, n) = kept \cup {n}
    BY <1>4 DEF Keep
  <2> QED
    BY <1>4, <2>2, <2>3
<1>5. CASE n \in found /\ existing # {}
  <2>1. PICK j \in existing : TRUE
    BY <1>5
  <2>2. j \in found /\ j < n /\ acct[j].market = acct[n].market
    BY <1>1, <2>1 DEF Firsts
  <2>3. ~Live(acct[n])
    BY <2>2 DEF Tidy
  <2>4. Keep(acct, kept, n) = kept
    BY <1>5, <2>3 DEF Keep, Live
  <2>5. n \notin Firsts(acct, found, n)
    BY <2>2 DEF Firsts
  <2>6. Firsts(acct, found, n) = kept
    BY <1>1, <1>2, <2>5 DEF Firsts
  <2> QED
    BY <1>5, <2>4, <2>6
<1> QED
  BY <1>3, <1>4, <1>5

LEMMA RelevantIs ==
    ASSUME NEW acct, Tidy(acct), NEW found \in SUBSET Slots
    PROVE  Relevant(acct, found) = Firsts(acct, found, Length)
<1> DEFINE F(kept) == [i \in 0..Length |->
                          IF i = 0 THEN {}
                          ELSE IF i \in found THEN Keep(acct, kept[i - 1], i)
                          ELSE kept[i - 1]]
           firsts == [i \in 0..Length |-> Firsts(acct, found, i)]
           kept == CHOOSE k : k = F(k)
<1>1. Length \in Nat /\ found \in SUBSET (1..Length)
  BY PositionsAssumption DEF Slots
<1>2. firsts = F(firsts)
  <2>1. Firsts(acct, found, 0) = {}
    <3>1. \A i \in found : ~(i <= 0)
      BY <1>1
    <3> QED
      BY <3>1, Zenon DEF Firsts
  <2>2. ASSUME NEW i \in 0..Length, i # 0
        PROVE  Firsts(acct, found, i) = IF i \in found THEN Keep(acct, firsts[i - 1], i)
                                        ELSE firsts[i - 1]
    <3>1. i \in Slots /\ i - 1 \in 0..Length
      BY <1>1, <2>2 DEF Slots
    <3>2. firsts[i - 1] = Firsts(acct, found, i - 1)
      BY <3>1
    <3> QED
      BY <3>1, <3>2, KeepsTheFirst
  <2> HIDE DEF firsts
  <2>3. \A i \in 0..Length : firsts[i] = F(firsts)[i]
    BY <2>1, <2>2 DEF firsts
  <2>4. firsts \in [0..Length -> {firsts[i] : i \in 0..Length}] /\ DOMAIN firsts = 0..Length
    BY DEF firsts
  <2> QED
    BY <2>3, <2>4
<1>3. kept = F(kept)
  <2> HIDE DEF firsts, F
  <2> QED
    BY <1>2
<1>4. \A n \in 0..Length : kept[n] = firsts[n]
  <2> SUFFICES ASSUME NEW m \in 0..Length, kept[m] # firsts[m] PROVE FALSE
    OBVIOUS
  <2> HIDE DEF kept, firsts
  <2> DEFINE bad == {n \in 0..Length : kept[n] # firsts[n]}
  <2>1. bad \in SUBSET Nat /\ bad # {}
    BY <1>1
  <2>2. PICK n \in bad : \A j \in bad : n <= j
    BY <2>1, LeastOf
  <2>3. kept[n] = F(kept)[n] /\ firsts[n] = F(firsts)[n]
    BY <1>2, <1>3
  <2>4. CASE n = 0
    BY <1>1, <2>2, <2>3, <2>4
  <2>5. CASE n # 0
    <3>1. n - 1 \in 0..Length /\ n - 1 \notin bad
      BY <1>1, <2>2, <2>5
    <3>2. kept[n - 1] = firsts[n - 1]
      BY <3>1
    <3> QED
      BY <2>2, <2>3, <3>2
  <2> QED
    BY <2>4, <2>5
<1>5. Relevant(acct, found) = kept[Length]
  BY DEF Relevant
<1> QED
  BY <1>1, <1>4, <1>5

(* The row of a market is that of the slot it lives in, or of a dead slot  *)
(* if it has none.                                                         *)
LEMMA RelevantSlot ==
    ASSUME NEW snap, Tidy(snap), NEW acct, NEW i \in Relevant(snap, FoundBy(snap, acct))
    PROVE  /\ i \in FoundBy(snap, acct) /\ i \in Slots
           /\ \A j \in Relevant(snap, FoundBy(snap, acct)) :
                 snap[j].market = snap[i].market => j = i
           /\ snap[i].base = BaseOf(snap, snap[i].market)
           /\ snap[i].margin = MarginOf(snap, snap[i].market)
<1> DEFINE found == FoundBy(snap, acct)
           m == snap[i].market
<1>1. found \in SUBSET Slots /\ Slots \in SUBSET Nat
  BY SlotTypes DEF FoundBy
<1>2. Relevant(snap, found) = Firsts(snap, found, Length)
  BY <1>1, RelevantIs
<1>3. /\ i \in found /\ i \in Slots
      /\ \A j \in found : j < i => snap[j].market # m
  BY <1>1, <1>2 DEF Firsts
<1>4. ASSUME NEW j \in Relevant(snap, found), snap[j].market = m
      PROVE  j = i
  <2>1. j \in found /\ \A l \in found : l < j => snap[l].market # snap[j].market
    BY <1>2 DEF Firsts
  <2>2. i \in Nat /\ j \in Nat
    BY <1>1, <1>3, <2>1
  <2> QED
    BY <1>3, <1>4, <2>1, <2>2
<1>5. ASSUME LiveAt(snap, m) = {}
      PROVE  snap[i].base = BaseOf(snap, m) /\ snap[i].margin = MarginOf(snap, m)
  BY <1>3, <1>5, DeadSlot
<1>6. ASSUME NEW j \in LiveAt(snap, m)
      PROVE  j = i
  <2>1. j \in Slots /\ snap[j].market = m /\ j <= i
    <3>1. i \in Carrying(snap, m)
      BY <1>3, SlotTypes DEF Carrying
    <3> QED
      BY <3>1, LiveSlot DEF LiveAt
  <2>2. CASE Open(snap[i])
    <3>1. i \in LiveAt(snap, m)
      BY <1>3, <2>2, SlotTypes DEF LiveAt, Live
    <3> QED
      BY <3>1, LiveSlot
  <2>3. CASE ~Open(snap[i])
    <3>1. MarginOf(acct, m) > 0
      BY <1>3, <2>3 DEF FoundBy
    <3>2. j \in found
      BY <2>1, <3>1, SlotTypes DEF FoundBy
    <3>3. ~(j < i) /\ i \in Nat /\ j \in Nat
      BY <1>1, <1>3, <2>1, <3>2
    <3> QED
      BY <2>1, <3>3
  <2> QED
    BY <2>2, <2>3
<1>7. ASSUME NEW j \in LiveAt(snap, m)
      PROVE  snap[i].base = BaseOf(snap, m) /\ snap[i].margin = MarginOf(snap, m)
  BY <1>6, LiveSlot
<1>8. snap[i].base = BaseOf(snap, m) /\ snap[i].margin = MarginOf(snap, m)
  BY <1>5, <1>7
<1> QED
  BY <1>3, <1>4, <1>8

LEMMA EveryFoundHasARow ==
    ASSUME NEW snap, Tidy(snap), NEW acct, NEW i \in FoundBy(snap, acct)
    PROVE  \E j \in Relevant(snap, FoundBy(snap, acct)) : snap[j].market = snap[i].market
<1> DEFINE found == FoundBy(snap, acct)
           same == {j \in found : snap[j].market = snap[i].market}
<1>1. found \in SUBSET Slots /\ Slots \in SUBSET Nat /\ Length \in Nat
  BY SlotTypes, PositionsAssumption DEF FoundBy
<1>2. Relevant(snap, found) = Firsts(snap, found, Length)
  BY <1>1, RelevantIs
<1>3. same \in SUBSET Nat /\ same # {}
  BY <1>1
<1>4. PICK j \in same : \A l \in same : j <= l
  BY <1>3, LeastOf
<1>5. \A l \in found : l < j => snap[l].market # snap[j].market
  <2>1. \A l \in found : l \in Nat /\ j \in Nat
    BY <1>1, <1>4
  <2>2. \A l \in found : snap[l].market = snap[j].market => l \in same
    BY <1>4
  <2>3. \A l \in same : ~(l < j)
    BY <1>4, <2>1
  <2> QED
    BY <2>2, <2>3
<1>6. j <= Length
  BY <1>1, <1>4 DEF Slots
<1> QED
  BY <1>2, <1>4, <1>5, <1>6 DEF Firsts

(* What a row says, whatever the helper and the oracle made of it. *)
LEMMA RowSays ==
    ASSUME NEW snap, Tidy(snap), NEW acct, NEW helper \in BOOLEAN, NEW pnl \in {-MaxFunds, 0},
           NEW row \in RowsOf(snap, acct, helper, pnl)
    PROVE  \E i \in Relevant(snap, FoundBy(snap, acct)) :
               /\ row = Row(snap, i, helper, IF Open(snap[i]) THEN pnl ELSE 0)
               /\ row.market = snap[i].market /\ row.market \in Markets
               /\ row.label = Label(row.market)
               /\ row.size = BaseOf(snap, row.market)
               /\ row.entry = "position" <=> OpenIn(snap, row.market)
               /\ row.leverage = "equity" => row.margin = MarginOf(snap, row.market)
               /\ row.margin > 0 <=> MarginOf(snap, row.market) > 0
<1>1. PICK i \in Relevant(snap, FoundBy(snap, acct)) :
          row = Row(snap, i, helper, IF Open(snap[i]) THEN pnl ELSE 0)
  BY DEF RowsOf
<1> DEFINE m == snap[i].market
<1>2. /\ snap[i].base = BaseOf(snap, m) /\ snap[i].margin = MarginOf(snap, m)
      /\ m \in Markets /\ MarginOf(snap, m) \in Nat
  BY RelevantSlot, SlotTypes
<1>3. PICK p : p = IF Open(snap[i]) THEN pnl ELSE 0
  OBVIOUS
<1>4. p \in Int /\ p <= 0
  BY <1>3, PositionsAssumption
<1>5. /\ row.market = m /\ row.label = Label(m) /\ row.size = snap[i].base
      /\ row.entry = EntryPrice(snap[i])
  BY <1>1 DEF Row
<1>6. row.entry = "position" <=> OpenIn(snap, m)
  <2>1. EntryPrice(snap[i]) = "position" <=> Open(snap[i])
    BY DEF EntryPrice
  <2> QED
    BY <1>2, <1>5, <2>1 DEF Open, OpenIn
<1> DEFINE equity == helper /\ MarginOf(snap, m) + p > 0
<1>7. /\ row.margin = IF equity THEN MarginOf(snap, m) ELSE 2 * snap[i].margin
      /\ row.leverage = IF equity THEN "equity" ELSE IF row.margin > 0 THEN "balance" ELSE "null"
  BY <1>1, <1>3 DEF Row, ScaledBalance
<1>8. row.leverage = "equity" => row.margin = MarginOf(snap, m)
  BY <1>7
<1>9. row.margin > 0 <=> MarginOf(snap, m) > 0
  BY <1>2, <1>4, <1>7
<1> QED
  BY <1>1, <1>2, <1>5, <1>6, <1>8, <1>9

-----------------------------------------------------------------------------
(* What the operators of a close return. *)

LEMMA ListedTypes ==
    DOMAIN Listed \in SUBSET Nat /\ \A i \in DOMAIN Listed : Listed[i].index \in Nat
<1> DEFINE Config == [index : Nat, symbol : Seq(STRING), base : STRING]
<1>1. \A cfg \in Config : cfg.index \in Nat
  OBVIOUS
<1>2. Listed \in Seq(Config)
  BY PositionsAssumption
<1> HIDE DEF Config
<1> QED
  BY <1>1, <1>2

LEMMA ResolvesToAnIndex ==
    ASSUME NEW key, NEW m \in Resolve(key)
    PROVE  m \in Nat
<1>1. DOMAIN Listed \in SUBSET Nat /\ \A i \in DOMAIN Listed : Listed[i].index \in Nat
  BY ListedTypes
<1>2. Named(key) \in SUBSET DOMAIN Listed /\ Named(key) # {} /\ m = Listed[Min(Named(key))].index
  BY DEF Resolve, Named
<1>3. Min(Named(key)) \in Named(key)
  BY <1>1, <1>2, MinIs
<1> QED
  BY <1>1, <1>2, <1>3

LEMMA TargetIs ==
    ASSUME NEW asked \in Nat \cup {Whole}, NEW base \in Int
    PROVE  /\ TargetSize(asked, base) \in Nat /\ TargetSize(asked, base) <= Size(base)
           /\ TargetSize(asked, base) = 0 => asked = 0 \/ base = 0
BY DEF TargetSize, Size

LEMMA FilledIsBetween ==
    ASSUME NEW base \in Int, NEW order \in Orderings, NEW b \in Filled(base, order)
    PROVE  b \in Int /\ Between(b, base)
<1>1. /\ order.way \in {-1, 0, 1} /\ order.size \in Nat \cup {Whole} /\ order.reduceOnly
      /\ order.size \in Nat
  BY DEF Orderings
<1> DEFINE room == IF order.way * base < 0 THEN TargetSize(order.size, base) ELSE 0
<1>2. PICK n \in 0..room : b = base + order.way * n
  BY <1>1 DEF Filled
<1>3. CASE order.way * base < 0
  <2>1. n \in Nat /\ n <= Size(base)
    <3>1. TargetSize(order.size, base) \in Nat /\ TargetSize(order.size, base) <= Size(base)
      BY <1>1, TargetIs
    <3> HIDE DEF room
    <3>2. room = TargetSize(order.size, base)
      BY <1>3 DEF room
    <3> QED
      BY <1>2, <3>1, <3>2 DEF Size
  <2>2. CASE order.way = 1
    BY <1>2, <1>3, <2>1, <2>2 DEF Size, Between
  <2>3. CASE order.way = -1
    BY <1>2, <1>3, <2>1, <2>3 DEF Size, Between
  <2>4. CASE order.way = 0
    BY <1>3, <2>4
  <2> QED
    BY <1>1, <2>2, <2>3, <2>4
<1>4. CASE ~(order.way * base < 0)
  <2>1. n = 0
    BY <1>2, <1>4
  <2>2. order.way * 0 = 0
    BY <1>1
  <2> QED
    BY <1>2, <2>1, <2>2 DEF Between
<1> QED
  BY <1>3, <1>4

(* What becomes of the positions when the slot of a market changes. *)
LEMMA MoveBase ==
    ASSUME NEW acct, NEW new, Tidy(acct), Tidy(new), NEW m, NEW i \in LiveAt(acct, m),
           new[i].market = m, \A j \in Slots \ {i} : new[j] = acct[j]
    PROVE  /\ BaseOf(new, m) = new[i].base
           /\ \A k : k # m => BaseOf(new, k) = BaseOf(acct, k)
<1>1. /\ i \in Slots /\ acct[i].market = m /\ Live(acct[i]) /\ DOMAIN acct = Slots
      /\ LiveAt(acct, m) = {i}
  <2>1. LiveAt(acct, m) = {i} /\ i \in Slots
    BY LiveSlot
  <2>2. i \in {j \in DOMAIN acct : acct[j].market = m /\ Live(acct[j])}
    BY DEF LiveAt
  <2> QED
    BY <2>1, <2>2, SlotTypes
<1>2. DOMAIN new = Slots
  BY SlotTypes
<1>3. DOMAIN new = Slots /\ \A j \in Slots : j # i => new[j] = acct[j]
  BY <1>2
<1>4. BaseOf(new, m) = new[i].base
  <2>1. CASE Live(new[i])
    <3>1. i \in LiveAt(new, m)
      BY <1>1, <1>3, <2>1 DEF LiveAt
    <3> QED
      BY <3>1, LiveSlot
  <2>2. CASE ~Live(new[i])
    <3>1. LiveAt(new, m) = {}
      BY <1>1, <1>3, <2>2 DEF LiveAt
    <3> QED
      BY <2>2, <3>1 DEF BaseOf, Live, Open
  <2> QED
    BY <2>1, <2>2
<1>5. ASSUME NEW k, k # m
      PROVE  BaseOf(new, k) = BaseOf(acct, k)
  <2>1. LiveAt(new, k) = LiveAt(acct, k) /\ i \notin LiveAt(acct, k)
    BY <1>1, <1>3, <1>5 DEF LiveAt
  <2>2. CASE LiveAt(acct, k) = {}
    BY <2>1, <2>2 DEF BaseOf
  <2>3. ASSUME NEW j \in LiveAt(acct, k)
        PROVE  BaseOf(new, k) = BaseOf(acct, k)
    <3>1. BaseOf(acct, k) = acct[j].base /\ j \in Slots
      BY <2>3, LiveSlot
    <3>2. j \in LiveAt(new, k)
      BY <2>1
    <3>3. BaseOf(new, k) = new[j].base
      BY <3>2, LiveSlot
    <3> QED
      BY <1>3, <2>1, <3>1, <3>3
  <2> QED
    BY <2>2, <2>3
<1> QED
  BY <1>4, <1>5

-----------------------------------------------------------------------------
(* What a step of a request does. *)

LEMMA CloseMoves ==
    ASSUME PositionTypes, TidyInv, NEW c \in Closers, CloseStep(c)
    PROVE  \E req \in Request :
               /\ closes' = [closes EXCEPT ![c] = req]
               /\ req.at # "idle" /\ details' = details
               /\ IF closes[c].at = "idle" THEN req.at = "cache" /\ req.snap = account
                  ELSE req.at # "cache" /\ req.snap = closes[c].snap
                       /\ req.market = closes[c].market
               /\ cached' = IF closes[c].at = "cache" THEN closes[c].snap ELSE cached
               /\ req.at = "build" =>
                     closes[c].at = "margin" /\ req.had = MarginOf(cached, req.market)
               /\ req.at = "rejected" =>
                     \/ req.size = 0
                     \/ /\ BaseOf(req.snap, req.market) = 0
                        /\ closes[c].at = "build" /\ closes[c].had = 0
               /\ req.at = "landed" => CloseLands(c)
<1> DEFINE req == closes[c]
<1>1. /\ req \in Request /\ Tidy(req.snap) /\ Tidy(cached) /\ Tidy(account)
      /\ account \in [Slots -> Slot] /\ NoOrder \in Orderings
  BY DEF PositionTypes, TidyInv, Tidy, NoOrder, Orderings
<1>2. CASE CloseFetch(c)
  <2>1. PICK i \in DOMAIN Listed, size \in CloseSizes : \E m \in Resolve(Listed[i].symbol) :
            closes' = [closes EXCEPT ![c].at = "cache", ![c].snap = account,
                                     ![c].market = m, ![c].size = size]
    BY <1>2 DEF CloseFetch
  <2>2. PICK m \in Nat :
            closes' = [closes EXCEPT ![c].at = "cache", ![c].snap = account,
                                     ![c].market = m, ![c].size = size]
    BY <2>1, ResolvesToAnIndex
  <2> DEFINE new == [req EXCEPT !.at = "cache", !.snap = account, !.market = m, !.size = size]
  <2>3. size \in Nat \cup {Whole}
    BY PositionsAssumption
  <2>4. new \in Request
    BY <1>1, <2>3 DEF Request
  <2>5. closes' = [closes EXCEPT ![c] = new]
    BY <2>2 DEF PositionTypes
  <2>6. new.at = "cache" /\ new.snap = account /\ closes[c].at = "idle"
    BY <1>1, <1>2 DEF Request, CloseFetch
  <2>7. details' = details /\ cached' = cached
    BY <1>2 DEF CloseFetch
  <2> HIDE DEF new
  <2> QED
    BY <2>4, <2>5, <2>6, <2>7
<1>3. CASE CloseCache(c)
  <2> DEFINE new == [req EXCEPT !.at = "margin"]
  <2>1. new \in Request /\ new.at = "margin" /\ new.snap = req.snap /\ new.market = req.market
    BY <1>1 DEF Request
  <2>2. closes' = [closes EXCEPT ![c] = new] /\ req.at = "cache"
    BY <1>3 DEF CloseCache, PositionTypes
  <2>3. details' = details /\ cached' = req.snap
    BY <1>3 DEF CloseCache
  <2> HIDE DEF new
  <2> QED
    BY <2>1, <2>2, <2>3
<1>4. CASE CloseMargin(c)
  <2> DEFINE new == [req EXCEPT !.at = "build", !.had = MarginOf(cached, req.market)]
  <2>1. MarginOf(cached, req.market) \in Nat
    BY <1>1, AmountTypes
  <2>2. /\ new \in Request /\ new.at = "build" /\ new.snap = req.snap /\ new.market = req.market
        /\ new.had = MarginOf(cached, new.market)
    BY <1>1, <2>1 DEF Request
  <2>3. closes' = [closes EXCEPT ![c] = new] /\ req.at = "margin"
    BY <1>4 DEF CloseMargin, PositionTypes
  <2>4. details' = details /\ cached' = cached
    BY <1>4 DEF CloseMargin
  <2> HIDE DEF new
  <2> QED
    BY <2>2, <2>3, <2>4
<1>5. CASE CloseBuild(c)
  <2> DEFINE base == FindBase(req.snap, req.market)
             target == TargetSize(req.size, base)
             built(order, sum) == [req EXCEPT !.at = "built", !.order = order, !.withdraw = sum]
             rejected == Ended(req, "rejected")
  <2>1. base = BaseOf(req.snap, req.market) /\ base \in Int
    BY <1>1, FindsTheBase, AmountTypes
  <2>2. target \in Nat /\ (target = 0 => req.size = 0 \/ base = 0)
    <3> HIDE DEF base
    <3>1. req.size \in Nat \cup {Whole}
      BY <1>1 DEF Request
    <3> QED
      BY <2>1, <3>1, TargetIs
  <2>3. req.at = "build" /\ details' = details /\ cached' = cached
    BY <1>5 DEF CloseBuild
  <2>4. ASSUME NEW order \in Orderings, NEW sum \in Nat
        PROVE  /\ built(order, sum) \in Request /\ built(order, sum).at = "built"
               /\ built(order, sum).snap = req.snap /\ built(order, sum).market = req.market
    BY <1>1 DEF Request
  <2>5. /\ rejected \in Request /\ rejected.at = "rejected" /\ rejected.snap = req.snap
        /\ rejected.market = req.market /\ rejected.size = req.size
    BY <1>1 DEF Request, Ended
  <2>6. CloseOrder(base, target) \in Orderings
    BY <2>2 DEF CloseOrder, Orderings
  <2>7. MarginOf(cached, req.market) \in Nat /\ req.had \in Nat
    BY <1>1, AmountTypes DEF Request
  <2>8. \/ \E order \in Orderings, sum \in Nat : closes' = [closes EXCEPT ![c] = built(order, sum)]
        \/ /\ (base = 0 /\ req.had = 0) \/ (base # 0 /\ target = 0)
           /\ closes' = [closes EXCEPT ![c] = rejected]
    BY <1>1, <1>5, <2>6, <2>7 DEF CloseBuild
  <2>9. CASE \E order \in Orderings, sum \in Nat : closes' = [closes EXCEPT ![c] = built(order, sum)]
    <3>1. PICK order \in Orderings, sum \in Nat : closes' = [closes EXCEPT ![c] = built(order, sum)]
      BY <2>9
    <3> DEFINE new == built(order, sum)
    <3>2. new \in Request /\ new.at = "built" /\ new.snap = req.snap /\ new.market = req.market
      BY <2>4
    <3>3. closes' = [closes EXCEPT ![c] = new]
      BY <3>1
    <3> HIDE DEF new, built
    <3> QED
      BY <2>3, <3>2, <3>3
  <2>10. CASE /\ (base = 0 /\ req.had = 0) \/ (base # 0 /\ target = 0)
              /\ closes' = [closes EXCEPT ![c] = rejected]
    <3> HIDE DEF rejected, target, base
    <3>1. req.size = 0 \/ (BaseOf(req.snap, req.market) = 0 /\ req.had = 0)
      BY <2>1, <2>2, <2>10
    <3> QED
      BY <2>3, <2>5, <2>10, <3>1
  <2> QED
    BY <2>8, <2>9, <2>10
<1>6. CASE CloseLands(c) \/ CloseFails(c)
  <2>1. PICK at \in {"landed", "failed"} :
            /\ closes' = [closes EXCEPT ![c] = Ended(@, at)]
            /\ at = "landed" => CloseLands(c)
    <3>1. CASE CloseLands(c)
      BY <3>1 DEF CloseLands
    <3>2. CASE CloseFails(c)
      BY <3>2 DEF CloseFails
    <3> QED
      BY <1>6, <3>1, <3>2
  <2> DEFINE new == Ended(req, at)
  <2>2. new \in Request /\ new.at = at /\ new.snap = req.snap /\ new.market = req.market
    BY <1>1 DEF Request, Ended
  <2>3. closes' = [closes EXCEPT ![c] = new] /\ req.at = "built"
    BY <1>6, <2>1 DEF CloseLands, CloseFails, PositionTypes
  <2>4. details' = details /\ cached' = cached
    BY <1>6 DEF CloseLands, CloseFails
  <2> HIDE DEF new
  <2> QED
    BY <2>1, <2>2, <2>3, <2>4
<1> QED
  BY <1>2, <1>3, <1>4, <1>5, <1>6 DEF CloseStep

LEMMA DetailsMove ==
    ASSUME PositionTypes, TidyInv, DetailsStep
    PROVE  /\ details' \in DetailsRequest(details'.rows)
           /\ UNCHANGED <<account, closes>> /\ details'.at # "idle"
           /\ IF details.at = "idle" THEN details'.at = "cache" /\ details'.snap = account
              ELSE details'.at # "cache" /\ details'.snap = details.snap
           /\ cached' = IF details.at = "cache" THEN details.snap ELSE cached
           /\ details'.at = "rows" =>
                 details.at = "probe" /\ details'.found = FoundBy(details'.snap, cached)
           /\ IF details'.at = "answered"
              THEN /\ details.at = "rows"
                   /\ \E helper \in BOOLEAN, pnl \in {-MaxFunds, 0} :
                         details'.rows =
                             {Row(details.snap, i, helper, IF Open(details.snap[i]) THEN pnl ELSE 0) :
                                 i \in Relevant(details.snap, details.found)}
              ELSE details.at # "answered" /\ details'.rows = details.rows
<1>1. /\ details \in DetailsRequest(details.rows) /\ Tidy(details.snap)
      /\ account \in [Slots -> Slot] /\ DOMAIN details.snap = Slots
  BY DEF PositionTypes, TidyInv, Tidy
<1>2. CASE DetailsFetch
  BY <1>1, <1>2 DEF DetailsFetch, DetailsRequest
<1>3. CASE DetailsCache
  BY <1>1, <1>3 DEF DetailsCache, DetailsRequest
<1>4. CASE DetailsProbe
  <2>1. FoundBy(details.snap, cached) \in SUBSET Slots
    BY <1>1 DEF FoundBy
  <2>2. /\ details.at = "probe"
        /\ details' = [details EXCEPT !.at = "rows", !.found = FoundBy(details.snap, cached)]
        /\ UNCHANGED <<account, cached, closes>>
    BY <1>4 DEF DetailsProbe, FoundBy
  <2> QED
    BY <1>1, <2>1, <2>2 DEF DetailsRequest
<1>5. CASE DetailsAnswer
  <2>1. PICK helper \in BOOLEAN, pnl \in {-MaxFunds, 0} :
            details' = [details EXCEPT
                !.at = "answered", !.found = {},
                !.rows = {Row(details.snap, i, helper, IF Open(details.snap[i]) THEN pnl ELSE 0) :
                             i \in Relevant(details.snap, details.found)}]
    BY <1>5 DEF DetailsAnswer
  <2>2. details.at = "rows" /\ UNCHANGED <<account, cached, closes>>
    BY <1>5 DEF DetailsAnswer
  <2> DEFINE rows == {Row(details.snap, i, helper, IF Open(details.snap[i]) THEN pnl ELSE 0) :
                         i \in Relevant(details.snap, details.found)}
  <2>3. \E h \in BOOLEAN, p \in {-MaxFunds, 0} :
            rows = {Row(details.snap, i, h, IF Open(details.snap[i]) THEN p ELSE 0) :
                       i \in Relevant(details.snap, details.found)}
    OBVIOUS
  <2>4. details' = [details EXCEPT !.at = "answered", !.found = {}, !.rows = rows]
    BY <2>1
  <2> HIDE DEF rows
  <2>5. details'.rows = rows /\ details'.at = "answered" /\ details'.snap = details.snap
    BY <1>1, <2>4 DEF DetailsRequest
  <2>6. details' \in DetailsRequest(details'.rows)
    BY <1>1, <2>4 DEF DetailsRequest
  <2> QED
    BY <2>2, <2>3, <2>5, <2>6
<1> QED
  BY <1>2, <1>3, <1>4, <1>5 DEF DetailsStep

(* The step of ClosesOnlyReduce. *)
LEMMA CloseReduces ==
    ASSUME PositionTypes, TidyInv, NEW c \in Closers, CloseLands(c)
    PROVE  /\ Tidy(account')
           /\ \A m : IF m = closes[c].market THEN Between(BaseOf(account', m), BaseOf(account, m))
                    ELSE BaseOf(account', m) = BaseOf(account, m)
<1> DEFINE req == closes[c]
<1>1. PICK i \in LiveAt(account, req.market) : \E base \in Filled(account[i].base, req.order) :
          /\ req.withdraw > 0 => base = 0 /\ req.withdraw <= account[i].margin
          /\ account' = [account EXCEPT ![i].base = base, ![i].margin = @ - req.withdraw]
  BY DEF CloseLands
<1>2. PICK base \in Filled(account[i].base, req.order) :
          /\ req.withdraw > 0 => base = 0 /\ req.withdraw <= account[i].margin
          /\ account' = [account EXCEPT ![i].base = base, ![i].margin = @ - req.withdraw]
  BY <1>1
<1>3. Tidy(account) /\ req.order \in Orderings /\ req.withdraw \in Nat
  BY DEF TidyInv, PositionTypes, Request
<1>4. i \in Slots /\ account[i].market = req.market /\ BaseOf(account, req.market) = account[i].base
  <2>1. i \in {j \in DOMAIN account : account[j].market = req.market /\ Live(account[j])}
    BY DEF LiveAt
  <2> QED
    BY <1>3, <2>1, LiveSlot
<1>5. account[i] \in Slot /\ account[i].base \in Int /\ account[i].margin \in Nat
  BY <1>3, <1>4, SlotTypes
<1>6. base \in Int /\ Between(base, account[i].base)
  BY <1>2, <1>3, <1>5, FilledIsBetween
<1> DEFINE p == [account[i] EXCEPT !.base = base, !.margin = @ - req.withdraw]
<1>7. account[i].margin - req.withdraw \in Nat
  BY <1>2, <1>3, <1>5
<1>8. p \in Slot /\ p.market = req.market /\ p.base = base
  BY <1>4, <1>5, <1>6, <1>7 DEF Slot
<1>9. account' = [account EXCEPT ![i] = p]
  BY <1>2, <1>3, <1>4 DEF Tidy
<1> HIDE DEF p
<1>10. Tidy(account')
  <2>1. p.market = account[i].market /\ Live(account[i])
    BY <1>3, <1>4, <1>8, SlotTypes DEF LiveAt
  <2> QED
    BY <1>3, <1>4, <1>8, <1>9, <2>1, TidyMove
<1>11. account'[i].market = req.market /\ account'[i].base = base
  BY <1>3, <1>4, <1>8, <1>9 DEF Tidy
<1>12. \A j \in Slots \ {i} : account'[j] = account[j]
  BY <1>3, <1>9 DEF Tidy
<1>13. /\ BaseOf(account', req.market) = base
       /\ \A k : k # req.market => BaseOf(account', k) = BaseOf(account, k)
  <2>1. PICK acct, m, new : acct = account /\ m = req.market /\ new = account'
    OBVIOUS
  <2>2. /\ Tidy(acct) /\ Tidy(new) /\ i \in LiveAt(acct, m)
        /\ new[i].market = m /\ \A j \in Slots \ {i} : new[j] = acct[j]
    BY <1>3, <1>10, <1>11, <1>12, <2>1
  <2>3. /\ BaseOf(new, m) = new[i].base
        /\ \A k : k # m => BaseOf(new, k) = BaseOf(acct, k)
    BY <2>2, MoveBase
  <2> QED
    BY <1>11, <2>1, <2>3
<1> QED
  BY <1>4, <1>6, <1>10, <1>13

(* A close lands by one step only. *)
LEMMA LandsBy ==
    ASSUME PositionTypes, TidyInv, [PositionsNext]_positionVars, NEW c \in Closers,
           closes[c].at # "landed", closes'[c].at = "landed"
    PROVE  CloseLands(c)
<1>1. ASSUME NEW d \in Closers, CloseStep(d)
      PROVE  CloseLands(c)
  <2>1. PICK req \in Request :
            closes' = [closes EXCEPT ![d] = req] /\ (req.at = "landed" => CloseLands(d))
    BY <1>1, CloseMoves
  <2>2. d = c /\ req.at = "landed"
    BY <2>1 DEF PositionTypes
  <2> QED
    BY <2>1, <2>2
<1>2. CASE DetailsStep
  BY <1>2, DetailsMove
<1> QED
  BY <1>1, <1>2
     DEF PositionsNext, Funds, Fills, Moves, PositionsAtRest, positionVars

-----------------------------------------------------------------------------
(* Each step keeps the invariant. *)

LEMMA TypesKept ==
    ASSUME PositionTypes, TidyInv, [PositionsNext]_positionVars
    PROVE  PositionTypes'
<1>1. CASE DetailsStep
  BY <1>1, DetailsMove DEF PositionTypes
<1>2. ASSUME NEW c \in Closers, CloseStep(c)
      PROVE  PositionTypes'
  BY <1>2, CloseMoves DEF PositionTypes
<1>3. CASE UNCHANGED <<details, closes>>
  BY <1>3 DEF PositionTypes
<1> QED
  BY <1>1, <1>2, <1>3
     DEF PositionsNext, Funds, Fills, Moves, PositionsAtRest, positionVars

(* A request keeps the account it fetched. *)
LEMMA FetchedKept ==
    ASSUME PositionTypes, TidyInv, [PositionsNext]_positionVars
    PROVE  Fetched \subseteq Fetched'
<1>1. ASSUME NEW c \in Closers, closes[c].at # "idle"
      PROVE  closes'[c].at # "idle" /\ closes'[c].snap = closes[c].snap
  <2>1. ASSUME NEW d \in Closers, CloseStep(d)
        PROVE  closes'[c].at # "idle" /\ closes'[c].snap = closes[c].snap
    <3>1. PICK req \in Request :
              /\ closes' = [closes EXCEPT ![d] = req] /\ req.at # "idle"
              /\ closes[d].at # "idle" => req.snap = closes[d].snap
      BY <2>1, CloseMoves
    <3> QED
      BY <1>1, <3>1 DEF PositionTypes
  <2>2. CASE DetailsStep
    BY <1>1, <2>2, DetailsMove
  <2>3. CASE UNCHANGED closes
    BY <1>1, <2>3
  <2> QED
    BY <2>1, <2>2, <2>3
       DEF PositionsNext, Funds, Fills, Moves, PositionsAtRest, positionVars
<1>2. ASSUME details.at # "idle"
      PROVE  details'.at # "idle" /\ details'.snap = details.snap
  <2>1. ASSUME NEW d \in Closers, CloseStep(d)
        PROVE  details' = details
    BY <2>1, CloseMoves
  <2>2. CASE DetailsStep
    BY <1>2, <2>2, DetailsMove
  <2> QED
    BY <1>2, <2>1, <2>2
       DEF PositionsNext, Funds, Fills, Moves, PositionsAtRest, positionVars
<1> QED
  BY <1>1, <1>2 DEF Fetched

LEMMA TidyKept ==
    ASSUME PositionTypes, TidyInv, [PositionsNext]_positionVars
    PROVE  TidyInv'
<1>1. Tidy(account) /\ DOMAIN account = Slots /\ Slots \in SUBSET Nat
  BY SlotTypes DEF TidyInv
<1>2. ASSUME NEW m \in Traded, Funds(m)
      PROVE  TidyInv'
  <2>1. PICK i \in SlotFor(m) :
            account' = [account EXCEPT ![i] = [market |-> m, base |-> @.base,
                                               margin |-> @.margin + 1]]
    BY <1>2 DEF Funds
  <2> DEFINE p == [market |-> m, base |-> account[i].base, margin |-> account[i].margin + 1]
             dead == {j \in DOMAIN account : ~Live(account[j])}
  <2>2. CASE i \in LiveAt(account, m)
    <3>1. i \in Slots /\ account[i].market = m /\ Live(account[i])
      BY <1>1, <2>2 DEF LiveAt
    <3>2. p \in Slot /\ p.market = m
      <4>1. account[i].base \in Int /\ account[i].margin \in Nat
        BY <1>1, <3>1, SlotTypes
      <4> QED
        BY <4>1 DEF Slot
    <3> HIDE DEF p
    <3>3. Tidy([account EXCEPT ![i] = p])
      BY <1>1, <3>1, <3>2, TidyMove
    <3> QED
      BY <1>2, <2>1, <3>3 DEF TidyInv, Funds, Moves, p
  <2>3. CASE LiveAt(account, m) = {} /\ dead # {} /\ i = Min(dead)
    <3>1. i \in dead /\ \A j \in dead : i <= j
      BY <1>1, <2>3, MinIs
    <3>2. i \in Slots /\ ~Live(account[i]) /\ \A j \in Slots : ~Live(account[j]) => i <= j
      BY <1>1, <3>1
    <3>3. p \in Slot /\ p.market = m
      <4>1. account[i].base \in Int /\ account[i].margin \in Nat
        BY <1>1, <3>2, SlotTypes
      <4> QED
        BY <4>1 DEF Slot
    <3> HIDE DEF p, dead
    <3>4. Tidy([account EXCEPT ![i] = p])
      BY <1>1, <2>3, <3>2, <3>3, TidyMove
    <3> QED
      BY <1>2, <2>1, <3>4 DEF TidyInv, Funds, Moves, p
  <2> QED
    BY <2>1, <2>2, <2>3 DEF SlotFor
<1>3. ASSUME NEW m \in Traded, NEW way \in {-1, 1}, Fills(m, way)
      PROVE  TidyInv'
  <2>1. PICK i \in LiveAt(account, m) : account' = [account EXCEPT ![i].base = @ + way]
    BY <1>3 DEF Fills
  <2>2. i \in Slots /\ Live(account[i])
    BY <1>1 DEF LiveAt
  <2> DEFINE p == [account[i] EXCEPT !.base = @ + way]
  <2>3. p \in Slot /\ p.market = account[i].market
    BY <1>1, <2>2, SlotTypes DEF Slot
  <2>4. account' = [account EXCEPT ![i] = p]
    BY <2>1
  <2> HIDE DEF p
  <2>5. Tidy(account')
    BY <1>1, <2>2, <2>3, <2>4, TidyMove
  <2> QED
    BY <1>3, <2>5 DEF TidyInv, Fills, Moves
<1>4. CASE DetailsStep
  BY <1>4, DetailsMove DEF TidyInv
<1>5. ASSUME NEW c \in Closers, CloseStep(c)
      PROVE  TidyInv'
  <2>1. PICK req \in Request :
            /\ closes' = [closes EXCEPT ![c] = req] /\ details' = details
            /\ req.snap = account \/ req.snap = closes[c].snap
            /\ cached' = cached \/ cached' = closes[c].snap
    BY <1>5, CloseMoves
  <2>2. Tidy(account')
    <3>1. CASE CloseLands(c)
      BY <3>1, CloseReduces
    <3>2. CASE UNCHANGED account
      BY <1>1, <3>2
    <3> QED
      BY <1>5, <3>1, <3>2
         DEF CloseStep, CloseFetch, CloseCache, CloseMargin, CloseBuild, CloseFails
  <2>3. Tidy(cached') /\ Tidy(details'.snap)
    BY <2>1 DEF TidyInv
  <2>4. \A d \in Closers : Tidy(closes'[d].snap)
    BY <2>1 DEF TidyInv, PositionTypes
  <2> QED
    BY <2>2, <2>3, <2>4 DEF TidyInv
<1>6. CASE UNCHANGED positionVars
  BY <1>6 DEF TidyInv, positionVars
<1> QED
  BY <1>2, <1>3, <1>4, <1>5, <1>6 DEF PositionsNext, PositionsAtRest

LEMMA CacheKept ==
    ASSUME PositionTypes, TidyInv, CacheInv, [PositionsNext]_positionVars
    PROVE  CacheInv'
<1>1. Fetched \subseteq Fetched'
  BY FetchedKept
<1>2. CASE DetailsStep
  <2>1. CASE details.at = "cache"
    BY <1>1, <1>2, <2>1, DetailsMove DEF CacheInv, Fetched
  <2>2. CASE details.at = "idle"
    BY <1>1, <1>2, <2>2, DetailsMove DEF CacheInv
  <2>3. CASE details.at \notin {"idle", "cache"}
    BY <1>1, <1>2, <2>3, DetailsMove DEF CacheInv
  <2> QED
    BY <2>1, <2>2, <2>3
<1>3. ASSUME NEW c \in Closers, CloseStep(c)
      PROVE  CacheInv'
  <2>1. PICK req \in Request :
            /\ closes' = [closes EXCEPT ![c] = req] /\ details' = details
            /\ closes[c].at = "idle" => req.at = "cache"
            /\ cached' = IF closes[c].at = "cache" THEN closes[c].snap ELSE cached
    BY <1>3, CloseMoves
  <2>2. closes'[c] = req /\ \A d \in Closers : d # c => closes'[d] = closes[d]
    BY <2>1 DEF PositionTypes
  <2>3. CASE closes[c].at = "cache"
    BY <1>1, <2>1, <2>3 DEF CacheInv, Fetched
  <2>4. CASE closes[c].at = "idle"
    BY <1>1, <2>1, <2>2, <2>4 DEF CacheInv
  <2>5. CASE closes[c].at \notin {"idle", "cache"}
    BY <1>1, <2>1, <2>5 DEF CacheInv
  <2> QED
    BY <2>3, <2>4, <2>5
<1>4. CASE UNCHANGED <<cached, details, closes>>
  BY <1>4 DEF CacheInv, Fetched
<1> QED
  BY <1>2, <1>3, <1>4
     DEF PositionsNext, Funds, Fills, Moves, PositionsAtRest, positionVars

LEMMA DetailsKept ==
    ASSUME PositionTypes, TidyInv, CacheInv, DetailsInv, [PositionsNext]_positionVars
    PROVE  DetailsInv'
<1>1. Fetched \subseteq Fetched'
  BY FetchedKept
<1>2. CASE DetailsStep
  <2>1. CASE details'.at = "rows"
    <3>1. details'.found = FoundBy(details'.snap, cached) /\ cached \in Fetched
      BY <1>2, <2>1, DetailsMove DEF CacheInv
    <3>2. details'.rows = {}
      BY <1>2, <2>1, DetailsMove DEF DetailsInv
    <3> QED
      BY <1>1, <2>1, <3>1, <3>2 DEF DetailsInv
  <2>2. CASE details'.at = "answered"
    <3>1. details.at = "rows" /\ details'.snap = details.snap
      BY <1>2, <2>2, DetailsMove
    <3>2. PICK helper \in BOOLEAN, pnl \in {-MaxFunds, 0} :
              details'.rows =
                  {Row(details.snap, i, helper, IF Open(details.snap[i]) THEN pnl ELSE 0) :
                      i \in Relevant(details.snap, details.found)}
      BY <1>2, <2>2, DetailsMove
    <3>3. PICK acct \in Fetched : details.found = FoundBy(details.snap, acct)
      BY <3>1 DEF DetailsInv
    <3>4. details'.rows = RowsOf(details'.snap, acct, helper, pnl)
      BY <3>1, <3>2, <3>3 DEF RowsOf
    <3> QED
      BY <1>1, <2>2, <3>4 DEF DetailsInv
  <2>3. CASE details'.at \notin {"rows", "answered"}
    <3>1. details'.rows = {}
      BY <1>2, <2>3, DetailsMove DEF DetailsInv
    <3> QED
      BY <2>3, <3>1 DEF DetailsInv
  <2> QED
    BY <2>1, <2>2, <2>3
<1>3. CASE UNCHANGED details
  BY <1>1, <1>3 DEF DetailsInv
<1>4. ASSUME NEW c \in Closers, CloseStep(c)
      PROVE  UNCHANGED details
  BY <1>4, CloseMoves
<1> QED
  BY <1>2, <1>3, <1>4
     DEF PositionsNext, Funds, Fills, Moves, PositionsAtRest, positionVars

LEMMA ClosesKept ==
    ASSUME PositionTypes, TidyInv, CacheInv, ClosesInv, [PositionsNext]_positionVars
    PROVE  ClosesInv'
<1>1. Fetched \subseteq Fetched'
  BY FetchedKept
<1>2. ASSUME NEW d \in Closers, UNCHANGED closes[d]
      PROVE  /\ closes'[d].at = "build" =>
                    \E acct \in Fetched' : closes'[d].had = MarginOf(acct, closes'[d].market)
             /\ closes'[d].at = "rejected" => Refused(d)'
  BY <1>1, <1>2 DEF ClosesInv, Refused
<1>3. ASSUME NEW c \in Closers, CloseStep(c)
      PROVE  ClosesInv'
  <2>1. PICK req \in Request :
            /\ closes' = [closes EXCEPT ![c] = req]
            /\ IF closes[c].at = "idle" THEN req.at = "cache"
               ELSE req.snap = closes[c].snap /\ req.market = closes[c].market
            /\ req.at = "build" =>
                  closes[c].at = "margin" /\ req.had = MarginOf(cached, req.market)
            /\ req.at = "rejected" =>
                  \/ req.size = 0
                  \/ /\ BaseOf(req.snap, req.market) = 0
                     /\ closes[c].at = "build" /\ closes[c].had = 0
    BY <1>3, CloseMoves
  <2>2. closes'[c] = req /\ \A d \in Closers : d # c => closes'[d] = closes[d]
    BY <2>1 DEF PositionTypes
  <2>3. req.at = "build" => \E acct \in Fetched' : req.had = MarginOf(acct, req.market)
    <3>1. ASSUME req.at = "build"
          PROVE  cached \in Fetched
      <4>1. closes[c].at \notin {"idle", "cache"}
        BY <2>1, <3>1
      <4> QED
        BY <4>1 DEF CacheInv
    <3> QED
      BY <1>1, <2>1, <3>1
  <2>4. req.at = "rejected" => Refused(c)'
    <3>1. ASSUME req.at = "rejected", BaseOf(req.snap, req.market) = 0,
                 closes[c].at = "build", closes[c].had = 0
          PROVE  /\ ~OpenIn(req.snap, req.market)
                 /\ \E acct \in Fetched' : MarginOf(acct, req.market) = 0
      BY <1>1, <2>1, <3>1 DEF ClosesInv, OpenIn
    <3> QED
      BY <2>1, <2>2, <3>1 DEF Refused
  <2> QED
    BY <1>2, <2>2, <2>3, <2>4 DEF ClosesInv
<1>4. CASE UNCHANGED closes
  BY <1>2, <1>4 DEF ClosesInv
<1>5. CASE DetailsStep
  BY <1>4, <1>5, DetailsMove
<1> QED
  BY <1>3, <1>4, <1>5
     DEF PositionsNext, Funds, Fills, Moves, PositionsAtRest, positionVars

LEMMA InitInv == PositionsInit => PInv
<1> SUFFICES ASSUME PositionsInit PROVE PInv
  OBVIOUS
<1>1. Blank \in [Slots -> Slot] /\ \A i \in Slots : ~Live(Blank[i])
  BY DEF Blank, Slots, Slot, Live, Open
<1>2. Tidy(Blank)
  BY <1>1 DEF Tidy
<1>3. PositionTypes
  BY <1>1 DEF PositionsInit, PositionTypes, DetailsRequest, Request, Orderings, NoOrder
<1>4. TidyInv
  BY <1>2 DEF PositionsInit, TidyInv
<1>5. CacheInv /\ DetailsInv /\ ClosesInv
  BY DEF PositionsInit, CacheInv, DetailsInv, ClosesInv
<1> QED
  BY <1>3, <1>4, <1>5 DEF PInv

(* Positions keeps its inductive invariant. *)
THEOREM PositionsInvariant == PositionsSpec => []PInv
<1>1. PInv /\ [PositionsNext]_positionVars => PInv'
  BY TypesKept, TidyKept, CacheKept, DetailsKept, ClosesKept DEF PInv
<1> QED
  BY InitInv, <1>1, PTL DEF PositionsSpec

-----------------------------------------------------------------------------
(* What the rows show. *)

LEMMA AtMostOne ==
    ASSUME NEW S, \A x, y \in S : x = y
    PROVE  Cardinality(S) <= 1
<1>1. CASE S = {}
  BY <1>1, FS_EmptySet
<1>2. ASSUME NEW x \in S
      PROVE  Cardinality(S) <= 1
  <2>1. S = {x}
    OBVIOUS
  <2>2. Cardinality({x}) = 1
    BY FS_Singleton
  <2> QED
    BY <2>1, <2>2
<1> QED
  BY <1>1, <1>2

LEMMA RowsDiffer ==
    ASSUME NEW snap, Tidy(snap), NEW acct, NEW helper \in BOOLEAN, NEW pnl \in {-MaxFunds, 0},
           NEW r \in RowsOf(snap, acct, helper, pnl), NEW s \in RowsOf(snap, acct, helper, pnl),
           r.market = s.market
    PROVE  r = s
<1>1. PICK i \in Relevant(snap, FoundBy(snap, acct)) :
          /\ r = Row(snap, i, helper, IF Open(snap[i]) THEN pnl ELSE 0)
          /\ r.market = snap[i].market
  BY RowSays
<1>2. PICK j \in Relevant(snap, FoundBy(snap, acct)) :
          /\ s = Row(snap, j, helper, IF Open(snap[j]) THEN pnl ELSE 0)
          /\ s.market = snap[j].market
  BY RowSays
<1>3. i = j
  BY <1>1, <1>2, RelevantSlot
<1> QED
  BY <1>1, <1>2, <1>3

(* getPositionDetails answers one row at most for a market, and it tells   *)
(* of the account that was fetched.                                        *)
THEOREM DetailsTellTheAccountHolds == PositionsSpec => []DetailsTellTheAccount
<1>1. ASSUME PInv
      PROVE  DetailsTellTheAccount
  <2> SUFFICES ASSUME details.at = "answered", NEW m \in Markets
               PROVE  LET rows == {row \in details.rows : row.market = m}
                      IN  /\ Cardinality(rows) <= 1
                          /\ \A row \in rows :
                                /\ row.size = BaseOf(details.snap, m)
                                /\ row.entry = "position" <=> OpenIn(details.snap, m)
                                /\ row.leverage = "equity" => row.margin = MarginOf(details.snap, m)
                                /\ row.margin > 0 <=> MarginOf(details.snap, m) > 0
                          /\ OpenIn(details.snap, m) => rows # {}
                          /\ (\A acct \in Fetched : MarginOf(acct, m) > 0) => rows # {}
                          /\ (\A acct \in Fetched : LiveAt(acct, m) = {}) => rows = {}
    BY DEF DetailsTellTheAccount
  <2> DEFINE rows == {row \in details.rows : row.market = m}
  <2>1. PICK acct \in Fetched, helper \in BOOLEAN, pnl \in {-MaxFunds, 0} :
            details.rows = RowsOf(details.snap, acct, helper, pnl)
    BY <1>1 DEF PInv, DetailsInv
  <2>2. PICK snap : snap = details.snap /\ Tidy(snap) /\ snap \in Fetched
    BY <1>1 DEF PInv, TidyInv, Fetched
  <2>3. Cardinality(rows) <= 1
    <3>1. \A r, s \in rows : r = s
      BY <2>1, <2>2, RowsDiffer
    <3> QED
      BY <3>1, AtMostOne
  <2>4. \A row \in rows :
            /\ row.size = BaseOf(snap, m)
            /\ row.entry = "position" <=> OpenIn(snap, m)
            /\ row.leverage = "equity" => row.margin = MarginOf(snap, m)
            /\ row.margin > 0 <=> MarginOf(snap, m) > 0
    BY <2>1, <2>2, RowSays
  <2>5. ASSUME NEW i \in FoundBy(snap, acct), snap[i].market = m
        PROVE  rows # {}
    <3>1. PICK j \in Relevant(snap, FoundBy(snap, acct)) : snap[j].market = m
      BY <2>2, <2>5, EveryFoundHasARow
    <3> DEFINE row == Row(snap, j, helper, IF Open(snap[j]) THEN pnl ELSE 0)
    <3>2. row \in details.rows
      BY <2>1, <2>2 DEF RowsOf
    <3>3. row.market = m
      BY <3>1 DEF Row
    <3> QED
      BY <3>2, <3>3
  <2>6. ASSUME NEW i \in LiveAt(snap, m)
        PROVE  i \in DOMAIN snap /\ snap[i].market = m /\ BaseOf(snap, m) = snap[i].base
    <3>1. i \in {j \in DOMAIN snap : snap[j].market = m /\ Live(snap[j])}
      BY DEF LiveAt
    <3>2. BaseOf(snap, m) = snap[i].base
      BY <2>2, LiveSlot
    <3> QED
      BY <3>1, <3>2
  <2>7. ASSUME OpenIn(snap, m)
        PROVE  rows # {}
    <3>1. PICK i \in LiveAt(snap, m) : TRUE
      BY <2>7 DEF OpenIn, BaseOf
    <3>2. i \in FoundBy(snap, acct)
      BY <2>6, <2>7, <3>1 DEF FoundBy, OpenIn, Open
    <3> QED
      BY <2>5, <2>6, <3>1, <3>2
  <2>8. ASSUME \A a \in Fetched : MarginOf(a, m) > 0
        PROVE  rows # {}
    <3>1. MarginOf(snap, m) > 0 /\ MarginOf(acct, m) > 0
      BY <2>2, <2>8
    <3>2. PICK i \in LiveAt(snap, m) : TRUE
      BY <3>1 DEF MarginOf
    <3>3. i \in FoundBy(snap, acct)
      BY <2>6, <3>1, <3>2 DEF FoundBy
    <3> QED
      BY <2>5, <2>6, <3>2, <3>3
  <2>9. ASSUME \A a \in Fetched : LiveAt(a, m) = {}
        PROVE  rows = {}
    <3> SUFFICES ASSUME NEW row \in rows PROVE FALSE
      OBVIOUS
    <3>1. PICK i \in Relevant(snap, FoundBy(snap, acct)) : row.market = snap[i].market
      BY <2>1, <2>2, RowSays
    <3>2. i \in FoundBy(snap, acct) /\ snap[i].market = m
      BY <2>2, <3>1, RelevantSlot
    <3>3. ~Open(snap[i])
      BY <2>2, <2>9, <3>2 DEF FoundBy, LiveAt, Live
    <3>4. MarginOf(acct, m) = 0
      BY <2>9 DEF MarginOf
    <3> QED
      BY <3>2, <3>3, <3>4 DEF FoundBy
  <2> HIDE DEF rows
  <2>10. /\ Cardinality(rows) <= 1
         /\ \A row \in rows :
               /\ row.size = BaseOf(details.snap, m)
               /\ row.entry = "position" <=> OpenIn(details.snap, m)
               /\ row.leverage = "equity" => row.margin = MarginOf(details.snap, m)
               /\ row.margin > 0 <=> MarginOf(details.snap, m) > 0
         /\ OpenIn(details.snap, m) => rows # {}
         /\ (\A a \in Fetched : MarginOf(a, m) > 0) => rows # {}
         /\ (\A a \in Fetched : LiveAt(a, m) = {}) => rows = {}
    BY <2>2, <2>3, <2>4, <2>7, <2>8, <2>9
  <2> QED
    BY <2>10 DEF rows
<1> QED
  BY <1>1, PositionsInvariant, PTL

(* The label of a row resolves to the row's market. *)
LEMMA LabelResolves ==
    ASSUME NEW m \in Nat, InTable(m)
    PROVE  Resolve(Label(m)) = {m}
<1> DEFINE i == CHOOSE k \in DOMAIN Listed : Listed[k].index = m
<1>1. i \in DOMAIN Listed /\ Listed[i].index = m
  BY DEF InTable
<1>2. Label(m) = Listed[i].symbol
  BY DEF Label
<1> HIDE DEF i
<1>3. DOMAIN Listed \in SUBSET Nat
  BY ListedTypes
<1>4. i \in Named(Label(m)) /\ Named(Label(m)) \in SUBSET DOMAIN Listed
  BY <1>1, <1>2 DEF Named, Keys
<1>5. PICK j : j = Min(Named(Label(m)))
  OBVIOUS
<1>6. j \in Named(Label(m)) /\ j <= i
  BY <1>3, <1>4, <1>5, MinIs
<1>7. j \in DOMAIN Listed /\ Listed[i].symbol \in Keys(Listed[j])
  BY <1>2, <1>4, <1>6 DEF Named
<1>8. j = i \/ j < i
  BY <1>1, <1>3, <1>6, <1>7
<1>9. Listed[j].index = m
  BY <1>1, <1>7, <1>8, ListedAssumption
<1> QED
  BY <1>4, <1>5, <1>9 DEF Resolve

(* Every row that is shown can be closed, and a close is refused only for  *)
(* a reason.                                                               *)
THEOREM ShownCanBeClosedHolds == PositionsSpec => []ShownCanBeClosed
<1>1. ASSUME PInv
      PROVE  ShownCanBeClosed
  <2>1. ASSUME NEW row \in details.rows, InTable(row.market)
        PROVE  /\ Resolve(row.label) = {row.market}
               /\ FindBase(details.snap, row.market) = row.size
    <3>1. PICK acct \in Fetched, helper \in BOOLEAN, pnl \in {-MaxFunds, 0} :
              details.rows = RowsOf(details.snap, acct, helper, pnl)
      BY <1>1 DEF PInv, DetailsInv
    <3>2. PICK snap : snap = details.snap /\ Tidy(snap)
      BY <1>1 DEF PInv, TidyInv
    <3>3. /\ row.market \in Markets /\ row.label = Label(row.market)
          /\ row.size = BaseOf(snap, row.market)
      BY <3>1, <3>2, RowSays
    <3>4. Markets \in SUBSET Nat
      BY PositionsAssumption DEF Markets
    <3>5. row.market \in Nat
      BY <3>3, <3>4
    <3> QED
      BY <2>1, <3>2, <3>3, <3>5, LabelResolves, FindsTheBase
  <2>2. RefusedForAReason
    BY <1>1 DEF PInv, ClosesInv, Refused, RefusedForAReason
  <2> QED
    BY <2>1, <2>2 DEF ShownCanBeClosed, RowsResolve
<1> QED
  BY <1>1, PositionsInvariant, PTL

(* Closes of one position, built from accounts that are old when they      *)
(* land, only ever take from it.                                           *)
THEOREM ClosesOnlyReduceHolds == PositionsSpec => ClosesOnlyReduce
<1>1. ASSUME PInv, [PositionsNext]_positionVars, NEW c \in Closers,
             closes[c].at = "built", closes'[c].at = "landed"
      PROVE  \A m \in Markets :
                IF m = closes[c].market THEN Between(BaseOf(account', m), BaseOf(account, m))
                ELSE BaseOf(account', m) = BaseOf(account, m)
  <2>1. PositionTypes /\ TidyInv
    BY <1>1 DEF PInv
  <2>2. CloseLands(c)
    BY <1>1, <2>1, LandsBy
  <2> QED
    BY <2>1, <2>2, CloseReduces
<1>2. PInv /\ [PositionsNext]_positionVars =>
          [\A c \in Closers : (closes[c].at = "built" /\ closes'[c].at = "landed") =>
              \A m \in Markets :
                  IF m = closes[c].market THEN Between(BaseOf(account', m), BaseOf(account, m))
                  ELSE BaseOf(account', m) = BaseOf(account, m)
          ]_positionVars
  BY <1>1
<1> QED
  BY <1>2, PositionsInvariant, PTL DEF PositionsSpec, ClosesOnlyReduce

=============================================================================
