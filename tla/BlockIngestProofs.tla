-------------------------- MODULE BlockIngestProofs --------------------------
(***************************************************************************)
(* Theorems about BlockIngest, for any chain, batch size, budget and       *)
(* operator's choice of a first block: what the cursor counts, what the    *)
(* runs report, and what a batch may pass over.                            *)
(***************************************************************************)
EXTENDS BlockIngest, FiniteSetTheorems, TLAPS

-----------------------------------------------------------------------------
(* The chain and its transactions. *)

LEMMA ChainFacts ==
    /\ Len(Chain) \in Nat /\ DOMAIN Chain = 1..Len(Chain)
    /\ \A b \in DOMAIN Chain : /\ Len(Chain[b]) \in Nat
                               /\ DOMAIN Chain[b] = 1..Len(Chain[b])
    /\ FirstTip \in 1..Len(Chain)
    /\ Limit \in Nat \ {0} /\ Lookback \in Nat /\ Lookback < FirstTip
<1> DEFINE Tx == [to : Dests \cup {NoDest}, text : BOOLEAN]
<1>1. Chain \in Seq(Seq(Tx)) /\ FirstTip \in DOMAIN Chain
      /\ Limit \in Nat \ {0} /\ Lookback \in Nat /\ Lookback < FirstTip
  BY IngestAssumption
<1> HIDE DEF Tx
<1>2. Len(Chain) \in Nat /\ DOMAIN Chain = 1..Len(Chain)
  BY <1>1
<1>3. \A b \in DOMAIN Chain : Chain[b] \in Seq(Tx)
  BY <1>1
<1>4. \A b \in DOMAIN Chain : Len(Chain[b]) \in Nat /\ DOMAIN Chain[b] = 1..Len(Chain[b])
  BY <1>3
<1>5. QED
  BY <1>1, <1>2, <1>4

(* A transaction is named by its block and its place in the block. *)
LEMMA TxFacts ==
    /\ \A b \in DOMAIN Chain : \A i \in DOMAIN Chain[b] : <<b, i>> \in TxIds
    /\ \A t \in TxIds : /\ t = <<t[1], t[2]>>
                        /\ t[1] \in DOMAIN Chain /\ t[2] \in DOMAIN Chain[t[1]]
                        /\ t[1] \in Nat \ {0} /\ t[2] \in Nat \ {0}
<1>1. \A b \in DOMAIN Chain : \A i \in DOMAIN Chain[b] : <<b, i>> \in TxIds
  BY DEF TxIds
<1>2. ASSUME NEW t \in TxIds
      PROVE  /\ t = <<t[1], t[2]>>
             /\ t[1] \in DOMAIN Chain /\ t[2] \in DOMAIN Chain[t[1]]
             /\ t[1] \in Nat \ {0} /\ t[2] \in Nat \ {0}
  <2>1. PICK b \in DOMAIN Chain : t \in {<<b, i>> : i \in DOMAIN Chain[b]}
    BY DEF TxIds
  <2>2. PICK i \in DOMAIN Chain[b] : t = <<b, i>>
    BY <2>1
  <2>3. t[1] = b /\ t[2] = i
    BY <2>2
  <2>4. b \in 1..Len(Chain) /\ i \in 1..Len(Chain[b])
    BY ChainFacts
  <2>5. QED
    BY <2>2, <2>3, <2>4, ChainFacts
<1>3. QED
  BY <1>1, <1>2

(* The transactions of a set of blocks. *)
InBlocks(B) == {t \in TxIds : t[1] \in B}

LEMMA OneBlock ==
    ASSUME NEW b \in DOMAIN Chain
    PROVE  IsFiniteSet(InBlocks({b})) /\ Cardinality(InBlocks({b})) = Len(Chain[b])
<1> DEFINE n == Len(Chain[b])
           f == [i \in 1..n |-> <<b, i>>]
<1>1. n \in Nat /\ DOMAIN Chain[b] = 1..n
  BY ChainFacts
<1>2. \A i \in 1..n : f[i] \in InBlocks({b})
  BY <1>1, TxFacts DEF InBlocks
<1>3. f \in [1..n -> InBlocks({b})]
  BY <1>2
<1>4. \A i, j \in 1..n : f[i] = f[j] => i = j
  OBVIOUS
<1>5. \A t \in InBlocks({b}) : \E i \in 1..n : f[i] = t
  <2>1. TAKE t \in InBlocks({b})
  <2>2. t = <<b, t[2]>> /\ t[2] \in 1..n
    BY <1>1, TxFacts DEF InBlocks
  <2>3. QED
    BY <2>2
<1>6. ExistsBijection(1..n, InBlocks({b}))
  BY <1>3, <1>4, <1>5 DEF ExistsBijection, Bijection, Injection, Surjection, IsInjective
<1>7. QED
  BY <1>1, <1>6, FS_CountingElements, FS_Interval, FS_Bijection

(* There are finitely many transactions. *)
LEMMA BlocksFinite ==
    ASSUME NEW B
    PROVE  IsFiniteSet(InBlocks(B)) /\ Cardinality(InBlocks(B)) \in Nat
<1> DEFINE D == 1..Len(Chain)
           S == {InBlocks({b}) : b \in D}
           f == [b \in D |-> InBlocks({b})]
<1>1. IsFiniteSet(D) /\ D = DOMAIN Chain
  BY ChainFacts, FS_Interval
<1>2. f \in Surjection(D, S)
  BY DEF Surjection
<1>3. IsFiniteSet(S)
  BY <1>1, <1>2, FS_Surjection
<1>4. \A T \in S : IsFiniteSet(T)
  BY <1>1, OneBlock
<1>5. IsFiniteSet(UNION S)
  BY <1>3, <1>4, FS_UNION
<1>6. InBlocks(B) \subseteq UNION S
  <2>1. ASSUME NEW t \in InBlocks(B) PROVE \E b \in D : t \in InBlocks({b})
    BY <1>1, TxFacts DEF InBlocks
  <2>2. QED
    BY <2>1
<1>7. QED
  BY <1>5, <1>6, FS_Subset, FS_CardinalityType

(* Two ranges of blocks with nothing in common count one after the other.  *)
LEMMA MoreBlocks ==
    ASSUME NEW B, NEW C, B \cap C = {}
    PROVE  Cardinality(InBlocks(B \cup C)) = Cardinality(InBlocks(B)) + Cardinality(InBlocks(C))
<1>1. InBlocks(B \cup C) = InBlocks(B) \cup InBlocks(C)
  BY DEF InBlocks
<1>2. InBlocks(B) \cap InBlocks(C) = {}
  BY DEF InBlocks
<1>3. Cardinality(InBlocks(B) \cap InBlocks(C)) = 0
  BY <1>2, FS_EmptySet
<1>4. /\ IsFiniteSet(InBlocks(B)) /\ Cardinality(InBlocks(B)) \in Nat
      /\ IsFiniteSet(InBlocks(C)) /\ Cardinality(InBlocks(C)) \in Nat
  BY BlocksFinite
<1>5. Cardinality(InBlocks(B) \cup InBlocks(C)) =
        Cardinality(InBlocks(B)) + Cardinality(InBlocks(C))
          - Cardinality(InBlocks(B) \cap InBlocks(C))
  BY <1>4, FS_Union
<1>6. Cardinality(InBlocks(B \cup C)) = Cardinality(InBlocks(B)) + Cardinality(InBlocks(C)) - 0
  BY <1>1, <1>3, <1>5
<1>7. QED
  BY <1>4, <1>6

(* One more block adds its transactions. *)
LEMMA OneMoreBlock ==
    ASSUME NEW B, NEW b \in DOMAIN Chain, b \notin B
    PROVE  Cardinality(InBlocks(B \cup {b})) = Cardinality(InBlocks(B)) + Len(Chain[b])
BY MoreBlocks, OneBlock

-----------------------------------------------------------------------------
(* The inductive invariant. *)

(* The block at which the batch under construction begins. *)
First == IF disk.last = 0 THEN origin ELSE disk.last + 1

Cursors == [last : Nat, items : Nat, carriers : Nat]
Batches == [tip : 0..Len(Chain), items : Nat, txs : Seq(TxIds), blocks : Nat,
            budget : Int, stop : Stops]
Tallies == [items : Nat, times : [TxIds -> Nat]]

(* The types the invariant needs. *)
Types ==
    /\ tip \in FirstTip..Len(Chain)
    /\ coded \subseteq Dests
    /\ pc \in Places
    /\ disk \in Cursors /\ cur \in Cursors
    /\ batch \in Batches
    /\ nxt \in Nat /\ pos \in Nat
    /\ out \in Tallies /\ reported \in Tallies
    /\ origin \in Nat

(* Where the cursor in memory is, and what the batch has counted.          *)
CursorShape ==
    /\ disk.last # 0 => origin \in 1..disk.last
    /\ pc = "down" => out = Nothing /\ batch = FreshBatch
    /\ pc = "tip" => cur = disk /\ batch = FreshBatch
    /\ pc \in {"read", "txs"} =>
          /\ origin # 0
          /\ nxt = IF cur.last = 0 THEN origin ELSE cur.last + 1
          /\ cur.items = disk.items
    /\ pc \in {"read", "txs", "save"} =>
          /\ disk.last <= cur.last
          /\ cur.last # 0 => origin \in 1..cur.last
    /\ pc \in {"read", "save"} => batch.items = Cardinality(InBlocks(First..cur.last))
    /\ pc = "txs" => /\ nxt \in DOMAIN Chain
                     /\ pos \in 1..(Len(Chain[nxt]) + 1)
                     /\ batch.items = Cardinality(InBlocks(First..nxt))
    /\ pc = "save" => cur.items = disk.items + batch.items
    /\ pc = "scan" => cur = disk

(* The batch holds transaction t. *)
Held(t) == \E k \in DOMAIN batch.txs : batch.txs[k] = t

(* What the batch holds: transactions of its own blocks, each once. *)
BatchShape ==
    /\ Len(batch.txs) <= Limit
    /\ \A j, k \in DOMAIN batch.txs : batch.txs[j] = batch.txs[k] => j = k
    /\ pc \in {"read", "save"} => \A k \in DOMAIN batch.txs : batch.txs[k][1] \in First..cur.last
    /\ pc = "txs" =>
          /\ \A k \in DOMAIN batch.txs :
                \/ batch.txs[k][1] \in First..cur.last
                \/ batch.txs[k][1] = nxt /\ batch.txs[k][2] < pos
          /\ Len(batch.txs) = Limit =>
                pos = Len(Chain[nxt]) + 1 /\ batch.txs[Limit][1] = nxt

(* A carrier behind the one that filled the batch in block b. *)
BehindFiller(t, b) ==
    /\ Len(batch.txs) = Limit
    /\ t[1] = b /\ batch.txs[Limit][1] = b /\ t[2] > batch.txs[Limit][2]

(* What the code cache says of a destination was so when it was asked, and *)
(* a contract stays one.                                                   *)
CacheSound ==
    \A d \in DOMAIN cache : cache[d] \in {"contract", "eoa"} /\ (cache[d] = "contract" => d \in coded)

(* What the batch does not hold, of all the carriers it has seen. *)
CarrierShape ==
    /\ CacheSound
    /\ pc \in {"read", "save"} =>
          \A t \in InBlocks(First..cur.last) : Carrier(t) => Held(t) \/ BehindFiller(t, cur.last)
    /\ pc = "txs" =>
          \A t \in TxIds :
              Carrier(t) /\ (t[1] \in First..cur.last \/ (t[1] = nxt /\ t[2] < pos))
                  => Held(t) \/ BehindFiller(t, nxt)

(* What was reported, or is held for the report, is behind the cursor. *)
Told(t) == reported.times[t] + out.times[t]

ReportShape ==
    /\ \A t \in TxIds : Told(t) <= 1 /\ (Told(t) > 0 => t \in Behind(disk.last))
    /\ pc = "scan" => \A k \in DOMAIN batch.txs :
          Told(batch.txs[k]) = 0 /\ batch.txs[k] \in Behind(disk.last)
    /\ reported.items + out.items + (IF pc = "scan" THEN batch.items ELSE 0) <= disk.items

(* The cursor, the batch, its carriers and the reports, and the count the  *)
(* first theorem is about.                                                 *)
IInv == Types /\ CursorShape /\ BatchShape /\ CarrierShape /\ ReportShape /\ CountedOnce

-----------------------------------------------------------------------------
(* The blocks the cursor is past. *)
LEMMA BehindIs == \A last : Behind(last) = InBlocks(origin..last)
BY DEF Behind, InBlocks

(* An empty batch. *)
LEMMA FreshFacts ==
    /\ FreshBatch.items = 0 /\ FreshBatch.txs = <<>>
    /\ Len(FreshBatch.txs) = 0 /\ DOMAIN FreshBatch.txs = {}
    /\ FreshBatch \in Batches
    /\ Nothing \in Tallies /\ Nothing.items = 0 /\ \A t \in TxIds : Nothing.times[t] = 0
    /\ FreshCursor \in Cursors /\ FreshCursor.last = 0 /\ FreshCursor.items = 0
<1>1. CodeBudget \in Nat
  BY IngestAssumption
<1>2. <<>> \in Seq(TxIds) /\ Len(<<>>) = 0 /\ DOMAIN <<>> = {}
  OBVIOUS
<1>3. FreshBatch \in Batches
  BY <1>1, <1>2, ChainFacts DEF FreshBatch, Batches, Stops
<1>4. Nothing \in Tallies
  BY DEF Nothing, Tallies
<1>5. QED
  BY <1>2, <1>3, <1>4 DEF FreshBatch, Nothing, FreshCursor, Cursors

LEMMA InitInv == Init => IInv
<1> SUFFICES ASSUME Init PROVE IInv
  OBVIOUS
<1>1. Types
  BY FreshFacts, ChainFacts DEF Init, Types, Places
<1>2. CursorShape
  BY FreshFacts DEF Init, CursorShape
<1>3. BatchShape
  BY FreshFacts, ChainFacts DEF Init, BatchShape
<1>4. CarrierShape
  BY DEF Init, CarrierShape, CacheSound
<1>5. ReportShape
  BY FreshFacts DEF Init, ReportShape, Told
<1>6. CountedOnce
  BY FreshFacts DEF Init, CountedOnce
<1>7. QED
  BY <1>1, <1>2, <1>3, <1>4, <1>5, <1>6 DEF IInv

-----------------------------------------------------------------------------
(* The chain moves, and the process comes and goes. *)

(* A contract more, or a block more, is no matter to the process.          *)
LEMMA ChainStep ==
    ASSUME IInv, Grow \/ \E d \in Dests : Deploy(d)
    PROVE  IInv'
<1> USE DEF IInv, process
<1>1. /\ UNCHANGED <<disk, pc, cur, batch, nxt, pos, cache, limited, left, out, reported, origin>>
      /\ coded \subseteq coded'
      /\ coded' \subseteq Dests /\ tip' \in FirstTip..Len(Chain)
  BY ChainFacts DEF Grow, Deploy, Types
<1>2. Types'
  BY <1>1 DEF Types
<1>3. CursorShape' /\ BatchShape'
  BY <1>1 DEF CursorShape, BatchShape, First
<1>4. CarrierShape'
  <2>1. /\ First' = First
        /\ \A t : Held(t)' = Held(t) /\ \A b : BehindFiller(t, b)' = BehindFiller(t, b)
    BY <1>1 DEF First, Held, BehindFiller
  <2>2. \A t : Carrier(t)' => Carrier(t)
    BY <1>1 DEF Carrier
  <2>3. QED
    BY <1>1, <2>1, <2>2 DEF CarrierShape, CacheSound
<1>5. ReportShape' /\ CountedOnce'
  BY <1>1 DEF ReportShape, CountedOnce, Told, Behind
<1>6. QED
  BY <1>2, <1>3, <1>4, <1>5

(* A run starts with the cursor of the file. *)
LEMMA StartStep ==
    ASSUME IInv, Start
    PROVE  IInv'
<1> USE DEF IInv
<1>1. /\ pc = "down" /\ pc' = "tip" /\ cur' = disk /\ left' = MaxBatches
      /\ UNCHANGED <<tip, coded, disk, batch, nxt, pos, cache, limited, out, reported, origin>>
      /\ out = Nothing /\ batch = FreshBatch
  BY DEF Start, CursorShape
<1>2. Types'
  BY <1>1, IngestAssumption DEF Types, Places
<1>3. CursorShape' /\ BatchShape'
  BY <1>1 DEF CursorShape, BatchShape
<1>4. CarrierShape'
  BY <1>1 DEF CarrierShape, CacheSound
<1>5. ReportShape' /\ CountedOnce'
  BY <1>1 DEF ReportShape, CountedOnce, Told, Behind
<1>6. QED
  BY <1>2, <1>3, <1>4, <1>5

(* The process is gone, with or without a report: what it counted stays.   *)
LEMMA IdleStep ==
    ASSUME IInv, Report \/ Crash
    PROVE  IInv'
<1> USE DEF IInv
<1>1. /\ pc' = "down" /\ Idle
      /\ UNCHANGED <<tip, coded, disk, origin>>
  BY DEF Report, Crash
<1>2. /\ reported' \in Tallies
      /\ reported'.items <= reported.items + out.items
      /\ \A t \in TxIds : reported'.times[t] <= Told(t)
  <2>1. CASE Report
    BY <2>1 DEF Report, Types, Tallies, Told
  <2>2. CASE Crash
    BY <2>2 DEF Crash, Types, Tallies, Told
  <2>3. QED
    BY <2>1, <2>2
<1>3. out' = Nothing /\ batch' = FreshBatch /\ cur' = FreshCursor
      /\ nxt' = 0 /\ pos' = 0 /\ limited' = FALSE /\ left' = 0 /\ DOMAIN cache' = {}
  BY <1>1 DEF Idle
<1>4. Types'
  BY <1>1, <1>2, <1>3, FreshFacts DEF Types, Places
<1>5. CursorShape'
  BY <1>1, <1>3 DEF CursorShape
<1>6. BatchShape'
  BY <1>1, <1>3, FreshFacts, ChainFacts DEF BatchShape
<1>7. CarrierShape'
  BY <1>1, <1>3 DEF CarrierShape, CacheSound
<1>8. ReportShape'
  <2>1. \A t \in TxIds : Told(t)' = reported'.times[t] + 0 /\ Told(t)' \in Nat /\ Told(t) \in Nat
    BY <1>2, <1>3, FreshFacts DEF Told, Tallies, Types
  <2>2. \A t \in TxIds : Told(t)' <= Told(t)
    BY <1>2, <2>1 DEF Tallies
  <2>3. \A t \in TxIds : Told(t)' <= 1 /\ (Told(t)' > 0 => t \in Behind(disk.last)')
    <3>1. Behind(disk.last)' = Behind(disk.last)
      BY <1>1 DEF Behind
    <3>2. QED
      BY <2>1, <2>2, <3>1 DEF ReportShape
  <2>4. reported'.items + out'.items <= disk'.items
    <3>1. /\ reported.items \in Nat /\ out.items \in Nat /\ batch.items \in Nat
          /\ disk.items \in Nat /\ reported'.items \in Nat
      BY <1>2 DEF Types, Tallies, Batches, Cursors
    <3>2. out'.items = 0 /\ disk' = disk
      BY <1>1, <1>3, FreshFacts
    <3>3. reported.items + out.items <= disk.items
      BY <3>1 DEF ReportShape
    <3>4. QED
      BY <1>2, <3>1, <3>2, <3>3
  <2>5. reported'.items \in Nat /\ out'.items \in Nat
    BY <1>2, <1>3, FreshFacts DEF Tallies
  <2>6. QED
    BY <1>1, <2>3, <2>4, <2>5 DEF ReportShape
<1>9. CountedOnce'
  BY <1>1 DEF CountedOnce, Behind
<1>10. QED
  BY <1>4, <1>5, <1>6, <1>7, <1>8, <1>9

-----------------------------------------------------------------------------
(* From the tip to the end of the poll. *)

(* A batch that begins holds the blocks of no range. *)
LEMMA NothingYet ==
    ASSUME NEW a \in Nat, NEW l \in Nat, l = 0 \/ a = l + 1
    PROVE  InBlocks(a..l) = {} /\ Cardinality(InBlocks(a..l)) = 0
<1>1. \A t \in TxIds : t[1] \notin a..l
  BY TxFacts
<1>2. InBlocks(a..l) = {}
  BY <1>1 DEF InBlocks
<1>3. QED
  BY <1>2, FS_EmptySet

LEMMA FirstIs ==
    ASSUME IInv
    PROVE  First \in Nat /\ (disk.last = 0 \/ First = disk.last + 1)
BY DEF IInv, Types, Cursors, First

LEMMA QuietReport ==
    ASSUME IInv, UNCHANGED <<disk, out, reported, origin>>, pc # "scan", pc' # "scan"
    PROVE  ReportShape' /\ CountedOnce'
<1>1. \A l : Behind(l)' = Behind(l)
  BY DEF Behind
<1>2. \A t : Told(t)' = Told(t)
  BY DEF Told
<1>3. CountedOnce'
  BY <1>1 DEF IInv, CountedOnce
<1>4. ReportShape'
  BY <1>1, <1>2 DEF IInv, ReportShape
<1>5. QED
  BY <1>3, <1>4

(* A poll that ends, however it ends. *)
LEMMA CloseStep ==
    ASSUME IInv, NEW why \in {"target-reached", "source-exhausted", "error"}, CloseBatch(why),
           pc \in {"tip", "read"},
           UNCHANGED <<tip, coded, disk, nxt, pos, cache, out, reported, origin>>
    PROVE  IInv'
<1> USE DEF IInv
<1>1. /\ pc' = "save"
      /\ cur' = [cur EXCEPT !.items = @ + batch.items, !.carriers = @ + Len(batch.txs)]
  BY DEF CloseBatch, Count
<1>2. cur \in Cursors /\ disk \in Cursors /\ batch \in Batches
  BY DEF Types
<1>3. Len(batch.txs) \in Nat /\ batch.items \in Nat
  BY <1>2 DEF Batches
<1>4. /\ cur' \in Cursors /\ cur'.last = cur.last /\ cur'.items = cur.items + batch.items
      /\ batch' \in Batches /\ batch'.txs = batch.txs /\ batch'.items = batch.items
  <2>1. cur' \in Cursors /\ cur'.last = cur.last /\ cur'.items = cur.items + batch.items
    <3> DEFINE m == cur.items + batch.items
               n == cur.carriers + Len(batch.txs)
    <3>1. m \in Nat /\ n \in Nat
      BY <1>2, <1>3 DEF Cursors
    <3>2. cur' = [cur EXCEPT !.items = m, !.carriers = n]
      BY <1>1
    <3> HIDE DEF m, n
    <3>3. cur' \in Cursors /\ cur'.last = cur.last /\ cur'.items = m
      BY <1>2, <3>1, <3>2 DEF Cursors
    <3>4. QED
      BY <3>3 DEF m
  <2>2. \/ batch' = [batch EXCEPT !.stop = "rate-limited"]
        \/ batch' = [batch EXCEPT !.stop = why]
    BY Zenon DEF CloseBatch
  <2>3. PICK s \in Stops : batch' = [batch EXCEPT !.stop = s]
    BY <2>2 DEF Stops
  <2>4. batch' \in Batches /\ batch'.txs = batch.txs /\ batch'.items = batch.items
    BY <1>2, <2>3 DEF Batches
  <2>5. QED
    BY <2>1, <2>4
<1>5. Types'
  BY <1>1, <1>4 DEF Types, Places
<1>6. First' = First
  BY DEF First
<1>7. pc = "tip" => cur = disk /\ batch.items = 0 /\ batch.txs = <<>>
                    /\ InBlocks(First..cur.last) = {}
                    /\ Cardinality(InBlocks(First..cur.last)) = 0
  <2>1. disk.last \in Nat
    BY <1>2 DEF Cursors
  <2>2. QED
    BY <2>1, FreshFacts, FirstIs, NothingYet DEF CursorShape
<1>8. CursorShape'
  <2>1. batch.items = Cardinality(InBlocks(First..cur.last))
    BY <1>7 DEF CursorShape
  <2>2. disk.last <= cur.last /\ (cur.last # 0 => origin \in 1..cur.last) /\ cur.items = disk.items
    BY <1>2, <1>7 DEF CursorShape, Cursors
  <2>3. QED
    BY <1>1, <1>4, <1>6, <2>1, <2>2 DEF CursorShape
<1>9. BatchShape'
  <2>1. \A k \in DOMAIN batch.txs : batch.txs[k][1] \in First..cur.last
    BY <1>7 DEF BatchShape
  <2>2. QED
    BY <1>1, <1>4, <1>6, <2>1 DEF BatchShape
<1>10. CarrierShape'
  <2>1. /\ \A t : Held(t)' = Held(t) /\ Carrier(t)' = Carrier(t)
        /\ \A t, b : BehindFiller(t, b)' = BehindFiller(t, b)
    BY <1>4 DEF Held, Carrier, BehindFiller
  <2>2. \A t \in InBlocks(First..cur.last) : Carrier(t) => Held(t) \/ BehindFiller(t, cur.last)
    BY <1>7 DEF CarrierShape, CacheSound
  <2>3. QED
    BY <1>1, <1>4, <1>6, <2>1, <2>2 DEF CarrierShape, CacheSound
<1>11. ReportShape' /\ CountedOnce'
  BY <1>1, QuietReport
<1>12. QED
  BY <1>5, <1>8, <1>9, <1>10, <1>11

(* block_number answers: the batch begins where the cursor says. *)
LEMMA TipStep ==
    ASSUME IInv, TipAnswered
    PROVE  IInv'
<1> USE DEF IInv
<1>1. PICK start \in StartBlocks :
        /\ nxt' = ResumeAt(start)
        /\ origin' = IF cur.last = 0 THEN nxt' ELSE origin
  BY DEF TipAnswered
<1>2. /\ pc = "tip" /\ pc' = "read" /\ batch' = [batch EXCEPT !.tip = tip]
      /\ UNCHANGED <<tip, coded, disk, cur, pos, cache, left, out, reported>>
      /\ cur = disk /\ batch = FreshBatch
  BY DEF TipAnswered, CursorShape
<1>3. disk \in Cursors /\ disk.last \in Nat /\ tip \in FirstTip..Len(Chain)
      /\ batch \in Batches /\ origin \in Nat
  BY DEF Types, Cursors
<1>4. nxt' \in Nat \ {0} /\ (cur.last # 0 => nxt' = cur.last + 1)
  <2>1. start = Unset \/ start \in 1..Len(Chain)
    BY ChainFacts, IngestAssumption
  <2>2. tip - Lookback \in Nat \ {0} /\ Len(Chain) \in Nat
    BY <1>3, ChainFacts
  <2>3. cur.last = disk.last
    BY <1>2
  <2>4. nxt' = IF cur.last # 0 THEN cur.last + 1 ELSE IF start # Unset THEN start ELSE tip - Lookback
    BY <1>1 DEF ResumeAt
  <2>5. QED
    BY <1>3, <2>1, <2>2, <2>3, <2>4
<1>5. origin' \in Nat \ {0} /\ nxt' = (IF cur.last = 0 THEN origin' ELSE cur.last + 1)
      /\ (disk.last # 0 => origin' = origin)
  BY <1>1, <1>2, <1>3, <1>4 DEF CursorShape
<1>6. batch' \in Batches /\ batch'.txs = <<>> /\ batch'.items = 0
  BY <1>2, <1>3, FreshFacts, ChainFacts DEF Batches
<1>7. Types'
  BY <1>2, <1>4, <1>5, <1>6 DEF Types, Places
<1>8. First' \in Nat /\ (cur.last = 0 \/ First' = cur.last + 1)
  BY <1>2, <1>3, <1>5 DEF First
<1>9. InBlocks(First'..cur.last) = {} /\ Cardinality(InBlocks(First'..cur.last)) = 0
  BY <1>2, <1>3, <1>8, NothingYet
<1>10. CursorShape'
  BY <1>2, <1>3, <1>5, <1>6, <1>9 DEF CursorShape
<1>11. BatchShape'
  <2>1. DOMAIN batch'.txs = {} /\ Len(batch'.txs) = 0
    BY <1>6
  <2>2. QED
    BY <1>2, <2>1, ChainFacts DEF BatchShape
<1>12. CarrierShape'
  BY <1>2, <1>9 DEF CarrierShape, CacheSound
<1>13. Behind(disk.last)' = Behind(disk.last)
  <2>1. CASE disk.last = 0
    <3>1. InBlocks(origin..0) = {} /\ InBlocks(origin'..0) = {}
      BY <1>3, <1>5, NothingYet
    <3>2. QED
      BY <1>2, <2>1, <3>1 DEF Behind, InBlocks
  <2>2. CASE disk.last # 0
    BY <1>2, <1>5, <2>2 DEF Behind
  <2>3. QED
    BY <2>1, <2>2
<1>14. ReportShape'
  BY <1>2, <1>13 DEF ReportShape, Told
<1>15. CountedOnce'
  BY <1>2, <1>13 DEF CountedOnce
<1>16. QED
  BY <1>7, <1>10, <1>11, <1>12, <1>14, <1>15

(* The blocks up to the next one are those up to the cursor's and the next. *)
LEMMA NextBlock ==
    ASSUME IInv, pc \in {"read", "txs"}
    PROVE  /\ First..nxt = (First..cur.last) \cup {nxt}
           /\ nxt \notin First..cur.last /\ nxt > cur.last /\ nxt \in Nat \ {0}
           /\ First <= nxt
<1>1. disk.last \in Nat /\ cur.last \in Nat /\ origin \in Nat
  BY DEF IInv, Types, Cursors
<1>2. /\ origin # 0 /\ nxt = IF cur.last = 0 THEN origin ELSE cur.last + 1
      /\ disk.last <= cur.last /\ (cur.last # 0 => origin \in 1..cur.last)
  BY DEF IInv, CursorShape
<1>3. QED
  BY <1>1, <1>2 DEF First

(* A block more. *)
LEMMA BlockStep ==
    ASSUME IInv, BlockAnswered
    PROVE  IInv'
<1> USE DEF IInv
<1>1. /\ pc = "read" /\ pc' = "txs" /\ pos' = 1
      /\ batch' = [batch EXCEPT !.blocks = @ + 1, !.items = @ + Len(Chain[nxt])]
      /\ UNCHANGED <<tip, coded, disk, cur, nxt, cache, left, out, reported, origin>>
      /\ Len(batch.txs) < Limit /\ nxt <= batch.tip
  BY DEF BlockAnswered, Room, PastTip, Types, Batches
<1>2. nxt \in DOMAIN Chain /\ Len(Chain[nxt]) \in Nat
  BY <1>1, NextBlock, ChainFacts DEF Types, Batches
<1>3. /\ batch' \in Batches /\ batch'.txs = batch.txs
      /\ batch'.items = batch.items + Len(Chain[nxt])
  <2> DEFINE n == Len(Chain[nxt])
  <2>1. n \in Nat /\ batch \in Batches /\ batch' = [batch EXCEPT !.blocks = @ + 1, !.items = @ + n]
    BY <1>1, <1>2 DEF Types
  <2> HIDE DEF n
  <2>2. batch.blocks + 1 \in Nat /\ batch.items + n \in Nat
    BY <2>1 DEF Batches
  <2>3. batch' \in Batches
    BY <2>1, <2>2 DEF Batches
  <2>4. batch'.txs = batch.txs /\ batch'.items = batch.items + n
    BY <2>1 DEF Batches
  <2>5. QED
    BY <2>3, <2>4 DEF n
<1>4. Types'
  BY <1>1, <1>3 DEF Types, Places
<1>5. First' = First
  BY <1>1 DEF First
<1>6. CursorShape'
  <2>1. batch'.items = Cardinality(InBlocks(First..nxt))
    <3>1. /\ First..nxt = (First..cur.last) \cup {nxt} /\ nxt \notin First..cur.last
          /\ batch.items = Cardinality(InBlocks(First..cur.last))
      BY <1>1, NextBlock DEF CursorShape
    <3>2. Cardinality(InBlocks((First..cur.last) \cup {nxt}))
            = Cardinality(InBlocks(First..cur.last)) + Len(Chain[nxt])
      BY <1>2, <3>1, OneMoreBlock
    <3>3. QED
      BY <1>3, <3>1, <3>2
  <2>2. QED
    BY <1>1, <1>2, <1>5, <2>1 DEF CursorShape
<1>7. BatchShape'
  BY <1>1, <1>3, <1>5 DEF BatchShape
<1>8. CarrierShape'
  <2>1. /\ \A t : Held(t)' = Held(t) /\ Carrier(t)' = Carrier(t)
        /\ \A t : ~ BehindFiller(t, cur.last)
    BY <1>1, <1>3, ChainFacts DEF Held, Carrier, BehindFiller
  <2>2. ASSUME NEW t \in TxIds, Carrier(t),
               t[1] \in First..cur.last \/ (t[1] = nxt /\ t[2] < 1)
        PROVE  Held(t)
    <3>1. t \in InBlocks(First..cur.last)
      BY <2>2, TxFacts DEF InBlocks
    <3>2. QED
      BY <1>1, <2>1, <2>2, <3>1 DEF CarrierShape, CacheSound
  <2>3. QED
    BY <1>1, <1>5, <2>1, <2>2 DEF CarrierShape, CacheSound
<1>9. ReportShape' /\ CountedOnce'
  BY <1>1, QuietReport
<1>10. QED
  BY <1>4, <1>6, <1>7, <1>8, <1>9

(* The cursor moves past a block. *)
LEMMA EndBlockStep ==
    ASSUME IInv, EndBlock
    PROVE  IInv'
<1> USE DEF IInv
<1>1. /\ pc = "txs" /\ pc' = "read" /\ pos > Len(Chain[nxt]) /\ nxt' = nxt + 1
      /\ cur' = [cur EXCEPT !.last = nxt]
      /\ UNCHANGED <<tip, coded, disk, batch, pos, cache, limited, left, out, reported, origin>>
  BY DEF EndBlock
<1>2. /\ cur' \in Cursors /\ cur'.last = nxt /\ cur'.items = cur.items /\ nxt \in Nat \ {0}
      /\ disk.last \in Nat /\ cur.last \in Nat /\ origin \in Nat
  BY <1>1, NextBlock DEF Types, Cursors
<1>3. Types'
  BY <1>1, <1>2 DEF Types, Places
<1>4. First' = First
  BY <1>1 DEF First
<1>5. CursorShape'
  <2>1. origin \in 1..nxt /\ disk.last <= nxt
    BY <1>1, <1>2, NextBlock DEF CursorShape
  <2>2. QED
    BY <1>1, <1>2, <1>4, <2>1 DEF CursorShape
<1>6. BatchShape'
  <2>1. \A k \in DOMAIN batch.txs : batch.txs[k][1] \in First..nxt
    BY <1>1, NextBlock DEF BatchShape
  <2>2. QED
    BY <1>1, <1>2, <1>4, <2>1 DEF BatchShape
<1>7. CarrierShape'
  <2>1. /\ \A t : Held(t)' = Held(t) /\ Carrier(t)' = Carrier(t)
        /\ \A t, b : BehindFiller(t, b)' = BehindFiller(t, b)
    BY <1>1 DEF Held, Carrier, BehindFiller
  <2>2. ASSUME NEW t \in InBlocks(First..nxt), Carrier(t)
        PROVE  Held(t) \/ BehindFiller(t, nxt)
    <3>1. t \in TxIds /\ (t[1] \in First..cur.last \/ t[1] = nxt)
      BY <1>1, NextBlock DEF InBlocks
    <3>2. t[1] = nxt => t[2] < pos
      BY <1>1, <3>1, TxFacts, ChainFacts DEF CursorShape, Types
    <3>3. QED
      BY <1>1, <2>2, <3>1, <3>2 DEF CarrierShape, CacheSound
  <2>3. QED
    BY <1>1, <1>2, <1>4, <2>1, <2>2 DEF CarrierShape, CacheSound
<1>8. ReportShape' /\ CountedOnce'
  BY <1>1, QuietReport
<1>9. QED
  BY <1>3, <1>5, <1>6, <1>7, <1>8

-----------------------------------------------------------------------------
(* One turn of the loop over a block. *)

(* The batch lets the transaction go, which is no carrier. *)
LetsGo ==
    /\ ~ Carrier(<<nxt, pos>>)
    /\ \E n : batch' = [batch EXCEPT !.budget = n] /\ n \in Int
    /\ pos' = pos + 1

(* The batch takes the transaction. *)
Takes ==
    /\ \E n : /\ batch' = [batch EXCEPT !.txs = Append(@, <<nxt, pos>>), !.budget = n]
              /\ n \in Int
    /\ pos' = IF Len(batch'.txs) >= Limit THEN Len(Chain[nxt]) + 1 ELSE pos + 1

LEMMA KeepTakes ==
    ASSUME Types, NEW mark, Keep(mark)
    PROVE  Takes
<1>1. batch.budget \in Int /\ batch.budget - 1 \in Int
  BY DEF Types, Batches
<1>2. CASE KnownMark(Chain[nxt][pos].to) = "ask"
  BY <1>1, <1>2 DEF Keep, Takes
<1>3. CASE KnownMark(Chain[nxt][pos].to) # "ask"
  BY <1>1, <1>3 DEF Keep, Takes
<1>4. QED
  BY <1>2, <1>3

LEMMA SkipLetsGo ==
    ASSUME Types, Skip, ~ Carrier(<<nxt, pos>>)
    PROVE  LetsGo
<1>1. batch.budget \in Int /\ batch.budget - 1 \in Int
  BY DEF Types, Batches
<1>2. \/ batch' = [batch EXCEPT !.budget = batch.budget]
      \/ batch' = [batch EXCEPT !.budget = batch.budget - 1]
  BY Zenon DEF Skip
<1>3. pos' = pos + 1
  BY DEF Skip
<1>4. QED
  BY <1>1, <1>2, <1>3 DEF LetsGo

LEMMA TakeTxCases ==
    ASSUME IInv, TakeTx
    PROVE  (LetsGo \/ Takes) /\ CacheSound'
<1> DEFINE d == Chain[nxt][pos].to
<1>1. CacheSound /\ Types /\ UNCHANGED coded
  BY DEF IInv, CarrierShape, CacheSound, TakeTx
<1>2. Carrier(<<nxt, pos>>) <=> (Chain[nxt][pos].text /\ d # NoDest /\ d \notin coded)
  BY Zenon DEF Carrier, Transaction
<1>3. KnownMark(d) = "contract" => d = NoDest \/ d \in coded
  BY <1>1 DEF KnownMark, CacheSound
<1>4. CASE ~ Chain[nxt][pos].text /\ Skip /\ UNCHANGED cache
  <2>1. ~ Carrier(<<nxt, pos>>)
    BY <1>2, <1>4
  <2>2. QED
    BY <1>1, <1>4, <2>1, SkipLetsGo DEF CacheSound
<1>5. CASE /\ KnownMark(d) # "ask" /\ UNCHANGED cache
           /\ IF KnownMark(d) = "contract" THEN Skip ELSE Keep(KnownMark(d))
  <2>1. CacheSound'
    BY <1>1, <1>5 DEF CacheSound
  <2>2. CASE KnownMark(d) = "contract"
    BY <1>1, <1>2, <1>3, <1>5, <2>1, <2>2, SkipLetsGo
  <2>3. CASE KnownMark(d) # "contract"
    BY <1>1, <1>5, <2>1, <2>3, KeepTakes
  <2>4. QED
    BY <2>2, <2>3
<1>6. ASSUME NEW mark, mark = (IF d \in coded THEN "contract" ELSE "eoa"),
             IF mark = "contract" THEN Skip ELSE Keep(mark),
             cache' = [e \in DOMAIN cache \cup {d} |-> IF e = d THEN mark ELSE cache[e]]
      PROVE  (LetsGo \/ Takes) /\ CacheSound'
  <2>1. CacheSound'
    BY <1>1, <1>6 DEF CacheSound
  <2>2. CASE d \in coded
    BY <1>1, <1>2, <1>6, <2>1, <2>2, SkipLetsGo
  <2>3. CASE d \notin coded
    BY <1>1, <1>6, <2>1, <2>3, KeepTakes
  <2>4. QED
    BY <2>2, <2>3
<1>7. CASE Keep("unknown") /\ UNCHANGED cache
  BY <1>1, <1>7, KeepTakes DEF CacheSound
<1>8. QED
  BY <1>4, <1>5, <1>6, <1>7, Zenon DEF TakeTx

(* The frame both outcomes share. *)
LEMMA TakeTxFrame ==
    ASSUME IInv, TakeTx
    PROVE  /\ pc = "txs" /\ pc' = "txs" /\ pos \in 1..Len(Chain[nxt])
           /\ UNCHANGED <<tip, coded, disk, cur, nxt, left, out, reported, origin>>
           /\ nxt \in DOMAIN Chain /\ <<nxt, pos>> \in TxIds
           /\ nxt \notin First..cur.last
           /\ Len(batch.txs) < Limit /\ Len(batch.txs) \in Nat /\ batch \in Batches
           /\ \A k \in DOMAIN batch.txs : batch.txs[k] \in TxIds
<1> USE DEF IInv
<1>1. /\ pc = "txs" /\ pos <= Len(Chain[nxt])
      /\ UNCHANGED <<tip, coded, disk, pc, cur, nxt, left, out, reported, origin>>
  BY DEF TakeTx
<1>2. /\ nxt \in DOMAIN Chain /\ pos \in 1..Len(Chain[nxt])
  BY <1>1, ChainFacts DEF CursorShape
<1>3. <<nxt, pos>> \in TxIds
  BY <1>2, TxFacts, ChainFacts
<1>4. nxt \notin First..cur.last
  BY <1>1, NextBlock
<1>5. batch \in Batches /\ batch.txs \in Seq(TxIds)
  BY DEF Types, Batches
<1>6. Len(batch.txs) \in Nat /\ \A k \in DOMAIN batch.txs : batch.txs[k] \in TxIds
  BY <1>5
<1>7. Len(batch.txs) < Limit
  BY <1>1, <1>2, <1>6, ChainFacts DEF BatchShape
<1>8. QED
  BY <1>1, <1>2, <1>3, <1>4, <1>5, <1>6, <1>7

LEMMA LetsGoStep ==
    ASSUME IInv, TakeTx, LetsGo
    PROVE  IInv'
<1> USE DEF IInv
<1>1. /\ pc = "txs" /\ pc' = "txs" /\ pos \in 1..Len(Chain[nxt])
      /\ UNCHANGED <<tip, coded, disk, cur, nxt, left, out, reported, origin>>
      /\ nxt \in DOMAIN Chain /\ batch \in Batches /\ Len(batch.txs) < Limit
      /\ Len(batch.txs) \in Nat
  BY TakeTxFrame
<1>2. CacheSound' /\ ~ Carrier(<<nxt, pos>>) /\ pos' = pos + 1
  BY TakeTxCases DEF LetsGo
<1>3. batch' \in Batches /\ batch'.txs = batch.txs /\ batch'.items = batch.items
  BY <1>1 DEF LetsGo, Batches
<1>4. Types'
  BY <1>1, <1>2, <1>3 DEF Types
<1>5. First' = First
  BY <1>1 DEF First
<1>6. CursorShape'
  BY <1>1, <1>2, <1>3, <1>5, ChainFacts DEF CursorShape
<1>7. BatchShape'
  <2>1. \A k \in DOMAIN batch.txs : batch.txs[k][2] < pos => batch.txs[k][2] < pos + 1
    <3>1. \A k \in DOMAIN batch.txs : batch.txs[k][2] \in Nat
      BY TakeTxFrame, TxFacts
    <3>2. QED
      BY <1>1, <3>1, ChainFacts
  <2>2. QED
    BY <1>1, <1>2, <1>3, <1>5, <2>1, ChainFacts DEF BatchShape
<1>8. CarrierShape'
  <2>1. /\ \A t : Held(t)' = Held(t) /\ Carrier(t)' = Carrier(t)
        /\ \A t, b : BehindFiller(t, b)' = BehindFiller(t, b)
    BY <1>1, <1>3 DEF Held, Carrier, BehindFiller
  <2>2. ASSUME NEW t \in TxIds, Carrier(t),
               t[1] \in First..cur.last \/ (t[1] = nxt /\ t[2] < pos + 1)
        PROVE  Held(t) \/ BehindFiller(t, nxt)
    <3>1. t # <<nxt, pos>>
      BY <1>2, <2>2
    <3>2. t[1] = nxt => t[2] # pos
      BY <3>1, TxFacts
    <3>3. t[1] \in First..cur.last \/ (t[1] = nxt /\ t[2] < pos)
      BY <1>1, <2>2, <3>2, TxFacts, ChainFacts
    <3>4. QED
      BY <1>1, <2>2, <3>3 DEF CarrierShape, CacheSound
  <2>3. QED
    BY <1>1, <1>2, <1>5, <2>1, <2>2 DEF CarrierShape, CacheSound
<1>9. ReportShape' /\ CountedOnce'
  BY <1>1, QuietReport
<1>10. QED
  BY <1>4, <1>6, <1>7, <1>8, <1>9

LEMMA TakesStep ==
    ASSUME IInv, TakeTx, Takes
    PROVE  IInv'
<1> USE DEF IInv
<1> DEFINE x == <<nxt, pos>>
           n == Len(batch.txs)
<1>1. /\ pc = "txs" /\ pc' = "txs" /\ pos \in 1..Len(Chain[nxt])
      /\ UNCHANGED <<tip, coded, disk, cur, nxt, left, out, reported, origin>>
      /\ nxt \in DOMAIN Chain /\ batch \in Batches /\ n < Limit /\ n \in Nat
      /\ x \in TxIds /\ nxt \notin First..cur.last
      /\ \A k \in DOMAIN batch.txs : batch.txs[k] \in TxIds
      /\ Limit \in Nat /\ Len(Chain[nxt]) \in Nat
  BY TakeTxFrame, ChainFacts
<1>2. CacheSound'
  BY TakeTxCases
<1>3. /\ batch' \in Batches /\ batch'.items = batch.items
      /\ batch'.txs = Append(batch.txs, x)
  <2>1. PICK m : m \in Int /\ batch' = [batch EXCEPT !.txs = Append(batch.txs, x), !.budget = m]
    BY DEF Takes
  <2>2. batch.txs \in Seq(TxIds)
    BY <1>1 DEF Batches
  <2>3. Append(batch.txs, x) \in Seq(TxIds)
    BY <1>1, <2>2
  <2>4. QED
    BY <1>1, <2>1, <2>3 DEF Batches
<1>4. /\ Len(batch'.txs) = n + 1 /\ DOMAIN batch'.txs = 1..(n + 1) /\ DOMAIN batch.txs = 1..n
      /\ batch'.txs[n + 1] = x
      /\ \A k \in 1..n : batch'.txs[k] = batch.txs[k]
  <2>1. batch.txs \in Seq(TxIds)
    BY <1>1 DEF Batches
  <2>2. QED
    BY <1>1, <1>3, <2>1
<1>5. pos' = (IF n + 1 >= Limit THEN Len(Chain[nxt]) + 1 ELSE pos + 1)
  BY <1>4 DEF Takes
<1>6. /\ pos' \in (pos + 1)..(Len(Chain[nxt]) + 1)
      /\ n + 1 = Limit => pos' = Len(Chain[nxt]) + 1
      /\ n + 1 # Limit => pos' = pos + 1
  BY <1>1, <1>5
<1>7. Types'
  BY <1>1, <1>3, <1>6 DEF Types
<1>8. First' = First
  BY <1>1 DEF First
<1>9. CursorShape'
  BY <1>1, <1>3, <1>6, <1>8 DEF CursorShape
<1>10. \A k \in 1..n : \/ batch.txs[k][1] \in First..cur.last
                       \/ batch.txs[k][1] = nxt /\ batch.txs[k][2] < pos
  BY <1>1, <1>4 DEF BatchShape
<1>11. \A k \in 1..n : batch.txs[k] # x
  <2>1. \A k \in 1..n : batch.txs[k] = x => batch.txs[k][1] = nxt /\ batch.txs[k][2] = pos
    OBVIOUS
  <2>2. QED
    BY <1>1, <1>10, <2>1
<1>12. BatchShape'
  <2>1. Len(batch'.txs) <= Limit
    BY <1>1, <1>4
  <2>2. ASSUME NEW j \in 1..(n + 1), NEW k \in 1..(n + 1), batch'.txs[j] = batch'.txs[k]
        PROVE  j = k
    <3>1. CASE j \in 1..n /\ k \in 1..n
      BY <1>4, <2>2, <3>1 DEF BatchShape
    <3>2. CASE j = n + 1 /\ k \in 1..n
      BY <1>4, <1>11, <2>2, <3>2
    <3>3. CASE k = n + 1 /\ j \in 1..n
      BY <1>4, <1>11, <2>2, <3>3
    <3>4. QED
      BY <1>1, <3>1, <3>2, <3>3
  <2>3. ASSUME NEW k \in 1..(n + 1)
        PROVE  \/ batch'.txs[k][1] \in First..cur.last
               \/ batch'.txs[k][1] = nxt /\ batch'.txs[k][2] < pos'
    <3>1. CASE k \in 1..n
      <4>1. batch.txs[k] \in TxIds
        BY <1>1, <1>4, <3>1
      <4>2. batch.txs[k][2] \in Nat
        BY <4>1, TxFacts
      <4>3. batch'.txs[k] = batch.txs[k]
        BY <1>4, <3>1
      <4>4. CASE batch.txs[k][1] \in First..cur.last
        BY <4>3, <4>4
      <4>5. CASE batch.txs[k][1] = nxt /\ batch.txs[k][2] < pos
        <5>1. pos < pos' /\ pos \in Nat /\ pos' \in Nat
          BY <1>1, <1>6
        <5>2. batch.txs[k][2] < pos'
          BY <4>2, <4>5, <5>1
        <5>3. QED
          BY <4>3, <4>5, <5>2
      <4>6. QED
        BY <1>10, <3>1, <4>4, <4>5
    <3>2. CASE k = n + 1
      BY <1>1, <1>4, <1>6, <3>2
    <3>3. QED
      BY <1>1, <3>1, <3>2
  <2>4. Len(batch'.txs) = Limit => pos' = Len(Chain[nxt]) + 1 /\ batch'.txs[Limit][1] = nxt
    BY <1>4, <1>6
  <2>5. QED
    BY <1>1, <1>4, <1>8, <2>1, <2>2, <2>3, <2>4 DEF BatchShape
<1>13. CarrierShape'
  <2>1. \A t : Carrier(t)' = Carrier(t)
    BY <1>1 DEF Carrier
  <2>2. ASSUME NEW t \in TxIds, Carrier(t),
               t[1] \in First..cur.last \/ (t[1] = nxt /\ t[2] < pos')
        PROVE  Held(t)' \/ BehindFiller(t, nxt)'
    <3>1. t[2] \in Nat
      BY TxFacts
    <3>2. CASE t = x
      BY <1>4, <3>2 DEF Held
    <3>3. CASE t[1] \in First..cur.last \/ (t[1] = nxt /\ t[2] < pos)
      <4>1. ~ BehindFiller(t, nxt)
        BY <1>1 DEF BehindFiller
      <4>2. PICK k \in 1..n : batch.txs[k] = t
        BY <1>1, <1>4, <2>2, <3>3, <4>1 DEF CarrierShape, CacheSound, Held
      <4>3. k \in DOMAIN batch'.txs /\ batch'.txs[k] = t
        BY <1>1, <1>4, <4>2
      <4>4. QED
        BY <4>3 DEF Held
    <3>4. CASE t[1] = nxt /\ t[2] > pos
      <4>1. n + 1 = Limit
        BY <1>1, <1>6, <2>2, <3>1, <3>4
      <4>2. batch'.txs[Limit][1] = nxt /\ batch'.txs[Limit][2] = pos
        BY <1>4, <4>1
      <4>3. Len(batch'.txs) = Limit /\ t[2] > batch'.txs[Limit][2]
        BY <1>4, <3>4, <4>1, <4>2
      <4>4. QED
        BY <1>1, <3>4, <4>2, <4>3 DEF BehindFiller
    <3>5. t[1] = nxt /\ t[2] = pos => t = x
      BY TxFacts
    <3>6. QED
      BY <1>1, <2>2, <3>1, <3>2, <3>3, <3>4, <3>5
  <2>3. QED
    BY <1>1, <1>2, <1>8, <2>1, <2>2 DEF CarrierShape, CacheSound
<1>14. ReportShape' /\ CountedOnce'
  BY <1>1, QuietReport
<1>15. QED
  BY <1>7, <1>9, <1>12, <1>13, <1>14

-----------------------------------------------------------------------------
(* The cursor is saved, then the batch is scanned. *)

(* What the cursor of the file is past before the batch is saved, and what *)
(* the batch adds, make up what it is past afterwards.                     *)
LEMMA SavedIs ==
    ASSUME IInv, pc = "save"
    PROVE  /\ InBlocks(origin..cur.last) = InBlocks((origin..disk.last) \cup (First..cur.last))
           /\ cur.last # 0 => (origin..disk.last) \cap (First..cur.last) = {}
           /\ InBlocks(First..cur.last) \cap Behind(disk.last) = {}
           /\ cur.last = 0 => disk.last = 0
<1>1. disk.last \in Nat /\ cur.last \in Nat /\ origin \in Nat
  BY DEF IInv, Types, Cursors
<1>2. /\ disk.last <= cur.last
      /\ cur.last # 0 => origin \in 1..cur.last
      /\ disk.last # 0 => origin \in 1..disk.last
  BY DEF IInv, CursorShape
<1>3. CASE cur.last = 0
  <2>1. disk.last = 0 /\ First = origin
    BY <1>1, <1>2, <1>3 DEF First
  <2>2. InBlocks(origin..0) = {}
    BY <1>1, NothingYet
  <2>3. (origin..disk.last) \cup (First..cur.last) = origin..0
    BY <1>3, <2>1
  <2>4. QED
    BY <1>3, <2>1, <2>2, <2>3
<1>4. CASE disk.last = 0 /\ cur.last # 0
  <2>1. First = origin /\ origin..disk.last = {}
    BY <1>1, <1>2, <1>4 DEF First
  <2>2. QED
    BY <1>4, <2>1, BehindIs DEF InBlocks
<1>5. CASE disk.last # 0
  <2>1. First = disk.last + 1 /\ cur.last # 0
    BY <1>1, <1>2, <1>5 DEF First
  <2>2. origin..cur.last = (origin..disk.last) \cup (First..cur.last)
    BY <1>1, <1>2, <1>5, <2>1
  <2>3. (origin..disk.last) \cap (First..cur.last) = {}
    BY <1>1, <2>1
  <2>4. QED
    BY <2>1, <2>2, <2>3, BehindIs DEF InBlocks
<1>6. QED
  BY <1>3, <1>4, <1>5

LEMMA SaveStep ==
    ASSUME IInv, SaveCursor
    PROVE  IInv'
<1> USE DEF IInv
<1>1. /\ pc = "save" /\ pc' = "scan" /\ disk' = cur
      /\ UNCHANGED <<tip, coded, cur, batch, nxt, pos, cache, limited, left, out, reported, origin>>
  BY DEF SaveCursor, Save, process
<1>2. /\ disk \in Cursors /\ cur \in Cursors /\ batch.items \in Nat
      /\ batch.items = Cardinality(InBlocks(First..cur.last))
      /\ cur.items = disk.items + batch.items
      /\ disk.last <= cur.last /\ (cur.last # 0 => origin \in 1..cur.last)
  BY <1>1 DEF Types, Batches, CursorShape
<1>3. Types'
  BY <1>1 DEF Types, Places
<1>4. CursorShape'
  BY <1>1, <1>2 DEF CursorShape
<1>5. BatchShape'
  BY <1>1 DEF BatchShape
<1>6. CarrierShape'
  BY <1>1 DEF CarrierShape, CacheSound
<1>7. CountedOnce'
  <2>1. Behind(disk.last)' = InBlocks(origin..cur.last)
    BY <1>1, BehindIs DEF Behind, InBlocks
  <2>2. disk.items = IF disk.last = 0 THEN 0 ELSE Cardinality(InBlocks(origin..disk.last))
    BY BehindIs DEF CountedOnce
  <2>3. CASE cur.last = 0
    <3>1. disk.last = 0 /\ First \in Nat
      BY <1>1, <2>3, SavedIs, FirstIs
    <3>2. batch.items = 0
      BY <1>2, <2>3, <3>1, NothingYet
    <3>3. cur.items = 0
      BY <1>2, <2>2, <3>1, <3>2
    <3>4. QED
      BY <1>1, <2>3, <3>3 DEF CountedOnce
  <2>4. CASE cur.last # 0
    <3>1. Cardinality(InBlocks(origin..cur.last))
            = Cardinality(InBlocks(origin..disk.last)) + batch.items
      BY <1>1, <1>2, <2>4, SavedIs, MoreBlocks
    <3>2. disk.items = Cardinality(InBlocks(origin..disk.last))
      <4>1. CASE disk.last = 0
        <5>1. Cardinality(InBlocks(origin..0)) = 0
          BY NothingYet DEF Types
        <5>2. QED
          BY <2>2, <4>1, <5>1
      <4>2. CASE disk.last # 0
        BY <2>2, <4>2
      <4>3. QED
        BY <4>1, <4>2
    <3>3. disk'.items = Cardinality(Behind(disk.last)')
      BY <1>1, <1>2, <2>1, <3>1, <3>2
    <3>4. QED
      BY <1>1, <2>4, <3>3 DEF CountedOnce
  <2>5. QED
    BY <2>3, <2>4
<1>8. ReportShape'
  <2>1. Behind(disk.last)' = InBlocks(origin..cur.last)
    BY <1>1, BehindIs DEF Behind, InBlocks
  <2>2. Behind(disk.last) \subseteq InBlocks(origin..cur.last)
    BY <1>1, SavedIs, BehindIs DEF InBlocks
  <2>3. \A t : Told(t)' = Told(t)
    BY <1>1 DEF Told
  <2>4. \A t \in TxIds : Told(t) <= 1 /\ (Told(t) > 0 => t \in InBlocks(origin..cur.last))
    BY <2>2 DEF ReportShape
  <2>5. ASSUME NEW k \in DOMAIN batch.txs
        PROVE  Told(batch.txs[k]) = 0 /\ batch.txs[k] \in InBlocks(origin..cur.last)
    <3>1. batch.txs[k] \in TxIds
      BY DEF Types, Batches
    <3>2. batch.txs[k] \in InBlocks(First..cur.last)
      BY <1>1, <3>1 DEF BatchShape, InBlocks
    <3>3. batch.txs[k] \notin Behind(disk.last) /\ batch.txs[k] \in InBlocks(origin..cur.last)
      BY <1>1, <3>2, SavedIs DEF InBlocks
    <3>4. Told(batch.txs[k]) \in Nat
      BY <3>1 DEF Told, Types, Tallies
    <3>5. ~ (Told(batch.txs[k]) > 0)
      BY <3>1, <3>3 DEF ReportShape
    <3>6. QED
      BY <3>3, <3>4, <3>5
  <2>6. reported.items + out.items + batch.items <= cur.items
    <3>1. reported.items \in Nat /\ out.items \in Nat /\ disk.items \in Nat
      BY DEF Types, Tallies, Cursors
    <3>2. reported.items + out.items <= disk.items
      BY <1>1, <3>1 DEF ReportShape
    <3>3. QED
      BY <1>2, <3>1, <3>2
  <2>7. QED
    BY <1>1, <2>1, <2>3, <2>4, <2>5, <2>6 DEF ReportShape
<1>9. QED
  BY <1>3, <1>4, <1>5, <1>6, <1>7, <1>8

(* A batch holds a transaction at most once. *)
Times(t) == Cardinality({k \in DOMAIN batch.txs : batch.txs[k] = t})

LEMMA TimesFacts ==
    ASSUME Types, BatchShape, NEW t
    PROVE  /\ Times(t) \in {0, 1}
           /\ Times(t) # 0 => \E k \in DOMAIN batch.txs : batch.txs[k] = t
<1> DEFINE S == {k \in DOMAIN batch.txs : batch.txs[k] = t}
<1>1. CASE S = {}
  <2>1. Cardinality(S) = 0
    BY <1>1, FS_EmptySet
  <2>2. QED
    BY <2>1 DEF Times
<1>2. CASE S # {}
  <2>1. PICK k \in S : TRUE
    BY <1>2
  <2>2. S = {k}
    BY <2>1 DEF BatchShape
  <2>3. Cardinality(S) = 1
    BY <2>2, FS_Singleton
  <2>4. QED
    BY <2>1, <2>3 DEF Times
<1>3. QED
  BY <1>1, <1>2

LEMMA ScanStep ==
    ASSUME IInv, ScanBatch
    PROVE  IInv'
<1> USE DEF IInv
<1>1. /\ pc = "scan" /\ pc' \in {"report", "tip"} /\ batch' = FreshBatch
      /\ out' = [items |-> out.items + batch.items,
                 times |-> [t \in TxIds |-> out.times[t] + Times(t)]]
      /\ UNCHANGED <<tip, coded, disk, cur, nxt, pos, cache, limited, reported, origin>>
  BY DEF ScanBatch, Times
<1>2. /\ out.items \in Nat /\ batch.items \in Nat /\ reported.items \in Nat
      /\ \A t \in TxIds : out.times[t] \in Nat /\ reported.times[t] \in Nat
  BY DEF Types, Tallies, Batches
<1>3. \A t \in TxIds : Times(t) \in {0, 1}
  BY TimesFacts
<1>4. /\ out'.items = out.items + batch.items
      /\ \A t \in TxIds : out'.times[t] = out.times[t] + Times(t)
  BY <1>1
<1>5. out' \in Tallies
  <2>1. \A t \in TxIds : out.times[t] + Times(t) \in Nat
    BY <1>2, <1>3
  <2>2. [t \in TxIds |-> out.times[t] + Times(t)] \in [TxIds -> Nat]
    BY <2>1
  <2>3. out.items + batch.items \in Nat
    BY <1>2
  <2>4. QED
    BY <1>1, <2>2, <2>3 DEF Tallies
<1>6. Types'
  BY <1>1, <1>5, FreshFacts DEF Types, Places
<1>7. CursorShape'
  BY <1>1 DEF CursorShape
<1>8. BatchShape'
  BY <1>1, FreshFacts, ChainFacts DEF BatchShape
<1>9. CarrierShape'
  BY <1>1 DEF CarrierShape, CacheSound
<1>10. Behind(disk.last)' = Behind(disk.last)
  BY <1>1 DEF Behind
<1>11. ReportShape'
  <2>1. ASSUME NEW t \in TxIds
        PROVE  Told(t)' <= 1 /\ (Told(t)' > 0 => t \in Behind(disk.last))
    <3>1. Told(t)' = reported.times[t] + (out.times[t] + Times(t))
      BY <1>1, <1>4 DEF Told
    <3>2. Told(t)' = Told(t) + Times(t) /\ Told(t) \in Nat
      BY <1>2, <1>3, <3>1 DEF Told
    <3>3. CASE Times(t) = 0
      BY <3>2, <3>3 DEF ReportShape
    <3>4. CASE Times(t) # 0
      <4>1. PICK k \in DOMAIN batch.txs : batch.txs[k] = t
        BY <3>4, TimesFacts
      <4>2. Told(t) = 0 /\ t \in Behind(disk.last)
        BY <1>1, <4>1 DEF ReportShape
      <4>3. QED
        BY <1>3, <3>2, <4>2
    <3>5. QED
      BY <3>3, <3>4
  <2>2. reported.items + out'.items <= disk.items
    <3>1. reported.items + out.items + batch.items <= disk.items
      BY <1>1 DEF ReportShape
    <3>2. QED
      BY <1>2, <1>4, <3>1
  <2>3. reported.items + out'.items \in Nat
    BY <1>2, <1>4
  <2>4. QED
    BY <1>1, <1>10, <2>1, <2>2, <2>3 DEF ReportShape
<1>12. CountedOnce'
  BY <1>1, <1>10 DEF CountedOnce
<1>13. QED
  BY <1>6, <1>7, <1>8, <1>9, <1>11, <1>12

-----------------------------------------------------------------------------
(* Theorems. *)

LEMMA StepInv ==
    ASSUME IInv, [Next]_vars
    PROVE  IInv'
<1>1. CASE CallFails \/ BatchFull \/ CaughtUp
  <2>1. \E why \in {"target-reached", "source-exhausted", "error"} : CloseBatch(why)
    BY <1>1 DEF CallFails, BatchFull, CaughtUp
  <2>2. /\ pc \in {"tip", "read"}
        /\ UNCHANGED <<tip, coded, disk, nxt, pos, cache, out, reported, origin>>
    BY <1>1 DEF CallFails, BatchFull, CaughtUp
  <2>3. QED
    BY <2>1, <2>2, CloseStep
<1>2. CASE TakeTx
  BY <1>2, TakeTxCases, LetsGoStep, TakesStep
<1>3. CASE Start \/ TipAnswered \/ BlockAnswered \/ EndBlock \/ SaveCursor \/ ScanBatch
  BY <1>3, StartStep, TipStep, BlockStep, EndBlockStep, SaveStep, ScanStep
<1>4. CASE Report \/ Crash
  BY <1>4, IdleStep
<1>5. CASE Grow \/ \E d \in Dests : Deploy(d)
  BY <1>5, ChainStep
<1>6. CASE UNCHANGED vars
  <2>1. UNCHANGED <<tip, coded, disk, pc, cur, batch, nxt, pos, cache, limited, left, out,
                    reported, origin>>
    BY <1>6 DEF vars
  <2>2. Types' /\ CursorShape' /\ BatchShape'
    BY <2>1 DEF IInv, Types, CursorShape, BatchShape, First
  <2>3. CarrierShape'
    <3>1. /\ First' = First /\ \A t : Held(t)' = Held(t) /\ Carrier(t)' = Carrier(t)
          /\ \A t, b : BehindFiller(t, b)' = BehindFiller(t, b)
      BY <2>1 DEF First, Held, Carrier, BehindFiller
    <3>2. QED
      BY <2>1, <3>1 DEF IInv, CarrierShape, CacheSound
  <2>4. ReportShape' /\ CountedOnce'
    BY <2>1 DEF IInv, ReportShape, CountedOnce, Told, Behind
  <2>5. QED
    BY <2>2, <2>3, <2>4 DEF IInv
<1>7. QED
  BY <1>1, <1>2, <1>3, <1>4, <1>5, <1>6 DEF Next, Progress

LEMMA Invariance == Spec => []IInv
<1>1. IInv /\ [Next]_vars => IInv'
  BY StepInv
<1>2. QED
  BY <1>1, InitInv, PTL DEF Spec

(* The published denominator: items_seen is the number of transactions in  *)
(* the blocks from the first one read to last_block, each counted once,    *)
(* for any chain, batch size and budget, over calls that fail, runs that   *)
(* are killed anywhere and runs that resume (base.py 115).                 *)
THEOREM CountedOnceKept == Spec => []CountedOnce
<1>1. IInv => CountedOnce
  BY DEF IInv
<1>2. QED
  BY <1>1, Invariance, PTL

(* No transaction is reported twice, by one run or by two (base.py 248-253).*)
THEOREM ReportedOnceKept == Spec => []ReportedOnce
<1>1. IInv => ReportedOnce
  BY DEF IInv, ReportShape, ReportedOnce, Told
<1>2. QED
  BY <1>1, Invariance, PTL

(* The runs report no more than the cursor has counted, and nothing from a *)
(* block the cursor is not past (base.py 248-253).                         *)
ReportWithinCursor ==
    /\ reported.items + out.items <= disk.items
    /\ \A t \in TxIds : reported.times[t] + out.times[t] > 0 => t \in Behind(disk.last)

(* What the runs report is behind the cursor of the file, items and         *)
(* carriers alike, after any number of crashes and resumed runs.           *)
THEOREM ReportWithinCursorKept == Spec => []ReportWithinCursor
<1>1. IInv => ReportWithinCursor
  <2> SUFFICES ASSUME IInv PROVE ReportWithinCursor
    OBVIOUS
  <2>1. /\ reported.items \in Nat /\ out.items \in Nat /\ batch.items \in Nat
        /\ disk.items \in Nat
    BY DEF IInv, Types, Tallies, Batches, Cursors
  <2>2. reported.items + out.items <= disk.items
    BY <2>1 DEF IInv, ReportShape
  <2>3. QED
    BY <2>2 DEF IInv, ReportShape, ReportWithinCursor, Told
<1>2. QED
  BY <1>1, Invariance, PTL

(* A batch passes over a carrier only if it is full, and then only behind  *)
(* the carrier that filled it, in its last block (evm.py 236, 271-272).    *)
THEOREM OnlyFullBatchPassesOverKept == Spec => []OnlyFullBatchPassesOver
<1>1. IInv => OnlyFullBatchPassesOver
  <2> SUFFICES ASSUME IInv, pc = "save", NEW t \in PassedOver
               PROVE  /\ Len(batch.txs) = Limit
                      /\ t[1] = cur.last /\ t[1] = batch.txs[Limit][1]
                      /\ t[2] > batch.txs[Limit][2]
    BY DEF OnlyFullBatchPassesOver
  <2>1. t \in InBlocks(First..cur.last) /\ Carrier(t) /\ ~ Held(t)
    BY DEF PassedOver, InBlocks, First, Held
  <2>2. BehindFiller(t, cur.last)
    BY <2>1 DEF IInv, CarrierShape, CacheSound
  <2>3. QED
    BY <2>2 DEF BehindFiller
<1>2. QED
  BY <1>1, Invariance, PTL
-----------------------------------------------------------------------------
(* The log. *)

(* SampleLog counts as this module does. *)
LEMMA SameCardinality == \A S : Log!Cardinality(S) = Cardinality(S)
BY DEF Log!Cardinality, Cardinality, Log!IsFiniteSet, IsFiniteSet

LEMMA RangeIs == \A a, b : Log!InRangeOf(a, b) = InBlocks(a..b)
BY DEF Log!InRangeOf, InBlocks

InOut == {t \in TxIds : out.times[t] > 0}
InBatch == {t \in TxIds : Held(t)}

(* What is due: what the run has scanned, and a batch that was saved. *)
DueShape ==
    Types => /\ pc # "scan" => logDue = [items |-> out.items, carriers |-> InOut]
             /\ pc = "scan" => logDue = [items |-> out.items + batch.items,
                                         carriers |-> InOut \cup InBatch]

LEMMA DueIs == DueShape
<1> SUFFICES ASSUME Types
             PROVE  /\ pc # "scan" => logDue = [items |-> out.items, carriers |-> InOut]
                    /\ pc = "scan" => logDue = [items |-> out.items + batch.items,
                                                carriers |-> InOut \cup InBatch]
  BY DEF DueShape
<1>1. out.items + 0 = out.items
  BY DEF Types, Tallies
<1>2. CASE pc # "scan"
  <2>1. Scanned.items = 0 /\ DOMAIN Scanned.txs = {}
    BY <1>2, FreshFacts DEF Scanned
  <2>2. QED
    BY <1>1, <1>2, <2>1 DEF logDue, InOut
<1>3. CASE pc = "scan"
  <2>1. Scanned = batch
    BY <1>3 DEF Scanned
  <2>2. QED
    BY <1>3, <2>1 DEF logDue, InOut, InBatch, Held
<1>4. QED
  BY <1>2, <1>3

LEMMA DueAfter == DueShape'
BY DueIs, PTL

LEMMA NothingInOut ==
    ASSUME out = Nothing
    PROVE  [items |-> out.items, carriers |-> InOut] = Log!NothingDue
<1>1. InOut = {} /\ out.items = 0
  BY FreshFacts DEF InOut
<1>2. QED
  BY <1>1 DEF Log!NothingDue

LEMMA NothingDueAfter ==
    ASSUME Types', pc' # "scan", out' = Nothing
    PROVE  logDue' = Log!NothingDue
<1>1. InOut' = {} /\ out'.items = 0
  BY FreshFacts DEF InOut
<1>2. QED
  BY <1>1, DueAfter DEF DueShape, Log!NothingDue

(* A saved batch is a range of blocks, or none. *)
LEMMA SaveLog ==
    ASSUME IInv, IInv', SaveCursor
    PROVE  [Log!LogNext]_(Log!logVars)
<1> USE DEF IInv
<1>1. /\ pc = "save" /\ pc' = "scan" /\ disk' = cur
      /\ UNCHANGED <<cur, batch, out, reported, origin>>
  BY DEF SaveCursor, Save, process
<1>2. /\ disk.last \in Nat /\ cur.last \in Nat /\ origin \in Nat /\ out.items \in Nat
      /\ cur.items = disk.items + batch.items /\ disk.last <= cur.last
      /\ cur.last # 0 => origin \in 1..cur.last
      /\ batch.items = Cardinality(InBlocks(First..cur.last))
  BY <1>1 DEF Types, Cursors, Tallies, CursorShape
<1>3. /\ logDue = [items |-> out.items, carriers |-> InOut]
      /\ logDue' = [items |-> out.items + batch.items, carriers |-> InOut \cup InBatch]
  <2>1. InOut' = InOut /\ InBatch' = InBatch
    BY <1>1 DEF InOut, InBatch, Held
  <2>2. logDue' = [items |-> out'.items + batch'.items, carriers |-> InOut' \cup InBatch']
    BY <1>1, DueAfter DEF DueShape
  <2>3. QED
    BY <1>1, <2>1, <2>2, DueIs DEF DueShape
<1>4. InBatch \subseteq InBlocks(First..cur.last)
  BY <1>1 DEF InBatch, Held, BatchShape, InBlocks
<1>5. CASE cur.last > disk.last
  <2>1. First \in (IF disk.last = 0 THEN 1..cur.last ELSE {disk.last + 1})
    BY <1>2, <1>5 DEF First
  <2> DEFINE range == Log!InRangeOf(First, cur.last)
  <2>2. range = InBlocks(First..cur.last) /\ Log!Cardinality(range) = batch.items
    BY <1>2, RangeIs, SameCardinality
  <2>3. InBatch \in SUBSET range
    BY <1>4, <2>2
  <2>4. /\ cur.items = disk.items + Log!Cardinality(range)
        /\ logDue' = [items |-> logDue.items + Log!Cardinality(range),
                      carriers |-> logDue.carriers \cup InBatch]
    BY <1>2, <1>3, <2>2
  <2> HIDE DEF range
  <2>5. \E from \in (IF disk.last = 0 THEN 1..cur.last ELSE {disk.last + 1}) :
           /\ cur.items = disk.items + Log!Cardinality(Log!InRangeOf(from, cur.last))
           /\ \E carriers \in SUBSET Log!InRangeOf(from, cur.last) :
                 logDue' = [items |-> logDue.items + Log!Cardinality(Log!InRangeOf(from, cur.last)),
                            carriers |-> logDue.carriers \cup carriers]
    BY <2>1, <2>3, <2>4 DEF range
  <2>6. Log!Ingest
    BY <1>1, <1>5, <2>5 DEF Log!Ingest
  <2>7. QED
    BY <2>6 DEF Log!LogNext
<1>6. CASE cur.last = disk.last
  <2>1. InBlocks(First..cur.last) = {} /\ batch.items = 0
    BY <1>2, <1>6, FirstIs, NothingYet
  <2>2. InBatch = {} /\ cur.items = disk.items
    <3>1. disk.items \in Nat
      BY DEF Types, Cursors
    <3>2. QED
      BY <1>2, <1>4, <2>1, <3>1
  <2>3. logDue' = logDue
    BY <1>2, <1>3, <2>1, <2>2
  <2>4. QED
    BY <1>1, <1>6, <2>2, <2>3 DEF Log!logVars
<1>7. QED
  BY <1>2, <1>5, <1>6

(* A scan moves what is due from the batch to the run's totals. *)
LEMMA ScanLog ==
    ASSUME IInv, IInv', ScanBatch
    PROVE  UNCHANGED Log!logVars
<1> USE DEF IInv
<1>1. /\ pc = "scan" /\ pc' # "scan"
      /\ out' = [items |-> out.items + batch.items,
                 times |-> [t \in TxIds |-> out.times[t] + Times(t)]]
      /\ UNCHANGED <<disk, reported>>
  BY DEF ScanBatch, Times
<1>2. \A t \in TxIds : out.times[t] \in Nat /\ Times(t) \in {0, 1} /\ (Times(t) # 0 <=> Held(t))
  <2>1. ASSUME NEW t, Held(t) PROVE Times(t) # 0
    <3>1. PICK k \in DOMAIN batch.txs : batch.txs[k] = t
      BY <2>1 DEF Held
    <3>2. {j \in DOMAIN batch.txs : batch.txs[j] = t} = {k}
      BY <3>1 DEF BatchShape
    <3>3. QED
      BY <3>2, FS_Singleton DEF Times
  <2>2. QED
    BY <2>1, TimesFacts DEF Types, Tallies, Held
<1>3. InOut' = InOut \cup InBatch
  <2>1. \A t \in TxIds : out'.times[t] = out.times[t] + Times(t)
    BY <1>1
  <2>2. \A t \in TxIds : out'.times[t] > 0 <=> out.times[t] > 0 \/ Held(t)
    BY <1>2, <2>1
  <2>3. QED
    BY <2>2 DEF InOut, InBatch
<1>4. logDue' = [items |-> out'.items, carriers |-> InOut']
  BY <1>1, DueAfter DEF DueShape
<1>5. logDue' = logDue
  BY <1>1, <1>3, <1>4, DueIs DEF DueShape
<1>6. QED
  BY <1>1, <1>5 DEF Log!logVars

(* The report tells what is due; a process that dies loses it. *)
LEMMA ReportLog ==
    ASSUME IInv, IInv', Report
    PROVE  Log!Tell
<1> USE DEF IInv
<1>1. /\ pc = "report" /\ pc' = "down" /\ out' = Nothing /\ UNCHANGED disk
      /\ reported' = [items |-> reported.items + out.items,
                      times |-> [t \in TxIds |-> reported.times[t] + out.times[t]]]
  BY DEF Report, Idle
<1>2. logDue = [items |-> out.items, carriers |-> InOut] /\ logDue' = Log!NothingDue
  BY <1>1, DueIs, NothingDueAfter DEF DueShape
<1>3. \A t \in TxIds : out.times[t] = IF t \in logDue.carriers THEN 1 ELSE 0
  <2>1. \A t \in TxIds : out.times[t] \in Nat /\ reported.times[t] \in Nat
    BY DEF Types, Tallies
  <2>2. \A t \in TxIds : out.times[t] <= 1
    BY <2>1 DEF ReportShape, Told
  <2>3. QED
    BY <1>2, <2>1, <2>2 DEF InOut
<1>4. [t \in TxIds |-> reported.times[t] + out.times[t]]
        = [t \in TxIds |-> reported.times[t] + IF t \in logDue.carriers THEN 1 ELSE 0]
  BY <1>3
<1>5. QED
  BY <1>1, <1>2, <1>4 DEF Log!Tell

LEMMA CrashLog ==
    ASSUME IInv, IInv', Crash
    PROVE  Log!Lose
<1>1. pc' = "down" /\ out' = Nothing /\ UNCHANGED <<disk, reported>>
  BY DEF Crash, Idle
<1>2. logDue' = Log!NothingDue
  BY <1>1, NothingDueAfter DEF IInv
<1>3. QED
  BY <1>1, <1>2 DEF Log!Lose

(* No other step shows. *)
LEMMA QuietLog ==
    ASSUME UNCHANGED <<disk, out, reported>>,
           (pc # "scan" /\ pc' # "scan") \/ UNCHANGED <<pc, batch>>
    PROVE  UNCHANGED Log!logVars
<1>1. Scanned' = Scanned
  BY DEF Scanned
<1>2. QED
  BY <1>1 DEF logDue, Log!logVars

LEMMA StepKeepsLog ==
    ASSUME IInv, [Next]_vars
    PROVE  [Log!LogNext]_(Log!logVars)
<1>1. IInv'
  BY StepInv
<1>2. CASE SaveCursor
  BY <1>1, <1>2, SaveLog
<1>3. CASE ScanBatch
  BY <1>1, <1>3, ScanLog
<1>4. CASE Report
  BY <1>1, <1>4, ReportLog DEF Log!LogNext
<1>5. CASE Crash
  BY <1>1, <1>5, CrashLog DEF Log!LogNext
<1>6. CASE Start \/ TipAnswered \/ BatchFull \/ BlockAnswered \/ TakeTx \/ EndBlock
           \/ CaughtUp \/ CallFails
  <2>1. UNCHANGED <<disk, out, reported>> /\ pc # "scan" /\ pc' # "scan"
    BY <1>6 DEF Start, TipAnswered, BatchFull, BlockAnswered, TakeTx, EndBlock, CaughtUp,
                CallFails, CloseBatch
  <2>2. QED
    BY <2>1, QuietLog
<1>7. CASE Grow \/ \E d \in Dests : Deploy(d)
  BY <1>7, QuietLog DEF Grow, Deploy, process
<1>8. CASE UNCHANGED vars
  BY <1>8, QuietLog DEF vars
<1>9. QED
  BY <1>2, <1>3, <1>4, <1>5, <1>6, <1>7, <1>8 DEF Next, Progress

(* The ingestion implements SampleLog: behind its polls, its two cursors,   *)
(* its failing calls and crashes, blocks are counted range after range and *)
(* what a report tells was counted before, and is told once.               *)
THEOREM LogImplemented == Spec => KeepsLog
<1>1. Init => Log!LogInit
  <2> SUFFICES ASSUME Init PROVE Log!LogInit
    OBVIOUS
  <2>1. logDue = Log!NothingDue
    BY InitInv, DueIs, NothingInOut DEF Init, IInv, DueShape
  <2>2. QED
    BY <2>1 DEF Init, Log!LogInit, FreshCursor, Nothing
<1>2. IInv /\ [Next]_vars => [Log!LogNext]_(Log!logVars)
  BY StepKeepsLog
<1>3. QED
  BY <1>1, <1>2, Invariance, PTL DEF Spec, KeepsLog, Log!LogSpec
=============================================================================
