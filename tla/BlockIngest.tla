---------------------------- MODULE BlockIngest -----------------------------
(***************************************************************************)
(* The watchtower's ingestion of Base blocks: BaseCalldataSource.poll      *)
(* (watchtower/ingest/evm.py), Source.stream and CursorStore               *)
(* (watchtower/ingest/base.py) and the driver that scans each batch and    *)
(* reports at the end of a run (watchtower/run_ingest.py).                 *)
(*                                                                         *)
(* One driver process, run again and again by an operator who keeps the    *)
(* cursor file.  The process may die anywhere and loses what it has in     *)
(* memory.  Meanwhile the chain grows, contracts are deployed, and the     *)
(* endpoint may push back or fail on any call.                             *)
(***************************************************************************)
EXTENDS Integers, Sequences, FiniteSets

CONSTANTS
    Chain,        \* the blocks, oldest first: each a sequence of transactions
    FirstTip,     \* the chain's height when the first run starts
    Dests,        \* destination addresses
    NoDest,       \* a contract creation has no destination
    StartBlocks,  \* what --start-block may be; Unset when it is not given
    Lookback,     \* how far behind the tip a source with no start begins
    Limit,        \* --limit: carriers a batch may hold
    MaxBlocks,    \* max_blocks_per_batch
    CodeBudget,   \* code_check_budget: eth_getCode calls of one batch
    MaxBatches,   \* --batches
    Unset

ASSUME IngestAssumption ==
    /\ Chain \in Seq(Seq([to : Dests \cup {NoDest}, text : BOOLEAN]))
    /\ FirstTip \in DOMAIN Chain
    /\ Lookback \in Nat /\ Lookback < FirstTip
    /\ StartBlocks \subseteq DOMAIN Chain \cup {Unset}
    /\ {Limit, MaxBlocks, MaxBatches} \subseteq Nat \ {0}
    /\ CodeBudget \in Nat
    /\ NoDest \notin Dests

VARIABLES
    tip,       \* the chain's height
    coded,     \* the addresses that hold code
    disk,      \* the cursor file
    pc,        \* where the process is; "down" when there is none
    cur,       \* the cursor in memory
    batch,     \* the Batch under construction, or being scanned
    nxt, pos,  \* the block being read, and the next transaction in it
    cache,     \* _code_cache
    limited,   \* rpc.stats.rate_limited > 0
    left,      \* batches the run may still poll
    out,       \* what the run has scanned, held in memory until its report
    reported,  \* what all finished runs have reported
    origin     \* the block at which the cursor's history starts

vars == <<tip, coded, disk, pc, cur, batch, nxt, pos, cache, limited, left,
          out, reported, origin>>
process == <<cur, batch, nxt, pos, cache, limited, left, out>>

Places == {"down", "tip", "read", "txs", "save", "scan", "report"}
Stops == {"target-reached", "source-exhausted", "rate-limited", "error"}

TxIds == UNION {{<<b, i>> : i \in DOMAIN Chain[b]} : b \in DOMAIN Chain}
Transaction(t) == Chain[t[1]][t[2]]

(* last_block is None until a block is done, and the code tests it for     *)
(* truth: 0 stands for None.                                               *)
FreshCursor == [last |-> 0, items |-> 0, carriers |-> 0]

FreshBatch == [tip |-> 0, items |-> 0, txs |-> <<>>, blocks |-> 0,
               budget |-> CodeBudget, stop |-> "target-reached"]

Nothing == [items |-> 0, times |-> [t \in TxIds |-> 0]]

Idle ==
    /\ cur' = FreshCursor /\ batch' = FreshBatch /\ nxt' = 0 /\ pos' = 0
    /\ cache' = [d \in {} |-> Unset] /\ limited' = FALSE /\ left' = 0
    /\ out' = Nothing

Init ==
    /\ tip = FirstTip
    /\ coded \in SUBSET Dests
    /\ disk = FreshCursor
    /\ pc = "down"
    /\ cur = FreshCursor /\ batch = FreshBatch /\ nxt = 0 /\ pos = 0
    /\ cache = [d \in {} |-> Unset] /\ limited = FALSE /\ left = 0
    /\ out = Nothing
    /\ reported = Nothing
    /\ origin = 0

-----------------------------------------------------------------------------
(* The chain. *)

Grow ==
    /\ tip < Len(Chain)
    /\ tip' = tip + 1
    /\ UNCHANGED <<coded, disk, pc, process, reported, origin>>

(* A contract is deployed at an address that had no code. *)
Deploy(d) ==
    /\ d \notin coded
    /\ coded' = coded \cup {d}
    /\ UNCHANGED <<tip, disk, pc, process, reported, origin>>

(* A call that answers, perhaps after pushes back that were retried. *)
Answers == limited' \in {limited, TRUE}

-----------------------------------------------------------------------------
(* The process. *)

(* build_source, CursorStore.load, and the first turn of stream's loop. *)
Start ==
    /\ pc = "down"
    /\ pc' = "tip"
    /\ cur' = disk
    /\ left' = MaxBatches
    /\ UNCHANGED <<tip, coded, disk, batch, nxt, pos, cache, limited, out, reported, origin>>

(* Mutant: the tip itself is taken for the future. *)
AtTip == nxt >= batch.tip

PastTip == nxt > batch.tip

(* The while loop's condition. *)
Room == Len(batch.txs) < Limit /\ batch.blocks < MaxBlocks

(* Mutant: a batch that ended badly is not counted. *)
CountIfWell(why) ==
    cur' = IF why = "error" THEN cur
           ELSE [cur EXCEPT !.items = @ + batch.items, !.carriers = @ + Len(batch.txs)]

Count(why) ==
    cur' = [cur EXCEPT !.items = @ + batch.items, !.carriers = @ + Len(batch.txs)]

(* The counters move to the cursor and poll returns. *)
CloseBatch(why) ==
    /\ pc' = "save"
    /\ Count(why)
    /\ batch' = [batch EXCEPT !.stop =
                    IF why = "error" /\ limited' THEN "rate-limited" ELSE why]

(* A call that fails for good ends the poll with what it has.  Whether the *)
(* endpoint pushed back is read off a counter of the whole process.        *)
CallFails ==
    /\ pc = "tip" \/ (pc = "read" /\ Room /\ ~ PastTip)
    /\ Answers
    /\ CloseBatch("error")
    /\ UNCHANGED <<tip, coded, disk, nxt, pos, cache, left, out, reported, origin>>

(* Mutant: resume at the last block ingested. *)
ResumeAtLast(start) ==
    IF cur.last # 0 THEN cur.last ELSE IF start # Unset THEN start ELSE tip - Lookback

(* The block after the cursor's, or where the operator says, or near the tip. *)
ResumeAt(start) ==
    IF cur.last # 0 THEN cur.last + 1 ELSE IF start # Unset THEN start ELSE tip - Lookback

(* block_number answers. *)
TipAnswered ==
    /\ pc = "tip"
    /\ pc' = "read"
    /\ Answers
    /\ \E start \in StartBlocks :
          /\ nxt' = ResumeAt(start)
          /\ origin' = IF cur.last = 0 THEN nxt' ELSE origin
    /\ batch' = [batch EXCEPT !.tip = tip]
    /\ UNCHANGED <<tip, coded, disk, cur, pos, cache, left, out, reported>>

(* The while loop's condition fails: the batch has what was asked for. *)
BatchFull ==
    /\ pc = "read"
    /\ ~ Room
    /\ UNCHANGED limited
    /\ CloseBatch("target-reached")
    /\ UNCHANGED <<tip, coded, disk, nxt, pos, cache, left, out, reported, origin>>

(* Past the tip, or the node has no such block yet. *)
CaughtUp ==
    /\ pc = "read"
    /\ Room
    /\ IF PastTip THEN UNCHANGED limited ELSE Answers
    /\ CloseBatch("source-exhausted")
    /\ UNCHANGED <<tip, coded, disk, nxt, pos, cache, left, out, reported, origin>>

(* block_by_number answers with the block. *)
BlockAnswered ==
    /\ pc = "read"
    /\ Room
    /\ ~ PastTip
    /\ Answers
    /\ pc' = "txs"
    /\ pos' = 1
    /\ batch' = [batch EXCEPT !.blocks = @ + 1, !.items = @ + Len(Chain[nxt])]
    /\ UNCHANGED <<tip, coded, disk, cur, nxt, cache, left, out, reported, origin>>

(* _classify_destination decides without a call. *)
KnownMark(d) ==
    IF d = NoDest THEN "contract"
    ELSE IF d \in DOMAIN cache THEN cache[d]
    ELSE IF batch.budget = 0 THEN "unknown"
    ELSE "ask"

(* A carrier joins the batch; one that fills it ends the loop over the block. *)
Keep(mark) ==
    /\ batch' = [batch EXCEPT !.txs = Append(@, <<nxt, pos>>),
                              !.budget = IF KnownMark(Chain[nxt][pos].to) = "ask" THEN @ - 1 ELSE @]
    /\ pos' = IF Len(batch'.txs) >= Limit THEN Len(Chain[nxt]) + 1 ELSE pos + 1

(* Mutant: `break` for `continue`. *)
SkipRest ==
    /\ UNCHANGED batch
    /\ pos' = Len(Chain[nxt]) + 1

(* A transaction that is no carrier; asking for its code costs budget. *)
Skip ==
    /\ batch' = [batch EXCEPT !.budget =
                    IF Chain[nxt][pos].text /\ KnownMark(Chain[nxt][pos].to) = "ask" THEN @ - 1 ELSE @]
    /\ pos' = pos + 1

(* One turn of the loop over a block: the text filter, then the            *)
(* destination's code, from the cache or by eth_getCode at the tip.        *)
TakeTx ==
    /\ pc = "txs"
    /\ pos <= Len(Chain[nxt])
    /\ LET t == Chain[nxt][pos]
           mark == IF t.to \in coded THEN "contract" ELSE "eoa" IN
       \/ /\ ~ t.text
          /\ Skip /\ UNCHANGED <<cache, limited>>
       \/ /\ t.text /\ KnownMark(t.to) # "ask"
          /\ IF KnownMark(t.to) = "contract" THEN Skip ELSE Keep(KnownMark(t.to))
          /\ UNCHANGED <<cache, limited>>
       \/ /\ t.text /\ KnownMark(t.to) = "ask"
          /\ IF mark = "contract" THEN Skip ELSE Keep(mark)
          /\ cache' = [d \in DOMAIN cache \cup {t.to} |-> IF d = t.to THEN mark ELSE cache[d]]
          /\ Answers
       \/ /\ t.text /\ KnownMark(t.to) = "ask"
          /\ Keep("unknown") /\ Answers /\ UNCHANGED cache
    /\ UNCHANGED <<tip, coded, disk, pc, cur, nxt, left, out, reported, origin>>

(* The loop over the block is over: the cursor moves past the block. *)
EndBlock ==
    /\ pc = "txs"
    /\ pos > Len(Chain[nxt])
    /\ cur' = [cur EXCEPT !.last = nxt]
    /\ nxt' = nxt + 1
    /\ pc' = "read"
    /\ UNCHANGED <<tip, coded, disk, batch, pos, cache, limited, left, out, reported, origin>>

(* Mutant: only a batch that ended well is persisted. *)
SaveIfWell ==
    disk' = IF batch.stop \in {"rate-limited", "error"} THEN disk ELSE cur

(* CursorStore.save: os.replace, so the file changes at once or not at all. *)
Save == disk' = cur

(* stream persists the cursor before the batch is yielded. *)
SaveCursor ==
    /\ pc = "save"
    /\ Save
    /\ pc' = "scan"
    /\ UNCHANGED <<tip, coded, process, reported, origin>>

(* scan_batch and the driver's totals; then stream goes on or ends. *)
ScanBatch ==
    /\ pc = "scan"
    /\ out' = [items |-> out.items + batch.items,
               times |-> [t \in TxIds |-> out.times[t] +
                             Cardinality({k \in DOMAIN batch.txs : batch.txs[k] = t})]]
    /\ left' = left - 1
    /\ pc' = IF batch.stop # "target-reached" \/ left = 1 THEN "report" ELSE "tip"
    /\ batch' = FreshBatch
    /\ UNCHANGED <<tip, coded, disk, cur, nxt, pos, cache, limited, reported, origin>>

(* The run's report, printed once at its end. *)
Report ==
    /\ pc = "report"
    /\ reported' = [items |-> reported.items + out.items,
                    times |-> [t \in TxIds |-> reported.times[t] + out.times[t]]]
    /\ pc' = "down"
    /\ Idle
    /\ UNCHANGED <<tip, coded, disk, origin>>

(* The process dies: a kill, or an exception nothing catches. *)
Crash ==
    /\ pc # "down"
    /\ pc' = "down"
    /\ Idle
    /\ UNCHANGED <<tip, coded, disk, reported, origin>>

Progress ==
    \/ Start \/ TipAnswered \/ BatchFull \/ BlockAnswered \/ TakeTx \/ EndBlock
    \/ SaveCursor \/ ScanBatch \/ Report
    \/ CaughtUp /\ PastTip

Next ==
    \/ Progress \/ CaughtUp \/ CallFails \/ Crash \/ Grow
    \/ \E d \in Dests : Deploy(d)

Spec == Init /\ [][Next]_vars

(* The operator runs the driver again, and its process is scheduled. *)
FairSpec == Spec /\ WF_vars(Progress)

-----------------------------------------------------------------------------
(* Properties. *)

(* The transactions of the blocks a cursor is past. *)
Behind(last) == {t \in TxIds : t[1] \in origin..last}

(* items_seen is the denominator of every published rate (base.py 115): it *)
(* is the number of transactions in the blocks from the first one read to  *)
(* last_block, each counted once, over crashes, failed calls and resumed   *)
(* runs alike.                                                             *)
CountedOnce ==
    disk.items = IF disk.last = 0 THEN 0 ELSE Cardinality(Behind(disk.last))

(* No transaction is reported twice, by one run or by two (base.py 248-253 *)
(* on saving before the batch is yielded).                                 *)
ReportedOnce == \A t \in TxIds : reported.times[t] + out.times[t] <= 1

(* Text sent to an address with no code. *)
Carrier(t) ==
    LET x == Transaction(t) IN x.text /\ x.to # NoDest /\ x.to \notin coded

(* The carriers of the blocks this batch moves the cursor past, that the   *)
(* batch does not hold.                                                    *)
PassedOver ==
    {t \in TxIds :
        /\ Carrier(t)
        /\ t[1] \in (IF disk.last = 0 THEN origin ELSE disk.last + 1)..cur.last
        /\ \A k \in DOMAIN batch.txs : batch.txs[k] # t}

(* Whatever calls fail and however far the batch gets, it passes over a    *)
(* carrier only if it is full, and then only in its last block, behind the *)
(* carrier that filled it.                                                 *)
OnlyFullBatchPassesOver ==
    pc = "save" /\ PassedOver # {} =>
        /\ Len(batch.txs) = Limit
        /\ \A t \in PassedOver : t[1] = cur.last /\ t[1] = batch.txs[Limit][1]
                                 /\ t[2] > batch.txs[Limit][2]

(* A crash, a call that fails for good, a node that lacks the block.  A     *)
(* crash instead of a report does not count: it keeps nothing from the tip.*)
Trouble == (Crash /\ pc # "report") \/ CallFails \/ (CaughtUp /\ ~ PastTip)

(* Once trouble stops, running the driver again and again brings the       *)
(* cursor to the tip (evm.py 165: "catching up and then staying caught up  *)
(* is one code path").                                                     *)
CatchesUp == <>[][~ Trouble]_vars => <>[](disk.last = tip)

-----------------------------------------------------------------------------
(* The log of SampleLog, as this ingestion keeps it. *)

Scanned == IF pc = "scan" THEN batch ELSE FreshBatch    \* saved, and not yet in out

logDue == [items |-> out.items + Scanned.items,
           carriers |-> {t \in TxIds : out.times[t] > 0 \/ \E k \in DOMAIN Scanned.txs : Scanned.txs[k] = t}]

Log == INSTANCE SampleLog WITH
    Items <- TxIds, reach <- disk.last, items <- disk.items, due <- logDue, told <- reported

(* Polls, cursors and crashes amount to the log: blocks are counted range  *)
(* after range, with none left out and none twice, and what a report tells *)
(* was counted, with the denominator it was drawn from, and is told once   *)
(* (base.py 248-253 on saving before the batch is yielded).                *)
KeepsLog == Log!LogSpec
=============================================================================
