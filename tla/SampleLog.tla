------------------------------ MODULE SampleLog ------------------------------
(***************************************************************************)
(* What repeated ingestion of a chain promises about the rates published   *)
(* from it, with no polls, cursors in memory or processes: a range of      *)
(* blocks is counted as a whole, the next one where the last one ended;    *)
(* some of its transactions then wait to be told, together with the number *)
(* they were drawn from; and what waits is told at once, or lost and never *)
(* told (watchtower/ingest/base.py, the comments on items_seen and in      *)
(* stream; run_ingest.py, the report).                                     *)
(***************************************************************************)
EXTENDS Naturals, FiniteSets

CONSTANT Items    \* the transactions: <<block, place in it>>

VARIABLES
    reach,    \* the last block counted, 0 before the first
    items,    \* how many transactions were counted
    due,      \* [items, carriers] counted, and not yet told
    told      \* [items, times] told: how often each carrier was

logVars == <<reach, items, due, told>>

InRangeOf(from, to) == {t \in Items : t[1] \in from..to}
NothingDue == [items |-> 0, carriers |-> {}]

LogInit ==
    /\ reach = 0 /\ items = 0
    /\ due = NothingDue
    /\ told = [items |-> 0, times |-> [t \in Items |-> 0]]

(* A range of blocks more: right behind the last one, or where the first   *)
(* one is to begin.                                                        *)
Ingest ==
    /\ reach' > reach
    /\ \E from \in IF reach = 0 THEN 1..reach' ELSE {reach + 1} :
       LET range == InRangeOf(from, reach') IN
          /\ items' = items + Cardinality(range)
          /\ \E carriers \in SUBSET range :
                due' = [items |-> due.items + Cardinality(range),
                        carriers |-> due.carriers \cup carriers]
    /\ UNCHANGED told

Tell ==
    /\ told' = [items |-> told.items + due.items,
                times |-> [t \in Items |-> told.times[t] + IF t \in due.carriers THEN 1 ELSE 0]]
    /\ due' = NothingDue
    /\ UNCHANGED <<reach, items>>

Lose ==
    /\ due' = NothingDue
    /\ UNCHANGED <<reach, items, told>>

LogNext == Ingest \/ Tell \/ Lose

LogSpec == LogInit /\ [][LogNext]_logVars
=============================================================================
