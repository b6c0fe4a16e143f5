------------------------------ MODULE TxNested ------------------------------
(* x402-guard/src/tx.ts: the recursions over types, values and constraints, *)
(* each by its own Step.  A configuration gives them to TxRules.            *)
EXTENDS TxRules

RECURSIVE NestedType(_, _, _), NestedHoldsBytes(_), NestedReads(_, _, _), NestedExact(_)
RECURSIVE NestedOpenBytes(_, _), NestedMatch(_, _, _, _), NestedPermits(_, _)
RECURSIVE NestedMeans(_, _, _), NestedGrants(_, _)

NestedType(T, v, depth) == HasTypeStep(NestedType, T, v, depth)
NestedHoldsBytes(T) == HoldsBytesStep(NestedHoldsBytes, T)
NestedReads(T, c, depth) == ReadsStep(NestedReads, T, c, depth)
NestedExact(c) == ExactStep(NestedExact, c)
NestedOpenBytes(T, c) == LeavesBytesOpenStep(NestedOpenBytes, T, c)
NestedMatch(T, c, v, depth) == MatchStep(NestedMatch, T, c, v, depth)
NestedPermits(args, depth) == RouterPermitsStep(NestedPermits, args, depth)
NestedMeans(T, c, v) == MeansStep(NestedMeans, T, c, v)
NestedGrants(amount, values) == RouterGrantsStep(NestedGrants, amount, values)
=============================================================================
