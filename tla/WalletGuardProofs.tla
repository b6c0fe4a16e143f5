-------------------------- MODULE WalletGuardProofs --------------------------
(* What a guarded signer lets the wallet sign: each property of             *)
(* WalletGuard, for every intent, call and edit, and every size of them.    *)
(*                                                                          *)
(* A rule and the value it is about nest to a depth the code bounds         *)
(* (MAX_DEPTH): what matching a rule says of a value is shown from the      *)
(* deepest level up.                                                        *)
EXTENDS WalletGuard, SequenceTheorems, WellFoundedInduction, TLAPS

-----------------------------------------------------------------------------
(* The recursions. *)

(* What TxNested makes of the parameters: each is its own Step, at any      *)
(* depth.                                                                   *)
Nesting ==
    /\ \A T, v : \A d \in Int : HasType(T, v, d) <=> HasTypeStep(HasType, T, v, d)
    /\ \A T, c : \A d \in Int : Reads(T, c, d) <=> ReadsStep(Reads, T, c, d)
    /\ \A T, c, v : \A d \in Int : Match(T, c, v, d) = MatchStep(Match, T, c, v, d)
    /\ \A T, c, v : Means(T, c, v) <=> MeansStep(Means, T, c, v)
    /\ \A c : Exact(c) <=> ExactStep(Exact, c)
    /\ \A plan : \A d \in Int : RouterPermits(plan, d) = RouterPermitsStep(RouterPermits, plan, d)
    /\ \A n, values : RouterGrants(n, values) <=> RouterGrantsStep(RouterGrants, n, values)

IsOf(T, v) == \E d \in Int : HasType(T, v, d)
Readable(T, c) == \E d \in Int : Reads(T, c, d)
Passes(T, c, v, d) == Match(T, c, v, d) \cap {"broken", "unreadable"} = {}

(* Every rule that passes at depth d means what it says. *)
MeantAt(d) ==
    \A T, c, v : IsOf(T, v) /\ Readable(T, c) /\ Passes(T, c, v, d) => Means(T, c, v)

LEMMA TooDeep ==
    ASSUME Nesting, NEW T, NEW c, NEW v, NEW d \in Int, d > MaxDepth
    PROVE  ~ Passes(T, c, v, d)
BY DEF Nesting, MatchStep, Passes

LEMMA OneSort ==
    ASSUME Nesting, NEW T, NEW c, Readable(T, c)
    PROVE  DOMAIN c \in Sorts
BY DEF Nesting, ReadsStep, Readable

(* A rule without parts. *)
LEMMA FlatMeans ==
    ASSUME Nesting, NEW T, NEW c, NEW v, NEW d \in Int, d <= MaxDepth,
           DOMAIN c \in {{"eq"}, {"oneOf"}, {"bound"}, {"any"}, {"signature"}},
           IsOf(T, v), Readable(T, c), Passes(T, c, v, d)
    PROVE  Means(T, c, v)
<1>1. ~ (d > MaxDepth)
  BY DepthAssumption
<1>2. MatchStep(Match, T, c, v, d) \cap {"broken", "unreadable"} = {}
  BY DEF Nesting, Passes
<1>3. MeansStep(Means, T, c, v) => Means(T, c, v)
  BY DEF Nesting
<1>4. CASE DOMAIN c = {"any"}
  BY <1>3, <1>4 DEF MeansStep, Has
<1>5. CASE DOMAIN c = {"eq"}
  BY <1>1, <1>2, <1>3, <1>5 DEF MatchStep, MeansStep, Has
<1>6. CASE DOMAIN c = {"oneOf"}
  BY <1>1, <1>2, <1>3, <1>6 DEF MatchStep, MeansStep, Has
<1>7. CASE DOMAIN c = {"signature"}
  BY <1>1, <1>2, <1>3, <1>7 DEF MatchStep, MeansStep, Has
<1>8. CASE DOMAIN c = {"bound"}
  <2>0. PICK e \in Int : ReadsStep(Reads, T, c, e)
    BY DEF Nesting, Readable
  <2>1. T.t = "word"
    BY <1>8, <2>0 DEF ReadsStep, Has
  <2>2. PICK f \in Int : HasTypeStep(HasType, T, v, f)
    BY DEF Nesting, IsOf
  <2>3. v.w \in T.of
    BY <2>1, <2>2 DEF HasTypeStep, W
  <2>4. InRange(v.w, c.bound)
    BY <1>1, <1>2, <1>8 DEF MatchStep, Has
  <2>5. QED
    BY <1>3, <1>8, <2>3, <2>4 DEF MeansStep, Has
<1>9. QED
  BY <1>4, <1>5, <1>6, <1>7, <1>8

LEMMA TupleMeans ==
    ASSUME Nesting, NEW T, NEW c, NEW v, NEW d \in Int, d <= MaxDepth, DOMAIN c = {"tuple"},
           IsOf(T, v), Readable(T, c), Passes(T, c, v, d), MeantAt(d + 1)
    PROVE  Means(T, c, v)
<1>1. PICK e \in Int : ReadsStep(Reads, T, c, e)
  BY DEF Nesting, Readable
<1>2. /\ T.t = "tuple" /\ DOMAIN c.tuple = DOMAIN T.parts
      /\ \A i \in DOMAIN c.tuple : Readable(T.parts[i], c.tuple[i])
  BY <1>1 DEF ReadsStep, ReadsAll, Readable, Has
<1>3. PICK f \in Int : HasTypeStep(HasType, T, v, f)
  BY DEF Nesting, IsOf
<1>4. DOMAIN v.l = DOMAIN T.parts /\ \A i \in DOMAIN v.l : IsOf(T.parts[i], v.l[i])
  BY <1>2, <1>3 DEF HasTypeStep, IsOf
<1>5. ~ (d > MaxDepth)
  BY DepthAssumption
<1>6. Match(T, c, v, d) = MatchAll(Match, T.parts, c.tuple, v.l, d + 1)
  BY <1>5 DEF Nesting, MatchStep, Has
<1>7. \A i \in DOMAIN c.tuple : Passes(T.parts[i], c.tuple[i], v.l[i], d + 1)
  BY <1>6 DEF MatchAll, Passes
<1>8. \A i \in DOMAIN c.tuple : Means(T.parts[i], c.tuple[i], v.l[i])
  BY <1>2, <1>4, <1>7 DEF MeantAt
<1>9. MeansStep(Means, T, c, v)
  BY <1>2, <1>4, <1>8 DEF MeansStep, Has
<1>10. QED
  BY <1>9 DEF Nesting

LEMMA ItemsMeans ==
    ASSUME Nesting, NEW T, NEW c, NEW v, NEW d \in Int, d <= MaxDepth, DOMAIN c = {"items"},
           IsOf(T, v), Readable(T, c), Passes(T, c, v, d), MeantAt(d + 1)
    PROVE  Means(T, c, v)
<1>1. PICK e \in Int : ReadsStep(Reads, T, c, e)
  BY DEF Nesting, Readable
<1>2. T.t = "list" /\ \A i \in DOMAIN c.items : Readable(T.of, c.items[i])
  BY <1>1 DEF ReadsStep, Readable, Has
<1>3. PICK f \in Int : HasTypeStep(HasType, T, v, f)
  BY DEF Nesting, IsOf
<1>4. \A i \in DOMAIN v.l : IsOf(T.of, v.l[i])
  BY <1>2, <1>3 DEF HasTypeStep, IsOf
<1>5. ~ (d > MaxDepth)
  BY DepthAssumption
<1> DEFINE types == [i \in DOMAIN c.items |-> T.of]
<1>6. /\ DOMAIN v.l = DOMAIN c.items
      /\ Match(T, c, v, d) = MatchAll(Match, types, c.items, v.l, d + 1)
  <2>1. Match(T, c, v, d) = MatchStep(Match, T, c, v, d)
    BY DEF Nesting
  <2>2. Match(T, c, v, d) =
            IF DOMAIN v.l # DOMAIN c.items THEN {"broken"}
            ELSE MatchAll(Match, types, c.items, v.l, d + 1)
    BY <1>5, <2>1 DEF MatchStep, Has
  <2>3. QED
    BY <2>2 DEF Passes
<1>7. \A i \in DOMAIN c.items : Passes(T.of, c.items[i], v.l[i], d + 1)
  BY <1>6 DEF MatchAll, Passes
<1>8. \A i \in DOMAIN c.items : Means(T.of, c.items[i], v.l[i])
  BY <1>2, <1>4, <1>6, <1>7 DEF MeantAt
<1>9. MeansStep(Means, T, c, v)
  BY <1>6, <1>8 DEF MeansStep, Has
<1>10. QED
  BY <1>9 DEF Nesting

LEMMA AbiMeans ==
    ASSUME Nesting, NEW T, NEW c, NEW v, NEW d \in Int, d <= MaxDepth, DOMAIN c = {"abi", "args"},
           Readable(T, c), Passes(T, c, v, d), MeantAt(d + 1)
    PROVE  Means(T, c, v)
<1>1. PICK e \in Int : ReadsStep(Reads, T, c, e)
  BY DEF Nesting, Readable
<1>2. /\ DOMAIN c.args = DOMAIN c.abi
      /\ \A i \in DOMAIN c.args : Readable(c.abi[i], c.args[i])
  BY <1>1 DEF ReadsStep, ReadsAll, Readable, Has
<1>3. ~ (d > MaxDepth)
  BY DepthAssumption
<1>4. /\ DecodeCanonical(c.abi, v) # None
      /\ Match(T, c, v, d) = MatchAll(Match, c.abi, c.args, DecodeCanonical(c.abi, v), d + 1)
  <2>1. Match(T, c, v, d) = MatchStep(Match, T, c, v, d)
    BY DEF Nesting
  <2>2. Match(T, c, v, d) =
            IF DecodeCanonical(c.abi, v) = None THEN {"unreadable"}
            ELSE MatchAll(Match, c.abi, c.args, DecodeCanonical(c.abi, v), d + 1)
    BY <1>3, <2>1 DEF MatchStep, Has
  <2>3. QED
    BY <2>2 DEF Passes
<1>5. /\ Has(v.b, "enc") /\ v.b.clean /\ DecodeCanonical(c.abi, v) = v.b.enc
      /\ DOMAIN v.b.enc = DOMAIN c.abi
      /\ \A i \in DOMAIN c.abi : HasType(c.abi[i], v.b.enc[i], 0) /\ IsOf(c.abi[i], v.b.enc[i])
  BY <1>4 DEF DecodeCanonical, IsOf
<1>6. \A i \in DOMAIN c.args : Passes(c.abi[i], c.args[i], v.b.enc[i], d + 1)
  BY <1>4, <1>5 DEF MatchAll, Passes
<1>7. \A i \in DOMAIN c.args : Means(c.abi[i], c.args[i], v.b.enc[i])
  BY <1>2, <1>5, <1>6 DEF MeantAt
<1>8. MeansStep(Means, T, c, v)
  BY <1>2, <1>4, <1>5, <1>7 DEF MeansStep, Has
<1>9. QED
  BY <1>8 DEF Nesting

LEMMA LevelMeant ==
    ASSUME Nesting, NEW d \in Int, d <= MaxDepth => MeantAt(d + 1)
    PROVE  MeantAt(d)
<1> SUFFICES ASSUME NEW T, NEW c, NEW v, IsOf(T, v), Readable(T, c), Passes(T, c, v, d)
             PROVE  Means(T, c, v)
  BY DEF MeantAt
<1>1. d <= MaxDepth
  BY TooDeep, DepthAssumption
<1>2. DOMAIN c \in Sorts
  BY OneSort
<1>3. QED
  BY <1>1, <1>2, FlatMeans, TupleMeans, ItemsMeans, AbiMeans DEF Sorts

(* The least of a set of numbers. *)
LEMMA LeastNatural ==
    ASSUME NEW S \in SUBSET Nat, S # {}
    PROVE  \E n \in S : \A m \in S : n <= m
<1> DEFINE R == OpToRel(<, Nat)
<1>1. IsWellFoundedOn(R, Nat)
  BY NatLessThanWellFounded
<1>2. \A y, x \in Nat : <<y, x>> \in R <=> y < x
  BY DEF OpToRel
<1> HIDE DEF R
<1>3. PICK x \in S : \A y \in S : ~ (<<y, x>> \in R)
  BY <1>1, WFMin
<1>4. \A y \in S : ~ (y < x)
  BY <1>2, <1>3
<1>5. \A y \in S : x <= y
  BY <1>4
<1>6. QED
  BY <1>5

(* Induction over the levels left above the deepest the code goes to: what  *)
(* holds of every level when it holds of the next holds of the first.       *)
LEMMA FromTheDeepest ==
    ASSUME NEW Levels, \A d \in Int : (d <= MaxDepth => d + 1 \in Levels) => d \in Levels
    PROVE  0 \in Levels
<1> DEFINE Bad == {n \in Nat : MaxDepth + 1 - n \notin Levels}
<1>1. SUFFICES Bad = {}
  <2>1. MaxDepth + 1 \in Nat /\ MaxDepth + 1 - (MaxDepth + 1) = 0
    BY DepthAssumption
  <2>2. QED
    BY <1>1, <2>1
<1>2. SUFFICES ASSUME Bad # {} PROVE FALSE
  OBVIOUS
<1>3. PICK n \in Bad : \A m \in Bad : n <= m
  BY <1>2, LeastNatural
<1>4. n \in Nat /\ MaxDepth + 1 - n \notin Levels /\ MaxDepth + 1 - n \in Int
  BY <1>3, DepthAssumption
<1>5. MaxDepth + 1 - n <= MaxDepth /\ (MaxDepth + 1 - n) + 1 \notin Levels
  BY <1>4
<1>6. n - 1 \in Nat /\ n - 1 < n /\ MaxDepth + 1 - (n - 1) = (MaxDepth + 1 - n) + 1
  BY <1>4, <1>5, DepthAssumption
<1>7. n - 1 \in Bad
  BY <1>5, <1>6
<1>8. QED
  BY <1>3, <1>4, <1>6, <1>7

LEMMA MatchIsMeant ==
    ASSUME Nesting
    PROVE  MeantAt(0)
<1> DEFINE Levels == {d \in Int : MeantAt(d)}
<1>1. \A d \in Int : (d <= MaxDepth => d + 1 \in Levels) => d \in Levels
  BY LevelMeant
<1> HIDE DEF Levels
<1>2. 0 \in Levels
  BY <1>1, FromTheDeepest
<1>3. QED
  BY <1>2 DEF Levels

-----------------------------------------------------------------------------
(* And the other way: a value a rule means is never turned away.           *)

KeptAt(d) ==
    \A T, c, v : IsOf(T, v) /\ Reads(T, c, d) /\ Means(T, c, v) => Match(T, c, v, d) = {}

LEMMA FlatKept ==
    ASSUME Nesting, NEW T, NEW c, NEW v, NEW d \in Int,
           DOMAIN c \in {{"eq"}, {"oneOf"}, {"bound"}, {"any"}, {"signature"}},
           Reads(T, c, d), Means(T, c, v)
    PROVE  Match(T, c, v, d) = {}
<1>1. ReadsStep(Reads, T, c, d) /\ MeansStep(Means, T, c, v)
  BY DEF Nesting
<1>2. ~ (d > MaxDepth)
  BY <1>1, DepthAssumption DEF ReadsStep
<1>3. MatchStep(Match, T, c, v, d) = {}
  <2>1. CASE DOMAIN c = {"any"}
    BY <1>2, <2>1 DEF MatchStep, Has
  <2>2. CASE DOMAIN c = {"eq"}
    <3>1. v = c.eq /\ HasType(T, c.eq, 0)
      BY <1>1, <2>2 DEF ReadsStep, MeansStep, Has
    <3>2. QED
      BY <1>2, <2>2, <3>1 DEF MatchStep, Has
  <2>3. CASE DOMAIN c = {"oneOf"}
    <3>1. PICK n \in DOMAIN c.oneOf : v = c.oneOf[n]
      BY <1>1, <2>3 DEF MeansStep, Has
    <3>2. HasType(T, v, 0)
      BY <1>1, <2>3, <3>1 DEF ReadsStep, Has
    <3>3. QED
      BY <1>2, <2>3, <3>1, <3>2 DEF MatchStep, Has
  <2>4. CASE DOMAIN c = {"signature"}
    BY <1>1, <1>2, <2>4 DEF MatchStep, MeansStep, Has
  <2>5. CASE DOMAIN c = {"bound"}
    <3>1. InRange(v.w, c.bound)
      BY <1>1, <2>5 DEF MeansStep, Has
    <3>2. QED
      BY <1>2, <2>5, <3>1 DEF MatchStep, Has
  <2>6. QED
    BY <2>1, <2>2, <2>3, <2>4, <2>5
<1>4. QED
  BY <1>3 DEF Nesting

LEMMA TupleKept ==
    ASSUME Nesting, NEW T, NEW c, NEW v, NEW d \in Int, DOMAIN c = {"tuple"},
           IsOf(T, v), Reads(T, c, d), Means(T, c, v), KeptAt(d + 1)
    PROVE  Match(T, c, v, d) = {}
<1>1. ReadsStep(Reads, T, c, d) /\ MeansStep(Means, T, c, v)
  BY DEF Nesting
<1>2. /\ ~ (d > MaxDepth) /\ T.t = "tuple" /\ DOMAIN c.tuple = DOMAIN T.parts
      /\ \A i \in DOMAIN c.tuple : Reads(T.parts[i], c.tuple[i], d + 1)
  BY <1>1, DepthAssumption DEF ReadsStep, ReadsAll, Has
<1>3. PICK f \in Int : HasTypeStep(HasType, T, v, f)
  BY DEF Nesting, IsOf
<1>4. DOMAIN v.l = DOMAIN T.parts /\ \A i \in DOMAIN v.l : IsOf(T.parts[i], v.l[i])
  BY <1>2, <1>3 DEF HasTypeStep, IsOf
<1>5. \A i \in DOMAIN c.tuple : Means(T.parts[i], c.tuple[i], v.l[i])
  BY <1>1 DEF MeansStep, Has
<1>6. \A i \in DOMAIN c.tuple : Match(T.parts[i], c.tuple[i], v.l[i], d + 1) = {}
  BY <1>2, <1>4, <1>5 DEF KeptAt
<1>7. MatchStep(Match, T, c, v, d) = MatchAll(Match, T.parts, c.tuple, v.l, d + 1)
  BY <1>2 DEF MatchStep, Has
<1>8. MatchAll(Match, T.parts, c.tuple, v.l, d + 1) = {}
  BY <1>6 DEF MatchAll
<1>9. QED
  BY <1>7, <1>8 DEF Nesting

LEMMA ItemsKept ==
    ASSUME Nesting, NEW T, NEW c, NEW v, NEW d \in Int, DOMAIN c = {"items"},
           IsOf(T, v), Reads(T, c, d), Means(T, c, v), KeptAt(d + 1)
    PROVE  Match(T, c, v, d) = {}
<1> DEFINE types == [i \in DOMAIN c.items |-> T.of]
<1>1. ReadsStep(Reads, T, c, d) /\ MeansStep(Means, T, c, v)
  BY DEF Nesting
<1>2. /\ ~ (d > MaxDepth) /\ T.t = "list"
      /\ \A i \in DOMAIN c.items : Reads(T.of, c.items[i], d + 1)
  BY <1>1, DepthAssumption DEF ReadsStep, Has
<1>3. PICK f \in Int : HasTypeStep(HasType, T, v, f)
  BY DEF Nesting, IsOf
<1>4. \A i \in DOMAIN v.l : IsOf(T.of, v.l[i])
  BY <1>2, <1>3 DEF HasTypeStep, IsOf
<1>5. DOMAIN c.items = DOMAIN v.l /\ \A i \in DOMAIN c.items : Means(T.of, c.items[i], v.l[i])
  BY <1>1 DEF MeansStep, Has
<1>6. \A i \in DOMAIN c.items : Match(T.of, c.items[i], v.l[i], d + 1) = {}
  BY <1>2, <1>4, <1>5 DEF KeptAt
<1>7. MatchStep(Match, T, c, v, d) = IF DOMAIN v.l # DOMAIN c.items THEN {"broken"}
                                     ELSE MatchAll(Match, types, c.items, v.l, d + 1)
  BY <1>2 DEF MatchStep, Has
<1>8. MatchAll(Match, types, c.items, v.l, d + 1) = {}
  BY <1>6 DEF MatchAll
<1>9. QED
  BY <1>5, <1>7, <1>8 DEF Nesting

LEMMA AbiKept ==
    ASSUME Nesting, NEW T, NEW c, NEW v, NEW d \in Int, DOMAIN c = {"abi", "args"},
           IsOf(T, v), Reads(T, c, d), Means(T, c, v), KeptAt(d + 1)
    PROVE  Match(T, c, v, d) = {}
<1>1. ReadsStep(Reads, T, c, d) /\ MeansStep(Means, T, c, v)
  BY DEF Nesting
<1>2. /\ ~ (d > MaxDepth) /\ T.t = "bytes" /\ DOMAIN c.args = DOMAIN c.abi
      /\ \A i \in DOMAIN c.args : Reads(c.abi[i], c.args[i], d + 1)
  BY <1>1, DepthAssumption DEF ReadsStep, ReadsAll, Has
<1>3. PICK f \in Int : HasTypeStep(HasType, T, v, f)
  BY DEF Nesting, IsOf
<1>4. /\ Has(v, "b") /\ Has(v.b, "enc") /\ v.b.clean /\ v.b.enc # None
      /\ DOMAIN v.b.enc = DOMAIN c.args
      /\ \A i \in DOMAIN c.args : /\ HasType(c.abi[i], v.b.enc[i], 0)
                                  /\ Means(c.abi[i], c.args[i], v.b.enc[i])
  <2>1. Has(v, "b")
    BY <1>2, <1>3 DEF HasTypeStep
  <2>2. QED
    BY <1>1, <2>1 DEF MeansStep, Has
<1>5. \A i \in DOMAIN c.args : Match(c.abi[i], c.args[i], v.b.enc[i], d + 1) = {}
  BY <1>2, <1>4 DEF KeptAt, IsOf
<1>6. DecodeCanonical(c.abi, v) = v.b.enc
  BY <1>2, <1>4 DEF DecodeCanonical
<1>7. MatchStep(Match, T, c, v, d) =
          IF v.b.enc = None THEN {"unreadable"} ELSE MatchAll(Match, c.abi, c.args, v.b.enc, d + 1)
  BY <1>2, <1>6 DEF MatchStep, Has
<1>8. MatchAll(Match, c.abi, c.args, v.b.enc, d + 1) = {}
  BY <1>5 DEF MatchAll
<1>9. QED
  BY <1>4, <1>7, <1>8 DEF Nesting

LEMMA LevelKept ==
    ASSUME Nesting, NEW d \in Int, d <= MaxDepth => KeptAt(d + 1)
    PROVE  KeptAt(d)
<1> SUFFICES ASSUME NEW T, NEW c, NEW v, IsOf(T, v), Reads(T, c, d), Means(T, c, v)
             PROVE  Match(T, c, v, d) = {}
  BY DEF KeptAt
<1>1. d <= MaxDepth /\ DOMAIN c \in Sorts
  BY DEF Nesting, ReadsStep
<1>2. QED
  BY <1>1, FlatKept, TupleKept, ItemsKept, AbiKept DEF Sorts

(* tx.ts, match and readRule: a value is let through a rule that was read   *)
(* if, and only if, it is what the rule says, however deep the two nest.    *)
(* Nothing the depth limit cuts off goes unjudged, and nothing a readable   *)
(* rule describes is too deep to be allowed.                                *)
THEOREM MatchIsExact ==
    ASSUME Nesting
    PROVE  \A T, c, v : IsOf(T, v) /\ Reads(T, c, 0) => (Match(T, c, v, 0) = {} <=> Means(T, c, v))
<1> DEFINE Levels == {d \in Int : KeptAt(d)}
<1>1. \A d \in Int : (d <= MaxDepth => d + 1 \in Levels) => d \in Levels
  BY LevelKept
<1> HIDE DEF Levels
<1>2. 0 \in Levels
  BY <1>1, FromTheDeepest
<1>3. KeptAt(0) /\ MeantAt(0)
  BY <1>2, MatchIsMeant DEF Levels
<1>4. \A T, c : Reads(T, c, 0) => Readable(T, c)
  BY DEF Readable
<1>5. \A T, c, v : Match(T, c, v, 0) = {} => Passes(T, c, v, 0)
  BY DEF Passes
<1>6. QED
  BY <1>3, <1>4, <1>5 DEF KeptAt, MeantAt

-----------------------------------------------------------------------------
(* Exact rules: at most one value keeps one. *)

Settled(T) ==
    \A c, v, w :
        Readable(T, c) /\ Exact(c) /\ IsOf(T, v) /\ Means(T, c, v) /\ IsOf(T, w) /\ Means(T, c, w)
            => v = w

LEMMA WordSettled ==
    ASSUME Nesting, NEW T, T.t = "word"
    PROVE  Settled(T)
<1> SUFFICES ASSUME NEW c, NEW v, NEW w, Readable(T, c), Exact(c), Means(T, c, v), Means(T, c, w)
             PROVE  v = w
  BY DEF Settled
<1>1. PICK e \in Int : ReadsStep(Reads, T, c, e)
  BY DEF Nesting, Readable
<1>2. ExactStep(Exact, c) /\ MeansStep(Means, T, c, v) /\ MeansStep(Means, T, c, w)
  BY DEF Nesting
<1>3. DOMAIN c = {"eq"}
  <2>1. DOMAIN c \in Sorts
    BY OneSort
  <2>2. DOMAIN c \notin {{"tuple"}, {"items"}, {"abi", "args"}}
    BY <1>1 DEF ReadsStep, Has
  <2>3. Has(c, "eq") \/ Has(c, "tuple") \/ Has(c, "items") \/ Has(c, "abi")
    BY <1>2 DEF ExactStep
  <2>4. QED
    BY <2>1, <2>2, <2>3 DEF Sorts, Has
<1>4. QED
  BY <1>2, <1>3 DEF MeansStep, Has

(* A struct is its components. *)
Made(T, v) == L([i \in DOMAIN T.parts |-> v.l[i]])

LEMMA StructMade ==
    ASSUME Nesting, NEW T, T.t = "tuple", NEW v, IsOf(T, v)
    PROVE  v = Made(T, v) /\ \A i \in DOMAIN T.parts : IsOf(T.parts[i], v.l[i])
<1>1. PICK f \in Int : HasTypeStep(HasType, T, v, f)
  BY DEF Nesting, IsOf
<1>2. /\ IsList(v) /\ DOMAIN v.l = DOMAIN T.parts
      /\ \A i \in DOMAIN v.l : HasType(T.parts[i], v.l[i], f + 1)
  BY <1>1 DEF HasTypeStep
<1>3. [i \in DOMAIN v.l |-> v.l[i]] = [i \in DOMAIN T.parts |-> v.l[i]]
  BY <1>2
<1>4. v = Made(T, v)
  BY <1>2, <1>3 DEF IsList, Made
<1>5. f + 1 \in Int
  OBVIOUS
<1>6. \A i \in DOMAIN T.parts : IsOf(T.parts[i], v.l[i])
  BY <1>2, <1>5 DEF IsOf
<1>7. QED
  BY <1>4, <1>6

LEMMA TupleSettled ==
    ASSUME Nesting, NEW T, T.t = "tuple", \A i \in DOMAIN T.parts : Settled(T.parts[i])
    PROVE  Settled(T)
<1> SUFFICES ASSUME NEW c, NEW v, NEW w, Readable(T, c), Exact(c),
                    IsOf(T, v), Means(T, c, v), IsOf(T, w), Means(T, c, w)
             PROVE  v = w
  BY DEF Settled
<1>1. PICK e \in Int : ReadsStep(Reads, T, c, e)
  BY DEF Nesting, Readable
<1>2. ExactStep(Exact, c) /\ MeansStep(Means, T, c, v) /\ MeansStep(Means, T, c, w)
  BY DEF Nesting
<1>3. DOMAIN c \in {{"eq"}, {"tuple"}}
  <2>1. DOMAIN c \in Sorts
    BY OneSort
  <2>2. DOMAIN c \notin {{"items"}, {"abi", "args"}}
    BY <1>1 DEF ReadsStep, Has
  <2>3. Has(c, "eq") \/ Has(c, "tuple") \/ Has(c, "items") \/ Has(c, "abi")
    BY <1>2 DEF ExactStep
  <2>4. QED
    BY <2>1, <2>2, <2>3 DEF Sorts, Has
<1>4. CASE DOMAIN c = {"eq"}
  BY <1>2, <1>4 DEF MeansStep, Has
<1>5. CASE DOMAIN c = {"tuple"}
  <2>1. /\ DOMAIN c.tuple = DOMAIN T.parts
        /\ \A i \in DOMAIN T.parts : Readable(T.parts[i], c.tuple[i])
    BY <1>1, <1>5 DEF ReadsStep, ReadsAll, Readable, Has
  <2>2. \A i \in DOMAIN T.parts : Exact(c.tuple[i])
    BY <1>2, <1>5, <2>1 DEF ExactStep, Parts, Has
  <2>3. v = Made(T, v) /\ w = Made(T, w)
    BY StructMade
  <2>4. \A i \in DOMAIN T.parts : Means(T.parts[i], c.tuple[i], v.l[i])
    BY <1>2, <1>5, <2>1 DEF MeansStep, Has
  <2>5. \A i \in DOMAIN T.parts : Means(T.parts[i], c.tuple[i], w.l[i])
    BY <1>2, <1>5, <2>1 DEF MeansStep, Has
  <2>6. \A i \in DOMAIN T.parts : IsOf(T.parts[i], v.l[i]) /\ IsOf(T.parts[i], w.l[i])
    BY StructMade
  <2>7. \A i \in DOMAIN T.parts : v.l[i] = w.l[i]
    BY <2>1, <2>2, <2>4, <2>5, <2>6 DEF Settled
  <2>8. Made(T, v) = Made(T, w)
    BY <2>7 DEF Made
  <2>9. QED
    BY <2>3, <2>8
<1>6. QED
  BY <1>3, <1>4, <1>5

(* The terms of a grant are words, or structs of them. *)
LEMMA TermsSettled ==
    ASSUME Nesting, NEW fn \in DOMAIN Standing, NEW n \in Standing[fn].exact
    PROVE  Settled(Signature[fn][n])
<1>1. Settled(Address) /\ Settled(Amount) /\ Settled(Flag)
  BY WordSettled DEF Address, Amount, Flag, Word, Int_
<1>2. Settled(PermitDetails)
  <2>1. /\ PermitDetails.t = "tuple" /\ DOMAIN PermitDetails.parts = 1..4
        /\ \A i \in 1..4 : PermitDetails.parts[i] \in {Address, Amount}
    BY DEF PermitDetails, Tuple
  <2>2. QED
    BY <1>1, <2>1, TupleSettled
<1> DEFINE Single == Tuple(<<PermitDetails, Address, Amount>>)
<1>3. Settled(Single)
  <2>1. /\ Single.t = "tuple" /\ DOMAIN Single.parts = 1..3
        /\ \A i \in 1..3 : Single.parts[i] \in {PermitDetails, Address, Amount}
    BY DEF Tuple
  <2> HIDE DEF Single
  <2>2. QED
    BY <1>1, <1>2, <2>1, TupleSettled
<1>4. Signature[fn][n] \in {Address, Amount, Flag, Single}
  BY DEF Standing, Signature
<1>5. QED
  BY <1>1, <1>2, <1>3, <1>4

-----------------------------------------------------------------------------
(* What a router is told to permit.                                         *)

Plan(values) == [types |-> <<Address, Amount, Amount>>, values |-> values]

(* A plan that shows no unlimited permit at this depth grants none. *)
BoundedAt(d) ==
    \A values : RouterPermits(Plan(values), d) = "no" => ~ RouterGrants(MaxAmount, values)

LEMMA TopAmount == (CHOOSE n \in Amount.of : \A k \in Amount.of : k <= n) = MaxAmount
<1>1. Amount.of = 0..MaxAmount
  BY DEF Amount, Int_
<1>2. MaxAmount \in Amount.of /\ \A k \in Amount.of : k <= MaxAmount
  BY <1>1, AmountAssumption
<1>3. \A n \in Amount.of : (\A k \in Amount.of : k <= n) => n = MaxAmount
  BY <1>1, <1>2
<1>4. QED
  BY <1>2, <1>3

(* What the check makes of one command of a plan. *)
Finds(plan, i, depth) ==
    LET Amounts == plan.types[2]
        command == plan.values[1].b.commands[i]
        input == plan.values[2].l[i]
    IN CASE command = "permit" ->
              LET values == DecodeCanonical(PermitInput(plan.types[1], Amounts, plan.types[3]), input)
              IN IF values = None THEN "unread"
                 ELSE IF values[1].l[1].l[2].w = (CHOOSE n \in Amounts.of : \A k \in Amounts.of : k <= n)
                      THEN "unlimited" ELSE "no"
         [] command = "subplan" ->
              LET values == DecodeCanonical(SubPlan, input)
              IN IF values = None THEN "unread"
                 ELSE RouterPermits([plan EXCEPT !.values = values], depth + 1)
         [] OTHER -> "no"

LEMMA PermitsFound ==
    ASSUME Nesting, NEW plan, NEW d \in Int
    PROVE  LET found == {Finds(plan, i, d) : i \in DOMAIN plan.values[2].l} IN
           RouterPermits(plan, d) =
               IF \/ d > MaxDepth \/ ~ Has(plan.values[1].b, "commands")
                  \/ Len(plan.values[1].b.commands) # Len(plan.values[2].l) \/ "unread" \in found
               THEN "unread"
               ELSE IF "unlimited" \in found THEN "unlimited" ELSE "no"
<1>1. RouterPermits(plan, d) = RouterPermitsStep(RouterPermits, plan, d)
  BY DEF Nesting
<1>2. QED
  BY <1>1, Zenon DEF RouterPermitsStep, Finds

(* One command, of a plan that shows no unlimited permit. *)
LEMMA CommandBounded ==
    ASSUME Nesting, NEW values, NEW d \in Int, RouterPermits(Plan(values), d) = "no",
           NEW i \in DOMAIN values[2].l
    PROVE  /\ d <= MaxDepth
           /\ values[1].b.commands[i] = "permit" => values[2].l[i].b.enc[1].l[1].l[2].w # MaxAmount
           /\ values[1].b.commands[i] = "subplan" => RouterPermits(Plan(values[2].l[i].b.enc), d + 1) = "no"
<1> DEFINE input == values[2].l[i]
           command == values[1].b.commands[i]
<1>1. /\ Plan(values).values = values
      /\ Plan(values).types[1] = Address /\ Plan(values).types[2] = Amount
      /\ Plan(values).types[3] = Amount
      /\ \A v : [Plan(values) EXCEPT !.values = v] = Plan(v)
  BY DEF Plan
<1>2. d <= MaxDepth /\ Finds(Plan(values), i, d) \notin {"unread", "unlimited"}
  <2>1. ~ (d > MaxDepth)
    BY PermitsFound
  <2>2. Finds(Plan(values), i, d) # "unread" /\ Finds(Plan(values), i, d) # "unlimited"
    BY PermitsFound, <1>1
  <2>3. QED
    BY <2>1, <2>2, DepthAssumption
<1>3. ASSUME command = "permit" PROVE input.b.enc[1].l[1].l[2].w # MaxAmount
  <2> DEFINE decoded == DecodeCanonical(PermitInput(Address, Amount, Amount), input)
  <2>1. Finds(Plan(values), i, d) =
            IF decoded = None THEN "unread"
            ELSE IF decoded[1].l[1].l[2].w = MaxAmount THEN "unlimited" ELSE "no"
    BY <1>1, <1>3, TopAmount DEF Finds
  <2>2. decoded # None /\ decoded[1].l[1].l[2].w # MaxAmount
    <3> HIDE DEF decoded
    <3>1. QED
      BY <1>2, <2>1
  <2>3. decoded = input.b.enc
    BY <2>2 DEF DecodeCanonical
  <2>4. QED
    BY <2>2, <2>3
<1>4. ASSUME command = "subplan" PROVE RouterPermits(Plan(input.b.enc), d + 1) = "no"
  <2> DEFINE decoded == DecodeCanonical(SubPlan, input)
  <2>1. Finds(Plan(values), i, d) =
            IF decoded = None THEN "unread" ELSE RouterPermits(Plan(decoded), d + 1)
    BY <1>1, <1>4 DEF Finds
  <2>2. decoded # None
    <3> HIDE DEF decoded
    <3>1. QED
      BY <1>2, <2>1
  <2>3. decoded = input.b.enc
    BY <2>2 DEF DecodeCanonical
  <2>4. RouterPermits(Plan(input.b.enc), d + 1) \notin {"unread", "unlimited"}
    BY <1>2, <2>1, <2>2, <2>3
  <2>5. RouterPermits(Plan(input.b.enc), d + 1) \in {"unread", "unlimited", "no"}
    BY PermitsFound
  <2>6. QED
    BY <2>4, <2>5
<1>5. QED
  BY <1>2, <1>3, <1>4

LEMMA LevelBounded ==
    ASSUME Nesting, NEW d \in Int, d <= MaxDepth => BoundedAt(d + 1)
    PROVE  BoundedAt(d)
<1> SUFFICES ASSUME NEW values, RouterPermits(Plan(values), d) = "no", RouterGrants(MaxAmount, values)
             PROVE  FALSE
  BY DEF BoundedAt
<1>1. RouterGrantsStep(RouterGrants, MaxAmount, values)
  BY DEF Nesting
<1>2. PICK i \in DOMAIN values[2].l :
          \/ /\ values[1].b.commands[i] = "permit"
             /\ values[2].l[i].b.enc[1].l[1].l[2].w = MaxAmount
          \/ /\ values[1].b.commands[i] = "subplan"
             /\ RouterGrants(MaxAmount, values[2].l[i].b.enc)
  BY <1>1 DEF RouterGrantsStep
<1>3. QED
  BY <1>2, CommandBounded DEF BoundedAt

LEMMA PlanBounded ==
    ASSUME Nesting
    PROVE  BoundedAt(0)
<1> DEFINE Levels == {d \in Int : BoundedAt(d)}
<1>1. \A d \in Int : (d <= MaxDepth => d + 1 \in Levels) => d \in Levels
  BY LevelBounded
<1> HIDE DEF Levels
<1>2. 0 \in Levels
  BY <1>1, FromTheDeepest
<1>3. QED
  BY <1>2 DEF Levels

-----------------------------------------------------------------------------
(* What the two checks of an intent let through. *)

LEMMA NoFinding ==
    /\ \A p, code : Raise(p, code) = {} <=> ~ p
    /\ \A findings : Decide(findings) = "allow" <=> findings = {}
BY DEF Raise, Decide

LEMMA CallConforms ==
    ASSUME Nesting, NEW i, NEW t, i.kind = "call", IntentReads(i), Call(i, t) = {}
    PROVE  /\ t.data.fn = i.fn /\ t.data.clean /\ DOMAIN t.data.args = DOMAIN i.args
           /\ \A n \in DOMAIN i.args : Means(Signature[i.fn][n], i.args[n], t.data.args[n])
<1> DEFINE types == Signature[i.fn]
           values == t.data.args
<1>1. t.data.fn = i.fn /\ Decodes(t.data) /\ ArgumentFindings(i, values) = {}
  BY DEF Call, FunctionOf
<1>2. t.data.clean /\ DOMAIN values = DOMAIN types /\ \A n \in DOMAIN types : IsOf(types[n], values[n])
  BY <1>1 DEF Decodes, IsOf
<1>3. ReadsAll(Reads, types, i.args, 0)
  BY DEF IntentReads
<1>4. DOMAIN i.args = DOMAIN types /\ \A n \in DOMAIN i.args : Readable(types[n], i.args[n])
  BY <1>3 DEF ReadsAll, Readable
<1> DEFINE found == MatchAll(Match, types, i.args, values, 0)
<1>5. Raise("broken" \in found, "703") = {} /\ Raise("unreadable" \in found, "709") = {}
  BY <1>1 DEF ArgumentFindings
<1>6. "broken" \notin found /\ "unreadable" \notin found
  BY <1>5, NoFinding
<1>7. \A n \in DOMAIN i.args : Passes(types[n], i.args[n], values[n], 0)
  BY <1>6 DEF MatchAll, Passes
<1>8. \A n \in DOMAIN i.args : Means(types[n], i.args[n], values[n])
  BY <1>2, <1>4, <1>7, MatchIsMeant DEF MeantAt
<1>9. QED
  BY <1>1, <1>2, <1>4, <1>8

(* checkTransaction: what it allows is what the intent names.              *)
LEMMA AllowedConforms ==
    ASSUME Nesting, NEW i, NEW t, NEW p, CheckTransaction(i, t, p) = "allow"
    PROVE  /\ Conforms(i, t)
           /\ t.chainId \in {None, i.chain}
<1>1. IntentReads(i) /\ i.kind # "permit2.permit"
  BY DEF CheckTransaction
<1>2. /\ t.chainId \in {None, i.chain} /\ t.to = Target(i)
      /\ InRange(t.value, ValueBound(i)) /\ Call(i, t) = {}
  BY NoFinding DEF CheckTransaction
<1>3. i.kind \in {"native.transfer", "erc20.transfer", "erc20.approve", "call"}
  BY <1>1 DEF IntentReads, TokenKinds
<1>4. CASE i.kind = "native.transfer"
  <2>1. t.data = Empty
    BY <1>2, <1>4, NoFinding DEF Call
  <2>2. QED
    BY <1>2, <1>4, <2>1 DEF Conforms
<1>5. CASE i.kind = "erc20.transfer"
  <2>1. /\ t.data.fn = "transfer" /\ Decodes(t.data)
        /\ ArgumentFindings(i, t.data.args) = {}
    BY <1>2, <1>5 DEF Call, FunctionOf
  <2>2. t.data.args[1].w \in i.to /\ InRange(t.data.args[2].w, i.amount)
    BY <1>5, <2>1, NoFinding DEF ArgumentFindings
  <2>3. QED
    BY <1>2, <1>5, <2>1, <2>2 DEF Conforms, Decodes
<1>6. CASE i.kind = "erc20.approve"
  <2>1. /\ t.data.fn = "approve" /\ Decodes(t.data)
        /\ ArgumentFindings(i, t.data.args) = {}
    BY <1>2, <1>6 DEF Call, FunctionOf
  <2>2. t.data.args[1].w = i.spender /\ i.amount \in {Unlimited, t.data.args[2].w}
    BY <1>6, <2>1, NoFinding DEF ArgumentFindings
  <2>3. QED
    BY <1>2, <1>6, <2>1, <2>2 DEF Conforms, Decodes
<1>7. CASE i.kind = "call"
  BY <1>1, <1>2, <1>7, CallConforms DEF Conforms
<1>8. QED
  BY <1>2, <1>3, <1>4, <1>5, <1>6, <1>7

(* A call that is allowed: its grant's terms, and what it carries. *)
LEMMA AllowedCall ==
    ASSUME NEW i, NEW t, NEW p, i.kind = "call", CheckTransaction(i, t, p) = "allow"
    PROVE  /\ IntentReads(i) /\ t.to = Target(i) /\ t.data.fn = i.fn /\ Decodes(t.data)
           /\ Call(i, t) = {} /\ InRange(t.value, ValueBound(i))
           /\ StandingFindings(i, t.data.args) = {} /\ RouterFindings(i, t.data.args) = {}
           /\ WrapperFindings(i, t.data.args) = {}
<1>1. /\ IntentReads(i) /\ t.to = Target(i) /\ Call(i, t) = {}
      /\ InRange(t.value, ValueBound(i))
  BY NoFinding DEF CheckTransaction
<1>2. t.data.fn = i.fn /\ Decodes(t.data) /\ ArgumentFindings(i, t.data.args) = {}
  BY <1>1 DEF Call, FunctionOf
<1>3. /\ StandingFindings(i, t.data.args) = {} /\ RouterFindings(i, t.data.args) = {}
      /\ WrapperFindings(i, t.data.args) = {}
  BY <1>2 DEF ArgumentFindings
<1>4. QED
  BY <1>1, <1>2, <1>3

LEMMA AllowedTerm ==
    ASSUME Nesting, NEW i, NEW t, NEW p, i.kind = "call", CheckTransaction(i, t, p) = "allow",
           i.fn \in DOMAIN Standing, NEW n \in Standing[i.fn].exact
    PROVE  /\ Readable(Signature[i.fn][n], i.args[n]) /\ Exact(i.args[n])
           /\ IsOf(Signature[i.fn][n], t.data.args[n])
           /\ Means(Signature[i.fn][n], i.args[n], t.data.args[n])
<1>1. n \in DOMAIN Signature[i.fn]
  BY DEF Standing, Signature
<1>2. ReadsAll(Reads, Signature[i.fn], i.args, 0)
  BY AllowedCall DEF IntentReads
<1>3. n \in DOMAIN i.args /\ Readable(Signature[i.fn][n], i.args[n])
  BY <1>1, <1>2 DEF ReadsAll, Readable
<1>4. Exact(i.args[n])
  BY AllowedCall, NoFinding DEF StandingFindings
<1>5. IsOf(Signature[i.fn][n], t.data.args[n])
  BY <1>1, AllowedCall DEF Decodes, IsOf
<1>6. Means(Signature[i.fn][n], i.args[n], t.data.args[n])
  BY <1>3, AllowedCall, CallConforms
<1>7. QED
  BY <1>3, <1>4, <1>5, <1>6

(* What a check asks beside conformity: calldata that decodes, and that what *)
(* is granted or carried further be named.                                  *)
CallDecodes(i, t) == i.kind # "native.transfer" => t.data # Empty /\ Decodes(t.data)

GrantsByName(i, t) ==
    CASE i.kind = "erc20.approve" -> i.amount = Unlimited \/ t.data.args[2].w # MaxAmount
      [] i.kind = "call" -> /\ StandingFindings(i, t.data.args) = {}
                            /\ RouterFindings(i, t.data.args) = {}
                            /\ WrapperFindings(i, t.data.args) = {}
      [] OTHER -> TRUE

LEMMA ArgumentsAllowed ==
    ASSUME Nesting, NEW i, NEW t, IntentReads(i), i.kind # "permit2.permit",
           Conforms(i, t), CallDecodes(i, t), GrantsByName(i, t)
    PROVE  Call(i, t) = {}
<1> DEFINE a == t.data.args
<1>1. i.kind \in {"native.transfer", "erc20.transfer", "erc20.approve", "call"}
  BY DEF IntentReads, TokenKinds
<1>2. CASE i.kind = "native.transfer"
  BY <1>2, NoFinding DEF Call, Conforms
<1>3. CASE i.kind = "erc20.transfer"
  <2>1. a[1].w \in i.to /\ InRange(a[2].w, i.amount)
    BY <1>3 DEF Conforms
  <2>2. ArgumentFindings(i, a) = {}
    BY <1>3, <2>1, NoFinding DEF ArgumentFindings
  <2>3. QED
    BY <1>3, <2>2 DEF Call, Conforms, FunctionOf, CallDecodes
<1>4. CASE i.kind = "erc20.approve"
  <2>1. a[1].w = i.spender /\ (i.amount # Unlimited => a[2].w = i.amount /\ a[2].w # MaxAmount)
    BY <1>4 DEF Conforms, GrantsByName
  <2>2. ArgumentFindings(i, a) = {}
    BY <1>4, <2>1, NoFinding DEF ArgumentFindings
  <2>3. QED
    BY <1>4, <2>2 DEF Call, Conforms, FunctionOf, CallDecodes
<1>5. CASE i.kind = "call"
  <2> DEFINE types == Signature[i.fn]
             found == MatchAll(Match, types, i.args, a, 0)
  <2>1. t.data.fn = i.fn /\ t.data # Empty /\ Decodes(t.data)
    BY <1>5 DEF Conforms, CallDecodes
  <2>2. DOMAIN i.args = DOMAIN types /\ \A n \in DOMAIN i.args : Reads(types[n], i.args[n], 0)
    BY <1>5 DEF IntentReads, ReadsAll
  <2>3. \A n \in DOMAIN i.args : IsOf(types[n], a[n]) /\ Means(types[n], i.args[n], a[n])
    BY <1>5, <2>1, <2>2 DEF Conforms, Decodes, IsOf
  <2>4. \A n \in DOMAIN i.args : Match(types[n], i.args[n], a[n], 0) = {}
    BY <2>2, <2>3, MatchIsExact
  <2>5. found = {}
    BY <2>4 DEF MatchAll
  <2>6. Raise("broken" \in found, "703") = {} /\ Raise("unreadable" \in found, "709") = {}
    BY <2>5, NoFinding
  <2>7. ArgumentFindings(i, a) = {}
    BY <1>5, <2>6 DEF ArgumentFindings, GrantsByName
  <2>8. QED
    BY <1>5, <2>1, <2>7 DEF Call, FunctionOf
<1>6. QED
  BY <1>1, <1>2, <1>3, <1>4, <1>5

(* And the other way: what was allowed decodes and grants by name. *)
LEMMA AllowedByName ==
    ASSUME NEW i, NEW t, NEW p, CheckTransaction(i, t, p) = "allow"
    PROVE  CallDecodes(i, t) /\ GrantsByName(i, t)
<1>1. Call(i, t) = {}
  BY NoFinding DEF CheckTransaction
<1>2. CallDecodes(i, t)
  BY <1>1 DEF Call, CallDecodes
<1>3. CASE i.kind = "erc20.approve"
  <2>1. ArgumentFindings(i, t.data.args) = {}
    BY <1>1, <1>3 DEF Call
  <2>2. QED
    BY <1>2, <1>3, <2>1, NoFinding DEF ArgumentFindings, GrantsByName
<1>4. CASE i.kind = "call"
  BY <1>2, <1>4, AllowedCall DEF GrantsByName
<1>5. CASE i.kind \notin {"erc20.approve", "call"}
  BY <1>2, <1>5 DEF GrantsByName
<1>6. QED
  BY <1>2, <1>3, <1>4, <1>5

(* tx.ts, checkTransaction: under an intent that can be read the check      *)
(* allows a transaction if, and only if, it is what the intent names, on    *)
(* the chain it names, in calldata that decodes, with every grant named and *)
(* no movement the policy refuses.  It lets nothing else through and turns  *)
(* nothing else away.                                                       *)
THEOREM CheckIsExact ==
    ASSUME Nesting, NEW i, NEW t, NEW p, IntentReads(i), i.kind # "permit2.permit", p # Unread
    PROVE  CheckTransaction(i, t, p) = "allow" <=>
               /\ Conforms(i, t) /\ t.chainId \in {None, i.chain}
               /\ CallDecodes(i, t) /\ GrantsByName(i, t)
               /\ \A m \in Movements(i, t) : ~ PolicyRefuses(p, m)
<1>1. CheckTransaction(i, t, p) = "allow" <=>
          /\ t.chainId \in {None, i.chain} /\ t.to = Target(i)
          /\ InRange(t.value, ValueBound(i)) /\ Call(i, t) = {}
          /\ \A m \in Movements(i, t) : ~ PolicyRefuses(p, m)
  BY NoFinding DEF CheckTransaction
<1>2. ASSUME CheckTransaction(i, t, p) = "allow"
      PROVE  /\ Conforms(i, t) /\ CallDecodes(i, t) /\ GrantsByName(i, t)
  BY <1>2, AllowedConforms, AllowedByName
<1>3. Conforms(i, t) => t.to = Target(i) /\ InRange(t.value, ValueBound(i))
  BY DEF Conforms
<1>4. Conforms(i, t) /\ CallDecodes(i, t) /\ GrantsByName(i, t) => Call(i, t) = {}
  BY ArgumentsAllowed
<1>5. QED
  BY <1>1, <1>2, <1>3, <1>4

(* An intent settles the terms of the grant it allows. *)
LEMMA SameTerms ==
    ASSUME Nesting, NEW i, i.kind = "call", i.fn \in DOMAIN Standing,
           NEW t, NEW p, CheckTransaction(i, t, p) = "allow",
           NEW u, NEW q, CheckTransaction(i, u, q) = "allow"
    PROVE  Terms(u) = Terms(t)
<1>1. u.to = t.to /\ u.data.fn = i.fn /\ t.data.fn = i.fn
  BY AllowedCall
<1>2. \A n \in Standing[i.fn].exact : u.data.args[n] = t.data.args[n]
  BY AllowedTerm, TermsSettled DEF Settled
<1>3. [n \in Standing[i.fn].exact |-> u.data.args[n]] = [n \in Standing[i.fn].exact |-> t.data.args[n]]
  BY <1>2
<1>4. QED
  BY <1>1, <1>3 DEF Terms

LEMMA UnlimitedNamed ==
    ASSUME NEW i, NEW t, NEW p, i.kind = "call", CheckTransaction(i, t, p) = "allow",
           i.fn \in DOMAIN Standing, GrantsUnlimited(i.fn, t.data.args)
    PROVE  i.unlimited
BY AllowedCall, NoFinding DEF StandingFindings

LEMMA RouterUnlimitedNamed ==
    ASSUME Nesting, NEW i, NEW t, NEW p, i.kind = "call", CheckTransaction(i, t, p) = "allow",
           i.fn = "execute", RouterGrants(MaxAmount, t.data.args)
    PROVE  i.unlimited
<1> DEFINE found == RouterPermits(Plan(t.data.args), 0)
<1>1. RouterFindings(i, t.data.args) = {}
  BY AllowedCall
<1>2. found # "unread" /\ (found = "unlimited" => i.unlimited)
  <2>1. Raise(found = "unread", "709") = {} /\ Raise(found = "unlimited" /\ ~ i.unlimited, "705") = {}
    BY <1>1 DEF RouterFindings, Plan
  <2>2. QED
    BY <2>1, NoFinding
<1>3. found # "no"
  BY PlanBounded DEF BoundedAt
<1>4. found \in {"unread", "unlimited", "no"}
  BY PermitsFound
<1>5. QED
  BY <1>2, <1>3, <1>4

LEMMA CallsOnly ==
    ASSUME NEW i, NEW t, NEW p, i.kind = "call", CheckTransaction(i, t, p) = "allow"
    PROVE  /\ i.fn = "safeExecute" => t.data.args[4].w = 0
           /\ i.fn = "execute7579" => t.data.args[1].w = 0
           /\ i.fn = "multiSend" => \A n \in DOMAIN t.data.args[1].b.records :
                                       t.data.args[1].b.records[n] = 0
<1> DEFINE a == t.data.args
<1>1. WrapperFindings(i, a) = {}
  BY AllowedCall
<1>2. i.fn = "safeExecute" => a[4].w = 0
  BY <1>1, NoFinding DEF WrapperFindings, Wrappers
<1>3. i.fn = "execute7579" => a[1].w = 0
  BY <1>1, NoFinding DEF WrapperFindings, Wrappers
<1>4. i.fn = "multiSend" => MultiSendDelegates(a[1]) = "calls"
  BY <1>1, NoFinding DEF WrapperFindings, Wrappers
<1>5. QED
  BY <1>2, <1>3, <1>4 DEF MultiSendDelegates

(* checkPermit likewise. *)
LEMMA AllowedPermitConforms ==
    ASSUME NEW i, NEW r, NEW p, CheckPermit(i, r, p) = "allow"
    PROVE  ConformingPermit(i, r)
<1> DEFINE other == r.token # i.token \/ r.spender # i.spender
                       \/ (i.amount # Unlimited /\ (r.amount # i.amount \/ r.amount = MaxAmount))
           late == ~ InRange(r.expiration, i.expiration) \/ ~ InRange(r.deadline, i.deadline)
           unread == Unread \in {r.token, r.spender, r.amount, r.expiration, r.deadline}
           place == Raise(r.domain # <<i.chain, Target(i)>>, "701")
           struct == Raise(r.primary # "PermitSingle" \/ ~ r.struct, "702")
           grant == Raise(other, "705")
           window == Raise(late, "703")
           rest == IF unread THEN {"709"}
                   ELSE grant \cup window \cup Raise(PolicyRefuses(p, PermitGrant(r)), "706")
<1>1. Decide(place \cup struct \cup rest) = "allow"
  BY Zenon DEF CheckPermit
<1>2. place = {} /\ struct = {} /\ rest = {}
  <2> HIDE DEF place, struct, rest
  <2>1. QED
    BY <1>1, NoFinding
<1>3. ~ unread /\ grant = {} /\ window = {}
  <2> HIDE DEF grant, window, unread
  <2>1. QED
    BY <1>2
<1>4. /\ r.token = i.token /\ r.spender = i.spender /\ i.amount \in {Unlimited, r.amount}
      /\ InRange(r.expiration, i.expiration) /\ InRange(r.deadline, i.deadline)
  BY <1>3, NoFinding
<1>5. r.domain = <<i.chain, Target(i)>> /\ r.struct
  BY <1>2, NoFinding
<1>6. QED
  BY <1>4, <1>5 DEF ConformingPermit

-----------------------------------------------------------------------------
(* What presets.uniswapV4 lets through.                                     *)

(* What each sort of rule says of a value. *)
LEMMA EqMeans ==
    ASSUME Nesting, NEW T, NEW x, NEW v, Means(T, Eq(x), v)
    PROVE  v = x
<1>1. MeansStep(Means, T, Eq(x), v)
  BY DEF Nesting
<1>2. QED
  BY <1>1 DEF MeansStep, Has, Eq

LEMMA BoundMeans ==
    ASSUME Nesting, NEW T, NEW b, NEW v, Means(T, BoundRule(b), v), IsExact(b)
    PROVE  v.w = Upper(b)
<1>1. BoundRule(b) = Eq(W(b.eq)) /\ Upper(b) = b.eq
  BY DEF BoundRule, Upper
<1>2. v = W(b.eq)
  BY <1>1, EqMeans
<1>3. QED
  BY <1>1, <1>2 DEF W

LEMMA PartMeans ==
    ASSUME Nesting, NEW T, NEW r, NEW v, Means(T, [tuple |-> r], v), NEW n \in DOMAIN r
    PROVE  Means(T.parts[n], r[n], v.l[n])
<1>1. MeansStep(Means, T, [tuple |-> r], v)
  BY DEF Nesting
<1>2. QED
  BY <1>1 DEF MeansStep, Has

LEMMA ItemMeans ==
    ASSUME Nesting, NEW T, NEW r, NEW v, Means(T, [items |-> r], v), NEW n \in DOMAIN r
    PROVE  Means(T.of, r[n], v.l[n])
<1>1. MeansStep(Means, T, [items |-> r], v)
  BY DEF Nesting
<1>2. QED
  BY <1>1 DEF MeansStep, Has

LEMMA ValueMeans ==
    ASSUME Nesting, NEW T, NEW types, NEW r, NEW v, Means(T, [abi |-> types, args |-> r], v),
           NEW n \in DOMAIN r
    PROVE  Means(types[n], r[n], v.b.enc[n])
<1>1. MeansStep(Means, T, [abi |-> types, args |-> r], v)
  BY DEF Nesting
<1>2. QED
  BY <1>1 DEF MeansStep, Has

(* And what each sort needs, to be read. *)
LEMMA BoundReadable ==
    ASSUME Nesting, NEW T, NEW b, Readable(T, BoundRule(b))
    PROVE  T.t = "word" => Upper(b) \in T.of \cup {None}
<1>1. PICK d \in Int : ReadsStep(Reads, T, BoundRule(b), d)
  BY DEF Nesting, Readable
<1>2. CASE IsExact(b)
  <2>1. BoundRule(b).eq = W(b.eq) /\ DOMAIN BoundRule(b) = {"eq"} /\ Upper(b) = b.eq
    BY <1>2 DEF BoundRule, Eq, Upper
  <2>2. HasType(T, W(b.eq), 0)
    <3> HIDE DEF BoundRule
    <3>1. QED
      BY <1>1, <2>1 DEF ReadsStep, Has
  <2>3. HasTypeStep(HasType, T, W(b.eq), 0)
    <3> DEFINE value == W(b.eq)
    <3>1. \A level \in Int : HasType(T, value, level) <=> HasTypeStep(HasType, T, value, level)
      BY Zenon DEF Nesting
    <3> HIDE DEF value
    <3>2. 0 \in Int
      OBVIOUS
    <3>3. HasType(T, value, 0) <=> HasTypeStep(HasType, T, value, 0)
      BY <3>1, <3>2, Zenon
    <3>4. QED
      BY <2>2, <3>3, Zenon DEF value
  <2>4. QED
    BY <2>1, <2>3 DEF HasTypeStep, W
<1>3. CASE ~ IsExact(b)
  <2>1. BoundRule(b).bound = b /\ DOMAIN BoundRule(b) = {"bound"} /\ Upper(b) = b.lte
    BY <1>3 DEF BoundRule, Upper
  <2>2. {b.lte, b.gte} \subseteq T.of \cup {None}
    <3> HIDE DEF BoundRule
    <3>1. QED
      BY <1>1, <2>1 DEF ReadsStep, Has
  <2>3. QED
    BY <2>1, <2>2
<1>4. QED
  BY <1>2, <1>3

LEMMA PartReadable ==
    ASSUME Nesting, NEW T, NEW r, Readable(T, [tuple |-> r]), NEW n \in DOMAIN r
    PROVE  Readable(T.parts[n], r[n])
<1>1. PICK d \in Int : ReadsStep(Reads, T, [tuple |-> r], d)
  BY DEF Nesting, Readable
<1>2. Reads(T.parts[n], r[n], d + 1) /\ d + 1 \in Int
  BY <1>1 DEF ReadsStep, ReadsAll, Has
<1>3. QED
  BY <1>2 DEF Readable

LEMMA ItemReadable ==
    ASSUME Nesting, NEW T, NEW r, Readable(T, [items |-> r]), NEW n \in DOMAIN r
    PROVE  Readable(T.of, r[n])
<1>1. PICK d \in Int : ReadsStep(Reads, T, [items |-> r], d)
  BY DEF Nesting, Readable
<1>2. Reads(T.of, r[n], d + 1) /\ d + 1 \in Int
  BY <1>1 DEF ReadsStep, Has
<1>3. QED
  BY <1>2 DEF Readable

LEMMA ValueReadable ==
    ASSUME Nesting, NEW T, NEW types, NEW r, Readable(T, [abi |-> types, args |-> r]), NEW n \in DOMAIN r
    PROVE  Readable(types[n], r[n])
<1>1. PICK d \in Int : ReadsStep(Reads, T, [abi |-> types, args |-> r], d)
  BY DEF Nesting, Readable
<1>2. Reads(types[n], r[n], d + 1) /\ d + 1 \in Int
  BY <1>1 DEF ReadsStep, ReadsAll, Has
<1>3. QED
  BY <1>2 DEF Readable

(* The rules of a swap, one inside the other. *)
SwapParts(p) ==
    <<[tuple |-> <<Eq(W(p.in)), Eq(W(p.out))>>], BoundRule(p.amountIn),
      AtLeast(p.minOut)>>
    \o (IF p.fields = 6 THEN <<AnyValue>> ELSE <<>>) \o <<Eq(NoBytes)>>
SwapActions(p) == <<
    [abi |-> SwapInput(p.fields), args |-> <<[tuple |-> SwapParts(p)]>>],
    [abi |-> Settle, args |-> <<Eq(W(p.in)), BoundRule(AtMost(Upper(p.amountIn)))>>],
    [abi |-> Settle, args |-> <<Eq(W(p.out)), AtLeast(p.minOut)>>]>>

LEMMA SwapNests ==
    ASSUME NEW p
    PROVE  /\ SwapRules(p) = [abi |-> SubPlan, args |-> <<Eq(Actions), [items |-> SwapActions(p)]>>]
           /\ SubPlan[1] = Bytes /\ SubPlan[2].of = Bytes
           /\ SwapActions(p)[1] = [abi |-> SwapInput(p.fields), args |-> <<[tuple |-> SwapParts(p)]>>]
           /\ 1 \in DOMAIN SwapActions(p)
           /\ SwapInput(p.fields)[1].parts[1] = Pool /\ SwapInput(p.fields)[1].parts[2] = Amount
           /\ 1 \in DOMAIN SwapParts(p) /\ 2 \in DOMAIN SwapParts(p)
           /\ SwapParts(p)[1] = [tuple |-> <<Eq(W(p.in)), Eq(W(p.out))>>]
           /\ SwapParts(p)[2] = BoundRule(p.amountIn)
<1>1. SwapRules(p) = [abi |-> SubPlan, args |-> <<Eq(Actions), [items |-> SwapActions(p)]>>]
  BY Zenon DEF SwapRules, SwapActions, SwapParts
<1>2. SubPlan[1] = Bytes /\ SubPlan[2].of = Bytes
  BY DEF SubPlan, ListOf
<1>3. /\ SwapActions(p)[1] = [abi |-> SwapInput(p.fields), args |-> <<[tuple |-> SwapParts(p)]>>]
      /\ 1 \in DOMAIN SwapActions(p)
  BY DEF SwapActions
<1>4. SwapInput(p.fields)[1].parts[1] = Pool /\ SwapInput(p.fields)[1].parts[2] = Amount
  <2>1. CASE p.fields = 6
    BY <2>1 DEF SwapInput, Tuple
  <2>2. CASE p.fields # 6
    BY <2>2 DEF SwapInput, Tuple
  <2>3. QED
    BY <2>1, <2>2
<1> DEFINE a == [tuple |-> <<Eq(W(p.in)), Eq(W(p.out))>>]
           b == BoundRule(p.amountIn)
           c == AtLeast(p.minOut)
           e == Eq(NoBytes)
<1>5. 1 \in DOMAIN SwapParts(p) /\ 2 \in DOMAIN SwapParts(p) /\ SwapParts(p)[1] = a /\ SwapParts(p)[2] = b
  <2> HIDE DEF a, b, c, e
  <2>1. CASE p.fields = 6
    <3>1. SwapParts(p) = <<a, b, c>> \o <<AnyValue>> \o <<e>>
      BY <2>1 DEF SwapParts, a, b, c, e
    <3>2. QED
      BY <3>1
  <2>2. CASE p.fields # 6
    <3>1. SwapParts(p) = <<a, b, c>> \o <<>> \o <<e>>
      BY <2>2 DEF SwapParts, a, b, c, e
    <3>2. QED
      BY <3>1
  <2>3. QED
    BY <2>1, <2>2
<1>6. QED
  BY <1>1, <1>2, <1>3, <1>4, <1>5

(* The first of the actions is the swap that was asked for. *)
LEMMA SwapMeans ==
    ASSUME Nesting, NEW p, NEW v, Means(Bytes, SwapRules(p), v)
    PROVE  /\ v.b.enc[1] = Actions
           /\ LET swap == v.b.enc[2].l[1].b.enc[1].l
              IN swap[1].l[1] = W(p.in) /\ (IsExact(p.amountIn) => swap[2].w = Upper(p.amountIn))
<1> DEFINE plan == v.b.enc
           input == plan[2].l[1]
           swap == input.b.enc[1]
           actions == <<Eq(Actions), [items |-> SwapActions(p)]>>
           inner == <<[tuple |-> SwapParts(p)]>>
           currencies == <<Eq(W(p.in)), Eq(W(p.out))>>
<1>1. /\ 1 \in DOMAIN actions /\ 2 \in DOMAIN actions /\ actions[1] = Eq(Actions)
      /\ actions[2] = [items |-> SwapActions(p)]
      /\ 1 \in DOMAIN inner /\ inner[1] = [tuple |-> SwapParts(p)]
      /\ 1 \in DOMAIN currencies /\ currencies[1] = Eq(W(p.in))
  OBVIOUS
<1>2. /\ SwapRules(p) = [abi |-> SubPlan, args |-> actions]
      /\ SubPlan[1] = Bytes /\ SubPlan[2].of = Bytes
      /\ 1 \in DOMAIN SwapActions(p) /\ SwapActions(p)[1] = [abi |-> SwapInput(p.fields), args |-> inner]
      /\ SwapInput(p.fields)[1].parts[1] = Pool /\ SwapInput(p.fields)[1].parts[2] = Amount
      /\ 1 \in DOMAIN SwapParts(p) /\ 2 \in DOMAIN SwapParts(p)
      /\ SwapParts(p)[1] = [tuple |-> currencies] /\ SwapParts(p)[2] = BoundRule(p.amountIn)
  BY SwapNests
<1> HIDE DEF actions, inner, currencies
<1>3. Means(Bytes, [abi |-> SubPlan, args |-> actions], v)
  BY <1>2
<1>4. Means(Bytes, Eq(Actions), plan[1]) /\ Means(SubPlan[2], [items |-> SwapActions(p)], plan[2])
  <2>1. Means(SubPlan[1], actions[1], plan[1])
    BY <1>1, <1>3, ValueMeans
  <2>2. Means(SubPlan[2], actions[2], plan[2])
    BY <1>1, <1>3, ValueMeans
  <2>3. QED
    BY <1>1, <1>2, <2>1, <2>2
<1>5. plan[1] = Actions
  BY <1>4, EqMeans
<1>6. Means(SubPlan[2].of, SwapActions(p)[1], input)
  BY <1>2, <1>4, ItemMeans
<1>7. Means(Bytes, [abi |-> SwapInput(p.fields), args |-> inner], input)
  BY <1>2, <1>6
<1>8. Means(SwapInput(p.fields)[1], inner[1], swap)
  BY <1>1, <1>7, ValueMeans
<1>9. Means(SwapInput(p.fields)[1], [tuple |-> SwapParts(p)], swap)
  BY <1>1, <1>8
<1>10. Means(Pool, [tuple |-> currencies], swap.l[1]) /\ Means(Amount, BoundRule(p.amountIn), swap.l[2])
  <2>1. Means(SwapInput(p.fields)[1].parts[1], SwapParts(p)[1], swap.l[1])
    BY <1>2, <1>9, PartMeans
  <2>2. Means(SwapInput(p.fields)[1].parts[2], SwapParts(p)[2], swap.l[2])
    BY <1>2, <1>9, PartMeans
  <2>3. QED
    BY <1>2, <2>1, <2>2
<1>11. Means(Pool.parts[1], currencies[1], swap.l[1].l[1])
  BY <1>1, <1>10, PartMeans
<1>12. swap.l[1].l[1] = W(p.in)
  BY <1>1, <1>11, EqMeans
<1>13. ASSUME IsExact(p.amountIn) PROVE swap.l[2].w = Upper(p.amountIn)
  <2> DEFINE bound == p.amountIn
             value == swap.l[2]
  <2>1. IsExact(bound) /\ Means(Amount, BoundRule(bound), value)
    BY <1>10, <1>13
  <2> HIDE DEF bound, value
  <2>2. value.w = Upper(bound)
    BY <2>1, BoundMeans
  <2>3. QED
    BY <2>2 DEF bound, value
<1>14. QED
  BY <1>5, <1>12, <1>13

LEMMA SwapReads ==
    ASSUME Nesting, NEW p, Readable(Bytes, SwapRules(p))
    PROVE  Upper(p.amountIn) \in 0..MaxAmount \cup {None}
<1> DEFINE actions == <<Eq(Actions), [items |-> SwapActions(p)]>>
           inner == <<[tuple |-> SwapParts(p)]>>
<1>1. /\ 2 \in DOMAIN actions /\ actions[2] = [items |-> SwapActions(p)]
      /\ 1 \in DOMAIN inner /\ inner[1] = [tuple |-> SwapParts(p)]
  OBVIOUS
<1>2. /\ SwapRules(p) = [abi |-> SubPlan, args |-> actions] /\ SubPlan[2].of = Bytes
      /\ 1 \in DOMAIN SwapActions(p) /\ SwapActions(p)[1] = [abi |-> SwapInput(p.fields), args |-> inner]
      /\ SwapInput(p.fields)[1].parts[2] = Amount
      /\ 2 \in DOMAIN SwapParts(p) /\ SwapParts(p)[2] = BoundRule(p.amountIn)
  BY SwapNests
<1> HIDE DEF actions, inner
<1>3. Readable(Bytes, [abi |-> SubPlan, args |-> actions])
  BY <1>2
<1>4. Readable(SubPlan[2], [items |-> SwapActions(p)])
  BY <1>1, <1>3, ValueReadable
<1>5. Readable(Bytes, [abi |-> SwapInput(p.fields), args |-> inner])
  BY <1>2, <1>4, ItemReadable
<1>6. Readable(SwapInput(p.fields)[1], [tuple |-> SwapParts(p)])
  BY <1>1, <1>5, ValueReadable
<1>7. Readable(Amount, BoundRule(p.amountIn))
  BY <1>2, <1>6, PartReadable
<1>8. Upper(p.amountIn) \in Amount.of \cup {None}
  BY <1>7, BoundReadable DEF Amount, Int_
<1>9. QED
  BY <1>8 DEF Amount, Int_

(* The commands and the inputs of a swap, a permit before it or not. *)
SwapCommands(p) == IF p.permit = None THEN <<"swap">> ELSE <<"permit", "swap">>
SwapItems(p) == (IF p.permit = None THEN <<>> ELSE <<PermitRules(p)>>) \o <<SwapRules(p)>>
SwapPlace(p) == IF p.permit = None THEN 1 ELSE 2

LEMMA SwapIntentIs ==
    ASSUME NEW p
    PROVE  LET i == SwapIntent(p) IN
           /\ i.kind = "call" /\ i.fn = "execute"
           /\ i.value = IF p.in = Coin THEN Exactly(Upper(p.amountIn)) ELSE Exactly(0)
           /\ DOMAIN i.args = 1..3
           /\ i.args[1] = Eq(B([commands |-> SwapCommands(p)])) /\ i.args[2] = [items |-> SwapItems(p)]
           /\ SwapPlace(p) \in DOMAIN SwapItems(p) /\ SwapItems(p)[SwapPlace(p)] = SwapRules(p)
           /\ {n \in DOMAIN SwapCommands(p) : SwapCommands(p)[n] = "swap"} = {SwapPlace(p)}
           /\ Signature["execute"][1] = Bytes /\ Signature["execute"][2].of = Bytes
<1>1. /\ SwapIntent(p).kind = "call" /\ SwapIntent(p).fn = "execute"
      /\ SwapIntent(p).value = IF p.in = Coin THEN Exactly(Upper(p.amountIn)) ELSE Exactly(0)
      /\ SwapIntent(p).args = <<Eq(B([commands |-> SwapCommands(p)])), [items |-> SwapItems(p)],
                                BoundRule(p.deadline)>>
  BY DEF SwapIntent, CallIntent, SwapCommands, SwapItems
<1>2. SwapPlace(p) \in DOMAIN SwapItems(p) /\ SwapItems(p)[SwapPlace(p)] = SwapRules(p)
  <2>1. CASE p.permit = None
    <3>1. SwapItems(p) = <<>> \o <<SwapRules(p)>> /\ SwapPlace(p) = 1
      BY <2>1 DEF SwapItems, SwapPlace
    <3>2. QED
      BY <3>1
  <2>2. CASE p.permit # None
    <3>1. SwapItems(p) = <<PermitRules(p)>> \o <<SwapRules(p)>> /\ SwapPlace(p) = 2
      BY <2>2 DEF SwapItems, SwapPlace
    <3>2. QED
      BY <3>1
  <2>3. QED
    BY <2>1, <2>2
<1>3. {n \in DOMAIN SwapCommands(p) : SwapCommands(p)[n] = "swap"} = {SwapPlace(p)}
  BY DEF SwapCommands, SwapPlace
<1>4. Signature["execute"][1] = Bytes /\ Signature["execute"][2].of = Bytes
  BY DEF Signature, ListOf
<1>5. QED
  BY <1>1, <1>2, <1>3, <1>4

(* What is allowed under a swap's intent runs that swap, and no other. *)
LEMMA OneSwap ==
    ASSUME Nesting, NEW p, NEW t,
           \A n \in 1..3 : Means(Signature["execute"][n], SwapIntent(p).args[n], t.data.args[n])
    PROVE  \E swap : /\ SwapsRun(t) = {swap} /\ swap[1].l[1].w = p.in
                     /\ IsExact(p.amountIn) => swap[2].w = Upper(p.amountIn)
<1> DEFINE a == t.data.args
           k == SwapPlace(p)
           commands == SwapCommands(p)
           items == SwapItems(p)
           plan == a[2].l[k].b.enc
           swap == plan[2].l[1].b.enc[1].l
<1>1. /\ Means(Bytes, Eq(B([commands |-> commands])), a[1])
      /\ Means(Signature["execute"][2], [items |-> items], a[2])
      /\ k \in DOMAIN items /\ items[k] = SwapRules(p) /\ Signature["execute"][2].of = Bytes
      /\ {n \in DOMAIN commands : commands[n] = "swap"} = {k}
  <2>1. /\ SwapIntent(p).args[1] = Eq(B([commands |-> commands]))
        /\ SwapIntent(p).args[2] = [items |-> items]
        /\ k \in DOMAIN items /\ items[k] = SwapRules(p)
        /\ Signature["execute"][1] = Bytes /\ Signature["execute"][2].of = Bytes
        /\ {n \in DOMAIN commands : commands[n] = "swap"} = {k}
    BY SwapIntentIs
  <2>2. /\ Means(Signature["execute"][1], SwapIntent(p).args[1], a[1])
        /\ Means(Signature["execute"][2], SwapIntent(p).args[2], a[2])
    OBVIOUS
  <2>3. QED
    BY <2>1, <2>2
<1> HIDE DEF a, k, commands, items
<1>2. SwapPositions(a) = {k}
  <2>1. a[1] = B([commands |-> commands])
    BY <1>1, EqMeans
  <2>2. a[1].b.commands = commands
    BY <2>1 DEF B
  <2>3. QED
    BY <1>1, <2>2 DEF SwapPositions
<1>3. Means(Bytes, SwapRules(p), a[2].l[k])
  <2>1. Means(Signature["execute"][2].of, items[k], a[2].l[k])
    BY <1>1, ItemMeans
  <2>2. QED
    BY <1>1, <2>1
<1>4. /\ plan[1] = Actions /\ swap[1].l[1] = W(p.in)
      /\ IsExact(p.amountIn) => swap[2].w = Upper(p.amountIn)
  BY <1>3, SwapMeans
<1>5. PlansOf(a) = {plan}
  BY <1>2 DEF PlansOf
<1> HIDE DEF plan, swap
<1>6. SwapPositions(plan) = {1}
  <2>1. Actions.b.commands = <<"swap", "settle", "take">>
    BY DEF Actions, B
  <2>2. plan[1].b.commands = <<"swap", "settle", "take">>
    BY <1>4, <2>1
  <2> DEFINE three == <<"swap", "settle", "take">>
  <2>3. {n \in DOMAIN three : three[n] = "swap"} = {1}
    OBVIOUS
  <2>4. QED
    BY <2>2, <2>3 DEF SwapPositions
<1>7. SwapsRun(t) = {swap}
  <2>1. PlansOf(plan) = {plan[2].l[1].b.enc}
    BY <1>6 DEF PlansOf
  <2>2. UNION {PlansOf(x) : x \in PlansOf(a)} = {plan[2].l[1].b.enc}
    BY <1>5, <2>1
  <2>3. QED
    BY <2>2 DEF SwapsRun, a, swap
<1>8. swap[1].l[1].w = p.in
  <2>1. W(p.in).w = p.in
    BY DEF W
  <2>2. QED
    BY <1>4, <2>1
<1>9. QED
  BY <1>4, <1>7, <1>8

(* And is paid for to the coin. *)
LEMMA SwapPaidFor ==
    ASSUME Nesting, NEW p, SwapExactInSingle(p) # Unread,
           NEW t, t.value \in Int, NEW q, CheckTransaction(SwapExactInSingle(p), t, q) = "allow"
    PROVE  \E swap : /\ SwapsRun(t) = {swap}
                     /\ t.value = IF swap[1].l[1].w = Coin THEN swap[2].w ELSE 0
<1> DEFINE i == SwapIntent(p)
           upper == Upper(p.amountIn)
<1>1. /\ SwapExactInSingle(p) = i /\ upper # None
      /\ p.in = Coin => IsExact(p.amountIn)
  BY DEF SwapExactInSingle
<1>2. CheckTransaction(i, t, q) = "allow"
  BY <1>1
<1>3. i.kind = "call" /\ i.fn = "execute" /\ DOMAIN i.args = 1..3
  BY SwapIntentIs
<1> HIDE DEF i
<1>4. IntentReads(i) /\ Call(i, t) = {} /\ InRange(t.value, ValueBound(i))
  BY <1>2, <1>3, AllowedCall
<1>5. \A n \in 1..3 : Means(Signature["execute"][n], i.args[n], t.data.args[n])
  BY <1>3, <1>4, CallConforms
<1>6. PICK swap : /\ SwapsRun(t) = {swap} /\ swap[1].l[1].w = p.in
                  /\ IsExact(p.amountIn) => swap[2].w = upper
  BY <1>5, OneSwap DEF i
<1>7. upper \in 0..MaxAmount
  <2>1. ReadsAll(Reads, Signature["execute"], i.args, 0)
    BY <1>3, <1>4 DEF IntentReads
  <2>2. Readable(Signature["execute"][2], i.args[2])
    BY <1>3, <2>1 DEF ReadsAll, Readable
  <2>3. Readable(Signature["execute"][2], [items |-> SwapItems(p)])
    BY <2>2, SwapIntentIs DEF i
  <2>4. Readable(Bytes, SwapRules(p))
    <3> DEFINE k == SwapPlace(p)
               items == SwapItems(p)
    <3>1. k \in DOMAIN items /\ items[k] = SwapRules(p) /\ Signature["execute"][2].of = Bytes
      BY SwapIntentIs
    <3> HIDE DEF k, items
    <3>2. Readable(Signature["execute"][2], [items |-> items])
      BY <2>3 DEF items
    <3>3. Readable(Signature["execute"][2].of, items[k])
      BY <3>1, <3>2, ItemReadable
    <3>4. QED
      BY <3>1, <3>3
  <2>5. QED
    BY <1>1, <2>4, SwapReads
<1>8. ASSUME p.in = Coin PROVE t.value = swap[2].w
  <2>1. i.value = Exactly(upper)
    BY <1>8, SwapIntentIs DEF i
  <2>2. i.value # None
    BY <1>7, <2>1, NoneAssumption DEF Exactly
  <2>3. InRange(t.value, Exactly(upper))
    BY <1>3, <1>4, <2>1, <2>2 DEF ValueBound, Absent
  <2>4. t.value = upper
    BY <1>7, <2>3, NoneAssumption DEF InRange, Exactly
  <2>5. swap[2].w = upper
    BY <1>1, <1>6, <1>8
  <2>6. QED
    BY <2>4, <2>5
<1>9. ASSUME p.in # Coin PROVE t.value = 0
  <2>1. i.value = Exactly(0)
    BY <1>9, SwapIntentIs DEF i
  <2>2. InRange(t.value, Exactly(0))
    BY <1>3, <1>4, <2>1 DEF ValueBound, Absent
  <2>3. QED
    BY <2>2, NoneAssumption DEF InRange, Exactly
<1>10. QED
  BY <1>6, <1>8, <1>9

-----------------------------------------------------------------------------
(* The inductive invariant. *)

(* The call is checked, all but its totals, and nothing the host does       *)
(* matters any more.                                                        *)
Past == {"hold", "wallet", "signed"}

Shape ==
    /\ call \in Calls /\ now \in Int
    /\ wallet \in [kind : Wallets \cup {"local"}, chain : Chains]
    /\ intent \in Intents \cup {None}
    /\ pc = "called" => args = call.args
    /\ pc \in {"called", "intent", "recover"} => intent = None
    /\ pc = "intent" => call.method \in {"transaction", "typedData"}
    /\ pc = "chain" => call.method = "transaction"
    /\ pc = "recover" => call.method = "typedData"
    /\ intent # None => call.method \in {"transaction", "typedData"}
    /\ signed # None => pc = "signed"
    /\ pc = "signed" => signed.what = handed

(* A transaction is the one read and allowed, on the intent's chain. *)
TransactionPart ==
    call.method = "transaction" =>
        /\ pc \in {"intent", "chain"} \cup Past => \E tx : tx.value \in Int /\ read = Reading(tx)
        /\ pc \in {"chain"} \cup Past => /\ intent \in Intents \ {Unread}
                                         /\ CheckTransaction(intent, read, pinned) = "allow"
        /\ pc \in Past => handed = Handed(intent)
        /\ pc = "signed" => signed.chain = intent.chain

(* And an allowance the one read and allowed. *)
PermitPart ==
    call.method = "typedData" /\ intent # None /\ pc \in Past =>
        handed = read /\ CheckPermit(intent, read, pinned) = "allow"

(* A payment on its way to the wallet is one that pays, and is handed over  *)
(* as it was read if the host has not put another in its place.             *)
AsQuoted == Pays(read) /\ (args = call.args => handed = read)

QuotePart ==
    call.method = "typedData" /\ intent = None =>
        /\ pc = "recover" =>
              /\ read = call.args.signed /\ read # None /\ call.args.typed = None
              /\ <<call.quote.chain, call.quote.asset>> \in Trusted
              /\ Unread \notin {read.after, read.before}
        /\ pc \in Past => AsQuoted

(* A login, or a message that is none. *)
NamesSiteOnly(m) ==
    \A n \in DOMAIN m :
        LET text == TextSigned(m[n]) IN
        LinesOf(text, "header") # {} =>
            /\ Site # NoSite
            /\ \A k \in LinesOf(text, "header") \cup LinesOf(text, "uri") : Names(text[k].site, Site)

MessagePart ==
    call.method \in {"message", "allowed", "signIn"} /\ pc \in Past => NamesSiteOnly(handed)

IInv == Shape /\ TransactionPart /\ PermitPart /\ QuotePart /\ MessagePart

-----------------------------------------------------------------------------
(* It holds at first, and where the call has ended. *)

LEMMA InitInv == Init => IInv
<1> SUFFICES ASSUME Init PROVE IInv
  OBVIOUS
<1>1. pc = "called" /\ signed = None /\ intent = None /\ args = call.args /\ call \in Calls /\ now = 1
  BY DEF Init
<1>2. wallet \in [kind : Wallets \cup {"local"}, chain : Chains]
  BY DEF Init
<1>3. QED
  BY <1>1, <1>2 DEF IInv, Shape, TransactionPart, PermitPart, QuotePart, MessagePart, Past

(* A call that ends without a signature. *)
LEMMA EndedInv ==
    ASSUME IInv, pc' \in {"refused", "failed"}, UNCHANGED <<call, now, wallet, signed>>, signed = None,
           intent' = intent \/ (intent' \in Intents /\ call.method \in {"transaction", "typedData"})
    PROVE  IInv'
BY DEF IInv, Shape, TransactionPart, PermitPart, QuotePart, MessagePart, Past

LEMMA NotSigned ==
    ASSUME IInv, pc # "signed"
    PROVE  signed = None
BY DEF IInv, Shape

-----------------------------------------------------------------------------
(* Transactions and allowances under an intent. *)

LEMMA ReadsInv ==
    ASSUME IInv, ReadTransaction \/ ReadPermit
    PROVE  IInv'
<1>1. pc = "called" /\ signed = None /\ UNCHANGED <<call, now, wallet, signed, intent>> /\ intent = None
  BY NotSigned DEF ReadTransaction, ReadPermit, Taken, At, outside, IInv, Shape
<1>2. CASE pc' = "refused"
  BY <1>1, <1>2, EndedInv
<1>3. CASE pc' = "intent"
  <2>1. call.method = "transaction" => args.tx.value \in Int /\ read' = Reading(args.tx)
    <3> SUFFICES ASSUME call.method = "transaction" PROVE args.tx.value \in Int /\ read' = Reading(args.tx)
      OBVIOUS
    <3>1. ReadFindings(args.tx) = {} /\ read' = Reading(args.tx)
      BY <1>3 DEF ReadTransaction, ReadPermit, Taken, At
    <3>2. args.tx.value # Unread
      BY <3>1, NoFinding DEF ReadFindings
    <3>3. args.tx.value \in {Unread} \cup Int
      BY <1>1, InputAssumption DEF IInv, Shape
    <3>4. QED
      BY <3>1, <3>2, <3>3
  <2>2. call.method \in {"transaction", "typedData"}
    BY DEF ReadTransaction, ReadPermit, Taken, At
  <2>3. QED
    BY <1>1, <1>3, <2>1, <2>2
       DEF IInv, Shape, TransactionPart, PermitPart, QuotePart, MessagePart, Past
<1>4. QED
  BY <1>2, <1>3 DEF ReadTransaction, ReadPermit

LEMMA AnsweredInv ==
    ASSUME IInv, NEW i \in Intents, Answered(i)
    PROVE  IInv'
<1>1. /\ pc = "intent" /\ signed = None /\ UNCHANGED <<call, now, wallet, signed, read, pinned>>
      /\ intent' = i /\ i # None /\ call.method \in {"transaction", "typedData"}
  BY NotSigned, InputAssumption DEF Answered, outside, IInv, Shape
<1>2. CASE pc' = "refused"
  BY <1>1, <1>2, EndedInv
<1>3. CASE pc' # "refused" /\ call.method = "transaction"
  <2>1. pc' = "chain" /\ i # Unread /\ CheckTransaction(i, read, pinned) = "allow"
    BY <1>3 DEF Answered
  <2>2. \E tx : tx.value \in Int /\ read = Reading(tx)
    BY <1>1, <1>3 DEF IInv, TransactionPart
  <2>3. QED
    BY <1>1, <1>3, <2>1, <2>2
       DEF IInv, Shape, TransactionPart, PermitPart, QuotePart, MessagePart, Past
<1>4. CASE pc' # "refused" /\ call.method = "typedData"
  <2>1. pc' = "hold" /\ handed' = read /\ CheckPermit(i, read, pinned) = "allow"
    BY <1>4 DEF Answered
  <2>2. QED
    BY <1>1, <1>4, <2>1
       DEF IInv, Shape, TransactionPart, PermitPart, QuotePart, MessagePart, Past
<1>5. QED
  BY <1>1, <1>2, <1>3, <1>4

LEMMA ChainAnsweredInv ==
    ASSUME IInv, ChainAnswered
    PROVE  IInv'
<1>1. /\ pc = "chain" /\ signed = None /\ call.method = "transaction"
      /\ UNCHANGED <<call, now, wallet, signed, read, pinned, intent>>
  BY NotSigned DEF ChainAnswered, outside, IInv, Shape
<1>2. CASE pc' = "refused"
  BY <1>1, <1>2, EndedInv
<1>3. CASE pc' = "hold" /\ handed' = Handed(intent)
  <2>1. handed' = Handed(intent)'
    BY <1>1, <1>3 DEF Handed
  <2>2. QED
    BY <1>1, <1>3, <2>1
       DEF IInv, Shape, TransactionPart, PermitPart, QuotePart, MessagePart, Past
<1>4. QED
  BY <1>2, <1>3 DEF ChainAnswered

-----------------------------------------------------------------------------
(* Payments. *)

LEMMA RefusedInv ==
    ASSUME IInv, RefuseCall \/ RefusePayment \/ WalletThrows
    PROVE  IInv'
<1>1. signed = None
  BY NotSigned DEF RefuseCall, RefusePayment, WalletThrows, PaymentPath, Taken, At
<1>2. pc' \in {"refused", "failed"} /\ UNCHANGED <<call, now, wallet, signed, intent>>
  BY DEF RefuseCall, RefusePayment, WalletThrows, Refuse, outside, mine
<1>3. QED
  BY <1>1, <1>2, EndedInv

(* A payment to sign that is allowed is the one quoted.                     *)
LEMMA TypedAsQuoted ==
    ASSUME IInv, TypedPayment, pc' = "hold"
    PROVE  AsQuoted'
<1> DEFINE q == call.quote
           r == args.typed
<1>1. /\ pc = "called" /\ call.method = "typedData" /\ call \in Calls /\ args = call.args
      /\ UNCHANGED <<call, now>> /\ pinned' = policy /\ q # None /\ r # None
      /\ read' = r /\ handed' = r /\ now \in Int
      /\ CheckTyped(q, r, Options, policy) = "allow"
  BY DEF TypedPayment, PaymentPath, Taken, At, Typed, outside, IInv, Shape
<1>2. /\ TypedReads(q, r, Options)
      /\ TermFindings(q, Options, r) \cup PolicyFindings(q, r, policy)
           \cup Raise(r.before > now + Window(q), "105wide") = {}
  BY <1>1 DEF CheckTyped, Options
<1>3. /\ TermFindings(q, Options, r) = {} /\ PolicyFindings(q, r, policy) = {}
      /\ ~ (r.before > now + Window(q))
  BY <1>2, NoFinding
<1>4. r.to = q.payTo /\ r.value = q.amount /\ (~ Absent(call.payer) => r.from = call.payer)
  BY <1>3 DEF TermFindings, Raise, Options
<1>5. ~ PolicyRefuses(policy, Move(q.asset, r.to, r.value))
  BY <1>3 DEF PolicyFindings, Raise
<1>6. /\ r.primary = "transfer" /\ <<q.chain, q.asset>> \in Trusted
      /\ r.domain = <<q.chain, q.asset>> /\ q.timeout # Unread /\ r.before # Unread
  BY <1>2 DEF TypedReads, QuotedAsset
<1>7. r.before \in Int /\ ~ Has(r, "signer") /\ q.timeout \in {None} \cup Int
  BY <1>1, <1>6, InputAssumption
<1>8. r.before - now <= Day /\ (q.timeout # None => r.before - now <= q.timeout + Slack)
  <2>1. Day \in Nat /\ Slack \in Nat
    BY PaymentAssumption
  <2>2. CASE Absent(q.timeout)
    BY <1>1, <1>3, <1>7, <2>1, <2>2 DEF Window, Absent
  <2>3. CASE ~ Absent(q.timeout)
    <3>1. q.timeout \in Int
      BY <1>7, <2>3 DEF Absent
    <3>2. CASE q.timeout + Slack > Day
      BY <1>1, <1>3, <1>7, <2>1, <3>1, <3>2 DEF Window
    <3>3. CASE ~ (q.timeout + Slack > Day)
      <4>1. ~ (r.before > now + (q.timeout + Slack))
        BY <1>3, <2>3, <3>3 DEF Window
      <4>2. QED
        BY <1>1, <1>7, <2>1, <3>1, <3>3, <4>1
    <3>4. QED
      BY <3>2, <3>3
  <2>4. QED
    BY <2>2, <2>3
<1>9. QED
  BY <1>1, <1>4, <1>5, <1>6, <1>7, <1>8 DEF AsQuoted, Pays

LEMMA TypedPaymentInv ==
    ASSUME IInv, TypedPayment
    PROVE  IInv'
<1>1. /\ pc = "called" /\ call.method = "typedData" /\ intent = None /\ signed = None
      /\ UNCHANGED <<call, now, wallet, intent, signed>>
  BY NotSigned DEF TypedPayment, PaymentPath, Taken, At, outside, IInv, Shape
<1>2. CASE pc' = "refused"
  BY <1>1, <1>2, EndedInv
<1>3. CASE pc' = "hold"
  <2>1. AsQuoted'
    BY <1>3, TypedAsQuoted
  <2>2. QED
    BY <1>1, <1>3, <2>1 DEF IInv, Shape, TransactionPart, PermitPart, QuotePart, MessagePart, Past
<1>4. QED
  BY <1>2, <1>3 DEF TypedPayment

LEMMA SignedPaymentInv ==
    ASSUME IInv, SignedPayment
    PROVE  IInv'
<1>1. /\ pc = "called" /\ call.method = "typedData" /\ intent = None /\ signed = None
      /\ UNCHANGED <<call, now, wallet, intent, signed>> /\ args = call.args
      /\ read' = call.args.signed /\ args.signed # None /\ call.args.typed = None
  BY NotSigned DEF SignedPayment, PaymentPath, Taken, At, Typed, outside, IInv, Shape
<1>2. CASE pc' = "refused"
  BY <1>1, <1>2, EndedInv
<1>3. CASE pc' = "recover"
  <2>1. Presented(call.quote, args.signed, Options, policy) = "recover"
    BY <1>3 DEF SignedPayment
  <2>2. AuthorizationReads(call.quote, args.signed, Options)
    BY <2>1 DEF Presented
  <2>3. /\ <<call.quote.chain, call.quote.asset>> \in Trusted
        /\ Unread \notin {call.args.signed.after, call.args.signed.before}
    BY <1>1, <2>2 DEF AuthorizationReads, QuotedAsset
  <2>4. QED
    BY <1>1, <1>3, <2>3 DEF IInv, Shape, TransactionPart, PermitPart, QuotePart, MessagePart, Past
<1>4. QED
  BY <1>2, <1>3 DEF SignedPayment

(* A signed payment that is allowed is the one quoted, by who it says.      *)
LEMMA SignedAsQuoted ==
    ASSUME IInv, Recovered, pc' = "hold"
    PROVE  AsQuoted'
<1> DEFINE q == call.quote
           p == read
<1>1. /\ pc = "recover" /\ call.method = "typedData" /\ call \in Calls /\ intent = None
      /\ UNCHANGED <<call, args, now, read, pinned>> /\ now \in Int
      /\ Judged(q, p, Options, pinned, p.signer, seen) = "allow"
      /\ handed' = IF args.typed # None THEN args.typed ELSE args.signed
  BY DEF Recovered, Typed, outside, IInv, Shape
<1>2. /\ p = call.args.signed /\ p # None /\ call.args.typed = None
      /\ <<q.chain, q.asset>> \in Trusted /\ Unread \notin {p.after, p.before}
  BY <1>1 DEF IInv, QuotePart
<1> DEFINE other == Raise(p.asset \notin {None, Unread, q.asset}, "103")
           again == Raise(NonceKey(q, p) \in seen, "107")
<1>3. /\ p.signer = p.from
      /\ TermFindings(q, Options, p) \cup PolicyFindings(q, p, pinned) \cup other
           \cup Raise(NotOpen(Options, p), "105") \cup again = {}
  BY <1>1 DEF Judged
<1>4. TermFindings(q, Options, p) = {} /\ PolicyFindings(q, p, pinned) = {} /\ ~ NotOpen(Options, p)
  <2> HIDE DEF other, again
  <2>1. QED
    BY <1>3, NoFinding
<1>5. p.to = q.payTo /\ p.value = q.amount /\ (~ Absent(call.payer) => p.from = call.payer)
  BY <1>4 DEF TermFindings, Raise, Options
<1>6. ~ PolicyRefuses(pinned, Move(q.asset, p.to, p.value))
  BY <1>4 DEF PolicyFindings, Raise
<1>7. p.after \in Int /\ p.before \in Int /\ call.skew \in Int /\ ~ Has(p, "domain")
  BY <1>1, <1>2, InputAssumption
<1>8. ~ (now + call.skew < p.after) /\ ~ (now > p.before + call.skew)
  BY <1>4 DEF NotOpen, Options
<1>9. now <= p.before + call.skew /\ p.after <= now + call.skew
  BY <1>1, <1>7, <1>8
<1>10. QED
  BY <1>1, <1>2, <1>3, <1>5, <1>6, <1>7, <1>9 DEF AsQuoted, Pays

LEMMA RecoveredInv ==
    ASSUME IInv, Recovered
    PROVE  IInv'
<1>1. /\ pc = "recover" /\ call.method = "typedData" /\ intent = None /\ signed = None
      /\ UNCHANGED <<call, now, wallet, intent, signed>>
  BY NotSigned DEF Recovered, outside, IInv, Shape
<1>2. CASE pc' = "refused"
  BY <1>1, <1>2, EndedInv
<1>3. CASE pc' = "hold"
  <2>1. AsQuoted'
    BY <1>3, SignedAsQuoted
  <2>2. QED
    BY <1>1, <1>3, <2>1 DEF IInv, Shape, TransactionPart, PermitPart, QuotePart, MessagePart, Past
<1>4. QED
  BY <1>2, <1>3 DEF Recovered

-----------------------------------------------------------------------------
(* Messages. *)

(* A text that passes as a login shows every reader the site and no other.  *)
LEMMA TextForSite ==
    ASSUME NEW text \in Seq(Line), NEW site, CheckText(text, site), LinesOf(text, "header") # {}
    PROVE  /\ site # NoSite
           /\ \A k \in LinesOf(text, "header") \cup LinesOf(text, "uri") : Names(text[k].site, site)
<1>1. site # NoSite /\ NamesSite(text, site)
  BY DEF CheckText, IsSignInText
<1>2. \A k \in LinesOf(text, "header") : Names(text[k].site, site)
  BY <1>1 DEF NamesSite
<1>3. ASSUME NEW k \in LinesOf(text, "uri") PROVE Names(text[k].site, site)
  <2>1. k \in 1..Len(text) /\ k \in Nat
    BY DEF LinesOf
  <2>2. k = 1 \/ k \in 2..Len(text)
    BY <2>1
  <2>3. k \in Seen(text, "uri")
    BY <1>1, <2>2 DEF NamesSite, Seen, Begins
  <2>4. QED
    BY <1>1, <2>3 DEF NamesSite
<1>4. QED
  BY <1>1, <1>2, <1>3

(* A text of one line, and texts put together. *)
LEMMA OneLine ==
    ASSUME NEW S, NEW s \in Seq(S), s # <<>>, Len(s) <= 1
    PROVE  Len(s) = 1 /\ s[1] \in S /\ Tail(s) = <<>>
<1>1. Len(s) \in Nat /\ Len(s) # 0
  BY EmptySeq
<1>2. Len(s) = 1
  BY <1>1
<1>3. s[1] \in S
  BY <1>2, LenProperties
<1>4. Tail(s) \in Seq(S) /\ Len(Tail(s)) = 0
  BY <1>2, HeadTailProperties
<1>5. QED
  BY <1>2, <1>3, <1>4, EmptySeq

LEMMA Joined ==
    ASSUME NEW a, NEW b, NEW c
    PROVE  /\ <<a>> \o <<>> \o <<c>> = <<a, c>>
           /\ <<a>> \o (<<b>> \o <<>>) \o <<c>> = <<a, b, c>>
<1> DEFINE S == {a, b, c}
<1>1. /\ <<a>> \in Seq(S) /\ <<b>> \in Seq(S) /\ <<c>> \in Seq(S)
      /\ <<a, b>> \in Seq(S) /\ <<a, b, c>> \in Seq(S)
  OBVIOUS
<1>2. <<a>> \o <<>> = <<a>> /\ <<b>> \o <<>> = <<b>>
  BY <1>1, ConcatEmptySeq
<1>3. ASSUME NEW x \in S PROVE <<a>> \o <<x>> = <<a, x>>
  <2> DEFINE both == <<a>> \o <<x>>
  <2>1. <<x>> \in Seq(S) /\ <<a, x>> \in Seq(S)
    OBVIOUS
  <2>2. /\ both \in Seq(S) /\ Len(both) = 2
        /\ \A k \in 1..2 : both[k] = IF k <= 1 THEN <<a>>[k] ELSE <<x>>[k - 1]
    BY <1>1, <2>1, ConcatProperties
  <2> HIDE DEF both
  <2>3. \A k \in 1..2 : both[k] = <<a, x>>[k]
    BY <2>2
  <2>4. both = <<a, x>>
    BY <2>1, <2>2, <2>3, SeqEqual
  <2>5. QED
    BY <2>4 DEF both
<1>4. <<a, b>> \o <<c>> = <<a, b, c>>
  <2> DEFINE both == <<a, b>> \o <<c>>
  <2>1. /\ both \in Seq(S) /\ Len(both) = 3
        /\ \A k \in 1..3 : both[k] = IF k <= 2 THEN <<a, b>>[k] ELSE <<c>>[k - 2]
    BY <1>1, ConcatProperties
  <2> HIDE DEF both
  <2>2. \A k \in 1..3 : both[k] = <<a, b, c>>[k]
    BY <2>1
  <2>3. both = <<a, b, c>>
    BY <1>1, <2>1, <2>2, SeqEqual
  <2>4. QED
    BY <2>3 DEF both
<1>5. QED
  BY <1>2, <1>3, <1>4

(* So does what a wallet writes out of a sign-in input that passes.         *)
LEMMA InputForSite ==
    ASSUME NEW input, input.statement \in Seq(Line), NEW site, CheckInput(input, site)
    PROVE  /\ site # NoSite
           /\ \A k \in LinesOf(Written(input), "header") \cup LinesOf(Written(input), "uri") :
                 Names(Written(input)[k].site, site)
<1> DEFINE s == input.statement
           top == [sort |-> "header", site |-> input.domain, brk |-> "nl", exact |-> TRUE]
           end == [sort |-> "uri", site |-> IF input.uri = NoSite THEN input.domain ELSE input.uri,
                   brk |-> "nl", exact |-> TRUE]
           said == [s[1] EXCEPT !.sort = "text"]
<1>1. site # NoSite /\ Len(s) <= 1 /\ Names(input.domain, site) /\ Names(end.site, site)
  BY DEF CheckInput
<1>2. Names(top.site, site)
  BY <1>1
<1>3. top.sort # "uri" /\ end.sort # "header"
  OBVIOUS
<1>4. CASE s = <<>>
  <2>1. Written(input) = <<top, end>>
    <3>1. Written(input) = <<top>> \o <<>> \o <<end>>
      BY <1>4 DEF Written
    <3> HIDE DEF top, end
    <3>2. QED
      BY <3>1, Joined
  <2>2. QED
    <3> HIDE DEF top, end
    <3>1. QED
      BY <1>1, <1>2, <1>3, <2>1 DEF LinesOf
<1>5. CASE s # <<>>
  <2>1. Len(s) = 1 /\ s[1] \in Line /\ Tail(s) = <<>>
    BY <1>1, <1>5, OneLine
  <2>2. said.sort = "text"
    BY <2>1 DEF Line
  <2>3. Written(input) = <<top, said, end>>
    <3>1. Written(input) = <<top>> \o (<<said>> \o <<>>) \o <<end>>
      BY <1>5, <2>1 DEF Written
    <3> HIDE DEF top, end, said
    <3>2. QED
      BY <3>1, Joined
  <2>4. QED
    <3> HIDE DEF top, end, said
    <3>1. QED
      BY <1>1, <1>2, <1>3, <2>2, <2>3 DEF LinesOf
<1>6. QED
  BY <1>1, <1>4, <1>5

LEMMA MessageInv ==
    ASSUME IInv, Message
    PROVE  IInv'
<1>1. /\ pc = "called" /\ call.method \in {"message", "signIn"} /\ call \in Calls /\ args = call.args
      /\ signed = None /\ intent = None
      /\ UNCHANGED <<call, now, wallet, intent, signed>>
  BY NotSigned DEF Message, outside, IInv, Shape
<1>2. CASE pc' = "refused"
  BY <1>1, <1>2, EndedInv
<1>3. CASE pc' = "wallet" /\ call.method = "message"
  <2>1. CheckMessages(args.messages) /\ handed' = args.messages
    BY <1>3 DEF Message
  <2>2. NamesSiteOnly(handed)'
    <3>1. ASSUME NEW n \in DOMAIN args.messages, LinesOf(args.messages[n], "header") # {}
          PROVE  /\ Site # NoSite
                 /\ \A k \in LinesOf(args.messages[n], "header") \cup LinesOf(args.messages[n], "uri") :
                       Names(args.messages[n][k].site, Site)
      <4>1. args.messages[n] \in Seq(Line) /\ CheckText(args.messages[n], Site)
        <5>1. args.messages \in Seq(Seq(Line))
          BY <1>1, <1>3, InputAssumption
        <5>2. QED
          BY <2>1, <5>1 DEF CheckMessages
      <4>2. QED
        BY <3>1, <4>1, TextForSite
    <3>2. QED
      BY <1>1, <1>3, <2>1, <3>1 DEF NamesSiteOnly, TextSigned, Site
  <2>3. QED
    BY <1>1, <1>3, <2>2 DEF IInv, Shape, TransactionPart, PermitPart, QuotePart, MessagePart, Past
<1>4. CASE pc' = "wallet" /\ call.method = "signIn"
  <2>1. CheckInputs(args.inputs) /\ handed' = args.inputs
    BY <1>4 DEF Message
  <2>2. NamesSiteOnly(handed)'
    <3>1. ASSUME NEW n \in DOMAIN args.inputs
          PROVE  /\ Site # NoSite
                 /\ \A k \in LinesOf(Written(args.inputs[n]), "header")
                               \cup LinesOf(Written(args.inputs[n]), "uri") :
                       Names(Written(args.inputs[n])[k].site, Site)
      <4>1. args.inputs[n].statement \in Seq(Line) /\ CheckInput(args.inputs[n], Site)
        BY <1>1, <1>4, <2>1, InputAssumption DEF CheckInputs
      <4>2. QED
        BY <4>1, InputForSite
    <3>2. QED
      BY <1>1, <1>4, <2>1, <3>1 DEF NamesSiteOnly, TextSigned, Site
  <2>3. QED
    BY <1>1, <1>4, <2>2 DEF IInv, Shape, TransactionPart, PermitPart, QuotePart, MessagePart, Past
<1>5. QED
  BY <1>1, <1>2, <1>3, <1>4 DEF Message

LEMMA AllowedMessageInv ==
    ASSUME IInv, AllowedMessage
    PROVE  IInv'
<1>1. /\ pc = "called" /\ call.method = "allowed" /\ call \in Calls /\ args = call.args
      /\ signed = None /\ intent = None
      /\ UNCHANGED <<call, now, wallet, intent, signed>>
  BY NotSigned DEF AllowedMessage, At, outside, IInv, Shape
<1>2. CASE pc' = "refused"
  BY <1>1, <1>2, EndedInv
<1>3. CASE pc' = "wallet"
  <2> DEFINE text == args.messages[1]
  <2>1. args.messages # <<>> /\ CheckText(text, Site) /\ handed' = <<text>>
    BY <1>3 DEF AllowedMessage
  <2>2. text \in Seq(Line)
    <3>1. args.messages \in Seq(Seq(Line))
      BY <1>1, InputAssumption
    <3>2. QED
      BY <2>1, <3>1
  <2>3. DOMAIN <<text>> = {1} /\ <<text>>[1] = text
    OBVIOUS
  <2>4. LinesOf(text, "header") # {} =>
            /\ Site # NoSite
            /\ \A k \in LinesOf(text, "header") \cup LinesOf(text, "uri") : Names(text[k].site, Site)
    BY <2>1, <2>2, TextForSite
  <2> HIDE DEF text
  <2>5. NamesSiteOnly(handed)'
    BY <1>1, <2>1, <2>3, <2>4 DEF NamesSiteOnly, TextSigned, Site
  <2>6. QED
    BY <1>1, <1>3, <2>5 DEF IInv, Shape, TransactionPart, PermitPart, QuotePart, MessagePart, Past
<1>4. QED
  BY <1>2, <1>3 DEF AllowedMessage

-----------------------------------------------------------------------------
(* The wallet, and the host while the call awaits. *)

LEMMA HoldInv ==
    ASSUME IInv, Hold
    PROVE  IInv'
<1>1. pc = "hold" /\ signed = None /\ UNCHANGED <<outside, mine, signed>>
  BY NotSigned DEF Hold
<1>2. CASE pc' = "refused"
  BY <1>1, <1>2, EndedInv DEF outside, mine
<1>3. CASE pc' = "wallet"
  <2>1. Handed(intent)' = Handed(intent) /\ (AsQuoted' <=> AsQuoted)
        /\ (NamesSiteOnly(handed)' <=> NamesSiteOnly(handed))
    BY <1>1 DEF Handed, AsQuoted, Pays, NamesSiteOnly, TextSigned, Site, outside, mine
  <2>2. QED
    BY <1>1, <1>3, <2>1
       DEF IInv, Shape, TransactionPart, PermitPart, QuotePart, MessagePart, Past, outside, mine
<1>4. QED
  BY <1>2, <1>3 DEF Hold

LEMMA AllowedChain ==
    ASSUME NEW i, NEW t, NEW p, CheckTransaction(i, t, p) = "allow"
    PROVE  t.chainId \in {None, i.chain}
BY NoFinding DEF CheckTransaction

(* The chain pinned on a transaction is the one it is signed for.           *)
LEMMA SignedForChain ==
    ASSUME IInv, WalletSigns, call.method = "transaction"
    PROVE  ChainSigned = intent.chain
<1>1. /\ pc = "wallet" /\ WalletAccepts /\ wallet.kind \in Wallets \cup {"local"}
      /\ handed = Handed(intent) /\ intent \in Intents \ {Unread}
      /\ CheckTransaction(intent, read, pinned) = "allow"
  BY DEF WalletSigns, IInv, Shape, TransactionPart, Past
<1>2. PICK tx : read = Reading(tx)
  BY <1>1 DEF IInv, TransactionPart, Past
<1>3. intent.chain # None /\ read.chainId \in {None, intent.chain}
  BY <1>1, InputAssumption, AllowedChain
<1>4. handed.chainId = intent.chain
  BY <1>1, <1>2 DEF Handed, Reading
<1>5. CASE wallet.kind = "client"
  <2>1. handed.chain = (IF read.chain = None THEN intent.chain ELSE read.chain)
    BY <1>1, <1>2, <1>5 DEF Handed, Reading, Absent
  <2>2. read.chain # None => read.chain = read.chainId
    BY <1>2 DEF Reading, ChainNamed, Absent
  <2>3. handed.chain = intent.chain
    BY <1>3, <2>1, <2>2
  <2>4. handed.chain \in {None, wallet.chain}
    BY <1>1, <1>5 DEF WalletAccepts
  <2>5. QED
    BY <1>3, <1>5, <2>3, <2>4 DEF ChainSigned
<1>6. CASE wallet.kind = "ethers"
  BY <1>1, <1>4, <1>6 DEF WalletAccepts, ChainSigned
<1>7. CASE wallet.kind = "local"
  BY <1>4, <1>7 DEF ChainSigned
<1>8. QED
  BY <1>1, <1>5, <1>6, <1>7, GuardAssumption

LEMMA WalletSignsInv ==
    ASSUME IInv, WalletSigns
    PROVE  IInv'
<1>1. /\ pc = "wallet" /\ pc' = "signed" /\ UNCHANGED <<outside, mine>>
      /\ signed'.what = handed /\ signed'.chain = ChainSigned
  BY DEF WalletSigns
<1>2. call.method = "transaction" => ChainSigned = intent.chain
  BY SignedForChain
<1>3. Handed(intent)' = Handed(intent) /\ (AsQuoted' <=> AsQuoted)
      /\ (NamesSiteOnly(handed)' <=> NamesSiteOnly(handed))
  BY <1>1 DEF Handed, AsQuoted, Pays, NamesSiteOnly, TextSigned, Site, outside, mine
<1> HIDE DEF ChainSigned
<1>4. QED
  BY <1>1, <1>2, <1>3
     DEF IInv, Shape, TransactionPart, PermitPart, QuotePart, MessagePart, Past, outside, mine

LEMMA EditInv ==
    ASSUME IInv, Edit
    PROVE  IInv'
<1>1. Awaiting /\ UNCHANGED <<mine, pc, signed>>
  BY DEF Edit
<1>2. /\ wallet' \in [kind : Wallets \cup {"local"}, chain : Chains] /\ wallet'.kind = wallet.kind
      /\ now' \in Int
  BY DEF Edit, IInv, Shape
<1>3. Handed(intent)' = Handed(intent)
  BY <1>1, <1>2 DEF Handed, mine
<1>4. pc # "called" /\ pc # "signed" /\ (pc \in Past => call.method = "transaction")
  BY <1>1 DEF Awaiting, Past
<1>5. QED
  BY <1>1, <1>2, <1>3, <1>4
     DEF IInv, Shape, TransactionPart, PermitPart, QuotePart, MessagePart, Past, mine

LEMMA NextInv == IInv /\ [Next]_vars => IInv'
<1> SUFFICES ASSUME IInv, [Next]_vars PROVE IInv'
  OBVIOUS
<1>1. CASE RefuseCall \/ RefusePayment \/ WalletThrows
  BY <1>1, RefusedInv
<1>2. CASE ReadTransaction \/ ReadPermit
  BY <1>2, ReadsInv
<1>3. CASE \E i \in Intents : Answered(i)
  BY <1>3, AnsweredInv
<1>4. CASE ChainAnswered
  BY <1>4, ChainAnsweredInv
<1>5. CASE TypedPayment
  BY <1>5, TypedPaymentInv
<1>6. CASE SignedPayment
  BY <1>6, SignedPaymentInv
<1>7. CASE Recovered
  BY <1>7, RecoveredInv
<1>8. CASE Message \/ AllowedMessage
  BY <1>8, MessageInv, AllowedMessageInv
<1>9. CASE Hold
  BY <1>9, HoldInv
<1>10. CASE WalletSigns
  BY <1>10, WalletSignsInv
<1>11. CASE Edit
  BY <1>11, EditInv
<1>12. CASE UNCHANGED vars
  <2>1. Handed(intent)' = Handed(intent) /\ (AsQuoted' <=> AsQuoted)
        /\ (NamesSiteOnly(handed)' <=> NamesSiteOnly(handed))
    BY <1>12 DEF Handed, AsQuoted, Pays, NamesSiteOnly, TextSigned, Site, vars
  <2>2. QED
    BY <1>12, <2>1 DEF IInv, Shape, TransactionPart, PermitPart, QuotePart, MessagePart, Past, vars
<1>13. QED
  BY <1>1, <1>2, <1>3, <1>4, <1>5, <1>6, <1>7, <1>8, <1>9, <1>10, <1>11, <1>12 DEF Next

LEMMA Inductive == Spec => []IInv
BY InitInv, NextInv, PTL DEF Spec

-----------------------------------------------------------------------------
(* The properties. *)

(* What the wallet signs under an intent is what the intent names, in every *)
(* part and on the intent's chain, whatever the host, the clock and the     *)
(* wallet's node do while guardEvmSigner's call awaits (checkTransaction,   *)
(* checkPermit, pinChain).  The recursions over nested arguments are taken  *)
(* as the equations they are defined by.                                    *)
THEOREM SignsWhatWasNamedKept ==
    ASSUME Nesting
    PROVE  Spec => []SignsWhatWasNamed
<1>1. ASSUME IInv PROVE SignsWhatWasNamed
  <2> SUFFICES ASSUME UnderIntent
               PROVE  IF call.method = "transaction"
                      THEN Conforms(intent, signed.what) /\ signed.chain = intent.chain
                      ELSE ConformingPermit(intent, signed.what)
    BY DEF SignsWhatWasNamed
  <2>1. /\ pc = "signed" /\ intent # None /\ signed.what = handed
        /\ call.method \in {"transaction", "typedData"}
    BY <1>1 DEF UnderIntent, IInv, Shape
  <2>2. CASE call.method = "transaction"
    <3>1. /\ CheckTransaction(intent, read, pinned) = "allow" /\ handed = Handed(intent)
          /\ signed.chain = intent.chain
      BY <1>1, <2>1, <2>2 DEF IInv, TransactionPart, Past
    <3>2. PICK tx : read = Reading(tx)
      BY <1>1, <2>1, <2>2 DEF IInv, TransactionPart, Past
    <3>3. handed.to = read.to /\ handed.value = read.value /\ handed.data = read.data
      BY <3>1, <3>2 DEF Handed, Reading
    <3>4. Conforms(intent, read)
      BY <3>1, AllowedConforms
    <3>5. Conforms(intent, handed)
      BY <3>3, <3>4, Zenon DEF Conforms
    <3>6. QED
      BY <2>1, <2>2, <3>1, <3>5
  <2>3. CASE call.method = "typedData"
    BY <1>1, <2>1, <2>3, AllowedPermitConforms DEF IInv, PermitPart, Past
  <2>4. QED
    BY <2>1, <2>2, <2>3
<1>2. QED
  BY <1>1, Inductive, PTL

(* Who is granted what and how much is settled by the intent alone; a grant *)
(* without limit, by the call itself (STANDING_CALLS) or by a permit in any *)
(* plan a router is made to run (routerPermitsUnlimited), is signed only    *)
(* with unlimited: true; and no call signed runs another contract's code as *)
(* the account.                                                             *)
THEOREM StandingNamedKept ==
    ASSUME Nesting
    PROVE  Spec => []StandingNamed
<1>1. ASSUME IInv, CallSigned PROVE StandingNamed
  <2>1. /\ pc = "signed" /\ signed.what = handed /\ call.method = "transaction"
        /\ intent.kind = "call" /\ intent # None
    BY <1>1 DEF CallSigned, UnderIntent, IInv, Shape
  <2>2. CheckTransaction(intent, read, pinned) = "allow" /\ handed = Handed(intent)
    BY <1>1, <2>1 DEF IInv, TransactionPart, Past
  <2>3. PICK tx : read = Reading(tx)
    BY <1>1, <2>1 DEF IInv, TransactionPart, Past
  <2>4. signed.what.to = read.to /\ signed.what.data = read.data
    BY <2>1, <2>2, <2>3 DEF Handed, Reading
  <2>5. read.data.fn = intent.fn
    BY <2>1, <2>2, AllowedCall
  <2>6. GrantNamed
    <3>1. Terms(signed.what) = Terms(read)
      BY <2>4 DEF Terms
    <3>2. ASSUME intent.fn \in DOMAIN Standing, NEW u, AlsoAllowed(u) PROVE Terms(u) = Terms(read)
      BY <2>1, <2>2, <3>2, SameTerms DEF AlsoAllowed
    <3>3. intent.fn \in DOMAIN Standing /\ GrantsUnlimited(intent.fn, read.data.args) => intent.unlimited
      BY <2>1, <2>2, UnlimitedNamed
    <3>4. QED
      BY <2>4, <2>5, <3>1, <3>2, <3>3 DEF GrantNamed
  <2>7. NoDelegate
    BY <2>1, <2>2, <2>4, <2>5, CallsOnly DEF NoDelegate
  <2>8. RouterGrantNamed
    BY <2>1, <2>2, <2>4, <2>5, RouterUnlimitedNamed DEF RouterGrantNamed
  <2>9. QED
    BY <2>6, <2>7, <2>8 DEF StandingNamed
<1>2. ASSUME ~ CallSigned PROVE StandingNamed
  BY <1>2 DEF StandingNamed, GrantNamed, RouterGrantNamed, NoDelegate
<1>3. IInv => StandingNamed
  BY <1>1, <1>2
<1>4. QED
  BY <1>3, Inductive, PTL

(* What is signed under an intent of presets.uniswapV4 runs one swap: one   *)
(* of the native coin sends the router just what the swap takes, one of a   *)
(* token sends it no coin, whatever the amounts, the permit beside it and   *)
(* the parameters the preset was given.                                     *)
THEOREM NothingLeftInRouterKept ==
    ASSUME Nesting
    PROVE  Spec => []NothingLeftInRouter
<1>1. ASSUME IInv PROVE NothingLeftInRouter
  <2> SUFFICES ASSUME UnderIntent, call.method = "transaction", intent \in SwapIntents
               PROVE  \E swap : /\ SwapsRun(signed.what) = {swap}
                                /\ signed.what.value = IF swap[1].l[1].w = Coin THEN swap[2].w ELSE 0
    BY DEF NothingLeftInRouter
  <2>1. pc = "signed" /\ signed.what = handed
    BY <1>1 DEF UnderIntent, IInv, Shape
  <2>2. CheckTransaction(intent, read, pinned) = "allow" /\ handed = Handed(intent)
    BY <1>1, <2>1 DEF IInv, TransactionPart, Past
  <2>3. PICK tx : tx.value \in Int /\ read = Reading(tx)
    BY <1>1, <2>1 DEF IInv, TransactionPart, Past
  <2>4. /\ signed.what.value = read.value /\ signed.what.data = read.data
        /\ read.value \in Int
    BY <2>1, <2>2, <2>3 DEF Handed, Reading
  <2>5. PICK p : intent = SwapExactInSingle(p) /\ SwapExactInSingle(p) # Unread
    BY DEF SwapIntents
  <2>6. PICK swap : /\ SwapsRun(read) = {swap}
                    /\ read.value = IF swap[1].l[1].w = Coin THEN swap[2].w ELSE 0
    BY <2>2, <2>4, <2>5, SwapPaidFor
  <2>7. SwapsRun(signed.what) = SwapsRun(read)
    BY <2>4 DEF SwapsRun
  <2>8. QED
    BY <2>4, <2>6, <2>7
<1>2. QED
  BY <1>1, Inductive, PTL

(* What the wallet is handed as a payment pays the quote: its payee, amount *)
(* and asset, out of the expected wallet, within the policy that was read   *)
(* for it, and within its time (inspectTypedDataRequest,                    *)
(* inspectAuthorization), for every quote, payment and clock; so long as    *)
(* the host does not edit a signed payment while its signer is recovered,   *)
(* which nothing in guardFn hinders.                                        *)
THEOREM PaymentAsQuotedKept == Spec => []PaymentAsQuoted
<1>1. ASSUME IInv PROVE PaymentAsQuoted
  <2> SUFFICES ASSUME UnderQuote, args = call.args PROVE Pays(signed.what)
    BY DEF PaymentAsQuoted
  <2>1. pc = "signed" /\ signed.what = handed
    BY <1>1 DEF UnderQuote, IInv, Shape
  <2>2. AsQuoted
    BY <1>1, <2>1 DEF UnderQuote, IInv, QuotePart, Past
  <2>3. QED
    BY <2>1, <2>2 DEF AsQuoted
<1>2. QED
  BY <1>1, Inductive, PTL

(* A message or a sign-in input the wallet is handed shows no reader of it  *)
(* a login for any other site than the one the agent is talking to          *)
(* (inspectSignInText, inspectSignInInput), in any number of texts of any   *)
(* length.                                                                  *)
THEOREM LoginForThisSiteKept == Spec => []LoginForThisSite
<1>1. ASSUME IInv PROVE LoginForThisSite
  <2>1. signed # None => pc = "signed" /\ signed.what = handed
    BY <1>1 DEF IInv, Shape
  <2>2. signed # None /\ call.method \in {"message", "allowed", "signIn"} => NamesSiteOnly(signed.what)
    BY <1>1, <2>1 DEF IInv, MessagePart, Past
  <2>3. QED
    BY <2>2, Zenon DEF LoginForThisSite, NamesSiteOnly
<1>2. QED
  BY <1>1, Inductive, PTL
=============================================================================
