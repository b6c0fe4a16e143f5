------------------------------- MODULE TxRules -------------------------------
(* x402-guard/src/tx.ts: a call's arguments and the constraints an intent   *)
(* puts on them.                                                            *)
(*                                                                          *)
(* A type is a word (an address, an integer, a bool: the set of its         *)
(* values), bytes, a tuple or a list.  A value carries what it is: a word   *)
(* [w], a list or struct [l], bytes [b].  Bytes are known by what a decoder *)
(* makes of them: an encoding of values [enc, clean], clean when it is the  *)
(* canonical one; another call [fn, args, clean]; a 64- or 65-byte          *)
(* signature [sig]; a router's command string [commands]; MultiSend records *)
(* [records]; or nothing anyone reads [raw].                                *)
(*                                                                          *)
(* Values, types and constraints nest.  An operator that goes down into     *)
(* them is a parameter here, and its Step, one level of the recursion, says *)
(* what the code does at that level; TxNested ties the two together.        *)
EXTENDS Integers, Sequences, FiniteSets

CONSTANTS
    MaxDepth,   \* bound of the code: MAX_DEPTH
    None, Unread,
    HasType(_, _, _), HoldsBytes(_), Reads(_, _, _), Exact(_), LeavesBytesOpen(_, _),
    Match(_, _, _, _), RouterPermits(_, _), Means(_, _, _), RouterGrants(_, _)

ASSUME DepthAssumption == MaxDepth \in Nat

(* What is absent is no number, and no bound on one. *)
ASSUME NoneAssumption ==
    None \notin Int /\ None \notin [lte : Int \cup {None}, gte : Int \cup {None}]

Has(r, field) == field \in DOMAIN r
Bytes == [t |-> "bytes"]
Word(S) == [t |-> "word", of |-> S, int |-> FALSE]
Int_(S) == [t |-> "word", of |-> S, int |-> TRUE]
Tuple(parts) == [t |-> "tuple", parts |-> parts]
ListOf(T, n) == [t |-> "list", of |-> T, len |-> n]

W(x) == [w |-> x]
L(s) == [l |-> s]
B(content) == [b |-> content]
Encoded(values) == B([enc |-> values, clean |-> TRUE])

(* A list or a struct, and nothing else. *)
IsList(v) == Has(v, "l") /\ v = L([i \in DOMAIN v.l |-> v.l[i]])

(* normalize: the value is one of the type, not nested past the limit. *)
HasTypeStep(Deeper(_, _, _), T, v, depth) ==
    /\ depth <= MaxDepth
    /\ CASE T.t = "word"  -> v \in {W(x) : x \in T.of}
         [] T.t = "bytes" -> Has(v, "b")
         [] T.t = "tuple" -> /\ IsList(v) /\ DOMAIN v.l = DOMAIN T.parts
                             /\ \A i \in DOMAIN v.l : Deeper(T.parts[i], v.l[i], depth + 1)
         [] T.t = "list"  -> /\ IsList(v) /\ T.len \in {None, Len(v.l)}
                             /\ \A i \in DOMAIN v.l : Deeper(T.of, v.l[i], depth + 1)

(* holdsBytes: an inner call could travel in a value of this type. *)
HoldsBytesStep(Deeper(_), T) ==
    CASE T.t = "bytes" -> TRUE
      [] T.t = "list"  -> Deeper(T.of)
      [] T.t = "tuple" -> \E i \in DOMAIN T.parts : Deeper(T.parts[i])
      [] OTHER         -> FALSE

-----------------------------------------------------------------------------
(* Constraints.  A bound is [lte, gte], None where it has no such end.      *)

InRange(n, bound) ==
    /\ bound.lte = None \/ n <= bound.lte
    /\ bound.gte = None \/ n >= bound.gte

Exactly(n) == [lte |-> n, gte |-> n]
AtMost(n) == [lte |-> n, gte |-> None]

(* readBound: both ends can be read, there is one, and something lies between. *)
BoundReads(bound) ==
    /\ Unread \notin {bound.lte, bound.gte}
    /\ bound.lte # None \/ bound.gte # None
    /\ None \notin {bound.lte, bound.gte} => bound.gte <= bound.lte

ReadsAll(ReadsOne(_, _, _), types, rules, depth) ==
    /\ DOMAIN rules = DOMAIN types
    /\ \A i \in DOMAIN rules : ReadsOne(types[i], rules[i], depth)

(* The keys of a constraint, which are those of one sort. *)
Sorts == {{"eq"}, {"oneOf"}, {"bound"}, {"any"}, {"tuple"}, {"items"}, {"abi", "args"}, {"signature"}}

(* readRule: the constraint is one a rule reads, against this type. *)
ReadsStep(Deeper(_, _, _), T, c, depth) ==
    /\ depth <= MaxDepth /\ DOMAIN c \in Sorts
    /\ \/ Has(c, "eq") /\ HasType(T, c.eq, 0)
       \/ Has(c, "oneOf") /\ c.oneOf # <<>> /\ \A i \in DOMAIN c.oneOf : HasType(T, c.oneOf[i], 0)
       \/ /\ Has(c, "bound") /\ T.t = "word" /\ BoundReads(c.bound)
          /\ T.int /\ {c.bound.lte, c.bound.gte} \subseteq T.of \cup {None}
       \/ Has(c, "any") /\ c.any
       \/ Has(c, "tuple") /\ T.t = "tuple" /\ ReadsAll(Deeper, T.parts, c.tuple, depth + 1)
       \/ /\ Has(c, "items") /\ T.t = "list" /\ T.len \in {None, Len(c.items)}
          /\ \A i \in DOMAIN c.items : Deeper(T.of, c.items[i], depth + 1)
       \/ /\ Has(c, "abi") /\ T.t = "bytes" /\ c.abi # Unread
          /\ ReadsAll(Deeper, c.abi, c.args, depth + 1)
       \/ Has(c, "signature") /\ T.t = "bytes" /\ c.signature

Parts(c) ==
    CASE Has(c, "tuple") -> c.tuple [] Has(c, "items") -> c.items
      [] Has(c, "abi") -> c.args    [] OTHER -> <<>>

(* exact: eq, or structure made of nothing but eq. *)
ExactStep(Deeper(_), c) ==
    Has(c, "eq") \/ /\ Has(c, "tuple") \/ Has(c, "items") \/ Has(c, "abi")
                    /\ \A i \in DOMAIN Parts(c) : Deeper(Parts(c)[i])

(* leavesBytesOpen: bytes somewhere under this rule are not compared. *)
LeavesBytesOpenStep(Deeper(_, _), T, c) ==
    CASE Has(c, "any")   -> HoldsBytes(T)
      [] Has(c, "tuple") -> \E i \in DOMAIN c.tuple : Deeper(T.parts[i], c.tuple[i])
      [] Has(c, "items") -> \E i \in DOMAIN c.items : Deeper(T.of, c.items[i])
      [] Has(c, "abi")   -> \E i \in DOMAIN c.args : Deeper(c.abi[i], c.args[i])
      [] OTHER           -> FALSE

(* decodeCanonical: the values, None unless they encode to the same bytes.  *)
DecodeCanonical(types, v) ==
    IF /\ Has(v, "b") /\ Has(v.b, "enc") /\ v.b.clean /\ DOMAIN v.b.enc = DOMAIN types
       /\ \A i \in DOMAIN types : HasType(types[i], v.b.enc[i], 0)
    THEN v.b.enc ELSE None

MatchAll(MatchOne(_, _, _, _), types, rules, values, depth) ==
    UNION {MatchOne(types[i], rules[i], values[i], depth) : i \in DOMAIN rules}

(* match: {} when the decoded value keeps the rule, else what went wrong. *)
MatchStep(Deeper(_, _, _, _), T, c, v, depth) ==
    IF depth > MaxDepth THEN {"unreadable"} ELSE
    CASE Has(c, "any")   -> {}
      [] Has(c, "eq")    -> IF HasType(T, v, 0) /\ v = c.eq THEN {} ELSE {"broken"}
      [] Has(c, "oneOf") -> IF HasType(T, v, 0) /\ \E i \in DOMAIN c.oneOf : v = c.oneOf[i]
                            THEN {} ELSE {"broken"}
      [] Has(c, "bound") -> IF InRange(v.w, c.bound) THEN {} ELSE {"broken"}
      [] Has(c, "tuple") -> MatchAll(Deeper, T.parts, c.tuple, v.l, depth + 1)
      [] Has(c, "items") ->
             IF DOMAIN v.l # DOMAIN c.items THEN {"broken"}
             ELSE MatchAll(Deeper, [i \in DOMAIN c.items |-> T.of], c.items, v.l, depth + 1)
      [] Has(c, "signature") -> IF Has(v.b, "sig") THEN {} ELSE {"broken"}
      [] Has(c, "abi")   ->
             LET values == DecodeCanonical(c.abi, v)
             IN IF values = None THEN {"unreadable"}
                ELSE MatchAll(Deeper, c.abi, c.args, values, depth + 1)

(* What a constraint says of a value, read as a sentence: of every part of  *)
(* it, and that it has no other part.                                       *)
MeansStep(Deeper(_, _, _), T, c, v) ==
    \/ Has(c, "any")
    \/ Has(c, "eq") /\ v = c.eq
    \/ Has(c, "oneOf") /\ \E n \in DOMAIN c.oneOf : v = c.oneOf[n]
    \/ Has(c, "bound") /\ v.w \in {n \in T.of : InRange(n, c.bound)}
    \/ Has(c, "signature") /\ Has(v.b, "sig")
    \/ /\ Has(c, "tuple") /\ DOMAIN c.tuple = DOMAIN v.l
       /\ \A n \in DOMAIN c.tuple : Deeper(T.parts[n], c.tuple[n], v.l[n])
    \/ /\ Has(c, "items") /\ DOMAIN c.items = DOMAIN v.l
       /\ \A n \in DOMAIN c.items : Deeper(T.of, c.items[n], v.l[n])
    \/ /\ Has(c, "abi") /\ Has(v.b, "enc") /\ v.b.enc # None
       /\ v.b.clean /\ DOMAIN c.args = DOMAIN v.b.enc
       /\ \A n \in DOMAIN c.args : /\ HasType(c.abi[n], v.b.enc[n], 0)
                                  /\ Deeper(c.abi[n], c.args[n], v.b.enc[n])

-----------------------------------------------------------------------------
(* Calls that carry others.                                                 *)

PermitInput(Address, Amount, Time) ==
    <<Tuple(<<Tuple(<<Address, Amount, Time, Time>>), Address, Time>>), Bytes>>
SubPlan == <<Bytes, ListOf(Bytes, None)>>

(* routerPermitsUnlimited: args are the command string and its inputs.      *)
(* "unread" if a permit or a plan in it cannot be read, else whether one    *)
(* of them grants the maximum.                                              *)
RouterPermitsStep(Deeper(_, _), args, depth) ==
    LET Address == args.types[1] Amount == args.types[2] Time == args.types[3]
        max == CHOOSE n \in Amount.of : \A k \in Amount.of : k <= n
        commands == args.values[1].b.commands
        inputs == args.values[2].l
        Of(i) ==
            CASE commands[i] = "permit" ->
                   LET values == DecodeCanonical(PermitInput(Address, Amount, Time), inputs[i])
                   IN IF values = None THEN "unread"
                      ELSE IF values[1].l[1].l[2].w = max THEN "unlimited" ELSE "no"
              [] commands[i] = "subplan" ->
                   LET values == DecodeCanonical(SubPlan, inputs[i])
                   IN IF values = None THEN "unread"
                      ELSE Deeper([args EXCEPT !.values = values], depth + 1)
              [] OTHER -> "no"
        found == {Of(i) : i \in DOMAIN inputs}
    IN IF \/ depth > MaxDepth \/ ~ Has(args.values[1].b, "commands")
          \/ Len(commands) # Len(inputs) \/ "unread" \in found
       THEN "unread"
       ELSE IF "unlimited" \in found THEN "unlimited" ELSE "no"

(* What the router does with them: it runs every command on its input, in   *)
(* whatever encoding the input is, and a permit of this amount is granted.  *)
RouterGrantsStep(Deeper(_, _), amount, values) ==
    LET commands == values[1].b.commands
        inputs == values[2].l
    IN /\ Has(values[1].b, "commands")
       /\ \E i \in DOMAIN commands \cap DOMAIN inputs :
             /\ Has(inputs[i], "b") /\ Has(inputs[i].b, "enc")
             /\ \/ commands[i] = "permit" /\ inputs[i].b.enc[1].l[1].l[2].w = amount
                \/ commands[i] = "subplan" /\ Deeper(amount, inputs[i].b.enc)

(* multiSendDelegates: whether a record chooses a delegatecall, "unread"    *)
(* when the packed list does not parse, or an operation is neither.         *)
MultiSendDelegates(v) ==
    IF ~ Has(v.b, "records") \/ \E i \in DOMAIN v.b.records : v.b.records[i] \notin {0, 1}
    THEN "unread"
    ELSE IF \E i \in DOMAIN v.b.records : v.b.records[i] = 1 THEN "delegates" ELSE "calls"
=============================================================================
