-------------------------- MODULE SpendGuardProofs --------------------------
(***************************************************************************)
(* Theorems about SpendGuard, for any number of calls, assets, amounts and *)
(* policies.  A total is the size of a set of units, so that adding and    *)
(* removing a movement is a union and a difference of finite sets.         *)
(***************************************************************************)
EXTENDS SpendGuard, FiniteSetTheorems, TLAPS

-----------------------------------------------------------------------------
(* Units.                                                                  *)

(* The units of the i-th movement of call c. *)
MoveUnits(c, i, n) == {x \in Unit : x[1] = c /\ x[2] = i /\ x[3] <= n}

(* What a request's moves are: a sequence of movements within the bounds. *)
LEMMA MoveFacts ==
    ASSUME req \in [Calls -> Requests], NEW c \in Calls
    PROVE  /\ MoveIndex(c) = 1..Len(Moves(c))
           /\ Len(Moves(c)) \in Nat
           /\ MoveIndex(c) \subseteq 1..MaxMoves
           /\ \A i \in MoveIndex(c) : /\ Moves(c)[i].asset \in Assets
                                      /\ Moves(c)[i].amount \in 1..MaxAmount
<1>1. req[c] \in Requests
  OBVIOUS
<1>2. req[c] \in Request /\ Len(req[c].moves) \in 1..MaxMoves
  BY <1>1, InputAssumption
<1>3. req[c].moves \in Seq(Movement)
  BY <1>2 DEF Request
<1>4. DOMAIN req[c].moves = 1..Len(req[c].moves) /\ Len(req[c].moves) \in Nat
  BY <1>3
<1>5. \A i \in 1..Len(req[c].moves) : req[c].moves[i] \in Movement
  BY <1>3
<1>6. QED
  BY <1>2, <1>4, <1>5, SpendAssumption DEF MoveIndex, Moves, Movement

(* There are finitely many units. *)
LEMMA UnitsFinite ==
    /\ IsFiniteSet(Unit)
    /\ \A S \in SUBSET Unit : IsFiniteSet(S) /\ Cardinality(S) \in Nat
<1>1. IsFiniteSet(1..MaxMoves) /\ IsFiniteSet(1..MaxAmount)
  BY FS_Interval, SpendAssumption
<1>2. IsFiniteSet((1..MaxMoves) \X (1..MaxAmount))
  BY <1>1, FS_Product
<1>3. IsFiniteSet(Calls \X ((1..MaxMoves) \X (1..MaxAmount)))
  BY <1>2, FS_Product, SpendAssumption
<1> DEFINE f == [y \in Calls \X ((1..MaxMoves) \X (1..MaxAmount)) |->
                    <<y[1], y[2][1], y[2][2]>>]
<1>4. f \in Surjection(Calls \X ((1..MaxMoves) \X (1..MaxAmount)), Unit)
  <2>1. f \in [Calls \X ((1..MaxMoves) \X (1..MaxAmount)) -> Unit]
    BY DEF Unit
  <2>2. ASSUME NEW x \in Unit
        PROVE  \E y \in Calls \X ((1..MaxMoves) \X (1..MaxAmount)) : f[y] = x
    <3>1. PICK c \in Calls, i \in 1..MaxMoves, u \in 1..MaxAmount : x = <<c, i, u>>
      BY DEF Unit
    <3>2. <<c, <<i, u>>>> \in Calls \X ((1..MaxMoves) \X (1..MaxAmount))
      OBVIOUS
    <3>3. f[<<c, <<i, u>>>>] = x
      BY <3>1, <3>2
    <3>4. QED
      BY <3>2, <3>3
  <2>3. QED
    BY <2>1, <2>2 DEF Surjection
<1>5. IsFiniteSet(Unit)
  BY <1>3, <1>4, FS_Surjection
<1>6. QED
  BY <1>5, FS_Subset, FS_CardinalityType

(* A movement of n base units is n units. *)
LEMMA MoveUnitsCount ==
    ASSUME NEW c \in Calls, NEW i \in 1..MaxMoves, NEW n \in 1..MaxAmount
    PROVE  Cardinality(MoveUnits(c, i, n)) = n
<1> DEFINE f == [u \in 1..n |-> <<c, i, u>>]
<1>1. n \in Nat /\ MaxAmount \in Nat /\ n <= MaxAmount
  BY SpendAssumption
<1>2. f \in [1..n -> MoveUnits(c, i, n)]
  BY <1>1 DEF MoveUnits, Unit
<1>3. \A u, v \in 1..n : f[u] = f[v] => u = v
  OBVIOUS
<1>4. \A x \in MoveUnits(c, i, n) : \E u \in 1..n : f[u] = x
  <2>1. TAKE x \in MoveUnits(c, i, n)
  <2>2. x = <<c, i, x[3]>> /\ x[3] \in 1..MaxAmount /\ x[3] <= n
    BY DEF MoveUnits, Unit
  <2>3. x[3] \in 1..n
    BY <1>1, <2>2
  <2>4. QED
    BY <2>2, <2>3
<1>5. ExistsBijection(1..n, MoveUnits(c, i, n))
  BY <1>2, <1>3, <1>4 DEF ExistsBijection, Bijection, Injection, Surjection, IsInjective
<1>6. QED
  BY <1>1, <1>5, FS_CountingElements

(* Holding one more movement of asset a adds its amount to every set of    *)
(* held units that may grow by it; releasing it takes the amount away.     *)
LEMMA AddUnits ==
    ASSUME NEW S \in SUBSET Unit, NEW T \in SUBSET Unit,
           NEW c \in Calls, NEW i \in 1..MaxMoves, NEW n \in 1..MaxAmount,
           T = S \cup MoveUnits(c, i, n), \A x \in S : ~ (x[1] = c /\ x[2] = i)
    PROVE  Cardinality(T) = Cardinality(S) + n
<1> DEFINE M == MoveUnits(c, i, n)
<1>1. M \in SUBSET Unit
  BY DEF MoveUnits
<1>2. IsFiniteSet(S) /\ IsFiniteSet(M) /\ Cardinality(S) \in Nat
  BY <1>1, UnitsFinite
<1>3. S \cap M = {}
  BY DEF MoveUnits
<1>4. Cardinality(S \cup M) = Cardinality(S) + Cardinality(M) - Cardinality(S \cap M)
  BY <1>2, FS_Union
<1>5. Cardinality(S \cap M) = 0
  BY <1>3, FS_EmptySet
<1>6. Cardinality(M) = n /\ n \in Nat
  BY MoveUnitsCount, SpendAssumption
<1>7. QED
  BY <1>2, <1>4, <1>5, <1>6

(* A subset of a set of units is no larger. *)
LEMMA FewerUnits ==
    ASSUME NEW S \in SUBSET Unit, NEW T \in SUBSET S
    PROVE  Cardinality(T) <= Cardinality(S)
BY UnitsFinite, FS_Subset

-----------------------------------------------------------------------------
(* The inductive invariant.                                                *)

(* What a call holds at each place of its path. *)
HeldShape ==
    \A c \in Calls :
        /\ held[c] \subseteq MoveIndex(c)
        /\ pc[c] \in {"idle", "recover", "recovered", "intent", "chain", "refused", "failed"}
              => held[c] = {}
        /\ pc[c] = "hold" => \E k \in 0..MaxMoves : held[c] = 1..k
        /\ pc[c] \notin {"idle", "refused"} => pinned[c] # Unreadable
        /\ held[c] # {} => pinned[c].maxTotal # Unset
        /\ pc[c] \in {"wallet", "signed"} /\ pinned[c].maxTotal # Unset
              => held[c] = MoveIndex(c)
        /\ pc[c] = "signed" => c \in sigs

(* The calls that hold something in asset a. *)
HoldersOf(a) == {c \in Calls : \E i \in held[c] : Moves(c)[i].asset = a}

UnitsHeldBy(D, a) == {x \in HeldUnits(a) : x[1] \in D}

(* Of any calls that hold units of an asset, one has read a total that all *)
(* they hold together is within: the one that reserved last.  It outlives  *)
(* a lowered total, which bounds only the calls that read it, and a        *)
(* release, which takes the call that releases out of the set.             *)
TotalsRespected ==
    \A a \in Assets : \A D \in SUBSET HoldersOf(a) : D # {} =>
        \E c \in D : /\ a \in DOMAIN pinned[c].maxTotal
                     /\ Cardinality(UnitsHeldBy(D, a)) <= pinned[c].maxTotal[a]

IInv == TypeOK /\ HeldShape /\ SpentIsHeld /\ TotalsRespected

-----------------------------------------------------------------------------
(* How the steps that touch the tracker preserve the accounting.           *)

(* A total that a call has read is a map to natural numbers. *)
LEMMA CapIsNat ==
    ASSUME IInv, NEW c \in Calls, held[c] # {} \/ pc[c] = "hold",
           pinned[c].maxTotal # Unset, NEW a \in DOMAIN pinned[c].maxTotal
    PROVE  pinned[c].maxTotal[a] \in Nat
<1>1. pc[c] \notin {"idle", "refused"}
  BY DEF IInv, HeldShape
<1>2. pinned[c] \in Policies \ {Unreadable}
  BY <1>1 DEF IInv, HeldShape, TypeOK
<1>3. QED
  BY <1>2, InputAssumption DEF IsReadPolicy, IsAmountMap

(* A step that leaves the tracker, the holds and the policies of the calls *)
(* that hold something alone leaves the accounting alone.                  *)
LEMMA Frame ==
    ASSUME IInv, UNCHANGED <<spent, held, req>>,
           \A c \in Calls : held[c] # {} => pinned'[c] = pinned[c]
    PROVE  SpentIsHeld' /\ TotalsRespected'
<1>1. \A a \in Assets : HeldUnits(a)' = HeldUnits(a)
  BY DEF HeldUnits, UnitOf, MoveIndex, Moves
<1>2. SpentIsHeld'
  BY <1>1 DEF IInv, SpentIsHeld
<1>3. ASSUME NEW a \in Assets, NEW D \in SUBSET HoldersOf(a)', D # {}
      PROVE  \E c \in D : /\ a \in DOMAIN pinned'[c].maxTotal
                          /\ Cardinality(UnitsHeldBy(D, a)') <= pinned'[c].maxTotal[a]
  <2>1. HoldersOf(a)' = HoldersOf(a) /\ UnitsHeldBy(D, a)' = UnitsHeldBy(D, a)
    BY <1>1 DEF HoldersOf, UnitsHeldBy, Moves
  <2>2. PICK c \in D : /\ a \in DOMAIN pinned[c].maxTotal
                       /\ Cardinality(UnitsHeldBy(D, a)) <= pinned[c].maxTotal[a]
    BY <1>3, <2>1 DEF IInv, TotalsRespected
  <2>3. c \in Calls /\ held[c] # {}
    BY <1>3, <2>1 DEF HoldersOf
  <2>4. QED
    BY <2>1, <2>2, <2>3
<1>4. TotalsRespected'
  BY <1>3 DEF TotalsRespected
<1>5. QED
  BY <1>2, <1>4

(* Reserving a movement that fits. *)
LEMMA ReserveStep ==
    ASSUME IInv, NEW c \in Calls, NEW i \in MoveIndex(c), i \notin held[c],
           pc[c] = "hold", pinned[c].maxTotal # Unset,
           Fits(pinned[c], Moves(c)[i]), Reserve(c, i), UNCHANGED <<req, pinned>>
    PROVE  SpentIsHeld' /\ TotalsRespected'
<1>1. PICK b \in Assets, n \in 1..MaxAmount :
        i \in 1..MaxMoves /\ b = Moves(c)[i].asset /\ n = Moves(c)[i].amount
  BY MoveFacts DEF IInv, TypeOK
<1>2. /\ spent \in [Assets -> Nat] /\ held \in [Calls -> SUBSET (1..MaxMoves)]
      /\ spent' = [spent EXCEPT ![b] = @ + n]
      /\ held' = [held EXCEPT ![c] = @ \cup {i}]
  BY <1>1 DEF IInv, TypeOK, Reserve
<1>3. \A a \in Assets \ {b} : HeldUnits(a)' = HeldUnits(a)
  BY <1>1, <1>2 DEF HeldUnits, UnitOf, MoveIndex, Moves, Unit
<1>4. HeldUnits(b)' = HeldUnits(b) \cup MoveUnits(c, i, n)
  BY <1>1, <1>2 DEF HeldUnits, UnitOf, MoveUnits, MoveIndex, Moves, Unit
<1>5. /\ HeldUnits(b) \in SUBSET Unit /\ HeldUnits(b)' \in SUBSET Unit
      /\ \A x \in HeldUnits(b) : ~ (x[1] = c /\ x[2] = i)
  BY <1>4 DEF HeldUnits, MoveUnits
<1>6. Cardinality(HeldUnits(b)') = Cardinality(HeldUnits(b)) + n
  BY <1>1, <1>4, <1>5, AddUnits
<1>7. SpentIsHeld'
  BY <1>1, <1>2, <1>3, <1>6 DEF IInv, SpentIsHeld
<1>8. ASSUME NEW a \in Assets, NEW D \in SUBSET HoldersOf(a)', D # {}
      PROVE  \E d \in D : /\ a \in DOMAIN pinned[d].maxTotal
                          /\ Cardinality(UnitsHeldBy(D, a)') <= pinned[d].maxTotal[a]
  <2>1. CASE c \in D /\ a = b
    <3>1. UnitsHeldBy(D, a)' \in SUBSET HeldUnits(b)'
      BY <2>1 DEF UnitsHeldBy
    <3>2. Cardinality(UnitsHeldBy(D, a)') <= Cardinality(HeldUnits(b)')
      BY <1>5, <3>1, FewerUnits
    <3>3. Cardinality(HeldUnits(b)') = spent[b] + n
      BY <1>1, <1>6 DEF IInv, SpentIsHeld
    <3>4. b \in DOMAIN pinned[c].maxTotal /\ spent[b] + n <= pinned[c].maxTotal[b]
      BY <1>1 DEF Fits
    <3>5. pinned[c].maxTotal[b] \in Nat
      BY <3>4, CapIsNat
    <3>6. Cardinality(UnitsHeldBy(D, a)') \in Nat /\ spent[b] + n \in Nat
      BY <1>1, <1>2, <1>5, <3>1, UnitsFinite, SpendAssumption
    <3>7. QED
      BY <2>1, <3>2, <3>3, <3>4, <3>5, <3>6
  <2>2. CASE ~ (c \in D /\ a = b)
    <3>1. D \subseteq HoldersOf(a) /\ UnitsHeldBy(D, a)' = UnitsHeldBy(D, a)
      <4>1. CASE a # b
        <5>1. HoldersOf(a)' = HoldersOf(a)
          BY <1>1, <1>2, <4>1 DEF HoldersOf, Moves
        <5>2. QED
          BY <1>3, <4>1, <5>1 DEF UnitsHeldBy
      <4>2. CASE a = b /\ c \notin D
        <5>1. D \subseteq HoldersOf(a)
          BY <1>2, <4>2 DEF HoldersOf, Moves
        <5>2. \A x \in MoveUnits(c, i, n) : x[1] = c
          BY DEF MoveUnits
        <5>3. QED
          BY <1>4, <4>2, <5>1, <5>2 DEF UnitsHeldBy
      <4>3. QED
        BY <2>2, <4>1, <4>2
    <3>2. QED
      BY <1>8, <3>1 DEF IInv, TotalsRespected
  <2>3. QED
    BY <2>1, <2>2
<1>9. QED
  BY <1>7, <1>8 DEF TotalsRespected

(* Releasing a movement that is held. *)
LEMMA ReleaseStep ==
    ASSUME IInv, NEW c \in Calls, NEW i \in held[c], Release(c, i),
           UNCHANGED <<req, pinned>>
    PROVE  SpentIsHeld' /\ TotalsRespected' /\ spent' \in [Assets -> Nat]
<1>1. PICK b \in Assets, n \in 1..MaxAmount :
        /\ i \in MoveIndex(c) /\ i \in 1..MaxMoves
        /\ b = Moves(c)[i].asset /\ n = Moves(c)[i].amount
  BY MoveFacts DEF IInv, TypeOK, HeldShape
<1>2. /\ spent \in [Assets -> Nat] /\ held \in [Calls -> SUBSET (1..MaxMoves)]
      /\ spent' = [spent EXCEPT ![b] = IF @ <= n THEN 0 ELSE @ - n]
      /\ held' = [held EXCEPT ![c] = @ \ {i}]
  BY <1>1 DEF IInv, TypeOK, Release
<1>3. \A a \in Assets \ {b} : HeldUnits(a)' = HeldUnits(a)
  BY <1>1, <1>2 DEF HeldUnits, UnitOf, MoveIndex, Moves, Unit
<1>4. HeldUnits(b) = HeldUnits(b)' \cup MoveUnits(c, i, n)
  BY <1>1, <1>2 DEF HeldUnits, UnitOf, MoveUnits, MoveIndex, Moves, Unit
<1>5. /\ HeldUnits(b) \in SUBSET Unit /\ HeldUnits(b)' \in SUBSET Unit
      /\ \A x \in HeldUnits(b)' : ~ (x[1] = c /\ x[2] = i)
  BY <1>2 DEF HeldUnits, Unit
<1>6. Cardinality(HeldUnits(b)) = Cardinality(HeldUnits(b)') + n
  BY <1>1, <1>4, <1>5, AddUnits
<1>7. Cardinality(HeldUnits(b)') \in Nat /\ n \in Nat
  BY <1>1, <1>5, UnitsFinite, SpendAssumption
<1>8. spent[b] = Cardinality(HeldUnits(b)') + n
  BY <1>1, <1>6 DEF IInv, SpentIsHeld
<1>9. spent'[b] = Cardinality(HeldUnits(b)')
  BY <1>1, <1>2, <1>7, <1>8
<1>10. SpentIsHeld'
  BY <1>1, <1>2, <1>3, <1>9 DEF IInv, SpentIsHeld
<1>11. ASSUME NEW a \in Assets, NEW D \in SUBSET HoldersOf(a)', D # {}
       PROVE  \E d \in D : /\ a \in DOMAIN pinned[d].maxTotal
                           /\ Cardinality(UnitsHeldBy(D, a)') <= pinned[d].maxTotal[a]
  <2>1. D \in SUBSET HoldersOf(a) /\ D \subseteq Calls
    BY <1>2 DEF HoldersOf, Moves
  <2>2. UnitsHeldBy(D, a)' \in SUBSET UnitsHeldBy(D, a)
    BY <1>2 DEF UnitsHeldBy, HeldUnits, UnitOf, MoveIndex, Moves, Unit
  <2>3. PICK d \in D : /\ a \in DOMAIN pinned[d].maxTotal
                       /\ Cardinality(UnitsHeldBy(D, a)) <= pinned[d].maxTotal[a]
    BY <1>11, <2>1 DEF IInv, TotalsRespected
  <2>4. held[d] # {} /\ pinned[d].maxTotal # Unset
    BY <2>1, <2>3 DEF HoldersOf, IInv, HeldShape
  <2>5. pinned[d].maxTotal[a] \in Nat
    BY <2>1, <2>3, <2>4, CapIsNat
  <2>6. UnitsHeldBy(D, a) \in SUBSET Unit
    BY DEF UnitsHeldBy, HeldUnits
  <2>7. /\ Cardinality(UnitsHeldBy(D, a)') <= Cardinality(UnitsHeldBy(D, a))
        /\ Cardinality(UnitsHeldBy(D, a)') \in Nat
        /\ Cardinality(UnitsHeldBy(D, a)) \in Nat
    BY <2>2, <2>6, FewerUnits, UnitsFinite
  <2>8. QED
    BY <2>3, <2>5, <2>7
<1>12. spent' \in [Assets -> Nat]
  BY <1>1, <1>2, <1>7
<1>13. QED
  BY <1>10, <1>11, <1>12 DEF TotalsRespected

-----------------------------------------------------------------------------
(* Every step preserves the invariant.                                     *)

LEMMA InitInv == Init => IInv
<1> SUFFICES ASSUME Init PROVE IInv
  OBVIOUS
<1>1. TypeOK
  BY DEF Init, TypeOK, Places, Settled
<1>2. HeldShape
  BY DEF Init, HeldShape
<1>3. \A a \in Assets : HeldUnits(a) = {} /\ HoldersOf(a) = {}
  BY DEF Init, HeldUnits, HoldersOf, Unit
<1>4. SpentIsHeld
  BY <1>3, FS_EmptySet DEF Init, SpentIsHeld
<1>5. TotalsRespected
  BY <1>3 DEF TotalsRespected
<1>6. QED
  BY <1>1, <1>2, <1>4, <1>5 DEF IInv

(* Steps that leave the tracker and every hold alone. *)
LEMMA QuietStep ==
    ASSUME IInv, NEW c \in Calls,
           \/ SetPolicy \/ Begin(c) \/ Recovered(c) \/ ResumeSigned(c)
           \/ IntentAnswered(c) \/ ChainAnswered(c) \/ CallWallet(c)
           \/ WalletSigns(c) \/ WalletThrows(c) \/ Released(c)
    PROVE  IInv'
<1> USE DEF IInv
<1>1. CASE SetPolicy
  <2>1. TypeOK' /\ HeldShape'
    BY <1>1 DEF SetPolicy, TypeOK, HeldShape, MoveIndex, Moves
  <2>2. QED
    BY <1>1, <2>1, Frame DEF SetPolicy
<1>2. CASE Begin(c)
  <2>1. TypeOK'
    BY <1>2 DEF Begin, TypeOK, StartHolding, Refuse, Goto, Places, Settled
  <2>2. HeldShape'
    <3>1. held[c] = {} /\ held' = held /\ req' = req /\ sigs' = sigs
      BY <1>2 DEF Begin, HeldShape
    <3>2. \A d \in Calls \ {c} : pc'[d] = pc[d] /\ pinned'[d] = pinned[d]
      BY <1>2 DEF Begin, TypeOK, StartHolding, Refuse, Goto
    <3>3. /\ pc'[c] \in {"refused", "hold", "recover", "intent"}
          /\ pc'[c] # "refused" => pinned'[c] # Unreadable
      BY <1>2 DEF Begin, TypeOK, StartHolding, Refuse, Goto
    <3>4. {} = 1..0 /\ 0 \in 0..MaxMoves
      BY SpendAssumption
    <3>5. QED
      BY <3>1, <3>2, <3>3, <3>4 DEF HeldShape, MoveIndex, Moves
  <2>3. UNCHANGED <<spent, held, req>> /\ \A d \in Calls : held[d] # {} => pinned'[d] = pinned[d]
    BY <1>2 DEF Begin, TypeOK, HeldShape
  <2>4. QED
    BY <2>1, <2>2, <2>3, Frame
<1>3. ASSUME UNCHANGED <<policy, spent, held, req, pinned>>, pc[c] \in Places \ {"idle"},
             seen' \subseteq Nonces, running' \in Calls \cup {NoCall},
             \/ sigs' = sigs
             \/ sigs' = sigs \cup {c},
             NEW q \in Places, pc' = [pc EXCEPT ![c] = q],
             \/ q \in {"recovered", "intent", "chain", "refused", "hold"} /\ held[c] = {}
                  /\ (q = "refused" \/ pinned[c] # Unreadable)
             \/ q = "wallet" /\ pc[c] = "hold" /\ AllHeld(c)
             \/ q = "signed" /\ pc[c] = "wallet" /\ sigs' = sigs \cup {c}
             \/ q = "release" /\ pc[c] = "wallet"
             \/ q = "failed" /\ held[c] = {} /\ pc[c] # "refused"
      PROVE  IInv'
  <2>1. TypeOK'
    BY <1>3 DEF TypeOK
  <2>2. HeldShape'
    <3>1. \A d \in Calls \ {c} : pc'[d] = pc[d]
      BY <1>3 DEF TypeOK
    <3>2. pc'[c] = q
      BY <1>3 DEF TypeOK
    <3>3. {} = 1..0 /\ 0 \in 0..MaxMoves
      BY SpendAssumption
    <3>4. pc[c] \notin {"idle", "refused"} => pinned[c] # Unreadable
      BY DEF HeldShape
    <3>5. QED
      BY <1>3, <3>1, <3>2, <3>3, <3>4 DEF HeldShape, MoveIndex, Moves, AllHeld, TotalsPolicy
  <2>3. QED
    BY <1>3, <2>1, <2>2, Frame
<1>4. CASE Recovered(c)
  <2>1. req[c].nonce \in Nonces \cup {NoNonce}
    BY InputAssumption DEF TypeOK, Request
  <2>2. seen' \subseteq Nonces
    BY <1>4, <2>1 DEF Recovered, CommitNonce, TypeOK
  <2>3. \/ pc' = [pc EXCEPT ![c] = "recovered"]
        \/ pc' = [pc EXCEPT ![c] = "refused"]
    BY <1>4 DEF Recovered, Goto
  <2>4. pc[c] = "recover" /\ held[c] = {} /\ pinned[c] # Unreadable
    BY <1>4 DEF Recovered, HeldShape
  <2>5. QED
    BY <1>3, <1>4, <2>2, <2>3, <2>4 DEF Recovered, TypeOK, Places, Settled
<1>5. CASE ResumeSigned(c)
  BY <1>3, <1>5 DEF ResumeSigned, StartHolding, Goto, HeldShape, TypeOK, Places, Settled
<1>6. CASE IntentAnswered(c)
  BY <1>3, <1>6 DEF IntentAnswered, StartHolding, Refuse, Goto, HeldShape, TypeOK, Places, Settled
<1>7. CASE ChainAnswered(c)
  BY <1>3, <1>7 DEF ChainAnswered, StartHolding, Refuse, Goto, HeldShape, TypeOK, Places, Settled
<1>8. CASE CallWallet(c)
  BY <1>3, <1>8 DEF CallWallet, Goto, TypeOK, Places, Settled
<1>9. CASE WalletSigns(c)
  BY <1>3, <1>9 DEF WalletSigns, Goto, TypeOK, Places, Settled
<1>10. CASE WalletThrows(c)
  BY <1>3, <1>10 DEF WalletThrows, Goto, TypeOK, Places, Settled
<1>11. CASE Released(c)
  BY <1>3, <1>11 DEF Released, Goto, TypeOK, Places, Settled
<1>12. QED
  BY <1>1, <1>2, <1>4, <1>5, <1>6, <1>7, <1>8, <1>9, <1>10, <1>11

(* One turn of the holding loop. *)
LEMMA HoldNextStep ==
    ASSUME IInv, NEW c \in Calls, HoldNext(c)
    PROVE  IInv'
<1> USE DEF IInv
<1> DEFINE i == Cardinality(held[c]) + 1
<1>1. /\ pc[c] = "hold" /\ pinned[c] # Unreadable /\ pinned[c].maxTotal # Unset
      /\ i \in MoveIndex(c)
      /\ UNCHANGED <<policy, seen, req, pinned, running, sigs>>
  BY DEF HoldNext, TotalsPolicy, HeldShape
<1>2. PICK k \in 0..MaxMoves : held[c] = 1..k
  BY <1>1 DEF HeldShape
<1>3. Cardinality(held[c]) = k /\ k \in Nat
  BY <1>2, FS_Interval, SpendAssumption
<1>4. CASE Fits(pinned[c], Moves(c)[i]) /\ Reserve(c, i) /\ UNCHANGED pc
  <2>1. i \notin held[c] /\ i \in 1..MaxMoves /\ held[c] \cup {i} = 1..(k + 1)
    BY <1>1, <1>2, <1>3, MoveFacts DEF TypeOK
  <2>2. /\ Moves(c)[i].asset \in Assets /\ Moves(c)[i].amount \in Nat
    BY <1>1, MoveFacts, SpendAssumption DEF TypeOK
  <2>3. TypeOK'
    BY <1>1, <1>4, <2>1, <2>2 DEF TypeOK, Reserve
  <2>4. HeldShape'
    <3>1. held'[c] = held[c] \cup {i} /\ \A d \in Calls \ {c} : held'[d] = held[d]
      BY <1>4 DEF Reserve, TypeOK
    <3>2. k + 1 \in 0..MaxMoves
      BY <1>3, <2>1, SpendAssumption
    <3>3. QED
      BY <1>1, <1>4, <2>1, <3>1, <3>2 DEF HeldShape, MoveIndex, Moves
  <2>5. QED
    BY <1>1, <1>4, <2>1, <2>3, <2>4, ReserveStep
<1>5. CASE GiveUp(c) /\ UNCHANGED <<spent, held>>
  <2>1. TypeOK' /\ HeldShape'
    BY <1>1, <1>5 DEF TypeOK, HeldShape, GiveUp, Goto, Places, Settled, MoveIndex, Moves
  <2>2. QED
    BY <1>1, <1>5, <2>1, Frame
<1>6. QED
  BY <1>4, <1>5 DEF HoldNext, TotalsPolicy

(* One turn of the releasing loop. *)
LEMMA ReleaseNextStep ==
    ASSUME IInv, NEW c \in Calls, ReleaseNext(c)
    PROVE  IInv'
<1> USE DEF IInv
<1>1. /\ pc[c] \in {"undo", "release"}
      /\ UNCHANGED <<policy, seen, pc, req, pinned, running, sigs>>
  BY DEF ReleaseNext
<1>2. PICK i \in held[c] : Release(c, i)
  BY DEF ReleaseNext
<1>3. SpentIsHeld' /\ TotalsRespected' /\ spent' \in [Assets -> Nat]
  BY <1>1, <1>2, ReleaseStep
<1>4. held' = [held EXCEPT ![c] = @ \ {i}]
  BY <1>2 DEF Release
<1>5. TypeOK' /\ HeldShape'
  BY <1>1, <1>3, <1>4 DEF TypeOK, HeldShape, MoveIndex, Moves
<1>6. QED
  BY <1>3, <1>5

LEMMA StepInv == IInv /\ [Next]_vars => IInv'
<1> SUFFICES ASSUME IInv, [Next]_vars PROVE IInv'
  OBVIOUS
<1>1. ASSUME NEW c \in Calls, Own(c) \/ Others(c) PROVE IInv'
  BY <1>1, QuietStep, HoldNextStep, ReleaseNextStep DEF Own, Others
<1>2. CASE SetPolicy
  <2>1. TypeOK' /\ HeldShape'
    BY <1>2 DEF IInv, SetPolicy, TypeOK, HeldShape, MoveIndex, Moves
  <2>2. QED
    BY <1>2, <2>1, Frame DEF IInv, SetPolicy
<1>3. CASE UNCHANGED vars
  <2>1. TypeOK' /\ HeldShape'
    BY <1>3 DEF IInv, vars, TypeOK, HeldShape, MoveIndex, Moves
  <2>2. QED
    BY <1>3, <2>1, Frame DEF IInv, vars
<1>4. QED
  BY <1>1, <1>2, <1>3 DEF Next

-----------------------------------------------------------------------------
(* Theorems.                                                               *)

LEMMA Invariance == Spec => []IInv
BY InitInv, StepInv, PTL DEF Spec

(* Type correctness; in particular a total never goes below zero, though   *)
(* calls release what they hold in any order (policy.ts 557-563).          *)
THEOREM TypeCorrect == Spec => []TypeOK
BY Invariance, PTL DEF IInv

(* The tracker's total is exactly what the live holds add up to, for any   *)
(* calls, policies and wallet (policy.ts 512-526).                         *)
THEOREM SpentIsWhatIsHeld == Spec => []SpentIsHeld
BY Invariance, PTL DEF IInv

(* Where the wallet that throws has not signed, every signature is of a    *)
(* call that resolved.                                                     *)
SignedResolved == \A c \in sigs : pc[c] = "signed"

LEMMA SignedResolvedInv ==
    ASSUME "signs_then_throws" \notin WalletOutcomes
    PROVE  Spec => []SignedResolved
<1>1. Init => SignedResolved
  BY DEF Init, SignedResolved
<1>2. SignedResolved /\ TypeOK /\ [Next]_vars => SignedResolved'
  <2> SUFFICES ASSUME SignedResolved, TypeOK, [Next]_vars PROVE SignedResolved'
    OBVIOUS
  <2> USE DEF SignedResolved, TypeOK
  <2>1. ASSUME NEW c \in Calls, Own(c) \/ Others(c) PROVE SignedResolved'
    <3>1. CASE WalletSigns(c)
      BY <3>1 DEF WalletSigns, Goto
    <3>2. CASE WalletThrows(c)
      BY <3>2 DEF WalletThrows, Goto
    <3>3. CASE Recovered(c) \/ ResumeSigned(c) \/ HoldNext(c) \/ CallWallet(c)
      BY <3>3 DEF Recovered, ResumeSigned, StartHolding, HoldNext, GiveUp, CallWallet, Goto
    <3>4. CASE ReleaseNext(c) \/ Released(c)
      BY <3>4 DEF ReleaseNext, Released, Goto
    <3>5. CASE Begin(c) \/ IntentAnswered(c) \/ ChainAnswered(c)
      BY <3>5 DEF Begin, IntentAnswered, ChainAnswered, StartHolding, Refuse, Goto
    <3>6. QED
      BY <2>1, <3>1, <3>2, <3>3, <3>4, <3>5 DEF Own, Others
  <2>2. CASE SetPolicy
    BY <2>2 DEF SetPolicy
  <2>3. CASE UNCHANGED vars
    BY <2>3 DEF vars
  <2>4. QED
    BY <2>1, <2>2, <2>3 DEF Next
<1>3. QED
  BY <1>1, <1>2, TypeCorrect, PTL DEF Spec

(* Calls whose wallets answered with a signature. *)
AnsweredSigners(a) == {c \in SignersOf(a) : pc[c] = "signed"}

(* Any of them together are within the total that one of them had read.    *)
AnsweredTotal ==
    \A a \in Assets : \A D \in SUBSET AnsweredSigners(a) : D # {} =>
        \E c \in D :
            /\ a \in DOMAIN pinned[c].maxTotal
            /\ Cardinality({x \in SignedUnits(a) : x[1] \in D}) <= pinned[c].maxTotal[a]

LEMMA AnsweredWithin == IInv => AnsweredTotal
<1> SUFFICES ASSUME IInv, NEW a \in Assets, NEW D \in SUBSET AnsweredSigners(a), D # {}
             PROVE  \E c \in D :
                        /\ a \in DOMAIN pinned[c].maxTotal
                        /\ Cardinality({x \in SignedUnits(a) : x[1] \in D}) <= pinned[c].maxTotal[a]
  BY DEF AnsweredTotal
<1>1. \A c \in D : /\ c \in Calls /\ c \in CountedSigners /\ held[c] = MoveIndex(c)
                   /\ \E i \in MoveIndex(c) : Moves(c)[i].asset = a
  BY DEF AnsweredSigners, SignersOf, CountedSigners, IInv, TypeOK, HeldShape
<1>2. D \in SUBSET HoldersOf(a)
  BY <1>1 DEF HoldersOf
<1>3. {x \in SignedUnits(a) : x[1] \in D} = UnitsHeldBy(D, a)
  BY <1>1 DEF SignedUnits, UnitsHeldBy, HeldUnits, UnitOf, Unit
<1>4. QED
  BY <1>2, <1>3 DEF IInv, TotalsRespected

LEMMA SignedWithin == IInv /\ SignedResolved => LifetimeTotal
<1> SUFFICES ASSUME IInv, SignedResolved, NEW a \in Assets, SignersOf(a) # {}
             PROVE  \E c \in SignersOf(a) :
                        /\ a \in DOMAIN pinned[c].maxTotal
                        /\ Cardinality(SignedUnits(a)) <= pinned[c].maxTotal[a]
  BY DEF LifetimeTotal
<1>1. AnsweredSigners(a) = SignersOf(a)
  BY DEF AnsweredSigners, SignersOf, CountedSigners, SignedResolved
<1>2. {x \in SignedUnits(a) : x[1] \in SignersOf(a)} = SignedUnits(a)
  BY DEF SignedUnits, SignersOf, UnitOf
<1>3. QED
  BY <1>1, <1>2, AnsweredWithin DEF AnsweredTotal

(* Whatever the wallets do, one that signs and then throws included: what  *)
(* the wallets that answered signed together in an asset, all of them or   *)
(* any of them, is within the total one of their own calls had read; so    *)
(* only signatures nobody was handed can take the sum past every total     *)
(* (policy.ts createSpendTracker; signHeld, evm.ts 1811-1819).              *)
THEOREM AnsweredTotalKept == Spec => []AnsweredTotal
BY Invariance, AnsweredWithin, PTL

(* The lifetime total: whatever is signed in an asset while a total is set *)
(* stays within the total one of the signing calls had read, for any       *)
(* number of concurrent calls and any changes of policy, provided that a   *)
(* wallet that throws has not signed (policy.ts 42, 512-526).              *)
THEOREM LifetimeTotalKept ==
    ASSUME "signs_then_throws" \notin WalletOutcomes
    PROVE  Spec => []LifetimeTotal
BY Invariance, SignedResolvedInv, SignedWithin, PTL

(* Past its check, a call has been allowed under the policy it pinned. *)
CheckedShape ==
    \A c \in Calls :
        pc[c] \in {"recovered", "chain", "hold", "undo", "wallet", "signed", "release"}
            => CheckAllows(req[c], pinned[c])

LEMMA CheckedShapeInv == Spec => []CheckedShape
<1>1. Init => CheckedShape
  BY DEF Init, CheckedShape
<1>2. CheckedShape /\ TypeOK /\ [Next]_vars => CheckedShape'
  <2> SUFFICES ASSUME CheckedShape, TypeOK, [Next]_vars PROVE CheckedShape'
    OBVIOUS
  <2> USE DEF CheckedShape, TypeOK
  <2>1. ASSUME NEW c \in Calls, Own(c) \/ Others(c) PROVE CheckedShape'
    <3>1. CASE Begin(c)
      BY <3>1 DEF Begin, StartHolding, Refuse, Goto
    <3>2. CASE Recovered(c) \/ ResumeSigned(c)
      BY <3>2 DEF Recovered, ResumeSigned, StartHolding, Goto
    <3>3. CASE IntentAnswered(c) \/ ChainAnswered(c)
      BY <3>3 DEF IntentAnswered, ChainAnswered, StartHolding, Refuse, Goto
    <3>4. CASE HoldNext(c) \/ CallWallet(c)
      BY <3>4 DEF HoldNext, GiveUp, CallWallet, Goto
    <3>5. CASE WalletSigns(c) \/ WalletThrows(c)
      BY <3>5 DEF WalletSigns, WalletThrows, Goto
    <3>6. CASE ReleaseNext(c) \/ Released(c)
      BY <3>6 DEF ReleaseNext, Released, Goto
    <3>7. QED
      BY <2>1, <3>1, <3>2, <3>3, <3>4, <3>5, <3>6 DEF Own, Others
  <2>2. CASE SetPolicy
    BY <2>2 DEF SetPolicy
  <2>3. CASE UNCHANGED vars
    BY <2>3 DEF vars
  <2>4. QED
    BY <2>1, <2>2, <2>3 DEF Next
<1>3. QED
  BY <1>1, <1>2, TypeCorrect, PTL DEF Spec

(* One policy per signing: a call that reaches its wallet was checked and  *)
(* counted under one and the same policy, whatever the host did to its     *)
(* options while the call waited (policy.ts pinPolicyOption).              *)
THEOREM OnePolicy == Spec => []OnePolicyPerSigning
<1>1. IInv /\ CheckedShape => OnePolicyPerSigning
  <2> SUFFICES ASSUME IInv, CheckedShape, NEW c \in Calls, pc[c] \in {"wallet", "signed"}
               PROVE  /\ pinned[c] # Unreadable
                      /\ CheckAllows(req[c], pinned[c])
                      /\ held[c] = IF pinned[c].maxTotal = Unset THEN {} ELSE MoveIndex(c)
    BY DEF OnePolicyPerSigning
  <2>1. pinned[c] # Unreadable /\ CheckAllows(req[c], pinned[c])
    BY DEF IInv, HeldShape, CheckedShape
  <2>2. held[c] = IF pinned[c].maxTotal = Unset THEN {} ELSE MoveIndex(c)
    BY DEF IInv, HeldShape
  <2>3. QED
    BY <2>1, <2>2
<1>2. QED
  BY <1>1, Invariance, CheckedShapeInv, PTL

-----------------------------------------------------------------------------
(* Nonces. *)

(* The places of a call past inspectAuthorization's lookup of its nonce.   *)
Committed == {"recovered", "hold", "undo", "wallet", "signed", "release", "failed"}

(* A call with an authorization gets past the lookup only by committing    *)
(* its nonce, and no other call with that nonce is past it.                *)
NonceShape ==
    \A c \in Calls : req[c].kind = "auth" =>
        /\ pc[c] \notin {"intent", "chain"}
        /\ pc[c] \in Committed /\ req[c].nonce # NoNonce =>
              /\ req[c].nonce \in seen
              /\ \A d \in Calls \ {c} :
                    req[d].kind = "auth" /\ req[d].nonce = req[c].nonce
                        => pc[d] \notin Committed

(* A step that moves one call, which was past the lookup if it now is.     *)
LEMMA NonceFrame ==
    ASSUME TypeOK, NonceShape, UNCHANGED <<seen, req>>, NEW c \in Calls, NEW q,
           pc' = [pc EXCEPT ![c] = q],
           req[c].kind = "auth" =>
               q \notin {"intent", "chain"} /\ (q \in Committed => pc[c] \in Committed)
    PROVE  NonceShape'
<1>1. \A d \in Calls : pc'[d] = IF d = c THEN q ELSE pc[d]
  BY DEF TypeOK
<1>2. QED
  BY <1>1 DEF NonceShape

(* The lookup itself: the nonce is fresh, so that no call past the lookup  *)
(* carries it.                                                             *)
LEMMA RecoveredNonce ==
    ASSUME TypeOK, NonceShape, NEW c \in Calls, Recovered(c)
    PROVE  NonceShape'
<1>1. CASE CheckAllows(req[c], pinned[c]) /\ req[c].nonce \notin seen
  <2>1. /\ \A d \in Calls : pc'[d] = IF d = c THEN "recovered" ELSE pc[d]
        /\ UNCHANGED req
        /\ seen' = IF req[c].nonce # NoNonce THEN seen \cup {req[c].nonce} ELSE seen
    BY <1>1 DEF Recovered, Goto, CommitNonce, TypeOK
  <2>2. ASSUME NEW d \in Calls, req[d].kind = "auth"
        PROVE  pc'[d] \notin {"intent", "chain"}
    BY <2>1, <2>2 DEF NonceShape
  <2>3. ASSUME NEW d \in Calls, req[d].kind = "auth", pc'[d] \in Committed,
               req[d].nonce # NoNonce
        PROVE  req[d].nonce \in seen'
    BY <2>1, <2>3 DEF NonceShape
  <2>4. ASSUME NEW d \in Calls, req[d].kind = "auth", pc'[d] \in Committed,
               req[d].nonce # NoNonce, NEW e \in Calls \ {d}, req[e].kind = "auth",
               req[e].nonce = req[d].nonce, pc'[e] \in Committed
        PROVE  FALSE
    <3>1. CASE d = c
      BY <1>1, <2>1, <2>4, <3>1 DEF NonceShape
    <3>2. CASE e = c
      BY <1>1, <2>1, <2>4, <3>2 DEF NonceShape
    <3>3. CASE d # c /\ e # c
      BY <2>1, <2>4, <3>3 DEF NonceShape
    <3>4. QED
      BY <3>1, <3>2, <3>3
  <2>5. QED
    BY <2>1, <2>2, <2>3, <2>4 DEF NonceShape
<1>2. CASE ~ (CheckAllows(req[c], pinned[c]) /\ req[c].nonce \notin seen)
  <2>1. pc' = [pc EXCEPT ![c] = "refused"] /\ UNCHANGED <<seen, req>>
    BY <1>2 DEF Recovered, Goto, CommitNonce
  <2>2. QED
    BY <2>1, NonceFrame DEF Committed
<1>3. QED
  BY <1>1, <1>2

LEMMA NonceStep ==
    ASSUME TypeOK, NonceShape, [Next]_vars
    PROVE  NonceShape'
<1>1. ASSUME NEW c \in Calls, Own(c) \/ Others(c) PROVE NonceShape'
  <2>1. CASE Begin(c)
    <3>1. UNCHANGED <<seen, req>>
      BY <2>1 DEF Begin
    <3>2. \/ pc' = [pc EXCEPT ![c] = "refused"]
          \/ pc' = [pc EXCEPT ![c] = "recover"]
          \/ req[c].kind # "auth" /\ pc' = [pc EXCEPT ![c] = "hold"]
          \/ req[c].kind # "auth" /\ pc' = [pc EXCEPT ![c] = "intent"]
      BY <2>1 DEF Begin, StartHolding, Refuse, Goto
    <3>3. QED
      BY <3>1, <3>2, NonceFrame DEF Committed
  <2>2. CASE Recovered(c)
    BY <2>2, RecoveredNonce
  <2>3. CASE ResumeSigned(c)
    BY <2>3, NonceFrame DEF ResumeSigned, StartHolding, Goto, Committed
  <2>4. CASE IntentAnswered(c) \/ ChainAnswered(c)
    <3>1. UNCHANGED <<seen, req>> /\ req[c].kind # "auth"
      BY <2>4 DEF IntentAnswered, ChainAnswered, NonceShape
    <3>2. \E q : pc' = [pc EXCEPT ![c] = q]
      BY <2>4 DEF IntentAnswered, ChainAnswered, StartHolding, Refuse, Goto
    <3>3. QED
      BY <3>1, <3>2, NonceFrame
  <2>5. CASE HoldNext(c)
    <3>1. UNCHANGED <<seen, req>> /\ pc[c] = "hold"
      BY <2>5 DEF HoldNext
    <3>2. pc' = pc \/ pc' = [pc EXCEPT ![c] = "undo"]
      BY <2>5 DEF HoldNext, GiveUp, Goto
    <3>3. CASE pc' = pc
      BY <3>1, <3>3 DEF NonceShape
    <3>4. QED
      BY <3>1, <3>2, <3>3, NonceFrame DEF Committed
  <2>6. CASE CallWallet(c) \/ WalletSigns(c) \/ WalletThrows(c)
    <3>1. UNCHANGED <<seen, req>> /\ pc[c] \in {"hold", "wallet"}
      BY <2>6 DEF CallWallet, WalletSigns, WalletThrows
    <3>2. \E q \in {"wallet", "signed", "release"} : pc' = [pc EXCEPT ![c] = q]
      BY <2>6 DEF CallWallet, WalletSigns, WalletThrows, Goto
    <3>3. QED
      BY <3>1, <3>2, NonceFrame DEF Committed
  <2>7. CASE ReleaseNext(c)
    BY <2>7 DEF ReleaseNext, NonceShape
  <2>8. CASE Released(c)
    <3>1. UNCHANGED <<seen, req>> /\ pc[c] \in {"undo", "release"}
      BY <2>8 DEF Released
    <3>2. \E q \in {"refused", "failed"} : pc' = [pc EXCEPT ![c] = q]
      BY <2>8 DEF Released, Goto
    <3>3. QED
      BY <3>1, <3>2, NonceFrame DEF Committed
  <2>9. QED
    BY <1>1, <2>1, <2>2, <2>3, <2>4, <2>5, <2>6, <2>7, <2>8 DEF Own, Others
<1>2. CASE SetPolicy
  BY <1>2 DEF SetPolicy, NonceShape
<1>3. CASE UNCHANGED vars
  BY <1>3 DEF vars, NonceShape
<1>4. QED
  BY <1>1, <1>2, <1>3 DEF Next

(* One signature per nonce: of any number of calls that carry the same     *)
(* authorization nonce at most one reaches the wallet, however their       *)
(* awaits interleave (evm.ts 1123-1159).                                   *)
THEOREM OneSignaturePerNonce == Spec => []NonceSignedOnce
<1>1. Init => NonceShape
  BY DEF Init, NonceShape, Committed
<1>2. TypeOK /\ NonceShape /\ [Next]_vars => NonceShape'
  BY NonceStep
<1>3. NonceShape => NonceSignedOnce
  BY DEF NonceShape, NonceSignedOnce, Committed
<1>4. QED
  BY <1>1, <1>2, <1>3, TypeCorrect, PTL DEF Spec

-----------------------------------------------------------------------------
(* The refinement: the tracker, its loops and its awaits keep the budget.  *)

(* The call inside a synchronous loop is the one that runs; what it holds  *)
(* so far fits the totals it has read, for nobody else moves the totals.   *)
LoopShape ==
    \A c \in Calls :
        /\ pc[c] \in {"hold", "undo", "release"} <=> running = c
        /\ pc[c] = "hold" => \A i \in held[c] :
              /\ Moves(c)[i].asset \in DOMAIN pinned[c].maxTotal
              /\ spent[Moves(c)[i].asset] <= pinned[c].maxTotal[Moves(c)[i].asset]

(* A step outside the loops, into one of them, or out of it.               *)
LEMMA LoopFrame ==
    ASSUME TypeOK, HeldShape, LoopShape, NEW c \in Calls, NEW q,
           UNCHANGED <<spent, held, req>>, pc' = [pc EXCEPT ![c] = q],
           \A d \in Calls \ {c} : pinned'[d] = pinned[d],
           running \in {c, NoCall},
           \/ q \in {"hold", "undo", "release"} /\ running' = c
           \/ q \notin {"hold", "undo", "release"} /\ running' = NoCall,
           q = "hold" => held[c] = {}
    PROVE  LoopShape'
<1>1. \A d \in Calls : pc'[d] = IF d = c THEN q ELSE pc[d]
  BY DEF TypeOK
<1>2. NoCall \notin Calls
  BY SpendAssumption
<1>3. \A d \in Calls : pc'[d] \in {"hold", "undo", "release"} <=> running' = d
  BY <1>1, <1>2 DEF LoopShape
<1>4. ASSUME NEW d \in Calls, pc'[d] = "hold", NEW i \in held'[d]
      PROVE  /\ Moves(d)[i].asset \in DOMAIN pinned'[d].maxTotal
             /\ spent[Moves(d)[i].asset] <= pinned'[d].maxTotal[Moves(d)[i].asset]
  <2>1. d # c
    BY <1>1, <1>4
  <2>2. QED
    BY <1>1, <1>4, <2>1 DEF LoopShape
<1>5. QED
  BY <1>3, <1>4 DEF LoopShape, Moves

(* The only steps that move the totals are the running call's own.         *)
LEMMA LoopHold ==
    ASSUME IInv, LoopShape, NEW c \in Calls, HoldNext(c)
    PROVE  LoopShape'
<1> DEFINE i == Cardinality(held[c]) + 1
<1>1. /\ running = c /\ running' = c /\ pc[c] = "hold" /\ UNCHANGED <<req, pinned>>
      /\ i \in MoveIndex(c)
  BY DEF HoldNext
<1>2. \A d \in Calls \ {c} : pc[d] # "hold"
  BY <1>1 DEF LoopShape
<1>3. CASE Fits(pinned[c], Moves(c)[i]) /\ Reserve(c, i) /\ UNCHANGED pc
  <2> DEFINE b == Moves(c)[i].asset
             n == Moves(c)[i].amount
  <2>1. b \in Assets /\ n \in Nat /\ i \in 1..MaxMoves
    BY <1>1, MoveFacts, SpendAssumption DEF IInv, TypeOK
  <2> HIDE DEF b, n, i
  <2>2. /\ spent' = [spent EXCEPT ![b] = @ + n]
        /\ held' = [held EXCEPT ![c] = @ \cup {i}]
    BY <1>3 DEF Reserve, b, n
  <2>3. b \in DOMAIN pinned[c].maxTotal /\ spent[b] + n <= pinned[c].maxTotal[b]
    BY <1>3 DEF Fits, b, n
  <2>4. held'[c] = held[c] \cup {i}
    BY <2>2 DEF IInv, TypeOK
  <2>5. \A a \in Assets : spent'[a] = IF a = b THEN spent[b] + n ELSE spent[a]
    BY <2>1, <2>2 DEF IInv, TypeOK
  <2>6. ASSUME NEW j \in held'[c]
        PROVE  /\ Moves(c)[j].asset \in DOMAIN pinned[c].maxTotal
               /\ spent'[Moves(c)[j].asset] <= pinned[c].maxTotal[Moves(c)[j].asset]
    <3>1. CASE Moves(c)[j].asset = b
      BY <2>1, <2>3, <2>5, <3>1
    <3>2. CASE Moves(c)[j].asset # b
      <4>1. j \in held[c] /\ j \in MoveIndex(c)
        BY <2>4, <3>2 DEF b, IInv, HeldShape
      <4>2. Moves(c)[j].asset \in Assets
        BY <4>1, MoveFacts DEF IInv, TypeOK
      <4>3. QED
        BY <1>1, <2>5, <3>2, <4>1, <4>2 DEF LoopShape
    <3>3. QED
      BY <3>1, <3>2
  <2>7. QED
    BY <1>1, <1>2, <1>3, <2>6 DEF LoopShape, Moves
<1>4. CASE GiveUp(c) /\ UNCHANGED <<spent, held>>
  BY <1>1, <1>4, LoopFrame DEF GiveUp, Goto, IInv
<1>5. QED
  BY <1>3, <1>4 DEF HoldNext, TotalsPolicy

LEMMA LoopRelease ==
    ASSUME LoopShape, NEW c \in Calls, ReleaseNext(c)
    PROVE  LoopShape'
<1>1. /\ running = c /\ pc[c] \in {"undo", "release"}
      /\ UNCHANGED <<running, pc, req, pinned>>
  BY DEF ReleaseNext
<1>2. \A d \in Calls : pc[d] # "hold"
  BY <1>1 DEF LoopShape
<1>3. QED
  BY <1>1, <1>2 DEF LoopShape

LEMMA LoopStep ==
    ASSUME IInv, LoopShape, [Next]_vars
    PROVE  LoopShape'
<1> USE DEF IInv
<1>1. ASSUME NEW c \in Calls, Own(c) \/ Others(c) PROVE LoopShape'
  <2>1. CASE Begin(c)
    <3>1. /\ UNCHANGED <<spent, held, req>> /\ running = NoCall /\ held[c] = {}
          /\ \A d \in Calls \ {c} : pinned'[d] = pinned[d]
      BY <2>1 DEF Begin, TypeOK, HeldShape
    <3>2. \/ pc' = [pc EXCEPT ![c] = "hold"] /\ running' = c
          \/ \E q \in {"refused", "recover", "intent"} :
                pc' = [pc EXCEPT ![c] = q] /\ running' = NoCall
      BY <2>1, <3>1 DEF Begin, StartHolding, Refuse, Goto
    <3>3. QED
      BY <3>1, <3>2, LoopFrame
  <2>2. CASE Recovered(c)
    <3>1. /\ UNCHANGED <<spent, held, req, pinned>> /\ running = NoCall /\ running' = NoCall
          /\ \E q \in {"recovered", "refused"} : pc' = [pc EXCEPT ![c] = q]
      BY <2>2 DEF Recovered, Goto
    <3>2. QED
      BY <3>1, LoopFrame
  <2>3. CASE ResumeSigned(c) \/ IntentAnswered(c) \/ ChainAnswered(c)
    <3>1. /\ UNCHANGED <<spent, held, req, pinned>> /\ running = NoCall /\ held[c] = {}
      BY <2>3 DEF ResumeSigned, IntentAnswered, ChainAnswered, HeldShape
    <3>2. \/ pc' = [pc EXCEPT ![c] = "hold"] /\ running' = c
          \/ \E q \in {"refused", "chain"} :
                pc' = [pc EXCEPT ![c] = q] /\ running' = NoCall
      BY <2>3, <3>1 DEF ResumeSigned, IntentAnswered, ChainAnswered, StartHolding, Refuse, Goto
    <3>3. QED
      BY <3>1, <3>2, LoopFrame
  <2>4. CASE HoldNext(c)
    BY <2>4, LoopHold
  <2>5. CASE CallWallet(c) \/ WalletSigns(c) \/ Released(c)
    <3>1. /\ UNCHANGED <<spent, held, req, pinned>> /\ running \in {c, NoCall} /\ running' = NoCall
          /\ \E q \in {"wallet", "signed", "refused", "failed"} : pc' = [pc EXCEPT ![c] = q]
      BY <2>5 DEF CallWallet, WalletSigns, Released, Goto
    <3>2. QED
      BY <3>1, LoopFrame
  <2>6. CASE WalletThrows(c)
    BY <2>6, LoopFrame DEF WalletThrows, Goto
  <2>7. CASE ReleaseNext(c)
    BY <2>7, LoopRelease
  <2>8. QED
    BY <1>1, <2>1, <2>2, <2>3, <2>4, <2>5, <2>6, <2>7 DEF Own, Others
<1>2. CASE SetPolicy
  BY <1>2 DEF SetPolicy, LoopShape, Moves
<1>3. CASE UNCHANGED vars
  BY <1>3 DEF vars, LoopShape, Moves
<1>4. QED
  BY <1>1, <1>2, <1>3 DEF Next

(* What the refinement needs beside the invariant of the accounting. *)
BInv == IInv /\ LoopShape

(* SpendBudget counts as this module does. *)
LEMMA SameCardinality == \A S : Budget!Cardinality(S) = Cardinality(S)
BY DEF Budget!Cardinality, Cardinality, Budget!IsFiniteSet, IsFiniteSet

(* Claims that are held in full take up no more of an asset than the       *)
(* tracker has counted against its total.                                  *)
LEMMA TakenIsSpent ==
    ASSUME IInv, NEW a \in Assets, NEW t,
           \A d \in Calls : t[d] # {} => t[d] = Claim(d) /\ held[d] = MoveIndex(d)
    PROVE  /\ Cardinality(Budget!TakenIn(a, t)) <= spent[a]
           /\ Cardinality(Budget!TakenIn(a, t)) \in Nat
<1> DEFINE T == Budget!TakenIn(a, t)
           f == [x \in T |-> <<x[1], x[2][2], x[2][3]>>]
<1>1. ASSUME NEW x \in T
      PROVE  /\ x = <<x[1], <<a, x[2][2], x[2][3]>>>>
             /\ <<x[1], x[2][2], x[2][3]>> \in HeldUnits(a)
  <2>1. PICK d \in Calls, m \in 1..MaxMoves, u \in 1..MaxAmount : x = <<d, <<a, m, u>>>>
    BY DEF Budget!TakenIn, Budget!ClaimUnit
  <2>2. <<a, m, u>> \in t[d]
    BY <2>1 DEF Budget!TakenIn
  <2>3. <<a, m, u>> \in Claim(d) /\ held[d] = MoveIndex(d)
    BY <2>2
  <2>4. UnitOf(<<d, m, u>>, a)
    BY <2>3 DEF Claim
  <2>5. m \in held[d]
    BY <2>3, <2>4 DEF UnitOf
  <2>6. QED
    BY <2>1, <2>4, <2>5 DEF HeldUnits, Unit
<1>2. f \in [T -> HeldUnits(a)]
  BY <1>1
<1>3. \A x, y \in T : f[x] = f[y] => x = y
  <2>1. TAKE x, y \in T
  <2>2. HAVE f[x] = f[y]
  <2>3. x[1] = y[1] /\ x[2][2] = y[2][2] /\ x[2][3] = y[2][3]
    BY <2>2
  <2>4. QED
    BY <1>1, <2>3
<1>4. f \in Injection(T, HeldUnits(a))
  BY <1>2, <1>3 DEF Injection, IsInjective
<1>5. IsFiniteSet(HeldUnits(a))
  BY UnitsFinite DEF HeldUnits
<1>6. IsFiniteSet(T) /\ Cardinality(T) <= Cardinality(HeldUnits(a))
  BY <1>4, <1>5, FS_Injection
<1>7. QED
  BY <1>6, FS_CardinalityType DEF IInv, SpentIsHeld

(* What the budget sees of a call depends on its place, its request and    *)
(* its policy alone.                                                       *)
LEMMA BudgetOfCall ==
    ASSUME NEW c \in Calls
    PROVE  /\ budgetState[c] = IF pc[c] \in {"wallet", "release"} THEN "taken"
                               ELSE IF pc[c] = "signed" THEN "signed"
                               ELSE IF pc[c] \in {"refused", "failed"} THEN "closed"
                               ELSE "open"
           /\ budgetTaken[c] = IF pc[c] \in {"wallet", "release", "signed"}
                                    /\ pinned[c].maxTotal # Unset
                               THEN Claim(c) ELSE {}
BY DEF budgetState, budgetTaken

LEMMA BudgetOfCallNext ==
    ASSUME NEW c \in Calls
    PROVE  /\ budgetState'[c] = IF pc'[c] \in {"wallet", "release"} THEN "taken"
                               ELSE IF pc'[c] = "signed" THEN "signed"
                               ELSE IF pc'[c] \in {"refused", "failed"} THEN "closed"
                               ELSE "open"
           /\ budgetTaken'[c] = IF pc'[c] \in {"wallet", "release", "signed"}
                                    /\ pinned'[c].maxTotal # Unset
                               THEN Claim(c)' ELSE {}
BY DEF budgetState, budgetTaken

(* A step that moves one call moves the budget of that call only.          *)
LEMMA BudgetFrame ==
    ASSUME TypeOK, UNCHANGED req, NEW c \in Calls, NEW q, pc' = [pc EXCEPT ![c] = q],
           \A d \in Calls \ {c} : pinned'[d] = pinned[d]
    PROVE  /\ \A d \in Calls : Claim(d)' = Claim(d)
           /\ budgetState' = [budgetState EXCEPT ![c] = budgetState'[c]]
           /\ budgetTaken' = [budgetTaken EXCEPT ![c] = budgetTaken'[c]]
           /\ pc'[c] = q
<1>1. \A d \in Calls : Claim(d)' = Claim(d)
  BY DEF Claim, UnitOf, MoveIndex, Moves
<1>2. pc'[c] = q /\ \A d \in Calls \ {c} : pc'[d] = pc[d]
  BY DEF TypeOK
<1>3. \A d \in Calls \ {c} : budgetState'[d] = budgetState[d] /\ budgetTaken'[d] = budgetTaken[d]
  BY <1>1, <1>2, BudgetOfCall, BudgetOfCallNext
<1>4. /\ budgetState' = [d \in Calls |-> budgetState'[d]]
      /\ budgetTaken' = [d \in Calls |-> budgetTaken'[d]]
      /\ DOMAIN budgetState = Calls /\ DOMAIN budgetTaken = Calls
  BY DEF budgetState, budgetTaken
<1>5. QED
  BY <1>1, <1>2, <1>3, <1>4

(* The wallet is asked: the call takes its whole claim, and it fits.       *)
LEMMA CallWalletTakes ==
    ASSUME BInv, NEW c \in Calls, CallWallet(c)
    PROVE  Budget!BudgetNext
<1> USE DEF BInv, IInv
<1>1. /\ running = c /\ pc[c] = "hold" /\ pc' = [pc EXCEPT ![c] = "wallet"]
      /\ UNCHANGED <<spent, req, pinned, held>>
      /\ pinned[c].maxTotal # Unset => held[c] = MoveIndex(c)
  BY DEF CallWallet, Goto, AllHeld, TotalsPolicy
<1>2. /\ \A d \in Calls : Claim(d)' = Claim(d)
      /\ budgetState' = [budgetState EXCEPT ![c] = budgetState'[c]]
      /\ budgetTaken' = [budgetTaken EXCEPT ![c] = budgetTaken'[c]]
      /\ pc'[c] = "wallet"
  BY <1>1, BudgetFrame
<1>3. /\ budgetState[c] = "open" /\ budgetState'[c] = "taken"
      /\ budgetTaken[c] = {}
      /\ budgetTaken'[c] = IF pinned[c].maxTotal # Unset THEN Claim(c) ELSE {}
  BY <1>1, <1>2, BudgetOfCall, BudgetOfCallNext
<1>4. CASE pinned[c].maxTotal = Unset
  <2>1. budgetTaken' = budgetTaken
    BY <1>2, <1>3, <1>4 DEF budgetTaken
  <2>2. Budget!TakeNothing(c)
    BY <1>2, <1>3, <2>1 DEF Budget!TakeNothing
  <2>3. QED
    BY <2>2 DEF Budget!BudgetNext
<1>5. CASE pinned[c].maxTotal # Unset
  <2> DEFINE lim == pinned[c].maxTotal
  <2>1. pinned[c] \in Policies \ {Unreadable}
    BY <1>1 DEF HeldShape, TypeOK
  <2>2. lim \in {p.maxTotal : p \in {q \in Policies \ {Unreadable} : q.maxTotal # Unset}}
    BY <1>5, <2>1
  <2>3. Claim(c) \subseteq Budget!ClaimUnit
    BY DEF Claim, Budget!ClaimUnit
  <2>4. ASSUME NEW d \in Calls, budgetTaken'[d] # {}
        PROVE  budgetTaken'[d] = Claim(d) /\ held[d] = MoveIndex(d)
    <3>1. /\ budgetTaken'[d] = Claim(d) /\ pinned[d].maxTotal # Unset
          /\ pc'[d] \in {"wallet", "release", "signed"}
      BY <1>1, <1>2, <2>4, BudgetOfCallNext
    <3>2. CASE d = c
      BY <1>1, <1>5, <3>1, <3>2
    <3>3. CASE d # c
      <4>1. pc[d] \in {"wallet", "release", "signed"}
        BY <1>1, <3>1, <3>3 DEF TypeOK
      <4>2. pc[d] # "release"
        BY <1>1, <3>3 DEF LoopShape
      <4>3. QED
        BY <3>1, <4>1, <4>2 DEF HeldShape
    <3>4. QED
      BY <3>2, <3>3
  <2>5. ASSUME NEW x \in Claim(c)
        PROVE  /\ x[1] \in DOMAIN lim
               /\ Cardinality(Budget!TakenIn(x[1], budgetTaken')) <= lim[x[1]]
    <3>1. x[1] \in Assets /\ x[2] \in held[c] /\ Moves(c)[x[2]].asset = x[1]
      BY <1>1, <1>5 DEF Claim, UnitOf
    <3>2. x[1] \in DOMAIN lim /\ spent[x[1]] <= lim[x[1]]
      BY <1>1, <3>1 DEF LoopShape
    <3>3. /\ Cardinality(Budget!TakenIn(x[1], budgetTaken')) <= spent[x[1]]
          /\ Cardinality(Budget!TakenIn(x[1], budgetTaken')) \in Nat
      BY <2>4, <3>1, TakenIsSpent
    <3>4. lim[x[1]] \in Nat /\ spent[x[1]] \in Nat
      BY <1>1, <1>5, <3>1, <3>2, CapIsNat DEF TypeOK
    <3>5. QED
      BY <3>2, <3>3, <3>4
  <2>6. Budget!Take(c)
    BY <1>2, <1>3, <1>5, <2>2, <2>3, <2>5, SameCardinality DEF Budget!Take
  <2>7. QED
    BY <2>6 DEF Budget!BudgetNext
<1>6. QED
  BY <1>4, <1>5

LEMMA StepKeepsBudget ==
    ASSUME BInv, [Next]_vars
    PROVE  [Budget!BudgetNext]_(Budget!budgetVars)
<1> USE DEF BInv, IInv, Budget!budgetVars
<1>1. ASSUME NEW c \in Calls, Own(c) \/ Others(c)
      PROVE  [Budget!BudgetNext]_(Budget!budgetVars)
  <2>1. ASSUME UNCHANGED req, \A d \in Calls \ {c} : pinned'[d] = pinned[d],
               pc[c] \in {"idle", "recover", "recovered", "intent", "chain", "hold", "undo"},
               NEW q \in {"recover", "recovered", "intent", "chain", "hold", "undo", "refused"},
               pc' = [pc EXCEPT ![c] = q]
        PROVE  [Budget!BudgetNext]_(Budget!budgetVars)
    <3>1. /\ budgetState' = [budgetState EXCEPT ![c] = budgetState'[c]]
          /\ budgetTaken' = [budgetTaken EXCEPT ![c] = budgetTaken'[c]]
          /\ pc'[c] = q
      BY <2>1, BudgetFrame
    <3>2. /\ budgetState[c] = "open" /\ budgetTaken[c] = {} /\ budgetTaken'[c] = {}
          /\ budgetState'[c] = IF q = "refused" THEN "closed" ELSE "open"
      BY <2>1, <3>1, BudgetOfCall, BudgetOfCallNext
    <3>3. budgetTaken' = budgetTaken
      BY <3>1, <3>2 DEF budgetTaken
    <3>4. CASE q = "refused"
      BY <3>1, <3>2, <3>3, <3>4 DEF Budget!BudgetNext, Budget!Decline
    <3>5. CASE q # "refused"
      BY <3>1, <3>2, <3>3, <3>5 DEF budgetState
    <3>6. QED
      BY <3>4, <3>5
  <2>2. CASE Begin(c)
    <3>1. \E q \in {"refused", "hold", "recover", "intent"} : pc' = [pc EXCEPT ![c] = q]
      BY <2>2 DEF Begin, StartHolding, Refuse, Goto
    <3>2. UNCHANGED req /\ pc[c] = "idle" /\ \A d \in Calls \ {c} : pinned'[d] = pinned[d]
      BY <2>2 DEF Begin, TypeOK
    <3>3. QED
      BY <2>1, <3>1, <3>2
  <2>3. CASE Recovered(c) \/ ResumeSigned(c) \/ IntentAnswered(c) \/ ChainAnswered(c)
    <3>1. \E q \in {"refused", "hold", "recovered", "chain"} : pc' = [pc EXCEPT ![c] = q]
      BY <2>3 DEF Recovered, ResumeSigned, IntentAnswered, ChainAnswered, StartHolding,
                  Refuse, Goto
    <3>2. UNCHANGED <<req, pinned>> /\ pc[c] \in {"recover", "recovered", "intent", "chain"}
      BY <2>3 DEF Recovered, ResumeSigned, IntentAnswered, ChainAnswered
    <3>3. QED
      BY <2>1, <3>1, <3>2
  <2>4. CASE HoldNext(c)
    <3>1. UNCHANGED <<req, pinned>> /\ pc[c] = "hold"
      BY <2>4 DEF HoldNext
    <3>2. pc' = pc \/ pc' = [pc EXCEPT ![c] = "undo"]
      BY <2>4 DEF HoldNext, GiveUp, Goto
    <3>3. CASE pc' = pc
      <4>1. pc' = [pc EXCEPT ![c] = "hold"]
        BY <3>1, <3>3 DEF TypeOK
      <4>2. QED
        BY <2>1, <3>1, <4>1
    <3>4. QED
      BY <2>1, <3>1, <3>2, <3>3
  <2>5. CASE CallWallet(c)
    BY <2>5, CallWalletTakes
  <2>6. CASE WalletSigns(c)
    <3>1. /\ UNCHANGED <<req, pinned>> /\ pc[c] = "wallet" /\ pc' = [pc EXCEPT ![c] = "signed"]
      BY <2>6 DEF WalletSigns, Goto
    <3>2. /\ budgetState' = [budgetState EXCEPT ![c] = budgetState'[c]]
          /\ budgetTaken' = [budgetTaken EXCEPT ![c] = budgetTaken'[c]]
          /\ pc'[c] = "signed" /\ Claim(c)' = Claim(c)
      BY <3>1, BudgetFrame
    <3>3. /\ budgetState[c] = "taken" /\ budgetState'[c] = "signed"
          /\ budgetTaken'[c] = budgetTaken[c]
      BY <3>1, <3>2, BudgetOfCall, BudgetOfCallNext
    <3>4. budgetTaken' = budgetTaken
      BY <3>2, <3>3 DEF budgetTaken
    <3>5. QED
      BY <3>2, <3>3, <3>4 DEF Budget!BudgetNext, Budget!Sign
  <2>7. CASE WalletThrows(c)
    <3>1. /\ UNCHANGED <<req, pinned>> /\ pc[c] = "wallet" /\ pc' = [pc EXCEPT ![c] = "release"]
      BY <2>7 DEF WalletThrows, Goto
    <3>2. /\ budgetState' = [budgetState EXCEPT ![c] = budgetState'[c]]
          /\ budgetTaken' = [budgetTaken EXCEPT ![c] = budgetTaken'[c]]
          /\ pc'[c] = "release" /\ Claim(c)' = Claim(c)
      BY <3>1, BudgetFrame
    <3>3. budgetState'[c] = budgetState[c] /\ budgetTaken'[c] = budgetTaken[c]
      BY <3>1, <3>2, BudgetOfCall, BudgetOfCallNext
    <3>4. budgetState' = budgetState
      BY <3>2, <3>3 DEF budgetState
    <3>5. budgetTaken' = budgetTaken
      BY <3>2, <3>3 DEF budgetTaken
    <3>6. QED
      BY <3>4, <3>5
  <2>8. CASE ReleaseNext(c)
    <3>1. UNCHANGED <<req, pinned, pc>>
      BY <2>8 DEF ReleaseNext
    <3>2. QED
      BY <3>1 DEF budgetState, budgetTaken, Claim, UnitOf, MoveIndex, Moves
  <2>9. CASE Released(c) /\ pc[c] = "undo"
    BY <2>1, <2>9 DEF Released, Goto
  <2>10. CASE Released(c) /\ pc[c] = "release"
    <3>1. /\ UNCHANGED <<req, pinned>> /\ pc' = [pc EXCEPT ![c] = "failed"]
      BY <2>10 DEF Released, Goto
    <3>2. /\ budgetState' = [budgetState EXCEPT ![c] = budgetState'[c]]
          /\ budgetTaken' = [budgetTaken EXCEPT ![c] = budgetTaken'[c]]
          /\ pc'[c] = "failed"
      BY <3>1, BudgetFrame
    <3>3. /\ budgetState[c] = "taken" /\ budgetState'[c] = "closed" /\ budgetTaken'[c] = {}
      BY <2>10, <3>1, <3>2, BudgetOfCall, BudgetOfCallNext
    <3>4. QED
      BY <3>2, <3>3 DEF Budget!BudgetNext, Budget!GiveBack
  <2>11. QED
    BY <1>1, <2>2, <2>3, <2>4, <2>5, <2>6, <2>7, <2>8, <2>9, <2>10 DEF Own, Others, Released
<1>2. CASE SetPolicy
  BY <1>2 DEF SetPolicy, budgetState, budgetTaken, Claim, UnitOf, MoveIndex, Moves
<1>3. CASE UNCHANGED vars
  BY <1>3 DEF vars, budgetState, budgetTaken, Claim, UnitOf, MoveIndex, Moves
<1>4. QED
  BY <1>1, <1>2, <1>3 DEF Next

(* The guard implements SpendBudget: behind its loops, its awaits and its  *)
(* movement-by-movement tracker, a call takes its whole claim when its     *)
(* wallet is asked, if the claim fits beside every other, and keeps it or  *)
(* gives it back whole (policy.ts 505-563, evm.ts holdAll, signHeld).      *)
THEOREM BudgetImplemented == Spec => KeepsBudget
<1>1. Init => Budget!BudgetInit
  BY DEF Init, Budget!BudgetInit, budgetState, budgetTaken
<1>2. Init => LoopShape
  <2>1. NoCall \notin Calls
    BY SpendAssumption
  <2>2. QED
    BY <2>1 DEF Init, LoopShape
<1>3. BInv /\ [Next]_vars => LoopShape'
  BY LoopStep DEF BInv
<1>4. BInv /\ [Next]_vars => [Budget!BudgetNext]_(Budget!budgetVars)
  BY StepKeepsBudget
<1>5. QED
  BY <1>1, <1>2, <1>3, <1>4, Invariance, PTL DEF Spec, BInv, KeepsBudget, Budget!BudgetSpec
=============================================================================
