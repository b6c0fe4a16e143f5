------------------------- MODULE SolanaPaymentProofs -------------------------
(* What a verdict of allow says, for every transaction: the proofs.        *)
EXTENDS SolanaPayment, TLAPS

(* The payer's part of a question, for an instruction of its transaction. *)
MovedBy(q, ix) ==
    q.payer # None => ix.authority = q.payer /\ ix.source \in TokenAccounts[q.payer]
OpenedBy(q, ix) ==
    /\ ix.prog = "ata" /\ ix.form = "create" /\ ~ ix.short /\ CreatesQuoted(ix)
    /\ q.payer # None => ix.funder = q.payer

(* What an instruction that raises no finding is. *)
Fine(q, ix) == (PaysQuoted(ix) /\ MovedBy(q, ix)) \/ MovesNothing(ix) \/ OpenedBy(q, ix)

-----------------------------------------------------------------------------
(* The walk keeps its types. *)

LEMMA InitTyped == Init => TypeOK
<1> SUFFICES ASSUME Init PROVE TypeOK
  OBVIOUS
<1>1. tx \in Seq(Instructions)
  BY DEF Init
<1>2. creates \in Nat /\ paid \in Read(Nat) \cup {None}
  BY DEF Init
<1> QED
  BY <1>1, <1>2 DEF Init, TypeOK

LEMMA Typed ==
    ASSUME TypeOK, [Next]_vars
    PROVE  TypeOK'
<1> USE PaymentAssumption DEF TypeOK
<1>1. CASE Unchecked
  BY <1>1 DEF Unchecked, budget
<1>2. CASE CannotCompare
  BY <1>2 DEF CannotCompare, budget, Present, Aggregates, Raise
<1>3. CASE Conclude
  BY <1>3 DEF Conclude, budget, AllFindings, Present, Aggregates, Raise
<1>4. ASSUME NEW ix \in Instructions, Step(ix)
      PROVE  TypeOK'
  <2>1. ix \in Instruction
    BY <1>4
  <2>2. Walk(ix) => tx' \in Seq(Instructions) /\ UNCHANGED <<asked, verdict>>
    BY <1>4 DEF Walk
  <2>3. CASE WalkForeign(ix)
    BY <2>2, <2>3 DEF WalkForeign, budget
  <2>4. CASE WalkMemo(ix)
    <3>1. ix \in MemoIx
      BY <2>1, <2>4 DEF WalkMemo, Instruction, TokenIx, SystemIx, AtaIx, BudgetIx, MemoIx,
                        LighthouseIx, ForeignIx
    <3>2. directive' \in BOOLEAN
      BY <3>1, <2>4 DEF WalkMemo, MemoIx
    <3> QED
      BY <2>2, <2>4, <3>2 DEF WalkMemo, budget
  <2>5. CASE WalkToken(ix)
    <3>1. ix \in TokenIx
      BY <2>1, <2>5 DEF WalkToken, Instruction, TokenIx, SystemIx, AtaIx, BudgetIx, MemoIx,
                        LighthouseIx, ForeignIx
    <3>2. paid' \in Read(Nat) \cup {None}
      BY <3>1, <2>5 DEF WalkToken, TokenIx
    <3> QED
      BY <2>2, <2>5, <3>2 DEF WalkToken, TokenFindings, Raise, budget
  <2>6. CASE WalkSystem(ix)
    BY <2>2, <2>6 DEF WalkSystem, Raise, budget
  <2>7. CASE WalkAta(ix)
    BY <2>2, <2>7 DEF WalkAta, AtaFindings, Raise, budget
  <2>8. CASE WalkBudget(ix)
    <3>1. ix \in BudgetIx
      BY <2>1, <2>8 DEF WalkBudget, Instruction, TokenIx, SystemIx, AtaIx, BudgetIx, MemoIx,
                        LighthouseIx, ForeignIx
    <3>2. ix.value # Unread => ix.value \in Nat
      BY <3>1 DEF BudgetIx, Read
    <3>3. limit' \in Nat \cup {None} /\ price' \in Nat \cup {None} /\ twice' \in BOOLEAN
      BY <3>2, <2>8 DEF WalkBudget, KeepLargest, Larger
    <3> QED
      BY <2>2, <2>8, <3>3 DEF WalkBudget
  <2>9. CASE WalkLighthouse(ix)
    BY <2>2, <2>9 DEF WalkLighthouse, Raise, budget
  <2> QED
    BY <1>4, <2>3, <2>4, <2>5, <2>6, <2>7, <2>8, <2>9 DEF Step
<1>5. CASE UNCHANGED vars
  BY <1>5 DEF vars
<1> QED
  BY <1>1, <1>2, <1>3, <1>4, <1>5 DEF Next

(* Every state of the walk is well typed: in particular no amount, fee or  *)
(* count is ever anything but a natural number, not there or unread.       *)
THEOREM TypeCorrect == Spec => []TypeOK
  BY InitTyped, Typed, PTL DEF Spec
-----------------------------------------------------------------------------
(* What one turn of the walk does to the accumulators. *)

LEMMA WalkStep ==
    ASSUME TypeOK, NEW ix \in Instructions, Step(ix)
    PROVE  /\ Walk(ix)
           /\ findings' = {} => findings = {} /\ Fine(asked, ix)
           /\ PaysQuoted(ix) =>
                 /\ findings' = {} => paid = None
                 /\ paid = None => paid' = ix.amount
           /\ ~ PaysQuoted(ix) => paid' = paid
           /\ findings' = {} /\ ix.prog = "ata" => creates' = creates + 1
           /\ ix.prog # "ata" => creates' = creates
<1> USE DEF TypeOK
<1>1. CASE WalkForeign(ix)
  BY <1>1 DEF WalkForeign, budget, PaysQuoted, Transfers, Sets
<1>2. CASE WalkMemo(ix)
  BY <1>2 DEF WalkMemo, budget, PaysQuoted, Transfers, Sets, Fine, MovesNothing
<1>3. CASE WalkToken(ix)
  <2>1. findings' = {} => findings = {} /\ Fine(asked, ix) /\ (PaysQuoted(ix) => paid = None)
    BY <1>3 DEF WalkToken, TokenFindings, Raise, Fine, PaysQuoted, PayerMoves, PayerNamed, MovedBy
  <2> QED
    BY <1>3, <2>1 DEF WalkToken, budget, Sets
<1>4. CASE WalkSystem(ix)
  <2>1. ix \in SystemIx
    BY <1>4, PaymentAssumption DEF WalkSystem, Instruction, TokenIx, SystemIx, AtaIx, BudgetIx,
                                   MemoIx, LighthouseIx, ForeignIx
  <2>2. findings' = {} => findings = {} /\ Fine(asked, ix)
    BY <1>4, <2>1 DEF WalkSystem, SystemIx, Raise, Fine, MovesNothing
  <2> QED
    BY <1>4, <2>2 DEF WalkSystem, budget, PaysQuoted, Transfers, Sets
<1>5. CASE WalkAta(ix)
  <2>1. ix \in AtaIx
    BY <1>5, PaymentAssumption DEF WalkAta, Instruction, TokenIx, SystemIx, AtaIx, BudgetIx,
                                   MemoIx, LighthouseIx, ForeignIx
  <2>2. findings' = {} => findings = {} /\ OpenedBy(asked, ix)
    BY <1>5, <2>1 DEF WalkAta, AtaIx, AtaFindings, Raise, PayerNamed, OpenedBy
  <2> QED
    BY <1>5, <2>2 DEF WalkAta, budget, PaysQuoted, Transfers, Sets, Fine, OpenedBy
<1>6. CASE WalkBudget(ix)
  BY <1>6 DEF WalkBudget, KeepLargest, Larger, PaysQuoted, Transfers, Sets, Fine, MovesNothing
<1>7. CASE WalkLighthouse(ix)
  BY <1>7 DEF WalkLighthouse, Raise, budget, PaysQuoted, Transfers, Sets, Fine, MovesNothing
<1> QED
  BY <1>1, <1>2, <1>3, <1>4, <1>5, <1>6, <1>7 DEF Step

LEMMA BudgetStep ==
    ASSUME NEW ix \in Instructions, Step(ix), ~ twice'
    PROVE  /\ ~ twice
           /\ Sets(ix, "price") => price = None /\ price' = ix.value
           /\ ~ Sets(ix, "price") => price' = price
           /\ Sets(ix, "limit") => limit = None /\ limit' = ix.value
           /\ ~ Sets(ix, "limit") => limit' = limit
<1>1. CASE ix.prog = "budget"
  BY <1>1 DEF Step, WalkForeign, WalkMemo, WalkToken, WalkSystem, WalkAta, WalkBudget,
              WalkLighthouse, KeepLargest, Larger, Sets
<1>2. CASE ix.prog # "budget"
  BY <1>2 DEF Step, WalkForeign, WalkMemo, WalkToken, WalkSystem, WalkAta, WalkBudget,
              WalkLighthouse, budget, Sets
<1> QED
  BY <1>1, <1>2

LEMMA Appended ==
    ASSUME TypeOK, NEW ix \in Instructions, tx' = Append(tx, ix)
    PROVE  /\ DOMAIN tx' = 1..(Len(tx) + 1) /\ DOMAIN tx = 1..Len(tx) /\ Len(tx) \in Nat
           /\ \A i \in DOMAIN tx : i \in DOMAIN tx' /\ tx'[i] = tx[i] /\ tx[i] \in Instructions
           /\ tx'[Len(tx) + 1] = ix
           /\ \A i \in DOMAIN tx' : i \in DOMAIN tx \/ i = Len(tx) + 1
  BY DEF TypeOK

-----------------------------------------------------------------------------
(* What the accumulators say about the instructions walked so far. *)

(* Nothing the walk itself finds is a mere warning. *)
NoneMedium == findings \cap Medium = {}

AllFine == findings = {} => \A i \in DOMAIN tx : Fine(asked, tx[i])

(* No transfer so far, or one that paid what the accumulator says. *)
OnePayment ==
    findings = {} =>
        IF paid = None
        THEN \A i \in DOMAIN tx : ~ Transfers(tx[i])
        ELSE \E i \in DOMAIN tx :
                /\ PaysQuoted(tx[i]) /\ MovedBy(asked, tx[i]) /\ tx[i].amount = paid
                /\ \A j \in DOMAIN tx : Transfers(tx[j]) => j = i

CreatesCounted ==
    findings = {} =>
        /\ creates = 0 => \A i \in DOMAIN tx : tx[i].prog # "ata"
        /\ creates = 1 => \A i, j \in DOMAIN tx :
                              tx[i].prog = "ata" /\ tx[j].prog = "ata" => i = j

(* Unless one was set twice, the price and the limit are those of the walk. *)
BudgetOnce ==
    ~ twice =>
        /\ \A i \in DOMAIN tx : /\ Sets(tx[i], "price") => tx[i].value = price
                                /\ Sets(tx[i], "limit") => tx[i].value = limit
        /\ limit # None => \E i \in DOMAIN tx : Sets(tx[i], "limit")

Walked == NoneMedium /\ AllFine /\ OnePayment /\ CreatesCounted /\ BudgetOnce

(* The inductive invariant: while the walk goes on the accumulators tell   *)
(* the truth, and an allow that was read off them is what it says.         *)
IInv ==
    /\ TypeOK
    /\ verdict = "none" => Walked
    /\ PaysTheQuote /\ NothingElse /\ FeeAsPromised

-----------------------------------------------------------------------------
(* The walk keeps what its accumulators say. *)

LEMMA WalkedKept ==
    ASSUME TypeOK, Walked, NEW ix \in Instructions, Step(ix)
    PROVE  Walked'
<1>1. tx' = Append(tx, ix) /\ asked' = asked
  BY WalkStep DEF Walk
<1> DEFINE n == Len(tx) + 1
<1>2. /\ DOMAIN tx' = 1..n /\ n \in DOMAIN tx' /\ n \notin DOMAIN tx
      /\ \A i \in DOMAIN tx : i \in DOMAIN tx' /\ tx'[i] = tx[i]
      /\ tx'[n] = ix
      /\ \A i \in DOMAIN tx' : i \in DOMAIN tx \/ i = n
  BY <1>1, Appended
<1> HIDE DEF n
<1>4. \A i \in DOMAIN tx : tx[i] \in Instructions
  BY Appended, <1>1
<1>5. AllFine'
  <2> SUFFICES ASSUME findings' = {}, NEW i \in DOMAIN tx'
               PROVE  Fine(asked', tx'[i])
    BY DEF AllFine
  <2>1. CASE i = n
    BY <2>1, <1>1, <1>2, WalkStep
  <2>2. CASE i \in DOMAIN tx
    BY <2>2, <1>1, <1>2, WalkStep DEF Walked, AllFine
  <2> QED
    BY <1>2, <2>1, <2>2
<1>6. OnePayment'
  <2> SUFFICES ASSUME findings' = {}
               PROVE  OnePayment'
    BY DEF OnePayment
  <2>1. OnePayment /\ findings = {} /\ Fine(asked, ix)
    BY WalkStep DEF Walked
  <2>2. CASE PaysQuoted(ix)
    <3>1. paid = None /\ paid' = ix.amount
      BY <2>2, WalkStep
    <3>2. \A i \in DOMAIN tx : ~ Transfers(tx[i])
      BY <2>1, <3>1 DEF OnePayment
    <3>3. MovedBy(asked, ix) /\ paid' # None
      <4>1. MovedBy(asked, ix)
        BY <2>1, <2>2 DEF Fine, PaysQuoted, Transfers, MovesNothing, OpenedBy
      <4>2. ix \in TokenIx
        BY <2>2, PaymentAssumption DEF PaysQuoted, Transfers, Instruction, TokenIx, SystemIx, AtaIx,
                                       BudgetIx, MemoIx, LighthouseIx, ForeignIx
      <4> QED
        BY <4>1, <4>2, <3>1, PaymentAssumption DEF TokenIx, Read
    <3>4. \A j \in DOMAIN tx' : Transfers(tx'[j]) => j = n
      BY <3>2, <1>2
    <3>5. PaysQuoted(tx'[n]) /\ MovedBy(asked', tx'[n]) /\ tx'[n].amount = paid'
      BY <2>2, <3>1, <3>3, <1>1, <1>2
    <3> QED
      BY <3>3, <3>4, <3>5, <1>2 DEF OnePayment, PaysQuoted, Transfers
  <2>3. CASE ~ PaysQuoted(ix)
    <3>1. paid' = paid /\ ~ Transfers(ix)
      BY <2>1, <2>3, WalkStep DEF Fine, PaysQuoted, Transfers, MovesNothing, OpenedBy
    <3>2. CASE paid = None
      BY <2>1, <3>1, <3>2, <1>2 DEF OnePayment, Transfers
    <3>3. CASE paid # None
      <4>1. PICK i \in DOMAIN tx :
                /\ PaysQuoted(tx[i]) /\ MovedBy(asked, tx[i]) /\ tx[i].amount = paid
                /\ \A j \in DOMAIN tx : Transfers(tx[j]) => j = i
        BY <2>1, <3>3 DEF OnePayment
      <4>2. PaysQuoted(tx'[i]) /\ MovedBy(asked', tx'[i]) /\ tx'[i].amount = paid'
        BY <4>1, <3>1, <1>1, <1>2
      <4>3. \A j \in DOMAIN tx' : Transfers(tx'[j]) => j = i
        BY <4>1, <3>1, <1>2
      <4> QED
        BY <4>2, <4>3, <3>1, <3>3, <1>2 DEF OnePayment, PaysQuoted, Transfers
    <3> QED
      BY <3>2, <3>3
  <2> QED
    BY <2>2, <2>3
<1>7. CreatesCounted'
  <2> SUFFICES ASSUME findings' = {}
               PROVE  CreatesCounted'
    BY DEF CreatesCounted
  <2>1. CreatesCounted /\ findings = {} /\ creates \in Nat
    BY WalkStep DEF Walked, TypeOK
  <2>2. CASE ix.prog = "ata"
    <3>1. creates' = creates + 1
      BY <2>2, WalkStep
    <3>2. creates' = 1 => \A i \in DOMAIN tx : tx[i].prog # "ata"
      BY <2>1, <3>1 DEF CreatesCounted
    <3> QED
      BY <2>1, <3>1, <3>2, <1>2 DEF CreatesCounted
  <2>3. CASE ix.prog # "ata"
    <3>1. creates' = creates
      BY <2>3, WalkStep
    <3> QED
      BY <2>1, <2>3, <3>1, <1>2 DEF CreatesCounted
  <2> QED
    BY <2>2, <2>3
<1>8. BudgetOnce'
  <2> SUFFICES ASSUME ~ twice'
               PROVE  BudgetOnce'
    BY DEF BudgetOnce
  <2>1. /\ ~ twice
        /\ Sets(ix, "price") => price = None /\ price' = ix.value
        /\ ~ Sets(ix, "price") => price' = price
        /\ Sets(ix, "limit") => limit = None /\ limit' = ix.value
        /\ ~ Sets(ix, "limit") => limit' = limit
    BY BudgetStep
  <2>2. ASSUME NEW i \in DOMAIN tx'
        PROVE  /\ Sets(tx'[i], "price") => tx'[i].value = price'
               /\ Sets(tx'[i], "limit") => tx'[i].value = limit'
    <3>1. CASE i = n
      BY <2>1, <3>1, <1>2
    <3>2. CASE i \in DOMAIN tx
      <4>1. /\ Sets(tx[i], "price") => tx[i].value = price
            /\ Sets(tx[i], "limit") => tx[i].value = limit
        BY <2>1, <3>2 DEF Walked, BudgetOnce
      <4>2. Sets(tx[i], "price") \/ Sets(tx[i], "limit") => tx[i].value # None
        <5>1. Sets(tx[i], "price") \/ Sets(tx[i], "limit") => tx[i] \in BudgetIx
          BY <1>4, <3>2, PaymentAssumption DEF Sets, Instruction, TokenIx, SystemIx, AtaIx,
                                               BudgetIx, MemoIx, LighthouseIx, ForeignIx
        <5> QED
          BY <5>1, PaymentAssumption DEF BudgetIx, Read
      <4> QED
        BY <2>1, <3>2, <4>1, <4>2, <1>2
    <3> QED
      BY <3>1, <3>2, <1>2
  <2>3. limit' # None => \E i \in DOMAIN tx' : Sets(tx'[i], "limit")
    <3>1. CASE Sets(ix, "limit")
      BY <3>1, <1>2
    <3>2. CASE ~ Sets(ix, "limit")
      <4>1. limit # None => \E i \in DOMAIN tx : Sets(tx[i], "limit")
        BY <2>1 DEF Walked, BudgetOnce
      <4> QED
        BY <4>1, <2>1, <3>2, <1>2
    <3> QED
      BY <3>1, <3>2
  <2> QED
    BY <2>2, <2>3 DEF BudgetOnce, Sets
<1>9. NoneMedium'
  BY DEF Walked, NoneMedium, Medium, Step, WalkForeign, WalkMemo, WalkToken, WalkSystem, WalkAta,
         WalkBudget, WalkLighthouse, TokenFindings, AtaFindings, Raise
<1> QED
  BY <1>5, <1>6, <1>7, <1>8, <1>9 DEF Walked

LEMMA InitWalked == Init => IInv
<1> SUFFICES ASSUME Init PROVE IInv
  OBVIOUS
<1>1. TypeOK
  BY InitTyped
<1>2. DOMAIN tx = {} /\ verdict = "none" /\ findings = {} /\ paid = None /\ limit = None
  BY DEF Init
<1>3. Walked
  BY <1>2 DEF Walked, NoneMedium, AllFine, OnePayment, CreatesCounted, BudgetOnce
<1> QED
  BY <1>1, <1>2, <1>3 DEF IInv, PaysTheQuote, NothingElse, FeeAsPromised

-----------------------------------------------------------------------------
(* An allow is read off accumulators that tell the truth. *)

LEMMA FeeIsInt ==
    ASSUME NEW units \in Nat, NEW unitPrice \in Nat
    PROVE  Fee(units, unitPrice) \in Int
<1>1. units * unitPrice \in Int
  OBVIOUS
<1> QED
  BY <1>1, PaymentAssumption DEF Fee

LEMMA Clean ==
    ASSUME TypeOK, Walked, Conclude, verdict' = "allow"
    PROVE  /\ findings = {} /\ paid # None /\ paid = asked.amount /\ paid # Unread
           /\ ~ FeeOver /\ ~ NotGasless /\ creates <= 1 /\ ~ twice
           /\ ~ PolicyRefuses
<1>1. AllFindings \subseteq Medium
  BY DEF Conclude
<1>2. Aggregates \cap Medium = {}
  BY DEF Aggregates, Raise, Walked, NoneMedium, Medium
<1>3. Aggregates = {}
  BY <1>1, <1>2 DEF AllFindings, Present
<1>4. paid # None
  BY <1>1, <1>3 DEF AllFindings, Present, Raise, Medium
<1>5. paid = asked.amount /\ ~ PolicyRefuses
  BY <1>1, <1>4 DEF AllFindings, Raise, Medium
<1>6. findings = {} /\ ~ FeeOver /\ ~ NotGasless /\ ~ (creates > 1) /\ ~ twice
  BY <1>3 DEF Aggregates, Raise
<1> QED
  BY <1>4, <1>5, <1>6 DEF Conclude, TypeOK

LEMMA ConcludeKeeps ==
    ASSUME TypeOK, Walked, Conclude
    PROVE  PaysTheQuote' /\ NothingElse' /\ FeeAsPromised'
<1> SUFFICES ASSUME verdict' = "allow"
             PROVE  PaysTheQuote' /\ NothingElse' /\ FeeAsPromised'
  BY DEF PaysTheQuote, NothingElse, FeeAsPromised
<1>1. UNCHANGED <<asked, tx>>
  BY DEF Conclude
<1>2. PICK i \in DOMAIN tx : /\ PaysQuoted(tx[i]) /\ MovedBy(asked, tx[i]) /\ tx[i].amount = paid
                             /\ \A j \in DOMAIN tx : Transfers(tx[j]) => j = i
  BY Clean DEF Walked, OnePayment
<1>3. asked.policy # None =>
          asked.policy.lists /\ (asked.policy.cap # None => tx[i].amount <= asked.policy.cap)
  <2> SUFFICES ASSUME asked.policy # None
               PROVE  asked.policy.lists /\ (asked.policy.cap # None => paid <= asked.policy.cap)
    BY <1>2
  <2>1. asked \in Question /\ Checkable
    BY PaymentAssumption DEF TypeOK, Conclude
  <2>2. asked.policy \in Policy
    BY <2>1 DEF Question, Checkable, Read
  <2>3. paid \in Nat
    BY Clean DEF TypeOK, Read
  <2>4. asked.policy.cap # None => asked.policy.cap \in Nat
    BY <2>2 DEF Policy
  <2> QED
    BY <2>3, <2>4, Clean DEF PolicyRefuses
<1>4. PaysTheQuote'
  BY <1>1, <1>2, <1>3, Clean DEF PaysTheQuote, PaysQuoted, Transfers, MovedBy, PayerNamed
<1>5. NothingElse'
  <2>1. \A k \in DOMAIN tx : Fine(asked, tx[k])
    BY Clean DEF Walked, AllFine
  <2>2. creates = 0 \/ creates = 1
    BY Clean DEF TypeOK
  <2>3. \A k, j \in DOMAIN tx : tx[k].prog = "ata" /\ tx[j].prog = "ata" => k = j
    BY <2>2, Clean DEF Walked, CreatesCounted
  <2>4. \A k \in DOMAIN tx : Transfers(tx[k]) \/ MovesNothing(tx[k]) \/ OpensQuoted(tx[k])
    BY <2>1 DEF Fine, PaysQuoted, OpenedBy, OpensQuoted, PayerNamed
  <2> QED
    BY <1>1, <2>3, <2>4 DEF NothingElse, Transfers, MovesNothing, OpensQuoted, CreatesQuoted,
                            PayerNamed
<1>6. FeeAsPromised'
  <2>1. /\ \A k \in DOMAIN tx : /\ Sets(tx[k], "price") => tx[k].value = price
                                /\ Sets(tx[k], "limit") => tx[k].value = limit
        /\ limit # None => \E k \in DOMAIN tx : Sets(tx[k], "limit")
    BY Clean DEF Walked, BudgetOnce
  <2>2. asked.maxFee \in Nat
    BY PaymentAssumption DEF TypeOK, Question
  <2>3. ASSUME NEW k \in DOMAIN tx, Sets(tx[k], "price"), tx[k].value > 0
        PROVE  /\ \A j \in DOMAIN tx : Sets(tx[j], "limit") =>
                     Fee(tx[j].value, tx[k].value) <= asked.maxFee
               /\ (\A j \in DOMAIN tx : ~ Sets(tx[j], "limit")) =>
                     Fee(MaxUnits, tx[k].value) <= asked.maxFee
    <3>1. tx[k] \in BudgetIx
      BY <2>3, PaymentAssumption DEF TypeOK, Sets, Instruction, TokenIx, SystemIx, AtaIx, BudgetIx,
                                     MemoIx, LighthouseIx, ForeignIx
    <3>2. tx[k].value = price /\ price \in Nat /\ price # None
      BY <2>1, <2>3, <3>1, PaymentAssumption DEF Sets, BudgetIx, Read
    <3>3. Fee(IF limit = None THEN MaxUnits ELSE limit, price) <= asked.maxFee
      <4> DEFINE units == IF limit = None THEN MaxUnits ELSE limit
      <4>1. units \in Nat
        BY PaymentAssumption DEF TypeOK
      <4>2. Fee(units, price) \in Int
        BY <4>1, <3>2, FeeIsInt
      <4>3. ~ (Fee(units, price) > asked.maxFee)
        BY <3>2, <2>3, Clean DEF FeeOver
      <4> QED
        BY <4>2, <4>3, <2>2
    <3>4. ASSUME NEW j \in DOMAIN tx, Sets(tx[j], "limit")
          PROVE  tx[j].value = limit /\ limit # None
      <4>1. tx[j] \in BudgetIx
        BY <3>4, PaymentAssumption DEF TypeOK, Sets, Instruction, TokenIx, SystemIx, AtaIx,
                                       BudgetIx, MemoIx, LighthouseIx, ForeignIx
      <4> QED
        BY <2>1, <3>4, <4>1, PaymentAssumption DEF Sets, BudgetIx, Read
    <3>5. (\A j \in DOMAIN tx : ~ Sets(tx[j], "limit")) => Fee(MaxUnits, price) <= asked.maxFee
      BY <2>1, <3>3
    <3> QED
      BY <3>2, <3>3, <3>4, <3>5
  <2> QED
    BY <1>1, <2>3, Clean DEF FeeAsPromised, NotGasless, Sets, PayerNamed
<1> QED
  BY <1>4, <1>5, <1>6

LEMMA Kept ==
    ASSUME IInv, [Next]_vars
    PROVE  IInv'
<1> USE DEF IInv
<1>1. TypeOK'
  BY Typed
<1>2. CASE Unchecked
  BY <1>1, <1>2 DEF Unchecked, PaysTheQuote, NothingElse, FeeAsPromised
<1>3. CASE CannotCompare
  BY <1>1, <1>3 DEF CannotCompare, PaysTheQuote, NothingElse, FeeAsPromised
<1>4. CASE Conclude
  <2>1. verdict = "none" /\ verdict' # "none"
    BY <1>4 DEF Conclude
  <2> QED
    BY <1>1, <1>4, <2>1, ConcludeKeeps
<1>5. ASSUME NEW ix \in Instructions, Step(ix)
      PROVE  IInv'
  <2>1. verdict = "none" /\ verdict' = "none"
    BY <1>5, WalkStep DEF Walk
  <2>2. Walked'
    BY <1>5, <2>1, WalkedKept
  <2> QED
    BY <1>1, <2>1, <2>2 DEF PaysTheQuote, NothingElse, FeeAsPromised
<1>6. CASE UNCHANGED vars
  <2>1. Walked => Walked'
    BY <1>6 DEF vars, Walked, NoneMedium, AllFine, OnePayment, CreatesCounted, BudgetOnce, Sets,
                PaysQuoted, Transfers
  <2>2. PaysTheQuote' /\ NothingElse' /\ FeeAsPromised'
    BY <1>6 DEF vars, PaysTheQuote, NothingElse, FeeAsPromised, PaysQuoted, Transfers, Sets,
                PayerNamed, OpensQuoted, CreatesQuoted, MovesNothing
  <2> QED
    BY <1>1, <1>6, <2>1, <2>2 DEF vars
<1> QED
  BY <1>2, <1>3, <1>4, <1>5, <1>6 DEF Next

LEMMA Invariant == Spec => []IInv
  BY InitWalked, Kept, PTL DEF Spec

(* Whatever instructions a transaction is made of and in whatever order,   *)
(* an allow means that it pays the quoted payee once and exactly.          *)
THEOREM AllowPaysTheQuote == Spec => []PaysTheQuote
<1>1. IInv => PaysTheQuote
  BY DEF IInv
<1> QED
  BY <1>1, Invariant, PTL

(* An allow means that no instruction beside the payment moves anything,   *)
(* and that one account is opened at most, the quoted payee's.             *)
THEOREM AllowMovesNothingElse == Spec => []NothingElse
<1>1. IInv => NothingElse
  BY DEF IInv
<1> QED
  BY <1>1, Invariant, PTL

(* An allow means that the fee is within the cap, whichever of the prices  *)
(* and limits the runtime goes by, and that the promised payer pays it.    *)
THEOREM AllowFeeAsPromised == Spec => []FeeAsPromised
<1>1. IInv => FeeAsPromised
  BY DEF IInv
<1> QED
  BY <1>1, Invariant, PTL
=============================================================================
