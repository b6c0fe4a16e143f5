--------------------------- MODULE GuardedPayProofs ---------------------------
(* What is cleared was judged and what is billed was attested, for any     *)
(* number of calls, requests and verifiers: the proofs.                    *)
EXTENDS GuardedPay, TLAPS

-----------------------------------------------------------------------------
(* Requests, their digests and what is found in them. *)

LEMMA SameAsset == ASSUME NEW r \in Request PROVE [r EXCEPT !.asset = r.asset] = r
BY DEF Request

LEMMA DigestTyped == ASSUME NEW r \in Request PROVE Digest(r) \in Digests
BY DEF Request, Digest, Digests, HashedPayment, Payments

LEMMA MixedDigest ==
    ASSUME NEW r \in Request, NEW s \in Request
    PROVE  [Digest(r) EXCEPT !.optionsRead = Digest(s).optionsRead, !.cap = Digest(s).cap] \in Digests
BY DEF Request, Digest, Digests, HashedPayment, Payments

LEMMA SameDigest ==
    ASSUME NEW r \in Request
    PROVE  [Digest(r) EXCEPT !.optionsRead = Digest(r).optionsRead, !.cap = Digest(r).cap] = Digest(r)
BY DEF Digest

LEMMA FindingsTyped ==
    ASSUME NEW r \in Request, NEW t \in Nat
    PROVE  Findings(r, t) \in SUBSET Codes
<1>1. LaneFindings(r, t) \subseteq Codes
  BY DEF LaneFindings, Raise, Codes
<1>2. OptionFindings(r) \subseteq Codes
  BY DEF OptionFindings, Raise, Codes
<1> QED
  BY <1>1, <1>2 DEF Findings, Raise, Codes

LEMMA Decided ==
    ASSUME NEW r \in Request, NEW t \in Nat, ~ Unsure(r)
    PROVE  Decision(r, t) \in Decisive
BY DEF Decision, Decisive

(* The asset an authorization names has no part in whether it can be judged. *)
LEMMA UnsureAsset ==
    ASSUME NEW r \in Request, NEW s \in Request
    PROVE  /\ [r EXCEPT !.asset = s.asset] \in Request
           /\ Unsure([r EXCEPT !.asset = s.asset]) <=> Unsure(r)
BY DEF Request, Unsure, Poisoned

LEMMA JudgedTyped ==
    ASSUME TypeOK, NEW c \in Calls
    PROVE  /\ Judged(c) \in Request
           /\ Unsure(Judged(c)) <=> Unsure(sent[c])
<1>1. sent[c] \in Request /\ Current(c) \in Request
  BY GuardedAssumption DEF TypeOK, Current
<1> QED
  BY <1>1, UnsureAsset DEF Judged

LEMMA ReceiptTyped ==
    ASSUME TypeOK, NEW c \in Calls, ~ Unsure(sent[c])
    PROVE  ReceiptFor(c) \in Receipt
<1>1. sent[c] \in Request /\ Current(c) \in Request /\ time \in Nat
  BY GuardedAssumption DEF TypeOK, Current
<1>2. DigestAtEnd(c) \in Digests
  BY <1>1, DigestTyped, MixedDigest DEF DigestAtEnd
<1>3. Decision(Judged(c), time) \in Decisive /\ Findings(Judged(c), time) \in SUBSET Codes
  BY <1>1, JudgedTyped, Decided, FindingsTyped
<1> QED
  BY <1>2, <1>3 DEF ReceiptFor, Receipt

(* A hosted receipt, and any receipt of a payment nothing is awaited for,  *)
(* says what is found in the request as it was read.                       *)
LEMMA ReceiptSays ==
    ASSUME TypeOK, NEW c \in Calls, Hosted(c) \/ job[c] # "recovering"
    PROVE  SaysOf(ReceiptFor(c), sent[c])
<1>1. sent[c] \in Request /\ time \in Nat
  BY GuardedAssumption DEF TypeOK
<1>2. Judged(c) = sent[c]
  BY <1>1, SameAsset DEF Judged, Current
<1>3. DigestAtEnd(c) = Digest(sent[c])
  BY <1>1, SameDigest DEF DigestAtEnd, Current
<1>4. time \in 0..time
  BY <1>1
<1> QED
  BY <1>2, <1>3, <1>4 DEF ReceiptFor, SaysOf

-----------------------------------------------------------------------------
(* The steps. *)

AgentStep(c) ==
    \/ Unasked(c) \/ Ask(c) \/ NoVerdict(c) \/ Delivered(c) \/ Forged(c) \/ Returned(c)
    \/ \E r \in Edits : Edit(c, r)

LEMMA Split ==
    ASSUME [Next]_vars
    PROVE  \/ \E c \in Calls : AgentStep(c) \/ Handle(c)
           \/ Tick
           \/ UNCHANGED vars
BY DEF Next, AgentStep

LEMMA InitTyped == Init => TypeOK
BY GuardedAssumption DEF Init, TypeOK, Answer, Abstained, Codes

(* What guardedPay makes of a response is an answer. *)
LEMMA VerdictTyped ==
    ASSUME NEW c \in Calls, NEW resp, resp.codes \in SUBSET Codes,
           resp.receipt # None => resp.receipt.codes \in SUBSET Codes
    PROVE  Verdict(c, resp) \in [decision : Decisive \cup {"abstain", "unpaid"},
                                  codes : SUBSET Codes, verified : BOOLEAN]
<1>1. Believed(c, resp) => Reconciled(resp) \in SUBSET Codes
  BY DEF Believed, Reconciled
<1> QED
  BY <1>1 DEF Verdict, Answer, Abstained, Decisive

LEMMA AnsweredTyped ==
    ASSUME TypeOK, NEW c \in Calls, NEW resp, resp.codes \in SUBSET Codes,
           resp.receipt # None => resp.receipt.codes \in SUBSET Codes,
           Answered(c, resp)
    PROVE  TypeOK'
BY VerdictTyped DEF TypeOK, Answered, Return, serverVars

LEMMA SignedTyped == TypeOK => Signed \subseteq Receipt
BY DEF TypeOK, Signed

LEMMA AgentTyped ==
    ASSUME TypeOK, NEW c \in Calls, AgentStep(c)
    PROVE  TypeOK'
<1>1. CASE Unasked(c)
  <2>1. PICK a \in {Answer("unpaid", {}, FALSE), Abstained} : Return(c, a)
    BY <1>1 DEF Unasked
  <2>2. a \in [decision : Decisive \cup {"abstain", "unpaid"}, codes : SUBSET Codes,
               verified : BOOLEAN]
    <3>1. Answer("unpaid", {}, FALSE) \in [decision : Decisive \cup {"abstain", "unpaid"},
                                            codes : SUBSET Codes, verified : BOOLEAN]
      BY DEF Answer
    <3>2. Abstained \in [decision : Decisive \cup {"abstain", "unpaid"}, codes : SUBSET Codes,
                         verified : BOOLEAN]
      BY DEF Answer, Abstained
    <3> QED
      BY <3>1, <3>2
  <2> QED
    BY <1>1, <2>1, <2>2 DEF Unasked, Return, TypeOK, serverVars
<1>2. CASE Ask(c)
  BY <1>2 DEF Ask, TypeOK
<1>3. CASE NoVerdict(c)
  BY <1>3 DEF NoVerdict, Return, Answer, Abstained, TypeOK, serverVars, Decisive
<1>4. CASE Delivered(c)
  <2>1. PICK resp \in Responses(Signed, {"good", "none"}) : Answered(c, resp)
    BY <1>4 DEF Delivered
  <2>2. resp.codes \in SUBSET Codes
    BY GuardedAssumption DEF Responses
  <2>3. resp.receipt # None => resp.receipt.codes \in SUBSET Codes
    BY SignedTyped DEF Responses, Receipt
  <2> QED
    BY <2>1, <2>2, <2>3, AnsweredTyped
<1>5. CASE Forged(c)
  <2> DEFINE resp == [decision |-> "allow", codes |-> {}, signature |-> "bad",
                      receipt |-> [decision |-> "allow", codes |-> {}, digest |-> Digest(live[c])]]
  <2>1. Answered(c, resp)
    BY <1>5 DEF Forged
  <2>2. resp.codes \in SUBSET Codes /\ resp.receipt.codes \in SUBSET Codes
    OBVIOUS
  <2> HIDE DEF resp
  <2> QED
    BY <2>1, <2>2, AnsweredTyped
<1>6. CASE Returned(c)
  <2> DEFINE own == {i \in issued : i.call = c}
  <2>1. CASE own = {}
    <3> DEFINE resp == [decision |-> "abstain", codes |-> {}, receipt |-> None,
                        signature |-> "none"]
    <3>1. Answered(c, resp)
      BY <1>6, <2>1 DEF Returned
    <3>2. resp.codes \in SUBSET Codes /\ resp.receipt = None
      OBVIOUS
    <3> HIDE DEF resp
    <3> QED
      BY <3>1, <3>2, AnsweredTyped
  <2>2. CASE own # {}
    <3> DEFINE resp(i) == [decision |-> i.receipt.decision, codes |-> i.receipt.codes,
                           receipt |-> i.receipt, signature |-> "none"]
    <3>1. PICK i \in own : Answered(c, resp(i))
      BY <1>6, <2>2 DEF Returned
    <3>2. i.receipt.codes \in SUBSET Codes
      BY DEF TypeOK, Receipt
    <3>3. resp(i).codes \in SUBSET Codes /\ resp(i).receipt.codes \in SUBSET Codes
      BY <3>2
    <3> HIDE DEF resp
    <3> QED
      BY <3>1, <3>3, AnsweredTyped
  <2> QED
    BY <2>1, <2>2
<1>7. ASSUME NEW r \in Edits, Edit(c, r)
      PROVE  TypeOK'
  BY <1>7, GuardedAssumption DEF Edit, TypeOK, serverVars
<1> QED
  BY <1>1, <1>2, <1>3, <1>4, <1>5, <1>6, <1>7 DEF AgentStep

LEMMA HandleTyped ==
    ASSUME TypeOK, NEW c \in Calls, Handle(c)
    PROVE  TypeOK'
<1>1. CASE Resolve(c)
  BY <1>1 DEF Resolve, TypeOK, clientVars
<1>2. CASE ResolverThrows(c)
  BY <1>2 DEF ResolverThrows, Reply, TypeOK, clientVars
<1>3. CASE VerifierThrows(c)
  BY <1>3 DEF VerifierThrows, Reply, TypeOK, clientVars
<1>4. CASE Recover(c)
  BY <1>4 DEF Recover, TypeOK, clientVars
<1>5. CASE Abstain(c)
  BY <1>5 DEF Abstain, Reply, TypeOK, clientVars
<1>6. CASE Attest(c)
  <2>1. ReceiptFor(c) \in Receipt
    BY <1>6, ReceiptTyped DEF Attest
  <2>2. issued' \subseteq [call : Calls, receipt : Receipt]
    BY <1>6, <2>1 DEF Attest, TypeOK
  <2>3. Bill(c) \in [call : Calls, decision : Decisive, digest : Digests]
    BY <2>1 DEF Bill, Receipt
  <2>4. billed' \subseteq [call : Calls, decision : Decisive, digest : Digests]
    BY <1>6, <2>3 DEF Attest, Meter, TypeOK
  <2> QED
    BY <1>6, <2>2, <2>4 DEF Attest, Reply, TypeOK, clientVars
<1> QED
  BY <1>1, <1>2, <1>3, <1>4, <1>5, <1>6 DEF Handle

LEMMA Typed ==
    ASSUME TypeOK, [Next]_vars
    PROVE  TypeOK'
<1>1. CASE Tick
  BY <1>1, GuardedAssumption DEF Tick, TypeOK, clientVars, serverVars
<1>2. CASE UNCHANGED vars
  BY <1>2 DEF vars, TypeOK
<1> QED
  BY <1>1, <1>2, Split, AgentTyped, HandleTyped

(* What an agent is told, what a receipt holds and what the meter sees are *)
(* of their types, whatever a transport returns (client.ts 261-293).       *)
THEOREM TypeCorrect == Spec => []TypeOK
BY InitTyped, Typed, PTL DEF Spec

-----------------------------------------------------------------------------
(* Where a call is on either side, and what no longer changes. *)

Shape ==
    \A c \in Calls :
        /\ pc[c] = "idle" => job[c] = "none"
        /\ job[c] = "received" => Hosted(c)
        /\ job[c] = "recovering" => sent[c].network = "evm"
        /\ answer[c].verified => pc[c] = "done"
        /\ evidence[c] => Hosted(c)

LEMMA ShapeInit == Init => Shape
BY DEF Init, Shape, Answer, Abstained

LEMMA ShapeAgent ==
    ASSUME TypeOK, Shape, NEW c \in Calls, AgentStep(c)
    PROVE  Shape'
<1> USE DEF TypeOK, Shape, Hosted
<1>1. CASE Unasked(c)
  BY <1>1 DEF Unasked, Return, Answer, Abstained, serverVars
<1>2. CASE Ask(c)
  BY <1>2 DEF Ask
<1>3. CASE NoVerdict(c)
  BY <1>3 DEF NoVerdict, Return, serverVars
<1>4. ASSUME NEW resp, Answered(c, resp)
      PROVE  Shape'
  BY <1>4 DEF Answered, Return, serverVars
<1>5. ASSUME NEW r \in Edits, Edit(c, r)
      PROVE  Shape'
  BY <1>5 DEF Edit, serverVars
<1> QED
  BY <1>1, <1>2, <1>3, <1>4, <1>5 DEF AgentStep, Delivered, Forged, Returned

LEMMA ShapeHandle ==
    ASSUME TypeOK, Shape, NEW c \in Calls, Handle(c)
    PROVE  Shape'
<1> USE DEF TypeOK, Shape, Hosted, clientVars
<1>1. CASE Resolve(c)
  BY <1>1 DEF Resolve
<1>2. CASE ResolverThrows(c)
  BY <1>2 DEF ResolverThrows, Reply
<1>3. CASE VerifierThrows(c)
  BY <1>3 DEF VerifierThrows, Reply
<1>4. CASE Recover(c)
  BY <1>4 DEF Recover, Awaits
<1>5. CASE Abstain(c)
  BY <1>5 DEF Abstain, Verify, Reply
<1>6. CASE Attest(c)
  BY <1>6 DEF Attest, Verify, Reply
<1> QED
  BY <1>1, <1>2, <1>3, <1>4, <1>5, <1>6 DEF Handle

LEMMA ShapeKept ==
    ASSUME TypeOK, Shape, [Next]_vars
    PROVE  Shape'
<1>1. CASE Tick
  BY <1>1 DEF Tick, Shape, Hosted, clientVars, serverVars
<1>2. CASE UNCHANGED vars
  BY <1>2 DEF vars, Shape, Hosted
<1> QED
  BY <1>1, <1>2, Split, ShapeAgent, ShapeHandle

(* What a step leaves: a request once sent, an answer once given, a reply  *)
(* once made, what the resolver said, and every receipt.                   *)
Settles ==
    /\ setup' = setup
    /\ time' \in Nat /\ time <= time'
    /\ issued \subseteq issued'
    /\ \A c \in Calls :
          /\ job[c] = "answered" => job'[c] = "answered" /\ evidence'[c] = evidence[c]
          /\ pc[c] # "idle" => pc'[c] # "idle" /\ sent'[c] = sent[c]
          /\ pc[c] = "done" => /\ pc'[c] = "done"
                               /\ live'[c] = live[c] /\ answer'[c] = answer[c]

LEMMA AgentLeaves ==
    ASSUME TypeOK, Shape, NEW c \in Calls, AgentStep(c)
    PROVE  Settles /\ UNCHANGED <<time, evidence, issued, billed>>
<1>0. time \in Nat
  BY GuardedAssumption DEF TypeOK
<1> USE <1>0 DEF TypeOK, Shape, Settles
<1>1. CASE Unasked(c)
  <2>1. PICK a : Return(c, a)
    BY <1>1 DEF Unasked
  <2> QED
    BY <1>1, <2>1 DEF Unasked, Return, serverVars
<1>2. CASE Ask(c)
  BY <1>2 DEF Ask
<1>3. CASE NoVerdict(c)
  BY <1>3 DEF NoVerdict, Return, serverVars
<1>4. ASSUME NEW resp, Answered(c, resp)
      PROVE  Settles /\ UNCHANGED <<time, evidence, issued, billed>>
  BY <1>4 DEF Answered, Return, serverVars
<1>5. ASSUME NEW r \in Edits, Edit(c, r)
      PROVE  Settles /\ UNCHANGED <<time, evidence, issued, billed>>
  BY <1>5 DEF Edit, serverVars
<1> QED
  BY <1>1, <1>2, <1>3, <1>4, <1>5 DEF AgentStep, Delivered, Forged, Returned

LEMMA HandleLeaves ==
    ASSUME TypeOK, NEW c \in Calls, Handle(c)
    PROVE  Settles /\ UNCHANGED <<time, clientVars>>
<1>0. time \in Nat
  BY GuardedAssumption DEF TypeOK
<1> USE <1>0 DEF TypeOK, Settles, clientVars
<1>1. CASE Resolve(c)
  BY <1>1 DEF Resolve
<1>2. CASE ResolverThrows(c)
  BY <1>2 DEF ResolverThrows, Reply
<1>3. CASE VerifierThrows(c)
  BY <1>3 DEF VerifierThrows, Reply
<1>4. CASE Recover(c)
  BY <1>4 DEF Recover
<1>5. CASE Abstain(c)
  BY <1>5 DEF Abstain, Verify, Reply
<1>6. CASE Attest(c)
  BY <1>6 DEF Attest, Verify, Reply
<1> QED
  BY <1>1, <1>2, <1>3, <1>4, <1>5, <1>6 DEF Handle

LEMMA Settled ==
    ASSUME TypeOK, Shape, [Next]_vars
    PROVE  Settles
<1>0. time \in Nat /\ MaxTime \in Nat
  BY GuardedAssumption DEF TypeOK
<1>1. CASE Tick
  BY <1>0, <1>1 DEF Tick, Settles, clientVars, serverVars
<1>2. CASE UNCHANGED vars
  BY <1>0, <1>2 DEF vars, Settles
<1> QED
  BY <1>1, <1>2, Split, AgentLeaves, HandleLeaves

-----------------------------------------------------------------------------
(* What the receipts say. *)

ReceiptsSay ==
    \A i \in issued :
        /\ job[i.call] = "answered"
        /\ Hosted(i.call) \/ sent[i.call].network # "evm" => SaysOf(i.receipt, sent[i.call])

(* A receipt already made says what it said: its request is settled, and   *)
(* the hour it speaks of has come.                                         *)
LEMMA OldReceipts ==
    ASSUME TypeOK, Shape, ReceiptsSay, Settles, NEW i \in issued
    PROVE  /\ job'[i.call] = "answered"
           /\ Hosted(i.call)' \/ sent'[i.call].network # "evm" => SaysOf(i.receipt, sent[i.call])'
<1>1. i.call \in Calls /\ job[i.call] = "answered"
  BY DEF TypeOK, ReceiptsSay
<1>2. /\ job'[i.call] = "answered" /\ sent'[i.call] = sent[i.call]
      /\ setup' = setup /\ time \in Nat /\ time' \in Nat /\ time <= time'
  BY <1>1, GuardedAssumption DEF Settles, Shape, TypeOK
<1>3. ASSUME Hosted(i.call)' \/ sent'[i.call].network # "evm"
      PROVE  SaysOf(i.receipt, sent[i.call])'
  <2>1. SaysOf(i.receipt, sent[i.call])
    BY <1>2, <1>3 DEF ReceiptsSay, Hosted
  <2>2. PICK t \in 0..time : /\ i.receipt.decision = Decision(sent[i.call], t)
                             /\ i.receipt.codes = Findings(sent[i.call], t)
    BY <2>1 DEF SaysOf
  <2>3. t \in 0..time'
    BY <1>2
  <2> QED
    BY <1>2, <2>1, <2>2, <2>3 DEF SaysOf
<1> QED
  BY <1>2, <1>3

LEMMA NewReceipt ==
    ASSUME TypeOK, Shape, NEW c \in Calls, Attest(c)
    PROVE  /\ job'[c] = "answered"
           /\ Hosted(c)' \/ sent'[c].network # "evm" => SaysOf(ReceiptFor(c), sent[c])
           /\ UNCHANGED <<time, sent, setup>>
<1>1. UNCHANGED <<time, sent, setup>> /\ job'[c] = "answered"
  BY DEF Attest, Reply, clientVars, TypeOK
<1>2. Hosted(c)' \/ sent'[c].network # "evm" => Hosted(c) \/ job[c] # "recovering"
  BY <1>1 DEF Hosted, Shape
<1> QED
  BY <1>1, <1>2, ReceiptSays

LEMMA IssuedBy ==
    ASSUME TypeOK, Shape, [Next]_vars, NEW i \in issued', i \notin issued
    PROVE  \E c \in Calls : Attest(c) /\ i = [call |-> c, receipt |-> ReceiptFor(c)]
<1>1. ~ UNCHANGED issued
  OBVIOUS
<1>2. PICK c \in Calls : Handle(c)
  BY <1>1, Split, AgentLeaves DEF Tick, serverVars, vars
<1>3. Attest(c)
  BY <1>1, <1>2 DEF Handle, Resolve, ResolverThrows, VerifierThrows, Recover, Abstain
<1> QED
  BY <1>3 DEF Attest

LEMMA ReceiptsKept ==
    ASSUME TypeOK, Shape, ReceiptsSay, [Next]_vars
    PROVE  ReceiptsSay'
<1>1. Settles
  BY Settled
<1>2. SUFFICES ASSUME NEW i \in issued'
               PROVE  /\ job'[i.call] = "answered"
                      /\ Hosted(i.call)' \/ sent'[i.call].network # "evm" =>
                            SaysOf(i.receipt, sent[i.call])'
  BY DEF ReceiptsSay
<1>3. CASE i \in issued
  BY <1>1, <1>3, OldReceipts
<1>4. CASE i \notin issued
  <2>1. PICK c \in Calls : Attest(c) /\ i = [call |-> c, receipt |-> ReceiptFor(c)]
    BY <1>4, IssuedBy
  <2>2. i.call = c /\ i.receipt = ReceiptFor(c)
    BY <2>1
  <2>3. /\ job'[c] = "answered" /\ UNCHANGED <<time, sent, setup>>
        /\ Hosted(c)' \/ sent'[c].network # "evm" => SaysOf(i.receipt, sent[c])
    BY <2>1, <2>2, NewReceipt
  <2> QED
    BY <2>2, <2>3 DEF SaysOf
<1> QED
  BY <1>3, <1>4

-----------------------------------------------------------------------------
(* What is cleared. *)

Cleared ==
    \A c \in Calls : answer[c].verified =>
        \E i \in issued :
            /\ Hosted(i.call) /\ i.receipt.digest = Digest(live[c])
            /\ i.receipt.decision = answer[c].decision /\ i.receipt.codes = answer[c].codes

(* Only a response that is believed gives a verified answer. *)
LEMMA OnlyBelieved ==
    ASSUME TypeOK, NEW c \in Calls, NEW resp, Answered(c, resp), answer'[c].verified
    PROVE  /\ Believed(c, resp)
           /\ answer'[c].decision = resp.decision
           /\ answer'[c].codes = Reconciled(resp)
           /\ live'[c] = live[c]
BY DEF TypeOK, Answered, Return, Verdict, Answer, Abstained

LEMMA ReconciledIsSigned == ASSUME NEW resp PROVE Reconciled(resp) = resp.receipt.codes
BY DEF Reconciled

(* A call that becomes verified has a signed receipt for what it holds. *)
LEMMA NewlyCleared ==
    ASSUME TypeOK, Shape, NEW c \in Calls, pc[c] # "done", [Next]_vars, answer'[c].verified
    PROVE  \E i \in issued :
              /\ Hosted(i.call) /\ i.receipt.digest = Digest(live'[c])
              /\ i.receipt.decision = answer'[c].decision /\ i.receipt.codes = answer'[c].codes
<1>1. answer'[c] # answer[c]
  BY DEF Shape
<1>2. PICK d \in Calls : AgentStep(d)
  BY <1>1, Split, HandleLeaves DEF Tick, clientVars, vars
<1>3. ~ Unasked(d) /\ ~ Ask(d) /\ ~ NoVerdict(d) /\ \A r \in Edits : ~ Edit(d, r)
  BY <1>1 DEF Unasked, Ask, NoVerdict, Edit, Return, Answer, Abstained, TypeOK, Shape
<1>4. ASSUME NEW resp, Answered(d, resp)
      PROVE  d = c
  BY <1>1, <1>4 DEF Answered, Return, TypeOK
<1>5. ~ Forged(d)
  <2>1. ASSUME NEW resp, Answered(d, resp)
        PROVE  resp.signature = "good"
    BY <1>4, <2>1, OnlyBelieved DEF Believed
  <2> QED
    BY <2>1 DEF Forged
<1>6. ~ Returned(d)
  <2>1. ASSUME NEW resp, Answered(d, resp)
        PROVE  resp.signature = "good"
    BY <1>4, <2>1, OnlyBelieved DEF Believed
  <2>2. ASSUME Returned(d)
        PROVE  \E resp : Answered(d, resp) /\ resp.signature = "none"
    <3> DEFINE own == {i \in issued : i.call = d}
    <3>1. CASE own = {}
      <4> DEFINE resp == [decision |-> "abstain", codes |-> {}, receipt |-> None,
                          signature |-> "none"]
      <4>1. Answered(d, resp)
        BY <2>2, <3>1 DEF Returned
      <4>2. resp.signature = "none"
        OBVIOUS
      <4> QED
        BY <4>1, <4>2
    <3>2. CASE own # {}
      <4> DEFINE resp(i) == [decision |-> i.receipt.decision, codes |-> i.receipt.codes,
                             receipt |-> i.receipt, signature |-> "none"]
      <4>1. PICK i \in own : Answered(d, resp(i))
        BY <2>2, <3>2 DEF Returned
      <4>2. resp(i).signature = "none"
        OBVIOUS
      <4> QED
        BY <4>1, <4>2
    <3> QED
      BY <3>1, <3>2
  <2> QED
    BY <2>1, <2>2
<1>7. PICK resp \in Responses(Signed, {"good", "none"}) : Answered(c, resp)
  BY <1>2, <1>3, <1>4, <1>5, <1>6 DEF AgentStep, Delivered
<1>8. /\ Believed(c, resp)
      /\ answer'[c].decision = resp.decision
      /\ answer'[c].codes = resp.receipt.codes
      /\ live'[c] = live[c]
  BY <1>7, OnlyBelieved, ReconciledIsSigned
<1>9. resp.receipt \in Signed
  BY <1>8 DEF Believed, Responses
<1>10. PICK i \in issued : Hosted(i.call) /\ i.receipt = resp.receipt
  BY <1>9 DEF Signed
<1> QED
  BY <1>8, <1>10 DEF Believed

LEMMA ClearedKept ==
    ASSUME TypeOK, Shape, Cleared, [Next]_vars
    PROVE  Cleared'
<1>1. Settles
  BY Settled
<1>2. SUFFICES ASSUME NEW c \in Calls, answer'[c].verified
               PROVE  \E i \in issued' :
                         /\ Hosted(i.call)' /\ i.receipt.digest = Digest(live'[c])
                         /\ i.receipt.decision = answer'[c].decision
                         /\ i.receipt.codes = answer'[c].codes
  BY DEF Cleared
<1>3. PICK i \in issued : /\ Hosted(i.call) /\ i.receipt.digest = Digest(live'[c])
                          /\ i.receipt.decision = answer'[c].decision
                          /\ i.receipt.codes = answer'[c].codes
  <2>1. CASE pc[c] = "done"
    BY <1>1, <1>2, <2>1 DEF Settles, Cleared
  <2>2. CASE pc[c] # "done"
    BY <1>2, <2>2, NewlyCleared
  <2> QED
    BY <2>1, <2>2
<1>4. i \in issued' /\ Hosted(i.call)'
  BY <1>1, <1>3 DEF Settles, Hosted
<1> QED
  BY <1>3, <1>4

-----------------------------------------------------------------------------
(* What is billed. *)

Billed ==
    \A b \in billed :
        /\ b.call \in Calls /\ job[b.call] = "answered" /\ evidence[b.call]
        /\ \E i \in issued : /\ i.call = b.call
                             /\ i.receipt.digest = b.digest /\ i.receipt.decision = b.decision

LEMMA BilledKept ==
    ASSUME TypeOK, Shape, Billed, [Next]_vars
    PROVE  Billed'
<1>1. Settles
  BY Settled
<1>2. ASSUME NEW b \in billed
      PROVE  /\ b.call \in Calls /\ job'[b.call] = "answered" /\ evidence'[b.call]
             /\ \E i \in issued' : /\ i.call = b.call
                                   /\ i.receipt.digest = b.digest
                                   /\ i.receipt.decision = b.decision
  BY <1>1 DEF Billed, Settles
<1>3. ASSUME NEW b \in billed', b \notin billed
      PROVE  /\ b.call \in Calls /\ job'[b.call] = "answered" /\ evidence'[b.call]
             /\ \E i \in issued' : /\ i.call = b.call
                                   /\ i.receipt.digest = b.digest
                                   /\ i.receipt.decision = b.decision
  <2>1. ~ UNCHANGED billed
    BY <1>3
  <2>2. PICK c \in Calls : Handle(c)
    BY <2>1, Split, AgentLeaves DEF Tick, serverVars, vars
  <2>3. Attest(c)
    BY <2>1, <2>2 DEF Handle, Resolve, ResolverThrows, VerifierThrows, Recover, Abstain
  <2>4. evidence[c] /\ evidence' = evidence /\ b = Bill(c)
    BY <1>3, <2>3 DEF Attest, Meter
  <2>5. job'[c] = "answered"
    BY <2>3 DEF Attest, Reply, TypeOK
  <2>6. [call |-> c, receipt |-> ReceiptFor(c)] \in issued'
    BY <2>3 DEF Attest
  <2>7. b.call = c /\ b.digest = ReceiptFor(c).digest /\ b.decision = ReceiptFor(c).decision
    BY <2>4 DEF Bill
  <2> QED
    BY <2>4, <2>5, <2>6, <2>7
<1> QED
  BY <1>2, <1>3 DEF Billed

-----------------------------------------------------------------------------
(* The theorems. *)

IInv == TypeOK /\ Shape /\ ReceiptsSay /\ Cleared /\ Billed

LEMMA InitInv == Init => IInv
BY InitTyped, ShapeInit DEF Init, IInv, ReceiptsSay, Cleared, Billed, Answer, Abstained

LEMMA InvKept == IInv /\ [Next]_vars => IInv'
BY Typed, ShapeKept, ReceiptsKept, ClearedKept, BilledKept DEF IInv

LEMMA Invariant == Spec => []IInv
BY InitInv, InvKept, PTL DEF Spec

LEMMA ClearedFollows == IInv => ClearedWasJudged
BY DEF IInv, ReceiptsSay, Cleared, ClearedWasJudged

(* Whatever the wire brings and however many calls there are: what is      *)
(* called verified is the verifier's own decision and findings on a request*)
(* with the digest of the one the agent holds (client.ts 218-413).         *)
THEOREM ClearedIsJudged == Spec => []ClearedWasJudged
BY Invariant, ClearedFollows, PTL

LEMMA BilledFollows == IInv => BilledOnEvidence
<1> SUFFICES ASSUME IInv, NEW b \in billed
             PROVE  /\ evidence[b.call]
                    /\ \E i \in issued : /\ i.call = b.call
                                         /\ i.receipt.digest = b.digest
                                         /\ i.receipt.decision = b.decision
                                         /\ SaysOf(i.receipt, sent[b.call])
  BY DEF BilledOnEvidence
<1>1. /\ b.call \in Calls /\ evidence[b.call] /\ Hosted(b.call)
  BY DEF IInv, Billed, Shape
<1> QED
  BY <1>1 DEF IInv, Billed, ReceiptsSay

(* Nothing is billed that was not attested on evidence (server.ts 117-134).*)
THEOREM BilledIsAttested == Spec => []BilledOnEvidence
BY Invariant, BilledFollows, PTL

LEMMA AllowedFee ==
    ASSUME NEW r \in Request, NEW t \in Nat, r.network = "svm", Decision(r, t) = "allow"
    PROVE  r.fee <= CapCeiling /\ r.fee <= IF r.cap \in Nat THEN r.cap ELSE DefaultCap
<1>1. LaneFindings(r, t) = {} /\ ~ Mistyped(r)
  BY DEF Decision, Mistyped
<1>2. r.fee <= EffectiveCap(r)
  BY <1>1, VerifierAssumption DEF LaneFindings, Raise, EffectiveCap, TooLoose, Request
<1> QED
  BY <1>2, VerifierAssumption DEF EffectiveCap, TooLoose, Request

LEMMA CapFollows == IInv => CapHolds
<1> SUFFICES ASSUME IInv, NEW i \in issued, i.receipt.decision = "allow",
                    sent[i.call].network = "svm"
             PROVE  /\ sent[i.call].fee <= CapCeiling
                    /\ sent[i.call].fee <= IF sent[i.call].cap \in Nat
                                         THEN sent[i.call].cap ELSE DefaultCap
  BY DEF CapHolds
<1>1. sent[i.call] \in Request /\ time \in Nat
  BY GuardedAssumption DEF IInv, TypeOK
<1>2. PICK t \in 0..time : i.receipt.decision = Decision(sent[i.call], t)
  BY DEF IInv, ReceiptsSay, SaysOf
<1> QED
  BY <1>1, <1>2, AllowedFee

(* No request that is allowed loosens its own fee cap, and one that names  *)
(* none is held to the default (verify.ts 291-340).                        *)
THEOREM CapIsKept == Spec => []CapHolds
BY Invariant, CapFollows, PTL
=============================================================================
