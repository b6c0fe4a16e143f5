--------------------------- MODULE ToolServerProofs ---------------------------
(* For any session, any settings and whatever answers from outside: what is *)
(* billed and what is called allowed or clean.                              *)
EXTENDS ToolServer, FiniteSetTheorems, TLAPS

-----------------------------------------------------------------------------
(* The budget. *)

(* The counter is the number of scans posted, the set their addresses.      *)
Ledger ==
    /\ posted \subseteq Lines
    /\ billedScans.spent = Cardinality(posted)
    /\ billedScans.seen = {Lower[Line[l].arg] : l \in posted}
    /\ billedScans.spent <= ScanBudget
    /\ \A l, k \in posted : Lower[Line[l].arg] = Lower[Line[k].arg] => l = k

LEMMA LedgerInit == Init => Ledger
<1> SUFFICES ASSUME Init PROVE Ledger
  OBVIOUS
<1>1. posted = {} /\ billedScans.spent = 0 /\ billedScans.seen = {}
  BY DEF Init
<1>2. Cardinality(posted) = 0
  BY <1>1, FS_EmptySet
<1> QED
  BY <1>1, <1>2, ToolAssumption DEF Ledger

(* A scan is posted for an address not seen, so by a handler that has not   *)
(* posted one.                                                              *)
LEMMA PostKeepsLedger ==
    ASSUME Ledger, NEW l \in Lines, PostScan(l)
    PROVE  Ledger'
<1>1. /\ posted' = posted \cup {l}
      /\ billedScans'.spent = billedScans.spent + 1
      /\ billedScans'.seen = billedScans.seen \cup {Lower[Line[l].arg]}
  BY DEF PostScan, Reserve
<1>2. Lower[Line[l].arg] \notin billedScans.seen /\ ~(billedScans.spent >= ScanBudget)
  BY DEF PostScan, Denied
<1>3. \A k \in posted : Lower[Line[k].arg] # Lower[Line[l].arg]
  BY <1>2 DEF Ledger
<1>4. l \notin posted
  BY <1>3
<1>5. IsFiniteSet(posted)
  BY ToolAssumption, FS_Subset DEF Ledger
<1>6. Cardinality(posted) \in Nat /\ Cardinality(posted') = Cardinality(posted) + 1
  BY <1>1, <1>4, <1>5, FS_AddElement, FS_CardinalityType
<1>7. billedScans'.spent = Cardinality(posted') /\ billedScans'.spent <= ScanBudget
  BY <1>1, <1>2, <1>6, ToolAssumption DEF Ledger
<1>8. billedScans'.seen = {Lower[Line[k].arg] : k \in posted'}
  BY <1>1 DEF Ledger
<1>9. \A j, k \in posted' : Lower[Line[j].arg] = Lower[Line[k].arg] => j = k
  BY <1>1, <1>3 DEF Ledger
<1> QED
  BY <1>1, <1>7, <1>8, <1>9 DEF Ledger

LEMMA LedgerStep == Ledger /\ [Next]_vars => Ledger'
<1> SUFFICES ASSUME Ledger, [Next]_vars PROVE Ledger'
  OBVIOUS
<1>1. CASE UNCHANGED <<billedScans, posted>>
  BY <1>1 DEF Ledger
<1>2. ASSUME NEW l \in Lines, PostScan(l) PROVE Ledger'
  BY <1>2, PostKeepsLedger
<1>3. ASSUME NEW l \in Lines, Arrive(l) \/ Awaited(l), ~PostScan(l)
      PROVE  UNCHANGED <<billedScans, posted>>
  BY <1>3 DEF Arrive, Awaited, VerifyLocal, HostedFails, HostedAnswers, CheckFails, CheckAnswers,
              Observed, RegistryFails, Unobserved, ScanDenied, ScanAnswers
<1> QED
  BY <1>1, <1>2, <1>3 DEF Next, vars

(* However the calls of a session overlap and whatever comes of them, an    *)
(* address is scanned at a cost once, and the budget is kept (mcp.ts,       *)
(* reserveBilledScan).                                                      *)
THEOREM ScansBilledOnce == Spec => []BilledOnce
<1>1. Ledger => BilledOnce
  BY DEF Ledger, BilledOnce
<1> QED
  BY LedgerInit, LedgerStep, <1>1, PTL DEF Spec

-----------------------------------------------------------------------------
(* The answers. *)

Steps == {"unread", "local", "hosted", "check", "registry", "scan", "done"}

(* What may be answered to a line.                                          *)
Sound(l, a) ==
    Line[l].form = "call" /\ a # None /\ a.says \in {"allow", "clean"} =>
        /\ Line[l].tool = "verify_payment" =>
              \/ Decides[Line[l].arg] = "allow" /\ ~a.policy
              \/ Hosted /\ config.optOut /\ ~config.pubkey
        /\ Line[l].tool \in {"check_before_use", "scan_text"} => a.scanned # "nothing"

(* A handler waits for what its tool asks, and for nothing local when there *)
(* is a hosted verifier.                                                    *)
Waiting ==
    \A l \in Lines :
        /\ pc[l] \in {"local", "hosted"} => Line[l].form = "call" /\ Line[l].tool = "verify_payment"
        /\ pc[l] = "hosted" => Hosted
        /\ pc[l] = "check" => Line[l].tool = "check_before_use"
        /\ pc[l] \in {"registry", "scan"} => Line[l].tool = "check_token"

Shape ==
    /\ pc \in [Lines -> Steps]
    /\ DOMAIN out = Lines /\ out = [l \in Lines |-> out[l]]

AnswersInv == Shape /\ Waiting /\ \A l \in Lines : Sound(l, out[l])

LEMMA AnswersInit == Init => AnswersInv
  BY DEF Init, AnswersInv, Shape, Waiting, Sound, Steps

(* An answer that is sound keeps the invariant, and ends the waiting.       *)
LEMMA AnswerKeeps ==
    ASSUME AnswersInv, NEW l \in Lines, NEW a, Answer(l, a), Sound(l, a), UNCHANGED config
    PROVE  AnswersInv'
<1>1. pc' \in [Lines -> Steps] /\ pc'[l] = "done" /\ \A k \in Lines \ {l} : pc'[k] = pc[k]
  BY DEF AnswersInv, Shape, Answer, Steps
<1>2. out' = [out EXCEPT ![l] = a]
  BY DEF Answer
<1>3. /\ DOMAIN out' = Lines /\ out' = [k \in Lines |-> out'[k]]
      /\ out'[l] = a /\ \A k \in Lines \ {l} : out'[k] = out[k]
  BY <1>2 DEF AnswersInv, Shape
<1>4. \A k \in Lines : Sound(k, out'[k])
  BY <1>3 DEF AnswersInv
<1>5. (\A k \in Lines : Sound(k, out[k]))'
  BY <1>4 DEF Sound, Hosted
<1>6. Waiting'
  BY <1>1 DEF AnswersInv, Waiting, Hosted
<1> QED
  BY <1>1, <1>3, <1>5, <1>6 DEF AnswersInv, Shape

LEMMA AwaitKeeps ==
    ASSUME AnswersInv, NEW l \in Lines, NEW step \in Steps, Await(l, step), UNCHANGED config,
           step \in {"local", "hosted"} => Line[l].form = "call" /\ Line[l].tool = "verify_payment",
           step = "hosted" => Hosted,
           step = "check" => Line[l].tool = "check_before_use",
           step \in {"registry", "scan"} => Line[l].tool = "check_token"
    PROVE  AnswersInv'
<1>1. pc' \in [Lines -> Steps] /\ pc'[l] = step /\ \A k \in Lines \ {l} : pc'[k] = pc[k]
  BY DEF AnswersInv, Shape, Await
<1>2. UNCHANGED out
  BY DEF Await
<1>3. Waiting'
  BY <1>1 DEF AnswersInv, Waiting, Hosted
<1> QED
  BY <1>1, <1>2, <1>3 DEF AnswersInv, Shape, Sound, Hosted

-----------------------------------------------------------------------------
(* Each answer is sound. *)

LEMMA WordSound ==
    ASSUME NEW l \in Lines, NEW w, w \notin {"allow", "clean"}
    PROVE  Sound(l, Says(w))
  BY DEF Sound, Says

LEMMA ScanSound ==
    ASSUME NEW doc, InspectQuoteText(doc).says = "allow"
    PROVE  InspectQuoteText(doc).scanned # "nothing"
  BY DEF InspectQuoteText, ScanFields, Says

LEMMA NowSound ==
    ASSUME NEW l \in Lines, ~(Line[l].form = "call" /\ Waits(Line[l]) # "nothing")
    PROVE  Sound(l, Now(Line[l]))
<1> DEFINE m == Line[l]
<1> SUFFICES ASSUME m.form = "call" PROVE Sound(l, Now(m))
  BY DEF Sound
<1>1. Now(m) = CallNow(m)
  BY DEF Now
<1>2. CASE m.tool = "verify_payment"
  <2>1. CallNow(m) = Says("abstain")
    BY <1>2 DEF CallNow
  <2> QED
    BY <1>1, <2>1, WordSound
<1>3. CASE m.tool = "check_before_use"
  <2>1. CallNow(m) = CheckHere(m.arg)
    BY <1>3 DEF CallNow
  <2>2. CASE CheckHere(m.arg) = Says("unchecked")
    BY <1>1, <2>1, <2>2, WordSound
  <2>3. CASE CheckHere(m.arg) = InspectQuoteText(m.arg)
    <3>1. InspectQuoteText(m.arg).says # "clean"
      BY DEF InspectQuoteText, ScanFields, Says
    <3> QED
      BY <1>1, <1>3, <2>1, <2>3, <3>1, ScanSound DEF Sound
  <2> QED
    BY <2>2, <2>3 DEF CheckHere
<1>4. CASE m.tool = "scan_text"
  <2>1. CallNow(m) = InspectQuoteText(m.arg)
    BY <1>4 DEF CallNow
  <2>2. InspectQuoteText(m.arg).says # "clean"
    BY DEF InspectQuoteText, ScanFields, Says
  <2> QED
    BY <1>1, <1>4, <2>1, <2>2, ScanSound DEF Sound
<1>5. CASE m.tool \notin {"verify_payment", "check_before_use", "scan_text"}
  BY <1>5 DEF Sound
<1> QED
  BY <1>2, <1>3, <1>4, <1>5

(* An allow of the hosted verifier's is this request's, or was opted for.   *)
LEMMA GateSound ==
    ASSUME NEW l \in Lines, Hosted, NEW b \in Body, Genuine(b), Line[l].tool = "verify_payment"
    PROVE  Sound(l, GateHostedVerdict(b, Line[l].arg))
<1> DEFINE g == GateHostedVerdict(b, Line[l].arg)
<1> SUFFICES ASSUME g.says \in {"allow", "clean"}
             PROVE  \/ Decides[Line[l].arg] = "allow" /\ ~g.policy
                    \/ Hosted /\ config.optOut /\ ~config.pubkey
  BY DEF Sound
<1>1. CASE b.claims = "allow" /\ ~config.pubkey /\ config.optOut
  BY <1>1
<1>2. CASE b.claims = "allow" /\ config.pubkey /\ Proven(b, Line[l].arg)
  <2>1. g = Says("allow")
    BY <1>2 DEF GateHostedVerdict, Relayed
  <2>2. Decides[Line[l].arg] = "allow"
    BY <1>2 DEF Proven, Genuine
  <2> QED
    BY <2>1, <2>2 DEF Says
<1>3. CASE /\ ~(b.claims = "allow" /\ ~config.pubkey /\ config.optOut)
           /\ ~(b.claims = "allow" /\ config.pubkey /\ Proven(b, Line[l].arg))
  <2>1. g.says \in {"abstain", "refuse", "needs_approval"}
    BY <1>3 DEF GateHostedVerdict, Relayed, Says
  <2> QED
    BY <2>1
<1> QED
  BY <1>1, <1>2, <1>3

LEMMA AnswersStep ==
    ASSUME AnswersInv, [Next]_vars
    PROVE  AnswersInv'
<1>1. CASE UNCHANGED vars
  BY <1>1 DEF AnswersInv, Shape, Waiting, Sound, Hosted, vars
<1>2. ASSUME NEW l \in Lines, Arrive(l) PROVE AnswersInv'
  <2> DEFINE m == Line[l]
  <2>1. UNCHANGED config
    BY <1>2 DEF Arrive
  <2>2. CASE m.form = "call" /\ Waits(m) # "nothing"
    <3>1. Await(l, Waits(m))
      BY <1>2, <2>2 DEF Arrive
    <3>2. /\ Waits(m) \in {"local", "hosted", "check", "registry"}
          /\ Waits(m) \in {"local", "hosted"} => m.tool = "verify_payment"
          /\ Waits(m) = "check" => m.tool = "check_before_use"
          /\ Waits(m) = "registry" => m.tool = "check_token"
      BY <2>2 DEF Waits
    <3>3. Waits(m) = "hosted" => Hosted
      <4>1. CASE m.tool = "verify_payment" /\ ~Hosted
        BY <4>1 DEF Waits
      <4>2. CASE ~(m.tool = "verify_payment" /\ ~Hosted)
        BY <4>2, <3>2
      <4> QED
        BY <4>1, <4>2
    <3>4. Waits(m) \in Steps /\ Waits(m) # "scan"
      BY <3>2 DEF Steps
    <3> HIDE DEF m
    <3> QED
      BY <2>1, <2>2, <3>1, <3>2, <3>3, <3>4, AwaitKeeps DEF m
  <2>3. CASE ~(m.form = "call" /\ Waits(m) # "nothing")
    BY <1>2, <2>1, <2>3, NowSound, AnswerKeeps DEF Arrive
  <2> QED
    BY <2>2, <2>3
<1>3. ASSUME NEW l \in Lines, Awaited(l) PROVE AnswersInv'
  <2>1. UNCHANGED config
    BY <1>3 DEF Awaited, VerifyLocal, HostedFails, HostedAnswers, CheckFails, CheckAnswers,
                Observed, RegistryFails, Unobserved, ScanDenied, PostScan, ScanAnswers
  <2>2. ASSUME NEW w, w \notin {"allow", "clean"}, Answer(l, Says(w)) PROVE AnswersInv'
    BY <2>1, <2>2, WordSound, AnswerKeeps
  <2>3. CASE VerifyLocal(l)
    <3>1. CASE Answer(l, Says("abstain"))
      BY <2>2, <3>1
    <3>2. CASE Answer(l, Says(Verdict(Line[l].arg)))
      <4>1. Verdict(Line[l].arg) \in {"allow", "refuse", "abstain"}
        BY <2>3, ToolAssumption DEF VerifyLocal, Verdict, AnswersInv, Waiting
      <4>2. Sound(l, Says(Verdict(Line[l].arg)))
        BY <2>3, <4>1 DEF Sound, Says, Verdict, VerifyLocal, AnswersInv, Waiting
      <4> QED
        BY <2>1, <3>2, <4>2, AnswerKeeps
    <3> QED
      BY <2>3, <3>1, <3>2 DEF VerifyLocal
  <2>4. CASE HostedAnswers(l)
    <3>1. PICK b \in Bodies : Genuine(b) /\ Answer(l, GateHostedVerdict(b, Line[l].arg))
      BY <2>4 DEF HostedAnswers
    <3>2. b \in Body
      BY ToolAssumption
    <3>3. Line[l].tool = "verify_payment" /\ Hosted
      BY <2>4 DEF HostedAnswers, AnswersInv, Waiting
    <3>4. Sound(l, GateHostedVerdict(b, Line[l].arg))
      BY <3>1, <3>2, <3>3, GateSound
    <3> QED
      BY <2>1, <3>1, <3>4, AnswerKeeps
  <2>5. CASE CheckAnswers(l)
    <3>1. PICK b \in [says : {"allow", "clean", "refuse"}, policy : {FALSE},
                      scanned : {"nothing", "something", "unsaid"}] :
             Answer(l, IF HostedScannedNothing(b) THEN Says("unchecked") ELSE b)
      BY <2>5 DEF CheckAnswers
    <3>2. CASE HostedScannedNothing(b)
      BY <2>2, <3>1, <3>2
    <3>3. CASE ~HostedScannedNothing(b)
      <4>1. Sound(l, b)
        BY <2>5, <3>3 DEF Sound, HostedScannedNothing, CheckAnswers, AnswersInv, Waiting
      <4> QED
        BY <2>1, <3>1, <3>3, <4>1, AnswerKeeps
    <3> QED
      BY <3>2, <3>3
  <2>6. CASE PostScan(l)
    <3>1. Await(l, "scan") /\ Line[l].tool = "check_token"
      BY <2>6 DEF PostScan, AnswersInv, Waiting
    <3>2. "scan" \in Steps
      BY DEF Steps
    <3> QED
      BY <2>1, <3>1, <3>2, AwaitKeeps
  <2>7. CASE HostedFails(l)
    BY <2>2, <2>7 DEF HostedFails
  <2>8. CASE CheckFails(l) \/ Observed(l) \/ RegistryFails(l) \/ Unobserved(l) \/ ScanDenied(l)
    BY <2>2, <2>8 DEF CheckFails, Observed, RegistryFails, Unobserved, ScanDenied
  <2>9. CASE ScanAnswers(l)
    BY <2>2, <2>9 DEF ScanAnswers
  <2> QED
    BY <1>3, <2>3, <2>4, <2>5, <2>6, <2>7, <2>8, <2>9 DEF Awaited
<1> QED
  BY <1>1, <1>2, <1>3 DEF Next

(* Whatever is answered in the verifier's name, a payment is called allowed *)
(* only if the verifier allows that very request, or the operator accepted  *)
(* unsigned answers; and no text is called clean of which none was read     *)
(* (mcp.ts, gateHostedVerdict, check_before_use).                           *)
THEOREM AllowsProven == Spec => []AllowIsProven
<1>1. AnswersInv => AllowIsProven
  BY DEF AnswersInv, AllowIsProven, Sound, Cleared
<1>2. Init => AnswersInv
  BY AnswersInit
<1>3. AnswersInv /\ [Next]_vars => AnswersInv'
  BY AnswersStep
<1> QED
  BY <1>1, <1>2, <1>3, PTL DEF Spec
-----------------------------------------------------------------------------
(* The nonces. *)

Payment(l) == Line[l].form = "call" /\ Line[l].tool = "verify_payment"
Allowed == {l \in Lines : AllowedHere(l)}

(* With no key set the nonces taken are those of the payments allowed.      *)
NonceInv ==
    /\ ~Hosted => sessionNonces = {Nonce[Line[l].arg] : l \in Allowed} \ {None}
    /\ NonceTakenByAllow

LEMMA NonceInit == Init => NonceInv
  BY DEF Init, NonceInv, NonceTakenByAllow, AllowedHere, Allowed

(* What NonceTakenByAllow says of one payment, after a step. *)
Others(k) == {j \in Lines \ {k} : AllowedHere(j) /\ Nonce[Line[j].arg] = Nonce[Line[k].arg]}
Taken(k) ==
    /\ AllowedHere(k) /\ Nonce[Line[k].arg] # None => Others(k) = {}
    /\ pc[k] = "done" /\ out[k].says = "refuse" /\ Decides[Line[k].arg] = "allow"
          => Nonce[Line[k].arg] # None /\ Others(k) # {}

LEMMA TakenIs == NonceTakenByAllow <=> (~Hosted => \A k \in Lines : Payment(k) => Taken(k))
  BY DEF NonceTakenByAllow, Payment, Taken, Others

(* What is answered to other calls, or with neither an allow nor a refusal, *)
(* and whatever is awaited, leave the nonces and the payments alone.        *)
LEMMA ElseKeeps ==
    ASSUME Shape, NonceInv, NEW l \in Lines, pc[l] # "done", UNCHANGED <<config, sessionNonces>>,
           \/ \E step \in Steps \ {"done"} : Await(l, step)
           \/ \E a : Answer(l, a) /\ (Hosted \/ ~Payment(l) \/ a.says \notin {"allow", "refuse"})
    PROVE  NonceInv'
<1>1. Hosted' = Hosted
  BY DEF Hosted
<1>2. CASE Hosted
  BY <1>1, <1>2 DEF NonceInv, NonceTakenByAllow
<1>3. CASE ~Hosted
  <2>1. /\ \A k \in Lines \ {l} : out'[k] = out[k] /\ pc'[k] = pc[k]
        /\ Payment(l) /\ pc'[l] = "done" => out'[l].says \notin {"allow", "refuse"}
    BY <1>3 DEF Shape, Await, Answer
  <2>2. \A k \in Lines : AllowedHere(k)' = AllowedHere(k)
    BY <2>1 DEF AllowedHere, Payment
  <2>3. Allowed' = Allowed /\ \A k \in Lines : Others(k)' = Others(k)
    BY <2>2 DEF Allowed, Others
  <2>4. ASSUME NEW k \in Lines, Payment(k) PROVE Taken(k)'
    <3>1. Taken(k)
      BY <1>3, <2>4, TakenIs DEF NonceInv
    <3> QED
      BY <2>1, <2>2, <2>3, <2>4, <3>1 DEF Taken
  <2>5. NonceTakenByAllow'
    BY <2>4 DEF NonceTakenByAllow, Payment, Taken, Others
  <2> QED
    BY <1>1, <1>3, <2>3, <2>5 DEF NonceInv
<1> QED
  BY <1>2, <1>3

(* A payment of which the verifier has decided here.                        *)
LEMMA VerdictKeeps ==
    ASSUME Shape, NonceInv, NEW l \in Lines, pc[l] = "local", Payment(l), ~Hosted,
           UNCHANGED config, Answer(l, Says(Verdict(Line[l].arg))), Commit(Line[l].arg)
    PROVE  NonceInv'
<1> DEFINE nonce(k) == Nonce[Line[k].arg]
           says == Verdict(Line[l].arg)
<1>1. /\ \A k \in Lines \ {l} : out'[k] = out[k] /\ pc'[k] = pc[k]
      /\ out'[l].says = says /\ pc'[l] = "done" /\ ~Hosted'
  BY DEF Shape, Answer, Says, Hosted
<1>2. /\ \A k \in Lines \ {l} : AllowedHere(k)' = AllowedHere(k)
      /\ ~AllowedHere(l) /\ (AllowedHere(l)' <=> says = "allow")
  BY <1>1 DEF AllowedHere, Payment
<1>3. sessionNonces = {nonce(k) : k \in Allowed} \ {None}
  BY DEF NonceInv
<1>4. /\ says = "allow" => nonce(l) \notin sessionNonces \ {None}
      /\ says = "refuse" /\ Decides[Line[l].arg] = "allow" => nonce(l) \in sessionNonces \ {None}
  BY DEF Verdict
<1>5. Commit(Line[l].arg) /\ sessionNonces' = IF says = "allow" THEN sessionNonces \cup ({nonce(l)} \ {None})
                                             ELSE sessionNonces
  BY DEF Commit
<1> HIDE DEF says
<1>6. Allowed' = IF says = "allow" THEN Allowed \cup {l} ELSE Allowed
  BY <1>2 DEF Allowed
<1>7. sessionNonces' = {nonce(k) : k \in Allowed'} \ {None}
  BY <1>3, <1>5, <1>6
<1>8. ASSUME NEW k \in Lines, Payment(k) PROVE Taken(k)'
  <2>1. CASE k = l
    <3>1. Others(l)' = Others(l)
      BY <1>2 DEF Others
    <3>2. nonce(l) \in sessionNonces \ {None} <=> nonce(l) # None /\ Others(l) # {}
      BY <1>2, <1>3 DEF Others, Allowed
    <3> QED
      BY <1>1, <1>2, <1>4, <2>1, <3>1, <3>2 DEF Taken
  <2>2. CASE k # l
    <3>1. Taken(k) /\ out'[k] = out[k] /\ pc'[k] = pc[k] /\ AllowedHere(k)' = AllowedHere(k)
      BY <1>1, <1>2, <1>8, <2>2, TakenIs DEF NonceInv
    <3>2. Others(k) \subseteq Others(k)'
      BY <1>2 DEF Others
    <3>3. ASSUME AllowedHere(k), nonce(k) # None PROVE Others(k)' = {}
      <4>1. nonce(k) \in sessionNonces \ {None}
        BY <1>3, <3>3 DEF Allowed
      <4>2. says = "allow" => nonce(l) # nonce(k)
        BY <1>4, <4>1
      <4> QED
        BY <1>2, <3>1, <3>3, <4>2 DEF Others, Taken
    <3> QED
      BY <3>1, <3>2, <3>3 DEF Taken
  <2> QED
    BY <2>1, <2>2
<1>9. NonceTakenByAllow'
  BY <1>8 DEF NonceTakenByAllow, Payment, Taken, Others
<1> QED
  BY <1>7, <1>9 DEF NonceInv

LEMMA NonceStep ==
    ASSUME AnswersInv, NonceInv, [Next]_vars
    PROVE  NonceInv'
<1>1. CASE UNCHANGED vars
  BY <1>1 DEF NonceInv, NonceTakenByAllow, AllowedHere, Allowed, Hosted, vars
<1>2. ASSUME NEW l \in Lines, Arrive(l) PROVE NonceInv'
  <2> DEFINE m == Line[l]
  <2>1. UNCHANGED <<config, sessionNonces>> /\ pc[l] # "done" /\ Shape
    BY <1>2 DEF Arrive, AnswersInv
  <2>2. CASE m.form = "call" /\ Waits(m) # "nothing"
    <3>1. Await(l, Waits(m)) /\ Waits(m) \in Steps \ {"done"}
      BY <1>2, <2>2 DEF Arrive, Waits, Steps
    <3> QED
      BY <2>1, <3>1, ElseKeeps
  <2>3. CASE ~(m.form = "call" /\ Waits(m) # "nothing")
    <3>1. Answer(l, Now(m))
      BY <1>2, <2>3 DEF Arrive
    <3>2. Hosted \/ ~Payment(l)
      BY <2>3 DEF Payment, Waits
    <3> QED
      BY <2>1, <3>1, <3>2, ElseKeeps
  <2> QED
    BY <2>2, <2>3
<1>3. ASSUME NEW l \in Lines, Awaited(l) PROVE NonceInv'
  <2>1. UNCHANGED config /\ pc[l] # "done" /\ Shape /\ Waiting
    BY <1>3 DEF Awaited, VerifyLocal, HostedFails, HostedAnswers, CheckFails, CheckAnswers,
                Observed, RegistryFails, Unobserved, ScanDenied, PostScan, ScanAnswers, AnswersInv
  <2>2. CASE VerifyLocal(l)
    <3>1. pc[l] = "local" /\ Payment(l)
      BY <2>1, <2>2 DEF VerifyLocal, Waiting, Payment
    <3>2. CASE Hosted
      BY <2>1, <3>2 DEF NonceInv, NonceTakenByAllow, Hosted
    <3>3. CASE Answer(l, Says("abstain")) /\ UNCHANGED sessionNonces
      <4>1. Says("abstain").says \notin {"allow", "refuse"}
        BY DEF Says
      <4> QED
        BY <2>1, <3>3, <4>1, ElseKeeps
    <3>4. CASE ~Hosted /\ Answer(l, Says(Verdict(Line[l].arg))) /\ Commit(Line[l].arg)
      BY <2>1, <2>2, <3>1, <3>4, VerdictKeeps DEF VerifyLocal
    <3> QED
      BY <2>2, <3>2, <3>3, <3>4 DEF VerifyLocal
  <2>3. CASE ~VerifyLocal(l)
    <3>1. UNCHANGED sessionNonces /\ (Hosted \/ ~Payment(l))
      BY <1>3, <2>1, <2>3 DEF Awaited, HostedFails, HostedAnswers, CheckFails, CheckAnswers, Observed,
         RegistryFails, Unobserved, ScanDenied, PostScan, ScanAnswers, Waiting, Payment
    <3>2. Await(l, "scan") \/ \E a : Answer(l, a)
      BY <1>3, <2>3 DEF Awaited, HostedFails, HostedAnswers, CheckFails, CheckAnswers, Observed,
         RegistryFails, Unobserved, ScanDenied, PostScan, ScanAnswers
    <3>3. "scan" \in Steps \ {"done"}
      BY DEF Steps
    <3> QED
      BY <2>1, <3>1, <3>2, <3>3, ElseKeeps
  <2> QED
    BY <2>2, <2>3
<1> QED
  BY <1>1, <1>2, <1>3 DEF Next

(* However verifications overlap, with no key set an authorization is       *)
(* allowed once in a session, and what the verifier allows is refused only  *)
(* after one of its payer's and nonce was allowed (evm.ts, seenNonces).     *)
THEOREM NoncesTakenByAllows == Spec => []NonceTakenByAllow
<1>1. Init => AnswersInv /\ NonceInv
  BY AnswersInit, NonceInit
<1>2. AnswersInv /\ NonceInv /\ [Next]_vars => (AnswersInv /\ NonceInv)'
  BY AnswersStep, NonceStep
<1>3. NonceInv => NonceTakenByAllow
  BY DEF NonceInv
<1> QED
  BY <1>1, <1>2, <1>3, PTL DEF Spec
=============================================================================
