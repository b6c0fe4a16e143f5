-------------------------- MODULE TradeGuardProofs ---------------------------
(***************************************************************************)
(* Theorems about TradeGuard, for any requests, caps and window: the types *)
(* of its state, the daily cap in every window, that the ledger which      *)
(* forgets decides as one that does not, and the fields the guard parses.  *)
(***************************************************************************)
EXTENDS TradeGuard, FiniteSetTheorems, TLAPS

-----------------------------------------------------------------------------
(* Types. *)

LEMMA Bounds ==
    /\ MaxOrderUsd \in Nat /\ MaxDailyUsd \in Nat /\ Window \in Nat
    /\ MaxTime \in Nat /\ MaxLives \in Nat
BY TradeAssumption

(* An order without conflicting aliases has one amount, its size. *)
LEMMA OneAmount ==
    ASSUME NEW r \in Requests, ~ Unclear(Order[r]), NEW n \in Order[r].notionals
    PROVE  Size(r) = n /\ n \in Int
<1> DEFINE S == Order[r].notionals
<1>1. IsFiniteSet(S) /\ ~ (Cardinality(S) > 1)
  BY TradeAssumption DEF Unclear, Order
<1>2. Cardinality(S) \in Nat /\ Cardinality(S) # 0
  BY <1>1, FS_CardinalityType, FS_EmptySet
<1>3. Cardinality(S) = 1
  BY <1>1, <1>2
<1>4. PICK m : S = {m}
  BY <1>1, <1>3, FS_Singleton
<1>5. S = {n} /\ n \in Int
  BY <1>4, TradeAssumption DEF Order
<1>6. \A k \in S : k = n
  BY <1>5
<1>7. Max(S) = n
  BY <1>5, <1>6 DEF Max
<1>8. QED
  BY <1>5, <1>7 DEF Size

LEMMA SizeIsAmount ==
    ASSUME NEW r \in Requests, AsksLedger(r)
    PROVE  Sized(r) /\ Size(r) \in 1..MaxOrderUsd
<1>1. /\ ~ Unclear(Order[r]) /\ Order[r].notionals # {}
      /\ 0 < Size(r) /\ Size(r) <= MaxOrderUsd
  BY DEF AsksLedger, Passes, WithinOrderCap, Sized
<1>2. PICK n \in Order[r].notionals : TRUE
  BY <1>1
<1>3. Size(r) \in Int
  BY <1>1, <1>2, OneAmount
<1>4. QED
  BY <1>1, <1>3, Bounds DEF Sized

LEMMA TypeInit == Init => TypeOK
<1> SUFFICES ASSUME Init PROVE TypeOK
  OBVIOUS
<1>1. now \in 0..MaxTime /\ life \in Nat
  BY Bounds DEF Init
<1>2. when \in [Requests -> 0..MaxTime \cup {Never}]
  BY DEF Init
<1>3. exchange \in [Requests -> Places] /\ reply \in [Requests -> Replies]
  BY DEF Init, Places, Replies
<1>4. QED
  BY <1>1, <1>2, <1>3 DEF Init, TypeOK

(* Until the request is forwarded or answered: the ledger is written here  *)
(* only, and only with an order whose size passed the order cap.           *)
LEMMA HandlerTypes ==
    ASSUME TypeOK, NEW r \in Requests, Send(r) \/ TooLarge(r) \/ Handle(r)
    PROVE  TypeOK'
<1> USE DEF TypeOK, Places, Replies
<1>1. CASE AllowOrder(r)
  <2>1. ledger' \subseteq {q \in Requests : Sized(q) /\ Size(q) \in 1..MaxOrderUsd}
    BY <1>1, SizeIsAmount DEF AllowOrder, Pruned
  <2>2. when' \in [Requests -> 0..MaxTime \cup {Never}]
    BY <1>1 DEF AllowOrder
  <2>3. QED
    BY <1>1, <2>1, <2>2 DEF AllowOrder, LogThenForward, Forward, HandlerFails, Answer
<1>2. CASE RefuseOrder(r)
  BY <1>2 DEF RefuseOrder, Refuse, HandlerFails, Answer, Pruned
<1>3. CASE RefuseUnread(r) \/ PassThrough(r)
  BY <1>3 DEF RefuseUnread, PassThrough, Refuse, HandlerFails, Answer, Forward
<1>4. CASE Send(r) \/ TooLarge(r)
  BY <1>4 DEF Send, TooLarge, Answer
<1>5. QED
  BY <1>1, <1>2, <1>3, <1>4 DEF Handle

(* Once it is forwarded: the broker's answer, its stream and its failures. *)
LEMMA AnswerTypes ==
    ASSUME TypeOK, NEW r \in Requests,
           Finish(r) \/ StreamFlagged(r) \/ StreamListing(r) \/ BodyReadFails(r)
    PROVE  TypeOK'
<1> USE DEF TypeOK, Places, Replies
<1>1. CASE StreamFlagged(r)
  BY <1>1 DEF StreamFlagged, handling
<1>2. CASE TextListing(r) \/ StreamListing(r) \/ BodyReadFails(r)
  BY <1>2 DEF TextListing, StreamListing, BodyReadFails, Ends, Answer, handling
<1>3. CASE FetchFails(r) \/ FetchAnswers(r) \/ TextRelayed(r) \/ TextAnnotated(r) \/ StreamEnds(r)
  BY <1>3 DEF FetchFails, AnswerUnreachable, FetchAnswers, TextRelayed, TextAnnotated,
              StreamEnds, Answer
<1>4. QED
  BY <1>1, <1>2, <1>3 DEF Finish

(* The clock, and a step of some other system. *)
LEMMA ClockTypes ==
    ASSUME TypeOK, Tick \/ StepBack \/ UNCHANGED vars
    PROVE  TypeOK'
BY Bounds DEF TypeOK, Tick, StepBack, handling, vars

LEMMA RestartTypes ==
    ASSUME TypeOK, Restart
    PROVE  TypeOK'
<1> USE DEF TypeOK, Places, Replies
<1>1. life' \in Nat
  BY DEF Restart
<1>2. QED
  BY <1>1 DEF Restart

(* Every variable keeps its type; what the ledger holds is a positive      *)
(* amount within the order cap.                                            *)
THEOREM TypeCorrect == Spec => []TypeOK
<1>1. TypeOK /\ [Next]_vars => TypeOK'
  BY HandlerTypes, AnswerTypes, ClockTypes, RestartTypes DEF Next
<1>2. QED
  BY <1>1, TypeInit, PTL DEF Spec

-----------------------------------------------------------------------------
(* Totals. *)

Amounts(S) == \A r \in S : Size(r) \in 1..MaxOrderUsd

LEMMA DollarsFinite ==
    ASSUME NEW S \in SUBSET Requests, Amounts(S)
    PROVE  IsFiniteSet(Dollars(S)) /\ Total(S) \in Nat
<1>1. IsFiniteSet(Requests \X (1..MaxOrderUsd))
  <2>1. IsFiniteSet(1..MaxOrderUsd)
    BY FS_Interval, Bounds
  <2>2. IsFiniteSet(Requests)
    BY TradeAssumption
  <2>3. QED
    BY <2>1, <2>2, FS_Product
<1>2. Dollars(S) \subseteq Requests \X (1..MaxOrderUsd)
  BY Bounds DEF Dollars, Amounts
<1>3. QED
  BY <1>1, <1>2, FS_Subset, FS_CardinalityType DEF Total

(* Fewer orders, fewer dollars. *)
LEMMA FewerOrders ==
    ASSUME NEW S \in SUBSET Requests, Amounts(S), NEW T \in SUBSET S
    PROVE  Total(T) \in Nat /\ Total(T) <= Total(S)
<1>1. Dollars(T) \subseteq Dollars(S)
  BY DEF Dollars
<1>2. Amounts(T)
  BY DEF Amounts
<1>3. QED
  BY <1>1, <1>2, DollarsFinite, FS_Subset DEF Total

(* One more order adds its size. *)
LEMMA OneMoreOrder ==
    ASSUME NEW S \in SUBSET Requests, NEW r \in Requests \ S, Amounts(S \cup {r})
    PROVE  Total(S \cup {r}) = Total(S) + Size(r)
<1> DEFINE D == {r} \X (1..Size(r))
<1>1. Size(r) \in Nat /\ 1 * Size(r) = Size(r) /\ Amounts(S)
  BY Bounds DEF Amounts
<1>2. IsFiniteSet(D) /\ Cardinality(D) = Size(r)
  <2>1. IsFiniteSet({r}) /\ Cardinality({r}) = 1
    BY FS_Singleton
  <2>2. IsFiniteSet(1..Size(r)) /\ Cardinality(1..Size(r)) = Size(r)
    BY <1>1, FS_Interval
  <2>3. QED
    BY <1>1, <2>1, <2>2, FS_Product
<1>3. Dollars(S \cup {r}) = Dollars(S) \cup D
  BY DEF Dollars
<1>4. Dollars(S) \cap D = {}
  BY DEF Dollars
<1>5. Cardinality(Dollars(S) \cap D) = 0
  BY <1>4, FS_EmptySet
<1>6. IsFiniteSet(Dollars(S)) /\ Total(S) \in Nat
  BY <1>1, DollarsFinite
<1>7. Cardinality(Dollars(S) \cup D) = Cardinality(Dollars(S)) + Cardinality(D)
                                       - Cardinality(Dollars(S) \cap D)
  BY <1>2, <1>6, FS_Union
<1>8. Total(S \cup {r}) = Total(S) + Size(r) - 0
  BY <1>2, <1>3, <1>5, <1>7 DEF Total
<1>9. QED
  BY <1>1, <1>6, <1>8

-----------------------------------------------------------------------------
(* The inductive invariant. *)

(* What the ledger knows of the orders this process allowed: all of those  *)
(* that the window still holds, and none that it did not allow.            *)
LedgerRemembers ==
    /\ \A r \in admitted : when[r] \in 0..now
    /\ \A r \in SizedOrders : Size(r) \in 1..MaxOrderUsd
    /\ ledger \subseteq SizedOrders
    /\ \A r \in SizedOrders : when[r] >= now - Window => r \in ledger
    /\ \A r \in admitted : exchange[r] \notin {"idle", "arriving"}

IInv == TypeOK /\ LedgerRemembers /\ WindowCap

(* The orders of the window that ends at t. *)
InWindow(t) == {r \in SizedOrders : when[r] \in (t - Window)..t}

(* What the ledger keeps when asked is the window that ends now. *)
LEMMA PrunedIsWindow ==
    ASSUME TypeOK, LedgerRemembers
    PROVE  Pruned = InWindow(now)
BY Bounds DEF TypeOK, LedgerRemembers, Pruned, InWindow, SizedOrders

(* A step that adds no order and only lets the ledger drop what is old.    *)
LEMMA QuietStep ==
    ASSUME IInv, TypeOK', UNCHANGED <<now, admitted, when>>,
           ledger' = ledger \/ ledger' = Pruned,
           \A r \in Requests : exchange'[r] \in {"idle", "arriving"}
                                  => exchange[r] \in {"idle", "arriving"}
    PROVE  IInv'
<1>1. SizedOrders' = SizedOrders
  BY DEF SizedOrders
<1>2. LedgerRemembers'
  BY <1>1 DEF IInv, TypeOK, LedgerRemembers, Pruned, SizedOrders
<1>3. WindowCap'
  BY <1>1 DEF IInv, WindowCap
<1>4. QED
  BY <1>2, <1>3 DEF IInv

(* The only step that adds an order. *)
LEMMA AllowStep ==
    ASSUME IInv, TypeOK', NEW r \in Requests, AllowOrder(r)
    PROVE  IInv'
<1> USE DEF IInv, TypeOK
<1>1. r \notin admitted
  BY DEF LedgerRemembers, AllowOrder, AtEnd
<1>2. /\ UNCHANGED now /\ when' = [when EXCEPT ![r] = now] /\ when'[r] = now
      /\ admitted' = admitted \cup {r}
      /\ \A q \in admitted : when'[q] = when[q]
      /\ \A q \in Requests \ {r} : exchange'[q] = exchange[q]
      /\ exchange'[r] \notin {"idle", "arriving"}
  BY <1>1 DEF AllowOrder, LogThenForward, Forward, HandlerFails, Answer
<1>3. CASE ~ Sized(r)
  <2>1. SizedOrders' = SizedOrders
    BY <1>2, <1>3 DEF SizedOrders
  <2>2. ledger' = ledger
    BY <1>3 DEF AllowOrder, AsksLedger, WithinOrderCap
  <2>3. \A q \in SizedOrders : when'[q] = when[q]
    BY <1>2 DEF SizedOrders
  <2>4. LedgerRemembers'
    BY <1>2, <2>1, <2>2, <2>3 DEF LedgerRemembers
  <2>5. \A t \in Int : InWindow(t)' = InWindow(t)
    BY <2>1, <2>3 DEF InWindow
  <2>6. WindowCap'
    BY <1>2, <2>1, <2>3 DEF WindowCap
  <2>7. QED
    BY <2>4, <2>6
<1>4. CASE Sized(r)
  <2>1. AsksLedger(r) /\ FitsDay(r) /\ ledger' = Pruned \cup {r}
    BY <1>4 DEF AllowOrder, Allows
  <2>2. Size(r) \in 1..MaxOrderUsd
    BY <2>1, SizeIsAmount
  <2>3. SizedOrders' = SizedOrders \cup {r} /\ r \notin SizedOrders
    BY <1>1, <1>2, <1>4 DEF SizedOrders
  <2>4. Pruned = InWindow(now) /\ Pruned \subseteq SizedOrders
    BY PrunedIsWindow DEF InWindow
  <2>5. \A q \in SizedOrders : when'[q] = when[q] /\ q \in admitted
    BY <1>2 DEF SizedOrders
  <2>6. LedgerRemembers'
    <3>1. ledger' \subseteq SizedOrders'
      BY <2>1, <2>3, <2>4
    <3>2. \A q \in SizedOrders' : when'[q] >= now' - Window => q \in ledger'
      BY <1>2, <2>1, <2>3, <2>4, <2>5 DEF Pruned, LedgerRemembers
    <3>3. \A q \in admitted' : when'[q] \in 0..now'
      BY <1>2 DEF LedgerRemembers
    <3>4. \A q \in admitted' : exchange'[q] \notin {"idle", "arriving"}
      BY <1>2 DEF LedgerRemembers
    <3>5. QED
      BY <2>2, <2>3, <3>1, <3>2, <3>3, <3>4 DEF LedgerRemembers
  <2>7. Amounts(SizedOrders \cup {r})
    BY <2>2 DEF LedgerRemembers, Amounts
  <2>8. ASSUME NEW t \in 0..now
        PROVE  Total({q \in SizedOrders' : when'[q] \in (t - Window)..t}) <= MaxDailyUsd
    <3> DEFINE W == {q \in SizedOrders' : when'[q] \in (t - Window)..t}
    <3>1. CASE t = now
      <4>1. W = Pruned \cup {r}
        BY <1>2, <2>3, <2>4, <2>5, <3>1, Bounds DEF InWindow
      <4>2. Amounts(Pruned \cup {r}) /\ Pruned \in SUBSET Requests /\ r \notin Pruned
        BY <2>3, <2>4, <2>7 DEF Amounts, SizedOrders
      <4>3. Total(W) = Total(Pruned) + Size(r)
        BY <4>1, <4>2, OneMoreOrder
      <4>4. QED
        BY <2>1, <4>3 DEF FitsDay
    <3>2. CASE t # now
      <4>1. W = {q \in SizedOrders : when[q] \in (t - Window)..t}
        BY <1>2, <2>3, <2>5, <3>2, Bounds
      <4>2. QED
        BY <4>1 DEF WindowCap
    <3>3. QED
      BY <3>1, <3>2
  <2>9. WindowCap'
    BY <1>2, <2>8 DEF WindowCap
  <2>10. QED
    BY <2>6, <2>9
<1>5. QED
  BY <1>3, <1>4

(* Time passes: an order only leaves windows. *)
LEMMA TickStep ==
    ASSUME IInv, TypeOK', Tick
    PROVE  IInv'
<1> USE DEF IInv, TypeOK
<1>1. /\ now' = now + 1 /\ UNCHANGED <<ledger, admitted, when, exchange>>
      /\ SizedOrders' = SizedOrders
  BY DEF Tick, handling, SizedOrders
<1>2. LedgerRemembers'
  BY <1>1, Bounds DEF LedgerRemembers, SizedOrders
<1>3. ASSUME NEW t \in 0..(now + 1)
      PROVE  Total(InWindow(t)) <= MaxDailyUsd
  <2>1. CASE t \in 0..now
    BY <2>1 DEF WindowCap, InWindow
  <2>2. CASE t = now + 1
    <3>1. InWindow(t) \subseteq InWindow(now)
      BY <2>2, Bounds DEF InWindow, LedgerRemembers, SizedOrders
    <3>2. Amounts(InWindow(now)) /\ InWindow(now) \in SUBSET Requests
      BY DEF Amounts, InWindow, LedgerRemembers, SizedOrders
    <3>3. now \in 0..now
      BY Bounds
    <3>4. Total(InWindow(now)) <= MaxDailyUsd
      BY <3>3 DEF WindowCap, InWindow
    <3>5. Total(InWindow(now)) \in Nat
      BY <3>2, DollarsFinite
    <3>6. QED
      BY <3>1, <3>2, <3>4, <3>5, FewerOrders, Bounds
  <2>3. QED
    BY <2>1, <2>2, Bounds
<1>4. WindowCap'
  BY <1>1, <1>3 DEF WindowCap, InWindow
<1>5. QED
  BY <1>2, <1>4

LEMMA RestartStep ==
    ASSUME IInv, TypeOK', Restart
    PROVE  IInv'
<1>1. admitted' = {} /\ ledger' = {} /\ SizedOrders' = {}
  BY DEF Restart, SizedOrders
<1>2. LedgerRemembers'
  BY <1>1 DEF LedgerRemembers
<1>3. Total({}) = 0
  <2>1. Dollars({}) = {}
    BY DEF Dollars
  <2>2. QED
    BY <2>1, FS_EmptySet DEF Total
<1>4. WindowCap'
  <2> SUFFICES ASSUME NEW t \in (0..now)'
               PROVE  Total({q \in SizedOrders' : when'[q] \in (t - Window)..t}) <= MaxDailyUsd
    BY DEF WindowCap
  <2> DEFINE W == {q \in SizedOrders' : when'[q] \in (t - Window)..t}
  <2>1. W = {}
    BY <1>1
  <2>2. Total(W) = 0
    BY <1>3, <2>1
  <2>3. QED
    BY <2>2, Bounds
<1>5. QED
  BY <1>2, <1>4 DEF IInv

LEMMA IInvInit == Init => IInv
<1> SUFFICES ASSUME Init PROVE IInv
  OBVIOUS
<1>1. TypeOK
  BY TypeInit
<1>2. LedgerRemembers
  BY DEF Init, LedgerRemembers, SizedOrders
<1>3. SizedOrders = {} /\ Dollars({}) = {}
  BY DEF Init, SizedOrders, Dollars
<1>4. WindowCap
  BY <1>3, FS_EmptySet, Bounds DEF WindowCap, Total
<1>5. QED
  BY <1>1, <1>2, <1>4 DEF IInv

LEMMA IInvStep ==
    ASSUME ~ ClockSteps, IInv, TypeOK', [Next]_vars
    PROVE  IInv'
<1>1. ASSUME NEW r \in Requests,
             Send(r) \/ TooLarge(r) \/ RefuseUnread(r) \/ PassThrough(r) \/ RefuseOrder(r)
      PROVE  IInv'
  <2>1. UNCHANGED <<now, admitted, when>> /\ (ledger' = ledger \/ ledger' = Pruned)
    BY <1>1 DEF Send, TooLarge, RefuseUnread, PassThrough, RefuseOrder
  <2>2. \A q \in Requests : exchange'[q] \in {"idle", "arriving"}
                               => exchange[q] \in {"idle", "arriving"}
    BY <1>1 DEF IInv, TypeOK, Send, TooLarge, RefuseUnread, PassThrough, RefuseOrder, Refuse,
                Forward, HandlerFails, Answer
  <2>3. QED
    BY <2>1, <2>2, QuietStep
<1>2. ASSUME NEW r \in Requests, AllowOrder(r)
      PROVE  IInv'
  BY <1>2, AllowStep
<1>3. ASSUME NEW r \in Requests,
             Finish(r) \/ StreamFlagged(r) \/ StreamListing(r) \/ BodyReadFails(r)
      PROVE  IInv'
  <2>1. UNCHANGED <<now, admitted, when, ledger>>
    BY <1>3 DEF Finish, FetchFails, FetchAnswers, TextRelayed, TextAnnotated, TextListing,
                StreamEnds, StreamFlagged, StreamListing, BodyReadFails, Ends, handling
  <2>2. \A q \in Requests : exchange'[q] \in {"idle", "arriving"}
                               => exchange[q] \in {"idle", "arriving"}
    BY <1>3 DEF IInv, TypeOK, Finish, FetchFails, AnswerUnreachable, FetchAnswers, TextRelayed,
                TextAnnotated, TextListing, StreamEnds, StreamFlagged, StreamListing,
                BodyReadFails, Ends, handling, Answer
  <2>3. QED
    BY <2>1, <2>2, QuietStep
<1>4. CASE Restart
  BY <1>4, RestartStep
<1>5. CASE Tick
  BY <1>5, TickStep
<1>6. CASE UNCHANGED vars
  BY <1>6, QuietStep DEF vars
<1>7. QED
  BY <1>1, <1>2, <1>3, <1>4, <1>5, <1>6 DEF Next, Handle, StepBack

LEMMA Invariance ==
    ASSUME ~ ClockSteps
    PROVE  Spec => []IInv
<1>1. IInv /\ TypeOK' /\ [Next]_vars => IInv'
  BY IInvStep
<1>2. QED
  BY <1>1, IInvInit, TypeCorrect, PTL DEF Spec

(* The daily cap: while the clock is not set back, the orders a process    *)
(* allows add up to no more than the cap in any window of time, ends       *)
(* included, whatever the orders, the hooks and the broker do.             *)
THEOREM WindowCapKept ==
    ASSUME ~ ClockSteps
    PROVE  Spec => []WindowCap
<1>1. IInv => WindowCap
  BY DEF IInv
<1>2. QED
  BY <1>1, Invariance, PTL

-----------------------------------------------------------------------------
(* The refinement. *)

(* RollingCap counts as this module does. *)
LEMMA SameCardinality == \A S : Promise!Cardinality(S) = Cardinality(S)
BY DEF Promise!Cardinality, Cardinality, Promise!IsFiniteSet, IsFiniteSet

Record(r) == [id |-> r, at |-> when[r], usd |-> Size(r)]
Records == {Record(r) : r \in SizedOrders}

(* The dollars of the records of the window that ends now are the dollars  *)
(* of its orders.                                                          *)
LEMMA SameDollars ==
    ASSUME IInv
    PROVE  Promise!Dollars(Promise!Trailing(Records, now)) = Dollars(InWindow(now))
<1> DEFINE T == Promise!Trailing(Records, now)
<1>1. \A r \in SizedOrders : when[r] \in Int /\ now \in Int
  BY Bounds DEF IInv, TypeOK, LedgerRemembers, SizedOrders
<1>2. \A r \in SizedOrders : Record(r) \in T <=> r \in InWindow(now)
  BY <1>1, Bounds DEF Promise!Trailing, Records, Record, InWindow
<1>3. \A o \in T : \E r \in SizedOrders : o = Record(r)
  BY DEF Promise!Trailing, Records
<1>4. InWindow(now) \subseteq SizedOrders
  BY DEF InWindow
<1>5. \A r \in SizedOrders : {Record(r).id} \X (1..Record(r).usd) = {r} \X (1..Size(r))
  BY DEF Record
<1>6. ASSUME NEW x \in Promise!Dollars(T) PROVE x \in Dollars(InWindow(now))
  <2>1. PICK o \in T : x \in {o.id} \X (1..o.usd)
    BY <1>6 DEF Promise!Dollars
  <2>2. PICK r \in SizedOrders : o = Record(r)
    BY <1>3
  <2>3. r \in InWindow(now) /\ x \in {r} \X (1..Size(r))
    BY <1>2, <1>5, <2>1, <2>2
  <2>4. QED
    BY <2>3 DEF Dollars
<1>7. ASSUME NEW x \in Dollars(InWindow(now)) PROVE x \in Promise!Dollars(T)
  <2>1. PICK r \in InWindow(now) : x \in {r} \X (1..Size(r))
    BY <1>7 DEF Dollars
  <2>2. Record(r) \in T /\ x \in {Record(r).id} \X (1..Record(r).usd)
    BY <1>2, <1>4, <1>5, <2>1
  <2>3. QED
    BY <2>2 DEF Promise!Dollars
<1>8. QED
  BY <1>6, <1>7

LEMMA SameDollarsNext ==
    IInv' => (Promise!Dollars(Promise!Trailing(Records, now)) = Dollars(InWindow(now)))'
<1>1. IInv => Promise!Dollars(Promise!Trailing(Records, now)) = Dollars(InWindow(now))
  BY SameDollars
<1>2. QED
  BY <1>1, PTL

(* Allowing an order of a known size places it under the promise's cap. *)
LEMMA AllowPlaces ==
    ASSUME IInv, IInv', NEW r \in Requests, AllowOrder(r), Sized(r)
    PROVE  Promise!CapNext
<1>1. r \notin admitted
  BY DEF IInv, LedgerRemembers, AllowOrder, AtEnd
<1>2. /\ UNCHANGED now /\ admitted' = admitted \cup {r} /\ when'[r] = now
      /\ \A q \in admitted : when'[q] = when[q]
  BY <1>1 DEF AllowOrder, IInv, TypeOK
<1>3. SizedOrders' = SizedOrders \cup {r} /\ r \notin SizedOrders
  BY <1>1, <1>2 DEF SizedOrders
<1>4. Records' = Records \cup {[id |-> r, at |-> now, usd |-> Size(r)]}
  BY <1>2, <1>3 DEF Records, Record, SizedOrders
<1>5. Size(r) \in 1..MaxDailyUsd
  <2>1. AsksLedger(r) /\ FitsDay(r)
    BY DEF AllowOrder, Allows
  <2>2. Size(r) \in 1..MaxOrderUsd
    BY <2>1, SizeIsAmount
  <2>3. Pruned \in SUBSET Requests /\ Amounts(Pruned)
    BY DEF Pruned, Amounts, IInv, TypeOK
  <2>4. Total(Pruned) \in Nat
    BY <2>3, DollarsFinite
  <2>5. QED
    BY <2>1, <2>2, <2>4, Bounds DEF FitsDay
<1>6. \A o \in Records : o.id # r
  BY <1>3 DEF Records, Record
<1>7. Cardinality(Promise!Dollars(Promise!Trailing(Records', now))) <= MaxDailyUsd
  <2>1. (Promise!Dollars(Promise!Trailing(Records, now)) = Dollars(InWindow(now)))'
    BY SameDollarsNext
  <2>2. (now \in 0..now)'
    BY Bounds DEF IInv, TypeOK
  <2>3. (Total(InWindow(now)) <= MaxDailyUsd)'
    BY <2>2 DEF IInv, WindowCap, InWindow
  <2>4. QED
    BY <1>2, <2>1, <2>3 DEF Total
<1>8. Promise!Place(r, Size(r))
  BY <1>2, <1>4, <1>6, <1>7, SameCardinality DEF Promise!Place, Records, Record
<1>9. QED
  BY <1>5, <1>8 DEF Promise!CapNext

(* A step that adds no order of a known size leaves the promise as it is.  *)
LEMMA QuietForPromise ==
    ASSUME UNCHANGED now, SizedOrders' = SizedOrders,
           \A r \in SizedOrders : when'[r] = when[r]
    PROVE  UNCHANGED Promise!capVars
<1>1. Records' = Records
  BY DEF Records, Record
<1>2. QED
  BY <1>1 DEF Promise!capVars, Records, Record

LEMMA StepKeepsCap ==
    ASSUME ~ ClockSteps, IInv, IInv', [Next]_vars
    PROVE  [Promise!CapNext]_(Promise!capVars)
<1>1. ASSUME NEW r \in Requests,
             Send(r) \/ TooLarge(r) \/ RefuseUnread(r) \/ PassThrough(r) \/ RefuseOrder(r)
      PROVE  UNCHANGED Promise!capVars
  <2>1. UNCHANGED <<now, admitted, when>>
    BY <1>1 DEF Send, TooLarge, RefuseUnread, PassThrough, RefuseOrder
  <2>2. QED
    BY <2>1, QuietForPromise DEF SizedOrders
<1>2. ASSUME NEW r \in Requests, AllowOrder(r)
      PROVE  [Promise!CapNext]_(Promise!capVars)
  <2>1. CASE Sized(r)
    BY <1>2, <2>1, AllowPlaces
  <2>2. CASE ~ Sized(r)
    <3>1. r \notin admitted
      BY <1>2 DEF IInv, LedgerRemembers, AllowOrder, AtEnd
    <3>2. UNCHANGED now /\ SizedOrders' = SizedOrders
      BY <1>2, <2>2 DEF AllowOrder, SizedOrders
    <3>3. \A q \in SizedOrders : when'[q] = when[q]
      BY <1>2, <3>1 DEF AllowOrder, SizedOrders, IInv, TypeOK
    <3>4. QED
      BY <3>2, <3>3, QuietForPromise
  <2>3. QED
    BY <2>1, <2>2
<1>3. ASSUME NEW r \in Requests,
             Finish(r) \/ StreamFlagged(r) \/ StreamListing(r) \/ BodyReadFails(r)
      PROVE  UNCHANGED Promise!capVars
  <2>1. UNCHANGED <<now, admitted, when>>
    BY <1>3 DEF Finish, FetchFails, FetchAnswers, TextRelayed, TextAnnotated, TextListing,
                StreamEnds, StreamFlagged, StreamListing, BodyReadFails, Ends, handling
  <2>2. QED
    BY <2>1, QuietForPromise DEF SizedOrders
<1>4. CASE Restart
  <2>1. SizedOrders' = {} /\ UNCHANGED now
    BY <1>4 DEF Restart, SizedOrders
  <2>2. Promise!Forget
    BY <2>1 DEF Promise!Forget
  <2>3. QED
    BY <2>2 DEF Promise!CapNext
<1>5. CASE Tick
  <2>1. now' > now
    BY <1>5, Bounds DEF Tick, IInv, TypeOK
  <2>2. SizedOrders' = SizedOrders /\ UNCHANGED when
    BY <1>5 DEF Tick, handling, SizedOrders
  <2>3. Promise!Advance
    BY <2>1, <2>2 DEF Promise!Advance
  <2>4. QED
    BY <2>3 DEF Promise!CapNext
<1>6. CASE UNCHANGED vars
  BY <1>6, QuietForPromise DEF vars, SizedOrders
<1>7. QED
  BY <1>1, <1>2, <1>3, <1>4, <1>5, <1>6 DEF Next, Handle, StepBack

(* While the clock is not set back, the guard with its pruned ledger, its  *)
(* handlers and its restarts implements RollingCap, which forgets nothing. *)
THEOREM CapImplemented ==
    ASSUME ~ ClockSteps
    PROVE  Spec => KeepsCap
<1>1. Init => Promise!CapInit
  BY Bounds DEF Init, Promise!CapInit, SizedOrders
<1>2. IInv /\ IInv' /\ [Next]_vars => [Promise!CapNext]_(Promise!capVars)
  BY StepKeepsCap
<1>3. QED
  BY <1>1, <1>2, Invariance, PTL DEF Spec, KeepsCap, Promise!CapSpec

-----------------------------------------------------------------------------
(* What the agent is told. *)

(* A request the broker may have is past its handler, and a request is     *)
(* answered at most once.                                                  *)
FateShape ==
    \A r \in Requests :
        /\ exchange[r] \in {"idle", "arriving"} => r \notin sent /\ reply[r] = "none"
        /\ exchange[r] \in {"fetch", "text", "stream"} => reply[r] = "none"
        /\ reply[r] \in {"too-large", "refused", "error"} => r \notin sent

LEMMA FateShapeStep ==
    ASSUME TypeOK, FateShape, [Next]_vars
    PROVE  FateShape'
<1> USE DEF TypeOK, FateShape
<1>1. ASSUME NEW r \in Requests, Send(r) \/ TooLarge(r) \/ Handle(r)
      PROVE  FateShape'
  <2>1. CASE Send(r) \/ TooLarge(r)
    BY <2>1 DEF Send, TooLarge, Answer
  <2>2. CASE RefuseUnread(r) \/ RefuseOrder(r)
    BY <2>2 DEF RefuseUnread, RefuseOrder, AtEnd, Refuse, HandlerFails, Answer
  <2>3. CASE PassThrough(r)
    BY <2>3 DEF PassThrough, AtEnd, Forward
  <2>4. CASE AllowOrder(r)
    BY <2>4 DEF AllowOrder, AtEnd, LogThenForward, Forward, HandlerFails, Answer
  <2>5. QED
    BY <1>1, <2>1, <2>2, <2>3, <2>4 DEF Handle
<1>2. ASSUME NEW r \in Requests,
             Finish(r) \/ StreamFlagged(r) \/ StreamListing(r) \/ BodyReadFails(r)
      PROVE  FateShape'
  <2>1. CASE FetchFails(r) \/ FetchAnswers(r) \/ TextRelayed(r) \/ TextAnnotated(r) \/ StreamEnds(r)
    BY <2>1 DEF FetchFails, AnswerUnreachable, FetchAnswers, TextRelayed, TextAnnotated,
                StreamEnds, Answer
  <2>2. CASE TextListing(r) \/ StreamListing(r) \/ BodyReadFails(r)
    BY <2>2 DEF TextListing, StreamListing, BodyReadFails, Ends, Answer, handling
  <2>3. CASE StreamFlagged(r)
    BY <2>3 DEF StreamFlagged, handling
  <2>4. QED
    BY <1>2, <2>1, <2>2, <2>3 DEF Finish
<1>3. CASE Restart \/ Tick \/ StepBack \/ UNCHANGED vars
  BY <1>3 DEF Restart, Tick, StepBack, handling, vars
<1>4. QED
  BY <1>1, <1>2, <1>3 DEF Next

(* A request whose sender is told it was refused or not forwarded never    *)
(* reached the broker, whatever the hooks throw, over crashes and restarts *)
(* and whatever the clock does (proxy.ts 199, 433).                        *)
THEOREM OneFateKept == Spec => []OneFate
<1>1. Init => FateShape
  BY DEF Init, FateShape
<1>2. TypeOK /\ FateShape /\ [Next]_vars => FateShape'
  BY FateShapeStep
<1>3. FateShape => OneFate
  BY DEF FateShape, OneFate
<1>4. QED
  BY <1>1, <1>2, <1>3, TypeCorrect, PTL DEF Spec

-----------------------------------------------------------------------------
(* The fields the guard parses. *)

(* The fields the guard parses, of an order within what was agreed.        *)
CappedOrder(r) ==
    /\ Body[r].form = "json"
    /\ \E s \in Order[r].symbols : /\ Order[r].symbols = {s}
                                   /\ AllowedSymbols = {} \/ s \in AllowedSymbols
    /\ \A f \in ParsedFields(r, "notional") : 0 < f.means /\ f.means <= MaxOrderUsd
    /\ ParsedFields(r, "quantity") # {} =>
          ParsedFields(r, "notional") = {} /\ AllowUnknown

(* What is parsed under a dimension is what its fields mean.               *)
LEMMA FieldsOfOrder ==
    ASSUME NEW r \in Requests
    PROVE  /\ \A f \in ParsedFields(r, "notional") : f.means \in Order[r].notionals
           /\ ParsedFields(r, "notional") = {} <=> Order[r].notionals = {}
           /\ ParsedFields(r, "quantity") = {} <=> Order[r].quantities = {}
BY DEF ParsedFields, Order, Parsed

LEMMA AllowedIsCapped ==
    ASSUME NEW r \in Requests, AllowOrder(r)
    PROVE  CappedOrder(r)
<1>1. /\ Body[r].form = "json" /\ Order[r].symbols # {} /\ Allows(r)
      /\ ~ Unclear(Order[r]) /\ SymbolAllowed(Order[r])
  BY DEF AllowOrder, IsOrder, Allows, AsksLedger, Passes
<1>2. \E s \in Order[r].symbols : /\ Order[r].symbols = {s}
                                  /\ AllowedSymbols = {} \/ s \in AllowedSymbols
  <2> DEFINE S == Order[r].symbols
  <2>1. IsFiniteSet(S) /\ ~ (Cardinality(S) > 1)
    BY <1>1, TradeAssumption DEF Unclear, Order
  <2>2. Cardinality(S) \in Nat /\ Cardinality(S) # 0
    BY <1>1, <2>1, FS_CardinalityType, FS_EmptySet
  <2>3. Cardinality(S) = 1
    BY <2>1, <2>2
  <2>4. PICK s : S = {s}
    BY <2>1, <2>3, FS_Singleton
  <2>5. AllowedSymbols = {} \/ s \in AllowedSymbols
    BY <1>1, <2>4 DEF SymbolAllowed
  <2>6. QED
    BY <2>4, <2>5
<1>3. ASSUME NEW f \in ParsedFields(r, "notional")
      PROVE  0 < f.means /\ f.means <= MaxOrderUsd
  <2>1. f.means \in Order[r].notionals
    BY FieldsOfOrder
  <2>2. WithinOrderCap(r)
    BY <1>1, <2>1 DEF Allows, AsksLedger, Sized
  <2>3. Size(r) = f.means
    BY <1>1, <2>1, OneAmount
  <2>4. QED
    BY <2>2, <2>3 DEF WithinOrderCap
<1>4. Order[r].quantities # {} => Order[r].notionals = {} /\ AllowUnknown
  BY <1>1 DEF Unclear, Allows, AsksLedger, WithinOrderCap, Sized
<1>5. QED
  BY <1>1, <1>2, <1>3, <1>4, FieldsOfOrder DEF CappedOrder

LEMMA SentStep ==
    ASSUME ParsedFieldsCapped, [Next]_vars
    PROVE  ParsedFieldsCapped'
<1>1. ASSUME NEW r \in Requests, AllowOrder(r) PROVE ParsedFieldsCapped'
  <2>1. sent' \subseteq sent \cup {r}
    BY <1>1 DEF AllowOrder, LogThenForward, Forward
  <2>2. CappedOrder(r)
    BY <1>1, AllowedIsCapped
  <2>3. QED
    BY <2>1, <2>2 DEF ParsedFieldsCapped, CappedOrder
<1>2. ASSUME NEW r \in Requests, PassThrough(r) PROVE ParsedFieldsCapped'
  <2>1. sent' = sent \cup {r} /\ Body[r].tool \notin OrderTools
    BY <1>2 DEF PassThrough, Forward, IsOrder
  <2>2. QED
    BY <2>1 DEF ParsedFieldsCapped
<1>3. ASSUME NEW r \in Requests, Send(r) \/ TooLarge(r) \/ RefuseUnread(r) \/ RefuseOrder(r)
      PROVE  UNCHANGED sent
  BY <1>3 DEF Send, TooLarge, RefuseUnread, RefuseOrder, Refuse
<1>4. ASSUME NEW r \in Requests,
             Finish(r) \/ StreamFlagged(r) \/ StreamListing(r) \/ BodyReadFails(r)
      PROVE  UNCHANGED sent
  BY <1>4 DEF Finish, FetchFails, FetchAnswers, TextRelayed, TextAnnotated, TextListing,
              StreamEnds, StreamFlagged, StreamListing, BodyReadFails, Ends, handling
<1>5. CASE Restart \/ Tick \/ StepBack \/ UNCHANGED vars
  BY <1>5 DEF Restart, Tick, StepBack, handling, vars, ParsedFieldsCapped
<1>6. QED
  BY <1>1, <1>2, <1>3, <1>4, <1>5 DEF Next, Handle, ParsedFieldsCapped

(* Of an order handed to the broker, the fields the guard parses name one  *)
(* allowed symbol and amounts within the cap of one order, or a share      *)
(* count the operator agreed to: a broker that goes by any of those reads  *)
(* what was agreed (proxy.ts 106-108).  What the guard cannot parse is     *)
(* passed on with them, and is outside this theorem.                       *)
THEOREM ParsedFieldsCappedKept == Spec => []ParsedFieldsCapped
<1>1. Init => ParsedFieldsCapped
  BY DEF Init, ParsedFieldsCapped
<1>2. QED
  BY <1>1, SentStep, PTL DEF Spec
=============================================================================
