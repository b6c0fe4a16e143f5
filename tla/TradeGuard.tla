----------------------------- MODULE TradeGuard ------------------------------
(***************************************************************************)
(* The trade guard: McpGuard.guardOrder and MemorySpendLedger              *)
(* (mcp-guard/src/index.ts), the proxy between an agent and its broker     *)
(* (mcp-guard/src/proxy.ts) and the runner's reaction to the broker's tool *)
(* listing (mcp-guard/src/run.ts).                                         *)
(*                                                                         *)
(* One process serves many requests.  A handler runs from the end of a     *)
(* request's body to the call upstream in one go; the answer from upstream *)
(* comes back later, in any order, or fails at the call, or fails while    *)
(* its body is being read.  An error nobody catches ends the process, and  *)
(* a process started again has an empty ledger.                            *)
(*                                                                         *)
(* An order of n dollars is n dollars, so a total is the size of a set.    *)
(*                                                                         *)
(* An order is the fields its sender wrote.  Each has a meaning, which is  *)
(* what a reader that understands it takes it for, and is one the guard    *)
(* parses or not: to the guard the text "1,000", a nested value and an     *)
(* alias outside its lists are not there, and the broker gets them all.    *)
(***************************************************************************)
EXTENDS Integers, FiniteSets, FiniteSetsExt

CONSTANTS
    Requests,
    Body,           \* what each request carries
    Tools,          \* tool names
    NoTool,         \* the tool of a message that calls none
    OrderTools,     \* names the vocabulary recognises as orders
    OrderyTools,    \* names that look as if they move money
    Listings,       \* what the broker's tool listing may name
    AllowedSymbols, \* empty means any
    AllowUnknown,   \* onUnknownNotional = "allow"
    AllowUnmatched, \* MCP_ALLOW_UNMATCHED
    MaxOrderUsd, MaxDailyUsd, Window,
    HookThrows,     \* may onEvent and onToolList throw?
    BodyFails,      \* may reading an answer's body fail?
    ClockSteps,     \* may the clock be set back?
    MaxTime, MaxLives, Never

Forms == {"huge", "unreadable", "batch", "json"}

(* allNumbers and allStrings: what does not parse is passed over.          *)
Parsed(fields) == {f.means : f \in {g \in fields : g.parses}}

ASSUME TradeAssumption ==
    /\ IsFiniteSet(Requests)
    /\ NoTool \notin Tools
    /\ OrderTools \subseteq Tools /\ OrderyTools \subseteq Tools
    /\ Listings \subseteq SUBSET Tools
    /\ \A r \in Requests :
          /\ Body[r].form \in Forms
          /\ Body[r].tool \in Tools \cup {NoTool}
          /\ Parsed(Body[r].written.notional) \subseteq Int
          /\ IsFiniteSet(Parsed(Body[r].written.notional))
          /\ IsFiniteSet(Parsed(Body[r].written.symbol))
    /\ {MaxOrderUsd, MaxDailyUsd, Window, MaxTime, MaxLives} \subseteq Nat
    /\ Never \notin Nat

VARIABLES
    now,         \* Date.now()
    advertised,  \* the broker's tools
    life,        \* how often the process was started
    process,     \* "up", "crashed" or "exited"
    exchange,    \* where each request is
    reply,       \* what the agent was answered
    ledger,      \* the ledger's entries, by request
    admitted,    \* every order this process allowed
    when,        \* when each order was allowed
    sent,        \* what was handed to fetch: the broker may have it
    flagged      \* the reads the audit log calls annotated

vars == <<now, advertised, life, process, exchange, reply, ledger, admitted,
          when, sent, flagged>>
handling == <<exchange, reply, ledger, admitted, when, sent>>

Places == {"idle", "arriving", "fetch", "text", "stream", "answered", "hung", "lost"}
Replies == {"none", "too-large", "refused", "error", "unreachable", "relayed", "annotated"}

Init ==
    /\ now = 0
    /\ advertised \in Listings
    /\ life = 1
    /\ process = "up"
    /\ exchange = [r \in Requests |-> "idle"]
    /\ reply = [r \in Requests |-> "none"]
    /\ ledger = {}
    /\ admitted = {}
    /\ when = [r \in Requests |-> Never]
    /\ sent = {}
    /\ flagged = {}

-----------------------------------------------------------------------------
(* index.ts: the order, its caps and the ledger.                           *)

(* extractOrder: every value parsed under any alias of a dimension. *)
Order ==
    [r \in Requests |->
        [symbols    |-> Parsed(Body[r].written.symbol),
         notionals  |-> Parsed(Body[r].written.notional),
         quantities |-> Parsed(Body[r].written.quantity),
         usd        |-> Parsed(Body[r].written.currency) \subseteq {"USD"}]]

(* The largest of the amounts parsed. *)
Sized(r) == Order[r].notionals # {}
Size(r) == Max(Order[r].notionals)

(* Mutant: an amount beside a share count is taken for the order's size. *)
UnclearSizeOnly(o) ==
    \/ Cardinality(o.symbols) > 1 \/ Cardinality(o.notionals) > 1
    \/ Cardinality(o.quantities) > 1 \/ ~ o.usd

(* Aliases that disagree, a currency the cap is not in, or a share count   *)
(* beside a dollar amount.                                                 *)
Unclear(o) ==
    \/ Cardinality(o.symbols) > 1 \/ Cardinality(o.notionals) > 1
    \/ Cardinality(o.quantities) > 1 \/ ~ o.usd
    \/ o.notionals # {} /\ o.quantities # {}

SymbolAllowed(o) == AllowedSymbols = {} \/ o.symbols \subseteq AllowedSymbols

(* Mutant: an amount below nothing is within the cap. *)
AnySign(r) == Sized(r) /\ Size(r) <= MaxOrderUsd

(* The checks of the amount that come before the ledger is asked.  They    *)
(* leave record nothing to ignore.                                         *)
WithinOrderCap(r) == Sized(r) /\ 0 < Size(r) /\ Size(r) <= MaxOrderUsd

Dollars(orders) == UNION {{r} \X (1..Size(r)) : r \in orders}
Total(orders) == Cardinality(Dollars(orders))

(* Mutant: the order at the cutoff itself is dropped. *)
PrunedAtCutoff == {r \in ledger : when[r] > now - Window}

(* spentInWindow drops what is older than the cutoff, for good. *)
Pruned == {r \in ledger : when[r] >= now - Window}

(* Mutant: the order itself is left out of the comparison. *)
DayHasRoom(r) == Total(Pruned) < MaxDailyUsd

FitsDay(r) == Total(Pruned) + Size(r) <= MaxDailyUsd

(* guardOrder up to the ledger, and whether it asks the ledger at all. *)
Passes(r) == ~ Unclear(Order[r]) /\ SymbolAllowed(Order[r])
AsksLedger(r) == Passes(r) /\ WithinOrderCap(r)

Allows(r) ==
    \/ AsksLedger(r) /\ FitsDay(r)
    \/ Passes(r) /\ ~ Sized(r) /\ AllowUnknown

-----------------------------------------------------------------------------
(* proxy.ts: from a request's body to its answer or the call upstream.     *)

Answer(r, what) ==
    /\ exchange' = [exchange EXCEPT ![r] = "answered"]
    /\ reply' = [reply EXCEPT ![r] = what]

(* A hook threw: the catch logs, which may throw again before it answers.  *)
HandlerFails(r) ==
    /\ HookThrows
    /\ \/ Answer(r, "error")
       \/ exchange' = [exchange EXCEPT ![r] = "hung"] /\ UNCHANGED reply

Forward(r) ==
    /\ exchange' = [exchange EXCEPT ![r] = "fetch"]
    /\ sent' = sent \cup {r}
    /\ UNCHANGED reply

Refuse(r) ==
    /\ Answer(r, "refused") \/ HandlerFails(r)
    /\ UNCHANGED sent

(* Mutant: the order is forwarded before the decision is logged. *)
ForwardThenLog(r) == Forward(r) \/ (sent' = sent \cup {r} /\ HandlerFails(r))

(* The decision is logged, then the order is forwarded. *)
LogThenForward(r) == Forward(r) \/ (UNCHANGED sent /\ HandlerFails(r))

AtEnd(r) == process = "up" /\ exchange[r] = "arriving" /\ Body[r].form # "huge"

IsOrder(r) == Body[r].form = "json" /\ Body[r].tool \in OrderTools

(* The agent posts a request. *)
Send(r) ==
    /\ process = "up"
    /\ exchange[r] = "idle"
    /\ exchange' = [exchange EXCEPT ![r] = "arriving"]
    /\ UNCHANGED <<now, advertised, life, process, reply, ledger, admitted, when, sent, flagged>>

(* The body outgrows the limit: answered at once and not read further. *)
TooLarge(r) ==
    /\ process = "up"
    /\ exchange[r] = "arriving"
    /\ Body[r].form = "huge"
    /\ Answer(r, "too-large")
    /\ UNCHANGED <<now, advertised, life, process, ledger, admitted, when, sent, flagged>>

(* Not JSON, a batch, or an order tool's call without a symbol. *)
RefuseUnread(r) ==
    /\ AtEnd(r)
    /\ Body[r].form # "json" \/ (IsOrder(r) /\ Order[r].symbols = {})
    /\ Refuse(r)
    /\ UNCHANGED <<now, advertised, life, process, ledger, admitted, when, flagged>>

(* Whatever is not an order goes on as it came. *)
PassThrough(r) ==
    /\ AtEnd(r)
    /\ Body[r].form = "json"
    /\ ~ IsOrder(r)
    /\ Forward(r)
    /\ UNCHANGED <<now, advertised, life, process, ledger, admitted, when, flagged>>

RefuseOrder(r) ==
    /\ AtEnd(r)
    /\ IsOrder(r) /\ Order[r].symbols # {}
    /\ ~ Allows(r)
    /\ ledger' = IF AsksLedger(r) THEN Pruned ELSE ledger
    /\ Refuse(r)
    /\ UNCHANGED <<now, advertised, life, process, admitted, when, flagged>>

AllowOrder(r) ==
    /\ AtEnd(r)
    /\ IsOrder(r) /\ Order[r].symbols # {}
    /\ Allows(r)
    /\ ledger' = IF AsksLedger(r) THEN Pruned \cup {r} ELSE ledger
    /\ admitted' = admitted \cup {r}
    /\ when' = [when EXCEPT ![r] = now]
    /\ LogThenForward(r)
    /\ UNCHANGED <<now, advertised, life, process, flagged>>

Handle(r) == RefuseUnread(r) \/ PassThrough(r) \/ RefuseOrder(r) \/ AllowOrder(r)

-----------------------------------------------------------------------------
(* proxy.ts: the answer from upstream, and run.ts: onToolList.             *)

(* The process ends; what it had in hand is cut off. *)
Ends(how) ==
    /\ process' = how
    /\ exchange' = [r \in Requests |->
                       IF exchange[r] \in {"arriving", "fetch", "text", "stream", "hung"}
                       THEN "lost" ELSE exchange[r]]
    /\ UNCHANGED <<now, advertised, life, reply, ledger, admitted, when, sent, flagged>>

(* The listing names no tool this guard would intercept. *)
MatchesNone == advertised # {} /\ advertised \cap OrderTools = {} /\ ~ AllowUnmatched

(* Mutant: a call that fails is not answered. *)
DropUnreachable(r) ==
    /\ exchange' = [exchange EXCEPT ![r] = "hung"]
    /\ UNCHANGED reply

AnswerUnreachable(r) == Answer(r, "unreachable")

(* fetch rejects. *)
FetchFails(r) ==
    /\ process = "up"
    /\ exchange[r] = "fetch"
    /\ AnswerUnreachable(r)
    /\ UNCHANGED <<now, advertised, life, process, ledger, admitted, when, sent, flagged>>

(* fetch resolves: to a stream, which is relayed as it comes, or not. *)
FetchAnswers(r) ==
    /\ process = "up"
    /\ exchange[r] = "fetch"
    /\ \E kind \in {"text", "stream"} : exchange' = [exchange EXCEPT ![r] = kind]
    /\ UNCHANGED <<now, advertised, life, process, reply, ledger, admitted, when, sent, flagged>>

(* The whole text of an answer nothing is remarkable about; also one whose *)
(* hook threw, which is relayed as it came.                                *)
TextRelayed(r) ==
    /\ process = "up"
    /\ exchange[r] = "text"
    /\ Answer(r, "relayed")
    /\ UNCHANGED <<now, advertised, life, process, ledger, admitted, when, sent, flagged>>

(* A tool's result that matches an injection rule. *)
TextAnnotated(r) ==
    /\ process = "up"
    /\ exchange[r] = "text"
    /\ Body[r].tool # NoTool
    /\ Answer(r, "annotated")
    /\ flagged' = flagged \cup {r}
    /\ UNCHANGED <<now, advertised, life, process, ledger, admitted, when, sent>>

(* The broker's tool listing. *)
TextListing(r) ==
    /\ process = "up"
    /\ exchange[r] = "text"
    /\ Body[r].tool = NoTool
    /\ advertised # {}
    /\ \/ /\ MatchesNone /\ Ends("exited")
       \/ /\ ~ MatchesNone
          /\ Answer(r, "relayed")
          /\ UNCHANGED <<now, advertised, life, process, ledger, admitted, when, sent, flagged>>

(* A matching result in a stream: already relayed when it is inspected. *)
StreamFlagged(r) ==
    /\ process = "up"
    /\ exchange[r] = "stream"
    /\ Body[r].tool # NoTool
    /\ r \notin flagged
    /\ flagged' = flagged \cup {r}
    /\ UNCHANGED <<now, advertised, life, process, handling>>

(* A listing in a stream, which matters only when it ends the process. *)
StreamListing(r) ==
    /\ process = "up"
    /\ exchange[r] = "stream"
    /\ Body[r].tool = NoTool
    /\ MatchesNone
    /\ Ends("exited")

StreamEnds(r) ==
    /\ process = "up"
    /\ exchange[r] = "stream"
    /\ Answer(r, "relayed")
    /\ UNCHANGED <<now, advertised, life, process, ledger, admitted, when, sent, flagged>>

(* upstream.text() or reader.read() rejects.  forwardRaw is not awaited,   *)
(* so nothing catches it.                                                  *)
BodyReadFails(r) ==
    /\ BodyFails
    /\ process = "up"
    /\ exchange[r] \in {"text", "stream"}
    /\ Ends("crashed")

(* The operator starts the proxy again. *)
Restart ==
    /\ process # "up"
    /\ life < MaxLives
    /\ life' = life + 1
    /\ process' = "up"
    /\ ledger' = {}
    /\ admitted' = {}
    /\ UNCHANGED <<now, advertised, exchange, reply, when, sent, flagged>>

Tick ==
    /\ now < MaxTime
    /\ now' = now + 1
    /\ UNCHANGED <<advertised, life, process, handling, flagged>>

(* The clock is the machine's, and may be corrected. *)
StepBack ==
    /\ ClockSteps
    /\ now > 0
    /\ now' = now - 1
    /\ UNCHANGED <<advertised, life, process, handling, flagged>>

(* The broker's side of an exchange comes to its end. *)
Finish(r) ==
    FetchFails(r) \/ FetchAnswers(r) \/ TextRelayed(r) \/ TextAnnotated(r)
    \/ TextListing(r) \/ StreamEnds(r)

Next ==
    \/ \E r \in Requests :
          \/ Send(r) \/ TooLarge(r) \/ Handle(r) \/ Finish(r)
          \/ StreamFlagged(r) \/ StreamListing(r) \/ BodyReadFails(r)
    \/ Restart \/ Tick \/ StepBack

Spec == Init /\ [][Next]_vars

(* Handlers run, and the broker comes to an end with every call. *)
FairSpec ==
    /\ Spec
    /\ \A r \in Requests : WF_vars(TooLarge(r) \/ Handle(r)) /\ WF_vars(Finish(r))

-----------------------------------------------------------------------------
(* Properties. *)

TypeOK ==
    /\ now \in 0..MaxTime
    /\ advertised \in Listings
    /\ life \in Nat
    /\ process \in {"up", "crashed", "exited"}
    /\ exchange \in [Requests -> Places]
    /\ reply \in [Requests -> Replies]
    /\ ledger \subseteq {r \in Requests : Sized(r) /\ Size(r) \in 1..MaxOrderUsd}
    /\ admitted \subseteq Requests
    /\ when \in [Requests -> 0..MaxTime \cup {Never}]
    /\ sent \subseteq Requests
    /\ flagged \subseteq Requests

SizedOrders == {r \in admitted : Sized(r)}

(* The orders a process allowed add up to no more than maxDailyUsd in any  *)
(* window, ends included, and not only in the one that ended when an order *)
(* was checked (README.md 66: "No more than this in a rolling 24h").       *)
WindowCap ==
    \A t \in 0..now : Total({r \in SizedOrders : when[r] \in (t - Window)..t}) <= MaxDailyUsd

(* The ledger that forgets old orders decides as one that forgets none     *)
(* would (index.ts 283-314).                                               *)
Promise == INSTANCE RollingCap WITH
    Ids <- Requests,
    Cap <- MaxDailyUsd,
    clock <- now,
    placed <- {[id |-> r, at |-> when[r], usd |-> Size(r)] : r \in SizedOrders}

KeepsCap == Promise!CapSpec

ParsedFields(r, d) == {f \in Body[r].written[d] : f.parses}

(* Of the fields of a forwarded order that the guard parses, in whatever   *)
(* envelope, a broker may go by any: they name one symbol, which is        *)
(* allowed, and each amount is within the cap of one order, or there is    *)
(* none and the share count is one the operator agreed to (proxy.ts        *)
(* 106-108).  Of the fields it does not parse this says nothing: those go  *)
(* to the broker whatever they are, beside one that parses, though         *)
(* proxy.ts 130 says that the cap bounds any alias.                        *)
ParsedFieldsCapped ==
    \A r \in sent : Body[r].tool \in OrderTools =>
        /\ Body[r].form = "json"
        /\ \E s \in Order[r].symbols : /\ Order[r].symbols = {s}
                                       /\ AllowedSymbols = {} \/ s \in AllowedSymbols
        /\ \A f \in ParsedFields(r, "notional") : 0 < f.means /\ f.means <= MaxOrderUsd
        /\ ParsedFields(r, "quantity") # {} =>
              ParsedFields(r, "notional") = {} /\ AllowUnknown

(* A request whose sender is told it was refused, too large or not         *)
(* forwarded never reached the broker, whatever threw on the way           *)
(* (proxy.ts 199, 433).                                                    *)
OneFate ==
    \A r \in Requests : reply[r] \in {"too-large", "refused", "error"} => r \notin sent

(* Every request a running proxy receives is answered, or cut off by the   *)
(* end of the process, as long as the hooks do not throw and the broker    *)
(* comes to an end with its calls.                                         *)
NothingHangs ==
    \A r \in Requests : exchange[r] = "arriving" ~> exchange[r] \in {"answered", "lost"}

(* proxy.ts 383: "The guard must outlive a bad request: a dead proxy means *)
(* no caps at all."                                                        *)
ProxySurvives == process # "crashed"
=============================================================================
