# Agent Wormhole: specifications, model checks and proofs

This directory holds TLA+ specifications of Agent Wormhole, the TLC
configurations that check them on small instances, and proofs that TLAPS checks
for every value of the constants.  Paths below are relative to the repository;
line numbers are those of the modelled commit.

## 1. The system

Agent Wormhole guards software agents.  It has four programs and a loop around
them:

* **x402-guard** (TypeScript).  Checks payments before an agent's wallet signs
  them, locally (`guardEvmSigner`, `guardSigner`, `verify`) or through a hosted
  verifier whose answers are signed receipts; meters billable checks; keeps an
  event file.
* **mcp-guard** (TypeScript).  A proxy in front of a broker's MCP server that
  holds orders to a cap per order and to one on any rolling day, and marks text
  in answers that reads like instructions.
* **wormhole** (Python).  A command line and editor hooks that scan an agent's
  instruction files, compare them with an approved baseline, quarantine and
  restore content, and read-protect files.
* **watchtower** (Python).  Pulls transactions from chains in batches with a
  persistent cursor, extracts text carriers and runs the scanner's rules.
* **loop**, `e2e`, `research`, `examples`.  Offline measurement and demonstration
  scripts over the above.

### Inventory

For each part: its state, its operations, whom it talks to, what is hard about
it and what makes it correct.

**Spend policy and signing guards** (`x402-guard/src/policy.ts`, `evm.ts`,
`index.ts`, `tx.ts`).  State: one tracker per guard (a total per asset), the
release closures of calls in flight, the options object the host owns (policy,
session nonces).  Operations: a signing call of five shapes, the tracker's
`reserve` and release, the host editing its options.  It calls the host's
`getQuote` and `intentFor`, the signer's `getChainId`, and the wallet.  Hard:
JavaScript interleaves calls at every `await`; the options may change there; a
batch may fail half-way; a wallet may throw, late or early; the release must undo
exactly what was held.  Correct: what is signed stays within the lifetime total;
one policy per call; the total equals what is held; a nonce is used once.

**Payment checks** (`inspectPayment`, `inspectAuthorization`,
`inspectTypedDataRequest`, `checkTransaction`, `checkPermit`, `inspectDelivery`,
`inspectSignIn`, `quotetext.ts`).  No state: each maps a request and its quote to
findings.  Hard: numeric edges (amounts, time windows, u64 and uint256),
canonical decoding.  Correct: a verdict of allow implies conformance.

**Hosted verification** (`client.ts`, `server.ts`, `receipt.ts`, `verify.ts`,
`provenance.ts`).  State: the requests in flight on either side, the
receipts issued, what the meter was told.  Operations: guarded pay, the server's
handler, signing and checking a receipt.  Client and server exchange requests and signed receipts over a
transport that may fail, answer late or answer something else.  Hard: every
error path has to end in abstain, never in allow.  Correct: allow in required
mode implies that the verifier signed allow for this very request; a request is
metered only with its receipt.

**Metering and correlation** (`metering.ts`).  State: a bounded ring of records
per tenant, clusters.  Operations: record, price, invoice, correlate.  Hard:
volume boundaries, rounding, the ring dropping records, windows over unordered
timestamps.  Correct: an invoice equals the sum of its records' prices.

**Event sink** (`sink.ts`).  State: the open file descriptor, its path, the byte
count since the last rotation check, counters, and the files on disk.
Operations: configure, reset, record a verdict, rotate.  Other processes write
and rotate the same file.  Hard: a descriptor that outlives its file, rotation
racing another process, failures that must not reach the caller.  Correct: an
event counted as written is in one of the kept files.

**MCP tool server** (`mcp.ts`, `mcp-run.ts`).  State: session nonces, a budget of
billed scans, per process.  Operations: JSON-RPC messages over stdio, each
handled concurrently.  Correct: the budget is never exceeded; a hosted answer
only clears with a verified receipt.

**Trade guard** (`mcp-guard/src/index.ts`, `proxy.ts`, `run.ts`).  State: the
spend ledger (entries with time and amount), the tool names seen upstream, the
HTTP exchanges in flight.  Operations: receive a request body, check an order,
refuse or forward it, relay the answer, report the tool list.  It stands between
an agent's MCP client and the broker's server.  Hard: concurrent orders, a body
over the size limit, an upstream that fails half-way, hooks that throw, the
clock, restarts.  Correct: orders allowed in any window stay within the daily
cap; a refused order never reaches the broker; the proxy outlives a failing
request.

**Baseline and drift** (`wormhole/baseline.py`, `init.py`, `cli.py`).  State: the
approved digests, on disk, replaced atomically.  Operations: record, save,
verify.  Hard: two commands at once, a crash between steps, corruption.  Correct:
a changed file is reported until a person approves that content.

**Quarantine** (`wormhole/capture.py`).  State: the file, the payload store, the
index.  Operations: swallow, restore, export.  Hard: three writes that are not one, two
captures in one second, two processes, content that is not text.  Correct: every
captured item can be restored.

**Hooks** (`guard.py`, `readguard.py`, `outbound.py`, `hookcmd.py`, `safe.py`,
`addresses.py`, `provenance.py`, `harden.py`).  One process per event, reading
JSON and answering allow, deny or a rewritten text; a ledger of addresses that
several processes append to and trim.  Correct: a write the rules match is not
allowed; a crash of the hook fails closed.

**Scanners and rules** (`wormhole/rules`, `wormhole/scanners`, `scoring.py`,
`insights.py`, `mcp_server.py`).  Pure functions of file contents.

**Watchtower ingestion** (`watchtower/ingest/*`, `run_ingest.py`).  State: the
cursor in memory and on disk, the batch being scanned, the endpoint's rate
limits.  Operations: poll (Base forwards by block, Solana backwards by
signature, replay by offset), save, scan, crash and resume.  The chain grows and
the endpoint throttles meanwhile.  Hard: a batch that fills in the middle of a
block or page, a crash between save and scan, an error after part of a batch.
Correct: nothing is counted twice; what is counted was looked at; the cursor says
what was fully ingested.

**Watchtower detection** (`cascade.py`, `detect.py`, `behavioral.py`,
`canary.py`).  Pure functions over batches.

## 2. Modules

| Module | What it is |
|---|---|
| `SpendGuard` | the signing guards and their tracker, one action per step between awaits |
| `SpendBudget` | what the guard promises about totals: an abstract specification, refined by `SpendGuard` |
| `SpendGuardProofs` | the inductive invariants of `SpendGuard` and seven theorems |
| `MCSpendGuard` | its small instance: payments of every kind, four policies |
| `BlockIngest` | Base ingestion: poll, stream, cursor file, driver, crashes and failing calls |
| `SampleLog` | what ingestion promises about the published rates: an abstract specification, refined by `BlockIngest` |
| `BlockIngestProofs` | its inductive invariant and five theorems |
| `MCBlockIngest` | a chain of four blocks |
| `TradeGuard` | the order guard, its ledger, the proxy's requests and answers, the runner |
| `RollingCap` | what the trade guard promises about its daily cap, with nothing forgotten; refined by `TradeGuard` |
| `TradeGuardProofs` | the inductive invariants of `TradeGuard` and five theorems |
| `MCTradeGuard` | requests of every shape the proxy tells apart, one with an amount it cannot parse |
| `SolanaPayment` | `inspectPayment` as a walk over the instructions of a transaction |
| `SolanaPaymentProofs` | its inductive invariant and four theorems |
| `MCSolanaPayment` | thirty-one instructions and twelve questions |
| `Verifier` | `verify()` as a function of a request and the hour, and what the digest covers |
| `GuardedPay` | the agent's `guardedPay`, the wire, the hosted handler and an in-process verifier; extends `Verifier` |
| `GuardedPayProofs` | its inductive invariant and four theorems |
| `MCGuardedPay` | requests on two rails and three ways to ask, three of them of one digest; every cap against every fee |
| `TxRules` | the arguments of a call and the constraints an intent puts on them, one level of nesting at a time |
| `TxNested` | the recursions over that nesting, which a configuration gives to `TxRules`; extends it |
| `TxCheck` | reading a transaction, a Permit2 request and an intent, and holding the one to the other; extends `TxRules` |
| `Presets` | the intents `presets` writes; extends `TxCheck` |
| `EvmPayment` | the checks of an EVM payment before and after it is signed; extends `TxCheck` |
| `SignIn` | messages and logins a wallet is about to sign |
| `WalletGuard` | one call on a guarded signer from its arguments to the wallet; extends `Presets`, `EvmPayment`, `SignIn` |
| `WalletGuardProofs` | its inductive invariant and seven theorems |
| `MCWalletGuard` | some fifty transactions and as many intents, forty signing requests, messages and logins |
| `EventSink` | processes that append to and rotate one spool, one system call a step |
| `EventSinkProofs` | its inductive invariant and four theorems |
| `MCEventSink` | one process that keeps none, two or three segments, and two with two |
| `ToolServer` | a session of the MCP tool server: concurrent handlers over one budget |
| `ToolServerProofs` | its three inductive invariants and three theorems |
| `MCToolServer` | twelve lines, five settings, nine answers |

`PROJECT.json` maps every definition to the lines it models.

### SpendGuard

JavaScript runs one call at a time between awaits, so an action is what runs
from one await to the next, and a loop that must not be interrupted is several
actions under a lock (`running`).  `policy` and `seen` are the options object of
the host, `spent` is the tracker's `Map`, `held` are the release closures not
yet run.  A call goes through `pc`: it reads its request and policy once
(`Begin`), awaits the recovery, the intent or the chain, checks, holds
its movements one by one, undoes the holds if one does not fit, asks the wallet,
and releases on a throw.  `Release` keeps the code's clamp at zero and `Reserve`
its comparison.  An amount of n base units is n units, so that totals are
cardinalities, which both provers and TLC handle.

### BlockIngest

`poll` is cut at every RPC call and at the end of every block; a call answers,
fails for good, or answers after push-backs (`limited`).  `disk` is the cursor
file, `cur` the cursor in memory, `batch` the batch under construction, `out`
what the driver has scanned and not yet reported.  `Crash` may come at any
point and loses everything but `disk` and `reported`.  `origin` is a history
variable: the block at which the cursor began.  Seen as a `SampleLog`, a saved
batch is a range of blocks counted at once, what was saved and not reported is due,
a report tells it and a crash loses it.

### TradeGuard

A handler runs from the end of the request's body to the call upstream in one
go (`Handle`), hooks included; `Finish` and its siblings are what comes back.
`ledger` is the pruned ledger of the code; `admitted` and `when` are history:
every order the process allowed and when.  `sent` is what the broker may have.
A field of an order is what it means to whoever can read it and whether the guard
parses it: `allNumbers` and `allStrings` drop the fields they cannot parse, and the
order goes on with all of them.  `Order` is what the guard makes of the rest.
`process` is up, crashed (an error nobody catches) or exited (the runner found
that the listing matches no order tool).

### SolanaPayment

One action is one turn of the walk over an instruction out of `Instructions`;
the accumulators are the code's, `tx` is what was walked.  `Conclude` and
`CannotCompare` are the code after the loop, in its order: the test for a
payment that is absent stands where the code has it, before warnings are added.
Addresses are compared, never decoded; `TokenAccounts` stands for the derivation
of a wallet's two token accounts.

### Verifier and GuardedPay

A request is a record of what moves the verdict.  `Decision` and `Findings` are
`verify()` at an hour, `Digest` what the receipt's digest covers.  The agent may
change its objects while the question is out (`Edit`): a hosted verifier works
on the bytes that were sent, one in the agent's process works on those objects.
`Delivered` is an answer made of any receipt the hosted verifier ever signed,
with or without its signature, under any decision and any list of codes, at any
time.  The digest is coarser than the request: `Digest` leaves out what the code
leaves out, and what it hashes as absent.  Loss is `NoVerdict`, reordering, replay and swapped answers are choices of
`Delivered`.  `Forged` carries a signature that does not fit.  The one thing
the wire cannot do is sign.

### TxRules, TxNested, TxCheck, Presets, EvmPayment, SignIn and WalletGuard

The first six have no state: they are the checks, as operators that return
the codes a check finds.  Calldata is known by what a decoder makes of it (an
encoding, canonical or not, of values; another call; a router's commands), so
`normalize`, `readRule`, `match` and `exact` are recursions over types and
values.  Each is a parameter of `TxRules` (`HasType`, `Reads`, `Match`, `Exact`), and
its `Step` there says what the code does at one level, given what answers for the
levels below; `TxNested` declares each recursion as its own `Step`
(`NestedType`, `NestedReads`, `NestedMatch`, `NestedExact`), and `MCWalletGuard.cfg`
gives those to the parameters.  `Means` says what a rule says of a value, read as a
sentence, and `RouterGrants` what a router does with a plan and the plans within it:
neither is code of the guard, both are what the properties hold it to.  `PROJECT.json` maps a `Step` under the name of its
recursion.  The checks are then free of recursion and can be proved about.  One
function stands for each sort the code tells apart (`Signature`).

`WalletGuard` runs one call through them.  `args` is the caller's own object:
`read` is what the code took of it and when, and `handed` what it gives the
wallet.  `Edit` is everything that may happen while the call awaits: the host
changes the object or its policy, a second passes, the wallet's node changes
chain.  A viem client asserts the chain it is handed, an ethers signer refuses a
chain id that is not its own, a local account signs what it gets; that is what
`Handed` relies on; a wallet that cannot be asked for its chain answers `None`.  A
transaction or a permit is handed on as the copy that was checked (`handed`); a
payment that is already signed is handed on as the caller's own object, edited or not.
A message may go to a signer that checks all it is given (`Message`) or to a wrapped
function of which the first argument alone is checked and the rest passed on
(`AllowedMessage`).  The totals are those of `SpendGuard`: `Hold` succeeds or ends
the call.

### EventSink

One action is one system call of `writeThrough` or `rotateIfNeeded`, and it may
fail, or the process may be killed before the next one.  Files are inodes, so that a
descriptor can outlive the name it was opened under, and a file is its lines and
its size.  `landed` is history: every line written anywhere, in order.  `Meddle` deletes the live file or puts a pipe in
its place.  A write goes in whole or not at all.

### ToolServer

`Arrive` is `handleMessage` up to its first await; the actions under `Awaited` are
what follows each kind of await.  `billedScans` is the session's budget,
`posted` the history of what was spent.  `sessionNonces` are the payers and nonces
of the payments this process allowed itself.  `Body` is whatever was answered under the
verifier's address; `Genuine` says the one thing it cannot be, a valid
signature over something the verifier did not decide.

## 3. What is checked

All runs are complete explorations of their instance.

| Run | What it shows |
|---|---|
| `spend_guard` | two concurrent calls of every kind, policies edited during awaits: `SpentIsHeld`, `LifetimeTotal`, `OnePolicyPerSigning`, `NonceSignedOnce`, the refinement of `SpendBudget` (`KeepsBudget`), and that an authorization call ends (`AuthSettles`) |
| `spend_guard_late_throw` | finding: a wallet that signs and then throws gets its amount released |
| `block_ingest` | crashes, failing and throttled calls, batches that fill inside a block: `CountedOnce`, `ReportedOnce`, `OnlyFullBatchPassesOver`, the refinement of `SampleLog` (`KeepsLog`), and `CatchesUp` |
| `trade_guard` | orders at three instants, hooks that throw: `WindowCap`, `ParsedFieldsCapped` (every field the guard parses is within the order's size), `OneFate`, the refinement of `RollingCap` (`KeepsCap`) |
| `trade_guard_live` | `NothingHangs`: every request is answered or cut off, with failing bodies, a fatal listing, a restart and a clock set back |
| `trade_guard_survive` | finding: an answer that breaks off ends the process |
| `solana_payment` | all transactions of up to three instructions: `PaysTheQuote`, `NothingElse`, `FeeAsPromised` |
| `guarded_pay` | two calls over a wire that loses, replays and swaps: `ClearedWasJudged` (of the digest of the request the agent holds), `BilledOnEvidence`, `HandlerSettles`; and in one of the calls every cap, none and zero to one past the ceiling, against every fee: `CapHolds` |
| `wallet_guard` | every sort of call, with an object, a policy, a clock and a wallet that change under it: what is signed under an intent is what it names, on its chain (`SignsWhatWasNamed`); grants are settled by the intent and unlimited ones named (`StandingNamed`); a router call of `presets` runs one swap and leaves nothing in the router (`NothingLeftInRouter`); a payment read as it was signed or passed on pays the quote (`PaymentAsQuoted`); `LoginForThisSite` |
| `event_sink` | one process, none, two or three kept segments, seven lines, kills anywhere and two failing calls: `WithinCeiling`, `RecentKept`, `Accounted`, `LandsLive` |
| `event_sink_shared` | finding: two processes; one rotates and the other fills the rotated segment past the ceiling |
| `tool_server` | any three of twelve lines, answers lost, replayed, respelled or by somebody else: `BilledOnce`, `AllowIsProven`, `NonceTakenByAllow`, `Answered` |

Every property of a passing run has a mutant: a plausible bug in one mapped
definition that TLC then finds through that property.

### Bounds, and why they are enough

* `spend_guard`: two calls, two assets, one nonce, movements of one or two
  units, policies whose totals a single request or a pair of them fills.  Every
  property relates at most two calls or one call and the tracker; the proofs
  carry the totals to any number of calls.
* `block_ingest`: four blocks of at most two transactions, a limit of two carriers, two
  blocks a batch, one code check, two batches a run.  Each bound is reached:
  batches fill, budgets run out, blocks are empty, runs end early and resume.
* `trade_guard`: window of one time unit and three instants, so that an order can be
  inside, at the edge of and outside a window; a cap of two that two orders of
  one and two dollars overrun; one amount that parses beside one that does not.
* `solana_payment`: a violation needs the payment, the instruction that spoils
  it and one that hides it.  The proofs hold for any length.
* `guarded_pay`: a swap or a replay needs two calls; a receipt that expires
  needs two hours.  Three requests share a digest.  A cap and a fee concern one call,
  so they vary in the first only (`MCInit`), from zero to one past the ceiling, with a
  default of two below a ceiling of three: a cap tightens, loosens, is the ceiling's, is
  zero or is ignored, and fees lie on either side of each and at it.
* `wallet_guard`: one change under a call, by the host, the clock or the wallet;
  two chains; amounts up to three, which is a type's maximum; instants 1 and 2
  against a window of a day (three) and slack of one.  Each check compares a value with a
  bound, so one value on either side of each, and the maximum, are the cases.
  Nothing is shared between two calls here but the nonces, which start either
  empty or used; two calls at once are `SpendGuard`'s.
* `event_sink`: a ceiling of eight bytes and lines of one and four give a check
  interval of two, so that writes fall between checks; seven lines rotate two
  kept segments out; keeping none truncates; a third segment is what it takes for
  a rename to have a gap to leave.  Two failures suffice for a write to fail twice.  The shared run has two processes and one-byte lines.
* `tool_server`: three handlers at once against a budget of two; two spellings of
  one address and two other addresses; every setting of key, hop, public key and opt-out
  that the code tells apart.

The runs of `SolanaPayment`, `TradeGuard`, `GuardedPay`, `WalletGuard`,
`EventSink` and `ToolServer` say `CHECK_DEADLOCK FALSE`: a verdict ends a walk, a run
ends when every request or call has been answered, and a process whose path has
become a pipe waits in `open` for good.

### Fairness

* `SpendGuard`: the runtime goes on with a synchronous turn once begun, and a
  recovery that was started settles.  Nothing is assumed of wallets, intents or signers.
* `BlockIngest`: the operator runs the driver again and its process is
  scheduled (`WF` of `Progress`).  Failures are not fair; `CatchesUp` is about
  behaviours in which they stop.
* `TradeGuard`: a handler runs, and the broker's side of every exchange comes
  to an end (an answer or an error), which `fetch` and TCP give in time.  Hooks
  do not throw in this run (see Hazards in `PROJECT.json`).
* `ToolServer`: whatever a handler awaits (an import, a verification, a request,
  which undici ends with an answer or a timeout) ends.  A second handler never
  keeps the first one waiting.
* `GuardedPay`: the verifier's process runs, and its resolver, its recovery and
  its signing come to an end (with a result or by throwing).  Nothing is assumed
  of the wire.

## 4. What is proved

All for every value of the constants that satisfies the named assumptions of
the module.

* `SpendGuardProofs`, from `SpendAssumption` and `InputAssumption`.
  `TypeCorrect`, `SpentIsWhatIsHeld`, `LifetimeTotalKept`, `AnsweredTotalKept`, `OnePolicy`,
  `OneSignaturePerNonce` and the refinement `BudgetImplemented`.
  The total alone is not inductive: that a reserve stays within the limit says
  nothing about a release.  The invariant adds `HeldShape` (which closures may
  be live at each place of a call), `SpentIsHeld` (the tracker's total is the
  size of the set of units under live holds) and `TotalsRespected` (what was
  ever signed or held fits a total that one of the calls had read).
  `LifetimeTotalKept` has the hypothesis that no wallet signs and then throws:
  `spend_guard_late_throw` shows that it is needed.  `AnsweredTotalKept` says what
  holds without it: any of the calls that were handed their signature are together
  within the total one of them had read.  A nonce is looked up and
  added in one step, after an await and before another: `NonceShape` says that
  a call past that step has its nonce in the set and is the only one there, which
  a second call's lookup then finds.  For the refinement, `LoopShape` says that
  whoever is inside a loop is the one that runs, and that what it holds so far
  fits; with `SpentIsHeld` a claim that reaches the wallet then fits with all the
  claims taken, and every other step maps to giving one back, keeping it or to a stutter.
* `TradeGuardProofs`, from `TradeAssumption`.
  `TypeCorrect`, `OneFateKept`, `ParsedFieldsCappedKept`, and while the clock is not set back
  `WindowCapKept` and `CapImplemented`.  The cap is checked against a ledger
  that forgets, so the invariant says what it may have forgotten
  (`LedgerRemembers`: every order the process allowed in the trailing window is
  still in it); then a window that ends earlier than now is one the invariant already covered.
  `ParsedFieldsCapped` is inductive; its lemma `OneAmount` says that an order that
  is not refused as unclear has one amount among the fields that parse, under however
  many names.  That it stops at those fields is the code's doing (section 6).
* `BlockIngestProofs`, from `IngestAssumption`.  `CountedOnceKept`,
  `ReportedOnceKept`, `ReportWithinCursorKept`, `OnlyFullBatchPassesOverKept` and the
  refinement `LogImplemented`, for any chain, limits and crashes.  Three copies of the cursor have to agree:
  `CursorShape` says at each place of a run how far the one in memory is ahead of
  the file and that the difference is what the batch counted; `BatchShape` that the
  batch holds transactions of exactly those blocks, each once; `CarrierShape`
  that a carrier the batch has gone past is in it or lies behind the one that
  filled it, which needs the code cache to be sound (`CacheSound`: a contract
  stays one); `ReportShape` that what waits to be scanned was never told.
  Counting goes through the lemma that disjoint ranges of blocks add up.  For the
  refinement, `SaveLog` says that a save moves the log's reach over just the
  batch's blocks, or, with none, is a stutter; a report adds one to each carrier
  that is due because `ReportShape` has it there at most once.
* `EventSinkProofs`, from `SinkAssumption`.  `AccountedKept`, `WithinCeilingKept`,
  `RecentLinesKept` and the action property `LandsLiveKept`, for any number of
  processes, segments, failures and crashes.  `Ledger` follows each line from the
  call that hands it in to the file or the dropped counter, and says that no two
  processes were handed the same one.  `NameShape` says that a file has one name:
  without it a rename could put one line into two segments.  `OneOn` is what
  `together` remembers.  `Local` has one part for each thing a step relies on: the
  descriptor of each place (`CallShape`), the line a call ends with
  (`LastLine`), that the descriptor is the live file or the live file is gone
  (`LiveHeld`, for `LandsLive`), what was added since the last check
  (`SinceCheck`, for the ceiling), and that a rotation began with a full
  file and moves each segment onto a free name (`Rotation`, for `RecentKept`).
* `SolanaPaymentProofs`, from `PaymentAssumption`.  `TypeCorrect`,
  `AllowPaysTheQuote`, `AllowMovesNothingElse`, `AllowFeeAsPromised`, for
  transactions of any length.  A verdict is read off accumulators, so the
  invariant `Walked` says what they know of the instructions behind them while
  no finding forbids an allow: the kinds that passed, the one payment, the
  creates counted, and the limits and prices seen.
* `GuardedPayProofs`, from `VerifierAssumption` and `GuardedAssumption`.
  `TypeCorrect`, `ClearedIsJudged`, `BilledIsAttested`, `CapIsKept`, for any
  number of calls and receipts.  `Settles` says what no step changes: a request
  once sent, an answer once given, a reply once made, every receipt.  The invariant
  then says that a receipt speaks of the request it was made for (`ReceiptsSay`),
  that a verified answer is one of them with the digest of what the agent holds (`Cleared`), and
  that a bill has one and its evidence (`Billed`).  `ReceiptsSay` leaves out
  receipts made in the agent's process on the EVM rail, which may fit no reading
  (section 6).
* `ToolServerProofs`, from `ToolAssumption`.  `ScansBilledOnce`, `AllowsProven`, `NoncesTakenByAllows`,
  for any session, budget and answers.  `Ledger` says that the counter is the
  number of scans posted and the set their addresses, which makes the test before
  a scan one about what was posted.  `AnswersInv` says that every answer written
  is one its line may get (`Sound`) and what each waiting handler waits for
  (`Waiting`); the lemmas `NowSound` and `GateSound` are about the operators alone.  `NonceInv`
  says that with no key set the nonces taken are those of the payments allowed;
  `VerdictKeeps` is its one step that matters, `ElseKeeps` all the others.

* `WalletGuardProofs`, from `GuardAssumption`, `InputAssumption`, `PaymentAssumption`,
  `DepthAssumption`, `NoneAssumption` and `AmountAssumption`.  `SignsWhatWasNamedKept`,
  `StandingNamedKept`, `NothingLeftInRouterKept`, `PaymentAsQuotedKept`,
  `LoginForThisSiteKept`, for any calls, intents, policies and edits.  The invariant says
  what the call knows at each place it can be at: that the transaction is the one
  read, allowed under the intent and handed on with its chain pinned
  (`TransactionPart`, from which `SignedForChain` follows for each kind of wallet), that an
  allowance is (`PermitPart`), that a payment as it was read pays the quote (`AsQuoted`: after the
  last await of its lane the clock and the policy no longer matter), so that what the
  wallet gets pays it too if the caller's object is still the one of the call, and that a
  text shows no other site (`MessagePart`).

  The first three have the hypothesis `Nesting`, that seven of the parameters are their
  own `Step` at every depth, which is what `TxNested` makes of them.  What nests is then
  shown level by level, from the deepest one the code goes down to (`MAX_DEPTH`) up to the
  first: `FromTheDeepest` is that induction, made of a least counterexample among the
  numbers (`LeastNatural`).  `LevelMeant` is its step for the fact that a rule that can be
  read, matched against a value of its type, says of it what it reads as
  (`MatchIsMeant`); `LevelKept` for the converse, and `MatchIsExact` is both;
  `LevelBounded` for the fact that a plan in which no permit is found unlimited grants
  none, in any plan within it.  `CheckIsExact` carries `MatchIsExact` to
  `checkTransaction`: it allows what conforms to the intent, decodes, grants by name and
  is within the policy, and nothing else.

  `StandingNamedKept`: an exact rule that means something of two values means they are
  one, for a word (`WordSettled`) and for a struct of settled parts (`TupleSettled`), which is
  what the terms of every standing call are made of (`TermsSettled`); for a router,
  `PlanBounded` and the codes of `RouterFindings`.  `NothingLeftInRouterKept`: the
  intent `presets` writes has one swap command (`SwapIntentIs`), whose input can only be
  a plan with one swap among its actions (`SwapNests`, `SwapMeans`, `OneSwap`), of an amount
  that a native swap bounds at both ends alike, which is the bound on the transaction's
  value (`SwapReads`, `SwapPaidFor`).

Only model-checked: the liveness properties `AuthSettles`,
`CatchesUp`, `NothingHangs`, `HandlerSettles` and `Answered` (fairness and `ENABLED`
are out of the prover's reach).  Every invariant and action property that a passing
run checks is a theorem.  `Nesting` itself is what `TxNested` defines with `RECURSIVE`
operators, which cannot be unfolded in a proof: the run uses those very definitions.

`RecentKept` says how far it goes because of what the proof showed: the renames of
a rotation are not undone, so with three segments one failed rename of the middle
one is followed by the rename of the live file onto the name it left, and the segment
there is lost while an older one stays.  With up to two segments a single failed call
cannot do that, and with none failing a crash cannot either.

## 5. Where the code and its documents disagree

`PROJECT.json` quotes the lines; each has a run that violates one property.

1. A wallet that throws after signing has its amount released
   (`LifetimeTotal`, policy.ts:42).
2. An answer body that cannot be read ends the proxy (`ProxySurvives`, proxy.ts:382).
3. A descriptor held across another process's rotation goes on filling the
   rotated segment (`SegmentsBounded`, sink.ts:490, 865 and 899).

## 6. What is not modelled

Amounts are integers: the trade guard's are doubles in the code.  Header copying,
the splitting of server-sent events, the start-up canary and agents that
disconnect are left out of `TradeGuard`; the ledger and `WindowCap` are per
process.  The retries of one RPC call and reorganisations are left out of
`BlockIngest`, and so is Base's genesis block.  `SpendGuard` takes what a check
finds as one Boolean of a request, and reads a request once; `WalletGuard` has the
checks and one call.  There an edit replaces an object as a whole, the arguments of
a wrapped function after its first are passed on unchecked and have no model, and a
transaction call whose arguments carry a payment and no intent is a `typedData` call.
In `TradeGuard` a field that parses means to the broker what it means to the guard,
and the totals count an order at the size the guard gave it.  In `SolanaPayment`
the policy's codes 501 to 503 are one, and decoding is a field that can or
cannot be read.  In `GuardedPay` the codes and reasons of an answer that is not
called verified are left out, and so are the header rules of `makeHttpTransport`
and the size limit of `readJson`.  Short writes and the fields of an event are
left out of `EventSink`; argument schemas and wording out of `ToolServer`, where the
identity of a request stands for `replayMatches` (what its digest does not cover is
named below), a hosted answer that does not say what it scanned counts as
one of a scan, and a delivery's text is what of it is scanned (`maxScanBytes`).

Scanners, rules, scores and the prose patterns of `quotetext.ts` (most of that
file) are pure functions of text and have no module; of `quotetext.ts` the
models have what is decided from what a scan found.  Measurement scripts and
examples hold no state the programs use.

What the models show of the code beyond the properties, and no run is about:

* `ToolServer`: `tools/call`, `initialize` and `tools/list` are answered without an
  id too, though mcp.ts:830 says that a notification gets no response.  A
  delivery is scanned as far as the scan limit only, and a redirect is not a
  wrong delivery.
* `EvmPayment`: a window that is not open is a high finding, which refuses a signed
  payment and not a request to sign one (only critical findings do).
* `SignIn`: a statement that reads like a URI line is taken for a statement.
* `SpendGuard`: an authorization that the total refuses keeps its nonce used
  (evm.ts:1159 adds the nonce, the total is reserved afterwards).
* `BlockIngest`: a full batch passes over the carriers left in its last block
  (`OnlyFullBatchPassesOver` is the exact statement); base.py:112 calls that
  block fully ingested.
* `TradeGuard`: an amount the guard cannot parse (a text `Number()` does not read, a
  nested value) is not seen beside one it can, and the order is forwarded with both:
  `ParsedFieldsCapped` says nothing of it, though proxy.ts:107 and 130 speak of every
  alias.  The order `comma` of `MCTradeGuard` is one.
* `Verifier`: requests of different verdicts share a digest.  `authorization.asset`, which
  the lane falls back to and refuses on (evm.ts:1040), is outside it, and a value that is an
  object hashes as null (verify.ts:654), so a `primaryType` that is an array, which is refused,
  hashes as none.  A receipt for the one then clears the other, though verify.ts:454
  says that the digest covers exactly what the answer depends on and client.ts:163 that a
  verified answer was bound to this exact request: `ClearedWasJudged` holds up to the digest.
* `WalletGuard`: a signed payment the host edits during the recovery is passed on as
  it has become, judged as it was (evm.ts:1985), where a transaction or a permit is
  passed on as the copy that was checked: `PaymentAsQuoted` has the hypothesis that the
  object is still the call's, which x402-guard/README.md:218 and evm.ts:1904 do not name.
* `TradeGuard`: a stream is logged as flagged and relayed without annotation.
* `GuardedPay`: `verify()` in the agent's process hashes objects its owner may
  have edited during the await, so the receipt and the reading may differ
  (`Judged`, `DigestAtEnd`; verify.ts:464).

## 7. Plan

In this order.

1. `Quarantine` (`capture.py`) and `Baseline` (`baseline.py`): the file, the
   payloads and the index under crashes and two processes, with an abstract
   store that `Quarantine` refines.
2. `SignatureIngest` (`solana.py`) refining `SampleLog` as `BlockIngest` does.
3. `Metering` (`metering.ts`): the bounded store, prices at volume boundaries
   in micro-units, invoices, correlation over unordered timestamps.
4. `AddressLedger` (`addresses.py`): hooks that append to and trim one file.
5. `WalletGuard` composed with `SpendGuard`'s tracker in place of `Hold`, and
   with `Verifier` in place of its one field.

The project keeps few runs: new ones take the place of violation runs whose
finding another run can carry, or join two instances of one module.
