---------------------------- MODULE SpendBudget -----------------------------
(***************************************************************************)
(* What the guard promises about lifetime totals, with no tracker, no      *)
(* awaits and no loops: a call takes its whole claim on the budget at      *)
(* once, if the claim fits beside every other claim, before its wallet is  *)
(* asked; then the wallet signs and the claim stays for good, or it does   *)
(* not and the claim is given back whole (x402-guard/src/policy.ts, the    *)
(* comment on createSpendTracker).                                         *)
(***************************************************************************)
EXTENDS Naturals, FiniteSets

CONSTANTS Calls, Assets, MaxAmount, MaxMoves,
          Limits   \* the lifetime totals a call may have read

VARIABLES state, taken

budgetVars == <<state, taken>>

(* The units one call may claim: those of its i-th movement, in an asset.  *)
ClaimUnit == Assets \X (1..MaxMoves) \X (1..MaxAmount)

TakenIn(a, t) == {x \in Calls \X ClaimUnit : x[2] \in t[x[1]] /\ x[2][1] = a}

BudgetInit ==
    /\ state = [c \in Calls |-> "open"]
    /\ taken = [c \in Calls |-> {}]

(* The claim fits under the totals the call has read, in every asset it    *)
(* touches.  A call that read no totals claims nothing.                    *)
Take(c) ==
    /\ state[c] = "open"
    /\ state' = [state EXCEPT ![c] = "taken"]
    /\ taken'[c] \subseteq ClaimUnit
    /\ taken' = [taken EXCEPT ![c] = taken'[c]]
    /\ \E lim \in Limits : \A x \in taken'[c] :
          /\ x[1] \in DOMAIN lim
          /\ Cardinality(TakenIn(x[1], taken')) <= lim[x[1]]

TakeNothing(c) ==
    /\ state[c] = "open"
    /\ state' = [state EXCEPT ![c] = "taken"]
    /\ UNCHANGED taken

Decline(c) ==
    /\ state[c] = "open"
    /\ state' = [state EXCEPT ![c] = "closed"]
    /\ UNCHANGED taken

Sign(c) ==
    /\ state[c] = "taken"
    /\ state' = [state EXCEPT ![c] = "signed"]
    /\ UNCHANGED taken

GiveBack(c) ==
    /\ state[c] = "taken"
    /\ state' = [state EXCEPT ![c] = "closed"]
    /\ taken' = [taken EXCEPT ![c] = {}]

BudgetNext == \E c \in Calls :
    Take(c) \/ TakeNothing(c) \/ Decline(c) \/ Sign(c) \/ GiveBack(c)

BudgetSpec == BudgetInit /\ [][BudgetNext]_budgetVars
=============================================================================
