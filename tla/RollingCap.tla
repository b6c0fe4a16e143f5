----------------------------- MODULE RollingCap ------------------------------
(***************************************************************************)
(* What the trade guard promises about its daily cap, with no ledger and   *)
(* nothing forgotten: an order is placed only if, with every order placed  *)
(* in the window that ends now, it stays within the cap                    *)
(* (mcp-guard/README.md, MCP_MAX_DAILY_USD).                               *)
(***************************************************************************)
EXTENDS Integers, FiniteSets

CONSTANTS
    Ids,     \* what tells one order from another
    Window,  \* how long an order counts
    Cap      \* dollars

VARIABLES
    clock,
    placed   \* every order placed: [id, at, usd]

capVars == <<clock, placed>>

(* An order of n dollars is n dollars, so a total is the size of a set. *)
Dollars(orders) == UNION {{o.id} \X (1..o.usd) : o \in orders}

Trailing(orders, t) == {o \in orders : t - Window <= o.at /\ o.at <= t}

CapInit == clock \in Nat /\ placed = {}

Place(id, usd) ==
    /\ \A o \in placed : o.id # id
    /\ placed' = placed \cup {[id |-> id, at |-> clock, usd |-> usd]}
    /\ Cardinality(Dollars(Trailing(placed', clock))) <= Cap
    /\ UNCHANGED clock

Advance == clock' > clock /\ UNCHANGED placed

(* A restarted guard remembers nothing. *)
Forget == placed' = {} /\ UNCHANGED clock

CapNext ==
    \/ \E id \in Ids : \E usd \in 1..Cap : Place(id, usd)
    \/ Advance
    \/ Forget

CapSpec == CapInit /\ [][CapNext]_capVars
=============================================================================
