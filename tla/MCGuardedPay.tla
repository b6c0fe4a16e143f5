----------------------------- MODULE MCGuardedPay -----------------------------
(* Two calls over a handful of requests: a conforming one, one that pays   *)
(* somebody else, one whose quote is poisoned, one that cannot be judged,  *)
(* and two that the digest does not tell from the conforming one, because  *)
(* the primaryType is no text or the authorization names another asset     *)
(* than its payload; or one over every cap and fee up to one past the      *)
(* ceiling, beside the conforming one.                                     *)
EXTENDS GuardedPay

CONSTANTS c1, c2

Svm == [text |-> "clean", network |-> "svm", optionsRead |-> TRUE, cap |-> None, clock |-> FALSE,
        payment |-> "conforms", fee |-> 1, asset |-> "quoted", validBefore |-> 0]
Evm == [Svm EXCEPT !.network = "evm", !.fee = 0]

Few == {
    Evm, [Evm EXCEPT !.payment = "differs"],
    [Evm EXCEPT !.asset = "other"],
    [Svm EXCEPT !.text = "poisoned"], [Svm EXCEPT !.payment = "throws"]}

(* What an agent's objects turn into while it waits. *)
MCEdits == {[Evm EXCEPT !.payment = "differs"]}

(* Every cap a request may name, and every fee its payment may set. *)
Fees == {[Svm EXCEPT !.cap = cap, !.fee = fee] :
              cap \in 0..(CapCeiling + 1) \cup {None, Unread}, fee \in 0..(CapCeiling + 1)}

Untyped == [Evm EXCEPT !.payment = "mistyped"]

MCRequests == Few \cup Fees \cup {Untyped}

MCSetups == {
    [transport |-> "http", integrity |-> "required"],
    [transport |-> "http", integrity |-> "keyless"],
    [transport |-> "local", integrity |-> "trusted"]}

MCSaid == {{}, {"X402-105"}}

(* A fee or an untyped payment is asked of in one call, the other being    *)
(* the conforming one and both hosted and pinned.                          *)
MCInit ==
    /\ Init
    /\ live[c1] \notin Few \/ live[c2] \notin Few =>
          live[c2] = Evm /\ setup = [c \in Calls |-> [transport |-> "http", integrity |-> "required"]]

MCSpec == MCInit /\ [][Next]_vars /\ Fairness
=============================================================================
