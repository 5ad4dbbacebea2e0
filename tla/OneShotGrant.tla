----------------------------- MODULE OneShotGrant -----------------------------
(***************************************************************************)
(* What an approval by people promises, whatever is lost or repeated on    *)
(* the way: a grant is offered at most once, then used or withdrawn but    *)
(* never both, and every use has its effect exactly once.  The safe reset  *)
(* of a till, and the manager's approvals of refunds and of counts, each   *)
(* implement it.                                                           *)
(***************************************************************************)
EXTENDS Naturals

CONSTANT Grants

VARIABLES grant,   \* what has become of each grant
          effects  \* how often a grant has taken effect

vars == <<grant, effects>>

Init == grant = [g \in Grants |-> "unknown"] /\ effects = 0

Offer(g) ==
    /\ grant[g] = "unknown"
    /\ grant' = [grant EXCEPT ![g] = "offered"]
    /\ UNCHANGED effects

Use(g) ==
    /\ grant[g] = "offered"
    /\ grant' = [grant EXCEPT ![g] = "used"]
    /\ effects' = effects + 1

(* A grant can be withdrawn before anybody has heard of it: its offer, still *)
(* on the way, then comes to nothing.                                        *)
Withdraw(g) ==
    /\ grant[g] \in {"unknown", "offered"}
    /\ grant' = [grant EXCEPT ![g] = "withdrawn"]
    /\ UNCHANGED effects

(* One grant takes the place of another that has run out, in one step.       *)
Supersede(g, h) ==
    /\ grant[g] = "unknown" /\ grant[h] = "offered"
    /\ grant' = [grant EXCEPT ![g] = "offered", ![h] = "withdrawn"]
    /\ UNCHANGED effects

Next == \/ \E g \in Grants : Offer(g) \/ Use(g) \/ Withdraw(g)
        \/ \E g, h \in Grants : Supersede(g, h)

Spec == Init /\ [][Next]_vars
=============================================================================
