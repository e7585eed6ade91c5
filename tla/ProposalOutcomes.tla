-------------------------- MODULE ProposalOutcomes --------------------------
(***************************************************************************)
(* What the proposal workers promise for each segment version: it is tried *)
(* at most MaxTries times and reaches at most one outcome, which then      *)
(* stands.  Leases, retries, locks and the workers themselves are hidden.  *)
(***************************************************************************)
EXTENDS Naturals

CONSTANTS Key, MaxTries

VARIABLES tries, outcome

vars == <<tries, outcome>>

Init ==
  /\ tries = [k \in Key |-> 0]
  /\ outcome = [k \in Key |-> "pending"]

Try(k) ==
  /\ outcome[k] = "pending"
  /\ tries[k] < MaxTries
  /\ tries' = [tries EXCEPT ![k] = @ + 1]
  /\ UNCHANGED outcome

\* The suggestion is shown to the user, or the version no longer wants one.
Settle(k) ==
  /\ outcome[k] = "pending"
  /\ tries[k] > 0
  /\ \E o \in {"answered", "dropped"} : outcome' = [outcome EXCEPT ![k] = o]
  /\ UNCHANGED tries

GiveUp(k) ==
  /\ outcome[k] = "pending"
  /\ tries[k] = MaxTries
  /\ outcome' = [outcome EXCEPT ![k] = "exhausted"]
  /\ UNCHANGED tries

Next == \E k \in Key : Try(k) \/ Settle(k) \/ GiveUp(k)

Spec == Init /\ [][Next]_vars
=============================================================================
