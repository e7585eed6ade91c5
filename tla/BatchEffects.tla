---------------------------- MODULE BatchEffects ----------------------------
(***************************************************************************)
(* What batch delivery promises for one account (ADR 0006, 0007): the      *)
(* batches of the partition take effect in the order of the log, each at   *)
(* most once, with the content under which its id first came, and none     *)
(* before every message in front of it took effect.                        *)
(***************************************************************************)
EXTENDS Naturals, Sequences

CONSTANTS
  Batch,    \* batch ids
  Content   \* fingerprints

VARIABLES
  log,      \* the messages of the partition
  effects   \* the messages that took effect, in that order

vars == <<log, effects>>

Message == [batch : Batch, content : Content]

Done == {effects[i] : i \in DOMAIN effects}

Init ==
  /\ log = <<>>
  /\ effects = <<>>

Arrive ==
  /\ \E m \in Message : log' = Append(log, m)
  /\ UNCHANGED effects

TakeEffect ==
  /\ \E n \in DOMAIN log :
       /\ \A i \in 1..(n - 1) : log[i] \in Done
       /\ \A m \in Done : m.batch # log[n].batch
       /\ effects' = Append(effects, log[n])
  /\ UNCHANGED log

Next == Arrive \/ TakeEffect

Spec == Init /\ [][Next]_vars
=============================================================================
