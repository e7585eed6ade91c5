---------------------------- MODULE MCProcesses ----------------------------
(* Finite instances for TLC of the processes around the API: the consumer, the batch
   process, and the gate and the metrics of the repository's agents. They share no state:
   TLC follows each of them while the others rest. *)
EXTENDS ConsumerSupervisor, ProposalSweeps, StopGate, AgentReports

VARIABLE live   \* the process that runs
vars == <<live, supervisorVars, sweepVars, gateVars, reportVars>>

CONSTANTS
  p1, p2,                  \* partitions
  unformatted, good, bad   \* work trees

Lengths == [p \in {p1, p2} |-> IF p = p1 THEN 2 ELSE 1]

Format == [t \in {unformatted, good, bad} |-> IF t = unformatted THEN good ELSE t]
Verdicts == [t \in {unformatted, good, bad} |-> IF t = good THEN "passing" ELSE "failure"]

\* Two sessions, one that changes its model; a line of no session; a reviewer's reports.
Fact(event, session, model, result, rev) ==
  [event |-> event, session |-> session, model |-> model, result |-> result, rev |-> rev]
Lines ==
  {Fact("edit", "s1", "m1", "clean", "rev"), Fact("stop", "s1", "m2", "block", Null),
   Fact("stop", "s2", Null, "allow", "rev"), Fact("edit", Null, "m1", "violations", "rev"),
   Fact("review", "s2", "reviewer", "agent_stop", "rev"),
   Fact("review", "s1", "reviewer", "subagent", "rev")}
Entrypoints == [s \in {"s1"} |-> "interactive"]

Init ==
  /\ live \in {"consumer", "sweeps", "gate", "reports"}
  /\ SupervisorInit /\ SweepInit /\ GateInit /\ ReportsInit

Next ==
  /\ UNCHANGED live
  /\ \/ live = "consumer" /\ SupervisorNext /\ UNCHANGED <<sweepVars, gateVars, reportVars>>
     \/ live = "sweeps" /\ SweepNext /\ UNCHANGED <<supervisorVars, gateVars, reportVars>>
     \/ live = "gate" /\ GateNext /\ UNCHANGED <<supervisorVars, sweepVars, reportVars>>
     \/ live = "reports" /\ ReportsNext /\ UNCHANGED <<supervisorVars, sweepVars, gateVars>>

\* What rests has nothing that is fair to take.
Spec == Init /\ [][Next]_vars /\ SupervisorFairness /\ SweepFairness

\* The running process's state has its shape.
TypeOK ==
  /\ live = "consumer" => SupervisorTypeOK
  /\ live = "sweeps" => SweepTypeOK
  /\ live = "gate" => GateTypeOK
  /\ live = "reports" => ReportsTypeOK

\* A process disposes its engine when nothing uses it any more, and a failure shows in how
\* it exits (MessageConsumer.run, serve, run_job_once).
ExitIsClean == ExecutionsEndFirst /\ JobEndsFirst

\* The gate lets nothing through unjudged, and does not block for ever (gate, block).
GateHolds == CachedWasJudged /\ BlocksEnd

\* A process that is asked to stop does so, for good, whatever its executions or its job wait for
\* (MessageConsumer.run, serve, run_job_once): the drain and the wait have a limit.
StopEnds == <>[](stopAsked \/ signalled => phase = "exited" \/ process = "exited")
=============================================================================
