---------------------------- MODULE AgentReports ----------------------------
(***************************************************************************)
(* The metrics of the repository's agents: the hooks of concurrent         *)
(* sessions append lines to one log, and reports count what lies in their  *)
(* windows, in consecutive ones here (.codex/hooks/stop_metrics.py,        *)
(* review_metrics.py, .codex/reports/aggregate.py).                        *)
(*                                                                         *)
(* A line is stamped with its second before it is appended, so the log is  *)
(* in no order of time, and a report may read it in between.  The agent    *)
(* and the model of a line are one name, and so are its rules and result.  *)
(***************************************************************************)
EXTENDS Integers, Sequences, FiniteSets, FiniteSetsExt, SequencesExt

CONSTANTS
  Hooks,        \* hook processes
  Facts,        \* what they may have to say; of a review, `model` is the reviewer
  Entrypoint,   \* kind of each session with a transcript
  LastInstant,  \* bound of the clock
  MaxLines,     \* bound of the log
  DayLength,
  TrendDays,    \* TREND_DAYS
  Null          \* None

\* ENTRYPOINT_KINDS
Kinds == {"interactive", "non_interactive", "unknown"}

ASSUME ReportsAssumption ==
  /\ {LastInstant, MaxLines} \subseteq Nat /\ {DayLength, TrendDays} \subseteq Nat \ {0}
  /\ IsFiniteSet(Hooks) /\ IsFiniteSet(Facts)
  /\ \A s \in DOMAIN Entrypoint : Entrypoint[s] \in Kinds

VARIABLES
  now,      \* the clock, in seconds
  hand,     \* the line each hook has stamped and not appended
  log,      \* the metrics log
  asked,    \* window of the report that has not read the log yet
  reports   \* the reports: window, and how much of the log was read

reportVars == <<now, hand, log, asked, reports>>

Line == [at : 0..LastInstant, fact : Facts]

ReportsInit ==
  /\ now = 0
  /\ hand = [h \in Hooks |-> Null]
  /\ log = <<>>
  /\ asked = Null
  /\ reports = <<>>

-----------------------------------------------------------------------------
(* Hooks *)

\* metrics_line, as a hook's `record` has it made: it has the time of this moment.
StampLine(h, facts) ==
  /\ hand[h] = Null
  /\ Len(log) + Cardinality({g \in Hooks : hand[g] # Null}) < MaxLines
  /\ \E fact \in facts : hand' = [hand EXCEPT ![h] = [at |-> now, fact |-> fact]]
  /\ UNCHANGED <<now, log, asked, reports>>

Of(event) == {f \in Facts : f.event = event}

\* record_edit: of Python files that Ruff has checked.
StampEdit(h) == StampLine(h, Of("edit"))

\* record_metrics: of each decision of the gate.
StampStop(h) == StampLine(h, Of("stop"))

\* record_review: of the stop of a reviewer, a session of its own or a subagent.
StampReview(h) == StampLine(h, Of("review"))

\* append_metrics: one write, or none when it fails or the hook is killed.
AppendLine(h) ==
  /\ hand[h] # Null
  /\ log' \in {log, Append(log, hand[h])}
  /\ hand' = [hand EXCEPT ![h] = Null]
  /\ UNCHANGED <<now, asked, reports>>

SecondPasses ==
  /\ now < LastInstant
  /\ now' = now + 1
  /\ UNCHANGED <<hand, log, asked, reports>>

-----------------------------------------------------------------------------
(* What a report counts; a record is a line with its place in the log *)

ReadLog(read) == {[order |-> i, at |-> log[i].at, fact |-> log[i].fact] : i \in 1..read}

\* Mutant of InWindow: the window has its start.
InWindowClosed(at, start, end) == start <= at /\ at <= end

\* in_window; -1 stands for no start.
InWindow(at, start, end) == start < at /\ at <= end

Sooner(r, q) == r.at < q.at \/ (r.at = q.at /\ r.order < q.order)

\* SESSION_EVENTS
OfSessions(records) == {r \in records : r.fact.event \in {"edit", "stop"}}

SessionsIn(records) == {r.fact.session : r \in OfSessions(records)} \ {Null}

\* sorted: the records in the order of time, those of one second in the log's
InTime(records) ==
  LET place == [r \in records |-> Cardinality({q \in records : ~Sooner(r, q)})]
  IN [i \in 1..Cardinality(records) |-> CHOOSE r \in records : place[r] = i]

\* The models a session's lines name, one after another (session_lines)
NamedModels(records, s) ==
  LET lines == InTime({r \in OfSessions(records) : r.fact.session = s /\ r.fact.model # Null})
  IN [i \in DOMAIN lines |-> lines[i].fact.model]

ModelOf(records, s) ==
  LET models == NamedModels(records, s) IN IF models = <<>> THEN Null ELSE Last(models)

Models == {f.model : f \in Facts}

\* stop_stats and edit_stats: how many lines have which event and result
ResultCounts(records) ==
  [k \in {<<f.event, f.result>> : f \in Facts} |->
     Cardinality({r \in OfSessions(records) : <<r.fact.event, r.fact.result>> = k})]

\* line_stats, with session_stats and by_agent_model
LineStats(records) ==
  [sessions |-> Cardinality(SessionsIn(records)),
   byModel |-> [m \in Models |-> Cardinality({s \in SessionsIn(records) : ModelOf(records, s) = m})],
   modelChanged |-> Cardinality({s \in SessionsIn(records) : Cardinality(ToSet(NamedModels(records, s))) > 1}),
   results |-> ResultCounts(records),
   modelResults |-> [m \in Models |-> ResultCounts({r \in records : r.fact.model = m})]]

NewSessions(records, window, start) ==
  Cardinality(SessionsIn(window) \ SessionsIn({r \in records : r.at <= start}))

\* log_reviews: the last report of a reviewer's session, and every one of a subagent.
LogReviews(window) ==
  LET lines == InTime({r \in window : r.fact.event = "review"})
      Key(r) == <<r.fact.session, r.fact.model>>
      Keep(kept, r) == {q \in kept : q.fact.result = "subagent" \/ Key(q) # Key(r)
                                     \/ r.fact.result = "subagent"} \union {r}
  IN FoldLeft(Keep, {}, lines)

\* by_entrypoint
KindOf(s) == IF s \in DOMAIN Entrypoint THEN Entrypoint[s] ELSE "unknown"
ByEntrypoint(window) ==
  [kind \in Kinds |-> LineStats({r \in window : KindOf(r.fact.session) = kind})]

\* trend: the last days, up to the end
DayOf(at) == at \div DayLength
TrendDay(records, end, day) == {r \in records : DayOf(r.at) = day /\ r.at <= end}
Trend(records, end) ==
  [day \in (DayOf(end) - TrendDays + 1)..DayOf(end) |-> TrendDay(records, end, day)]

\* harness_rev_stats: how many lines each revision has
ByHarnessRev(records) ==
  [rev \in {f.rev : f \in Facts} |-> ResultCounts({r \in records : r.fact.rev = rev})]

\* aggregate
Aggregate(report) ==
  LET records == ReadLog(report.read)
      window == {r \in records : InWindow(r.at, report.start, report.end)}
      days == Trend(records, report.end)
  IN [interval |-> LineStats(window), new |-> NewSessions(records, window, report.start),
      reviews |-> LogReviews(window), byEntrypoint |-> ByEntrypoint(window),
      days |-> [day \in DOMAIN days |-> LineStats(days[day])],
      revs |-> ByHarnessRev(UNION {days[day] : day \in DOMAIN days})]

\* main: the end is taken, a time that was asked for or the present one.
AskReport ==
  /\ asked = Null
  /\ LET start == IF reports = <<>> THEN -1 ELSE Last(reports).end
     IN \E end \in (start + 1)..now : asked' = [start |-> start, end |-> end]
  /\ UNCHANGED <<now, hand, log, reports>>

\* Then the log is read, and everything else follows from what was read.
WriteReport ==
  /\ asked # Null
  /\ reports' = Append(reports, [start |-> asked.start, end |-> asked.end, read |-> Len(log)])
  /\ asked' = Null
  /\ UNCHANGED <<now, hand, log>>

ReportsNext ==
  \/ \E h \in Hooks : StampEdit(h) \/ StampStop(h) \/ StampReview(h) \/ AppendLine(h)
  \/ SecondPasses \/ AskReport \/ WriteReport

ReportsSpec == ReportsInit /\ [][ReportsNext]_reportVars

-----------------------------------------------------------------------------
(* Properties *)

\* The shape of the state.
ReportsTypeOK ==
  /\ now \in 0..LastInstant
  /\ hand \in [Hooks -> Line \union {Null}]
  /\ log \in Seq(Line) /\ Len(log) <= MaxLines
  /\ \A i \in DOMAIN reports : reports[i].read <= Len(log) /\ reports[i].start < reports[i].end
  /\ asked = Null \/ asked.start < asked.end

\* The lines a report of their window came too early for.
Late ==
  {i \in DOMAIN log : \E n \in DOMAIN reports :
     i > reports[n].read /\ reports[n].start < log[i].at /\ log[i].at <= reports[n].end}

Total(counts) == MapThenSumSet(LAMBDA k : counts[k], DOMAIN counts)

\* Reports of consecutive windows add up: each line is counted in exactly one of them, or in
\* none when it was appended after its report; a session is new in at most one; and what a
\* report tells by model, kind of entry point, revision and day adds up to its totals
\* (in_window, new_sessions, by_entrypoint, by_agent_model, trend).
ReportsAddUp ==
  reports # <<>> /\ asked = Null =>
    LET newest == Aggregate(Last(reports))
        told == Append([n \in 1..(Len(reports) - 1) |-> Aggregate(reports[n])], newest)
        counted == {i \in DOMAIN log \ Late : log[i].at <= Last(reports).end
                                              /\ log[i].fact.event # "review"}
        known == {log[i].fact.session : i \in counted} \ {Null}
        recent(k) == {i \in 1..Last(reports).read :
                        /\ log[i].at <= Last(reports).end
                        /\ DayOf(log[i].at) > DayOf(Last(reports).end) - TrendDays
                        /\ <<log[i].fact.event, log[i].fact.result>> = k /\ log[i].fact.event # "review"}
        window == {r \in ReadLog(Last(reports).read) :
                     r.at > Last(reports).start /\ r.at <= Last(reports).end /\ r.fact.event = "review"}
    IN /\ Total([n \in DOMAIN told |-> Total(told[n].interval.results)]) = Cardinality(counted)
       /\ Total([n \in DOMAIN told |-> told[n].new]) <= Cardinality(known)
       /\ Late = {} => Total([n \in DOMAIN told |-> told[n].new]) = Cardinality(known)
       /\ Total(newest.interval.byModel) = newest.interval.sessions
       /\ \A k \in DOMAIN newest.interval.results :
            /\ newest.interval.results[k] = Total([m \in Models |-> newest.interval.modelResults[m][k]])
            /\ newest.interval.results[k] = Total([e \in Kinds |-> newest.byEntrypoint[e].results[k]])
            /\ Total([day \in DOMAIN newest.days |-> newest.days[day].results[k]]) = Cardinality(recent(k))
            /\ Total([rev \in DOMAIN newest.revs |-> newest.revs[rev][k]]) = Cardinality(recent(k))
       /\ newest.interval.sessions = Total([e \in Kinds |-> newest.byEntrypoint[e].sessions])
       /\ newest.reviews = {r \in window : r.fact.result = "subagent" \/ ~\E q \in window :
            Sooner(r, q) /\ q.fact.result # "subagent"
              /\ <<q.fact.session, q.fact.model>> = <<r.fact.session, r.fact.model>>}
=============================================================================
