------------------------------- MODULE Notify -------------------------------
(***************************************************************************)
(* Notifications: the run's events are offered, inline and without         *)
(* blocking, to one bounded queue per destination; each queue's worker     *)
(* makes at most Attempts requests per event; the outcome goes through a   *)
(* bounded report queue to the engine's appender, which refuses once       *)
(* run.finished has sealed the stream, and then to the shutdown report.    *)
(* Flush is bounded by a grace, an abort and a settling time.              *)
(* A destination is a hook, which wants every event, or a GitHub check run, *)
(* created (or adopted) by run.started and completed by run.finished.       *)
(***************************************************************************)
EXTENDS Naturals, Sequences, FiniteSets, SequencesExt

CONSTANTS
  Dests,        \* destinations
  MaxEvents,    \* the events a run emits: 1 is run.started, the last run.finished
  QueueDepth,   \* queueDepth of a destination's queue
  ReportDepth,  \* queueDepth of Notifier.reports
  Attempts      \* Destination.attempts
ASSUME NotifyAssumption ==
  /\ IsFiniteSet(Dests)
  /\ MaxEvents \in Nat \ {0, 1} /\ QueueDepth \in Nat \ {0} /\ ReportDepth \in Nat \ {0} /\ Attempts \in Nat \ {0}

Events == 1..MaxEvents
RunFinished == MaxEvents

VARIABLES
  emitted,    \* how many events the run has appended; RunFinished seals the stream
  nq,         \* per destination, its queue
  sending,       \* per destination, the event its worker is delivering, or 0
  try,        \* per destination, requests made for it
  stuck,      \* destinations whose renderer or client never returns
  toldOf,      \* per destination, what the far end received, in order
  reports,    \* Notifier.reports: <<destination, event, type>>
  noted,      \* what record wrote: the ledger's, and
  unrecorded, \* Notifier.unrecorded
  lost,       \* reports.DroppedTotal
  skipped,    \* the events a destination had no request for
  flush,      \* "no", "closing", "settling", "reporting", "returned"
  aborted,    \* n.ctx is done
  abandoned,  \* destinations the shutdown report names
  flavour,    \* per destination: "hook", "checks", "adopted" (ExistingCheckRun)
  id,         \* GitHubChecksRequester.id: 0, or the check run it knows
  runs, completed  \* at GitHub: how many check runs there are, and the completed ones

deliveryVars == <<nq, sending, try, stuck, toldOf>>
reportVars == <<reports, noted, unrecorded, lost, skipped>>
checkVars  == <<flavour, id, runs, completed>>
notifyVars == <<emitted, deliveryVars, reportVars, flush, aborted, abandoned, checkVars>>

NotifyInit ==
  /\ emitted = 0 /\ nq = [d \in Dests |-> <<>>] /\ sending = [d \in Dests |-> 0]
  /\ try = [d \in Dests |-> 0] /\ stuck = {} /\ toldOf = [d \in Dests |-> <<>>]
  /\ reports = <<>> /\ noted = {} /\ unrecorded = {} /\ lost = 0 /\ skipped = {}
  /\ flush = "no" /\ aborted = FALSE /\ abandoned = {}
  /\ flavour \in [Dests -> {"hook", "checks", "adopted"}]
  /\ id = [d \in Dests |-> IF flavour[d] = "adopted" THEN 1 ELSE 0] /\ runs = id
  /\ completed = [d \in Dests |-> {}]

\* multi.Emit on the report queue; after Close an outcome vanishes uncounted.
Report(outcomes) ==
  LET room == ReportDepth - Len(reports)
      kept == IF Len(outcomes) <= room THEN outcomes ELSE SubSeq(outcomes, 1, room)
  IN IF flush \in {"reporting", "returned"} THEN UNCHANGED <<reports, lost>>
     ELSE reports' = reports \o kept /\ lost' = lost + (Len(outcomes) - Len(kept))

\* Notifier.Emit, inline in the engine's emit: a full queue drops, and the
\* drop is an outcome.
Emit ==
  /\ emitted < MaxEvents /\ emitted' = emitted + 1
  /\ LET full == {d \in Dests : Len(nq[d]) >= QueueDepth}
     IN /\ nq' = [d \in Dests |-> IF d \in full THEN nq[d] ELSE Append(nq[d], emitted + 1)]
        /\ Report(SetToSeq({<<d, emitted + 1, "dropped">> : d \in full}))
  /\ UNCHANGED <<sending, try, stuck, toldOf, noted, unrecorded, skipped, flush, aborted, abandoned, checkVars>>

Take(d) ==
  /\ sending[d] = 0 /\ nq[d] # <<>>
  /\ sending' = [sending EXCEPT ![d] = Head(nq[d])] /\ nq' = [nq EXCEPT ![d] = Tail(@)]
  /\ try' = [try EXCEPT ![d] = 0]
  /\ UNCHANGED <<emitted, stuck, toldOf, reportVars, flush, aborted, abandoned, checkVars>>

\* The worker is done with its event; without an outcome only when the
\* destination had no request to make.
Settled(d, what) ==
  /\ sending' = [sending EXCEPT ![d] = 0]
  /\ IF what = "skip" THEN skipped' = skipped \cup {<<d, sending[d]>>} /\ UNCHANGED <<reports, lost>>
     ELSE Report(<<<<d, sending[d], what>>>>) /\ UNCHANGED skipped

\* GitHubChecksRequester.Request: create, or update an adopted run; steps are
\* only collected; complete what is known.
Wanted(d) == CASE flavour[d] = "hook" -> "post"
               [] flavour[d] = "adopted" /\ sending[d] = 1 -> "update"
               [] flavour[d] = "checks" /\ sending[d] = 1 -> IF id[d] # 0 THEN "skip" ELSE "create"
               [] flavour[d] # "hook" /\ sending[d] = RunFinished /\ id[d] # 0 -> "complete"
               [] OTHER -> "skip"

\* buildRequest: nothing to send; a renderer or requester that fails or
\* panics; one that never returns.
buildRequest(d) ==
  /\ sending[d] # 0 /\ try[d] = 0 /\ d \notin stuck
  /\ \/ Wanted(d) = "skip" /\ Settled(d, "skip") /\ UNCHANGED stuck
     \/ Settled(d, "failed") /\ UNCHANGED stuck
     \/ stuck' = stuck \cup {d} /\ UNCHANGED <<sending, reports, lost, skipped>>
  /\ UNCHANGED <<emitted, nq, try, toldOf, noted, unrecorded, flush, aborted, abandoned, checkVars>>

\* What the far end did with a request: GitHub makes or completes a run.
Landed(d) ==
  /\ toldOf' = [toldOf EXCEPT ![d] = Append(@, sending[d])]
  /\ runs' = [runs EXCEPT ![d] = IF Wanted(d) = "create" THEN @ + 1 ELSE @]
  /\ completed' = [completed EXCEPT ![d] = IF Wanted(d) = "complete" THEN @ \cup {id[d]} ELSE @]
NotLanded == UNCHANGED <<toldOf, runs, completed>>

Tries(d) == try' = [try EXCEPT ![d] = @ + 1]

\* do: a 2xx, whose body ReadResponse may learn the new id from.
Delivered(d) ==
  /\ sending[d] # 0 /\ d \notin stuck /\ Wanted(d) # "skip" /\ ~aborted /\ try[d] < Attempts
  /\ Tries(d) /\ Landed(d) /\ Settled(d, "delivered")
  /\ \E known \in (IF Wanted(d) = "create" THEN {runs[d] + 1, 0} ELSE {id[d]}) : id' = [id EXCEPT ![d] = known]
  /\ UNCHANGED <<emitted, nq, stuck, noted, unrecorded, flush, aborted, abandoned, flavour>>

\* retryable, wait: what has attempts left is tried again unless it was
\* refused or the notifier is shutting down.
Retry(d) ==
  IF try[d] + 1 >= Attempts \/ aborted THEN Settled(d, "failed")
  ELSE UNCHANGED <<sending, reports, lost, skipped>>

\* No response, a 429 or a 5xx: the request may have been served.
Unanswered(d) ==
  /\ sending[d] # 0 /\ d \notin stuck /\ Wanted(d) # "skip" /\ try[d] < Attempts
  /\ Tries(d) /\ Retry(d)
  /\ \/ ~aborted /\ Landed(d)
     \/ NotLanded
  /\ UNCHANGED <<emitted, nq, stuck, noted, unrecorded, flush, aborted, abandoned, flavour, id>>

\* Any other 4xx.
Refused(d) ==
  /\ sending[d] # 0 /\ d \notin stuck /\ Wanted(d) # "skip" /\ ~aborted /\ try[d] < Attempts
  /\ Tries(d) /\ NotLanded /\ Settled(d, "failed")
  /\ UNCHANGED <<emitted, nq, stuck, noted, unrecorded, flush, aborted, abandoned, flavour, id>>

RecordDirect ==
  /\ reports # <<>> /\ reports' = Tail(reports)
  /\ IF emitted < RunFinished THEN noted' = noted \cup {Head(reports)} /\ UNCHANGED unrecorded
     ELSE UNCHANGED <<noted, unrecorded>>
  /\ UNCHANGED <<emitted, deliveryVars, lost, skipped, flush, aborted, abandoned, checkVars>>

\* record, on the report queue's worker: the appender refuses once the
\* stream is sealed.
record ==
  /\ reports # <<>> /\ reports' = Tail(reports)
  /\ IF emitted < RunFinished THEN noted' = noted \cup {Head(reports)} /\ UNCHANGED unrecorded
     ELSE unrecorded' = unrecorded \cup {Head(reports)} /\ UNCHANGED noted
  /\ UNCHANGED <<emitted, deliveryVars, lost, skipped, flush, aborted, abandoned, checkVars>>

-----------------------------------------------------------------------------
(* Flush, after run.finished.                                              *)

Drained(d) == nq[d] = <<>> /\ sending[d] = 0

Flush ==
  /\ emitted = MaxEvents /\ flush = "no" /\ flush' = "closing"
  /\ UNCHANGED <<emitted, deliveryVars, reportVars, aborted, abandoned, checkVars>>

\* The grace runs out: abort, and settleGrace begins.
flushGraceExpires ==
  /\ flush = "closing" /\ flush' = "settling" /\ aborted' = TRUE
  /\ UNCHANGED <<emitted, deliveryVars, reportVars, abandoned, checkVars>>

SettleDrained ==
  /\ flush \in {"closing", "settling"} /\ (\A d \in Dests : Drained(d))
  /\ flush' = "reporting" /\ UNCHANGED abandoned
  /\ UNCHANGED <<emitted, deliveryVars, reportVars, aborted, checkVars>>

\* Everything is drained, or settleGrace runs out too and what is not is
\* named. reports.Close follows.
settle ==
  /\ \/ flush \in {"closing", "settling"} /\ (\A d \in Dests : Drained(d)) /\ UNCHANGED abandoned
     \/ flush = "settling" /\ (\E d \in Dests : ~Drained(d))
        /\ abandoned' = {d \in Dests : ~Drained(d)}
  /\ flush' = "reporting"
  /\ UNCHANGED <<emitted, deliveryVars, reportVars, aborted, checkVars>>

\* The report queue is drained; writeReport.
writeReport ==
  /\ flush = "reporting" /\ reports = <<>> /\ flush' = "returned" /\ aborted' = TRUE
  /\ UNCHANGED <<emitted, deliveryVars, reportVars, abandoned, checkVars>>

WorkerStep(d) == Take(d) \/ buildRequest(d) \/ Delivered(d) \/ Unanswered(d) \/ Refused(d)
FlushStep == settle \/ flushGraceExpires \/ writeReport
NotifyNext ==
  \/ Emit \/ record \/ Flush \/ FlushStep
  \/ \E d \in Dests : WorkerStep(d)

\* The timers fire and the report queue's worker, which calls nothing of a
\* destination's, runs.
NotifyFairness == WF_notifyVars(FlushStep) /\ WF_notifyVars(record) /\ WF_notifyVars(settle)
NotifySpec == NotifyInit /\ [][NotifyNext]_notifyVars /\ NotifyFairness

-----------------------------------------------------------------------------
Outcomes == noted \cup unrecorded \cup Range(reports)
For(d, e) == {o \in Outcomes : o[1] = d /\ o[2] = e}
Pending(d, e) == sending[d] = e \/ e \in Range(nq[d])
Silent == {p \in Dests \X (1..emitted) :
             For(p[1], p[2]) = {} /\ ~Pending(p[1], p[2]) /\ p \notin skipped}

\* "Silence is the one answer a notifier must never give"
\* (destination.go:211): every event offered to a destination is still with
\* it, or has one outcome, in the ledger or in the shutdown report, or is
\* counted there as lost, or its destination is named as abandoned. An
\* outcome says what happened: what was delivered was heard, what was dropped
\* was not; and the far end hears events in their order, repeated at most
\* Attempts times.
NoSilence ==
  /\ \A d \in Dests, e \in 1..emitted : Cardinality(For(d, e)) <= 1
  /\ Cardinality({p \in Silent : p[1] \notin abandoned}) <= lost /\ lost <= Cardinality(Silent)
  /\ flush = "returned" /\ abandoned = {} => \A d \in Dests : Drained(d)
  /\ \A o \in Outcomes : /\ o[3] = "delivered" => o[2] \in Range(toldOf[o[1]])
                         /\ o[3] = "dropped" => o[2] \notin Range(toldOf[o[1]])
  /\ \A d \in Dests : flavour[d] # "hook" /\ <<d, RunFinished, "delivered">> \in Outcomes => id[d] \in completed[d]
  /\ \A d \in Dests : /\ \A i, j \in DOMAIN toldOf[d] : i < j => toldOf[d][i] <= toldOf[d][j]
                      /\ \A e \in 1..emitted : Cardinality({i \in DOMAIN toldOf[d] : toldOf[d][i] = e}) <= Attempts

\* Flush returns, whatever a destination does.
FlushReturns == flush = "closing" ~> flush = "returned"

\* githubchecks.go:38: "a destination that maintains one check run on a
\* commit"; :209: "A second create would leave the first check in progress
\* forever."
OneCheckRun == \A d \in Dests : runs[d] <= 1
=============================================================================
