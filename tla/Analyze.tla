------------------------------- MODULE Analyze -------------------------------
(***************************************************************************)
(* A run's analyzer: failed steps are offered to it over a bounded queue,  *)
(* its proposals are filed in the ledger and, when the caller configured a *)
(* policy, accepted without a person through a second queue that only the  *)
(* scheduler's loop serves. The loop must not end before what is under way *)
(* was served, and must end whatever the analyzer does.                    *)
(***************************************************************************)
EXTENDS Naturals, Sequences, FiniteSets, SequencesExt

CONSTANTS
  Steps,          \* steps that can fail
  AnalyzeQueue,   \* capacity of analysis.offers
  AnalyzeDecisions, \* capacity of analysis.decisions
  MaxAttempts,    \* bound on a step's attempts
  ClientOps       \* bound on what attached clients decide

ASSUME AnalyzeAssumption == IsFiniteSet(Steps) /\ MaxAttempts \in Nat

VARIABLES
  stepAt,    \* "running", "finished" (step.finished is in the ledger), "sent", "handlers", then "ok", "failed"
  tries,
  offers, closedOffers,
  accepted, answered, deciding, droppedOffers,
  lostDecisions, \* the decisions analysis.lost counts
  worker,    \* the analyzer's goroutine: "idle", "call", "file", "policy", "done", with the failure it is at
  workOn,
  undecided,   \* proposals nobody decided
  decided,   \* proposals that were: settled
  spent,     \* analysis.applied: steps the policy has applied a remedy for
  decisions, \* analysis.decisions
  heldPolicy,
  byPolicy,  \* remedies carried out for the policy, one id each
  yes,       \* what the policy said yes to
  loop,      \* the scheduler: "pass", "quiet", "serve", "over"
  quietBy,   \* how the last waitQuiet ended: "", "quiet", "grace"
  drainAt,   \* "no", "grace", "aborted", "drained", "sealed"
  unfiled, unexplained, \* what report has to say
  clientOps

analyzeVars == <<stepAt, tries, offers, closedOffers, accepted, answered, deciding, droppedOffers, lostDecisions,
  worker, workOn, undecided, decided, spent, decisions, heldPolicy, byPolicy, yes, loop, quietBy, drainAt, unfiled,
  unexplained, clientOps>>
stepVars   == <<stepAt, tries>>
countVars  == <<accepted, answered, deciding, droppedOffers, lostDecisions>>
workVars   == <<worker, workOn>>
gateVars   == <<undecided, decided, spent, decisions, heldPolicy, byPolicy, yes>>
loopVars   == <<loop, quietBy, drainAt>>
reportVars == <<unfiled, unexplained>>

AnalyzeInit ==
  /\ stepAt = [s \in Steps |-> "running"] /\ tries = [s \in Steps |-> 1]
  /\ offers = <<>> /\ closedOffers = FALSE
  /\ accepted = 0 /\ answered = 0 /\ deciding = 0 /\ droppedOffers = 0 /\ lostDecisions = {}
  /\ worker = "idle" /\ workOn = <<>>
  /\ undecided = {} /\ decided = {} /\ spent = {} /\ decisions = <<>> /\ heldPolicy = {} /\ byPolicy = {} /\ yes = {}
  /\ loop = "pass" /\ quietBy = "" /\ drainAt = "no" /\ unfiled = {} /\ unexplained = {} /\ clientOps = ClientOps

-----------------------------------------------------------------------------
(* A step's goroutine.                                                     *)

Finish(s) ==
  /\ stepAt[s] = "running" /\ \E r \in {"ok", "finished"} : stepAt' = [stepAt EXCEPT ![s] = r]
  /\ UNCHANGED <<tries, offers, closedOffers, countVars, workVars, gateVars, loopVars, reportVars, clientOps>>

\* offer: the send and the count of it are two steps.
offer(s) ==
  /\ stepAt[s] = "finished"
  /\ IF Len(offers) < AnalyzeQueue
     THEN /\ offers' = Append(offers, <<s, tries[s]>>) /\ stepAt' = [stepAt EXCEPT ![s] = "sent"]
          /\ UNCHANGED droppedOffers
     ELSE /\ droppedOffers' = droppedOffers + 1 /\ stepAt' = [stepAt EXCEPT ![s] = "handlers"] /\ UNCHANGED offers
  /\ UNCHANGED <<tries, closedOffers, accepted, answered, deciding, lostDecisions, workVars, gateVars, loopVars, reportVars, clientOps>>
countOffer(s) ==
  /\ stepAt[s] = "sent" /\ accepted' = accepted + 1 /\ stepAt' = [stepAt EXCEPT ![s] = "handlers"]
  /\ UNCHANGED <<tries, offers, closedOffers, answered, deciding, droppedOffers, lostDecisions, workVars, gateVars, loopVars, reportVars, clientOps>>

\* Its handlers are done: the claim is given back and the state is settled.
ReleaseHeld(s) ==
  /\ stepAt[s] = "handlers" /\ stepAt' = [stepAt EXCEPT ![s] = "failed"]
  /\ UNCHANGED <<tries, offers, closedOffers, countVars, workVars, gateVars, loopVars, reportVars, clientOps>>

Busy(s) == stepAt[s] \notin {"ok", "failed"}

-----------------------------------------------------------------------------
(* The analyzer's goroutine.                                               *)

work ==
  /\ worker = "idle" /\ offers # <<>> /\ worker' = "call" /\ workOn' = Head(offers) /\ offers' = Tail(offers)
  /\ UNCHANGED <<stepVars, closedOffers, countVars, gateVars, loopVars, reportVars, clientOps>>
workEnds ==
  /\ worker = "idle" /\ offers = <<>> /\ closedOffers /\ worker' = "done"
  /\ UNCHANGED <<stepVars, offers, closedOffers, countVars, workOn, gateVars, loopVars, reportVars, clientOps>>

\* Analyze comes back: an error (a panic, the timeout, an abort), nothing to
\* say, or a proposal. answered and deciding rise together.
Answer(d) ==
  /\ worker = "call" /\ answered' = answered + 1
  /\ \/ worker' = "file" /\ deciding' = deciding + d /\ UNCHANGED <<workOn, unexplained>>
     \/ /\ worker' = "idle" /\ workOn' = <<>> /\ UNCHANGED deciding
        /\ unexplained' \in {unexplained, unexplained \cup {workOn}}
  /\ UNCHANGED <<stepVars, offers, closedOffers, accepted, droppedOffers, lostDecisions, gateVars, loopVars, unfiled, clientOps>>

\* Mutant: deciding is not raised with answered.
AnswerAlone == Answer(0)

analyzeOne == Answer(1)

\* The proposal is pending before it is in the ledger, which a sealed stream
\* refuses.
file ==
  /\ worker = "file"
  /\ IF drainAt = "sealed"
     THEN /\ unfiled' = unfiled \cup {workOn} /\ worker' = "idle" /\ workOn' = <<>> /\ UNCHANGED undecided
          /\ deciding' = IF deciding > 0 THEN deciding - 1 ELSE 0
     ELSE undecided' = undecided \cup {workOn} /\ worker' = "policy" /\ UNCHANGED <<unfiled, workOn, deciding>>
  /\ UNCHANGED <<stepVars, offers, closedOffers, accepted, answered, droppedOffers, lostDecisions, decided, spent,
                 decisions, heldPolicy, byPolicy, yes, loopVars, unexplained, clientOps>>

\* Mutant: the policy is not limited to one application a step.
ApplyAlways ==
  /\ worker = "policy" /\ worker' = "idle" /\ workOn' = <<>>
  /\ deciding' = IF deciding > 0 THEN deciding - 1 ELSE 0
  /\ \/ decisions' = Append(decisions, workOn) /\ yes' = yes \cup {workOn} /\ spent' = spent \cup {workOn[1]}
     \/ UNCHANGED <<spent, decisions, yes>>
  /\ UNCHANGED <<stepVars, offers, closedOffers, accepted, answered, droppedOffers, lostDecisions, undecided, decided,
                 heldPolicy, byPolicy, loopVars, reportVars, clientOps>>

\* One application a step, spent before the request is sent to a queue that
\* may be full.
maybeApplyPolicy ==
  /\ worker = "policy" /\ worker' = "idle" /\ workOn' = <<>>
  /\ deciding' = IF deciding > 0 THEN deciding - 1 ELSE 0
  /\ \/ /\ workOn[1] \notin spent /\ spent' = spent \cup {workOn[1]} /\ yes' = yes \cup {workOn}
        /\ IF Len(decisions) < AnalyzeDecisions THEN decisions' = Append(decisions, workOn) /\ UNCHANGED lostDecisions
           ELSE lostDecisions' = lostDecisions \cup {workOn} /\ UNCHANGED decisions
     \/ UNCHANGED <<spent, decisions, yes, lostDecisions>>
  /\ UNCHANGED <<stepVars, offers, closedOffers, accepted, answered, droppedOffers, undecided, decided,
                 heldPolicy, byPolicy, loopVars, reportVars, clientOps>>

-----------------------------------------------------------------------------
(* The scheduler's loop.                                                   *)

\* handleStepRetry: a step that is not settled in failure is refused.
Retry(s) == /\ stepAt[s] = "failed" /\ tries[s] < MaxAttempts
            /\ stepAt' = [stepAt EXCEPT ![s] = "running"] /\ tries' = [tries EXCEPT ![s] = @ + 1]
Applied(id, policy) ==
  /\ Retry(id[1]) /\ undecided' = undecided \ {id} /\ decided' = decided \cup {id}
  /\ byPolicy' = IF policy THEN byPolicy \cup {id} ELSE byPolicy
Refused(id) == (id \notin undecided \/ stepAt[id[1]] # "failed" \/ tries[id[1]] >= MaxAttempts)
               /\ UNCHANGED <<stepVars, undecided, decided, byPolicy>>

\* Mutant: a policy's decision about a step that is still finishing is refused.
AcceptOrRefuse(id) ==
  /\ (id \in undecided /\ Applied(id, TRUE)) \/ Refused(id)
  /\ UNCHANGED heldPolicy

handleAnalysisAccept(id) ==
  IF id \in undecided /\ Busy(id[1]) THEN heldPolicy' = heldPolicy \cup {id} /\ UNCHANGED <<stepVars, undecided, decided, byPolicy>>
  ELSE /\ (id \in undecided /\ Applied(id, TRUE)) \/ Refused(id)
       /\ heldPolicy' = heldPolicy \ {id}

\* A pass, or its idle wait, takes a decision; held ones come first.
servePolicy ==
  /\ loop = "pass" /\ decisions # <<>> /\ decisions' = Tail(decisions) /\ handleAnalysisAccept(Head(decisions))
  /\ UNCHANGED <<offers, closedOffers, countVars, workVars, spent, yes, loopVars, reportVars, clientOps>>
serveHeld ==
  /\ loop = "pass" /\ \E id \in heldPolicy : ~Busy(id[1]) /\ handleAnalysisAccept(id)
  /\ UNCHANGED <<offers, closedOffers, countVars, workVars, spent, decisions, yes, loopVars, reportVars, clientOps>>

\* An attached client accepts or rejects a proposal.
clientDecides ==
  /\ loop = "pass" /\ clientOps > 0 /\ clientOps' = clientOps - 1
  /\ \E id \in undecided :
       \/ Applied(id, FALSE)
       \/ undecided' = undecided \ {id} /\ decided' = decided \cup {id} /\ UNCHANGED <<stepVars, byPolicy>>
  /\ UNCHANGED <<offers, closedOffers, countVars, workVars, spent, decisions, heldPolicy, yes, loopVars, reportVars>>

\* Everything is settled: settlePolicy waits, no longer than the grace.
passDone ==
  /\ loop = "pass" /\ \A s \in Steps : ~Busy(s)
  /\ \A id \in heldPolicy : Busy(id[1])
  /\ loop' = "quiet"
  /\ UNCHANGED <<stepVars, offers, closedOffers, countVars, workVars, gateVars, quietBy, drainAt, reportVars, clientOps>>
waitQuiet ==
  /\ loop = "quiet" /\ loop' = "serve"
  /\ \/ accepted = answered /\ deciding = 0 /\ quietBy' = "quiet"
     \/ quietBy' = "grace"
  /\ UNCHANGED <<stepVars, offers, closedOffers, countVars, workVars, gateVars, drainAt, reportVars, clientOps>>
\* What was served sends the loop round again; nothing to serve ends it.
settlePolicy ==
  /\ loop = "serve"
  /\ IF decisions # <<>>
     THEN loop' = "pass" /\ decisions' = Tail(decisions) /\ handleAnalysisAccept(Head(decisions))
     ELSE loop' = "over" /\ UNCHANGED <<stepVars, decisions, undecided, decided, byPolicy, heldPolicy>>
  /\ UNCHANGED <<offers, closedOffers, countVars, workVars, spent, yes, quietBy, drainAt, reportVars, clientOps>>

\* drain: no more offers, the grace, an abort and a second more; then
\* run.finished, the seal and report.
drain ==
  /\ loop = "over"
  /\ \/ drainAt = "no" /\ drainAt' = "grace" /\ closedOffers' = TRUE
     \/ drainAt = "grace" /\ drainAt' \in (IF worker = "done" THEN {"drained"} ELSE {"aborted"}) /\ UNCHANGED closedOffers
     \/ drainAt = "aborted" /\ drainAt' = "drained" /\ UNCHANGED closedOffers
     \/ drainAt = "drained" /\ drainAt' = "sealed" /\ UNCHANGED closedOffers
  /\ UNCHANGED <<stepVars, offers, countVars, workVars, gateVars, loop, quietBy, reportVars, clientOps>>

AnalyzeNext ==
  \/ \E s \in Steps : Finish(s) \/ offer(s) \/ countOffer(s) \/ ReleaseHeld(s)
  \/ work \/ workEnds \/ analyzeOne \/ file \/ maybeApplyPolicy
  \/ servePolicy \/ serveHeld \/ clientDecides \/ passDone \/ waitQuiet \/ settlePolicy \/ drain
AnalyzeSpec == AnalyzeInit /\ [][AnalyzeNext]_analyzeVars

-----------------------------------------------------------------------------
(* What must hold.                                                         *)

\* A policy's yes is carried out at most once a step, and is neither lost in
\* silence nor refused because the step's goroutine was still finishing: a loop that ended
\* because everything was quiet has served every one of them, and one the loop
\* took before its end was carried out, or is held, unless a client or a later
\* attempt came first. The ledger's two decisions about one proposal exclude
\* each other.
PolicyIsServed ==
  /\ \A s \in Steps : Cardinality({id \in byPolicy : id[1] = s}) <= 1
  /\ undecided \cap decided = {}
  /\ loop = "over" /\ quietBy = "quiet" => decisions = <<>> /\ heldPolicy = {} /\ worker \notin {"file", "policy"}
  /\ \A id \in yes : id \in undecided => id \in ToSet(decisions) \cup heldPolicy \cup lostDecisions \/ tries[id[1]] >= MaxAttempts

\* "lost counts policy decisions that never reached the scheduler": after the
\* seal, a yes that nobody will serve is counted.
LostIsCounted ==
  drainAt = "sealed" /\ worker = "done" => \A id \in yes \cap undecided : id \in lostDecisions \/ tries[id[1]] >= MaxAttempts
=============================================================================
