----------------------------- MODULE PlanProofs -----------------------------
(***************************************************************************)
(* Proofs about what is decided to run.  Trigger: a delivery starts the    *)
(* run it should, or is refused aloud.  Build, Generate and PlanCheck: a   *)
(* plan that was accepted, and whatever is spliced into it, can be run as  *)
(* it was meant.  Analyze: a policy's decision is carried out once, and no *)
(* decision is passed over by a loop that ends.                            *)
(***************************************************************************)
EXTENDS MCComponents, FiniteSetTheorems, SequenceTheorems, WellFoundedInduction, TLAPS

-----------------------------------------------------------------------------
(* The analysis policy.                                                    *)

Failures == Steps \X Nat
AnalyzedAt == {"running", "finished", "sent", "handlers", "ok", "failed"}
Failing == {"sent", "handlers", "failed"}
WorkerAt == {"idle", "call", "file", "policy", "done"}

PolicyTypes ==
  /\ stepAt \in [Steps -> AnalyzedAt] /\ tries \in [Steps -> Nat]
  /\ offers \in Seq(Failures) /\ decisions \in Seq(Failures)
  /\ undecided \subseteq Failures /\ decided \subseteq Failures
  /\ worker \in WorkerAt /\ (worker \in {"call", "file", "policy"} => workOn \in Failures)
  /\ accepted \in Nat /\ answered \in Nat /\ deciding \in Nat

\* A failure that is offered, analyzed or undecided is the step's latest: only
\* a decision about it starts another attempt.
Latest(id, tr, at) == id[2] = tr[id[1]] /\ at[id[1]] \in Failing

OffersKept ==
  /\ \A i \in 1..Len(offers) : Latest(offers[i], tries, stepAt) /\ offers[i] \notin undecided /\ offers[i] \notin decided
  /\ \A i, j \in 1..Len(offers) : i # j => offers[i] # offers[j]
WorkKept ==
  /\ worker \in {"call", "file"} => /\ Latest(workOn, tries, stepAt) /\ workOn \notin undecided /\ workOn \notin decided
                                    /\ \A i \in 1..Len(offers) : offers[i] # workOn
  /\ worker = "policy" => workOn \in undecided \/ workOn \in decided
GateKept ==
  /\ \A id \in undecided : Latest(id, tries, stepAt) /\ id \notin decided
  /\ \A id \in decided : id[2] <= tries[id[1]] /\ (id[2] = tries[id[1]] => stepAt[id[1]] \in Failing)

\* A yes is about a proposal, one a step; until it is carried out it is queued,
\* held or counted as lost.
YesKept ==
  /\ yes \subseteq undecided \cup decided
  /\ \A i \in 1..Len(decisions) : decisions[i] \in yes
  /\ heldPolicy \subseteq yes /\ byPolicy \subseteq yes
  /\ \A a, b \in yes : a[1] = b[1] => a = b
  /\ \A a \in yes : a[1] \in spent
  /\ \A id \in yes : id \in undecided =>
       \/ \E i \in 1..Len(decisions) : decisions[i] = id
       \/ id \in heldPolicy \/ id \in lostDecisions \/ tries[id[1]] >= MaxAttempts

\* The two counts differ by what is in the queue, in the analyzer's hands, or
\* sent and not yet counted.
Uncounted == {s \in Steps : stepAt[s] = "sent"}
CountsKept ==
  /\ accepted + Cardinality(Uncounted) = answered + Len(offers) + (IF worker = "call" THEN 1 ELSE 0)
  /\ deciding = (IF worker \in {"file", "policy"} THEN 1 ELSE 0)

QuietKept ==
  /\ loop \in {"pass", "quiet", "serve", "over"}
  /\ loop # "pass" => (\A s \in Steps : ~Busy(s)) /\ heldPolicy = {}
  /\ loop \in {"serve", "over"} /\ quietBy = "quiet" => offers = <<>> /\ worker \in {"idle", "done"}
  /\ loop = "over" /\ quietBy = "quiet" => decisions = <<>>

PolicyKept == PolicyTypes /\ OffersKept /\ WorkKept /\ GateKept /\ YesKept /\ CountsKept /\ QuietKept

\* A failure is its step and its attempt.
LEMMA FailureParts ==
  /\ \A a \in Failures : a[1] \in Steps /\ a[2] \in Nat
  /\ \A a, b \in Failures : a[1] = b[1] /\ a[2] = b[2] => a = b
  /\ \A s \in Steps, n \in Nat : <<s, n>> \in Failures /\ <<s, n>>[1] = s /\ <<s, n>>[2] = n
BY DEF Failures

\* How many steps have sent and not counted, when one of them moves.
LEMMA UncountedMoves ==
  ASSUME PolicyTypes, NEW s \in Steps, NEW to \in AnalyzedAt, stepAt' = [stepAt EXCEPT ![s] = to]
  PROVE  /\ Cardinality(Uncounted) \in Nat
         /\ to = "sent" /\ stepAt[s] # "sent" => Cardinality(Uncounted') = Cardinality(Uncounted) + 1
         /\ to # "sent" /\ stepAt[s] = "sent" => Cardinality(Uncounted') = Cardinality(Uncounted) - 1
         /\ to # "sent" /\ stepAt[s] # "sent" => Cardinality(Uncounted') = Cardinality(Uncounted)
<1>1. IsFiniteSet(Uncounted)
  BY AnalyzeAssumption, FS_Subset DEF Uncounted
<1>2. Cardinality(Uncounted) \in Nat
  BY <1>1, FS_CardinalityType
<1>3. ASSUME to = "sent", stepAt[s] # "sent"
      PROVE  Cardinality(Uncounted') = Cardinality(Uncounted) + 1
  <2>1. Uncounted' = Uncounted \cup {s} /\ s \notin Uncounted
    BY <1>3 DEF Uncounted, PolicyTypes
  <2> QED
    BY <1>1, <2>1, FS_AddElement
<1>4. ASSUME to # "sent", stepAt[s] = "sent"
      PROVE  Cardinality(Uncounted') = Cardinality(Uncounted) - 1
  <2>1. Uncounted' = Uncounted \ {s} /\ s \in Uncounted
    BY <1>4 DEF Uncounted, PolicyTypes
  <2> QED
    BY <1>1, <2>1, FS_RemoveElement
<1>5. ASSUME to # "sent", stepAt[s] # "sent"
      PROVE  Cardinality(Uncounted') = Cardinality(Uncounted)
  <2>1. Uncounted' = Uncounted
    BY <1>5 DEF Uncounted, PolicyTypes
  <2> QED
    BY <2>1
<1> QED
  BY <1>2, <1>3, <1>4, <1>5

\* A step's goroutine: it offers a failure that nobody has.
LEMMA StepFails ==
  ASSUME PolicyKept, NEW s \in Steps, Finish(s) \/ offer(s) \/ countOffer(s) \/ ReleaseHeld(s)
  PROVE  PolicyKept'
<1> USE DEF countVars, workVars, gateVars, loopVars
<1>0. /\ \A i \in 1..Len(offers) : offers[i] \in Failures
      /\ Len(offers) \in Nat /\ accepted \in Nat /\ answered \in Nat
      /\ worker \in {"call", "file"} => workOn \in Failures
  BY DEF PolicyKept, PolicyTypes
<1>1. /\ UNCHANGED <<tries, undecided, decided, decisions, worker, workOn, heldPolicy, byPolicy, yes, spent,
                     lostDecisions, loop, quietBy, deciding, answered>>
      /\ \E to \in AnalyzedAt : stepAt' = [stepAt EXCEPT ![s] = to]
      /\ stepAt[s] \notin {"ok", "failed"} /\ (stepAt[s] \in Failing => stepAt'[s] \in Failing)
  BY DEF Finish, offer, countOffer, ReleaseHeld, AnalyzedAt, Failing, PolicyKept, PolicyTypes
<1>2. loop = "pass"
  BY <1>1 DEF PolicyKept, QuietKept, Busy
<1>3. YesKept' /\ QuietKept'
  BY <1>1, <1>2 DEF PolicyKept, YesKept, QuietKept
<1>4. \A id \in Failures : Latest(id, tries, stepAt) => Latest(id, tries', stepAt')
  BY <1>1, FailureParts DEF Latest, PolicyKept, PolicyTypes
<1>5. \A id \in decided : id[2] <= tries[id[1]] /\ (id[2] = tries[id[1]] => stepAt'[id[1]] \in Failing)
  BY <1>1, FailureParts DEF PolicyKept, PolicyTypes, GateKept
<1>6. CASE offers' = offers
  <2>1. PolicyTypes'
    BY <1>1, <1>6 DEF PolicyKept, PolicyTypes, Finish, offer, countOffer, ReleaseHeld
  <2>2. OffersKept' /\ WorkKept' /\ GateKept'
    <3>1. OffersKept'
      BY <1>0, <1>1, <1>4, <1>6 DEF PolicyKept, OffersKept
    <3>2. WorkKept'
      BY <1>1, <1>4, <1>6 DEF PolicyKept, WorkKept, PolicyTypes
    <3>3. GateKept'
      BY <1>1, <1>4, <1>5 DEF PolicyKept, GateKept, PolicyTypes
    <3> QED
      BY <3>1, <3>2, <3>3
  <2>3. CountsKept'
    <3>1. CASE countOffer(s)
      <4>1. stepAt[s] = "sent" /\ stepAt' = [stepAt EXCEPT ![s] = "handlers"] /\ accepted' = accepted + 1
        BY <3>1 DEF countOffer
      <4>2. Cardinality(Uncounted) \in Nat /\ Cardinality(Uncounted') = Cardinality(Uncounted) - 1
        BY <4>1, UncountedMoves DEF PolicyKept, AnalyzedAt
      <4> QED
        BY <4>1, <4>2, <1>1, <1>6 DEF PolicyKept, CountsKept, PolicyTypes
    <3>2. CASE accepted' = accepted /\ stepAt[s] # "sent" /\ stepAt'[s] # "sent"
      BY <3>2, <1>1, <1>6, UncountedMoves DEF PolicyKept, CountsKept, PolicyTypes
    <3> QED
      BY <1>6, <3>1, <3>2 DEF Finish, offer, ReleaseHeld, PolicyKept, PolicyTypes
  <2> QED
    BY <1>3, <2>1, <2>2, <2>3 DEF PolicyKept
<1>7. CASE offers' # offers
  <2>1. /\ offers' = Append(offers, <<s, tries[s]>>) /\ stepAt' = [stepAt EXCEPT ![s] = "sent"]
        /\ stepAt[s] = "finished" /\ accepted' = accepted
    BY <1>7 DEF Finish, offer, countOffer, ReleaseHeld
  <2> DEFINE id == <<s, tries[s]>>
  <2>2. id \in Failures /\ id[1] = s /\ id[2] = tries[s] /\ offers \in Seq(Failures)
    BY FailureParts DEF PolicyKept, PolicyTypes
  <2>3. ~Latest(id, tries, stepAt) /\ id \notin undecided /\ id \notin decided /\ (worker \in {"call", "file"} => workOn # id)
        /\ \A i \in 1..Len(offers) : offers[i] # id
    BY <2>1, <2>2 DEF Latest, Failing, PolicyKept, OffersKept, WorkKept, GateKept
  <2>4. Latest(id, tries', stepAt')
    BY <1>1, <2>1, <2>2 DEF Latest, Failing, PolicyKept, PolicyTypes
  <2> HIDE DEF id
  <2>5. /\ offers' \in Seq(Failures) /\ Len(offers') = Len(offers) + 1 /\ offers'[Len(offers) + 1] = id
        /\ (\A i \in 1..Len(offers) : offers'[i] = offers[i]) /\ Len(offers) \in Nat
    BY <2>1, <2>2 DEF id
  <2>9. \A i \in 1..Len(offers') : (i \in 1..Len(offers) /\ offers'[i] = offers[i]) \/ (i = Len(offers) + 1 /\ offers'[i] = id)
    BY <2>5
  <2>6. OffersKept' /\ WorkKept' /\ GateKept'
    <3>1. OffersKept'
      BY <1>0, <1>1, <1>4, <2>3, <2>4, <2>9 DEF PolicyKept, OffersKept
    <3>2. WorkKept'
      BY <1>0, <1>1, <1>4, <2>3, <2>9 DEF PolicyKept, WorkKept
    <3>3. GateKept'
      BY <1>1, <1>4, <1>5 DEF PolicyKept, GateKept, PolicyTypes
    <3> QED
      BY <3>1, <3>2, <3>3
  <2>7. CountsKept'
    <3>1. Cardinality(Uncounted) \in Nat /\ Cardinality(Uncounted') = Cardinality(Uncounted) + 1
      BY <2>1, UncountedMoves DEF PolicyKept, AnalyzedAt
    <3> QED
      BY <1>0, <2>1, <2>5, <3>1, <1>1 DEF PolicyKept, CountsKept
  <2>8. PolicyTypes'
    BY <1>1, <2>1, <2>5 DEF PolicyKept, PolicyTypes
  <2> QED
    BY <1>3, <2>6, <2>7, <2>8 DEF PolicyKept
<1> QED
  BY <1>6, <1>7

\* The analyzer's goroutine: it takes an offer, answers it, files a proposal
\* that nobody has, and asks the policy once a step.
LEMMA AnalyzerWorks ==
  ASSUME PolicyKept, work \/ workEnds \/ analyzeOne \/ file \/ maybeApplyPolicy
  PROVE  PolicyKept'
<1> USE DEF countVars, workVars, gateVars, loopVars, stepVars
<1>0. /\ \A i \in 1..Len(offers) : offers[i] \in Failures
      /\ Len(offers) \in Nat /\ accepted \in Nat /\ answered \in Nat /\ deciding \in Nat
      /\ UNCHANGED <<stepAt, tries, accepted, decided, heldPolicy, byPolicy, loop, quietBy>>
      /\ Uncounted' = Uncounted
  BY DEF PolicyKept, PolicyTypes, work, workEnds, analyzeOne, Answer, file, maybeApplyPolicy, Uncounted
<1>6. Cardinality(Uncounted) \in Nat
  BY AnalyzeAssumption, FS_Subset, FS_CardinalityType DEF Uncounted
<1>1. CASE work
  <2>1. /\ worker = "idle" /\ worker' = "call" /\ offers # <<>> /\ workOn' = Head(offers) /\ offers' = Tail(offers)
        /\ UNCHANGED <<answered, deciding, lostDecisions, undecided, spent, decisions, yes>>
    BY <1>1 DEF work
  <2>2. /\ offers' \in Seq(Failures) /\ Len(offers') = Len(offers) - 1 /\ 1 \in 1..Len(offers) /\ workOn' = offers[1]
        /\ \A i \in 1..Len(offers') : i + 1 \in 1..Len(offers) /\ offers'[i] = offers[i + 1]
    BY <2>1 DEF PolicyKept, PolicyTypes
  <2>3. PolicyTypes'
    BY <1>0, <2>1, <2>2 DEF PolicyKept, PolicyTypes, WorkerAt
  <2>4. OffersKept'
    BY <1>0, <2>1, <2>2 DEF PolicyKept, OffersKept
  <2>5. WorkKept'
    BY <1>0, <2>1, <2>2 DEF PolicyKept, OffersKept, WorkKept
  <2>6. CountsKept'
    BY <1>0, <1>6, <2>1, <2>2 DEF PolicyKept, CountsKept
  <2>7. YesKept' /\ GateKept' /\ QuietKept'
    BY <1>0, <2>1 DEF PolicyKept, YesKept, GateKept, QuietKept, Busy
  <2> QED
    BY <2>3, <2>4, <2>5, <2>6, <2>7 DEF PolicyKept
<1>2. CASE workEnds
  <2>1. worker = "idle" /\ worker' = "done"
        /\ UNCHANGED <<workOn, offers, answered, deciding, lostDecisions, undecided, spent, decisions, yes>>
    BY <1>2 DEF workEnds
  <2>2. PolicyTypes' /\ CountsKept'
    BY <1>0, <2>1 DEF PolicyKept, PolicyTypes, WorkerAt, CountsKept
  <2>3. OffersKept' /\ WorkKept' /\ GateKept'
    BY <1>0, <2>1 DEF PolicyKept, OffersKept, WorkKept, GateKept
  <2>4. YesKept' /\ QuietKept'
    BY <1>0, <2>1 DEF PolicyKept, YesKept, QuietKept, Busy
  <2> QED
    BY <2>2, <2>3, <2>4 DEF PolicyKept
<1>3. CASE analyzeOne
  <2>1. /\ worker = "call" /\ answered' = answered + 1
        /\ \/ worker' = "file" /\ deciding' = deciding + 1 /\ workOn' = workOn
           \/ worker' = "idle" /\ deciding' = deciding
        /\ UNCHANGED <<offers, lostDecisions, undecided, spent, decisions, yes>>
    BY <1>3 DEF analyzeOne, Answer
  <2>2. PolicyTypes' /\ CountsKept'
    BY <1>0, <1>6, <2>1 DEF PolicyKept, PolicyTypes, WorkerAt, CountsKept
  <2>3. OffersKept' /\ WorkKept' /\ GateKept'
    BY <1>0, <2>1 DEF PolicyKept, OffersKept, WorkKept, GateKept
  <2>4. YesKept' /\ QuietKept'
    BY <1>0, <2>1 DEF PolicyKept, YesKept, QuietKept, Busy
  <2> QED
    BY <2>2, <2>3, <2>4 DEF PolicyKept
<1>4. CASE file
  <2>1. /\ worker = "file" /\ workOn \in Failures
        /\ \/ worker' = "idle" /\ undecided' = undecided /\ deciding' = IF deciding > 0 THEN deciding - 1 ELSE 0
           \/ worker' = "policy" /\ undecided' = undecided \cup {workOn} /\ workOn' = workOn /\ deciding' = deciding
        /\ UNCHANGED <<offers, answered, lostDecisions, spent, decisions, yes>>
    BY <1>4 DEF file, PolicyKept, PolicyTypes
  <2>2. PolicyTypes' /\ CountsKept'
    BY <1>0, <2>1 DEF PolicyKept, PolicyTypes, WorkerAt, CountsKept
  <2>3. OffersKept' /\ WorkKept' /\ GateKept'
    BY <1>0, <2>1 DEF PolicyKept, OffersKept, WorkKept, GateKept
  <2>4. workOn \notin yes
    BY <2>1 DEF PolicyKept, WorkKept, YesKept
  <2>5. YesKept' /\ QuietKept'
    BY <1>0, <2>1, <2>4 DEF PolicyKept, YesKept, QuietKept, Busy
  <2> QED
    BY <2>2, <2>3, <2>5 DEF PolicyKept
<1>5. CASE maybeApplyPolicy
  <2>1. /\ worker = "policy" /\ worker' = "idle" /\ deciding' = (IF deciding > 0 THEN deciding - 1 ELSE 0)
        /\ UNCHANGED <<offers, answered, undecided>> /\ workOn \in Failures
    BY <1>5 DEF maybeApplyPolicy, PolicyKept, PolicyTypes
  <2>2. CASE UNCHANGED <<spent, decisions, yes, lostDecisions>>
    <3>1. PolicyTypes' /\ CountsKept'
      BY <1>0, <2>1, <2>2 DEF PolicyKept, PolicyTypes, WorkerAt, CountsKept
    <3>2. OffersKept' /\ WorkKept' /\ GateKept'
      BY <1>0, <2>1 DEF PolicyKept, OffersKept, WorkKept, GateKept
    <3>3. YesKept' /\ QuietKept'
      BY <1>0, <2>1, <2>2 DEF PolicyKept, YesKept, QuietKept, Busy
    <3> QED
      BY <3>1, <3>2, <3>3 DEF PolicyKept
  <2>3. CASE /\ workOn[1] \notin spent /\ spent' = spent \cup {workOn[1]} /\ yes' = yes \cup {workOn}
             /\ \/ decisions' = Append(decisions, workOn) /\ lostDecisions' = lostDecisions
                \/ lostDecisions' = lostDecisions \cup {workOn} /\ decisions' = decisions
    <3>1. /\ decisions' \in Seq(Failures) /\ Len(decisions') \in Nat
          /\ \A i \in 1..Len(decisions) : i \in 1..Len(decisions') /\ decisions'[i] = decisions[i]
          /\ \A i \in 1..Len(decisions') : (i \in 1..Len(decisions) /\ decisions'[i] = decisions[i]) \/ decisions'[i] = workOn
          /\ workOn \in lostDecisions' \/ \E i \in 1..Len(decisions') : decisions'[i] = workOn
      <4>1. decisions \in Seq(Failures)
        BY DEF PolicyKept, PolicyTypes
      <4>2. CASE decisions' = Append(decisions, workOn)
        <5>1. Len(decisions') = Len(decisions) + 1 /\ decisions'[Len(decisions) + 1] = workOn /\ Len(decisions) \in Nat
              /\ decisions' \in Seq(Failures) /\ \A i \in 1..Len(decisions) : decisions'[i] = decisions[i]
          BY <2>1, <4>1, <4>2
        <5>2. Len(decisions) + 1 \in 1..Len(decisions')
          BY <5>1
        <5> QED
          BY <5>1, <5>2
      <4>3. CASE lostDecisions' = lostDecisions \cup {workOn} /\ decisions' = decisions
        BY <4>1, <4>3
      <4> QED
        BY <2>3, <4>2, <4>3
    <3>2. PolicyTypes' /\ CountsKept'
      BY <1>0, <2>1, <3>1 DEF PolicyKept, PolicyTypes, WorkerAt, CountsKept
    <3>3. OffersKept' /\ WorkKept' /\ GateKept'
      BY <1>0, <2>1 DEF PolicyKept, OffersKept, WorkKept, GateKept
    <3>4. QuietKept'
      BY <1>0, <2>1 DEF PolicyKept, QuietKept, Busy
    <3>5. lostDecisions \subseteq lostDecisions' /\ workOn \in undecided \cup decided
      BY <2>1, <2>3 DEF PolicyKept, WorkKept
    <3>6. YesKept'
      BY <1>0, <2>1, <2>3, <3>1, <3>5 DEF PolicyKept, YesKept
    <3> QED
      BY <3>2, <3>3, <3>4, <3>6 DEF PolicyKept
  <2> QED
    BY <1>5, <2>2, <2>3 DEF maybeApplyPolicy
<1> QED
  BY <1>1, <1>2, <1>3, <1>4, <1>5

\* A decision that is carried out starts another attempt: nothing else is under
\* way about the failure it was made of.
LEMMA RemedyApplied ==
  ASSUME PolicyKept, NEW id \in undecided, NEW p, Applied(id, p),
         UNCHANGED <<offers, worker, workOn, accepted, answered, deciding>>
  PROVE  /\ stepAt' \in [Steps -> AnalyzedAt] /\ tries' \in [Steps -> Nat] /\ (\A s \in Steps : tries'[s] >= tries[s])
         /\ undecided' \subseteq Failures /\ decided' \subseteq Failures
         /\ OffersKept' /\ WorkKept' /\ GateKept' /\ CountsKept'
<1>1. /\ id \in Failures /\ id[1] \in Steps /\ id[2] = tries[id[1]] /\ id \notin decided
      /\ (\A i \in 1..Len(offers) : offers[i] \in Failures) /\ (worker \in {"call", "file"} => workOn \in Failures)
  BY FailureParts DEF PolicyKept, PolicyTypes, GateKept, Latest
<1>2. /\ stepAt[id[1]] = "failed" /\ stepAt' = [stepAt EXCEPT ![id[1]] = "running"]
      /\ tries' = [tries EXCEPT ![id[1]] = @ + 1] /\ undecided' = undecided \ {id} /\ decided' = decided \cup {id}
  BY DEF Applied, Retry
<1>3. /\ stepAt' \in [Steps -> AnalyzedAt] /\ tries' \in [Steps -> Nat] /\ (\A s \in Steps : tries'[s] >= tries[s])
      /\ undecided' \subseteq Failures /\ decided' \subseteq Failures
  BY <1>1, <1>2 DEF PolicyKept, PolicyTypes, AnalyzedAt
<1>4. \A a \in Failures : a # id /\ Latest(a, tries, stepAt) => Latest(a, tries', stepAt') /\ a[1] # id[1]
  BY <1>1, <1>2, FailureParts DEF Latest, PolicyKept, PolicyTypes
<1>5. OffersKept' /\ WorkKept'
  BY <1>1, <1>2, <1>4 DEF PolicyKept, OffersKept, WorkKept
<1>6. \A a \in decided' : a[2] <= tries'[a[1]] /\ (a[2] = tries'[a[1]] => stepAt'[a[1]] \in Failing)
  <2>1. SUFFICES ASSUME NEW a \in decided'
                 PROVE  a[2] <= tries'[a[1]] /\ (a[2] = tries'[a[1]] => stepAt'[a[1]] \in Failing)
    OBVIOUS
  <2>2. a \in Failures /\ a[1] \in Steps /\ a[2] \in Nat
    BY <1>3, FailureParts
  <2>3. CASE a[1] = id[1]
    <3>1. a[2] <= tries[id[1]] /\ tries'[id[1]] = tries[id[1]] + 1 /\ tries[id[1]] \in Nat
      BY <1>1, <1>2, <2>3 DEF PolicyKept, PolicyTypes, GateKept
    <3> QED
      BY <2>2, <2>3, <3>1
  <2>4. CASE a[1] # id[1]
    BY <1>1, <1>2, <2>2, <2>4 DEF PolicyKept, PolicyTypes, GateKept
  <2> QED
    BY <2>3, <2>4
<1>7. GateKept'
  BY <1>1, <1>2, <1>4, <1>6 DEF PolicyKept, PolicyTypes, GateKept
<1>8. CountsKept'
  <2>1. Cardinality(Uncounted') = Cardinality(Uncounted)
    BY <1>1, <1>2, UncountedMoves DEF PolicyKept, AnalyzedAt
  <2> QED
    BY <2>1 DEF PolicyKept, CountsKept
<1> QED
  BY <1>3, <1>5, <1>7, <1>8

\* The loop takes a yes: it is carried out, held for a goroutine that is still
\* finishing, or refused because somebody was first or the attempts are spent.
LEMMA YesServed ==
  ASSUME PolicyKept, NEW id \in yes, handleAnalysisAccept(id),
         UNCHANGED <<offers, worker, workOn, accepted, answered, deciding, lostDecisions, spent, yes>>,
         decisions' \in Seq(Failures), \A i \in 1..Len(decisions') : decisions'[i] \in yes,
         \A j \in 1..Len(decisions) : decisions[j] = id \/ \E i \in 1..Len(decisions') : decisions'[i] = decisions[j]
  PROVE  PolicyTypes' /\ OffersKept' /\ WorkKept' /\ GateKept' /\ CountsKept' /\ YesKept'
<1> USE DEF stepVars
<1>0. yes \subseteq Failures /\ id \in Failures /\ id[1] \in Steps
  BY FailureParts DEF PolicyKept, PolicyTypes, YesKept
<1>1. CASE UNCHANGED <<stepAt, tries, undecided, decided, byPolicy>>
  <2>1. PolicyTypes' /\ OffersKept' /\ WorkKept' /\ GateKept'
    BY <1>1 DEF PolicyKept, PolicyTypes, OffersKept, WorkKept, GateKept
  <2>2. CountsKept'
    BY <1>1 DEF PolicyKept, CountsKept, Uncounted
  <2>3. \/ heldPolicy' = heldPolicy \cup {id}
        \/ heldPolicy' = heldPolicy \ {id} /\ (id \in undecided => tries[id[1]] >= MaxAttempts)
    <3>1. CASE id \in undecided /\ Busy(id[1])
      BY <3>1 DEF handleAnalysisAccept
    <3>2. CASE ~(id \in undecided /\ Busy(id[1]))
      <4>1. heldPolicy' = heldPolicy \ {id} /\ (Applied(id, TRUE) \/ Refused(id))
        BY <3>2 DEF handleAnalysisAccept
      <4>2. id \in undecided => stepAt[id[1]] = "failed"
        BY <3>2 DEF Busy, PolicyKept, GateKept, Latest, Failing
      <4>3. id \in undecided => ~Applied(id, TRUE)
        BY <1>0, <1>1 DEF Applied, PolicyKept, GateKept
      <4>4. id \in undecided => tries[id[1]] >= MaxAttempts
        BY <4>1, <4>2, <4>3 DEF Refused
      <4> QED
        BY <4>1, <4>4
    <3> QED
      BY <3>1, <3>2
  <2>4. YesKept'
    BY <1>1, <2>3 DEF PolicyKept, YesKept
  <2> QED
    BY <2>1, <2>2, <2>4
<1>2. CASE id \in undecided /\ Applied(id, TRUE) /\ heldPolicy' = heldPolicy \ {id}
  <2>1. /\ PolicyTypes' /\ OffersKept' /\ WorkKept' /\ GateKept' /\ CountsKept'
        /\ \A s \in Steps : tries'[s] >= tries[s] /\ tries[s] \in Nat /\ tries'[s] \in Nat
    BY <1>2, RemedyApplied DEF PolicyKept, PolicyTypes
  <2>2. undecided' = undecided \ {id} /\ decided' = decided \cup {id} /\ byPolicy' = byPolicy \cup {id}
    BY <1>2 DEF Applied
  <2>3. \A a \in yes : tries[a[1]] >= MaxAttempts => tries'[a[1]] >= MaxAttempts
    BY <1>0, <2>1, FailureParts, AnalyzeAssumption
  <2>4. YesKept'
    BY <1>2, <2>2, <2>3 DEF PolicyKept, YesKept
  <2> QED
    BY <2>1, <2>4
<1> QED
  BY <1>1, <1>2 DEF handleAnalysisAccept, Refused

\* The passes of the loop and its end.
LEMMA LoopServes ==
  ASSUME PolicyKept,
         \/ servePolicy \/ serveHeld \/ clientDecides \/ passDone \/ waitQuiet \/ settlePolicy \/ drain
         \/ UNCHANGED analyzeVars
  PROVE  PolicyKept'
<1> USE DEF countVars, workVars, gateVars, loopVars, stepVars
<1>1. CASE decisions # <<>> /\ decisions' = Tail(decisions) /\ handleAnalysisAccept(Head(decisions)) /\ loop' = "pass"
           /\ UNCHANGED <<offers, worker, workOn, accepted, answered, deciding, lostDecisions, spent, yes>>
  <2>1. /\ decisions \in Seq(Failures) /\ decisions' \in Seq(Failures) /\ Head(decisions) = decisions[1]
        /\ Len(decisions') = Len(decisions) - 1 /\ Len(decisions) \in Nat \ {0}
        /\ \A i \in 1..Len(decisions') : decisions'[i] = decisions[i + 1]
    BY <1>1 DEF PolicyKept, PolicyTypes
  <2>2. Head(decisions) \in yes /\ \A i \in 1..Len(decisions') : decisions'[i] \in yes
    BY <2>1 DEF PolicyKept, YesKept
  <2>3. ASSUME NEW j \in 1..Len(decisions)
        PROVE  decisions[j] = Head(decisions) \/ \E i \in 1..Len(decisions') : decisions'[i] = decisions[j]
    <3>1. CASE j = 1
      BY <2>1, <3>1
    <3>2. CASE j # 1
      <4>1. j - 1 \in 1..Len(decisions') /\ decisions'[j - 1] = decisions[j]
        BY <2>1, <3>2
      <4> QED
        BY <4>1
    <3> QED
      BY <3>1, <3>2
  <2>4. PolicyTypes' /\ OffersKept' /\ WorkKept' /\ GateKept' /\ CountsKept' /\ YesKept'
    BY <1>1, <2>1, <2>2, <2>3, YesServed
  <2> QED
    BY <1>1, <2>4 DEF PolicyKept, QuietKept
<1>2. CASE serveHeld
  <2>1. PICK id \in heldPolicy : handleAnalysisAccept(id)
    BY <1>2 DEF serveHeld
  <2>2. id \in yes /\ decisions' = decisions /\ decisions \in Seq(Failures) /\ \A i \in 1..Len(decisions) : decisions[i] \in yes
    BY <1>2 DEF serveHeld, PolicyKept, YesKept, PolicyTypes
  <2>3. UNCHANGED <<offers, worker, workOn, accepted, answered, deciding, lostDecisions, spent, yes>>
    BY <1>2 DEF serveHeld
  <2>4. PolicyTypes' /\ OffersKept' /\ WorkKept' /\ GateKept' /\ CountsKept' /\ YesKept'
    BY <2>1, <2>2, <2>3, YesServed
  <2> QED
    BY <1>2, <2>4 DEF PolicyKept, QuietKept, serveHeld
<1>3. CASE clientDecides
  <2>1. /\ loop' = "pass"
        /\ UNCHANGED <<offers, worker, workOn, accepted, answered, deciding, lostDecisions, spent, yes, decisions, heldPolicy>>
    BY <1>3 DEF clientDecides
  <2>2. PICK id \in undecided :
          \/ Applied(id, FALSE)
          \/ undecided' = undecided \ {id} /\ decided' = decided \cup {id} /\ UNCHANGED <<stepVars, byPolicy>>
    BY <1>3 DEF clientDecides
  <2>3. undecided' = undecided \ {id} /\ decided' = decided \cup {id} /\ byPolicy' = byPolicy
    BY <2>2 DEF Applied
  <2>4. /\ PolicyTypes' /\ OffersKept' /\ WorkKept' /\ GateKept' /\ CountsKept'
        /\ \A s \in Steps : tries'[s] >= tries[s] /\ tries[s] \in Nat /\ tries'[s] \in Nat
    <3>1. CASE Applied(id, FALSE)
      BY <2>1, <3>1, RemedyApplied DEF PolicyKept, PolicyTypes
    <3>2. CASE UNCHANGED <<stepAt, tries>>
      <4>1. id \in Failures /\ id \notin decided /\ Latest(id, tries, stepAt) /\ id[1] \in Steps /\ id[2] \in Nat
        BY FailureParts DEF PolicyKept, PolicyTypes, GateKept
      <4>2. PolicyTypes' /\ OffersKept' /\ WorkKept'
        BY <2>1, <2>3, <3>2, <4>1 DEF PolicyKept, PolicyTypes, OffersKept, WorkKept
      <4>3. GateKept'
        BY <2>1, <2>3, <3>2, <4>1 DEF PolicyKept, PolicyTypes, GateKept, Latest
      <4>4. CountsKept'
        BY <2>1, <3>2 DEF PolicyKept, CountsKept, Uncounted
      <4> QED
        BY <3>2, <4>2, <4>3, <4>4 DEF PolicyKept, PolicyTypes
    <3> QED
      BY <2>2, <3>1, <3>2
  <2>5. \A a \in yes : a[1] \in Steps
    BY FailureParts DEF PolicyKept, PolicyTypes, YesKept
  <2>6. YesKept'
    BY <2>1, <2>3, <2>4, <2>5, AnalyzeAssumption DEF PolicyKept, YesKept
  <2> QED
    BY <2>1, <2>4, <2>6 DEF PolicyKept, QuietKept
<1>4. CASE passDone \/ waitQuiet \/ (settlePolicy /\ decisions = <<>>) \/ drain \/ UNCHANGED analyzeVars
  <2>1. UNCHANGED <<stepAt, tries, offers, worker, workOn, accepted, answered, deciding, lostDecisions, spent, yes, decisions,
                    heldPolicy, byPolicy, undecided, decided>>
    BY <1>4 DEF passDone, waitQuiet, settlePolicy, drain, analyzeVars
  <2>2. PolicyTypes' /\ OffersKept' /\ WorkKept' /\ GateKept'
    BY <2>1 DEF PolicyKept, PolicyTypes, OffersKept, WorkKept, GateKept
  <2>3. CountsKept' /\ YesKept'
    BY <2>1 DEF PolicyKept, CountsKept, Uncounted, YesKept
  <2>4. QuietKept'
    <3>1. CASE passDone
      <4>1. heldPolicy = {}
        BY <3>1, FailureParts DEF passDone, PolicyKept, PolicyTypes, YesKept
      <4> QED
        BY <2>1, <3>1, <4>1 DEF passDone, QuietKept, Busy
    <3>2. CASE waitQuiet
      <4>1. CASE accepted = answered /\ deciding = 0
        <5>1. Uncounted = {}
          BY <3>2 DEF waitQuiet, PolicyKept, QuietKept, Busy, Uncounted
        <5>2. Len(offers) = 0 /\ worker # "call" /\ worker \notin {"file", "policy"}
          BY <4>1, <5>1, FS_EmptySet DEF PolicyKept, CountsKept, PolicyTypes
        <5>3. offers = <<>> /\ worker \in {"idle", "done"}
          BY <5>2 DEF PolicyKept, PolicyTypes, WorkerAt
        <5> QED
          BY <2>1, <3>2, <5>3 DEF waitQuiet, PolicyKept, QuietKept, Busy
      <4>2. CASE quietBy' = "grace"
        BY <2>1, <3>2, <4>2 DEF waitQuiet, PolicyKept, QuietKept, Busy
      <4> QED
        BY <3>2, <4>1, <4>2 DEF waitQuiet
    <3>3. CASE settlePolicy /\ decisions = <<>>
      BY <2>1, <3>3 DEF settlePolicy, PolicyKept, QuietKept, Busy
    <3>4. CASE drain \/ UNCHANGED analyzeVars
      BY <2>1, <3>4 DEF drain, analyzeVars, PolicyKept, QuietKept, Busy
    <3> QED
      BY <1>4, <3>1, <3>2, <3>3, <3>4
  <2> QED
    BY <2>2, <2>3, <2>4 DEF PolicyKept
<1>5. CASE servePolicy
  BY <1>1, <1>5 DEF servePolicy
<1>6. CASE settlePolicy /\ decisions # <<>>
  BY <1>1, <1>6 DEF settlePolicy
<1> QED
  BY <1>2, <1>3, <1>4, <1>5, <1>6

\* For any steps, attempts and queue sizes, and whatever clients decide: the
\* policy's yes is carried out at most once a step, a loop that ended because
\* everything was quiet has served every one, and one that was taken before the
\* end is carried out, held, lost and counted, or too late (analyze.go:276,
\* 337, 356; control.go:230).
THEOREM PolicyServed == AnalyzeSpec => []PolicyIsServed
<1>1. AnalyzeInit => PolicyKept
  <2>1. SUFFICES ASSUME AnalyzeInit PROVE PolicyKept
    OBVIOUS
  <2>2. Uncounted = {} /\ Cardinality(Uncounted) = 0
    BY <2>1, FS_EmptySet DEF AnalyzeInit, Uncounted
  <2>3. /\ offers = <<>> /\ decisions = <<>> /\ Len(offers) = 0 /\ Len(decisions) = 0
        /\ worker = "idle" /\ loop = "pass" /\ accepted = 0 /\ answered = 0 /\ deciding = 0
        /\ undecided = {} /\ decided = {} /\ yes = {} /\ heldPolicy = {} /\ byPolicy = {}
    BY <2>1 DEF AnalyzeInit
  <2>4. stepAt \in [Steps -> AnalyzedAt] /\ tries \in [Steps -> Nat]
    BY <2>1 DEF AnalyzeInit, AnalyzedAt
  <2>5. PolicyTypes /\ CountsKept /\ QuietKept
    BY <2>2, <2>3, <2>4 DEF PolicyTypes, WorkerAt, CountsKept, QuietKept
  <2>6. OffersKept /\ WorkKept /\ GateKept /\ YesKept
    BY <2>3 DEF OffersKept, WorkKept, GateKept, YesKept
  <2> QED
    BY <2>5, <2>6 DEF PolicyKept
<1>2. PolicyKept /\ [AnalyzeNext]_analyzeVars => PolicyKept'
  BY StepFails, AnalyzerWorks, LoopServes DEF AnalyzeNext
<1>3. PolicyKept => PolicyIsServed
  <2>1. SUFFICES ASSUME PolicyKept PROVE PolicyIsServed
    OBVIOUS
  <2>2. ASSUME NEW s \in Steps
        PROVE  Cardinality({id \in byPolicy : id[1] = s}) <= 1
    <3> DEFINE S == {id \in byPolicy : id[1] = s}
    <3>1. \A a, b \in S : a = b
      BY <2>1 DEF PolicyKept, YesKept
    <3>2. CASE S = {}
      BY <3>2, FS_EmptySet
    <3>3. CASE S # {}
      <4>1. PICK a \in S : TRUE
        BY <3>3
      <4>2. S = {a}
        BY <3>1, <4>1
      <4>3. Cardinality({a}) = 1
        BY FS_Singleton
      <4> QED
        BY <4>2, <4>3
    <3> QED
      BY <3>2, <3>3
  <2>3. undecided \cap decided = {}
    BY <2>1 DEF PolicyKept, GateKept
  <2>4. loop = "over" /\ quietBy = "quiet" => decisions = <<>> /\ heldPolicy = {} /\ worker \notin {"file", "policy"}
    BY <2>1 DEF PolicyKept, QuietKept
  <2>5. \A id \in yes : id \in undecided => id \in ToSet(decisions) \cup heldPolicy \cup lostDecisions \/ tries[id[1]] >= MaxAttempts
    BY <2>1 DEF PolicyKept, PolicyTypes, YesKept, ToSet
  <2> QED
    BY <2>2, <2>3, <2>4, <2>5 DEF PolicyIsServed
<1> QED
  BY <1>1, <1>2, <1>3, PTL DEF AnalyzeSpec

-----------------------------------------------------------------------------
(* Triggers.                                                               *)

\* A set of naturals that is not empty has a least element.
LEMMA LeastOfSome ==
  ASSUME NEW T, T \subseteq Nat, T # {}
  PROVE  Min(T) \in T /\ \A y \in T : Min(T) <= y
<1> DEFINE R == {p \in Nat \X Nat : p[1] < p[2]}
<1>1. IsWellFoundedOn(R, Nat)
  BY NatLessThanWellFounded, Zenon DEF OpToRel
<1> HIDE DEF R
<1>2. PICK x \in T : \A y \in T : ~(<<y, x>> \in R)
  BY <1>1, WFMin
<1>3. \A y \in T : ~(y < x)
  BY <1>2 DEF R
<1>4. \A y \in T : x <= y
  BY <1>3
<1> QED
  BY <1>4 DEF Min


\* FirstDifference is the first answer that is not equal.
LEMMA FirstDifferenceIs ==
  ASSUME NEW s, NEW n \in Nat, Len(s) = n
  PROVE  \/ (\A j \in 1..n : s[j] = 1) /\ FirstDifference(s) = 1
         \/ \E k \in 1..n : s[k] # 1 /\ (\A j \in 1..n : j < k => s[j] = 1) /\ FirstDifference(s) = s[k]
<1> DEFINE I == {i \in 1..Len(s) : s[i] # 1}
<1>1. CASE I = {}
  BY <1>1 DEF FirstDifference, SelectInSeq
<1>2. CASE I # {}
  <2>1. I \subseteq Nat
    OBVIOUS
  <2>2. Min(I) \in I /\ \A y \in I : Min(I) <= y
    BY <1>2, <2>1, LeastOfSome
  <2>3. SelectInSeq(s, LAMBDA c : c # 1) = Min(I)
    BY <1>2 DEF SelectInSeq
  <2>4. Min(I) # 0
    BY <2>2
  <2>5. FirstDifference(s) = s[Min(I)]
    BY <2>3, <2>4 DEF FirstDifference
  <2>6. \A j \in 1..n : j < Min(I) => s[j] = 1
    BY <2>2
  <2> QED
    BY <2>2, <2>5, <2>6
<1> QED
  BY <1>1, <1>2

\* One identifier of a pre-release before another.
IdBelow(x, y) == x[1] < y[1] \/ (x[1] = y[1] /\ x[2] < y[2])

LEMMA ComparedInts ==
  ASSUME NEW x \in Nat, NEW y \in Nat
  PROVE  (cmpInt(x, y) = 1 <=> x = y) /\ (cmpInt(x, y) = 0 <=> x < y)
BY DEF cmpInt

\* comparePreID: numeric identifiers below the others.
LEMMA ComparedIds ==
  ASSUME NEW x \in {0, 1} \X Nat, NEW y \in {0, 1} \X Nat
  PROVE  (comparePreID(x, y) = 1 <=> x = y) /\ (comparePreID(x, y) = 0 <=> IdBelow(x, y))
<1>1. x[1] \in {0, 1} /\ x[2] \in Nat /\ y[1] \in {0, 1} /\ y[2] \in Nat /\ x = <<x[1], x[2]>> /\ y = <<y[1], y[2]>>
  OBVIOUS
<1>2. CASE x[1] = y[1]
  <2>1. comparePreID(x, y) = cmpInt(x[2], y[2])
    BY <1>1, <1>2 DEF comparePreID
  <2>2. x = y <=> x[2] = y[2]
    BY <1>1, <1>2
  <2>3. IdBelow(x, y) <=> x[2] < y[2]
    BY <1>1, <1>2 DEF IdBelow
  <2> QED
    BY <1>1, <2>1, <2>2, <2>3, ComparedInts
<1>3. CASE x[1] = 0 /\ y[1] = 1
  BY <1>1, <1>3 DEF comparePreID, IdBelow
<1>4. CASE x[1] = 1 /\ y[1] = 0
  BY <1>1, <1>4 DEF comparePreID, IdBelow
<1> QED
  BY <1>1, <1>2, <1>3, <1>4

\* comparePre is the order of pre-releases.
LEMMA ComparedPres ==
  ASSUME NEW a \in Seq({0, 1} \X Nat), NEW b \in Seq({0, 1} \X Nat)
  PROVE  (comparePre(a, b) = 1 <=> a = b) /\ (comparePre(a, b) = 0 <=> PreBelow(a, b)) /\ comparePre(a, b) \in {0, 1, 2}
<1> DEFINE IdSet == {0, 1} \X Nat
<1>0. a \in Seq(IdSet) /\ b \in Seq(IdSet)
  OBVIOUS
<1>1. /\ Len(a) \in Nat /\ Len(b) \in Nat /\ (a = <<>> <=> Len(a) = 0) /\ (b = <<>> <=> Len(b) = 0)
      /\ (\A i \in 1..Len(a) : a[i] \in IdSet) /\ (\A i \in 1..Len(b) : b[i] \in IdSet) /\ DOMAIN a = 1..Len(a)
  <2> HIDE DEF IdSet
  <2> QED
    BY <1>0
<1>2. (Len(a) = Len(b) /\ \A i \in 1..Len(a) : a[i] = b[i]) => a = b
  <2> HIDE DEF IdSet
  <2> QED
    BY <1>0, SeqEqual
<1>3. \A i \in 1..Len(b) : i > Len(a) \/ a[i][1] < b[i][1] \/ (a[i][1] = b[i][1] /\ a[i][2] < b[i][2]) <=> i > Len(a) \/ IdBelow(a[i], b[i])
  BY DEF IdBelow
<1>4. PreBelow(a, b) <=>
        \/ a # <<>> /\ b = <<>>
        \/ \E i \in 1..Len(b) : /\ a # <<>> /\ (\A j \in 1..i - 1 : j \in DOMAIN a /\ a[j] = b[j])
                                /\ i > Len(a) \/ IdBelow(a[i], b[i])
  BY <1>3 DEF PreBelow
<1>5. CASE a = <<>> /\ b = <<>>
  BY <1>1, <1>4, <1>5 DEF comparePre
<1>6. CASE a = <<>> /\ b # <<>>
  BY <1>1, <1>4, <1>6 DEF comparePre
<1>7. CASE a # <<>> /\ b = <<>>
  BY <1>1, <1>4, <1>7 DEF comparePre
<1>8. CASE a # <<>> /\ b # <<>>
  <2> DEFINE both == IF Len(a) < Len(b) THEN Len(a) ELSE Len(b)
             u == [i \in 1..both |-> comparePreID(a[i], b[i])]
             s == u \o <<cmpInt(Len(a), Len(b))>>
  <2>1. comparePre(a, b) = FirstDifference(s)
    BY <1>8 DEF comparePre
  <2>2. both \in Nat /\ both <= Len(a) /\ both <= Len(b) /\ (Len(a) = Len(b) => both = Len(a)) /\ (both = Len(a) \/ both = Len(b))
    BY <1>1
  <2>14. \A i \in 1..both : i \in 1..Len(a) /\ i \in 1..Len(b) /\ i \in 1..both + 1 /\ i \in Nat
    BY <1>1, <2>2
  <2>15. \A i \in 1..both : a[i] \in {0, 1} \X Nat /\ b[i] \in {0, 1} \X Nat
    BY <1>1, <2>14 DEF IdSet
  <2> DEFINE c == cmpInt(Len(a), Len(b))
  <2> HIDE DEF both, c, IdSet
  <2>3. /\ u \in Seq({0, 1, 2}) /\ Len(u) = both /\ (\A i \in 1..both : u[i] = comparePreID(a[i], b[i]))
    <3>1. \A i \in 1..both : comparePreID(a[i], b[i]) \in {0, 1, 2}
      <4> TAKE i \in 1..both
      <4>1. a[i] \in {0, 1} \X Nat /\ b[i] \in {0, 1} \X Nat
        BY <2>15
      <4> QED
        BY <4>1 DEF comparePreID, cmpInt
    <3>2. u \in [1..both -> {0, 1, 2}]
      BY <3>1
    <3> QED
      BY <2>2, <3>2
  <2>4. c \in {0, 1, 2} /\ <<c>> \in Seq({0, 1, 2}) /\ Len(<<c>>) = 1 /\ <<c>>[1] = c
    BY DEF c, cmpInt
  <2> HIDE DEF u
  <2>5. s = u \o <<c>>
    BY DEF c
  <2> HIDE DEF s
  <2>6. Len(s) = both + 1 /\ s[both + 1] = c /\ \A i \in 1..both : s[i] = u[i]
    <3>1. Len(u \o <<c>>) = Len(u) + 1 /\ (u \o <<c>>)[Len(u) + 1] = c /\ \A i \in 1..Len(u) : (u \o <<c>>)[i] = u[i]
      <4>1. u \in Seq({0, 1, 2}) /\ c \in {0, 1, 2}
        BY <2>3, <2>4
      <4>2. u \o <<c>> = Append(u, c)
        BY ONLY <4>1
      <4> QED
        BY <4>1, <4>2, AppendProperties
    <3> QED
      BY <2>3, <2>5, <3>1
  <2>7. \A i \in 1..both : (s[i] = 1 <=> a[i] = b[i]) /\ (s[i] = 0 <=> IdBelow(a[i], b[i]))
    <3> TAKE i \in 1..both
    <3>1. a[i] \in {0, 1} \X Nat /\ b[i] \in {0, 1} \X Nat
      BY <2>15
    <3>2. s[i] = comparePreID(a[i], b[i])
      BY <2>3, <2>6
    <3>3. (comparePreID(a[i], b[i]) = 1 <=> a[i] = b[i]) /\ (comparePreID(a[i], b[i]) = 0 <=> IdBelow(a[i], b[i]))
      BY <3>1, ComparedIds
    <3> QED
      BY <3>2, <3>3
  <2>8. (c = 1 <=> Len(a) = Len(b)) /\ (c = 0 <=> Len(a) < Len(b))
    BY <1>1, ComparedInts DEF c
  <2>9. \A i \in 1..both : a[i] = b[i] => ~IdBelow(a[i], b[i])
    <3> TAKE i \in 1..both
    <3>1. a[i] \in {0, 1} \X Nat /\ b[i] \in {0, 1} \X Nat
      BY <2>15
    <3> QED
      BY <3>1 DEF IdBelow
  <2>10. CASE (\A j \in 1..both + 1 : s[j] = 1) /\ FirstDifference(s) = 1
    <3>1. Len(a) = Len(b) /\ \A i \in 1..Len(a) : a[i] = b[i]
      BY <2>2, <2>6, <2>7, <2>8, <2>10
    <3>2. ~PreBelow(a, b)
      BY <1>1, <1>4, <1>8, <2>2, <2>9, <3>1
    <3> QED
      BY <1>2, <2>1, <2>10, <3>1, <3>2
  <2>11. ASSUME NEW k \in 1..both + 1, s[k] # 1, \A j \in 1..both + 1 : j < k => s[j] = 1, FirstDifference(s) = s[k]
         PROVE  (comparePre(a, b) = 1 <=> a = b) /\ (comparePre(a, b) = 0 <=> PreBelow(a, b)) /\ comparePre(a, b) \in {0, 1, 2}
    <3>1. \A j \in 1..both : j < k => a[j] = b[j]
      BY <2>7, <2>11, <2>14
    <3>4. k \in Nat /\ both \in Nat /\ Len(a) \in Nat /\ Len(b) \in Nat
      <4>1. both \in Nat /\ Len(a) \in Nat /\ Len(b) \in Nat
        BY <1>1, <2>2
      <4>2. k \in Nat
        BY ONLY <4>1, k \in 1..both + 1
      <4> QED
        BY <4>1, <4>2
    <3>5. s[k] \in {0, 1, 2}
      BY <2>3, <2>4, <2>6, <3>4
    <3>2. CASE k = both + 1
      <4>1. Len(a) # Len(b) /\ a # b /\ s[k] = c
        BY <2>6, <2>8, <2>11, <3>2
      <4>2. ASSUME Len(a) < Len(b) PROVE PreBelow(a, b)
        <5>1. Len(a) + 1 \in 1..Len(b) /\ Len(a) + 1 > Len(a) /\ both = Len(a) /\ (Len(a) + 1) - 1 = Len(a)
          BY <2>2, <3>4, <4>2
        <5>2. \A j \in 1..both : j < k
          BY <3>2, <3>4
        <5>3. \A j \in 1..Len(a) : j \in DOMAIN a /\ a[j] = b[j]
          BY <1>1, <3>1, <5>1, <5>2
        <5> QED
          BY <1>4, <1>8, <5>1, <5>3
      <4>3. ASSUME PreBelow(a, b) PROVE Len(a) < Len(b)
        <5>1. PICK i \in 1..Len(b) : i > Len(a) \/ IdBelow(a[i], b[i])
          BY <1>4, <1>8, <4>3
        <5>2. \A j \in 1..both : j < k
          BY <3>2, <3>4
        <5>3. i \in 1..both => ~IdBelow(a[i], b[i])
          BY <2>9, <3>1, <5>2
        <5>4. i \in 1..both \/ i > both
          BY <3>4
        <5>5. i \in 1..both => i <= Len(a)
          BY <2>14, <3>4
        <5>6. i > both
          BY <3>4, <5>1, <5>3, <5>4, <5>5
        <5> QED
          BY <2>2, <3>4, <5>6
      <4> QED
        BY <2>1, <2>8, <2>11, <3>5, <4>1, <4>2, <4>3
    <3>3. CASE k \in 1..both
      <4>1. a[k] # b[k] /\ (s[k] = 0 <=> IdBelow(a[k], b[k]))
        BY <2>7, <2>11, <3>3
      <4>2. ASSUME IdBelow(a[k], b[k]) PROVE PreBelow(a, b)
        <5>1. k \in 1..Len(b) /\ \A j \in 1..k - 1 : j \in DOMAIN a /\ a[j] = b[j]
          <6>1. \A j \in 1..k - 1 : j \in 1..both /\ j < k
            BY <3>3, <3>4
          <6> QED
            BY <1>1, <2>14, <3>1, <3>3, <6>1
        <5> QED
          BY <1>4, <1>8, <4>2, <5>1
      <4>3. ASSUME PreBelow(a, b) PROVE IdBelow(a[k], b[k])
        <5>1. PICK i \in 1..Len(b) : (\A j \in 1..i - 1 : j \in DOMAIN a /\ a[j] = b[j]) /\ (i > Len(a) \/ IdBelow(a[i], b[i]))
          BY <1>4, <1>8, <4>3
        <5>2. ~(k < i)
          <6>1. k < i => k \in 1..i - 1
            BY <3>3, <3>4
          <6> QED
            BY <4>1, <5>1, <6>1
        <5>3. i \in 1..both /\ i <= Len(a) /\ ~(i > Len(a))
          <6>1. i \in 1..both
            BY <3>3, <3>4, <5>2
          <6> QED
            BY <2>14, <3>4, <6>1
        <5>4. ~(i < k)
          BY <2>9, <3>1, <5>1, <5>3
        <5>5. i = k
          BY <5>2, <5>3, <5>4, <3>3
        <5> QED
          BY <1>1, <5>1, <5>3, <5>5
      <4>4. a # b
        BY <4>1
      <4> QED
        BY <2>1, <2>11, <3>5, <4>1, <4>2, <4>3, <4>4
    <3> QED
      BY <2>2, <3>2, <3>3
  <2>12. both + 1 \in Nat
    BY <2>2
  <2>13. \/ (\A j \in 1..both + 1 : s[j] = 1) /\ FirstDifference(s) = 1
         \/ \E k \in 1..both + 1 : s[k] # 1 /\ (\A j \in 1..both + 1 : j < k => s[j] = 1) /\ FirstDifference(s) = s[k]
    BY <2>6, <2>12, FirstDifferenceIs
  <2> QED
    BY <2>10, <2>11, <2>13
<1> QED
  BY <1>5, <1>6, <1>7, <1>8

\* compareVersions is the precedence of versions.
LEMMA ComparedVersions ==
  ASSUME NEW v, NEW w, IsVersion(v), IsVersion(w)
  PROVE  (compareVersions(v, w) = 1 <=> v = w) /\ (compareVersions(v, w) = 0 <=> Below(v, w)) /\ compareVersions(v, w) \in {0, 1, 2}
<1> DEFINE c1 == cmpInt(v[1], w[1])
           c2 == cmpInt(v[2], w[2])
           c3 == cmpInt(v[3], w[3])
           c4 == comparePre(v[4], w[4])
           s == <<c1, c2, c3, c4>>
<1>1. /\ {v[1], v[2], v[3], w[1], w[2], w[3]} \subseteq Nat /\ v[4] \in Seq({0, 1} \X Nat) /\ w[4] \in Seq({0, 1} \X Nat)
      /\ v = <<v[1], v[2], v[3], v[4]>> /\ w = <<w[1], w[2], w[3], w[4]>>
  BY DEF IsVersion
<1>2. /\ (c1 = 1 <=> v[1] = w[1]) /\ (c1 = 0 <=> v[1] < w[1])
      /\ (c2 = 1 <=> v[2] = w[2]) /\ (c2 = 0 <=> v[2] < w[2])
      /\ (c3 = 1 <=> v[3] = w[3]) /\ (c3 = 0 <=> v[3] < w[3])
  BY <1>1, ComparedInts
<1>3. (c4 = 1 <=> v[4] = w[4]) /\ (c4 = 0 <=> PreBelow(v[4], w[4]))
  BY <1>1, ComparedPres
<1>4. v = w <=> (v[1] = w[1] /\ v[2] = w[2] /\ v[3] = w[3] /\ v[4] = w[4])
  BY <1>1
<1>5. Below(v, w) <=> \/ v[1] < w[1]
                      \/ v[1] = w[1] /\ v[2] < w[2]
                      \/ v[1] = w[1] /\ v[2] = w[2] /\ v[3] < w[3]
                      \/ v[1] = w[1] /\ v[2] = w[2] /\ v[3] = w[3] /\ PreBelow(v[4], w[4])
  <2>1. \A i \in 1..3 : i = 1 \/ i = 2 \/ i = 3
    OBVIOUS
  <2>2. 1 \in 1..3 /\ 2 \in 1..3 /\ 3 \in 1..3 /\ 1..1 - 1 = {} /\ 1..2 - 1 = {1} /\ 1..3 - 1 = {1, 2}
    OBVIOUS
  <2>3. (\A i \in 1..3 : v[i] = w[i]) <=> (v[1] = w[1] /\ v[2] = w[2] /\ v[3] = w[3])
    BY <2>1, <2>2
  <2>4. (\E i \in 1..3 : v[i] < w[i] /\ \A j \in 1..i - 1 : v[j] = w[j]) <=>
          \/ v[1] < w[1] /\ \A j \in 1..1 - 1 : v[j] = w[j]
          \/ v[2] < w[2] /\ \A j \in 1..2 - 1 : v[j] = w[j]
          \/ v[3] < w[3] /\ \A j \in 1..3 - 1 : v[j] = w[j]
    BY <2>1, <2>2
  <2> QED
    BY <2>2, <2>3, <2>4 DEF Below
<1>6. compareVersions(v, w) = FirstDifference(s)
  BY DEF compareVersions
<1> HIDE DEF c1, c2, c3, c4
<1>7. Len(s) = 4 /\ s[1] = c1 /\ s[2] = c2 /\ s[3] = c3 /\ s[4] = c4
  OBVIOUS
<1> HIDE DEF s
<1>8. \/ (\A j \in 1..4 : s[j] = 1) /\ FirstDifference(s) = 1
      \/ \E k \in 1..4 : s[k] # 1 /\ (\A j \in 1..4 : j < k => s[j] = 1) /\ FirstDifference(s) = s[k]
  BY <1>7, FirstDifferenceIs
<1>9. FirstDifference(s) = IF c1 # 1 THEN c1 ELSE IF c2 # 1 THEN c2 ELSE IF c3 # 1 THEN c3 ELSE c4
  <2>1. CASE (\A j \in 1..4 : s[j] = 1) /\ FirstDifference(s) = 1
    BY <1>7, <2>1
  <2>2. ASSUME NEW k \in 1..4, s[k] # 1, \A j \in 1..4 : j < k => s[j] = 1, FirstDifference(s) = s[k]
        PROVE  FirstDifference(s) = IF c1 # 1 THEN c1 ELSE IF c2 # 1 THEN c2 ELSE IF c3 # 1 THEN c3 ELSE c4
    <3>1. CASE k = 1
      BY <1>7, <2>2, <3>1
    <3>2. CASE k = 2
      BY <1>7, <2>2, <3>2
    <3>3. CASE k = 3
      BY <1>7, <2>2, <3>3
    <3>4. CASE k = 4
      BY <1>7, <2>2, <3>4
    <3> QED
      BY <3>1, <3>2, <3>3, <3>4
  <2> QED
    BY <1>8, <2>1, <2>2
<1>10. v[1] \in Nat /\ v[2] \in Nat /\ v[3] \in Nat /\ w[1] \in Nat /\ w[2] \in Nat /\ w[3] \in Nat
  BY <1>1
<1>11. {c1, c2, c3, c4} \subseteq {0, 1, 2}
  <2>1. {c1, c2, c3} \subseteq {0, 1, 2}
    BY DEF c1, c2, c3, cmpInt
  <2>2. c4 \in {0, 1, 2}
    BY <1>1, ComparedPres DEF c4
  <2> QED
    BY <2>1, <2>2
<1> QED
  BY <1>2, <1>3, <1>4, <1>5, <1>6, <1>9, <1>10, <1>11

\* The words of a constraint.
Meant(op, v, w) == CASE op = ">=" -> ~Below(v, w) [] op = "<" -> Below(v, w) [] op = "=" -> v = w

\* satisfied is what they mean.
LEMMA SatisfiedMeans ==
  ASSUME NEW op \in {">=", "<", "="}, NEW v, NEW w, IsVersion(v), IsVersion(w)
  PROVE  satisfied(op, v, w) <=> Meant(op, v, w)
<1>1. CASE op = ">="
  BY <1>1, ComparedVersions DEF satisfied, Meant
<1>2. CASE op = "<"
  BY <1>2, ComparedVersions DEF satisfied, Meant
<1>3. CASE op = "="
  BY <1>3, ComparedVersions DEF satisfied, Meant
<1> QED
  BY <1>1, <1>2, <1>3

World == Pushed \union Tagged \union Requested

\* The commits of what happened, and what they touched.
LEMMA CommitsOf ==
  ASSUME NEW h \in World
  PROVE  /\ h.what \in {"branch", "tag", "pr"} /\ h.commits \in Seq(SUBSET Files) /\ changedFiles(h.commits) # NoFiles
         /\ h.what # "pr" => h.ref \in {"created", "moved", "deleted"}
         /\ h.what = "tag" => h.tag \in Versions /\ h.commits = <<>>
         /\ h.what # "tag" => h.main \in BOOLEAN
<1>1. h.commits \in Seq(SUBSET Files)
  <2>1. CASE h \in Pushed
    <3>1. PICK n \in 0..MaxCommits : h.commits \in [1..n -> SUBSET Files]
      BY <2>1 DEF Pushed
    <3>2. n \in Nat
      BY TriggerSetting
    <3> QED
      BY <3>1, <3>2
  <2>2. CASE h \in Tagged \union Requested
    <3>1. h.commits = <<>>
      BY <2>2 DEF Tagged, Requested
    <3> QED
      BY <3>1
  <2> QED
    BY <2>1, <2>2 DEF World
<1>2. changedFiles(h.commits) \subseteq Files
  <2>1. \A i \in DOMAIN h.commits : h.commits[i] \in SUBSET Files
    BY <1>1
  <2> QED
    BY <2>1 DEF changedFiles
<1>3. changedFiles(h.commits) # NoFiles
  <2>1. PICK x \in NoFiles : TRUE
    BY DEF NoFiles
  <2>2. x \notin Files
    BY TriggerSetting
  <2> QED
    BY <1>2, <2>2
<1>4. CASE h \in Pushed
  BY <1>1, <1>3, <1>4 DEF Pushed
<1>5. CASE h \in Tagged
  BY <1>1, <1>3, <1>5 DEF Tagged
<1>6. CASE h \in Requested
  BY <1>1, <1>3, <1>6 DEF Requested
<1> QED
  BY <1>4, <1>5, <1>6 DEF World

\* What was sent of the commits is all of them, or is known not to be.
LEMMA SentOrKnown ==
  ASSUME NEW c \in Seq(SUBSET Files)
  PROVE  \/ untruncatedFiles(Len(c), Cut(c, CommitCap)) = changedFiles(c)
         \/ untruncatedFiles(Len(c), Cut(c, CommitCap)) = NoFiles /\ Len(c) > CommitCap
<1>0. CommitCap \in Nat /\ Len(c) \in Nat
  BY TriggerSetting
<1>1. CASE CommitCap < Len(c)
  <2>1. Len(SubSeq(c, 1, CommitCap)) = CommitCap
    BY <1>0, <1>1
  <2> QED
    BY <1>0, <1>1, <2>1 DEF untruncatedFiles, Cut
<1>2. CASE ~(CommitCap < Len(c))
  <2>1. SubSeq(c, 1, Len(c)) = c
    OBVIOUS
  <2>2. ~(Len(c) > Len(c))
    BY <1>0
  <2> QED
    BY <1>2, <2>1, <2>2 DEF untruncatedFiles, Cut
<1> QED
  BY <1>1, <1>2

\* What the neutral event says of what happened.
Tells(ev, h, src, e) ==
  /\ ev.kind = KindOf(h) /\ ev.deleted = (h.what # "pr" /\ h.ref = "deleted")
  /\ h.what = "tag" => ~ev.main /\ ev.tag = h.tag
  /\ h.what # "tag" => ev.main = h.main
  /\ h.what = "pr" => ev.action = h.action
  /\ ev.files = NoFiles \/ ev.files = changedFiles(h.commits)
  /\ ev.files = NoFiles => h.what = "pr" \/ src = "bitbucket" \/ e = "create" \/ Len(h.commits) > CommitCap
  /\ ev.from # "0000" /\ ev.to # "0000"

\* A push or a tag, as one of the parsers reads it.
LEMMA ParsedTells ==
  ASSUME NEW h \in World, h.what # "pr", NEW src \in Sources, NEW e, NEW f, NEW d, NEW default,
         d = (h.ref = "deleted"),
         f = changedFiles(h.commits) \/ (f = NoFiles /\ (src = "bitbucket" \/ e = "create" \/ Len(h.commits) > CommitCap))
  PROVE  /\ Tells(Parsed(Payload(src, h), d, f, default), h, src, e)
         /\ Parsed(Payload(src, h), d, f, default).kind # "refused"
<1>1. PICK p : p = Payload(src, h)
  OBVIOUS
<1>2. h.what \in {"branch", "tag"} /\ changedFiles(h.commits) # NoFiles /\ (h.what # "tag" => h.main \in BOOLEAN)
  BY CommitsOf
<1>3. /\ p.object = h.what /\ (h.what = "tag" => p.tag = h.tag) /\ p.main = (h.what = "branch" /\ h.main)
      /\ p.before \in {"0000", "sha"} /\ p.after \in {"0000", "sha"}
  BY <1>1 DEF Payload, Commit
<1>4. PICK ev : ev = Parsed(p, d, f, default)
  OBVIOUS
<1>5. /\ ev.kind = (IF h.what = "branch" THEN "push" ELSE "tag") /\ ev.main = p.main /\ ev.tag = p.tag /\ ev.deleted = d
      /\ ev.files = f /\ ev.from = realSHA(p.before) /\ ev.to = realSHA(p.after)
  BY <1>3, <1>4 DEF Parsed
<1>6. ev.kind = KindOf(h) /\ ev.kind # "refused"
  BY <1>2, <1>5 DEF KindOf
<1>7. ev.from # "0000" /\ ev.to # "0000"
  BY <1>3, <1>5 DEF realSHA
<1>8. (h.what = "tag" => ~ev.main /\ ev.tag = h.tag) /\ (h.what # "tag" => ev.main = h.main)
  BY <1>2, <1>3, <1>5
<1>9. ev.deleted = (h.what # "pr" /\ h.ref = "deleted")
  BY <1>5
<1> QED
  BY <1>1, <1>2, <1>4, <1>5, <1>6, <1>7, <1>8, <1>9 DEF Tells

\* A pull request.
LEMMA RequestTells ==
  ASSUME NEW h \in World, h.what = "pr", NEW src \in Sources, NEW e, NEW default
  PROVE  /\ Tells(ParsedRequest(Payload(src, h), default), h, src, e)
         /\ ParsedRequest(Payload(src, h), default).kind # "refused"
<1>1. PICK p : p = Payload(src, h)
  OBVIOUS
<1>2. p.action = h.action /\ p.main = h.main
  BY <1>1 DEF Payload
<1>3. PICK ev : ev = ParsedRequest(p, default)
  OBVIOUS
<1>4. /\ ev.kind = "pull_request" /\ ev.main = p.main /\ ev.action = p.action /\ ev.deleted = FALSE
      /\ ev.files = NoFiles /\ ev.from = "" /\ ev.to = "sha"
  BY <1>3 DEF ParsedRequest
<1>5. ev.kind = KindOf(h) /\ ev.kind # "refused"
  BY <1>4 DEF KindOf
<1> QED
  BY <1>1, <1>2, <1>3, <1>4, <1>5 DEF Tells

\* A parser refuses the creation of a branch, and tells of anything else.
LEMMA DispatchTells ==
  ASSUME NEW h \in World, NEW src \in Sources, NEW e \in Events(src, h)
  PROVE  \/ dispatch(src, e, Payload(src, h)) = RefusedEvent /\ e = "create" /\ h.what = "branch"
         \/ Tells(dispatch(src, e, Payload(src, h)), h, src, e) /\ dispatch(src, e, Payload(src, h)).kind # "refused"
<1>1. PICK p : p = Payload(src, h)
  OBVIOUS
<1>2. h.what \in {"branch", "tag", "pr"} /\ h.commits \in Seq(SUBSET Files) /\ (h.what # "pr" => h.ref \in {"created", "moved", "deleted"})
  BY CommitsOf
<1>3. CASE h.what = "pr"
  <2>1. e = "pull_request"
    BY <1>3 DEF Events
  <2>2. \E default : dispatch(src, e, p) = ParsedRequest(p, default)
    BY <2>1 DEF dispatch, parseGitHub, parseGitLab, parseBitbucket, parseGitea, Sources
  <2> QED
    BY <1>1, <1>3, <2>2, RequestTells
<1>4. CASE h.what # "pr"
  <2>1. /\ p.object = h.what /\ p.deleted = (src = "github" /\ h.ref = "deleted") /\ p.after = Commit(h.ref = "deleted")
        /\ p.total = Len(h.commits)
        /\ src = "github" => p.commits = h.commits
        /\ src \in {"gitlab", "gitea"} => p.commits = Cut(h.commits, CommitCap)
    BY <1>1, <1>4 DEF Payload
  <2>2. isNullSHA(p.after) = (h.ref = "deleted")
    BY <2>1 DEF isNullSHA, Commit
  <2>3. e \in {"push", "create"} /\ (e = "create" => src = "gitea" /\ h.ref = "created")
    BY <1>4 DEF Events
  <2>4. CASE e = "push" /\ src = "github"
    <3>1. dispatch(src, e, p) = Parsed(p, p.deleted, changedFiles(p.commits), TRUE)
      BY <2>4 DEF dispatch, parseGitHub
    <3>2. PICK d : d = p.deleted
      OBVIOUS
    <3>3. PICK f : f = changedFiles(p.commits)
      OBVIOUS
    <3>4. d = (h.ref = "deleted") /\ f = changedFiles(h.commits)
      BY <2>1, <2>4, <3>2, <3>3
    <3> QED
      BY <1>1, <1>4, <3>1, <3>2, <3>3, <3>4, ParsedTells
  <2>5. CASE e = "push" /\ src \in {"gitlab", "gitea"}
    <3>1. dispatch(src, e, p) = Parsed(p, isNullSHA(p.after), untruncatedFiles(p.total, p.commits), TRUE)
      BY <2>5 DEF dispatch, parseGitLab, parseGitea
    <3>2. PICK f : f = untruncatedFiles(p.total, p.commits)
      OBVIOUS
    <3>3. f = changedFiles(h.commits) \/ (f = NoFiles /\ Len(h.commits) > CommitCap)
      BY <1>2, <2>1, <2>5, <3>2, SentOrKnown
    <3> QED
      BY <1>1, <1>4, <2>2, <3>1, <3>2, <3>3, ParsedTells
  <2>6. CASE e = "push" /\ src = "bitbucket"
    <3>1. dispatch(src, e, p) = Parsed(p, isNullSHA(p.after), NoFiles, FALSE)
      BY <2>6 DEF dispatch, parseBitbucket
    <3> QED
      BY <1>1, <1>4, <2>2, <2>6, <3>1, ParsedTells
  <2>7. CASE e = "create" /\ h.what = "branch"
    BY <1>1, <2>1, <2>3, <2>7 DEF dispatch, parseGitea
  <2>8. CASE e = "create" /\ h.what = "tag"
    <3>1. PICK q : q = Parsed(p, FALSE, NoFiles, TRUE)
      OBVIOUS
    <3>2. dispatch(src, e, p) = [q EXCEPT !.from = ""]
      BY <2>1, <2>3, <2>8, <3>1 DEF dispatch, parseGitea
    <3>3. FALSE = (h.ref = "deleted")
      BY <2>3, <2>8
    <3>4. Tells(q, h, src, e) /\ q.kind # "refused"
      BY <1>1, <1>4, <2>8, <3>1, <3>3, ParsedTells
    <3>5. PICK ev : ev = [q EXCEPT !.from = ""]
      OBVIOUS
    <3>6. /\ ev.kind = q.kind /\ ev.main = q.main /\ ev.tag = q.tag /\ ev.action = q.action /\ ev.deleted = q.deleted
          /\ ev.files = q.files /\ ev.to = q.to /\ ev.from = ""
      BY <3>1, <3>5 DEF Parsed
    <3>7. Tells(ev, h, src, e) /\ ev.kind # "refused"
      BY <3>4, <3>6 DEF Tells
    <3> QED
      BY <1>1, <3>2, <3>5, <3>7
  <2> QED
    BY <1>2, <1>4, <2>3, <2>4, <2>5, <2>6, <2>7, <2>8 DEF Sources
<1> QED
  BY <1>3, <1>4

\* A predicate of the event's kind that matches is true of what happened, and
\* one that does not is not.
LEMMA MatchMeans ==
  ASSUME NEW h \in World, NEW src, NEW e, NEW ev, Tells(ev, h, src, e), NEW p, IsPredicate(p), KindOf(h) \in EventKinds(p[1])
  PROVE  /\ match(p, ev) \in {"yes", "no", "error"}
         /\ match(p, ev) = "yes" => Means(p, h)
         /\ Means(p, h) => match(p, ev) # "no"
         /\ match(p, ev) = "error" => ev.files = NoFiles
<1>0. /\ h.what \in {"branch", "tag", "pr"} /\ changedFiles(h.commits) # NoFiles /\ (h.what = "tag" => h.tag \in Versions)
  BY CommitsOf
<1>1. CASE p[1] = "branches"
  <2>1. h.what # "tag"
    BY <1>0, <1>1 DEF EventKinds, KindOf
  <2> QED
    BY <1>1, <2>1 DEF match, Means, Tells
<1>2. CASE p[1] = "paths"
  BY <1>0, <1>2 DEF match, Means, Tells
<1>3. CASE p[1] = "actions"
  <2>1. h.what = "pr"
    BY <1>0, <1>3 DEF EventKinds, KindOf
  <2> QED
    BY <1>3, <2>1 DEF match, Means, Tells
<1>4. CASE p[1] = "semver"
  <2>1. h.what = "tag"
    BY <1>0, <1>4 DEF EventKinds, KindOf
  <2>2. PICK v : v = h.tag
    OBVIOUS
  <2>3. ev.tag = v /\ (v # "latest" => IsVersion(v))
    BY <1>0, <2>1, <2>2, TriggerSetting DEF Tells
  <2>4. p[2] \in {">=", "<", "="} /\ IsVersion(p[3])
    BY <1>4 DEF IsPredicate
  <2>5. v # "latest" => (satisfied(p[2], v, p[3]) <=> Meant(p[2], v, p[3]))
    BY <2>3, <2>4, SatisfiedMeans
  <2>6. Means(p, h) <=> (v # "latest" /\ Meant(p[2], v, p[3]))
    BY <1>4, <2>1, <2>2 DEF Means, Meant
  <2>7. match(p, ev) = IF v # "latest" /\ satisfied(p[2], v, p[3]) THEN "yes" ELSE "no"
    BY <1>4, <2>3 DEF match
  <2> QED
    BY <2>5, <2>6, <2>7
<1> QED
  BY <1>1, <1>2, <1>3, <1>4 DEF IsPredicate

\* The predicates are asked up to the first that does not match.
LEMMA AllMatchIs ==
  ASSUME NEW t, NEW ev, Len(t.preds) \in Nat
  PROVE  \/ AllMatch(t, ev) = "yes" /\ \A j \in 1..Len(t.preds) : match(t.preds[j], ev) = "yes"
         \/ \E k \in 1..Len(t.preds) : AllMatch(t, ev) = match(t.preds[k], ev) /\ match(t.preds[k], ev) # "yes"
<1> DEFINE I == {i \in 1..Len(t.preds) : match(t.preds[i], ev) # "yes"}
<1>1. CASE I = {}
  BY <1>1 DEF AllMatch, SelectInSeq
<1>2. CASE I # {}
  <2>0. I \subseteq 1..Len(t.preds)
    OBVIOUS
  <2>1. I \subseteq Nat
    <3> HIDE DEF I
    <3> QED
      BY <2>0
  <2>2. Min(I) \in I
    BY <1>2, <2>1, LeastOfSome
  <2>3. SelectInSeq(t.preds, LAMBDA p : match(p, ev) # "yes") = Min(I)
    BY <1>2 DEF SelectInSeq
  <2>4. Min(I) # 0
    BY <2>2
  <2>5. AllMatch(t, ev) = match(t.preds[Min(I)], ev)
    BY <2>3, <2>4 DEF AllMatch
  <2> QED
    BY <2>2, <2>5
<1> QED
  BY <1>1, <1>2

\* A declared trigger without an error.
Sound(t) ==
  /\ t = newTrigger(t.kind, t.preds) /\ ~t.err /\ Len(t.preds) \in Nat /\ DOMAIN t.preds = 1..Len(t.preds)
  /\ \A j \in DOMAIN t.preds : IsPredicate(t.preds[j])

\* A trigger that matches is wanted, one that does not is not.
LEMMA MatchesIsWanted ==
  ASSUME NEW h \in World, NEW src, NEW e, NEW ev, Tells(ev, h, src, e), NEW t, Sound(t)
  PROVE  /\ matches(t, ev) \in {"yes", "no", "error"}
         /\ matches(t, ev) = "yes" => Wanted(t, h)
         /\ Wanted(t, h) => matches(t, ev) # "no"
         /\ matches(t, ev) = "error" => ev.files = NoFiles
<1>1. CASE ev.kind # t.kind \/ ev.deleted
  <2>1. matches(t, ev) = "no"
    BY <1>1 DEF matches
  <2>2. ~Wanted(t, h)
    BY <1>1 DEF Wanted, Tells
  <2> QED
    BY <2>1, <2>2
<1>2. CASE ev.kind = t.kind /\ ~ev.deleted
  <2>1. matches(t, ev) = AllMatch(t, ev)
    BY <1>2 DEF matches
  <2>2. Len(t.preds) \in Nat /\ DOMAIN t.preds = 1..Len(t.preds) /\ \A j \in 1..Len(t.preds) : IsPredicate(t.preds[j])
    BY DEF Sound
  <2>3. KindOf(h) = t.kind /\ (h.what # "pr" => h.ref # "deleted")
    BY <1>2 DEF Tells
  <2>4. \A j \in 1..Len(t.preds) : KindOf(h) \in EventKinds(t.preds[j][1])
    <3>3. newTrigger(t.kind, t.preds).err <=> \E i \in DOMAIN t.preds : t.kind \notin EventKinds(t.preds[i][1])
      BY DEF newTrigger
    <3>4. t = newTrigger(t.kind, t.preds)
      BY DEF Sound
    <3>1. t.err <=> \E i \in DOMAIN t.preds : t.kind \notin EventKinds(t.preds[i][1])
      BY <3>3, <3>4
    <3>2. ~t.err
      BY DEF Sound
    <3> QED
      BY <2>2, <2>3, <3>1, <3>2
  <2>5. ASSUME NEW j \in 1..Len(t.preds)
        PROVE  /\ match(t.preds[j], ev) \in {"yes", "no", "error"}
               /\ match(t.preds[j], ev) = "yes" => Means(t.preds[j], h)
               /\ Means(t.preds[j], h) => match(t.preds[j], ev) # "no"
               /\ match(t.preds[j], ev) = "error" => ev.files = NoFiles
    BY <2>2, <2>4, MatchMeans
  <2>6. Wanted(t, h) <=> \A j \in 1..Len(t.preds) : Means(t.preds[j], h)
    BY <2>2, <2>3 DEF Wanted
  <2>7. CASE AllMatch(t, ev) = "yes" /\ \A j \in 1..Len(t.preds) : match(t.preds[j], ev) = "yes"
    BY <2>1, <2>5, <2>6, <2>7
  <2>8. ASSUME NEW k \in 1..Len(t.preds), AllMatch(t, ev) = match(t.preds[k], ev), match(t.preds[k], ev) # "yes"
        PROVE  /\ matches(t, ev) \in {"no", "error"}
               /\ Wanted(t, h) => matches(t, ev) # "no"
               /\ matches(t, ev) = "error" => ev.files = NoFiles
    BY <2>1, <2>5, <2>6, <2>8
  <2> QED
    BY <2>2, <2>7, <2>8, AllMatchIs
<1> QED
  BY <1>1, <1>2

\* What was delivered, and the event that was made of it.
Delivered ==
  /\ happened \in World /\ delivery.from \in Sources /\ delivery.event \in Events(delivery.from, happened)
  /\ delivery.headers = Headers(delivery.from) /\ delivery.payload = Payload(delivery.from, happened)
  /\ delivery.triggers \in Declared
  /\ delivery.secret \in BOOLEAN /\ delivery.signed \in BOOLEAN

\* The inductive invariant.
TriggerKept ==
  /\ Delivered /\ ThreeOutcomes
  /\ event # <<>> \/ intake = "select" => Tells(event, happened, delivery.from, delivery.event)
  /\ intake \in {"request", "parse"} => event = <<>>
  /\ intake # "done" => outcome = "none"

\* A delivery's source, by its headers.
LEMMA SourceIsFrom ==
  ASSUME NEW src \in Sources
  PROVE  sourceOf(Headers(src)) = src
<1>1. CASE src = "gitea"
  BY <1>1 DEF sourceOf, Headers
<1>2. CASE src # "gitea"
  <2>1. Headers(src) = {src} /\ "gitea" \notin {src}
    BY <1>2 DEF Headers
  <2>2. (CHOOSE s \in {src} : TRUE) = src
    OBVIOUS
  <2> QED
    BY <2>1, <2>2 DEF sourceOf
<1> QED
  BY <1>1, <1>2

\* Initially.
LEMMA TriggerStarts == TriggerInit => TriggerKept
<1> SUFFICES ASSUME TriggerInit PROVE TriggerKept
  OBVIOUS
<1>1. PICK src \in Sources, signed \in BOOLEAN, secret \in BOOLEAN, ts \in Declared : \E e \in Events(src, happened) :
       delivery = [headers |-> Headers(src), from |-> src, event |-> e, signed |-> signed, secret |-> secret,
                   payload |-> Payload(src, happened), triggers |-> ts]
  BY DEF TriggerInit
<1>2. PICK e \in Events(src, happened) :
       delivery = [headers |-> Headers(src), from |-> src, event |-> e, signed |-> signed, secret |-> secret,
                   payload |-> Payload(src, happened), triggers |-> ts]
  BY <1>1
<1>3. /\ delivery.headers = Headers(src) /\ delivery.from = src /\ delivery.event = e /\ delivery.triggers = ts
      /\ delivery.payload = Payload(src, happened)
  BY <1>2
<1>4. delivery.secret \in BOOLEAN /\ delivery.signed \in BOOLEAN
  BY <1>2
<1>5. Delivered
  BY <1>3, <1>4 DEF Delivered, TriggerInit, World
<1>6. intake = "request" /\ event = <<>> /\ outcome = "none"
  BY DEF TriggerInit
<1> QED
  BY <1>5, <1>6 DEF TriggerKept, ThreeOutcomes

\* FromRequest.
LEMMA KeptFromRequest ==
  ASSUME TriggerKept, FromRequest
  PROVE  TriggerKept'
<1>1. Delivered /\ event = <<>> /\ outcome = "none" /\ UNCHANGED <<happened, delivery, event>>
  BY DEF TriggerKept, FromRequest
<1>2. Delivered'
  BY <1>1 DEF Delivered
<1>3. CASE delivery.secret /\ ~verify(sourceOf(delivery.headers), delivery)
  <2>1. intake' = "done" /\ outcome' = "unsigned"
    BY <1>3 DEF FromRequest
  <2> QED
    BY <1>1, <1>2, <2>1 DEF TriggerKept, ThreeOutcomes
<1>4. CASE ~(delivery.secret /\ ~verify(sourceOf(delivery.headers), delivery))
  <2>1. intake' = "parse" /\ outcome' = "none"
    BY <1>1, <1>4 DEF FromRequest
  <2>2. ~delivery.secret \/ (delivery.signed /\ delivery.from # "bitbucket")
    BY <1>1, <1>4, SourceIsFrom DEF verify, Delivered
  <2> QED
    BY <1>1, <1>2, <2>1, <2>2 DEF TriggerKept, ThreeOutcomes
<1> QED
  BY <1>3, <1>4

\* Parse.
LEMMA KeptParse ==
  ASSUME TriggerKept, Parse
  PROVE  TriggerKept'
<1>1. Delivered /\ event = <<>> /\ outcome = "none" /\ intake = "parse" /\ UNCHANGED <<happened, delivery>>
  BY DEF TriggerKept, Parse
<1>2. Delivered'
  BY <1>1 DEF Delivered
<1>3. PICK ev : ev = dispatch(delivery.from, delivery.event, delivery.payload)
  OBVIOUS
<1>4. sourceOf(delivery.headers) = delivery.from
  BY <1>1, SourceIsFrom DEF Delivered
<1>5. \/ ev = RefusedEvent /\ delivery.event = "create" /\ happened.what = "branch"
      \/ Tells(ev, happened, delivery.from, delivery.event) /\ ev.kind # "refused"
  BY <1>1, <1>3, DispatchTells DEF Delivered
<1>6. ~delivery.secret \/ (delivery.signed /\ delivery.from # "bitbucket")
  BY <1>1 DEF TriggerKept, ThreeOutcomes
<1>7. CASE ev = RefusedEvent
  <2>1. intake' = "done" /\ outcome' = "refused" /\ event' = event
    BY <1>3, <1>4, <1>7 DEF Parse
  <2>2. RefusedEvent.kind = "refused"
    BY DEF RefusedEvent
  <2>3. delivery.event = "create" /\ happened.what = "branch"
    BY <1>5, <1>7, <2>2
  <2> QED
    BY <1>1, <1>2, <2>1, <2>3 DEF TriggerKept, ThreeOutcomes
<1>8. CASE ev # RefusedEvent
  <2>1. intake' = "select" /\ outcome' = "none" /\ event' = ev
    BY <1>1, <1>3, <1>4, <1>8 DEF Parse
  <2>2. Tells(ev, happened, delivery.from, delivery.event) /\ ev.from # "0000" /\ ev.to # "0000"
    BY <1>5, <1>8 DEF Tells
  <2> QED
    BY <1>1, <1>2, <1>6, <2>1, <2>2 DEF TriggerKept, ThreeOutcomes
<1> QED
  BY <1>7, <1>8

\* Select.
LEMMA KeptSelect ==
  ASSUME TriggerKept, Select
  PROVE  TriggerKept'
<1>1. /\ Delivered /\ Tells(event, happened, delivery.from, delivery.event) /\ outcome = "none" /\ intake = "select"
      /\ ThreeOutcomes /\ UNCHANGED <<happened, delivery, event>> /\ intake' = "done"
  BY DEF TriggerKept, Select
<1>2. Delivered'
  BY <1>1 DEF Delivered
<1>3. PICK ts \in Declared : ts = delivery.triggers
  BY <1>1 DEF Delivered
<1>4. Len(ts) \in Nat /\ DOMAIN ts = 1..Len(ts)
  BY TriggerSetting
<1>5. PICK answer : answer = [i \in DOMAIN ts |-> matches(ts[i], event)]
  OBVIOUS
<1> DEFINE I == {i \in 1..Len(answer) : answer[i] # "no"}
           won == SelectInSeq(answer, LAMBDA a : a # "no")
<1>6. Len(answer) = Len(ts)
  BY <1>4, <1>5
<1>7. outcome' = CASE \E i \in DOMAIN ts : ts[i].err -> "wiring"
                   [] (\A i \in DOMAIN ts : ~ts[i].err) /\ won = 0 -> "nomatch"
                   [] (\A i \in DOMAIN ts : ~ts[i].err) /\ won # 0 -> IF answer[won] = "error" THEN "unanswerable" ELSE modeFor(event)
  BY <1>3, <1>5 DEF Select
<1>8. won = IF I # {} THEN Min(I) ELSE 0
  BY DEF SelectInSeq
<1>9. I \subseteq Nat /\ (I # {} => Min(I) \in I)
  <2>1. I \subseteq 1..Len(answer)
    OBVIOUS
  <2>2. I \subseteq Nat
    <3> HIDE DEF I
    <3> QED
      BY <1>4, <1>6, <2>1
  <2> HIDE DEF I
  <2> QED
    BY <2>2, LeastOfSome
<1>10. 0 \notin I
  BY <1>4, <1>6
<1> HIDE DEF won
<1>11. CASE \E i \in DOMAIN ts : ts[i].err
  <2>1. outcome' = "wiring"
    BY <1>7, <1>11
  <2> QED
    BY <1>1, <1>2, <2>1 DEF TriggerKept, ThreeOutcomes
<1>12. CASE \A i \in DOMAIN ts : ~ts[i].err
  <2>1. ASSUME NEW i \in 1..Len(ts)
        PROVE  /\ answer[i] \in {"yes", "no", "error"}
               /\ answer[i] = "yes" => Wanted(ts[i], happened)
               /\ Wanted(ts[i], happened) => answer[i] # "no"
               /\ answer[i] = "error" => event.files = NoFiles
    <3>1. Sound(ts[i])
      BY <1>4, <1>12, TriggerSetting DEF Sound
    <3>2. answer[i] = matches(ts[i], event)
      BY <1>4, <1>5
    <3> QED
      BY <1>1, <3>1, <3>2, MatchesIsWanted DEF Delivered
  <2>2. CASE I = {}
    <3>1. outcome' = "nomatch"
      BY <1>7, <1>8, <1>12, <2>2
    <3>2. \A i \in 1..Len(ts) : answer[i] = "no"
      BY <1>6, <2>2
    <3>3. \A i \in DOMAIN ts : ~Wanted(ts[i], happened)
      BY <1>4, <2>1, <3>2
    <3> QED
      BY <1>1, <1>2, <1>3, <3>1, <3>3 DEF TriggerKept, ThreeOutcomes
  <2>3. CASE I # {}
    <3>1. PICK k \in 1..Len(ts) : k = won /\ answer[k] # "no" /\ won # 0
      <4>1. won \in I
        BY <1>8, <1>9, <2>3
      <4>2. won \in 1..Len(ts) /\ answer[won] # "no"
        BY <1>6, <4>1
      <4> QED
        BY <1>10, <4>1, <4>2
    <3> HIDE DEF I
    <3>2. outcome' = IF answer[k] = "error" THEN "unanswerable" ELSE modeFor(event)
      BY <1>7, <1>12, <3>1
    <3>3. CASE answer[k] = "error"
      <4>1. outcome' = "unanswerable"
        BY <3>2, <3>3
      <4>2. event.files = NoFiles
        BY <2>1, <3>3
      <4>3. happened.what = "pr" \/ delivery.from = "bitbucket" \/ delivery.event = "create" \/ Len(happened.commits) > CommitCap
        BY <1>1, <4>2 DEF Tells
      <4> QED
        BY <1>1, <1>2, <4>1, <4>3 DEF TriggerKept, ThreeOutcomes
    <3>4. CASE answer[k] = "yes"
      <4>1. outcome' = modeFor(event) /\ modeFor(event) \in {"all", "affected"}
        BY <3>2, <3>4 DEF modeFor
      <4>2. k \in DOMAIN ts /\ Wanted(ts[k], happened)
        BY <1>4, <2>1, <3>4
      <4>3. happened.what \in {"branch", "tag", "pr"}
        BY <1>1, CommitsOf DEF Delivered
      <4>4. modeFor(event) = "all" => happened.what = "tag" \/ (happened.what = "branch" /\ happened.main)
        BY <1>1, <4>3 DEF modeFor, Tells, KindOf
      <4> QED
        BY <1>1, <1>2, <1>3, <4>1, <4>2, <4>4 DEF TriggerKept, ThreeOutcomes
    <3> QED
      BY <2>1, <3>1, <3>3, <3>4
  <2> QED
    BY <2>2, <2>3
<1> QED
  BY <1>11, <1>12

(* Three outcomes, never two, for any pipelines, versions, files, lengths  *)
(* of a push and caps on what a source sends of it: a delivery matches     *)
(* only if some declared trigger wants what happened, it is no match only  *)
(* if none does, and what cannot be answered is an error (trigger.go       *)
(* Select, providers' parsers, semver.go).  Versions are compared as the   *)
(* precedence of semantic versions orders them.                            *)
THEOREM ThereAreThreeOutcomes == TriggerSpec => []ThreeOutcomes
<1>1. TriggerKept /\ [TriggerNext]_triggerVars => TriggerKept'
  <2> SUFFICES ASSUME TriggerKept, [TriggerNext]_triggerVars PROVE TriggerKept'
    OBVIOUS
  <2>1. CASE TriggerNext
    BY <2>1, KeptFromRequest, KeptParse, KeptSelect DEF TriggerNext
  <2>2. CASE UNCHANGED triggerVars
    BY <2>2 DEF triggerVars, TriggerKept, ThreeOutcomes, Delivered
  <2> QED
    BY <2>1, <2>2
<1>2. TriggerKept => ThreeOutcomes
  BY DEF TriggerKept
<1> QED
  BY <1>1, <1>2, TriggerStarts, PTL DEF TriggerSpec

-----------------------------------------------------------------------------
(* Induction, by the least counterexample, and what a closure computes.    *)

\* A nonempty set of naturals has a least element.
LEMMA LeastOf ==
  ASSUME NEW S \in SUBSET Nat, S # {}
  PROVE  \E i \in S : \A j \in S : i <= j
<1> DEFINE R == {p \in Nat \X Nat : p[1] < p[2]}
<1>1. IsWellFoundedOn(R, Nat)
  BY NatLessThanWellFounded, Zenon DEF OpToRel
<1> HIDE DEF R
<1>2. PICK i \in S : \A j \in S : <<j, i>> \notin R
  BY <1>1, WFMin
<1>3. \A j \in S : ~(j < i)
  BY <1>2 DEF R
<1> QED
  BY <1>3

\* A set of naturals that has 0 and every successor has all of them.
LEMMA Inductive ==
  ASSUME NEW Q \in SUBSET Nat, 0 \in Q, \A k \in Q : k + 1 \in Q
  PROVE  \A k \in Nat : k \in Q
<1> SUFFICES ASSUME Nat \ Q # {} PROVE FALSE
  OBVIOUS
<1>1. PICK i \in Nat \ Q : \A j \in Nat \ Q : i <= j
  BY LeastOf
<1>2. i # 0 /\ i - 1 \in Nat
  BY <1>1
<1>3. i - 1 \in Q
  BY <1>1, <1>2
<1> QED
  BY <1>1, <1>2, <1>3

\* One round along E, and the rounds of Reach as one function.
Spread(ids, E, P) == {j \in ids : \E i \in P : <<i, j>> \in E}
Rounds(ids, E, S, f) ==
  [k \in 0..Cardinality(ids) |->
     IF k = 0 THEN S ELSE LET prev == f[k - 1] IN prev \cup {j \in ids : \E i \in prev : <<i, j>> \in E}]
RoundsUpTo(ids, E, S, n, f) ==
  f[0] = S /\ \A m \in 1..n : f[m] = f[m - 1] \cup Spread(ids, E, f[m - 1])

LEMMA RoundsExist ==
  ASSUME NEW ids, IsFiniteSet(ids), NEW E, NEW S
  PROVE  \E f : f = Rounds(ids, E, S, f)
<1> DEFINE Q == {k \in Nat : \E f \in [0..k -> SUBSET (S \cup ids)] : RoundsUpTo(ids, E, S, k, f)}
<1>1. 0 \in Q
  <2> DEFINE f == [m \in 0..0 |-> S]
  <2>1. f \in [0..0 -> SUBSET (S \cup ids)] /\ f[0] = S
    OBVIOUS
  <2>2. RoundsUpTo(ids, E, S, 0, f)
    BY <2>1 DEF RoundsUpTo
  <2> QED
    BY <2>1, <2>2
<1>2. ASSUME NEW k \in Q PROVE k + 1 \in Q
  <2>1. k \in Nat /\ k + 1 \in Nat
    OBVIOUS
  <2>2. PICK f \in [0..k -> SUBSET (S \cup ids)] : RoundsUpTo(ids, E, S, k, f)
    OBVIOUS
  <2> HIDE DEF Q
  <2> DEFINE next == f[k] \cup Spread(ids, E, f[k])
             g == [m \in 0..(k + 1) |-> IF m = k + 1 THEN next ELSE f[m]]
  <2>3. k \in 0..k /\ f[k] \in SUBSET (S \cup ids)
    BY <2>1
  <2>4. next \in SUBSET (S \cup ids)
    BY <2>3 DEF Spread
  <2>5. \A m \in 0..k : m \in 0..(k + 1) /\ m # k + 1
    BY <2>1
  <2>6. \A m \in 0..(k + 1) : m = k + 1 \/ m \in 0..k
    BY <2>1
  <2> HIDE DEF next
  <2>7. g \in [0..(k + 1) -> SUBSET (S \cup ids)]
    BY <2>4, <2>6
  <2>8. (\A m \in 0..k : g[m] = f[m]) /\ g[k + 1] = next
    BY <2>1, <2>5
  <2> HIDE DEF g
  <2>9. RoundsUpTo(ids, E, S, k + 1, g)
    <3>1. g[0] = S
      BY <2>1, <2>2, <2>8 DEF RoundsUpTo
    <3>2. ASSUME NEW m \in 1..(k + 1) PROVE g[m] = g[m - 1] \cup Spread(ids, E, g[m - 1])
      <4>1. CASE m = k + 1
        <5>1. m - 1 = k
          BY <2>1, <4>1
        <5> QED
          BY <2>3, <2>8, <4>1, <5>1 DEF next
      <4>2. CASE m # k + 1
        <5>1. m \in 1..k /\ m \in 0..k /\ m - 1 \in 0..k
          BY <2>1, <4>2
        <5> QED
          BY <2>2, <2>8, <5>1 DEF RoundsUpTo
      <4> QED
        BY <4>1, <4>2
    <3> QED
      BY <3>1, <3>2 DEF RoundsUpTo
  <2> QED
    BY <2>1, <2>7, <2>9 DEF Q
<1>3. Cardinality(ids) \in Nat
  BY FS_CardinalityType
<1>4. Q \in SUBSET Nat
  OBVIOUS
<1>5. Cardinality(ids) \in Q
  <2> HIDE DEF Q
  <2> QED
    BY <1>1, <1>2, <1>3, <1>4, Inductive
<1>6. PICK f \in [0..Cardinality(ids) -> SUBSET (S \cup ids)] : RoundsUpTo(ids, E, S, Cardinality(ids), f)
  BY <1>5
<1>7. \A m \in 0..Cardinality(ids) : m # 0 => m \in 1..Cardinality(ids)
  BY <1>3
<1>8. f = Rounds(ids, E, S, f)
  BY <1>6, <1>7 DEF Rounds, RoundsUpTo, Spread
<1> QED
  BY <1>8

\* What Reach returns is the last of its rounds.
LEMMA ReachIsRounds ==
  ASSUME NEW ids, IsFiniteSet(ids), NEW E, NEW S
  PROVE  \E f : RoundsUpTo(ids, E, S, Cardinality(ids), f) /\ Reach(ids, E, S) = f[Cardinality(ids)]
<1> DEFINE G == CHOOSE f : f = Rounds(ids, E, S, f)
<1>1. Reach(ids, E, S) = G[Cardinality(ids)]
  BY DEF Reach, Rounds
<1>2. G = Rounds(ids, E, S, G)
  BY RoundsExist
<1> HIDE DEF G
<1>3. Cardinality(ids) \in Nat
  BY FS_CardinalityType
<1>4. G[0] = S
  BY <1>2, <1>3 DEF Rounds
<1>5. ASSUME NEW m \in 1..Cardinality(ids) PROVE G[m] = G[m - 1] \cup Spread(ids, E, G[m - 1])
  <2>1. m \in 0..Cardinality(ids) /\ m # 0
    BY <1>3
  <2>2. Rounds(ids, E, S, G)[m] = G[m - 1] \cup Spread(ids, E, G[m - 1])
    BY <2>1 DEF Rounds, Spread
  <2> QED
    BY <1>2, <2>2
<1> QED
  BY <1>1, <1>4, <1>5 DEF RoundsUpTo

\* A set that has the start and every successor of its own has what is reached.
LEMMA ReachWithin ==
  ASSUME NEW ids, IsFiniteSet(ids), NEW E, NEW S, NEW T, S \subseteq T,
         \A i \in T, j \in ids : <<i, j>> \in E => j \in T
  PROVE  Reach(ids, E, S) \subseteq T
<1>1. PICK f : RoundsUpTo(ids, E, S, Cardinality(ids), f) /\ Reach(ids, E, S) = f[Cardinality(ids)]
  BY ReachIsRounds
<1>2. PICK n \in Nat : n = Cardinality(ids)
  BY FS_CardinalityType
<1> DEFINE Q == {k \in Nat : k <= n => f[k] \subseteq T}
<1>3. 0 \in Q
  BY <1>1 DEF RoundsUpTo
<1>4. ASSUME NEW k \in Q PROVE k + 1 \in Q
  <2>1. SUFFICES ASSUME k + 1 <= n PROVE f[k + 1] \subseteq T
    OBVIOUS
  <2>2. k + 1 \in 1..n /\ (k + 1) - 1 = k /\ f[k] \subseteq T
    BY <2>1
  <2>3. f[k + 1] = f[k] \cup Spread(ids, E, f[k])
    BY <1>1, <1>2, <2>2 DEF RoundsUpTo
  <2> QED
    BY <2>2, <2>3 DEF Spread
<1>5. n \in Q
  <2>1. Q \in SUBSET Nat
    OBVIOUS
  <2> HIDE DEF Q
  <2> QED
    BY <1>3, <1>4, <2>1, Inductive
<1> QED
  BY <1>1, <1>2, <1>5

\* What is reached has the start and every successor of its own: as long as a
\* round adds anything, there is one element more, and there are only |ids|.
LEMMA ReachClosed ==
  ASSUME NEW ids, IsFiniteSet(ids), NEW E, NEW S \in SUBSET ids
  PROVE  /\ S \subseteq Reach(ids, E, S) /\ Reach(ids, E, S) \subseteq ids
         /\ \A i \in Reach(ids, E, S), j \in ids : <<i, j>> \in E => j \in Reach(ids, E, S)
<1>1. PICK f : RoundsUpTo(ids, E, S, Cardinality(ids), f) /\ Reach(ids, E, S) = f[Cardinality(ids)]
  BY ReachIsRounds
<1>2. PICK n \in Nat : n = Cardinality(ids)
  BY FS_CardinalityType
<1> DEFINE Q == {k \in Nat : k <= n => /\ S \subseteq f[k] /\ f[k] \subseteq ids
                                       /\ Spread(ids, E, f[k]) \subseteq f[k] \/ Cardinality(f[k]) >= k + 1}
<1>3. 0 \in Q
  <2>1. f[0] = S
    BY <1>1 DEF RoundsUpTo
  <2>2. CASE S = {}
    BY <2>1, <2>2 DEF Spread
  <2>3. CASE S # {}
    <3>1. IsFiniteSet(S) /\ Cardinality(S) \in Nat /\ Cardinality(S) # 0
      BY <2>3, FS_Subset, FS_CardinalityType, FS_EmptySet
    <3> QED
      BY <2>1, <3>1
  <2> QED
    BY <2>2, <2>3
<1>4. ASSUME NEW k \in Q PROVE k + 1 \in Q
  <2>0. k \in Nat /\ k + 1 \in Nat
    OBVIOUS
  <2>1. SUFFICES ASSUME k + 1 <= n
                 PROVE  /\ S \subseteq f[k + 1] /\ f[k + 1] \subseteq ids
                        /\ Spread(ids, E, f[k + 1]) \subseteq f[k + 1] \/ Cardinality(f[k + 1]) >= (k + 1) + 1
    BY <2>0
  <2>2. k + 1 \in 1..n /\ (k + 1) - 1 = k /\ k <= n
    BY <2>0, <2>1
  <2>3. /\ S \subseteq f[k] /\ f[k] \subseteq ids
        /\ Spread(ids, E, f[k]) \subseteq f[k] \/ Cardinality(f[k]) >= k + 1
    BY <2>2
  <2> HIDE DEF Q
  <2>4. f[k + 1] = f[k] \cup Spread(ids, E, f[k])
    BY <1>1, <1>2, <2>2 DEF RoundsUpTo
  <2>5. S \subseteq f[k + 1] /\ f[k + 1] \subseteq ids
    BY <2>3, <2>4 DEF Spread
  <2>6. CASE Spread(ids, E, f[k]) \subseteq f[k]
    <3>1. f[k + 1] = f[k]
      BY <2>4, <2>6
    <3> QED
      BY <2>5, <2>6, <3>1
  <2>7. CASE ~(Spread(ids, E, f[k]) \subseteq f[k])
    <3>1. f[k] \in SUBSET f[k + 1] /\ f[k + 1] # f[k]
      BY <2>4, <2>7
    <3>2. IsFiniteSet(f[k + 1])
      BY <2>5, FS_Subset
    <3>3. IsFiniteSet(f[k]) /\ Cardinality(f[k]) <= Cardinality(f[k + 1]) /\ Cardinality(f[k]) # Cardinality(f[k + 1])
      BY <3>1, <3>2, FS_Subset
    <3>4. Cardinality(f[k]) \in Nat /\ Cardinality(f[k + 1]) \in Nat
      BY <3>2, <3>3, FS_CardinalityType
    <3>5. Cardinality(f[k + 1]) >= (k + 1) + 1
      BY <2>0, <2>3, <2>7, <3>3, <3>4
    <3> QED
      BY <2>5, <3>5
  <2> QED
    BY <2>6, <2>7
<1>5. n \in Q
  <2>1. Q \in SUBSET Nat
    OBVIOUS
  <2> HIDE DEF Q
  <2> QED
    BY <1>3, <1>4, <2>1, Inductive
<1>6. /\ S \subseteq f[n] /\ f[n] \subseteq ids
      /\ Spread(ids, E, f[n]) \subseteq f[n] \/ Cardinality(f[n]) >= n + 1
  BY <1>5
<1> HIDE DEF Q
<1>7. IsFiniteSet(f[n]) /\ Cardinality(f[n]) <= n
  BY <1>2, <1>6, FS_Subset
<1>8. Cardinality(f[n]) \in Nat
  BY <1>7, FS_CardinalityType
<1>9. Spread(ids, E, f[n]) \subseteq f[n]
  BY <1>6, <1>7, <1>8
<1>10. Reach(ids, E, S) = f[n]
  BY <1>1, <1>2
<1> QED
  BY <1>6, <1>9, <1>10 DEF Spread

\* A strict order.
Strict(W) ==
  /\ \A x : <<x, x>> \notin W
  /\ \A x, y, z : <<x, y>> \in W /\ <<y, z>> \in W => <<x, z>> \in W

\* Edges that are in a strict order have no cycle.
LEMMA OrderedIsAcyclic ==
  ASSUME NEW ids, IsFiniteSet(ids), NEW E, NEW W, Strict(W),
         \A i \in ids, j \in ids : <<i, j>> \in E => <<i, j>> \in W
  PROVE  ~Cyclic(ids, E)
<1> SUFFICES ASSUME NEW i \in ids, i \in Reach(ids, E, {j \in ids : <<i, j>> \in E}) PROVE FALSE
  BY DEF Cyclic
<1> DEFINE T == {j \in ids : <<i, j>> \in W}
           S == {j \in ids : <<i, j>> \in E}
<1>1. S \subseteq T
  OBVIOUS
<1>2. \A a \in T, j \in ids : <<a, j>> \in E => j \in T
  BY DEF Strict
<1>3. i \notin T
  BY DEF Strict
<1>4. Reach(ids, E, S) \subseteq T
  <2> HIDE DEF T, S
  <2> QED
    BY <1>1, <1>2, ReachWithin
<1> QED
  BY <1>3, <1>4

\* Edges that have no cycle are in a strict order, that of what reaches what.
LEMMA ReachIsOrder ==
  ASSUME NEW ids, IsFiniteSet(ids), NEW E, ~Cyclic(ids, E)
  PROVE  \E W \in SUBSET (ids \X ids) :
           /\ Strict(W) /\ \A i \in ids, j \in ids : <<i, j>> \in E => <<i, j>> \in W
           /\ \A i \in ids, j \in ids : <<i, j>> \in W <=> j \in Reach(ids, E, {k \in ids : <<i, k>> \in E})
<1> DEFINE Next1(i) == {j \in ids : <<i, j>> \in E}
           W == {p \in ids \X ids : p[2] \in Reach(ids, E, Next1(p[1]))}
<1>1. \A i \in ids, j \in ids : <<i, j>> \in W <=> j \in Reach(ids, E, Next1(i))
  OBVIOUS
<1>2. \A i \in ids : /\ Next1(i) \subseteq Reach(ids, E, Next1(i))
                     /\ \A a \in Reach(ids, E, Next1(i)), j \in ids : <<a, j>> \in E => j \in Reach(ids, E, Next1(i))
  <2> TAKE i \in ids
  <2>1. Next1(i) \in SUBSET ids
    OBVIOUS
  <2> HIDE DEF Next1
  <2> QED
    BY <2>1, ReachClosed
<1>3. \A i \in ids : i \notin Reach(ids, E, Next1(i))
  BY DEF Cyclic
<1>4. \A i, j \in ids : j \in Reach(ids, E, Next1(i)) => Reach(ids, E, Next1(j)) \subseteq Reach(ids, E, Next1(i))
  <2> TAKE i, j \in ids
  <2> HAVE j \in Reach(ids, E, Next1(i))
  <2> DEFINE T == Reach(ids, E, Next1(i))
  <2>1. Next1(j) \subseteq T
    BY <1>2
  <2>2. \A a \in T, k \in ids : <<a, k>> \in E => k \in T
    BY <1>2
  <2> HIDE DEF T, Next1
  <2>3. Reach(ids, E, Next1(j)) \subseteq T
    BY <2>1, <2>2, ReachWithin
  <2> QED
    BY <2>3 DEF T
<1>5. \A x, y : <<x, y>> \in W => x \in ids /\ y \in ids
  OBVIOUS
<1>6. \A i \in ids, j \in ids : <<i, j>> \in E => <<i, j>> \in W
  <2> TAKE i \in ids, j \in ids
  <2> HAVE <<i, j>> \in E
  <2>1. j \in Next1(i)
    OBVIOUS
  <2> HIDE DEF W, Next1
  <2> QED
    BY <1>1, <1>2, <2>1
<1>7. W \in SUBSET (ids \X ids)
  OBVIOUS
<1> HIDE DEF W, Next1
<1>8. Strict(W)
  <2>1. \A x : <<x, x>> \notin W
    BY <1>1, <1>3, <1>5
  <2>2. \A x, y, z : <<x, y>> \in W /\ <<y, z>> \in W => <<x, z>> \in W
    BY <1>1, <1>4, <1>5
  <2> QED
    BY <2>1, <2>2 DEF Strict
<1>9. \A i \in ids, j \in ids : <<i, j>> \in W <=> j \in Reach(ids, E, {k \in ids : <<i, k>> \in E})
  BY <1>1 DEF Next1
<1> QED
  BY <1>6, <1>7, <1>8, <1>9

LEMMA AcyclicIsOrdered ==
  ASSUME NEW ids, IsFiniteSet(ids), NEW E, ~Cyclic(ids, E)
  PROVE  \E W \in SUBSET (ids \X ids) :
           Strict(W) /\ \A i \in ids, j \in ids : <<i, j>> \in E => <<i, j>> \in W
<1>1. PICK W \in SUBSET (ids \X ids) :
        /\ Strict(W) /\ \A i \in ids, j \in ids : <<i, j>> \in E => <<i, j>> \in W
        /\ \A i \in ids, j \in ids : <<i, j>> \in W <=> j \in Reach(ids, E, {k \in ids : <<i, k>> \in E})
  BY ReachIsOrder
<1> QED
  BY <1>1

\* A nonempty finite set has an element below which there is none of it.
LEMMA HasMinimal ==
  ASSUME NEW T, IsFiniteSet(T), T # {}, NEW W, Strict(W)
  PROVE  \E x \in T : \A y \in T : <<x, y>> \notin W
<1> DEFINE Under(x) == {y \in T : <<x, y>> \in W}
           Sizes == {Cardinality(Under(x)) : x \in T}
<1>1. \A x \in T : IsFiniteSet(Under(x)) /\ Cardinality(Under(x)) \in Nat
  <2> TAKE x \in T
  <2>1. Under(x) \in SUBSET T
    OBVIOUS
  <2> HIDE DEF Under
  <2> QED
    BY <2>1, FS_Subset, FS_CardinalityType
<1>2. Sizes \in SUBSET Nat /\ Sizes # {}
  BY <1>1
<1>3. PICK k \in Sizes : \A j \in Sizes : k <= j
  <2> HIDE DEF Sizes
  <2> QED
    BY <1>2, LeastOf
<1>4. PICK x \in T : k = Cardinality(Under(x))
  OBVIOUS
<1>5. ASSUME NEW y \in T, <<x, y>> \in W PROVE FALSE
  <2>1. Under(y) \in SUBSET Under(x) /\ y \in Under(x) /\ y \notin Under(y)
    BY <1>5 DEF Strict
  <2>2. Cardinality(Under(x)) <= Cardinality(Under(y))
    BY <1>3, <1>4, <1>5
  <2> HIDE DEF Under
  <2>3. Cardinality(Under(y)) <= Cardinality(Under(x)) /\ (Cardinality(Under(x)) = Cardinality(Under(y)) => Under(x) = Under(y))
    BY <1>1, <1>4, <2>1, FS_Subset
  <2> QED
    BY <1>1, <1>4, <1>5, <2>1, <2>2, <2>3
<1> QED
  BY <1>5

-----------------------------------------------------------------------------
(* The live plan.                                                          *)

PlanNodes(ids) == [needs : SUBSET ids, gen : BOOLEAN]
GraphTypes ==
  /\ byID = live
  /\ IsFiniteSet(DOMAIN live) /\ DOMAIN live \subseteq Seq(IdNames)
  /\ \A i \in DOMAIN live : live[i] \in PlanNodes(DOMAIN live)
  /\ DOMAIN genDepth = DOMAIN genParent /\ DOMAIN genParent \subseteq DOMAIN live
  /\ \A i \in DOMAIN genParent : genParent[i] \in DOMAIN live /\ genDepth[i] \in 1..MaxDepth
  /\ DOMAIN live = DOMAIN BasePlan \/ Cardinality(DOMAIN live) <= MaxNodes
  /\ \A i \in DOMAIN BasePlan : i \in DOMAIN live /\ BasePlan[i].gen = live[i].gen
  /\ DOMAIN BasePlan \cap DOMAIN genParent = {}

GoTypes ==
  /\ Going \subseteq DOMAIN live /\ SettledLive \subseteq DOMAIN live /\ Going \cap SettledLive = {}
  /\ \A n \in Going : (go[n].at = "splice" => go[n].frag \in Fragments) /\ (go[n].at = "lookup" => n \in DOMAIN stored)
  /\ \A n \in DOMAIN stored : stored[n] \in Fragments

\* There is an order in which every step comes after its needs, and every
\* generated step after its generator.
OrderIs(W, graph, parent) ==
  /\ Strict(W)
  /\ \A i \in DOMAIN graph : \A j \in graph[i].needs : <<i, j>> \in W
  /\ \A o \in DOMAIN parent : <<o, parent[o]>> \in W
Ordered == \E W : OrderIs(W, live, genParent)

\* A generated step needs its generator or a step generated with it.
Anchored ==
  \A o \in DOMAIN genParent :
    \/ genParent[o] \in live[o].needs
    \/ \E p \in live[o].needs : p \in DOMAIN genParent /\ genParent[p] = genParent[o]

\* What a step in execution, or one that was, needs has passed, and so has its
\* generator; and whoever needs a generator needs what it spliced.
Active(n) == n \in Going \/ (n \in SettledLive /\ stepState[n] # "skipped")
HasPassed(m) == m \in SettledLive /\ PassedState(stepState[m])
PassedDown == \A n \in DOMAIN live : Active(n) => \A m \in live[n].needs : HasPassed(m)
ParentPassed == \A o \in DOMAIN genParent : Active(o) => HasPassed(genParent[o])
Attached ==
  \A n \in DOMAIN live : \A g \in live[n].needs \cap DOMAIN boundaryOf :
    n \notin OwnNodes(g) /\ Active(g) => boundaryOf[g] \subseteq live[n].needs

GenKept == GraphTypes /\ GoTypes /\ Ordered /\ Anchored /\ PassedDown /\ ParentPassed /\ Attached

LEMMA GenGives == GenKept => LiveGraphSound /\ BoundaryIsWaitedFor
<1> SUFFICES ASSUME GenKept PROVE LiveGraphSound /\ BoundaryIsWaitedFor
  OBVIOUS
<1> DEFINE E == {e \in (DOMAIN live) \X (DOMAIN live) : e[2] \in live[e[1]].needs}
<1>1. ~Cyclic(DOMAIN live, E)
  <2>1. PICK W : OrderIs(W, live, genParent)
    BY DEF GenKept, Ordered
  <2>2. \A i \in DOMAIN live, j \in DOMAIN live : <<i, j>> \in E => <<i, j>> \in W
    BY <2>1 DEF OrderIs
  <2>3. IsFiniteSet(DOMAIN live) /\ Strict(W)
    BY <2>1 DEF GenKept, GraphTypes, OrderIs
  <2> HIDE DEF E
  <2> QED
    BY <2>2, <2>3, OrderedIsAcyclic
<1>2. \A i \in DOMAIN live : live[i].needs \subseteq DOMAIN live
  BY DEF GenKept, GraphTypes, PlanNodes
<1>3. \A i \in DOMAIN genDepth : genDepth[i] <= MaxDepth
  BY GenerateAssumption DEF GenKept, GraphTypes
<1>4. LiveGraphSound
  BY <1>1, <1>2, <1>3 DEF GenKept, GraphTypes, LiveGraphSound
<1>5. ASSUME NEW n \in Going, NEW g \in live[n].needs \cap DOMAIN boundaryOf, n \notin OwnNodes(g), NEW b \in boundaryOf[g]
      PROVE  b \in SettledLive /\ PassedState(stepState[b])
  <2>1. n \in DOMAIN live /\ Active(n)
    BY DEF GenKept, GoTypes, Active
  <2>2. HasPassed(g)
    BY <2>1 DEF GenKept, PassedDown
  <2>3. Active(g)
    BY <2>2 DEF HasPassed, PassedState, Active
  <2>4. b \in live[n].needs
    BY <1>5, <2>1, <2>3 DEF GenKept, Attached
  <2> QED
    BY <2>1, <2>4 DEF GenKept, PassedDown, HasPassed
<1> QED
  BY <1>4, <1>5 DEF BoundaryIsWaitedFor

LEMMA GenStarts == GenerateInit => GenKept
<1> SUFFICES ASSUME GenerateInit PROVE GenKept
  OBVIOUS
<1>0. /\ live = BasePlan /\ byID = BasePlan /\ genParent = << >> /\ genDepth = << >> /\ stepState = << >>
      /\ go = << >> /\ boundaryOf = << >>
      /\ stored \in {<< >>} \cup [PureSteps -> {f \in Fragments : WellFormed(f)}]
  BY DEF GenerateInit
<1>e. DOMAIN genParent = {} /\ DOMAIN genDepth = {} /\ DOMAIN stepState = {} /\ DOMAIN go = {} /\ DOMAIN boundaryOf = {}
  BY <1>0
<1>1. GraphTypes
  BY <1>0, <1>e, GenerateAssumption DEF GraphTypes, PlanNodes
<1>2. GoTypes
  <2>1. \A n \in DOMAIN stored : stored[n] \in Fragments
    BY <1>0
  <2> QED
    BY <1>e, <2>1 DEF GoTypes, Going, SettledLive
<1>3. Ordered
  <2> DEFINE E == {e \in (DOMAIN BasePlan) \X (DOMAIN BasePlan) : e[2] \in BasePlan[e[1]].needs}
  <2>1. IsFiniteSet(DOMAIN BasePlan) /\ ~Cyclic(DOMAIN BasePlan, E)
    BY GenerateAssumption
  <2>2. \A i \in DOMAIN BasePlan : \A j \in BasePlan[i].needs : <<i, j>> \in E /\ j \in DOMAIN BasePlan
    BY GenerateAssumption
  <2> HIDE DEF E
  <2>3. PICK W \in SUBSET ((DOMAIN BasePlan) \X (DOMAIN BasePlan)) :
          Strict(W) /\ \A i \in DOMAIN BasePlan, j \in DOMAIN BasePlan : <<i, j>> \in E => <<i, j>> \in W
    BY <2>1, AcyclicIsOrdered
  <2>4. OrderIs(W, live, genParent)
    BY <1>0, <1>e, <2>2, <2>3 DEF OrderIs
  <2> QED
    BY <2>4 DEF Ordered
<1>4. Anchored /\ ParentPassed
  BY <1>e DEF Anchored, ParentPassed
<1>5. PassedDown /\ Attached
  BY <1>e DEF PassedDown, Attached, Active, Going, SettledLive
<1> QED
  BY <1>1, <1>2, <1>3, <1>4, <1>5 DEF GenKept

\* A step that leaves the graph alone.
LEMMA RunMovesOn ==
  ASSUME GenKept, UNCHANGED <<live, byID, genParent, genDepth>>,
         \A n \in DOMAIN live : Active(n)' => Active(n) \/ \A m \in live[n].needs : HasPassed(m)',
         \A n \in DOMAIN live : \A m \in live[n].needs : Active(n)' /\ Active(n) /\ HasPassed(m) => HasPassed(m)',
         \A o \in DOMAIN genParent : Active(o)' /\ Active(o) /\ HasPassed(genParent[o]) => HasPassed(genParent[o])',
         \A m : HasPassed(m)' => Active(m),
         \A g \in DOMAIN boundaryOf' : /\ g \in DOMAIN boundaryOf /\ boundaryOf'[g] = boundaryOf[g]
                                       /\ Active(g)' => Active(g),
         GoTypes'
  PROVE  GenKept'
<1>1. GraphTypes' /\ Anchored'
  BY DEF GenKept, GraphTypes, Anchored
<1>2. Ordered'
  <2>1. PICK W : OrderIs(W, live, genParent)
    BY DEF GenKept, Ordered
  <2>2. OrderIs(W, live', genParent')
    BY <2>1
  <2> QED
    BY <2>2 DEF Ordered
<1>3. PassedDown'
  BY DEF GenKept, PassedDown
<1>4. ASSUME NEW o \in DOMAIN genParent, Active(o)' PROVE HasPassed(genParent[o])'
  <2>1. o \in DOMAIN live
    BY DEF GenKept, GraphTypes
  <2>2. CASE Active(o)
    BY <1>4, <2>2 DEF GenKept, ParentPassed
  <2>3. CASE \A m \in live[o].needs : HasPassed(m)'
    <3>1. CASE genParent[o] \in live[o].needs
      BY <2>3, <3>1
    <3>2. CASE \E p \in live[o].needs : p \in DOMAIN genParent /\ genParent[p] = genParent[o]
      <4>1. PICK p \in live[o].needs : p \in DOMAIN genParent /\ genParent[p] = genParent[o]
        BY <3>2
      <4>2. HasPassed(p)' /\ Active(p)
        BY <2>3, <4>1
      <4>3. Active(p)'
        BY <4>2 DEF HasPassed, PassedState, Active
      <4>4. HasPassed(genParent[p])
        BY <4>1, <4>2 DEF GenKept, ParentPassed
      <4> QED
        BY <4>1, <4>2, <4>3, <4>4
    <3> QED
      BY <3>1, <3>2 DEF GenKept, Anchored
  <2> QED
    BY <1>4, <2>1, <2>2, <2>3
<1>5. ParentPassed'
  BY <1>4 DEF ParentPassed
<1>6. Attached'
  <2> SUFFICES ASSUME NEW n \in DOMAIN live', NEW g \in live'[n].needs \cap DOMAIN boundaryOf',
                      n \notin OwnNodes(g)', Active(g)'
               PROVE  boundaryOf'[g] \subseteq live'[n].needs
    BY DEF Attached
  <2>1. n \in DOMAIN live /\ g \in live[n].needs \cap DOMAIN boundaryOf /\ boundaryOf'[g] = boundaryOf[g] /\ Active(g)
    OBVIOUS
  <2>2. n \notin OwnNodes(g)
    BY DEF OwnNodes
  <2> QED
    BY <2>1, <2>2 DEF GenKept, Attached
<1> QED
  BY <1>1, <1>2, <1>3, <1>5, <1>6 DEF GenKept

\* run.rerun_from takes with a step whatever needs it, and with a generator what
\* it generated.
LEMMA ClosureIs ==
  ASSUME GenKept, NEW n \in DOMAIN live
  PROVE  LET C == dependentsClosure(n)
         IN  /\ n \in C /\ C \subseteq DOMAIN live
             /\ \A j \in DOMAIN live : \A i \in live[j].needs : i \in C => j \in C
             /\ \A o \in DOMAIN genParent : genParent[o] \in C => o \in C
<1> DEFINE E == {e \in (DOMAIN live) \X (DOMAIN live) : e[1] \in live[e[2]].needs}
           C == dependentsClosure(n)
<1>1. C = Reach(DOMAIN live, E, {n})
  BY DEF dependentsClosure
<1>2. \A j \in DOMAIN live : \A i \in live[j].needs : i \in DOMAIN live /\ <<i, j>> \in E
  BY DEF GenKept, GraphTypes, PlanNodes
<1>3. IsFiniteSet(DOMAIN live) /\ {n} \in SUBSET DOMAIN live
  BY DEF GenKept, GraphTypes
<1> HIDE DEF E, C
<1>4. n \in C /\ C \subseteq DOMAIN live /\ \A j \in DOMAIN live : \A i \in live[j].needs : i \in C => j \in C
  <2> DEFINE D == DOMAIN live
  <2>1. IsFiniteSet(D) /\ {n} \in SUBSET D
    BY <1>3
  <2> HIDE DEF D
  <2>2. /\ {n} \subseteq Reach(D, E, {n}) /\ Reach(D, E, {n}) \subseteq D
        /\ \A i \in Reach(D, E, {n}), j \in D : <<i, j>> \in E => j \in Reach(D, E, {n})
    BY <2>1, ReachClosed
  <2>3. n \in C /\ C \subseteq D /\ \A i \in C, j \in D : <<i, j>> \in E => j \in C
    BY <1>1, <2>2 DEF D
  <2> QED
    BY <1>2, <2>3 DEF D
<1>5. ASSUME NEW o \in DOMAIN genParent, genParent[o] \in C, o \notin C PROVE FALSE
  <2> DEFINE T == {q \in DOMAIN genParent : genParent[q] = genParent[o] /\ q \notin C}
  <2>1. T \in SUBSET DOMAIN live /\ T # {}
    BY <1>5 DEF GenKept, GraphTypes
  <2>2. IsFiniteSet(T)
    BY <1>3, <2>1, FS_Subset
  <2>3. PICK W : OrderIs(W, live, genParent)
    BY DEF GenKept, Ordered
  <2>4. ASSUME NEW q \in T PROVE \E p \in T : <<q, p>> \in W
    <3>1. q \in DOMAIN live /\ q \in DOMAIN genParent /\ genParent[q] \in C /\ q \notin C
      BY <1>5, <2>1, <2>4
    <3>2. genParent[q] \notin live[q].needs
      BY <1>4, <3>1
    <3>3. PICK p \in live[q].needs : p \in DOMAIN genParent /\ genParent[p] = genParent[q]
      BY <3>1, <3>2 DEF GenKept, Anchored
    <3>4. p \notin C /\ <<q, p>> \in W
      BY <1>4, <2>3, <3>1, <3>3 DEF OrderIs
    <3> QED
      BY <2>4, <3>3, <3>4
  <2>5. Strict(W)
    BY <2>3 DEF OrderIs
  <2> HIDE DEF T
  <2> QED
    BY <2>1, <2>2, <2>4, <2>5, HasMinimal
<1> QED
  BY <1>4, <1>5 DEF C

\* A node of the plan that moves and leaves the graph alone.
LEMMA GoingKeeps ==
  ASSUME GenKept, NEW n \in Going, DOMAIN go' = DOMAIN go, \A m \in Going \ {n} : go'[m] = go[m],
         go'[n].at = "splice" => go'[n].frag \in Fragments, go'[n].at # "lookup",
         UNCHANGED <<live, byID, genParent, genDepth, boundaryOf, stepState, stored>>
  PROVE  GenKept'
<1>1. Going' = Going /\ SettledLive' = SettledLive
  BY DEF Going, SettledLive
<1>2. GoTypes'
  BY <1>1 DEF GenKept, GoTypes
<1>3. (\A m : Active(m)' <=> Active(m)) /\ (\A m : HasPassed(m)' <=> HasPassed(m)) /\ (\A m : HasPassed(m) => Active(m))
  BY <1>1 DEF Active, HasPassed, PassedState
<1> QED
  BY <1>2, <1>3, RunMovesOn

LEMMA MovesIs ==
  ASSUME NEW n, NEW a, NEW e, NEW f, Moves(n, a, e, f)
  PROVE  /\ DOMAIN go' = DOMAIN go \cup {n} /\ \A m \in DOMAIN go \ {n} : go'[m] = go[m]
         /\ go'[n].at = a /\ go'[n].frag = f
BY DEF Moves, With

LEMMA DispatchKeeps ==
  ASSUME GenKept, NEW n \in DOMAIN live, DispatchLive(n)
  PROVE  GenKept'
<1> DEFINE a == IF n \in PureSteps \cap DOMAIN stored THEN "lookup" ELSE "run"
<1>1. /\ n \in DOMAIN live /\ n \notin SettledLive /\ n \notin Going
      /\ \A m \in live[n].needs : HasPassed(m)
      /\ UNCHANGED <<live, byID, genParent, genDepth, stepState, stored>>
      /\ boundaryOf' = Without(boundaryOf, {n})
      /\ Moves(n, a, "none", NoFragment)
  BY DEF DispatchLive, Pending, HasPassed
<1>2. DOMAIN go' = DOMAIN go \cup {n} /\ (\A m \in DOMAIN go \ {n} : go'[m] = go[m]) /\ go'[n].at = a
  BY <1>1, MovesIs
<1>3. a # "splice" /\ (a = "lookup" => n \in DOMAIN stored)
  OBVIOUS
<1> HIDE DEF a
<1>4. Going' = Going \cup {n} /\ SettledLive' = SettledLive
  BY <1>1, <1>2 DEF Going, SettledLive
<1>5. GoTypes'
  BY <1>1, <1>2, <1>3, <1>4 DEF GenKept, GoTypes, Going
<1>6. (\A m : HasPassed(m)' <=> HasPassed(m)) /\ (\A m : HasPassed(m) => Active(m)) /\ (\A m : m # n => (Active(m)' <=> Active(m)))
  BY <1>1, <1>4 DEF Active, HasPassed, PassedState
<1>7. \A g \in DOMAIN boundaryOf' : g \in DOMAIN boundaryOf /\ g # n /\ boundaryOf'[g] = boundaryOf[g]
  BY <1>1 DEF Without
<1>8. \A m \in DOMAIN live : Active(m)' => Active(m) \/ \A d \in live[m].needs : HasPassed(d)'
  BY <1>1, <1>6
<1> QED
  BY <1>1, <1>5, <1>6, <1>7, <1>8, RunMovesOn

LEMMA SkipKeeps ==
  ASSUME GenKept, NEW n \in DOMAIN live, SkipBlocked(n)
  PROVE  GenKept'
<1>1. /\ n \notin SettledLive /\ n \notin Going /\ stepState' = With(stepState, n, "skipped")
      /\ UNCHANGED <<live, byID, genParent, genDepth, boundaryOf, go, stored>>
  BY DEF SkipBlocked, Pending, graphVars
<1>2. /\ DOMAIN stepState' = DOMAIN stepState \cup {n} /\ stepState'[n] = "skipped"
      /\ \A m \in DOMAIN stepState : m # n => stepState'[m] = stepState[m]
  BY <1>1 DEF With
<1>3. Going' = Going /\ SettledLive' = SettledLive \cup {n}
  BY <1>1, <1>2 DEF Going, SettledLive
<1>4. GoTypes'
  BY <1>1, <1>3 DEF GenKept, GoTypes
<1>5. \A m : HasPassed(m)' <=> HasPassed(m)
  BY <1>1, <1>2, <1>3 DEF HasPassed, PassedState, SettledLive
<1>6. \A m : Active(m)' <=> Active(m)
  BY <1>1, <1>2, <1>3 DEF Active, SettledLive
<1>7. \A m : HasPassed(m) => Active(m)
  BY DEF HasPassed, PassedState, Active
<1> QED
  BY <1>1, <1>4, <1>5, <1>6, <1>7, RunMovesOn

LEMMA SettleKeeps ==
  ASSUME GenKept, NEW n \in DOMAIN live, SettleLive(n)
  PROVE  GenKept'
<1>1. /\ n \in Going /\ stepState' = With(stepState, n, go[n].end) /\ go' = Without(go, {n})
      /\ UNCHANGED <<live, byID, genParent, genDepth, boundaryOf, stored>>
  BY DEF SettleLive, At, graphVars
<1>2. /\ DOMAIN stepState' = DOMAIN stepState \cup {n} /\ \A m \in DOMAIN stepState : m # n => stepState'[m] = stepState[m]
      /\ DOMAIN go' = DOMAIN go \ {n} /\ \A m \in DOMAIN go' : go'[m] = go[m]
  BY <1>1 DEF With, Without
<1>3. Going' = Going \ {n} /\ SettledLive' = SettledLive \cup {n} /\ n \notin SettledLive
  BY <1>1, <1>2 DEF Going, SettledLive, GenKept, GoTypes
<1>4. GoTypes'
  BY <1>1, <1>2, <1>3 DEF GenKept, GoTypes, Going
<1>5. \A m : HasPassed(m) => HasPassed(m)' /\ Active(m)
  BY <1>2, <1>3 DEF HasPassed, PassedState, SettledLive, Active
<1>6. \A m : Active(m)' => Active(m)
  BY <1>1, <1>2, <1>3 DEF Active, SettledLive
<1>7. \A m : HasPassed(m)' => Active(m)
  BY <1>1, <1>2, <1>3 DEF HasPassed, PassedState, SettledLive, Active
<1> QED
  BY <1>1, <1>4, <1>5, <1>6, <1>7, RunMovesOn

LEMMA RerunKeeps ==
  ASSUME GenKept, NEW n \in DOMAIN live, RerunFromLive(n)
  PROVE  GenKept'
<1> DEFINE C == dependentsClosure(n)
<1>1. /\ C \cap Going = {} /\ stepState' = Without(stepState, C)
      /\ UNCHANGED <<live, byID, genParent, genDepth, boundaryOf, go, stored>>
  BY DEF RerunFromLive, graphVars
<1>2. /\ \A j \in DOMAIN live : \A i \in live[j].needs : i \in C => j \in C
      /\ \A o \in DOMAIN genParent : genParent[o] \in C => o \in C
  BY ClosureIs
<1> HIDE DEF C
<1>3. DOMAIN stepState' = DOMAIN stepState \ C /\ \A m \in DOMAIN stepState' : stepState'[m] = stepState[m]
  BY <1>1 DEF Without
<1>4. Going' = Going /\ SettledLive' = SettledLive \ C
  BY <1>1, <1>3 DEF Going, SettledLive
<1>5. GoTypes'
  BY <1>1, <1>4 DEF GenKept, GoTypes
<1>6. \A m : Active(m)' => Active(m) /\ m \notin C
  BY <1>1, <1>3, <1>4 DEF Active, SettledLive
<1>7. \A m : m \notin C => (HasPassed(m)' <=> HasPassed(m))
  BY <1>3, <1>4 DEF HasPassed, SettledLive
<1>8. \A m : HasPassed(m)' => Active(m)
  BY <1>3, <1>4 DEF HasPassed, PassedState, SettledLive, Active
<1>9. \A j \in DOMAIN live : \A m \in live[j].needs : Active(j)' /\ HasPassed(m) => HasPassed(m)'
  BY <1>2, <1>6, <1>7
<1>10. \A o \in DOMAIN genParent : Active(o)' /\ HasPassed(genParent[o]) => HasPassed(genParent[o])'
  <2> SUFFICES ASSUME NEW o \in DOMAIN genParent, Active(o)', HasPassed(genParent[o]) PROVE HasPassed(genParent[o])'
    OBVIOUS
  <2> DEFINE p == genParent[o]
  <2>1. p \notin C /\ p' = p
    BY <1>1, <1>2, <1>6
  <2> HIDE DEF p
  <2>2. HasPassed(p) => p \in SettledLive' /\ PassedState(stepState'[p])
    BY <1>3, <1>4, <2>1 DEF HasPassed, SettledLive
  <2> QED
    BY <2>1, <2>2 DEF HasPassed, p
<1> QED
  BY <1>1, <1>5, <1>6, <1>8, <1>9, <1>10, RunMovesOn

LEMMA RetryKeeps ==
  ASSUME GenKept, NEW n \in DOMAIN live, RetryLive(n)
  PROVE  GenKept'
<1>1. PICK e : /\ n \in SettledLive /\ stepState[n] = "failed" /\ stepState' = Without(stepState, {n})
               /\ Moves(n, "settle", e, NoFragment)
               /\ UNCHANGED <<live, byID, genParent, genDepth, boundaryOf, stored>>
  BY DEF RetryLive, graphVars
<1>2. /\ DOMAIN stepState' = DOMAIN stepState \ {n} /\ \A m \in DOMAIN stepState' : stepState'[m] = stepState[m]
      /\ DOMAIN go' = DOMAIN go \cup {n} /\ (\A m \in DOMAIN go \ {n} : go'[m] = go[m]) /\ go'[n].at = "settle"
  BY <1>1, MovesIs DEF Without
<1>3. Going' = Going \cup {n} /\ SettledLive' = SettledLive \ {n}
  BY <1>2 DEF Going, SettledLive
<1>4. GoTypes'
  BY <1>1, <1>2, <1>3 DEF GenKept, GoTypes, Going
<1>5. \A m : HasPassed(m)' <=> HasPassed(m)
  BY <1>1, <1>2, <1>3 DEF HasPassed, PassedState, SettledLive
<1>6. \A m : Active(m)' <=> Active(m)
  BY <1>1, <1>2, <1>3 DEF Active, SettledLive
<1>7. \A m : HasPassed(m) => Active(m)
  BY DEF HasPassed, PassedState, Active
<1> QED
  BY <1>1, <1>4, <1>5, <1>6, <1>7, RunMovesOn

\* The shape of a fragment's nodes.
LEMMA NodeShape ==
  ASSUME NEW f \in Fragments, NEW k \in 1..Len(f.nodes)
  PROVE  f.nodes[k] \in [id : IdNames, needs : SUBSET IdNames, gen : BOOLEAN]
<1> DEFINE R == [id : IdNames, needs : SUBSET IdNames, gen : BOOLEAN]
           s == f.nodes
<1>1. s \in Seq(R)
  BY GenerateAssumption
<1> HIDE DEF R, s
<1>2. \A j \in 1..Len(s) : s[j] \in R
  BY <1>1
<1> QED
  BY <1>2 DEF R, s

\* What a fragment becomes when it joins the graph: finitely many new ids, all
\* under the generator's own, each anchored to it or to one another, in an
\* order of their own.
LEMMA LocalIdsFinite ==
  ASSUME NEW f \in Fragments
  PROVE  IsFiniteSet(LocalIds(f)) /\ LocalIds(f) \subseteq IdNames
<1>1. f.nodes \in Seq([id : IdNames, needs : SUBSET IdNames, gen : BOOLEAN])
  BY GenerateAssumption
<1>2. IsFiniteSet(1..Len(f.nodes))
  BY <1>1, FS_Interval
<1> DEFINE h == [k \in 1..Len(f.nodes) |-> f.nodes[k].id]
<1>3. h \in Surjection(1..Len(f.nodes), LocalIds(f))
  BY DEF Surjection, LocalIds
<1>4. IsFiniteSet(LocalIds(f))
  BY <1>2, <1>3, FS_Surjection
<1>5. \A k \in 1..Len(f.nodes) : f.nodes[k] \in [id : IdNames, needs : SUBSET IdNames, gen : BOOLEAN]
  BY NodeShape
<1>6. \A k \in 1..Len(f.nodes) : f.nodes[k].id \in IdNames
  BY <1>5
<1> QED
  BY <1>4, <1>6 DEF LocalIds

LEMMA AppendsDiffer ==
  ASSUME NEW g \in Seq(IdNames), NEW l \in IdNames, NEW m \in IdNames
  PROVE  /\ Append(g, l) \in Seq(IdNames) /\ Append(g, l) # g
         /\ Append(g, l) = Append(g, m) => l = m
<1>1. Append(g, l) \in Seq(IdNames) /\ Len(Append(g, l)) = Len(g) + 1 /\ Len(g) \in Nat
  OBVIOUS
<1>2. Append(g, l)[Len(g) + 1] = l /\ Append(g, m)[Len(g) + 1] = m
  OBVIOUS
<1> QED
  BY <1>1, <1>2

\* The node of a local id.
LEMMA PrefixedIs ==
  ASSUME NEW g \in Seq(IdNames), NEW f \in Fragments, NEW b \in DOMAIN PrefixedNodes(f, g)
  PROVE  \E k \in 1..Len(f.nodes) :
           /\ b = Append(g, f.nodes[k].id) /\ f.nodes[k].id \in LocalIds(f)
           /\ f.nodes[k] \in [id : IdNames, needs : SUBSET IdNames, gen : BOOLEAN]
           /\ PrefixedNodes(f, g)[b] = [needs |-> IF f.nodes[k].needs = {} THEN {g}
                                                  ELSE {Append(g, l) : l \in f.nodes[k].needs},
                                        gen |-> f.nodes[k].gen]
<1> DEFINE k == CHOOSE j \in 1..Len(f.nodes) : Append(g, f.nodes[j].id) = b
<1>1. \E j \in 1..Len(f.nodes) : Append(g, f.nodes[j].id) = b
  BY DEF PrefixedNodes, LocalIds
<1>2. k \in 1..Len(f.nodes) /\ Append(g, f.nodes[k].id) = b
  BY <1>1
<1>3. PrefixedNodes(f, g)[b] = [needs |-> IF f.nodes[k].needs = {} THEN {g}
                                          ELSE {Append(g, l) : l \in f.nodes[k].needs},
                                gen |-> f.nodes[k].gen]
  BY DEF PrefixedNodes
<1> HIDE DEF k
<1>5. f.nodes[k] \in [id : IdNames, needs : SUBSET IdNames, gen : BOOLEAN]
  BY <1>2, NodeShape
<1>6. f.nodes[k].id \in LocalIds(f)
  BY <1>2 DEF LocalIds
<1> QED
  BY <1>2, <1>3, <1>5, <1>6

LEMMA FragmentTypes ==
  ASSUME NEW g \in Seq(IdNames), NEW f \in Fragments, WellFormed(f)
  PROVE  LET P == PrefixedNodes(f, g)
             B == DOMAIN P
         IN  /\ IsFiniteSet(B) /\ B \subseteq Seq(IdNames) /\ g \notin B /\ Boundary(f, g) \subseteq B
             /\ \A b \in B : P[b] \in PlanNodes(B \cup {g})
             /\ \A b \in B : P[b].needs = {g} \/ (P[b].needs # {} /\ P[b].needs \subseteq B)
             /\ \A b \in B : \E l \in LocalIds(f) : b = Append(g, l)
<1> DEFINE P == PrefixedNodes(f, g)
           B == DOMAIN P
           L == LocalIds(f)
<1>1. B = {Append(g, l) : l \in L}
  BY DEF PrefixedNodes
<1>2. IsFiniteSet(L) /\ L \subseteq IdNames
  BY LocalIdsFinite
<1>3. IsFiniteSet(B)
  <2> DEFINE h == [l \in L |-> Append(g, l)]
  <2>1. h \in Surjection(L, B)
    BY <1>1 DEF Surjection
  <2> HIDE DEF h, L, B
  <2> QED
    BY <1>2, <2>1, FS_Surjection
<1>4. B \subseteq Seq(IdNames) /\ g \notin B
  BY <1>1, <1>2, AppendsDiffer
<1>5. Boundary(f, g) \subseteq B
  BY <1>1 DEF Boundary, WellFormed
<1>6. \A k \in 1..Len(f.nodes) : f.nodes[k].needs \subseteq L
  BY DEF WellFormed
<1>7. ASSUME NEW b \in B
      PROVE  /\ P[b] \in PlanNodes(B \cup {g})
             /\ P[b].needs = {g} \/ (P[b].needs # {} /\ P[b].needs \subseteq B)
  <2>1. PICK k \in 1..Len(f.nodes) :
           /\ f.nodes[k] \in [id : IdNames, needs : SUBSET IdNames, gen : BOOLEAN]
           /\ P[b] = [needs |-> IF f.nodes[k].needs = {} THEN {g}
                                ELSE {Append(g, l) : l \in f.nodes[k].needs},
                      gen |-> f.nodes[k].gen]
    BY <1>7, PrefixedIs
  <2>2. {Append(g, l) : l \in f.nodes[k].needs} \subseteq B
    BY <1>1, <1>6, <2>1
  <2> DEFINE A == {Append(g, l) : l \in f.nodes[k].needs}
  <2>3. A \subseteq B /\ (f.nodes[k].needs # {} => A # {}) /\ f.nodes[k].gen \in BOOLEAN
    BY <2>1, <2>2
  <2> HIDE DEF B, P, L, A
  <2>4. CASE f.nodes[k].needs = {}
    <3>1. P[b] = [needs |-> {g}, gen |-> f.nodes[k].gen]
      BY <2>1, <2>4 DEF A
    <3> QED
      BY <2>3, <3>1 DEF PlanNodes
  <2>5. CASE f.nodes[k].needs # {}
    <3>1. P[b] = [needs |-> A, gen |-> f.nodes[k].gen]
      BY <2>1, <2>5 DEF A
    <3> QED
      BY <2>3, <2>5, <3>1 DEF PlanNodes
  <2> QED
    BY <2>4, <2>5
<1> QED
  BY <1>1, <1>3, <1>4, <1>5, <1>7

LEMMA FragmentOrder ==
  ASSUME NEW g \in Seq(IdNames), NEW f \in Fragments, WellFormed(f)
  PROVE  LET P == PrefixedNodes(f, g)
             B == DOMAIN P
         IN  \E W \in SUBSET (B \X B) :
               Strict(W) /\ \A b \in B : \A c \in P[b].needs : c \in B => <<b, c>> \in W
<1> DEFINE P == PrefixedNodes(f, g)
           B == DOMAIN P
           L == LocalIds(f)
           E == {e \in L \X L : \E k \in 1..Len(f.nodes) : f.nodes[k].id = e[1] /\ e[2] \in f.nodes[k].needs}
<1>1. ~Cyclic(L, E)
  <2>1. fragmentAcyclic(f)
    BY DEF WellFormed
  <2> QED
    BY <2>1, Zenon DEF fragmentAcyclic
<1>2. IsFiniteSet(L) /\ L \subseteq IdNames
  BY LocalIdsFinite
<1>3. \A k \in 1..Len(f.nodes) : \A j \in f.nodes[k].needs : j \in L /\ <<f.nodes[k].id, j>> \in E
  BY DEF WellFormed, LocalIds
<1> HIDE DEF E
<1>4. PICK V \in SUBSET (L \X L) : Strict(V) /\ \A i \in L, j \in L : <<i, j>> \in E => <<i, j>> \in V
  <2> HIDE DEF L
  <2> QED
    BY <1>1, <1>2, AcyclicIsOrdered
<1> DEFINE n == Len(g) + 1
           W == {p \in B \X B : <<p[1][n], p[2][n]>> \in V}
<1>5. \A x, y : <<x, y>> \in W <=> x \in B /\ y \in B /\ <<x[n], y[n]>> \in V
  OBVIOUS
<1>6. W \in SUBSET (B \X B)
  OBVIOUS
<1> HIDE DEF W
<1>7. Strict(W)
  <2> DEFINE last(x) == x[n]
  <2>0. \A x, y : <<x, y>> \in W <=> x \in B /\ y \in B /\ <<last(x), last(y)>> \in V
    BY <1>5
  <2> HIDE DEF n, B, last
  <2>1. ASSUME NEW x, <<x, x>> \in W PROVE FALSE
    <3>1. <<last(x), last(x)>> \in V
      BY <2>0, <2>1
    <3>2. <<last(x), last(x)>> \notin V
      BY <1>4, Zenon DEF Strict
    <3> QED
      BY <3>1, <3>2
  <2>2. ASSUME NEW x, NEW y, NEW z, <<x, y>> \in W, <<y, z>> \in W PROVE <<x, z>> \in W
    <3>1. x \in B /\ z \in B /\ <<last(x), last(y)>> \in V /\ <<last(y), last(z)>> \in V
      BY <2>0, <2>2
    <3>2. <<last(x), last(z)>> \in V
      BY <1>4, <3>1, Zenon DEF Strict
    <3> QED
      BY <2>0, <3>1, <3>2
  <2> QED
    BY <2>1, <2>2 DEF Strict
<1>8. \A l \in L : Append(g, l)[n] = l
  BY <1>2
<1>9. ASSUME NEW b \in B, NEW c \in P[b].needs, c \in B PROVE <<b, c>> \in W
  <2>1. PICK k \in 1..Len(f.nodes) :
           /\ b = Append(g, f.nodes[k].id) /\ f.nodes[k].id \in L
           /\ P[b] = [needs |-> IF f.nodes[k].needs = {} THEN {g}
                                ELSE {Append(g, l) : l \in f.nodes[k].needs},
                      gen |-> f.nodes[k].gen]
    BY <1>9, PrefixedIs
  <2>2. c # g
    BY <1>9, FragmentTypes
  <2>3. PICK l \in f.nodes[k].needs : c = Append(g, l)
    BY <1>9, <2>1, <2>2
  <2>4. l \in L /\ <<f.nodes[k].id, l>> \in V
    BY <1>3, <1>4, <2>1, <2>3
  <2>5. b[n] = f.nodes[k].id /\ c[n] = l
    BY <1>8, <2>1, <2>3, <2>4
  <2> QED
    BY <1>5, <1>9, <2>4, <2>5
<1> QED
  BY <1>6, <1>7, <1>9

\* Two orders, the one of B put between the part A of the other and the rest.
OnTopOf(U, D, A, B, W, V) ==
  /\ Strict(U)
  /\ \A x \in B, y \in B : x \in D /\ y \in D /\ <<x, y>> \in V => <<x, y>> \in U
  /\ \A x \in B, y \in A : x \in D /\ y \in D => <<x, y>> \in U
  /\ \A x \in A, y \in A : x \in D /\ y \in D /\ <<x, y>> \in W => <<x, y>> \in U
  /\ \A x \in D \ (A \cup B), y \in D : y \in A \cup B \/ <<x, y>> \in W => <<x, y>> \in U

LEMMA Stacked ==
  ASSUME NEW D, NEW A, NEW B, A \cap B = {}, NEW W, Strict(W), NEW V, Strict(V)
  PROVE  \E U : OnTopOf(U, D, A, B, W, V)
<1> DEFINE U == {p \in D \X D :
                   \/ p[1] \in B /\ p[2] \in B /\ <<p[1], p[2]>> \in V
                   \/ p[1] \in B /\ p[2] \in A
                   \/ p[1] \in A /\ p[2] \in A /\ <<p[1], p[2]>> \in W
                   \/ p[1] \notin A \cup B /\ (p[2] \in A \cup B \/ <<p[1], p[2]>> \in W)}
<1>1. \A x, y : <<x, y>> \in U <=>
          /\ x \in D /\ y \in D
          /\ \/ x \in B /\ y \in B /\ <<x, y>> \in V
             \/ x \in B /\ y \in A
             \/ x \in A /\ y \in A /\ <<x, y>> \in W
             \/ x \notin A \cup B /\ (y \in A \cup B \/ <<x, y>> \in W)
  OBVIOUS
<1> HIDE DEF U
<1>2. \A x : <<x, x>> \notin U
  BY <1>1 DEF Strict
<1>3. ASSUME NEW x, NEW y, NEW z, <<x, y>> \in U, <<y, z>> \in U PROVE <<x, z>> \in U
  <2>1. (<<x, y>> \in V /\ <<y, z>> \in V => <<x, z>> \in V) /\ (<<x, y>> \in W /\ <<y, z>> \in W => <<x, z>> \in W)
    BY DEF Strict
  <2>2. CASE x \in B
    BY <1>1, <1>3, <2>1, <2>2
  <2>3. CASE x \in A
    BY <1>1, <1>3, <2>1, <2>3
  <2>4. CASE x \notin A \cup B
    BY <1>1, <1>3, <2>1, <2>4
  <2> QED
    BY <2>2, <2>3, <2>4
<1>4. Strict(U)
  BY <1>2, <1>3 DEF Strict
<1> QED
  BY <1>1, <1>4 DEF OnTopOf

\* A splice leaves the run a graph it can finish: what it adds, or replaces, is
\* what nothing has started from.
SplicesIn(g, f) ==
  /\ g \in Going /\ f \in Fragments /\ ~SpliceRefused(g, f) /\ addLocked(g, f)
  /\ DOMAIN go' = DOMAIN go /\ stepState' = stepState
  /\ \A m \in Going \ {g} : go'[m] = go[m]
  /\ go'[g].at = "settle"
  /\ DOMAIN stored \subseteq DOMAIN stored' /\ \A m \in DOMAIN stored' : stored'[m] \in Fragments

\* The graph after the splice, node by node.
AfterSplice(g, P, X) ==
  /\ DOMAIN live' = DOMAIN live \cup DOMAIN P /\ byID' = live'
  /\ \A i \in DOMAIN P : live'[i] = P[i]
  /\ \A i \in DOMAIN live \ DOMAIN P :
       /\ live'[i].needs = live[i].needs \cup (IF g \in live[i].needs THEN X ELSE {})
       /\ live'[i].gen = live[i].gen /\ live'[i] \in PlanNodes(DOMAIN live \cup X)
  /\ DOMAIN genParent' = DOMAIN genParent \cup DOMAIN P /\ DOMAIN genDepth' = DOMAIN genParent'
  /\ \A i \in DOMAIN P : genParent'[i] = g /\ genDepth'[i] = DepthOf(g) + 1
  /\ \A i \in DOMAIN genParent \ DOMAIN P : genParent'[i] = genParent[i] /\ genDepth'[i] = genDepth[i]
  /\ DOMAIN boundaryOf' = DOMAIN boundaryOf \cup {g} /\ boundaryOf'[g] = X
  /\ \A h \in DOMAIN boundaryOf \ {g} : boundaryOf'[h] = boundaryOf[h]

LEMMA SplicedGraph ==
  ASSUME GenKept, NEW g, NEW f, SplicesIn(g, f)
  PROVE  AfterSplice(g, PrefixedNodes(f, g), Boundary(f, g))
<1> DEFINE P == PrefixedNodes(f, g)
           B == DOMAIN P
           X == Boundary(f, g)
<1>1. /\ live' = Added(attachBoundary(live, g, X), P)
      /\ byID' = Added(attachBoundary(byID, g, X), P)
      /\ genDepth' = [i \in DOMAIN genDepth \cup DOMAIN P |-> IF i \in DOMAIN P THEN DepthOf(g) + 1 ELSE genDepth[i]]
      /\ genParent' = [i \in DOMAIN genParent \cup DOMAIN P |-> IF i \in DOMAIN P THEN g ELSE genParent[i]]
      /\ boundaryOf' = With(boundaryOf, g, X)
  BY DEF SplicesIn, addLocked
<1>2. byID = live /\ DOMAIN genDepth = DOMAIN genParent /\ \A i \in DOMAIN live : live[i] \in PlanNodes(DOMAIN live)
  BY DEF GenKept, GraphTypes
<1> HIDE DEF P, X
<1>3. DOMAIN attachBoundary(live, g, X) = DOMAIN live
  BY DEF attachBoundary
<1>4. DOMAIN live' = DOMAIN live \cup B /\ byID' = live' /\ \A i \in B : live'[i] = P[i]
  BY <1>1, <1>2, <1>3 DEF Added
<1>5. ASSUME NEW i \in DOMAIN live \ B
      PROVE  /\ live'[i].needs = live[i].needs \cup (IF g \in live[i].needs THEN X ELSE {})
             /\ live'[i].gen = live[i].gen /\ live'[i] \in PlanNodes(DOMAIN live \cup X)
  <2>1. live'[i] = attachBoundary(live, g, X)[i]
    BY <1>1, <1>3 DEF Added
  <2>2. live'[i] = IF g \in live[i].needs THEN [live[i] EXCEPT !.needs = @ \cup X] ELSE live[i]
    BY <2>1 DEF attachBoundary
  <2>3. live[i] \in PlanNodes(DOMAIN live)
    BY <1>2
  <2> QED
    BY <2>2, <2>3 DEF PlanNodes
<1>6. /\ DOMAIN genParent' = DOMAIN genParent \cup B /\ DOMAIN genDepth' = DOMAIN genParent'
      /\ \A i \in B : genParent'[i] = g /\ genDepth'[i] = DepthOf(g) + 1
      /\ \A i \in DOMAIN genParent \ B : genParent'[i] = genParent[i] /\ genDepth'[i] = genDepth[i]
  BY <1>1, <1>2
<1>7. /\ DOMAIN boundaryOf' = DOMAIN boundaryOf \cup {g} /\ boundaryOf'[g] = X
      /\ \A h \in DOMAIN boundaryOf \ {g} : boundaryOf'[h] = boundaryOf[h]
  BY <1>1 DEF With
<1> QED
  BY <1>4, <1>5, <1>6, <1>7 DEF AfterSplice, P, X

\* What the splice may replace: only what g generated, and none of it has run.
LEMMA SpliceTouches ==
  ASSUME GenKept, NEW g, NEW f, SplicesIn(g, f)
  PROVE  /\ g \in DOMAIN live /\ g \in Seq(IdNames) /\ f \in Fragments /\ WellFormed(f)
         /\ \A b \in DOMAIN PrefixedNodes(f, g) : /\ b \in DOMAIN live => b \in DOMAIN genParent /\ genParent[b] = g
                                                  /\ ~Active(b)
         /\ ~HasPassed(g)
<1>1. g \in DOMAIN live /\ g \in Seq(IdNames) /\ f \in Fragments /\ byID = live
  BY DEF SplicesIn, GenKept, GoTypes, GraphTypes
<1>2. WellFormed(f) /\ \A l \in LocalIds(f) : Append(g, l) \notin DOMAIN byID \ OwnNodes(g)
  BY DEF SplicesIn, SpliceRefused, Spliceable
<1>3. ~HasPassed(g)
  BY DEF SplicesIn, GenKept, GoTypes, HasPassed
<1>4. ASSUME NEW b \in DOMAIN PrefixedNodes(f, g)
      PROVE  (b \in DOMAIN live => b \in DOMAIN genParent /\ genParent[b] = g) /\ ~Active(b)
  <2>1. PICK l \in LocalIds(f) : b = Append(g, l)
    BY DEF PrefixedNodes
  <2>2. b \in DOMAIN live => b \in DOMAIN genParent /\ genParent[b] = g
    BY <1>1, <1>2, <2>1 DEF OwnNodes
  <2>3. Active(b) => b \in DOMAIN live
    BY DEF Active, GenKept, GoTypes
  <2>4. b \in DOMAIN genParent /\ Active(b) => HasPassed(genParent[b])
    BY DEF GenKept, ParentPassed
  <2> QED
    BY <1>3, <2>2, <2>3, <2>4
<1> QED
  BY <1>1, <1>2, <1>3, <1>4

LEMMA SpliceTypes ==
  ASSUME GenKept, NEW g, NEW f, SplicesIn(g, f)
  PROVE  GraphTypes' /\ GoTypes'
<1> DEFINE P == PrefixedNodes(f, g)
           B == DOMAIN P
           X == Boundary(f, g)
           D == DOMAIN live
<1>0. AfterSplice(g, P, X)
  BY SplicedGraph
<1>1. /\ g \in D /\ g \in Seq(IdNames) /\ f \in Fragments /\ WellFormed(f)
      /\ \A b \in B : b \in D => b \in DOMAIN genParent /\ genParent[b] = g
  BY SpliceTouches
<1>2. /\ IsFiniteSet(B) /\ B \subseteq Seq(IdNames) /\ g \notin B /\ X \subseteq B
      /\ \A b \in B : P[b] \in PlanNodes(B \cup {g})
  BY <1>1, FragmentTypes
<1> HIDE DEF P, X
<1>3. /\ DOMAIN live' = D \cup B /\ byID' = live'
      /\ \A i \in B : live'[i] = P[i]
      /\ \A i \in D \ B : live'[i].gen = live[i].gen /\ live'[i] \in PlanNodes(D \cup X)
      /\ DOMAIN genParent' = DOMAIN genParent \cup B
      /\ \A i \in B : genParent'[i] = g /\ genDepth'[i] = DepthOf(g) + 1
      /\ \A i \in DOMAIN genParent \ B : genParent'[i] = genParent[i] /\ genDepth'[i] = genDepth[i]
      /\ DOMAIN genDepth' = DOMAIN genParent'
  BY <1>0 DEF AfterSplice
<1>4. DepthOf(g) + 1 <= MaxDepth /\ Cardinality(D) + Cardinality(B \ DOMAIN byID) <= MaxNodes
  BY DEF SplicesIn, SpliceRefused, withinLimits, P
<1>5. GraphTypes
  BY DEF GenKept
<1>6. IsFiniteSet(D) /\ D \subseteq Seq(IdNames)
  BY <1>5 DEF GraphTypes
<1>7. IsFiniteSet(DOMAIN live') /\ DOMAIN live' \subseteq Seq(IdNames) /\ Cardinality(DOMAIN live') <= MaxNodes
  <2> DEFINE K == B \ D
  <2>1. K \in SUBSET B /\ D \cup B = D \cup K /\ D \cap K = {}
    OBVIOUS
  <2>2. Cardinality(D) + Cardinality(K) <= MaxNodes
    BY <1>4, <1>5 DEF GraphTypes
  <2> HIDE DEF K, D, B
  <2>3. IsFiniteSet(K)
    BY <1>2, <2>1, FS_Subset
  <2>4. IsFiniteSet(D \cup K) /\ Cardinality(D \cup K) = Cardinality(D) + Cardinality(K) - Cardinality(D \cap K)
    BY <1>6, <2>3, FS_Union
  <2>5. Cardinality(D \cap K) = 0 /\ Cardinality(D) \in Nat /\ Cardinality(K) \in Nat
    BY <1>6, <2>1, <2>3, FS_EmptySet, FS_CardinalityType
  <2>6. Cardinality(D \cup K) <= MaxNodes
    BY <2>2, <2>4, <2>5
  <2>7. DOMAIN live' = D \cup K
    BY <1>3, <2>1
  <2> QED
    BY <1>2, <1>3, <1>6, <2>4, <2>6, <2>7
<1>8. \A i \in DOMAIN live' : live'[i] \in PlanNodes(DOMAIN live')
  BY <1>1, <1>2, <1>3 DEF PlanNodes
<1>9. DepthOf(g) + 1 \in 1..MaxDepth
  <2>1. DepthOf(g) \in Nat
    BY <1>5, GenerateAssumption DEF DepthOf, GraphTypes
  <2> QED
    BY <1>4, <2>1, GenerateAssumption
<1>10. \A i \in DOMAIN genParent' : genParent'[i] \in DOMAIN live' /\ genDepth'[i] \in 1..MaxDepth
  BY <1>1, <1>3, <1>5, <1>9 DEF GraphTypes
<1>11. \A i \in DOMAIN BasePlan : i \in D \ B
  BY <1>1, <1>5 DEF GraphTypes
<1>12. GraphTypes'
  BY <1>3, <1>5, <1>7, <1>8, <1>10, <1>11 DEF GraphTypes
<1>13. Going' = Going /\ SettledLive' = SettledLive /\ g \in Going
  BY DEF Going, SettledLive, SplicesIn
<1>14. GoTypes'
  BY <1>3, <1>13 DEF GoTypes, GenKept, SplicesIn
<1> QED
  BY <1>12, <1>14

LEMMA SpliceOrder ==
  ASSUME GenKept, NEW g, NEW f, SplicesIn(g, f)
  PROVE  Ordered'
<1> DEFINE P == PrefixedNodes(f, g)
           B == DOMAIN P
           X == Boundary(f, g)
           D == DOMAIN live \cup B
<1>0. AfterSplice(g, P, X)
  BY SplicedGraph
<1>1. /\ g \in DOMAIN live /\ g \in Seq(IdNames) /\ f \in Fragments /\ WellFormed(f)
      /\ \A b \in B : b \in DOMAIN live => b \in DOMAIN genParent /\ genParent[b] = g
  BY SpliceTouches
<1>2. /\ g \notin B /\ X \subseteq B
      /\ \A b \in B : P[b].needs = {g} \/ (P[b].needs # {} /\ P[b].needs \subseteq B)
  BY <1>1, FragmentTypes
<1>3. PICK V : Strict(V) /\ \A b \in B : \A c \in P[b].needs : c \in B => <<b, c>> \in V
  BY <1>1, FragmentOrder
<1>4. PICK W : OrderIs(W, live, genParent)
  BY DEF GenKept, Ordered
<1> HIDE DEF P, X
<1>5. /\ DOMAIN live' = D
      /\ \A i \in B : live'[i] = P[i]
      /\ \A i \in DOMAIN live \ B : live'[i].needs = live[i].needs \cup (IF g \in live[i].needs THEN X ELSE {})
      /\ DOMAIN genParent' = DOMAIN genParent \cup B
      /\ \A i \in B : genParent'[i] = g
      /\ \A i \in DOMAIN genParent \ B : genParent'[i] = genParent[i]
  BY <1>0 DEF AfterSplice
<1>6. /\ \A i \in DOMAIN live : live[i].needs \subseteq DOMAIN live
      /\ \A o \in DOMAIN genParent : o \in DOMAIN live /\ genParent[o] \in DOMAIN live
  BY DEF GenKept, GraphTypes, PlanNodes
<1> DEFINE A == {g} \cup {j \in DOMAIN live : <<g, j>> \in W}
<1>7. Strict(W) /\ (\A i \in DOMAIN live : \A j \in live[i].needs : <<i, j>> \in W) /\ (\A o \in DOMAIN genParent : <<o, genParent[o]>> \in W)
  BY <1>4 DEF OrderIs
<1>8. A \cap B = {}
  <2> SUFFICES ASSUME NEW b \in A, b \in B PROVE FALSE
    OBVIOUS
  <2>1. b \in DOMAIN live /\ <<g, b>> \in W
    BY <1>2
  <2>2. b \in DOMAIN genParent /\ genParent[b] = g
    BY <1>1, <2>1
  <2>3. <<b, g>> \in W
    BY <1>7, <2>2
  <2> QED
    BY <1>7, <2>1, <2>3 DEF Strict
<1>9. /\ \A x \in A, y \in DOMAIN live : <<x, y>> \in W => y \in A
      /\ \A x \in A : <<x, g>> \notin W
      /\ A \subseteq D /\ g \in A
  BY <1>1, <1>7 DEF Strict
<1> HIDE DEF A
<1>10. PICK U : OnTopOf(U, D, A, B, W, V)
  <2> HIDE DEF B, D
  <2> QED
    BY <1>3, <1>7, <1>8, Stacked
<1>11. ASSUME NEW i \in DOMAIN live', NEW j \in live'[i].needs PROVE <<i, j>> \in U
  <2>1. CASE i \in B
    <3>1. j \in P[i].needs
      BY <1>5, <1>11, <2>1
    <3>2. CASE j = g
      BY <1>9, <1>10, <2>1, <3>2 DEF OnTopOf
    <3>3. CASE j # g
      <4>1. j \in B /\ <<i, j>> \in V
        BY <1>2, <1>3, <2>1, <3>1, <3>3
      <4> QED
        BY <1>10, <2>1, <4>1 DEF OnTopOf
    <3> QED
      BY <3>2, <3>3
  <2>2. CASE i \notin B
    <3>1. i \in DOMAIN live /\ i \in D /\ (j \in live[i].needs \/ (g \in live[i].needs /\ j \in X))
      BY <1>5, <1>11, <2>2
    <3>2. CASE i \in A
      <4>1. g \notin live[i].needs
        BY <1>7, <1>9, <3>1, <3>2
      <4>2. <<i, j>> \in W /\ j \in A
        BY <1>6, <1>7, <1>9, <3>1, <3>2, <4>1
      <4> QED
        BY <1>9, <1>10, <3>2, <4>2 DEF OnTopOf
    <3>3. CASE i \notin A
      <4>1. j \in D /\ (j \in B \/ <<i, j>> \in W)
        BY <1>2, <1>6, <1>7, <3>1
      <4> QED
        BY <1>10, <2>2, <3>1, <3>3, <4>1 DEF OnTopOf
    <3> QED
      BY <3>2, <3>3
  <2> QED
    BY <2>1, <2>2
<1>12. ASSUME NEW o \in DOMAIN genParent' PROVE <<o, genParent'[o]>> \in U
  <2>1. CASE o \in B
    BY <1>5, <1>9, <1>10, <2>1 DEF OnTopOf
  <2>2. CASE o \notin B
    <3>1. o \in DOMAIN genParent /\ genParent'[o] = genParent[o]
      BY <1>5, <2>2
    <3>2. o \in DOMAIN live /\ genParent[o] \in DOMAIN live /\ <<o, genParent[o]>> \in W
      BY <1>6, <1>7, <3>1
    <3>3. CASE o \in A
      BY <1>9, <1>10, <3>1, <3>2, <3>3 DEF OnTopOf
    <3>4. CASE o \notin A
      BY <1>10, <2>2, <3>1, <3>2, <3>4 DEF OnTopOf
    <3> QED
      BY <3>3, <3>4
  <2> QED
    BY <2>1, <2>2
<1>13. OrderIs(U, live', genParent')
  BY <1>10, <1>11, <1>12 DEF OrderIs, OnTopOf
<1> QED
  BY <1>13 DEF Ordered

LEMMA SpliceKeeps ==
  ASSUME GenKept, NEW g, NEW f, SplicesIn(g, f)
  PROVE  GenKept'
<1> DEFINE P == PrefixedNodes(f, g)
           B == DOMAIN P
           X == Boundary(f, g)
<1>0. AfterSplice(g, P, X)
  BY SplicedGraph
<1>1. /\ g \in DOMAIN live /\ g \in Seq(IdNames) /\ f \in Fragments /\ WellFormed(f) /\ ~HasPassed(g)
      /\ \A b \in B : (b \in DOMAIN live => b \in DOMAIN genParent /\ genParent[b] = g) /\ ~Active(b)
  BY SpliceTouches
<1>2. /\ g \notin B /\ X \subseteq B
      /\ \A b \in B : P[b].needs = {g} \/ (P[b].needs # {} /\ P[b].needs \subseteq B)
  BY <1>1, FragmentTypes
<1> HIDE DEF P, X
<1>3. /\ DOMAIN live' = DOMAIN live \cup B
      /\ \A i \in B : live'[i] = P[i]
      /\ \A i \in DOMAIN live \ B : live'[i].needs = live[i].needs \cup (IF g \in live[i].needs THEN X ELSE {})
      /\ DOMAIN genParent' = DOMAIN genParent \cup B
      /\ \A i \in B : genParent'[i] = g
      /\ \A i \in DOMAIN genParent \ B : genParent'[i] = genParent[i]
      /\ DOMAIN boundaryOf' = DOMAIN boundaryOf \cup {g} /\ boundaryOf'[g] = X
      /\ \A h \in DOMAIN boundaryOf \ {g} : boundaryOf'[h] = boundaryOf[h]
  BY <1>0 DEF AfterSplice
<1>4. Going' = Going /\ SettledLive' = SettledLive /\ stepState' = stepState
  BY DEF Going, SettledLive, SplicesIn
<1>5. (\A m : Active(m)' <=> Active(m)) /\ (\A m : HasPassed(m)' <=> HasPassed(m))
  BY <1>4 DEF Active, HasPassed, PassedState
<1>6. \A i \in DOMAIN genParent : i \in DOMAIN live
  BY DEF GenKept, GraphTypes
<1>7. Anchored'
  <2> SUFFICES ASSUME NEW o \in DOMAIN genParent'
               PROVE  \/ genParent'[o] \in live'[o].needs
                      \/ \E p \in live'[o].needs : p \in DOMAIN genParent' /\ genParent'[p] = genParent'[o]
    BY DEF Anchored
  <2>1. CASE o \in B
    BY <1>2, <1>3, <2>1
  <2>2. CASE o \notin B
    <3>1. o \in DOMAIN genParent /\ genParent'[o] = genParent[o] /\ live[o].needs \subseteq live'[o].needs
      BY <1>3, <1>6, <2>2
    <3>2. CASE genParent[o] \in live[o].needs
      BY <3>1, <3>2
    <3>3. CASE \E p \in live[o].needs : p \in DOMAIN genParent /\ genParent[p] = genParent[o]
      <4>1. PICK p \in live[o].needs : p \in DOMAIN genParent /\ genParent[p] = genParent[o]
        BY <3>3
      <4>2. p \in DOMAIN genParent' /\ genParent'[p] = genParent[p]
        BY <1>1, <1>3, <1>6, <4>1
      <4> QED
        BY <3>1, <4>1, <4>2
    <3> QED
      BY <3>1, <3>2, <3>3 DEF GenKept, Anchored
  <2> QED
    BY <2>1, <2>2
<1>8. PassedDown'
  <2> SUFFICES ASSUME NEW n \in DOMAIN live', Active(n), NEW m \in live'[n].needs PROVE HasPassed(m)
    BY <1>5 DEF PassedDown
  <2>1. n \in DOMAIN live \ B
    BY <1>1, <1>3
  <2>2. \A d \in live[n].needs : HasPassed(d)
    BY <2>1 DEF GenKept, PassedDown
  <2>3. g \notin live[n].needs
    BY <1>1, <2>2
  <2> QED
    BY <1>3, <2>1, <2>2, <2>3
<1>9. ParentPassed'
  <2> SUFFICES ASSUME NEW o \in DOMAIN genParent', Active(o) PROVE HasPassed(genParent'[o])
    BY <1>4, <1>5 DEF ParentPassed, HasPassed, SettledLive
  <2> QED
    BY <1>1, <1>3 DEF GenKept, ParentPassed
<1>10. Attached'
  <2> SUFFICES ASSUME NEW n \in DOMAIN live', NEW h \in live'[n].needs \cap DOMAIN boundaryOf',
                      n \notin OwnNodes(h)', Active(h)
               PROVE  boundaryOf'[h] \subseteq live'[n].needs
    BY <1>5 DEF Attached
  <2>1. ~(n \in DOMAIN genParent' /\ genParent'[n] = h)
    BY DEF OwnNodes
  <2>2. CASE h = g
    <3>1. n \in DOMAIN live \ B
      BY <1>3, <2>1, <2>2
    <3>2. g \in live[n].needs
      BY <1>2, <1>3, <2>2, <3>1
    <3> QED
      BY <1>3, <2>2, <3>1, <3>2
  <2>3. CASE h # g
    <3>1. h \notin B /\ h \in DOMAIN boundaryOf /\ boundaryOf'[h] = boundaryOf[h]
      BY <1>1, <1>3, <2>3
    <3>2. n \in DOMAIN live \ B
      BY <1>2, <1>3, <2>3, <3>1
    <3>3. h \in live[n].needs /\ live[n].needs \subseteq live'[n].needs
      BY <1>2, <1>3, <3>1, <3>2
    <3>4. n \notin OwnNodes(h)
      BY <1>3, <2>1, <3>2 DEF OwnNodes
    <3>5. boundaryOf[h] \subseteq live[n].needs
      BY <3>1, <3>2, <3>3, <3>4 DEF GenKept, Attached
    <3> QED
      BY <3>1, <3>3, <3>5
  <2> QED
    BY <2>2, <2>3
<1>11. GraphTypes' /\ GoTypes' /\ Ordered'
  BY SpliceTypes, SpliceOrder
<1> QED
  BY <1>7, <1>8, <1>9, <1>10, <1>11 DEF GenKept

LEMMA RecordedKeeps ==
  ASSUME GenKept, NEW n \in DOMAIN live, SpliceRecorded(n)
  PROVE  GenKept'
<1>1. n \in Going /\ n \in DOMAIN stored /\ stored[n] \in Fragments /\ UNCHANGED <<stepState, stored>>
  BY DEF SpliceRecorded, At, GenKept, GoTypes
<1>2. CASE UNCHANGED graphVars
  <2>1. PICK a, e : Moves(n, a, e, NoFragment) /\ a \in {"run", "settle"}
    BY DEF SpliceRecorded
  <2>2. /\ DOMAIN go' = DOMAIN go \cup {n} /\ (\A m \in DOMAIN go \ {n} : go'[m] = go[m])
        /\ go'[n].at \in {"run", "settle"}
    BY <2>1, MovesIs
  <2> QED
    BY <1>1, <1>2, <2>2, GoingKeeps DEF Going, graphVars
<1>3. CASE ~UNCHANGED graphVars
  <2>1. ~SpliceRefused(n, stored[n]) /\ addLocked(n, stored[n]) /\ Moves(n, "settle", "cached", NoFragment)
    BY <1>3 DEF SpliceRecorded
  <2>2. DOMAIN go' = DOMAIN go \cup {n} /\ (\A m \in DOMAIN go \ {n} : go'[m] = go[m]) /\ go'[n].at = "settle"
    BY <2>1, MovesIs
  <2>3. SplicesIn(n, stored[n])
    BY <1>1, <2>1, <2>2 DEF SplicesIn, Going, GenKept, GoTypes
  <2> QED
    BY <2>3, SpliceKeeps
<1> QED
  BY <1>2, <1>3

LEMMA RunKeeps ==
  ASSUME GenKept, NEW n \in DOMAIN live, NEW end, RunGenerator(n, end)
  PROVE  GenKept'
<1>1. PICK a : a \in {"produce", "settle"} /\ Moves(n, a, end, NoFragment)
  BY DEF RunGenerator
<1>2. /\ DOMAIN go' = DOMAIN go \cup {n} /\ (\A m \in DOMAIN go \ {n} : go'[m] = go[m])
      /\ go'[n].at \in {"produce", "settle"}
  BY <1>1, MovesIs
<1>3. n \in Going /\ UNCHANGED <<live, byID, genParent, genDepth, boundaryOf, stepState, stored>>
  BY DEF RunGenerator, At, graphVars
<1> QED
  BY <1>2, <1>3, GoingKeeps DEF Going

LEMMA ProduceKeeps ==
  ASSUME GenKept, NEW n \in DOMAIN live, Produce(n)
  PROVE  GenKept'
<1>1. n \in Going /\ UNCHANGED <<live, byID, genParent, genDepth, boundaryOf, stepState, stored>>
  BY DEF Produce, At, graphVars
<1>2. PICK a, e, f : Moves(n, a, e, f) /\ ((a = "splice" /\ f \in Fragments) \/ a = "settle")
  BY DEF Produce
<1>3. /\ DOMAIN go' = DOMAIN go \cup {n} /\ (\A m \in DOMAIN go \ {n} : go'[m] = go[m])
      /\ go'[n].at = a /\ go'[n].frag = f
  BY <1>2, MovesIs
<1> QED
  BY <1>1, <1>2, <1>3, GoingKeeps DEF Going

LEMMA LiveSpliceKeeps ==
  ASSUME GenKept, NEW n \in DOMAIN live, Splice(n)
  PROVE  GenKept'
<1> DEFINE f == go[n].frag
<1>1. n \in Going /\ f \in Fragments /\ stepState' = stepState
  BY DEF Splice, At, GenKept, GoTypes
<1>2. CASE SpliceRefused(n, f)
  <2>1. Moves(n, "settle", "failed", NoFragment) /\ UNCHANGED <<graphVars, stored>>
    BY <1>2 DEF Splice
  <2>2. DOMAIN go' = DOMAIN go \cup {n} /\ (\A m \in DOMAIN go \ {n} : go'[m] = go[m]) /\ go'[n].at = "settle"
    BY <2>1, MovesIs
  <2> QED
    BY <1>1, <2>1, <2>2, GoingKeeps DEF Going, graphVars
<1>3. CASE ~SpliceRefused(n, f)
  <2>1. /\ addLocked(n, f) /\ Moves(n, "settle", "succeeded", NoFragment)
        /\ stored' = IF n \in PureSteps THEN With(stored, n, f) ELSE stored
    BY <1>3 DEF Splice
  <2>2. DOMAIN go' = DOMAIN go \cup {n} /\ (\A m \in DOMAIN go \ {n} : go'[m] = go[m]) /\ go'[n].at = "settle"
    BY <2>1, MovesIs
  <2>3. \A m \in DOMAIN stored : stored[m] \in Fragments
    BY DEF GenKept, GoTypes
  <2> HIDE DEF f
  <2>4. DOMAIN stored \subseteq DOMAIN stored' /\ \A m \in DOMAIN stored' : stored'[m] \in Fragments
    BY <1>1, <2>1, <2>3 DEF With
  <2>5. SplicesIn(n, f)
    BY <1>1, <1>3, <2>1, <2>2, <2>4 DEF SplicesIn, Going
  <2> QED
    BY <2>5, SpliceKeeps
<1> QED
  BY <1>2, <1>3

\* Whatever is spliced, spliced again, replayed from the cache, refused, rerun
\* or retried, and for every declared plan, every set of fragments, every limit
\* and every length of the run: the graph stays one whose steps can all be
\* settled, within the limits, with the declared steps in it; and no step that
\* needs a generator runs before the boundary of what that generator's execution
\* spliced has passed (generate.go, addLocked and attachBoundaryLocked).
THEOREM TheLiveGraphIsSound == GenerateSpec => [](LiveGraphSound /\ BoundaryIsWaitedFor)
<1>1. GenerateInit => GenKept
  BY GenStarts
<1>2. GenKept /\ [GenerateNext]_generateVars => GenKept'
  <2> SUFFICES ASSUME GenKept, [GenerateNext]_generateVars PROVE GenKept'
    OBVIOUS
  <2>1. CASE UNCHANGED generateVars
    <3>1. UNCHANGED <<live, byID, genParent, genDepth, boundaryOf, go, stepState, stored>>
      BY <2>1 DEF generateVars
    <3>2. GoTypes'
      BY <3>1 DEF GenKept, GoTypes, Going, SettledLive
    <3>3. /\ \A m : (Active(m)' <=> Active(m)) /\ (HasPassed(m)' <=> HasPassed(m)) /\ (HasPassed(m) => Active(m))
      BY <3>1 DEF Active, HasPassed, PassedState, Going, SettledLive
    <3> QED
      BY <3>1, <3>2, <3>3, RunMovesOn
  <2>2. CASE GenerateNext
    <3>1. PICK n \in DOMAIN live :
            \/ DispatchLive(n) \/ SkipBlocked(n) \/ SpliceRecorded(n)
            \/ \E end \in {"succeeded", "recovered", "failed"} : RunGenerator(n, end)
            \/ Produce(n) \/ Splice(n) \/ SettleLive(n)
            \/ RerunFromLive(n) \/ RetryLive(n)
      BY <2>2 DEF GenerateNext
    <3>2. CASE DispatchLive(n)
      BY <3>2, DispatchKeeps
    <3>3. CASE SkipBlocked(n)
      BY <3>3, SkipKeeps
    <3>4. CASE SpliceRecorded(n)
      BY <3>4, RecordedKeeps
    <3>5. CASE \E end \in {"succeeded", "recovered", "failed"} : RunGenerator(n, end)
      BY <3>5, RunKeeps
    <3>6. CASE Produce(n)
      BY <3>6, ProduceKeeps
    <3>7. CASE Splice(n)
      BY <3>7, LiveSpliceKeeps
    <3>8. CASE SettleLive(n)
      BY <3>8, SettleKeeps
    <3>9. CASE RerunFromLive(n)
      BY <3>9, RerunKeeps
    <3>10. CASE RetryLive(n)
      BY <3>10, RetryKeeps
    <3> QED
      BY <3>1, <3>2, <3>3, <3>4, <3>5, <3>6, <3>7, <3>8, <3>9, <3>10
  <2> QED
    BY <2>1, <2>2
<1>3. GenKept => LiveGraphSound /\ BoundaryIsWaitedFor
  BY GenGives
<1> QED
  BY <1>1, <1>2, <1>3, PTL DEF GenerateSpec

-----------------------------------------------------------------------------
(* What Build returns.                                                     *)

\* Reached is Reach, for edges between the ids.
LEMMA ReachedIsReach ==
  ASSUME NEW ids, IsFiniteSet(ids), NEW E \in SUBSET (ids \X ids), NEW S
  PROVE  Reached(ids, E, S) = Reach(ids, E, S)
<1> DEFINE n == Cardinality(ids)
           Grown(f) == [k \in 0..n |-> IF k = 0 THEN S
                                      ELSE LET prev == f[k - 1] IN prev \cup {e[2] : e \in {d \in E : d[1] \in prev}}]
           G == CHOOSE f : f = Grown(f)
<1>1. Reached(ids, E, S) = G[n]
  BY DEF Reached
<1>2. \A P : {e[2] : e \in {d \in E : d[1] \in P}} = Spread(ids, E, P)
  <2> TAKE P
  <2>1. \A e \in E : e = <<e[1], e[2]>> /\ e[1] \in ids /\ e[2] \in ids
    OBVIOUS
  <2> QED
    BY <2>1 DEF Spread
<1>3. n \in Nat
  BY FS_CardinalityType
<1>4. \A f : Grown(f) = Rounds(ids, E, S, f)
  <2> TAKE f
  <2>1. ASSUME NEW k \in 0..n PROVE Grown(f)[k] = Rounds(ids, E, S, f)[k]
    <3>1. Grown(f)[k] = IF k = 0 THEN S ELSE f[k - 1] \cup {e[2] : e \in {d \in E : d[1] \in f[k - 1]}}
      OBVIOUS
    <3>2. Rounds(ids, E, S, f)[k] = IF k = 0 THEN S ELSE f[k - 1] \cup Spread(ids, E, f[k - 1])
      BY DEF Rounds, Spread
    <3> QED
      BY <1>2, <3>1, <3>2
  <2>2. DOMAIN Grown(f) = 0..n /\ DOMAIN Rounds(ids, E, S, f) = 0..n
    BY DEF Rounds
  <2>3. Grown(f) = [k \in 0..n |-> Grown(f)[k]] /\ Rounds(ids, E, S, f) = [k \in 0..n |-> Rounds(ids, E, S, f)[k]]
    BY <2>2 DEF Rounds
  <2> HIDE DEF Grown
  <2> QED
    BY <2>1, <2>3
<1>5. G = Rounds(ids, E, S, G)
  <2>1. \E f : f = Grown(f)
    BY <1>4, RoundsExist
  <2>2. G = Grown(G)
    <3> HIDE DEF Grown
    <3> QED
      BY <2>1
  <2> QED
    BY <1>4, <2>2
<1> HIDE DEF G, Grown
<1>6. RoundsUpTo(ids, E, S, n, G)
  <2>1. G[0] = S
    BY <1>3, <1>5 DEF Rounds
  <2>2. ASSUME NEW m \in 1..n PROVE G[m] = G[m - 1] \cup Spread(ids, E, G[m - 1])
    <3>1. m \in 0..n /\ m # 0
      BY <1>3
    <3>2. Rounds(ids, E, S, G)[m] = G[m - 1] \cup Spread(ids, E, G[m - 1])
      BY <3>1 DEF Rounds, Spread
    <3> QED
      BY <1>5, <3>2
  <2> QED
    BY <2>1, <2>2 DEF RoundsUpTo
<1>7. PICK f : RoundsUpTo(ids, E, S, n, f) /\ Reach(ids, E, S) = f[n]
  BY ReachIsRounds
<1> DEFINE Q == {k \in Nat : k <= n => G[k] = f[k]}
<1>8. 0 \in Q
  BY <1>6, <1>7 DEF RoundsUpTo
<1>9. ASSUME NEW k \in Q PROVE k + 1 \in Q
  <2>1. SUFFICES ASSUME k + 1 <= n PROVE G[k + 1] = f[k + 1]
    OBVIOUS
  <2>2. k + 1 \in 1..n /\ (k + 1) - 1 = k /\ G[k] = f[k]
    BY <1>3, <2>1
  <2> QED
    BY <1>6, <1>7, <2>2 DEF RoundsUpTo
<1>10. n \in Q
  <2>1. Q \in SUBSET Nat
    OBVIOUS
  <2> HIDE DEF Q
  <2> QED
    BY <1>3, <1>8, <1>9, <2>1, Inductive
<1> QED
  BY <1>1, <1>7, <1>10

\* The order in which units are sorted.
LEMMA PlaceIs ==
  /\ UnitIds = {AllUnits[i] : i \in DOMAIN AllUnits} /\ IsFiniteSet(UnitIds)
  /\ \A u \in UnitIds : Place(u) \in Nat /\ \A v \in UnitIds : Place(u) = Place(v) => u = v
<1>1. UnitIds = {AllUnits[i] : i \in DOMAIN AllUnits}
  BY DEF UnitIds, ToSet
<1>2. AllUnits \in Seq(UnitIds)
  BY BuildAssumption
<1> DEFINE n == Len(AllUnits)
<1>3. n \in Nat /\ DOMAIN AllUnits = 1..n
  BY <1>2
<1>4. \A u \in UnitIds : Place(u) \in DOMAIN AllUnits /\ AllUnits[Place(u)] = u
  BY <1>1 DEF Place
<1>5. \A u \in UnitIds : Place(u) \in Nat /\ \A v \in UnitIds : Place(u) = Place(v) => u = v
  BY <1>3, <1>4
<1>6. IsFiniteSet(UnitIds)
  <2>1. AllUnits \in Surjection(1..n, UnitIds)
    BY <1>1, <1>2, <1>3 DEF Surjection
  <2>2. IsFiniteSet(1..n)
    BY <1>3, FS_Interval
  <2> QED
    BY <2>1, <2>2, FS_Surjection
<1> QED
  BY <1>1, <1>5, <1>6

LEMMA SortedBy ==
  ASSUME NEW K \in SUBSET UnitIds, NEW d \in [K -> Nat]
  PROVE  /\ \A u \in K : ~Heavier(d, u, u) /\ ~Lighter(d, u, u)
         /\ \A u, v \in K : u # v => (Heavier(d, u, v) \/ Heavier(d, v, u)) /\ (Lighter(d, u, v) \/ Lighter(d, v, u))
         /\ \A u, v, x \in K : /\ Heavier(d, u, v) /\ Heavier(d, v, x) => Heavier(d, u, x)
                               /\ Lighter(d, u, v) /\ Lighter(d, v, x) => Lighter(d, u, x)
<1>1. \A u \in K : d[u] \in Nat /\ Place(u) \in Nat
  BY PlaceIs
<1>2. \A u, v \in K : Place(u) = Place(v) => u = v
  BY PlaceIs
<1>3. \A u \in K : ~Heavier(d, u, u) /\ ~Lighter(d, u, u)
  BY <1>1 DEF Heavier, Lighter
<1>4. ASSUME NEW u \in K, NEW v \in K, u # v
      PROVE  (Heavier(d, u, v) \/ Heavier(d, v, u)) /\ (Lighter(d, u, v) \/ Lighter(d, v, u))
  <2>1. d[u] \in Nat /\ d[v] \in Nat /\ Place(u) \in Nat /\ Place(v) \in Nat /\ Place(u) # Place(v)
    BY <1>1, <1>2, <1>4
  <2> QED
    BY <2>1 DEF Heavier, Lighter
<1>5. ASSUME NEW u \in K, NEW v \in K, NEW x \in K
      PROVE  /\ Heavier(d, u, v) /\ Heavier(d, v, x) => Heavier(d, u, x)
             /\ Lighter(d, u, v) /\ Lighter(d, v, x) => Lighter(d, u, x)
  <2>1. d[u] \in Nat /\ d[v] \in Nat /\ d[x] \in Nat /\ Place(u) \in Nat /\ Place(v) \in Nat /\ Place(x) \in Nat
    BY <1>1
  <2> QED
    BY <2>1 DEF Heavier, Lighter
<1> QED
  BY <1>3, <1>4, <1>5

\* The heaviest of some units.
LEMMA HeaviestExists ==
  ASSUME NEW K \in SUBSET UnitIds, NEW d \in [K -> Nat], NEW L \in SUBSET K, L # {}
  PROVE  \E u \in L : \A x \in L \ {u} : Heavier(d, u, x)
<1> DEFINE W == {p \in L \X L : Heavier(d, p[2], p[1])}
<1>1. \A x, y : <<x, y>> \in W <=> x \in L /\ y \in L /\ Heavier(d, y, x)
  OBVIOUS
<1>2. IsFiniteSet(L)
  BY PlaceIs, FS_Subset
<1> HIDE DEF W
<1>3. Strict(W)
  <2>1. \A x : <<x, x>> \notin W
    BY <1>1, SortedBy
  <2>2. \A x, y, z : <<x, y>> \in W /\ <<y, z>> \in W => <<x, z>> \in W
    BY <1>1, SortedBy
  <2> QED
    BY <2>1, <2>2 DEF Strict
<1>4. PICK u \in L : \A y \in L : <<u, y>> \notin W
  BY <1>2, <1>3, HasMinimal
<1>5. \A x \in L \ {u} : ~Heavier(d, x, u)
  BY <1>1, <1>4
<1>6. \A x \in L \ {u} : Heavier(d, u, x)
  BY <1>5, SortedBy
<1> QED
  BY <1>6

\* Of n known durations there is one with exactly n \div 2 before it.
LEMMA MedianExists ==
  ASSUME NEW K \in SUBSET UnitIds, K # {}, NEW d \in [UnitIds -> Nat]
  PROVE  \E u \in K : Cardinality({v \in K : Lighter(d, v, u)}) = Cardinality(K) \div 2
<1> DEFINE Ahead(u) == {v \in K : Lighter(d, v, u)}
           n == Cardinality(K)
           r == [u \in K |-> Cardinality(Ahead(u))]
<1>1. IsFiniteSet(K)
  BY PlaceIs, FS_Subset
<1>2. n \in Nat /\ n # 0
  BY <1>1, FS_CardinalityType, FS_EmptySet
<1>3. \A u \in K : Ahead(u) \in SUBSET K /\ u \notin Ahead(u)
  BY SortedBy
<1>4. \A u, v \in K : u # v => (Ahead(u) \in SUBSET Ahead(v) /\ u \in Ahead(v)) \/ (Ahead(v) \in SUBSET Ahead(u) /\ v \in Ahead(u))
  <2>1. /\ \A u, v \in UnitIds : u # v => Lighter(d, u, v) \/ Lighter(d, v, u)
        /\ \A u, v, x \in UnitIds : Lighter(d, u, v) /\ Lighter(d, v, x) => Lighter(d, u, x)
    BY SortedBy
  <2>2. \A u, v \in K : Lighter(d, u, v) => Ahead(u) \in SUBSET Ahead(v) /\ u \in Ahead(v)
    BY <2>1
  <2> HIDE DEF Ahead
  <2> QED
    BY <2>1, <2>2
<1> HIDE DEF Ahead
<1>5. \A u \in K : IsFiniteSet(Ahead(u)) /\ Cardinality(Ahead(u)) \in Nat /\ Cardinality(Ahead(u)) <= n /\ Cardinality(Ahead(u)) # n
  <2> TAKE u \in K
  <2>1. IsFiniteSet(Ahead(u)) /\ Cardinality(Ahead(u)) <= Cardinality(K) /\ (Cardinality(K) = Cardinality(Ahead(u)) => K = Ahead(u))
    BY <1>1, <1>3, FS_Subset
  <2> QED
    BY <1>3, <2>1, FS_CardinalityType
<1>6. r \in [K -> 0..(n - 1)]
  BY <1>2, <1>5
<1>7. ASSUME NEW u \in K, NEW v \in K, u # v PROVE r[u] # r[v]
  <2>1. CASE Ahead(u) \in SUBSET Ahead(v) /\ u \in Ahead(v)
    <3>1. Cardinality(Ahead(v)) = Cardinality(Ahead(u)) => Ahead(v) = Ahead(u)
      BY <1>5, <2>1, FS_Subset
    <3> QED
      BY <1>3, <2>1, <3>1
  <2>2. CASE Ahead(v) \in SUBSET Ahead(u) /\ v \in Ahead(u)
    <3>1. Cardinality(Ahead(u)) = Cardinality(Ahead(v)) => Ahead(u) = Ahead(v)
      BY <1>5, <2>2, FS_Subset
    <3> QED
      BY <1>3, <2>2, <3>1
  <2> QED
    BY <1>4, <1>7, <2>1, <2>2
<1>8. r \in Injection(K, 0..(n - 1))
  BY <1>6, <1>7 DEF Injection, IsInjective
<1>9. IsFiniteSet(0..(n - 1)) /\ Cardinality(0..(n - 1)) = n
  <2>1. PICK m \in Nat : m = n
    BY <1>2
  <2>2. 0 \in Int /\ m - 1 \in Int /\ ~(0 > m - 1) /\ (m - 1) - 0 + 1 = m
    BY <1>2, <2>1
  <2>3. IsFiniteSet(0..(m - 1)) /\ Cardinality(0..(m - 1)) = m
    BY <2>2, FS_Interval
  <2> QED
    BY <2>1, <2>3
<1> DEFINE I == 0..(n - 1)
<1>10. r \in Surjection(K, I)
  <2> HIDE DEF r, I
  <2> QED
    BY <1>8, <1>9, FS_Injection DEF I
<1>11. n \div 2 \in I
  BY <1>2
<1>12. PICK u \in K : r[u] = n \div 2
  <2> HIDE DEF r, I
  <2> QED
    BY <1>10, <1>11 DEF Surjection
<1> QED
  BY <1>12 DEF Ahead

\* Every weight is at least one.
LEMMA WeighIs ==
  ASSUME NEW us \in SUBSET UnitIds
  PROVE  weigh(us) \in [us -> Nat \ {0}]
<1> DEFINE known == {u \in us : DurationOf[u] > 0}
           median == CHOOSE u \in known : Cardinality({v \in known : Lighter(DurationOf, v, u)})
                                            = Cardinality(known) \div 2
<1>1. DurationOf \in [UnitIds -> Nat]
  BY BuildAssumption
<1>2. known \in SUBSET UnitIds
  OBVIOUS
<1>3. known # {} => median \in known
  <2> HIDE DEF known
  <2>1. known # {} => \E u \in known : Cardinality({v \in known : Lighter(DurationOf, v, u)}) = Cardinality(known) \div 2
    BY <1>1, <1>2, MedianExists
  <2> QED
    BY <2>1
<1>4. weigh(us) = [u \in us |-> IF DurationOf[u] > 0 THEN DurationOf[u] ELSE IF known = {} THEN 1 ELSE DurationOf[median]]
  BY DEF weigh
<1> HIDE DEF median
<1>5. known # {} => DurationOf[median] \in Nat \ {0}
  BY <1>1, <1>3
<1>6. \A u \in us : (IF DurationOf[u] > 0 THEN DurationOf[u] ELSE IF known = {} THEN 1 ELSE DurationOf[median]) \in Nat \ {0}
  BY <1>1, <1>5
<1> HIDE DEF known
<1> QED
  BY <1>4, <1>6

\* The first of the least loaded buckets.
LEMMA LeastIs ==
  ASSUME NEW c \in Nat, c # 0, NEW loads \in [1..c -> Nat]
  PROVE  Least(loads) \in 1..c /\ \A j \in 1..c : loads[Least(loads)] <= loads[j]
<1> DEFINE V == {loads[i] : i \in 1..c}
<1>1. V \in SUBSET Nat /\ V # {}
  <2>1. 1 \in 1..c
    OBVIOUS
  <2> QED
    BY <2>1
<1>2. PICK m \in V : \A x \in V : m <= x
  <2> HIDE DEF V
  <2> QED
    BY <1>1, LeastOf
<1> DEFINE I == {i \in 1..c : loads[i] = m}
<1>3. I \in SUBSET Nat /\ I # {}
  BY <1>2
<1>4. PICK i \in I : \A j \in I : i <= j
  <2> HIDE DEF I, V
  <2> QED
    BY <1>3, LeastOf
<1>5. i \in 1..c /\ loads[i] = m /\ \A j \in 1..c : loads[i] <= loads[j]
  BY <1>2
<1>6. \A j \in 1..(i - 1) : loads[j] > loads[i]
  <2> TAKE j \in 1..(i - 1)
  <2>1. j \in 1..c /\ ~(i <= j)
    BY <1>5
  <2>2. loads[j] # m /\ loads[j] \in Nat /\ m \in Nat
    BY <1>1, <1>4, <2>1
  <2> QED
    BY <1>5, <2>1, <2>2
<1>7. \E k \in DOMAIN loads : (\A j \in DOMAIN loads : loads[k] <= loads[j]) /\ \A j \in 1..(k - 1) : loads[j] > loads[k]
  BY <1>5, <1>6
<1>8. Least(loads) \in DOMAIN loads /\ \A j \in DOMAIN loads : loads[Least(loads)] <= loads[j]
  BY <1>7 DEF Least
<1> QED
  BY <1>8

\* The buckets after k units: what is placed is in one of them, and a bucket is
\* empty only while each unit has opened one.
FillIs(us, c, k, s) ==
  /\ s.left \in SUBSET us /\ Cardinality(s.left) = Cardinality(us) - k
  /\ s.buckets \in [1..c -> SUBSET us]
  /\ s.loads \in [1..c -> Nat]
  /\ \A i \in 1..c : s.loads[i] = 0 <=> s.buckets[i] = {}
  /\ \A i, j \in 1..c : i # j => s.buckets[i] \cap s.buckets[j] = {}
  /\ \A u \in us : u \in s.left <=> \A i \in 1..c : u \notin s.buckets[i]
  /\ \/ \A i \in 1..c : s.buckets[i] # {}
     \/ Cardinality({i \in 1..c : s.buckets[i] # {}}) = k

LEMMA PutKeeps ==
  ASSUME NEW us \in SUBSET UnitIds, NEW c \in Nat, c # 0, NEW k \in Nat, k < Cardinality(us),
         NEW s, FillIs(us, c, k, s)
  PROVE  FillIs(us, c, k + 1, Put(weigh(us), s))
<1> DEFINE w == weigh(us)
           u == CHOOSE v \in s.left : \A x \in s.left \ {v} : Heavier(w, v, x)
           i == Least(s.loads)
           t == Put(w, s)
<1>1. w \in [us -> Nat \ {0}] /\ w \in [us -> Nat]
  BY WeighIs
<1>2. IsFiniteSet(us) /\ Cardinality(us) \in Nat
  BY PlaceIs, FS_Subset, FS_CardinalityType
<1>3. s.left \in SUBSET us /\ Cardinality(s.left) = Cardinality(us) - k
  BY DEF FillIs
<1>4. IsFiniteSet(s.left) /\ s.left # {}
  BY <1>2, <1>3, FS_Subset, FS_EmptySet
<1> HIDE DEF w
<1>5. u \in s.left /\ u \in us
  <2>1. \E v \in s.left : \A x \in s.left \ {v} : Heavier(w, v, x)
    BY <1>1, <1>3, <1>4, HeaviestExists
  <2> QED
    BY <1>3, <2>1
<1>6. i \in 1..c /\ \A j \in 1..c : s.loads[i] <= s.loads[j]
  BY LeastIs DEF FillIs
<1>7. /\ t.left = s.left \ {u}
      /\ t.buckets = [s.buckets EXCEPT ![i] = @ \cup {u}]
      /\ t.loads = [s.loads EXCEPT ![i] = @ + w[u]]
  BY DEF Put
<1> HIDE DEF u, i, t
<1>8. s.buckets \in [1..c -> SUBSET us] /\ s.loads \in [1..c -> Nat]
  BY DEF FillIs
<1>9. /\ t.buckets \in [1..c -> SUBSET us]
      /\ t.buckets[i] = s.buckets[i] \cup {u} /\ \A j \in 1..c : j # i => t.buckets[j] = s.buckets[j]
  BY <1>5, <1>6, <1>7, <1>8
<1>10. w[u] \in Nat \ {0}
  BY <1>1, <1>5
<1>11. /\ t.loads \in [1..c -> Nat]
       /\ t.loads[i] = s.loads[i] + w[u] /\ \A j \in 1..c : j # i => t.loads[j] = s.loads[j]
  BY <1>6, <1>7, <1>8, <1>10
<1>12. t.left \in SUBSET us /\ Cardinality(t.left) = Cardinality(us) - (k + 1)
  <2>1. Cardinality(s.left \ {u}) = Cardinality(s.left) - 1
    BY <1>4, <1>5, FS_RemoveElement
  <2> QED
    BY <1>2, <1>3, <1>7, <2>1
<1>13. ASSUME NEW j \in 1..c PROVE t.loads[j] = 0 <=> t.buckets[j] = {}
  <2>1. CASE j = i
    <3>1. t.loads[j] # 0
      BY <1>6, <1>8, <1>10, <1>11, <2>1
    <3> QED
      BY <1>9, <2>1, <3>1
  <2>2. CASE j # i
    BY <1>9, <1>11, <2>2 DEF FillIs
  <2> QED
    BY <2>1, <2>2
<1>14. \A j \in 1..c : u \notin s.buckets[j]
  BY <1>5 DEF FillIs
<1>15. ASSUME NEW j \in 1..c, NEW m \in 1..c, j # m PROVE t.buckets[j] \cap t.buckets[m] = {}
  <2>1. s.buckets[j] \cap s.buckets[m] = {}
    BY <1>15 DEF FillIs
  <2> QED
    BY <1>9, <1>14, <1>15, <2>1
<1>16. ASSUME NEW v \in us PROVE v \in t.left <=> \A j \in 1..c : v \notin t.buckets[j]
  <2>1. v \in s.left <=> \A j \in 1..c : v \notin s.buckets[j]
    BY DEF FillIs
  <2>2. CASE v = u
    BY <1>6, <1>7, <1>9, <2>2
  <2>3. CASE v # u
    <3>1. \A j \in 1..c : v \in t.buckets[j] <=> v \in s.buckets[j]
      BY <1>6, <1>9, <2>3
    <3> QED
      BY <1>7, <2>1, <2>3, <3>1
  <2> QED
    BY <2>2, <2>3
<1> DEFINE N == {j \in 1..c : s.buckets[j] # {}}
           M == {j \in 1..c : t.buckets[j] # {}}
<1>17. \/ \A j \in 1..c : t.buckets[j] # {}
       \/ Cardinality(M) = k + 1
  <2>1. CASE s.buckets[i] = {}
    <3>1. Cardinality(N) = k
      BY <1>6, <2>1 DEF FillIs
    <3>2. M = N \cup {i} /\ i \notin N
      BY <1>6, <1>9, <2>1
    <3>3. IsFiniteSet(N)
      <4>1. N \in SUBSET 1..c /\ IsFiniteSet(1..c)
        BY FS_Interval
      <4> HIDE DEF N
      <4> QED
        BY <4>1, FS_Subset
    <3> HIDE DEF N, M
    <3> QED
      BY <3>1, <3>2, <3>3, FS_AddElement
  <2>2. CASE s.buckets[i] # {}
    <3>1. s.loads[i] # 0
      BY <1>6, <2>2 DEF FillIs
    <3>2. \A j \in 1..c : s.loads[j] # 0
      BY <1>6, <1>8, <3>1
    <3>3. \A j \in 1..c : s.buckets[j] # {}
      BY <3>2 DEF FillIs
    <3> QED
      BY <1>9, <3>3
  <2> QED
    BY <2>1, <2>2
<1>18. FillIs(us, c, k + 1, t)
  BY <1>9, <1>11, <1>12, <1>13, <1>15, <1>16, <1>17 DEF FillIs
<1> QED
  BY <1>18 DEF t, w

\* The rounds of Partition as one function.
Fills(us, c, f) ==
  [k \in 0..Cardinality(us) |->
     IF k = 0 THEN [left |-> us, buckets |-> [i \in 1..c |-> {}], loads |-> [i \in 1..c |-> 0]]
     ELSE Put(weigh(us), f[k - 1])]
FillsUpTo(us, c, n, f) ==
  /\ f[0] = [left |-> us, buckets |-> [i \in 1..c |-> {}], loads |-> [i \in 1..c |-> 0]]
  /\ \A m \in 1..n : f[m] = Put(weigh(us), f[m - 1])

LEMMA FillsExist ==
  ASSUME NEW us, IsFiniteSet(us), NEW c
  PROVE  \E f : f = Fills(us, c, f)
<1> DEFINE opening == [left |-> us, buckets |-> [i \in 1..c |-> {}], loads |-> [i \in 1..c |-> 0]]
           Q == {k \in Nat : \E f : FillsUpTo(us, c, k, f)}
<1>1. 0 \in Q
  <2> DEFINE f == [m \in 0..0 |-> opening]
  <2>1. f[0] = opening
    <3> HIDE DEF opening
    <3> QED
      OBVIOUS
  <2> HIDE DEF f
  <2>2. FillsUpTo(us, c, 0, f)
    BY <2>1 DEF FillsUpTo
  <2> QED
    BY <2>2
<1>2. ASSUME NEW k \in Q PROVE k + 1 \in Q
  <2>1. k \in Nat /\ k + 1 \in Nat
    OBVIOUS
  <2>2. PICK f : FillsUpTo(us, c, k, f)
    OBVIOUS
  <2> HIDE DEF Q
  <2> DEFINE next == Put(weigh(us), f[k])
             g == [m \in 0..(k + 1) |-> IF m = k + 1 THEN next ELSE f[m]]
  <2>3. \A m \in 0..k : m \in 0..(k + 1) /\ m # k + 1
    BY <2>1
  <2> HIDE DEF next
  <2>4. (\A m \in 0..k : g[m] = f[m]) /\ g[k + 1] = next
    BY <2>1, <2>3
  <2> HIDE DEF g
  <2>5. FillsUpTo(us, c, k + 1, g)
    <3>1. g[0] = opening
      BY <2>1, <2>2, <2>4 DEF FillsUpTo
    <3>2. ASSUME NEW m \in 1..(k + 1) PROVE g[m] = Put(weigh(us), g[m - 1])
      <4>1. CASE m = k + 1
        <5>1. m - 1 = k /\ k \in 0..k
          BY <2>1, <4>1
        <5> QED
          BY <2>4, <4>1, <5>1 DEF next
      <4>2. CASE m # k + 1
        <5>1. m \in 1..k /\ m \in 0..k /\ m - 1 \in 0..k
          BY <2>1, <4>2
        <5> QED
          BY <2>2, <2>4, <5>1 DEF FillsUpTo
      <4> QED
        BY <4>1, <4>2
    <3> QED
      BY <3>1, <3>2 DEF FillsUpTo
  <2> QED
    BY <2>1, <2>5 DEF Q
<1>3. Cardinality(us) \in Nat
  BY FS_CardinalityType
<1>4. Q \in SUBSET Nat
  OBVIOUS
<1>5. Cardinality(us) \in Q
  <2> HIDE DEF Q
  <2> QED
    BY <1>1, <1>2, <1>3, <1>4, Inductive
<1>6. PICK h : FillsUpTo(us, c, Cardinality(us), h)
  BY <1>5
<1> DEFINE f == [m \in 0..Cardinality(us) |-> h[m]]
<1>7. \A m \in 0..Cardinality(us) : m # 0 => m \in 1..Cardinality(us) /\ m - 1 \in 0..Cardinality(us)
  BY <1>3
<1>8. ASSUME NEW m \in 0..Cardinality(us) PROVE f[m] = Fills(us, c, f)[m]
  <2>1. CASE m = 0
    BY <1>6, <2>1 DEF FillsUpTo, Fills
  <2>2. CASE m # 0
    <3>1. m \in 1..Cardinality(us) /\ m - 1 \in 0..Cardinality(us)
      BY <1>7, <2>2
    <3>2. f[m] = h[m] /\ f[m - 1] = h[m - 1]
      BY <3>1
    <3>3. h[m] = Put(weigh(us), h[m - 1])
      BY <1>6, <3>1 DEF FillsUpTo
    <3> HIDE DEF f
    <3>4. Fills(us, c, f)[m] = Put(weigh(us), f[m - 1])
      BY <2>2 DEF Fills
    <3> QED
      BY <3>2, <3>3, <3>4
  <2> QED
    BY <2>1, <2>2
<1>9. DOMAIN Fills(us, c, f) = 0..Cardinality(us) /\ Fills(us, c, f) = [m \in 0..Cardinality(us) |-> Fills(us, c, f)[m]]
  BY DEF Fills
<1>10. f = [m \in 0..Cardinality(us) |-> f[m]]
  OBVIOUS
<1> HIDE DEF f
<1>11. f = Fills(us, c, f)
  BY <1>8, <1>9, <1>10
<1> QED
  BY <1>11

\* Partition: every unit is in exactly one shard, and no shard is empty.
LEMMA PartitionIs ==
  ASSUME NEW us \in SUBSET UnitIds, NEW n \in Nat, n # 0
  PROVE  \E c \in 0..n :
           /\ Partition(us, n) \in [1..c -> SUBSET us]
           /\ \A i \in 1..c : Partition(us, n)[i] # {}
           /\ \A i, j \in 1..c : i # j => Partition(us, n)[i] \cap Partition(us, n)[j] = {}
           /\ \A u \in us : \E i \in 1..c : u \in Partition(us, n)[i]
<1>1. IsFiniteSet(us) /\ Cardinality(us) \in Nat
  BY PlaceIs, FS_Subset, FS_CardinalityType
<1>2. PICK N \in Nat : N = Cardinality(us)
  BY <1>1
<1>3. PICK c \in Nat : c = IF n < N THEN n ELSE N
  OBVIOUS
<1>4. c \in 0..n /\ c <= N /\ (c = 0 => N = 0)
  BY <1>3
<1> DEFINE f == CHOOSE f : f = Fills(us, c, f)
<1>5. Partition(us, n) = f[N].buckets
  BY <1>2, <1>3 DEF Partition, Fills
<1>6. f = Fills(us, c, f)
  BY <1>1, FillsExist
<1> HIDE DEF f
<1>7. f[0] = [left |-> us, buckets |-> [i \in 1..c |-> {}], loads |-> [i \in 1..c |-> 0]]
  <2>1. 0 \in 0..N
    OBVIOUS
  <2>2. Fills(us, c, f)[0] = [left |-> us, buckets |-> [i \in 1..c |-> {}], loads |-> [i \in 1..c |-> 0]]
    BY <1>2, <2>1 DEF Fills
  <2> QED
    BY <1>6, <2>2
<1>8. ASSUME NEW m \in 1..N PROVE f[m] = Put(weigh(us), f[m - 1])
  <2>1. m \in 0..N /\ m # 0
    OBVIOUS
  <2>2. Fills(us, c, f)[m] = Put(weigh(us), f[m - 1])
    BY <1>2, <2>1 DEF Fills
  <2> QED
    BY <1>6, <2>2
<1> DEFINE Q == {k \in Nat : k <= N => FillIs(us, c, k, f[k])}
<1>9. FillIs(us, c, 0, f[0])
  <2>1. Cardinality({}) = 0
    BY FS_EmptySet
  <2>2. /\ f[0].left = us /\ f[0].buckets = [i \in 1..c |-> {}] /\ f[0].loads = [i \in 1..c |-> 0]
    BY <1>7
  <2>3. Cardinality(us) = Cardinality(us) - 0
    BY <1>1
  <2> DEFINE s == f[0]
  <2>4. s.buckets \in [1..c -> SUBSET us] /\ s.loads \in [1..c -> Nat]
    BY <2>2
  <2>5. \A i \in 1..c : s.buckets[i] = {} /\ s.loads[i] = 0
    BY <2>2
  <2>6. Cardinality({i \in 1..c : s.buckets[i] # {}}) = 0
    <3>1. {i \in 1..c : s.buckets[i] # {}} = {}
      BY <2>5
    <3> QED
      BY <2>1, <3>1
  <2>7. s.left = us
    BY <2>2
  <2>8. s.left \in SUBSET us /\ Cardinality(s.left) = Cardinality(us) - 0
    BY <2>3, <2>7
  <2>9. \A u \in us : u \in s.left <=> \A i \in 1..c : u \notin s.buckets[i]
    BY <2>5, <2>7
  <2>10. \A i, j \in 1..c : i # j => s.buckets[i] \cap s.buckets[j] = {}
    BY <2>5
  <2> HIDE DEF s
  <2>11. FillIs(us, c, 0, s)
    BY <2>4, <2>5, <2>6, <2>8, <2>9, <2>10 DEF FillIs
  <2> QED
    BY <2>11 DEF s
<1>10. 0 \in Q
  BY <1>9
<1>11. ASSUME NEW k \in Q PROVE k + 1 \in Q
  <2>1. k \in Nat /\ k + 1 \in Nat
    OBVIOUS
  <2>2. SUFFICES ASSUME k + 1 <= N PROVE FillIs(us, c, k + 1, f[k + 1])
    BY <2>1
  <2>3. k < N /\ c # 0 /\ k + 1 \in 1..N /\ (k + 1) - 1 = k
    BY <1>4, <2>1, <2>2
  <2>4. FillIs(us, c, k, f[k])
    BY <2>3
  <2> HIDE DEF Q
  <2>5. FillIs(us, c, k + 1, Put(weigh(us), f[k]))
    BY <1>2, <2>1, <2>3, <2>4, PutKeeps
  <2>6. f[k + 1] = Put(weigh(us), f[k])
    BY <1>8, <2>3
  <2> QED
    BY <2>5, <2>6
<1>12. N \in Q
  <2>1. Q \in SUBSET Nat
    OBVIOUS
  <2> HIDE DEF Q
  <2> QED
    BY <1>10, <1>11, <2>1, Inductive
<1>13. FillIs(us, c, N, f[N])
  BY <1>12
<1> DEFINE b == f[N].buckets
<1>14. f[N].left = {}
  <2>1. f[N].left \in SUBSET us /\ Cardinality(f[N].left) = 0
    BY <1>2, <1>13 DEF FillIs
  <2>2. IsFiniteSet(f[N].left)
    BY <1>1, <2>1, FS_Subset
  <2> QED
    BY <2>1, <2>2, FS_EmptySet
<1>15. b \in [1..c -> SUBSET us] /\ \A i, j \in 1..c : i # j => b[i] \cap b[j] = {}
  BY <1>13 DEF FillIs
<1>16. \A u \in us : \E i \in 1..c : u \in b[i]
  BY <1>13, <1>14 DEF FillIs
<1>17. \A i \in 1..c : b[i] # {}
  <2> DEFINE M == {i \in 1..c : b[i] # {}}
  <2>1. SUFFICES ASSUME Cardinality(M) = N PROVE M = 1..c
    BY <1>13 DEF FillIs
  <2>2. M \in SUBSET 1..c
    OBVIOUS
  <2>3. IsFiniteSet(1..c) /\ Cardinality(1..c) = c
    <3>1. c = 0 => Cardinality(1..c) = 0 /\ IsFiniteSet(1..c)
      BY FS_Interval
    <3>2. c # 0 => Cardinality(1..c) = c - 1 + 1 /\ IsFiniteSet(1..c)
      BY FS_Interval
    <3> QED
      BY <3>1, <3>2
  <2> HIDE DEF M
  <2>4. Cardinality(M) <= c /\ (c = Cardinality(M) => 1..c = M)
    BY <2>2, <2>3, FS_Subset
  <2> QED
    BY <1>4, <2>1, <2>4
<1> HIDE DEF b
<1> QED
  BY <1>4, <1>5, <1>15, <1>16, <1>17 DEF b

\* The units of an expansion: one that is left out owns no changed file and
\* depends on no selected one.
LEMMA UnitsAre ==
  ASSUME NEW e
  PROVE  /\ units(e) \in SUBSET UnitIds
         /\ \A u \in UnitIds \ units(e) :
              /\ ~e.change.all
              /\ \A f \in e.change.files : Owner[f] # {} /\ u \notin Owner[f]
              /\ DependsOn[u] \cap units(e) = {}
<1> DEFINE files == e.change.files
           seed == UNION {Owner[f] : f \in files}
           E == {d \in UnitIds \X UnitIds : d[1] \in DependsOn[d[2]]}
<1>1. CASE e.change.all
  BY <1>1 DEF units
<1>2. CASE ~e.change.all /\ ((\E f \in files : Owner[f] = {}) \/ ~(seed \subseteq UnitIds))
  BY <1>2 DEF units, Affected
<1>3. CASE ~e.change.all /\ ~((\E f \in files : Owner[f] = {}) \/ ~(seed \subseteq UnitIds))
  <2>1. units(e) = Reached(UnitIds, E, seed)
    BY <1>3 DEF units, Affected
  <2>2. E \in SUBSET (UnitIds \X UnitIds) /\ IsFiniteSet(UnitIds) /\ seed \in SUBSET UnitIds
    BY <1>3, PlaceIs
  <2>3. \A x, u \in UnitIds : x \in DependsOn[u] => <<x, u>> \in E
    OBVIOUS
  <2>4. \A f \in files : Owner[f] # {} /\ Owner[f] \subseteq seed
    BY <1>3
  <2> HIDE DEF E, seed, files
  <2>5. units(e) = Reach(UnitIds, E, seed)
    BY <2>1, <2>2, ReachedIsReach
  <2>6. /\ seed \subseteq units(e) /\ units(e) \subseteq UnitIds
        /\ \A i \in units(e), j \in UnitIds : <<i, j>> \in E => j \in units(e)
    BY <2>2, <2>5, ReachClosed
  <2>7. \A f \in files : Owner[f] # {} /\ Owner[f] \subseteq units(e)
    BY <2>4, <2>6
  <2>8. \A u \in UnitIds \ units(e) : DependsOn[u] \cap units(e) = {}
    BY <2>3, <2>6
  <2> QED
    BY <1>3, <2>6, <2>7, <2>8 DEF files
<1> QED
  BY <1>1, <1>2, <1>3

\* What an expansion resolves to: children with labels of their own, that
\* share its units out.
ChildrenAre(e, c) ==
  /\ IsFiniteSet(DOMAIN c) /\ "" \notin DOMAIN c
  /\ \A l \in DOMAIN c : c[l].units \in SUBSET units(e) /\ c[l].units # {}
  /\ \A l \in DOMAIN c : c[l] = [id |-> <<e.id, l>>, needs |-> e.needs, handlers |-> {},
                                 units |-> c[l].units, each |-> e.each]
  /\ \A k, l \in DOMAIN c : k # l => c[k].units \cap c[l].units = {}
  /\ \A u \in units(e) : \E l \in DOMAIN c : u \in c[l].units

LEMMA ResolveIs ==
  ASSUME NEW e, e.buckets \in Buckets
  PROVE  ChildrenAre(e, resolveRef(e))
<1> DEFINE us == units(e)
           shards == Partition(us, e.buckets)
           child(label, group) == [id |-> <<e.id, label>>, needs |-> e.needs,
                                   handlers |-> {}, units |-> group, each |-> e.each]
           at(l) == CHOOSE i \in DOMAIN shards : ShardNames[i] = l
           c == resolveRef(e)
<1>1. us \in SUBSET UnitIds /\ IsFiniteSet(us)
  BY UnitsAre, PlaceIs, FS_Subset
<1>2. "" \notin UnitIds /\ "" \notin ToSet(ShardNames)
  BY BuildAssumption
<1>3. CASE e.buckets = 0
  <2>1. c = [u \in us |-> child(u, {u})]
    BY <1>3 DEF resolveRef
  <2>2. DOMAIN c = us /\ \A l \in us : c[l] = child(l, {l})
    BY <2>1
  <2>3. \A l \in us : child(l, {l}).units = {l} /\ child(l, {l}) = child(l, child(l, {l}).units)
    OBVIOUS
  <2> HIDE DEF c
  <2>4. \A l \in DOMAIN c : c[l].units = {l} /\ c[l] = child(l, c[l].units)
    BY <2>2, <2>3
  <2>5. "" \notin us
    BY <1>1, <1>2
  <2> HIDE DEF us
  <2>6. IsFiniteSet(DOMAIN c) /\ "" \notin DOMAIN c
    BY <1>1, <2>2, <2>5
  <2>7. \A l \in DOMAIN c : c[l].units \in SUBSET us /\ c[l].units # {}
    BY <2>2, <2>4
  <2>8. \A k, l \in DOMAIN c : k # l => c[k].units \cap c[l].units = {}
    BY <2>4
  <2>9. \A u \in us : \E l \in DOMAIN c : u \in c[l].units
    BY <2>2, <2>4
  <2>10. ChildrenAre(e, c)
    BY <2>4, <2>6, <2>7, <2>8, <2>9 DEF ChildrenAre, us
  <2> QED
    BY <2>10 DEF c
<1>4. CASE e.buckets # 0
  <2>1. c = [l \in {ShardNames[i] : i \in DOMAIN shards} |-> child(l, shards[at(l)])]
    BY <1>4 DEF resolveRef
  <2>2. Len(ShardNames) \in Nat /\ e.buckets \in 0..Len(ShardNames) /\ DOMAIN ShardNames = 1..Len(ShardNames)
    <3>1. ShardNames \in Seq(ToSet(ShardNames)) /\ e.buckets \in 0..Len(ShardNames)
      BY BuildAssumption
    <3> DEFINE T == ToSet(ShardNames)
    <3> HIDE DEF T
    <3>2. ShardNames \in Seq(T)
      BY <3>1 DEF T
    <3> QED
      BY <3>1, <3>2
  <2> DEFINE Fine(m) == /\ shards \in [1..m -> SUBSET us]
                        /\ \A i \in 1..m : shards[i] # {}
                        /\ \A i, j \in 1..m : i # j => shards[i] \cap shards[j] = {}
                        /\ \A u \in us : \E i \in 1..m : u \in shards[i]
  <2>3. PICK m \in 0..e.buckets : Fine(m)
    <3>1. e.buckets \in Nat
      BY <2>2
    <3> HIDE DEF us
    <3> QED
      BY <1>1, <1>4, <3>1, PartitionIs
  <2> HIDE DEF us, shards
  <2>4. m \in Nat /\ DOMAIN shards = 1..m /\ 1..m \subseteq DOMAIN ShardNames
    BY <2>2, <2>3
  <2> DEFINE L == {ShardNames[i] : i \in 1..m}
  <2>5. \A i, j \in DOMAIN ShardNames : ShardNames[i] = ShardNames[j] => i = j
    BY BuildAssumption
  <2>6. \A l \in L : at(l) \in 1..m /\ ShardNames[at(l)] = l
    BY <2>4
  <2>7. \A i \in 1..m : ShardNames[i] \in L /\ at(ShardNames[i]) = i
    BY <2>4, <2>5, <2>6
  <2>8. \A k, l \in L : k # l => at(k) # at(l)
    BY <2>6
  <2>9. "" \notin L
    BY <1>2, <2>4 DEF ToSet
  <2>10. IsFiniteSet(L)
    <3>1. IsFiniteSet(1..m)
      BY <2>4, FS_Interval
    <3> DEFINE g == [i \in 1..m |-> ShardNames[i]]
    <3>2. g \in Surjection(1..m, L)
      BY DEF Surjection
    <3> HIDE DEF L, g
    <3> QED
      BY <3>1, <3>2, FS_Surjection
  <2>11. DOMAIN c = L /\ \A l \in L : c[l] = child(l, shards[at(l)])
    BY <2>1, <2>4
  <2> HIDE DEF c, L, at
  <2>12. \A l \in L : c[l].units = shards[at(l)] /\ c[l] = child(l, c[l].units)
    <3>1. \A l, g : child(l, g).units = g
      OBVIOUS
    <3> HIDE DEF child
    <3> QED
      BY <2>11, <3>1
  <2>13. \A l \in L : c[l].units \in SUBSET us /\ c[l].units # {}
    <3> TAKE l \in L
    <3>1. at(l) \in 1..m /\ c[l].units = shards[at(l)]
      BY <2>6, <2>12
    <3>2. \A i \in 1..m : shards[i] \in SUBSET us /\ shards[i] # {}
      BY <2>3
    <3> QED
      BY <3>1, <3>2
  <2>14. ASSUME NEW k \in L, NEW l \in L, k # l PROVE c[k].units \cap c[l].units = {}
    <3>1. at(k) \in 1..m /\ at(l) \in 1..m /\ at(k) # at(l)
      BY <2>6, <2>8, <2>14
    <3>2. c[k].units = shards[at(k)] /\ c[l].units = shards[at(l)]
      BY <2>12
    <3>3. \A i, j \in 1..m : i # j => shards[i] \cap shards[j] = {}
      BY <2>3
    <3> QED
      BY <3>1, <3>2, <3>3
  <2>15. \A u \in us : \E l \in L : u \in c[l].units
    <3> TAKE u \in us
    <3>1. PICK i \in 1..m : u \in shards[i]
      BY <2>3
    <3> QED
      BY <2>7, <2>12, <3>1
  <2>16. ChildrenAre(e, c)
    BY <2>9, <2>10, <2>11, <2>12, <2>13, <2>14, <2>15 DEF ChildrenAre, us
  <2> QED
    BY <2>16 DEF c
<1> QED
  BY <1>3, <1>4

Joined(E, A, B) ==
  \A x \in A, z \in B :
    (\A y \in A : <<x, y>> \notin E) /\ (\A y \in B : <<y, z>> \notin E) => <<x, z>> \in E

\* Where every entry of A has an edge to every exit of B, all of A comes after
\* all of B.
LEMMA EntriesAndExits ==
  ASSUME NEW ids, IsFiniteSet(ids), NEW E, NEW W, Strict(W),
         \A i \in ids, j \in ids : <<i, j>> \in E => <<i, j>> \in W,
         NEW A \in SUBSET ids, NEW B \in SUBSET ids, Joined(E, A, B)
  PROVE  \A a \in A, b \in B : <<a, b>> \in W
<1> TAKE a \in A, b \in B
<1>0. \A x, y, z : <<x, y>> \in W /\ <<y, z>> \in W => <<x, z>> \in W
  BY DEF Strict
<1> DEFINE C == {y \in A : y = a \/ <<a, y>> \in W}
           D == {y \in B : y = b \/ <<y, b>> \in W}
           V == {p \in ids \X ids : <<p[2], p[1]>> \in W}
<1>1. IsFiniteSet(C) /\ C # {} /\ IsFiniteSet(D) /\ D # {}
  <2>1. C \in SUBSET ids /\ D \in SUBSET ids /\ a \in C /\ b \in D
    OBVIOUS
  <2> HIDE DEF C, D
  <2> QED
    BY <2>1, FS_Subset
<1>2. \A x, y : <<x, y>> \in V <=> x \in ids /\ y \in ids /\ <<y, x>> \in W
  OBVIOUS
<1>3. Strict(V)
  <2> HIDE DEF V
  <2>1. \A x : <<x, x>> \notin V
    BY <1>2 DEF Strict
  <2>2. ASSUME NEW x, NEW y, NEW z, <<x, y>> \in V, <<y, z>> \in V PROVE <<x, z>> \in V
    <3>1. x \in ids /\ z \in ids /\ <<y, x>> \in W /\ <<z, y>> \in W
      BY <1>2, <2>2
    <3>2. <<z, x>> \in W
      BY <1>0, <3>1
    <3> QED
      BY <1>2, <3>1, <3>2
  <2> QED
    BY <2>1, <2>2 DEF Strict
<1>4. PICK x \in C : \A y \in C : <<x, y>> \notin W
  <2> HIDE DEF C
  <2> QED
    BY <1>1, HasMinimal
<1>5. PICK z \in D : \A y \in D : <<z, y>> \notin V
  <2> HIDE DEF D, V
  <2> QED
    BY <1>1, <1>3, HasMinimal
<1>6. ASSUME NEW y \in A, <<x, y>> \in E PROVE FALSE
  <2>1. <<x, y>> \in W
    BY <1>6
  <2>2. <<a, y>> \in W
    BY <1>0, <2>1
  <2> QED
    BY <1>4, <2>1, <2>2
<1>7. ASSUME NEW y \in B, <<y, z>> \in E PROVE FALSE
  <2>1. <<y, z>> \in W
    BY <1>7
  <2>2. <<y, b>> \in W
    BY <1>0, <2>1
  <2>3. <<z, y>> \in V
    BY <1>2, <2>1
  <2> QED
    BY <1>5, <2>2, <2>3
<1>8. x \in A /\ z \in B
  OBVIOUS
<1>9. <<x, z>> \in W
  BY <1>6, <1>7, <1>8 DEF Joined
<1>10. <<x, b>> \in W
  BY <1>0, <1>9
<1> QED
  BY <1>0, <1>10

LEMMA ImageFinite ==
  ASSUME NEW S, IsFiniteSet(S), NEW f
  PROVE  IsFiniteSet({f[x] : x \in S})
<1> DEFINE T == {f[x] : x \in S}
           g == [x \in S |-> f[x]]
<1>1. g \in Surjection(S, T)
  BY DEF Surjection
<1> HIDE DEF T, g
<1>2. IsFiniteSet(T)
  BY <1>1, FS_Surjection
<1> QED
  BY <1>2 DEF T

\* What is after an id in the graph of the nodes.
Orders(W, nodes) ==
  /\ \A i \in Ids(nodes), j \in Ids(nodes) : <<i, j>> \in Edges(nodes) => <<i, j>> \in W
  /\ \A i \in Ids(nodes), j \in Ids(nodes) :
       <<i, j>> \in W <=> j \in Reached(Ids(nodes), Edges(nodes), {e[2] : e \in {d \in Edges(nodes) : d[1] = i}})

LEMMA NodesAreOrdered ==
  ASSUME NEW nodes, IsFiniteSet(nodes), Validated(nodes)
  PROVE  /\ IsFiniteSet(Ids(nodes))
         /\ \E W : Strict(W) /\ Orders(W, nodes)
<1> DEFINE ids == Ids(nodes)
           E == Edges(nodes)
<1>1. IsFiniteSet(ids)
  <2> DEFINE f == [n \in nodes |-> n.id]
  <2>1. ids = {f[n] : n \in nodes}
    BY DEF Ids
  <2> HIDE DEF f, ids
  <2> QED
    BY <2>1, ImageFinite
<1>2. E \in SUBSET (ids \X ids)
  <2>1. \A n \in nodes : n.id \in ids /\ n.needs \subseteq ids
    BY DEF Validated, Ids
  <2> HIDE DEF ids
  <2> QED
    BY <2>1 DEF Edges
<1>3. Acyclic(ids, E)
  BY DEF Validated
<1> HIDE DEF ids, E
<1>4. \A i \in ids : {e[2] : e \in {d \in E : d[1] = i}} = {k \in ids : <<i, k>> \in E}
  <2>1. \A e \in E : e = <<e[1], e[2]>> /\ e[1] \in ids /\ e[2] \in ids
    BY <1>2
  <2> QED
    BY <2>1
<1>5. \A i \in ids : Reached(ids, E, {e[2] : e \in {d \in E : d[1] = i}}) = Reach(ids, E, {k \in ids : <<i, k>> \in E})
  <2> TAKE i \in ids
  <2> DEFINE S == {k \in ids : <<i, k>> \in E}
  <2>1. Reached(ids, E, S) = Reach(ids, E, S)
    <3> HIDE DEF S
    <3> QED
      BY <1>1, <1>2, ReachedIsReach
  <2> QED
    BY <1>4, <2>1
<1>6. ~Cyclic(ids, E)
  BY <1>3, <1>5 DEF Acyclic, Cyclic
<1>7. PICK W \in SUBSET (ids \X ids) :
        /\ Strict(W) /\ \A i \in ids, j \in ids : <<i, j>> \in E => <<i, j>> \in W
        /\ \A i \in ids, j \in ids : <<i, j>> \in W <=> j \in Reach(ids, E, {k \in ids : <<i, k>> \in E})
  BY <1>1, <1>6, ReachIsOrder
<1>8. \A i \in ids, j \in ids :
        <<i, j>> \in W <=> j \in Reached(ids, E, {e[2] : e \in {d \in E : d[1] = i}})
  BY <1>5, <1>7
<1>9. Orders(W, nodes)
  BY <1>7, <1>8 DEF Orders, ids, E
<1> QED
  BY <1>1, <1>7, <1>9 DEF ids

LoweredTo(lowered, nodes) ==
  nodes = UNION {lowerWorkflowNeeds(w, lowered) : w \in DOMAIN workflows}

BarrierIn(nodes) ==
  \A n \in nodes : \A x \in workflows[WorkflowOf(n.workflow)].needs :
    \A m \in nodes : m.workflow = x =>
      m.id \in Reached(Ids(nodes), Edges(nodes), {e[2] : e \in {d \in Edges(nodes) : d[1] = n.id}})

\* Lowered workflows: the barrier, from the edges of entry to exit steps.
LEMMA BarrierOf ==
  ASSUME NEW lowered, NEW nodes, IsFiniteSet(nodes), Validated(nodes),
         LoweredTo(lowered, nodes),
         \A v, w \in DOMAIN workflows : workflows[v].name = workflows[w].name => v = w,
         \A w \in DOMAIN workflows : workflows[w].needs \subseteq Names
  PROVE  BarrierIn(nodes)
<1> DEFINE T(w) == IdsOf(lowered[w])
           Exits(w) == UNION {exitSteps(lowered[WorkflowOf(x)]) : x \in workflows[w].needs}
           Node(w, i) == [id |-> lowered[w][i].id, workflow |-> workflows[w].name, units |-> lowered[w][i].units,
                          each |-> lowered[w][i].each,
                          needs |-> IF lowered[w][i].id \in entrySteps(lowered[w])
                                    THEN lowered[w][i].needs \cup Exits(w) ELSE lowered[w][i].needs]
<1>1. \A w \in DOMAIN workflows : WorkflowOf(workflows[w].name) = w
  BY DEF WorkflowOf
<1>2. \A w \in DOMAIN workflows : lowerWorkflowNeeds(w, lowered) = {Node(w, i) : i \in DOMAIN lowered[w]}
  BY DEF lowerWorkflowNeeds
<1>3. \A w \in DOMAIN workflows : \A i \in DOMAIN lowered[w] : Node(w, i) \in nodes
  BY <1>2 DEF LoweredTo
<1>4. \A n \in nodes : \E w \in DOMAIN workflows : \E i \in DOMAIN lowered[w] : n = Node(w, i)
  BY <1>2 DEF LoweredTo
<1>5. \A w, i : /\ Node(w, i).id = lowered[w][i].id /\ Node(w, i).workflow = workflows[w].name
                /\ lowered[w][i].needs \subseteq Node(w, i).needs
                /\ lowered[w][i].id \in entrySteps(lowered[w]) => Exits(w) \subseteq Node(w, i).needs
  OBVIOUS
<1> HIDE DEF Node
<1>6. \A w \in DOMAIN workflows : T(w) \in SUBSET Ids(nodes)
  BY <1>3, <1>5 DEF IdsOf, Ids
<1>7. \A w \in DOMAIN workflows : \A i \in DOMAIN lowered[w] : \A y \in lowered[w][i].needs :
        <<lowered[w][i].id, y>> \in Edges(nodes)
  BY <1>3, <1>5 DEF Edges
<1>8. PICK W : Strict(W) /\ Orders(W, nodes)
  BY NodesAreOrdered
<1>9. IsFiniteSet(Ids(nodes))
  BY NodesAreOrdered
<1>10. ASSUME NEW w \in DOMAIN workflows, NEW x \in workflows[w].needs, NEW v \in DOMAIN workflows,
              workflows[v].name = x
       PROVE  \A a \in T(w), b \in T(v) : <<a, b>> \in W
  <2>1. WorkflowOf(x) = v
    BY <1>1, <1>10
  <2>2. ASSUME NEW a \in T(w), NEW b \in T(v),
               \A y \in T(w) : <<a, y>> \notin Edges(nodes), \A y \in T(v) : <<y, b>> \notin Edges(nodes)
        PROVE  <<a, b>> \in Edges(nodes)
    <3>1. PICK i \in DOMAIN lowered[w] : a = lowered[w][i].id
      BY DEF IdsOf
    <3>2. lowered[w][i].needs \cap IdsOf(lowered[w]) = {}
      BY <1>7, <2>2, <3>1
    <3>3. lowered[w][i].id \in entrySteps(lowered[w])
      BY <3>2 DEF entrySteps
    <3>4. ASSUME NEW k \in DOMAIN lowered[v], b \in lowered[v][k].needs PROVE FALSE
      <4>1. <<lowered[v][k].id, b>> \in Edges(nodes) /\ lowered[v][k].id \in T(v)
        BY <1>7, <3>4 DEF IdsOf
      <4> QED
        BY <2>2, <4>1
    <3>5. b \in exitSteps(lowered[v])
      BY <3>4 DEF exitSteps
    <3>6. b \in Exits(w)
      BY <2>1, <3>5
    <3> HIDE DEF Exits
    <3>7. b \in Node(w, i).needs
      BY <1>5, <3>3, <3>6
    <3> QED
      BY <1>3, <1>5, <3>1, <3>7 DEF Edges
  <2>3. T(w) \in SUBSET Ids(nodes) /\ T(v) \in SUBSET Ids(nodes)
    BY <1>6
  <2> DEFINE A == T(w)
             B == T(v)
             ids == Ids(nodes)
             E == Edges(nodes)
  <2>4. \A i \in ids, j \in ids : <<i, j>> \in E => <<i, j>> \in W
    BY <1>8 DEF Orders
  <2>5. Joined(E, A, B)
    BY <2>2 DEF Joined
  <2>6. A \in SUBSET ids /\ B \in SUBSET ids /\ IsFiniteSet(ids) /\ Strict(W)
    BY <1>8, <1>9, <2>3
  <2>7. \A a \in A, b \in B : <<a, b>> \in W
    <3> HIDE DEF A, B, ids, E
    <3> QED
      BY <2>4, <2>5, <2>6, EntriesAndExits
  <2> QED
    BY <2>7
<1> SUFFICES ASSUME NEW n \in nodes, NEW x \in workflows[WorkflowOf(n.workflow)].needs, NEW m \in nodes, m.workflow = x
             PROVE  m.id \in Reached(Ids(nodes), Edges(nodes), {e[2] : e \in {d \in Edges(nodes) : d[1] = n.id}})
  BY DEF BarrierIn
<1>11. PICK w \in DOMAIN workflows : \E i \in DOMAIN lowered[w] : n = Node(w, i)
  BY <1>4
<1>12. n.id \in T(w) /\ WorkflowOf(n.workflow) = w
  BY <1>1, <1>5, <1>11 DEF IdsOf
<1>13. PICK v \in DOMAIN workflows : \E j \in DOMAIN lowered[v] : m = Node(v, j)
  BY <1>4
<1>14. m.id \in T(v) /\ workflows[v].name = x
  BY <1>5, <1>13 DEF IdsOf
<1>15. <<n.id, m.id>> \in W
  BY <1>10, <1>12, <1>14
<1> QED
  BY <1>6, <1>8, <1>12, <1>14, <1>15 DEF Orders

\* The builders, as far as Build relies on them.
BuilderIs(b) ==
  /\ b = [name |-> b.name, needs |-> b.needs, steps |-> b.steps, expansions |-> b.expansions]
  /\ \E S : b.steps \in Seq(S)
  /\ \E S : b.expansions \in Seq(S)
  /\ \A i \in DOMAIN b.steps : b.steps[i].id[2] = ""
  /\ \A x \in DOMAIN b.expansions : b.expansions[x].buckets \in Buckets

BuildTypes ==
  /\ \E S : workflows \in Seq(S)
  /\ \A w \in DOMAIN workflows : BuilderIs(workflows[w])

LEMMA IndicesOf ==
  ASSUME NEW s, \E S : s \in Seq(S)
  PROVE  Len(s) \in Nat /\ DOMAIN s = 1..Len(s) /\ IsFiniteSet(DOMAIN s) /\ 0 \notin DOMAIN s
<1>1. PICK S : s \in Seq(S)
  OBVIOUS
<1>2. Len(s) \in Nat /\ DOMAIN s = 1..Len(s)
  BY <1>1
<1> QED
  BY <1>2, FS_Interval

\* What the stages of Build make, one from the other.
Stages(children, lowered, nodes) ==
  /\ children = [p \in Expansions |-> resolveRef(Expansion(p))]
  /\ lowered = [w \in DOMAIN workflows |->
                  [i \in DOMAIN Resolved(w, children) |-> WithEach(Resolved(w, children)[i], children)]]
  /\ nodes = UNION {lowerWorkflowNeeds(w, lowered) : w \in DOMAIN workflows}

\* The node that step i of workflow w is lowered to.
LoweredNode(w, i, lowered) ==
  [id |-> lowered[w][i].id, workflow |-> workflows[w].name, units |-> lowered[w][i].units,
   each |-> lowered[w][i].each,
   needs |-> IF lowered[w][i].id \in entrySteps(lowered[w])
             THEN lowered[w][i].needs \cup UNION {exitSteps(lowered[WorkflowOf(x)]) : x \in workflows[w].needs}
             ELSE lowered[w][i].needs]

LEMMA LoweredAre ==
  ASSUME NEW w, NEW lowered
  PROVE  /\ lowerWorkflowNeeds(w, lowered) = {LoweredNode(w, i, lowered) : i \in DOMAIN lowered[w]}
         /\ \A i : /\ LoweredNode(w, i, lowered).id = lowered[w][i].id
                   /\ LoweredNode(w, i, lowered).units = lowered[w][i].units
                   /\ LoweredNode(w, i, lowered).each = lowered[w][i].each
                   /\ lowered[w][i].needs \subseteq LoweredNode(w, i, lowered).needs
BY DEF lowerWorkflowNeeds, LoweredNode

OwnOrChild(w, i, children) ==
  \/ \E s \in DOMAIN workflows[w].steps : Resolved(w, children)[i] = Plain(workflows[w].steps[s])
  \/ \E x \in DOMAIN workflows[w].expansions : \E l \in DOMAIN children[<<w, x>>] : i = <<x, l>>

\* The steps a workflow resolves to: its own and the children of its expansions.
LEMMA ResolvedAre ==
  ASSUME BuildTypes, NEW children, children = [p \in Expansions |-> resolveRef(Expansion(p))],
         NEW w \in DOMAIN workflows
  PROVE  /\ IsFiniteSet(DOMAIN Resolved(w, children))
         /\ \A x \in DOMAIN workflows[w].expansions : \A l \in DOMAIN children[<<w, x>>] :
              /\ <<w, x>> \in Expansions
              /\ <<x, l>> \in DOMAIN Resolved(w, children)
              /\ Resolved(w, children)[<<x, l>>] = children[<<w, x>>][l]
         /\ \A i \in DOMAIN Resolved(w, children) : OwnOrChild(w, i, children)
<1> DEFINE Own == {0} \X DOMAIN workflows[w].steps
           Of(x) == {x} \X DOMAIN children[<<w, x>>]
           X == DOMAIN workflows[w].expansions
           D == Own \cup UNION {Of(x) : x \in X}
           r == Resolved(w, children)
<1>1. DOMAIN r = D /\ \A p \in D : r[p] = IF p[1] = 0 THEN Plain(workflows[w].steps[p[2]]) ELSE children[<<w, p[1]>>][p[2]]
  BY DEF Resolved
<1>2. IsFiniteSet(X) /\ 0 \notin X
  BY IndicesOf DEF BuildTypes, BuilderIs
<1>3. \A x \in X : <<w, x>> \in Expansions
  BY DEF Expansions
<1>4. \A x \in X : ChildrenAre(Expansion(<<w, x>>), children[<<w, x>>])
  <2> TAKE x \in X
  <2>1. Expansion(<<w, x>>).buckets \in Buckets
    BY DEF BuildTypes, BuilderIs, Expansion
  <2>2. children[<<w, x>>] = resolveRef(Expansion(<<w, x>>))
    BY <1>3
  <2> QED
    BY <2>1, <2>2, ResolveIs
<1>5. IsFiniteSet(Own)
  <2>1. IsFiniteSet(DOMAIN workflows[w].steps)
    BY IndicesOf DEF BuildTypes, BuilderIs
  <2>2. IsFiniteSet({0})
    BY FS_Singleton
  <2> DEFINE A == {0}
             B == DOMAIN workflows[w].steps
  <2> HIDE DEF A, B
  <2>3. IsFiniteSet(A \X B)
    BY <2>1, <2>2, FS_Product DEF A, B
  <2> QED
    BY <2>3 DEF A, B
<1>6. \A x \in X : IsFiniteSet(Of(x))
  <2> TAKE x \in X
  <2> DEFINE A == {x}
             B == DOMAIN children[<<w, x>>]
  <2>1. IsFiniteSet(B)
    BY <1>4 DEF ChildrenAre
  <2>2. IsFiniteSet(A)
    BY FS_Singleton
  <2> HIDE DEF A, B
  <2>3. IsFiniteSet(A \X B)
    BY <2>1, <2>2, FS_Product
  <2> QED
    BY <2>3 DEF A, B
<1>7. IsFiniteSet(D)
  <2> DEFINE f == [x \in X |-> Of(x)]
             F == {f[x] : x \in X}
  <2>1. F = {Of(x) : x \in X} /\ \A t \in F : IsFiniteSet(t)
    BY <1>6
  <2>2. IsFiniteSet(F)
    <3> HIDE DEF f, X
    <3> QED
      BY <1>2, ImageFinite
  <2>3. IsFiniteSet(UNION F)
    <3> HIDE DEF F
    <3> QED
      BY <2>1, <2>2, FS_UNION
  <2> DEFINE U == UNION F
  <2>4. D = Own \cup U
    BY <2>1
  <2> HIDE DEF U, Own, D, F
  <2> QED
    BY <1>5, <2>3, <2>4, FS_Union DEF U
<1>8. ASSUME NEW x \in X, NEW l \in DOMAIN children[<<w, x>>]
      PROVE  <<x, l>> \in D /\ r[<<x, l>>] = children[<<w, x>>][l]
  <2>1. <<x, l>> \in Of(x)
    OBVIOUS
  <2>2. <<x, l>> \in D
    BY <2>1
  <2>3. <<x, l>>[1] = x /\ <<x, l>>[2] = l /\ x # 0
    BY <1>2
  <2> HIDE DEF D
  <2> QED
    BY <1>1, <2>2, <2>3
<1>9. ASSUME NEW i \in D
      PROVE  \/ \E s \in DOMAIN workflows[w].steps : r[i] = Plain(workflows[w].steps[s])
             \/ \E x \in X : \E l \in DOMAIN children[<<w, x>>] : i = <<x, l>>
  <2>1. CASE i \in Own
    <3>1. i[1] = 0 /\ i[2] \in DOMAIN workflows[w].steps
      BY <2>1
    <3> HIDE DEF D
    <3> QED
      BY <1>1, <3>1
  <2>2. CASE i \notin Own
    <3>1. PICK x \in X : i \in Of(x)
      BY <2>2
    <3> QED
      BY <3>1
  <2> QED
    BY <2>1, <2>2
<1> HIDE DEF D, Of, Own
<1>10. \A i \in D : OwnOrChild(w, i, children)
  BY <1>9 DEF OwnOrChild
<1> QED
  BY <1>1, <1>3, <1>7, <1>8, <1>10

\* The nodes of the plan: plain steps, and the children of the expansions.
ChildNode(n, q, l, children, lowered) ==
  /\ n = LoweredNode(q[1], <<q[2], l>>, lowered)
  /\ n.id = <<Expansion(q).id, l>> /\ n.units = children[q][l].units
  /\ n.each = Expansion(q).each
  /\ \A x \in n.each : pairEach(children[q][l], children[Named(x)]) \subseteq n.needs

LEMMA NodesAre ==
  ASSUME BuildTypes, NEW children, NEW lowered, NEW nodes, Stages(children, lowered, nodes)
  PROVE  /\ IsFiniteSet(nodes)
         /\ \A q \in Expansions : ChildrenAre(Expansion(q), children[q])
         /\ \A q \in Expansions : \A l \in DOMAIN children[q] :
              \E n \in nodes : ChildNode(n, q, l, children, lowered)
         /\ \A n \in nodes :
              \/ n.id[2] = "" /\ n.each = {}
              \/ \E q \in Expansions : \E l \in DOMAIN children[q] : ChildNode(n, q, l, children, lowered)
<1>1. children = [p \in Expansions |-> resolveRef(Expansion(p))]
  BY DEF Stages
<1>2. /\ DOMAIN lowered = DOMAIN workflows
      /\ \A w \in DOMAIN workflows : /\ DOMAIN lowered[w] = DOMAIN Resolved(w, children)
                                     /\ \A i \in DOMAIN Resolved(w, children) :
                                          lowered[w][i] = WithEach(Resolved(w, children)[i], children)
  BY DEF Stages
<1>3. \A q \in Expansions : /\ q = <<q[1], q[2]>> /\ q[1] \in DOMAIN workflows
                            /\ q[2] \in DOMAIN workflows[q[1]].expansions
  BY DEF Expansions
<1>4. \A q \in Expansions : ChildrenAre(Expansion(q), children[q])
  <2> TAKE q \in Expansions
  <2>1. Expansion(q).buckets \in Buckets
    BY <1>3 DEF BuildTypes, BuilderIs, Expansion
  <2> QED
    BY <1>1, <2>1, ResolveIs
<1>5. nodes = UNION {lowerWorkflowNeeds(w, lowered) : w \in DOMAIN workflows}
  BY DEF Stages
<1>6. \A w : lowerWorkflowNeeds(w, lowered) = {LoweredNode(w, i, lowered) : i \in DOMAIN lowered[w]}
  BY LoweredAre
<1>7. IsFiniteSet(nodes)
  <2> DEFINE M(w) == {LoweredNode(w, i, lowered) : i \in DOMAIN lowered[w]}
             f == [w \in DOMAIN workflows |-> M(w)]
             F == {f[w] : w \in DOMAIN workflows}
  <2>1. \A w \in DOMAIN workflows : IsFiniteSet(M(w))
    <3> TAKE w \in DOMAIN workflows
    <3> DEFINE D == DOMAIN lowered[w]
               g == [i \in D |-> LoweredNode(w, i, lowered)]
    <3>1. M(w) = {g[i] : i \in D}
      OBVIOUS
    <3>2. IsFiniteSet(D)
      BY <1>1, <1>2, ResolvedAre
    <3> HIDE DEF g, D
    <3> QED
      BY <3>1, <3>2, ImageFinite
  <2>2. nodes = UNION F
    <3>1. \A w : lowerWorkflowNeeds(w, lowered) = M(w)
      BY <1>6
    <3> HIDE DEF M
    <3>2. F = {lowerWorkflowNeeds(w, lowered) : w \in DOMAIN workflows}
      BY <3>1
    <3> QED
      BY <1>5, <3>2
  <2>3. IsFiniteSet(F)
    <3>1. IsFiniteSet(DOMAIN workflows)
      BY IndicesOf DEF BuildTypes, BuilderIs
    <3> HIDE DEF f
    <3> QED
      BY <3>1, ImageFinite
  <2>4. \A t \in F : IsFiniteSet(t)
    BY <2>1
  <2> HIDE DEF F
  <2> QED
    BY <2>2, <2>3, <2>4, FS_UNION
<1>8. \A w \in DOMAIN workflows : \A i \in DOMAIN lowered[w] : LoweredNode(w, i, lowered) \in nodes
  BY <1>5, <1>6
<1>9. \A n \in nodes : \E w \in DOMAIN workflows : \E i \in DOMAIN lowered[w] : n = LoweredNode(w, i, lowered)
  <2> TAKE n \in nodes
  <2>1. PICK w \in DOMAIN workflows : n \in lowerWorkflowNeeds(w, lowered)
    BY <1>5
  <2>2. n \in {LoweredNode(w, i, lowered) : i \in DOMAIN lowered[w]}
    BY <1>6, <2>1
  <2> QED
    BY <2>2
<1>10. ASSUME NEW q \in Expansions, NEW l \in DOMAIN children[q]
      PROVE  /\ <<q[2], l>> \in DOMAIN lowered[q[1]]
             /\ ChildNode(LoweredNode(q[1], <<q[2], l>>, lowered), q, l, children, lowered)
  <2> DEFINE w == q[1]
             x == q[2]
             i == <<x, l>>
             e == Expansion(q)
             c == children[q][l]
             n == LoweredNode(w, i, lowered)
  <2>1. w \in DOMAIN workflows /\ x \in DOMAIN workflows[w].expansions /\ q = <<w, x>>
    BY <1>3
  <2>2. i \in DOMAIN Resolved(w, children) /\ Resolved(w, children)[i] = c
    BY <1>1, <2>1, ResolvedAre
  <2>3. i \in DOMAIN lowered[w] /\ lowered[w][i] = WithEach(c, children)
    BY <1>2, <2>1, <2>2
  <2>4. c = [id |-> <<e.id, l>>, needs |-> e.needs, handlers |-> {}, units |-> c.units, each |-> e.each]
    BY <1>4 DEF ChildrenAre
  <2> HIDE DEF c, w, i, e
  <2>5. /\ WithEach(c, children).id = <<e.id, l>> /\ WithEach(c, children).units = c.units
        /\ WithEach(c, children).each = e.each /\ c.each = e.each
        /\ \A y \in c.each : pairEach(c, children[Named(y)]) \subseteq WithEach(c, children).needs
    <3> DEFINE more == UNION {pairEach(c, children[Named(y)]) : y \in c.each}
    <3>1. WithEach(c, children) = [c EXCEPT !.needs = @ \cup more]
      BY DEF WithEach
    <3>2. \A y \in c.each : pairEach(c, children[Named(y)]) \subseteq more
      OBVIOUS
    <3> HIDE DEF more
    <3>3. /\ WithEach(c, children).id = c.id /\ WithEach(c, children).units = c.units
          /\ WithEach(c, children).each = c.each /\ WithEach(c, children).needs = c.needs \cup more
      BY <2>4, <3>1
    <3>4. c.id = <<e.id, l>> /\ c.each = e.each
      BY <2>4
    <3> QED
      BY <3>2, <3>3, <3>4
  <2>6. /\ n.id = lowered[w][i].id /\ n.units = lowered[w][i].units /\ n.each = lowered[w][i].each
        /\ lowered[w][i].needs \subseteq n.needs
    BY LoweredAre
  <2> HIDE DEF n
  <2>7. /\ n.id = <<e.id, l>> /\ n.units = c.units /\ n.each = e.each
        /\ \A y \in n.each : pairEach(c, children[Named(y)]) \subseteq n.needs
    BY <2>3, <2>5, <2>6
  <2>8. i \in DOMAIN lowered[w] /\ ChildNode(n, q, l, children, lowered)
    BY <2>3, <2>7 DEF ChildNode, n, w, x, i, e, c
  <2> QED
    BY <2>8 DEF n, w, x, i
<1>11. \A q \in Expansions : \A l \in DOMAIN children[q] : \E n \in nodes : ChildNode(n, q, l, children, lowered)
  BY <1>3, <1>8, <1>10
<1>12. ASSUME NEW n \in nodes
       PROVE  \/ n.id[2] = "" /\ n.each = {}
              \/ \E q \in Expansions : \E l \in DOMAIN children[q] : ChildNode(n, q, l, children, lowered)
  <2>1. PICK w \in DOMAIN workflows : \E i \in DOMAIN lowered[w] : n = LoweredNode(w, i, lowered)
    BY <1>9
  <2>2. PICK i \in DOMAIN lowered[w] : n = LoweredNode(w, i, lowered)
    BY <2>1
  <2>3. i \in DOMAIN Resolved(w, children) /\ lowered[w][i] = WithEach(Resolved(w, children)[i], children)
    BY <1>2
  <2>4. CASE \E s \in DOMAIN workflows[w].steps : Resolved(w, children)[i] = Plain(workflows[w].steps[s])
    <3>1. PICK s \in DOMAIN workflows[w].steps : Resolved(w, children)[i] = Plain(workflows[w].steps[s])
      BY <2>4
    <3> DEFINE c == Plain(workflows[w].steps[s])
               more == UNION {pairEach(c, children[Named(y)]) : y \in c.each}
    <3>2. WithEach(c, children) = [c EXCEPT !.needs = @ \cup more]
      BY DEF WithEach
    <3> HIDE DEF more
    <3>3. WithEach(c, children).id = workflows[w].steps[s].id /\ WithEach(c, children).each = {}
      BY <3>2 DEF Plain
    <3>4. workflows[w].steps[s].id[2] = ""
      BY DEF BuildTypes, BuilderIs
    <3>5. n.id = lowered[w][i].id /\ n.each = lowered[w][i].each
      BY <2>2, LoweredAre
    <3> QED
      BY <2>3, <3>1, <3>3, <3>4, <3>5
  <2>5. CASE \E x \in DOMAIN workflows[w].expansions : \E l \in DOMAIN children[<<w, x>>] : i = <<x, l>>
    <3>1. PICK x \in DOMAIN workflows[w].expansions : \E l \in DOMAIN children[<<w, x>>] : i = <<x, l>>
      BY <2>5
    <3>2. PICK l \in DOMAIN children[<<w, x>>] : i = <<x, l>>
      BY <3>1
    <3> DEFINE q == <<w, x>>
    <3>3. q \in Expansions /\ q[1] = w /\ q[2] = x
      BY <1>1, <3>2, ResolvedAre
    <3> HIDE DEF q
    <3>4. l \in DOMAIN children[q] /\ n = LoweredNode(q[1], <<q[2], l>>, lowered)
      BY <2>2, <3>2, <3>3 DEF q
    <3>5. ChildNode(n, q, l, children, lowered)
      BY <1>10, <3>3, <3>4
    <3> QED
      BY <3>3, <3>4, <3>5
  <2>6. \/ \E s \in DOMAIN workflows[w].steps : Resolved(w, children)[i] = Plain(workflows[w].steps[s])
        \/ \E x \in DOMAIN workflows[w].expansions : \E l \in DOMAIN children[<<w, x>>] : i = <<x, l>>
    <3>1. OwnOrChild(w, i, children)
      BY <1>1, <2>3, ResolvedAre
    <3> QED
      BY <3>1 DEF OwnOrChild
  <2> QED
    BY <2>4, <2>5, <2>6
<1> QED
  BY <1>4, <1>7, <1>11, <1>12

\* The two properties, of any set of nodes.
KidsOf(x, nodes) == {m \in nodes : m.id[1] = x /\ m.id[2] # ""}

PairedIn(nodes) ==
  \A n \in nodes : \A x \in n.each : \A u \in n.units :
    \A m \in KidsOf(x, nodes) :
      u \in m.units \/ (\A k \in KidsOf(x, nodes) : u \notin k.units) => m.id \in n.needs

SharedIn(nodes) ==
  \A q \in Expansions :
    LET mine == KidsOf(Expansion(q).id, nodes)
        change == Expansion(q).change
    IN /\ \A n, m \in mine : n # m => n.units \cap m.units = {}
       /\ \A n \in mine : n.units # {}
       /\ \A u \in UnitIds : (\A n \in mine : u \notin n.units) =>
            /\ ~change.all
            /\ \A f \in change.files : Owner[f] # {} /\ u \notin Owner[f]
            /\ \A n \in mine : DependsOn[u] \cap n.units = {}

\* The children of an expansion among the nodes.
LEMMA KidsAre ==
  ASSUME BuildTypes, NEW children, NEW lowered, NEW nodes, Stages(children, lowered, nodes),
         Validated(nodes), NEW q \in Expansions
  PROVE  /\ \A m \in KidsOf(Expansion(q).id, nodes) :
              \E l \in DOMAIN children[q] : ChildNode(m, q, l, children, lowered)
         /\ \A l \in DOMAIN children[q] :
              \E m \in KidsOf(Expansion(q).id, nodes) : ChildNode(m, q, l, children, lowered)
<1>1. ASSUME NEW m \in KidsOf(Expansion(q).id, nodes)
      PROVE  \E l \in DOMAIN children[q] : ChildNode(m, q, l, children, lowered)
  <2>1. m \in nodes /\ m.id[1] = Expansion(q).id /\ m.id[2] # ""
    BY DEF KidsOf
  <2>2. PICK p \in Expansions : \E l \in DOMAIN children[p] : ChildNode(m, p, l, children, lowered)
    BY <2>1, NodesAre
  <2>3. PICK l \in DOMAIN children[p] : ChildNode(m, p, l, children, lowered)
    BY <2>2
  <2>4. m.id = <<Expansion(p).id, l>>
    BY <2>3 DEF ChildNode
  <2>5. Expansion(p).id = Expansion(q).id
    <3>1. \A a, b : <<a, b>>[1] = a
      OBVIOUS
    <3> QED
      BY <2>1, <2>4, <3>1
  <2>6. p = q
    BY <2>5 DEF Validated
  <2> QED
    BY <2>3, <2>6
<1>2. ASSUME NEW l \in DOMAIN children[q]
      PROVE  \E m \in KidsOf(Expansion(q).id, nodes) : ChildNode(m, q, l, children, lowered)
  <2>1. PICK m \in nodes : ChildNode(m, q, l, children, lowered)
    BY NodesAre
  <2>2. "" \notin DOMAIN children[q]
    BY NodesAre DEF ChildrenAre
  <2>3. m.id = <<Expansion(q).id, l>> /\ l # ""
    BY <2>1, <2>2 DEF ChildNode
  <2>4. m.id[1] = Expansion(q).id /\ m.id[2] # ""
    <3> DEFINE x == Expansion(q).id
               y == m.id
    <3>1. y = <<x, l>>
      BY <2>3
    <3> HIDE DEF x, y
    <3>2. y[1] = x /\ y[2] = l
      BY <3>1
    <3>3. m.id[1] = Expansion(q).id /\ m.id[2] = l
      BY <3>2 DEF x, y
    <3> QED
      BY <2>3, <3>3
  <2> QED
    BY <2>1, <2>4 DEF KidsOf
<1> QED
  BY <1>1, <1>2

\* A child waits for its counterparts in each expansion it names.
LEMMA PairedOf ==
  ASSUME BuildTypes, NEW children, NEW lowered, NEW nodes, Stages(children, lowered, nodes),
         Validated(nodes), ~EachRefused
  PROVE  PairedIn(nodes)
<1> SUFFICES ASSUME NEW n \in nodes, NEW x \in n.each, NEW u \in n.units, NEW m \in KidsOf(x, nodes),
                    u \in m.units \/ \A k \in KidsOf(x, nodes) : u \notin k.units
             PROVE  m.id \in n.needs
  BY DEF PairedIn
<1>1. (n.id[2] = "" /\ n.each = {}) \/ \E p \in Expansions : \E l \in DOMAIN children[p] : ChildNode(n, p, l, children, lowered)
  BY NodesAre
<1>2. PICK p \in Expansions : \E l \in DOMAIN children[p] : ChildNode(n, p, l, children, lowered)
  BY <1>1
<1>3. PICK l \in DOMAIN children[p] : ChildNode(n, p, l, children, lowered)
  BY <1>2
<1>4. x \in Expansion(p).each /\ u \in children[p][l].units
  BY <1>3 DEF ChildNode
<1>5. Cardinality({q \in Expansions : Expansion(q).id = x}) = 1
  BY <1>4 DEF EachRefused
<1>6. \E q \in Expansions : Expansion(q).id = x
  <2> SUFFICES ASSUME \A q \in Expansions : Expansion(q).id # x PROVE FALSE
    OBVIOUS
  <2>1. {q \in Expansions : Expansion(q).id = x} = {}
    OBVIOUS
  <2> QED
    BY <1>5, <2>1, FS_EmptySet
<1> DEFINE q == Named(x)
<1>7. q \in Expansions /\ Expansion(q).id = x
  BY <1>6 DEF Named
<1> HIDE DEF q
<1>8. PICK k \in DOMAIN children[q] : ChildNode(m, q, k, children, lowered)
  BY <1>7, KidsAre
<1> DEFINE child == children[p][l]
           upstream == children[q]
           owners == {j \in DOMAIN upstream : upstream[j].units \cap child.units # {}}
<1>9. m.id = upstream[k].id /\ m.units = upstream[k].units
  <2>1. m.id = <<Expansion(q).id, k>> /\ m.units = children[q][k].units
    BY <1>8 DEF ChildNode
  <2>2. children[q][k] = [id |-> <<Expansion(q).id, k>>, needs |-> Expansion(q).needs, handlers |-> {},
                          units |-> children[q][k].units, each |-> Expansion(q).each]
    <3>1. ChildrenAre(Expansion(q), children[q])
      BY <1>7, NodesAre
    <3> QED
      BY <3>1 DEF ChildrenAre
  <2>3. children[q][k].id = <<Expansion(q).id, k>>
    BY <2>2
  <2> QED
    BY <2>1, <2>3
<1>10. pairEach(child, upstream) \subseteq n.needs
  BY <1>3 DEF ChildNode, q
<1>11. CASE u \in m.units
  <2>1. k \in owners
    BY <1>4, <1>9, <1>11
  <2>2. upstream[k].id \in pairEach(child, upstream)
    BY <2>1 DEF pairEach
  <2> QED
    BY <1>9, <1>10, <2>2
<1>12. CASE \A j \in KidsOf(x, nodes) : u \notin j.units
  <2>1. \A j \in DOMAIN upstream : u \notin upstream[j].units
    <3> TAKE j \in DOMAIN upstream
    <3>1. PICK i \in KidsOf(x, nodes) : ChildNode(i, q, j, children, lowered)
      BY <1>7, KidsAre
    <3>2. i.units = upstream[j].units
      BY <3>1 DEF ChildNode
    <3> QED
      BY <1>12, <3>2
  <2>2. ~(child.units \subseteq UNION {upstream[j].units : j \in DOMAIN upstream})
    BY <1>4, <2>1
  <2>3. upstream[k].id \in pairEach(child, upstream)
    BY <1>8, <2>2 DEF pairEach
  <2> QED
    BY <1>9, <1>10, <2>3
<1> QED
  BY <1>11, <1>12

\* The children of an expansion share its units out, and it selected enough.
LEMMA SharedOf ==
  ASSUME BuildTypes, NEW children, NEW lowered, NEW nodes, Stages(children, lowered, nodes),
         Validated(nodes)
  PROVE  SharedIn(nodes)
<1> SUFFICES ASSUME NEW q \in Expansions
             PROVE  /\ \A n, m \in KidsOf(Expansion(q).id, nodes) : n # m => n.units \cap m.units = {}
                    /\ \A n \in KidsOf(Expansion(q).id, nodes) : n.units # {}
                    /\ \A u \in UnitIds : (\A n \in KidsOf(Expansion(q).id, nodes) : u \notin n.units) =>
                         /\ ~Expansion(q).change.all
                         /\ \A f \in Expansion(q).change.files : Owner[f] # {} /\ u \notin Owner[f]
                         /\ \A n \in KidsOf(Expansion(q).id, nodes) : DependsOn[u] \cap n.units = {}
  BY DEF SharedIn
<1> DEFINE e == Expansion(q)
           c == children[q]
           mine == KidsOf(e.id, nodes)
<1>1. ChildrenAre(e, c)
  BY NodesAre
<1>2. \A n \in mine : \E l \in DOMAIN c : ChildNode(n, q, l, children, lowered)
  BY KidsAre
<1>3. \A l \in DOMAIN c : \E n \in mine : ChildNode(n, q, l, children, lowered)
  BY KidsAre
<1>4. \A n, l : ChildNode(n, q, l, children, lowered) => n.units = c[l].units
  BY DEF ChildNode
<1>5. \A n, m, l : ChildNode(n, q, l, children, lowered) /\ ChildNode(m, q, l, children, lowered) => n = m
  BY DEF ChildNode
<1> HIDE DEF e, c, mine
<1>6. ASSUME NEW n \in mine, NEW m \in mine, n # m PROVE n.units \cap m.units = {}
  <2>1. PICK l \in DOMAIN c : ChildNode(n, q, l, children, lowered)
    BY <1>2
  <2>2. PICK k \in DOMAIN c : ChildNode(m, q, k, children, lowered)
    BY <1>2
  <2>3. l # k
    BY <1>5, <1>6, <2>1, <2>2
  <2>4. c[l].units \cap c[k].units = {}
    BY <1>1, <2>3 DEF ChildrenAre
  <2> QED
    BY <1>4, <2>1, <2>2, <2>4
<1>7. \A n \in mine : n.units # {} /\ n.units \in SUBSET units(e)
  <2> TAKE n \in mine
  <2>1. PICK l \in DOMAIN c : ChildNode(n, q, l, children, lowered)
    BY <1>2
  <2>2. c[l].units # {} /\ c[l].units \in SUBSET units(e)
    BY <1>1 DEF ChildrenAre
  <2> QED
    BY <1>4, <2>1, <2>2
<1>8. ASSUME NEW u \in UnitIds, \A n \in mine : u \notin n.units
      PROVE  /\ ~e.change.all
             /\ \A f \in e.change.files : Owner[f] # {} /\ u \notin Owner[f]
             /\ \A n \in mine : DependsOn[u] \cap n.units = {}
  <2>1. u \notin units(e)
    <3> SUFFICES ASSUME u \in units(e) PROVE FALSE
      OBVIOUS
    <3>1. PICK l \in DOMAIN c : u \in c[l].units
      BY <1>1 DEF ChildrenAre
    <3>2. PICK n \in mine : ChildNode(n, q, l, children, lowered)
      BY <1>3
    <3> QED
      BY <1>4, <1>8, <3>1, <3>2
  <2>2. /\ ~e.change.all
        /\ \A f \in e.change.files : Owner[f] # {} /\ u \notin Owner[f]
        /\ DependsOn[u] \cap units(e) = {}
    BY <2>1, UnitsAre
  <2> QED
    BY <1>7, <2>2
<1> QED
  BY <1>6, <1>7, <1>8 DEF e, c, mine

\* Names that are as many as the workflows are each one's own.
LEMMA NamesAreOwn ==
  ASSUME BuildTypes, Cardinality(Names) = Len(workflows)
  PROVE  \A v, w \in DOMAIN workflows : workflows[v].name = workflows[w].name => v = w
<1> DEFINE D == DOMAIN workflows
           f == [w \in D |-> workflows[w].name]
<1>1. Len(workflows) \in Nat /\ D = 1..Len(workflows) /\ IsFiniteSet(D)
  BY IndicesOf DEF BuildTypes
<1>2. f \in Surjection(D, Names)
  BY DEF Surjection, Names
<1>3. Cardinality(D) = Len(workflows)
  <2>1. PICK n \in Nat : n = Len(workflows)
    BY <1>1
  <2>2. n = 0 => Cardinality(1..n) = 0
    BY FS_Interval
  <2>3. n # 0 => Cardinality(1..n) = n - 1 + 1
    BY FS_Interval
  <2> QED
    BY <1>1, <2>1, <2>2, <2>3
<1> HIDE DEF f, D
<1>4. f \in Injection(D, Names)
  BY <1>1, <1>2, <1>3, FS_Surjection
<1>5. \A v, w \in D : f[v] = f[w] => v = w
  BY <1>4 DEF Injection, IsInjective
<1> QED
  BY <1>5 DEF f, D

-----------------------------------------------------------------------------
BuildInv ==
  /\ BuildTypes
  /\ plan.ok => plan.done
  /\ plan.ok => BarrierIn(plan.nodes) /\ PairedIn(plan.nodes) /\ SharedIn(plan.nodes)

LEMMA BuildInvInit == BuildInit => BuildInv
<1> SUFFICES ASSUME BuildInit PROVE BuildInv
  OBVIOUS
<1>1. workflows = <<>> /\ ~plan.ok
  BY DEF BuildInit, Unbuilt
<1>2. workflows \in Seq({}) /\ DOMAIN workflows = {}
  BY <1>1
<1> QED
  BY <1>1, <1>2 DEF BuildInv, BuildTypes

\* A declaration adds to the builders.
LEMMA WorkflowTypes ==
  ASSUME BuildTypes, NEW name, NEW needs, Workflow(name, needs)
  PROVE  BuildTypes'
<1> DEFINE r == [name |-> name, needs |-> needs, steps |-> <<>>, expansions |-> <<>>]
<1>1. PICK S : workflows \in Seq(S)
  BY DEF BuildTypes
<1>2. workflows' = Append(workflows, r)
  BY DEF Workflow
<1>3. r = [name |-> r.name, needs |-> r.needs, steps |-> r.steps, expansions |-> r.expansions]
  OBVIOUS
<1>4. r.steps = <<>> /\ r.expansions = <<>>
  OBVIOUS
<1> HIDE DEF r
<1>5. workflows' \in Seq(S \cup {r})
  BY <1>1, <1>2
<1>6. \A w \in DOMAIN workflows' : (w \in DOMAIN workflows /\ workflows'[w] = workflows[w]) \/ workflows'[w] = r
  BY <1>1, <1>2
<1>7. ASSUME NEW w \in DOMAIN workflows' PROVE BuilderIs(workflows'[w])
  <2>1. CASE w \in DOMAIN workflows /\ workflows'[w] = workflows[w]
    BY <2>1 DEF BuildTypes
  <2>2. CASE workflows'[w] = r
    <3>1. <<>> \in Seq({}) /\ DOMAIN <<>> = {}
      OBVIOUS
    <3> QED
      BY <1>3, <1>4, <2>2, <3>1 DEF BuilderIs
  <2> QED
    BY <1>6, <2>1, <2>2
<1> QED
  BY <1>5, <1>7 DEF BuildTypes

LEMMA StepTypes ==
  ASSUME BuildTypes, NEW w \in DOMAIN workflows, NEW id, NEW needs, NEW handlers, Step(w, id, needs, handlers)
  PROVE  BuildTypes'
<1> DEFINE s == [id |-> <<id, "">>, needs |-> needs, handlers |-> handlers]
           old == workflows[w]
           new == [old EXCEPT !.steps = Append(@, s)]
<1>1. PICK S : workflows \in Seq(S)
  BY DEF BuildTypes
<1>2. workflows' = [workflows EXCEPT ![w] = new]
  BY DEF Step
<1>3. s.id[2] = ""
  OBVIOUS
<1>4. old = [name |-> old.name, needs |-> old.needs, steps |-> old.steps, expansions |-> old.expansions]
  BY DEF BuildTypes, BuilderIs
<1> HIDE DEF s, old
<1>5. /\ new.name = old.name /\ new.needs = old.needs /\ new.expansions = old.expansions
      /\ new.steps = Append(old.steps, s)
      /\ new = [name |-> new.name, needs |-> new.needs, steps |-> new.steps, expansions |-> new.expansions]
  BY <1>4
<1> HIDE DEF new
<1>6. PICK T : old.steps \in Seq(T)
  BY DEF BuildTypes, BuilderIs, old
<1>7. new.steps \in Seq(T \cup {s})
  BY <1>5, <1>6
<1>8. \A i \in DOMAIN old.steps : old.steps[i].id[2] = ""
  BY DEF BuildTypes, BuilderIs, old
<1>9. \A i \in DOMAIN new.steps : new.steps[i].id[2] = ""
  <2>1. \A i \in DOMAIN new.steps : (i \in DOMAIN old.steps /\ new.steps[i] = old.steps[i]) \/ new.steps[i] = s
    BY <1>5, <1>6
  <2> QED
    BY <1>3, <1>8, <2>1
<1>10. (\E U : new.expansions \in Seq(U)) /\ \A x \in DOMAIN new.expansions : new.expansions[x].buckets \in Buckets
  BY <1>5 DEF BuildTypes, BuilderIs, old
<1>11. workflows' \in Seq(S \cup {new})
  BY <1>1, <1>2
<1>12. DOMAIN workflows' = DOMAIN workflows /\ \A v \in DOMAIN workflows : workflows'[v] = IF v = w THEN new ELSE workflows[v]
  BY <1>1, <1>2
<1>13. ASSUME NEW v \in DOMAIN workflows PROVE BuilderIs(workflows'[v])
  <2>1. CASE v = w
    <3>1. BuilderIs(new)
      BY <1>5, <1>7, <1>9, <1>10 DEF BuilderIs
    <3> QED
      BY <1>12, <2>1, <3>1
  <2>2. CASE v # w
    BY <1>12, <2>2 DEF BuildTypes
  <2> QED
    BY <2>1, <2>2
<1> QED
  BY <1>11, <1>12, <1>13 DEF BuildTypes

LEMMA ExpandTypes ==
  ASSUME BuildTypes, NEW w \in DOMAIN workflows, NEW id, NEW change, NEW buckets \in Buckets,
         NEW needs, NEW each, Expand(w, id, change, buckets, needs, each)
  PROVE  BuildTypes'
<1> DEFINE s == [id |-> id, change |-> change, buckets |-> buckets, needs |-> needs, each |-> each]
           old == workflows[w]
           new == [old EXCEPT !.expansions = Append(@, s)]
<1>1. PICK S : workflows \in Seq(S)
  BY DEF BuildTypes
<1>2. workflows' = [workflows EXCEPT ![w] = new]
  BY DEF Expand
<1>3. s.buckets \in Buckets
  OBVIOUS
<1>4. old = [name |-> old.name, needs |-> old.needs, steps |-> old.steps, expansions |-> old.expansions]
  BY DEF BuildTypes, BuilderIs
<1> HIDE DEF s, old
<1>5. /\ new.name = old.name /\ new.needs = old.needs /\ new.steps = old.steps
      /\ new.expansions = Append(old.expansions, s)
      /\ new = [name |-> new.name, needs |-> new.needs, steps |-> new.steps, expansions |-> new.expansions]
  BY <1>4
<1> HIDE DEF new
<1>6. PICK T : old.expansions \in Seq(T)
  BY DEF BuildTypes, BuilderIs, old
<1>7. new.expansions \in Seq(T \cup {s})
  BY <1>5, <1>6
<1>8. \A i \in DOMAIN old.expansions : old.expansions[i].buckets \in Buckets
  BY DEF BuildTypes, BuilderIs, old
<1>9. \A i \in DOMAIN new.expansions : new.expansions[i].buckets \in Buckets
  <2>1. \A i \in DOMAIN new.expansions : (i \in DOMAIN old.expansions /\ new.expansions[i] = old.expansions[i]) \/ new.expansions[i] = s
    BY <1>5, <1>6
  <2> QED
    BY <1>3, <1>8, <2>1
<1>10. (\E U : new.steps \in Seq(U)) /\ \A i \in DOMAIN new.steps : new.steps[i].id[2] = ""
  BY <1>5 DEF BuildTypes, BuilderIs, old
<1>11. workflows' \in Seq(S \cup {new})
  BY <1>1, <1>2
<1>12. DOMAIN workflows' = DOMAIN workflows /\ \A v \in DOMAIN workflows : workflows'[v] = IF v = w THEN new ELSE workflows[v]
  BY <1>1, <1>2
<1>13. ASSUME NEW v \in DOMAIN workflows PROVE BuilderIs(workflows'[v])
  <2>1. CASE v = w
    <3>1. BuilderIs(new)
      BY <1>5, <1>7, <1>9, <1>10 DEF BuilderIs
    <3> QED
      BY <1>12, <2>1, <3>1
  <2>2. CASE v # w
    BY <1>12, <2>2 DEF BuildTypes
  <2> QED
    BY <2>1, <2>2
<1> QED
  BY <1>11, <1>12, <1>13 DEF BuildTypes

\* Build accepts what is ordered, or refuses.
LEMMA BuildIs ==
  ASSUME BuildInv, Build
  PROVE  BuildInv'
<1>1. workflows' = workflows
  BY DEF Build
<1>2. BuildTypes /\ BuildTypes'
  BY <1>1 DEF BuildInv, BuildTypes
<1>3. CASE plan' = BuildRefused
  <2>1. ~plan'.ok
    BY <1>3 DEF BuildRefused, Unbuilt
  <2> QED
    BY <1>2, <2>1 DEF BuildInv
<1>4. CASE plan' # BuildRefused
  <2> DEFINE Stage4(lowered, nodes) == plan' = IF Validated(nodes) THEN [ok |-> TRUE, done |-> TRUE, nodes |-> nodes] ELSE BuildRefused
             Stage3(lowered) == \E nodes \in {UNION {lowerWorkflowNeeds(w, lowered) : w \in DOMAIN workflows}} : Stage4(lowered, nodes)
             Unfit(all) == EachRefused \/ ~checkWorkflowNames(all) \/ ~checkWorkflowNeeds \/ ~checkHandlerIDs(all)
             Stage2(children, flat, all) ==
               IF Unfit(all) THEN plan' = BuildRefused
               ELSE \E lowered \in {[w \in DOMAIN workflows |->
                                      [i \in DOMAIN flat[w] |-> WithEach(flat[w][i], children)]]} : Stage3(lowered)
             Stage1(children, flat) ==
               \E all \in {[p \in UNION {{w} \X DOMAIN flat[w] : w \in DOMAIN workflows} |-> flat[p[1]][p[2]]]} :
                 Stage2(children, flat, all)
             Stage0(children) == \E flat \in {[w \in DOMAIN workflows |-> Resolved(w, children)]} : Stage1(children, flat)
  <2>1. PICK children \in {[p \in Expansions |-> resolveRef(Expansion(p))]} : Stage0(children)
    BY DEF Build
  <2>2. PICK flat \in {[w \in DOMAIN workflows |-> Resolved(w, children)]} : Stage1(children, flat)
    BY <2>1
  <2>3. PICK all : Stage2(children, flat, all)
    BY <2>2
  <2>4. ~Unfit(all)
    BY <1>4, <2>3
  <2>5. PICK lowered \in {[w \in DOMAIN workflows |->
                            [i \in DOMAIN flat[w] |-> WithEach(flat[w][i], children)]]} : Stage3(lowered)
    BY <2>3, <2>4
  <2>6. PICK nodes \in {UNION {lowerWorkflowNeeds(w, lowered) : w \in DOMAIN workflows}} : Stage4(lowered, nodes)
    BY <2>5
  <2>7. Validated(nodes) /\ plan' = [ok |-> TRUE, done |-> TRUE, nodes |-> nodes]
    BY <1>4, <2>6
  <2>8. ~EachRefused /\ Cardinality(Names) = Len(workflows) /\ checkWorkflowNeeds
    BY <2>4 DEF checkWorkflowNames
  <2>9. Stages(children, lowered, nodes)
    <3>1. lowered = [w \in DOMAIN workflows |->
                       [i \in DOMAIN Resolved(w, children) |-> WithEach(Resolved(w, children)[i], children)]]
      <4>1. \A w \in DOMAIN workflows : flat[w] = Resolved(w, children)
        OBVIOUS
      <4> QED
        BY <4>1
    <3> QED
      BY <3>1 DEF Stages
  <2>10. \A w \in DOMAIN workflows : workflows[w].needs \subseteq Names
    BY <2>8 DEF checkWorkflowNeeds
  <2>11. \A v, w \in DOMAIN workflows : workflows[v].name = workflows[w].name => v = w
    BY <1>2, <2>8, NamesAreOwn
  <2>12. BarrierIn(nodes)
    <3>1. IsFiniteSet(nodes)
      BY <1>2, <2>9, NodesAre
    <3>2. LoweredTo(lowered, nodes)
      BY <2>9 DEF Stages, LoweredTo
    <3> QED
      BY <2>7, <2>10, <2>11, <3>1, <3>2, BarrierOf
  <2>13. PairedIn(nodes) /\ SharedIn(nodes)
    BY <1>2, <2>7, <2>8, <2>9, PairedOf, SharedOf
  <2>14. plan'.ok /\ plan'.done /\ plan'.nodes = nodes
    BY <2>7
  <2>15. BarrierIn(plan'.nodes) /\ PairedIn(plan'.nodes) /\ SharedIn(plan'.nodes)
    BY <2>12, <2>13, <2>14
  <2>16. BarrierIn(plan.nodes)'
    BY <1>1, <2>15 DEF BarrierIn, WorkflowOf
  <2>17. PairedIn(plan.nodes)'
    BY <2>15 DEF PairedIn, KidsOf
  <2>18. SharedIn(plan.nodes)'
    <3>1. Expansions' = Expansions /\ \A q : Expansion(q)' = Expansion(q)
      BY <1>1 DEF Expansions, Expansion
    <3> QED
      BY <2>15, <3>1 DEF SharedIn, KidsOf
  <2> QED
    BY <1>2, <2>14, <2>16, <2>17, <2>18 DEF BuildInv
<1> QED
  BY <1>3, <1>4

LEMMA BuildInvStep == BuildInv /\ [BuildNext]_buildVars => BuildInv'
<1> SUFFICES ASSUME BuildInv, [BuildNext]_buildVars PROVE BuildInv'
  OBVIOUS
<1>0. BuildTypes
  BY DEF BuildInv
<1>1. ASSUME ~plan.done, plan' = plan, BuildTypes' PROVE BuildInv'
  BY <1>1 DEF BuildInv
<1>2. ASSUME NEW name, NEW needs, Workflow(name, needs) PROVE BuildInv'
  <2>1. BuildTypes'
    BY <1>0, <1>2, WorkflowTypes
  <2>2. ~plan.done /\ plan' = plan
    BY <1>2 DEF Workflow
  <2> QED
    BY <1>1, <2>1, <2>2
<1>3. ASSUME NEW w \in DOMAIN workflows, NEW id, NEW needs, NEW handlers, Step(w, id, needs, handlers) PROVE BuildInv'
  <2>1. BuildTypes'
    BY <1>0, <1>3, StepTypes
  <2>2. ~plan.done /\ plan' = plan
    BY <1>3 DEF Step
  <2> QED
    BY <1>1, <2>1, <2>2
<1>4. ASSUME NEW w \in DOMAIN workflows, NEW id, NEW change, NEW buckets \in Buckets, NEW needs, NEW each,
             Expand(w, id, change, buckets, needs, each)
      PROVE  BuildInv'
  <2>1. BuildTypes'
    BY <1>0, <1>4, ExpandTypes
  <2>2. ~plan.done /\ plan' = plan
    BY <1>4 DEF Expand
  <2> QED
    BY <1>1, <2>1, <2>2
<1>5. CASE Build
  BY <1>5, BuildIs
<1>6. CASE UNCHANGED buildVars
  <2>1. workflows' = workflows /\ plan' = plan
    BY <1>6 DEF buildVars
  <2>2. BuildTypes'
    BY <1>0, <2>1 DEF BuildTypes
  <2>3. BarrierIn(plan.nodes) => BarrierIn(plan.nodes)'
    BY <2>1 DEF BarrierIn, WorkflowOf
  <2>4. PairedIn(plan.nodes) => PairedIn(plan.nodes)'
    BY <2>1 DEF PairedIn, KidsOf
  <2>5. SharedIn(plan.nodes) => SharedIn(plan.nodes)'
    <3>1. Expansions' = Expansions /\ \A q : Expansion(q)' = Expansion(q)
      BY <2>1 DEF Expansions, Expansion
    <3> QED
      BY <2>1, <3>1 DEF SharedIn, KidsOf
  <2> QED
    BY <2>1, <2>2, <2>3, <2>4, <2>5 DEF BuildInv
<1> QED
  BY <1>2, <1>3, <1>4, <1>5, <1>6 DEF BuildNext

LEMMA BuildInvShows == BuildInv => BarrierHolds /\ EveryUnitOrdered
<1> SUFFICES ASSUME BuildInv, plan.ok PROVE BarrierHolds /\ EveryUnitOrdered
  BY DEF BarrierHolds, EveryUnitOrdered
<1>1. BarrierIn(plan.nodes) /\ PairedIn(plan.nodes) /\ SharedIn(plan.nodes)
  BY DEF BuildInv
<1>2. \A x : ChildrenOf(x) = KidsOf(x, plan.nodes)
  BY DEF ChildrenOf, KidsOf
<1>3. BarrierHolds
  BY <1>1 DEF BarrierHolds, BarrierIn, AncestorsOf
<1>4. ASSUME NEW n \in plan.nodes, NEW x \in n.each, NEW u \in n.units
      PROVE  LET there == ChildrenOf(x)
                 cover == {m \in there : u \in m.units}
             IN {m.id : m \in IF cover = {} THEN there ELSE cover} \subseteq n.needs
  <2>1. \A m \in KidsOf(x, plan.nodes) :
          u \in m.units \/ (\A k \in KidsOf(x, plan.nodes) : u \notin k.units) => m.id \in n.needs
    BY <1>1 DEF PairedIn
  <2> QED
    BY <1>2, <2>1
<1>5. EveryUnitOrdered
  BY <1>1, <1>2, <1>4 DEF EveryUnitOrdered, SharedIn
<1> QED
  BY <1>3, <1>5

\* A workflow that needs another starts none of its steps before every step of
\* the other, and every selected unit is covered once and ordered after its
\* counterparts, in every plan Build accepts.
THEOREM ThePlanIsOrdered == BuildSpec => [](BarrierHolds /\ EveryUnitOrdered)
<1>1. BuildSpec => []BuildInv
  BY BuildInvInit, BuildInvStep, PTL DEF BuildSpec
<1> QED
  BY <1>1, BuildInvShows, PTL

-----------------------------------------------------------------------------
(* What validation accepts.                                                *)

PlanMounts == [name : DOMAIN ScopeOf \cup Caches, at : Paths, mode : {"ro", "rw"}]
DraftIs(n) == n.mounts \in Seq(PlanMounts) /\ Len(n.mounts) <= 2

\* An attempt is one of an accepted step, and the engine failed it when it wrote
\* to a mount it may only read, or left a tree the check compares changed.
DriftKept ==
  /\ DOMAIN draft = Both /\ \A n \in Both : DOMAIN draft[n] = DOMAIN Blank /\ DraftIs(draft[n])
  /\ attempt.of # Unset => verdict = "accepted"
  /\ verdict = "accepted" => validateCheckGenerated(draft["p"]) /\ validateCheckGeneratedStorage(draft["p"])
  /\ attempt.of = "p" =>
       (attempt.failed <=> \/ WroteReadOnly(draft["p"], attempt.wrote)
                           \/ Has(draft["p"], "checkGenerated") /\ Drifted(draft["p"], attempt.wrote))

\* The last mount of a workspace that is mounted twice: there is one.
LEMMA LastMount ==
  ASSUME NEW ms \in Seq(PlanMounts), Len(ms) <= 2, NEW w, NEW k \in DOMAIN ms, ms[k].name = w
  PROVE  \E i \in DOMAIN ms : ms[i].name = w /\ \A j \in DOMAIN ms : ms[j].name = w => j <= i
<1>1. DOMAIN ms = 1..Len(ms) /\ Len(ms) \in Nat
  OBVIOUS
<1>2. DOMAIN ms = 1..Len(ms) /\ Len(ms) \in 0..2
  BY <1>1
<1>3. k \in 1..2 /\ DOMAIN ms \subseteq 1..2
  BY <1>2
<1>4. CASE 2 \in DOMAIN ms /\ ms[2].name = w
  <2>1. \A j \in DOMAIN ms : ms[j].name = w => j <= 2
    BY <1>3
  <2> QED
    BY <1>4, <2>1
<1>5. CASE ~(2 \in DOMAIN ms /\ ms[2].name = w)
  <2>1. k = 1
    BY <1>3, <1>5
  <2>2. \A j \in DOMAIN ms : ms[j].name = w => j <= 1
    BY <1>3, <1>5
  <2> QED
    BY <2>1, <2>2
<1> QED
  BY <1>4, <1>5

\* A workspace that was measured is measured under every mount of its name, and
\* a change of it is a breach of the last of them or a drift.
LEMMA ChangeIsSeen ==
  ASSUME NEW n, DraftIs(n), NEW wrote, NEW m \in Snapshotted(n), m.name \in wrote
  PROVE  WroteReadOnly(n, wrote) \/ Drifted(n, wrote)
<1>1. PICK k \in DOMAIN n.mounts : n.mounts[k] = m
  BY DEF Snapshotted, Mounts
<1> DEFINE last == CHOOSE i \in DOMAIN n.mounts :
                     /\ n.mounts[i].name = m.name
                     /\ \A j \in DOMAIN n.mounts : n.mounts[j].name = m.name => j <= i
<1>2. last \in DOMAIN n.mounts /\ n.mounts[last].name = m.name
  <2>1. \E i \in DOMAIN n.mounts : /\ n.mounts[i].name = m.name
                                  /\ \A j \in DOMAIN n.mounts : n.mounts[j].name = m.name => j <= i
    BY <1>1, LastMount DEF DraftIs
  <2> QED
    BY <2>1
<1> HIDE DEF last
<1>3. n.mounts[last] \in PlanMounts
  BY <1>2 DEF DraftIs
<1>4. n.mounts[last] \in Snapshotted(n)
  BY <1>2 DEF Snapshotted, Mounts, IsWorkspace, IsClaimed
<1>5. CASE n.mounts[last].mode = "rw"
  <2>1. n.mounts[last].mode = "rw" /\ m.name \in wrote
    BY <1>5
  <2> QED
    BY <2>1 DEF Drifted, last
<1>6. CASE n.mounts[last].mode = "ro"
  BY <1>2, <1>4, <1>6 DEF WroteReadOnly
<1> QED
  BY <1>3, <1>5, <1>6 DEF PlanMounts

LEMMA DriftIsSeen == DriftKept => DriftIsCaught
<1> SUFFICES ASSUME DriftKept, Has(draft["p"], "checkGenerated"), verdict = "accepted"
             PROVE  /\ \E m \in Snapshotted(draft["p"]) : m.mode = "rw"
                    /\ (attempt.of = "p" /\ attempt.wrote \cap {m.name : m \in Snapshotted(draft["p"])} # {})
                         => attempt.failed
  BY DEF DriftIsCaught
<1>1. \E m \in Snapshotted(draft["p"]) : m.mode = "rw"
  BY DEF DriftKept, validateCheckGenerated, validateCheckGeneratedStorage, Snapshotted, Has
<1>2. ASSUME attempt.of = "p", attempt.wrote \cap {m.name : m \in Snapshotted(draft["p"])} # {}
      PROVE  attempt.failed
  <2>1. PICK m \in Snapshotted(draft["p"]) : m.name \in attempt.wrote
    BY <1>2
  <2>2. DraftIs(draft["p"])
    BY DEF DriftKept, Both
  <2>3. WroteReadOnly(draft["p"], attempt.wrote) \/ Drifted(draft["p"], attempt.wrote)
    BY <2>1, <2>2, ChangeIsSeen
  <2> QED
    BY <1>2, <2>3 DEF DriftKept
<1> QED
  BY <1>1, <1>2

LEMMA DriftStarts == PlanCheckInit => DriftKept
<1> SUFFICES ASSUME PlanCheckInit PROVE DriftKept
  OBVIOUS
<1>1. DOMAIN draft = Both /\ \A n \in Both : draft[n] = Blank
  BY DEF PlanCheckInit
<1>2. Blank.mounts = <<>> /\ DraftIs(Blank)
  BY DEF Blank, DraftIs
<1>3. attempt.of = Unset /\ verdict = Unset /\ Unset # "accepted" /\ Unset # "p"
  BY DEF PlanCheckInit, Unset
<1> QED
  BY <1>1, <1>2, <1>3 DEF DriftKept

\* A declaration is made before the verdict.
LEMMA DeclaringKeeps ==
  ASSUME DriftKept, verdict = Unset, verdict' = verdict, attempt' = attempt,
         DOMAIN draft' = Both, \A n \in Both : DOMAIN draft'[n] = DOMAIN Blank /\ DraftIs(draft'[n])
  PROVE  DriftKept'
<1>1. verdict' # "accepted" /\ attempt'.of = Unset /\ Unset # "p"
  BY DEF DriftKept, Unset
<1>2. attempt.of = Unset
  BY <1>1
<1> QED
  BY <1>1, <1>2 DEF DriftKept

LEMMA DriftSteps == DriftKept /\ [PlanCheckNext]_planVars => DriftKept'
<1> SUFFICES ASSUME DriftKept, [PlanCheckNext]_planVars PROVE DriftKept'
  OBVIOUS
<1>t. /\ DOMAIN draft = Both /\ \A n \in Both : DOMAIN draft[n] = DOMAIN Blank /\ DraftIs(draft[n])
      /\ "p" \in Both /\ "q" \in Both
  BY DEF DriftKept, Both
<1>1. ASSUME NEW f \in StepFlags, SetFlag(f) PROVE DriftKept'
  <2>1. DOMAIN draft' = Both /\ \A n \in Both : DOMAIN draft'[n] = DOMAIN Blank /\ draft'[n].mounts = draft[n].mounts
    BY <1>1, <1>t DEF SetFlag, Blank
  <2> QED
    BY <1>1, <1>t, <2>1, DeclaringKeeps DEF SetFlag, Called, DraftIs
<1>2. ASSUME NEW n \in Both, NEW t \in Targets, On(n, t) PROVE DriftKept'
  <2>1. DOMAIN draft' = Both /\ \A k \in Both : DOMAIN draft'[k] = DOMAIN Blank /\ draft'[k].mounts = draft[k].mounts
    BY <1>2, <1>t DEF On, Blank
  <2> QED
    BY <1>2, <1>t, <2>1, DeclaringKeeps DEF On, Called, DraftIs
<1>3. ASSUME NEW path \in Paths, WorkDir(path) PROVE DriftKept'
  <2>1. DOMAIN draft' = Both /\ \A n \in Both : DOMAIN draft'[n] = DOMAIN Blank /\ draft'[n].mounts = draft[n].mounts
    BY <1>3, <1>t DEF WorkDir, Blank
  <2> QED
    BY <1>3, <1>t, <2>1, DeclaringKeeps DEF WorkDir, Called, DraftIs
<1>4. ASSUME NEW n \in Both, NEW name \in DOMAIN ScopeOf \cup Caches, NEW path \in Paths, NEW mode \in {"ro", "rw"},
             MountAt(n, name, path, mode)
      PROVE  DriftKept'
  <2> DEFINE m == [name |-> name, at |-> path, mode |-> mode]
  <2>1. m \in PlanMounts
    BY <1>4 DEF PlanMounts
  <2> HIDE DEF m
  <2>2. /\ DOMAIN draft' = Both /\ \A k \in Both : DOMAIN draft'[k] = DOMAIN Blank
        /\ draft'[n].mounts = Append(draft[n].mounts, m)
        /\ \A k \in Both \ {n} : draft'[k] = draft[k]
    BY <1>4, <1>t DEF MountAt, Blank, m
  <2>3. draft[n].mounts \in Seq(PlanMounts) /\ Len(draft[n].mounts) < 2
    BY <1>4, <1>t DEF DraftIs, MountAt
  <2>4. DraftIs(draft'[n])
    BY <2>1, <2>2, <2>3 DEF DraftIs
  <2>5. \A k \in Both : DraftIs(draft'[k])
    BY <1>t, <2>2, <2>4
  <2> QED
    BY <1>4, <2>2, <2>5, DeclaringKeeps DEF MountAt, Called
<1>5. ASSUME Needs PROVE DriftKept'
  <2>1. DOMAIN draft' = Both /\ \A n \in Both : DOMAIN draft'[n] = DOMAIN Blank /\ draft'[n].mounts = draft[n].mounts
    BY <1>5, <1>t DEF Needs, Blank
  <2> QED
    BY <1>5, <1>t, <2>1, DeclaringKeeps DEF Needs, Called, DraftIs
<1>6. ASSUME Validate PROVE DriftKept'
  <2>1. draft' = draft /\ attempt' = attempt /\ attempt.of = Unset /\ Unset # "p"
    BY <1>6 DEF Validate, DriftKept, Unset
  <2>2. verdict' = "accepted" => validateCheckGenerated(draft["p"]) /\ validateCheckGeneratedStorage(draft["p"])
    BY <1>6, <1>t DEF Validate, Accepts, nodeShape, validateNodeStorage
  <2> QED
    BY <1>t, <2>1, <2>2 DEF DriftKept, validateCheckGenerated, validateCheckGeneratedStorage
<1>7. ASSUME NEW wrote \in SUBSET DOMAIN ScopeOf, RunAttempt(wrote) PROVE DriftKept'
  <2>1. draft' = draft /\ verdict' = verdict /\ verdict = "accepted" /\ attempt'.wrote = wrote
    BY <1>7 DEF RunAttempt
  <2>2. attempt'.failed <=> \/ WroteReadOnly(draft["p"], wrote)
                            \/ Has(draft["p"], "checkGenerated") /\ Drifted(draft["p"], wrote)
    BY <1>7 DEF RunAttempt
  <2>3. validateCheckGenerated(draft["p"]) /\ validateCheckGeneratedStorage(draft["p"])
    BY <2>1 DEF DriftKept
  <2> QED
    BY <1>t, <2>1, <2>2, <2>3 DEF DriftKept
<1>8. CASE UNCHANGED planVars
  BY <1>8 DEF planVars, DriftKept
<1> QED
  BY <1>1, <1>2, <1>3, <1>4, <1>5, <1>6, <1>7, <1>8, <1>t DEF PlanCheckNext

\* A step that declares CheckGenerated, is accepted and leaves a tree changed
\* that the engine measured does not pass, and there is such a tree: however its
\* workspaces are mounted, scoped, claimed or repeated, for any workspaces, caches
\* and paths (validateCheckGenerated, snapshotMounts and checkGenerated).
THEOREM DriftNeverPasses == PlanCheckSpec => []DriftIsCaught
<1> QED
  BY DriftStarts, DriftSteps, DriftIsSeen, PTL DEF PlanCheckSpec

-----------------------------------------------------------------------------
(* A plan that was accepted or spliced can be run as it was meant, for any *)
(* workflows, steps, expansions, units and histories, any fragments and    *)
(* any sequence of runs, retries and reruns: the live graph has no cycle   *)
(* and no missing need, a generator's dependents wait for the boundary of  *)
(* what it spliced, every step of a workflow waits for every step of the   *)
(* workflows it needs, every unit is covered once and waits for its        *)
(* counterparts, and a declared drift check compares something             *)
(* (generate.go:83, senro.go:1258, senro.go:960, validate.go:1034).        *)
THEOREM ThePlanIsSound ==
  GenerateSpec /\ BuildSpec /\ PlanCheckSpec => []PlanIsSound
<1>1. (LiveGraphSound /\ BoundaryIsWaitedFor) /\ (BarrierHolds /\ EveryUnitOrdered) /\ DriftIsCaught => PlanIsSound
  BY DEF PlanIsSound
<1> QED
  BY <1>1, TheLiveGraphIsSound, ThePlanIsOrdered, DriftNeverPasses, PTL
=============================================================================
