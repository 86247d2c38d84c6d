------------------------------ MODULE Trigger ------------------------------
(***************************************************************************)
(* From a webhook to a decision: the delivery a source sends of something  *)
(* that happened to a repository, which source and how it is verified, its *)
(* payload parsed into the neutral Event, and Select over the declared     *)
(* triggers. What happened is kept, so that the decision can be compared   *)
(* with what the triggers' words mean for it.                              *)
(***************************************************************************)
EXTENDS Naturals, Sequences, SequencesExt

CONSTANTS
  Files,       \* the paths a commit may touch
  MaxCommits,  \* bound on the commits of one push
  CommitCap,   \* how many of them GitLab and Gitea send
  Versions,    \* the tags: versions <<major, minor, patch, pre>>, or "latest"
  Declared     \* the lists of triggers a pipeline may declare

VARIABLES happened, delivery, intake, event, outcome

triggerVars == <<happened, delivery, intake, event, outcome>>

Sources == {"github", "gitlab", "bitbucket", "gitea"}

-----------------------------------------------------------------------------
(* The world, and the deliveries each source makes of it.                  *)

Pushed == [what : {"branch"}, ref : {"created", "moved", "deleted"}, main : BOOLEAN,
           commits : UNION {[1..n -> SUBSET Files] : n \in 0..MaxCommits}]
Tagged == [what : {"tag"}, ref : {"created", "moved", "deleted"}, tag : Versions, commits : {<<>>}]
Requested == [what : {"pr"}, action : {"opened", "closed"}, main : BOOLEAN, commits : {<<>>}]

Commit(null) == IF null THEN "0000" ELSE "sha"
Cut(s, n) == SubSeq(s, 1, IF n < Len(s) THEN n ELSE Len(s))

\* The payload: which of its parts each source sends. GitHub sends a deleted
\* flag and every commit, GitLab and Gitea a count and the first commits,
\* Bitbucket the two ends of the ref and no commits.
Payload(src, h) ==
  IF h.what = "pr" THEN [object |-> "pr", action |-> h.action, main |-> h.main]
  ELSE [object |-> h.what,
        tag |-> IF h.what = "tag" THEN h.tag ELSE "",
        main |-> h.what = "branch" /\ h.main,
        deleted |-> src = "github" /\ h.ref = "deleted",
        before |-> Commit(h.ref = "created"), after |-> Commit(h.ref = "deleted"),
        commits |-> IF src \in {"gitlab", "gitea"} THEN Cut(h.commits, CommitCap) ELSE IF src = "github" THEN h.commits ELSE <<>>,
        total |-> Len(h.commits)]

\* Gitea also names its events in GitHub's header, and may tell of a new tag
\* with an event of its own.
Headers(src) == IF src = "gitea" THEN {"gitea", "github"} ELSE {src}
Events(src, h) == IF h.what = "pr" THEN {"pull_request"}
                  ELSE {"push"} \union (IF src = "gitea" /\ h.ref = "created" THEN {"create"} ELSE {})

TriggerInit ==
  /\ happened \in Pushed \union Tagged \union Requested
  /\ \E src \in Sources, signed \in BOOLEAN, secret \in BOOLEAN, ts \in Declared : \E e \in Events(src, happened) :
       delivery = [headers |-> Headers(src), from |-> src, event |-> e, signed |-> signed, secret |-> secret,
                   payload |-> Payload(src, happened), triggers |-> ts]
  /\ intake = "request" /\ event = <<>> /\ outcome = "none"

-----------------------------------------------------------------------------
(* FromRequest.                                                            *)

\* Mutant: GitHub's header is looked for first.
GitHubFirst(headers) == IF "github" \in headers THEN "github" ELSE CHOOSE s \in headers : TRUE

\* Gitea's own header comes first: it sends GitHub's as well.
sourceOf(headers) == IF "gitea" \in headers THEN "gitea" ELSE CHOOSE s \in headers : TRUE

\* Bitbucket signs nothing, so a secret refuses all it sends.
verify(src, d) == src # "bitbucket" /\ d.signed

\* With a secret the delivery is verified; without one the caller said Unverified.
FromRequest ==
  /\ intake = "request" /\ UNCHANGED <<happened, delivery, event>>
  /\ IF delivery.secret /\ ~verify(sourceOf(delivery.headers), delivery)
     THEN intake' = "done" /\ outcome' = "unsigned"
     ELSE intake' = "parse" /\ UNCHANGED outcome

-----------------------------------------------------------------------------
(* The providers' parsers. Files is {} when nothing changed, and NoFiles    *)
(* when the source did not say.                                             *)

NoFiles == {"the source did not say"}
RefusedEvent == [kind |-> "refused"]
realSHA(sha) == IF sha = "0000" THEN "" ELSE sha
isNullSHA(sha) == sha = "0000"
changedFiles(commits) == UNION {commits[i] : i \in DOMAIN commits}

\* Mutant: what was sent is taken for everything.
SentFiles(total, commits) == changedFiles(commits)
untruncatedFiles(total, commits) == IF total > Len(commits) THEN NoFiles ELSE changedFiles(commits)

Parsed(p, deleted, files, default) ==
  [kind |-> IF p.object = "branch" THEN "push" ELSE "tag", main |-> p.main, default |-> default, tag |-> p.tag, action |-> "",
   deleted |-> deleted, files |-> files, from |-> realSHA(p.before), to |-> realSHA(p.after)]
ParsedRequest(p, default) ==
  [kind |-> "pull_request", main |-> p.main, default |-> default, tag |-> "", action |-> p.action,
   deleted |-> FALSE, files |-> NoFiles, from |-> "", to |-> "sha"]

parseGitHub(e, p) ==
  CASE e = "push"         -> Parsed(p, p.deleted, changedFiles(p.commits), TRUE)
    [] e = "pull_request" -> ParsedRequest(p, TRUE)
    [] OTHER              -> RefusedEvent
parseGitLab(e, p) ==
  IF e = "push" THEN Parsed(p, isNullSHA(p.after), untruncatedFiles(p.total, p.commits), TRUE) ELSE ParsedRequest(p, TRUE)
\* The end that is missing says created or deleted; no default branch, no files.
parseBitbucket(e, p) ==
  IF e = "push" THEN Parsed(p, isNullSHA(p.after), NoFiles, FALSE) ELSE ParsedRequest(p, FALSE)
\* A create is read only for a tag: the branch comes as a push too.
parseGitea(e, p) ==
  CASE e = "push"         -> Parsed(p, isNullSHA(p.after), untruncatedFiles(p.total, p.commits), TRUE)
    [] e = "pull_request" -> ParsedRequest(p, TRUE)
    [] e = "create" /\ p.object = "tag" -> [Parsed(p, FALSE, NoFiles, TRUE) EXCEPT !.from = ""]
    [] e = "create" /\ p.object # "tag" -> RefusedEvent

dispatch(src, e, p) ==
  CASE src = "github" -> parseGitHub(e, p) [] src = "gitlab" -> parseGitLab(e, p)
    [] src = "bitbucket" -> parseBitbucket(e, p) [] src = "gitea" -> parseGitea(e, p)

Parse ==
  /\ intake = "parse"
  /\ LET ev == dispatch(sourceOf(delivery.headers), delivery.event, delivery.payload) IN
     IF ev = RefusedEvent THEN intake' = "done" /\ outcome' = "refused" /\ UNCHANGED event
     ELSE intake' = "select" /\ event' = ev /\ UNCHANGED outcome
  /\ UNCHANGED <<happened, delivery>>

-----------------------------------------------------------------------------
(* Versions: <<major, minor, patch, pre>>; an identifier of pre is <<0, n>>  *)
(* when numeric and <<1, n>> otherwise.                                      *)

cmpInt(a, b) == IF a < b THEN 0 ELSE IF a = b THEN 1 ELSE 2
comparePreID(a, b) ==
  CASE a[1] = 0 /\ b[1] = 0 -> cmpInt(a[2], b[2])
    [] a[1] = 0 /\ b[1] = 1 -> 0
    [] a[1] = 1 /\ b[1] = 0 -> 2
    [] a[1] = 1 /\ b[1] = 1 -> cmpInt(a[2], b[2])
\* The first answer that is not equal, in order; equal if there is none.
FirstDifference(answers) ==
  LET i == SelectInSeq(answers, LAMBDA c : c # 1) IN IF i = 0 THEN 1 ELSE answers[i]
comparePre(a, b) ==
  CASE a = <<>> /\ b = <<>> -> 1
    [] a = <<>> /\ b # <<>> -> 2
    [] a # <<>> /\ b = <<>> -> 0
    [] a # <<>> /\ b # <<>> ->
         LET both == IF Len(a) < Len(b) THEN Len(a) ELSE Len(b)
         IN FirstDifference([i \in 1..both |-> comparePreID(a[i], b[i])] \o <<cmpInt(Len(a), Len(b))>>)
compareVersions(a, b) ==
  FirstDifference(<<cmpInt(a[1], b[1]), cmpInt(a[2], b[2]), cmpInt(a[3], b[3]), comparePre(a[4], b[4])>>)
satisfied(op, v, w) ==
  CASE op = ">=" -> compareVersions(v, w) >= 1
    [] op = "<"  -> compareVersions(v, w) = 0
    [] op = "="  -> compareVersions(v, w) = 1

-----------------------------------------------------------------------------
(* Triggers. A predicate is <<name, argument>>; a declaration that makes no  *)
(* sense was noted in err and is reported by Select.                         *)

EventKinds(name) == CASE name = "branches" -> {"push", "pull_request"}
                 [] name = "paths"    -> {"push", "pull_request", "tag"}
                 [] name = "actions"  -> {"pull_request"}
                 [] name = "semver"   -> {"tag"}
newTrigger(kind, preds) == [kind |-> kind, preds |-> preds, err |-> \E i \in DOMAIN preds : kind \notin EventKinds(preds[i][1])]

IsVersion(v) ==
  /\ {v[1], v[2], v[3]} \subseteq Nat /\ v = <<v[1], v[2], v[3], v[4]>>
  /\ v[4] \in Seq({0, 1} \X Nat)
IsPredicate(p) == p[1] \in {"branches", "paths", "actions"} \/ (p[1] = "semver" /\ p[2] \in {">=", "<", "="} /\ IsVersion(p[3]))

\* The words a pipeline may use, and a tag that is no version.
ASSUME TriggerSetting ==
  /\ CommitCap \in Nat /\ MaxCommits \in Nat /\ Files \cap NoFiles = {}
  /\ \A v \in Versions : v # "latest" => IsVersion(v)
  /\ \A ts \in Declared : Len(ts) \in Nat /\ DOMAIN ts = 1..Len(ts) /\ \A i \in DOMAIN ts :
       /\ ts[i] = newTrigger(ts[i].kind, ts[i].preds) /\ ts[i].kind \in {"push", "tag", "pull_request"}
       /\ Len(ts[i].preds) \in Nat /\ DOMAIN ts[i].preds = 1..Len(ts[i].preds)
       /\ \A j \in DOMAIN ts[i].preds : IsPredicate(ts[i].preds[j])

\* TRUE, FALSE or "error": Paths cannot be answered without a list.
match(p, ev) ==
  CASE p[1] = "branches" -> IF ev.main THEN "yes" ELSE "no"
    [] p[1] = "paths"    -> IF ev.files = NoFiles THEN "error" ELSE IF ev.files \intersect p[2] # {} THEN "yes" ELSE "no"
    [] p[1] = "actions"  -> IF ev.action \in p[2] THEN "yes" ELSE "no"
    [] p[1] = "semver"   -> IF ev.tag # "latest" /\ satisfied(p[2], ev.tag, p[3]) THEN "yes" ELSE "no"

\* The predicates are asked in order, up to the first that does not match.
AllMatch(t, ev) ==
  LET i == SelectInSeq(t.preds, LAMBDA p : match(p, ev) # "yes") IN IF i = 0 THEN "yes" ELSE match(t.preds[i], ev)

\* Mutant: a ref that was deleted is matched like any other.
MatchesDeleted(t, ev) == IF ev.kind # t.kind THEN "no" ELSE AllMatch(t, ev)
matches(t, ev) == IF ev.kind # t.kind \/ ev.deleted THEN "no" ELSE AllMatch(t, ev)

modeFor(ev) == IF ev.kind = "pull_request" \/ (ev.kind = "push" /\ ~(ev.default /\ ev.main)) THEN "affected" ELSE "all"

\* Every declaration is checked before any is matched; the first that matches
\* wins, and one that cannot answer is an error.
Select ==
  /\ intake = "select" /\ intake' = "done" /\ UNCHANGED <<happened, delivery, event>>
  /\ LET ts == delivery.triggers
         answer == [i \in DOMAIN ts |-> matches(ts[i], event)]
         first == SelectInSeq(answer, LAMBDA a : a # "no")
     IN outcome' = CASE \E i \in DOMAIN ts : ts[i].err -> "wiring"
                     [] (\A i \in DOMAIN ts : ~ts[i].err) /\ first = 0 -> "nomatch"
                     [] (\A i \in DOMAIN ts : ~ts[i].err) /\ first # 0 -> IF answer[first] = "error" THEN "unanswerable" ELSE modeFor(event)

TriggerNext == FromRequest \/ Parse \/ Select
TriggerSpec == TriggerInit /\ [][TriggerNext]_triggerVars

-----------------------------------------------------------------------------
(* What the words of a trigger mean for what happened.                      *)

\* Semantic-version precedence, by the first place where two versions differ.
PreBelow(a, b) ==
  \/ a # <<>> /\ b = <<>>
  \/ \E i \in 1..Len(b) :
       /\ a # <<>> /\ \A j \in 1..i - 1 : j \in DOMAIN a /\ a[j] = b[j]
       /\ i > Len(a) \/ a[i][1] < b[i][1] \/ (a[i][1] = b[i][1] /\ a[i][2] < b[i][2])
Below(a, b) ==
  \/ \E i \in 1..3 : a[i] < b[i] /\ \A j \in 1..i - 1 : a[j] = b[j]
  \/ (\A i \in 1..3 : a[i] = b[i]) /\ PreBelow(a[4], b[4])

Means(p, h) ==
  CASE p[1] = "branches" -> h.what # "tag" /\ h.main
    [] p[1] = "paths"    -> changedFiles(h.commits) \intersect p[2] # {}
    [] p[1] = "actions"  -> h.what = "pr" /\ h.action \in p[2]
    [] p[1] = "semver"   -> /\ h.what = "tag" /\ h.tag # "latest"
                            /\ CASE p[2] = ">=" -> ~Below(h.tag, p[3]) [] p[2] = "<" -> Below(h.tag, p[3]) [] p[2] = "=" -> h.tag = p[3]
KindOf(h) == CASE h.what = "branch" -> "push" [] h.what = "tag" -> "tag" [] h.what = "pr" -> "pull_request"
Wanted(t, h) == /\ KindOf(h) = t.kind /\ (h.what # "pr" => h.ref # "deleted")
                /\ \A i \in DOMAIN t.preds : Means(t.preds[i], h)

\* Three outcomes, never two: a delivery is a match only if some declared
\* trigger wants what happened, and no match only if none does, whichever
\* source sent it and however much of the push it left out; a question that
\* cannot be answered is an error. A run covers everything only for a tag or a
\* push to the default branch, no event's base is the null commit, and with a
\* secret nothing that is not signed gets as far as a parser (trigger.go
\* Select; github.go untruncatedFiles; request.go FromRequest).
ThreeOutcomes ==
  /\ outcome \in {"all", "affected"} => \E i \in DOMAIN delivery.triggers : Wanted(delivery.triggers[i], happened)
  /\ outcome = "nomatch" => \A i \in DOMAIN delivery.triggers : ~Wanted(delivery.triggers[i], happened)
  /\ outcome = "all" => happened.what = "tag" \/ (happened.what = "branch" /\ happened.main)
  /\ outcome = "unanswerable" => happened.what = "pr" \/ delivery.from = "bitbucket" \/ delivery.event = "create" \/ Len(happened.commits) > CommitCap
  /\ outcome = "refused" => delivery.event = "create" /\ happened.what = "branch"
  /\ event # <<>> => event.from # "0000" /\ event.to # "0000"
  /\ intake \in {"parse", "select"} => ~delivery.secret \/ (delivery.signed /\ delivery.from # "bitbucket")
=============================================================================
