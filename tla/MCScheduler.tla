----------------------------- MODULE MCScheduler -----------------------------
(***************************************************************************)
(* Small plans and request sets for TLC.  Chain: b needs a.  Fork: b needs *)
(* a beside an independent c.  Pair: two independent steps.                *)
(***************************************************************************)
EXTENDS Scheduler

Chain == [a |-> <<>>, b |-> <<"a">>]
ChainRank == [a |-> 0, b |-> 1]
Fork == [a |-> <<>>, b |-> <<"a">>, c |-> <<>>]
ForkRank == [a |-> 0, b |-> 1, c |-> 0]
Pair == [a |-> <<>>, b |-> <<>>]
PairRank == [a |-> 0, b |-> 0]

SucceedOrFail == [n \in Nodes |-> {"succeeded", "failed"}]
AnyOfFirst == [n \in Nodes |-> IF n = "a" THEN AttemptStates ELSE {"succeeded", "failed"}]

Once == [n \in Nodes |-> 1]
FirstTwice == [n \in Nodes |-> IF n = "a" THEN 2 ELSE 1]

Ungrouped == [n \in Nodes |-> "none"]
NoLimit == [g \in {} |-> 1]
AllGrouped == [n \in Nodes |-> "g"]
OneGrouped == [n \in Nodes |-> IF n = "a" THEN "g" ELSE "none"]
OneAtATime == [g |-> 1]

OnSteps(ops) == {[op |-> op, step |-> n] : op \in ops, n \in Nodes}
OnRun(ops) == {[op |-> op, step |-> "a"] : op \in ops}

Rewrites == OnSteps({"step.retry", "step.skip", "run.rerun_from", "ws.snapshot"})
              \cup OnRun({"run.cancel"})
Stops == {[op |-> op, step |-> "b"] :
            op \in {"breakpoint.set", "breakpoint.clear", "run.pause", "run.resume"}}
Retries == OnSteps({"step.retry"})
=============================================================================
