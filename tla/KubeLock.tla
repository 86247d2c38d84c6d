------------------------------ MODULE KubeLock ------------------------------
(***************************************************************************)
(* The cluster lease that excludes runs from one claim-backed workspace    *)
(* (internal/persist/kubelock/kubelock.go over internal/kubeapi/lease.go). *)
(* Each run tries once, renews while it works, and deletes the lease when  *)
(* it is done; the apiserver's resourceVersion decides races.              *)
(*                                                                         *)
(* Time is kept as ages, so no clock bounds the model: the lease's age is  *)
(* the time since its RenewTime.  A resourceVersion is never used twice,   *)
(* so all that matters of a run's copy is whether its version is still the *)
(* object's; fresh is the set of runs for which it is.  Requests of runs   *)
(* outside Slow are answered within MaxLatency, or fail, at most MaxFails  *)
(* times in a row; a run in Slow is suspended or partitioned at will.      *)
(***************************************************************************)
EXTENDS Naturals, FiniteSets

CONSTANTS
    Runs,         \* runs of pipelines that mount the workspace
    Slow,         \* runs whose process or network may stall
    None,         \* no run
    Duration,     \* LeaseDuration, in ticks
    RenewEvery,   \* LeaseRenewInterval, in ticks
    MaxLatency,   \* bound: ticks a request of a healthy run takes
    MaxFails      \* bound: consecutive renewals of a healthy run that fail

ASSUME KubeLockAssumption ==
    /\ Slow \subseteq Runs /\ None \notin Runs
    /\ RenewEvery \in Nat \ {0} /\ Duration \in Nat
    /\ MaxLatency \in Nat /\ MaxFails \in Nat

VARIABLES
    lease,     \* the Lease object: [exists, holder, age]
    fresh,     \* runs whose copy has the object's resourceVersion
    pc,        \* where each run is
    copy,      \* the holder in each run's copy of the lease
    flight,    \* ticks since the stamp of the request a run has in flight
    phase,     \* ticks since the renewal ticker fired
    pending,   \* the ticker's channel holds a tick
    fails,     \* consecutive failed renewals
    mourned    \* ticks since the recorded holder died

local == <<phase, pending, fails>>
vars == <<lease, fresh, pc, copy, flight, local, mourned>>

Oldest == Duration + 1

NoLease == [exists |-> FALSE, holder |-> None, age |-> 0]

Init ==
    /\ lease = NoLease /\ fresh = {}
    /\ pc = [r \in Runs |-> "idle"]
    /\ copy = [r \in Runs |-> None]
    /\ flight = [r \in Runs |-> 0]
    /\ phase = [r \in Runs |-> 0]
    /\ pending = [r \in Runs |-> FALSE]
    /\ fails = [r \in Runs |-> 0]
    /\ mourned = 0

Goto(r, p) == pc' = [pc EXCEPT ![r] = p]

\* A request is sent; what it will write is stamped with the time.
Send(r) == flight' = [flight EXCEPT ![r] = 0]

\* Lease.Expired: strictly after RenewTime plus the duration.
Expired == lease.age > Duration

\* The apiserver takes a write of run r's copy, stamped when it was sent.
Store(r, holder) ==
    /\ lease' = [exists |-> TRUE, holder |-> holder, age |-> flight[r]]
    /\ fresh' = {r}
    /\ mourned' = 0

-----------------------------------------------------------------------------
(* TryAcquire. *)

\* GetLease, and the three cases; the new lease is stamped at once.
Read(r) ==
    /\ pc[r] = "idle"
    /\ Goto(r, IF ~lease.exists THEN "create" ELSE IF Expired THEN "takeover" ELSE "over")
    /\ fresh' = IF lease.exists /\ Expired THEN fresh \cup {r} ELSE fresh
    /\ copy' = [copy EXCEPT ![r] = r]
    /\ Send(r)
    /\ UNCHANGED <<lease, local, mourned>>

\* A mutant: the take-over carries no resourceVersion.
LastWriteWins(r) == pc[r] = "takeover" \/ ~lease.exists

\* The write goes through: no such object yet, or the version still matches.
Wins(r) ==
    \/ pc[r] = "create" /\ ~lease.exists
    \/ pc[r] = "takeover" /\ lease.exists /\ r \in fresh

\* A mutant: the loser of the race holds too.
LoserHolds(r) ==
    /\ pc[r] \in {"create", "takeover"}
    /\ IF Wins(r) THEN Store(r, r) ELSE UNCHANGED <<lease, fresh, mourned>>
    /\ Goto(r, "holding")
    /\ phase' = [phase EXCEPT ![r] = 0]
    /\ UNCHANGED <<copy, flight, pending, fails>>

\* CreateLease or UpdateLease, and hold; the loser is refused.
Acquire(r) ==
    /\ pc[r] \in {"create", "takeover"}
    /\ IF Wins(r)
       THEN /\ Store(r, r)
            /\ Goto(r, "holding")
            /\ phase' = [phase EXCEPT ![r] = 0]
       ELSE Goto(r, "over") /\ UNCHANGED <<lease, fresh, phase, mourned>>
    /\ UNCHANGED <<copy, flight, pending, fails>>

\* The request, or its answer after it was carried out, is lost.
AcquireLost(r, done) ==
    /\ pc[r] \in {"create", "takeover"}
    /\ IF done
       THEN Wins(r) /\ Store(r, r)
       ELSE UNCHANGED <<lease, fresh, mourned>>
    /\ Goto(r, "over")
    /\ UNCHANGED <<copy, flight, local>>

-----------------------------------------------------------------------------
(* renew and renewOnce. *)

RenewStart(r) ==
    /\ pc[r] = "holding" /\ pending[r]
    /\ pending' = [pending EXCEPT ![r] = FALSE]
    /\ Send(r)
    /\ Goto(r, "renewing")
    /\ UNCHANGED <<lease, fresh, copy, phase, fails, mourned>>

\* UpdateLease succeeds, conflicts, or finds no lease at all.
RenewUpdate(r) ==
    /\ pc[r] = "renewing"
    /\ r \in Slow \/ flight[r] <= MaxLatency
    /\ CASE lease.exists /\ r \in fresh ->
              /\ lease' = [lease EXCEPT !.holder = copy[r], !.age = flight[r]]
              /\ fresh' = {r}
              /\ fails' = [fails EXCEPT ![r] = 0]
              /\ Goto(r, "holding")
         [] lease.exists /\ r \notin fresh ->
              Goto(r, "reread") /\ UNCHANGED <<lease, fresh, fails>>
         [] OTHER ->
              Goto(r, "holding") /\ UNCHANGED <<lease, fresh, fails>>
    /\ UNCHANGED <<copy, flight, phase, pending, mourned>>

\* A mutant: the object is kept where its holder belongs.
KeepTheObject(r) ==
    /\ pc[r] = "reread"
    /\ copy' = [copy EXCEPT ![r] = lease]
    /\ fresh' = IF lease.exists THEN fresh \cup {r} ELSE fresh
    /\ Goto(r, "holding")
    /\ UNCHANGED <<lease, flight, local, mourned>>

\* After a conflict: whatever the object says now becomes the run's copy.
ReRead(r) ==
    /\ pc[r] = "reread"
    /\ copy' = [copy EXCEPT ![r] = IF lease.exists THEN lease.holder ELSE @]
    /\ fresh' = IF lease.exists THEN fresh \cup {r} ELSE fresh
    /\ Goto(r, "holding")
    /\ UNCHANGED <<lease, flight, local, mourned>>

\* The renewal fails, or is carried out and its answer lost.
RenewFails(r, done) ==
    /\ pc[r] \in {"renewing", "reread"}
    /\ fails[r] < MaxFails
    /\ fails' = [fails EXCEPT ![r] = @ + 1]
    /\ IF done
       THEN /\ pc[r] = "renewing" /\ lease.exists /\ r \in fresh
            /\ lease' = [lease EXCEPT !.holder = copy[r], !.age = flight[r]]
            /\ fresh' = {}
       ELSE UNCHANGED <<lease, fresh>>
    /\ Goto(r, "holding")
    /\ UNCHANGED <<copy, flight, phase, pending, mourned>>

-----------------------------------------------------------------------------
(* Release. *)

\* The renewal loop is stopped and waited for before the delete is sent.
Release(r) ==
    /\ pc[r] = "holding"
    /\ Goto(r, "releasing")
    /\ Send(r)
    /\ UNCHANGED <<lease, fresh, copy, local, mourned>>

\* DeleteLease, by name: whoever's lease it is.
Delete(r) ==
    /\ pc[r] = "releasing"
    /\ lease' = NoLease /\ fresh' = {} /\ mourned' = 0
    /\ Goto(r, "over")
    /\ UNCHANGED <<copy, flight, local>>

\* The error is dropped; the lease is left to expire.
DeleteFails(r) ==
    /\ pc[r] = "releasing"
    /\ Goto(r, "over")
    /\ UNCHANGED <<lease, fresh, copy, flight, local, mourned>>

-----------------------------------------------------------------------------
(* The environment. *)

Dies(r) ==
    /\ pc[r] \notin {"idle", "dead"}
    /\ Goto(r, "dead")
    /\ UNCHANGED <<lease, fresh, copy, flight, local, mourned>>

InFlight == {"create", "takeover", "renewing", "reread", "releasing"}

\* A healthy run's requests do not outlast their latency (a failing renewal
\* may take its whole timeout), and its ticker is served when it fires.
Prompt(r) ==
    /\ pc[r] \in InFlight =>
          flight[r] < IF pc[r] = "renewing" /\ fails[r] < MaxFails THEN RenewEvery
                      ELSE MaxLatency
    /\ ~(pc[r] = "holding" /\ pending[r])

Older(n) == IF n < Oldest THEN n + 1 ELSE n

Tick ==
    /\ \A r \in Runs \ Slow : Prompt(r)
    /\ lease' = IF lease.exists THEN [lease EXCEPT !.age = Older(@)] ELSE lease
    /\ flight' = [r \in Runs |-> IF pc[r] \in InFlight THEN Older(flight[r]) ELSE flight[r]]
    /\ LET ticking == {r \in Runs : pc[r] \in {"holding", "renewing", "reread"}}
       IN /\ phase' = [r \in Runs |-> IF r \in ticking THEN (phase[r] + 1) % RenewEvery
                                      ELSE phase[r]]
          /\ pending' = [r \in Runs |-> pending[r] \/ (r \in ticking /\ phase'[r] = 0)]
    /\ mourned' = IF lease.exists /\ pc[lease.holder] = "dead" THEN Older(mourned)
                  ELSE mourned
    /\ UNCHANGED <<fresh, pc, copy, fails>>

Next ==
    \/ \E r \in Runs :
          \/ Read(r) \/ Acquire(r) \/ RenewStart(r) \/ RenewUpdate(r) \/ ReRead(r)
          \/ Release(r) \/ Delete(r) \/ DeleteFails(r) \/ Dies(r)
          \/ \E done \in BOOLEAN : AcquireLost(r, done) \/ RenewFails(r, done)
    \/ Tick

Spec == Init /\ [][Next]_vars

-----------------------------------------------------------------------------
(* Properties. *)

\* Types of the lease's and the runs' state.
TypeOK ==
    /\ lease \in [exists : BOOLEAN, holder : Runs \cup {None}, age : 0 .. Oldest]
    /\ fresh \subseteq Runs
    /\ pc \in [Runs -> {"idle", "holding", "over", "dead"} \cup InFlight]
    /\ copy \in [Runs -> Runs \cup {None}]
    /\ flight \in [Runs -> 0 .. Oldest]
    /\ phase \in [Runs -> 0 .. RenewEvery - 1]
    /\ pending \in [Runs -> BOOLEAN]
    /\ fails \in [Runs -> 0 .. MaxFails]
    /\ mourned \in 0 .. Oldest

\* r works in the workspace, taking it to be its own.
Works(r) == pc[r] \in {"holding", "renewing", "reread"}

\* "keeps a healthy holder holding": while a run works, the object exists,
\* names it and has not expired, whatever was lost on the way.
KeepsHolding ==
    \A r \in Runs : Works(r) => lease.exists /\ lease.holder = r /\ ~Expired

\* No two healthy runs work in the workspace at once.
HealthyExclusive ==
    \A r, s \in Runs \ Slow : Works(r) /\ Works(s) => r = s

\* "A lease whose holder died is taken over once this has elapsed, which is
\* what stops a killed coordinator locking a workspace out forever": a dead
\* holder's lease is not kept alive.
DeadLeaseExpires == (lease.exists /\ mourned > Duration) => Expired

\* The cluster's lease excludes: whoever works in the workspace is the holder
\* of an unexpired lease, and a holder's death does not keep it (kubelock.go:153).
ClusterLeaseHolds == KeepsHolding /\ DeadLeaseExpires
=============================================================================
