---------------------------- MODULE PersistProofs ----------------------------
(***************************************************************************)
(* Proofs about Persist: a leased workspace is its run's alone, whatever   *)
(* number of runs, workspaces, kills and filesystem errors there are;      *)
(* about KubeLock, the lease that takes the file lock's place in a         *)
(* cluster: a healthy holder keeps holding; about Notify: nothing a        *)
(* destination was to be told is lost in silence; and about StepCache: a   *)
(* sweep beside any number of runs takes nothing they still need.          *)
(***************************************************************************)
EXTENDS Persist, KubeLock, Notify, StepCache, SequenceTheorems,
        FiniteSetTheorems, WellFoundedInduction, NaturalsInduction, TLAPS

(* What a run is entitled to rely on, wherever it is: its leases and the   *)
(* lock in its hand are locks it holds, and it gives back only what it     *)
(* has.                                                                    *)
Entitled(r) ==
    /\ at[r] \in 1 .. Len(Order[r])
    /\ \A w \in leases[r] : lock[w] = r
    /\ runAt[r] \in {"check", "evict"} => lock[Order[r][at[r]]] = r
    /\ runAt[r] \in {"prepare", "measure", "running", "release", "shrink", "record"} => leases[r] # {}

(* A tree that is being taken away is nobody's completed release.          *)
Removing(r) == runAt[r] \in {"evict", "shrink"} => settled[Cur(r)] = NoRun

(* What is about to be recorded is what is there, and within the bound.    *)
Recording(r) ==
    runAt[r] = "record" /\ Cur(r) \notin blind =>
        /\ size[r] = bytes[Cur(r)]
        /\ MaxSize[r] > 0 => size[r] <= MaxSize[r]

(* The tree of a lease is what its run measured plus what it wrote.        *)
Measured(r) == runAt[r] = "running" => \A w \in leases[r] : bytes[w] = believed[r][w]

(* BoundKept, for one workspace.                                           *)
Bounded(w) ==
    settled[w] # NoRun =>
        /\ meta[w].has
        /\ w \notin blind =>
              /\ meta[w].bytes = bytes[w]
              /\ (MaxSize[settled[w]] > 0) => (bytes[w] <= MaxSize[settled[w]])

RunKept(r) == Entitled(r) /\ Removing(r) /\ Recording(r) /\ Measured(r)

(* The inductive invariant.                                                *)
StoreKept ==
    /\ PersistTypeOK
    /\ \A r \in LeasingRuns : RunKept(r)
    /\ \A w \in Workspaces : Bounded(w)

-----------------------------------------------------------------------------
(* A non-empty set of naturals has a least element.                        *)
LEMMA LeastPlace ==
    ASSUME NEW T \in SUBSET Nat, T # {}
    PROVE  \E i \in T : \A j \in T : ~(j < i)
<1> DEFINE R == {p \in Nat \X Nat : p[1] < p[2]}
<1>1. IsWellFoundedOn(R, Nat)
  BY NatLessThanWellFounded, Zenon DEF OpToRel
<1> HIDE DEF R
<1>2. PICK i \in T : \A j \in T : <<j, i>> \notin R
  BY <1>1, WFMin
<1>3. \A j \in T : ~(j < i)
  BY <1>2 DEF R
<1> QED BY <1>3

Giving == {"release", "shrink", "record"}

(* The workspace releasePersistent is at is one of the run's leases.       *)
LEMMA CurIsLeased ==
    ASSUME PersistTypeOK, NEW r \in LeasingRuns, runAt[r] \in Giving, leases[r] # {}
    PROVE  Cur(r) \in leases[r]
<1> DEFINE T == {i \in 1 .. Len(ByName) : ByName[i] \in leases[r]}
<1>1. T \in SUBSET Nat
  OBVIOUS
<1>2. T # {}
  <2>1. PICK w \in leases[r] : TRUE
    OBVIOUS
  <2>2. w \in Workspaces
    BY <2>1 DEF PersistTypeOK
  <2>3. PICK i \in 1 .. Len(ByName) : ByName[i] = w
    BY <2>2, PersistAssumption
  <2>4. i \in T
    BY <2>1, <2>3
  <2> QED BY <2>4
<1>3. PICK i \in T : \A j \in T : ~(j < i)
  BY <1>1, <1>2, LeastPlace
<1>4. \A j \in 1 .. i - 1 : ByName[j] \notin leases[r]
  <2> SUFFICES ASSUME NEW j \in 1 .. i - 1, ByName[j] \in leases[r] PROVE FALSE
    OBVIOUS
  <2>1. Len(ByName) \in Nat /\ i \in 1 .. Len(ByName)
    BY <1>3, PersistAssumption
  <2>2. j \in 1 .. Len(ByName) /\ j < i
    BY <2>1
  <2> QED BY <2>2, <1>3
<1> DEFINE P(k) == ByName[k] \in leases[r] /\ \A j \in 1 .. k - 1 : ByName[j] \notin leases[r]
<1>5. \E k \in 1 .. Len(ByName) : P(k)
  BY <1>3, <1>4
<1>6. P(CHOOSE k \in 1 .. Len(ByName) : P(k))
  BY <1>5, Zenon
<1> QED BY <1>6 DEF Cur, Giving

(* A run that works on a workspace holds its lock.                         *)
LEMMA CurIsOwn ==
    ASSUME PersistTypeOK, NEW r \in LeasingRuns, Entitled(r)
    PROVE  /\ runAt[r] \notin Giving => Cur(r) = Order[r][at[r]]
           /\ runAt[r] \notin Giving \/ leases[r] # {} => Cur(r) \in Workspaces
           /\ runAt[r] \in {"check", "evict", "release", "shrink", "record"} => lock[Cur(r)] = r
           /\ runAt[r] \in Giving => Cur(r) \in leases[r]
<1>1. Order[r][at[r]] \in Workspaces
  <2>1. Order[r] \in Seq(Workspaces)
    BY PersistAssumption
  <2>2. at[r] \in 1 .. Len(Order[r])
    BY DEF Entitled
  <2> QED BY <2>1, <2>2
<1>2. runAt[r] \notin Giving => Cur(r) = Order[r][at[r]]
  BY DEF Cur, Giving
<1>3. runAt[r] \in Giving => Cur(r) \in leases[r]
  BY CurIsLeased DEF Entitled, Giving
<1>4. leases[r] \subseteq Workspaces
  BY DEF PersistTypeOK
<1>5. runAt[r] \in Giving => lock[Cur(r)] = r
  BY <1>3 DEF Entitled
<1>6. runAt[r] \in {"check", "evict"} => lock[Cur(r)] = r
  BY <1>2 DEF Entitled, Giving
<1> QED BY <1>1, <1>2, <1>3, <1>4, <1>5, <1>6 DEF Giving

(* The place a run is at depends on its own state only.                    *)
LEMMA CurSame ==
    ASSUME NEW r \in LeasingRuns, leases'[r] = leases[r], at'[r] = at[r],
           runAt'[r] \in Giving <=> runAt[r] \in Giving
    PROVE  Cur(r)' = Cur(r)
BY DEF Cur, Giving

-----------------------------------------------------------------------------
(* What an action of run r leaves alone: the other runs' own state, the    *)
(* locks they hold and everything about a workspace r does not hold.       *)
Frame(r) ==
    /\ \A q \in LeasingRuns \ {r} :
          /\ runAt'[q] = runAt[q] /\ at'[q] = at[q] /\ leases'[q] = leases[q]
          /\ believed'[q] = believed[q] /\ size'[q] = size[q]
    /\ \A w \in Workspaces : lock[w] # NoRun /\ lock[w] # r => lock'[w] = lock[w]
    /\ \A w \in Workspaces : lock[w] # r =>
          /\ bytes'[w] = bytes[w] /\ settled'[w] = settled[w]
          /\ meta'[w] = meta[w] /\ (w \in blind' <=> w \in blind)

(* The lease at work: what one run does takes nothing from another.        *)
LEMMA OthersKept ==
    ASSUME PersistTypeOK, NEW r \in LeasingRuns, Frame(r),
           NEW q \in LeasingRuns, q # r, RunKept(q)
    PROVE  RunKept(q)'
<1>1. /\ runAt'[q] = runAt[q] /\ at'[q] = at[q] /\ leases'[q] = leases[q]
      /\ believed'[q] = believed[q] /\ size'[q] = size[q]
  BY DEF Frame
<1>2. Cur(q)' = Cur(q)
  BY <1>1, CurSame
<1>3. q # NoRun
  BY PersistAssumption
<1>4. \A w \in Workspaces : lock[w] = q =>
         /\ lock'[w] = q /\ bytes'[w] = bytes[w] /\ settled'[w] = settled[w]
         /\ (w \in blind' <=> w \in blind)
  BY <1>3 DEF Frame
<1>5. Entitled(q) /\ Removing(q) /\ Recording(q) /\ Measured(q)
  BY DEF RunKept
<1>6. leases[q] \subseteq Workspaces /\ Order[q][at[q]] \in Workspaces
  <2>1. Order[q] \in Seq(Workspaces) /\ at[q] \in 1 .. Len(Order[q])
    BY <1>5, PersistAssumption DEF Entitled
  <2>2. leases[q] \subseteq Workspaces
    BY DEF PersistTypeOK
  <2> QED BY <2>1, <2>2
<1>7. runAt[q] \in {"evict", "shrink", "record"} => Cur(q) \in Workspaces /\ lock[Cur(q)] = q
  BY <1>5, CurIsOwn DEF Entitled, Giving
<1>8. Entitled(q)'
  BY <1>1, <1>4, <1>5, <1>6 DEF Entitled
<1>9. Removing(q)'
  BY <1>1, <1>2, <1>4, <1>5, <1>7 DEF Removing
<1>10. Recording(q)'
  BY <1>1, <1>2, <1>4, <1>5, <1>7 DEF Recording
<1>11. Measured(q)'
  BY <1>1, <1>4, <1>5, <1>6 DEF Measured, Entitled
<1> QED BY <1>8, <1>9, <1>10, <1>11 DEF RunKept

(* To keep the invariant, an action has to keep its own run's part, and    *)
(* that of the workspaces the run holds.                                   *)
LEMMA ByFrame ==
    ASSUME StoreKept, NEW r \in LeasingRuns, Frame(r), PersistTypeOK', RunKept(r)',
           \A w \in Workspaces : lock[w] = r => Bounded(w)'
    PROVE  StoreKept'
<1>1. \A q \in LeasingRuns : RunKept(q)'
  BY OthersKept DEF StoreKept
<1>2. \A w \in Workspaces : lock[w] # r => Bounded(w)'
  BY DEF Frame, StoreKept, Bounded
<1> QED BY <1>1, <1>2 DEF StoreKept

-----------------------------------------------------------------------------
(* One lemma per action, each by ByFrame.                                  *)

(* What every lemma below starts from.                                     *)
LEMMA Opening ==
    ASSUME StoreKept, NEW r \in LeasingRuns
    PROVE  /\ PersistTypeOK /\ Entitled(r) /\ Removing(r) /\ Recording(r) /\ Measured(r)
           /\ r # NoRun
           /\ \A w \in Workspaces : Bounded(w)
           /\ leases[r] \subseteq Workspaces
           /\ Order[r][at[r]] \in Workspaces
           /\ runAt[r] \notin Giving => Cur(r) = Order[r][at[r]]
           /\ Cur(r) \in Workspaces
           /\ runAt[r] \in {"check", "evict", "release", "shrink", "record"} => lock[Cur(r)] = r
           /\ runAt[r] \in Giving => Cur(r) \in leases[r]
<1>1. PersistTypeOK /\ Entitled(r) /\ Removing(r) /\ Recording(r) /\ Measured(r)
  BY DEF StoreKept, RunKept
<1>2. r # NoRun
  BY PersistAssumption
<1>3. leases[r] \subseteq Workspaces
  BY <1>1 DEF PersistTypeOK
<1>4. Order[r] \in Seq(Workspaces) /\ at[r] \in 1 .. Len(Order[r])
  BY <1>1, PersistAssumption DEF Entitled
<1>5. Order[r][at[r]] \in Workspaces
  BY <1>4
<1>6. runAt[r] \in Giving => leases[r] # {}
  BY <1>1 DEF Entitled, Giving
<1> QED BY <1>1, <1>2, <1>3, <1>5, <1>6, CurIsOwn DEF StoreKept

(* Errors stay within their bound.                                         *)
LEMMA FailCounts ==
    ASSUME PersistTypeOK, Fail \/ failures' = failures
    PROVE  failures' \in 0 .. MaxFailures
<1>1. MaxFailures \in Nat /\ failures \in 0 .. MaxFailures
  BY PersistAssumption DEF PersistTypeOK
<1> QED BY <1>1 DEF Fail

(* Steps that only move the run on: newWSManager begins, is through, gives *)
(* up without abandoning; the steps end.                                   *)
LEMMA MovesOn ==
    ASSUME StoreKept, NEW r \in LeasingRuns,
           \/ Begin(r) \/ Prepared(r) \/ StepsEnd(r) \/ PrepareFails(r)
    PROVE  StoreKept'
<1> USE Opening
<1>0. Fail \/ failures' = failures
  BY DEF Begin, Prepared, StepsEnd, PrepareFails
<1>1. /\ UNCHANGED <<at, lock, leases, bytes, meta, believed, size, blind, settled, now>>
      /\ failures' \in 0 .. MaxFailures
  BY <1>0, FailCounts DEF Begin, Prepared, StepsEnd, PrepareFails
<1>2. \E p \in {"lock", "measure", "release", "over"} : runAt' = [runAt EXCEPT ![r] = p]
  BY DEF Begin, Prepared, StepsEnd, PrepareFails, GoOn
<1>3. runAt'[r] \in {"lock", "over"} \/ runAt[r] \in {"prepare", "running"}
  BY DEF Begin, Prepared, StepsEnd, PrepareFails, GoOn, PersistTypeOK
<1>4. runAt'[r] \in {"lock", "measure", "release", "over"}
  BY <1>2 DEF PersistTypeOK
<1>5. PersistTypeOK'
  BY <1>1, <1>2 DEF PersistTypeOK
<1>6. Frame(r)
  BY <1>1, <1>2 DEF Frame, PersistTypeOK
<1>7. RunKept(r)'
  <2>1. Entitled(r)'
    BY <1>1, <1>3, <1>4 DEF Entitled
  <2> QED BY <2>1, <1>4 DEF RunKept, Removing, Recording, Measured
<1>8. \A w \in Workspaces : Bounded(w)'
  BY <1>1 DEF Bounded
<1> QED BY <1>5, <1>6, <1>7, <1>8, ByFrame

(* Locks and leases given back, nothing recorded.                          *)
LEMMA GivesBack ==
    ASSUME StoreKept, NEW r \in LeasingRuns, NEW W \in SUBSET Workspaces,
           NEW p \in {"over", "dead"},
           Unlock(r, W), leases[r] \subseteq W,
           leases' = [leases EXCEPT ![r] = {}],
           runAt' = [runAt EXCEPT ![r] = p],
           UNCHANGED <<at, bytes, meta, believed, size, blind, settled, now>>,
           failures' \in 0 .. MaxFailures
    PROVE  StoreKept'
<1> USE Opening
<1>1. leases'[r] = {} /\ runAt'[r] = p
  BY DEF PersistTypeOK
<1>2. PersistTypeOK'
  BY DEF PersistTypeOK, Unlock
<1>3. Frame(r)
  BY DEF Frame, PersistTypeOK, Unlock
<1>4. RunKept(r)'
  <2>1. Entitled(r)'
    BY <1>1 DEF Entitled
  <2> QED BY <2>1, <1>1 DEF RunKept, Removing, Recording, Measured
<1>5. \A w \in Workspaces : Bounded(w)'
  BY DEF Bounded
<1> QED BY <1>2, <1>3, <1>4, <1>5, ByFrame

(* A run that gives up, dies or has its descriptors collected lets go of   *)
(* every lock it has and claims nothing any more; no tree changes.         *)
LEMMA GivesAllBack ==
    ASSUME StoreKept, NEW r \in LeasingRuns,
           AcquireFails(r) \/ RunAborts(r) \/ RunDies(r) \/ Collected(r)
    PROVE  StoreKept'
<1> USE Opening
<1>1. CASE AcquireFails(r) \/ RunAborts(r)
  <2>1. failures' \in 0 .. MaxFailures
    BY <1>1, FailCounts DEF AcquireFails, RunAborts
  <2>2. leases[r] \cup {Cur(r)} \in SUBSET Workspaces
    OBVIOUS
  <2>3. /\ Unlock(r, leases[r] \cup {Cur(r)})
        /\ leases' = [leases EXCEPT ![r] = {}]
        /\ runAt' = [runAt EXCEPT ![r] = "over"]
        /\ UNCHANGED <<at, bytes, meta, believed, size, blind, settled, now>>
    BY <1>1 DEF AcquireFails, RunAborts, AbandonAll, GoOn
  <2> QED BY <2>1, <2>2, <2>3, GivesBack
<1>2. CASE RunDies(r)
  <2>1. failures' \in 0 .. MaxFailures
    BY <1>2 DEF RunDies, PersistTypeOK
  <2>2. /\ Unlock(r, Workspaces)
        /\ leases' = [leases EXCEPT ![r] = {}]
        /\ runAt' = [runAt EXCEPT ![r] = "dead"]
        /\ UNCHANGED <<at, bytes, meta, believed, size, blind, settled, now>>
    BY <1>2 DEF RunDies, GoOn
  <2> QED BY <2>1, <2>2, GivesBack
<1>3. CASE Collected(r)
  <2>1. failures' \in 0 .. MaxFailures
    BY <1>3 DEF Collected, PersistTypeOK
  <2>2. leases[r] \cup {Cur(r)} \in SUBSET Workspaces
    OBVIOUS
  <2>3. /\ Unlock(r, leases[r] \cup {Cur(r)})
        /\ leases' = [leases EXCEPT ![r] = {}]
        /\ UNCHANGED <<at, bytes, meta, believed, size, blind, settled, now>>
    BY <1>3 DEF Collected, AbandonAll
  <2>4. runAt' = [runAt EXCEPT ![r] = "over"]
    BY <1>3 DEF Collected, PersistTypeOK
  <2> QED BY <2>1, <2>2, <2>3, <2>4, GivesBack
<1> QED BY <1>1, <1>2, <1>3

(* TryAcquire: the lock was nobody's, or everything is given back.         *)
LEMMA Acquires ==
    ASSUME StoreKept, NEW r \in LeasingRuns, TryAcquire(r)
    PROVE  StoreKept'
<1> USE Opening
<1>1. /\ runAt[r] = "lock" /\ Cur(r) = Order[r][at[r]]
      /\ UNCHANGED <<at, bytes, meta, believed, size, blind, settled, now, failures>>
  BY DEF TryAcquire, Giving
<1>2. CASE lock[Cur(r)] = NoRun
  <2>1. /\ lock' = [lock EXCEPT ![Cur(r)] = r]
        /\ runAt' = [runAt EXCEPT ![r] = "check"]
        /\ leases' = leases
    BY <1>2 DEF TryAcquire, GoOn
  <2>2. runAt'[r] = "check" /\ lock'[Cur(r)] = r
    BY <2>1 DEF PersistTypeOK
  <2>3. PersistTypeOK'
    BY <1>1, <2>1 DEF PersistTypeOK
  <2>4. Frame(r)
    BY <1>1, <1>2, <2>1 DEF Frame, PersistTypeOK
  <2>5. RunKept(r)'
    <3>1. Entitled(r)'
      BY <1>1, <1>2, <2>1, <2>2 DEF Entitled, PersistTypeOK
    <3> QED BY <3>1, <2>2 DEF RunKept, Removing, Recording, Measured
  <2>6. \A w \in Workspaces : Bounded(w)'
    BY <1>1 DEF Bounded
  <2> QED BY <2>3, <2>4, <2>5, <2>6, ByFrame
<1>3. CASE lock[Cur(r)] # NoRun
  <2>1. failures' \in 0 .. MaxFailures
    BY <1>1 DEF PersistTypeOK
  <2>2. leases[r] \cup {Cur(r)} \in SUBSET Workspaces
    OBVIOUS
  <2>3. /\ Unlock(r, leases[r] \cup {Cur(r)})
        /\ leases' = [leases EXCEPT ![r] = {}]
        /\ runAt' = [runAt EXCEPT ![r] = "over"]
    BY <1>3 DEF TryAcquire, AbandonAll, GoOn
  <2> QED BY <1>1, <2>1, <2>2, <2>3, GivesBack
<1> QED BY <1>2, <1>3


(* The workspace in hand becomes a lease.                                  *)
LEMMA TakesLease ==
    ASSUME StoreKept, NEW r \in LeasingRuns, runAt[r] \in {"check", "evict"}, Leased(r),
           UNCHANGED <<lock, bytes, meta, believed, size, blind, settled, now, failures>>
    PROVE  StoreKept'
<1> USE Opening
<1>1. lock[Cur(r)] = r /\ Len(Order[r]) \in Nat /\ at[r] \in 1 .. Len(Order[r])
  <2>1. Order[r] \in Seq(Workspaces)
    BY PersistAssumption
  <2>2. Len(Order[r]) \in Nat
    BY <2>1
  <2> QED BY <2>2 DEF Entitled
<1>2. leases'[r] = leases[r] \cup {Cur(r)} /\ leases' = [leases EXCEPT ![r] = leases[r] \cup {Cur(r)}]
  BY DEF Leased, PersistTypeOK
<1>3. PICK p \in {"lock", "prepare"} : runAt' = [runAt EXCEPT ![r] = p]
  BY DEF Leased, GoOn
<1>4. at' = at \/ (at' = [at EXCEPT ![r] = @ + 1] /\ at[r] < Len(Order[r]))
  BY DEF Leased
<1>5. at'[r] \in 1 .. Len(Order[r]) /\ at' \in [LeasingRuns -> Nat \ {0}]
  <2>1. at \in [LeasingRuns -> Nat \ {0}]
    BY DEF PersistTypeOK
  <2>2. CASE at' = at
    BY <1>1, <2>1, <2>2
  <2>3. CASE at' = [at EXCEPT ![r] = @ + 1] /\ at[r] < Len(Order[r])
    BY <1>1, <2>1, <2>3
  <2> QED BY <1>4, <2>2, <2>3
<1>6. runAt'[r] = p
  BY <1>3 DEF PersistTypeOK
<1>7. PersistTypeOK'
  <2>1. leases' \in [LeasingRuns -> SUBSET Workspaces]
    <3>1. Cur(r) \in Workspaces
      BY <1>1, PersistAssumption DEF Cur
    <3> QED
      BY <1>2, <3>1 DEF PersistTypeOK
  <2>2. runAt' \in [LeasingRuns -> {"idle", "lock", "check", "evict", "prepare", "measure", "running",
                                   "release", "shrink", "record", "over", "dead"}]
    BY <1>3 DEF PersistTypeOK
  <2> QED
    BY <2>1, <2>2, <1>5 DEF PersistTypeOK
<1>8. Frame(r)
  BY <1>2, <1>3, <1>4 DEF Frame, PersistTypeOK
<1>9. RunKept(r)'
  <2>1. Entitled(r)'
    BY <1>1, <1>2, <1>5, <1>6 DEF Entitled
  <2> QED BY <2>1, <1>6 DEF RunKept, Removing, Recording, Measured
<1>10. \A w \in Workspaces : Bounded(w)'
  BY DEF Bounded
<1> QED BY <1>7, <1>8, <1>9, <1>10, ByFrame

(* Acquire's bounds: a lease, or the tree starts to go.                    *)
LEMMA ChecksBounds ==
    ASSUME StoreKept, NEW r \in LeasingRuns, CheckBounds(r) \/ EvictDone(r)
    PROVE  StoreKept'
<1> USE Opening
<1>1. CASE Leased(r) /\ UNCHANGED settled
  BY <1>1, TakesLease DEF CheckBounds, EvictDone
<1>2. CASE ~(Leased(r) /\ UNCHANGED settled)
  <2>1. /\ runAt[r] = "check" /\ settled' = [settled EXCEPT ![Cur(r)] = NoRun]
        /\ runAt' = [runAt EXCEPT ![r] = "evict"]
        /\ UNCHANGED <<at, leases, lock, bytes, meta, believed, size, blind, now, failures>>
    BY <1>2 DEF CheckBounds, EvictDone, Disturb, GoOn
  <2>2. runAt'[r] = "evict" /\ settled'[Cur(r)] = NoRun /\ lock[Cur(r)] = r
    BY <2>1 DEF PersistTypeOK
  <2>3. Cur(r)' = Cur(r) /\ Cur(r) = Order[r][at[r]]
    BY <2>1, <2>2, CurSame DEF Giving
  <2>4. PersistTypeOK'
    BY <2>1 DEF PersistTypeOK
  <2>5. Frame(r)
    BY <2>1, <2>2 DEF Frame, PersistTypeOK
  <2>6. RunKept(r)'
    <3>1. Entitled(r)'
      BY <2>1, <2>2, <2>3 DEF Entitled
    <3>2. Removing(r)'
      BY <2>2, <2>3 DEF Removing
    <3> QED BY <3>1, <3>2, <2>2 DEF RunKept, Recording, Measured
  <2>7. \A w \in Workspaces : Bounded(w)'
    BY <2>1 DEF Bounded, PersistTypeOK
  <2> QED BY <2>4, <2>5, <2>6, <2>7, ByFrame
<1> QED BY <1>1, <1>2

(* A piece of a tree goes: nobody's release is undone.                     *)
LEMMA Removes ==
    ASSUME StoreKept, NEW r \in LeasingRuns, RemovePiece(r)
    PROVE  StoreKept'
<1> USE Opening
<1>1. /\ runAt[r] \in {"evict", "shrink"} /\ lock[Cur(r)] = r /\ settled[Cur(r)] = NoRun
      /\ bytes' = [bytes EXCEPT ![Cur(r)] = @ - 1] /\ bytes[Cur(r)] > 0
      /\ UNCHANGED <<runAt, at, lock, leases, meta, believed, size, blind, settled, now, failures>>
  BY DEF RemovePiece, Removing
<1>2. Cur(r)' = Cur(r)
  BY <1>1, CurSame
<1>3. bytes[Cur(r)] - 1 \in 0 .. MaxBytes
  <2>1. MaxBytes \in Nat /\ bytes[Cur(r)] \in 0 .. MaxBytes
    BY PersistAssumption DEF PersistTypeOK
  <2> QED BY <2>1, <1>1
<1>4. PersistTypeOK'
  BY <1>1, <1>3 DEF PersistTypeOK
<1>5. Frame(r)
  BY <1>1 DEF Frame, PersistTypeOK
<1>6. RunKept(r)'
  <2>1. Entitled(r)'
    BY <1>1 DEF Entitled
  <2>2. Removing(r)'
    BY <1>1, <1>2 DEF Removing
  <2> QED BY <2>1, <2>2, <1>1 DEF RunKept, Recording, Measured
<1>7. \A w \in Workspaces : Bounded(w)'
  BY <1>1 DEF Bounded, PersistTypeOK
<1> QED BY <1>4, <1>5, <1>6, <1>7, ByFrame

(* openPersistent believes what it measures; only the run itself writes.   *)
LEMMA OpensAndWrites ==
    ASSUME StoreKept, NEW r \in LeasingRuns,
           OpenPersistent(r) \/ \E w \in Workspaces : Write(r, w)
    PROVE  StoreKept'
<1> USE Opening
<1>1. CASE OpenPersistent(r)
  <2>1. /\ runAt[r] = "measure" /\ believed' = [believed EXCEPT ![r] = bytes]
        /\ runAt' = [runAt EXCEPT ![r] = "running"]
        /\ UNCHANGED <<at, lock, leases, bytes, meta, size, blind, settled, now, failures>>
    BY <1>1 DEF OpenPersistent, GoOn
  <2>2. runAt'[r] = "running" /\ believed'[r] = bytes
    BY <2>1 DEF PersistTypeOK
  <2>3. PersistTypeOK'
    BY <2>1 DEF PersistTypeOK
  <2>4. Frame(r)
    BY <2>1 DEF Frame, PersistTypeOK
  <2>5. RunKept(r)'
    <3>1. Entitled(r)'
      BY <2>1, <2>2 DEF Entitled
    <3>2. Measured(r)'
      BY <2>1, <2>2 DEF Measured
    <3> QED BY <3>1, <3>2, <2>2 DEF RunKept, Recording, Removing
  <2>6. \A w \in Workspaces : Bounded(w)'
    BY <2>1 DEF Bounded
  <2> QED BY <2>3, <2>4, <2>5, <2>6, ByFrame
<1>2. ASSUME NEW w \in Workspaces, Write(r, w) PROVE StoreKept'
  <2>1. /\ runAt[r] = "running" /\ w \in leases[r] /\ lock[w] = r /\ bytes[w] < MaxBytes
        /\ bytes' = [bytes EXCEPT ![w] = @ + 1]
        /\ believed' = [believed EXCEPT ![r][w] = @ + 1]
        /\ settled' = [settled EXCEPT ![w] = NoRun]
        /\ UNCHANGED <<runAt, at, lock, leases, meta, size, blind, now, failures>>
    BY <1>2 DEF Write, Disturb, Entitled
  <2>2. bytes[w] = believed[r][w]
    BY <2>1 DEF Measured
  <2>3. bytes[w] + 1 \in 0 .. MaxBytes
    <3>1. MaxBytes \in Nat /\ bytes[w] \in 0 .. MaxBytes
      BY PersistAssumption DEF PersistTypeOK
    <3> QED BY <3>1, <2>1
  <2>4. believed' \in [LeasingRuns -> [Workspaces -> 0 .. MaxBytes]]
    BY <2>1, <2>2, <2>3 DEF PersistTypeOK
  <2>5. PersistTypeOK'
    BY <2>1, <2>3, <2>4 DEF PersistTypeOK
  <2>6. Frame(r)
    BY <2>1 DEF Frame, PersistTypeOK
  <2>7. RunKept(r)'
    <3>1. Entitled(r)'
      BY <2>1 DEF Entitled
    <3>2. \A v \in Workspaces : bytes[v] = believed[r][v] => bytes'[v] = believed'[r][v]
      BY <2>1, <2>2 DEF PersistTypeOK
    <3>3. Measured(r)'
      BY <2>1, <3>2 DEF Measured
    <3> QED BY <3>1, <3>3, <2>1 DEF RunKept, Recording, Removing
  <2>8. \A v \in Workspaces : Bounded(v)'
    BY <2>1 DEF Bounded, PersistTypeOK
  <2> QED BY <2>5, <2>6, <2>7, <2>8, ByFrame
<1> QED BY <1>1, <1>2

(* Release measures, and finds the tree within the bound or starts to take *)
(* it away.                                                                *)
LEMMA Measures ==
    ASSUME StoreKept, NEW r \in LeasingRuns, NEW measured \in BOOLEAN,
           MeasureForRelease(r, measured)
    PROVE  StoreKept'
<1> USE Opening
<1> DEFINE n == IF measured THEN bytes[Cur(r)] ELSE 0
<1>1. /\ runAt[r] = "release" /\ lock[Cur(r)] = r
      /\ size' = [size EXCEPT ![r] = n]
      /\ blind' = IF measured THEN blind \ {Cur(r)} ELSE blind \cup {Cur(r)}
      /\ settled' = [settled EXCEPT ![Cur(r)] = NoRun]
      /\ UNCHANGED <<at, lock, leases, bytes, meta, believed, now>>
  BY DEF MeasureForRelease, Disturb
<1>2. n \in 0 .. MaxBytes
  <2>1. MaxBytes \in Nat /\ bytes[Cur(r)] \in 0 .. MaxBytes
    BY PersistAssumption DEF PersistTypeOK
  <2> QED BY <2>1
<1>3. size'[r] = n
  BY <1>1 DEF PersistTypeOK
<1>4. measured \/ Cur(r) \in blind'
  BY <1>1
<1>5. measured => n = bytes[Cur(r)]
  OBVIOUS
<1> HIDE DEF n
<1>6. \/ runAt' = [runAt EXCEPT ![r] = "shrink"]
      \/ runAt' = [runAt EXCEPT ![r] = "record"] /\ ~(MaxSize[r] > 0 /\ n > MaxSize[r])
  BY <1>3 DEF MeasureForRelease, GoOn
<1>7. runAt'[r] \in {"shrink", "record"}
  BY <1>6 DEF PersistTypeOK
<1>8. Cur(r)' = Cur(r)
  BY <1>1, <1>7, CurSame DEF Giving
<1>9. settled'[Cur(r)] = NoRun
  BY <1>1 DEF PersistTypeOK
<1>10. PersistTypeOK'
  <2>1. Fail \/ failures' = failures
    BY DEF MeasureForRelease
  <2>2. failures' \in 0 .. MaxFailures
    BY <2>1, FailCounts
  <2>3. blind' \subseteq Workspaces
    BY <1>1 DEF PersistTypeOK
  <2>4. size' \in [LeasingRuns -> 0 .. MaxBytes]
    BY <1>1, <1>2 DEF PersistTypeOK
  <2>5. runAt' = [runAt EXCEPT ![r] = "shrink"] \/ runAt' = [runAt EXCEPT ![r] = "record"]
    BY <1>6
  <2> QED BY <1>1, <2>2, <2>3, <2>4, <2>5 DEF PersistTypeOK
<1>11. Frame(r)
  BY <1>1, <1>6 DEF Frame, PersistTypeOK
<1>12. RunKept(r)'
  <2>1. Entitled(r)'
    BY <1>1, <1>7 DEF Entitled
  <2>2. Removing(r)'
    BY <1>8, <1>9 DEF Removing
  <2>3. runAt'[r] = "record" => ~(MaxSize[r] > 0 /\ n > MaxSize[r])
    BY <1>6 DEF PersistTypeOK
  <2>4. MaxSize[r] \in Nat /\ n \in Nat
    BY <1>2, PersistAssumption
  <2>5. runAt'[r] = "record" => (MaxSize[r] > 0 => n <= MaxSize[r])
    BY <2>3, <2>4
  <2>6. Recording(r)'
    BY <1>1, <1>3, <1>4, <1>5, <1>8, <2>5 DEF Recording
  <2> QED BY <2>1, <2>2, <2>6, <1>7 DEF RunKept, Measured
<1>13. \A w \in Workspaces : Bounded(w)'
  BY <1>1 DEF Bounded, PersistTypeOK
<1> QED BY <1>10, <1>11, <1>12, <1>13, ByFrame

(* The tree over its bound is gone: an empty one will be recorded.         *)
LEMMA Shrinks ==
    ASSUME StoreKept, NEW r \in LeasingRuns, ShrinkDone(r)
    PROVE  StoreKept'
<1> USE Opening
<1>1. /\ runAt[r] = "shrink" /\ bytes[Cur(r)] = 0 /\ lock[Cur(r)] = r
      /\ size' = [size EXCEPT ![r] = 0]
      /\ runAt' = [runAt EXCEPT ![r] = "record"]
      /\ UNCHANGED <<at, lock, leases, bytes, meta, believed, blind, settled, now, failures>>
  BY DEF ShrinkDone, GoOn
<1>2. runAt'[r] = "record" /\ size'[r] = 0
  BY <1>1 DEF PersistTypeOK
<1>3. Cur(r)' = Cur(r)
  BY <1>1, <1>2, CurSame DEF Giving
<1>4. MaxBytes \in Nat /\ MaxSize[r] \in Nat
  BY PersistAssumption
<1>5. PersistTypeOK'
  BY <1>1, <1>4 DEF PersistTypeOK
<1>6. Frame(r)
  BY <1>1 DEF Frame, PersistTypeOK
<1>7. RunKept(r)'
  <2>1. Entitled(r)'
    BY <1>1, <1>2 DEF Entitled
  <2>2. Recording(r)'
    BY <1>1, <1>2, <1>3, <1>4 DEF Recording
  <2> QED BY <2>1, <2>2, <1>2 DEF RunKept, Measured, Removing
<1>8. \A w \in Workspaces : Bounded(w)'
  BY <1>1 DEF Bounded
<1> QED BY <1>5, <1>6, <1>7, <1>8, ByFrame

(* A lease is given up, with a record of the tree or without one.          *)
LEMMA Releases ==
    ASSUME StoreKept, NEW r \in LeasingRuns, WriteMeta(r) \/ ReleaseFails(r)
    PROVE  StoreKept'
<1> USE Opening
<1>0. PICK c \in Workspaces : c = Cur(r)
  OBVIOUS
<1>1. /\ runAt[r] \in {"shrink", "record"} /\ lock[c] = r /\ GiveUp(r) /\ c \in Workspaces
      /\ UNCHANGED <<at, bytes, believed, size, blind, now>>
  BY <1>0 DEF WriteMeta, ReleaseFails
<1>2. leases' = [leases EXCEPT ![r] = @ \ {c}] /\ Unlock(r, {c})
  BY <1>0, <1>1 DEF GiveUp
<1>3. leases'[r] = leases[r] \ {c}
  BY <1>2 DEF PersistTypeOK
<1>4. runAt' = [runAt EXCEPT ![r] = IF leases'[r] = {} THEN "over" ELSE "release"]
  BY <1>1 DEF GiveUp, GoOn
<1>5. /\ runAt'[r] \in {"over", "release"}
      /\ runAt'[r] = "release" => leases'[r] # {}
  BY <1>4 DEF PersistTypeOK
<1>6. \A w \in Workspaces : lock'[w] = IF w = c /\ lock[w] = r THEN NoRun ELSE lock[w]
  BY <1>2 DEF Unlock
<1>7. /\ settled' = [settled EXCEPT ![c] = r] \/ settled' = settled
      /\ \/ settled' = settled /\ meta' = meta
         \/ /\ runAt[r] = "record" /\ settled' = [settled EXCEPT ![c] = r]
            /\ meta' = [meta EXCEPT ![c] = [has |-> TRUE, used |-> now, bytes |-> size[r]]]
  BY <1>0 DEF WriteMeta, ReleaseFails
<1>8. PersistTypeOK'
  <2>1. Fail \/ failures' = failures
    BY DEF WriteMeta, ReleaseFails
  <2>2. failures' \in 0 .. MaxFailures
    BY <2>1, FailCounts
  <2>3. [has |-> TRUE, used |-> now, bytes |-> size[r]] \in [has : BOOLEAN, used : 0 .. MaxTime, bytes : 0 .. MaxBytes]
    BY DEF PersistTypeOK
  <2>4. meta' \in [Workspaces -> [has : BOOLEAN, used : 0 .. MaxTime, bytes : 0 .. MaxBytes]]
    <3>1. PICK m \in [has : BOOLEAN, used : 0 .. MaxTime, bytes : 0 .. MaxBytes] :
             m = [has |-> TRUE, used |-> now, bytes |-> size[r]]
      BY <2>3
    <3>2. meta' = meta \/ meta' = [meta EXCEPT ![c] = m]
      BY <1>7, <3>1
    <3> DEFINE M == [has : BOOLEAN, used : 0 .. MaxTime, bytes : 0 .. MaxBytes]
    <3>3. meta \in [Workspaces -> M] /\ m \in M
      BY DEF PersistTypeOK
    <3> HIDE DEF M
    <3>4. meta' \in [Workspaces -> M]
      BY <3>2, <3>3
    <3> QED BY <3>4 DEF M
  <2>5. runAt' = [runAt EXCEPT ![r] = "over"] \/ runAt' = [runAt EXCEPT ![r] = "release"]
    BY <1>4
  <2>6. runAt' \in [LeasingRuns -> {"idle", "lock", "check", "evict", "prepare", "measure", "running",
                                  "release", "shrink", "record", "over", "dead"}]
    BY <2>5 DEF PersistTypeOK
  <2>7. lock' \in [Workspaces -> LeasingRuns \cup {NoRun}]
    BY <1>2 DEF PersistTypeOK, Unlock
  <2>8. leases' \in [LeasingRuns -> SUBSET Workspaces]
    BY <1>2 DEF PersistTypeOK
  <2>9. settled' \in [Workspaces -> LeasingRuns \cup {NoRun}]
    BY <1>7 DEF PersistTypeOK
  <2> QED BY <1>1, <2>2, <2>4, <2>6, <2>7, <2>8, <2>9 DEF PersistTypeOK
<1>9. Frame(r)
  <2>1. \A q \in LeasingRuns \ {r} : runAt'[q] = runAt[q] /\ leases'[q] = leases[q]
    BY <1>2, <1>4 DEF PersistTypeOK
  <2>2. \A w \in Workspaces : lock[w] # r => meta'[w] = meta[w] /\ settled'[w] = settled[w]
    BY <1>1, <1>7 DEF PersistTypeOK
  <2> QED BY <1>1, <1>6, <2>1, <2>2 DEF Frame
<1>10. RunKept(r)'
  <2>1. \A w \in leases'[r] : lock'[w] = r
    BY <1>3, <1>6 DEF Entitled
  <2>2. Entitled(r)'
    BY <1>1, <1>5, <2>1 DEF Entitled
  <2> QED BY <2>2, <1>5 DEF RunKept, Measured, Removing, Recording
<1>11. \A w \in Workspaces : Bounded(w)'
  <2>1. CASE settled' = settled /\ meta' = meta
    BY <2>1, <1>1 DEF Bounded
  <2>2. CASE /\ runAt[r] = "record" /\ settled' = [settled EXCEPT ![c] = r]
             /\ meta' = [meta EXCEPT ![c] = [has |-> TRUE, used |-> now, bytes |-> size[r]]]
    <3>1. c \notin blind => size[r] = bytes[c] /\ (MaxSize[r] > 0 => size[r] <= MaxSize[r])
      BY <1>0, <2>2 DEF Recording
    <3>2. settled'[c] = r /\ meta'[c].has /\ meta'[c].bytes = size[r]
      BY <2>2, <1>1 DEF PersistTypeOK
    <3>3. Bounded(c)'
      BY <1>1, <3>1, <3>2 DEF Bounded
    <3>4. \A w \in Workspaces \ {c} : Bounded(w)'
      BY <1>1, <2>2 DEF Bounded, PersistTypeOK
    <3> QED BY <3>3, <3>4
  <2> QED BY <2>1, <2>2, <1>7
<1> QED BY <1>8, <1>9, <1>10, <1>11, ByFrame

(* The clock touches nothing but itself.                                   *)
LEMMA Ticks ==
    ASSUME StoreKept, ClockTicks
    PROVE  StoreKept'
<1>1. /\ UNCHANGED <<runAt, at, lock, leases, bytes, meta, believed, size, blind, settled, failures>>
      /\ now' = now + 1 /\ now < MaxTime
  BY DEF ClockTicks
<1>2. now' \in 0 .. MaxTime
  BY <1>1, PersistAssumption DEF StoreKept, PersistTypeOK
<1>3. PersistTypeOK'
  BY <1>1, <1>2 DEF StoreKept, PersistTypeOK
<1>4. \A r \in LeasingRuns : Cur(r)' = Cur(r)
  BY <1>1, CurSame
<1>5. \A r \in LeasingRuns : RunKept(r)'
  BY <1>1, <1>4 DEF StoreKept, RunKept, Entitled, Removing, Recording, Measured
<1>6. \A w \in Workspaces : Bounded(w)'
  BY <1>1 DEF StoreKept, Bounded
<1> QED BY <1>3, <1>5, <1>6 DEF StoreKept

-----------------------------------------------------------------------------
(* The store starts out with no lease and no record.                       *)
LEMMA StoreStarts ==
    PersistInit => StoreKept
<1> SUFFICES ASSUME PersistInit PROVE StoreKept
  OBVIOUS
<1>1. MaxBytes \in Nat /\ MaxTime \in Nat /\ MaxFailures \in Nat
  BY PersistAssumption
<1>2. NoMeta \in [has : BOOLEAN, used : 0 .. MaxTime, bytes : 0 .. MaxBytes]
  BY <1>1 DEF NoMeta
<1>3. PersistTypeOK
  BY <1>1, <1>2 DEF PersistInit, PersistTypeOK
<1>4. \A r \in LeasingRuns : 1 \in 1 .. Len(Order[r])
  <2> TAKE r \in LeasingRuns
  <2>1. Order[r] \in Seq(Workspaces) /\ Order[r] # <<>>
    BY PersistAssumption
  <2> QED BY <2>1
<1>5. \A r \in LeasingRuns : RunKept(r)
  BY <1>4 DEF PersistInit, RunKept, Entitled, Removing, Recording, Measured
<1>6. \A w \in Workspaces : Bounded(w)
  BY DEF PersistInit, Bounded
<1> QED BY <1>3, <1>5, <1>6 DEF StoreKept

(* Every step of every run, kill, error and tick keeps the invariant.      *)
LEMMA StoreSteps ==
    StoreKept /\ [PersistNext]_persistVars => StoreKept'
<1> SUFFICES ASSUME StoreKept, [PersistNext]_persistVars PROVE StoreKept'
  OBVIOUS
<1>1. CASE UNCHANGED persistVars
  <2>1. \A r \in LeasingRuns : Cur(r)' = Cur(r)
    BY <1>1, CurSame DEF persistVars
  <2>2. PersistTypeOK'
    BY <1>1 DEF persistVars, StoreKept, PersistTypeOK
  <2>3. \A r \in LeasingRuns : RunKept(r)'
    BY <1>1, <2>1 DEF persistVars, StoreKept, RunKept, Entitled, Removing, Recording, Measured
  <2>4. \A w \in Workspaces : Bounded(w)'
    BY <1>1 DEF persistVars, StoreKept, Bounded
  <2> QED BY <2>2, <2>3, <2>4 DEF StoreKept
<1>2. ASSUME NEW r \in LeasingRuns, Step(r) PROVE StoreKept'
  <2>1. CASE Begin(r) \/ Prepared(r) \/ StepsEnd(r) \/ PrepareFails(r)
    BY <2>1, MovesOn
  <2>2. CASE TryAcquire(r)
    BY <2>2, Acquires
  <2>3. CASE CheckBounds(r) \/ EvictDone(r)
    BY <2>3, ChecksBounds
  <2>4. CASE RemovePiece(r)
    BY <2>4, Removes
  <2>5. CASE AcquireFails(r) \/ RunAborts(r)
    BY <2>5, GivesAllBack
  <2>6. CASE OpenPersistent(r)
    BY <2>6, OpensAndWrites
  <2>7. CASE \E measured \in BOOLEAN : MeasureForRelease(r, measured)
    BY <2>7, Measures
  <2>8. CASE ShrinkDone(r)
    BY <2>8, Shrinks
  <2>9. CASE WriteMeta(r) \/ ReleaseFails(r)
    BY <2>9, Releases
  <2> QED BY <1>2, <2>1, <2>2, <2>3, <2>4, <2>5, <2>6, <2>7, <2>8, <2>9 DEF Step
<1>3. ASSUME NEW r \in LeasingRuns, RunDies(r) \/ Collected(r) PROVE StoreKept'
  BY <1>3, GivesAllBack
<1>4. ASSUME NEW r \in LeasingRuns, \E w \in Workspaces : Write(r, w) PROVE StoreKept'
  BY <1>4, OpensAndWrites
<1>5. CASE ClockTicks
  BY <1>5, Ticks
<1> QED BY <1>1, <1>2, <1>3, <1>4, <1>5 DEF PersistNext

(* "only sound while the tree cannot change under the run that measured    *)
(* it; the lease makes that true" (workspaces.go, openPersistent), and     *)
(* Release's bound: for any number of runs that want any workspaces in any *)
(* order, are killed, collected or meet errors anywhere, what a run        *)
(* measured stays true while it runs, and a tree left as a completed       *)
(* Release left it is within its bound and as its record says.             *)
THEOREM LeaseKeepsTheMeasurement ==
    PersistSpec => []PersistHolds
<1>1. PersistInit => StoreKept
  BY StoreStarts
<1>2. StoreKept /\ [PersistNext]_persistVars => StoreKept'
  BY StoreSteps
<1>3. StoreKept => PersistHolds
  BY DEF StoreKept, RunKept, Measured, Bounded, PersistHolds, MeasurementHolds, BoundKept
<1> QED BY <1>1, <1>2, <1>3, PTL DEF PersistSpec

(* No workspace is among the leases of two runs.                           *)
LeaseExcludes ==
    \A q, r \in LeasingRuns : q # r => leases[q] \cap leases[r] = {}

(* Acquire and Release of internal/persist: a run that counts a workspace  *)
(* among its leases holds its lock, so at no time are two runs entitled to *)
(* the same tree.                                                          *)
THEOREM OneRunPerWorkspace ==
    PersistSpec => [](PersistTypeOK /\ LeaseExcludes)
<1>1. PersistInit => StoreKept
  BY StoreStarts
<1>2. StoreKept /\ [PersistNext]_persistVars => StoreKept'
  BY StoreSteps
<1>3. StoreKept => PersistTypeOK /\ LeaseExcludes
  BY DEF StoreKept, RunKept, Entitled, LeaseExcludes
<1> QED BY <1>1, <1>2, <1>3, PTL DEF PersistSpec

-----------------------------------------------------------------------------
(* The cluster lease.                                                      *)

(* What "healthy" has to mean: nobody stalls, a request takes no longer    *)
(* than the renewal's own timeout, and MaxFails renewals that fail in a    *)
(* row, the acquisition's latency before them and that of the renewal      *)
(* after them fit into LeaseDuration.                                      *)
Healthy ==
    /\ Slow = {}
    /\ MaxLatency <= RenewEvery
    /\ (MaxFails + 1) * RenewEvery + MaxLatency + MaxLatency <= Duration

(* The runs that answer for the object: until its delete is sent off, a    *)
(* run that releases does.                                                 *)
Mine(r) == pc[r] \in {"holding", "renewing", "reread", "releasing"}

(* Ticks since the tick the renewal loop last served.                      *)
Clock(r) == phase[r] + (IF pending[r] THEN RenewEvery ELSE 0)

(* Renewals that may have passed since the object's stamp, the one that    *)
(* comes next included: a copy that is not fresh was stored, with its      *)
(* answer lost, by one of the renewals counted as failed.                  *)
Rounds(r) == fails[r] + (IF r \in fresh THEN 1 ELSE 0)

Held(r) ==
    /\ Mine(r) => lease.exists /\ lease.holder = r /\ fresh \subseteq {r}
    /\ pc[r] \in {"idle", "create", "takeover"} => ~pending[r] /\ fails[r] = 0
    /\ pc[r] \notin {"idle", "over", "dead"} => copy[r] = r

(* A healthy run's request is answered in time.                            *)
Answered(r) ==
    /\ pc[r] \in {"create", "takeover", "reread", "releasing"} => flight[r] <= MaxLatency
    /\ pc[r] = "renewing" => /\ flight[r] <= RenewEvery
                             /\ fails[r] = MaxFails => flight[r] <= MaxLatency

(* How old the object can be, wherever its holder is.                      *)
Timely(r) ==
    /\ Works(r) /\ pending[r] => phase[r] = 0
    /\ pc[r] \in {"renewing", "reread"} =>
         /\ flight[r] = Clock(r)
         /\ lease.age <= MaxLatency + Rounds(r) * RenewEvery + flight[r]
    /\ pc[r] = "reread" => r \notin fresh
    /\ pc[r] = "holding" =>
         lease.age + RenewEvery <= MaxLatency + Rounds(r) * RenewEvery + Clock(r)
    /\ pc[r] = "releasing" =>
         lease.age <= MaxLatency + (MaxFails + 1) * RenewEvery + flight[r]

Mourning ==
    /\ mourned <= lease.age
    /\ mourned > 0 => lease.holder \in Runs /\ pc[lease.holder] = "dead"
    /\ lease.exists => lease.holder \in Runs

RunLease(r) == Held(r) /\ Answered(r) /\ Timely(r)

LeaseKept == TypeOK /\ Mourning /\ \A r \in Runs : RunLease(r)

(* Rounds in ticks.                                                        *)
LEMMA InTicks ==
    \A n, m \in Nat : /\ n <= m => n * RenewEvery <= m * RenewEvery
                      /\ (n + 1) * RenewEvery = n * RenewEvery + RenewEvery
                      /\ n * RenewEvery \in Nat
BY KubeLockAssumption

(* fails is at most MaxFails, so Rounds is at most one more.               *)
LEMMA RoundsBound ==
    ASSUME LeaseKept, NEW r \in Runs
    PROVE  /\ Rounds(r) \in Nat
           /\ Rounds(r) <= MaxFails + 1
           /\ Rounds(r) * RenewEvery \in Nat
           /\ Rounds(r) * RenewEvery <= (MaxFails + 1) * RenewEvery
           /\ fails[r] < MaxFails => Rounds(r) * RenewEvery + RenewEvery <= (MaxFails + 1) * RenewEvery
<1>1. Rounds(r) \in Nat /\ Rounds(r) <= MaxFails + 1 /\ (fails[r] < MaxFails => Rounds(r) + 1 <= MaxFails + 1)
  BY KubeLockAssumption DEF LeaseKept, TypeOK, Rounds
<1>2. MaxFails + 1 \in Nat /\ Rounds(r) + 1 \in Nat
  BY <1>1, KubeLockAssumption
<1> QED BY <1>1, <1>2, InTicks

(* A lease whose holder answers for it has not expired.                    *)
LEMMA MineIsCurrent ==
    ASSUME Healthy, LeaseKept, NEW r \in Runs, Mine(r)
    PROVE  lease.exists /\ lease.holder = r /\ fresh \subseteq {r} /\ lease.age <= Duration /\ ~Expired
<1>1. /\ lease.age \in Nat /\ phase[r] \in Nat /\ phase[r] < RenewEvery
      /\ flight[r] \in Nat /\ fails[r] \in 0 .. MaxFails /\ pending[r] \in BOOLEAN
  BY KubeLockAssumption DEF LeaseKept, TypeOK, Oldest
<1>2. Held(r) /\ Answered(r) /\ Timely(r)
  BY DEF LeaseKept, RunLease
<1>3. lease.age <= Duration
  <2> DEFINE all == (MaxFails + 1) * RenewEvery
  <2> DEFINE rounds == Rounds(r) * RenewEvery
  <2>1. /\ rounds \in Nat /\ all \in Nat /\ rounds <= all
        /\ fails[r] < MaxFails => rounds + RenewEvery <= all
    BY RoundsBound, InTicks, KubeLockAssumption
  <2>2. all + MaxLatency + MaxLatency <= Duration /\ MaxLatency <= RenewEvery
    BY DEF Healthy
  <2>3. CASE pc[r] = "holding"
    <3>1. lease.age + RenewEvery <= MaxLatency + rounds + Clock(r) /\ Clock(r) \in Nat /\ Clock(r) <= RenewEvery
      BY <1>1, <1>2, <2>3, KubeLockAssumption DEF Timely, Works, Clock
    <3> HIDE DEF all, rounds
    <3> QED BY <1>1, <2>1, <2>2, <3>1, KubeLockAssumption
  <2>4. CASE pc[r] \in {"renewing", "reread"}
    <3>1. lease.age <= MaxLatency + rounds + flight[r]
      BY <1>2, <2>4 DEF Timely
    <3>2. \/ flight[r] <= MaxLatency
          \/ fails[r] < MaxFails /\ flight[r] <= RenewEvery
      BY <1>1, <1>2, <2>4, KubeLockAssumption DEF Answered
    <3> HIDE DEF all, rounds
    <3> QED BY <1>1, <2>1, <2>2, <3>1, <3>2, KubeLockAssumption
  <2>5. CASE pc[r] = "releasing"
    <3>1. lease.age <= MaxLatency + all + flight[r] /\ flight[r] <= MaxLatency
      BY <1>2, <2>5 DEF Timely, Answered
    <3> HIDE DEF all, rounds
    <3> QED BY <1>1, <2>1, <2>2, <3>1, KubeLockAssumption
  <2> QED BY <2>3, <2>4, <2>5 DEF Mine
<1> QED BY <1>1, <1>2, <1>3, KubeLockAssumption DEF Held, Expired

(* Of two runs that answer for the object each is its holder.              *)
LEMMA Alone ==
    ASSUME Healthy, LeaseKept, NEW r \in Runs, NEW s \in Runs, Mine(r), Mine(s)
    PROVE  r = s
BY MineIsCurrent

(* A run that a step of another one leaves alone, with the object if that  *)
(* is its own, keeps what is said of it.                                   *)
LEMMA Untouched ==
    ASSUME NEW s \in Runs, RunLease(s),
           pc'[s] = pc[s], copy'[s] = copy[s], flight'[s] = flight[s],
           phase'[s] = phase[s], pending'[s] = pending[s], fails'[s] = fails[s],
           Mine(s) => lease' = lease /\ fresh' = fresh
    PROVE  RunLease(s)'
<1>1. Held(s)'
  BY DEF RunLease, Held, Mine
<1>2. Answered(s)'
  BY DEF RunLease, Answered
<1>3. Timely(s)'
  <2>1. CASE Mine(s)
    BY <2>1 DEF RunLease, Timely, Mine, Works, Clock, Rounds
  <2>2. CASE ~Mine(s)
    BY <2>2 DEF Timely, Mine, Works
  <2> QED BY <2>1, <2>2
<1> QED BY <1>1, <1>2, <1>3 DEF RunLease

(* The holder's own step: everybody else has nothing to lose.              *)
LEMMA ByHolder ==
    ASSUME Healthy, LeaseKept, NEW r \in Runs, Mine(r), TypeOK', Mourning', RunLease(r)',
           \A s \in Runs \ {r} : /\ pc'[s] = pc[s] /\ copy'[s] = copy[s] /\ flight'[s] = flight[s]
                                 /\ phase'[s] = phase[s] /\ pending'[s] = pending[s] /\ fails'[s] = fails[s]
    PROVE  LeaseKept'
<1>1. ASSUME NEW s \in Runs \ {r} PROVE RunLease(s)'
  <2>1. ~Mine(s)
    BY Alone
  <2>2. RunLease(s)
    BY DEF LeaseKept
  <2> QED BY <2>1, <2>2, Untouched
<1> QED BY <1>1 DEF LeaseKept

(* A step that leaves the object alone.                                    *)
LEMMA Aside ==
    ASSUME LeaseKept, NEW r \in Runs, TypeOK', Mourning', RunLease(r)',
           UNCHANGED <<lease, fresh>>,
           \A s \in Runs \ {r} : /\ pc'[s] = pc[s] /\ copy'[s] = copy[s] /\ flight'[s] = flight[s]
                                 /\ phase'[s] = phase[s] /\ pending'[s] = pending[s] /\ fails'[s] = fails[s]
    PROVE  LeaseKept'
<1>1. ASSUME NEW s \in Runs \ {r} PROVE RunLease(s)'
  BY Untouched DEF LeaseKept
<1> QED BY <1>1 DEF LeaseKept

(* Death cannot be undone: a step of a living run that leaves the object   *)
(* and the count of its holder's death alone.                              *)
LEMMA MournsOn ==
    ASSUME LeaseKept, NEW r \in Runs, pc[r] # "dead", UNCHANGED <<lease, mourned>>,
           \A s \in Runs \ {r} : pc'[s] = pc[s], TypeOK'
    PROVE  Mourning'
<1>1. mourned' <= lease'.age
  BY DEF LeaseKept, Mourning
<1>2. ASSUME mourned > 0 PROVE lease.holder \in Runs /\ pc'[lease.holder] = "dead"
  BY <1>2 DEF LeaseKept, Mourning
<1>3. lease.exists => lease.holder \in Runs
  BY DEF LeaseKept, Mourning
<1> QED BY <1>1, <1>2, <1>3 DEF Mourning

(* TryAcquire reads: an expired lease has nobody who answers for it.       *)
LEMMA Reads ==
    ASSUME Healthy, LeaseKept, NEW r \in Runs, Read(r)
    PROVE  LeaseKept'
<1>1. TypeOK'
  BY KubeLockAssumption DEF LeaseKept, TypeOK, Read, Goto, Send, InFlight, Oldest, local
<1>2. Mourning'
  BY <1>1, MournsOn DEF LeaseKept, TypeOK, Read, Goto
<1>3. RunLease(r)'
  <2>1. Held(r)'
    BY DEF Read, Goto, LeaseKept, TypeOK, RunLease, Held, Mine, local
  <2>2. Answered(r)'
    BY KubeLockAssumption DEF Read, Goto, Send, LeaseKept, TypeOK, Answered
  <2>3. Timely(r)'
    BY DEF Read, Goto, LeaseKept, TypeOK, Timely, Works
  <2> QED BY <2>1, <2>2, <2>3 DEF RunLease
<1>4. ASSUME NEW s \in Runs \ {r} PROVE RunLease(s)'
  <2>1. RunLease(s)
    BY DEF LeaseKept
  <2>2. Mine(s) => fresh' = fresh /\ lease' = lease
    BY MineIsCurrent DEF Read
  <2> QED BY <2>1, <2>2, Untouched DEF Read, Goto, Send, LeaseKept, TypeOK, local
<1> QED BY <1>1, <1>2, <1>3, <1>4 DEF LeaseKept

(* TryAcquire writes: nobody who answers for the object loses it, since    *)
(* the version a take-over carries is then no longer the object's.         *)
LEMMA WinsFromNobody ==
    ASSUME Healthy, LeaseKept, NEW r \in Runs, Wins(r), NEW s \in Runs
    PROVE  ~Mine(s)
<1>1. ~Mine(r)
  BY DEF Wins, Mine
<1> QED BY <1>1, MineIsCurrent DEF Wins

(* The write of TryAcquire, whether its answer comes or not.               *)
LEMMA TakesTheLease ==
    ASSUME Healthy, LeaseKept, NEW r \in Runs,
           Acquire(r) \/ (\E done \in BOOLEAN : AcquireLost(r, done))
    PROVE  LeaseKept'
<1>0. /\ pc[r] \in {"create", "takeover"} /\ RunLease(r)
      /\ pc'[r] \in {"holding", "over"} /\ (pc'[r] = "holding" => Wins(r) /\ phase'[r] = 0 /\ Store(r, r))
      /\ (Wins(r) /\ Store(r, r)) \/ UNCHANGED <<lease, fresh, mourned>>
      /\ UNCHANGED <<copy, flight, pending, fails>>
      /\ \A s \in Runs \ {r} : pc'[s] = pc[s] /\ phase'[s] = phase[s]
  BY DEF Acquire, AcquireLost, Goto, LeaseKept, TypeOK, local
<1>1. TypeOK'
  <2>1. lease' \in [exists : BOOLEAN, holder : Runs \cup {None}, age : 0 .. Oldest] /\ fresh' \subseteq Runs /\ mourned' \in 0 .. Oldest
    <3>1. flight[r] \in 0 .. Oldest /\ 0 \in 0 .. Oldest
      BY KubeLockAssumption DEF LeaseKept, TypeOK, Oldest
    <3>2. CASE Store(r, r)
      <4>1. lease' = [exists |-> TRUE, holder |-> r, age |-> flight[r]] /\ fresh' = {r} /\ mourned' = 0
        BY <3>2 DEF Store
      <4> QED BY <3>1, <4>1
    <3>3. CASE UNCHANGED <<lease, fresh, mourned>>
      BY <3>3 DEF LeaseKept, TypeOK
    <3> QED BY <1>0, <3>2, <3>3
  <2>2. pc' \in [Runs -> {"idle", "holding", "over", "dead"} \cup InFlight] /\ phase' \in [Runs -> 0 .. RenewEvery - 1]
    BY KubeLockAssumption DEF Acquire, AcquireLost, Goto, LeaseKept, TypeOK, local
  <2> QED BY <1>0, <2>1, <2>2 DEF LeaseKept, TypeOK
<1>2. Mourning'
  <2>1. CASE Wins(r) /\ Store(r, r)
    BY <2>1, KubeLockAssumption DEF Store, Mourning, LeaseKept, TypeOK
  <2>2. CASE UNCHANGED <<lease, fresh, mourned>>
    BY <1>0, <1>1, <2>2, MournsOn
  <2> QED BY <1>0, <2>1, <2>2
<1>3. RunLease(r)'
  <2>1. Held(r)'
    BY <1>0 DEF Store, RunLease, Held, Mine
  <2>2. Answered(r)'
    BY <1>0 DEF Answered
  <2>3. Timely(r)'
    <3>1. CASE pc'[r] = "over"
      BY <3>1 DEF Timely, Works
    <3>2. CASE pc'[r] = "holding"
      <4>1. lease'.age = flight[r] /\ flight[r] \in Nat /\ flight[r] <= MaxLatency /\ ~pending'[r] /\ fails'[r] = 0 /\ r \in fresh'
        BY <1>0, <3>2, KubeLockAssumption DEF Store, RunLease, Held, Answered, LeaseKept, TypeOK
      <4>2. Rounds(r)' = 1 /\ Clock(r)' = 0
        BY <1>0, <3>2, <4>1 DEF Rounds, Clock
      <4>3. Rounds(r)' * RenewEvery = RenewEvery
        BY <4>2, KubeLockAssumption
      <4>4. (lease.age + RenewEvery <= MaxLatency + Rounds(r) * RenewEvery + Clock(r))'
        BY <4>1, <4>2, <4>3, KubeLockAssumption
      <4> QED BY <3>2, <4>1, <4>4 DEF Timely, Works
    <3> QED BY <1>0, <3>1, <3>2
  <2> QED BY <2>1, <2>2, <2>3 DEF RunLease
<1>4. ASSUME NEW s \in Runs \ {r} PROVE RunLease(s)'
  <2>1. RunLease(s)
    BY DEF LeaseKept
  <2>2. Mine(s) => fresh' = fresh /\ lease' = lease
    BY <1>0, WinsFromNobody
  <2> QED BY <1>0, <2>1, <2>2, Untouched
<1> QED BY <1>1, <1>2, <1>3, <1>4 DEF LeaseKept

(* A renewal begins when the loop takes the tick.                          *)
LEMMA RenewsStart ==
    ASSUME Healthy, LeaseKept, NEW r \in Runs, RenewStart(r)
    PROVE  LeaseKept'
<1>0. /\ pc[r] = "holding" /\ pc'[r] = "renewing" /\ flight'[r] = 0 /\ pending[r] /\ ~pending'[r]
      /\ phase'[r] = phase[r] /\ fails'[r] = fails[r] /\ fresh' = fresh /\ lease' = lease
      /\ copy'[r] = copy[r] /\ Mine(r) /\ RunLease(r)
  BY DEF RenewStart, Goto, Send, LeaseKept, TypeOK, Mine
<1>1. TypeOK'
  BY KubeLockAssumption DEF LeaseKept, TypeOK, RenewStart, Goto, Send, InFlight, Oldest
<1>2. Mourning'
  BY <1>0, <1>1, MournsOn DEF LeaseKept, TypeOK, RenewStart, Goto
<1>3. RunLease(r)'
  <2>1. Held(r)'
    BY <1>0 DEF RunLease, Held, Mine
  <2>2. Answered(r)'
    BY <1>0, KubeLockAssumption DEF Answered
  <2>3. Timely(r)'
    <3>1. phase[r] = 0 /\ Clock(r) = RenewEvery /\ Clock(r)' = 0 /\ Rounds(r)' = Rounds(r)
      BY <1>0, KubeLockAssumption DEF RunLease, Timely, Works, Clock, Rounds
    <3>2. lease.age + RenewEvery <= MaxLatency + Rounds(r) * RenewEvery + RenewEvery
      BY <1>0, <3>1 DEF RunLease, Timely
    <3>3. lease.age \in Nat /\ Rounds(r) * RenewEvery \in Nat
      BY RoundsBound, KubeLockAssumption DEF LeaseKept, TypeOK, Oldest
    <3>4. lease.age <= MaxLatency + Rounds(r) * RenewEvery + 0
      BY <3>2, <3>3, KubeLockAssumption
    <3> QED BY <1>0, <3>1, <3>4 DEF Timely, Works
  <2> QED BY <2>1, <2>2, <2>3 DEF RunLease
<1> QED BY <1>0, <1>1, <1>2, <1>3, Aside DEF RenewStart, Goto, Send, LeaseKept, TypeOK

(* What UpdateLease stores of the holder's own copy, answered or not.      *)
LEMMA Stamped ==
    ASSUME Healthy, LeaseKept, NEW r \in Runs, pc[r] = "renewing", r \in fresh,
           lease' = [lease EXCEPT !.holder = copy[r], !.age = flight[r]]
    PROVE  /\ lease' \in [exists : BOOLEAN, holder : Runs \cup {None}, age : 0 .. Oldest]
           /\ lease'.exists /\ lease'.holder = r /\ lease'.age = flight[r] /\ mourned = 0
<1>1. RunLease(r) /\ Mine(r)
  BY DEF LeaseKept, Mine
<1>2. lease.exists /\ copy[r] = r /\ lease.holder = r
  BY <1>1 DEF RunLease, Held
<1>3. mourned = 0
  BY <1>2 DEF LeaseKept, Mourning, TypeOK
<1>4. /\ lease \in [exists : BOOLEAN, holder : Runs \cup {None}, age : 0 .. Oldest]
      /\ flight[r] \in 0 .. Oldest
  BY DEF LeaseKept, TypeOK
<1> QED BY <1>2, <1>3, <1>4

(* UpdateLease answers in time: the object is renewed, or the copy was     *)
(* outdated and is read again.                                             *)
LEMMA Renews ==
    ASSUME Healthy, LeaseKept, NEW r \in Runs, RenewUpdate(r)
    PROVE  LeaseKept'
<1>0. /\ pc[r] = "renewing" /\ flight[r] <= MaxLatency /\ Mine(r) /\ RunLease(r) /\ lease.exists
      /\ UNCHANGED <<copy, flight, phase, pending, mourned>>
  BY DEF RenewUpdate, Healthy, Mine, LeaseKept, RunLease, Held
<1>1. CASE r \in fresh
  <2>1. /\ lease' \in [exists : BOOLEAN, holder : Runs \cup {None}, age : 0 .. Oldest]
        /\ lease'.exists /\ lease'.holder = r /\ lease'.age = flight[r] /\ mourned = 0
        /\ fresh' = {r} /\ fails' = [fails EXCEPT ![r] = 0] /\ pc' = [pc EXCEPT ![r] = "holding"]
    BY <1>0, <1>1, Stamped DEF RenewUpdate, Goto
  <2>2. /\ flight[r] \in 0 .. Oldest /\ flight[r] \in Nat /\ phase[r] \in Nat /\ pending[r] \in BOOLEAN
        /\ flight[r] = Clock(r)
    BY <1>0, KubeLockAssumption DEF LeaseKept, TypeOK, Oldest, RunLease, Timely
  <2>3. TypeOK'
    BY <1>0, <2>1, <2>2, KubeLockAssumption DEF LeaseKept, TypeOK
  <2>4. Mourning'
    BY <1>0, <2>1, <2>2 DEF Mourning
  <2>5. RunLease(r)'
    <3>1. pc'[r] = "holding" /\ fails'[r] = 0
      BY <2>1 DEF LeaseKept, TypeOK
    <3>2. Held(r)'
      BY <1>0, <2>1, <3>1 DEF RunLease, Held, Mine
    <3>3. Answered(r)'
      BY <3>1 DEF Answered
    <3>4. Clock(r)' = Clock(r) /\ Rounds(r)' = 1
      BY <1>0, <2>1, <3>1 DEF Clock, Rounds
    <3>5. Rounds(r)' * RenewEvery = RenewEvery
      BY <3>4, KubeLockAssumption
    <3>6. (lease.age + RenewEvery <= MaxLatency + Rounds(r) * RenewEvery + Clock(r))'
      BY <2>1, <2>2, <3>4, <3>5, KubeLockAssumption
    <3>7. Timely(r)'
      BY <1>0, <3>1, <3>6 DEF Timely, Works, RunLease
    <3> QED BY <3>2, <3>3, <3>7 DEF RunLease
  <2> QED BY <1>0, <2>1, <2>3, <2>4, <2>5, ByHolder DEF LeaseKept, TypeOK
<1>2. CASE r \notin fresh
  <2>1. UNCHANGED <<lease, fresh, fails>> /\ pc' = [pc EXCEPT ![r] = "reread"]
    BY <1>0, <1>2 DEF RenewUpdate, Goto
  <2>2. TypeOK'
    BY <1>0, <2>1 DEF LeaseKept, TypeOK, InFlight
  <2>3. Mourning'
    BY <1>0, <2>1, <2>2, MournsOn DEF LeaseKept, TypeOK
  <2>4. RunLease(r)'
    <3>1. pc'[r] = "reread"
      BY <2>1 DEF LeaseKept, TypeOK
    <3>2. Held(r)'
      BY <1>0, <2>1, <3>1 DEF RunLease, Held, Mine
    <3>3. Answered(r)'
      BY <1>0, <3>1 DEF Answered
    <3>4. Clock(r)' = Clock(r) /\ Rounds(r)' = Rounds(r)
      BY <1>0, <2>1 DEF Clock, Rounds
    <3>5. Timely(r)'
      BY <1>0, <1>2, <2>1, <3>1, <3>4 DEF Timely, Works, RunLease
    <3> QED BY <3>2, <3>3, <3>5 DEF RunLease
  <2> QED BY <1>0, <2>1, <2>2, <2>3, <2>4, ByHolder DEF LeaseKept, TypeOK
<1> QED BY <1>1, <1>2

(* GetLease after a conflict: the object is the run's own.                 *)
LEMMA ReReads ==
    ASSUME Healthy, LeaseKept, NEW r \in Runs, ReRead(r)
    PROVE  LeaseKept'
<1>0. /\ pc[r] = "reread" /\ Mine(r) /\ RunLease(r) /\ lease.exists /\ lease.holder = r /\ r \notin fresh
      /\ fresh \subseteq {r} /\ copy' = [copy EXCEPT ![r] = r] /\ fresh' = {r}
      /\ pc' = [pc EXCEPT ![r] = "holding"]
      /\ UNCHANGED <<lease, flight, phase, pending, fails, mourned>>
  <2>1. pc[r] = "reread" /\ Mine(r) /\ RunLease(r)
    BY DEF ReRead, Mine, LeaseKept
  <2>2. lease.exists /\ lease.holder = r /\ r \notin fresh /\ fresh \subseteq {r}
    BY <2>1 DEF RunLease, Held, Timely
  <2> QED BY <2>1, <2>2 DEF ReRead, Goto, local
<1>1. TypeOK'
  BY <1>0 DEF LeaseKept, TypeOK
<1>2. Mourning'
  BY <1>0, <1>1, MournsOn DEF LeaseKept, TypeOK
<1>3. RunLease(r)'
  <2>1. pc'[r] = "holding" /\ copy'[r] = r
    BY <1>0 DEF LeaseKept, TypeOK
  <2>2. Held(r)'
    BY <1>0, <2>1 DEF Held, Mine
  <2>3. Answered(r)'
    BY <2>1 DEF Answered
  <2>4. /\ Clock(r)' = Clock(r) /\ Rounds(r)' = Rounds(r) + 1
        /\ lease.age <= MaxLatency + Rounds(r) * RenewEvery + Clock(r)
        /\ (Works(r) /\ pending[r] => phase[r] = 0)
    BY <1>0 DEF Clock, Rounds, RunLease, Timely, LeaseKept, TypeOK
  <2>5. (Rounds(r) + 1) * RenewEvery = Rounds(r) * RenewEvery + RenewEvery /\ Rounds(r) * RenewEvery \in Nat
    BY RoundsBound, InTicks
  <2>6. lease.age \in Nat /\ Clock(r) \in Nat
    BY KubeLockAssumption DEF LeaseKept, TypeOK, Clock, Oldest
  <2>7. (lease.age + RenewEvery <= MaxLatency + Rounds(r) * RenewEvery + Clock(r))'
    BY <1>0, <2>4, <2>5, <2>6, KubeLockAssumption
  <2>8. Timely(r)'
    BY <1>0, <2>1, <2>4, <2>7 DEF Timely, Works
  <2> QED BY <2>2, <2>3, <2>8 DEF RunLease
<1> QED BY <1>0, <1>1, <1>2, <1>3, ByHolder DEF LeaseKept, TypeOK

(* A renewal fails, or is carried out and its answer lost: one round less  *)
(* is left, and if the object was stamped one round is gained.             *)
LEMMA RenewalFails ==
    ASSUME Healthy, LeaseKept, NEW r \in Runs, NEW done \in BOOLEAN, RenewFails(r, done)
    PROVE  LeaseKept'
<1>0. /\ pc[r] \in {"renewing", "reread"} /\ Mine(r) /\ RunLease(r) /\ fails[r] < MaxFails
      /\ fails' = [fails EXCEPT ![r] = @ + 1] /\ pc' = [pc EXCEPT ![r] = "holding"]
      /\ UNCHANGED <<copy, flight, phase, pending, mourned>>
  BY DEF RenewFails, Mine, LeaseKept, Goto
<1>1. /\ pc'[r] = "holding" /\ fails'[r] = fails[r] + 1 /\ fails[r] \in Nat /\ lease.age \in Nat
      /\ flight[r] \in Nat /\ Clock(r) \in Nat /\ Clock(r)' = Clock(r) /\ flight[r] = Clock(r)
      /\ lease.age <= MaxLatency + Rounds(r) * RenewEvery + Clock(r)
      /\ (pending[r] => phase[r] = 0)
  BY <1>0, KubeLockAssumption DEF LeaseKept, TypeOK, Oldest, Clock, RunLease, Timely, Works
<1>2. fails' \in [Runs -> 0 .. MaxFails]
  BY <1>0, KubeLockAssumption DEF LeaseKept, TypeOK
<1>3. Answered(r)'
  BY <1>1 DEF Answered
<1>4. CASE done
  <2>1. /\ pc[r] = "renewing" /\ r \in fresh /\ fresh' = {}
        /\ lease' \in [exists : BOOLEAN, holder : Runs \cup {None}, age : 0 .. Oldest]
        /\ lease'.exists /\ lease'.holder = r /\ lease'.age = flight[r] /\ mourned = 0
    BY <1>4, Stamped DEF RenewFails
  <2>2. TypeOK'
    BY <1>0, <1>2, <2>1 DEF LeaseKept, TypeOK
  <2>3. Mourning'
    BY <1>0, <1>1, <2>1 DEF Mourning
  <2>4. Held(r)'
    BY <1>0, <1>1, <2>1 DEF RunLease, Held, Mine
  <2>5. Rounds(r)' \in Nat /\ 1 <= Rounds(r)'
    BY <1>1, <2>1 DEF Rounds
  <2>6. Rounds(r)' * RenewEvery \in Nat /\ RenewEvery <= Rounds(r)' * RenewEvery
    BY <2>5, KubeLockAssumption
  <2>7. (lease.age + RenewEvery <= MaxLatency + Rounds(r) * RenewEvery + Clock(r))'
    BY <1>1, <2>1, <2>6, KubeLockAssumption
  <2>8. Timely(r)'
    BY <1>0, <1>1, <2>7 DEF Timely, Works
  <2> QED BY <1>0, <1>3, <2>2, <2>3, <2>4, <2>8, ByHolder DEF RunLease, LeaseKept, TypeOK
<1>5. CASE ~done
  <2>1. UNCHANGED <<lease, fresh>>
    BY <1>5 DEF RenewFails
  <2>2. TypeOK'
    BY <1>0, <1>2, <2>1 DEF LeaseKept, TypeOK
  <2>3. Mourning'
    BY <1>0, <2>1, <2>2, MournsOn DEF LeaseKept, TypeOK
  <2>4. Held(r)'
    BY <1>0, <1>1, <2>1 DEF RunLease, Held, Mine
  <2>5. Rounds(r)' = Rounds(r) + 1 /\ Rounds(r) \in Nat
    BY <1>1, <2>1 DEF Rounds
  <2>6. Rounds(r)' * RenewEvery = Rounds(r) * RenewEvery + RenewEvery /\ Rounds(r) * RenewEvery \in Nat
    BY <2>5, InTicks
  <2>7. (lease.age + RenewEvery <= MaxLatency + Rounds(r) * RenewEvery + Clock(r))'
    BY <1>1, <2>1, <2>6, KubeLockAssumption
  <2>8. Timely(r)'
    BY <1>0, <1>1, <2>7 DEF Timely, Works
  <2> QED BY <1>0, <1>3, <2>1, <2>2, <2>3, <2>4, <2>8, ByHolder DEF RunLease, LeaseKept, TypeOK
<1> QED BY <1>4, <1>5

(* Release: the object was renewed recently enough to outlast the delete.  *)
LEMMA Releasing ==
    ASSUME Healthy, LeaseKept, NEW r \in Runs, Release(r)
    PROVE  LeaseKept'
<1>0. /\ pc[r] = "holding" /\ Mine(r) /\ RunLease(r)
      /\ pc' = [pc EXCEPT ![r] = "releasing"] /\ flight' = [flight EXCEPT ![r] = 0]
      /\ UNCHANGED <<lease, fresh, copy, phase, pending, fails, mourned>>
  BY DEF Release, Mine, LeaseKept, Goto, Send, local
<1>1. TypeOK'
  BY <1>0, KubeLockAssumption DEF LeaseKept, TypeOK, InFlight, Oldest
<1>2. Mourning'
  BY <1>0, <1>1, MournsOn DEF LeaseKept, TypeOK
<1>3. RunLease(r)'
  <2>1. pc'[r] = "releasing" /\ flight'[r] = 0
    BY <1>0 DEF LeaseKept, TypeOK
  <2>2. Held(r)'
    BY <1>0, <2>1 DEF RunLease, Held, Mine
  <2>3. Answered(r)'
    BY <2>1, KubeLockAssumption DEF Answered
  <2>4. /\ lease.age + RenewEvery <= MaxLatency + Rounds(r) * RenewEvery + Clock(r)
        /\ Clock(r) \in Nat /\ Clock(r) <= RenewEvery /\ lease.age \in Nat
    BY <1>0, KubeLockAssumption DEF RunLease, Timely, Works, Clock, LeaseKept, TypeOK, Oldest
  <2>5. /\ Rounds(r) * RenewEvery \in Nat /\ (MaxFails + 1) * RenewEvery \in Nat
        /\ Rounds(r) * RenewEvery <= (MaxFails + 1) * RenewEvery
    BY RoundsBound, InTicks, KubeLockAssumption
  <2>6. lease.age <= MaxLatency + (MaxFails + 1) * RenewEvery + 0
    BY <2>4, <2>5, KubeLockAssumption
  <2>7. Timely(r)'
    BY <1>0, <2>1, <2>6 DEF Timely, Works
  <2> QED BY <2>2, <2>3, <2>7 DEF RunLease
<1> QED BY <1>0, <1>1, <1>2, <1>3, ByHolder DEF LeaseKept, TypeOK

(* The delete, its failure and a death leave a run that answers for        *)
(* nothing any more.                                                       *)
LEMMA Ends ==
    ASSUME Healthy, LeaseKept, NEW r \in Runs, Delete(r) \/ DeleteFails(r) \/ Dies(r)
    PROVE  LeaseKept'
<1>0. /\ pc[r] # "dead" /\ \E p \in {"over", "dead"} : pc' = [pc EXCEPT ![r] = p]
      /\ UNCHANGED <<copy, flight, phase, pending, fails>>
      /\ \/ pc[r] = "releasing" /\ lease' = NoLease /\ fresh' = {} /\ mourned' = 0
         \/ UNCHANGED <<lease, fresh, mourned>>
  BY DEF Delete, DeleteFails, Dies, Goto, local
<1>1. TypeOK'
  <2>1. pc' \in [Runs -> {"idle", "holding", "over", "dead"} \cup InFlight]
    BY <1>0 DEF LeaseKept, TypeOK
  <2>2. CASE UNCHANGED <<lease, fresh, mourned>>
    BY <1>0, <2>1, <2>2 DEF LeaseKept, TypeOK
  <2>3. CASE lease' = NoLease /\ fresh' = {} /\ mourned' = 0
    BY <1>0, <2>1, <2>3, KubeLockAssumption DEF LeaseKept, TypeOK, NoLease, Oldest
  <2> QED BY <1>0, <2>2, <2>3
<1>2. Mourning'
  <2>1. CASE UNCHANGED <<lease, fresh, mourned>>
    BY <1>0, <1>1, <2>1, MournsOn DEF LeaseKept, TypeOK
  <2>2. CASE lease' = NoLease /\ fresh' = {} /\ mourned' = 0
    BY <2>2 DEF Mourning, NoLease
  <2> QED BY <1>0, <2>1, <2>2
<1>3. RunLease(r)'
  <2>1. pc'[r] \in {"over", "dead"}
    BY <1>0 DEF LeaseKept, TypeOK
  <2> QED BY <2>1 DEF RunLease, Held, Answered, Timely, Mine, Works
<1>4. ASSUME UNCHANGED <<lease, fresh, mourned>> PROVE LeaseKept'
  BY <1>0, <1>1, <1>2, <1>3, <1>4, Aside DEF LeaseKept, TypeOK
<1>5. ASSUME pc[r] = "releasing" PROVE LeaseKept'
  BY <1>0, <1>1, <1>2, <1>3, <1>5, ByHolder DEF LeaseKept, TypeOK, Mine
<1> QED BY <1>0, <1>4, <1>5

(* The ticker of a run that works: a tick later, its clock is one later.   *)
LEMMA TickerTicks ==
    ASSUME Healthy, LeaseKept, Tick, NEW r \in Runs
    PROVE  /\ Works(r) => ~pending[r] /\ Clock(r)' = Clock(r) + 1 /\ Clock(r) + 1 <= RenewEvery
                          /\ (pending'[r] => phase'[r] = 0)
           /\ ~Works(r) => phase'[r] = phase[r] /\ pending'[r] = pending[r]
           /\ pc[r] \in InFlight => flight'[r] = flight[r] + 1
           /\ pc[r] \notin InFlight => flight'[r] = flight[r]
           /\ phase'[r] \in 0 .. RenewEvery - 1 /\ pending'[r] \in BOOLEAN /\ flight'[r] \in 0 .. Oldest
<1> DEFINE ticking == {q \in Runs : pc[q] \in {"holding", "renewing", "reread"}}
<1>1. /\ phase[r] \in Nat /\ phase[r] < RenewEvery /\ pending[r] \in BOOLEAN
      /\ flight[r] \in Nat /\ flight[r] <= Oldest
      /\ RenewEvery \in Nat /\ RenewEvery > 0 /\ MaxLatency \in Nat /\ Duration \in Nat
  BY KubeLockAssumption DEF LeaseKept, TypeOK, Oldest
<1>2. /\ phase'[r] = (IF r \in ticking THEN (phase[r] + 1) % RenewEvery ELSE phase[r])
      /\ pending'[r] = (pending[r] \/ (r \in ticking /\ phase'[r] = 0))
      /\ flight'[r] = (IF pc[r] \in InFlight THEN Older(flight[r]) ELSE flight[r])
      /\ Prompt(r) /\ RunLease(r)
  BY DEF Tick, Healthy, LeaseKept
<1>3. r \in ticking <=> Works(r)
  BY DEF Works
<1>4. phase[r] + 1 < RenewEvery => (phase[r] + 1) % RenewEvery = phase[r] + 1
  BY <1>1
<1>5. phase[r] + 1 = RenewEvery => (phase[r] + 1) % RenewEvery = 0
  BY <1>1
<1>6. RenewEvery <= Duration
  <2>1. /\ (MaxFails + 1) * RenewEvery + MaxLatency + MaxLatency <= Duration
        /\ RenewEvery <= (MaxFails + 1) * RenewEvery /\ (MaxFails + 1) * RenewEvery \in Nat
    <3>1. MaxFails \in Nat /\ 1 <= MaxFails + 1 /\ 1 * RenewEvery = RenewEvery
      BY <1>1, KubeLockAssumption
    <3> QED BY <3>1, InTicks DEF Healthy
  <2> QED BY <1>1, <2>1
<1>7. pc[r] \in InFlight => flight[r] < RenewEvery
  BY <1>1, <1>2 DEF Prompt, Healthy
<1>8. Works(r) => ~pending[r]
  <2>1. CASE pc[r] = "holding"
    BY <1>2, <2>1 DEF Prompt
  <2>2. CASE pc[r] \in {"renewing", "reread"}
    <3>1. flight[r] = Clock(r) /\ flight[r] < RenewEvery
      BY <1>2, <1>7, <2>2 DEF RunLease, Timely, InFlight
    <3> QED BY <1>1, <3>1 DEF Clock
  <2> QED BY <2>1, <2>2 DEF Works
<1>9. ASSUME Works(r)
      PROVE  Clock(r)' = Clock(r) + 1 /\ Clock(r) + 1 <= RenewEvery /\ (pending'[r] => phase'[r] = 0)
  <2>1. CASE phase[r] + 1 < RenewEvery
    BY <1>1, <1>2, <1>3, <1>4, <1>8, <1>9, <2>1 DEF Clock
  <2>2. CASE phase[r] + 1 = RenewEvery
    <3>1. phase'[r] = 0 /\ pending'[r] = TRUE
      BY <1>2, <1>3, <1>5, <1>9, <2>2
    <3> QED BY <1>1, <1>8, <1>9, <2>2, <3>1 DEF Clock
  <2> QED BY <1>1, <2>1, <2>2
<1>10. phase'[r] \in 0 .. RenewEvery - 1
  BY <1>1, <1>2, <1>4, <1>5
<1>11. flight'[r] \in 0 .. Oldest /\ (pc[r] \in InFlight => flight'[r] = flight[r] + 1)
  BY <1>1, <1>2, <1>6, <1>7 DEF Older, Oldest
<1> QED BY <1>1, <1>2, <1>3, <1>8, <1>9, <1>10, <1>11

(* Time passes: what is said of each run allows for it.                    *)
LEMMA TimePasses ==
    ASSUME Healthy, LeaseKept, Tick
    PROVE  LeaseKept'
<1>0. /\ lease' = (IF lease.exists THEN [lease EXCEPT !.age = Older(@)] ELSE lease)
      /\ mourned' = (IF lease.exists /\ pc[lease.holder] = "dead" THEN Older(mourned) ELSE mourned)
      /\ UNCHANGED <<fresh, pc, copy, fails>>
  BY DEF Tick
<1>1. /\ lease' \in [exists : BOOLEAN, holder : Runs \cup {None}, age : 0 .. Oldest]
      /\ lease'.exists = lease.exists /\ lease'.holder = lease.holder
      /\ lease'.age = (IF lease.exists THEN Older(lease.age) ELSE lease.age)
      /\ lease.age \in 0 .. Oldest /\ lease.age \in Nat /\ mourned \in 0 .. Oldest
  <2>1. lease \in [exists : BOOLEAN, holder : Runs \cup {None}, age : 0 .. Oldest] /\ mourned \in 0 .. Oldest
    BY DEF LeaseKept, TypeOK
  <2>2. \A n \in 0 .. Oldest : Older(n) \in 0 .. Oldest /\ n \in Nat
    BY KubeLockAssumption DEF Older, Oldest
  <2> QED BY <1>0, <2>1, <2>2
<1>2. TypeOK'
  <2>1. mourned' \in 0 .. Oldest
    BY <1>0, <1>1, KubeLockAssumption DEF Older, Oldest
  <2>2. /\ flight' = [r \in Runs |-> flight'[r]] /\ phase' = [r \in Runs |-> phase'[r]]
        /\ pending' = [r \in Runs |-> pending'[r]]
    BY DEF Tick
  <2>3. \A r \in Runs : phase'[r] \in 0 .. RenewEvery - 1 /\ pending'[r] \in BOOLEAN /\ flight'[r] \in 0 .. Oldest
    BY TickerTicks
  <2>4. phase' \in [Runs -> 0 .. RenewEvery - 1] /\ pending' \in [Runs -> BOOLEAN] /\ flight' \in [Runs -> 0 .. Oldest]
    BY <2>2, <2>3
  <2> QED BY <1>0, <1>1, <2>1, <2>4 DEF LeaseKept, TypeOK
<1>3. Mourning'
  <2>1. mourned' <= lease'.age
    BY <1>0, <1>1, KubeLockAssumption DEF LeaseKept, Mourning, Older, Oldest
  <2>2. mourned' > 0 => mourned > 0 \/ (lease.exists /\ pc[lease.holder] = "dead")
    BY <1>0, <1>1
  <2> QED BY <1>0, <1>1, <2>1, <2>2 DEF LeaseKept, Mourning
<1>4. ASSUME NEW r \in Runs PROVE RunLease(r)'
  <2>0. RunLease(r) /\ Prompt(r)
    BY DEF LeaseKept, Tick, Healthy
  <2>1. Held(r)'
    <3>1. pc[r] \in {"idle", "create", "takeover"} => pending'[r] = pending[r]
      BY TickerTicks DEF Works
    <3> QED BY <1>0, <1>1, <2>0, <3>1 DEF RunLease, Held, Mine
  <2>2. flight[r] \in Nat /\ fails[r] \in 0 .. MaxFails /\ Rounds(r)' = Rounds(r) /\ Rounds(r) * RenewEvery \in Nat
    BY <1>0, RoundsBound, KubeLockAssumption DEF LeaseKept, TypeOK, Oldest, Rounds
  <2>3. Answered(r)'
    BY <1>0, <2>0, <2>2, TickerTicks, KubeLockAssumption DEF Answered, Prompt, InFlight, Healthy
  <2>4. lease'.age <= lease.age + 1 /\ lease'.age \in Nat
    BY <1>1, KubeLockAssumption DEF Older, Oldest
  <2>5. Timely(r)'
    <3>1. CASE pc[r] = "holding"
      <4>1. /\ lease.age + RenewEvery <= MaxLatency + Rounds(r) * RenewEvery + Clock(r)
            /\ Clock(r)' = Clock(r) + 1 /\ Clock(r) \in Nat /\ (pending'[r] => phase'[r] = 0)
        BY <2>0, <3>1, TickerTicks, KubeLockAssumption DEF RunLease, Timely, Works, Clock, LeaseKept, TypeOK
      <4>2. (lease.age + RenewEvery <= MaxLatency + Rounds(r) * RenewEvery + Clock(r))'
        BY <1>1, <2>2, <2>4, <4>1, KubeLockAssumption
      <4> QED BY <1>0, <3>1, <4>1, <4>2 DEF Timely, Works
    <3>2. CASE pc[r] \in {"renewing", "reread"}
      <4>1. /\ lease.age <= MaxLatency + Rounds(r) * RenewEvery + flight[r] /\ flight[r] = Clock(r)
            /\ Clock(r)' = Clock(r) + 1 /\ flight'[r] = flight[r] + 1 /\ (pending'[r] => phase'[r] = 0)
            /\ (pc[r] = "reread" => r \notin fresh)
        BY <2>0, <3>2, TickerTicks DEF RunLease, Timely, Works, InFlight
      <4>2. (lease.age <= MaxLatency + Rounds(r) * RenewEvery + flight[r])'
        BY <1>1, <2>2, <2>4, <4>1, KubeLockAssumption
      <4> QED BY <1>0, <3>2, <4>1, <4>2 DEF Timely, Works
    <3>3. CASE pc[r] = "releasing"
      <4>1. lease.age <= MaxLatency + (MaxFails + 1) * RenewEvery + flight[r] /\ flight'[r] = flight[r] + 1
        BY <2>0, <3>3, TickerTicks DEF RunLease, Timely, InFlight
      <4>2. (MaxFails + 1) * RenewEvery \in Nat
        BY KubeLockAssumption, InTicks
      <4>3. lease'.age <= MaxLatency + (MaxFails + 1) * RenewEvery + flight'[r]
        BY <1>1, <2>2, <2>4, <4>1, <4>2, KubeLockAssumption
      <4> QED BY <1>0, <3>3, <4>3 DEF Timely, Works
    <3>4. CASE ~Mine(r)
      BY <1>0, <3>4 DEF Mine, Timely, Works
    <3> QED BY <3>1, <3>2, <3>3, <3>4 DEF Mine
  <2> QED BY <2>1, <2>3, <2>5 DEF RunLease
<1> QED BY <1>2, <1>3, <1>4 DEF LeaseKept

(* The invariant, step by step.                                            *)
LEMMA LeaseSteps ==
    ASSUME Healthy, LeaseKept, [Next]_vars
    PROVE  LeaseKept'
<1>1. CASE UNCHANGED vars
  <2>1. \A r \in Runs : RunLease(r)'
    BY <1>1 DEF LeaseKept, RunLease, Held, Answered, Timely, Mine, Works, Clock, Rounds, vars, local
  <2> QED BY <1>1, <2>1 DEF LeaseKept, TypeOK, Mourning, vars, local
<1>2. ASSUME NEW r \in Runs, Read(r) PROVE LeaseKept'
  BY <1>2, Reads
<1>3. ASSUME NEW r \in Runs, Acquire(r) \/ (\E done \in BOOLEAN : AcquireLost(r, done)) PROVE LeaseKept'
  BY <1>3, TakesTheLease
<1>4. ASSUME NEW r \in Runs, RenewStart(r) PROVE LeaseKept'
  BY <1>4, RenewsStart
<1>5. ASSUME NEW r \in Runs, RenewUpdate(r) PROVE LeaseKept'
  BY <1>5, Renews
<1>6. ASSUME NEW r \in Runs, ReRead(r) PROVE LeaseKept'
  BY <1>6, ReReads
<1>7. ASSUME NEW r \in Runs, NEW done \in BOOLEAN, RenewFails(r, done) PROVE LeaseKept'
  BY <1>7, RenewalFails
<1>8. ASSUME NEW r \in Runs, Release(r) PROVE LeaseKept'
  BY <1>8, Releasing
<1>9. ASSUME NEW r \in Runs, Delete(r) \/ DeleteFails(r) \/ Dies(r) PROVE LeaseKept'
  BY <1>9, Ends
<1>10. CASE Tick
  BY <1>10, TimePasses
<1> QED BY <1>1, <1>2, <1>3, <1>4, <1>5, <1>6, <1>7, <1>8, <1>9, <1>10 DEF Next

(* Nobody has the lease at first.                                          *)
LEMMA LeaseStarts == Init => LeaseKept
<1> SUFFICES ASSUME Init PROVE LeaseKept
  OBVIOUS
<1>1. TypeOK
  BY KubeLockAssumption DEF Init, TypeOK, NoLease, Oldest
<1>2. Mourning
  BY DEF Init, Mourning, NoLease
<1>3. \A r \in Runs : RunLease(r)
  BY DEF Init, RunLease, Held, Answered, Timely, Mine, Works
<1> QED BY <1>1, <1>2, <1>3 DEF LeaseKept

(* "this loop keeps a healthy holder holding" (kubelock.go, renew) and     *)
(* LeaseDuration's "two consecutive renewals can fail without the lease    *)
(* expiring" (locker.go), with the arithmetic they need: for any number of *)
(* runs, whoever works in the workspace is the holder of a lease that has  *)
(* not expired, nobody else works there, and a dead holder's lease         *)
(* expires, if the failures that may follow one another and two request    *)
(* latencies fit into the duration.                                        *)
THEOREM HealthyHolderKeepsHolding ==
    ASSUME Healthy
    PROVE  Spec => [](ClusterLeaseHolds /\ HealthyExclusive)
<1>1. Init => LeaseKept
  BY LeaseStarts
<1>2. LeaseKept /\ [Next]_vars => LeaseKept'
  BY LeaseSteps
<1>3. LeaseKept => ClusterLeaseHolds /\ HealthyExclusive
  <2> SUFFICES ASSUME LeaseKept PROVE ClusterLeaseHolds /\ HealthyExclusive
    OBVIOUS
  <2>1. KeepsHolding
    BY MineIsCurrent DEF KeepsHolding, Works, Mine
  <2>2. DeadLeaseExpires
    BY KubeLockAssumption DEF LeaseKept, Mourning, DeadLeaseExpires, Expired, TypeOK, Oldest
  <2>3. HealthyExclusive
    BY Alone DEF HealthyExclusive, Works, Mine
  <2> QED BY <2>1, <2>2, <2>3 DEF ClusterLeaseHolds
<1> QED BY <1>1, <1>2, <1>3, PTL DEF Spec

-----------------------------------------------------------------------------
(* Notifications.                                                          *)

Said == {"dropped", "failed", "delivered"}
Offered == Dests \X (1..emitted)
Closed == flush \in {"reporting", "returned"}

NotifyTypes ==
  /\ emitted \in 0..MaxEvents /\ (flush # "no" => emitted = MaxEvents)
  /\ nq \in [Dests -> Seq(Nat)] /\ sending \in [Dests -> Nat] /\ try \in [Dests -> Nat]
  /\ toldOf \in [Dests -> Seq(Nat)]
  /\ reports \in Seq(Dests \X Nat \X Said) /\ Len(reports) <= ReportDepth
  /\ noted \subseteq Dests \X Nat \X Said /\ unrecorded \subseteq Dests \X Nat \X Said
  /\ lost \in Nat /\ abandoned \subseteq Dests
  /\ id \in [Dests -> Nat] /\ runs \in [Dests -> Nat] /\ completed \in [Dests -> SUBSET Nat]

\* The queue, the worker and the far end see the events in their order.
SeenInOrder(d) ==
  /\ sending[d] \in 0..emitted
  /\ \A i \in 1..Len(nq[d]) : nq[d][i] \in 1..emitted /\ sending[d] < nq[d][i]
  /\ \A i, j \in 1..Len(nq[d]) : i < j => nq[d][i] < nq[d][j]
  /\ \A k \in 1..Len(toldOf[d]) :
       /\ toldOf[d][k] \in 1..emitted /\ (sending[d] # 0 => toldOf[d][k] <= sending[d])
       /\ \A i \in 1..Len(nq[d]) : toldOf[d][k] < nq[d][i]
  /\ \A j, k \in 1..Len(toldOf[d]) : j < k => toldOf[d][j] <= toldOf[d][k]

\* Which (destination, event) pairs have an outcome, and which are still with
\* their destination.
Settlements == {<<o[1], o[2]>> : o \in Outcomes}
StillHeld == {p \in Offered : Pending(p[1], p[2])}

\* Nothing is in two of the three places: held, skipped, settled.
OnePlace ==
  /\ Settlements \subseteq Offered /\ skipped \subseteq Offered
  /\ Settlements \cap StillHeld = {} /\ Settlements \cap skipped = {} /\ StillHeld \cap skipped = {}
  /\ \A o, p \in Outcomes : o[1] = p[1] /\ o[2] = p[2] => o = p

Unnamed == {p \in Silent : p[1] \notin abandoned}

\* What is in none of them is counted, or its destination is named.
Counted ==
  /\ ~Closed => abandoned = {} /\ lost = Cardinality(Silent)
  /\ Closed => \A d \in Dests \ abandoned : Drained(d)
  /\ Cardinality(Unnamed) <= lost /\ lost <= Cardinality(Silent)

Times(s, e) == {i \in DOMAIN s : s[i] = e}
ToldTruly ==
  /\ \A o \in Outcomes : /\ o[3] = "delivered" => o[2] \in Range(toldOf[o[1]])
                         /\ o[3] = "dropped" => o[2] \notin Range(toldOf[o[1]])
  /\ \A d \in Dests : flavour[d] # "hook" /\ <<d, RunFinished, "delivered">> \in Outcomes => id[d] \in completed[d]
ToldEnough(d) ==
  /\ \A e \in 1..emitted : Cardinality(Times(toldOf[d], e)) <= Attempts
  /\ sending[d] # 0 => try[d] <= Attempts /\ Cardinality(Times(toldOf[d], sending[d])) <= try[d]

NotifyKept ==
  /\ NotifyTypes /\ (\A d \in Dests : SeenInOrder(d)) /\ OnePlace /\ Counted /\ ToldTruly
  /\ (\A d \in Dests : ToldEnough(d))

\* What the range of a queue is after an append, and before its head is taken.
LEMMA RangeSteps ==
  ASSUME NEW S, NEW s \in Seq(S), NEW e \in S
  PROVE  /\ Range(Append(s, e)) = Range(s) \cup {e}
         /\ s # <<>> => /\ Range(s) = {Head(s)} \cup Range(Tail(s))
                        /\ Head(s) \in S /\ Tail(s) \in Seq(S) /\ Len(Tail(s)) = Len(s) - 1
<1>1. Range(Append(s, e)) = Range(s) \cup {e}
  <2>1. /\ Append(s, e) \in Seq(S) /\ Len(Append(s, e)) = Len(s) + 1 /\ Append(s, e)[Len(s) + 1] = e
        /\ \A i \in 1..Len(s) : Append(s, e)[i] = s[i]
        /\ DOMAIN Append(s, e) = 1..(Len(s) + 1) /\ DOMAIN s = 1..Len(s) /\ Len(s) \in Nat
    BY AppendProperties, LenProperties
  <2> QED
    BY <2>1 DEF Range
<1>2. ASSUME s # <<>>
      PROVE  /\ Range(s) = {Head(s)} \cup Range(Tail(s))
             /\ Head(s) \in S /\ Tail(s) \in Seq(S) /\ Len(Tail(s)) = Len(s) - 1
  <2>1. /\ Head(s) \in S /\ Tail(s) \in Seq(S) /\ Len(Tail(s)) = Len(s) - 1 /\ Head(s) = s[1]
        /\ \A i \in 1..Len(Tail(s)) : Tail(s)[i] = s[i + 1]
        /\ DOMAIN s = 1..Len(s) /\ DOMAIN Tail(s) = 1..(Len(s) - 1) /\ Len(s) \in Nat /\ Len(s) > 0
    BY <1>2, HeadTailProperties, LenProperties, EmptySeq
  <2>2. ASSUME NEW x \in Range(s) PROVE x \in {Head(s)} \cup Range(Tail(s))
    <3>1. PICK i \in 1..Len(s) : x = s[i]
      BY <2>1, <2>2 DEF Range
    <3>2. CASE i = 1
      BY <3>1, <3>2, <2>1
    <3>3. CASE i # 1
      <4>1. (i - 1) \in 1..Len(Tail(s)) /\ Tail(s)[i - 1] = s[(i - 1) + 1] /\ (i - 1) + 1 = i
        BY <2>1, <3>3
      <4> QED
        BY <4>1, <3>1, <2>1 DEF Range
    <3> QED
      BY <3>2, <3>3
  <2>3. ASSUME NEW x \in {Head(s)} \cup Range(Tail(s)) PROVE x \in Range(s)
    BY <2>1, <2>3 DEF Range
  <2> QED
    BY <2>1, <2>2, <2>3
<1> QED
  BY <1>1, <1>2

\* SetToSeq lists a finite set, each element once.
LEMMA SetAsSeq ==
  ASSUME NEW S, IsFiniteSet(S)
  PROVE  /\ SetToSeq(S) \in Seq(S) /\ Len(SetToSeq(S)) = Cardinality(S) /\ Range(SetToSeq(S)) = S
         /\ Cardinality(S) \in Nat
         /\ \A i, j \in 1..Cardinality(S) : SetToSeq(S)[i] = SetToSeq(S)[j] => i = j
<1> DEFINE n == Cardinality(S)
           q == SetToSeq(S)
<1>1. n \in Nat /\ ExistsBijection(1..n, S)
  BY FS_CardinalityType
<1>2. \E f \in [1..n -> S] : IsInjective(f)
  BY <1>1 DEF ExistsBijection, Bijection, Injection
<1>3. q \in [1..n -> S] /\ IsInjective(q)
  BY <1>2 DEF SetToSeq
<1>4. IsFiniteSet(1..n) /\ Cardinality(1..n) = n
  BY <1>1, FS_Interval
<1>5. q \in Injection(1..n, S)
  BY <1>3 DEF Injection
<1>6. q \in Surjection(1..n, S)
  BY <1>5, <1>4, FS_Injection
<1>7. DOMAIN q = 1..n /\ q \in Seq(S) /\ Len(q) = n
  BY <1>3, <1>1
<1>8. Range(q) = S
  BY <1>6, <1>7, <1>3 DEF Surjection, Range
<1> QED
  BY <1>1, <1>3, <1>7, <1>8 DEF IsInjective

\* Hearing of an event once more.
LEMMA TimesTold ==
  ASSUME NEW s \in Seq(Nat), NEW x \in Nat, NEW e \in Nat
  PROVE  /\ IsFiniteSet(Times(s, e)) /\ Cardinality(Times(s, e)) \in Nat
         /\ Cardinality(Times(Append(s, x), e)) =
              IF x = e THEN Cardinality(Times(s, e)) + 1 ELSE Cardinality(Times(s, e))
<1>1. /\ Append(s, x) \in Seq(Nat) /\ Len(Append(s, x)) = Len(s) + 1 /\ Append(s, x)[Len(s) + 1] = x
      /\ \A i \in 1..Len(s) : Append(s, x)[i] = s[i]
      /\ DOMAIN Append(s, x) = 1..(Len(s) + 1) /\ DOMAIN s = 1..Len(s) /\ Len(s) \in Nat
  BY AppendProperties, LenProperties
<1>2. IsFiniteSet(Times(s, e)) /\ Cardinality(Times(s, e)) \in Nat
  <2>1. Times(s, e) \in SUBSET (1..Len(s)) /\ IsFiniteSet(1..Len(s))
    BY <1>1, FS_Interval DEF Times
  <2> QED
    BY <2>1, FS_Subset, FS_CardinalityType
<1>3. Times(Append(s, x), e) = IF x = e THEN Times(s, e) \cup {Len(s) + 1} ELSE Times(s, e)
  BY <1>1 DEF Times
<1>4. Len(s) + 1 \notin Times(s, e)
  BY <1>1 DEF Times
<1> QED
  BY <1>2, <1>3, <1>4, FS_AddElement

\* One outcome offered to the report queue: it is queued, or counted, or comes
\* after Close.
LEMMA OneReport ==
  ASSUME NotifyTypes, NEW o \in Dests \X Nat \X Said, Report(<<o>>)
  PROVE  /\ reports' \in Seq(Dests \X Nat \X Said) /\ Len(reports') <= ReportDepth
         /\ \/ ~Closed /\ Range(reports') = Range(reports) \cup {o} /\ lost' = lost
            \/ ~Closed /\ reports' = reports /\ lost' = lost + 1
            \/ Closed  /\ reports' = reports /\ lost' = lost
<1> DEFINE T == Dests \X Nat \X Said
<1>1. /\ reports \in Seq(T) /\ Len(reports) <= ReportDepth /\ Len(reports) \in Nat /\ ReportDepth \in Nat
      /\ lost \in Nat
  BY NotifyAssumption, LenProperties DEF NotifyTypes
<1>2. CASE Closed
  BY <1>1, <1>2 DEF Report, Closed
<1>3. CASE ~Closed /\ Len(reports) < ReportDepth
  <2>1. <<o>> \in Seq(T) /\ Len(<<o>>) = 1 /\ 1 <= ReportDepth - Len(reports)
    BY <1>1, <1>3
  <2>2. reports' = reports \o <<o>> /\ lost' = lost + (1 - 1)
    BY <1>3, <2>1 DEF Report, Closed
  <2>3. reports \o <<o>> = Append(reports, o)
    BY <1>1, AppendIsConcat
  <2>4. reports' = Append(reports, o) /\ lost' = lost
    BY <2>2, <2>3, <1>1
  <2>5. Append(reports, o) \in Seq(T) /\ Len(Append(reports, o)) = Len(reports) + 1
    BY <1>1, AppendProperties
  <2>6. Range(Append(reports, o)) = Range(reports) \cup {o}
    BY <1>1, RangeSteps
  <2> QED
    BY <2>4, <2>5, <2>6, <1>1, <1>3
<1>4. CASE ~Closed /\ ~(Len(reports) < ReportDepth)
  <2>1. <<o>> \in Seq(T) /\ Len(<<o>>) = 1 /\ ReportDepth - Len(reports) = 0 /\ ~(1 <= 0)
    BY <1>1, <1>4
  <2>2. SubSeq(<<o>>, 1, 0) = <<>>
    BY SubSeqEmpty
  <2>3. reports' = reports \o <<>> /\ lost' = lost + (1 - 0)
    BY <1>4, <2>1, <2>2 DEF Report, Closed
  <2>4. reports' = reports /\ lost' = lost + 1
    BY <2>3, <1>1, ConcatEmptySeq
  <2> QED
    BY <2>4, <1>1, <1>4
<1> QED
  BY <1>2, <1>3, <1>4

\* What an outcome adds to the reports, the count and the skipped events.
Adds(d, what) ==
  \/ what = "skip" /\ reports' = reports /\ lost' = lost /\ skipped' = skipped \cup {<<d, sending[d]>>}
  \/ /\ what \in Said /\ ~Closed /\ skipped' = skipped
     /\ Range(reports') = Range(reports) \cup {<<d, sending[d], what>>} /\ lost' = lost
  \/ what \in Said /\ ~Closed /\ skipped' = skipped /\ reports' = reports /\ lost' = lost + 1
  \/ what \in Said /\ Closed /\ skipped' = skipped /\ reports' = reports /\ lost' = lost

\* The worker's event leaves it with an outcome.
LEMMA SettledAdds ==
  ASSUME NotifyTypes, NEW d \in Dests, NEW what \in Said \cup {"skip"}, Settled(d, what)
  PROVE  /\ sending' = [sending EXCEPT ![d] = 0]
         /\ reports' \in Seq(Dests \X Nat \X Said) /\ Len(reports') <= ReportDepth
         /\ Adds(d, what)
<1>1. CASE what = "skip"
  BY <1>1 DEF Settled, Adds, NotifyTypes
<1>2. CASE what # "skip"
  <2>1. <<d, sending[d], what>> \in Dests \X Nat \X Said /\ what \in Said
    BY <1>2 DEF NotifyTypes
  <2>2. /\ sending' = [sending EXCEPT ![d] = 0] /\ skipped' = skipped
        /\ Report(<<<<d, sending[d], what>>>>)
    BY <1>2 DEF Settled
  <2> HIDE DEF Said
  <2> DEFINE o == <<d, sending[d], what>>
  <2>3. o \in Dests \X Nat \X Said /\ Report(<<o>>)
    BY <2>1, <2>2
  <2> HIDE DEF o
  <2>4. /\ reports' \in Seq(Dests \X Nat \X Said) /\ Len(reports') <= ReportDepth
        /\ \/ ~Closed /\ Range(reports') = Range(reports) \cup {o} /\ lost' = lost
           \/ ~Closed /\ reports' = reports /\ lost' = lost + 1
           \/ Closed  /\ reports' = reports /\ lost' = lost
    BY <2>3, OneReport
  <2> QED
    BY <2>1, <2>2, <2>4 DEF Adds, o
<1> QED
  BY <1>1, <1>2

\* What a request may have done at the far end, and to the attempts.
Asks(d) ==
  \/ toldOf' = toldOf /\ try' = try
  \/ toldOf' = toldOf /\ try[d] < Attempts /\ try' = [try EXCEPT ![d] = @ + 1]
  \/ /\ toldOf' = [toldOf EXCEPT ![d] = Append(@, sending[d])]
     /\ try[d] < Attempts /\ try' = [try EXCEPT ![d] = @ + 1]

\* What a worker with an event in hand does, whichever way it goes.
WorkerSteps(d) ==
  /\ sending[d] # 0 /\ Asks(d)
  /\ UNCHANGED <<emitted, nq, noted, unrecorded, flush, aborted, abandoned, flavour>>
  /\ \/ UNCHANGED <<sending, reports, lost, skipped>>
     \/ Settled(d, "skip") \/ Settled(d, "failed")
     \/ /\ Settled(d, "delivered") /\ toldOf' = [toldOf EXCEPT ![d] = Append(@, sending[d])]
        /\ flavour[d] # "hook" /\ sending[d] = RunFinished => id'[d] \in completed'[d]
  /\ id' \in [Dests -> Nat] /\ runs' \in [Dests -> Nat] /\ completed' \in [Dests -> SUBSET Nat]
  /\ \A c \in Dests : completed[c] \subseteq completed'[c] /\ (id'[c] = id[c] \/ (c = d /\ sending[d] = 1))

\* A request that landed left the check runs typed and only completes.
LEMMA LandedChecks ==
  ASSUME NotifyTypes, NEW d \in Dests, Landed(d)
  PROVE  /\ runs' \in [Dests -> Nat] /\ completed' \in [Dests -> SUBSET Nat]
         /\ \A c \in Dests : completed[c] \subseteq completed'[c]
         /\ Wanted(d) = "complete" => id[d] \in completed'[d]
<1> DEFINE w == Wanted(d)
<1>1. /\ runs' = [runs EXCEPT ![d] = IF w = "create" THEN @ + 1 ELSE @]
      /\ completed' = [completed EXCEPT ![d] = IF w = "complete" THEN @ \cup {id[d]} ELSE @]
      /\ runs \in [Dests -> Nat] /\ completed \in [Dests -> SUBSET Nat] /\ id[d] \in Nat
  BY DEF Landed, NotifyTypes
<1> HIDE DEF w
<1>2. runs' \in [Dests -> Nat]
  BY <1>1
<1>3. /\ completed' \in [Dests -> SUBSET Nat] /\ \A c \in Dests : completed[c] \subseteq completed'[c]
      /\ w = "complete" => id[d] \in completed'[d]
  BY <1>1
<1> QED
  BY <1>2, <1>3 DEF w

\* Every request is one of those.
LEMMA WorkerWorks ==
  ASSUME NotifyTypes, NEW d \in Dests,
         buildRequest(d) \/ Delivered(d) \/ Unanswered(d) \/ Refused(d)
  PROVE  WorkerSteps(d)
<1>0. id \in [Dests -> Nat] /\ runs \in [Dests -> Nat] /\ completed \in [Dests -> SUBSET Nat]
  BY DEF NotifyTypes
<1>1. CASE buildRequest(d)
  <2>1. UNCHANGED <<toldOf, try, id, runs, completed, emitted, nq, noted, unrecorded, flush, aborted, abandoned, flavour>>
    BY <1>1 DEF buildRequest, checkVars
  <2>2. sending[d] # 0 /\ (UNCHANGED <<sending, reports, lost, skipped>> \/ Settled(d, "skip") \/ Settled(d, "failed"))
    BY <1>1 DEF buildRequest
  <2> QED
    BY <1>0, <2>1, <2>2 DEF WorkerSteps, Asks
<1>2. CASE Delivered(d)
  <2>1. /\ sending[d] # 0 /\ Settled(d, "delivered") /\ Landed(d) /\ try[d] < Attempts /\ Tries(d)
        /\ toldOf' = [toldOf EXCEPT ![d] = Append(@, sending[d])]
        /\ UNCHANGED <<emitted, nq, noted, unrecorded, flush, aborted, abandoned, flavour>>
    BY <1>2 DEF Delivered, Landed
  <2>2. Asks(d)
    BY <2>1 DEF Asks, Tries
  <2>3. PICK known \in (IF Wanted(d) = "create" THEN {runs[d] + 1, 0} ELSE {id[d]}) : id' = [id EXCEPT ![d] = known]
    BY <1>2 DEF Delivered
  <2>4. known \in Nat /\ (Wanted(d) # "create" => known = id[d])
    BY <2>3, <1>0
  <2>5. id' \in [Dests -> Nat] /\ \A c \in Dests : id'[c] = id[c] \/ (c = d /\ Wanted(d) = "create")
    BY <2>3, <2>4, <1>0
  <2>6. Wanted(d) = "create" => sending[d] = 1
    BY DEF Wanted
  <2>7. flavour[d] # "hook" /\ sending[d] = RunFinished => Wanted(d) = "complete"
    <3>1. Wanted(d) # "skip" /\ RunFinished # 1
      BY <1>2, NotifyAssumption DEF Delivered, RunFinished
    <3> QED
      BY <3>1 DEF Wanted
  <2>8. /\ runs' \in [Dests -> Nat] /\ completed' \in [Dests -> SUBSET Nat]
        /\ \A c \in Dests : completed[c] \subseteq completed'[c]
        /\ Wanted(d) = "complete" => id[d] \in completed'[d]
    BY <2>1, LandedChecks
  <2>9. flavour[d] # "hook" /\ sending[d] = RunFinished => id'[d] \in completed'[d]
    BY <2>7, <2>8, <2>3, <2>4, <1>0
  <2> QED
    BY <2>1, <2>2, <2>5, <2>6, <2>8, <2>9 DEF WorkerSteps
<1>3. CASE Unanswered(d)
  <2>1. /\ sending[d] # 0 /\ try[d] < Attempts /\ Tries(d) /\ id' = id
        /\ UNCHANGED <<emitted, nq, noted, unrecorded, flush, aborted, abandoned, flavour>>
        /\ Settled(d, "failed") \/ UNCHANGED <<sending, reports, lost, skipped>>
        /\ Landed(d) \/ NotLanded
    BY <1>3 DEF Unanswered, Retry
  <2>2. Asks(d)
    BY <2>1 DEF Asks, Tries, Landed, NotLanded
  <2>3. /\ runs' \in [Dests -> Nat] /\ completed' \in [Dests -> SUBSET Nat]
        /\ \A c \in Dests : completed[c] \subseteq completed'[c]
    BY <2>1, <1>0, LandedChecks DEF NotLanded
  <2> QED
    BY <1>0, <2>1, <2>2, <2>3 DEF WorkerSteps
<1>4. CASE Refused(d)
  <2>1. /\ sending[d] # 0 /\ try[d] < Attempts /\ Tries(d) /\ id' = id /\ NotLanded /\ Settled(d, "failed")
        /\ UNCHANGED <<emitted, nq, noted, unrecorded, flush, aborted, abandoned, flavour>>
    BY <1>4 DEF Refused
  <2> QED
    BY <1>0, <2>1 DEF WorkerSteps, Asks, Tries, NotLanded
<1> QED
  BY <1>1, <1>2, <1>3, <1>4

\* An event offered to full queues: some of the drops are queued as outcomes, the
\* others are counted.
LEMMA EmitAdds ==
  ASSUME NotifyTypes, Emit
  PROVE  \E full \in SUBSET Dests : \E kept \in SUBSET full :
           /\ nq' = [d \in Dests |-> IF d \in full THEN nq[d] ELSE Append(nq[d], emitted + 1)]
           /\ Range(reports') = Range(reports) \cup {<<d, emitted + 1, "dropped">> : d \in kept}
           /\ lost' = lost + Cardinality(full \ kept) /\ IsFiniteSet(full \ kept)
           /\ reports' \in Seq(Dests \X Nat \X Said) /\ Len(reports') <= ReportDepth
           /\ ~Closed
<1> DEFINE T == Dests \X Nat \X Said
           n == emitted + 1
           full == {d \in Dests : Len(nq[d]) >= QueueDepth}
           S == {<<d, n, "dropped">> : d \in full}
           q == SetToSeq(S)
           room == ReportDepth - Len(reports)
           k == IF Len(q) <= room THEN Len(q) ELSE room
           kept == {d \in full : \E i \in 1..k : q[i] = <<d, n, "dropped">>}
<1>1. /\ reports \in Seq(T) /\ Len(reports) <= ReportDepth /\ Len(reports) \in Nat /\ ReportDepth \in Nat
      /\ lost \in Nat /\ n \in Nat /\ room \in Nat /\ IsFiniteSet(Dests)
  BY NotifyAssumption, LenProperties DEF NotifyTypes
<1>2. ~Closed
  BY NotifyAssumption DEF Emit, NotifyTypes, Closed
<1>3. /\ nq' = [d \in Dests |-> IF d \in full THEN nq[d] ELSE Append(nq[d], n)]
      /\ Report(q)
  BY DEF Emit
<1>4. IsFiniteSet(full)
  BY <1>1, FS_Subset
<1>5. IsFiniteSet(S)
  <2> DEFINE f == [d \in full |-> <<d, n, "dropped">>]
  <2> HIDE DEF full
  <2>1. f \in [full -> S] /\ DOMAIN f = full
    OBVIOUS
  <2>2. f \in Bijection(full, S)
    BY <2>1 DEF Bijection, Injection, Surjection, IsInjective
  <2> QED
    BY <2>2, <1>4, FS_Bijection DEF ExistsBijection
<1>6. S \subseteq T
  BY <1>1 DEF Said
<1> HIDE DEF full, S, q
<1>7. /\ q \in Seq(S) /\ Len(q) \in Nat /\ Range(q) = S /\ DOMAIN q = 1..Len(q)
      /\ \A i, j \in 1..Len(q) : q[i] = q[j] => i = j
      /\ \A i \in 1..Len(q) : q[i] \in S
  BY <1>5, SetAsSeq, LenProperties, ElementOfSeq DEF q
<1>8. k \in Nat /\ k <= Len(q) /\ k <= room
  BY <1>1, <1>7
<1>9. SubSeq(q, 1, k) \in Seq(T) /\ Len(SubSeq(q, 1, k)) = k /\ \A i \in 1..k : SubSeq(q, 1, k)[i] = q[i]
  <2>1. k \in Int /\ 1 \in Int /\ \A i \in 1..k : q[i] \in T
    BY <1>6, <1>7, <1>8
  <2> HIDE DEF k
  <2>2. /\ SubSeq(q, 1, k) \in Seq(T) /\ Len(SubSeq(q, 1, k)) = IF 1 <= k THEN k - 1 + 1 ELSE 0
        /\ \A i \in 1..(k - 1 + 1) : SubSeq(q, 1, k)[i] = q[1 + i - 1]
    BY <2>1, SubSeqProperties
  <2> QED
    BY <2>2, <1>8
<1>10. reports' = reports \o SubSeq(q, 1, k) /\ lost' = lost + (Len(q) - k)
  <2>1. CASE Len(q) <= room
    <3>1. SubSeq(q, 1, Len(q)) = q /\ k = Len(q)
      BY <2>1, <1>7, SubSeqFull
    <3>2. reports' = reports \o q /\ lost' = lost + (Len(q) - Len(q))
      BY <2>1, <1>2, <1>3 DEF Report, Closed
    <3> QED
      BY <3>1, <3>2
  <2>2. CASE ~(Len(q) <= room)
    <3>1. k = room
      BY <2>2
    <3>2. reports' = reports \o SubSeq(q, 1, room) /\ lost' = lost + (Len(q) - Len(SubSeq(q, 1, room)))
      BY <2>2, <1>2, <1>3 DEF Report, Closed
    <3> QED
      BY <3>1, <3>2, <1>9
  <2> QED
    BY <2>1, <2>2
<1> DEFINE r == SubSeq(q, 1, k)
<1> HIDE DEF k, room
<1>11. /\ reports' \in Seq(T) /\ Len(reports') = Len(reports) + k
       /\ \A i \in 1..(Len(reports) + k) : reports'[i] = IF i <= Len(reports) THEN reports[i] ELSE r[i - Len(reports)]
       /\ DOMAIN reports' = 1..(Len(reports) + k) /\ DOMAIN reports = 1..Len(reports)
  <2>1. r \in Seq(T) /\ Len(r) = k /\ reports' = reports \o r
    BY <1>9, <1>10
  <2> HIDE DEF r, T
  <2>2. /\ reports' \in Seq(T) /\ Len(reports') = Len(reports) + Len(r)
        /\ \A i \in 1..(Len(reports) + Len(r)) : reports'[i] = IF i <= Len(reports) THEN reports[i] ELSE r[i - Len(reports)]
    BY <1>1, <2>1, ConcatProperties
  <2>3. DOMAIN reports' = 1..Len(reports') /\ DOMAIN reports = 1..Len(reports)
    BY <1>1, <2>2, LenProperties
  <2> QED
    BY <2>1, <2>2, <2>3
<1>12. Range(reports') = Range(reports) \cup {q[i] : i \in 1..k}
  <2>1. ASSUME NEW x \in Range(reports') PROVE x \in Range(reports) \cup {q[i] : i \in 1..k}
    <3>1. PICK i \in 1..(Len(reports) + k) : x = reports'[i]
      BY <1>11, <2>1 DEF Range
    <3>2. CASE i <= Len(reports)
      <4>1. i \in 1..Len(reports) /\ x = reports[i]
        BY <3>1, <3>2, <1>11, <1>1, <1>8
      <4> QED
        BY <4>1, <1>11 DEF Range
    <3>3. CASE ~(i <= Len(reports))
      <4>1. x = r[i - Len(reports)]
        BY <3>1, <3>3, <1>11
      <4>2. i - Len(reports) \in 1..k
        BY <3>3, <1>1, <1>8
      <4> QED
        BY <4>1, <4>2, <1>9
    <3> QED
      BY <3>2, <3>3
  <2>2. ASSUME NEW x \in Range(reports) PROVE x \in Range(reports')
    <3>1. PICK i \in 1..Len(reports) : x = reports[i]
      BY <1>11, <2>2 DEF Range
    <3>2. i \in 1..(Len(reports) + k) /\ i <= Len(reports)
      BY <1>1, <1>8
    <3>3. reports'[i] = reports[i]
      BY <3>2, <1>11
    <3> QED
      BY <3>1, <3>2, <3>3, <1>11 DEF Range
  <2>3. ASSUME NEW i \in 1..k PROVE q[i] \in Range(reports')
    <3>1. i + Len(reports) \in 1..(Len(reports) + k) /\ ~(i + Len(reports) <= Len(reports))
          /\ (i + Len(reports)) - Len(reports) = i
      BY <1>1, <1>8
    <3>2. reports'[i + Len(reports)] = q[i]
      BY <3>1, <1>11, <1>9
    <3> QED
      BY <3>1, <3>2, <1>11 DEF Range
  <2> QED
    BY <2>1, <2>2, <2>3
<1>13. {q[i] : i \in 1..k} = {<<d, n, "dropped">> : d \in kept}
  <2>1. \A i \in 1..k : \E d \in full : q[i] = <<d, n, "dropped">>
    BY <1>7, <1>8 DEF S
  <2> QED
    BY <2>1
<1>14. Cardinality(full \ kept) = Len(q) - k /\ IsFiniteSet(full \ kept)
  <2> DEFINE f == [i \in (k + 1)..Len(q) |-> q[i][1]]
             D == (k + 1)..Len(q)
  <2>1. \A i \in 1..Len(q) : q[i][1] \in full /\ q[i] = <<q[i][1], n, "dropped">>
    BY <1>7 DEF S
  <2>2. ASSUME NEW i \in D PROVE q[i][1] \in full \ kept
    <3>1. i \in 1..Len(q) /\ \A j \in 1..k : j \in 1..Len(q) /\ j # i
      BY <1>7, <1>8
    <3>2. q[i][1] \in full /\ \A j \in 1..k : q[j] # <<q[i][1], n, "dropped">>
      BY <3>1, <2>1, <1>7
    <3> QED
      BY <3>2
  <2>3. ASSUME NEW i \in D, NEW j \in D, q[i][1] = q[j][1] PROVE i = j
    <3>1. i \in 1..Len(q) /\ j \in 1..Len(q)
      BY <1>7, <1>8
    <3>2. q[i] = <<q[i][1], n, "dropped">> /\ q[j] = <<q[j][1], n, "dropped">>
      BY <3>1, <2>1
    <3>3. q[i] = q[j]
      BY <3>2, <2>3
    <3> QED
      BY <3>1, <3>3, <1>7
  <2>4. ASSUME NEW d \in full \ kept PROVE \E i \in D : q[i][1] = d
    <3>1. <<d, n, "dropped">> \in S
      BY DEF S
    <3>2. PICK i \in 1..Len(q) : q[i] = <<d, n, "dropped">>
      BY <3>1, <1>7 DEF Range
    <3>3. ~(i \in 1..k)
      BY <3>2
    <3>4. i \in D
      BY <3>3, <1>7, <1>8
    <3> QED
      BY <3>2, <3>4
  <2>5. f \in [D -> full \ kept] /\ DOMAIN f = D
    BY <2>2
  <2>6. f \in Bijection(D, full \ kept)
    BY <2>3, <2>4, <2>5 DEF Bijection, Injection, Surjection, IsInjective
  <2>7. IsFiniteSet(D) /\ Cardinality(D) = Len(q) - k
    <3>1. k + 1 \in Int /\ Len(q) \in Int
      BY <1>7, <1>8
    <3>2. IsFiniteSet(D) /\ Cardinality(D) = IF k + 1 > Len(q) THEN 0 ELSE Len(q) - (k + 1) + 1
      BY <3>1, FS_Interval
    <3> QED
      BY <3>2, <1>7, <1>8
  <2> QED
    BY <2>6, <2>7, FS_Bijection DEF ExistsBijection
<1>15. lost' = lost + Cardinality(full \ kept) /\ Len(reports') <= ReportDepth
  BY <1>1, <1>8, <1>10, <1>11, <1>14 DEF room
<1>16. Range(reports') = Range(reports) \cup {<<d, n, "dropped">> : d \in kept}
  BY <1>12, <1>13
<1> HIDE DEF kept
<1>17. kept \in SUBSET full /\ full \in SUBSET Dests
  BY DEF kept, full
<1> QED
  BY <1>2, <1>3, <1>11, <1>14, <1>15, <1>16, <1>17

\* Silence is being in none of the three places.
LEMMA SilentIs ==
  /\ Silent = Offered \ (Settlements \cup StillHeld \cup skipped)
  /\ Silent' = Offered' \ (Settlements' \cup StillHeld' \cup skipped')
<1>1. Silent = Offered \ (Settlements \cup StillHeld \cup skipped)
  <2>1. \A p \in Offered : For(p[1], p[2]) = {} <=> p \notin Settlements
    BY DEF For, Settlements, Offered
  <2> QED
    BY <2>1 DEF Silent, StillHeld, Offered
<1>2. Silent' = Offered' \ (Settlements' \cup StillHeld' \cup skipped')
  <2>1. \A p \in Offered' : For(p[1], p[2])' = {} <=> p \notin Settlements'
    BY DEF For, Settlements, Offered
  <2> QED
    BY <2>1 DEF Silent, StillHeld, Offered
<1> QED
  BY <1>1, <1>2

\* The silent are finitely many.
LEMMA SilentIsFinite ==
  ASSUME NotifyTypes
  PROVE  IsFiniteSet(Silent) /\ Cardinality(Silent) \in Nat /\ IsFiniteSet(Offered)
<1>1. IsFiniteSet(Dests) /\ IsFiniteSet(1..emitted)
  BY NotifyAssumption, FS_Interval DEF NotifyTypes
<1>2. IsFiniteSet(Offered)
  BY <1>1, FS_Product DEF Offered
<1>3. Silent \in SUBSET Offered
  BY SilentIs
<1> QED
  BY <1>2, <1>3, FS_Subset, FS_CardinalityType

\* Nothing about the places moves: nothing about them is lost.
LEMMA PlacesAside ==
  ASSUME OnePlace, Counted, Outcomes' = Outcomes, StillHeld' = StillHeld, Offered' = Offered,
         UNCHANGED <<skipped, lost, abandoned>>, Closed' <=> Closed,
         Closed => \A d \in Dests \ abandoned : Drained(d)'
  PROVE  OnePlace' /\ Counted'
<1>1. Settlements' = Settlements
  BY DEF Settlements
<1>2. OnePlace'
  BY <1>1 DEF OnePlace
<1>3. Silent' = Silent
  BY <1>1, SilentIs
<1>4. Unnamed' = Unnamed
  BY <1>3 DEF Unnamed
<1> QED
  BY <1>2, <1>3, <1>4 DEF Counted

\* An event leaves its worker with an outcome, or without one to skip.
LEMMA PlaceLeft ==
  ASSUME NotifyTypes, OnePlace, Counted, NEW d \in Dests, NEW what \in Said \cup {"skip"},
         <<d, sending[d]>> \in StillHeld, StillHeld' = StillHeld \ {<<d, sending[d]>>}, Adds(d, what),
         UNCHANGED <<emitted, noted, unrecorded, flush, abandoned>>,
         Closed => d \in abandoned /\ \A c \in Dests \ abandoned : Drained(c)'
  PROVE  OnePlace' /\ Counted'
<1> DEFINE p == <<d, sending[d]>>
<1>0. /\ Offered' = Offered /\ (Closed' <=> Closed) /\ p \in Offered /\ abandoned' = abandoned
      /\ IsFiniteSet(Silent) /\ Cardinality(Silent) \in Nat /\ p \notin Silent
  BY SilentIs, SilentIsFinite DEF Offered, Closed, StillHeld
<1>1. CASE Outcomes' = Outcomes /\ lost' = lost /\ skipped' = skipped \cup {p}
  <2>1. Settlements' = Settlements
    BY <1>1 DEF Settlements
  <2>2. OnePlace'
    BY <1>0, <1>1, <2>1 DEF OnePlace
  <2>3. Silent' = Silent
    BY <1>0, <1>1, <2>1, SilentIs DEF OnePlace
  <2>4. Unnamed' = Unnamed
    BY <1>0, <2>3 DEF Unnamed
  <2> QED
    BY <1>0, <1>1, <2>2, <2>3, <2>4 DEF Counted
<1>2. CASE Outcomes' = Outcomes \cup {<<d, sending[d], what>>} /\ lost' = lost /\ skipped' = skipped
  <2>1. Settlements' = Settlements \cup {p}
    <3>1. Settlements \subseteq Settlements'
      BY <1>2 DEF Settlements
    <3>2. \E o \in Outcomes' : o[1] = d /\ o[2] = sending[d]
      <4>1. <<d, sending[d], what>> \in Outcomes'
        BY <1>2
      <4> QED
        BY <4>1
    <3>3. p \in Settlements'
      BY <3>2 DEF Settlements
    <3>4. ASSUME NEW o \in Outcomes' PROVE <<o[1], o[2]>> \in Settlements \cup {p}
      BY <1>2 DEF Settlements
    <3> QED
      BY <3>1, <3>3, <3>4 DEF Settlements
  <2>2. OnePlace'
    <3>1. /\ Settlements' \subseteq Offered' /\ skipped' \subseteq Offered'
          /\ Settlements' \cap StillHeld' = {} /\ Settlements' \cap skipped' = {} /\ StillHeld' \cap skipped' = {}
      BY <1>0, <1>2, <2>1 DEF OnePlace
    <3>2. \A o \in Outcomes : ~(o[1] = d /\ o[2] = sending[d])
      BY DEF OnePlace, Settlements
    <3>3. \A o, r \in Outcomes' : o[1] = r[1] /\ o[2] = r[2] => o = r
      BY <3>2, <1>2 DEF OnePlace
    <3> QED
      BY <3>1, <3>3 DEF OnePlace
  <2>3. Silent' = Silent
    BY <1>0, <1>2, <2>1, SilentIs DEF OnePlace
  <2>4. Unnamed' = Unnamed
    BY <1>0, <2>3 DEF Unnamed
  <2> QED
    BY <1>0, <1>2, <2>2, <2>3, <2>4 DEF Counted
<1>3. CASE Outcomes' = Outcomes /\ skipped' = skipped
  <2>1. Settlements' = Settlements
    BY <1>3 DEF Settlements
  <2>2. OnePlace'
    BY <1>0, <1>3, <2>1 DEF OnePlace
  <2>3. Silent' = Silent \cup {p}
    BY <1>0, <1>3, <2>1, SilentIs DEF OnePlace
  <2>4. Cardinality(Silent') = Cardinality(Silent) + 1
    BY <1>0, <2>3, FS_AddElement
  <2>5. CASE ~Closed
    <3>1. lost' = lost + 1 \/ what = "skip" \/ p \in Settlements'
      BY <2>5 DEF Adds, Outcomes, Settlements
    <3>2. p \notin Settlements'
      BY <2>1 DEF OnePlace
    <3>3. what # "skip"
      BY <1>3 DEF Adds, OnePlace, Said
    <3>4. lost' = lost + 1 /\ abandoned = {} /\ lost = Cardinality(Silent)
      BY <2>5, <3>1, <3>2, <3>3 DEF Counted
    <3>5. Unnamed' = Silent'
      BY <1>0, <3>4 DEF Unnamed
    <3> QED
      BY <1>0, <2>2, <2>4, <2>5, <3>4, <3>5 DEF Counted
  <2>6. CASE Closed
    <3>1. lost' = lost /\ d \in abandoned
      BY <2>6 DEF Adds
    <3>2. Unnamed' = Unnamed
      BY <1>0, <2>3, <3>1 DEF Unnamed
    <3>3. lost \in Nat
      BY DEF NotifyTypes
    <3> QED
      BY <1>0, <2>2, <2>4, <2>6, <3>1, <3>2, <3>3 DEF Counted
  <2> QED
    BY <2>5, <2>6
<1> QED
  BY <1>1, <1>2, <1>3 DEF Adds, Outcomes

\* What is with a destination before and after its worker takes or leaves an event.
LEMMA StillHeldSteps ==
  ASSUME NotifyTypes, NEW d \in Dests, SeenInOrder(d), emitted' = emitted
  PROVE  /\ Take(d) => StillHeld' = StillHeld
         /\ sending[d] # 0 /\ nq' = nq /\ sending' = [sending EXCEPT ![d] = 0]
              => StillHeld' = StillHeld \ {<<d, sending[d]>>} /\ <<d, sending[d]>> \in StillHeld
<1>0. /\ nq \in [Dests -> Seq(Nat)] /\ sending \in [Dests -> Nat] /\ Offered' = Offered /\ emitted \in Nat
  BY NotifyAssumption DEF NotifyTypes, Offered
<1>1. ASSUME Take(d) PROVE StillHeld' = StillHeld
  <2>1. /\ sending[d] = 0 /\ nq[d] # <<>> /\ nq[d] \in Seq(Nat)
        /\ sending' = [sending EXCEPT ![d] = Head(nq[d])] /\ nq' = [nq EXCEPT ![d] = Tail(@)]
    BY <1>0, <1>1 DEF Take
  <2>2. Range(nq[d]) = {Head(nq[d])} \cup Range(Tail(nq[d]))
    BY <2>1, RangeSteps
  <2>3. \A p \in Offered : Pending(p[1], p[2])' <=> Pending(p[1], p[2])
    BY <1>0, <2>1, <2>2 DEF Pending, Offered
  <2> QED
    BY <1>0, <2>3 DEF StillHeld
<1>2. ASSUME sending[d] # 0, nq' = nq, sending' = [sending EXCEPT ![d] = 0]
      PROVE  StillHeld' = StillHeld \ {<<d, sending[d]>>} /\ <<d, sending[d]>> \in StillHeld
  <2>1. sending[d] \in 1..emitted /\ sending[d] \notin Range(nq[d])
    <3>1. DOMAIN nq[d] = 1..Len(nq[d]) /\ \A i \in 1..Len(nq[d]) : nq[d][i] \in Nat
      BY <1>0, LenProperties, ElementOfSeq
    <3>2. \A i \in 1..Len(nq[d]) : nq[d][i] # sending[d]
      BY <1>0, <3>1 DEF SeenInOrder
    <3> QED
      BY <1>0, <1>2, <3>1, <3>2 DEF SeenInOrder, Range
  <2>2. \A p \in Offered : Pending(p[1], p[2])' <=> Pending(p[1], p[2]) /\ p # <<d, sending[d]>>
    BY <1>0, <1>2, <2>1 DEF Pending, Offered
  <2>3. <<d, sending[d]>> \in StillHeld
    BY <2>1 DEF StillHeld, Offered, Pending
  <2> QED
    BY <1>0, <2>2, <2>3 DEF StillHeld
<1> QED
  BY <1>1, <1>2

\* The events of a destination stay in order when its worker works.
LEMMA OrderWorks ==
  ASSUME NotifyTypes, NEW d \in Dests, NEW c \in Dests, SeenInOrder(c), sending[d] # 0, Asks(d),
         UNCHANGED <<emitted, nq>>,
         sending' = sending \/ sending' = [sending EXCEPT ![d] = 0]
  PROVE  SeenInOrder(c)'
<1>0. /\ nq \in [Dests -> Seq(Nat)] /\ sending \in [Dests -> Nat] /\ toldOf \in [Dests -> Seq(Nat)]
      /\ emitted \in Nat /\ nq'[c] = nq[c] /\ emitted' = emitted
      /\ sending'[c] \in {0, sending[c]} /\ 0 \in 0..emitted
  BY NotifyAssumption DEF NotifyTypes
<1>1. /\ \A i \in 1..Len(nq[c]) : nq[c][i] \in 1..emitted /\ sending'[c] < nq[c][i]
      /\ sending'[c] \in 0..emitted
  BY <1>0 DEF SeenInOrder
<1>2. CASE toldOf'[c] = toldOf[c]
  BY <1>0, <1>1, <1>2 DEF SeenInOrder
<1>3. CASE c = d /\ toldOf'[c] = Append(toldOf[c], sending[c])
  <2> DEFINE t == toldOf[c]
             u == toldOf'[c]
  <2>1. t \in Seq(Nat) /\ Len(t) \in Nat /\ u = Append(t, sending[c])
    BY <1>0, <1>3, LenProperties
  <2>2. /\ Len(u) = Len(t) + 1 /\ u[Len(t) + 1] = sending[c] /\ \A k \in 1..Len(t) : u[k] = t[k]
    BY <1>0, <2>1, AppendProperties
  <2>3. /\ sending[c] \in 1..emitted /\ \A k \in 1..Len(t) : t[k] <= sending[c] /\ t[k] \in 1..emitted
    BY <1>0, <1>3 DEF SeenInOrder
  <2>4. \A k \in 1..Len(u) : u[k] \in 1..emitted /\ u[k] <= sending[c]
    BY <2>1, <2>2, <2>3
  <2>5. \A i \in 1..Len(nq[c]) : sending[c] < nq[c][i] /\ \A k \in 1..Len(t) : t[k] < nq[c][i]
    BY DEF SeenInOrder
  <2>6. \A i \in 1..Len(nq[c]) : \A k \in 1..Len(u) : u[k] < nq[c][i]
    BY <2>1, <2>2, <2>5
  <2>7. \A j, k \in 1..Len(t) : j < k => t[j] <= t[k]
    BY DEF SeenInOrder
  <2>8. \A j, k \in 1..Len(u) : j < k => u[j] <= u[k]
    <3> SUFFICES ASSUME NEW j \in 1..Len(u), NEW k \in 1..Len(u), j < k PROVE u[j] <= u[k]
      OBVIOUS
    <3>1. CASE k = Len(t) + 1
      BY <3>1, <2>2, <2>4
    <3>2. CASE k # Len(t) + 1
      <4>1. j \in 1..Len(t) /\ k \in 1..Len(t)
        BY <3>2, <2>1, <2>2
      <4> QED
        BY <4>1, <2>2, <2>7
    <3> QED
      BY <3>1, <3>2
  <2>9. \A k \in 1..Len(u) : sending'[c] # 0 => u[k] <= sending'[c]
    BY <1>0, <2>4
  <2>10. \A i, j \in 1..Len(nq[c]) : i < j => nq[c][i] < nq[c][j]
    BY DEF SeenInOrder
  <2> HIDE DEF u, t
  <2>11. toldOf'[c] = u
    BY DEF u
  <2> QED
    BY <1>0, <1>1, <2>4, <2>6, <2>8, <2>9, <2>10, <2>11 DEF SeenInOrder
<1>4. toldOf'[c] = toldOf[c] \/ (c = d /\ toldOf'[c] = Append(toldOf[c], sending[c]))
  BY <1>0 DEF Asks
<1> QED
  BY <1>2, <1>3, <1>4

\* And when it takes the next one.
LEMMA OrderTake ==
  ASSUME NotifyTypes, NEW d \in Dests, NEW c \in Dests, SeenInOrder(c), Take(d)
  PROVE  SeenInOrder(c)'
<1>0. /\ nq \in [Dests -> Seq(Nat)] /\ sending \in [Dests -> Nat] /\ toldOf \in [Dests -> Seq(Nat)]
      /\ emitted' = emitted /\ toldOf' = toldOf
      /\ nq[d] # <<>> /\ sending' = [sending EXCEPT ![d] = Head(nq[d])] /\ nq' = [nq EXCEPT ![d] = Tail(@)]
  BY DEF NotifyTypes, Take
<1>1. CASE c # d
  <2>1. nq'[c] = nq[c] /\ sending'[c] = sending[c]
    BY <1>0, <1>1
  <2> QED
    BY <1>0, <2>1 DEF SeenInOrder
<1>2. CASE c = d
  <2> DEFINE s == nq[d]
             t == nq'[d]
  <2>1. s \in Seq(Nat) /\ s # <<>> /\ t = Tail(s) /\ sending'[d] = Head(s) /\ Head(s) = s[1]
    BY <1>0
  <2>2. /\ Len(s) \in Nat \ {0} /\ t \in Seq(Nat) /\ Len(t) = Len(s) - 1
        /\ \A i \in 1..Len(t) : t[i] = s[i + 1]
    BY <2>1, HeadTailProperties, EmptySeq
  <2>3. /\ \A i \in 1..Len(s) : s[i] \in 1..emitted
        /\ \A i, j \in 1..Len(s) : i < j => s[i] < s[j]
        /\ \A k \in 1..Len(toldOf[d]) : toldOf[d][k] \in 1..emitted /\ \A i \in 1..Len(s) : toldOf[d][k] < s[i]
        /\ \A j, k \in 1..Len(toldOf[d]) : j < k => toldOf[d][j] <= toldOf[d][k]
    BY <1>2 DEF SeenInOrder
  <2>4. emitted \in Nat /\ 1 \in 1..Len(s) /\ \A i \in 1..Len(t) : i + 1 \in 1..Len(s) /\ 1 < i + 1
    <3>1. emitted \in Nat
      BY NotifyAssumption DEF NotifyTypes
    <3> HIDE DEF s, t
    <3> QED
      BY <2>2, <3>1
  <2>5. \A i, j \in 1..Len(t) : i < j => i + 1 < j + 1
    BY <2>2
  <2> HIDE DEF s, t
  <2>6. sending'[d] \in 0..emitted
    BY <2>1, <2>3, <2>4
  <2>7. \A i \in 1..Len(t) : t[i] \in 1..emitted /\ sending'[d] < t[i]
    BY <2>1, <2>2, <2>3, <2>4
  <2>8. \A i, j \in 1..Len(t) : i < j => t[i] < t[j]
    BY <2>2, <2>3, <2>4, <2>5
  <2>9. \A k \in 1..Len(toldOf[d]) :
          /\ toldOf[d][k] \in 1..emitted /\ toldOf[d][k] <= sending'[d]
          /\ \A i \in 1..Len(t) : toldOf[d][k] < t[i]
    BY <2>1, <2>2, <2>3, <2>4
  <2> QED
    BY <1>0, <1>2, <2>3, <2>6, <2>7, <2>8, <2>9 DEF SeenInOrder, t
<1> QED
  BY <1>1, <1>2

\* And when the run emits one more.
LEMMA OrderEmit ==
  ASSUME NotifyTypes, NEW c \in Dests, SeenInOrder(c), emitted < MaxEvents, emitted' = emitted + 1,
         nq'[c] = nq[c] \/ nq'[c] = Append(nq[c], emitted + 1),
         UNCHANGED <<sending, toldOf>>
  PROVE  SeenInOrder(c)'
<1>0. /\ nq[c] \in Seq(Nat) /\ sending[c] \in 0..emitted /\ toldOf[c] \in Seq(Nat) /\ emitted \in Nat
  BY NotifyAssumption DEF NotifyTypes, SeenInOrder
<1> DEFINE s == nq[c]
           t == nq'[c]
           n == emitted + 1
<1>1. /\ \A i \in 1..Len(s) : s[i] \in 1..emitted /\ sending[c] < s[i]
      /\ \A i, j \in 1..Len(s) : i < j => s[i] < s[j]
      /\ \A k \in 1..Len(toldOf[c]) :
           /\ toldOf[c][k] \in 1..emitted /\ (sending[c] # 0 => toldOf[c][k] <= sending[c])
           /\ \A i \in 1..Len(s) : toldOf[c][k] < s[i]
  BY DEF SeenInOrder
<1>2. /\ Len(s) \in Nat
      /\ \/ t = s
         \/ Len(t) = Len(s) + 1 /\ t[Len(s) + 1] = n /\ \A i \in 1..Len(s) : t[i] = s[i]
  BY <1>0, AppendProperties, LenProperties
<1>3. \A k \in 1..Len(toldOf[c]) : toldOf[c][k] \in 1..n /\ (sending[c] # 0 => toldOf[c][k] <= sending[c])
  BY <1>0, <1>1
<1> HIDE DEF s, t
<1>4. \A i \in 1..Len(t) : t[i] = n \/ (i \in 1..Len(s) /\ t[i] = s[i])
  BY <1>0, <1>2
<1>5. \A i \in 1..Len(t) : t[i] \in 1..n /\ sending[c] < t[i] /\ \A k \in 1..Len(toldOf[c]) : toldOf[c][k] < t[i]
  <2> TAKE i \in 1..Len(t)
  <2>1. CASE t[i] = n
    BY <1>0, <1>1, <2>1
  <2>2. CASE i \in 1..Len(s) /\ t[i] = s[i]
    <3>1. s[i] \in 1..emitted /\ sending[c] < s[i] /\ \A k \in 1..Len(toldOf[c]) : toldOf[c][k] < s[i]
      BY <1>1, <2>2
    <3>2. s[i] \in 1..n
      BY <1>0, <3>1
    <3> QED
      BY <2>2, <3>1, <3>2
  <2> QED
    BY <1>4, <2>1, <2>2
<1>6. \A i, j \in 1..Len(t) : i < j => t[i] < t[j]
  <2>1. CASE t = s
    BY <2>1, <1>1
  <2>2. CASE Len(t) = Len(s) + 1 /\ t[Len(s) + 1] = n /\ \A i \in 1..Len(s) : t[i] = s[i]
    <3> SUFFICES ASSUME NEW i \in 1..Len(t), NEW j \in 1..Len(t), i < j PROVE t[i] < t[j]
      OBVIOUS
    <3>1. i \in 1..Len(s) /\ t[i] = s[i] /\ s[i] \in 1..emitted
      BY <2>2, <1>1, <1>2
    <3>2. CASE j = Len(s) + 1
      BY <3>1, <3>2, <2>2, <1>0
    <3>3. CASE j # Len(s) + 1
      <4>1. j \in 1..Len(s)
        BY <3>3, <2>2, <1>2
      <4> QED
        BY <4>1, <3>1, <2>2, <1>1
    <3> QED
      BY <3>2, <3>3
  <2> QED
    BY <2>1, <2>2, <1>2
<1>7. \A j, k \in 1..Len(toldOf[c]) : j < k => toldOf[c][j] <= toldOf[c][k]
  BY DEF SeenInOrder
<1>8. sending[c] \in 0..n /\ emitted' = n
  BY <1>0
<1> HIDE DEF n
<1> QED
  BY <1>3, <1>5, <1>6, <1>7, <1>8 DEF SeenInOrder, t

\* An event emitted is with every destination but the full ones, and with those it
\* has its outcome or is counted.
LEMMA PlacesEmit ==
  ASSUME NotifyTypes, \A d \in Dests : SeenInOrder(d), OnePlace, Counted, Emit
  PROVE  OnePlace' /\ Counted'
<1>a. PICK full \in SUBSET Dests : \E kept \in SUBSET full :
           /\ nq' = [d \in Dests |-> IF d \in full THEN nq[d] ELSE Append(nq[d], emitted + 1)]
           /\ Range(reports') = Range(reports) \cup {<<d, emitted + 1, "dropped">> : d \in kept}
           /\ lost' = lost + Cardinality(full \ kept) /\ IsFiniteSet(full \ kept)
           /\ reports' \in Seq(Dests \X Nat \X Said) /\ Len(reports') <= ReportDepth
           /\ ~Closed
  BY EmitAdds
<1>1. PICK kept \in SUBSET full :
           /\ nq' = [d \in Dests |-> IF d \in full THEN nq[d] ELSE Append(nq[d], emitted + 1)]
           /\ Range(reports') = Range(reports) \cup {<<d, emitted + 1, "dropped">> : d \in kept}
           /\ lost' = lost + Cardinality(full \ kept) /\ IsFiniteSet(full \ kept)
           /\ reports' \in Seq(Dests \X Nat \X Said) /\ Len(reports') <= ReportDepth
           /\ ~Closed
  BY <1>a
<1> DEFINE n == emitted + 1
           New(s) == {<<d, n>> : d \in s}
<1>2. /\ emitted' = n /\ emitted \in Nat /\ n \in Nat /\ 1..n = (1..emitted) \cup {n} /\ n \notin 1..emitted
      /\ UNCHANGED <<sending, noted, unrecorded, skipped, flush, abandoned>>
      /\ nq \in [Dests -> Seq(Nat)] /\ sending \in [Dests -> Nat]
  <2>1. emitted' = n /\ UNCHANGED <<sending, noted, unrecorded, skipped, flush, abandoned>>
    BY DEF Emit
  <2>2. emitted \in Nat /\ nq \in [Dests -> Seq(Nat)] /\ sending \in [Dests -> Nat]
    BY NotifyAssumption DEF NotifyTypes
  <2>3. n \in Nat /\ 1..n = (1..emitted) \cup {n} /\ n \notin 1..emitted
    BY <2>2
  <2> QED
    BY <2>1, <2>2, <2>3
<1> HIDE DEF n
<1>3. Offered' = Offered \cup New(Dests) /\ Offered \cap New(Dests) = {}
  BY <1>2 DEF Offered
<1>4. StillHeld' = StillHeld \cup New(Dests \ full)
  <2>1. ASSUME NEW d \in Dests
        PROVE  /\ \A e \in 1..emitted : Pending(d, e)' <=> Pending(d, e)
               /\ (sending'[d] = n \/ n \in Range(nq'[d])) <=> d \notin full
    <3>1. Range(nq'[d]) = IF d \in full THEN Range(nq[d]) ELSE Range(nq[d]) \cup {n}
      <4>1. nq[d] \in Seq(Nat) /\ nq'[d] = IF d \in full THEN nq[d] ELSE Append(nq[d], n)
        BY <1>1, <1>2 DEF n
      <4>2. Range(Append(nq[d], n)) = Range(nq[d]) \cup {n}
        BY <4>1, <1>2, RangeSteps
      <4> QED
        BY <4>1, <4>2
    <3>2. n \notin Range(nq[d]) /\ sending[d] # n
      <4>1. DOMAIN nq[d] = 1..Len(nq[d]) /\ \A i \in 1..Len(nq[d]) : nq[d][i] \in 1..emitted
        BY <1>2, LenProperties DEF SeenInOrder
      <4>2. sending[d] \in 0..emitted
        BY DEF SeenInOrder
      <4> QED
        BY <4>1, <4>2, <1>2 DEF Range, n
    <3> QED
      BY <3>1, <3>2, <1>2 DEF Pending
  <2>2. \A p \in Offered : Pending(p[1], p[2])' <=> Pending(p[1], p[2])
    BY <2>1 DEF Offered
  <2>3. \A d \in Dests : <<d, n>> \in StillHeld' <=> d \notin full
    <3>1. \A d \in Dests : <<d, n>> \in Offered'
      BY <1>3
    <3> QED
      BY <2>1, <3>1 DEF StillHeld, Pending
  <2> QED
    BY <1>3, <2>2, <2>3 DEF StillHeld
<1> HIDE DEF New
<1>5. Outcomes' = Outcomes \cup {<<d, n, "dropped">> : d \in kept}
  BY <1>1, <1>2 DEF Outcomes, n
<1>6. Settlements' = Settlements \cup New(kept)
  <2>1. Settlements \subseteq Settlements'
    BY <1>5 DEF Settlements
  <2>2. ASSUME NEW d \in kept PROVE <<d, n>> \in Settlements'
    <3>1. \E o \in Outcomes' : o[1] = d /\ o[2] = n
      <4>1. <<d, n, "dropped">> \in Outcomes'
        BY <1>5
      <4> QED
        BY <4>1
    <3> QED
      BY <3>1 DEF Settlements
  <2>3. ASSUME NEW o \in Outcomes' PROVE <<o[1], o[2]>> \in Settlements \cup New(kept)
    BY <1>5 DEF Settlements, New
  <2> QED
    BY <2>1, <2>2, <2>3 DEF Settlements, New
<1>7. /\ New(kept) \subseteq New(Dests) /\ New(Dests \ full) \subseteq New(Dests)
      /\ New(kept) \cap New(Dests \ full) = {}
      /\ New(Dests) = New(kept) \cup New(Dests \ full) \cup New(full \ kept)
      /\ New(full \ kept) \cap (New(kept) \cup New(Dests \ full)) = {}
  BY <1>1 DEF New
<1>8. StillHeld \subseteq Offered /\ skipped' = skipped
  BY <1>2 DEF StillHeld
<1>9. OnePlace'
  <2>1. /\ Settlements' \subseteq Offered' /\ skipped' \subseteq Offered'
        /\ Settlements' \cap StillHeld' = {} /\ Settlements' \cap skipped' = {} /\ StillHeld' \cap skipped' = {}
    BY <1>3, <1>4, <1>6, <1>7, <1>8 DEF OnePlace
  <2>2. \A o \in Outcomes : <<o[1], o[2]>> \in Offered /\ o[2] # n
    BY <1>2 DEF OnePlace, Settlements, Offered
  <2>3. ASSUME NEW o \in Outcomes', NEW p \in Outcomes', o[1] = p[1], o[2] = p[2] PROVE o = p
    <3>1. o \in Outcomes \/ \E d \in kept : o = <<d, n, "dropped">>
      BY <1>5
    <3>2. p \in Outcomes \/ \E d \in kept : p = <<d, n, "dropped">>
      BY <1>5
    <3>3. CASE o[2] = n
      <4>1. o \notin Outcomes /\ p \notin Outcomes
        BY <3>3, <2>2, <2>3
      <4> QED
        BY <4>1, <3>1, <3>2, <2>3
    <3>4. CASE o[2] # n
      <4>1. o \in Outcomes /\ p \in Outcomes
        BY <3>4, <3>1, <3>2, <2>3
      <4> QED
        BY <4>1, <2>3 DEF OnePlace
    <3> QED
      BY <3>3, <3>4
  <2> QED
    BY <2>1, <2>3 DEF OnePlace
<1>10. Silent' = Silent \cup New(full \ kept) /\ Silent \cap New(full \ kept) = {}
  BY <1>3, <1>4, <1>6, <1>7, <1>8, SilentIs DEF OnePlace
<1>11. IsFiniteSet(New(full \ kept)) /\ Cardinality(New(full \ kept)) = Cardinality(full \ kept)
       /\ Cardinality(full \ kept) \in Nat
  <2> DEFINE D == full \ kept
             f == [d \in D |-> <<d, n>>]
  <2> HIDE DEF D
  <2>1. f \in [D -> New(D)] /\ DOMAIN f = D
    BY DEF New
  <2>2. f \in Bijection(D, New(D))
    BY <2>1 DEF Bijection, Injection, Surjection, IsInjective, New
  <2>3. IsFiniteSet(D)
    BY <1>1 DEF D
  <2> QED
    BY <2>2, <2>3, FS_Bijection, FS_CardinalityType DEF ExistsBijection, D
<1>12. IsFiniteSet(Silent) /\ Cardinality(Silent) \in Nat
  BY SilentIsFinite
<1>13. Cardinality(Silent') = Cardinality(Silent) + Cardinality(full \ kept)
  <2>1. Cardinality(Silent \cup New(full \ kept)) =
          Cardinality(Silent) + Cardinality(New(full \ kept)) - Cardinality(Silent \cap New(full \ kept))
    BY <1>11, <1>12, FS_Union
  <2>2. Cardinality(Silent \cap New(full \ kept)) = 0
    BY <1>10, FS_EmptySet
  <2> QED
    BY <2>1, <2>2, <1>10, <1>11, <1>12
<1>14. abandoned = {} /\ abandoned' = {} /\ lost = Cardinality(Silent) /\ ~Closed'
  BY <1>1, <1>2 DEF Counted, Closed
<1>15. Unnamed' = Silent'
  BY <1>14 DEF Unnamed
<1>16. lost' = Cardinality(Silent') /\ lost' \in Nat
  BY <1>1, <1>11, <1>12, <1>13, <1>14
<1> QED
  BY <1>9, <1>14, <1>15, <1>16 DEF Counted

\* What is said of an event stays true when its destination hears another.
LEMMA TrulyWorks ==
  ASSUME NotifyTypes, NEW d \in Dests, WorkerSteps(d), OnePlace, ToldTruly, \A c \in Dests : SeenInOrder(c),
         NEW what \in Said \cup {"skip"},
         \/ Outcomes' = Outcomes
         \/ Outcomes' = Outcomes \cup {<<d, sending[d], what>>},
         what = "delivered" => /\ toldOf' = [toldOf EXCEPT ![d] = Append(@, sending[d])]
                               /\ flavour[d] # "hook" /\ sending[d] = RunFinished => id'[d] \in completed'[d],
         what # "dropped"
  PROVE  ToldTruly'
<1>0. /\ toldOf \in [Dests -> Seq(Nat)] /\ sending[d] \in 1..emitted /\ sending[d] \in Nat /\ flavour' = flavour
      /\ sending \in [Dests -> Nat]
  BY NotifyAssumption DEF NotifyTypes, SeenInOrder, WorkerSteps
<1>1. Range(Append(toldOf[d], sending[d])) = Range(toldOf[d]) \cup {sending[d]}
  BY <1>0, RangeSteps
<1>2. \A c \in Dests : /\ Range(toldOf[c]) \subseteq Range(toldOf'[c])
                       /\ Range(toldOf'[c]) \subseteq Range(toldOf[c]) \cup (IF c = d THEN {sending[d]} ELSE {})
  BY <1>0, <1>1 DEF WorkerSteps, Asks
<1>3. <<d, sending[d]>> \in StillHeld
  BY <1>0 DEF StillHeld, Offered, Pending
<1>4. \A o \in Outcomes : o[1] \in Dests /\ ~(o[1] = d /\ o[2] = sending[d])
  <2>1. \A o \in Outcomes : <<o[1], o[2]>> \in Settlements
    BY DEF Settlements
  <2>2. \A o \in Outcomes : <<o[1], o[2]>> \in Offered /\ <<o[1], o[2]>> # <<d, sending[d]>>
    BY <1>3, <2>1 DEF OnePlace
  <2> QED
    BY <2>2 DEF Offered
<1>5. \A o \in Outcomes : /\ o[3] = "delivered" => o[2] \in Range(toldOf'[o[1]])
                          /\ o[3] = "dropped" => o[2] \notin Range(toldOf'[o[1]])
  BY <1>2, <1>4 DEF ToldTruly
<1>6. what = "delivered" => sending[d] \in Range(toldOf'[d])
  BY <1>0, <1>1
<1>7. \A o \in Outcomes' : /\ o[3] = "delivered" => o[2] \in Range(toldOf'[o[1]])
                           /\ o[3] = "dropped" => o[2] \notin Range(toldOf'[o[1]])
  BY <1>5, <1>6
<1>8. ASSUME NEW c \in Dests, flavour[c] # "hook", <<c, RunFinished, "delivered">> \in Outcomes'
      PROVE  id'[c] \in completed'[c]
  <2>1. CASE <<c, RunFinished, "delivered">> \in Outcomes
    <3>1. RunFinished \in Range(toldOf[c])
      BY <2>1 DEF ToldTruly
    <3>2. c = d => sending[d] # 1
      <4>1. PICK k \in 1..Len(toldOf[c]) : toldOf[c][k] = RunFinished
        BY <3>1, <1>0, LenProperties DEF Range
      <4>2. sending[c] # 0 => RunFinished <= sending[c]
        BY <4>1 DEF SeenInOrder
      <4> QED
        BY <4>2, <1>0, NotifyAssumption DEF RunFinished
    <3>3. id[c] \in completed[c] /\ id'[c] = id[c] /\ completed[c] \subseteq completed'[c]
      BY <1>8, <2>1, <3>2 DEF ToldTruly, WorkerSteps
    <3> QED
      BY <3>3
  <2>2. CASE <<c, RunFinished, "delivered">> \notin Outcomes
    <3>1. c = d /\ sending[d] = RunFinished /\ what = "delivered"
      BY <2>2, <1>8
    <3> QED
      BY <3>1, <1>8
  <2> QED
    BY <2>1, <2>2
<1> QED
  BY <1>0, <1>7, <1>8 DEF ToldTruly

\* A destination hears of an event once per request at most.
LEMMA EnoughWorks ==
  ASSUME NotifyTypes, NEW d \in Dests, NEW c \in Dests, ToldEnough(c), SeenInOrder(c), sending[d] # 0, Asks(d),
         emitted' = emitted, sending' = sending \/ sending' = [sending EXCEPT ![d] = 0]
  PROVE  ToldEnough(c)'
<1>0. /\ toldOf \in [Dests -> Seq(Nat)] /\ sending \in [Dests -> Nat] /\ try \in [Dests -> Nat] /\ emitted \in Nat
      /\ Attempts \in Nat /\ sending[c] \in 0..emitted
  BY NotifyAssumption DEF NotifyTypes, SeenInOrder
<1>1. sending'[c] = 0 \/ sending'[c] = sending[c]
  BY <1>0
<1> DEFINE N == [e \in Nat |-> Cardinality(Times(toldOf[c], e))]
           M == [e \in Nat |-> Cardinality(Times(toldOf'[c], e))]
<1>2. /\ \A e \in 1..emitted : N[e] <= Attempts
      /\ sending[c] # 0 => try[c] <= Attempts /\ N[sending[c]] <= try[c]
  BY <1>0 DEF ToldEnough
<1>3. \/ toldOf'[c] = toldOf[c] /\ (try'[c] = try[c] \/ (try[c] < Attempts /\ try'[c] = try[c] + 1))
      \/ c = d /\ toldOf'[c] = Append(toldOf[c], sending[c]) /\ try[c] < Attempts /\ try'[c] = try[c] + 1
  BY <1>0 DEF Asks
<1>4. toldOf[c] \in Seq(Nat) /\ sending[c] \in Nat /\ try[c] \in Nat
  BY <1>0
<1>5. ASSUME NEW e \in Nat
      PROVE  /\ N[e] \in Nat
             /\ M[e] = N[e] \/ (c = d /\ e = sending[c] /\ try[c] < Attempts /\ try'[c] = try[c] + 1 /\ M[e] = N[e] + 1)
  <2>1. /\ N[e] \in Nat
        /\ Cardinality(Times(Append(toldOf[c], sending[c]), e)) = IF sending[c] = e THEN N[e] + 1 ELSE N[e]
    BY <1>4, TimesTold
  <2> QED
    BY <2>1, <1>3
<1>6. try'[c] \in {try[c], try[c] + 1} /\ (try'[c] # try[c] => try[c] < Attempts)
  BY <1>3
<1> HIDE DEF N, M
<1>7. sending[c] # 0 => M[sending[c]] <= try'[c] /\ try'[c] <= Attempts
  BY <1>0, <1>2, <1>4, <1>5, <1>6
<1>8. ASSUME NEW e \in 1..emitted PROVE M[e] <= Attempts
  <2>1. e \in Nat /\ N[e] \in Nat /\ N[e] <= Attempts
    BY <1>0, <1>2, <1>5
  <2>2. CASE M[e] = N[e]
    BY <2>1, <2>2
  <2>3. CASE c = d /\ e = sending[c]
    <3>1. M[sending[c]] <= try'[c] /\ try'[c] <= Attempts /\ M[e] \in Nat
      BY <2>1, <2>3, <1>5, <1>7
    <3> QED
      BY <3>1, <2>3, <1>0, <1>4, <1>6
  <2> QED
    BY <2>1, <2>2, <2>3, <1>5
<1>9. \A e \in Nat : M[e] = Cardinality(Times(toldOf'[c], e))
  BY DEF M
<1>10. \A e \in 1..emitted : Cardinality(Times(toldOf'[c], e)) <= Attempts
  <2> TAKE e \in 1..emitted
  <2>1. e \in Nat /\ M[e] <= Attempts
    BY <1>0, <1>8
  <2> QED
    BY <2>1, <1>9
<1>11. sending[c] # 0 => Cardinality(Times(toldOf'[c], sending[c])) <= try'[c] /\ try'[c] <= Attempts
  BY <1>4, <1>7, <1>9
<1> QED
  BY <1>1, <1>10, <1>11 DEF ToldEnough

\* An event with its worker: taken, tried, settled.
LEMMA WorkerStepKeeps ==
  ASSUME NotifyKept, NEW d \in Dests, WorkerStep(d)
  PROVE  NotifyKept'
<1>0. /\ NotifyTypes /\ OnePlace /\ Counted /\ ToldTruly
      /\ \A c \in Dests : SeenInOrder(c) /\ ToldEnough(c)
      /\ nq \in [Dests -> Seq(Nat)] /\ sending \in [Dests -> Nat] /\ try \in [Dests -> Nat] /\ toldOf \in [Dests -> Seq(Nat)]
  BY DEF NotifyKept, NotifyTypes
<1>1. CASE Take(d)
  <2>1. /\ sending[d] = 0 /\ nq[d] # <<>> /\ sending' = [sending EXCEPT ![d] = Head(nq[d])]
        /\ nq' = [nq EXCEPT ![d] = Tail(@)] /\ try' = [try EXCEPT ![d] = 0]
        /\ UNCHANGED <<emitted, toldOf, reports, noted, unrecorded, lost, skipped, flush, abandoned,
                       flavour, id, runs, completed>>
    BY <1>1 DEF Take, reportVars, checkVars
  <2>2. nq[d] \in Seq(Nat) /\ Head(nq[d]) \in Nat /\ Tail(nq[d]) \in Seq(Nat)
    BY <1>0, <2>1, HeadTailProperties
  <2>3. NotifyTypes'
    BY <1>0, <2>1, <2>2 DEF NotifyTypes
  <2>4. \A c \in Dests : SeenInOrder(c)'
    BY <1>0, <1>1, OrderTake
  <2>5. OnePlace' /\ Counted'
    <3>1. Outcomes' = Outcomes /\ Offered' = Offered /\ (Closed' <=> Closed)
      BY <2>1 DEF Outcomes, Offered, Closed
    <3>2. StillHeld' = StillHeld
      BY <1>0, <1>1, <2>1, StillHeldSteps
    <3>3. Closed => \A c \in Dests \ abandoned : Drained(c)'
      <4>1. Closed => d \in abandoned
        BY <1>0, <2>1 DEF Counted, Drained
      <4> QED
        BY <4>1, <1>0, <2>1 DEF Counted, Drained
    <3> QED
      BY <1>0, <2>1, <3>1, <3>2, <3>3, PlacesAside
  <2>6. ToldTruly'
    BY <1>0, <2>1 DEF ToldTruly, Outcomes
  <2>7. ASSUME NEW c \in Dests PROVE ToldEnough(c)'
    <3>1. CASE c # d
      <4>1. sending'[c] = sending[c] /\ try'[c] = try[c] /\ toldOf' = toldOf /\ emitted' = emitted
        BY <1>0, <2>1, <3>1
      <4> QED
        BY <4>1, <1>0 DEF ToldEnough
    <3>2. CASE c = d
      <4>1. sending'[c] = Head(nq[d]) /\ try'[c] = 0 /\ Head(nq[d]) = nq[d][1] /\ 1 \in 1..Len(nq[d])
        BY <1>0, <2>1, <2>2, <3>2, EmptySeq
      <4>2. \A k \in 1..Len(toldOf[d]) : toldOf[d][k] \in Nat /\ toldOf[d][k] < nq[d][1]
        BY <1>0, <4>1, ElementOfSeq DEF SeenInOrder
      <4>3. DOMAIN toldOf[d] = 1..Len(toldOf[d])
        BY <1>0, LenProperties
      <4>4. Times(toldOf[d], Head(nq[d])) = {}
        BY <4>1, <4>2, <4>3, <2>2 DEF Times
      <4>5. Cardinality(Times(toldOf[d], Head(nq[d]))) = 0 /\ 0 <= Attempts
        BY <4>4, FS_EmptySet, NotifyAssumption
      <4>6. Cardinality(Times(toldOf'[c], sending'[c])) = 0 /\ emitted' = emitted /\ toldOf' = toldOf
        BY <4>1, <4>5, <2>1, <3>2
      <4>7. \A e \in 1..emitted' : Cardinality(Times(toldOf'[c], e)) <= Attempts
        BY <4>6, <1>0 DEF ToldEnough
      <4>8. sending'[c] # 0 => try'[c] <= Attempts /\ Cardinality(Times(toldOf'[c], sending'[c])) <= try'[c]
        BY <4>1, <4>5, <4>6
      <4> QED
        BY <4>7, <4>8 DEF ToldEnough
    <3> QED
      BY <3>1, <3>2
  <2> QED
    BY <2>3, <2>4, <2>5, <2>6, <2>7 DEF NotifyKept
<1>2. CASE WorkerSteps(d)
  <2>1. /\ sending[d] # 0 /\ Asks(d) /\ nq' = nq /\ sending[d] \in Nat
        /\ UNCHANGED <<emitted, noted, unrecorded, flush, abandoned, flavour>>
        /\ id' \in [Dests -> Nat] /\ runs' \in [Dests -> Nat] /\ completed' \in [Dests -> SUBSET Nat]
    BY <1>0, <1>2 DEF WorkerSteps
  <2>2. toldOf' \in [Dests -> Seq(Nat)] /\ try' \in [Dests -> Nat]
    <3>1. Append(toldOf[d], sending[d]) \in Seq(Nat) /\ try[d] + 1 \in Nat
      BY <1>0, <2>1, AppendProperties
    <3> QED
      BY <1>0, <2>1, <3>1 DEF Asks
  <2>3. /\ Outcomes' = noted \cup unrecorded \cup Range(reports')
        /\ Outcomes = noted \cup unrecorded \cup Range(reports)
        /\ Offered' = Offered /\ (Closed' <=> Closed)
    BY <2>1 DEF Outcomes, Offered, Closed
  <2>4. CASE UNCHANGED <<sending, reports, lost, skipped>>
    <3>1. NotifyTypes'
      BY <1>0, <2>1, <2>2, <2>4 DEF NotifyTypes
    <3>2. StillHeld' = StillHeld
      BY <2>1, <2>3, <2>4 DEF StillHeld, Pending
    <3>3. Closed => \A c \in Dests \ abandoned : Drained(c)'
      BY <1>0, <2>1, <2>4 DEF Counted, Drained
    <3>4. OnePlace' /\ Counted'
      BY <1>0, <2>1, <2>3, <2>4, <3>2, <3>3, PlacesAside
    <3>5. \A c \in Dests : SeenInOrder(c)' /\ ToldEnough(c)'
      BY <1>0, <2>1, <2>4, OrderWorks, EnoughWorks
    <3>6. ToldTruly'
      <4>1. "skip" \in Said \cup {"skip"} /\ "skip" # "delivered" /\ "skip" # "dropped"
        OBVIOUS
      <4>2. Outcomes' = Outcomes
        BY <2>3, <2>4
      <4> QED
        BY <4>1, <4>2, <1>0, <1>2, TrulyWorks
    <3> QED
      BY <3>1, <3>4, <3>5, <3>6 DEF NotifyKept
  <2>5. ASSUME NEW what \in Said \cup {"skip"}, Settled(d, what), what # "dropped",
               what = "delivered" => /\ toldOf' = [toldOf EXCEPT ![d] = Append(@, sending[d])]
                                     /\ flavour[d] # "hook" /\ sending[d] = RunFinished => id'[d] \in completed'[d]
        PROVE  NotifyKept'
    <3>1. /\ sending' = [sending EXCEPT ![d] = 0]
          /\ reports' \in Seq(Dests \X Nat \X Said) /\ Len(reports') <= ReportDepth
          /\ Adds(d, what)
      BY <1>0, <2>5, SettledAdds
    <3>2. lost' \in Nat /\ (Outcomes' = Outcomes \/ Outcomes' = Outcomes \cup {<<d, sending[d], what>>})
      BY <1>0, <3>1, <2>3 DEF Adds, NotifyTypes
    <3>3. NotifyTypes'
      BY <1>0, <2>1, <2>2, <3>1, <3>2 DEF NotifyTypes
    <3>4. StillHeld' = StillHeld \ {<<d, sending[d]>>} /\ <<d, sending[d]>> \in StillHeld
      BY <1>0, <2>1, <3>1, StillHeldSteps
    <3>5. Closed => d \in abandoned /\ \A c \in Dests \ abandoned : Drained(c)'
      <4>1. Closed => d \in abandoned
        BY <1>0, <2>1 DEF Counted, Drained
      <4> QED
        BY <4>1, <1>0, <2>1, <3>1 DEF Counted, Drained
    <3>6. OnePlace' /\ Counted'
      BY <1>0, <2>1, <3>1, <3>4, <3>5, PlaceLeft
    <3>7. \A c \in Dests : SeenInOrder(c)' /\ ToldEnough(c)'
      BY <1>0, <2>1, <3>1, OrderWorks, EnoughWorks
    <3>8. ToldTruly'
      BY <1>0, <1>2, <2>5, <3>2, TrulyWorks
    <3> QED
      BY <3>3, <3>6, <3>7, <3>8 DEF NotifyKept
  <2>6. /\ "skip" \in Said \cup {"skip"} /\ "failed" \in Said \cup {"skip"} /\ "delivered" \in Said \cup {"skip"}
    BY DEF Said
  <2>7. CASE Settled(d, "skip")
    BY <2>5, <2>6, <2>7
  <2>8. CASE Settled(d, "failed")
    BY <2>5, <2>6, <2>8
  <2>9. CASE /\ Settled(d, "delivered") /\ toldOf' = [toldOf EXCEPT ![d] = Append(@, sending[d])]
             /\ flavour[d] # "hook" /\ sending[d] = RunFinished => id'[d] \in completed'[d]
    BY <2>5, <2>6, <2>9
  <2> QED
    BY <1>2, <2>4, <2>7, <2>8, <2>9 DEF WorkerSteps
<1> QED
  BY <1>0, <1>1, <1>2, WorkerWorks DEF WorkerStep

\* The run emits.
LEMMA EmitKeeps ==
  ASSUME NotifyKept, Emit
  PROVE  NotifyKept'
<1>0. /\ NotifyTypes /\ OnePlace /\ Counted /\ ToldTruly
      /\ \A c \in Dests : SeenInOrder(c) /\ ToldEnough(c)
      /\ nq \in [Dests -> Seq(Nat)] /\ toldOf \in [Dests -> Seq(Nat)] /\ sending \in [Dests -> Nat]
      /\ emitted \in Nat /\ MaxEvents \in Nat /\ Attempts \in Nat /\ lost \in Nat
  BY NotifyAssumption DEF NotifyKept, NotifyTypes
<1>a. PICK full \in SUBSET Dests : \E kept \in SUBSET full :
           /\ nq' = [d \in Dests |-> IF d \in full THEN nq[d] ELSE Append(nq[d], emitted + 1)]
           /\ Range(reports') = Range(reports) \cup {<<d, emitted + 1, "dropped">> : d \in kept}
           /\ lost' = lost + Cardinality(full \ kept) /\ IsFiniteSet(full \ kept)
           /\ reports' \in Seq(Dests \X Nat \X Said) /\ Len(reports') <= ReportDepth
           /\ ~Closed
  BY <1>0, EmitAdds
<1>1. PICK kept \in SUBSET full :
           /\ nq' = [d \in Dests |-> IF d \in full THEN nq[d] ELSE Append(nq[d], emitted + 1)]
           /\ Range(reports') = Range(reports) \cup {<<d, emitted + 1, "dropped">> : d \in kept}
           /\ lost' = lost + Cardinality(full \ kept) /\ IsFiniteSet(full \ kept)
           /\ reports' \in Seq(Dests \X Nat \X Said) /\ Len(reports') <= ReportDepth
           /\ ~Closed
  BY <1>a
<1>2. /\ emitted < MaxEvents /\ emitted' = emitted + 1
      /\ UNCHANGED <<sending, try, toldOf, noted, unrecorded, skipped, flush, abandoned, flavour, id, runs, completed>>
  BY DEF Emit, checkVars
<1>3. NotifyTypes'
  <2>1. nq' \in [Dests -> Seq(Nat)]
    BY <1>0, <1>1
  <2>2. lost' \in Nat
    BY <1>0, <1>1, FS_CardinalityType
  <2>3. emitted' \in 0..MaxEvents /\ flush' = "no"
    BY <1>0, <1>2 DEF NotifyTypes
  <2> QED
    BY <1>0, <1>1, <1>2, <2>1, <2>2, <2>3 DEF NotifyTypes
<1>4. \A c \in Dests : SeenInOrder(c)'
  BY <1>0, <1>1, <1>2, OrderEmit
<1>5. OnePlace' /\ Counted'
  BY <1>0, PlacesEmit
<1>6. \A c \in Dests : emitted + 1 \notin Range(toldOf[c])
  <2>1. \A c \in Dests : /\ DOMAIN toldOf[c] = 1..Len(toldOf[c])
                         /\ \A k \in 1..Len(toldOf[c]) : toldOf[c][k] \in 1..emitted
    BY <1>0, LenProperties DEF SeenInOrder
  <2>2. emitted + 1 \notin 1..emitted
    BY <1>0
  <2> QED
    BY <2>1, <2>2 DEF Range
<1>7. ToldTruly'
  <2>1. Outcomes' = Outcomes \cup {<<d, emitted + 1, "dropped">> : d \in kept}
    BY <1>1, <1>2 DEF Outcomes
  <2>2. \A o \in Outcomes' : /\ o[3] = "delivered" => o[2] \in Range(toldOf[o[1]])
                             /\ o[3] = "dropped" => o[2] \notin Range(toldOf[o[1]])
    BY <1>0, <1>6, <2>1 DEF ToldTruly
  <2>3. \A d \in Dests : <<d, RunFinished, "delivered">> \in Outcomes' => <<d, RunFinished, "delivered">> \in Outcomes
    BY <2>1
  <2> QED
    BY <1>0, <1>2, <2>2, <2>3 DEF ToldTruly
<1>8. ASSUME NEW c \in Dests PROVE ToldEnough(c)'
  <2>1. Times(toldOf[c], emitted + 1) = {}
    BY <1>6 DEF Times, Range
  <2>2. Cardinality(Times(toldOf[c], emitted + 1)) <= Attempts
    <3>1. Cardinality(Times(toldOf[c], emitted + 1)) = 0
      BY <2>1, FS_EmptySet
    <3> QED
      BY <1>0, <3>1
  <2>3. \A e \in 1..emitted' : e \in 1..emitted \/ e = emitted + 1
    BY <1>0, <1>2
  <2> QED
    BY <1>0, <1>2, <2>2, <2>3 DEF ToldEnough
<1> QED
  BY <1>3, <1>4, <1>5, <1>7, <1>8 DEF NotifyKept

\* Steps that leave destinations and outcomes as they are.
LEMMA FlushKeeps ==
  ASSUME NotifyKept, record \/ Flush \/ FlushStep \/ UNCHANGED notifyVars
  PROVE  NotifyKept'
<1>0. /\ NotifyTypes /\ OnePlace /\ Counted /\ ToldTruly
      /\ \A c \in Dests : SeenInOrder(c) /\ ToldEnough(c)
      /\ UNCHANGED <<emitted, nq, sending, try, toldOf, lost, skipped, flavour, id, runs, completed>>
  BY DEF NotifyKept, record, Flush, FlushStep, settle, flushGraceExpires, writeReport, notifyVars,
         deliveryVars, reportVars, checkVars
<1>1. /\ Outcomes' = Outcomes /\ reports' \in Seq(Dests \X Nat \X Said) /\ Len(reports') <= ReportDepth
      /\ noted' \subseteq Dests \X Nat \X Said /\ unrecorded' \subseteq Dests \X Nat \X Said
  <2>1. CASE record
    <3>1. reports \in Seq(Dests \X Nat \X Said) /\ reports # <<>> /\ reports' = Tail(reports)
      BY <1>0, <2>1 DEF record, NotifyTypes
    <3> HIDE DEF Said
    <3>2. /\ Range(reports) = {Head(reports)} \cup Range(reports') /\ Head(reports) \in Dests \X Nat \X Said
          /\ reports' \in Seq(Dests \X Nat \X Said) /\ Len(reports') = Len(reports) - 1 /\ Len(reports) \in Nat
      <4> DEFINE T == Dests \X Nat \X Said
      <4> HIDE DEF T
      <4>1. reports \in Seq(T)
        BY <3>1 DEF T
      <4>2. Head(reports) \in T
        BY <3>1, <4>1, HeadTailProperties
      <4>3. Range(reports) = {Head(reports)} \cup Range(reports') /\ reports' \in Seq(T)
            /\ Len(reports') = Len(reports) - 1 /\ Len(reports) \in Nat
        BY <3>1, <4>1, <4>2, RangeSteps, LenProperties
      <4> QED
        BY <4>2, <4>3 DEF T
    <3>3. noted' \cup unrecorded' = noted \cup unrecorded \cup {Head(reports)}
      BY <2>1 DEF record
    <3>4. Outcomes' = Outcomes
      BY <3>2, <3>3 DEF Outcomes
    <3>5. Len(reports') <= ReportDepth
      BY <1>0, <3>2, NotifyAssumption DEF NotifyTypes
    <3>6. noted' \cup unrecorded' \subseteq Dests \X Nat \X Said
      BY <1>0, <3>2, <3>3 DEF NotifyTypes
    <3> QED
      BY <3>2, <3>4, <3>5, <3>6
  <2>2. CASE UNCHANGED <<reports, noted, unrecorded>>
    BY <1>0, <2>2 DEF Outcomes, NotifyTypes
  <2>3. record \/ UNCHANGED <<reports, noted, unrecorded>>
    BY DEF Flush, FlushStep, settle, flushGraceExpires, writeReport, notifyVars, reportVars
  <2> QED
    BY <2>1, <2>2, <2>3
<1>2. abandoned' \subseteq Dests /\ (flush' # "no" => flush # "no" \/ emitted = MaxEvents)
  BY <1>0 DEF NotifyTypes, record, Flush, FlushStep, settle, flushGraceExpires, writeReport, notifyVars
<1>3. NotifyTypes'
  BY <1>0, <1>1, <1>2 DEF NotifyTypes
<1>4. \A c \in Dests : SeenInOrder(c)' /\ ToldEnough(c)'
  BY <1>0 DEF SeenInOrder, ToldEnough
<1>5. ToldTruly'
  BY <1>0, <1>1 DEF ToldTruly
<1>6. StillHeld' = StillHeld /\ Offered' = Offered
  BY <1>0 DEF StillHeld, Offered, Pending
<1>7. Settlements' = Settlements
  BY <1>1 DEF Settlements
<1>8. OnePlace'
  BY <1>0, <1>1, <1>6, <1>7 DEF OnePlace
<1>9. Silent' = Silent /\ IsFiniteSet(Silent) /\ Cardinality(Silent) \in Nat
  BY <1>0, <1>6, <1>7, SilentIs, SilentIsFinite
<1>10. Counted'
  <2>1. CASE UNCHANGED abandoned /\ (Closed' <=> Closed)
    <3>1. Unnamed' = Unnamed
      BY <2>1, <1>9 DEF Unnamed
    <3> QED
      BY <2>1, <3>1, <1>0, <1>9 DEF Counted, Drained
  <2>2. CASE settle
    <3>1. ~Closed /\ Closed'
      BY <2>2 DEF settle, Closed
    <3>2. abandoned = {} /\ lost = Cardinality(Silent)
      BY <1>0, <3>1 DEF Counted
    <3>3. \A d \in Dests \ abandoned' : Drained(d)
      BY <2>2 DEF settle
    <3>4. Unnamed' \in SUBSET Silent
      BY <1>9 DEF Unnamed
    <3>5. Cardinality(Unnamed') <= Cardinality(Silent)
      BY <1>9, <3>4, FS_Subset
    <3>6. lost' = lost /\ \A d \in Dests : Drained(d)' <=> Drained(d)
      BY <1>0 DEF Drained
    <3> QED
      BY <1>9, <3>1, <3>2, <3>3, <3>5, <3>6 DEF Counted
  <2>3. settle \/ (UNCHANGED abandoned /\ (Closed' <=> Closed))
    BY DEF record, Flush, FlushStep, flushGraceExpires, writeReport, notifyVars, Closed
  <2> QED
    BY <2>1, <2>2, <2>3
<1> QED
  BY <1>3, <1>4, <1>5, <1>8, <1>10 DEF NotifyKept

\* Before anything is emitted there is nothing to be silent about.
LEMMA NotifyStarts == NotifyInit => NotifyKept
<1> SUFFICES ASSUME NotifyInit PROVE NotifyKept
  OBVIOUS
<1>1. /\ emitted = 0 /\ nq = [d \in Dests |-> <<>>] /\ sending = [d \in Dests |-> 0] /\ try = [d \in Dests |-> 0]
      /\ toldOf = [d \in Dests |-> <<>>] /\ reports = <<>> /\ noted = {} /\ unrecorded = {} /\ lost = 0
      /\ skipped = {} /\ flush = "no" /\ abandoned = {} /\ completed = [d \in Dests |-> {}]
      /\ id = [d \in Dests |-> IF flavour[d] = "adopted" THEN 1 ELSE 0] /\ runs = id
  BY DEF NotifyInit
<1>2. NotifyTypes
  BY <1>1, NotifyAssumption DEF NotifyTypes
<1>3. Offered = {} /\ Outcomes = {}
  BY <1>1 DEF Offered, Outcomes, Range
<1>4. Settlements = {} /\ StillHeld = {} /\ Silent = {}
  BY <1>3, SilentIs DEF Settlements, StillHeld
<1>5. OnePlace /\ ToldTruly
  BY <1>1, <1>3, <1>4 DEF OnePlace, ToldTruly
<1>6. Unnamed = {} /\ Cardinality({}) = 0
  BY <1>4, FS_EmptySet DEF Unnamed
<1>7. Counted
  BY <1>1, <1>4, <1>6 DEF Counted, Closed
<1>8. \A d \in Dests : SeenInOrder(d) /\ ToldEnough(d)
  BY <1>1 DEF SeenInOrder, ToldEnough
<1> QED
  BY <1>2, <1>5, <1>7, <1>8 DEF NotifyKept

\* What the notifier keeps is what it promises.
LEMMA KeptIsHeard == NotifyKept => NoSilence
<1> SUFFICES ASSUME NotifyKept PROVE NoSilence
  OBVIOUS
<1>0. /\ OnePlace /\ Counted /\ ToldTruly
      /\ \A c \in Dests : SeenInOrder(c) /\ ToldEnough(c) /\ toldOf[c] \in Seq(Nat)
  BY DEF NotifyKept, NotifyTypes
<1>1. ASSUME NEW d \in Dests, NEW e \in 1..emitted PROVE Cardinality(For(d, e)) <= 1
  <2>0. \A o, p \in For(d, e) : o = p
    BY <1>0 DEF For, OnePlace
  <2>1. For(d, e) = {} \/ \E o : For(d, e) = {o}
    BY ONLY <2>0
  <2>2. Cardinality({}) = 0 /\ \A o : Cardinality({o}) = 1
    BY FS_EmptySet, FS_Singleton
  <2>3. Cardinality(For(d, e)) = 0 \/ Cardinality(For(d, e)) = 1
    BY <2>1, <2>2
  <2> QED
    BY <2>3
<1>2. ASSUME NEW d \in Dests
      PROVE  /\ \A i, j \in DOMAIN toldOf[d] : i < j => toldOf[d][i] <= toldOf[d][j]
             /\ \A e \in 1..emitted : Cardinality({i \in DOMAIN toldOf[d] : toldOf[d][i] = e}) <= Attempts
  <2>1. DOMAIN toldOf[d] = 1..Len(toldOf[d])
    BY <1>0, LenProperties
  <2>2. \A e : Times(toldOf[d], e) = {i \in DOMAIN toldOf[d] : toldOf[d][i] = e}
    BY DEF Times
  <2> QED
    BY <1>0, <2>1, <2>2 DEF SeenInOrder, ToldEnough
<1>3. Cardinality({p \in Silent : p[1] \notin abandoned}) <= lost /\ lost <= Cardinality(Silent)
  BY <1>0 DEF Counted, Unnamed
<1>4. flush = "returned" /\ abandoned = {} => \A d \in Dests : Drained(d)
  BY <1>0 DEF Counted, Closed
<1> QED
  BY <1>0, <1>1, <1>2, <1>3, <1>4 DEF NoSilence, ToldTruly

\* For any destinations, queues and attempts: an event offered to a destination is
\* with it, or has one truthful outcome, or is counted as lost, or its destination
\* is named, whatever the destinations do and whenever the run is over
\* (Notifier.Emit, deliver, record and Flush).
THEOREM NobodyIsLeftInSilence == NotifySpec => []NoSilence
<1>1. NotifyKept /\ [NotifyNext]_notifyVars => NotifyKept'
  BY EmitKeeps, WorkerStepKeeps, FlushKeeps DEF NotifyNext
<1> QED
  BY <1>1, NotifyStarts, KeptIsHeard, PTL DEF NotifySpec

-----------------------------------------------------------------------------
(* The step cache.                                                         *)

RunFields == {"at", "step", "todo", "put", "restored", "late", "ok", "result"}
SweepFields == {"at", "budget", "protected", "inFlight", "sizes", "listed", "live", "kept", "left"}
CacheRows ==
  /\ DOMAIN crun = CacheRuns /\ DOMAIN markers = CacheRuns /\ DOMAIN entries = Keys /\ DOMAIN sweep = SweepFields
  /\ \A r \in CacheRuns : DOMAIN crun[r] = RunFields /\ crun[r].step \in Settings

\* An entry is what some step with its key left, and is there while its key is in use.
EntriesKept == \A k \in Keys : entries[k] = NoResult \/ \E s \in Settings : Key(s) = k /\ entries[k] = Result(s)
UsedKept ==
  /\ used \in Seq(Keys) /\ \A i, j \in 1..Len(used) : used[i] = used[j] => i = j
  /\ \A i \in 1..Len(used) : entries[used[i]] # NoResult

\* What a run restores is what running would leave; unless a sweep could not see
\* the run, nothing it put or is about to restore has gone.
CacheRunKept(r) ==
  /\ InExecution(r) => markers[r] = "fresh"
  /\ crun[r].at = "new" => crun[r].put = {}
  /\ crun[r].at \in {"new", "lookup", "verify"} => crun[r].restored = {}
  /\ crun[r].at = "verify" => \E s \in Settings : Key(s) = Key(crun[r].step) /\ crun[r].result = Result(s)
  /\ crun[r].at = "restore" =>
       /\ crun[r].todo \in Seq(Outcome(crun[r].step))
       /\ crun[r].todo # <<>>
       /\ crun[r].restored \cup ToSet(crun[r].todo) = Outcome(crun[r].step)
  /\ crun[r].at = "cached" => crun[r].restored = Outcome(crun[r].step)
  /\ InExecution(r) /\ ~crun[r].late =>
       /\ crun[r].put \subseteq objects
       /\ crun[r].at = "restore" => ToSet(crun[r].todo) \subseteq objects
       /\ crun[r].at = "execute" => crun[r].restored = {}

\* A sweep that takes anything away has seen no run in execution but the late ones.
LateKept == Looked /\ ~sweep.inFlight => \A r \in CacheRuns : InExecution(r) => crun[r].late

\* What the sweep has read of the entries, what it keeps of them, and that it has
\* taken away nothing of that.
ReadOf(k, refs) == \E s \in Settings : Key(s) = k /\ refs = references(Result(s))
SweepKept ==
  /\ sweep.at \in {"idle", "scratch", "saves", "runs", "measure", "entries", "keep"}
  /\ sweep.kept \subseteq Keys
  /\ sweep.at \notin {"idle", "keep"} => sweep.kept = {}
  /\ sweep.at = "entries" => sweep.sizes \subseteq objects
  /\ sweep.at = "keep" =>
       /\ sweep.listed \in Seq([key : Keys, refs : {references(Result(s)) : s \in Settings}])
       /\ \A i \in 1..Len(sweep.listed) : ReadOf(sweep.listed[i].key, sweep.listed[i].refs)
       /\ sweep.listed # <<>> => sweep.sizes \subseteq objects
       /\ sweep.sizes \cap sweep.live \subseteq objects
       /\ \A s \in Settings : Key(s) \in sweep.kept => Result(s).refs \subseteq sweep.live
  /\ sweep.at = "idle" => \A s \in Settings : Key(s) \in sweep.kept => Result(s).refs \cap sweep.sizes \subseteq objects

CacheKept == CacheRows /\ EntriesKept /\ UsedKept /\ SweepKept /\ LateKept /\ \A r \in CacheRuns : CacheRunKept(r)

\* The key covers what the outcome depends on.
LEMMA KeyTells ==
  ASSUME NEW s \in Settings, NEW t \in Settings, Key(s) = Key(t)
  PROVE  Result(s).refs = Result(t).refs /\ Body(s) = Body(t) /\ Log(s) = Log(t) /\ s.input = t.input
<1>1. Components(s).env = Components(t).env /\ Components(s).inputs = Components(t).inputs
  BY DEF Key
<1>2. {<<"declared", s.env>>} = {<<"declared", t.env>>} /\ {<<"input", s.input>>} = {<<"input", t.input>>}
  BY <1>1 DEF Components, EnvComponent, InputsComponent
<1>3. <<"declared", s.env>> = <<"declared", t.env>> /\ <<"input", s.input>> = <<"input", t.input>>
  BY <1>2
<1>4. s.env = t.env /\ s.input = t.input
  BY <1>3
<1> QED
  BY <1>4 DEF Result, Body, Log

\* A finite set as a sequence has the set's elements.
LEMMA SetAsSequence ==
  ASSUME NEW S, IsFiniteSet(S)
  PROVE  SetToSeq(S) \in Seq(S) /\ ToSet(SetToSeq(S)) = S /\ (S # {} => SetToSeq(S) # <<>>)
<1> DEFINE n == Cardinality(S)
           f == SetToSeq(S)
<1>1. n \in Nat /\ ExistsBijection(1..n, S)
  BY FS_CardinalityType
<1>2. PICK b : b \in Bijection(1..n, S)
  BY <1>1 DEF ExistsBijection
<1>3. b \in [1..n -> S] /\ IsInjective(b)
  BY <1>2 DEF Bijection, Injection, IsInjective
<1>4. f \in [1..n -> S] /\ IsInjective(f)
  BY <1>3 DEF SetToSeq
<1>5. f \in Seq(S) /\ Len(f) = n /\ DOMAIN f = 1..n
  BY <1>1, <1>4
<1>6. ToSet(f) \subseteq S
  BY <1>4 DEF ToSet
<1>7. f \in Bijection(1..n, ToSet(f))
  <2>1. f \in [1..n -> ToSet(f)]
    BY <1>4 DEF ToSet
  <2>2. f \in Injection(1..n, ToSet(f))
    BY <1>4, <2>1 DEF Injection, IsInjective
  <2>3. \A t \in ToSet(f) : \E i \in 1..n : f[i] = t
    BY <1>4 DEF ToSet
  <2> QED
    BY <2>1, <2>2, <2>3 DEF Bijection, Surjection
<1>8. IsFiniteSet(ToSet(f)) /\ Cardinality(ToSet(f)) = n
  <2>1. IsFiniteSet(1..n) /\ Cardinality(1..n) = n
    BY <1>1, FS_Interval
  <2>2. ExistsBijection(1..n, ToSet(f))
    BY <1>7 DEF ExistsBijection
  <2> QED
    BY <2>1, <2>2, FS_Bijection
<1>9. ToSet(f) = S
  BY <1>6, <1>8, FS_Subset
<1>10. S # {} => f # <<>>
  BY <1>5, <1>9 DEF ToSet
<1> QED
  BY <1>5, <1>9, <1>10

\* The elements of two sequences in a row.
LEMMA ToSetOfBoth ==
  ASSUME NEW S, NEW a \in Seq(S), NEW b \in Seq(S)
  PROVE  a \o b \in Seq(S) /\ ToSet(a \o b) = ToSet(a) \cup ToSet(b) /\ (a # <<>> => a \o b # <<>>)
<1>1. /\ a \o b \in Seq(S) /\ Len(a \o b) = Len(a) + Len(b) /\ Len(a) \in Nat /\ Len(b) \in Nat
      /\ DOMAIN a = 1..Len(a) /\ DOMAIN b = 1..Len(b) /\ DOMAIN (a \o b) = 1..(Len(a) + Len(b))
  OBVIOUS
<1>2. \A i \in 1..Len(a) : i \in DOMAIN (a \o b) /\ (a \o b)[i] = a[i]
  BY <1>1
<1>3. \A i \in 1..Len(b) : Len(a) + i \in DOMAIN (a \o b) /\ (a \o b)[Len(a) + i] = b[i]
  BY <1>1
<1>4. \A i \in DOMAIN (a \o b) : i \in 1..Len(a) \/ (i - Len(a) \in 1..Len(b) /\ Len(a) + (i - Len(a)) = i)
  BY <1>1
<1>5. ToSet(a) \subseteq ToSet(a \o b)
  BY <1>1, <1>2 DEF ToSet
<1>6. ToSet(b) \subseteq ToSet(a \o b)
  BY <1>1, <1>3 DEF ToSet
<1>7. ASSUME NEW x \in ToSet(a \o b) PROVE x \in ToSet(a) \cup ToSet(b)
  <2>1. PICK i \in DOMAIN (a \o b) : (a \o b)[i] = x
    BY <1>7 DEF ToSet
  <2>2. CASE i \in 1..Len(a)
    BY <1>1, <1>2, <2>1, <2>2 DEF ToSet
  <2>3. CASE i - Len(a) \in 1..Len(b) /\ Len(a) + (i - Len(a)) = i
    <3>1. b[i - Len(a)] = x
      BY <1>3, <2>1, <2>3
    <3> QED
      BY <1>1, <2>3, <3>1 DEF ToSet
  <2> QED
    BY <1>4, <2>2, <2>3
<1> QED
  BY <1>1, <1>5, <1>6, <1>7

\* A sequence's elements are its head and its tail's.
LEMMA ToSetOfHead ==
  ASSUME NEW S, NEW a \in Seq(S), a # <<>>
  PROVE  /\ Tail(a) \in Seq(S) /\ ToSet(a) = {Head(a)} \cup ToSet(Tail(a)) /\ Head(a) \in ToSet(a)
         /\ Len(a) = 1 => ToSet(Tail(a)) = {}
         /\ Len(a) # 1 => Tail(a) # <<>>
<1>1. /\ Tail(a) \in Seq(S) /\ Len(a) \in Nat \ {0} /\ Len(Tail(a)) = Len(a) - 1
      /\ DOMAIN a = 1..Len(a) /\ DOMAIN Tail(a) = 1..(Len(a) - 1)
      /\ Head(a) = a[1] /\ 1 \in DOMAIN a
  OBVIOUS
<1>2. \A i \in DOMAIN Tail(a) : i + 1 \in DOMAIN a /\ Tail(a)[i] = a[i + 1]
  BY <1>1
<1>3. \A i \in DOMAIN a : i = 1 \/ (i - 1 \in DOMAIN Tail(a) /\ Tail(a)[i - 1] = a[i])
  BY <1>1, <1>2
<1>4. ASSUME NEW x \in ToSet(a) PROVE x \in {Head(a)} \cup ToSet(Tail(a))
  <2>1. PICK i \in DOMAIN a : a[i] = x
    BY <1>4 DEF ToSet
  <2>2. i = 1 \/ (i - 1 \in DOMAIN Tail(a) /\ Tail(a)[i - 1] = x)
    BY <1>3, <2>1
  <2> QED
    BY <1>1, <2>1, <2>2 DEF ToSet
<1>5. {Head(a)} \cup ToSet(Tail(a)) \subseteq ToSet(a)
  BY <1>1, <1>2 DEF ToSet
<1>6. Len(a) = 1 => ToSet(Tail(a)) = {}
  BY <1>1 DEF ToSet
<1>7. ASSUME Len(a) # 1 PROVE Tail(a) # <<>>
  <2>1. 1 \in DOMAIN Tail(a)
    BY <1>1, <1>7
  <2>2. 1 \notin DOMAIN <<>>
    OBVIOUS
  <2> QED
    BY <2>1, <2>2
<1> QED
  BY <1>1, <1>4, <1>5, <1>6, <1>7

\* Two sequences in a row, place by place.
LEMMA BothByPlace ==
  ASSUME NEW S, NEW u \in Seq(S), NEW v \in Seq(S)
  PROVE  /\ u \o v \in Seq(S) /\ Len(u \o v) = Len(u) + Len(v)
         /\ \A i \in 1..(Len(u) + Len(v)) : (u \o v)[i] = IF i <= Len(u) THEN u[i] ELSE v[i - Len(u)]
OBVIOUS

\* Taking an element out of a sequence that holds it at most once.
LEMMA RemovedOnce ==
  ASSUME NEW S, NEW a \in Seq(S), \A i, j \in 1..Len(a) : a[i] = a[j] => i = j, NEW x
  PROVE  /\ RemoveFirst(a, x) \in Seq(S)
         /\ \A i, j \in 1..Len(RemoveFirst(a, x)) : RemoveFirst(a, x)[i] = RemoveFirst(a, x)[j] => i = j
         /\ \A i \in 1..Len(RemoveFirst(a, x)) :
              RemoveFirst(a, x)[i] # x /\ \E j \in 1..Len(a) : RemoveFirst(a, x)[i] = a[j]
<1>1. CASE ~ \E i \in 1..Len(a) : a[i] = x
  <2>1. RemoveFirst(a, x) = a
    BY <1>1 DEF RemoveFirst
  <2> QED
    BY <1>1, <2>1
<1>2. CASE \E i \in 1..Len(a) : a[i] = x
  <2>1. PICK k \in 1..Len(a) : a[k] = x
    BY <1>2
  <2> DEFINE I == {i \in 1..Len(a) : a[i] = x}
  <2>2. I = {k}
    BY <2>1
  <2>3. Min(I) = k
    <3>1. k \in Int
      BY <2>1
    <3> QED
      BY <2>2, <3>1 DEF Min
  <2>4. RemoveFirst(a, x) = RemoveAt(a, k)
    BY <1>2, <2>2, <2>3 DEF RemoveFirst, SelectInSeq
  <2> DEFINE b == RemoveAt(a, k)
  <2>5. /\ b \in Seq(S) /\ Len(b) = Len(a) - 1
        /\ \A i \in 1..Len(b) : b[i] = IF i < k THEN a[i] ELSE a[i + 1]
    <3>1. Len(a) \in Nat /\ k \in Nat /\ 1 <= k /\ k <= Len(a)
      BY <2>1
    <3> DEFINE u == SubSeq(a, 1, k - 1)
               v == SubSeq(a, k + 1, Len(a))
    <3>2. u \in Seq(S) /\ Len(u) = k - 1 /\ \A i \in 1..(k - 1) : u[i] = a[i]
      BY <3>1
    <3>3. v \in Seq(S) /\ Len(v) = Len(a) - k /\ \A i \in 1..(Len(a) - k) : v[i] = a[k + i]
      BY <3>1
    <3>0. b = u \o v
      BY DEF RemoveAt
    <3> HIDE DEF b, u, v
    <3>7. u \in Seq(S) /\ v \in Seq(S)
      BY <3>2, <3>3
    <3>6. /\ u \o v \in Seq(S) /\ Len(u \o v) = Len(u) + Len(v)
          /\ \A i \in 1..(Len(u) + Len(v)) : (u \o v)[i] = IF i <= Len(u) THEN u[i] ELSE v[i - Len(u)]
      BY ONLY <3>7, BothByPlace
    <3>8. /\ b \in Seq(S) /\ Len(b) = Len(u) + Len(v)
          /\ \A i \in 1..(Len(u) + Len(v)) : b[i] = IF i <= Len(u) THEN u[i] ELSE v[i - Len(u)]
      BY ONLY <3>0, <3>6
    <3>9. Len(u) + Len(v) = Len(a) - 1
      BY <3>1, <3>2, <3>3
    <3>4. /\ b \in Seq(S) /\ Len(b) = Len(a) - 1
          /\ \A i \in 1..(Len(a) - 1) : b[i] = IF i <= k - 1 THEN u[i] ELSE v[i - (k - 1)]
      BY <3>2, <3>8, <3>9
    <3>5. ASSUME NEW i \in 1..(Len(a) - 1) PROVE b[i] = IF i < k THEN a[i] ELSE a[i + 1]
      <4>1. CASE i < k
        BY <3>1, <3>2, <3>4, <4>1
      <4>2. CASE ~(i < k)
        <5>1. i - (k - 1) \in 1..(Len(a) - k) /\ k + (i - (k - 1)) = i + 1
          BY <3>1, <4>2
        <5>2. b[i] = v[i - (k - 1)]
          BY <3>1, <3>4, <4>2
        <5> QED
          BY <3>3, <4>2, <5>1, <5>2
      <4> QED
        BY <4>1, <4>2
    <3> QED
      BY <3>4, <3>5
  <2> HIDE DEF b
  <2>6. \A i, j \in 1..Len(b) : b[i] = b[j] => i = j
    <3> DEFINE from(i) == IF i < k THEN i ELSE i + 1
    <3>1. \A i \in 1..Len(b) : from(i) \in 1..Len(a)
      BY <2>1, <2>5
    <3>2. \A i \in 1..Len(b) : b[i] = a[from(i)]
      BY <2>5
    <3>3. \A i, j \in 1..Len(b) : from(i) = from(j) => i = j
      BY <2>1, <2>5
    <3> HIDE DEF from
    <3> QED
      BY <3>1, <3>2, <3>3
  <2>7. \A i \in 1..Len(b) : b[i] # x /\ \E j \in 1..Len(a) : b[i] = a[j]
    <3> TAKE i \in 1..Len(b)
    <3>1. i \in 1..Len(a) /\ i + 1 \in 1..Len(a)
      BY <2>1, <2>5
    <3> QED
      BY <2>1, <2>5, <3>1
  <2> QED
    BY <2>4, <2>5, <2>6, <2>7 DEF b
<1> QED
  BY <1>1, <1>2

\* A run the step does not touch keeps what it had, if no object goes.
LEMMA CacheRunStays ==
  ASSUME NEW q \in CacheRuns, CacheRunKept(q), objects \subseteq objects',
         crun'[q] = crun[q], InExecution(q) => markers'[q] = markers[q]
  PROVE  CacheRunKept(q)'
<1>1. InExecution(q)' <=> InExecution(q)
  BY DEF InExecution
<1> QED
  BY <1>1 DEF CacheRunKept

\* What a step of a run r alone must show.
LEMMA OneRunMoves ==
  ASSUME CacheKept, NEW r \in CacheRuns, sweep' = sweep, objects \subseteq objects',
         DOMAIN crun' = CacheRuns, DOMAIN markers' = CacheRuns, DOMAIN entries' = Keys,
         \A q \in CacheRuns : q # r => crun'[q] = crun[q] /\ markers'[q] = markers[q],
         DOMAIN crun'[r] = RunFields, crun'[r].step = crun[r].step,
         EntriesKept', UsedKept', CacheRunKept(r)',
         InExecution(r)' => \/ InExecution(r) /\ crun'[r].late = crun[r].late
                            \/ Looked => crun'[r].late
  PROVE  CacheKept'
<1>1. CacheRows'
  <2>1. DOMAIN sweep' = SweepFields /\ \A q \in CacheRuns : DOMAIN crun[q] = RunFields /\ crun[q].step \in Settings
    BY DEF CacheKept, CacheRows
  <2>2. \A q \in CacheRuns : DOMAIN crun'[q] = RunFields /\ crun'[q].step \in Settings
    BY <2>1
  <2> QED
    BY <2>1, <2>2 DEF CacheRows
<1>2. SweepKept'
  BY DEF CacheKept, SweepKept, ReadOf
<1>3. LateKept'
  <2>1. (Looked' <=> Looked) /\ sweep'.inFlight = sweep.inFlight
    BY DEF Looked
  <2>2. ASSUME Looked, ~sweep.inFlight, NEW q \in CacheRuns, InExecution(q)' PROVE crun'[q].late
    <3>1. InExecution(q) => crun[q].late
      BY <2>2 DEF CacheKept, LateKept
    <3>2. CASE q = r
      BY <2>2, <3>1, <3>2
    <3>3. CASE q # r
      BY <2>2, <3>1, <3>3 DEF InExecution
    <3> QED
      BY <3>2, <3>3
  <2> QED
    BY <2>1, <2>2 DEF LateKept
<1>4. \A q \in CacheRuns : CacheRunKept(q)'
  <2>1. ASSUME NEW q \in CacheRuns, q # r PROVE CacheRunKept(q)'
    BY <2>1, CacheRunStays DEF CacheKept
  <2> QED
    BY <2>1
<1> QED
  BY <1>1, <1>2, <1>3, <1>4 DEF CacheKept

\* An entry forgotten leaves the others as they were.
LEMMA EntryForgotten ==
  ASSUME CacheKept, NEW k \in Keys, entries' = [entries EXCEPT ![k] = NoResult], used' = RemoveFirst(used, k)
  PROVE  EntriesKept' /\ UsedKept' /\ DOMAIN entries' = Keys
<1>1. DOMAIN entries = Keys /\ EntriesKept /\ UsedKept
  BY DEF CacheKept, CacheRows
<1>2. DOMAIN entries' = Keys /\ entries'[k] = NoResult /\ \A j \in Keys : j # k => entries'[j] = entries[j]
  BY <1>1
<1>3. EntriesKept'
  BY <1>1, <1>2 DEF EntriesKept
<1>4. /\ used' \in Seq(Keys)
      /\ \A i, j \in 1..Len(used') : used'[i] = used'[j] => i = j
      /\ \A i \in 1..Len(used') : used'[i] # k /\ \E j \in 1..Len(used) : used'[i] = used[j]
  BY <1>1, RemovedOnce DEF UsedKept
<1>5. \A i \in 1..Len(used') : entries'[used'[i]] # NoResult
  <2> TAKE i \in 1..Len(used')
  <2>1. PICK j \in 1..Len(used) : used'[i] = used[j]
    BY <1>4
  <2>3. used \in Seq(Keys) /\ entries[used[j]] # NoResult
    BY <1>1 DEF UsedKept
  <2>4. used[j] \in Keys
    BY ONLY <2>3, j \in 1..Len(used)
  <2>5. used[j] # k
    BY <1>4, <2>1
  <2>2. used[j] \in Keys /\ used[j] # k /\ entries[used[j]] # NoResult
    BY <2>3, <2>4, <2>5
  <2> QED
    BY <1>2, <2>1, <2>2
<1> QED
  BY <1>2, <1>3, <1>4, <1>5 DEF UsedKept

\* A key put first in the list of those used.
LEMMA KeyTouched ==
  ASSUME CacheKept, NEW k \in Keys
  PROVE  /\ Touched(k) \in Seq(Keys)
         /\ \A i, j \in 1..Len(Touched(k)) : Touched(k)[i] = Touched(k)[j] => i = j
         /\ \A i \in 1..Len(Touched(k)) : Touched(k)[i] = k \/ \E j \in 1..Len(used) : Touched(k)[i] = used[j]
<1> DEFINE b == RemoveFirst(used, k)
           t == Touched(k)
<1>1. /\ b \in Seq(Keys)
      /\ \A i, j \in 1..Len(b) : b[i] = b[j] => i = j
      /\ \A i \in 1..Len(b) : b[i] # k /\ \E j \in 1..Len(used) : b[i] = used[j]
  BY RemovedOnce DEF CacheKept, UsedKept
<1>2. <<k>> \in Seq(Keys) /\ Len(<<k>>) = 1 /\ <<k>>[1] = k
  OBVIOUS
<1>0. t = <<k>> \o b
  BY DEF Touched
<1> HIDE DEF b, t
<1>3. /\ t \in Seq(Keys) /\ Len(t) = 1 + Len(b) /\ Len(b) \in Nat
      /\ \A i \in 1..(1 + Len(b)) : t[i] = IF i <= 1 THEN k ELSE b[i - 1]
  <2>1. /\ <<k>> \o b \in Seq(Keys) /\ Len(<<k>> \o b) = Len(<<k>>) + Len(b)
        /\ \A i \in 1..(Len(<<k>>) + Len(b)) : (<<k>> \o b)[i] = IF i <= Len(<<k>>) THEN <<k>>[i] ELSE b[i - Len(<<k>>)]
    BY ONLY <1>1, <1>2, BothByPlace
  <2> QED
    BY <1>0, <1>1, <1>2, <2>1
<1>4. \A i \in 1..Len(t) : i # 1 => i - 1 \in 1..Len(b) /\ t[i] = b[i - 1]
  BY <1>3
<1>5. 1 \in 1..Len(t) /\ t[1] = k
  BY <1>3
<1>6. ASSUME NEW i \in 1..Len(t), NEW j \in 1..Len(t), t[i] = t[j] PROVE i = j
  <2>1. CASE i = 1
    BY <1>1, <1>4, <1>5, <1>6, <2>1
  <2>2. CASE j = 1
    BY <1>1, <1>4, <1>5, <1>6, <2>2
  <2>3. CASE i # 1 /\ j # 1
    <3>1. i - 1 = j - 1
      BY <1>1, <1>4, <1>6, <2>3
    <3> QED
      BY <3>1
  <2> QED
    BY <2>1, <2>2, <2>3
<1>7. ASSUME NEW i \in 1..Len(t) PROVE t[i] = k \/ \E j \in 1..Len(used) : t[i] = used[j]
  BY <1>1, <1>4, <1>5
<1> QED
  BY <1>3, <1>6, <1>7 DEF t

\* An entry written or looked up is the one used last.
LEMMA EntryTouched ==
  ASSUME CacheKept, NEW k \in Keys, used' = Touched(k), entries'[k] # NoResult,
         \A j \in Keys : j # k => entries'[j] = entries[j]
  PROVE  UsedKept'
<1>1. /\ used' \in Seq(Keys)
      /\ \A i, j \in 1..Len(used') : used'[i] = used'[j] => i = j
      /\ \A i \in 1..Len(used') : used'[i] = k \/ \E j \in 1..Len(used) : used'[i] = used[j]
  BY KeyTouched
<1>2. used \in Seq(Keys) /\ \A i \in 1..Len(used) : entries[used[i]] # NoResult
  BY DEF CacheKept, UsedKept
<1>3. ASSUME NEW i \in 1..Len(used') PROVE entries'[used'[i]] # NoResult
  <2>1. CASE used'[i] = k
    BY <2>1
  <2>2. CASE used'[i] # k
    <3>1. PICK j \in 1..Len(used) : used'[i] = used[j]
      BY <1>1, <2>2
    <3>2. used[j] \in Keys
      BY ONLY <1>2, j \in 1..Len(used)
    <3>3. entries'[used[j]] = entries[used[j]]
      BY <2>2, <3>1, <3>2
    <3> QED
      BY <1>2, <3>1, <3>3
  <2> QED
    BY <2>1, <2>2
<1> QED
  BY <1>1, <1>3 DEF UsedKept

\* MarkRunInFlight, and the steps that only move a run on.
LEMMA KeptMark ==
  ASSUME CacheKept, NEW r \in CacheRuns, MarkRunInFlight(r)
  PROVE  CacheKept'
<1>1. DOMAIN crun = CacheRuns /\ DOMAIN markers = CacheRuns /\ DOMAIN crun[r] = RunFields /\ DOMAIN entries = Keys /\ CacheRunKept(r) /\ EntriesKept /\ UsedKept
  BY DEF CacheKept, CacheRows
<1>2. /\ DOMAIN crun' = CacheRuns /\ DOMAIN markers' = CacheRuns
      /\ \A q \in CacheRuns : q # r => crun'[q] = crun[q] /\ markers'[q] = markers[q]
      /\ crun'[r] = [crun[r] EXCEPT !.at = "lookup", !.late = Looked] /\ markers'[r] = "fresh"
  BY <1>1 DEF MarkRunInFlight
<1>3. /\ DOMAIN crun'[r] = RunFields /\ crun'[r].at = "lookup" /\ crun'[r].late = Looked /\ crun'[r].step = crun[r].step
      /\ crun'[r].put = crun[r].put /\ crun'[r].restored = crun[r].restored
  BY <1>1, <1>2 DEF RunFields
<1>4. CacheRunKept(r)'
  BY <1>1, <1>2, <1>3 DEF CacheRunKept, InExecution, MarkRunInFlight, RunAt
<1>5. EntriesKept' /\ UsedKept' /\ DOMAIN entries' = Keys /\ objects' = objects /\ sweep' = sweep
  BY <1>1 DEF MarkRunInFlight, EntriesKept, UsedKept
<1> QED
  BY <1>2, <1>3, <1>4, <1>5, OneRunMoves

\* cacheLookup.
LEMMA KeptLookup ==
  ASSUME CacheKept, NEW r \in CacheRuns, cacheLookup(r)
  PROVE  CacheKept'
<1> DEFINE k == Key(crun[r].step)
<1>1. /\ DOMAIN crun = CacheRuns /\ DOMAIN markers = CacheRuns /\ DOMAIN crun[r] = RunFields /\ DOMAIN entries = Keys
      /\ CacheRunKept(r) /\ EntriesKept /\ UsedKept /\ crun[r].step \in Settings
  BY DEF CacheKept, CacheRows
<1>2. k \in Keys
  BY <1>1 DEF Keys
<1>3. /\ DOMAIN crun' = CacheRuns /\ DOMAIN markers' = CacheRuns
      /\ \A q \in CacheRuns : q # r => crun'[q] = crun[q]
      /\ markers' = markers /\ crun[r].at = "lookup"
      /\ crun'[r] = [crun[r] EXCEPT !.at = IF entries[k] # NoResult THEN "verify" ELSE "execute", !.result = entries[k]]
  BY <1>1 DEF cacheLookup, RunAt
<1>4. /\ DOMAIN crun'[r] = RunFields /\ crun'[r].at = (IF entries[k] # NoResult THEN "verify" ELSE "execute") /\ crun'[r].late = crun[r].late /\ crun'[r].step = crun[r].step
      /\ crun'[r].put = crun[r].put /\ crun'[r].restored = crun[r].restored /\ crun'[r].result = entries[k]
  BY <1>1, <1>3 DEF RunFields
<1>5. entries' = entries /\ objects' = objects /\ sweep' = sweep
  BY DEF cacheLookup
<1>6. EntriesKept' /\ DOMAIN entries' = Keys
  BY <1>1, <1>5 DEF EntriesKept
<1>7. UsedKept'
  <2>1. CASE entries[k] # NoResult
    <3>1. used' = Touched(k)
      BY <2>1 DEF cacheLookup
    <3> HIDE DEF k
    <3> QED
      BY <1>2, <1>5, <2>1, <3>1, EntryTouched
  <2>2. CASE entries[k] = NoResult
    BY <1>1, <2>2 DEF cacheLookup, UsedKept
  <2> QED
    BY <2>1, <2>2
<1>8. CacheRunKept(r)'
  <2>1. entries[k] # NoResult => \E s \in Settings : Key(s) = k /\ entries[k] = Result(s)
    BY <1>1, <1>2 DEF EntriesKept
  <2> QED
    BY <1>1, <1>3, <1>4, <1>5, <2>1 DEF CacheRunKept, InExecution
<1>9. InExecution(r)
  BY <1>3 DEF InExecution
<1> HIDE DEF k
<1> QED
  BY <1>3, <1>4, <1>5, <1>6, <1>7, <1>8, <1>9, OneRunMoves

\* A run that goes on to execute its step, having restored nothing unless it is late.
LEMMA KeptToExecute ==
  ASSUME CacheKept, NEW r \in CacheRuns,
         InExecution(r), crun[r].late \/ crun[r].restored = {},
         crun' = [crun EXCEPT ![r].at = "execute", ![r].todo = <<>>, ![r].result = NoResult],
         EntriesKept', UsedKept', DOMAIN entries' = Keys,
         UNCHANGED <<objects, markers, sweep>>
  PROVE  CacheKept'
<1>1. DOMAIN crun = CacheRuns /\ DOMAIN markers = CacheRuns /\ DOMAIN crun[r] = RunFields /\ CacheRunKept(r)
  BY DEF CacheKept, CacheRows
<1>2. /\ DOMAIN crun' = CacheRuns /\ \A q \in CacheRuns : q # r => crun'[q] = crun[q]
      /\ crun'[r] = [crun[r] EXCEPT !.at = "execute", !.todo = <<>>, !.result = NoResult]
  BY <1>1
<1>3. /\ DOMAIN crun'[r] = RunFields /\ crun'[r].at = "execute" /\ crun'[r].late = crun[r].late /\ crun'[r].step = crun[r].step
      /\ crun'[r].put = crun[r].put /\ crun'[r].restored = crun[r].restored
  BY <1>1, <1>2 DEF RunFields
<1>4. CacheRunKept(r)'
  BY <1>1, <1>3 DEF CacheRunKept, InExecution
<1> QED
  BY <1>1, <1>2, <1>3, <1>4, OneRunMoves

\* forcedRegen.
LEMMA KeptRegen ==
  ASSUME CacheKept, NEW r \in CacheRuns, forcedRegen(r)
  PROVE  CacheKept'
<1>1. CacheRunKept(r) /\ EntriesKept /\ UsedKept /\ DOMAIN entries = Keys /\ crun[r].at = "verify"
  BY DEF CacheKept, CacheRows, forcedRegen, RunAt
<1>2. InExecution(r) /\ crun[r].restored = {}
  BY <1>1 DEF CacheRunKept, InExecution
<1>3. EntriesKept' /\ UsedKept' /\ DOMAIN entries' = Keys
  BY <1>1 DEF forcedRegen, EntriesKept, UsedKept
<1>4. crun' = [crun EXCEPT ![r].at = "execute", ![r].todo = <<>>, ![r].result = NoResult] /\ UNCHANGED <<objects, markers, sweep>>
  BY DEF forcedRegen
<1> QED
  BY <1>2, <1>3, <1>4, KeptToExecute

\* degradeToMiss, of a run that has restored nothing unless it is late.
LEMMA KeptDegrade ==
  ASSUME CacheKept, NEW r \in CacheRuns, InExecution(r), crun[r].late \/ crun[r].restored = {},
         degradeToMiss(r), UNCHANGED <<objects, markers, sweep>>
  PROVE  CacheKept'
<1>1. PICK k \in Keys : k = Key(crun[r].step)
  BY DEF CacheKept, CacheRows, Keys
<1>2. EntriesKept' /\ UsedKept' /\ DOMAIN entries' = Keys
  BY <1>1, EntryForgotten DEF degradeToMiss
<1>3. crun' = [crun EXCEPT ![r].at = "execute", ![r].todo = <<>>, ![r].result = NoResult]
  BY DEF degradeToMiss
<1> QED
  BY <1>2, <1>3, KeptToExecute

\* The places of a run between the execution of its step and its end.
After == {"put", "save", "finish", "scratch", "adopt", "unmark"}

\* A run that goes on there.
LEMMA KeptGoOn ==
  ASSUME CacheKept, NEW r \in CacheRuns, InExecution(r), DOMAIN crun' = CacheRuns,
         \A q \in CacheRuns : q # r => crun'[q] = crun[q],
         DOMAIN crun'[r] = RunFields, crun'[r].at \in After,
         crun'[r].step = crun[r].step, crun'[r].late = crun[r].late,
         objects \subseteq objects', crun'[r].put \subseteq crun[r].put \cup objects',
         EntriesKept', UsedKept', DOMAIN entries' = Keys, UNCHANGED <<markers, sweep>>
  PROVE  CacheKept'
<1>1. DOMAIN markers = CacheRuns /\ CacheRunKept(r)
  BY DEF CacheKept, CacheRows
<1>2. markers'[r] = "fresh"
  BY <1>1 DEF CacheRunKept
<1>3. crun[r].late \/ crun'[r].put \subseteq objects'
  BY <1>1 DEF CacheRunKept
<1>4. CacheRunKept(r)'
  BY <1>2, <1>3 DEF CacheRunKept, InExecution, After
<1> QED
  BY <1>1, <1>4, OneRunMoves

\* Execute.
LEMMA KeptExecute ==
  ASSUME CacheKept, NEW r \in CacheRuns, Execute(r)
  PROVE  CacheKept'
<1>1. DOMAIN crun = CacheRuns /\ DOMAIN crun[r] = RunFields /\ EntriesKept /\ UsedKept /\ DOMAIN entries = Keys
  BY DEF CacheKept, CacheRows
<1>2. PICK ok \in BOOLEAN :
         crun' = [crun EXCEPT ![r].at = "put", ![r].ok = ok,
                     ![r].todo = IF ok THEN StoreOrder(crun[r].step) ELSE <<Body(crun[r].step)>>]
  BY DEF Execute
<1> DEFINE td == IF ok THEN StoreOrder(crun[r].step) ELSE <<Body(crun[r].step)>>
<1>3. /\ DOMAIN crun' = CacheRuns /\ \A q \in CacheRuns : q # r => crun'[q] = crun[q]
      /\ crun'[r] = [crun[r] EXCEPT !.at = "put", !.ok = ok, !.todo = td]
  BY <1>1, <1>2
<1> HIDE DEF td
<1>4. /\ DOMAIN crun'[r] = RunFields /\ crun'[r].at = "put" /\ crun'[r].late = crun[r].late /\ crun'[r].step = crun[r].step
      /\ crun'[r].put = crun[r].put
  BY <1>1, <1>3 DEF RunFields
<1>5. EntriesKept' /\ UsedKept' /\ DOMAIN entries' = Keys /\ objects' = objects /\ UNCHANGED <<markers, sweep>>
  BY <1>1 DEF Execute, EntriesKept, UsedKept
<1>6. InExecution(r) /\ "put" \in After
  BY DEF Execute, InExecution, RunAt, After
<1> QED
  BY <1>3, <1>4, <1>5, <1>6, KeptGoOn

\* PutObject.
LEMMA KeptPut ==
  ASSUME CacheKept, NEW r \in CacheRuns, PutObject(r)
  PROVE  CacheKept'
<1>1. DOMAIN crun = CacheRuns /\ DOMAIN crun[r] = RunFields /\ EntriesKept /\ UsedKept /\ DOMAIN entries = Keys
  BY DEF CacheKept, CacheRows
<1>2. PICK o : o = Head(crun[r].todo)
  OBVIOUS
<1>3. PICK stage \in After : stage = IF Len(crun[r].todo) > 1 THEN "put" ELSE IF crun[r].ok THEN "save" ELSE "finish"
  BY DEF After
<1>4. /\ DOMAIN crun' = CacheRuns /\ \A q \in CacheRuns : q # r => crun'[q] = crun[q]
      /\ crun'[r] = [crun[r] EXCEPT !.todo = Tail(@), !.put = @ \cup {o}, !.at = stage]
      /\ objects' = objects \cup {o}
  BY <1>1, <1>2, <1>3 DEF PutObject
<1>5. /\ DOMAIN crun'[r] = RunFields /\ crun'[r].at = stage /\ crun'[r].late = crun[r].late /\ crun'[r].step = crun[r].step
      /\ crun'[r].put = crun[r].put \cup {o}
  BY <1>1, <1>4 DEF RunFields
<1>6. EntriesKept' /\ UsedKept' /\ DOMAIN entries' = Keys /\ UNCHANGED <<markers, sweep>>
  BY <1>1 DEF PutObject, EntriesKept, UsedKept
<1>7. InExecution(r)
  BY DEF PutObject, InExecution, RunAt
<1>8. objects \subseteq objects' /\ crun'[r].put \subseteq crun[r].put \cup objects'
  BY <1>4, <1>5
<1> QED
  BY <1>3, <1>4, <1>5, <1>6, <1>7, <1>8, KeptGoOn

\* A run that only moves to one of those places.
LEMMA KeptGo ==
  ASSUME CacheKept, NEW r \in CacheRuns, InExecution(r), NEW stage \in After, Go(r, stage), objects' = objects,
         EntriesKept', UsedKept', DOMAIN entries' = Keys, UNCHANGED <<markers, sweep>>
  PROVE  CacheKept'
<1>1. DOMAIN crun = CacheRuns /\ DOMAIN crun[r] = RunFields
  BY DEF CacheKept, CacheRows
<1>2. /\ DOMAIN crun' = CacheRuns /\ \A q \in CacheRuns : q # r => crun'[q] = crun[q]
      /\ crun'[r] = [crun[r] EXCEPT !.at = stage]
  BY <1>1 DEF Go
<1>3. /\ DOMAIN crun'[r] = RunFields /\ crun'[r].at = stage /\ crun'[r].late = crun[r].late /\ crun'[r].step = crun[r].step
      /\ crun'[r].put = crun[r].put
  BY <1>1, <1>2 DEF RunFields
<1> QED
  BY <1>2, <1>3, KeptGoOn

\* cacheSave.
LEMMA KeptSave ==
  ASSUME CacheKept, NEW r \in CacheRuns, cacheSave(r)
  PROVE  CacheKept'
<1>1. EntriesKept /\ UsedKept /\ DOMAIN entries = Keys /\ crun[r].step \in Settings
  BY DEF CacheKept, CacheRows
<1>2. InExecution(r) /\ "finish" \in After /\ Go(r, "finish") /\ objects' = objects /\ UNCHANGED <<markers, sweep>>
  BY DEF cacheSave, InExecution, RunAt, After
<1>3. EntriesKept' /\ UsedKept' /\ DOMAIN entries' = Keys
  <2>1. CASE UNCHANGED <<entries, used>>
    BY <1>1, <2>1 DEF EntriesKept, UsedKept
  <2>2. CASE entries' = [entries EXCEPT ![Key(crun[r].step)] = Result(crun[r].step)] /\ used' = Touched(Key(crun[r].step))
    <3>1. PICK s \in Settings : s = crun[r].step
      BY <1>1
    <3>2. PICK k \in Keys : k = Key(s)
      BY <3>1 DEF Keys
    <3>3. DOMAIN entries' = Keys /\ entries'[k] = Result(s) /\ \A j \in Keys : j # k => entries'[j] = entries[j]
      BY <1>1, <2>2, <3>1, <3>2
    <3>4. Result(s) # NoResult
      <4>1. Result(s).refs # NoResult.refs
        BY DEF Result, NoResult
      <4> QED
        BY <4>1
    <3>5. EntriesKept'
      BY <1>1, <3>2, <3>3 DEF EntriesKept
    <3>6. used' = Touched(k)
      BY <2>2, <3>1, <3>2
    <3>7. UsedKept'
      BY <3>3, <3>4, <3>6, EntryTouched
    <3> QED
      BY <3>3, <3>5, <3>7
  <2> QED
    BY <2>1, <2>2 DEF cacheSave
<1> QED
  BY <1>2, <1>3, KeptGo

\* claimBody, writeScratch and WritePin.
LEMMA KeptFinish ==
  ASSUME CacheKept, NEW r \in CacheRuns, claimBody(r) \/ writeScratch(r) \/ WritePin(r)
  PROVE  CacheKept'
<1>1. EntriesKept /\ UsedKept /\ DOMAIN entries = Keys
  BY DEF CacheKept, CacheRows
<1>2. InExecution(r) /\ objects' = objects /\ UNCHANGED <<markers, sweep>> /\ UNCHANGED <<entries, used>>
  BY DEF claimBody, writeScratch, WritePin, InExecution, RunAt
<1>3. EntriesKept' /\ UsedKept' /\ DOMAIN entries' = Keys
  BY <1>1, <1>2 DEF EntriesKept, UsedKept
<1>4. \E stage \in After : Go(r, stage)
  BY DEF claimBody, writeScratch, WritePin, After
<1> QED
  BY <1>2, <1>3, <1>4, KeptGo

\* putScratch.
LEMMA KeptPutScratch ==
  ASSUME CacheKept, NEW r \in CacheRuns, putScratch(r)
  PROVE  CacheKept'
<1>1. DOMAIN crun = CacheRuns /\ DOMAIN crun[r] = RunFields /\ EntriesKept /\ UsedKept /\ DOMAIN entries = Keys
  BY DEF CacheKept, CacheRows
<1>2. /\ DOMAIN crun' = CacheRuns /\ \A q \in CacheRuns : q # r => crun'[q] = crun[q]
      /\ crun'[r] = [crun[r] EXCEPT !.at = "adopt", !.put = @ \cup {ScratchBody}]
      /\ objects' = objects \cup {ScratchBody}
  BY <1>1 DEF putScratch
<1>3. /\ DOMAIN crun'[r] = RunFields /\ crun'[r].at = "adopt" /\ crun'[r].late = crun[r].late /\ crun'[r].step = crun[r].step
      /\ crun'[r].put = crun[r].put \cup {ScratchBody}
  BY <1>1, <1>2 DEF RunFields
<1>4. EntriesKept' /\ UsedKept' /\ DOMAIN entries' = Keys /\ UNCHANGED <<markers, sweep>>
  BY <1>1 DEF putScratch, EntriesKept, UsedKept
<1>5. InExecution(r) /\ "adopt" \in After
  BY DEF putScratch, InExecution, RunAt, After
<1>6. objects \subseteq objects' /\ crun'[r].put \subseteq crun[r].put \cup objects'
  BY <1>2, <1>3
<1> QED
  BY <1>2, <1>3, <1>4, <1>5, <1>6, KeptGoOn

\* What a reproducible hit restores is what running would leave.
LEMMA RestoresTheOutcome ==
  ASSUME NEW t \in Settings, NEW s \in Settings, Key(s) = Key(t), t \in Generators => Result(s).fragment # {}
  PROVE  /\ RestoreOrder(t, Result(s)) \in Seq(Outcome(t)) /\ RestoreOrder(t, Result(s)) # <<>>
         /\ ToSet(RestoreOrder(t, Result(s))) = Outcome(t)
         /\ Outcome(t) \subseteq Result(s).refs \cup Result(s).fragment
<1> DEFINE R == {Body(t), Log(t)}
           F == Result(s).fragment
<1>1. Result(s).refs = R
  BY KeyTells DEF Result
<1>2. t \in Generators => F = FragmentsOf(t)
  BY KeyTells DEF Result, FragmentsOf
<1>3. t \notin Generators => FragmentsOf(t) = {}
  BY DEF FragmentsOf
<1>4. Outcome(t) = R \cup FragmentsOf(t)
  BY DEF Outcome
<1>5. IsFiniteSet(R) /\ R # {} /\ IsFiniteSet(FragmentsOf(t))
  <2>1. IsFiniteSet({}) /\ \A x : IsFiniteSet({x})
    BY FS_EmptySet, FS_Singleton
  <2>2. R = {Body(t)} \cup {Log(t)}
    OBVIOUS
  <2>3. IsFiniteSet({Body(t)} \cup {Log(t)})
    BY <2>1, FS_Union
  <2> QED
    BY <2>1, <2>2, <2>3 DEF FragmentsOf
<1>6. RestoreOrder(t, Result(s)) = SetToSeq(R) \o (IF t \in Generators THEN SetToSeq(FragmentsOf(t)) ELSE <<>>)
  BY <1>1, <1>2 DEF RestoreOrder
<1> DEFINE b == IF t \in Generators THEN SetToSeq(FragmentsOf(t)) ELSE <<>>
<1> HIDE DEF R, F
<1>7. SetToSeq(R) \in Seq(R) /\ ToSet(SetToSeq(R)) = R /\ SetToSeq(R) # <<>>
  BY <1>5, SetAsSequence
<1>8. b \in Seq(FragmentsOf(t)) /\ ToSet(b) = FragmentsOf(t)
  <2>1. CASE t \in Generators
    BY <1>5, <2>1, SetAsSequence
  <2>2. CASE t \notin Generators
    <3>1. <<>> \in Seq(FragmentsOf(t)) /\ ToSet(<<>>) = {}
      BY DEF ToSet
    <3> QED
      BY <1>3, <2>2, <3>1
  <2> QED
    BY <2>1, <2>2
<1> DEFINE a == SetToSeq(R)
<1> HIDE DEF a, b
<1>9. a \in Seq(Outcome(t)) /\ b \in Seq(Outcome(t))
  <2>1. R \subseteq Outcome(t) /\ FragmentsOf(t) \subseteq Outcome(t)
    BY <1>4
  <2>2. a \in Seq(R)
    BY <1>7 DEF a
  <2>3. b \in Seq(FragmentsOf(t))
    BY <1>8
  <2> QED
    BY ONLY <2>1, <2>2, <2>3
<1>10. a \o b \in Seq(Outcome(t)) /\ ToSet(a \o b) = ToSet(a) \cup ToSet(b) /\ (a # <<>> => a \o b # <<>>)
  BY ONLY <1>9, ToSetOfBoth
<1>11. RestoreOrder(t, Result(s)) = a \o b
  BY <1>6 DEF a, b
<1>12. Outcome(t) \subseteq Result(s).refs \cup Result(s).fragment
  BY <1>1, <1>2, <1>3, <1>4 DEF F
<1>13. ToSet(a) = R /\ a # <<>>
  BY <1>7 DEF a
<1> QED
  BY <1>4, <1>8, <1>10, <1>11, <1>12, <1>13

\* serveFromCache.
LEMMA KeptServe ==
  ASSUME CacheKept, NEW r \in CacheRuns, serveFromCache(r)
  PROVE  CacheKept'
<1>1. /\ DOMAIN crun = CacheRuns /\ DOMAIN markers = CacheRuns /\ DOMAIN crun[r] = RunFields /\ DOMAIN entries = Keys
      /\ CacheRunKept(r) /\ EntriesKept /\ UsedKept /\ crun[r].step \in Settings
  BY DEF CacheKept, CacheRows
<1>2. crun[r].at = "verify" /\ InExecution(r) /\ crun[r].restored = {}
  BY <1>1 DEF serveFromCache, RunAt, InExecution, CacheRunKept
<1>3. UNCHANGED <<objects, markers, sweep>>
  BY DEF serveFromCache
<1>4. CASE ~hitIsReproducible(r)
  BY <1>2, <1>3, <1>4, KeptDegrade DEF serveFromCache
<1>5. CASE hitIsReproducible(r)
  <2>1. PICK t \in Settings : t = crun[r].step
    BY <1>1
  <2>2. PICK s \in Settings : Key(s) = Key(t) /\ crun[r].result = Result(s)
    BY <1>1, <1>2, <2>1 DEF CacheRunKept
  <2>3. (t \in Generators => Result(s).fragment # {}) /\ Result(s).refs \cup Result(s).fragment \subseteq objects
    BY <1>5, <2>1, <2>2 DEF hitIsReproducible
  <2>4. PICK td : td = RestoreOrder(t, Result(s))
    OBVIOUS
  <2>5. td \in Seq(Outcome(t)) /\ td # <<>> /\ ToSet(td) = Outcome(t) /\ Outcome(t) \subseteq objects
    BY <2>2, <2>3, <2>4, RestoresTheOutcome
  <2>6. /\ DOMAIN crun' = CacheRuns /\ \A q \in CacheRuns : q # r => crun'[q] = crun[q]
        /\ crun'[r] = [crun[r] EXCEPT !.at = "restore", !.result = NoResult, !.todo = td]
        /\ UNCHANGED <<entries, used>>
    BY <1>1, <1>5, <2>1, <2>2, <2>4 DEF serveFromCache
  <2>7. /\ DOMAIN crun'[r] = RunFields /\ crun'[r].at = "restore" /\ crun'[r].late = crun[r].late /\ crun'[r].step = t
        /\ crun'[r].put = crun[r].put /\ crun'[r].restored = {} /\ crun'[r].todo = td
    BY <1>1, <1>2, <2>1, <2>6 DEF RunFields
  <2>8. CacheRunKept(r)'
    BY <1>1, <1>2, <1>3, <2>5, <2>7 DEF CacheRunKept, InExecution
  <2>9. EntriesKept' /\ UsedKept' /\ DOMAIN entries' = Keys
    BY <1>1, <2>6 DEF EntriesKept, UsedKept
  <2> QED
    BY <1>1, <1>2, <1>3, <2>1, <2>6, <2>7, <2>8, <2>9, OneRunMoves
<1> QED
  BY <1>4, <1>5

\* restoreObject: it finds what it restores, unless it is late.
LEMMA KeptRestore ==
  ASSUME CacheKept, NEW r \in CacheRuns, restoreObject(r)
  PROVE  CacheKept'
<1>1. /\ DOMAIN crun = CacheRuns /\ DOMAIN markers = CacheRuns /\ DOMAIN crun[r] = RunFields /\ DOMAIN entries = Keys
      /\ CacheRunKept(r) /\ EntriesKept /\ UsedKept /\ crun[r].step \in Settings
  BY DEF CacheKept, CacheRows
<1>2. crun[r].at = "restore" /\ InExecution(r)
  BY DEF restoreObject, RunAt, InExecution
<1>3. UNCHANGED <<objects, markers, sweep>>
  BY DEF restoreObject
<1>4. PICK a : a = crun[r].todo
  OBVIOUS
<1>5. PICK out : out = Outcome(crun[r].step)
  OBVIOUS
<1>6. a \in Seq(out) /\ a # <<>> /\ crun[r].restored \cup ToSet(a) = out /\ (~crun[r].late => ToSet(a) \subseteq objects)
  BY <1>1, <1>2, <1>4, <1>5 DEF CacheRunKept
<1>7. /\ Tail(a) \in Seq(out) /\ ToSet(a) = {Head(a)} \cup ToSet(Tail(a)) /\ Head(a) \in ToSet(a)
      /\ Len(a) = 1 => ToSet(Tail(a)) = {}
      /\ Len(a) # 1 => Tail(a) # <<>>
  BY ONLY <1>6, ToSetOfHead
<1>8. CASE Head(a) \notin objects
  <2>1. crun[r].late
    BY <1>6, <1>7, <1>8
  <2>2. degradeToMiss(r)
    BY <1>4, <1>8 DEF restoreObject
  <2> QED
    BY <1>2, <1>3, <2>1, <2>2, KeptDegrade
<1>9. CASE Head(a) \in objects
  <2>1. PICK stage : stage = IF Len(a) = 1 THEN "cached" ELSE "restore"
    OBVIOUS
  <2>2. /\ DOMAIN crun' = CacheRuns /\ \A q \in CacheRuns : q # r => crun'[q] = crun[q]
        /\ crun'[r] = [crun[r] EXCEPT !.todo = Tail(a), !.restored = crun[r].restored \cup {Head(a)}, !.at = stage]
        /\ UNCHANGED <<entries, used>>
    BY <1>1, <1>4, <1>9, <2>1 DEF restoreObject
  <2>3. /\ DOMAIN crun'[r] = RunFields /\ crun'[r].at = stage /\ crun'[r].late = crun[r].late /\ crun'[r].step = crun[r].step
        /\ crun'[r].put = crun[r].put /\ crun'[r].restored = crun[r].restored \cup {Head(a)} /\ crun'[r].todo = Tail(a)
    BY <1>1, <2>2 DEF RunFields
  <2>4. crun'[r].restored \cup ToSet(crun'[r].todo) = out /\ (~crun[r].late => ToSet(crun'[r].todo) \subseteq objects)
    BY <1>6, <1>7, <2>3
  <2>5. Outcome(crun'[r].step) = out
    BY <1>5, <2>3
  <2>6. CASE Len(a) = 1
    <3>1. crun'[r].restored = out
      BY <1>7, <2>3, <2>4, <2>6
    <3>2. CacheRunKept(r)'
      BY <1>1, <1>2, <1>3, <2>1, <2>3, <2>5, <2>6, <3>1 DEF CacheRunKept, InExecution
    <3>3. EntriesKept' /\ UsedKept' /\ DOMAIN entries' = Keys
      BY <1>1, <2>2 DEF EntriesKept, UsedKept
    <3> QED
      BY <1>1, <1>2, <1>3, <2>2, <2>3, <3>2, <3>3, OneRunMoves
  <2>7. CASE Len(a) # 1
    <3>2. CacheRunKept(r)'
      BY <1>1, <1>2, <1>3, <1>7, <2>1, <2>3, <2>4, <2>5, <2>7 DEF CacheRunKept, InExecution
    <3>3. EntriesKept' /\ UsedKept' /\ DOMAIN entries' = Keys
      BY <1>1, <2>2 DEF EntriesKept, UsedKept
    <3> QED
      BY <1>1, <1>2, <1>3, <2>2, <2>3, <3>2, <3>3, OneRunMoves
  <2> QED
    BY <2>6, <2>7
<1> QED
  BY <1>8, <1>9

\* ClearRunInFlight, and a run that dies.
LEMMA KeptEnd ==
  ASSUME CacheKept, NEW r \in CacheRuns, ClearRunInFlight(r) \/ CrashCacheRun(r)
  PROVE  CacheKept'
<1>1. /\ DOMAIN crun = CacheRuns /\ DOMAIN markers = CacheRuns /\ DOMAIN crun[r] = RunFields /\ DOMAIN entries = Keys
      /\ EntriesKept /\ UsedKept
  BY DEF CacheKept, CacheRows
<1>2. PICK stage \in {"done", "crashed"} : crun' = [crun EXCEPT ![r] = Ended(r, stage)]
  BY DEF ClearRunInFlight, CrashCacheRun
<1>3. /\ DOMAIN crun' = CacheRuns /\ \A q \in CacheRuns : q # r => crun'[q] = crun[q]
      /\ crun'[r] = Ended(r, stage)
  BY <1>1, <1>2
<1>4. DOMAIN crun'[r] = RunFields /\ crun'[r].at = stage /\ crun'[r].step = crun[r].step
  BY <1>1, <1>3 DEF Ended, RunFields
<1>5. ~InExecution(r)' /\ CacheRunKept(r)'
  BY <1>4 DEF InExecution, CacheRunKept
<1>6. DOMAIN markers' = CacheRuns /\ \A q \in CacheRuns : q # r => markers'[q] = markers[q]
  BY <1>1 DEF ClearRunInFlight, CrashCacheRun
<1>7. UNCHANGED <<objects, entries, used, sweep>>
  BY DEF ClearRunInFlight, CrashCacheRun
<1>8. EntriesKept' /\ UsedKept' /\ DOMAIN entries' = Keys
  BY <1>1, <1>7 DEF EntriesKept, UsedKept
<1> QED
  BY <1>3, <1>4, <1>5, <1>6, <1>7, <1>8, OneRunMoves

\* A crashed run's marker ages.
LEMMA KeptAge ==
  ASSUME CacheKept, NEW r \in CacheRuns, Age(r)
  PROVE  CacheKept'
<1>1. /\ DOMAIN crun = CacheRuns /\ DOMAIN markers = CacheRuns /\ DOMAIN crun[r] = RunFields /\ DOMAIN entries = Keys
      /\ EntriesKept /\ UsedKept /\ CacheRunKept(r)
  BY DEF CacheKept, CacheRows
<1>2. UNCHANGED <<objects, entries, used, sweep, crun>> /\ crun[r].at = "crashed"
  BY DEF Age, RunAt
<1>3. DOMAIN markers' = CacheRuns /\ \A q \in CacheRuns : q # r => markers'[q] = markers[q]
  BY <1>1 DEF Age
<1>4. ~InExecution(r)' /\ ~InExecution(r)
  BY <1>2 DEF InExecution
<1>5. CacheRunKept(r)'
  BY <1>1, <1>2, <1>4, CacheRunStays
<1>6. EntriesKept' /\ UsedKept' /\ DOMAIN entries' = Keys
  BY <1>1, <1>2 DEF EntriesKept, UsedKept
<1> QED
  BY <1>1, <1>2, <1>3, <1>4, <1>5, <1>6, OneRunMoves

\* What a step of the sweep that takes no object must show.
LEMMA SweepMoves ==
  ASSUME CacheKept, UNCHANGED <<objects, crun, markers>>, DOMAIN sweep' = SweepFields,
         EntriesKept', UsedKept', DOMAIN entries' = Keys, SweepKept', LateKept'
  PROVE  CacheKept'
<1>1. CacheRows'
  BY DEF CacheKept, CacheRows
<1>2. \A q \in CacheRuns : CacheRunKept(q)'
  BY CacheRunStays DEF CacheKept
<1> QED
  BY <1>1, <1>2 DEF CacheKept

\* Nothing of the entries changes.
LEMMA EntriesStay ==
  ASSUME CacheKept, UNCHANGED <<entries, used>>
  PROVE  EntriesKept' /\ UsedKept' /\ DOMAIN entries' = Keys
BY DEF CacheKept, CacheRows, EntriesKept, UsedKept

\* readPins, and the two looks at the scratch cache.
LEMMA KeptReadPins ==
  ASSUME CacheKept, readPins
  PROVE  CacheKept'
<1>1. PICK b, p : sweep' = [NoSweep EXCEPT !.at = "scratch", !.budget = b, !.left = sweep.left - 1, !.protected = p]
  BY DEF readPins
<1>2. DOMAIN sweep' = SweepFields /\ sweep'.at = "scratch" /\ sweep'.kept = {}
  BY <1>1 DEF NoSweep, SweepFields
<1>3. SweepKept' /\ LateKept'
  BY <1>2 DEF SweepKept, LateKept, Looked
<1> QED
  BY <1>2, <1>3, SweepMoves, EntriesStay DEF readPins

\* readScratchDigests and savesInFlight.
LEMMA KeptReadScratch ==
  ASSUME CacheKept, readScratchDigests \/ savesInFlight
  PROVE  CacheKept'
<1>1. DOMAIN sweep = SweepFields /\ SweepKept
  BY DEF CacheKept, CacheRows
<1>2. DOMAIN sweep' = SweepFields /\ sweep'.at \in {"saves", "runs"} /\ sweep'.kept = sweep.kept
  BY <1>1 DEF readScratchDigests, savesInFlight, SweepFields
<1>3. sweep'.kept = {}
  BY <1>1, <1>2 DEF SweepKept, readScratchDigests, savesInFlight
<1>4. SweepKept' /\ LateKept'
  BY <1>2, <1>3 DEF SweepKept, LateKept, Looked
<1> QED
  BY <1>2, <1>4, SweepMoves, EntriesStay DEF readScratchDigests, savesInFlight

\* runsInFlight: a run in execution has a fresh marker, and the sweep has seen it.
LEMMA KeptRunsInFlight ==
  ASSUME CacheKept, runsInFlight
  PROVE  CacheKept'
<1>1. DOMAIN sweep = SweepFields /\ SweepKept
  BY DEF CacheKept, CacheRows
<1>2. DOMAIN sweep' = SweepFields /\ sweep'.at = "measure" /\ sweep'.kept = sweep.kept /\ sweep'.inFlight = (sweep.inFlight \/ AnyRunInFlight)
  BY <1>1 DEF runsInFlight, SweepFields
<1>3. sweep'.kept = {}
  BY <1>1, <1>2 DEF SweepKept, runsInFlight
<1>4. SweepKept'
  BY <1>2, <1>3 DEF SweepKept
<1>5. LateKept'
  <2>1. ASSUME NEW r \in CacheRuns, InExecution(r) PROVE sweep'.inFlight
    BY <1>2, <2>1 DEF CacheKept, CacheRunKept, AnyRunInFlight
  <2>2. \A r \in CacheRuns : InExecution(r)' <=> InExecution(r)
    BY DEF runsInFlight, InExecution
  <2> QED
    BY <2>1, <2>2 DEF LateKept
<1> QED
  BY <1>2, <1>4, <1>5, SweepMoves, EntriesStay DEF runsInFlight

\* measure.
LEMMA KeptMeasure ==
  ASSUME CacheKept, measure
  PROVE  CacheKept'
<1>1. DOMAIN sweep = SweepFields /\ SweepKept /\ LateKept
  BY DEF CacheKept, CacheRows
<1>2. /\ DOMAIN sweep' = SweepFields /\ sweep'.at = "entries" /\ sweep'.kept = sweep.kept
      /\ sweep'.sizes = objects /\ sweep'.inFlight = sweep.inFlight
  BY <1>1 DEF measure, SweepFields
<1>3. sweep'.kept = {} /\ objects' = objects
  BY <1>1, <1>2 DEF SweepKept, measure
<1>4. SweepKept'
  BY <1>2, <1>3 DEF SweepKept
<1>5. LateKept'
  BY <1>1, <1>2 DEF LateKept, measure, Looked, InExecution
<1> QED
  BY <1>2, <1>4, <1>5, SweepMoves, EntriesStay DEF measure

\* walkEntries: each entry listed is what some step with its key left.
LEMMA KeptWalk ==
  ASSUME CacheKept, walkEntries
  PROVE  CacheKept'
<1>1. DOMAIN sweep = SweepFields /\ SweepKept /\ LateKept /\ UsedKept /\ EntriesKept
  BY DEF CacheKept, CacheRows
<1>2. PICK l : l = [i \in DOMAIN used |-> [key |-> used[i], refs |-> references(entries[used[i]])]]
  OBVIOUS
<1>3. /\ DOMAIN sweep' = SweepFields /\ sweep'.at = "keep" /\ sweep'.kept = sweep.kept /\ sweep'.live = sweep.protected
      /\ sweep'.listed = l /\ sweep'.sizes = sweep.sizes /\ sweep'.inFlight = sweep.inFlight
  BY <1>1, <1>2 DEF walkEntries, SweepFields
<1>4. used \in Seq(Keys)
  BY <1>1 DEF UsedKept
<1>5. DOMAIN used = 1..Len(used) /\ Len(used) \in Nat /\ \A i \in 1..Len(used) : used[i] \in Keys
  BY <1>4
<1>6. ASSUME NEW i \in 1..Len(used)
      PROVE  l[i].key = used[i] /\ ReadOf(l[i].key, l[i].refs) /\ l[i] \in [key : Keys, refs : {references(Result(s)) : s \in Settings}]
  <2>1. l[i] = [key |-> used[i], refs |-> references(entries[used[i]])]
    BY <1>2, <1>5
  <2>2. entries[used[i]] # NoResult /\ used[i] \in Keys
    BY <1>1, <1>5 DEF UsedKept
  <2>3. PICK s \in Settings : Key(s) = used[i] /\ entries[used[i]] = Result(s)
    BY <1>1, <2>2 DEF EntriesKept
  <2>4. l[i].key = used[i] /\ l[i].refs = references(Result(s))
    BY <2>1, <2>3
  <2>5. l[i] \in [key : Keys, refs : {references(Result(t)) : t \in Settings}]
    BY <2>1, <2>2, <2>3
  <2> QED
    BY <2>3, <2>4, <2>5 DEF ReadOf
<1>7. l \in Seq([key : Keys, refs : {references(Result(s)) : s \in Settings}]) /\ Len(l) = Len(used)
  <2> DEFINE T == [key : Keys, refs : {references(Result(s)) : s \in Settings}]
  <2>1. DOMAIN l = 1..Len(used) /\ l = [i \in 1..Len(used) |-> l[i]]
    BY <1>2, <1>5
  <2>2. \A i \in 1..Len(used) : l[i] \in T
    BY <1>6
  <2> HIDE DEF T
  <2>3. l \in [1..Len(used) -> T]
    BY ONLY <2>1, <2>2
  <2>4. l \in Seq(T) /\ Len(l) = Len(used)
    BY ONLY <1>5, <2>3
  <2> QED
    BY <2>4 DEF T
<1>8. \A i \in 1..Len(l) : ReadOf(l[i].key, l[i].refs)
  BY <1>6, <1>7
<1>9. sweep'.kept = {} /\ sweep'.sizes \subseteq objects' /\ objects' = objects
  BY <1>1, <1>3 DEF SweepKept, walkEntries
<1>10. SweepKept'
  <2>1. sweep'.at = "keep" /\ sweep'.kept \subseteq Keys
    BY <1>3, <1>9
  <2>2. sweep'.listed \in Seq([key : Keys, refs : {references(Result(s)) : s \in Settings}])
    BY <1>3, <1>7
  <2>3. \A i \in 1..Len(sweep'.listed) : ReadOf(sweep'.listed[i].key, sweep'.listed[i].refs)
    BY <1>3, <1>8
  <2>4. sweep'.sizes \cap sweep'.live \subseteq objects' /\ \A s \in Settings : Key(s) \in sweep'.kept => Result(s).refs \subseteq sweep'.live
    BY <1>9
  <2> QED
    BY <1>9, <2>1, <2>2, <2>3, <2>4 DEF SweepKept, ReadOf
<1>11. LateKept'
  BY <1>1, <1>3 DEF LateKept, walkEntries, Looked, InExecution
<1> QED
  BY <1>3, <1>10, <1>11, SweepMoves, EntriesStay DEF walkEntries

\* evict: an entry that is kept has all it refers to kept alive.
LEMMA KeptEvict ==
  ASSUME CacheKept, evict
  PROVE  CacheKept'
<1> DEFINE T == [key : Keys, refs : {references(Result(s)) : s \in Settings}]
<1>1. DOMAIN sweep = SweepFields /\ SweepKept /\ LateKept /\ sweep.at = "keep" /\ sweep.listed # <<>> /\ objects' = objects
  BY DEF CacheKept, CacheRows, evict
<1>2. PICK l : l = sweep.listed
  OBVIOUS
<1>3. l \in Seq(T) /\ l # <<>> /\ \A i \in 1..Len(l) : ReadOf(l[i].key, l[i].refs)
  BY <1>1, <1>2 DEF SweepKept
<1>4. /\ sweep.sizes \subseteq objects /\ sweep.kept \subseteq Keys
      /\ \A s \in Settings : Key(s) \in sweep.kept => Result(s).refs \subseteq sweep.live
  BY <1>1 DEF SweepKept
<1>5. PICK e : e = Head(l)
  OBVIOUS
<1>6. /\ e \in T /\ ReadOf(e.key, e.refs) /\ Tail(l) \in Seq(T)
      /\ \A i \in 1..Len(Tail(l)) : ReadOf(Tail(l)[i].key, Tail(l)[i].refs)
  <2> HIDE DEF T
  <2>1. /\ Len(l) \in Nat \ {0} /\ Head(l) = l[1] /\ l[1] \in T /\ 1 \in 1..Len(l)
        /\ Tail(l) \in Seq(T) /\ Len(Tail(l)) = Len(l) - 1 /\ \A i \in 1..(Len(l) - 1) : Tail(l)[i] = l[i + 1] /\ i + 1 \in 1..Len(l)
    BY ONLY <1>3
  <2> QED
    BY <1>3, <1>5, <2>1
<1>7. e.key \in Keys /\ \A s \in Settings : Key(s) = e.key => Result(s).refs = e.refs
  <2>1. e.key \in Keys
    BY <1>6
  <2>2. PICK s \in Settings : Key(s) = e.key /\ e.refs = references(Result(s))
    BY <1>6 DEF ReadOf
  <2>3. ASSUME NEW t \in Settings, Key(t) = e.key PROVE Result(t).refs = e.refs
    BY <2>2, <2>3, KeyTells DEF references
  <2> QED
    BY <2>1, <2>3
<1> HIDE DEF T
<1>8. CASE Fits(e.refs)
  <2>1. sweep' = [sweep EXCEPT !.listed = Tail(@), !.live = @ \cup e.refs, !.kept = @ \cup {e.key}] /\ UNCHANGED <<entries, used>>
    BY <1>2, <1>5, <1>8 DEF evict
  <2>2. /\ DOMAIN sweep' = SweepFields /\ sweep'.at = "keep" /\ sweep'.kept = sweep.kept \cup {e.key}
        /\ sweep'.live = sweep.live \cup e.refs /\ sweep'.listed = Tail(l) /\ sweep'.sizes = sweep.sizes /\ sweep'.inFlight = sweep.inFlight
    BY <1>1, <1>2, <2>1 DEF SweepFields
  <2>3. \A s \in Settings : Key(s) \in sweep'.kept => Result(s).refs \subseteq sweep'.live
    BY <1>4, <1>7, <2>2
  <2>4. sweep'.kept \subseteq Keys /\ sweep'.sizes \subseteq objects'
    BY <1>1, <1>4, <1>7, <2>2
  <2>5. SweepKept'
    BY <1>6, <2>2, <2>3, <2>4 DEF SweepKept, ReadOf, T
  <2>6. LateKept'
    BY <1>1, <2>2 DEF LateKept, evict, Looked, InExecution
  <2> QED
    BY <2>1, <2>2, <2>5, <2>6, SweepMoves, EntriesStay DEF evict
<1>9. CASE ~Fits(e.refs)
  <2>1. /\ sweep' = [sweep EXCEPT !.listed = Tail(@)]
        /\ entries' = [entries EXCEPT ![e.key] = NoResult] /\ used' = RemoveFirst(used, e.key)
    BY <1>2, <1>5, <1>9 DEF evict
  <2>2. /\ DOMAIN sweep' = SweepFields /\ sweep'.at = "keep" /\ sweep'.kept = sweep.kept
        /\ sweep'.live = sweep.live /\ sweep'.listed = Tail(l) /\ sweep'.sizes = sweep.sizes /\ sweep'.inFlight = sweep.inFlight
    BY <1>1, <1>2, <2>1 DEF SweepFields
  <2>3. \A s \in Settings : Key(s) \in sweep'.kept => Result(s).refs \subseteq sweep'.live
    BY <1>4, <2>2
  <2>4. sweep'.kept \subseteq Keys /\ sweep'.sizes \subseteq objects'
    BY <1>1, <1>4, <2>2
  <2>5. SweepKept'
    BY <1>6, <2>2, <2>3, <2>4 DEF SweepKept, ReadOf, T
  <2>6. LateKept'
    BY <1>1, <2>2 DEF LateKept, evict, Looked, InExecution
  <2>7. EntriesKept' /\ UsedKept' /\ DOMAIN entries' = Keys
    BY <1>7, <2>1, EntryForgotten
  <2> QED
    BY <2>2, <2>5, <2>6, <2>7, SweepMoves DEF evict
<1> QED
  BY <1>8, <1>9

\* collect: the object taken is of no kept entry, and every run in execution is late.
LEMMA KeptCollect ==
  ASSUME CacheKept, collect
  PROVE  CacheKept'
<1>1. PICK o \in Orphans : objects' = objects \ {o}
  BY DEF collect
<1>2. ~sweep.inFlight /\ o \in sweep.sizes /\ o \notin sweep.live
  BY <1>1 DEF Orphans
<1>3. UNCHANGED <<entries, used, markers, crun, sweep>> /\ sweep.at = "keep" /\ sweep.listed = <<>>
  BY DEF collect
<1>4. \A r \in CacheRuns : InExecution(r) => crun[r].late
  BY <1>2, <1>3 DEF CacheKept, LateKept, Looked
<1>5. CacheRows'
  BY <1>3 DEF CacheKept, CacheRows
<1>6. EntriesKept' /\ UsedKept'
  BY <1>3, EntriesStay
<1>7. LateKept'
  BY <1>3 DEF CacheKept, LateKept, Looked, InExecution
<1>8. ASSUME NEW r \in CacheRuns PROVE CacheRunKept(r)'
  <2>1. CacheRunKept(r) /\ (InExecution(r) => crun[r].late)
    BY <1>4 DEF CacheKept
  <2> QED
    BY <1>3, <2>1 DEF CacheRunKept, InExecution
<1>9. SweepKept'
  BY <1>1, <1>2, <1>3 DEF CacheKept, SweepKept, ReadOf
<1> QED
  BY <1>5, <1>6, <1>7, <1>8, <1>9 DEF CacheKept

\* sweepDone.
LEMMA KeptSweepDone ==
  ASSUME CacheKept, sweepDone
  PROVE  CacheKept'
<1>1. DOMAIN sweep = SweepFields /\ SweepKept /\ sweep.at = "keep"
  BY DEF CacheKept, CacheRows, sweepDone
<1>2. DOMAIN sweep' = SweepFields /\ sweep'.at = "idle" /\ sweep'.kept = sweep.kept /\ sweep'.sizes = sweep.sizes
  BY DEF sweepDone, NoSweep, SweepFields
<1>3. /\ sweep.sizes \cap sweep.live \subseteq objects /\ sweep.kept \subseteq Keys
      /\ \A s \in Settings : Key(s) \in sweep.kept => Result(s).refs \subseteq sweep.live
  BY <1>1 DEF SweepKept
<1>4. \A s \in Settings : Key(s) \in sweep.kept => Result(s).refs \cap sweep.sizes \subseteq objects
  BY <1>3
<1>5. SweepKept'
  BY <1>2, <1>3, <1>4 DEF SweepKept, sweepDone
<1>6. LateKept'
  BY <1>2 DEF LateKept, Looked
<1> QED
  BY <1>2, <1>5, <1>6, SweepMoves, EntriesStay DEF sweepDone

\* The steps that leave the cache's own state alone.
LEMMA KeptQuiet ==
  ASSUME CacheKept, UNCHANGED <<objects, entries, used, markers, crun, sweep>>
  PROVE  CacheKept'
BY EntriesStay, SweepMoves DEF CacheKept, CacheRows, SweepKept, ReadOf, LateKept, Looked, InExecution

\* The inductive invariant of the step cache.
LEMMA CacheInductive == StepCacheSpec => []CacheKept
<1>1. StepCacheInit => CacheKept
  <2> SUFFICES ASSUME StepCacheInit PROVE CacheKept
    OBVIOUS
  <2>1. PICK s \in Earlier : /\ entries = [k \in Keys |-> IF k = Key(s) THEN Result(s) ELSE NoResult]
                             /\ used = <<Key(s)>>
    BY DEF StepCacheInit
  <2>2. s \in Settings /\ Key(s) \in Keys
    BY EarlierKnown DEF Keys
  <2>3. Result(s) # NoResult
    <3>1. Result(s).refs # NoResult.refs
      BY DEF Result, NoResult
    <3> QED
      BY <3>1
  <2>4. crun \in [CacheRuns ->
          [at : {"new"}, step : Settings, todo : {<<>>}, put : {{}}, restored : {{}},
           late : {FALSE}, ok : {TRUE}, result : {NoResult}]]
    BY DEF StepCacheInit
  <2>5. DOMAIN crun = CacheRuns
    BY <2>4
  <2>6. \A r \in CacheRuns : /\ DOMAIN crun[r] = RunFields /\ crun[r].at = "new" /\ crun[r].step \in Settings
                             /\ crun[r].put = {} /\ crun[r].restored = {}
    BY <2>4 DEF RunFields
  <2>7. DOMAIN sweep = SweepFields /\ sweep.at = "idle" /\ sweep.kept = {}
    BY DEF StepCacheInit, NoSweep, SweepFields
  <2>8. CacheRows
    BY <2>1, <2>5, <2>6, <2>7 DEF CacheRows, StepCacheInit
  <2>9. EntriesKept
    BY <2>1, <2>2 DEF EntriesKept
  <2>10. UsedKept
    <3>1. PICK k \in Keys : k = Key(s)
      BY <2>2
    <3>2. used = <<k>>
      BY <2>1, <3>1
    <3>3. used \in Seq(Keys) /\ Len(used) = 1 /\ used[1] = k /\ \A i \in 1..Len(used) : i = 1
      BY ONLY <3>2, k \in Keys
    <3>4. entries[k] # NoResult
      BY <2>1, <2>3, <3>1
    <3>5. \A i \in 1..Len(used) : entries[used[i]] # NoResult
      BY <3>3, <3>4
    <3>6. \A i, j \in 1..Len(used) : i = j
      BY <3>3
    <3> QED
      BY <3>3, <3>5, <3>6 DEF UsedKept
  <2>11. SweepKept /\ LateKept
    BY <2>7 DEF SweepKept, LateKept, Looked
  <2>12. \A r \in CacheRuns : CacheRunKept(r)
    BY <2>6 DEF CacheRunKept, InExecution
  <2> QED
    BY <2>8, <2>9, <2>10, <2>11, <2>12 DEF CacheKept
<1>2. CacheKept /\ [StepCacheNext]_cacheVars => CacheKept'
  <2> SUFFICES ASSUME CacheKept, [StepCacheNext]_cacheVars PROVE CacheKept'
    OBVIOUS
  <2>1. ASSUME NEW r \in CacheRuns, CacheRun(r) PROVE CacheKept'
    BY <2>1, KeptMark, KeptLookup, KeptRegen, KeptServe, KeptRestore, KeptExecute, KeptPut, KeptSave, KeptFinish,
       KeptPutScratch, KeptEnd, KeptAge DEF CacheRun
  <2>2. CASE GC
    BY <2>2, KeptReadPins, KeptReadScratch, KeptRunsInFlight, KeptMeasure, KeptWalk, KeptEvict, KeptCollect, KeptSweepDone DEF GC
  <2>3. CASE ExpirePin \/ CacheDone \/ UNCHANGED cacheVars
    BY <2>3, KeptQuiet DEF ExpirePin, CacheDone, cacheVars
  <2> QED
    BY <2>1, <2>2, <2>3 DEF StepCacheNext
<1> QED
  BY <1>1, <1>2, PTL DEF StepCacheSpec

\* It says what the cache promises.
LEMMA CacheKeptHolds == CacheKept => CacheHolds
<1> SUFFICES ASSUME CacheKept PROVE CacheHolds
  OBVIOUS
<1>1. CachedIsWhatRunningGives
  BY DEF CacheKept, CacheRunKept, CachedIsWhatRunningGives, RunAt
<1>2. SweepSparesRuns
  BY DEF CacheKept, CacheRunKept, SweepSparesRuns
<1>3. KeptEntriesAreWhole
  <2>1. SUFFICES ASSUME sweep.at = "idle", NEW k \in sweep.kept PROVE entries[k].refs \cap sweep.sizes \subseteq objects
    BY DEF KeptEntriesAreWhole
  <2>2. k \in Keys
    BY <2>1 DEF CacheKept, SweepKept
  <2>3. CASE entries[k] = NoResult
    BY <2>3 DEF NoResult
  <2>4. CASE entries[k] # NoResult
    <3>1. PICK s \in Settings : Key(s) = k /\ entries[k] = Result(s)
      BY <2>2, <2>4 DEF CacheKept, EntriesKept
    <3> QED
      BY <2>1, <3>1 DEF CacheKept, SweepKept
  <2> QED
    BY <2>3, <2>4
<1> QED
  BY <1>1, <1>2, <1>3 DEF CacheHolds

(* The cache's promises, for any number of runs, settings, budgets and     *)
(* deaths, any number of sweeps in turn and any order of their steps: a    *)
(* step served from the cache has exactly what running it would leave; a   *)
(* sweep takes nothing from a run it could see, and never makes one that   *)
(* announced a hit run on top of cached content; what it keeps of an entry *)
(* is whole (engine/cache.go, cache/gc.go).                                *)
THEOREM TheCacheHolds == StepCacheSpec => []CacheHolds
BY CacheInductive, CacheKeptHolds, PTL
=============================================================================
