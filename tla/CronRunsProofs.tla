---------------------------- MODULE CronRunsProofs ----------------------------
(***************************************************************************)
(* A single replica of TZCronJobController implements CronRuns, for any    *)
(* specs, any horizon and any budget of edits, deletions, lost calls and   *)
(* crashes.  (Two replicas do not: one that decided early may start a run  *)
(* after the other has started and recorded a later one.)                  *)
(*                                                                         *)
(* Three facts are needed beyond the invariant of                          *)
(* TZCronJobControllerProofs: what a copy has on record was started once;  *)
(* a pass works for an instant that has come; and behind the fence of the  *)
(* first status write nothing newer goes on record.                        *)
(***************************************************************************)
EXTENDS TZCronJobControllerProofs

(* The instants a Job was ever created for, and the record of none. *)
RunOnce == {Never} \cup {t \in Instants : jobs[t].uid > 0}

Backed ==
  /\ sj.lst \in RunOnce
  /\ \A i \in 1..Len(log) : log[i].lst \in RunOnce
  /\ \A r \in Replicas : cache[r].lst \in RunOnce /\ pass[r].held.lst \in RunOnce

InTime == \A r \in Replicas : pass[r].at <= now

Fenceposts == \A r \in Replicas : Deciding(r) => sj.lst <= pass[r].held.lst

(* The inductive invariant of the refinement. *)
RunInv == Inv /\ Backed /\ InTime /\ Fenceposts

Single == \A q, r \in Replicas : q = r
-----------------------------------------------------------------------------
(* What steps have in common.                                              *)

(* No Job appears under any name. *)
JobsKept == \A u \in Instants : jobs'[u].uid = jobs[u].uid

(* The log holds nothing but what it held and the object now stored.       *)
LogExtends ==
  \A i \in 1..Len(log') : log'[i] = sj' \/ \E k \in 1..Len(log) : log'[i] = log[k]

LEMMA InstantNumbers == Instants \in SUBSET Nat /\ Never \in Int /\ \A t \in Instants : Never < t
BY ControllerAssumption DEF Instants, Never

LEMMA KeptRunOnce == ASSUME JobsKept PROVE RunOnce' = RunOnce
BY DEF JobsKept, RunOnce, Instants

LEMMA DeletedKeeps ==
  ASSUME TypeOK, NEW t \in Instants, jobs' = jobs \/ jobs' = Deleted(t)
  PROVE  JobsKept
<1>1. CASE jobs' = jobs
  BY <1>1 DEF JobsKept
<1>2. CASE jobs' = Deleted(t)
  <2> SUFFICES ASSUME NEW u \in Instants PROVE jobs'[u].uid = jobs[u].uid
    BY DEF JobsKept
  <2>1. CASE u = t
    BY <1>2, <2>1 DEF Deleted, NoJob, TypeOK
  <2>2. CASE u # t
    BY <1>2, <2>2 DEF Deleted, TypeOK
  <2> QED
    BY <2>1, <2>2
<1> QED
  BY <1>1, <1>2

LEMMA LogRests == ASSUME log' = log PROVE LogExtends
BY DEF LogExtends

LEMMA LogAppends ==
  ASSUME Inv, log' = log \/ log' = Append(log, sj'), sj' \in Objects
  PROVE  LogExtends
<1>1. CASE log' = log
  BY <1>1, LogRests
<1>2. CASE log' = Append(log, sj')
  <2> SUFFICES ASSUME NEW i \in 1..Len(log')
               PROVE  log'[i] = sj' \/ \E k \in 1..Len(log) : log'[i] = log[k]
    BY DEF LogExtends
  <2>1. log \in Seq(Objects)
    BY DEF Inv, TypeOK
  <2>2. /\ Len(log') = Len(log) + 1
        /\ \A k \in 1..Len(log) : log'[k] = log[k]
        /\ log'[Len(log) + 1] = sj'
    BY <1>2, <2>1, AppendProperties
  <2>3. i \in 1..Len(log) \/ i = Len(log) + 1
    BY <2>1, <2>2
  <2> QED
    BY <2>2, <2>3
<1> QED
  BY <1>1, <1>2

(* The store is left as it is, emptied, or filled from the log.            *)
LEMMA StoreTakes ==
  ASSUME Inv, NEW r \in Replicas, List(r) \/ Deliver(r) \/ Relist(r) \/ Crash(r) \/ Start(r)
  PROVE  /\ LogExtends
         /\ \E c \in {cache[r], NoObject} \cup {log[v] : v \in 1..Len(log)} :
              c \in Objects /\ cache' = [cache EXCEPT ![r] = c]
<1>1. cache \in [Replicas -> Objects] /\ cache = [cache EXCEPT ![r] = cache[r]] /\ NoObject \in Objects
  BY NoObjectType DEF Inv, TypeOK
<1>2. CASE Crash(r)
  BY <1>1, <1>2, LogRests DEF Crash
<1>3. CASE Start(r)
  BY <1>1, <1>3, LogRests DEF Start
<1>4. CASE List(r) \/ Deliver(r) \/ Relist(r)
  <2>1. PICK v \in 1..Len(log) : Receive(r, v)
    BY <1>4, InformerReceives
  <2> QED
    BY <2>1, LoggedAgrees, LogRests DEF Receive
<1> QED
  BY <1>2, <1>3, <1>4

(* A step of a pass or an informer of replica r. *)
LEMMA PassKeeps ==
  ASSUME RunInv, Inv', Single, LogExtends, RunOnce \subseteq RunOnce', sj'.lst \in RunOnce',
         now' = now,
         NEW r \in Replicas, NEW p \in Passes, NEW c \in Objects,
         pass' = [pass EXCEPT ![r] = p], cache' = [cache EXCEPT ![r] = c],
         p.held.lst \in RunOnce', c.lst \in RunOnce', p.at <= now,
         p.pc \in {"replace", "kill", "create"} => sj'.lst <= p.held.lst
  PROVE  RunInv'
<1>1. \A q \in Replicas : q = r /\ pass'[q] = p /\ cache'[q] = c
  BY DEF RunInv, Inv, TypeOK, Single
<1>2. Backed'
  BY <1>1 DEF RunInv, Backed, LogExtends
<1>3. InTime'
  BY <1>1 DEF InTime
<1>4. Fenceposts'
  BY <1>1 DEF Fenceposts, Deciding
<1> QED
  BY <1>2, <1>3, <1>4 DEF RunInv

(* A step of the rest of the cluster. *)
LEMMA ClusterKeeps ==
  ASSUME RunInv, Inv', LogExtends, RunOnce \subseteq RunOnce', sj'.lst \in RunOnce',
         now' \in Instants, now' >= now, UNCHANGED <<cache, pass>>,
         sj'.lst = sj.lst \/ sj'.lst = Never
  PROVE  RunInv'
<1>1. Backed'
  BY DEF RunInv, Backed, LogExtends
<1>2. InTime'
  <2> SUFFICES ASSUME NEW r \in Replicas PROVE pass[r].at <= now'
    BY DEF InTime
  <2>1. pass[r].at \in Nat /\ now \in Nat /\ now' \in Nat
    BY PassFacts, InstantNumbers DEF RunInv
  <2> QED
    BY <2>1 DEF RunInv, InTime
<1>3. Fenceposts'
  <2> SUFFICES ASSUME NEW r \in Replicas, Deciding(r) PROVE sj'.lst <= pass[r].held.lst
    BY DEF Fenceposts, Deciding
  <2>1. CASE sj'.lst = sj.lst
    BY <2>1 DEF RunInv, Fenceposts
  <2>2. CASE sj'.lst = Never
    <3>1. pass[r].held.lst \in Instants \cup {Never}
      BY PassFacts DEF RunInv, Objects
    <3>2. \A x \in Instants \cup {Never} : Never <= x
      BY ControllerAssumption DEF Instants, Never
    <3> QED
      BY <2>2, <3>1, <3>2
  <2> QED
    BY <2>1, <2>2
<1> QED
  BY <1>1, <1>2, <1>3 DEF RunInv

(* What each step does in the abstract system. *)
Abstractly == Runs!Next \/ UNCHANGED <<now, [t \in Instants |-> jobs[t].uid], sj.lst, sj.uid>>

LEMMA Stutters ==
  ASSUME JobsKept, now' = now, sj'.lst = sj.lst, sj'.uid = sj.uid
  PROVE  Abstractly
<1>1. [t \in Instants |-> jobs'[t].uid] = [t \in Instants |-> jobs[t].uid]
  BY DEF JobsKept
<1> QED
  BY <1>1 DEF Abstractly, Instants
-----------------------------------------------------------------------------
(* Calls to the API server.                                                *)

(* A status write leaves the record as it is or moves it to a later run    *)
(* that was started.                                                       *)
LEMMA StatusCallRuns ==
  ASSUME RunInv, NEW o \in Objects, Agrees(o, sj), o.lst \in RunOnce,
         StatusCallSucceeds(o) \/ StatusCallFails(o), jobs' = jobs, now' = now
  PROVE  /\ LogExtends /\ JobsKept /\ RunOnce' = RunOnce
         /\ sj'.lst \in RunOnce' /\ sj'.uid = sj.uid
         /\ Abstractly
<1>1. JobsKept /\ RunOnce' = RunOnce
  BY KeptRunOnce DEF JobsKept
<1>2. CASE UNCHANGED <<sj, log>>
  <2>1. sj'.lst = sj.lst /\ sj'.uid = sj.uid
    BY <1>2
  <2> QED
    BY <1>1, <1>2, <2>1, Stutters, LogRests DEF RunInv, Backed
<1>3. CASE Accepts(o) /\ Publish(Stored(o))
  <2>1. /\ sj' = Stored(o) /\ LogExtends
        /\ sj'.uid = sj.uid /\ sj'.lst = o.lst
    BY <1>3, StoredType, LogAppends DEF Publish, RunInv
  <2>2. o.lst >= sj.lst /\ o.lst \in Int /\ sj.lst \in Int
    BY <1>3, ObjectNumbers DEF Accepts, Agrees, RunInv, Inv, TypeOK
  <2>3. CASE o.lst = sj.lst
    BY <1>1, <2>1, <2>3, Stutters
  <2>4. CASE o.lst # sj.lst
    <3>1. sj.lst \in Instants \cup {Never}
      BY DEF RunInv, Inv, TypeOK, Objects
    <3>2. sj.lst < o.lst /\ o.lst # Never
      BY <2>2, <2>4, <3>1, InstantNumbers
    <3>3. o.lst \in Instants /\ jobs[o.lst].uid > 0
      BY <3>2 DEF RunOnce
    <3>4. [t \in Instants |-> jobs'[t].uid] = [t \in Instants |-> jobs[t].uid]
      BY <1>1 DEF JobsKept
    <3>5. Runs!Record(o.lst)
      BY <2>1, <3>2, <3>3, <3>4 DEF Runs!Record
    <3>6. Runs!Next
      BY <3>3, <3>5 DEF Runs!Next, Runs!Scheduled, Instants
    <3> QED
      BY <1>1, <2>1, <3>6 DEF Abstractly
  <2> QED
    BY <2>3, <2>4
<1> QED
  BY <1>2, <1>3 DEF StatusCallSucceeds, StatusCallFails

(* A step that leaves server, clock and names of Jobs alone.               *)
LEMMA LocalStep ==
  ASSUME RunInv, Inv', Single, UNCHANGED <<now, sj>>, LogExtends, JobsKept,
         NEW r \in Replicas, NEW p \in Passes,
         pass' = [pass EXCEPT ![r] = p],
         NEW c \in Objects, c.lst \in RunOnce,
         cache' = cache \/ cache' = [cache EXCEPT ![r] = p.held] \/ cache' = [cache EXCEPT ![r] = c],
         p.held.lst \in RunOnce, p.at <= now,
         p.pc \in {"replace", "kill", "create"} => sj.lst <= p.held.lst
  PROVE  RunInv' /\ Abstractly
<1>1. RunOnce' = RunOnce /\ Abstractly
  BY KeptRunOnce, Stutters
<1>2. p.held \in Objects /\ cache[r] \in Objects
  BY DEF RunInv, Inv, TypeOK, Passes
<1>3. cache = [cache EXCEPT ![r] = cache[r]]
  BY DEF RunInv, Inv, TypeOK
<1>4. PICK d \in Objects : cache' = [cache EXCEPT ![r] = d] /\ d.lst \in RunOnce
  BY <1>2, <1>3 DEF RunInv, Backed
<1> QED
  BY <1>1, <1>4, PassKeeps DEF RunInv, Backed
(* The same for one that leaves the store to what the pass assigns to it.  *)
LEMMA QuietStep ==
  ASSUME RunInv, Inv', Single, UNCHANGED <<now, sj>>, LogExtends, JobsKept,
         NEW r \in Replicas, NEW p \in Passes,
         pass' = [pass EXCEPT ![r] = p],
         cache' = cache \/ cache' = [cache EXCEPT ![r] = p.held],
         p.held.lst \in RunOnce, p.at <= now,
         p.pc \in {"replace", "kill", "create"} => sj.lst <= p.held.lst
  PROVE  RunInv' /\ Abstractly
<1>1. p.held \in Objects
  BY DEF Passes
<1> QED
  BY <1>1, LocalStep
-----------------------------------------------------------------------------
(* The steps of a pass.                                                    *)

LEMMA RunFacts ==
  ASSUME RunInv, NEW r \in Replicas
  PROVE  /\ pass[r].held.lst \in RunOnce /\ cache[r].lst \in RunOnce /\ sj.lst \in RunOnce
         /\ pass[r].at <= now /\ now \in Nat /\ pass[r].at \in Nat
         /\ Deciding(r) => sj.lst <= pass[r].held.lst
         /\ NoObject \in Objects /\ NoObject.lst \in RunOnce
         /\ Resting.held.lst \in RunOnce /\ Resting.at <= now
<1>1. now \in Nat /\ pass[r].at \in Nat
  BY PassFacts, InstantNumbers DEF RunInv
<1>2. NoObject.lst \in RunOnce /\ Resting.held = NoObject /\ Resting.at = 0
  BY RestingType DEF NoObject, RunOnce, Resting
<1> QED
  BY <1>1, <1>2, NoObjectType DEF RunInv, Backed, InTime, Fenceposts

(* A step after which the pass's copy has the same run on record. *)
LEMMA SameRecordRuns ==
  ASSUME RunInv, Inv', Single, UNCHANGED <<now, sj, log>>, JobsKept,
         NEW r \in Replicas, NEW p,
         pass' = [pass EXCEPT ![r] = p], cache' = cache \/ cache' = [cache EXCEPT ![r] = p.held],
         p.held.lst = pass[r].held.lst, p.at = pass[r].at,
         p.pc \in {"replace", "kill", "create"} => Deciding(r)
  PROVE  RunInv' /\ Abstractly
<1>1. p \in Passes
  BY DEF RunInv, Inv, TypeOK
<1> QED
  BY <1>1, LogRests, RunFacts, QuietStep

LEMMA ListingRuns ==
  ASSUME RunInv, Inv', Single, NEW r \in Replicas, ListJobs(r) \/ ListTZCronJobs(r)
  PROVE  RunInv' /\ Abstractly
<1>1. UNCHANGED <<now, sj>> /\ LogExtends /\ JobsKept /\ cache' = cache
  BY LogRests DEF ListJobs, ListTZCronJobs, JobsKept
<1>2. Inv
  BY DEF RunInv
<1>3. CASE ListJobs(r)
  <2> DEFINE p == [pass[r] EXCEPT !.pc = "listed", !.js = jobs, !.since = sj.rv]
  <2>1. p \in Passes /\ p.held = pass[r].held /\ p.at = pass[r].at /\ p.pc = "listed"
    BY <1>2, PassFacts, ObjectNumbers DEF Passes, PassStates
  <2>2. pass' = [pass EXCEPT ![r] = p]
    BY <1>2, <1>3 DEF ListJobs, Inv, TypeOK
  <2> HIDE DEF p
  <2> QED
    BY <1>1, <1>3, <2>1, <2>2, SameRecordRuns DEF ListJobs
<1>4. CASE ListTZCronJobs(r) /\ cache[r].phase = "gone"
  <2>1. pass' = [pass EXCEPT ![r] = Resting]
    BY <1>4 DEF ListTZCronJobs
  <2> QED
    BY <1>1, <2>1, RestingType, RunFacts, QuietStep
<1>5. CASE ListTZCronJobs(r) /\ cache[r].phase # "gone"
  <2> DEFINE p == [pass[r] EXCEPT !.pc = "sync", !.held = cache[r], !.shared = TRUE, !.at = now]
  <2>1. p \in Passes /\ p.held = cache[r] /\ p.at = now /\ p.pc = "sync"
    BY <1>2, PassFacts DEF Passes, PassStates
  <2>2. pass' = [pass EXCEPT ![r] = p]
    BY <1>2, <1>5 DEF ListTZCronJobs, Inv, TypeOK
  <2> HIDE DEF p
  <2>3. p.held.lst \in RunOnce /\ p.at <= now
    BY <2>1, RunFacts
  <2> QED
    BY <1>1, <2>1, <2>2, <2>3, QuietStep
<1> QED
  BY <1>3, <1>4, <1>5

(* A status write by a pass that goes on with q. *)
LEMMA StatusStep ==
  ASSUME RunInv, Inv', Single, NEW r \in Replicas, NEW o \in Objects, Agrees(o, sj), o.lst \in RunOnce,
         StatusCallSucceeds(o) \/ StatusCallFails(o), UNCHANGED <<now, jobs>>,
         NEW q \in Passes, pass' = [pass EXCEPT ![r] = q],
         cache' = cache \/ cache' = [cache EXCEPT ![r] = q.held],
         q.held.lst \in RunOnce, q.at <= now,
         q.pc \in {"replace", "kill", "create"} => sj'.lst <= q.held.lst
  PROVE  RunInv' /\ Abstractly
<1>1. LogExtends /\ RunOnce' = RunOnce /\ sj'.lst \in RunOnce' /\ Abstractly
  BY StatusCallRuns
<1>2. q.held \in Objects /\ cache[r] \in Objects /\ cache = [cache EXCEPT ![r] = cache[r]]
  BY DEF RunInv, Inv, TypeOK, Passes
<1>3. PICK c \in Objects : cache' = [cache EXCEPT ![r] = c] /\ c.lst \in RunOnce
  BY <1>2, RunFacts
<1> QED
  BY <1>1, <1>3, PassKeeps

(* What is pruned is Active, not the record. *)
LEMMA PrunedLast ==
  ASSUME Inv, NEW r \in Replicas
  PROVE  Pruned(pass[r].held, pass[r].js).lst = pass[r].held.lst
BY PassFacts DEF Pruned, Objects

LEMMA SyncStatusRuns ==
  ASSUME RunInv, Inv', Single, NEW r \in Replicas, SyncStatus(r)
  PROVE  RunInv' /\ Abstractly
<1> DEFINE want == Pruned(pass[r].held, pass[r].js)
           next == Stored(want)
           f == Fenced(r, next)
           g == Refused(r, want)
<1>1. want \in Objects /\ Agrees(want, sj) /\ want.lst \in RunOnce /\ next \in Objects /\ next.lst = want.lst
  BY PrunedAgrees, PrunedLast, RunFacts, StoredType DEF RunInv
<1> HIDE DEF want, next
<1>2. now' = now /\ jobs' = jobs
  BY DEF SyncStatus
<1>3. CASE StatusCallSucceeds(want) /\ Mutate(r, f)
  <2>1. sj' = next
    BY <1>3 DEF StatusCallSucceeds, Publish, next
  <2>2. f.held = next /\ f.at = pass[r].at /\ f \in Passes
    <3>1. next.active \in SUBSET Refs
      BY <1>1 DEF Objects
    <3>2. PICK q \in SUBSET Refs, l \in PassStates :
            f = [pass[r] EXCEPT !.held = next, !.queue = q, !.pc = l]
      BY <3>1 DEF Fenced, PassStates
    <3> HIDE DEF f
    <3>3. pass[r] \in Passes
      BY PassFacts DEF RunInv
    <3> QED
      BY <1>1, <3>2, <3>3 DEF Passes
  <2>3. sj'.lst \in Int
    BY <1>1, <2>1, ObjectNumbers
  <2>4. pass' = [pass EXCEPT ![r] = f] /\ (cache' = cache \/ cache' = [cache EXCEPT ![r] = f.held])
    BY <1>3 DEF Mutate
  <2> HIDE DEF f
  <2>5. f.held.lst \in RunOnce /\ f.at <= now /\ sj'.lst <= f.held.lst
    BY <1>1, <2>1, <2>2, <2>3, RunFacts
  <2>6. StatusCallSucceeds(want) \/ StatusCallFails(want)
    BY <1>3
  <2> QED
    BY <1>1, <1>2, <2>2, <2>4, <2>5, <2>6, StatusStep
<1>4. CASE StatusCallFails(want) /\ Mutate(r, g)
  <2>1. g \in Passes /\ g.held = want /\ g.at = pass[r].at /\ g.pc = "cleanup"
    BY <1>1, PassFacts DEF Refused, Passes, PassStates, RunInv
  <2>2. pass' = [pass EXCEPT ![r] = g] /\ (cache' = cache \/ cache' = [cache EXCEPT ![r] = g.held])
    BY <1>4 DEF Mutate
  <2> HIDE DEF g
  <2> QED
    BY <1>1, <1>2, <1>4, <2>1, <2>2, RunFacts, StatusStep
<1> QED
  BY <1>3, <1>4 DEF SyncStatus, want, next, f, g

LEMMA RecordRuns ==
  ASSUME RunInv, Inv', Single, NEW r \in Replicas, RecordStart(r) \/ EndCleanup(r)
  PROVE  RunInv' /\ Abstractly
<1> DEFINE p == [pass[r] EXCEPT !.pc = "cleanup"]
<1>1. Inv
  BY DEF RunInv
<1>2. /\ StatusCallSucceeds(pass[r].held) \/ StatusCallFails(pass[r].held)
      /\ UNCHANGED <<now, jobs>> /\ cache' = cache
      /\ pass[r].held \in Objects /\ Agrees(pass[r].held, sj)
  BY <1>1, PassFacts DEF RecordStart, EndCleanup, GoTo
<1>3. p \in Passes /\ p.held = pass[r].held /\ p.at = pass[r].at /\ p.pc = "cleanup"
  BY <1>1, PassFacts DEF Passes, PassStates
<1>4. pass' = [pass EXCEPT ![r] = p] \/ pass' = [pass EXCEPT ![r] = Resting]
  BY <1>1 DEF RecordStart, EndCleanup, GoTo, Inv, TypeOK
<1> HIDE DEF p
<1>5. CASE pass' = [pass EXCEPT ![r] = p]
  BY <1>2, <1>3, <1>5, RunFacts, StatusStep
<1>6. CASE pass' = [pass EXCEPT ![r] = Resting]
  BY <1>2, <1>6, RestingType, RunFacts, StatusStep
<1> QED
  BY <1>4, <1>5, <1>6

LEMMA GoToRuns ==
  ASSUME RunInv, Inv', Single, NEW r \in Replicas, GoTo(r, "cleanup"),
         UNCHANGED <<now, sj, log>>, JobsKept
  PROVE  RunInv' /\ Abstractly
<1> DEFINE p == [pass[r] EXCEPT !.pc = "cleanup"]
<1>1. p \in Passes /\ p.held = pass[r].held /\ p.at = pass[r].at /\ p.pc = "cleanup"
  BY PassFacts DEF Passes, PassStates, RunInv
<1>2. pass' = [pass EXCEPT ![r] = p] /\ cache' = cache
  BY DEF GoTo, RunInv, Inv, TypeOK
<1> HIDE DEF p
<1> QED
  BY <1>1, <1>2, LogRests, RunFacts, QuietStep

LEMMA GetVictimRuns ==
  ASSUME RunInv, Inv', Single, NEW r \in Replicas, GetVictim(r)
  PROVE  RunInv' /\ Abstractly
<1>1. UNCHANGED <<now, sj, log>> /\ JobsKept /\ LogExtends /\ pass[r].pc = "replace"
  BY LogRests DEF GetVictim, JobsKept
<1>2. PICK v \in pass[r].queue :
        \/ /\ pass' = [pass EXCEPT ![r].victim = RefTo(jobs, v[1]),
                                   ![r].queue = @ \ {v},
                                   ![r].pc = "kill"]
           /\ UNCHANGED cache
        \/ GoTo(r, "cleanup")
  BY DEF GetVictim
<1>3. CASE GoTo(r, "cleanup")
  BY <1>1, <1>3, GoToRuns
<1>4. CASE ~GoTo(r, "cleanup")
  <2> DEFINE p == [pass[r] EXCEPT !.victim = RefTo(jobs, v[1]), !.queue = @ \ {v}, !.pc = "kill"]
  <2>1. pass' = [pass EXCEPT ![r] = p] /\ cache' = cache
    BY <1>2, <1>4 DEF RunInv, Inv, TypeOK
  <2>2. p.held = pass[r].held /\ p.at = pass[r].at
    BY PassFacts DEF Passes, RunInv
  <2>3. pass'[r] = p
    BY <2>1 DEF RunInv, Inv, TypeOK
  <2> HIDE DEF p
  <2>4. p \in Passes
    BY <2>3 DEF Inv, TypeOK
  <2> QED
    BY <1>1, <2>1, <2>2, <2>4, RunFacts, QuietStep DEF Deciding
<1> QED
  BY <1>3, <1>4

LEMMA KillVictimRuns ==
  ASSUME RunInv, Inv', Single, NEW r \in Replicas, KillVictim(r)
  PROVE  RunInv' /\ Abstractly
<1> DEFINE v == pass[r].victim
           p == [pass[r] EXCEPT !.held.active = @ \ {v},
                                !.pc = IF pass[r].queue = {} THEN "create" ELSE "replace"]
<1>1. v[1] \in Instants /\ TypeOK
  BY PassFacts DEF Refs, RunInv, Inv
<1>2. UNCHANGED <<now, sj, log>> /\ Deciding(r)
  BY DEF KillVictim, Deciding
<1>3. JobsKept
  BY <1>1, DeletedKeeps DEF KillVictim, DeleteCallSucceeds, DeleteCallFails
<1>4. CASE Mutate(r, p)
  <2>1. pass' = [pass EXCEPT ![r] = p] /\ (cache' = cache \/ cache' = [cache EXCEPT ![r] = p.held])
    BY <1>4 DEF Mutate
  <2>2. p.held.lst = pass[r].held.lst /\ p.at = pass[r].at
    BY PassFacts DEF Passes, Objects, RunInv
  <2> HIDE DEF p
  <2> QED
    BY <1>2, <1>3, <2>1, <2>2, SameRecordRuns
<1>5. CASE GoTo(r, "cleanup")
  BY <1>2, <1>3, <1>5, GoToRuns
<1> QED
  BY <1>4, <1>5 DEF KillVictim

LEMMA SweepRuns ==
  ASSUME RunInv, Inv', Single, NEW r \in Replicas, Sweep(r)
  PROVE  RunInv' /\ Abstractly
<1>1. PICK v \in pass[r].queue :
        \/ /\ DeleteCallSucceeds(v[1])
           /\ Mutate(r, [pass[r] EXCEPT !.held.active = @ \ {v}, !.queue = @ \ {v}])
        \/ /\ DeleteCallFails(v[1])
           /\ pass' = [pass EXCEPT ![r].queue = @ \ {v}]
           /\ UNCHANGED cache
  BY DEF Sweep
<1>2. v[1] \in Instants /\ TypeOK
  BY PassFacts DEF Refs, RunInv, Inv
<1>3. UNCHANGED <<now, sj, log>> /\ pass[r].pc = "sweep"
  BY DEF Sweep
<1>4. JobsKept
  BY <1>1, <1>2, DeletedKeeps DEF DeleteCallSucceeds, DeleteCallFails
<1> DEFINE p == [pass[r] EXCEPT !.held.active = @ \ {v}, !.queue = @ \ {v}]
           q == [pass[r] EXCEPT !.queue = @ \ {v}]
<1>5. /\ p.held.lst = pass[r].held.lst /\ p.at = pass[r].at /\ p.pc = "sweep"
      /\ q.held = pass[r].held /\ q.at = pass[r].at /\ q.pc = "sweep"
  BY <1>3, PassFacts DEF Passes, Objects, RunInv
<1>6. CASE Mutate(r, p)
  <2>1. pass' = [pass EXCEPT ![r] = p] /\ (cache' = cache \/ cache' = [cache EXCEPT ![r] = p.held])
    BY <1>6 DEF Mutate
  <2> HIDE DEF p, q
  <2> QED
    BY <1>3, <1>4, <1>5, <2>1, SameRecordRuns
<1>7. CASE pass' = [pass EXCEPT ![r].queue = @ \ {v}] /\ UNCHANGED cache
  <2>1. pass' = [pass EXCEPT ![r] = q] /\ cache' = cache
    BY <1>7 DEF RunInv, Inv, TypeOK
  <2> HIDE DEF p, q
  <2> QED
    BY <1>3, <1>4, <1>5, <2>1, SameRecordRuns
<1> QED
  BY <1>1, <1>6, <1>7

LEMMA BeginCleanupRuns ==
  ASSUME RunInv, Inv', Single, NEW r \in Replicas, BeginCleanup(r)
  PROVE  RunInv' /\ Abstractly
<1> DEFINE p == [pass[r] EXCEPT !.pc = "sweep", !.queue = ToSweep(pass[r].held, pass[r].js)]
<1>1. UNCHANGED <<now, sj, log>> /\ JobsKept /\ LogExtends /\ cache' = cache
  BY LogRests DEF BeginCleanup, JobsKept
<1>2. pass' = [pass EXCEPT ![r] = p] \/ pass' = [pass EXCEPT ![r] = Resting]
  BY DEF BeginCleanup, RunInv, Inv, TypeOK
<1>3. p.held = pass[r].held /\ p.at = pass[r].at /\ p.pc = "sweep"
  BY PassFacts DEF Passes, RunInv
<1> HIDE DEF p
<1>4. CASE pass' = [pass EXCEPT ![r] = p]
  BY <1>1, <1>3, <1>4, SameRecordRuns
<1>5. CASE pass' = [pass EXCEPT ![r] = Resting]
  BY <1>1, <1>5, RestingType, RunFacts, QuietStep
<1> QED
  BY <1>2, <1>4, <1>5

(* The run that is started is later than the one on record and its time    *)
(* has come.                                                               *)
LEMMA CreateJobRuns ==
  ASSUME RunInv, Inv', Single, NEW r \in Replicas, CreateJob(r)
  PROVE  RunInv' /\ Abstractly
<1> DEFINE o == pass[r].held
           t == ScheduledTime(o, pass[r].at)
           p == [pass[r] EXCEPT !.held = Started(o, t, <<t, jobs[t].uid + 1>>), !.pc = "record"]
<1>1. UNCHANGED <<now, sj, log>> /\ LogExtends /\ pass[r].pc = "create"
  BY LogRests DEF CreateJob
<1>2. t \in Instants /\ t > o.lst /\ t <= pass[r].at
  <2>1. o.spec.schedule \in Schedules /\ UnmetTimes(o, pass[r].at) # {} /\ o \in Objects /\ pass[r].at \in Instants
    BY <1>1, PassFacts DEF Decided, RunInv
  <2>2. Timed(o) /\ pass[r].at \in Nat
    BY <2>1, ObjectIsTimed, ControllerAssumption DEF Instants
  <2> HIDE DEF o
  <2> QED
    BY <2>1, <2>2, ScheduledTimeType, ScheduledTimeIsLast
<1>3. t <= now /\ sj.lst < t /\ t # Never
  <2>1. sj.lst <= o.lst /\ pass[r].at <= now /\ pass[r].at \in Nat /\ now \in Nat
    BY <1>1, RunFacts DEF Deciding
  <2>2. sj.lst \in Int /\ o.lst \in Int /\ t \in Nat
    BY <1>2, PassFacts, ObjectNumbers, InstantNumbers DEF RunInv
  <2> HIDE DEF o, t
  <2> QED
    BY <1>2, <2>1, <2>2 DEF Never
<1>4. p.held.lst = t /\ p.at = pass[r].at /\ p.pc = "record"
  BY PassFacts DEF Started, Passes, Objects, RunInv
<1>5. \/ jobs' = Created(t, o) /\ (Mutate(r, p) \/ GoTo(r, "cleanup"))
      \/ jobs' = jobs /\ GoTo(r, "cleanup")
  BY DEF CreateJob
<1> HIDE DEF p
<1>6. CASE jobs' = jobs /\ GoTo(r, "cleanup")
  BY <1>1, <1>6, GoToRuns DEF JobsKept
<1>7. CASE jobs' = Created(t, o) /\ (Mutate(r, p) \/ GoTo(r, "cleanup"))
  <2> HIDE DEF o, t
  <2>1. jobs \in [Instants -> Jobs]
    BY PassFacts DEF RunInv
  <2>2. \A u \in Instants : jobs[u].uid \in Nat /\ jobs'[u].uid = jobs[u].uid + (IF u = t THEN 1 ELSE 0)
    <3> TAKE u \in Instants
    <3>1. jobs[u].uid \in Nat
      BY <2>1 DEF Jobs
    <3>2. CASE u = t
      BY <1>2, <1>7, <2>1, <3>1, <3>2 DEF Created
    <3>3. CASE u # t
      BY <1>7, <2>1, <3>1, <3>3 DEF Created
    <3> QED
      BY <3>2, <3>3
  <2>3. RunOnce \subseteq RunOnce' /\ t \in RunOnce'
    BY <1>2, <2>2 DEF RunOnce, Instants
  <2>4. Abstractly
    <3> DEFINE starts == [u \in Instants |-> jobs[u].uid]
    <3>1. [u \in Instants |-> jobs'[u].uid] = [starts EXCEPT ![t] = @ + 1]
      BY <2>2
    <3>2. PICK u \in Instants : u = t
      BY <1>2
    <3>3. Runs!Start(u)
      BY <1>1, <1>3, <3>1, <3>2 DEF Runs!Start
    <3>4. Runs!Next
      BY <3>3 DEF Runs!Next, Runs!Scheduled, Instants
    <3> QED
      BY <3>4 DEF Abstractly
  <2>5. CASE Mutate(r, p)
    <3>1. pass' = [pass EXCEPT ![r] = p] /\ (cache' = cache \/ cache' = [cache EXCEPT ![r] = p.held])
      BY <2>5 DEF Mutate
    <3>2. p \in Passes /\ p.held \in Objects
      BY <3>1 DEF RunInv, Inv, TypeOK, Passes
    <3>3. PICK c \in Objects : cache' = [cache EXCEPT ![r] = c] /\ c.lst \in RunOnce'
      <4>1. cache[r] \in Objects /\ cache = [cache EXCEPT ![r] = cache[r]]
        BY DEF RunInv, Inv, TypeOK
      <4> QED
        BY <1>4, <2>3, <3>1, <3>2, <4>1, RunFacts
    <3>4. /\ p.held.lst \in RunOnce' /\ p.at <= now /\ sj'.lst \in RunOnce'
          /\ p.pc = "record" /\ now' = now
      BY <1>1, <1>4, <2>3, RunFacts
    <3> QED
      BY <1>1, <2>3, <2>4, <3>1, <3>2, <3>3, <3>4, PassKeeps
  <2>6. CASE GoTo(r, "cleanup")
    <3> DEFINE q == [pass[r] EXCEPT !.pc = "cleanup"]
    <3>1. /\ q.held = pass[r].held /\ q.at = pass[r].at /\ q.pc = "cleanup"
          /\ q.held \in Objects /\ cache[r] \in Objects
      BY PassFacts DEF Passes, RunInv
    <3>2. pass' = [pass EXCEPT ![r] = q] /\ cache' = [cache EXCEPT ![r] = cache[r]]
      BY <2>6 DEF GoTo, RunInv, Inv, TypeOK
    <3> HIDE DEF q
    <3>3. q \in Passes
      BY <3>2 DEF RunInv, Inv, TypeOK
    <3>4. /\ q.held.lst \in RunOnce' /\ q.at <= now /\ sj'.lst \in RunOnce'
          /\ cache[r].lst \in RunOnce' /\ now' = now
      BY <1>1, <2>3, <3>1, RunFacts
    <3> QED
      BY <1>1, <2>3, <2>4, <3>1, <3>2, <3>3, <3>4, PassKeeps
  <2> QED
    BY <1>7, <2>5, <2>6
<1> QED
  BY <1>5, <1>6, <1>7
-----------------------------------------------------------------------------
(* The informer, the process and the rest of the cluster.                  *)

LEMMA InformerRuns ==
  ASSUME RunInv, Inv', Single, NEW r \in Replicas, List(r) \/ Deliver(r) \/ Relist(r) \/ Crash(r) \/ Start(r)
  PROVE  RunInv' /\ Abstractly
<1> DEFINE p == [pass[r] EXCEPT !.shared = FALSE]
           d == [Resting EXCEPT !.pc = "down"]
<1>1. UNCHANGED <<now, sj>> /\ JobsKept
  BY DEF List, Deliver, Relist, Receive, Crash, Start, JobsKept
<1>2. TypeOK
  BY DEF RunInv, Inv
<1>3. LogExtends
  BY StoreTakes DEF RunInv
<1>4. PICK c \in Objects : cache' = [cache EXCEPT ![r] = c] /\ c.lst \in RunOnce
  BY StoreTakes, RunFacts DEF RunInv, Backed
<1>5. pass' = [pass EXCEPT ![r] = p] \/ pass' = [pass EXCEPT ![r] = d] \/ pass' = [pass EXCEPT ![r] = Resting]
  BY <1>2 DEF List, Deliver, Relist, Receive, Crash, Start, TypeOK
<1>6. /\ p.held = pass[r].held /\ p.at = pass[r].at /\ p.pc = pass[r].pc
      /\ d.held = Resting.held /\ d.at = Resting.at /\ d.pc = "down" /\ Resting.pc = "idle"
  BY PassFacts, RestingType DEF Passes, PassStates, RunInv
<1> HIDE DEF p, d
<1>7. ASSUME NEW q, pass' = [pass EXCEPT ![r] = q], q.held.lst \in RunOnce, q.at <= now,
              q.pc \in {"replace", "kill", "create"} => sj.lst <= q.held.lst
       PROVE  RunInv' /\ Abstractly
  <2>1. q \in Passes
    BY <1>7 DEF RunInv, Inv, TypeOK
  <2> QED
    BY <1>1, <1>3, <1>4, <1>7, <2>1, LocalStep
<1>8. CASE pass' = [pass EXCEPT ![r] = p]
  BY <1>6, <1>7, <1>8, RunFacts DEF Deciding
<1>9. CASE pass' = [pass EXCEPT ![r] = d]
  BY <1>6, <1>7, <1>9, RunFacts
<1>10. CASE pass' = [pass EXCEPT ![r] = Resting]
  BY <1>6, <1>7, <1>10, RunFacts
<1> QED
  BY <1>5, <1>8, <1>9, <1>10

(* Other clients and controllers write the TZCronJob, but not its record,  *)
(* and delete and finish Jobs, but create none.                            *)
LEMMA OthersRun ==
  ASSUME RunInv, Inv',
         \/ \E t \in Instants : Finish(t) \/ Reap(t) \/ Orphan(t) \/ Collect(t)
         \/ Edit \/ Delete \/ Finalize \/ UNCHANGED vars
  PROVE  RunInv' /\ Abstractly
<1>1. TypeOK /\ sj \in Objects /\ sj' \in Objects /\ jobs \in [Instants -> Jobs]
  BY DEF RunInv, Inv, TypeOK
<1>2. UNCHANGED <<now, cache, pass>> /\ now' \in Instants /\ now' >= now
  <2>1. UNCHANGED <<now, cache, pass>>
    BY DEF Finish, Reap, Orphan, Collect, Edit, Delete, Finalize, vars
  <2> QED
    BY <1>1, <2>1, InstantNumbers DEF TypeOK
<1>3. JobsKept
  <2>1. CASE \E t \in Instants : Reap(t) \/ Collect(t)
    BY <1>1, <2>1, DeletedKeeps DEF Reap, Collect
  <2>2. CASE \E t \in Instants : Finish(t) \/ Orphan(t)
    BY <1>1, <2>2 DEF Finish, Orphan, JobsKept, Jobs
  <2>3. CASE Edit \/ Delete \/ Finalize \/ UNCHANGED vars
    BY <2>3 DEF Edit, Delete, Finalize, vars, JobsKept
  <2> QED
    BY <2>1, <2>2, <2>3
<1>4. sj'.lst = sj.lst /\ sj'.uid = sj.uid /\ LogExtends
  <2>1. CASE Edit \/ Delete \/ Finalize
    <3>1. sj'.lst = sj.lst /\ sj'.uid = sj.uid
      BY <1>1, <2>1 DEF Edit, Delete, Finalize, Publish, Objects
    <3>2. log' = log \/ log' = Append(log, sj')
      BY <2>1 DEF Edit, Delete, Finalize, Publish
    <3> QED
      BY <1>1, <3>1, <3>2, LogAppends DEF RunInv
  <2>2. CASE UNCHANGED <<sj, log>>
    BY <2>2, LogRests
  <2> QED
    BY <2>1, <2>2 DEF Finish, Reap, Orphan, Collect, vars
<1>5. RunOnce' = RunOnce
  BY <1>3, KeptRunOnce
<1> QED
  BY <1>2, <1>3, <1>4, <1>5, Stutters, ClusterKeeps DEF RunInv, Backed

LEMMA TickRuns ==
  ASSUME RunInv, Inv', Tick
  PROVE  RunInv' /\ Abstractly
<1>1. now' = now + 1 /\ now < MaxTime /\ UNCHANGED <<sj, jobs, log, cache, pass>>
  BY DEF Tick
<1>2. now' \in Instants /\ now' >= now
  BY <1>1, InstantNumbers DEF RunInv, Inv, TypeOK
<1>3. RunOnce' = RunOnce /\ LogExtends
  BY <1>1, KeptRunOnce, LogRests DEF JobsKept
<1>4. Runs!Tick
  BY <1>1 DEF Runs!Tick, Instants
<1> QED
  BY <1>1, <1>2, <1>3, <1>4, ClusterKeeps DEF Abstractly, Runs!Next, RunInv, Backed

LEMMA RecreateRuns ==
  ASSUME RunInv, Inv', Recreate
  PROVE  RunInv' /\ Abstractly
<1>1. UNCHANGED <<now, jobs, cache, pass>>
  BY DEF Recreate
<1>2. PICK s \in Specs : Publish(NewObject(s, sj.rv + 1, sj.uid + 1))
  BY DEF Recreate
<1>3. /\ sj' = NewObject(s, sj.rv + 1, sj.uid + 1)
      /\ log' = log \/ log' = Append(log, sj')
  BY <1>2 DEF Publish
<1>4. sj'.lst = Never /\ sj'.uid = sj.uid + 1 /\ sj' \in Objects
  BY <1>3 DEF NewObject, Inv, TypeOK
<1>5. LogExtends /\ RunOnce' = RunOnce /\ Never \in RunOnce
  BY <1>1, <1>3, <1>4, LogAppends, KeptRunOnce DEF RunInv, JobsKept, RunOnce
<1>6. now' \in Instants /\ now' >= now
  BY <1>1, InstantNumbers DEF RunInv, Inv, TypeOK
<1>7. Runs!Recreate
  BY <1>1, <1>4 DEF Runs!Recreate, Instants
<1> QED
  BY <1>1, <1>4, <1>5, <1>6, <1>7, ClusterKeeps DEF Abstractly, Runs!Next
-----------------------------------------------------------------------------
LEMMA RunInvInitially == Init => RunInv /\ Runs!Init
<1> SUFFICES ASSUME Init PROVE RunInv /\ Runs!Init
  OBVIOUS
<1>1. PICK s \in Specs : sj = NewObject(s, 1, 1)
  BY DEF Init
<1>2. sj.lst = Never /\ sj.uid = 1 /\ Never \in RunOnce
  BY <1>1 DEF NewObject, RunOnce
<1>3. Inv
  BY InvInitially
<1> DEFINE d == [Resting EXCEPT !.pc = "down"]
<1>4. d.held = NoObject /\ d.at = 0 /\ d.pc = "down"
  BY RestingType DEF Passes, PassStates, Resting
<1>5. pass = [r \in Replicas |-> d]
  BY DEF Init
<1> HIDE DEF d
<1>6. ASSUME NEW r \in Replicas
      PROVE  /\ pass[r].held.lst = Never /\ pass[r].at = 0 /\ ~Deciding(r)
             /\ cache[r].lst = Never
  <2>1. cache[r] = NoObject /\ pass[r] = d
    BY <1>5 DEF Init
  <2> QED
    BY <1>4, <2>1 DEF NoObject, Deciding
<1>7. Backed /\ InTime /\ Fenceposts
  <2>1. now = 0 /\ \A i \in 1..Len(log) : log[i] = sj
    BY DEF Init
  <2> QED
    BY <1>2, <1>6, <2>1 DEF Backed, InTime, Fenceposts
<1>8. Runs!Init
  <2>1. [t \in Instants |-> jobs[t].uid] = [t \in Runs!Scheduled |-> 0]
    BY DEF Init, NoJob, Instants, Runs!Scheduled
  <2> QED
    BY <1>2, <2>1 DEF Init, Runs!Init
<1> QED
  BY <1>3, <1>7, <1>8 DEF RunInv

LEMMA EveryStepRuns ==
  ASSUME RunInv, Single, [Next]_vars
  PROVE  RunInv' /\ Abstractly
<1>1. Inv'
  BY InvPreserved DEF RunInv
<1>2. ASSUME NEW r \in Replicas, PassStep(r) PROVE RunInv' /\ Abstractly
  BY <1>1, <1>2, ListingRuns, SyncStatusRuns, GetVictimRuns, KillVictimRuns, CreateJobRuns,
     RecordRuns, BeginCleanupRuns, SweepRuns DEF PassStep
<1>3. ASSUME NEW r \in Replicas, List(r) \/ Deliver(r) \/ Relist(r) \/ Crash(r) \/ Start(r)
      PROVE  RunInv' /\ Abstractly
  BY <1>1, <1>3, InformerRuns
<1>4. CASE \/ \E t \in Instants : Finish(t) \/ Reap(t) \/ Orphan(t) \/ Collect(t)
           \/ Edit \/ Delete \/ Finalize \/ UNCHANGED vars
  BY <1>1, <1>4, OthersRun
<1>5. CASE Tick \/ Recreate
  BY <1>1, <1>5, TickRuns, RecreateRuns
<1> QED
  BY <1>2, <1>3, <1>4, <1>5 DEF Next

(* One replica of the controller implements the abstract system of runs:   *)
(* whatever is edited, deleted, lost or restarted, no Job is created ahead *)
(* of its time or for a time at or before LastScheduleTime, which moves    *)
(* forward and only to times a Job was created for.                        *)
THEOREM Implementation ==
  ASSUME Single
  PROVE  Spec => ImplementsRuns
<1>1. Init => RunInv /\ Runs!Init
  BY RunInvInitially
<1>2. RunInv /\ [Next]_vars => RunInv'
  BY EveryStepRuns
<1>3. RunInv /\ [Next]_vars =>
        [Runs!Next]_<<now, [t \in Instants |-> jobs[t].uid], sj.lst, sj.uid>>
  BY EveryStepRuns DEF Abstractly
<1> QED
  BY <1>1, <1>2, <1>3, PTL DEF Spec, ImplementsRuns, Runs!Spec
=============================================================================
