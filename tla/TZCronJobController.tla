-------------------------- MODULE TZCronJobController --------------------------
(***************************************************************************)
(* One TZCronJob, the Jobs created for it, and the replicas of the         *)
(* controller that reconcile them against one API server.                  *)
(*                                                                         *)
(* A replica works in passes (syncAll).  A pass lists the Jobs, takes the  *)
(* TZCronJob from the informer's store, writes the pruned status back,     *)
(* decides whether a Job is to be started, starts and records it, and      *)
(* sweeps finished Jobs.  Every call to the API server is a step of its    *)
(* own, so that users, the Job controller, the garbage collector, the      *)
(* watch and other replicas act between any two of them.                   *)
(*                                                                         *)
(* Abstractions:                                                           *)
(*  - a Job is named by the instant it is scheduled for (the name is the   *)
(*    TZCronJob's with the Unix time appended), and a reference to a Job   *)
(*    is that instant with the Job's UID.  (See CronSchedule on "@every",  *)
(*    for which passes with a deadline compute other instants each time.)  *)
(*  - Status.Active is a set; Replace goes through it in any order;        *)
(*  - events, logs, labels and the Job template are left out;              *)
(*  - a resource version is the number of writes to the TZCronJob.         *)
(***************************************************************************)
EXTENDS CronSchedule, Sequences

CONSTANTS
  Replicas,    \* the controller processes
  Specs,       \* the specs users give to the TZCronJob
  Outcomes,    \* how Jobs end
  MaxTime,     \* the clock stops here
  Budget       \* Budget[e]: how many events of kind e happen at most

Policies == {"Allow", "Forbid", "Replace"}
Events   == {"edit", "delete", "reap", "fault", "crash", "oldlist"}

ASSUME ControllerAssumption ==
  /\ Outcomes \subseteq {"Complete", "Failed"}
  /\ MaxTime \in Nat
  /\ Budget \in [Events -> Nat]
  /\ Specs # {}
  /\ \A s \in Specs :
       /\ s.suspend \in BOOLEAN
       /\ s.policy \in Policies
       /\ s.deadline \in Optional(Int)
       /\ s.keepComplete \in Optional(Nat)
       /\ s.keepFailed \in Optional(Nat)

VARIABLES
  now,      \* the clock
  sj,       \* the TZCronJob the API server stores
  jobs,     \* jobs[t]: the Job named after instant t
  log,      \* the versions of sj there have been, the last one the present
  seen,     \* seen[r]: the version r's informer has got to, 0 before its list
  cache,    \* cache[r]: the object in the store of r's informer
  pass,     \* pass[r]: the control state and the locals of r's pass
  spent     \* spent[e]: how many events of kind e have happened

vars == <<now, sj, jobs, log, seen, cache, pass, spent>>
-----------------------------------------------------------------------------
Instants == 0..MaxTime
Refs     == Instants \X Nat

NoJob == [uid |-> 0, owner |-> 0, state |-> "Absent", start |-> 0]

(* What a store without the TZCronJob holds. *)
NoObject == [rv |-> 0, uid |-> 0, phase |-> "gone", spec |-> CHOOSE s \in Specs : TRUE,
             created |-> 0, active |-> {}, lst |-> Never]

(* A replica between two passes; since is a history variable, the version  *)
(* the API server held when the pass began.                                *)
Resting == [pc |-> "idle", js |-> [t \in Instants |-> NoJob], held |-> NoObject,
            shared |-> FALSE, at |-> 0, queue |-> {}, victim |-> <<0, 0>>, since |-> 0]

NewObject(s, v, u) == [rv |-> v, uid |-> u, phase |-> "live", spec |-> s,
                       created |-> now, active |-> {}, lst |-> Never]

Exists(t) == jobs[t].state # "Absent"

Spend(e) == spent[e] < Budget[e] /\ spent' = [spent EXCEPT ![e] = @ + 1]

(* groupJobsByParent, then the members of a list that belong to object o. *)
Children(js, o) == {t \in Instants : js[t].state # "Absent" /\ js[t].owner = o.uid}

RefTo(js, t) == <<t, js[t].uid>>
-----------------------------------------------------------------------------
(* The API server.                                                         *)

(* A write to the TZCronJob makes a version that every watch will deliver; *)
(* a write that changes nothing is no write and keeps the resource version.*)
Publish(o) ==
  /\ sj' = o
  /\ log' = IF o = sj THEN log ELSE Append(log, o)

Accepts(o) == sj.phase # "gone" /\ o.rv = sj.rv

(* The status subresource takes the status from o and all else as stored. *)
Stored(o) ==
  IF sj.active = o.active /\ sj.lst = o.lst THEN sj
  ELSE [sj EXCEPT !.active = o.active, !.lst = o.lst, !.rv = @ + 1]

(* Seeded fault: the object is sent without its resource version. *)
UnconditionalStatusCall(o) == sj.phase # "gone" /\ Publish(Stored(o)) /\ UNCHANGED spent

StatusCallSucceeds(o) == Accepts(o) /\ Publish(Stored(o)) /\ UNCHANGED spent

(* Refused for a conflict or a missing object; or the request is lost; or  *)
(* the reply is.                                                           *)
StatusCallFails(o) ==
  \/ ~Accepts(o) /\ UNCHANGED <<sj, log, spent>>
  \/ Spend("fault") /\ UNCHANGED <<sj, log>>
  \/ Spend("fault") /\ Accepts(o) /\ Publish(Stored(o))

Deleted(t) == [jobs EXCEPT ![t] = [NoJob EXCEPT !.uid = jobs[t].uid]]

(* Jobs are deleted by name. *)
DeleteCallSucceeds(t) == Exists(t) /\ jobs' = Deleted(t) /\ UNCHANGED spent

DeleteCallFails(t) ==
  \/ ~Exists(t) /\ UNCHANGED <<jobs, spent>>
  \/ Spend("fault") /\ UNCHANGED jobs
  \/ Spend("fault") /\ Exists(t) /\ jobs' = Deleted(t)

(* Seeded fault: the name of a Job is no lock. *)
AdmitsAnyName(t) == TRUE

Admits(t) == ~Exists(t)

Created(t, o) ==
  [jobs EXCEPT ![t] = [uid |-> jobs[t].uid + 1, owner |-> o.uid, state |-> "Running", start |-> now]]
-----------------------------------------------------------------------------
(* The pass: what it computes.                                             *)

(* Seeded fault: a job that finished stays in the list while it exists. *)
PrunedOfMissingOnly(o, js) == [o EXCEPT !.active = {r \in @ : r[1] \in Children(js, o) /\ js[r[1]].uid = r[2]}]

(* Active without the Jobs seen finished and the Jobs not seen at all. *)
Pruned(o, js) ==
  [o EXCEPT !.active = {r \in @ : /\ r[1] \in Children(js, o)
                                  /\ js[r[1]].uid = r[2]
                                  /\ js[r[1]].state = "Running"}]

(* Seeded fault: Forbid looks at nothing. *)
MayStartUnderForbid(o, t) ==
  /\ o.phase = "live"
  /\ ~o.spec.suspend
  /\ Determinable(o, t)
  /\ UnmetTimes(o, t) # {}
  /\ ~TooLate(o, t)

(* The early returns of syncOne after the status is written. *)
MayStart(o, t) ==
  /\ o.phase = "live"
  /\ ~o.spec.suspend
  /\ Determinable(o, t)
  /\ UnmetTimes(o, t) # {}
  /\ ~TooLate(o, t)
  /\ ~(o.spec.policy = "Forbid" /\ o.active # {})

Replaces(o) == o.spec.policy = "Replace" /\ o.active # {}

(* The locals after the first status write: *sj = *updatedSJ. *)
Fenced(r, o) ==
  [pass[r] EXCEPT !.held = o,
                  !.queue = IF MayStart(o, pass[r].at) /\ Replaces(o) THEN o.active ELSE {},
                  !.pc = IF ~MayStart(o, pass[r].at) THEN "cleanup"
                         ELSE IF Replaces(o) THEN "replace" ELSE "create"]

(* Seeded fault: the error of the first status write is not returned on. *)
RefusedButGoesOn(r, o) == Fenced(r, o)

Refused(r, o) == [pass[r] EXCEPT !.held = o, !.pc = "cleanup"]

(* byJobStartTime. *)
Before(js, t, u) == js[t].start < js[u].start \/ (js[t].start = js[u].start /\ t < u)

(* Seeded fault: the newest are removed. *)
NewestOf(js, S, n) == {t \in S : Cardinality({u \in S : Before(js, t, u)}) < n}

(* The first n of S in that order, all of S when it has fewer. *)
OldestOf(js, S, n) == {t \in S : Cardinality({u \in S : Before(js, u, t)}) < n}

Finished(js, o, how) == {t \in Children(js, o) : js[t].state = how}

(* removeOldestJobs: what exceeds the limit, nothing when there is none. *)
Excess(js, S, limit) ==
  UNION {OldestOf(js, S, Cardinality(S) - n) : n \in limit}

(* Seeded fault: every child counts as complete. *)
ToSweepUnfinished(o, js) ==
  {RefTo(js, t) : t \in Excess(js, Children(js, o), o.spec.keepComplete)}

ToSweep(o, js) ==
  {RefTo(js, t) : t \in Excess(js, Finished(js, o, "Complete"), o.spec.keepComplete)
                        \cup Excess(js, Finished(js, o, "Failed"), o.spec.keepFailed)}

(* Complete Jobs are removed first, then failed ones, each oldest first. *)
SweptBefore(js, q, r) ==
  \/ js[q[1]].state = "Complete" /\ js[r[1]].state = "Failed"
  \/ js[q[1]].state = js[r[1]].state /\ Before(js, q[1], r[1])

(* The lister returns pointers into the store: while the store still holds *)
(* the object the pass took from it, what the pass assigns to it shows in  *)
(* the store.                                                              *)
Mutate(r, p) ==
  /\ pass' = [pass EXCEPT ![r] = p]
  /\ cache' = IF pass[r].shared THEN [cache EXCEPT ![r] = p.held] ELSE cache

GoTo(r, l) == pass' = [pass EXCEPT ![r].pc = l] /\ UNCHANGED cache
-----------------------------------------------------------------------------
(* The pass: its steps.                                                    *)

(* syncAll begins: the Jobs are listed, at the server.  (When the call     *)
(* fails the pass ends and nothing has changed.)                           *)
ListJobs(r) ==
  /\ pass[r].pc = "idle"
  /\ pass' = [pass EXCEPT ![r].pc = "listed", ![r].js = jobs, ![r].since = sj.rv]
  /\ UNCHANGED <<now, sj, jobs, log, seen, cache, spent>>

(* The TZCronJobs are listed, in the informer's store, and the time is     *)
(* read.                                                                   *)
ListTZCronJobs(r) ==
  /\ pass[r].pc = "listed"
  /\ pass' = [pass EXCEPT ![r] =
                IF cache[r].phase = "gone" THEN Resting
                ELSE [@ EXCEPT !.pc = "sync", !.held = cache[r], !.shared = TRUE, !.at = now]]
  /\ UNCHANGED <<now, sj, jobs, log, seen, cache, spent>>

(* syncOne up to the decision: Active is pruned and the status written. *)
SyncStatus(r) ==
  /\ pass[r].pc = "sync"
  /\ LET want == Pruned(pass[r].held, pass[r].js)
     IN  \/ StatusCallSucceeds(want) /\ Mutate(r, Fenced(r, Stored(want)))
         \/ StatusCallFails(want) /\ Mutate(r, Refused(r, want))
  /\ UNCHANGED <<now, jobs, seen>>

(* Replace: the next Job of the list is fetched by name. *)
GetVictim(r) ==
  /\ pass[r].pc = "replace"
  /\ \E v \in pass[r].queue :
       \/ /\ Exists(v[1])
          /\ pass' = [pass EXCEPT ![r].victim = RefTo(jobs, v[1]),
                                  ![r].queue = @ \ {v},
                                  ![r].pc = "kill"]
          /\ UNCHANGED <<cache, spent>>
       \/ ~Exists(v[1]) /\ GoTo(r, "cleanup") /\ UNCHANGED spent
       \/ Spend("fault") /\ GoTo(r, "cleanup")
  /\ UNCHANGED <<now, sj, jobs, log, seen>>

(* ... and deleted by name, with its reference. *)
KillVictim(r) ==
  /\ pass[r].pc = "kill"
  /\ LET v == pass[r].victim
     IN  \/ /\ DeleteCallSucceeds(v[1])
            /\ Mutate(r, [pass[r] EXCEPT !.held.active = @ \ {v},
                                         !.pc = IF pass[r].queue = {} THEN "create" ELSE "replace"])
         \/ DeleteCallFails(v[1]) /\ GoTo(r, "cleanup")
  /\ UNCHANGED <<now, sj, log, seen>>

(* Seeded fault: the Job is not entered in Active. *)
StartedUntracked(o, t, ref) == [o EXCEPT !.lst = t]

(* Seeded fault: the time after the scheduled one is recorded. *)
StartedAhead(o, t, ref) == [o EXCEPT !.active = @ \cup {ref}, !.lst = t + 1]

(* What the pass enters in its copy of the status once the Job exists. *)
Started(o, t, ref) == [o EXCEPT !.active = @ \cup {ref}, !.lst = t]

(* The Job is created, unless one by that name exists. *)
CreateJob(r) ==
  /\ pass[r].pc = "create"
  /\ LET o == pass[r].held
         t == ScheduledTime(o, pass[r].at)
     IN  \/ /\ Admits(t)
            /\ jobs' = Created(t, o)
            /\ Mutate(r, [pass[r] EXCEPT !.held = Started(o, t, <<t, jobs[t].uid + 1>>),
                                         !.pc = "record"])
            /\ UNCHANGED spent
         \/ ~Admits(t) /\ GoTo(r, "cleanup") /\ UNCHANGED <<jobs, spent>>
         \/ Spend("fault") /\ GoTo(r, "cleanup") /\ UNCHANGED jobs
         \/ Spend("fault") /\ Admits(t) /\ jobs' = Created(t, o) /\ GoTo(r, "cleanup")
  /\ UNCHANGED <<now, sj, log, seen>>

(* The start is recorded; whether that worked is only logged. *)
RecordStart(r) ==
  /\ pass[r].pc = "record"
  /\ StatusCallSucceeds(pass[r].held) \/ StatusCallFails(pass[r].held)
  /\ GoTo(r, "cleanup")
  /\ UNCHANGED <<now, jobs, seen>>

(* cleanupFinishedJobs, whatever became of syncOne. *)
BeginCleanup(r) ==
  /\ pass[r].pc = "cleanup"
  /\ LET o == pass[r].held
     IN  pass' = [pass EXCEPT ![r] =
                    IF o.spec.keepComplete = {} /\ o.spec.keepFailed = {} THEN Resting
                    ELSE [@ EXCEPT !.pc = "sweep", !.queue = ToSweep(o, pass[r].js)]]
  /\ UNCHANGED <<now, sj, jobs, log, seen, cache, spent>>

Sweep(r) ==
  /\ pass[r].pc = "sweep"
  /\ \E v \in pass[r].queue :
       /\ ~ \E q \in pass[r].queue : SweptBefore(pass[r].js, q, v)
       /\ \/ /\ DeleteCallSucceeds(v[1])
             /\ Mutate(r, [pass[r] EXCEPT !.held.active = @ \ {v}, !.queue = @ \ {v}])
          \/ /\ DeleteCallFails(v[1])
             /\ pass' = [pass EXCEPT ![r].queue = @ \ {v}]
             /\ UNCHANGED cache
  /\ UNCHANGED <<now, sj, log, seen>>

EndCleanup(r) ==
  /\ pass[r].pc = "sweep" /\ pass[r].queue = {}
  /\ StatusCallSucceeds(pass[r].held) \/ StatusCallFails(pass[r].held)
  /\ pass' = [pass EXCEPT ![r] = Resting]
  /\ UNCHANGED <<now, jobs, seen, cache>>
-----------------------------------------------------------------------------
(* The informer and the process.                                           *)

(* The object in the store is replaced, never updated in place. *)
Receive(r, v) ==
  /\ seen' = [seen EXCEPT ![r] = v]
  /\ cache' = [cache EXCEPT ![r] = log[v]]
  /\ pass' = [pass EXCEPT ![r].shared = FALSE]
  /\ UNCHANGED <<now, sj, jobs, log>>

(* The first list, from a server that may lag behind.  (Nothing waits for  *)
(* it: a pass before it finds an empty store and does nothing.)            *)
List(r) ==
  /\ pass[r].pc # "down" /\ seen[r] = 0
  /\ \E v \in 1..Len(log) : Receive(r, v)
  /\ UNCHANGED spent

(* The watch delivers the next version. *)
Deliver(r) ==
  /\ pass[r].pc # "down" /\ seen[r] \in 1..(Len(log) - 1)
  /\ Receive(r, seen[r] + 1)
  /\ UNCHANGED spent

(* The informer lists afresh, and what passes assigned to the object in    *)
(* the store is undone.  The list may be older than the store.  (One of a  *)
(* later version is a Deliver as well.)                                    *)
Relist(r) ==
  /\ pass[r].pc # "down" /\ seen[r] > 0
  /\ \/ Receive(r, seen[r]) /\ UNCHANGED spent
     \/ Spend("oldlist") /\ \E v \in 1..(seen[r] - 1) : Receive(r, v)

(* The process dies: the pass and the store are lost. *)
Crash(r) ==
  /\ pass[r].pc # "down"
  /\ Spend("crash")
  /\ pass' = [pass EXCEPT ![r] = [Resting EXCEPT !.pc = "down"]]
  /\ cache' = [cache EXCEPT ![r] = NoObject]
  /\ seen' = [seen EXCEPT ![r] = 0]
  /\ UNCHANGED <<now, sj, jobs, log>>

(* main starts the informer and the controller.  (Where anything fails in  *)
(* main before that, the process is down again.)                           *)
Start(r) ==
  /\ pass[r].pc = "down"
  /\ pass' = [pass EXCEPT ![r] = Resting]
  /\ UNCHANGED <<now, sj, jobs, log, seen, cache, spent>>
-----------------------------------------------------------------------------
(* The rest of the cluster.                                                *)

Tick == now < MaxTime /\ now' = now + 1 /\ UNCHANGED <<sj, jobs, log, seen, cache, pass, spent>>

(* The Job controller completes or fails a Job. *)
Finish(t) ==
  /\ jobs[t].state = "Running"
  /\ \E how \in Outcomes : jobs' = [jobs EXCEPT ![t].state = how]
  /\ UNCHANGED <<now, sj, log, seen, cache, pass, spent>>

(* A user or another controller deletes a Job. *)
Reap(t) ==
  /\ Exists(t) /\ Spend("reap") /\ jobs' = Deleted(t)
  /\ UNCHANGED <<now, sj, log, seen, cache, pass>>

(* A user changes the spec. *)
Edit ==
  /\ sj.phase = "live"
  /\ Spend("edit")
  /\ \E s \in Specs \ {sj.spec} : Publish([sj EXCEPT !.spec = s, !.rv = @ + 1])
  /\ UNCHANGED <<now, jobs, seen, cache, pass>>

(* A user deletes the TZCronJob; with the orphan policy it stays, with a   *)
(* deletion timestamp, until the garbage collector has released its Jobs.  *)
Delete ==
  /\ sj.phase = "live"
  /\ Spend("delete")
  /\ \E ph \in {"orphaning", "gone"} : Publish([sj EXCEPT !.phase = ph, !.rv = @ + 1])
  /\ UNCHANGED <<now, jobs, seen, cache, pass>>

Orphan(t) ==
  /\ sj.phase = "orphaning" /\ t \in Children(jobs, sj)
  /\ jobs' = [jobs EXCEPT ![t].owner = 0]
  /\ UNCHANGED <<now, sj, log, seen, cache, pass, spent>>

Finalize ==
  /\ sj.phase = "orphaning" /\ Children(jobs, sj) = {}
  /\ Publish([sj EXCEPT !.phase = "gone", !.rv = @ + 1])
  /\ UNCHANGED <<now, jobs, seen, cache, pass, spent>>

(* The garbage collector deletes a Job whose owner does not exist. *)
Collect(t) ==
  /\ Exists(t) /\ jobs[t].owner # 0
  /\ sj.phase = "gone" \/ jobs[t].owner # sj.uid
  /\ jobs' = Deleted(t)
  /\ UNCHANGED <<now, sj, log, seen, cache, pass, spent>>

(* A user creates a TZCronJob of that name again. *)
Recreate ==
  /\ sj.phase = "gone"
  /\ \E s \in Specs : Publish(NewObject(s, sj.rv + 1, sj.uid + 1))
  /\ UNCHANGED <<now, jobs, seen, cache, pass, spent>>
-----------------------------------------------------------------------------
Init ==
  /\ now = 0
  /\ \E s \in Specs : sj = NewObject(s, 1, 1)
  /\ jobs = [t \in Instants |-> NoJob]
  /\ log = <<sj>>
  /\ seen = [r \in Replicas |-> 0]
  /\ cache = [r \in Replicas |-> NoObject]
  /\ pass = [r \in Replicas |-> [Resting EXCEPT !.pc = "down"]]
  /\ spent = [e \in Events |-> 0]

PassStep(r) ==
  \/ ListJobs(r) \/ ListTZCronJobs(r) \/ SyncStatus(r)
  \/ GetVictim(r) \/ KillVictim(r) \/ CreateJob(r) \/ RecordStart(r)
  \/ BeginCleanup(r) \/ Sweep(r) \/ EndCleanup(r)

Next ==
  \/ \E r \in Replicas : PassStep(r) \/ List(r) \/ Deliver(r) \/ Relist(r) \/ Crash(r) \/ Start(r)
  \/ \E t \in Instants : Finish(t) \/ Reap(t) \/ Orphan(t) \/ Collect(t)
  \/ Tick \/ Edit \/ Delete \/ Finalize \/ Recreate

Spec == Init /\ [][Next]_vars

(* The informer, the passes and the clock go on; a process that died comes *)
(* back; a Job ends.  Users, faults and crashes need not happen.           *)
Fairness ==
  /\ \A r \in Replicas : WF_vars(PassStep(r)) /\ WF_vars(List(r)) /\ WF_vars(Deliver(r)) /\ WF_vars(Start(r))
  /\ \A t \in Instants : WF_vars(Finish(t)) /\ WF_vars(Orphan(t))
  /\ WF_vars(Tick) /\ WF_vars(Finalize)

FairSpec == Spec /\ Fairness
-----------------------------------------------------------------------------
(* Types.                                                                  *)

Jobs == [uid: Nat, owner: Nat, state: {"Absent", "Running", "Complete", "Failed"}, start: Nat]

Objects == [rv: Nat, uid: Nat, phase: {"live", "orphaning", "gone"}, spec: Specs,
            created: Nat, active: SUBSET Refs, lst: Instants \cup {Never}]

PassStates == {"down", "idle", "listed", "sync", "replace", "kill", "create",
               "record", "cleanup", "sweep"}

Passes == [pc: PassStates, js: [Instants -> Jobs], held: Objects, shared: BOOLEAN,
           at: Instants, queue: SUBSET Refs, victim: Refs, since: Nat]

(* Every variable has its type, and the server has held some version.      *)
TypeOK ==
  /\ now \in Instants
  /\ sj \in Objects
  /\ jobs \in [Instants -> Jobs]
  /\ log \in Seq(Objects) /\ log # <<>>
  /\ seen \in [Replicas -> 0..Len(log)]
  /\ cache \in [Replicas -> Objects]
  /\ pass \in [Replicas -> Passes]
  /\ spent \in [Events -> Nat]
-----------------------------------------------------------------------------
(* Safety.                                                                 *)

Running(o) == {t \in Children(jobs, o) : jobs[t].state = "Running"}

(* Concurrency policy: under Forbid and under Replace at most one Job of   *)
(* the TZCronJob runs at a time (syncOne: the test of Status.Active before *)
(* a start, and the loop that deletes what is active).                     *)
NoOverlap == sj.spec.policy \in {"Forbid", "Replace"} => Cardinality(Running(sj)) <= 1

(* Exactly once at most: no scheduled time is run twice (syncOne: the name *)
(* of a Job, which is a function of the scheduled time, is the lock).  Two *)
(* replicas that sweep do not keep it: one may stall behind the fence      *)
(* until the other has started, recorded and swept the same run.           *)
RunAtMostOnce == \A t \in Instants : jobs[t].uid <= 1

(* A Job that runs is in Status.Active, or the pass that created it is     *)
(* about to write it there (syncOne: the second UpdateStatus).             *)
RunningIsTracked ==
  \A t \in Running(sj) :
    \/ RefTo(jobs, t) \in sj.active
    \/ \E r \in Replicas : pass[r].pc = "record" /\ RefTo(jobs, t) \in pass[r].held.active

Deciding(r) == pass[r].pc \in {"replace", "kill", "create"}

(* Where syncOne goes on to replace and create Jobs, it decides on an      *)
(* object the API server held at some instant of this very pass, however   *)
(* stale the informer's store is (the first UpdateStatus is refused when   *)
(* the object has changed, and *sj = *updatedSJ).  The sweep that follows  *)
(* is not covered: syncAll runs it even on a copy that was refused.        *)
DecisionIsFresh ==
  \A r \in Replicas : Deciding(r) =>
    /\ pass[r].held.rv >= pass[r].since
    /\ pass[r].held.phase = "live" /\ ~pass[r].held.spec.suspend
    /\ pass[r].held.rv = sj.rv => sj.phase = "live" /\ sj.spec = pass[r].held.spec

(* A pass that lists an orphaned Job does not start a Job for the former   *)
(* parent.  (syncAll lists children before parents for this, but takes the *)
(* parents from a cache; the first UpdateStatus is what ensures it.)  The  *)
(* sweep is not covered, as above.                                         *)
OrphansAreLeft ==
  \A r \in Replicas, t \in Instants :
    LET j == pass[r].js[t]
    IN  (Deciding(r) /\ j.state # "Absent" /\ j.owner = 0) => j.start <= pass[r].held.created

(* Status.Active names no Job of another TZCronJob, not even of an earlier *)
(* one of the same name.                                                   *)
ActiveIsOwned ==
  \A ref \in sj.active : Exists(ref[1]) /\ jobs[ref[1]].uid = ref[2] =>
    jobs[ref[1]].owner = sj.uid \/ sj.phase # "live"

(* A pass starts nothing at or behind what was on record when it began,    *)
(* whichever replica recorded it, however old the store is, and although   *)
(* the Job may be gone that holds the name (syncOne: the fence, then the   *)
(* open end of the interval that is searched).  So a run is started twice  *)
(* only by a pass that began before the first one was recorded.            *)
StartsAfterRecord ==
  [][\A r \in Replicas, t \in Instants :
       (CreateJob(r) /\ jobs'[t].uid > jobs[t].uid) =>
         LET o == log[pass[r].since]
         IN  o.uid = pass[r].held.uid => t > o.lst]_vars

(* LastScheduleTime never goes back while the TZCronJob exists, whichever  *)
(* replica writes it and whichever copy it writes it from.                 *)
LastScheduleMonotone == [][sj'.uid = sj.uid => sj'.lst >= sj.lst]_vars

(* History limits: what cleanupFinishedJobs deletes has finished.          *)
SweepSparesRunning ==
  [][\A r \in Replicas, t \in Instants :
       (Sweep(r) /\ jobs[t].state = "Running") => jobs'[t].state = "Running"]_vars

(* History limits: as many finished Jobs as the limit says are left, and   *)
(* they are newer than the one that goes (removeOldestJobs).               *)
SweepKeepsNewest ==
  [][\A r \in Replicas, t \in Instants :
       (Sweep(r) /\ Exists(t) /\ ~Exists(t)') =>
         LET o == pass[r].held
             n == IF jobs[t].state = "Complete" THEN o.spec.keepComplete ELSE o.spec.keepFailed
             newer == {u \in Finished(jobs, o, jobs[t].state) : Before(jobs, t, u)}
         IN  \E k \in n : Cardinality(newer) >= k]_vars
-----------------------------------------------------------------------------
(* Refinement.                                                             *)

(* What the API server holds, read as the runs of the abstract system: the *)
(* Jobs ever created by the name of an instant are its starts.             *)
Runs == INSTANCE CronRuns WITH
  clock <- now, started <- [t \in Instants |-> jobs[t].uid],
  recorded <- sj.lst, incarnation <- sj.uid

(* A single replica implements CronRuns, whatever is edited, deleted, lost *)
(* or restarted: no Job is created ahead of its time or at or behind       *)
(* LastScheduleTime, which only ever names an instant a Job was created    *)
(* for (syncOne and getRecentUnmetScheduleTimes together).                 *)
ImplementsRuns == Runs!Spec
-----------------------------------------------------------------------------
(* Liveness, once the clock rests at MaxTime: a deadline never runs out.   *)

Eligible(o) == o.phase = "live" /\ ~o.spec.suspend

(* The last activation before the clock rests is started, whatever was     *)
(* missed, lost or refused before (syncAll every ten seconds).             *)
LatestIsStarted ==
  []<>(now = MaxTime /\ Eligible(sj) =>
         \A a \in UnmetTimes(sj, now) : \E b \in Instants : b >= a /\ jobs[b].uid > 0)

(* A Job that has finished or has been deleted leaves Status.Active: the   *)
(* TZCronJob is not stuck in active mode.                                  *)
ActiveSettles ==
  \A t \in Instants :
    []<>(sj.phase = "live" => \A ref \in sj.active :
           ref[1] = t => jobs[t].uid = ref[2] /\ jobs[t].state = "Running")
=============================================================================
