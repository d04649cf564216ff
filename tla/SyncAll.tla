------------------------------- MODULE SyncAll -------------------------------
(***************************************************************************)
(* One controller, several TZCronJobs: a pass of syncAll takes them one    *)
(* after another, each with its share of one list of Jobs.                 *)
(*                                                                         *)
(* This module has in detail what TZCronJobController computes in one      *)
(* operator: the loop over the activations, its deadline in the integers   *)
(* of the machine, the sort by start time, the removal by index, and the   *)
(* panic that ends the process.  In turn the calls to the API server       *)
(* succeed, the informer's store is up to date, and only the Job           *)
(* controller acts beside the pass: what may go wrong between the calls is *)
(* TZCronJobController's subject.                                          *)
(*                                                                         *)
(* Instants are in the unit of time.Duration, of which a second has        *)
(* Second; a deadline is in seconds.  The UID of a TZCronJob is its name,  *)
(* and a Job's name is the TZCronJob's with the instant it is for.         *)
(***************************************************************************)
EXTENDS CronSchedule, SequencesExt

CONSTANTS
  Names,      \* the TZCronJobs
  Clusters,   \* what the controller may find when it starts: [objs, jobs]
  Second,     \* time.Second
  Half,       \* 2^63: the integers of the machine are -Half..(Half - 1)
  Oldest,     \* the first instant a Job may have been for
  MaxTime     \* the clock stops here

JobNames == Names \X (Oldest..MaxTime)
States == {"Absent", "Running", "Complete", "Failed"}
Hows == {"Complete", "Failed"}

Specs ==
  [suspend: BOOLEAN, policy: {"Allow", "Forbid", "Replace"}, schedule: STRING, timezone: STRING,
   deadline: Optional(Int), keepComplete: Optional(Int), keepFailed: Optional(Int)]

(* A TZCronJob at instant t, and a Job. *)
Objects(t) == [spec: Specs, created: Int, active: SUBSET JobNames, lst: Never..t]
Jobs == [owner: Names \cup {"none", "other"}, state: States, start: Optional(Int)]

ASSUME SyncAllAssumption ==
  /\ Second \in Nat \ {0} /\ Half \in Nat \ {0}
  /\ MaxTime \in Nat /\ Oldest \in Int /\ Oldest <= 0 /\ Names # {} /\ IsFiniteSet(Names)
  /\ \A c \in Clusters : c.objs \in [Names -> Objects(0)] /\ c.jobs \in [JobNames -> Jobs]

VARIABLES
  now,
  objs,   \* objs[n]: spec, creation and status of TZCronJob n
  jobs,   \* jobs[j]: the Job named j
  pass    \* the locals of syncAll and of what it calls

vars == <<now, objs, jobs, pass>>

NoJob == [owner |-> "none", state |-> "Absent", start |-> {}]
Exists(j) == jobs[j].state # "Absent"
-----------------------------------------------------------------------------
(* Schedule times in machine integers.                                     *)

(* Two's complement. *)
Wrap(x) == ((x + Half) % (2 * Half)) - Half

(* Seeded fault: the earlier of the two bounds is taken. *)
EarlierBound(o, t) ==
  LET cut == {t + Wrap(-Second * d) : d \in o.spec.deadline}
  IN  CHOOSE b \in cut \cup {LastKnownStart(o)} : \A c \in cut \cup {LastKnownStart(o)} : b <= c

(* The later of the last known start and the deadline. *)
LoopBound(o, t) ==
  LET cut == {t + Wrap(-Second * d) : d \in o.spec.deadline}
  IN  CHOOSE b \in cut \cup {LastKnownStart(o)} : \A c \in cut \cup {LastKnownStart(o)} : c <= b

ZeroTime == -1    \* the zero time.Time: before every instant of the clock

(* Schedule.Next: later than t; the zero time if it never fires; and past  *)
(* the clock's end if it fires no more in the model's range.  (Not that of *)
(* "@every": see CronSchedule.)                                            *)
NextAfter(spec, t) ==
  LET later == {a \in Activations(spec) : a > t}
  IN  IF Activations(spec) = {} THEN ZeroTime
      ELSE IF later = {} THEN MaxTime + 1
      ELSE CHOOSE a \in later : \A b \in later : a <= b

LateInMachine(o, scheduled, t) == \E d \in o.spec.deadline : scheduled + Wrap(Second * d) < t
-----------------------------------------------------------------------------
(* Jobs of a list.                                                         *)

(* Seeded fault: the Jobs of every TZCronJob are grouped together. *)
ChildrenOfAll(js, n) == {j \in JobNames : js[j].state # "Absent" /\ js[j].owner \in Names}

(* groupJobsByParent, then the group of n. *)
Children(js, n) == {j \in JobNames : js[j].state # "Absent" /\ js[j].owner = n}

(* Seeded fault: a missing start time is not looked for. *)
LessIgnoringNil(js, i, j) ==
  \/ js[i].start = js[j].start /\ i[2] < j[2]
  \/ \E s \in js[i].start, t \in js[j].start : s < t

(* byJobStartTime.Less: a missing start time comes last. *)
Less(js, i, j) ==
  IF js[j].start = {} THEN js[i].start # {}
  ELSE IF js[i].start = js[j].start THEN i[2] < j[2]
  ELSE \E s \in js[i].start, t \in js[j].start : s < t

(* sort.Sort: no element is less than the one before it; which order equal *)
(* ones get is open.                                                       *)
Sorted(js, S) ==
  {l \in SetToSeqs(S) : \A k \in 1..(Len(l) - 1) : ~Less(js, l[k + 1], l[k])}

(* Seeded fault: failed Jobs are counted with the complete ones. *)
FinishedEither(js, n, how) == {j \in Children(js, n) : js[j].state \in {"Complete", "Failed"}}

Finished(js, n, how) == {j \in Children(js, n) : js[j].state = how}

Limit(spec, how) == IF how = "Complete" THEN spec.keepComplete ELSE spec.keepFailed
-----------------------------------------------------------------------------
(* The pass.                                                               *)

Resting ==
  [pc |-> "idle", js |-> [j \in JobNames |-> NoJob], todo |-> {}, cur |-> CHOOSE n \in Names : TRUE,
   at |-> 0, t |-> 0, starts |-> <<>>, how |-> "Complete", list |-> <<>>, i |-> 0]

Go(l) == pass' = [pass EXCEPT !.pc = l]

Here == objs[pass.cur]

(* The Jobs, then the TZCronJobs are listed. *)
List ==
  /\ pass.pc = "idle"
  /\ pass' = [Resting EXCEPT !.pc = "next", !.js = jobs, !.todo = Names]
  /\ UNCHANGED <<now, objs, jobs>>

(* The next TZCronJob, in the order of a Go map, and the time in its zone. *)
Take(n) ==
  /\ pass.pc = "next" /\ n \in pass.todo
  /\ pass' = [pass EXCEPT !.pc = "sync", !.cur = n, !.todo = @ \ {n}, !.at = now, !.starts = <<>>]
  /\ UNCHANGED <<now, objs, jobs>>

EndPass ==
  /\ pass.pc = "next" /\ pass.todo = {}
  /\ pass' = Resting
  /\ UNCHANGED <<now, objs, jobs>>

(* Active is pruned and written, and the search for unmet times begins. *)
Prune ==
  /\ pass.pc = "sync"
  /\ objs' = [objs EXCEPT ![pass.cur].active =
                {j \in @ : j \in Children(pass.js, pass.cur) /\ pass.js[j].state = "Running"}]
  /\ pass' = [pass EXCEPT
       !.pc = IF Here.spec.suspend \/ Here.spec.schedule \notin Schedules THEN "cleanup"
              ELSE IF LoopBound(Here, pass.at) > pass.at THEN "decide"
              ELSE "loop",
       !.t = IF Here.spec.schedule \in Schedules
               THEN NextAfter(Here.spec, LoopBound(Here, pass.at)) ELSE 0]
  /\ UNCHANGED <<now, jobs>>

(* Seeded fault: the pass ends with the first TZCronJob that gives up. *)
GiveUpAll(p) == [p EXCEPT !.pc = "idle"]

(* The error of getRecentUnmetScheduleTimes ends syncOne alone. *)
GiveUp(p) == [p EXCEPT !.pc = "cleanup"]

(* Seeded fault: the loop goes on to the first activation in the future. *)
LoopAhead ==
  /\ pass.pc = "loop"
  /\ LET found == Append(pass.starts, pass.t)
     IN  pass' = IF pass.t > pass.at + 1 THEN [pass EXCEPT !.pc = "decide"]
                 ELSE IF Len(found) > MaxMissed THEN GiveUp([pass EXCEPT !.starts = found])
                 ELSE [pass EXCEPT !.starts = found, !.t = NextAfter(Here.spec, @)]
  /\ UNCHANGED <<now, objs, jobs>>

(* One turn of the loop of getRecentUnmetScheduleTimes. *)
Loop ==
  /\ pass.pc = "loop"
  /\ LET found == Append(pass.starts, pass.t)
     IN  pass' = IF pass.t > pass.at THEN [pass EXCEPT !.pc = "decide"]
                 ELSE IF Len(found) > MaxMissed THEN GiveUp([pass EXCEPT !.starts = found])
                 ELSE [pass EXCEPT !.starts = found, !.t = NextAfter(Here.spec, @)]
  /\ UNCHANGED <<now, objs, jobs>>

(* The rest of syncOne: what is active under Replace is deleted, and the   *)
(* last time found is started unless its Job exists.                       *)
Start(t) ==
  LET n == pass.cur
      killed == IF Here.spec.policy = "Replace" THEN Here.active ELSE {}
      left == [j \in JobNames |-> IF j \in killed THEN NoJob ELSE jobs[j]]
      taken == left[<<n, t>>].state # "Absent"
  IN  /\ jobs' = IF taken THEN left
                 ELSE [left EXCEPT ![<<n, t>>] = [owner |-> n, state |-> "Running", start |-> {}]]
      /\ objs' = IF taken THEN [objs EXCEPT ![n].active = @ \ killed]
                 ELSE [objs EXCEPT ![n].active = (@ \ killed) \cup {<<n, t>>}, ![n].lst = t]

Decide ==
  /\ pass.pc = "decide"
  /\ IF \/ pass.starts = <<>>
        \/ LateInMachine(Here, Last(pass.starts), pass.at)
        \/ Here.spec.policy = "Forbid" /\ Here.active # {}
       THEN UNCHANGED <<objs, jobs>>
       ELSE Start(Last(pass.starts))
  /\ Go("cleanup")
  /\ UNCHANGED now

(* cleanupFinishedJobs, whatever became of syncOne: complete Jobs, then    *)
(* failed ones.                                                            *)
Cleanup ==
  /\ pass.pc = "cleanup"
  /\ pass' = [pass EXCEPT !.how = "Complete",
                          !.pc = IF Here.spec.keepComplete = {} /\ Here.spec.keepFailed = {}
                                   THEN "next" ELSE "sort"]
  /\ UNCHANGED <<now, objs, jobs>>

(* The Jobs that finished one way are done with.  (The status is written   *)
(* at the end; Prune has taken every finished Job of the list from it.)    *)
AfterSort(p) ==
  IF p.how = "Complete" THEN [p EXCEPT !.pc = "sort", !.how = "Failed", !.list = <<>>, !.i = 0]
  ELSE [p EXCEPT !.pc = "next", !.list = <<>>, !.i = 0]

NumToDelete(p) == CHOOSE x \in {Len(p.list) - k : k \in Limit(objs[p.cur].spec, p.how)} : TRUE

(* removeOldestJobs up to its loop. *)
Sort ==
  /\ pass.pc = "sort"
  /\ LET S == Finished(pass.js, pass.cur, pass.how)
     IN  IF \E k \in Limit(Here.spec, pass.how) : Cardinality(S) - k > 0
           THEN \E l \in Sorted(pass.js, S) :
                  pass' = [pass EXCEPT !.pc = "remove", !.list = l, !.i = 1]
           ELSE pass' = AfterSort(pass)
  /\ UNCHANGED <<now, objs, jobs>>

(* Seeded fault: the loop runs once too often. *)
MoreToRemoveInclusive(p) == p.i <= NumToDelete(p) + 1

MoreToRemove(p) == p.i <= NumToDelete(p)

(* Its loop: the next Job is deleted by name. *)
RemoveNext ==
  /\ pass.pc = "remove" /\ MoreToRemove(pass) /\ pass.i <= Len(pass.list)
  /\ jobs' = [jobs EXCEPT ![pass.list[pass.i]] = NoJob]
  /\ pass' = [pass EXCEPT !.i = @ + 1]
  /\ UNCHANGED <<now, objs>>

(* The index leaves the list: a panic, which wait.Until logs and raises    *)
(* again, so that the process dies.                                        *)
Panic ==
  /\ pass.pc = "remove" /\ MoreToRemove(pass) /\ pass.i > Len(pass.list)
  /\ Go("dead")
  /\ UNCHANGED <<now, objs, jobs>>

EndRemove ==
  /\ pass.pc = "remove" /\ ~MoreToRemove(pass)
  /\ pass' = AfterSort(pass)
  /\ UNCHANGED <<now, objs, jobs>>

(* The kubelet starts the container again. *)
Restart == pass.pc = "dead" /\ pass' = Resting /\ UNCHANGED <<now, objs, jobs>>
-----------------------------------------------------------------------------
(* The rest of the cluster.                                                *)

Tick == now < MaxTime /\ now' = now + 1 /\ UNCHANGED <<objs, jobs, pass>>

(* The Job controller enters the start time of a Job ... *)
Observe(j) ==
  /\ jobs[j].state = "Running" /\ jobs[j].start = {}
  /\ jobs' = [jobs EXCEPT ![j].start = {now}]
  /\ UNCHANGED <<now, objs, pass>>

(* ... and its end. *)
Finish(j) ==
  /\ jobs[j].state = "Running" /\ jobs[j].start # {}
  /\ \E how \in Hows : jobs' = [jobs EXCEPT ![j].state = how]
  /\ UNCHANGED <<now, objs, pass>>
-----------------------------------------------------------------------------
Init ==
  /\ now = 0
  /\ \E c \in Clusters : objs = c.objs /\ jobs = c.jobs
  /\ pass = Resting

PassStep ==
  \/ List \/ EndPass \/ Prune \/ Loop \/ Decide \/ Cleanup \/ Sort
  \/ RemoveNext \/ Panic \/ EndRemove \/ Restart
  \/ \E n \in Names : Take(n)

Next == PassStep \/ Tick \/ \E j \in JobNames : Observe(j) \/ Finish(j)

Spec == Init /\ [][Next]_vars

(* Every call of a pass returns, and a dead process is started again. *)
FairSpec == Spec /\ WF_vars(PassStep)
-----------------------------------------------------------------------------
Passes ==
  [pc: {"idle", "next", "sync", "loop", "decide", "cleanup", "sort", "remove", "dead"},
   js: [JobNames -> Jobs], todo: SUBSET Names, cur: Names, at: 0..now, t: Int, starts: Seq(Int),
   how: Hows, list: Seq(JobNames), i: Nat]

(* Every variable has its type: nothing is on record for the future, and   *)
(* an index is past the list by one at most (syncOne, removeOldestJobs).   *)
TypeOK ==
  /\ now \in 0..MaxTime
  /\ objs \in [Names -> Objects(now)]
  /\ jobs \in [JobNames -> Jobs]
  /\ pass \in Passes
  /\ pass.i <= Len(pass.list) + 1

(* The deadline of o in the unit of the clock, without overflow. *)
Exact(o) == [o EXCEPT !.spec.deadline = {Second * d : d \in @}]

Fits(o) == \A d \in o.spec.deadline : Wrap(-Second * d) = -Second * d

Found == {pass.starts[k] : k \in 1..Len(pass.starts)}

(* The loop finds what CronSchedule says is unmet, from oldest to latest,  *)
(* or gives up exactly when CronSchedule says there is too much of it      *)
(* (getRecentUnmetScheduleTimes, as long as the deadline fits).            *)
LoopIsUnmetTimes ==
  Fits(Here) =>
    /\ pass.pc = "decide" =>
         /\ ~TooManyMissed(Exact(Here), pass.at)
         /\ Found = UnmetTimes(Exact(Here), pass.at)
         /\ \A k, l \in 1..Len(pass.starts) : k < l => pass.starts[k] < pass.starts[l]
    /\ Len(pass.starts) > MaxMissed => TooManyMissed(Exact(Here), pass.at)

(* A deadline so long that it wraps around only ever suppresses starts: no *)
(* time is found that the deadline as written would exclude                *)
(* (getRecentUnmetScheduleTimes: -time.Second * time.Duration(seconds)).   *)
WrappedDeadlineSuppresses ==
  (pass.pc = "decide" /\ \A d \in Here.spec.deadline : d >= 0) =>
    Found \subseteq UnmetTimes(Exact(Here), pass.at)

(* A time that was found is too late only if the deadline wraps to the     *)
(* least integer, which is its own negative: the two computations of the   *)
(* deadline, in getRecentUnmetScheduleTimes and in syncOne, agree on every *)
(* other.                                                                  *)
LateAtLeastIntegerOnly ==
  (pass.pc = "decide" /\ pass.starts # <<>> /\ LateInMachine(Here, Last(pass.starts), pass.at)) =>
    \E d \in Here.spec.deadline : Wrap(Second * d) = -Half

(* The process only dies of a negative history limit (removeOldestJobs).   *)
PanicNeedsNegativeLimit ==
  pass.pc = "dead" => \E k \in Limit(Here.spec, pass.how) : k < 0

(* What has been removed is not less recent than what is left: comparing   *)
(* neighbours suffices, whichever start times are missing                  *)
(* (byJobStartTime, sort.Sort).                                            *)
OldestGoFirst ==
  pass.pc = "remove" =>
    \A k, l \in 1..Len(pass.list) : (k < pass.i /\ pass.i <= l) => ~Less(pass.js, pass.list[l], pass.list[k])

(* After a sweep as many of the listed Jobs are left as the limit says, of *)
(* complete and of failed Jobs alike (cleanupFinishedJobs).                *)
HistoryWithinLimits ==
  (pass.pc = "next" /\ pass.how = "Failed") =>
    \A how \in Hows : \A k \in Limit(Here.spec, how) :
      LET listed == {j \in Children(pass.js, pass.cur) : pass.js[j].state = how}
      IN  Cardinality({j \in listed : Exists(j)}) =
            IF Cardinality(listed) <= k THEN Cardinality(listed) ELSE k

(* A pass touches no TZCronJob but the one it is at, and deletes no Job    *)
(* but one of that TZCronJob's (syncAll: jobsBySj[sj.UID]).                *)
EachMindsItsOwn ==
  [][PassStep =>
       /\ \A n \in Names : n # pass.cur => objs'[n] = objs[n]
       /\ \A j \in JobNames : (Exists(j) /\ jobs'[j] # jobs[j]) => jobs[j].owner = pass.cur]_vars

(* Every TZCronJob is reconciled again and again, whatever is wrong with   *)
(* the schedule, the zone or the backlog of another; only a limit that is  *)
(* negative may prevent it (syncAll).                                      *)
EachIsServed ==
  (\A n \in Names, how \in Hows : \A k \in Limit(objs[n].spec, how) : k >= 0)
    => \A n \in Names : []<>(pass.pc = "cleanup" /\ pass.cur = n)
=============================================================================
