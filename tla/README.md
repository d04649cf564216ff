# Cronjobber in TLA+

Cronjobber (`src/`) is the CronJob controller of Kubernetes 1.x with a time zone
per schedule. It keeps no state of its own between two passes except an
informer's cache; what makes it hard is that every decision is taken from copies
that may be old, and is carried out in several calls to the API server, any of
which may fail, be refused, or succeed unnoticed.

This directory holds the specification of that controller and of what it stands
on, its model checks and its proofs:

| module | what it is |
| --- | --- |
| `CronRuns` | what is promised to a user: runs that are started and recorded in order, no pass, no copy, no call |
| `CronSchedule` | which activations are unmet, which one is started: `pkg/controller/cronjobber/utils.go` and the middle of `syncOne` |
| `TZCronJobController` | one TZCronJob, its Jobs, any number of controller replicas, the informer, the API server and its other clients; implements `CronRuns` |
| `SyncAll` | several TZCronJobs in one pass: the loop, the sort, the removal and the machine integers in detail |
| `TZCronJobClient` | the typed client, verb by verb, and the server behind it |
| `SharedInformerFactory` | the informer factory under its lock, and the informer it makes, on top of `TZCronJobClient` |
| `UpdateTZ` | the time zone database of a pod: the two shell scripts and the containers they run in |
| `MCController`, `MCSyncAll`, `MCInformers`, `MCUpdateTZ` | values of the constants for TLC; in the first also the claims of comments that the code does not keep |
| `CronScheduleProofs` | theorems about the time arithmetic |
| `TZCronJobControllerProofs` | the inductive invariant and the theorems of the controller |
| `CronRunsProofs` | the controller implements `CronRuns` |
| `JobOwnershipProofs` | whose Jobs a pass touches, however old its list and its copies; which the sweep leaves |
| `ConcurrencyPolicyProofs` | when the policies hold, and what one replica in trouble runs twice: nothing |
| `SyncAllProofs` | the inductive invariant of a pass over several TZCronJobs, and every safety property of it |
| `SharedInformerFactoryProofs` | the mutex of the factory, the server's versions, and the informer's queue and store |
| `UpdateTZProofs` | the sidecar's database and the delays of its retries |

    CronRuns     CronSchedule         TZCronJobClient     UpdateTZ
        ^          ^      ^                 ^
        | Runs     |      |                 |
        +-- TZCronJobController   SyncAll   SharedInformerFactory

(`Runs` is an instance with a refinement mapping; the other arrows are `EXTENDS`.)

## 1. Inventory

### Components, their state and their operations

**Controller** (`pkg/controller/cronjobber/controller.go`). `Run` calls `syncAll`
every ten seconds, one pass after the other in one goroutine. `syncAll` lists all
Jobs at the API server, groups them by the UID of their controller, lists the
TZCronJobs in the *informer's store*, and for each runs `syncOne` and then
`cleanupFinishedJobs`. Its state is that of a pass: the Jobs listed, the copy of
the TZCronJob it holds (`sj`), the time it read, and how far it has got. It emits
events and logs.

- `syncOne` removes from `Status.Active` what has finished or does not exist
  any more, writes the status, returns early (deleted, suspended, undeterminable
  schedule, nothing unmet, too late, `Forbid` with something active), under
  `Replace` gets and deletes every active Job, creates the Job for the last unmet
  time, and writes the status again.
- `cleanupFinishedJobs` deletes the oldest complete and failed Jobs above the
  history limits and writes the status once more.

Correct when: no scheduled time runs twice; `Forbid` and `Replace` never run two
Jobs at a time; running Jobs are in `Status.Active` and ended ones leave it;
decisions do not rest on objects older than the pass; `LastScheduleTime` does not
go back; the sweep deletes finished Jobs only, the oldest, and as many as it has to;
the last missed activation is eventually started; what is wrong with one TZCronJob
stays with it.

**Schedule arithmetic** (`utils.go`). Pure. The location of a time zone, the last
known start, the deadline, the list of unmet activations, which gives up beyond
100. Correct when each activation is listed by the pass that comes after it and
by no pass that has a start at or after it on record, in 64-bit nanoseconds too.

**Informer, lister, store** (`pkg/client/informers`, `pkg/client/listers`). State:
a factory with a map of informers and one of those started, under a mutex; per
informer a store, a queue, and a watch that is behind the server by some number
of versions. The lister returns *pointers into the store*; `syncOne` assigns
through them. Correct when there is one informer per type, run once; when the
store is one state of the server and becomes its last; when who waits for it waits
without the lock, and not for ever.

**Typed client and API server** (`pkg/client/clientset`, `injection.go`). The
server keeps the TZCronJob with a resource version, refuses a write with
another version, treats the status as a subresource, admits one Job per name and
deletes by name. The injection interfaces hand calls through unchanged. Correct
when no accepted change gets lost.

**API types** (`pkg/apis/cronjobber/v1alpha1`). Spec and status; generated deep
copies and registration.

**Process** (`cmd/cronjobber/main.go`). Builds clients, starts the informer and the
controller at the same time; nothing waits for the cache to fill, and there is no
leader election.

**Time zone database sidecar** (`updatetz/`). Two shell scripts: fetch, retry with
backoff, unpack over the database in use, first as an init container and then
beside the controller. State: the files, a version file, the failures so far.
Correct when a half-unpacked database is not taken for a complete one, when zones do
not vanish under the controller, and when the latest release arrives.

**Fakes, deployment files, logging, version**: no behaviour of their own.

### Who interacts with whom

    user ----------> API server <----- Job controller, garbage collector
                       |   ^
        watch, list    |   |  list Jobs, UpdateStatus, get/create/delete Job
                       v   |
       store <--- informer  pass (syncAll > syncOne, cleanupFinishedJobs)
         |                   ^  |      ^
         +---- pointers -----+  |      +---- time.LoadLocation --- zone files <--- updatetz
                                +--> assigns to the object in the store

### What is hard here

- *Stale copies.* The TZCronJob comes from the store, the Jobs from the server.
- *Lost replies.* Each of the three status writes, the creation and the deletions
  may have taken effect although the caller saw an error.
- *Crash between creating a Job and recording it.* The name of a Job, a function of
  the scheduled time, is the lock against running it twice.
- *Two replicas*, each with its own store and list.
- *The rest of the cluster* acts between any two calls: edits, deletions (also with
  orphaning), a new TZCronJob by the old name, Jobs that end or are deleted.
- *Aliasing.* What a pass assigns but fails to write stays visible in the store
  until the watch or a list replaces the object.
- *Boundaries.* The interval that is searched is open at one end, closed at the
  other; 100 missed starts; deadlines in 64-bit nanoseconds, negated in one place and
  not in another; negative limits; Jobs without a start time in a sort.
- *One process for all.* A panic over one TZCronJob stops the others.
- *Old lists.* The reflector may list a state older than its store, and watch from there.
- *Files that are replaced while they are read*, by a script that may die at any line.

`PROJECT.json` lists each hazard at its line with the properties that watch it.

## 2. The model and the code

Each definition named *Seeded fault* is a plausible bug, next to the definition it
would replace; with it in place the property named in `PROJECT.json` fails.

### `CronSchedule`

Instants are integers. A cron expression read in a zone is the set of instants at
which it fires (`Fires`), empty for an expression that never fires, for which the
library returns the zero time and the loop runs until its list is too long.
`UnmetTimes`, `EarliestTime`, `TooManyMissed` and `Determinable` are
`getRecentUnmetScheduleTimes`; `ScheduledTime` and `TooLate` are the lines of
`syncOne` that use its result; `Location` is `getCurrentTimeInZone` together with
what `syncAll` does with its error, which is to go on with the local time.
`MaxMissed` is the code's 100.

`@every d`, which `cron.ParseStandard` accepts too, is left out: its activations are not a
fixed set, but are counted from the earliest time (utils.go:124). As long as that is the last
start on record it makes no difference; where a deadline has moved it, two passes compute
different instants, with different names for their Jobs, and the name is no lock between
them. Nothing here is claimed of such schedules.

### `TZCronJobController`

| variable | in the system |
| --- | --- |
| `now` | the one clock |
| `sj` | the TZCronJob at the API server: spec, `Status.Active`, `LastScheduleTime`, resource version `rv`, UID, creation time; `phase` says whether it has a deletion timestamp (`orphaning`) or is gone |
| `jobs[t]` | the Job whose name carries instant `t`: UID, owner (0 when released), state, start |
| `log` | the versions of the TZCronJob there have been, the last one the present |
| `seen[r]` | the version the informer of replica `r` has got to; 0 before its first list |
| `cache[r]` | the object in the store of `r`'s informer |
| `pass[r]` | program counter and locals of `r`'s pass |
| `spent[e]` | how many of the bounded events have happened |

| action | code |
| --- | --- |
| `ListJobs`, `ListTZCronJobs` | the start of `syncAll`; an empty store ends the pass |
| `SyncStatus` | `syncOne` up to the decision: prune, `UpdateStatus`, `*sj = *updatedSJ`, all early returns |
| `GetVictim`, `KillVictim` | the loop under `Replace`: `GetJob`, `deleteJob` |
| `CreateJob` | `CreateJob` and the assignment of `Active` and `LastScheduleTime` |
| `RecordStart` | the second `UpdateStatus`, whose error is only logged |
| `BeginCleanup`, `Sweep`, `EndCleanup` | `cleanupFinishedJobs`, `removeOldestJobs`, the third `UpdateStatus` |
| `List`, `Deliver`, `Relist` | the informer: its first list, which may be of any version there has been (the request asks for resource version 0); a watch event; a list after the watch broke, of a version older than the store's (from `Budget["oldlist"]`) or the same |
| `Start`, `Crash` | start and death of the process (a SIGTERM included: `Run` returns while a pass is under way); passes begin whether or not the first list has arrived |
| `Edit`, `Delete`, `Recreate`, `Reap` | users and other clients |
| `Finish`, `Orphan`, `Collect`, `Finalize` | Job controller and garbage collector |

Every call to the API server is one atomic step with all its outcomes: success,
refusal (conflict, not found, name taken), loss of the request, loss of the reply.
The last two are drawn from `Budget["fault"]`. `Mutate` is an assignment through
the lister's pointer: it shows in the store as long as the store still holds that
object (`shared`).

Abstractions:

- *A Job is an instant and a UID.* The code names a Job after the TZCronJob and the
  Unix time it is scheduled for. Two activations in one second do not exist.
- *`Status.Active` is a set*; the code keeps a list and never adds a reference twice.
  `Replace` takes its elements in any order, which includes the code's.
- *The start time of a Job is its creation time.* The code sorts by
  `Status.StartTime`, which the Job controller sets a little later. `SyncAll` has the
  start times that are missing.
- *No Pods.* Deleting a Job in the background removes it at once, its Pods with it.
  Overlap is overlap of Jobs.
- *Foreground deletion* of a TZCronJob is left out; background deletion and
  orphaning are in.
- *One clock.* Neither skew between replicas and server nor a clock set back.
- *One TZCronJob.* A pass over several takes them one after another, each from the
  same list of Jobs; for each of them the others are the time that passes between
  `ListTZCronJobs` and its own first step, which the model leaves open. `SyncAll` has
  several.
- *A failed list* ends a pass and changes nothing, so it is no step.
- *History limits are natural numbers* or absent; negative ones are in `SyncAll`.
- *Events, logs, labels and the template* are left out. The time at which a pass
  reads the clock is the time it takes the object from the store.

### `CronRuns`

The abstract specification: `Start(t)` for a `t` that is due and later than the run on
record, `Record(t)` for one that was started and is later than the one on record,
`Recreate`, `Tick`. `TZCronJobController` instantiates it as `Runs`:

| in `CronRuns` | is |
| --- | --- |
| `clock` | `now` |
| `started[t]` | `jobs[t].uid`, which counts the Jobs ever created by the name of `t` |
| `recorded` | `sj.lst`, `Status.LastScheduleTime` at the server |
| `incarnation` | `sj.uid` |

`CreateJob` is `Start` (whether or not its reply arrives), `RecordStart` is `Record`, and
so is any other status write, should it be the one that carries the new time; everything
else stutters. A run that is started and not on record may be started again: `CronRuns`
allows it, because the code does (finding 2).

The mapping is for one replica. With two, a pass of one may create the Job of an instant
although the other has started and recorded a later one in the meantime: the first has
passed its fence before the record was written. The order of runs is then lost. A run may
even be doubled: replica A passes its fence and stalls; replica B creates the Job, records it
and, once the Job has finished and the history limit allows it, sweeps it; A then finds the
name free and creates the Job of the same instant again. `RunAtMostOnce` is therefore claimed of
no instance with two replicas. What is left is that a pass starts nothing at or behind what was
on record when it looked: `StartsAfterRecord`, checked by `core_replicas` and proved.

### `SyncAll`

The same controller seen from the other side: several TZCronJobs and the computation in
detail, while calls to the API server succeed and the store is up to date.

| variable | in the system |
| --- | --- |
| `now` | the clock, in units of `time.Duration`, of which a second has `Second` |
| `objs[n]` | TZCronJob `n`: spec, creation, `Active`, `LastScheduleTime` |
| `jobs[j]` | the Job named `j`, a pair of TZCronJob and instant: owner (also none, or a foreign one), state, start time or none |
| `pass` | program counter; `js` the Jobs listed; `todo`, `cur` the loop over the TZCronJobs; `at` the time read; `t`, `starts` the loop over activations; `how`, `list`, `i` the sweep |

| action | code |
| --- | --- |
| `List`, `Take`, `EndPass` | `syncAll`: two lists, the range over the TZCronJobs, `getCurrentTimeInZone` |
| `Prune` | `syncOne` up to the search, with the bounds of `getRecentUnmetScheduleTimes` |
| `Loop` | one turn of its `for`, with the give-up at more than 100 |
| `Decide`, with `Start` | the rest of `syncOne` |
| `Cleanup`, `Sort` | `cleanupFinishedJobs`, `removeOldestJobs` up to its loop, `sort.Sort(byJobStartTime)` |
| `RemoveNext`, `EndRemove` | one turn of its `for`: `deleteJob` |
| `Panic`, `Restart` | the index is out of range; `wait.Until` raises the panic again and the process dies; the kubelet restarts it |
| `Observe`, `Finish` | the Job controller |

- The integers of the machine are `-Half..(Half - 1)` (`Wrap`). `LoopBound` and
  `LateInMachine` multiply as the code does, once with `-time.Second` and once with
  `time.Second`. `t.Add` itself is exact, as it is in Go for times that are near now.
- `Sorted` is what `sort.Sort` leaves: no element is less than the one before it. Which
  of several such orders results is open.
- A UID is a name: nobody deletes a TZCronJob here.
- A finished Job without a start time is one whose status another client than the Job
  controller wrote; the comparator has a case for it.
- `Prune` writes the status at once and `Cleanup` not at all: it could only take from
  `Active` what finished among the listed Jobs, and `Prune` has done that.
- The zero time that the cron library returns for a schedule that never fires is before
  every instant, so that the loop runs until it gives up, as in the code.

### `TZCronJobClient` and `SharedInformerFactory`

| variable | in the system |
| --- | --- |
| `log` | the states of the server, by resource version |
| `copy[c]` | the object that client `c` received last, to be changed and sent back |
| `written[k]` | how many changes of spec and of status the server has accepted for object `k` |
| `left` | what is left of the budget: gets, writes, calls of the factory, breaks |
| `lock`, `informers`, `started` | `f.lock`, `f.informers`, `f.startedInformers` |
| `made`, `running` | informers made and `Run` calls, per type |
| `call[c]` | the call that goroutine `c` is in, and what its last one returned |
| `inf` | the informer of TZCronJobs: reflector (`pc`, `at`, `listed`, `initial`), queue, store |
| `stopped` | `stopCh` is closed |

`Get`, `Create`, `Update`, `UpdateStatus`, `Patch` (of the resource or of its status),
`Delete`, `DeleteCollection` are the verbs with the server's part; `ListFrom` and `WatchAfter` are the other two, used by the
informer. `Begin` and `Lock` start a call of the factory; `LookUp`, `Register` are
`InformerFor`; `StartNext`, `EndStart` are `Start`; `Snapshot`, `WaitNext`, `EndWait` are
`WaitForCacheSync`. What a call does under the lock is cut where another goroutine could
come between if there were none. `List`, `Event`, `Break`, `Pop` are the reflector and the
queue of client-go, which is outside `src/`: they are modelled from how `ListFunc` and
`WatchFunc` use it. The request asks for resource version 0, so `List` may return any state
the server has been in, one older than the store included.

### `UpdateTZ`

| variable | in the system |
| --- | --- |
| `upstream` | the latest release of the package |
| `db[f]` | the release that file `f` comes from; absent, or cut within a write |
| `version` | the version file |
| `fresh` | the files `find -mmin +5` leaves |
| `box` | the container: role, program counter, what it fetched, what is still to unpack, failures, delay |
| `up` | the controller runs |
| `conf` | `EXPBACKOFF_BASE`, `_MAX`, `_MAX_RETRIES` |
| `trouble` | failing steps and deaths left |

| action | code |
| --- | --- |
| `Check`, `Fetch`, `NetworkFails` | `apk info`, the comparison, `apk fetch` and the unpacking in the scratch directory; either fails |
| `Unlink`, `Write` | `tar moxf` over one existing file |
| `Truncate`, `Stamp` | `> version` |
| `Sweep`, `EndSweep` | `find ... -mmin +5 -delete` |
| `Fail` | any of these under `set -e` |
| `Retry`, `Failed`, `DelayAfter` | `retry` |
| `Boot`, `Refresh`, `EndInit`, `Die` | the two containers of the pod |
| `Age`, `Publish` | five minutes pass; upstream publishes |

The release that is unpacked is the one of the moment of `Fetch`, not the one that was
compared. Unpacking is taken to last less than the five minutes after which a file counts
as old: were it slower, `find` would delete what has just been written.

## 3. What the runs check

### The controller: `MCController`

`every` fires at each instant, `even` at each second one, shifted by one in the other
zone, `never` not at all.

| run | instance | shows |
| --- | --- | --- |
| `core_policies` | `Forbid` and `Replace`, limits 0, 1 or none, Jobs complete or fail, also a schedule in another zone, one that never fires and one that does not parse; one old list; clock to 4 | `TypeOK`, `NoOverlap`, `RunAtMostOnce`, `RunningIsTracked`, `SweepSparesRunning`, `SweepKeepsNewest` |
| `core_trouble` | a limit of 1; a user suspends or resumes once, two calls or replies are lost, the process dies once, one old list; clock to 2 with `MaxMissed = 1`, so that more starts than that can be missed | `RunAtMostOnce`, `DecisionIsFresh`, `LastScheduleMonotone`, `ImplementsRuns` |
| `core_replicas` | two replicas that sweep all that has finished (limit 0), one lost call or reply, one old list; clock to 1 | `StartsAfterRecord`, `LastScheduleMonotone` |
| `core_lifecycle` | `Allow` and `Replace`; the TZCronJob is deleted, orphaning its Jobs or not, and created again; one old list; clock to 2 | `OrphansAreLeft`, `ActiveIsOwned`, `ImplementsRuns` |
| `core_liveness` | `Forbid` and `Replace` with a deadline of 1; one lost call or reply, one death of the process, one Job deleted by a third party, one old list; clock to 2 with `MaxMissed = 1`, `FairSpec` | `LatestIsStarted`, `ActiveSettles` |

The four runs that are expected to fail are in section 4.

What the safety properties rest on, as the runs show it:

- `DecisionIsFresh`: the first `UpdateStatus` of `syncOne` is a *fence*. It is sent
  even when it changes nothing, and is refused if the store's copy is old; only
  behind it does `syncOne` delete or create Jobs. The history sweep is not behind it:
  `syncAll` calls `cleanupFinishedJobs` whatever `syncOne` returned, so a pass that was
  refused still deletes finished Jobs by an old copy (fourth finding).
- `RunAtMostOnce`: the record in `LastScheduleTime` prevents a second run once it is
  written, the name of the Job until then. The name protects only as long as the
  Job exists. So the property does not hold when a Job can vanish before its start
  is recorded: a crash and a sweep (a finding below), or a third party that deletes
  the Job of a pass whose record was lost; nor with two replicas of which one deletes
  Jobs, by the sweep or under `Replace`, while the other stands between its fence and
  its creation (section 2). `core_policies` and `core_trouble` are instances in which it
  holds (in the latter the sweep deletes Jobs, but never the latest), and the finding is
  the run in which it does not. Jobs are deleted by name; that no other Job goes in the
  place of the intended one also hangs on this.
- `StartsAfterRecord` needs none of these conditions: whatever another replica creates,
  records and sweeps meanwhile, a pass creates Jobs only for instants after the
  `LastScheduleTime` that the server had when the pass began to look.
- `NoOverlap` and `RunningIsTracked` hold while no status write is lost. One edit at
  the wrong moment is enough to break both (first finding).
- `OrphansAreLeft` is about what `syncOne` starts and deletes, not about the sweep. The
  comment in `syncAll` gives another reason than the one that makes it true; see the
  findings.
- `SweepKeepsNewest` holds while nobody else deletes Jobs: the pass counts the Jobs
  it listed, not those there are.
- `ImplementsRuns` needs none of that: edits, deletions, crashes and lost calls are all
  in the two runs that check it, and section 5 proves it for every budget.

### The pass: `sync_all`

Two TZCronJobs, of which the second is in order or idle while the first is what the
case is about. `MCClusters` has thirteen cases; a behaviour gets one. A second has 2
units and an integer 4 bits (`Half = 8`), so that the deadlines 1, 4, 5, 8, 9 and -1 give
every kind of product: one that fits, the least integer, one that wraps into the future,
to nothing, into the recent past, and a negative one. The schedules include one that
does not parse and one that never fires, the zones an unknown one, the limits 0, 1, 2 and
negative ones, the Jobs found at the start (from instant `Oldest = -4` on) complete and
failed ones, some without a start time, some of another owner or of none.

- `LoopIsUnmetTimes`: the loop computes what `CronSchedule` defines and gives up exactly
  when `CronSchedule` does, as long as the deadline fits. So `TZCronJobController`, which
  uses `CronSchedule`, has the right times.
- `WrappedDeadlineSuppresses`: a deadline so long that it wraps loses starts; it never
  brings back old ones.
- `LateAtLeastIntegerOnly`: the second test of the deadline (controller.go:293) only ever
  fires if the product is the least integer.
- `PanicNeedsNegativeLimit`, `OldestGoFirst`, `HistoryWithinLimits`: the removal by index.
- `EachMindsItsOwn`, `EachIsServed`: nothing that is wrong with one TZCronJob touches
  another, a negative limit excepted, with which the process dies in every pass.

### The informer: `informers`

Three keys in two namespaces, of which the factory has one; two clients, two goroutines,
a type beside TZCronJob. A behaviour gets one of three budgets: many calls of the
factory, calls beside writes with one break of the watch, or clients that write without
calls. (All at once is out of reach and of no other interest: factory and server share
nothing.) Callers and clients stop when the budget is used up, so deadlock is not
checked.

- `OneInformerPerType`, `RunOnce`, `CallsReturn`, `WaitsEnd`: the two maps, the lock, and the
  closure in which `WaitForCacheSync` lets go of it.
- `SyncedStoreIsFilled`, `StoreIsOneState`, `CatchesUp`: the store, with old lists.
- `NothingLost`: resource versions and the status subresource.

`main` does not call `WaitForCacheSync`; the first passes may see a store that is
half filled. They do nothing to what they do not see, so `TZCronJobController`, where the
store has the object or not, covers it.

### The sidecar: `update_tz`

Four zones, three releases of which the second drops one zone and brings another, no zone
in the binary of the controller (the worst case), three settings of the backoff, integers
of 4 bits, two failures or deaths at any step.

- `CompleteIfCurrent`: files first, then the version, then what is old. A cut at any place
  leaves a version file that is missing or old.
- `ZonesLast`: while the controller runs, a zone that lasts is missing only while `tar`
  replaces its file, and one more for each update that was cut off. For that moment the
  controller reads the schedule in its own zone (section 4).
- `BackoffIsExact`, `BecomesCurrent`.

### Bounds, and why they suffice

`MaxMissed` is 2 for the code's 100, and 1 in `core_trouble` and `core_liveness`, whose
clock ends at 2: what matters is that it can be exceeded within the clock's range, and
that no, some and too many missed starts differ. A clock of 2 has two activations, which
is what overlap and double runs need; 3 and 4 add a third finished Job for the history
limits. The one activation of `core_replicas` is enough for two passes to meet at it, one of
them with a record and a sweep in between. Each kind of trouble happens once per behaviour,
lost calls in `core_trouble` twice: every finding below needs one, and the store may lag
behind by any number of versions without any. A list that takes the store back happens at
most once.
Two replicas are interchangeable (`SYMMETRY`, in a run without liveness). The
clock's end is no deadlock: passes go on for ever. Two TZCronJobs are what interference
needs. Four finished Jobs, two with and two without a start time, take every branch of
the comparator. Four bits overflow within the deadlines of one digit and within four
failures of the backoff. What holds for every bound is in section 5.

### Fairness

`TZCronJobController` asks weak fairness of: the passes (`wait.Until` calls `syncAll` every
ten seconds and every call in it returns), the informer (its goroutine delivers what the
watch has), the restart of the process (its Deployment), the clock, the end of Jobs, and
the release of orphaned Jobs and of their parent by the garbage collector (`List`, like `Deliver`,
is the informer's). Its deletion of
Jobs without an owner need not happen: `controllerKind` (controller.go:65) gives Jobs an
owner of kind `batch/v1beta1` `TZCronJob`, which the API server does not know. Nothing is
asked of users, lost calls, crashes and relists. Weak fairness suffices because a step of a
pass stays enabled until it is taken: the watch may change what it does but not that it
can be done.

The liveness instance has a deadline, since without one more than `MaxMissed` unmet
activations stop a TZCronJob for good (the code emits an event that says so), and a
clock that comes to rest, so that "the latest activation" is one. Under `Forbid` it
needs Jobs to end.

`SyncAll` asks it of the pass alone: calls return, and a dead process is started again.
`SharedInformerFactory` asks it of the goroutines that call the factory; fairness of the
informer, that is of a server that answers, is the antecedent of `WaitsEnd` and
`CatchesUp` and not part of the specification, so that `CallsReturn` holds without it.
`UpdateTZ` asks weak fairness of what happens in the pod, and strong fairness of the two
network calls: the network is never gone for good. `BecomesCurrent` would not hold with
weak fairness, since a call that fails is not enabled again before the backoff is over.

## 4. Findings

Each is a run that is expected to fail, about one sentence in the repository.

1. `forbid_after_edit` (code bug). The second `UpdateStatus` (controller.go:364) carries
   the resource version of the first. If the object is edited in between it is refused
   once, logged, and never repeated; the assigned copy is then replaced by the watch.
   The running Job is never entered in `Active`, and under `Forbid` the next activation
   starts beside it. types.go:82: "forbids concurrent runs".
2. `run_twice_after_crash`. controller.go:352-354 uses "the job name as a lock to prevent
   us from making the job twice"; the history sweep of the restarted process may delete
   the finished Job, and the lock with it, before the start is recorded.
3. `orphan_before_parent`. controller.go:116-119 concludes that a pass which sees an
   orphan sees its parent's deletion timestamp, "because we are NOT using any caches
   here". The parents come from a cache.
4. `swept_while_deleted`. "Don't do anything other than updating status"
   (controller.go:263-264) for an object being deleted; `cleanupFinishedJobs` still deletes
   Jobs that are about to be orphaned.

Seen while modelling, and not the subject of a run:

- With `@every` and a deadline, a start that is not on record yet may get another instant, and
  its Job another name, in the next pass (section 2). The "deterministic name to avoid the
  same job being created twice" (utils.go:155) is none then.
- utils.go:126-132 says all missed Jobs "should all start running"; only the last is.
- controller.go:141 "We validate that the TZCronJob time zone is valid": nothing does; an
  unknown zone is the controller's own, with an error in the log.
- types.go:95-103 gives defaults of 3 and 1 for the history limits; nothing sets them, and
  an absent limit keeps everything.
- A negative history limit, which nothing refuses, kills the process in every pass, once it
  has deleted the finished Jobs of that kind, of which there may be none
  (`PanicNeedsNegativeLimit`; in `EachIsServed` it is the exception).
- `EXPBACKOFF_MAX_RETRIES` of 1000 is never reached: `2 ** (FAILURES - 1)` is negative in 64
  bits at failure 64, is less than the maximum, and `sleep` refuses it. `set -e` ends the
  script and the container is restarted, with the backoff at its beginning.
- `tar` takes the old file away before it writes the new one, so that for a moment a zone
  that is not in the controller's binary is unknown, and its TZCronJobs are read in the
  controller's own zone.
- An update that is cut off between the version file and `find` leaves the zones that
  upstream dropped until the next release.

## 5. What is proved

Every theorem holds for all values of the constants that the `ASSUME` of its module
allows; the assumptions only say what the constants are.

### The controller

For any number of replicas, any schedules, zones and specs, any horizon and any budget of
edits, deletions, lost calls and crashes.

- `NeverTooLate` (`CronScheduleProofs`). `ScheduledTime` is never past its deadline: the
  deadline has already cut the interval in which unmet activations are searched. So the
  branch of `syncOne` at controller.go:293, with its `MissSchedule` event, is dead, one
  deadline excepted (`LateChecksAgree`, below).
  The argument is that a finite set of numbers has a greatest element
  (`GreatestExists`), and that `EarliestTime` is at least `now - deadline`
  (`EarliestTimeBounds`).
- `TypeCorrectness`, `Freshness` and `LastScheduleNeverGoesBack`
  (`TZCronJobControllerProofs`): `TypeOK`, `DecisionIsFresh` and `LastScheduleMonotone`,
  all from `Invariance`.
- `NothingBehindTheRecord` (`TZCronJobControllerProofs`): `StartsAfterRecord`, from
  `RecordInvariance`.

The inductive invariant `Inv` has four parts. `TypeOK`, with which it is shown that the
instant a Job is named after is one of the model's. `sj.rv > 0`, which tells the object
from an empty store. `CopiesAgree`: each copy, in the log, a store or a pass, is no newer
than the server's object, and if it carries the same resource version it agrees with it
in UID, phase, spec and creation, and its `LastScheduleTime` is no smaller. (It may be
greater: a pass has assigned it and its write was lost. `Active` may differ in either
direction, so nothing is said of it.) `PassesDecided`: a pass behind the fence holds an
object that is live, not suspended, has something unmet, and is no older than the pass.

`DecisionIsFresh` alone is not inductive: that a conflict-free write proves freshness
needs `CopiesAgree`, which in turn must survive every write by everyone. A write either
raises the resource version, whereby all other copies become older and owe nothing, or
changes nothing (`PublishMoves`, `StoredType`). The proof has a lemma per action; those of
a pass share `MutateMoves`, which says that assigning through the store's pointer keeps
the store related as well. `LastScheduleMonotone` follows since a status write is accepted
only from a copy of the stored version, none of which is behind.

`NothingBehindTheRecord` compares what a pass starts with what the server had on record when
the pass listed the Jobs, a version long past. Two facts join `Inv` in `RecordInv`: in the
history of the server a later version of one TZCronJob has at least as much on record as an
earlier one (`LogGrows`); and a pass behind its fence holds a copy with at least as much as the
version it began at (`PassesFollow`), for its first write was accepted, so that it held the
stored version, which is that one or a later one. The interval that is searched is open at its
earlier end, hence what it starts is later.

- `Implementation` (`CronRunsProofs`): with one replica (`Single`, the only hypothesis)
  `Spec => Runs!Spec`. The invariant `RunInv` adds three facts to `Inv`. `Backed`: each
  copy's `LastScheduleTime`, wherever the copy is, is an instant some Job was created for,
  which makes each status write a `Record` or a stutter. `InTime`: a pass works for an
  instant that has come. `Fenceposts`: a pass behind the fence holds a copy whose
  `LastScheduleTime` is at least the server's, so that each creation is a `Start`. The last
  needs the hypothesis: with one replica nobody but the pass itself raises the record
  between its fence and its creation.

- `OrphansLeft`, `ActiveOwned`, `SweepSpares` (`JobOwnershipProofs`): `OrphansAreLeft`,
  `ActiveIsOwned` and, as long as no instant is run twice, `SweepSparesRunning`; for any
  replicas and budget. All follow from `Ownership`. Its invariant `OwnInv` adds two relations to
  `Inv`. `CopiesOwned`: a reference in the `Active` of any copy is to a Job that is gone, or to
  one of the TZCronJob it is a copy of, or to one that was released from it since. `ListsSeen`: a list of Jobs, however old, is outdated in known ways only: a UID
  listed as finished does not run again, and a Job listed as orphaned was started before the
  TZCronJob now alive was created. The second is what the comment at controller.go:116-119
  hopes to get from the order of the lists; it comes from the fence of the first status write.
- `NewestAreKept` (`JobOwnershipProofs`): `SweepKeepsNewest` with one replica, where nobody else
  deletes Jobs or the TZCronJob (`LeftAlone`): the sweep counts the Jobs it has listed, not those
  there are, so another deletion in between would make it delete one too many. Edits, lost calls
  and deaths are allowed, and so is a `Replace` in the same pass: it deletes what is in
  `Active`, from which the prune has taken all that was listed as finished. The invariant `KeepInv`
  adds to `OwnInv`: what was listed as finished is there as it was listed until the sweep; during
  it, what is gone was in the queue once, and what is still queued is newer than all of that
  (`Spared`). The rest is counting: of those that are kept at least as many as the limit says come
  later in the order of the sort (`NewerRemain`).
- `OneAtATimeWhenUndisturbed`, `OnceWhenUndisturbed`, `TrackedWhenUndisturbed`,
  `SweepSparesWhenUndisturbed` (`ConcurrencyPolicyProofs`): with one replica and no edit, deletion
  of the TZCronJob, lost call or crash (`Undisturbed`), `NoOverlap`, `RunAtMostOnce`,
  `RunningIsTracked` and `SweepSparesRunning` hold for all schedules, zones, limits, Jobs that end
  when they like and other clients that delete Jobs. The hypotheses are needed: findings 1 and 2
  take an edit and a crash, and `core_replicas` shows what is left with two replicas. The
  invariant `CalmInv` says that of the pass, the store and the server each knows all that runs:
  what is running is in `Active` of the stored version or about to be recorded (`Tracked`), before
  a creation under `Forbid` or `Replace` nothing runs, and during the loop under `Replace` all
  that runs is still queued (`InStep`).
- `OnceDespiteTrouble` (`ConcurrencyPolicyProofs`): `RunAtMostOnce` again, with trouble.
  It holds for one replica, whichever calls or replies are
  lost, whenever the process dies, and whatever is edited, provided that (`Steady`) the schedule
  and its zone stay as they are, no history limit is 0, and nobody but the controller deletes Jobs
  or the TZCronJob. This is finding 2 from the other side: with a limit of 0 it fails
  (`run_twice_after_crash`), and with any other it cannot. It also fails if the schedule is edited
  at the wrong moment, to one with an earlier instant: two Jobs are then unrecorded, and the sweep
  keeps the one that no longer locks anything. The lock that matters is the *latest*
  Job: while it is there it blocks its own name, and every earlier instant is behind it, since
  of several unmet times the code starts the last. The invariant `TroubleInv` says that Jobs were
  started in the order of their instants, and the latest is there unless it is on record
  (`Starts`); that whatever a copy has in `Active` is no later than what it has on record, which
  is why `Replace` deletes nothing that is still a lock (`CopiesNoted`); and that each Job still
  to be swept has a later one, as a limit that is not 0 leaves the newest (`LooksBack`, with
  `SweptHaveSuccessors`). It needs `KeepInv` and, for what is on record, `RunInv` of the
  refinement proof.

### The informer, its factory and the server

`SharedInformerFactoryProofs` proves every safety property of `informers` for any goroutines,
clients, types and budget, any scope, and any finite set of TZCronJobs. The invariant
`AllInv` is the conjunction of

- `FactoryInv`, from which `InformersAreShared` (`OneInformerPerType`) and `StartIsIdempotent`
  (`RunOnce`) follow: whoever is between `Lock` and `Unlock` holds the mutex (`Exclusive`); thus
  what `InformerFor` has looked up still holds when it registers (`OneMade`), and an informer was
  run exactly if it is marked as started (`RunIsRemembered`);
- `ServerInv`, for `NoChangeIsLost` (`NothingLost`): a resource version is given once
  (`Versions`), so whoever sends the version that is stored has the object that is stored
  (`CopiesAgree`);
- `StoreInv`, for `StoreIsConsistent` (`StoreIsOneState`): for each key the last entry of the
  queue, or the store if there is none, is what the server had at the version the informer has
  got to (`QueueShows`). A list need not assume anything of the queue before it, since it
  queues a deletion for whatever is known and not listed; that is why old lists do no harm;
- `Filling` (a part of `StoreInv`) and `Answered`, for `SyncedMeansFilled`
  (`SyncedStoreIsFilled`): what has been at the server all along is in the store or among the first
  `initial` entries of the queue, and "in sync" was answered when there were no such entries left;
- `Waiting`, with which `TypesAreKept` (`TypeOK`) follows: what is waited for was started, and what
  was started runs. (The budget and `stopped` have an invariant of their own, `Remains`.)

### The pass over several TZCronJobs

`SyncAllProofs` proves every safety property of `sync_all` for any TZCronJobs, Jobs and
schedules, any length of the second and of the integers, any limits and deadlines. (`Half`
is a parameter instead of `2^63`, of which the provers know nothing; any positive number
will do.) The invariant `Inv` is the conjunction of

- `TypeOK`;
- `Fresh`, `Searching`, `Searched`, `GaveUp`: what the loop has found so far is increasing,
  unmet, and all there is below the next activation to look at; so at its end it is what
  `CronSchedule` says, and when it gives up, that many distinct unmet times exist;
- `Owners`, `Coming`, `ActiveRuns`: of what was listed for a TZCronJob still to come nothing
  is gone, and what was listed for the present one is gone or still its own; `Active`, once
  pruned, names Jobs of the TZCronJob alone, which were running;
- `Sweeping` with `Kept` and `Swept`, and `Removing`: of a kind of finished Jobs all that were
  listed are left before its turn, exactly the first `i - 1` of the sorted list are gone
  during it, and as many as the limit says are left after it;
- `PanicNeedsNegativeLimit`, which is inductive with `Removing`.

From it follow `TypeCorrect`, `SearchIsExact`, `OverflowSuppresses`, `LateChecksAgree`,
`OnlyNegativeLimitsPanic`, `OldestFirst`, `LimitsAreKept` and `OwnBusinessOnly`. Facts about
all neighbours of a list are carried to all pairs by the least pair that breaks them, which
does without induction.
`OverflowSuppresses` rests on this: a product that wraps differs from the exact one by a
multiple of `2 * Half`, so the bound computed is a later one.

### The sidecar

`UpdateTZProofs` proves `VersionIsHonest` and `ZonesAreKept` for any finite set of zones, any
releases, settings and trouble. The invariant follows the order of the script: of the
release being unpacked each file is there and fresh, or still to do (`Unpacking`), and the
version file is older than the latest release until all is unpacked, empty while it is
written, and right during the sweep (`Versions`). Apart from the file in work, a zone is
missing only where trouble was spent (`Installed`).

`BackoffStaysExact` and `TypeCorrect` prove `BackoffIsExact` and `TypeOK`, for integers of any
width. `Power` is a recursive function, and what it computes is shown without an induction rule:
its table up to any `N` exists and is unique, since the least number at which that breaks would
have one before it at which it breaks already. What is needed of it: it doubles, it grows, and the
range of the integers is twice `Half`, which is one of its values. Then `Pace`: a delay that was slept is a power that fits, so the next power is at most
twice what fits and is read as exact or as negative; with a negative one `sleep` fails and the
script ends. So a large `EXPBACKOFF_MAX_RETRIES` is never reached (section 4), and does not make
a wrong delay either.

### How it was found out, and what is model-checked only

Each invariant was checked by TLC on the instances of section 3 before it was proved.

`KeepInv` and `TroubleInv` were checked with edits, lost calls and deaths on top, on a clock to 3.

Every invariant and every action property of the passing runs is stated by a theorem, with the
hypotheses named above, which cover the instances of the runs. Model-checked only is liveness (`LatestIsStarted`, `ActiveSettles`, `EachIsServed`, `CallsReturn`, `WaitsEnd`, `CatchesUp`,
`BecomesCurrent`), which like everything with `ENABLED` is out of the prover's reach.

## 6. What is not modelled

- The fakes: they refuse nothing, have no resource versions, and serve the tests alone.
- Generated code without behaviour: deep copies (the controller makes none), registration,
  the construction of clientsets, `ForResource` and the generic lister.
- Label and field selectors, resyncs (which put into the store what is in it).
- Logging, events, the version, charts and manifests; of these the models take that the
  status is a subresource, that the number of replicas may exceed one, and the order of a
  pod's containers.
- The cron library: `Fires` stands for it, which leaves out `@every` (section 2). The Job
  template and its labels.
- Foreground deletion, clock skew, Pods (see the abstractions in section 2).

## 7. Plan

Done: everything in the table at the top.

What would add most next:

1. `NoOverlap` with weaker hypotheses than `Undisturbed`. An edit, a lost call, a death and a second
   replica can each lose the record of a start, after which nothing is left to keep; a deletion of
   the TZCronJob cannot hurt its successor, so the theorems should survive it.
2. Under which conditions on the delays of its calls `RunAtMostOnce` holds for several replicas.
   While Jobs can be deleted it does not (section 2): it takes a bound on the time between a
   fence and the creation behind it, and a sweep that waits longer than that.
3. `SyncAll` on top of failing calls: a refinement of `TZCronJobController` for each TZCronJob
   apart, by TLC on a small instance.
