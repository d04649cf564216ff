----------------------- MODULE TZCronJobControllerProofs -----------------------
(***************************************************************************)
(* Proofs about TZCronJobController, for any number of replicas, any       *)
(* specs, any horizon and any budget of edits, deletions, lost calls and   *)
(* crashes.                                                                *)
(*                                                                         *)
(* The argument rests on one relation between a copy of the TZCronJob and  *)
(* what the API server stores: a copy is never newer, and one that carries *)
(* the stored resource version agrees with it in everything a pass decides *)
(* on, except that its LastScheduleTime may be ahead, entered by a pass    *)
(* whose write was lost.  Every copy there is, sent by a watch, in a store *)
(* or in the hands of a pass, is so related, and a status write is         *)
(* accepted from a copy of the stored version only.                        *)
(***************************************************************************)
EXTENDS TZCronJobController, CronScheduleProofs, SequenceTheorems

(* Copy v of the TZCronJob, when the API server stores o. *)
Agrees(v, o) ==
  /\ v.rv <= o.rv
  /\ v.rv = o.rv => /\ v.uid = o.uid
                    /\ v.phase = o.phase
                    /\ v.spec = o.spec
                    /\ v.created = o.created
                    /\ v.lst >= o.lst

CopiesAgree ==
  /\ \A i \in 1..Len(log) : Agrees(log[i], sj)
  /\ \A r \in Replicas : Agrees(cache[r], sj) /\ Agrees(pass[r].held, sj)

(* What a pass knows while it deletes or creates Jobs. *)
Decided(p) ==
  p.pc \in {"replace", "kill", "create"} =>
    /\ p.held.rv >= p.since
    /\ p.held.phase = "live" /\ ~p.held.spec.suspend
    /\ p.held.spec.schedule \in Schedules
    /\ UnmetTimes(p.held, p.at) # {}

PassesDecided == \A r \in Replicas : pass[r].since <= sj.rv /\ Decided(pass[r])

(* The inductive invariant. *)
Inv == TypeOK /\ sj.rv > 0 /\ CopiesAgree /\ PassesDecided
-----------------------------------------------------------------------------
(* Types of the values the actions build.                                  *)

LEMMA SpecFields ==
  ASSUME NEW s \in Specs
  PROVE  s.deadline \in Optional(Int) /\ s.suspend \in BOOLEAN
BY ControllerAssumption

LEMMA NoObjectType == NoObject \in Objects /\ NoObject.rv = 0
BY ControllerAssumption DEF NoObject, Objects, Never

LEMMA RestingType ==
  /\ Resting \in Passes /\ Resting.pc = "idle"
  /\ Resting.held = NoObject /\ Resting.since = 0
<1>1. 0 \in Instants
  BY ControllerAssumption DEF Instants
<1> QED
  BY <1>1, NoObjectType DEF Resting, Passes, PassStates, NoJob, Jobs, Refs

LEMMA ObjectNumbers ==
  ASSUME NEW o \in Objects
  PROVE  o.rv \in Nat /\ o.uid \in Nat /\ o.lst \in Int
<1>1. Instants \in SUBSET Int /\ Never \in Int
  BY ControllerAssumption DEF Instants, Never
<1> QED
  BY <1>1 DEF Objects

(* An object of the API is what the time arithmetic takes. *)
LEMMA ObjectIsTimed ==
  ASSUME NEW o \in Objects
  PROVE  Timed(o)
BY ControllerAssumption, SpecFields DEF Objects, Timed, Instants, Never

(* The time a pass starts a Job for is an instant of the model, after the  *)
(* last one its copy has on record.                                        *)
LEMMA ScheduledTimeType ==
  ASSUME NEW o \in Objects, NEW t \in Instants,
         o.spec.schedule \in Schedules, UnmetTimes(o, t) # {}
  PROVE  ScheduledTime(o, t) \in Instants /\ ScheduledTime(o, t) > o.lst
<1>1. Timed(o) /\ t \in Nat
  BY ObjectIsTimed, ControllerAssumption DEF Instants
<1>2. ScheduledTime(o, t) \in Nat /\ ScheduledTime(o, t) <= t /\ ScheduledTime(o, t) > o.lst
  BY <1>1, ScheduledTimeIsLast, ScheduledAfterLastStart
<1> QED
  BY <1>2, ControllerAssumption DEF Instants

(* What is unmet does not depend on Active. *)
LEMMA UnmetTimesOfActive ==
  ASSUME NEW o \in Objects, NEW S \in SUBSET Refs, NEW t
  PROVE  /\ [o EXCEPT !.active = S] \in Objects
         /\ UnmetTimes([o EXCEPT !.active = S], t) = UnmetTimes(o, t)
         /\ \A x : Agrees(o, x) => Agrees([o EXCEPT !.active = S], x)
<1> DEFINE n == [o EXCEPT !.active = S]
<1>1. n \in Objects
  BY DEF Objects
<1>2. /\ n.rv = o.rv /\ n.uid = o.uid /\ n.phase = o.phase /\ n.spec = o.spec
      /\ n.created = o.created /\ n.lst = o.lst
  BY DEF Objects
<1> HIDE DEF n
<1>3. UnmetTimes(n, t) = UnmetTimes(o, t)
  BY <1>2 DEF UnmetTimes, EarliestTime, LastKnownStart
<1>4. ASSUME NEW x, Agrees(o, x) PROVE Agrees(n, x)
  BY <1>2, <1>4 DEF Agrees
<1> QED
  BY <1>1, <1>3, <1>4 DEF n

LEMMA SpendType ==
  ASSUME TypeOK, NEW e \in Events, Spend(e)
  PROVE  spent' \in [Events -> Nat]
BY DEF TypeOK, Spend
-----------------------------------------------------------------------------
(* Writes to the API server.                                               *)

(* What every write leaves in place: types, and the agreement of the       *)
(* copies; versions only grow.                                             *)
ServerMoves ==
  /\ sj' \in Objects /\ sj'.rv >= sj.rv
  /\ log' \in Seq(Objects) /\ log' # <<>>
  /\ seen' \in [Replicas -> 0..Len(log')]
  /\ \A i \in 1..Len(log') : Agrees(log'[i], sj')
  /\ \A v \in Objects : Agrees(v, sj) => Agrees(v, sj')

LEMMA ServerRests ==
  ASSUME Inv, UNCHANGED <<sj, log, seen>>
  PROVE  ServerMoves
<1>1. sj' = sj /\ log' = log /\ seen' = seen
  OBVIOUS
<1>2. sj \in Objects /\ sj.rv >= sj.rv
  BY ObjectNumbers DEF Inv, TypeOK
<1>3. log \in Seq(Objects) /\ log # <<>> /\ seen \in [Replicas -> 0..Len(log)]
  BY DEF Inv, TypeOK
<1>4. \A i \in 1..Len(log) : Agrees(log[i], sj)
  BY DEF Inv, CopiesAgree
<1> QED
  BY <1>1, <1>2, <1>3, <1>4 DEF ServerMoves

LEMMA PublishMoves ==
  ASSUME Inv, NEW o \in Objects, Publish(o), seen' = seen, o = sj \/ o.rv = sj.rv + 1
  PROVE  ServerMoves /\ sj' = o
<1>1. CASE o = sj
  BY <1>1, ServerRests DEF Publish
<1>2. CASE o # sj /\ o.rv = sj.rv + 1
  <2>1. sj' = o /\ log' = Append(log, o)
    BY <1>2 DEF Publish
  <2>2. sj.rv \in Nat /\ \A v \in Objects : v.rv \in Nat
    BY ObjectNumbers DEF Inv, TypeOK
  <2>3. \A v \in Objects : Agrees(v, sj) => Agrees(v, sj')
    BY <1>2, <2>1, <2>2 DEF Agrees
  <2>4. Agrees(o, sj')
    BY <2>1, ObjectNumbers DEF Agrees
  <2>5. log \in Seq(Objects) /\ \A i \in 1..Len(log) : Agrees(log[i], sj)
    BY DEF Inv, TypeOK, CopiesAgree
  <2>6. /\ log' \in Seq(Objects) /\ Len(log') = Len(log) + 1
        /\ \A i \in 1..Len(log) : log'[i] = log[i]
        /\ log'[Len(log) + 1] = o
    BY <2>1, <2>5, AppendProperties
  <2>7. \A i \in 1..Len(log) : log[i] \in Objects
    BY <2>5
  <2>8. ASSUME NEW i \in 1..Len(log') PROVE Agrees(log'[i], sj')
    <3>1. CASE i \in 1..Len(log)
      BY <2>3, <2>5, <2>6, <2>7, <3>1
    <3>2. CASE i = Len(log) + 1
      BY <2>4, <2>6, <3>2
    <3> QED
      BY <2>5, <2>6, <3>1, <3>2
  <2>9. log' # <<>> /\ seen' \in [Replicas -> 0..Len(log')]
    BY <2>5, <2>6 DEF Inv, TypeOK
  <2>10. sj' \in Objects /\ sj'.rv >= sj.rv
    BY <1>2, <2>1, <2>2
  <2> QED
    BY <2>1, <2>3, <2>6, <2>8, <2>9, <2>10 DEF ServerMoves
<1> QED
  BY <1>1, <1>2

(* The status subresource: what is stored of a copy of the stored version  *)
(* is the next version, or the stored one when nothing changes.            *)
LEMMA StoredType ==
  ASSUME Inv, NEW o \in Objects
  PROVE  /\ Stored(o) \in Objects
         /\ Stored(o) = sj \/ Stored(o).rv = sj.rv + 1
         /\ Stored(o).uid = sj.uid
         /\ Stored(o).lst = o.lst
<1>1. sj \in Objects
  BY DEF Inv, TypeOK
<1>2. CASE sj.active = o.active /\ sj.lst = o.lst
  BY <1>1, <1>2 DEF Stored
<1>3. CASE ~(sj.active = o.active /\ sj.lst = o.lst)
  <2>1. Stored(o) = [sj EXCEPT !.active = o.active, !.lst = o.lst, !.rv = @ + 1]
    BY <1>3 DEF Stored
  <2>2. /\ o.active \in SUBSET Refs /\ o.lst \in Instants \cup {Never}
        /\ sj.rv + 1 \in Nat
    BY <1>1 DEF Objects
  <2> QED
    BY <1>1, <2>1, <2>2 DEF Objects
<1> QED
  BY <1>2, <1>3

(* A status write, whether it succeeds, is refused, is lost or loses its   *)
(* reply, moves the server as any write does and LastScheduleTime never    *)
(* back.                                                                   *)
LEMMA StatusCallMoves ==
  ASSUME Inv, NEW o \in Objects, Agrees(o, sj), seen' = seen,
         StatusCallSucceeds(o) \/ StatusCallFails(o)
  PROVE  /\ ServerMoves
         /\ spent' \in [Events -> Nat]
         /\ sj'.uid = sj.uid /\ sj'.lst >= sj.lst
<1>1. spent' \in [Events -> Nat]
  BY SpendType DEF Inv, TypeOK, StatusCallSucceeds, StatusCallFails, Events
<1>2. CASE UNCHANGED <<sj, log>>
  <2>1. sj' = sj /\ sj.lst \in Int
    BY <1>2, ObjectNumbers DEF Inv, TypeOK
  <2> QED
    BY <1>1, <1>2, <2>1, ServerRests
<1>3. CASE Accepts(o) /\ Publish(Stored(o))
  <2>1. ServerMoves /\ sj' = Stored(o)
    BY <1>3, StoredType, PublishMoves
  <2>2. o.lst >= sj.lst
    BY <1>3, ObjectNumbers DEF Accepts, Agrees
  <2> QED
    BY <1>1, <2>1, <2>2, StoredType
<1> QED
  BY <1>2, <1>3 DEF StatusCallSucceeds, StatusCallFails

LEMMA DeleteCallType ==
  ASSUME TypeOK, NEW t \in Instants, DeleteCallSucceeds(t) \/ DeleteCallFails(t)
  PROVE  jobs' \in [Instants -> Jobs] /\ spent' \in [Events -> Nat]
<1>1. Deleted(t) \in [Instants -> Jobs]
  BY DEF TypeOK, Deleted, NoJob, Jobs
<1> QED
  BY <1>1, SpendType DEF TypeOK, DeleteCallSucceeds, DeleteCallFails, Events
-----------------------------------------------------------------------------
(* One step of a pass or of an informer.                                   *)

LEMMA PassMoves ==
  ASSUME Inv, ServerMoves,
         now' \in Instants, jobs' \in [Instants -> Jobs], spent' \in [Events -> Nat],
         NEW r \in Replicas, NEW p \in Passes, NEW c \in Objects,
         pass' = [pass EXCEPT ![r] = p],
         cache' = [cache EXCEPT ![r] = c],
         Agrees(p.held, sj'), Agrees(c, sj'), p.since <= sj'.rv, Decided(p)
  PROVE  Inv'
<1>1. TypeOK'
  BY DEF Inv, TypeOK, ServerMoves
<1>2. (sj.rv > 0)'
  BY DEF Inv, TypeOK, ServerMoves, Objects
<1>3. CopiesAgree'
  <2> SUFFICES ASSUME NEW q \in Replicas
               PROVE  Agrees(cache'[q], sj') /\ Agrees(pass'[q].held, sj')
    BY DEF CopiesAgree, Agrees, ServerMoves
  <2>2. CASE q = r
    BY <2>2 DEF Inv, TypeOK
  <2>3. CASE q # r
    <3>1. cache'[q] = cache[q] /\ pass'[q] = pass[q]
      BY <2>3 DEF Inv, TypeOK
    <3>2. cache[q] \in Objects /\ pass[q].held \in Objects
      BY DEF Inv, TypeOK, Passes
    <3>3. Agrees(cache[q], sj) /\ Agrees(pass[q].held, sj)
      BY DEF Inv, CopiesAgree
    <3> QED
      BY <3>1, <3>2, <3>3 DEF ServerMoves
  <2> QED
    BY <2>2, <2>3
<1>4. PassesDecided'
  <2> SUFFICES ASSUME NEW q \in Replicas
               PROVE  pass'[q].since <= sj'.rv /\ Decided(pass'[q])
    BY DEF PassesDecided, Decided, UnmetTimes, EarliestTime, LastKnownStart, Activations, Location
  <2>1. CASE q = r
    BY <2>1 DEF Inv, TypeOK
  <2>2. CASE q # r
    <3>1. pass'[q] = pass[q] /\ pass[q].since <= sj.rv /\ Decided(pass[q])
      BY <2>2 DEF Inv, TypeOK, PassesDecided
    <3>2. pass[q].since \in Nat /\ sj.rv \in Nat /\ sj'.rv \in Nat /\ sj'.rv >= sj.rv
      BY ObjectNumbers DEF Inv, TypeOK, Passes, ServerMoves
    <3> QED
      BY <3>1, <3>2
  <2> QED
    BY <2>1, <2>2
<1> QED
  BY <1>1, <1>2, <1>3, <1>4 DEF Inv

(* The same for a step that writes to the store what it writes to its own  *)
(* copy, or nothing.                                                       *)
LEMMA MutateMoves ==
  ASSUME Inv, ServerMoves,
         now' \in Instants, jobs' \in [Instants -> Jobs], spent' \in [Events -> Nat],
         NEW r \in Replicas, NEW p \in Passes,
         pass' = [pass EXCEPT ![r] = p],
         cache' = cache \/ cache' = [cache EXCEPT ![r] = p.held],
         Agrees(p.held, sj'), p.since <= sj'.rv, Decided(p)
  PROVE  Inv'
<1>1. p.held \in Objects /\ cache[r] \in Objects
  BY DEF Inv, TypeOK, Passes
<1>2. cache = [cache EXCEPT ![r] = cache[r]]
  BY DEF Inv, TypeOK
<1>3. Agrees(cache[r], sj')
  BY <1>1 DEF Inv, CopiesAgree, ServerMoves
<1>4. \E c \in Objects : cache' = [cache EXCEPT ![r] = c] /\ Agrees(c, sj')
  BY <1>1, <1>2, <1>3
<1> QED
  BY <1>4, PassMoves

(* A step of a pass that is told by its control state alone. *)
LEMMA GoToMoves ==
  ASSUME Inv, ServerMoves,
         now' \in Instants, jobs' \in [Instants -> Jobs], spent' \in [Events -> Nat],
         NEW r \in Replicas, NEW l \in PassStates \ {"replace", "kill", "create"}, GoTo(r, l)
  PROVE  Inv'
<1> DEFINE p == [pass[r] EXCEPT !.pc = l]
<1>1. pass[r] \in Passes /\ pass[r].since <= sj.rv /\ Agrees(pass[r].held, sj)
  BY DEF Inv, TypeOK, PassesDecided, CopiesAgree
<1>2. p \in Passes /\ p.held = pass[r].held /\ p.since = pass[r].since /\ p.pc = l
  BY <1>1 DEF Passes
<1>3. pass' = [pass EXCEPT ![r] = p] /\ cache' = cache
  BY DEF GoTo, Inv, TypeOK
<1>4. Agrees(p.held, sj') /\ p.since <= sj'.rv
  <2>1. p.held \in Objects /\ p.since \in Nat
    BY <1>2 DEF Passes
  <2> QED
    BY <1>1, <1>2, <2>1, ObjectNumbers DEF ServerMoves, Inv, TypeOK
<1>5. Decided(p)
  BY <1>2 DEF Decided
<1> HIDE DEF p
<1> QED
  BY <1>2, <1>3, <1>4, <1>5, MutateMoves
-----------------------------------------------------------------------------
(* The steps of a pass preserve the invariant.                             *)

LEMMA PassFacts ==
  ASSUME Inv, NEW r \in Replicas
  PROVE  /\ pass[r] \in Passes /\ pass[r].held \in Objects /\ cache[r] \in Objects
         /\ pass[r].js \in [Instants -> Jobs] /\ pass[r].at \in Instants
         /\ pass[r].queue \in SUBSET Refs /\ pass[r].victim \in Refs
         /\ pass[r].since \in Nat /\ pass[r].since <= sj.rv
         /\ Agrees(pass[r].held, sj) /\ Agrees(cache[r], sj)
         /\ Decided(pass[r])
         /\ sj \in Objects /\ now \in Instants
         /\ jobs \in [Instants -> Jobs] /\ spent \in [Events -> Nat]
<1>1. pass[r] \in Passes
  BY DEF Inv, TypeOK
<1> QED
  BY <1>1 DEF Inv, TypeOK, CopiesAgree, PassesDecided, Passes

LEMMA RestingFits ==
  ASSUME Inv, ServerMoves, NEW l \in {"idle", "down"}
  PROVE  LET p == [Resting EXCEPT !.pc = l]
         IN  /\ p \in Passes /\ p.held = NoObject
             /\ Agrees(p.held, sj') /\ p.since <= sj'.rv /\ Decided(p)
<1> DEFINE p == [Resting EXCEPT !.pc = l]
<1>1. p \in Passes /\ p.pc = l /\ p.held = NoObject /\ p.since = 0
  BY RestingType DEF Passes, PassStates
<1>2. sj'.rv \in Nat /\ sj'.rv > 0
  BY ObjectNumbers DEF Inv, TypeOK, ServerMoves
<1>3. Agrees(NoObject, sj')
  BY <1>2, NoObjectType DEF Agrees
<1> QED
  BY <1>1, <1>2, <1>3 DEF Decided

LEMMA IdleIsResting == [Resting EXCEPT !.pc = "idle"] = Resting
BY RestingType DEF Passes

LEMMA ListJobsPreserves ==
  ASSUME Inv, NEW r \in Replicas, ListJobs(r)
  PROVE  Inv'
<1> DEFINE p == [pass[r] EXCEPT !.pc = "listed", !.js = jobs, !.since = sj.rv]
<1>1. ServerMoves /\ sj' = sj
  BY ServerRests DEF ListJobs
<1>2. p \in Passes /\ p.held = pass[r].held /\ p.since = sj.rv /\ p.pc = "listed"
  BY PassFacts, ObjectNumbers DEF Passes, PassStates
<1>3. pass' = [pass EXCEPT ![r] = p] /\ cache' = cache
  BY DEF ListJobs, Inv, TypeOK
<1>4. Agrees(p.held, sj') /\ p.since <= sj'.rv /\ Decided(p)
  BY <1>1, <1>2, PassFacts, ObjectNumbers DEF Decided
<1>5. now' \in Instants /\ jobs' \in [Instants -> Jobs] /\ spent' \in [Events -> Nat]
  BY PassFacts DEF ListJobs
<1> HIDE DEF p
<1> QED
  BY <1>1, <1>2, <1>3, <1>4, <1>5, MutateMoves

LEMMA ListTZCronJobsPreserves ==
  ASSUME Inv, NEW r \in Replicas, ListTZCronJobs(r)
  PROVE  Inv'
<1> DEFINE p == [pass[r] EXCEPT !.pc = "sync", !.held = cache[r], !.shared = TRUE, !.at = now]
<1>1. ServerMoves /\ sj' = sj
  BY ServerRests DEF ListTZCronJobs
<1>2. now' \in Instants /\ jobs' \in [Instants -> Jobs] /\ spent' \in [Events -> Nat] /\ cache' = cache
  BY PassFacts DEF ListTZCronJobs
<1>3. CASE cache[r].phase = "gone"
  <2>1. pass' = [pass EXCEPT ![r] = Resting]
    BY <1>3 DEF ListTZCronJobs
  <2> QED
    BY <1>1, <1>2, <2>1, RestingFits, IdleIsResting, MutateMoves
<1>4. CASE cache[r].phase # "gone"
  <2>1. pass' = [pass EXCEPT ![r] = p]
    BY <1>4 DEF ListTZCronJobs, Inv, TypeOK
  <2>2. p \in Passes /\ p.held = cache[r] /\ p.since = pass[r].since /\ p.pc = "sync"
    BY PassFacts DEF Passes, PassStates
  <2>3. Agrees(p.held, sj') /\ p.since <= sj'.rv /\ Decided(p)
    BY <1>1, <2>2, PassFacts DEF Decided
  <2> HIDE DEF p
  <2> QED
    BY <1>1, <1>2, <2>1, <2>2, <2>3, MutateMoves
<1> QED
  BY <1>3, <1>4

(* The first status write is the fence: a pass goes past it with the       *)
(* object the server holds, of a version no older than its list of Jobs.   *)
(* The object whose status a pass writes first agrees with the server as   *)
(* the one in the pass's hands does.                                       *)
LEMMA PrunedAgrees ==
  ASSUME Inv, NEW r \in Replicas
  PROVE  /\ Pruned(pass[r].held, pass[r].js) \in Objects
         /\ Agrees(Pruned(pass[r].held, pass[r].js), sj)
<1> DEFINE want == Pruned(pass[r].held, pass[r].js)
           S == {a \in pass[r].held.active :
                   /\ a[1] \in Children(pass[r].js, pass[r].held)
                   /\ pass[r].js[a[1]].uid = a[2]
                   /\ pass[r].js[a[1]].state = "Running"}
<1>1. S \in SUBSET Refs
  BY PassFacts DEF Objects
<1>2. want = [pass[r].held EXCEPT !.active = S]
  BY PassFacts DEF Pruned, Objects
<1> HIDE DEF S, want
<1>3. want \in Objects /\ Agrees(want, sj)
  BY <1>1, <1>2, PassFacts, UnmetTimesOfActive
<1> QED
  BY <1>3 DEF want

LEMMA SyncStatusPreserves ==
  ASSUME Inv, NEW r \in Replicas, SyncStatus(r)
  PROVE  Inv'
<1> DEFINE want == Pruned(pass[r].held, pass[r].js)
           next == Stored(want)
           f == Fenced(r, next)
           g == Refused(r, want)
<1>1. want \in Objects /\ Agrees(want, sj)
  BY PrunedAgrees
<1> HIDE DEF want
<1>2. now' \in Instants /\ jobs' \in [Instants -> Jobs]
  BY PassFacts DEF SyncStatus
<1>3. CASE StatusCallSucceeds(want) /\ Mutate(r, f)
  <2>1. ServerMoves /\ spent' \in [Events -> Nat]
    BY <1>1, <1>3, StatusCallMoves DEF SyncStatus
  <2>2. next \in Objects /\ sj' = next
    BY <1>1, <1>3, StoredType DEF StatusCallSucceeds, Publish
  <2>3. sj'.rv >= sj.rv
    BY <2>1 DEF ServerMoves
  <2> HIDE DEF next
  <2>4. f.held = next /\ f.since = pass[r].since /\ f.at = pass[r].at
    BY PassFacts DEF Fenced, Passes
  <2>5. /\ f.pc \in {"cleanup", "replace", "create"}
        /\ f.pc # "cleanup" => MayStart(next, pass[r].at)
    BY PassFacts DEF Fenced, Passes
  <2>6. f \in Passes
    <3>1. next.active \in SUBSET Refs
      BY <2>2 DEF Objects
    <3>2. PICK q \in SUBSET Refs, l \in PassStates :
            f = [pass[r] EXCEPT !.held = next, !.queue = q, !.pc = l]
      BY <3>1 DEF Fenced, PassStates
    <3> HIDE DEF f
    <3> QED
      BY <2>2, <3>2, PassFacts DEF Passes
  <2>7. Agrees(f.held, sj') /\ f.since <= sj'.rv
    BY <2>2, <2>3, <2>4, PassFacts, ObjectNumbers DEF Agrees
  <2>8. Decided(f)
    <3>1. next.rv >= pass[r].since
      BY <2>2, <2>3, PassFacts, ObjectNumbers
    <3> QED
      BY <2>4, <2>5, <3>1 DEF Decided, MayStart, Determinable
  <2>9. pass' = [pass EXCEPT ![r] = f] /\ (cache' = cache \/ cache' = [cache EXCEPT ![r] = f.held])
    BY <1>3 DEF Mutate
  <2> HIDE DEF f
  <2> QED
    BY <1>2, <2>1, <2>6, <2>7, <2>8, <2>9, MutateMoves
<1>4. CASE StatusCallFails(want) /\ Mutate(r, g)
  <2>1. ServerMoves /\ spent' \in [Events -> Nat]
    BY <1>1, <1>4, StatusCallMoves DEF SyncStatus
  <2>2. g \in Passes /\ g.held = want /\ g.since = pass[r].since /\ g.pc = "cleanup"
    BY <1>1, PassFacts DEF Refused, Passes, PassStates
  <2>3. Agrees(g.held, sj') /\ g.since <= sj'.rv
    BY <1>1, <2>1, <2>2, PassFacts, ObjectNumbers DEF ServerMoves
  <2>4. Decided(g)
    BY <2>2 DEF Decided
  <2>5. pass' = [pass EXCEPT ![r] = g] /\ (cache' = cache \/ cache' = [cache EXCEPT ![r] = g.held])
    BY <1>4 DEF Mutate
  <2> HIDE DEF g
  <2> QED
    BY <1>2, <2>1, <2>2, <2>3, <2>4, <2>5, MutateMoves
<1> QED
  BY <1>3, <1>4 DEF SyncStatus, want, next, f, g

LEMMA GetVictimPreserves ==
  ASSUME Inv, NEW r \in Replicas, GetVictim(r)
  PROVE  Inv'
<1>1. ServerMoves /\ sj' = sj
  BY ServerRests DEF GetVictim
<1>2. now' \in Instants /\ jobs' \in [Instants -> Jobs] /\ spent' \in [Events -> Nat]
  BY PassFacts, SpendType DEF GetVictim, Events, Inv
<1>3. PICK v \in pass[r].queue :
        \/ /\ pass' = [pass EXCEPT ![r].victim = RefTo(jobs, v[1]),
                                   ![r].queue = @ \ {v},
                                   ![r].pc = "kill"]
           /\ UNCHANGED <<cache, spent>>
        \/ GoTo(r, "cleanup")
  BY DEF GetVictim
<1>4. CASE GoTo(r, "cleanup")
  BY <1>1, <1>2, <1>4, GoToMoves DEF PassStates
<1>5. CASE /\ pass' = [pass EXCEPT ![r].victim = RefTo(jobs, v[1]),
                                  ![r].queue = @ \ {v},
                                  ![r].pc = "kill"]
           /\ UNCHANGED <<cache, spent>>
  <2> DEFINE p == [pass[r] EXCEPT !.victim = RefTo(jobs, v[1]), !.queue = @ \ {v}, !.pc = "kill"]
  <2>1. pass' = [pass EXCEPT ![r] = p] /\ cache' = cache
    BY <1>5 DEF Inv, TypeOK
  <2>2. RefTo(jobs, v[1]) \in Refs
    <3>1. v \in Refs
      BY PassFacts
    <3>2. v[1] \in Instants /\ jobs[v[1]] \in Jobs
      BY <3>1, PassFacts DEF Refs
    <3> QED
      BY <3>2 DEF RefTo, Refs, Jobs
  <2>3. /\ p \in Passes /\ p.held = pass[r].held /\ p.since = pass[r].since
        /\ p.at = pass[r].at /\ p.pc = "kill"
    BY <2>2, PassFacts DEF Passes, PassStates
  <2>4. pass[r].pc = "replace"
    BY DEF GetVictim
  <2>5. Agrees(p.held, sj') /\ p.since <= sj'.rv /\ Decided(p)
    BY <1>1, <2>3, <2>4, PassFacts DEF Decided
  <2> HIDE DEF p
  <2> QED
    BY <1>1, <1>2, <2>1, <2>3, <2>5, MutateMoves
<1> QED
  BY <1>3, <1>4, <1>5

LEMMA KillVictimPreserves ==
  ASSUME Inv, NEW r \in Replicas, KillVictim(r)
  PROVE  Inv'
<1> DEFINE v == pass[r].victim
           l == IF pass[r].queue = {} THEN "create" ELSE "replace"
           S == pass[r].held.active \ {v}
           p == [pass[r] EXCEPT !.held.active = @ \ {v}, !.pc = l]
<1>1. ServerMoves /\ sj' = sj
  BY ServerRests DEF KillVictim
<1>2. v \in Refs /\ v[1] \in Instants
  BY PassFacts DEF Refs
<1>3. now' \in Instants
  BY PassFacts DEF KillVictim
<1>4. jobs' \in [Instants -> Jobs] /\ spent' \in [Events -> Nat]
  BY <1>2, DeleteCallType DEF Inv, KillVictim
<1>5. CASE Mutate(r, p)
  <2>1. S \in SUBSET Refs
    BY PassFacts DEF Objects
  <2>2. /\ p \in Passes /\ p.held = [pass[r].held EXCEPT !.active = S]
        /\ p.since = pass[r].since /\ p.at = pass[r].at /\ p.pc = l
    <3>1. [pass[r].held EXCEPT !.active = S] \in Objects
      BY <2>1, PassFacts, UnmetTimesOfActive
    <3>2. p = [pass[r] EXCEPT !.held = [pass[r].held EXCEPT !.active = S], !.pc = l]
      BY PassFacts DEF Passes, Objects
    <3> HIDE DEF p, S
    <3> QED
      BY <3>1, <3>2, PassFacts DEF Passes, PassStates
  <2>3. /\ UnmetTimes(p.held, p.at) = UnmetTimes(pass[r].held, pass[r].at)
        /\ Agrees(p.held, sj')
    <3> HIDE DEF p, S
    <3> DEFINE n == [pass[r].held EXCEPT !.active = S]
    <3>1. /\ UnmetTimes(n, pass[r].at) = UnmetTimes(pass[r].held, pass[r].at)
          /\ Agrees(n, sj)
      BY <2>1, PassFacts, UnmetTimesOfActive
    <3> HIDE DEF n
    <3> QED
      BY <1>1, <2>2, <3>1 DEF n
  <2>4. /\ p.held.rv = pass[r].held.rv /\ p.held.phase = pass[r].held.phase
        /\ p.held.spec = pass[r].held.spec
    <3> HIDE DEF p, S
    <3> QED
      BY <2>2, PassFacts DEF Objects
  <2>5. pass[r].pc = "kill"
    BY DEF KillVictim
  <2> HIDE DEF p, S
  <2>6. p.since <= sj'.rv /\ Decided(p)
    BY <1>1, <2>2, <2>3, <2>4, <2>5, PassFacts DEF Decided
  <2>7. pass' = [pass EXCEPT ![r] = p] /\ (cache' = cache \/ cache' = [cache EXCEPT ![r] = p.held])
    BY <1>5 DEF Mutate
  <2> QED
    BY <1>1, <1>3, <1>4, <2>2, <2>3, <2>6, <2>7, MutateMoves
<1>6. CASE GoTo(r, "cleanup")
  BY <1>1, <1>3, <1>4, <1>6, GoToMoves DEF PassStates
<1> QED
  BY <1>5, <1>6 DEF KillVictim

(* A start is entered in the pass's copy after the last one on record, so  *)
(* that the copy still agrees with the server.                             *)
LEMMA CreateJobPreserves ==
  ASSUME Inv, NEW r \in Replicas, CreateJob(r)
  PROVE  Inv'
<1> DEFINE o == pass[r].held
           t == ScheduledTime(o, pass[r].at)
           ref == <<t, jobs[t].uid + 1>>
           n == Started(o, t, ref)
           p == [pass[r] EXCEPT !.held = n, !.pc = "record"]
<1>1. ServerMoves /\ sj' = sj
  BY ServerRests DEF CreateJob
<1>2. t \in Instants /\ t > o.lst
  <2>1. pass[r].pc = "create"
    BY DEF CreateJob
  <2>2. o.spec.schedule \in Schedules /\ UnmetTimes(o, pass[r].at) # {}
    BY <2>1, PassFacts DEF Decided
  <2> QED
    BY <2>2, PassFacts, ScheduledTimeType
<1> HIDE DEF t
<1>3. now' \in Instants /\ spent' \in [Events -> Nat]
  BY PassFacts, SpendType DEF CreateJob, Events, Inv
<1>4. jobs' \in [Instants -> Jobs]
  <2>1. Created(t, o) \in [Instants -> Jobs]
    <3>1. jobs[t].uid + 1 \in Nat /\ o.uid \in Nat /\ now \in Nat
      <4>1. jobs[t] \in Jobs /\ o \in Objects /\ now \in Instants
        BY <1>2, PassFacts
      <4>2. jobs[t].uid \in Nat
        BY <4>1 DEF Jobs
      <4>3. now \in Nat
        BY <4>1, ControllerAssumption DEF Instants
      <4> QED
        BY <4>1, <4>2, <4>3, ObjectNumbers
    <3> QED
      BY <3>1, PassFacts DEF Created, Jobs
  <2> QED
    BY <2>1, PassFacts DEF CreateJob, t
<1>5. CASE Mutate(r, p)
  <2>1. ref \in Refs
    BY <1>2, PassFacts DEF Refs, Jobs
  <2> HIDE DEF ref
  <2>2. /\ n \in Objects /\ n.rv = o.rv /\ n.uid = o.uid /\ n.phase = o.phase
        /\ n.spec = o.spec /\ n.created = o.created /\ n.lst = t
    BY <1>2, <2>1, PassFacts DEF Started, Objects
  <2>3. Agrees(n, sj')
    <3>1. n.lst \in Int /\ o.lst \in Int /\ sj.lst \in Int
      BY <2>2, PassFacts, ObjectNumbers
    <3>2. n.lst >= o.lst
      BY <1>2, <2>2, <3>1
    <3> QED
      BY <1>1, <2>2, <3>1, <3>2, PassFacts DEF Agrees
  <2> HIDE DEF n
  <2>4. /\ p \in Passes /\ p.held = n /\ p.since = pass[r].since /\ p.pc = "record"
    BY <2>2, PassFacts DEF Passes, PassStates
  <2>5. p.since <= sj'.rv /\ Decided(p)
    BY <1>1, <2>4, PassFacts DEF Decided
  <2>6. pass' = [pass EXCEPT ![r] = p] /\ (cache' = cache \/ cache' = [cache EXCEPT ![r] = p.held])
    BY <1>5 DEF Mutate
  <2> HIDE DEF p
  <2> QED
    BY <1>1, <1>3, <1>4, <2>3, <2>4, <2>5, <2>6, MutateMoves
<1>6. CASE GoTo(r, "cleanup")
  BY <1>1, <1>3, <1>4, <1>6, GoToMoves DEF PassStates
<1> QED
  BY <1>5, <1>6 DEF CreateJob, t

LEMMA RecordStartPreserves ==
  ASSUME Inv, NEW r \in Replicas, RecordStart(r)
  PROVE  Inv'
<1>1. ServerMoves /\ spent' \in [Events -> Nat]
  BY PassFacts, StatusCallMoves DEF RecordStart
<1>2. now' \in Instants /\ jobs' \in [Instants -> Jobs] /\ GoTo(r, "cleanup")
  BY PassFacts DEF RecordStart
<1> QED
  BY <1>1, <1>2, GoToMoves DEF PassStates

LEMMA BeginCleanupPreserves ==
  ASSUME Inv, NEW r \in Replicas, BeginCleanup(r)
  PROVE  Inv'
<1> DEFINE Q == ToSweep(pass[r].held, pass[r].js)
           p == [pass[r] EXCEPT !.pc = "sweep", !.queue = Q]
<1>1. ServerMoves /\ sj' = sj
  BY ServerRests DEF BeginCleanup
<1>2. now' \in Instants /\ jobs' \in [Instants -> Jobs] /\ spent' \in [Events -> Nat] /\ cache' = cache
  BY PassFacts DEF BeginCleanup
<1>3. CASE pass' = [pass EXCEPT ![r] = Resting]
  BY <1>1, <1>2, <1>3, RestingFits, IdleIsResting, MutateMoves
<1>4. CASE pass' = [pass EXCEPT ![r] = p]
  <2>1. Q \in SUBSET Refs
    <3>1. \A how : Finished(pass[r].js, pass[r].held, how) \subseteq Instants
      BY DEF Finished, Children
    <3>2. \A X \in SUBSET Instants : \A L : Excess(pass[r].js, X, L) \subseteq Instants
      BY DEF Excess, OldestOf
    <3>3. \A x \in Instants : RefTo(pass[r].js, x) \in Refs
      BY PassFacts DEF RefTo, Refs, Jobs
    <3> QED
      BY <3>1, <3>2, <3>3 DEF ToSweep
  <2> HIDE DEF Q
  <2>2. /\ p \in Passes /\ p.held = pass[r].held /\ p.since = pass[r].since /\ p.pc = "sweep"
    BY <2>1, PassFacts DEF Passes, PassStates
  <2>3. Agrees(p.held, sj') /\ p.since <= sj'.rv /\ Decided(p)
    BY <1>1, <2>2, PassFacts DEF Decided
  <2> HIDE DEF p
  <2> QED
    BY <1>1, <1>2, <1>4, <2>2, <2>3, MutateMoves
<1> QED
  BY <1>3, <1>4 DEF BeginCleanup, Inv, TypeOK

LEMMA SweepPreserves ==
  ASSUME Inv, NEW r \in Replicas, Sweep(r)
  PROVE  Inv'
<1>1. ServerMoves /\ sj' = sj /\ pass[r].pc = "sweep"
  BY ServerRests DEF Sweep
<1>2. now' \in Instants
  BY PassFacts DEF Sweep
<1>3. PICK v \in pass[r].queue :
        \/ /\ DeleteCallSucceeds(v[1])
           /\ Mutate(r, [pass[r] EXCEPT !.held.active = @ \ {v}, !.queue = @ \ {v}])
        \/ /\ DeleteCallFails(v[1])
           /\ pass' = [pass EXCEPT ![r].queue = @ \ {v}]
           /\ UNCHANGED cache
  BY DEF Sweep
<1>4. v \in Refs /\ v[1] \in Instants
  BY PassFacts DEF Refs
<1>5. jobs' \in [Instants -> Jobs] /\ spent' \in [Events -> Nat]
  BY <1>3, <1>4, DeleteCallType DEF Inv
<1> DEFINE S == pass[r].held.active \ {v}
           Q == pass[r].queue \ {v}
           n == [pass[r].held EXCEPT !.active = S]
           p == [pass[r] EXCEPT !.held = n, !.queue = Q]
           q == [pass[r] EXCEPT !.queue = Q]
<1>6. S \in SUBSET Refs /\ Q \in SUBSET Refs
  BY PassFacts DEF Objects
<1>7. n \in Objects /\ Agrees(n, sj)
  <2> HIDE DEF S
  <2> QED
    BY <1>6, PassFacts, UnmetTimesOfActive
<1>8. CASE Mutate(r, [pass[r] EXCEPT !.held.active = @ \ {v}, !.queue = @ \ {v}])
  <2>1. p = [pass[r] EXCEPT !.held.active = @ \ {v}, !.queue = @ \ {v}]
    BY PassFacts DEF Passes, Objects
  <2> HIDE DEF n, Q
  <2>2. p \in Passes /\ p.held = n /\ p.since = pass[r].since /\ p.pc = "sweep"
    BY <1>1, <1>6, <1>7, PassFacts DEF Passes
  <2>3. Agrees(p.held, sj') /\ p.since <= sj'.rv /\ Decided(p)
    BY <1>1, <1>7, <2>2, PassFacts DEF Decided
  <2>4. pass' = [pass EXCEPT ![r] = p] /\ (cache' = cache \/ cache' = [cache EXCEPT ![r] = p.held])
    BY <1>8, <2>1 DEF Mutate
  <2> HIDE DEF p
  <2> QED
    BY <1>1, <1>2, <1>5, <2>2, <2>3, <2>4, MutateMoves
<1>9. CASE pass' = [pass EXCEPT ![r].queue = @ \ {v}] /\ UNCHANGED cache
  <2>1. pass' = [pass EXCEPT ![r] = q] /\ cache' = cache
    BY <1>9 DEF Inv, TypeOK
  <2> HIDE DEF Q
  <2>2. q \in Passes /\ q.held = pass[r].held /\ q.since = pass[r].since /\ q.pc = "sweep"
    BY <1>1, <1>6, PassFacts DEF Passes
  <2>3. Agrees(q.held, sj') /\ q.since <= sj'.rv /\ Decided(q)
    BY <1>1, <2>2, PassFacts DEF Decided
  <2> HIDE DEF q
  <2> QED
    BY <1>1, <1>2, <1>5, <2>1, <2>2, <2>3, MutateMoves
<1> QED
  BY <1>3, <1>8, <1>9

LEMMA EndCleanupPreserves ==
  ASSUME Inv, NEW r \in Replicas, EndCleanup(r)
  PROVE  Inv'
<1>1. ServerMoves /\ spent' \in [Events -> Nat]
  BY PassFacts, StatusCallMoves DEF EndCleanup
<1>2. now' \in Instants /\ jobs' \in [Instants -> Jobs] /\ cache' = cache
  BY PassFacts DEF EndCleanup
<1>3. pass' = [pass EXCEPT ![r] = Resting]
  BY DEF EndCleanup
<1> QED
  BY <1>1, <1>2, <1>3, RestingFits, IdleIsResting, MutateMoves
-----------------------------------------------------------------------------
(* The informer, the process and the rest of the cluster preserve it too.  *)

(* Whether it lists or watches, an informer receives a version there was.  *)
LEMMA InformerReceives ==
  ASSUME Inv, NEW r \in Replicas, List(r) \/ Deliver(r) \/ Relist(r)
  PROVE  /\ spent' \in [Events -> Nat]
         /\ \E v \in 1..Len(log) : Receive(r, v)
<1>1. /\ Len(log) \in Nat /\ seen[r] \in Nat /\ seen[r] <= Len(log)
      /\ spent \in [Events -> Nat] /\ TypeOK /\ "oldlist" \in Events
  BY DEF Inv, TypeOK, Events
<1>2. CASE List(r)
  BY <1>1, <1>2 DEF List
<1>3. CASE Deliver(r)
  BY <1>1, <1>3 DEF Deliver
<1>4. CASE Relist(r)
  <2>1. seen[r] \in 1..Len(log) /\ \A v \in 1..(seen[r] - 1) : v \in 1..Len(log)
    BY <1>1, <1>4 DEF Relist
  <2> QED
    BY <1>1, <1>4, <2>1, SpendType DEF Relist
<1> QED
  BY <1>2, <1>3, <1>4

LEMMA LoggedAgrees ==
  ASSUME Inv, NEW v \in 1..Len(log)
  PROVE  log[v] \in Objects /\ Agrees(log[v], sj)
BY DEF Inv, TypeOK, CopiesAgree

(* The store takes an object that agrees with the server; the pass keeps   *)
(* its own copy.                                                           *)
LEMMA StoreMoves ==
  ASSUME Inv, ServerMoves, sj' = sj,
         now' \in Instants, jobs' \in [Instants -> Jobs], spent' \in [Events -> Nat],
         NEW r \in Replicas, NEW c \in Objects, Agrees(c, sj),
         pass' = [pass EXCEPT ![r].shared = FALSE],
         cache' = [cache EXCEPT ![r] = c]
  PROVE  Inv'
<1> DEFINE p == [pass[r] EXCEPT !.shared = FALSE]
<1>1. pass' = [pass EXCEPT ![r] = p]
  BY DEF Inv, TypeOK
<1>2. /\ p \in Passes /\ p.held = pass[r].held /\ p.since = pass[r].since
      /\ p.at = pass[r].at /\ p.pc = pass[r].pc
  BY PassFacts DEF Passes
<1>3. Agrees(p.held, sj') /\ p.since <= sj'.rv /\ Decided(p)
  BY <1>2, PassFacts DEF Decided
<1> HIDE DEF p
<1> QED
  BY <1>1, <1>2, <1>3, PassMoves

LEMMA ReceivePreserves ==
  ASSUME Inv, NEW r \in Replicas, List(r) \/ Deliver(r) \/ Relist(r)
  PROVE  Inv'
<1>1. spent' \in [Events -> Nat] /\ \E v \in 1..Len(log) : Receive(r, v)
  BY InformerReceives
<1>2. PICK v \in 1..Len(log) : Receive(r, v)
  BY <1>1
<1>3. sj' = sj /\ log' = log /\ seen' = [seen EXCEPT ![r] = v]
  BY <1>2 DEF Receive
<1>4. log \in Seq(Objects) /\ log # <<>> /\ seen \in [Replicas -> 0..Len(log)] /\ Len(log) \in Nat
  BY DEF Inv, TypeOK
<1>5. ServerMoves
  <2>1. seen' \in [Replicas -> 0..Len(log')]
    BY <1>3, <1>4
  <2>2. sj'.rv >= sj.rv /\ sj' \in Objects
    BY <1>3, PassFacts, ObjectNumbers
  <2>3. \A i \in 1..Len(log') : Agrees(log'[i], sj')
    BY <1>3 DEF Inv, CopiesAgree
  <2> QED
    BY <1>3, <1>4, <2>1, <2>2, <2>3 DEF ServerMoves
<1>6. /\ pass' = [pass EXCEPT ![r].shared = FALSE]
      /\ cache' = [cache EXCEPT ![r] = log[v]]
      /\ now' \in Instants /\ jobs' \in [Instants -> Jobs]
  BY <1>2, PassFacts DEF Receive
<1>7. log[v] \in Objects /\ Agrees(log[v], sj)
  BY LoggedAgrees
<1> QED
  BY <1>1, <1>3, <1>5, <1>6, <1>7, StoreMoves

LEMMA CrashPreserves ==
  ASSUME Inv, NEW r \in Replicas, Crash(r)
  PROVE  Inv'
<1>1. ServerMoves
  <2>1. sj' = sj /\ log' = log /\ seen' = [seen EXCEPT ![r] = 0]
    BY DEF Crash
  <2>2. log \in Seq(Objects) /\ log # <<>> /\ seen' \in [Replicas -> 0..Len(log)]
    BY <2>1 DEF Inv, TypeOK
  <2>3. sj'.rv >= sj.rv /\ sj' \in Objects
    BY <2>1, PassFacts, ObjectNumbers
  <2>4. \A i \in 1..Len(log') : Agrees(log'[i], sj')
    BY <2>1 DEF Inv, CopiesAgree
  <2> QED
    BY <2>1, <2>2, <2>3, <2>4 DEF ServerMoves
<1>2. spent' \in [Events -> Nat]
  BY SpendType DEF Crash, Events, Inv
<1>3. /\ pass' = [pass EXCEPT ![r] = [Resting EXCEPT !.pc = "down"]]
      /\ cache' = [cache EXCEPT ![r] = NoObject]
      /\ now' \in Instants /\ jobs' \in [Instants -> Jobs]
  BY PassFacts DEF Crash
<1>4. [Resting EXCEPT !.pc = "down"].held = NoObject
  BY <1>1, RestingFits
<1> QED
  BY <1>1, <1>2, <1>3, <1>4, RestingFits, MutateMoves

LEMMA StartPreserves ==
  ASSUME Inv, NEW r \in Replicas, Start(r)
  PROVE  Inv'
<1>1. ServerMoves
  BY ServerRests DEF Start
<1>2. /\ pass' = [pass EXCEPT ![r] = Resting] /\ cache' = cache
      /\ now' \in Instants /\ jobs' \in [Instants -> Jobs] /\ spent' \in [Events -> Nat]
  BY PassFacts DEF Start
<1> QED
  BY <1>1, <1>2, RestingFits, IdleIsResting, MutateMoves

(* A step that leaves stores and passes alone. *)
LEMMA ClusterMoves ==
  ASSUME Inv, ServerMoves, UNCHANGED <<cache, pass>>,
         now' \in Instants, jobs' \in [Instants -> Jobs], spent' \in [Events -> Nat]
  PROVE  Inv'
<1>1. TypeOK'
  BY DEF Inv, TypeOK, ServerMoves
<1>2. (sj.rv > 0)'
  BY ObjectNumbers DEF Inv, TypeOK, ServerMoves
<1>3. CopiesAgree'
  <2> SUFFICES ASSUME NEW q \in Replicas
               PROVE  Agrees(cache'[q], sj') /\ Agrees(pass'[q].held, sj')
    BY DEF CopiesAgree, Agrees, ServerMoves
  <2>1. cache'[q] = cache[q] /\ pass'[q] = pass[q]
    OBVIOUS
  <2> QED
    BY <2>1, PassFacts DEF ServerMoves
<1>4. PassesDecided'
  <2> SUFFICES ASSUME NEW q \in Replicas
               PROVE  pass'[q].since <= sj'.rv /\ Decided(pass'[q])
    BY DEF PassesDecided, Decided, UnmetTimes, EarliestTime, LastKnownStart, Activations, Location
  <2>1. pass'[q] = pass[q] /\ pass[q].since <= sj.rv /\ Decided(pass[q])
    BY PassFacts
  <2>2. sj.rv \in Nat /\ sj'.rv \in Nat /\ sj'.rv >= sj.rv /\ pass[q].since \in Nat
    BY PassFacts, ObjectNumbers DEF ServerMoves
  <2> QED
    BY <2>1, <2>2
<1> QED
  BY <1>1, <1>2, <1>3, <1>4 DEF Inv

LEMMA NewObjectType ==
  ASSUME Inv, NEW s \in Specs
  PROVE  NewObject(s, sj.rv + 1, sj.uid + 1) \in Objects
<1>1. sj.rv + 1 \in Nat /\ sj.uid + 1 \in Nat /\ now \in Nat
  BY ObjectNumbers, ControllerAssumption DEF Inv, TypeOK, Instants
<1> QED
  BY <1>1 DEF NewObject, Objects

LEMMA ClusterPreserves ==
  ASSUME Inv,
         \/ \E t \in Instants : Finish(t) \/ Reap(t) \/ Orphan(t) \/ Collect(t)
         \/ Tick \/ Edit \/ Delete \/ Finalize \/ Recreate
  PROVE  Inv'
<1>0. /\ now \in Instants /\ sj \in Objects /\ sj.rv + 1 \in Nat
      /\ jobs \in [Instants -> Jobs] /\ spent \in [Events -> Nat]
  BY ObjectNumbers DEF Inv, TypeOK
<1>1. ASSUME NEW t \in Instants, Finish(t) PROVE Inv'
  <2>1. jobs' \in [Instants -> Jobs]
    BY <1>0, <1>1, ControllerAssumption DEF Finish, Jobs
  <2> QED
    BY <1>0, <1>1, <2>1, ServerRests, ClusterMoves DEF Finish
<1>2. ASSUME NEW t \in Instants, Reap(t) PROVE Inv'
  <2>1. jobs' \in [Instants -> Jobs]
    BY <1>0, <1>2 DEF Reap, Deleted, NoJob, Jobs
  <2>2. spent' \in [Events -> Nat]
    BY <1>2, SpendType DEF Reap, Events, Inv
  <2> QED
    BY <1>0, <1>2, <2>1, <2>2, ServerRests, ClusterMoves DEF Reap
<1>3. ASSUME NEW t \in Instants, Orphan(t) PROVE Inv'
  <2>1. jobs' \in [Instants -> Jobs]
    BY <1>0, <1>3 DEF Orphan, Jobs
  <2> QED
    BY <1>0, <1>3, <2>1, ServerRests, ClusterMoves DEF Orphan
<1>4. ASSUME NEW t \in Instants, Collect(t) PROVE Inv'
  <2>1. jobs' \in [Instants -> Jobs]
    BY <1>0, <1>4 DEF Collect, Deleted, NoJob, Jobs
  <2> QED
    BY <1>0, <1>4, <2>1, ServerRests, ClusterMoves DEF Collect
<1>5. CASE Tick
  <2>1. now' \in Instants
    BY <1>0, <1>5, ControllerAssumption DEF Tick, Instants
  <2> QED
    BY <1>0, <1>5, <2>1, ServerRests, ClusterMoves DEF Tick
<1>6. CASE Edit
  <2>1. PICK s \in Specs : Publish([sj EXCEPT !.spec = s, !.rv = @ + 1])
    BY <1>6 DEF Edit
  <2> DEFINE o == [sj EXCEPT !.spec = s, !.rv = @ + 1]
  <2>2. o \in Objects /\ o.rv = sj.rv + 1
    BY <1>0 DEF Objects
  <2>3. ServerMoves
    BY <1>6, <2>1, <2>2, PublishMoves DEF Edit
  <2>4. spent' \in [Events -> Nat]
    BY <1>6, SpendType DEF Edit, Events, Inv
  <2> QED
    BY <1>0, <1>6, <2>3, <2>4, ClusterMoves DEF Edit
<1>7. CASE Delete
  <2>1. PICK ph \in {"orphaning", "gone"} : Publish([sj EXCEPT !.phase = ph, !.rv = @ + 1])
    BY <1>7 DEF Delete
  <2> DEFINE o == [sj EXCEPT !.phase = ph, !.rv = @ + 1]
  <2>2. o \in Objects /\ o.rv = sj.rv + 1
    BY <1>0 DEF Objects
  <2>3. ServerMoves
    BY <1>7, <2>1, <2>2, PublishMoves DEF Delete
  <2>4. spent' \in [Events -> Nat]
    BY <1>7, SpendType DEF Delete, Events, Inv
  <2> QED
    BY <1>0, <1>7, <2>3, <2>4, ClusterMoves DEF Delete
<1>8. CASE Finalize
  <2> DEFINE o == [sj EXCEPT !.phase = "gone", !.rv = @ + 1]
  <2>1. o \in Objects /\ o.rv = sj.rv + 1
    BY <1>0 DEF Objects
  <2>2. ServerMoves
    BY <1>8, <2>1, PublishMoves DEF Finalize
  <2> QED
    BY <1>0, <1>8, <2>2, ClusterMoves DEF Finalize
<1>9. CASE Recreate
  <2>1. PICK s \in Specs : Publish(NewObject(s, sj.rv + 1, sj.uid + 1))
    BY <1>9 DEF Recreate
  <2>2. NewObject(s, sj.rv + 1, sj.uid + 1).rv = sj.rv + 1
    BY DEF NewObject
  <2>3. ServerMoves
    BY <1>9, <2>1, <2>2, NewObjectType, PublishMoves DEF Recreate
  <2> QED
    BY <1>0, <1>9, <2>3, ClusterMoves DEF Recreate
<1> QED
  BY <1>1, <1>2, <1>3, <1>4, <1>5, <1>6, <1>7, <1>8, <1>9
-----------------------------------------------------------------------------
(* The theorems.                                                           *)

LEMMA InvInitially ==
  ASSUME Init
  PROVE  Inv
<1>1. PICK s \in Specs : sj = NewObject(s, 1, 1)
  BY DEF Init
<1>2. 0 \in Instants /\ now = 0
  BY ControllerAssumption DEF Init, Instants
<1>3. sj \in Objects /\ sj.rv = 1
  BY <1>1, <1>2 DEF NewObject, Objects
<1>4. \A r \in Replicas : /\ cache[r] = NoObject
                         /\ pass[r] = [Resting EXCEPT !.pc = "down"]
  BY DEF Init
<1> DEFINE p == [Resting EXCEPT !.pc = "down"]
<1>5. p \in Passes /\ p.pc = "down" /\ p.held = NoObject /\ p.since = 0
  BY RestingType DEF Passes, PassStates
<1>6. TypeOK
  <2>1. jobs \in [Instants -> Jobs]
    BY DEF Init, NoJob, Jobs
  <2>2. cache \in [Replicas -> Objects]
    BY NoObjectType DEF Init
  <2>3. pass \in [Replicas -> Passes]
    BY <1>5 DEF Init
  <2>4. log \in Seq(Objects) /\ log # <<>> /\ seen \in [Replicas -> 0..Len(log)]
    BY <1>3 DEF Init
  <2>5. spent \in [Events -> Nat]
    BY DEF Init
  <2> QED
    BY <1>2, <1>3, <2>1, <2>2, <2>3, <2>4, <2>5 DEF TypeOK
<1>7. CopiesAgree
  <2>1. Agrees(NoObject, sj)
    <3>1. NoObject.rv = 0
      BY DEF NoObject
    <3> QED
      BY <1>3, <3>1 DEF Agrees
  <2>2. Agrees(sj, sj)
    BY <1>3, ObjectNumbers DEF Agrees
  <2>3. ASSUME NEW i \in 1..Len(log)
        PROVE  Agrees(log[i], sj)
    <3>1. log[i] = sj
      BY DEF Init
    <3> QED
      BY <2>2, <3>1
  <2>4. ASSUME NEW r \in Replicas
        PROVE  Agrees(cache[r], sj) /\ Agrees(pass[r].held, sj)
    <3>1. cache[r] = NoObject /\ pass[r] = p
      BY <1>4
    <3> HIDE DEF p
    <3>2. pass[r].held = NoObject
      BY <1>5, <3>1
    <3> QED
      BY <2>1, <3>1, <3>2
  <2> QED
    BY <2>3, <2>4 DEF CopiesAgree
<1>8. PassesDecided
  <2> SUFFICES ASSUME NEW r \in Replicas
               PROVE  pass[r].since <= sj.rv /\ Decided(pass[r])
    BY DEF PassesDecided
  <2>1. pass[r] = p
    BY <1>4
  <2> HIDE DEF p
  <2> QED
    BY <2>1, <1>3, <1>5 DEF Decided
<1> QED
  BY <1>3, <1>6, <1>7, <1>8 DEF Inv

LEMMA InvPreserved ==
  ASSUME Inv, [Next]_vars
  PROVE  Inv'
<1>1. ASSUME NEW r \in Replicas, PassStep(r) PROVE Inv'
  BY <1>1, ListJobsPreserves, ListTZCronJobsPreserves, SyncStatusPreserves, GetVictimPreserves,
     KillVictimPreserves, CreateJobPreserves, RecordStartPreserves, BeginCleanupPreserves,
     SweepPreserves, EndCleanupPreserves DEF PassStep
<1>2. ASSUME NEW r \in Replicas, List(r) \/ Deliver(r) \/ Relist(r) \/ Crash(r) \/ Start(r) PROVE Inv'
  BY <1>2, ReceivePreserves, CrashPreserves, StartPreserves
<1>3. CASE UNCHANGED vars
  <2>1. now' \in Instants /\ jobs' \in [Instants -> Jobs] /\ spent' \in [Events -> Nat]
    BY <1>3 DEF vars, Inv, TypeOK
  <2> QED
    BY <1>3, <2>1, ServerRests, ClusterMoves DEF vars
<1> QED
  BY <1>1, <1>2, <1>3, ClusterPreserves DEF Next

(* The invariant holds in every state of every behaviour.                  *)
THEOREM Invariance == Spec => []Inv
<1>1. Init => Inv
  BY InvInitially
<1>2. Inv /\ [Next]_vars => Inv'
  BY InvPreserved
<1> QED
  BY <1>1, <1>2, PTL DEF Spec

(* Type correctness: in particular the schedule arithmetic never leaves    *)
(* the instants of the model.                                              *)
THEOREM TypeCorrectness == Spec => []TypeOK
<1>1. Inv => TypeOK
  BY DEF Inv
<1> QED
  BY <1>1, Invariance, PTL

(* Where syncOne goes on to replace and create Jobs, it decides on an      *)
(* object that the API server held after the pass had begun, with any      *)
(* number of replicas, however late the watches and however old the lists. *)
THEOREM Freshness == Spec => []DecisionIsFresh
<1>1. Inv => DecisionIsFresh
  <2> SUFFICES ASSUME Inv, NEW r \in Replicas, Deciding(r)
               PROVE  /\ pass[r].held.rv >= pass[r].since
                      /\ pass[r].held.phase = "live" /\ ~pass[r].held.spec.suspend
                      /\ pass[r].held.rv = sj.rv => sj.phase = "live" /\ sj.spec = pass[r].held.spec
    BY DEF DecisionIsFresh
  <2>1. Decided(pass[r]) /\ Agrees(pass[r].held, sj)
    BY PassFacts
  <2> QED
    BY <2>1 DEF Deciding, Decided, Agrees
<1> QED
  BY <1>1, Invariance, PTL

(* LastScheduleTime never goes back: a status write is accepted from a     *)
(* copy of the stored version only, and no such copy is behind.            *)
LEMMA NoStepGoesBack ==
  ASSUME Inv, [Next]_vars
  PROVE  sj'.uid = sj.uid => sj'.lst >= sj.lst
<1>1. sj \in Objects /\ sj.lst \in Int /\ sj.uid \in Nat
  BY ObjectNumbers DEF Inv, TypeOK
<1>2. CASE sj' = sj
  BY <1>1, <1>2
<1>3. ASSUME NEW r \in Replicas, PassStep(r)
      PROVE  sj'.uid = sj.uid => sj'.lst >= sj.lst
  <2>1. CASE SyncStatus(r)
    <3> DEFINE want == Pruned(pass[r].held, pass[r].js)
    <3>1. StatusCallSucceeds(want) \/ StatusCallFails(want)
      BY <2>1 DEF SyncStatus
    <3>2. want \in Objects /\ Agrees(want, sj) /\ seen' = seen
      BY <2>1, PrunedAgrees DEF SyncStatus
    <3> HIDE DEF want
    <3> QED
      BY <3>1, <3>2, StatusCallMoves
  <2>2. CASE RecordStart(r)
    BY <2>2, PassFacts, StatusCallMoves DEF RecordStart
  <2>3. CASE EndCleanup(r)
    BY <2>3, PassFacts, StatusCallMoves DEF EndCleanup
  <2>4. CASE \/ ListJobs(r) \/ ListTZCronJobs(r) \/ GetVictim(r) \/ KillVictim(r)
             \/ CreateJob(r) \/ BeginCleanup(r) \/ Sweep(r)
    <3>1. sj' = sj
      BY <2>4 DEF ListJobs, ListTZCronJobs, GetVictim, KillVictim, CreateJob, BeginCleanup, Sweep
    <3> QED
      BY <1>2, <3>1
  <2> QED
    BY <1>3, <2>1, <2>2, <2>3, <2>4 DEF PassStep
<1>4. CASE Edit
  BY <1>1, <1>4 DEF Edit, Publish, Objects
<1>5. CASE Delete
  BY <1>1, <1>5 DEF Delete, Publish, Objects
<1>6. CASE Finalize
  BY <1>1, <1>6 DEF Finalize, Publish, Objects
<1>7. CASE Recreate
  <2>1. PICK s \in Specs : sj' = NewObject(s, sj.rv + 1, sj.uid + 1)
    BY <1>7 DEF Recreate, Publish
  <2>2. sj'.uid = sj.uid + 1
    BY <2>1 DEF NewObject
  <2> QED
    BY <1>1, <2>2
<1>8. CASE \/ \E r \in Replicas : List(r) \/ Deliver(r) \/ Relist(r) \/ Crash(r) \/ Start(r)
           \/ \E t \in Instants : Finish(t) \/ Reap(t) \/ Orphan(t) \/ Collect(t)
           \/ Tick \/ UNCHANGED vars
  <2>1. sj' = sj
    BY <1>8 DEF List, Deliver, Relist, Receive, Crash, Start, Finish, Reap, Orphan, Collect, Tick, vars
  <2> QED
    BY <1>2, <2>1
<1> QED
  BY <1>3, <1>4, <1>5, <1>6, <1>7, <1>8 DEF Next

(* LastScheduleTime never goes back while the TZCronJob exists, whichever  *)
(* replica writes it and whichever copy it writes it from.                 *)
THEOREM LastScheduleNeverGoesBack == Spec => LastScheduleMonotone
<1>1. Inv /\ [Next]_vars => [sj'.uid = sj.uid => sj'.lst >= sj.lst]_vars
  BY NoStepGoesBack
<1> QED
  BY <1>1, Invariance, PTL DEF Spec, LastScheduleMonotone
-----------------------------------------------------------------------------
(* Nothing behind the record.                                              *)

(* What a pass starts is later than what its copy has on record.  So it is *)
(* enough that the copy a pass decides on has as much on record as the     *)
(* server had when the pass began: the server's record only grows, in its  *)
(* log, and behind the fence the copy is the last entry of the log.        *)

(* As much is on record in o as in v, unless they are two TZCronJobs. *)
Follows(o, v) == v.uid = o.uid => v.lst <= o.lst

LogGrows ==
  /\ Len(log) = sj.rv
  /\ \A i \in 1..Len(log) : log[i].uid <= sj.uid /\ Follows(sj, log[i])

Begun(p) == p.pc \in {"listed", "sync", "replace", "kill", "create"}

PassesFollow ==
  \A r \in Replicas :
    /\ Begun(pass[r]) => pass[r].since \in 1..Len(log)
    /\ Deciding(r) => Follows(pass[r].held, log[pass[r].since])

RecordInv == Inv /\ LogGrows /\ PassesFollow

(* A step changes nothing at the server or appends a version to the log,   *)
(* the first of another TZCronJob or one with as much on record.           *)
LEMMA LogMoves ==
  ASSUME Inv, Inv', [Next]_vars
  PROVE  /\ sj'.uid >= sj.uid /\ Follows(sj', sj)
         /\ \/ UNCHANGED <<sj, log>>
            \/ log' = Append(log, sj') /\ sj'.rv = sj.rv + 1
<1>1. sj \in Objects /\ sj' \in Objects /\ sj.uid \in Nat /\ sj.rv \in Nat
  BY ObjectNumbers DEF Inv, TypeOK
<1>2. Follows(sj', sj)
  BY NoStepGoesBack DEF Follows
<1>3. ASSUME NEW o \in Objects, StatusCallSucceeds(o) \/ StatusCallFails(o)
      PROVE  /\ sj'.uid = sj.uid
             /\ UNCHANGED <<sj, log>> \/ (log' = Append(log, sj') /\ sj'.rv = sj.rv + 1)
  <2>1. UNCHANGED <<sj, log>> \/ Publish(Stored(o))
    BY <1>3 DEF StatusCallSucceeds, StatusCallFails
  <2>2. Stored(o).uid = sj.uid /\ (Stored(o) = sj \/ Stored(o).rv = sj.rv + 1)
    BY StoredType
  <2> QED
    BY <2>1, <2>2 DEF Publish
<1>4. ASSUME NEW o, Publish(o), o.uid >= sj.uid, o.rv = sj.rv + 1
      PROVE  sj'.uid >= sj.uid /\ log' = Append(log, sj') /\ sj'.rv = sj.rv + 1
  <2>1. o # sj
    BY <1>1, <1>4
  <2> QED
    BY <1>4, <2>1 DEF Publish
<1>5. ASSUME NEW r \in Replicas, SyncStatus(r) \/ RecordStart(r) \/ EndCleanup(r)
      PROVE  \E o \in Objects : StatusCallSucceeds(o) \/ StatusCallFails(o)
  BY <1>5, PrunedAgrees, PassFacts DEF SyncStatus, RecordStart, EndCleanup
<1>6. CASE Edit
  <2>1. PICK s \in Specs : Publish([sj EXCEPT !.spec = s, !.rv = @ + 1])
    BY <1>6 DEF Edit
  <2> DEFINE o == [sj EXCEPT !.spec = s, !.rv = @ + 1]
  <2>2. Publish(o) /\ o.uid = sj.uid /\ o.rv = sj.rv + 1
    BY <1>1, <2>1 DEF Objects
  <2> HIDE DEF o
  <2> QED
    BY <1>1, <1>2, <1>4, <2>2
<1>7. CASE Delete
  <2>1. PICK ph \in {"orphaning", "gone"} : Publish([sj EXCEPT !.phase = ph, !.rv = @ + 1])
    BY <1>7 DEF Delete
  <2> DEFINE o == [sj EXCEPT !.phase = ph, !.rv = @ + 1]
  <2>2. Publish(o) /\ o.uid = sj.uid /\ o.rv = sj.rv + 1
    BY <1>1, <2>1 DEF Objects
  <2> HIDE DEF o
  <2> QED
    BY <1>1, <1>2, <1>4, <2>2
<1>8. CASE Finalize
  <2>1. Publish([sj EXCEPT !.phase = "gone", !.rv = @ + 1])
    BY <1>8 DEF Finalize
  <2> DEFINE o == [sj EXCEPT !.phase = "gone", !.rv = @ + 1]
  <2>2. Publish(o) /\ o.uid = sj.uid /\ o.rv = sj.rv + 1
    BY <1>1, <2>1 DEF Objects
  <2> HIDE DEF o
  <2> QED
    BY <1>1, <1>2, <1>4, <2>2
<1>9. CASE Recreate
  <2>1. PICK s \in Specs : Publish(NewObject(s, sj.rv + 1, sj.uid + 1))
    BY <1>9 DEF Recreate
  <2>2. NewObject(s, sj.rv + 1, sj.uid + 1).uid = sj.uid + 1 /\ NewObject(s, sj.rv + 1, sj.uid + 1).rv = sj.rv + 1
    BY DEF NewObject
  <2> QED
    BY <1>1, <1>2, <1>4, <2>1, <2>2
<1>10. ASSUME NEW r \in Replicas, PassStep(r)
       PROVE  /\ sj'.uid = sj.uid
              /\ UNCHANGED <<sj, log>> \/ (log' = Append(log, sj') /\ sj'.rv = sj.rv + 1)
  <2>1. CASE SyncStatus(r) \/ RecordStart(r) \/ EndCleanup(r)
    BY <1>3, <1>5, <2>1
  <2>2. CASE \/ ListJobs(r) \/ ListTZCronJobs(r) \/ GetVictim(r) \/ KillVictim(r)
             \/ CreateJob(r) \/ BeginCleanup(r) \/ Sweep(r)
    BY <2>2 DEF ListJobs, ListTZCronJobs, GetVictim, KillVictim, CreateJob, BeginCleanup, Sweep
  <2> QED
    BY <1>10, <2>1, <2>2 DEF PassStep
<1>11. CASE \/ \E r \in Replicas : List(r) \/ Deliver(r) \/ Relist(r) \/ Crash(r) \/ Start(r)
            \/ \E t \in Instants : Finish(t) \/ Reap(t) \/ Orphan(t) \/ Collect(t)
            \/ Tick \/ UNCHANGED vars
  <2>1. UNCHANGED <<sj, log>>
    BY <1>11 DEF List, Deliver, Relist, Receive, Crash, Start, Finish, Reap, Orphan, Collect, Tick, vars
  <2> QED
    BY <1>1, <1>2, <2>1
<1> QED
  BY <1>1, <1>2, <1>6, <1>7, <1>8, <1>9, <1>10, <1>11 DEF Next

LEMMA LogGrowsOn ==
  ASSUME Inv, Inv', LogGrows, [Next]_vars
  PROVE  /\ LogGrows' /\ Len(log) <= Len(log')
         /\ \A i \in 1..Len(log) : log'[i] = log[i]
<1>1. /\ log \in Seq(Objects) /\ sj' \in Objects /\ sj'.uid \in Nat /\ sj'.lst \in Int
      /\ sj.uid \in Nat /\ sj.lst \in Int /\ sj.rv \in Nat
  BY ObjectNumbers DEF Inv, TypeOK
<1>2. sj'.uid >= sj.uid /\ Follows(sj', sj)
  BY LogMoves
<1>3. CASE UNCHANGED <<sj, log>>
  <2>1. Len(log) \in Nat
    BY <1>1
  <2> QED
    BY <1>3, <2>1 DEF LogGrows, Follows
<1>4. CASE log' = Append(log, sj') /\ sj'.rv = sj.rv + 1
  <2>1. /\ Len(log') = Len(log) + 1 /\ Len(log) \in Nat
        /\ \A i \in 1..Len(log) : log'[i] = log[i]
        /\ log'[Len(log) + 1] = sj'
    BY <1>1, <1>4, AppendProperties
  <2>2. ASSUME NEW i \in 1..Len(log') PROVE log'[i].uid <= sj'.uid /\ Follows(sj', log'[i])
    <3>1. CASE i \in 1..Len(log)
      <4>1. log[i] \in Objects /\ log[i].uid <= sj.uid /\ Follows(sj, log[i])
        BY <1>1, <3>1 DEF LogGrows
      <4>2. log[i].uid \in Nat /\ log[i].lst \in Int
        BY <4>1, ObjectNumbers
      <4>3. log'[i] = log[i]
        BY <2>1, <3>1
      <4> QED
        BY <1>1, <1>2, <4>1, <4>2, <4>3 DEF Follows
    <3>2. CASE i = Len(log) + 1
      BY <1>1, <2>1, <3>2 DEF Follows
    <3> QED
      BY <2>1, <3>1, <3>2
  <2>3. Len(log') = sj'.rv
    BY <1>4, <2>1 DEF LogGrows
  <2> QED
    BY <2>1, <2>2, <2>3 DEF LogGrows, Follows
<1> QED
  BY <1>3, <1>4, LogMoves

(* What a step may do to the control state and the copy of pass q. *)
PassGoesOn(q) ==
  \/ ~Begun(pass'[q])
  \/ pass'[q].pc = "listed" /\ pass'[q].since = sj.rv /\ sj' = sj
  \/ /\ Begun(pass[q]) /\ pass'[q].since = pass[q].since
     /\ \/ ~Deciding(q)'
        \/ pass'[q].held = sj'
        \/ /\ Deciding(q) /\ pass'[q].held.uid = pass[q].held.uid
           /\ pass'[q].held.lst = pass[q].held.lst

LEMMA PassesGoOn ==
  ASSUME Inv, NEW q \in Replicas, [Next]_vars
  PROVE  PassGoesOn(q)
<1>0. pass \in [Replicas -> Passes] /\ pass[q] \in Passes /\ pass[q].held \in Objects
  BY DEF Inv, TypeOK, Passes
<1>1. CASE pass'[q] = pass[q]
  BY <1>1 DEF PassGoesOn, Begun, Deciding
<1>2. ASSUME NEW l \in {"idle", "down", "record", "cleanup", "sweep"}, pass'[q].pc = l
      PROVE  PassGoesOn(q)
  BY <1>2 DEF PassGoesOn, Begun
<1>3. CASE GoTo(q, "cleanup")
  BY <1>0, <1>2, <1>3 DEF GoTo, Passes
<1>4. CASE pass' = [pass EXCEPT ![q] = Resting]
  BY <1>0, <1>2, <1>4, RestingType
<1>5. CASE ListJobs(q)
  <2>1. pass'[q].pc = "listed" /\ pass'[q].since = sj.rv /\ sj' = sj
    BY <1>0, <1>5 DEF ListJobs, Passes
  <2> QED
    BY <2>1 DEF PassGoesOn
<1>6. CASE ListTZCronJobs(q)
  <2>1. CASE cache[q].phase = "gone"
    BY <1>4, <1>6, <2>1 DEF ListTZCronJobs
  <2>2. CASE cache[q].phase # "gone"
    <3>1. pass[q].pc = "listed" /\ pass'[q].pc = "sync" /\ pass'[q].since = pass[q].since
      BY <1>0, <1>6, <2>2 DEF ListTZCronJobs, Passes
    <3> QED
      BY <3>1 DEF PassGoesOn, Begun, Deciding
  <2> QED
    BY <2>1, <2>2
<1>7. CASE SyncStatus(q)
  <2> DEFINE want == Pruned(pass[q].held, pass[q].js)
  <2>1. pass[q].pc = "sync"
    BY <1>7 DEF SyncStatus
  <2>2. CASE StatusCallSucceeds(want) /\ Mutate(q, Fenced(q, Stored(want)))
    <3>1. sj' = Stored(want)
      BY <2>2 DEF StatusCallSucceeds, Publish
    <3>2. pass'[q] = Fenced(q, Stored(want))
      BY <1>0, <2>2 DEF Mutate
    <3> HIDE DEF want
    <3>3. pass'[q].held = sj' /\ pass'[q].since = pass[q].since
      BY <1>0, <3>1, <3>2 DEF Fenced, Passes
    <3> QED
      BY <2>1, <3>3 DEF PassGoesOn, Begun
  <2>3. CASE Mutate(q, Refused(q, want))
    BY <1>0, <1>2, <2>3 DEF Mutate, Refused, Passes
  <2> QED
    BY <1>7, <2>2, <2>3 DEF SyncStatus
<1>8. CASE GetVictim(q)
  <2>1. PICK v \in pass[q].queue :
          \/ pass' = [pass EXCEPT ![q].victim = RefTo(jobs, v[1]), ![q].queue = @ \ {v}, ![q].pc = "kill"]
          \/ GoTo(q, "cleanup")
    BY <1>8 DEF GetVictim
  <2>2. CASE pass' = [pass EXCEPT ![q].victim = RefTo(jobs, v[1]), ![q].queue = @ \ {v}, ![q].pc = "kill"]
    <3>1. pass[q].pc = "replace"
      BY <1>8 DEF GetVictim
    <3>2. pass'[q].since = pass[q].since /\ pass'[q].held = pass[q].held
      BY <1>0, <2>2 DEF Passes
    <3> QED
      BY <3>1, <3>2 DEF PassGoesOn, Begun, Deciding
  <2> QED
    BY <1>3, <2>1, <2>2
<1>9. CASE KillVictim(q)
  <2> DEFINE v == pass[q].victim
             l == IF pass[q].queue = {} THEN "create" ELSE "replace"
             p == [pass[q] EXCEPT !.held.active = @ \ {v}, !.pc = l]
  <2>1. pass[q].pc = "kill" /\ (Mutate(q, p) \/ GoTo(q, "cleanup"))
    BY <1>9 DEF KillVictim
  <2>2. CASE Mutate(q, p)
    <3>1. pass'[q] = p
      BY <1>0, <2>2 DEF Mutate
    <3>2. p.since = pass[q].since /\ p.held.uid = pass[q].held.uid /\ p.held.lst = pass[q].held.lst
      BY <1>0 DEF Passes, Objects
    <3> HIDE DEF p
    <3> QED
      BY <2>1, <3>1, <3>2 DEF PassGoesOn, Begun, Deciding
  <2> QED
    BY <1>3, <2>1, <2>2
<1>10. CASE CreateJob(q)
  <2>1. \/ GoTo(q, "cleanup")
        \/ \E o : Mutate(q, [pass[q] EXCEPT !.held = o, !.pc = "record"])
    BY <1>10 DEF CreateJob
  <2>2. ASSUME NEW o, Mutate(q, [pass[q] EXCEPT !.held = o, !.pc = "record"]) PROVE PassGoesOn(q)
    BY <1>0, <1>2, <2>2 DEF Mutate, Passes
  <2> QED
    BY <1>3, <2>1, <2>2
<1>11. CASE RecordStart(q)
  BY <1>3, <1>11 DEF RecordStart
<1>12. CASE BeginCleanup(q)
  BY <1>0, <1>2, <1>4, <1>12 DEF BeginCleanup, Passes
<1>13. CASE Sweep(q)
  <2>1. PICK v \in pass[q].queue :
          \/ Mutate(q, [pass[q] EXCEPT !.held.active = @ \ {v}, !.queue = @ \ {v}])
          \/ pass' = [pass EXCEPT ![q].queue = @ \ {v}]
    BY <1>13 DEF Sweep
  <2>2. pass[q].pc = "sweep"
    BY <1>13 DEF Sweep
  <2>3. pass'[q].pc = "sweep"
    BY <1>0, <2>1, <2>2 DEF Mutate, Passes
  <2> QED
    BY <1>2, <2>3
<1>14. CASE EndCleanup(q)
  BY <1>4, <1>14 DEF EndCleanup
<1>15. CASE PassStep(q)
  BY <1>5, <1>6, <1>7, <1>8, <1>9, <1>10, <1>11, <1>12, <1>13, <1>14, <1>15 DEF PassStep
<1>16. ASSUME NEW r \in Replicas, List(r) \/ Deliver(r) \/ Relist(r) PROVE PassGoesOn(q)
  <2>1. pass' = [pass EXCEPT ![r].shared = FALSE]
    BY <1>16 DEF List, Deliver, Relist, Receive
  <2>2. /\ pass'[q].pc = pass[q].pc /\ pass'[q].since = pass[q].since
        /\ pass'[q].held = pass[q].held
    BY <1>0, <2>1 DEF Passes
  <2> QED
    BY <2>2 DEF PassGoesOn, Begun, Deciding
<1>17. CASE Crash(q) \/ Start(q)
  <2>1. pass'[q].pc \in {"idle", "down"}
    BY <1>0, <1>17, RestingType DEF Crash, Start, Passes
  <2> QED
    BY <1>2, <2>1
<1>18. ASSUME NEW r \in Replicas, r # q, PassStep(r) \/ Crash(r) \/ Start(r) PROVE pass'[q] = pass[q]
  BY <1>0, <1>18 DEF PassStep, Crash, Start, ListJobs, ListTZCronJobs, SyncStatus, GetVictim, KillVictim,
     CreateJob, RecordStart, BeginCleanup, Sweep, EndCleanup, Mutate, GoTo
<1>19. CASE \/ \E t \in Instants : Finish(t) \/ Reap(t) \/ Orphan(t) \/ Collect(t)
            \/ Tick \/ Edit \/ Delete \/ Finalize \/ Recreate \/ UNCHANGED vars
  <2>1. pass' = pass
    BY <1>19 DEF Finish, Reap, Orphan, Collect, Tick, Edit, Delete, Finalize, Recreate, vars
  <2> QED
    BY <1>1, <2>1
<1> QED
  BY <1>1, <1>15, <1>16, <1>17, <1>18, <1>19 DEF Next

LEMMA RecordInvPreserved ==
  ASSUME RecordInv, [Next]_vars
  PROVE  RecordInv'
<1>1. Inv /\ Inv' /\ LogGrows /\ PassesFollow
  BY InvPreserved DEF RecordInv
<1>2. /\ LogGrows' /\ Len(log) <= Len(log')
      /\ \A i \in 1..Len(log) : log'[i] = log[i]
  BY <1>1, LogGrowsOn
<1>3. Len(log) \in Nat /\ Len(log') \in Nat /\ sj.rv \in Nat /\ sj.rv > 0
  BY <1>1, ObjectNumbers DEF Inv, TypeOK
<1>4. ASSUME NEW q \in Replicas
      PROVE  /\ Begun(pass'[q]) => pass'[q].since \in 1..Len(log')
             /\ Deciding(q)' => Follows(pass'[q].held, log'[pass'[q].since])
  <2>1. CASE ~Begun(pass'[q])
    BY <2>1 DEF Begun, Deciding
  <2>2. CASE pass'[q].pc = "listed" /\ pass'[q].since = sj.rv /\ sj' = sj
    BY <1>1, <1>2, <1>3, <2>2 DEF Deciding, LogGrows
  <2>3. CASE Begun(pass[q]) /\ pass'[q].since = pass[q].since
    <3> DEFINE i == pass[q].since
    <3>1. i \in 1..Len(log)
      BY <1>1, <2>3 DEF PassesFollow
    <3>2. i \in 1..Len(log') /\ log'[i] = log[i]
      BY <1>2, <1>3, <3>1
    <3>3. CASE ~Deciding(q)'
      BY <2>3, <3>2, <3>3
    <3>4. CASE pass'[q].held = sj'
      BY <1>2, <2>3, <3>2, <3>4 DEF LogGrows
    <3>5. CASE /\ Deciding(q) /\ pass'[q].held.uid = pass[q].held.uid
               /\ pass'[q].held.lst = pass[q].held.lst
      BY <1>1, <2>3, <3>2, <3>5 DEF PassesFollow, Follows
    <3> QED
      BY <1>1, <2>1, <2>2, <3>3, <3>4, <3>5, PassesGoOn DEF PassGoesOn
  <2> QED
    BY <1>1, <2>1, <2>2, <2>3, PassesGoOn DEF PassGoesOn
<1>5. PassesFollow'
  BY <1>4 DEF PassesFollow, Begun, Follows, Deciding
<1> QED
  BY <1>1, <1>2, <1>5 DEF RecordInv

LEMMA RecordInvariance == Spec => []RecordInv
<1>1. ASSUME Init PROVE RecordInv
  <2>1. Inv
    BY <1>1, InvInitially
  <2>2. log = <<sj>> /\ sj.rv = 1 /\ sj.uid \in Nat /\ sj.lst \in Int
    BY <1>1, <2>1, ObjectNumbers DEF Init, NewObject, Inv, TypeOK
  <2>3. LogGrows
    BY <2>2 DEF LogGrows, Follows
  <2>4. ASSUME NEW r \in Replicas PROVE pass[r].pc = "down"
    BY <1>1, RestingType DEF Init, Passes
  <2> QED
    BY <2>1, <2>3, <2>4 DEF RecordInv, PassesFollow, Begun, Deciding
<1> QED
  BY <1>1, RecordInvPreserved, PTL DEF Spec

(* A pass starts nothing at or behind what was on record when it began,    *)
(* with any number of replicas, whatever is swept, lost, edited or deleted *)
(* and however old the lists and the stores are.                           *)
THEOREM NothingBehindTheRecord == Spec => StartsAfterRecord
<1>1. ASSUME RecordInv, NEW r \in Replicas, NEW t \in Instants,
             CreateJob(r), jobs'[t].uid > jobs[t].uid,
             log[pass[r].since].uid = pass[r].held.uid
      PROVE  t > log[pass[r].since].lst
  <2> DEFINE o == pass[r].held
             u == ScheduledTime(o, pass[r].at)
             v == log[pass[r].since]
  <2>1. Inv /\ pass[r].pc = "create" /\ o \in Objects /\ pass[r].at \in Instants
    BY <1>1, PassFacts DEF RecordInv, CreateJob
  <2>2. u \in Instants /\ u > o.lst
    BY <2>1, PassFacts, ScheduledTimeType DEF Decided
  <2>3. v.lst <= o.lst /\ v \in Objects
    <3>1. pass[r].since \in 1..Len(log)
      BY <1>1, <2>1 DEF RecordInv, PassesFollow, Begun
    <3>2. Follows(o, v)
      BY <1>1, <2>1 DEF RecordInv, PassesFollow, Deciding
    <3> QED
      BY <1>1, <2>1, <3>1, <3>2, LoggedAgrees DEF Follows
  <2>4. v.lst \in Int /\ o.lst \in Int
    BY <2>1, <2>3, ObjectNumbers
  <2>5. t = u
    <3>1. jobs' = jobs \/ jobs' = Created(u, o)
      BY <1>1 DEF CreateJob
    <3> HIDE DEF u, o
    <3>2. jobs \in [Instants -> Jobs] /\ jobs[t].uid \in Nat
      BY <2>1, PassFacts DEF Jobs
    <3>3. t # u => jobs'[t] = jobs[t]
      BY <3>1, <3>2 DEF Created
    <3> QED
      BY <1>1, <3>2, <3>3
  <2> HIDE DEF u, o, v
  <2>6. u \in Int
    BY <2>2, ControllerAssumption DEF Instants
  <2> QED
    BY <2>2, <2>3, <2>4, <2>5, <2>6 DEF v
<1>2. RecordInv /\ [Next]_vars =>
        [\A r \in Replicas, t \in Instants :
           (CreateJob(r) /\ jobs'[t].uid > jobs[t].uid) =>
             LET o == log[pass[r].since]
             IN  o.uid = pass[r].held.uid => t > o.lst]_vars
  BY <1>1
<1> QED
  BY <1>2, RecordInvariance, PTL DEF Spec, StartsAfterRecord
=============================================================================
