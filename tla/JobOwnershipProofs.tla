-------------------------- MODULE JobOwnershipProofs --------------------------
(***************************************************************************)
(* Whose Jobs a pass of TZCronJobController touches, for any number of     *)
(* replicas, any specs, any horizon and any budget of edits, deletions,    *)
(* lost calls and crashes.                                                 *)
(*                                                                         *)
(* A Job is told from an earlier one of the same name by its UID, and a    *)
(* TZCronJob from an earlier one by its own.  Two relations carry the      *)
(* argument.  A copy of the TZCronJob, however old, refers in Active only  *)
(* to Jobs of the TZCronJob it is a copy of, unless they were released     *)
(* since.  And a list of Jobs, however old, is outdated in known ways      *)
(* only: a Job that had finished has not come back to run, and one that    *)
(* had been released was started before the TZCronJob now alive was        *)
(* created.                                                                *)
(*                                                                         *)
(* With one replica, and nobody else who deletes Jobs, a list is better    *)
(* than that: what it has as finished is there until the sweep removes it, *)
(* so that the sweep leaves the newest.                                    *)
(***************************************************************************)
EXTENDS CronRunsProofs

Over == {"Complete", "Failed"}

Orphaned(j) == j.state # "Absent" /\ j.owner = 0

(* Reference x in the Active of copy o, when the API server stores s and   *)
(* the Jobs js.                                                            *)
RefOwned(x, o, s, js) ==
  /\ x[2] <= js[x[1]].uid
  /\ (js[x[1]].state # "Absent" /\ js[x[1]].uid = x[2]) =>
       \/ js[x[1]].owner = o.uid
       \/ js[x[1]].owner = 0 /\ (o.uid < s.uid \/ s.phase # "live")

Owned(o, s, js) ==
  /\ o.uid <= s.uid
  /\ o.phase = "live" => o.uid > 0
  /\ \A x \in o.active : RefOwned(x, o, s, js)

(* Job l of a list, when the API server stores s, that name is Job j's and *)
(* the time is n.                                                          *)
Seen(l, s, j, n) ==
  /\ l.uid <= j.uid /\ l.start <= n
  /\ l.state # "Absent" => l.uid > 0
  /\ (Orphaned(l) /\ s.phase = "live") => l.start <= s.created
  /\ (l.state \in Over /\ l.uid = j.uid) => j.state # "Running"

Listed(l, s, js, n) == \A t \in Instants : Seen(l[t], s, js[t], n)

(* What a pass relies on later: the released Jobs it listed are older than *)
(* the TZCronJob it works for, and what it sweeps had finished.            *)
Foreseen(p) ==
  /\ p.pc \in {"replace", "kill", "create"} =>
       \A t \in Instants : Orphaned(p.js[t]) => p.js[t].start <= p.held.created
  /\ p.pc = "sweep" => \A v \in p.queue : p.js[v[1]].state \in Over

CopiesOwned ==
  /\ Owned(sj, sj, jobs)
  /\ \A i \in 1..Len(log) : Owned(log[i], sj, jobs)
  /\ \A r \in Replicas : Owned(cache[r], sj, jobs) /\ Owned(pass[r].held, sj, jobs)

ListsSeen ==
  /\ Listed(jobs, sj, jobs, now)
  /\ \A r \in Replicas : Listed(pass[r].js, sj, jobs, now) /\ Foreseen(pass[r])

(* The inductive invariant. *)
OwnInv == Inv /\ CopiesOwned /\ ListsSeen
-----------------------------------------------------------------------------
(* What steps have in common.                                              *)

(* Of the TZCronJob: a UID stands for one creation and is not used again,  *)
(* and what is being deleted does not come alive.                          *)
ObjectMoves ==
  /\ sj'.uid >= sj.uid
  /\ sj'.uid = sj.uid => sj'.created = sj.created /\ (sj.phase # "live" => sj'.phase # "live")
  /\ sj'.uid > sj.uid => sj'.created = now'

(* Of the Job of a name: it is the Job it was, released at most and not    *)
(* running again; or gone; or another one, which has an owner.             *)
JobMoves(j, k) ==
  /\ k.uid >= j.uid /\ (k.start = j.start \/ k.start <= now')
  /\ (k.state # "Absent" /\ k.uid = j.uid) =>
       /\ j.state # "Absent" /\ k.start = j.start
       /\ k.state = "Running" => j.state = "Running"
       /\ \/ k.owner = j.owner
          \/ k.owner = 0 /\ j.owner = sj.uid /\ sj'.uid = sj.uid /\ sj'.phase # "live"
  /\ k.uid > j.uid => k.owner > 0

Moved == now' >= now /\ ObjectMoves /\ \A t \in Instants : JobMoves(jobs[t], jobs'[t])

LEMMA Numbers ==
  ASSUME TypeOK
  PROVE  /\ now \in Nat
         /\ sj \in Objects /\ sj.uid \in Nat /\ sj.created \in Nat /\ sj.rv \in Nat
         /\ \A t \in Instants : /\ jobs[t] \in Jobs /\ jobs[t].uid \in Nat
                                /\ jobs[t].owner \in Nat /\ jobs[t].start \in Nat
BY InstantNumbers DEF TypeOK, Objects, Jobs

(* A copy stays owned, whatever step the system takes. *)
LEMMA MovedOwned ==
  ASSUME TypeOK, TypeOK', Moved, NEW o \in Objects, Owned(o, sj, jobs)
  PROVE  Owned(o, sj', jobs')
<1>1. o.uid \in Nat /\ sj.uid \in Nat /\ sj'.uid \in Nat /\ o.active \in SUBSET Refs
  BY Numbers DEF Objects, TypeOK
<1>2. o.uid <= sj'.uid /\ (o.phase = "live" => o.uid > 0)
  BY <1>1 DEF Moved, ObjectMoves, Owned
<1>3. ASSUME NEW x \in o.active PROVE RefOwned(x, o, sj', jobs')
  <2> DEFINE j == jobs[x[1]]
             k == jobs'[x[1]]
  <2>1. x[1] \in Instants /\ x[2] \in Nat
    BY <1>1 DEF Refs
  <2>2. j.uid \in Nat /\ k.uid \in Nat /\ x[2] <= j.uid /\ k.uid >= j.uid
    BY <2>1, <1>3, Numbers DEF TypeOK, Jobs, Owned, RefOwned, Moved, JobMoves
  <2>3. x[2] <= k.uid
    BY <2>1, <2>2
  <2>4. ASSUME k.state # "Absent", k.uid = x[2]
        PROVE  k.owner = o.uid \/ (k.owner = 0 /\ (o.uid < sj'.uid \/ sj'.phase # "live"))
    <3>1. k.uid = j.uid /\ j.state # "Absent"
      BY <2>1, <2>2, <2>4 DEF Moved, JobMoves
    <3>2. j.owner = o.uid \/ (j.owner = 0 /\ (o.uid < sj.uid \/ sj.phase # "live"))
      BY <1>3, <2>4, <3>1 DEF Owned, RefOwned
    <3>3. \/ k.owner = j.owner
          \/ k.owner = 0 /\ j.owner = sj.uid /\ sj'.uid = sj.uid /\ sj'.phase # "live"
      BY <2>1, <2>4, <3>1 DEF Moved, JobMoves
    <3>4. o.uid < sj.uid \/ sj.phase # "live" => o.uid < sj'.uid \/ sj'.phase # "live"
      BY <1>1, <1>2 DEF Moved, ObjectMoves, Owned
    <3> QED
      BY <3>2, <3>3, <3>4
  <2> QED
    BY <2>3, <2>4 DEF RefOwned
<1> QED
  BY <1>2, <1>3 DEF Owned

(* A list is outdated in the known ways only, whatever step is taken. *)
LEMMA MovedListed ==
  ASSUME TypeOK, TypeOK', Moved, NEW l \in [Instants -> Jobs], Listed(l, sj, jobs, now)
  PROVE  Listed(l, sj', jobs', now')
<1> SUFFICES ASSUME NEW t \in Instants PROVE Seen(l[t], sj', jobs'[t], now')
  BY DEF Listed
<1> DEFINE j == jobs[t]
           k == jobs'[t]
<1>1. Seen(l[t], sj, j, now)
  BY DEF Listed
<1>2. /\ l[t].uid \in Nat /\ l[t].start \in Nat /\ now \in Nat /\ now' \in Nat /\ now' >= now
      /\ j.uid \in Nat /\ k.uid \in Nat /\ k.uid >= j.uid
  BY Numbers, InstantNumbers DEF TypeOK, Jobs, Moved, JobMoves
<1>3. l[t].uid <= k.uid /\ l[t].start <= now' /\ (l[t].state # "Absent" => l[t].uid > 0)
  BY <1>1, <1>2 DEF Seen
<1>4. ASSUME Orphaned(l[t]), sj'.phase = "live" PROVE l[t].start <= sj'.created
  <2>1. sj.uid \in Nat /\ sj'.uid \in Nat
    BY Numbers DEF TypeOK, Objects
  <2>2. CASE sj'.uid = sj.uid
    BY <1>1, <1>4, <2>2 DEF Moved, ObjectMoves, Seen
  <2>3. CASE sj'.uid > sj.uid
    BY <1>3, <2>3 DEF Moved, ObjectMoves
  <2> QED
    BY <2>1, <2>2, <2>3 DEF Moved, ObjectMoves
<1>5. ASSUME l[t].state \in Over, l[t].uid = k.uid PROVE k.state # "Running"
  <2>1. k.uid = j.uid
    BY <1>1, <1>2, <1>5 DEF Seen
  <2> QED
    BY <1>1, <1>5, <2>1 DEF Seen, Moved, JobMoves
<1> HIDE DEF j, k
<1> QED
  BY <1>3, <1>4, <1>5 DEF Seen, k

(* The Jobs that are there, as a list of this moment. *)
LEMMA MovedJobs ==
  ASSUME TypeOK, TypeOK', Moved, Listed(jobs, sj, jobs, now)
  PROVE  Listed(jobs', sj', jobs', now')
<1> SUFFICES ASSUME NEW t \in Instants PROVE Seen(jobs'[t], sj', jobs'[t], now')
  BY DEF Listed
<1> DEFINE j == jobs[t]
           k == jobs'[t]
<1>1. Seen(j, sj, j, now) /\ JobMoves(j, k)
  BY DEF Listed, Moved
<1>2. /\ now \in Nat /\ now' \in Nat /\ now' >= now
      /\ j.uid \in Nat /\ k.uid \in Nat /\ j.start \in Nat /\ k.start \in Nat
      /\ sj.uid \in Nat /\ sj'.uid \in Nat /\ k.owner \in Nat
  BY Numbers, InstantNumbers DEF TypeOK, Jobs, Moved, Objects
<1> HIDE DEF j, k
<1>3. k.uid <= k.uid /\ k.start <= now'
  BY <1>1, <1>2 DEF Seen, JobMoves
<1>4. k.state # "Absent" => k.uid > 0
  BY <1>1, <1>2 DEF Seen, JobMoves
<1>5. ASSUME Orphaned(k), sj'.phase = "live" PROVE k.start <= sj'.created
  <2>1. k.uid = j.uid /\ j.owner = 0 /\ k.start = j.start /\ j.state # "Absent"
    BY <1>1, <1>2, <1>5 DEF JobMoves, Orphaned
  <2>2. CASE sj'.uid = sj.uid
    BY <1>1, <1>5, <2>1, <2>2 DEF Moved, ObjectMoves, Seen, Orphaned
  <2>3. CASE sj'.uid > sj.uid
    BY <1>3, <2>3 DEF Moved, ObjectMoves
  <2> QED
    BY <1>2, <2>2, <2>3 DEF Moved, ObjectMoves
<1>6. k.state \in Over => k.state # "Running"
  BY DEF Over
<1> QED
  BY <1>3, <1>4, <1>5, <1>6 DEF Seen, k

(* Jobs left alone or deleted by name move, and the clock and the          *)
(* TZCronJob rest.                                                         *)
LEMMA JobsMove ==
  ASSUME TypeOK, UNCHANGED <<now, sj>>, NEW t \in Instants, jobs' = jobs \/ jobs' = Deleted(t)
  PROVE  Moved
<1>1. now' >= now /\ ObjectMoves
  BY Numbers DEF ObjectMoves
<1>2. ASSUME NEW u \in Instants PROVE JobMoves(jobs[u], jobs'[u])
  <2>1. jobs[u].uid \in Nat /\ jobs[u].start \in Nat /\ now \in Nat
    BY Numbers
  <2>2. CASE jobs'[u] = jobs[u]
    BY <2>1, <2>2 DEF JobMoves
  <2>3. CASE jobs'[u] = [NoJob EXCEPT !.uid = jobs[u].uid]
    <3>1. jobs'[u].uid = jobs[u].uid /\ jobs'[u].state = "Absent" /\ jobs'[u].start = 0
      BY <2>3 DEF NoJob
    <3> QED
      BY <2>1, <3>1 DEF JobMoves
  <2> QED
    BY <2>2, <2>3 DEF Deleted, TypeOK
<1> QED
  BY <1>1, <1>2 DEF Moved

LEMMA NothingMoves == ASSUME TypeOK, UNCHANGED <<now, sj, jobs>> PROVE Moved
<1>1. 0 \in Instants
  BY ControllerAssumption DEF Instants
<1> QED
  BY <1>1, JobsMove

LEMMA OwnFacts ==
  ASSUME OwnInv, NEW r \in Replicas
  PROVE  /\ Inv /\ TypeOK /\ Foreseen(pass[r])
         /\ Owned(sj, sj, jobs) /\ Owned(cache[r], sj, jobs) /\ Owned(pass[r].held, sj, jobs)
         /\ Listed(pass[r].js, sj, jobs, now) /\ Listed(jobs, sj, jobs, now)
         /\ pass[r] \in Passes /\ pass[r].held \in Objects /\ cache[r] \in Objects
         /\ pass[r].js \in [Instants -> Jobs]
         /\ pass[r].queue \in SUBSET Refs /\ pass[r].victim \in Refs
<1>1. pass[r] \in Passes
  BY DEF OwnInv, Inv, TypeOK
<1> QED
  BY <1>1 DEF OwnInv, Inv, TypeOK, CopiesOwned, ListsSeen, Passes

(* Every copy and every list outlives a step. *)
LEMMA HeldThrough ==
  ASSUME OwnInv, Inv', Moved, LogExtends, Owned(sj', sj', jobs')
  PROVE  /\ Listed(jobs', sj', jobs', now')
         /\ \A i \in 1..Len(log') : Owned(log'[i], sj', jobs')
         /\ \A q \in Replicas :
              /\ Owned(cache[q], sj', jobs') /\ Owned(pass[q].held, sj', jobs')
              /\ Listed(pass[q].js, sj', jobs', now')
<1>1. TypeOK /\ TypeOK'
  BY DEF OwnInv, Inv
<1>2. Listed(jobs', sj', jobs', now')
  BY <1>1, MovedJobs DEF OwnInv, ListsSeen
<1>3. ASSUME NEW q \in Replicas
      PROVE  /\ Owned(cache[q], sj', jobs') /\ Owned(pass[q].held, sj', jobs')
             /\ Listed(pass[q].js, sj', jobs', now')
  BY <1>1, OwnFacts, MovedOwned, MovedListed
<1>4. ASSUME NEW i \in 1..Len(log')
      PROVE  Owned(log'[i], sj', jobs')
  <2>1. CASE log'[i] = sj'
    BY <2>1
  <2>2. CASE \E k \in 1..Len(log) : log'[i] = log[k]
    <3>1. PICK k \in 1..Len(log) : log'[i] = log[k]
      BY <2>2
    <3>2. log[k] \in Objects
      BY <1>1 DEF TypeOK
    <3>3. Owned(log[k], sj, jobs)
      BY DEF OwnInv, CopiesOwned
    <3> QED
      BY <1>1, <3>1, <3>2, <3>3, MovedOwned
  <2> QED
    BY <2>1, <2>2 DEF LogExtends
<1> QED
  BY <1>2, <1>3, <1>4

(* A step of a pass or an informer of replica r. *)
LEMMA PassOwns ==
  ASSUME OwnInv, Inv', Moved, LogExtends, Owned(sj', sj', jobs'),
         NEW r \in Replicas, NEW p, NEW c,
         pass' = [pass EXCEPT ![r] = p], cache' = [cache EXCEPT ![r] = c],
         Owned(p.held, sj', jobs'), Owned(c, sj', jobs'),
         Listed(p.js, sj', jobs', now'), Foreseen(p)
  PROVE  OwnInv'
<1>1. \A q \in Replicas : /\ q = r => pass'[q] = p /\ cache'[q] = c
                          /\ q # r => pass'[q] = pass[q] /\ cache'[q] = cache[q]
  BY DEF OwnInv, Inv, TypeOK
<1>2. \A q \in Replicas : Foreseen(pass[q])
  BY DEF OwnInv, ListsSeen
<1>3. CopiesOwned'
  BY <1>1, HeldThrough DEF CopiesOwned
<1>4. ListsSeen'
  <2>1. \A q \in Replicas : Foreseen(pass'[q]) /\ Listed(pass'[q].js, sj', jobs', now')
    BY <1>1, <1>2, HeldThrough
  <2>2. \A q \in Replicas : Foreseen(pass'[q]) = Foreseen(pass[q])'
    BY DEF Foreseen, Orphaned
  <2> QED
    BY <2>1, <2>2, HeldThrough DEF ListsSeen
<1> QED
  BY <1>3, <1>4 DEF OwnInv

(* A step of the rest of the cluster. *)
LEMMA ClusterOwns ==
  ASSUME OwnInv, Inv', Moved, LogExtends, Owned(sj', sj', jobs'), UNCHANGED <<cache, pass>>
  PROVE  OwnInv'
<1>1. CopiesOwned'
  BY HeldThrough DEF CopiesOwned
<1>2. ListsSeen'
  BY HeldThrough DEF OwnInv, ListsSeen
<1> QED
  BY <1>1, <1>2 DEF OwnInv

(* A step of a pass that keeps its list and writes nothing to the          *)
(* TZCronJob.                                                              *)
LEMMA QuietOwns ==
  ASSUME OwnInv, Inv', UNCHANGED <<now, sj, log>>, Moved,
         NEW r \in Replicas, NEW p, pass' = [pass EXCEPT ![r] = p],
         cache' = cache \/ cache' = [cache EXCEPT ![r] = p.held],
         p.held \in Objects, Owned(p.held, sj, jobs), p.js = pass[r].js, Foreseen(p)
  PROVE  OwnInv'
<1>1. LogExtends
  BY LogRests
<1>2. TypeOK /\ TypeOK' /\ sj \in Objects /\ sj' = sj
  BY DEF OwnInv, Inv, TypeOK
<1>3. Owned(p.held, sj', jobs')
  BY <1>2, MovedOwned
<1>4. Owned(sj', sj', jobs')
  BY <1>2, OwnFacts, MovedOwned
<1>5. Owned(cache[r], sj', jobs') /\ Listed(p.js, sj', jobs', now')
  BY <1>1, <1>4, HeldThrough
<1>6. cache = [cache EXCEPT ![r] = cache[r]]
  BY <1>2 DEF TypeOK
<1>7. \E c : cache' = [cache EXCEPT ![r] = c] /\ Owned(c, sj', jobs')
  BY <1>3, <1>5, <1>6
<1> QED
  BY <1>1, <1>3, <1>4, <1>5, <1>7, PassOwns
-----------------------------------------------------------------------------
(* Calls to the API server.                                                *)

(* A copy with a reference less. *)
LEMMA OwnedLess ==
  ASSUME NEW o \in Objects, Owned(o, sj, jobs), NEW v
  PROVE  LET n == [o EXCEPT !.active = @ \ {v}] IN n \in Objects /\ Owned(n, sj, jobs)
<1> DEFINE n == [o EXCEPT !.active = @ \ {v}]
<1>1. /\ n \in Objects /\ n.uid = o.uid /\ n.phase = o.phase
      /\ n.active \subseteq o.active
  BY DEF Objects
<1> HIDE DEF n
<1>2. \A x : RefOwned(x, o, sj, jobs) => RefOwned(x, n, sj, jobs)
  BY <1>1 DEF RefOwned
<1>3. Owned(n, sj, jobs)
  BY <1>1, <1>2 DEF Owned
<1> QED
  BY <1>1, <1>3 DEF n

(* What is stored of an accepted copy is owned as the copy was. *)
LEMMA StoredOwned ==
  ASSUME OwnInv, NEW o \in Objects, Agrees(o, sj), Owned(o, sj, jobs), Accepts(o)
  PROVE  /\ Stored(o) \in Objects /\ Owned(Stored(o), Stored(o), jobs)
         /\ Stored(o).uid = sj.uid /\ Stored(o).phase = sj.phase /\ Stored(o).created = sj.created
<1>1. Inv /\ sj \in Objects /\ Owned(sj, sj, jobs)
  BY DEF OwnInv, Inv, TypeOK, CopiesOwned
<1> DEFINE n == Stored(o)
<1>2. o.uid = sj.uid
  BY DEF Accepts, Agrees
<1>3. CASE n = sj
  BY <1>1, <1>3
<1>4. CASE n # sj
  <2>1. n = [sj EXCEPT !.active = o.active, !.lst = o.lst, !.rv = @ + 1]
    BY <1>4 DEF Stored
  <2>2. /\ n \in Objects /\ n.uid = sj.uid /\ n.phase = sj.phase /\ n.created = sj.created
        /\ n.active = o.active
    BY <1>1, <2>1, StoredType DEF Objects
  <2> HIDE DEF n
  <2>3. \A x : RefOwned(x, o, sj, jobs) => RefOwned(x, n, n, jobs)
    BY <1>2, <2>2 DEF RefOwned
  <2>4. Owned(n, n, jobs)
    <3>1. n.uid <= n.uid /\ (n.phase = "live" => n.uid > 0)
      BY <1>1, <2>2, ObjectNumbers DEF Owned
    <3> QED
      BY <2>2, <2>3, <3>1 DEF Owned
  <2> QED
    BY <2>2, <2>4 DEF n
<1> QED
  BY <1>3, <1>4

(* A status write moves the system as every step does. *)
LEMMA StatusCallOwned ==
  ASSUME OwnInv, NEW o \in Objects, Agrees(o, sj), Owned(o, sj, jobs),
         StatusCallSucceeds(o) \/ StatusCallFails(o), UNCHANGED <<now, jobs>>
  PROVE  Moved /\ LogExtends /\ Owned(sj', sj', jobs')
<1>1. Inv /\ TypeOK /\ sj.uid \in Nat /\ Owned(sj, sj, jobs)
  BY Numbers DEF OwnInv, Inv, CopiesOwned
<1>2. CASE UNCHANGED <<sj, log>>
  BY <1>1, <1>2, NothingMoves, LogRests
<1>3. CASE Accepts(o) /\ Publish(Stored(o))
  <2>1. sj' = Stored(o)
    BY <1>3 DEF Publish
  <2>2. /\ sj' \in Objects /\ Owned(sj', sj', jobs)
        /\ sj'.uid = sj.uid /\ sj'.phase = sj.phase /\ sj'.created = sj.created
    BY <1>3, <2>1, StoredOwned
  <2>3. ObjectMoves
    BY <1>1, <2>2 DEF ObjectMoves
  <2>4. \A t \in Instants : JobMoves(jobs[t], jobs'[t])
    BY <1>1, Numbers DEF JobMoves
  <2>5. now' >= now
    BY <1>1, Numbers
  <2>6. log' = log \/ log' = Append(log, sj')
    BY <1>3, <2>1 DEF Publish
  <2> QED
    BY <1>1, <2>2, <2>3, <2>4, <2>5, <2>6, LogAppends DEF Moved
<1> QED
  BY <1>2, <1>3 DEF StatusCallSucceeds, StatusCallFails
-----------------------------------------------------------------------------
(* The steps of a pass.                                                    *)

(* A pass that is over, or that never was. *)
LEMMA RestingOwned ==
  ASSUME TypeOK
  PROVE  /\ Owned(NoObject, sj, jobs) /\ Listed(Resting.js, sj, jobs, now)
         /\ \A p : (p.pc \notin {"replace", "kill", "create", "sweep"}) => Foreseen(p)
<1>1. NoObject.uid = 0 /\ NoObject.phase = "gone" /\ NoObject.active = {}
  BY DEF NoObject
<1>2. Owned(NoObject, sj, jobs)
  BY <1>1, Numbers DEF Owned
<1>3. \A t \in Instants : Resting.js[t] = NoJob
  BY DEF Resting
<1>4. \A t \in Instants : Seen(NoJob, sj, jobs[t], now)
  BY Numbers DEF Seen, NoJob, Orphaned, Over
<1> QED
  BY <1>2, <1>3, <1>4 DEF Listed, Foreseen

LEMMA GoToOwns ==
  ASSUME OwnInv, Inv', UNCHANGED <<now, sj, log>>, Moved,
         NEW r \in Replicas, GoTo(r, "cleanup")
  PROVE  OwnInv'
<1> DEFINE p == [pass[r] EXCEPT !.pc = "cleanup"]
<1>1. p.held = pass[r].held /\ p.js = pass[r].js /\ p.pc = "cleanup"
  BY OwnFacts DEF Passes
<1>2. pass' = [pass EXCEPT ![r] = p] /\ cache' = cache
  BY DEF GoTo, OwnInv, Inv, TypeOK
<1> HIDE DEF p
<1>3. Foreseen(p)
  BY <1>1, OwnFacts, RestingOwned
<1> QED
  BY <1>1, <1>2, <1>3, OwnFacts, QuietOwns

LEMMA ListingOwns ==
  ASSUME OwnInv, Inv', NEW r \in Replicas, ListJobs(r) \/ ListTZCronJobs(r)
  PROVE  OwnInv'
<1>1. UNCHANGED <<now, sj, jobs, log, cache>> /\ Moved /\ LogExtends /\ TypeOK
  BY OwnFacts, NothingMoves, LogRests DEF ListJobs, ListTZCronJobs
<1>2. CASE ListJobs(r)
  <2> DEFINE p == [pass[r] EXCEPT !.pc = "listed", !.js = jobs, !.since = sj.rv]
  <2>1. p.held = pass[r].held /\ p.js = jobs /\ p.pc = "listed"
    BY OwnFacts DEF Passes
  <2>2. pass' = [pass EXCEPT ![r] = p] /\ cache' = [cache EXCEPT ![r] = cache[r]]
    BY <1>1, <1>2 DEF ListJobs, TypeOK
  <2> HIDE DEF p
  <2>3. Foreseen(p) /\ Listed(p.js, sj, jobs, now)
    BY <1>1, <2>1, OwnFacts, RestingOwned
  <2> QED
    BY <1>1, <2>1, <2>2, <2>3, OwnFacts, PassOwns
<1>3. CASE ListTZCronJobs(r) /\ cache[r].phase = "gone"
  <2>1. pass' = [pass EXCEPT ![r] = Resting] /\ cache' = [cache EXCEPT ![r] = cache[r]]
    BY <1>1, <1>3 DEF ListTZCronJobs, TypeOK
  <2>2. Foreseen(Resting) /\ Listed(Resting.js, sj, jobs, now) /\ Owned(Resting.held, sj, jobs)
    BY <1>1, RestingType, RestingOwned
  <2> QED
    BY <1>1, <2>1, <2>2, OwnFacts, PassOwns
<1>4. CASE ListTZCronJobs(r) /\ cache[r].phase # "gone"
  <2> DEFINE p == [pass[r] EXCEPT !.pc = "sync", !.held = cache[r], !.shared = TRUE, !.at = now]
  <2>1. p.held = cache[r] /\ p.js = pass[r].js /\ p.pc = "sync"
    BY OwnFacts DEF Passes
  <2>2. pass' = [pass EXCEPT ![r] = p]
    BY <1>1, <1>4 DEF ListTZCronJobs, TypeOK
  <2> HIDE DEF p
  <2>3. Foreseen(p)
    BY <1>1, <2>1, RestingOwned
  <2> QED
    BY <1>1, <2>1, <2>2, <2>3, OwnFacts, QuietOwns
<1> QED
  BY <1>2, <1>3, <1>4

(* Active is pruned to some of its references. *)
LEMMA PrunedOwned ==
  ASSUME OwnInv, NEW r \in Replicas
  PROVE  LET o == Pruned(pass[r].held, pass[r].js) IN o \in Objects /\ Owned(o, sj, jobs)
<1> DEFINE h == pass[r].held
           n == Pruned(h, pass[r].js)
<1>1. h \in Objects /\ Owned(h, sj, jobs)
  BY OwnFacts
<1>2. n \in Objects
  BY PrunedAgrees DEF OwnInv
<1>3. n.uid = h.uid /\ n.phase = h.phase /\ n.active \subseteq h.active
  BY <1>1 DEF Pruned, Objects
<1> HIDE DEF n
<1>4. \A x : RefOwned(x, h, sj, jobs) => RefOwned(x, n, sj, jobs)
  BY <1>3 DEF RefOwned
<1>5. Owned(n, sj, jobs)
  BY <1>1, <1>3, <1>4 DEF Owned
<1> QED
  BY <1>2, <1>5 DEF n

(* A status write by a pass that goes on with q. *)
LEMMA StatusStepOwns ==
  ASSUME OwnInv, Inv', NEW r \in Replicas,
         NEW o \in Objects, Agrees(o, sj), Owned(o, sj, jobs),
         StatusCallSucceeds(o) \/ StatusCallFails(o), UNCHANGED <<now, jobs>>,
         NEW q, pass' = [pass EXCEPT ![r] = q],
         cache' = cache \/ cache' = [cache EXCEPT ![r] = q.held],
         q.held \in Objects, q.held = sj' \/ Owned(q.held, sj, jobs),
         q.js \in [Instants -> Jobs], Listed(q.js, sj, jobs, now), Foreseen(q)
  PROVE  OwnInv'
<1>1. TypeOK /\ TypeOK'
  BY DEF OwnInv, Inv
<1>2. Moved /\ LogExtends /\ Owned(sj', sj', jobs')
  BY StatusCallOwned
<1>3. Owned(q.held, sj', jobs') /\ Listed(q.js, sj', jobs', now')
  BY <1>1, <1>2, MovedOwned, MovedListed
<1>4. cache = [cache EXCEPT ![r] = cache[r]] /\ Owned(cache[r], sj', jobs')
  BY <1>1, <1>2, HeldThrough DEF TypeOK
<1>5. \E c : cache' = [cache EXCEPT ![r] = c] /\ Owned(c, sj', jobs')
  BY <1>3, <1>4
<1> QED
  BY <1>2, <1>3, <1>5, PassOwns

LEMMA SyncStatusOwns ==
  ASSUME OwnInv, Inv', NEW r \in Replicas, SyncStatus(r)
  PROVE  OwnInv'
<1> DEFINE want == Pruned(pass[r].held, pass[r].js)
           next == Stored(want)
           f == Fenced(r, next)
           g == Refused(r, want)
<1>1. want \in Objects /\ Owned(want, sj, jobs) /\ Agrees(want, sj)
  BY PrunedOwned, PrunedAgrees DEF OwnInv
<1> HIDE DEF want, next
<1>2. UNCHANGED <<now, jobs>>
  BY DEF SyncStatus
<1>3. pass[r].js \in [Instants -> Jobs] /\ Listed(pass[r].js, sj, jobs, now) /\ pass[r] \in Passes
  BY OwnFacts
<1>4. CASE StatusCallSucceeds(want) /\ Mutate(r, f)
  <2>1. Accepts(want) /\ sj' = next
    BY <1>4 DEF StatusCallSucceeds, Publish, next
  <2>2. next \in Objects /\ next.created = sj.created /\ next.phase = sj.phase
    BY <1>1, <2>1, StoredOwned DEF next
  <2>3. f.held = next /\ f.js = pass[r].js /\ f.pc # "sweep"
        /\ (f.pc \in {"replace", "kill", "create"} => next.phase = "live")
    <3> DEFINE q == IF MayStart(next, pass[r].at) /\ Replaces(next) THEN next.active ELSE {}
               l == IF ~MayStart(next, pass[r].at) THEN "cleanup"
                    ELSE IF Replaces(next) THEN "replace" ELSE "create"
    <3>1. f = [pass[r] EXCEPT !.held = next, !.queue = q, !.pc = l]
      BY DEF Fenced
    <3> HIDE DEF q
    <3> HIDE DEF f
    <3>2. f.held = next /\ f.js = pass[r].js /\ f.pc = l
      <4> HIDE DEF l
      <4> QED
        BY <1>3, <3>1 DEF Passes
    <3> QED
      BY <3>2 DEF MayStart
  <2>4. pass' = [pass EXCEPT ![r] = f] /\ (cache' = cache \/ cache' = [cache EXCEPT ![r] = f.held])
    BY <1>4 DEF Mutate
  <2> HIDE DEF f
  <2>5. Foreseen(f)
    BY <1>3, <2>2, <2>3 DEF Listed, Seen, Foreseen
  <2>6. StatusCallSucceeds(want) \/ StatusCallFails(want)
    BY <1>4
  <2> QED
    BY <1>1, <1>2, <1>3, <2>1, <2>2, <2>3, <2>4, <2>5, <2>6, StatusStepOwns
<1>5. CASE StatusCallFails(want) /\ Mutate(r, g)
  <2>1. g.held = want /\ g.js = pass[r].js /\ g.pc = "cleanup"
    BY <1>3 DEF Refused, Passes
  <2>2. pass' = [pass EXCEPT ![r] = g] /\ (cache' = cache \/ cache' = [cache EXCEPT ![r] = g.held])
    BY <1>5 DEF Mutate
  <2> HIDE DEF g
  <2>3. Foreseen(g)
    BY <2>1 DEF Foreseen
  <2> QED
    BY <1>1, <1>2, <1>3, <1>5, <2>1, <2>2, <2>3, StatusStepOwns
<1> QED
  BY <1>4, <1>5 DEF SyncStatus, want, next, f, g

LEMMA RecordOwns ==
  ASSUME OwnInv, Inv', NEW r \in Replicas, RecordStart(r) \/ EndCleanup(r)
  PROVE  OwnInv'
<1> DEFINE p == [pass[r] EXCEPT !.pc = "cleanup"]
<1>1. /\ StatusCallSucceeds(pass[r].held) \/ StatusCallFails(pass[r].held)
      /\ UNCHANGED <<now, jobs>> /\ cache' = cache
      /\ pass[r].held \in Objects /\ Agrees(pass[r].held, sj)
  BY PassFacts DEF RecordStart, EndCleanup, GoTo, OwnInv
<1>2. p.held = pass[r].held /\ p.js = pass[r].js /\ p.pc = "cleanup"
  BY OwnFacts DEF Passes
<1>3. pass' = [pass EXCEPT ![r] = p] \/ pass' = [pass EXCEPT ![r] = Resting]
  BY DEF RecordStart, EndCleanup, GoTo, OwnInv, Inv, TypeOK
<1> HIDE DEF p
<1>4. TypeOK /\ Foreseen(p) /\ Foreseen(Resting)
  BY <1>2, OwnFacts, RestingOwned, RestingType
<1>5. CASE pass' = [pass EXCEPT ![r] = p]
  BY <1>1, <1>2, <1>4, <1>5, OwnFacts, StatusStepOwns
<1>6. CASE pass' = [pass EXCEPT ![r] = Resting]
  <2>1. Resting.js \in [Instants -> Jobs] /\ Resting.held = NoObject /\ NoObject \in Objects
    BY RestingType, NoObjectType DEF Passes
  <2> QED
    BY <1>1, <1>4, <1>6, <2>1, OwnFacts, RestingOwned, StatusStepOwns
<1> QED
  BY <1>3, <1>5, <1>6

LEMMA GetVictimOwns ==
  ASSUME OwnInv, Inv', NEW r \in Replicas, GetVictim(r)
  PROVE  OwnInv'
<1>1. UNCHANGED <<now, sj, log>> /\ Moved /\ pass[r].pc = "replace"
  BY OwnFacts, NothingMoves DEF GetVictim
<1>2. PICK v \in pass[r].queue :
        \/ /\ pass' = [pass EXCEPT ![r].victim = RefTo(jobs, v[1]),
                                   ![r].queue = @ \ {v},
                                   ![r].pc = "kill"]
           /\ UNCHANGED cache
        \/ GoTo(r, "cleanup")
  BY DEF GetVictim
<1>3. CASE GoTo(r, "cleanup")
  BY <1>1, <1>3, GoToOwns
<1>4. CASE ~GoTo(r, "cleanup")
  <2> DEFINE p == [pass[r] EXCEPT !.victim = RefTo(jobs, v[1]), !.queue = @ \ {v}, !.pc = "kill"]
  <2>1. pass' = [pass EXCEPT ![r] = p] /\ cache' = cache
    BY <1>2, <1>4 DEF OwnInv, Inv, TypeOK
  <2>2. p.held = pass[r].held /\ p.js = pass[r].js /\ p.pc = "kill"
    BY OwnFacts DEF Passes
  <2> HIDE DEF p
  <2>3. Foreseen(p)
    BY <1>1, <2>2, OwnFacts DEF Foreseen
  <2> QED
    BY <1>1, <2>1, <2>2, <2>3, OwnFacts, QuietOwns
<1> QED
  BY <1>3, <1>4

LEMMA KillVictimOwns ==
  ASSUME OwnInv, Inv', NEW r \in Replicas, KillVictim(r)
  PROVE  OwnInv'
<1> DEFINE v == pass[r].victim
           h == [pass[r].held EXCEPT !.active = @ \ {v}]
           p == [pass[r] EXCEPT !.held.active = @ \ {v},
                                !.pc = IF pass[r].queue = {} THEN "create" ELSE "replace"]
<1>1. v[1] \in Instants /\ TypeOK
  BY OwnFacts DEF Refs
<1>2. UNCHANGED <<now, sj, log>> /\ pass[r].pc = "kill"
  BY DEF KillVictim
<1>3. Moved
  BY <1>1, <1>2, JobsMove DEF KillVictim, DeleteCallSucceeds, DeleteCallFails
<1>4. CASE Mutate(r, p)
  <2>1. pass' = [pass EXCEPT ![r] = p] /\ (cache' = cache \/ cache' = [cache EXCEPT ![r] = p.held])
    BY <1>4 DEF Mutate
  <2>2. /\ p.held = h /\ p.js = pass[r].js /\ p.pc \in {"create", "replace"}
        /\ h.created = pass[r].held.created
    BY OwnFacts DEF Passes, Objects
  <2>3. h \in Objects /\ Owned(h, sj, jobs)
    BY OwnFacts, OwnedLess
  <2> HIDE DEF h, p
  <2>4. Foreseen(p)
    BY <1>2, <2>2, OwnFacts DEF Foreseen
  <2> QED
    BY <1>2, <1>3, <2>1, <2>2, <2>3, <2>4, QuietOwns
<1>5. CASE GoTo(r, "cleanup")
  BY <1>2, <1>3, <1>5, GoToOwns
<1> QED
  BY <1>4, <1>5 DEF KillVictim

(* What a pass plans to sweep it has listed as finished. *)
LEMMA SweepsFinished ==
  ASSUME NEW o, NEW js, NEW v \in ToSweep(o, js)
  PROVE  js[v[1]].state \in Over
<1>1. \A S, limit : Excess(js, S, limit) \subseteq S
  BY DEF Excess, OldestOf
<1>2. PICK t \in Finished(js, o, "Complete") \cup Finished(js, o, "Failed") : v = RefTo(js, t)
  BY <1>1 DEF ToSweep
<1>3. v[1] = t
  BY <1>2 DEF RefTo
<1> QED
  BY <1>2, <1>3 DEF Finished, Over

LEMMA BeginCleanupOwns ==
  ASSUME OwnInv, Inv', NEW r \in Replicas, BeginCleanup(r)
  PROVE  OwnInv'
<1> DEFINE S == ToSweep(pass[r].held, pass[r].js)
           p == [pass[r] EXCEPT !.pc = "sweep", !.queue = S]
<1>1. UNCHANGED <<now, sj, jobs, log, cache>> /\ Moved /\ LogExtends /\ TypeOK
  BY OwnFacts, NothingMoves, LogRests DEF BeginCleanup
<1>2. pass' = [pass EXCEPT ![r] = p] \/ pass' = [pass EXCEPT ![r] = Resting]
  BY DEF BeginCleanup, OwnInv, Inv, TypeOK
<1>3. \A v \in S : pass[r].js[v[1]].state \in Over
  BY SweepsFinished
<1> HIDE DEF S
<1>4. p.held = pass[r].held /\ p.js = pass[r].js /\ p.pc = "sweep" /\ p.queue = S
  BY OwnFacts DEF Passes
<1> HIDE DEF p
<1>5. CASE pass' = [pass EXCEPT ![r] = p]
  <2>1. Foreseen(p)
    BY <1>3, <1>4 DEF Foreseen
  <2> QED
    BY <1>1, <1>4, <1>5, <2>1, OwnFacts, QuietOwns
<1>6. CASE pass' = [pass EXCEPT ![r] = Resting]
  <2>1. cache' = [cache EXCEPT ![r] = cache[r]]
    BY <1>1 DEF TypeOK
  <2>2. Foreseen(Resting) /\ Listed(Resting.js, sj, jobs, now) /\ Owned(Resting.held, sj, jobs)
    BY <1>1, RestingType, RestingOwned
  <2> QED
    BY <1>1, <1>6, <2>1, <2>2, OwnFacts, PassOwns
<1> QED
  BY <1>2, <1>5, <1>6

LEMMA SweepOwns ==
  ASSUME OwnInv, Inv', NEW r \in Replicas, Sweep(r)
  PROVE  OwnInv'
<1>1. PICK v \in pass[r].queue :
        \/ /\ DeleteCallSucceeds(v[1])
           /\ Mutate(r, [pass[r] EXCEPT !.held.active = @ \ {v}, !.queue = @ \ {v}])
        \/ /\ DeleteCallFails(v[1])
           /\ pass' = [pass EXCEPT ![r].queue = @ \ {v}]
           /\ UNCHANGED cache
  BY DEF Sweep
<1>2. v[1] \in Instants /\ TypeOK
  BY OwnFacts DEF Refs
<1>3. UNCHANGED <<now, sj, log>> /\ pass[r].pc = "sweep"
  BY DEF Sweep
<1>4. Moved
  BY <1>1, <1>2, <1>3, JobsMove DEF DeleteCallSucceeds, DeleteCallFails
<1> DEFINE h == [pass[r].held EXCEPT !.active = @ \ {v}]
           p == [pass[r] EXCEPT !.held.active = @ \ {v}, !.queue = @ \ {v}]
           q == [pass[r] EXCEPT !.queue = @ \ {v}]
<1>5. /\ p.held = h /\ p.js = pass[r].js /\ p.pc = "sweep" /\ p.queue \subseteq pass[r].queue
      /\ q.held = pass[r].held /\ q.js = pass[r].js /\ q.pc = "sweep" /\ q.queue \subseteq pass[r].queue
  BY <1>3, OwnFacts DEF Passes, Objects
<1>6. h \in Objects /\ Owned(h, sj, jobs)
  BY OwnFacts, OwnedLess
<1>7. \/ pass' = [pass EXCEPT ![r] = p] /\ (cache' = cache \/ cache' = [cache EXCEPT ![r] = p.held])
      \/ pass' = [pass EXCEPT ![r] = q] /\ cache' = cache
  BY <1>1 DEF Mutate, OwnInv, Inv, TypeOK
<1> HIDE DEF h, p, q
<1>8. Foreseen(p) /\ Foreseen(q)
  BY <1>3, <1>5, OwnFacts DEF Foreseen
<1>9. CASE pass' = [pass EXCEPT ![r] = p] /\ (cache' = cache \/ cache' = [cache EXCEPT ![r] = p.held])
  BY <1>3, <1>4, <1>5, <1>6, <1>8, <1>9, QuietOwns
<1>10. CASE pass' = [pass EXCEPT ![r] = q] /\ cache' = cache
  BY <1>3, <1>4, <1>5, <1>8, <1>10, OwnFacts, QuietOwns
<1> QED
  BY <1>7, <1>9, <1>10

(* The Job created has the UID of the copy the pass holds for its owner,   *)
(* and the reference entered is to that Job.                               *)
LEMMA CreateJobOwns ==
  ASSUME OwnInv, Inv', NEW r \in Replicas, CreateJob(r)
  PROVE  OwnInv'
<1> DEFINE o == pass[r].held
           t == ScheduledTime(o, pass[r].at)
           x == <<t, jobs[t].uid + 1>>
           h == Started(o, t, x)
           p == [pass[r] EXCEPT !.held = h, !.pc = "record"]
<1>1. UNCHANGED <<now, sj, log>> /\ pass[r].pc = "create" /\ TypeOK
  BY OwnFacts DEF CreateJob
<1>2. \/ jobs' = Created(t, o) /\ (Mutate(r, p) \/ GoTo(r, "cleanup"))
      \/ jobs' = jobs /\ GoTo(r, "cleanup")
  BY DEF CreateJob
<1>3. t \in Instants
  BY <1>1, OwnFacts, PassFacts, ScheduledTimeType DEF Decided
<1>4. o \in Objects /\ Owned(o, sj, jobs) /\ o.uid \in Nat /\ o.uid > 0
  BY <1>1, OwnFacts, PassFacts, ObjectNumbers DEF Decided, Owned
<1>5. /\ h.uid = o.uid /\ h.phase = o.phase /\ h.active = o.active \cup {x}
      /\ p.held = h /\ p.js = pass[r].js /\ p.pc = "record"
  BY <1>4, OwnFacts DEF Started, Objects, Passes
<1> HIDE DEF o, t, h, p
<1>6. CASE jobs' = jobs /\ GoTo(r, "cleanup")
  BY <1>1, <1>6, NothingMoves, GoToOwns
<1>7. CASE jobs' = Created(t, o) /\ (Mutate(r, p) \/ GoTo(r, "cleanup"))
  <2>1. jobs' = [jobs EXCEPT ![t] = [uid |-> jobs[t].uid + 1, owner |-> o.uid,
                                     state |-> "Running", start |-> now]]
    BY <1>7 DEF Created
  <2>2. /\ jobs'[t].uid = jobs[t].uid + 1 /\ jobs'[t].owner = o.uid /\ jobs'[t].start = now
        /\ \A u \in Instants \ {t} : jobs'[u] = jobs[u]
    BY <1>1, <1>3, <2>1 DEF TypeOK
  <2>3. Moved
    <3>1. now' >= now /\ ObjectMoves
      BY <1>1, Numbers DEF ObjectMoves
    <3>2. JobMoves(jobs[t], jobs'[t])
      BY <1>1, <1>3, <1>4, <2>2, Numbers DEF JobMoves
    <3>3. \A u \in Instants \ {t} : JobMoves(jobs[u], jobs'[u])
      BY <1>1, <2>2, Numbers DEF JobMoves
    <3> QED
      BY <3>1, <3>2, <3>3 DEF Moved
  <2>4. TypeOK'
    BY DEF Inv
  <2>5. Owned(o, sj', jobs')
    BY <1>1, <1>4, <2>3, <2>4, MovedOwned
  <2>6. Owned(h, sj', jobs')
    <3>1. RefOwned(x, h, sj', jobs')
      BY <1>1, <1>3, <1>5, <2>2, Numbers DEF RefOwned
    <3>2. \A y : RefOwned(y, o, sj', jobs') => RefOwned(y, h, sj', jobs')
      BY <1>5 DEF RefOwned
    <3> HIDE DEF x
    <3> QED
      BY <1>5, <2>5, <3>1, <3>2 DEF Owned
  <2>7. Owned(sj', sj', jobs')
    BY <1>1, <2>3, <2>4, OwnFacts, MovedOwned, Numbers
  <2>8. CASE Mutate(r, p)
    <3>1. pass' = [pass EXCEPT ![r] = p] /\ (cache' = cache \/ cache' = [cache EXCEPT ![r] = p.held])
      BY <2>8 DEF Mutate
    <3>2. cache = [cache EXCEPT ![r] = cache[r]]
      BY <1>1 DEF TypeOK
    <3>3. LogExtends
      BY <1>1, LogRests
    <3>4. Owned(cache[r], sj', jobs') /\ Listed(p.js, sj', jobs', now') /\ Foreseen(p)
      BY <1>5, <2>3, <2>7, <3>3, HeldThrough, RestingOwned, <1>1
    <3>5. \E c : cache' = [cache EXCEPT ![r] = c] /\ Owned(c, sj', jobs')
      BY <1>5, <2>6, <3>1, <3>2, <3>4
    <3> QED
      BY <1>5, <2>3, <2>6, <2>7, <3>1, <3>3, <3>4, <3>5, PassOwns
  <2>9. CASE GoTo(r, "cleanup")
    BY <1>1, <2>3, <2>9, GoToOwns
  <2> QED
    BY <1>7, <2>8, <2>9
<1> QED
  BY <1>2, <1>6, <1>7
-----------------------------------------------------------------------------
(* The informer, the process and the rest of the cluster.                  *)

LEMMA InformerOwns ==
  ASSUME OwnInv, Inv', NEW r \in Replicas, List(r) \/ Deliver(r) \/ Relist(r) \/ Crash(r) \/ Start(r)
  PROVE  OwnInv'
<1> DEFINE p == [pass[r] EXCEPT !.shared = FALSE]
           d == [Resting EXCEPT !.pc = "down"]
<1>1. UNCHANGED <<now, sj, jobs>> /\ TypeOK /\ Moved
  BY OwnFacts, NothingMoves DEF List, Deliver, Relist, Receive, Crash, Start
<1>2. LogExtends
  BY StoreTakes DEF OwnInv
<1>3. Owned(sj', sj', jobs')
  BY <1>1, OwnFacts
<1>4. PICK c \in {cache[r], NoObject} \cup {log[v] : v \in 1..Len(log)} : cache' = [cache EXCEPT ![r] = c]
  BY StoreTakes DEF OwnInv
<1>5. Owned(c, sj', jobs')
  BY <1>1, <1>4, OwnFacts, RestingOwned, RestingType DEF OwnInv, CopiesOwned
<1>6. pass' = [pass EXCEPT ![r] = p] \/ pass' = [pass EXCEPT ![r] = d] \/ pass' = [pass EXCEPT ![r] = Resting]
  BY <1>1 DEF List, Deliver, Relist, Receive, Crash, Start, TypeOK
<1>7. /\ p.held = pass[r].held /\ p.js = pass[r].js /\ p.pc = pass[r].pc /\ p.queue = pass[r].queue
      /\ d.held = Resting.held /\ d.js = Resting.js /\ d.pc = "down" /\ Resting.pc = "idle"
  BY OwnFacts, RestingType DEF Passes, PassStates
<1> HIDE DEF p, d
<1>8. ASSUME NEW q, pass' = [pass EXCEPT ![r] = q], Owned(q.held, sj, jobs),
              Listed(q.js, sj, jobs, now), Foreseen(q)
       PROVE  OwnInv'
  BY <1>1, <1>2, <1>3, <1>4, <1>5, <1>8, PassOwns
<1>9. CASE pass' = [pass EXCEPT ![r] = p]
  <2>1. Foreseen(p)
    BY <1>7, OwnFacts DEF Foreseen
  <2> QED
    BY <1>7, <1>8, <1>9, <2>1, OwnFacts
<1>10. CASE pass' = [pass EXCEPT ![r] = d]
  BY <1>1, <1>7, <1>8, <1>10, RestingType, RestingOwned
<1>11. CASE pass' = [pass EXCEPT ![r] = Resting]
  BY <1>1, <1>7, <1>8, <1>11, RestingType, RestingOwned
<1> QED
  BY <1>6, <1>9, <1>10, <1>11

(* A step of others that keeps the TZCronJob the one it is, or its Jobs.   *)
LEMMA OthersOwn ==
  ASSUME OwnInv, Inv',
         \/ \E t \in Instants : Finish(t) \/ Reap(t) \/ Orphan(t) \/ Collect(t)
         \/ Edit \/ Delete \/ Finalize \/ Tick \/ UNCHANGED vars
  PROVE  OwnInv'
<1>1. TypeOK /\ TypeOK' /\ UNCHANGED <<cache, pass>> /\ Owned(sj, sj, jobs)
  BY DEF OwnInv, Inv, CopiesOwned, Finish, Reap, Orphan, Collect, Edit, Delete, Finalize, Tick, vars
<1>2. CASE \E t \in Instants : Finish(t) \/ Reap(t) \/ Orphan(t) \/ Collect(t)
  <2>1. PICK t \in Instants : Finish(t) \/ Reap(t) \/ Orphan(t) \/ Collect(t)
    BY <1>2
  <2>2. UNCHANGED <<now, sj, log>>
    BY <2>1 DEF Finish, Reap, Orphan, Collect
  <2>3. Moved
    <3>1. CASE Reap(t) \/ Collect(t)
      BY <1>1, <2>2, <3>1, JobsMove DEF Reap, Collect
    <3>2. CASE Finish(t) \/ Orphan(t)
      <4>1. now' >= now /\ ObjectMoves
        BY <1>1, <2>2, Numbers DEF ObjectMoves
      <4>2. ASSUME NEW u \in Instants PROVE JobMoves(jobs[u], jobs'[u])
        <5>1. jobs[u] \in Jobs /\ jobs[u].uid \in Nat
          BY <1>1, Numbers
        <5>2. CASE jobs'[u] = jobs[u]
          BY <5>1, <5>2 DEF JobMoves
        <5>3. CASE Finish(t) /\ u = t
          <6>1. PICK how \in Outcomes : jobs'[u] = [jobs[u] EXCEPT !.state = how]
            BY <1>1, <5>3 DEF Finish, TypeOK
          <6>2. jobs[u].state = "Running" /\ how # "Running"
            BY <5>3, ControllerAssumption DEF Finish
          <6> QED
            BY <5>1, <6>1, <6>2 DEF JobMoves, Jobs
        <5>4. CASE Orphan(t) /\ u = t
          <6>1. jobs'[u] = [jobs[u] EXCEPT !.owner = 0]
            BY <1>1, <5>4 DEF Orphan, TypeOK
          <6>2. /\ jobs[u].state # "Absent" /\ jobs[u].owner = sj.uid
                /\ sj'.uid = sj.uid /\ sj'.phase # "live"
            BY <2>2, <5>4 DEF Orphan, Children
          <6> QED
            BY <5>1, <6>1, <6>2 DEF JobMoves, Jobs
        <5> QED
          BY <1>1, <3>2, <5>2, <5>3, <5>4 DEF Finish, Orphan, TypeOK
      <4> QED
        BY <4>1, <4>2 DEF Moved
    <3> QED
      BY <2>1, <3>1, <3>2
  <2>4. Owned(sj', sj', jobs')
    BY <1>1, <2>2, <2>3, Numbers, MovedOwned
  <2> QED
    BY <1>1, <2>2, <2>3, <2>4, LogRests, ClusterOwns
<1>3. CASE Edit \/ Delete \/ Finalize
  <2>1. UNCHANGED <<now, jobs>>
    BY <1>3 DEF Edit, Delete, Finalize
  <2>2. /\ sj' \in Objects /\ sj'.uid = sj.uid /\ sj'.created = sj.created /\ sj'.active = sj.active
        /\ sj.phase = "live" \/ sj'.phase # "live"
    <3>1. sj \in Objects
      BY <1>1 DEF TypeOK
    <3>2. CASE Edit
      BY <1>1, <3>1, <3>2 DEF Edit, Publish, Objects, TypeOK
    <3>3. CASE Delete
      BY <1>1, <3>1, <3>3 DEF Delete, Publish, Objects, TypeOK
    <3>4. CASE Finalize
      BY <1>1, <3>1, <3>4 DEF Finalize, Publish, Objects, TypeOK
    <3> QED
      BY <1>3, <3>2, <3>3, <3>4
  <2>3. log' = log \/ log' = Append(log, sj')
    BY <1>3 DEF Edit, Delete, Finalize, Publish
  <2>4. Moved
    <3>1. now' >= now /\ ObjectMoves
      BY <1>1, <2>1, <2>2, Numbers DEF ObjectMoves
    <3>2. \A u \in Instants : JobMoves(jobs[u], jobs'[u])
      BY <1>1, <2>1, Numbers DEF JobMoves
    <3> QED
      BY <3>1, <3>2 DEF Moved
  <2>5. Owned(sj', sj', jobs')
    <3>1. \A x : RefOwned(x, sj, sj, jobs) => RefOwned(x, sj', sj', jobs')
      BY <1>1, <2>1, <2>2, Numbers DEF RefOwned
    <3>2. sj'.uid <= sj'.uid /\ (sj'.phase = "live" => sj'.uid > 0)
      BY <1>1, <2>2, Numbers DEF Owned
    <3> QED
      BY <1>1, <2>2, <3>1, <3>2 DEF Owned
  <2>6. LogExtends
    BY <2>2, <2>3, LogAppends DEF OwnInv
  <2> QED
    BY <1>1, <2>4, <2>5, <2>6, ClusterOwns
<1>4. CASE Tick
  <2>1. UNCHANGED <<sj, jobs, log>> /\ now' = now + 1
    BY <1>4 DEF Tick
  <2>2. Moved
    <3>1. now' >= now /\ ObjectMoves
      BY <1>1, <2>1, Numbers DEF ObjectMoves
    <3>2. \A u \in Instants : JobMoves(jobs[u], jobs'[u])
      BY <1>1, <2>1, Numbers DEF JobMoves
    <3> QED
      BY <3>1, <3>2 DEF Moved
  <2> QED
    BY <1>1, <2>1, <2>2, LogRests, ClusterOwns
<1>5. CASE UNCHANGED vars
  <2>1. UNCHANGED <<now, sj, jobs, log>>
    BY <1>5 DEF vars
  <2> QED
    BY <1>1, <2>1, NothingMoves, LogRests, ClusterOwns
<1> QED
  BY <1>2, <1>3, <1>4, <1>5

(* A new TZCronJob of the name owns no Job yet and refers to none. *)
LEMMA RecreateOwns ==
  ASSUME OwnInv, Inv', Recreate
  PROVE  OwnInv'
<1>1. UNCHANGED <<now, jobs, cache, pass>> /\ TypeOK
  BY DEF Recreate, OwnInv, Inv
<1>2. PICK s \in Specs : Publish(NewObject(s, sj.rv + 1, sj.uid + 1))
  BY DEF Recreate
<1>3. /\ sj' = NewObject(s, sj.rv + 1, sj.uid + 1)
      /\ log' = log \/ log' = Append(log, sj')
  BY <1>2 DEF Publish
<1>4. sj'.uid = sj.uid + 1 /\ sj'.created = now /\ sj'.active = {} /\ sj' \in Objects
  BY <1>3 DEF NewObject, Inv, TypeOK
<1>5. Moved
  <2>1. now' >= now /\ ObjectMoves
    BY <1>1, <1>4, Numbers DEF ObjectMoves
  <2>2. \A u \in Instants : JobMoves(jobs[u], jobs'[u])
    BY <1>1, Numbers DEF JobMoves
  <2> QED
    BY <2>1, <2>2 DEF Moved
<1>6. Owned(sj', sj', jobs')
  BY <1>1, <1>4, Numbers DEF Owned
<1>7. LogExtends
  BY <1>3, <1>4, LogAppends DEF OwnInv
<1> QED
  BY <1>1, <1>5, <1>6, <1>7, ClusterOwns
-----------------------------------------------------------------------------
LEMMA OwnedInitially == Init => OwnInv
<1> SUFFICES ASSUME Init PROVE OwnInv
  OBVIOUS
<1>1. PICK s \in Specs : sj = NewObject(s, 1, 1)
  BY DEF Init
<1>2. Inv /\ TypeOK
  BY InvInitially DEF Inv
<1> DEFINE d == [Resting EXCEPT !.pc = "down"]
<1>3. d.held = NoObject /\ d.js = Resting.js /\ d.pc = "down"
  BY RestingType DEF Passes, PassStates
<1>4. pass = [r \in Replicas |-> d] /\ cache = [r \in Replicas |-> NoObject]
      /\ log = <<sj>>
  BY DEF Init
<1> HIDE DEF d
<1>5. Owned(sj, sj, jobs)
  BY <1>1 DEF NewObject, Owned
<1>6. Listed(jobs, sj, jobs, now)
  <2>1. now = 0 /\ \A t \in Instants : jobs[t] = NoJob
    BY DEF Init
  <2> QED
    BY <2>1 DEF Listed, Seen, NoJob, Orphaned, Over
<1>7. CopiesOwned
  BY <1>2, <1>3, <1>4, <1>5, RestingOwned DEF CopiesOwned
<1>8. ListsSeen
  BY <1>2, <1>3, <1>4, <1>6, RestingOwned DEF ListsSeen
<1> QED
  BY <1>2, <1>7, <1>8 DEF OwnInv

LEMMA OwnedAlways == OwnInv /\ [Next]_vars => OwnInv'
<1> SUFFICES ASSUME OwnInv, [Next]_vars PROVE OwnInv'
  OBVIOUS
<1>1. Inv'
  BY InvPreserved DEF OwnInv
<1>2. ASSUME NEW r \in Replicas, PassStep(r) PROVE OwnInv'
  BY <1>1, <1>2, ListingOwns, SyncStatusOwns, GetVictimOwns, KillVictimOwns, CreateJobOwns,
     RecordOwns, BeginCleanupOwns, SweepOwns DEF PassStep
<1>3. ASSUME NEW r \in Replicas, List(r) \/ Deliver(r) \/ Relist(r) \/ Crash(r) \/ Start(r)
      PROVE  OwnInv'
  BY <1>1, <1>3, InformerOwns
<1>4. CASE \/ \E t \in Instants : Finish(t) \/ Reap(t) \/ Orphan(t) \/ Collect(t)
           \/ Tick \/ Edit \/ Delete \/ Finalize \/ UNCHANGED vars
  BY <1>1, <1>4, OthersOwn
<1>5. CASE Recreate
  BY <1>1, <1>5, RecreateOwns
<1> QED
  BY <1>2, <1>3, <1>4, <1>5 DEF Next

(* At every moment, whatever was edited, deleted, lost or restarted:       *)
(* copies refer to Jobs of the TZCronJob they are copies of, and lists are *)
(* outdated in the known ways only.                                        *)
THEOREM Ownership == Spec => []OwnInv
<1>1. Init => OwnInv
  BY OwnedInitially
<1>2. OwnInv /\ [Next]_vars => OwnInv'
  BY OwnedAlways
<1> QED
  BY <1>1, <1>2, PTL DEF Spec

(* Where syncOne goes on to replace and create Jobs in a pass that listed a *)
(* released Job, it works for a TZCronJob created no earlier than that Job  *)
(* was started, not for the former parent.  (The sweep is not covered.)     *)
THEOREM OrphansLeft == Spec => []OrphansAreLeft
<1>1. OwnInv => OrphansAreLeft
  BY DEF OwnInv, ListsSeen, Foreseen, Orphaned, OrphansAreLeft, Deciding
<1> QED
  BY <1>1, Ownership, PTL

(* Status.Active of a TZCronJob that is not being deleted refers to no Job *)
(* of another one, whichever replica wrote it from whichever copy.         *)
THEOREM ActiveOwned == Spec => []ActiveIsOwned
<1>1. OwnInv => ActiveIsOwned
  <2> SUFFICES ASSUME OwnInv, NEW x \in sj.active, Exists(x[1]), jobs[x[1]].uid = x[2]
               PROVE  jobs[x[1]].owner = sj.uid \/ sj.phase # "live"
    BY DEF ActiveIsOwned
  <2>1. TypeOK /\ RefOwned(x, sj, sj, jobs)
    BY DEF OwnInv, Inv, CopiesOwned, Owned
  <2> QED
    BY <2>1, Numbers DEF RefOwned, Exists
<1> QED
  BY <1>1, Ownership, PTL

(* As long as no scheduled time is run twice, cleanupFinishedJobs deletes  *)
(* no Job that runs: it deletes by name what it listed as finished, and    *)
(* what has finished does not run again.                                   *)
THEOREM SweepSpares == Spec /\ []RunAtMostOnce => SweepSparesRunning
<1> DEFINE Spared == \A r \in Replicas, t \in Instants :
                       (Sweep(r) /\ jobs[t].state = "Running") => jobs'[t].state = "Running"
<1>1. OwnInv /\ RunAtMostOnce => Spared
  <2> SUFFICES ASSUME OwnInv, RunAtMostOnce, NEW r \in Replicas, NEW t \in Instants,
                      Sweep(r), jobs[t].state = "Running"
               PROVE  jobs'[t].state = "Running"
    OBVIOUS
  <2>1. PICK v \in pass[r].queue : jobs' = jobs \/ jobs' = Deleted(v[1])
    BY DEF Sweep, DeleteCallSucceeds, DeleteCallFails
  <2>2. v[1] # t
    <3> SUFFICES ASSUME v[1] = t PROVE FALSE
      OBVIOUS
    <3> DEFINE l == pass[r].js[t]
    <3>1. l.state \in Over /\ Seen(l, sj, jobs[t], now) /\ l \in Jobs
      BY <2>1, OwnFacts DEF Sweep, Foreseen, Listed
    <3>2. l.uid \in Nat /\ jobs[t].uid \in Nat /\ jobs[t].uid <= 1
      BY <3>1, OwnFacts, Numbers DEF Jobs, RunAtMostOnce
    <3>3. l.uid = jobs[t].uid
      BY <3>1, <3>2 DEF Seen, Over
    <3> QED
      BY <3>1, <3>3 DEF Seen
  <2> QED
    BY <2>1, <2>2, OwnFacts DEF Deleted, TypeOK
<1>2. Spec => []OwnInv /\ [][Next]_vars
  BY Ownership DEF Spec
<1> QED
  BY <1>1, <1>2, PTL DEF SweepSparesRunning
-----------------------------------------------------------------------------
(* What the sweep leaves: one replica, and Jobs and TZCronJob are deleted  *)
(* by nobody else.                                                         *)

LeftAlone == Budget["reap"] = 0 /\ Budget["delete"] = 0

Listing == {"listed", "sync", "replace", "kill", "create", "record", "cleanup"}

(* The Job listed as t, if it had finished, is the one there is. *)
AsListed(p, t, js) == p.js[t].state \in Over => js[t] = p.js[t]

(* Until the sweep nothing that was listed as finished is touched.  What   *)
(* the sweep has still to remove is the end of what it set out to remove,  *)
(* and the rest is as it was listed.                                       *)
Spared(p, js) ==
  /\ p.pc \in Listing => \A t \in Instants : AsListed(p, t, js)
  /\ p.pc \in {"replace", "kill"} => \A q \in p.queue : p.js[q[1]].state \notin Over
  /\ p.pc = "kill" => p.js[p.victim[1]].state \notin Over
  /\ p.pc = "sweep" =>
       LET S == ToSweep(p.held, p.js)
       IN  /\ p.queue \subseteq S
           /\ \A q \in p.queue, x \in S : SweptBefore(p.js, q, x) => x \in p.queue
           /\ \A t \in Instants : RefTo(p.js, t) \in S \ p.queue \/ AsListed(p, t, js)

(* The inductive invariant, w being the replica. *)
KeepInv(w) ==
  /\ OwnInv /\ sj.phase = "live" /\ sj.uid = 1
  /\ \A t \in Instants : Exists(t) => jobs[t].owner = 1
  /\ Spared(pass[w], jobs)

(* Nobody deletes the TZCronJob, so it is the first of its name for good. *)
LEMMA FirstOfItsName ==
  ASSUME TypeOK, Budget["delete"] = 0, sj.phase = "live", sj.uid = 1, [Next]_vars
  PROVE  sj'.phase = "live" /\ sj'.uid = 1
<1>1. sj \in Objects /\ ~Spend("delete")
  BY DEF Spend, TypeOK, Events
<1>2. ~Delete /\ ~Finalize /\ ~Recreate
  BY <1>1 DEF Delete, Finalize, Recreate
<1>3. CASE sj' = sj
  BY <1>3
<1>4. CASE Edit
  BY <1>1, <1>4 DEF Edit, Publish, Objects
<1>5. ASSUME NEW o, StatusCallSucceeds(o) \/ StatusCallFails(o)
      PROVE  sj'.phase = "live" /\ sj'.uid = 1
  <2>1. sj' = sj \/ sj' = [sj EXCEPT !.active = o.active, !.lst = o.lst, !.rv = @ + 1]
    BY <1>5 DEF StatusCallSucceeds, StatusCallFails, Publish, Stored
  <2> QED
    BY <1>1, <2>1 DEF Objects
<1>6. ASSUME NEW r \in Replicas, PassStep(r) PROVE sj'.phase = "live" /\ sj'.uid = 1
  BY <1>3, <1>5, <1>6 DEF PassStep, ListJobs, ListTZCronJobs, SyncStatus, GetVictim, KillVictim,
     CreateJob, RecordStart, BeginCleanup, Sweep, EndCleanup
<1> QED
  BY <1>2, <1>3, <1>4, <1>6 DEF Next, List, Deliver, Relist, Receive, Crash, Start, Finish, Reap, Orphan, Collect, Tick, vars

LEMMA KeepFacts ==
  ASSUME NEW w, Replicas = {w}, KeepInv(w)
  PROVE  /\ w \in Replicas /\ Inv /\ TypeOK /\ pass[w] \in Passes /\ pass[w].held \in Objects
         /\ pass[w].js \in [Instants -> Jobs] /\ Spared(pass[w], jobs)
         /\ pass[w].queue \in SUBSET Refs /\ pass[w].victim \in Refs
         /\ jobs \in [Instants -> Jobs]
<1>1. w \in Replicas /\ pass[w] \in Passes
  BY DEF KeepInv, OwnInv, Inv, TypeOK
<1> QED
  BY <1>1 DEF KeepInv, OwnInv, Inv, TypeOK, Passes

(* Jobs that had finished are left. *)
Rests == \A t \in Instants : jobs[t].state \in Over => jobs'[t] = jobs[t]

LEMMA SparedRests ==
  ASSUME Rests, NEW p, Spared(p, jobs)
  PROVE  Spared(p, jobs')
<1>1. \A t \in Instants : AsListed(p, t, jobs) => AsListed(p, t, jobs')
  BY DEF Rests, AsListed
<1> QED
  BY <1>1 DEF Spared

(* Nothing is asked of a pass in these states. *)
LEMMA SparedAtRest ==
  ASSUME NEW p, p.pc \in {"down", "idle"}, NEW js
  PROVE  Spared(p, js)
BY DEF Spared, Listing

(* A pass that goes on to one of these. *)
LEMMA SparedOn ==
  ASSUME NEW p, NEW q, NEW js, Spared(p, js), p.pc \in Listing,
         q.js = p.js, q.pc \in {"sync", "create", "record", "cleanup"}
  PROVE  Spared(q, js)
BY DEF Spared, Listing, AsListed

LEMMA GoToSpared ==
  ASSUME NEW w, Replicas = {w}, KeepInv(w), pass[w].pc \in Listing, GoTo(w, "cleanup"),
         \A t \in Instants : AsListed(pass[w], t, jobs) => AsListed(pass[w], t, jobs')
  PROVE  Spared(pass'[w], jobs')
<1> DEFINE p == [pass[w] EXCEPT !.pc = "cleanup"]
<1>1. pass'[w] = p
  BY KeepFacts DEF GoTo, TypeOK
<1>2. p.js = pass[w].js /\ p.pc = "cleanup"
  BY KeepFacts DEF Passes
<1> HIDE DEF p
<1>3. \A t \in Instants : AsListed(p, t, jobs')
  BY <1>2, KeepFacts DEF Spared, AsListed
<1> QED
  BY <1>1, <1>2, <1>3 DEF Spared

(* What the pass writes before it decides refers to Jobs listed as running *)
(* only, so that Replace deletes none that had finished.                   *)
LEMMA SyncStatusSpared ==
  ASSUME NEW w, Replicas = {w}, KeepInv(w), SyncStatus(w)
  PROVE  Spared(pass'[w], jobs')
<1> DEFINE js == pass[w].js
           want == Pruned(pass[w].held, js)
           next == Stored(want)
           f == Fenced(w, next)
           g == Refused(w, want)
<1>1. jobs' = jobs /\ pass[w].pc = "sync" /\ (pass'[w] = f \/ pass'[w] = g)
  BY KeepFacts DEF SyncStatus, Mutate, TypeOK
<1>2. \A x \in want.active : js[x[1]].state \notin Over
  BY KeepFacts DEF Pruned, Objects, Over
<1>3. next.active = want.active
  BY KeepFacts DEF Stored, TypeOK, Objects
<1> HIDE DEF want, next
<1> DEFINE q == IF MayStart(next, pass[w].at) /\ Replaces(next) THEN next.active ELSE {}
           l == IF ~MayStart(next, pass[w].at) THEN "cleanup"
                ELSE IF Replaces(next) THEN "replace" ELSE "create"
<1>4. f.js = js /\ f.pc = l /\ f.queue = q /\ g.js = js /\ g.pc = "cleanup"
  <2>1. f = [pass[w] EXCEPT !.held = next, !.queue = q, !.pc = l]
    BY DEF Fenced
  <2> HIDE DEF f, q, l
  <2>2. f.js = js /\ f.pc = l /\ f.queue = q
    BY <2>1, KeepFacts DEF Passes
  <2> QED
    BY <2>2, KeepFacts DEF Refused, Passes
<1>5. \A x \in q : js[x[1]].state \notin Over
  BY <1>2, <1>3
<1>6. l \in {"cleanup", "replace", "create"}
  OBVIOUS
<1> HIDE DEF f, g, q, l, js
<1>7. \A t \in Instants : AsListed(f, t, jobs) /\ AsListed(g, t, jobs)
  BY <1>1, <1>4, KeepFacts DEF Spared, Listing, AsListed, js
<1>8. Spared(f, jobs)
  BY <1>4, <1>5, <1>6, <1>7 DEF Spared
<1>9. Spared(g, jobs)
  BY <1>4, <1>7 DEF Spared
<1> QED
  BY <1>1, <1>8, <1>9

LEMMA ListingSpared ==
  ASSUME NEW w, Replicas = {w}, KeepInv(w), ListJobs(w) \/ ListTZCronJobs(w)
  PROVE  Spared(pass'[w], jobs')
<1>1. jobs' = jobs
  BY DEF ListJobs, ListTZCronJobs
<1>2. CASE ListJobs(w)
  <2>1. pass'[w].js = jobs /\ pass'[w].pc = "listed"
    BY <1>2, KeepFacts DEF ListJobs, TypeOK, Passes
  <2> QED
    BY <1>1, <2>1 DEF Spared, AsListed
<1>3. CASE ListTZCronJobs(w) /\ cache[w].phase = "gone"
  <2>1. pass'[w] = Resting
    BY <1>3, KeepFacts DEF ListTZCronJobs, TypeOK
  <2> QED
    BY <2>1, RestingType, SparedAtRest
<1>4. CASE ListTZCronJobs(w) /\ cache[w].phase # "gone"
  <2>1. pass'[w].js = pass[w].js /\ pass'[w].pc = "sync" /\ pass[w].pc \in Listing
    BY <1>4, KeepFacts DEF ListTZCronJobs, TypeOK, Passes, Listing
  <2> QED
    BY <1>1, <2>1, KeepFacts, SparedOn
<1> QED
  BY <1>2, <1>3, <1>4

LEMMA ReplaceSpared ==
  ASSUME NEW w, Replicas = {w}, KeepInv(w), GetVictim(w) \/ KillVictim(w)
  PROVE  Spared(pass'[w], jobs')
<1> DEFINE p == pass[w]
<1>1. p.pc \in Listing /\ \A t \in Instants : AsListed(p, t, jobs)
  BY KeepFacts DEF GetVictim, KillVictim, Listing, Spared
<1>2. CASE GetVictim(w)
  <2>1. jobs' = jobs
    BY <1>2 DEF GetVictim
  <2>2. PICK v \in p.queue :
          \/ pass' = [pass EXCEPT ![w].victim = RefTo(jobs, v[1]), ![w].queue = @ \ {v}, ![w].pc = "kill"]
          \/ GoTo(w, "cleanup")
    BY <1>2 DEF GetVictim
  <2>3. CASE GoTo(w, "cleanup")
    BY <1>1, <2>1, <2>3, GoToSpared
  <2>4. CASE pass' = [pass EXCEPT ![w].victim = RefTo(jobs, v[1]), ![w].queue = @ \ {v}, ![w].pc = "kill"]
    <3>1. /\ pass'[w].js = p.js /\ pass'[w].pc = "kill" /\ pass'[w].queue = p.queue \ {v}
          /\ pass'[w].victim = RefTo(jobs, v[1])
      BY <2>4, KeepFacts DEF TypeOK, Passes
    <3>2. pass'[w].victim[1] = v[1]
      BY <3>1 DEF RefTo
    <3>3. \A q \in p.queue : p.js[q[1]].state \notin Over
      BY <1>2, KeepFacts DEF GetVictim, Spared
    <3> QED
      BY <1>1, <2>1, <3>1, <3>2, <3>3 DEF Spared, AsListed
  <2> QED
    BY <2>2, <2>3, <2>4
<1>3. CASE KillVictim(w)
  <2> DEFINE v == p.victim
             l == IF p.queue = {} THEN "create" ELSE "replace"
             n == [p EXCEPT !.held.active = @ \ {v}, !.pc = l]
  <2>1. v[1] \in Instants /\ p.js[v[1]].state \notin Over /\ \A q \in p.queue : p.js[q[1]].state \notin Over
    BY <1>3, KeepFacts DEF KillVictim, Spared, Refs
  <2>2. jobs' = jobs \/ jobs' = Deleted(v[1])
    BY <1>3 DEF KillVictim, DeleteCallSucceeds, DeleteCallFails
  <2>3. \A t \in Instants : AsListed(p, t, jobs')
    BY <1>1, <2>1, <2>2, KeepFacts DEF AsListed, Deleted
  <2>4. CASE GoTo(w, "cleanup")
    BY <1>1, <2>3, <2>4, GoToSpared
  <2>5. CASE Mutate(w, n)
    <3>1. pass'[w] = n
      BY <2>5, KeepFacts DEF Mutate, TypeOK
    <3>2. n.js = p.js /\ n.pc = l /\ n.queue = p.queue
      BY KeepFacts DEF Passes
    <3>3. l \in {"create", "replace"}
      OBVIOUS
    <3> HIDE DEF l, n
    <3>4. \A t \in Instants : AsListed(n, t, jobs')
      BY <2>3, <3>2 DEF AsListed
    <3> QED
      BY <2>1, <3>1, <3>2, <3>3, <3>4 DEF Spared
  <2> QED
    BY <1>3, <2>4, <2>5 DEF KillVictim
<1> QED
  BY <1>2, <1>3

(* The Job created had no predecessor that is listed as finished and left. *)
LEMMA CreateJobSpared ==
  ASSUME NEW w, Replicas = {w}, KeepInv(w), CreateJob(w)
  PROVE  Rests /\ Spared(pass'[w], jobs') /\ \A t \in Instants : jobs'[t].state # "Absent" => jobs'[t].owner = 1
<1> DEFINE o == pass[w].held
           t == ScheduledTime(o, pass[w].at)
           p == [pass[w] EXCEPT !.held = Started(o, t, <<t, jobs[t].uid + 1>>), !.pc = "record"]
<1>1. jobs' = jobs \/ (jobs' = Created(t, o) /\ ~Exists(t))
  BY DEF CreateJob, Admits
<1>2. Rests
  BY <1>1, KeepFacts DEF Rests, Created, Exists, Over, TypeOK
<1>3. o.uid = 1 /\ t \in Instants
  <2>1. Inv /\ pass[w].pc = "create" /\ o \in Objects /\ Owned(o, sj, jobs) /\ sj.uid = 1
    BY KeepFacts, OwnFacts DEF KeepInv, CreateJob
  <2>2. t \in Instants /\ o.phase = "live"
    BY <2>1, KeepFacts, PassFacts, ScheduledTimeType DEF Decided
  <2> QED
    BY <2>1, <2>2, ObjectNumbers DEF Owned
<1>4. \A u \in Instants : jobs'[u].state # "Absent" => jobs'[u].owner = 1
  <2>1. \A u \in Instants : jobs'[u] = jobs[u] \/ jobs'[u].owner = 1
    BY <1>1, <1>3, KeepFacts DEF Created, TypeOK
  <2> QED
    BY <2>1 DEF KeepInv, Exists
<1>5. CASE GoTo(w, "cleanup")
  <2>1. \A u \in Instants : AsListed(pass[w], u, jobs) => AsListed(pass[w], u, jobs')
    BY <1>2 DEF AsListed, Rests
  <2>2. pass[w].pc \in Listing
    BY DEF CreateJob, Listing
  <2> QED
    BY <1>2, <1>4, <1>5, <2>1, <2>2, GoToSpared
<1>6. CASE Mutate(w, p)
  <2>1. pass'[w] = p
    BY <1>6, KeepFacts DEF Mutate, TypeOK
  <2>2. p.js = pass[w].js /\ p.pc = "record" /\ pass[w].pc \in Listing
    BY KeepFacts DEF Passes, CreateJob, Listing
  <2> HIDE DEF p
  <2>3. Spared(p, jobs)
    BY <2>2, KeepFacts, SparedOn
  <2> QED
    BY <1>2, <1>4, <2>1, <2>3, SparedRests
<1> QED
  BY <1>5, <1>6 DEF CreateJob

(* What is swept depends on the spec and the UID alone. *)
LEMMA SameToSweep ==
  ASSUME NEW o, NEW h, h.uid = o.uid, h.spec = o.spec, NEW js
  PROVE  ToSweep(h, js) = ToSweep(o, js)
<1>1. \A how : Finished(js, h, how) = Finished(js, o, how)
  BY DEF Finished, Children
<1> QED
  BY <1>1 DEF ToSweep

LEMMA SweptAreListed ==
  ASSUME NEW o, NEW js, NEW v \in ToSweep(o, js)
  PROVE  v[1] \in Instants /\ v = RefTo(js, v[1])
<1>1. \A T, limit : Excess(js, T, limit) \subseteq T
  BY DEF Excess, OldestOf
<1>2. PICK t \in Instants : v = RefTo(js, t)
  BY <1>1 DEF ToSweep, Finished, Children
<1> QED
  BY <1>2 DEF RefTo

(* A pass sweeps the first of its queue: the rest is still an end of what  *)
(* it set out to remove.                                                   *)
LEMMA SweepSpared ==
  ASSUME NEW w, Replicas = {w}, KeepInv(w), Sweep(w)
  PROVE  Spared(pass'[w], jobs')
<1> DEFINE p == pass[w]
           js == p.js
           S == ToSweep(p.held, js)
<1>1. PICK v \in p.queue :
        /\ ~ \E q \in p.queue : SweptBefore(js, q, v)
        /\ \/ /\ DeleteCallSucceeds(v[1])
              /\ Mutate(w, [p EXCEPT !.held.active = @ \ {v}, !.queue = @ \ {v}])
           \/ /\ DeleteCallFails(v[1])
              /\ pass' = [pass EXCEPT ![w].queue = @ \ {v}]
  BY DEF Sweep
<1>2. p.pc = "sweep" /\ v[1] \in Instants
  BY KeepFacts DEF Sweep, Refs
<1>3. /\ p.queue \subseteq S
      /\ \A q \in p.queue, x \in S : SweptBefore(js, q, x) => x \in p.queue
      /\ \A t \in Instants : RefTo(js, t) \in S \ p.queue \/ AsListed(p, t, jobs)
  BY <1>2, KeepFacts DEF Spared
<1> DEFINE n == pass'[w]
<1>4. /\ n.pc = "sweep" /\ n.js = js /\ n.queue = p.queue \ {v}
      /\ n.held.uid = p.held.uid /\ n.held.spec = p.held.spec
  <2> DEFINE h == [p.held EXCEPT !.active = @ \ {v}]
             a == [p EXCEPT !.held.active = @ \ {v}, !.queue = @ \ {v}]
             b == [p EXCEPT !.queue = @ \ {v}]
  <2>1. n = a \/ n = b
    BY <1>1, KeepFacts DEF Mutate, TypeOK
  <2>2. h.uid = p.held.uid /\ h.spec = p.held.spec
    BY KeepFacts DEF Objects
  <2>3. a.held = h /\ a.js = js /\ a.pc = p.pc /\ a.queue = p.queue \ {v}
    BY KeepFacts DEF Passes
  <2>4. b.held = p.held /\ b.js = js /\ b.pc = p.pc /\ b.queue = p.queue \ {v}
    BY KeepFacts DEF Passes
  <2> HIDE DEF a, b, h, n
  <2> QED
    BY <1>2, <2>1, <2>2, <2>3, <2>4
<1>5. ToSweep(n.held, n.js) = S
  BY <1>4, SameToSweep
<1> HIDE DEF S, n
<1>6. ASSUME NEW q \in n.queue, NEW x \in S, SweptBefore(js, q, x)
      PROVE  x \in n.queue
  BY <1>1, <1>3, <1>4, <1>6
<1>7. ASSUME NEW t \in Instants
      PROVE  RefTo(n.js, t) \in S \ n.queue \/ AsListed(n, t, jobs')
  <2>1. CASE t = v[1]
    <3>1. RefTo(js, t) = v
      BY <1>3, <2>1, SweptAreListed DEF S
    <3> QED
      BY <1>3, <1>4, <3>1
  <2>2. CASE t # v[1]
    <3>1. jobs'[t] = jobs[t]
      BY <1>1, <1>2, <2>2, KeepFacts DEF DeleteCallSucceeds, DeleteCallFails, Deleted
    <3> QED
      BY <1>3, <1>4, <3>1 DEF AsListed
  <2> QED
    BY <2>1, <2>2
<1>8. n.queue \subseteq S
  BY <1>3, <1>4
<1> QED
  <2> HIDE DEF js
  <2> QED
    BY <1>4, <1>5, <1>6, <1>7, <1>8 DEF Spared, Listing, n

LEMMA CleanupSpared ==
  ASSUME NEW w, Replicas = {w}, KeepInv(w), RecordStart(w) \/ BeginCleanup(w) \/ EndCleanup(w)
  PROVE  Spared(pass'[w], jobs')
<1>1. jobs' = jobs
  BY DEF RecordStart, BeginCleanup, EndCleanup
<1>2. CASE RecordStart(w)
  BY <1>1, <1>2, GoToSpared DEF RecordStart, Listing
<1>3. CASE pass' = [pass EXCEPT ![w] = Resting]
  BY <1>3, KeepFacts, RestingType, SparedAtRest DEF TypeOK
<1>4. CASE BeginCleanup(w) /\ pass' # [pass EXCEPT ![w] = Resting]
  <2> DEFINE S == ToSweep(pass[w].held, pass[w].js)
             n == pass'[w]
  <2>1. pass' = [pass EXCEPT ![w] = [pass[w] EXCEPT !.pc = "sweep", !.queue = S]]
    BY <1>4, KeepFacts DEF BeginCleanup, TypeOK
  <2>2. n.pc = "sweep" /\ n.js = pass[w].js /\ n.held = pass[w].held /\ n.queue = S
    BY <2>1, KeepFacts DEF TypeOK, Passes
  <2>3. \A t \in Instants : AsListed(pass[w], t, jobs)
    BY <1>4, KeepFacts DEF BeginCleanup, Spared, Listing
  <2> HIDE DEF n
  <2>4. \A t \in Instants : AsListed(n, t, jobs)
    BY <2>2, <2>3 DEF AsListed
  <2>5. ToSweep(n.held, n.js) = n.queue
    BY <2>2
  <2> QED
    BY <1>1, <2>2, <2>4, <2>5 DEF Spared, Listing, n
<1> QED
  BY <1>2, <1>3, <1>4 DEF EndCleanup

LEMMA OthersSpared ==
  ASSUME NEW w, Replicas = {w}, LeftAlone, KeepInv(w),
         \/ List(w) \/ Deliver(w) \/ Relist(w) \/ Crash(w) \/ Start(w)
         \/ \E t \in Instants : Finish(t) \/ Reap(t) \/ Orphan(t) \/ Collect(t)
         \/ Tick \/ Edit \/ Delete \/ Finalize \/ Recreate \/ UNCHANGED vars
  PROVE  /\ Spared(pass'[w], jobs')
         /\ \A t \in Instants : jobs'[t].state # "Absent" => jobs'[t].owner = 1
<1>1. \A t \in Instants : ~Reap(t) /\ ~Orphan(t) /\ ~Collect(t)
  <2>1. ~Spend("reap")
    BY KeepFacts DEF LeftAlone, Spend, TypeOK, Events
  <2> QED
    BY <2>1 DEF KeepInv, Reap, Orphan, Collect
<1>2. Rests /\ \A t \in Instants : jobs'[t].state # "Absent" => jobs'[t].owner = 1
  <2>1. CASE jobs' = jobs
    BY <2>1 DEF Rests, KeepInv, Exists
  <2>2. CASE \E t \in Instants : Finish(t)
    <3>1. PICK t \in Instants, how \in Outcomes :
            jobs[t].state = "Running" /\ jobs' = [jobs EXCEPT ![t].state = how]
      BY <2>2 DEF Finish
    <3>2. jobs'[t].owner = jobs[t].owner /\ \A u \in Instants \ {t} : jobs'[u] = jobs[u]
      BY <3>1, KeepFacts DEF Jobs
    <3> QED
      BY <3>1, <3>2 DEF Rests, Over, KeepInv, Exists
  <2> QED
    BY <1>1, <2>1, <2>2 DEF List, Deliver, Relist, Receive, Crash, Start, Tick, Edit, Delete, Finalize, Recreate, vars
<1>3. Spared(pass[w], jobs')
  BY <1>2, KeepFacts, SparedRests
<1>4. CASE pass' = pass
  BY <1>2, <1>3, <1>4
<1>5. CASE List(w) \/ Deliver(w) \/ Relist(w)
  <2> DEFINE n == pass'[w]
  <2>1. /\ n.pc = pass[w].pc /\ n.js = pass[w].js /\ n.queue = pass[w].queue
        /\ n.victim = pass[w].victim /\ n.held = pass[w].held
    BY <1>5, KeepFacts DEF List, Deliver, Relist, Receive, TypeOK, Passes
  <2> HIDE DEF n
  <2>2. \A t \in Instants : AsListed(pass[w], t, jobs') = AsListed(n, t, jobs')
    BY <2>1 DEF AsListed
  <2>3. ToSweep(n.held, n.js) = ToSweep(pass[w].held, pass[w].js)
    BY <2>1
  <2> QED
    BY <1>2, <1>3, <2>1, <2>2, <2>3 DEF Spared, n
<1>6. CASE Crash(w) \/ Start(w)
  <2>1. pass'[w].pc \in {"down", "idle"}
    <3>1. pass'[w] = [Resting EXCEPT !.pc = "down"] \/ pass'[w] = Resting
      BY <1>6, KeepFacts DEF Crash, Start, TypeOK
    <3> QED
      BY <3>1, RestingType DEF Passes
  <2> QED
    BY <1>2, <2>1, SparedAtRest
<1> QED
  BY <1>2, <1>4, <1>5, <1>6 DEF Finish, Reap, Orphan, Collect, Tick, Edit, Delete, Finalize, Recreate, vars

LEMMA KeepAlways == ASSUME NEW w, Replicas = {w}, LeftAlone, KeepInv(w), [Next]_vars PROVE KeepInv(w)'
<1>1. OwnInv' /\ sj'.phase = "live" /\ sj'.uid = 1
  BY OwnedAlways, KeepFacts, FirstOfItsName DEF KeepInv, LeftAlone
<1>2. ASSUME PassStep(w)
      PROVE  \A t \in Instants : jobs'[t].state # "Absent" => jobs'[t].owner = 1
  <2>1. CASE CreateJob(w)
    BY <2>1, CreateJobSpared
  <2>2. ASSUME NEW t \in Instants, jobs' = jobs \/ jobs' = Deleted(t)
        PROVE  \A u \in Instants : jobs'[u].state # "Absent" => jobs'[u].owner = 1
    BY <2>2, KeepFacts DEF Deleted, NoJob, KeepInv, Exists
  <2>3. 0 \in Instants
    BY ControllerAssumption DEF Instants
  <2>4. CASE KillVictim(w)
    BY <2>2, <2>4, KeepFacts DEF KillVictim, DeleteCallSucceeds, DeleteCallFails, Refs
  <2>5. CASE Sweep(w)
    BY <2>2, <2>5, KeepFacts DEF Sweep, DeleteCallSucceeds, DeleteCallFails, Refs
  <2> QED
    BY <1>2, <2>1, <2>2, <2>3, <2>4, <2>5 DEF PassStep, ListJobs, ListTZCronJobs, SyncStatus, GetVictim,
       RecordStart, BeginCleanup, EndCleanup
<1>3. PassStep(w) => Spared(pass'[w], jobs')
  BY ListingSpared, SyncStatusSpared, ReplaceSpared, CreateJobSpared, CleanupSpared, SweepSpared DEF PassStep
<1>4. /\ Spared(pass'[w], jobs')
      /\ \A t \in Instants : jobs'[t].state # "Absent" => jobs'[t].owner = 1
  BY <1>2, <1>3, OthersSpared DEF Next
<1> QED
  BY <1>1, <1>4 DEF KeepInv, Exists, Spared, AsListed

(* byJobStartTime and the names order the Jobs of a list. *)
LEMMA BeforeOrders ==
  ASSUME NEW js \in [Instants -> Jobs], NEW t \in Instants, NEW u \in Instants
  PROVE  t = u \/ Before(js, t, u) \/ Before(js, u, t)
<1>1. js[t].start \in Nat /\ js[u].start \in Nat /\ t \in Nat /\ u \in Nat
  BY InstantNumbers DEF Jobs
<1> QED
  BY <1>1 DEF Before

LEMMA UnionAtMost ==
  ASSUME NEW S, IsFiniteSet(S), NEW T, IsFiniteSet(T)
  PROVE  IsFiniteSet(S \cup T) /\ Cardinality(S \cup T) <= Cardinality(S) + Cardinality(T)
<1>1. IsFiniteSet(S \cap T)
  BY FS_Intersection
<1>2. Cardinality(S \cap T) \in Nat /\ Cardinality(S) \in Nat /\ Cardinality(T) \in Nat
  BY <1>1, FS_CardinalityType
<1>3. Cardinality(S \cup T) = Cardinality(S) + Cardinality(T) - Cardinality(S \cap T) /\ IsFiniteSet(S \cup T)
  BY FS_Union
<1> QED
  BY <1>2, <1>3

(* Of n that are to remain, those in order behind the one that goes are at *)
(* least n.                                                                *)
LEMMA NewerRemain ==
  ASSUME NEW js \in [Instants -> Jobs], NEW S \in SUBSET Instants, NEW n \in Nat,
         NEW t \in OldestOf(js, S, Cardinality(S) - n)
  PROVE  Cardinality({u \in S : Before(js, t, u)}) >= n
<1> DEFINE older == {u \in S : Before(js, u, t)}
           newer == {u \in S : Before(js, t, u)}
<1>1. IsFiniteSet(S)
  <2>1. IsFiniteSet(Instants)
    BY ControllerAssumption, FS_Interval DEF Instants
  <2> QED
    BY <2>1, FS_Subset
<1>2. IsFiniteSet(older) /\ IsFiniteSet(newer) /\ IsFiniteSet({t})
  BY <1>1, FS_Subset, FS_Singleton
<1>3. t \in S /\ Cardinality(older) < Cardinality(S) - n
  BY DEF OldestOf
<1>4. S \subseteq (older \cup {t}) \cup newer
  BY <1>3, BeforeOrders
<1> HIDE DEF older, newer
<1>5. /\ IsFiniteSet(older \cup {t})
      /\ Cardinality(older \cup {t}) <= Cardinality(older) + 1
  BY <1>2, FS_Singleton, UnionAtMost
<1>6. /\ IsFiniteSet((older \cup {t}) \cup newer)
      /\ Cardinality((older \cup {t}) \cup newer) <= Cardinality(older \cup {t}) + Cardinality(newer)
  BY <1>2, <1>5, UnionAtMost
<1>7. Cardinality(S) <= Cardinality((older \cup {t}) \cup newer)
  BY <1>4, <1>6, FS_Subset
<1>8. /\ Cardinality(S) \in Nat /\ Cardinality(older) \in Nat /\ Cardinality(newer) \in Nat
      /\ Cardinality(older \cup {t}) \in Nat /\ Cardinality((older \cup {t}) \cup newer) \in Nat
  BY <1>1, <1>2, <1>5, <1>6, FS_CardinalityType
<1>9. Cardinality(newer) >= n
  BY <1>3, <1>5, <1>6, <1>7, <1>8
<1> QED
  BY <1>9 DEF newer

LEMMA KeptInitially == ASSUME NEW w, Replicas = {w}, Init PROVE KeepInv(w)
<1>1. OwnInv
  BY OwnedInitially
<1>2. sj.phase = "live" /\ sj.uid = 1
  BY DEF Init, NewObject
<1>3. \A t \in Instants : ~Exists(t)
  BY DEF Init, NoJob, Exists
<1>4. pass[w].pc = "down"
  BY RestingType DEF Init, Passes
<1> QED
  BY <1>1, <1>2, <1>3, <1>4, SparedAtRest DEF KeepInv

(* With one replica, and where Jobs and the TZCronJob are deleted by no    *)
(* one else, the sweep leaves as many finished Jobs as the limit says, all *)
(* of them newer than the one it deletes: whichever deletions fail or lose *)
(* their reply, whenever the spec is edited or the process dies, and also  *)
(* when Replace deletes Jobs in the same pass.                             *)
THEOREM NewestAreKept ==
  ASSUME NEW w, Replicas = {w}, LeftAlone
  PROVE  Spec => SweepKeepsNewest
<1> DEFINE Newer(o, t) == {u \in Finished(jobs, o, jobs[t].state) : Before(jobs, t, u)}
           Limit(o, t) == IF jobs[t].state = "Complete" THEN o.spec.keepComplete ELSE o.spec.keepFailed
           Keeps == \A r \in Replicas, t \in Instants :
                      (Sweep(r) /\ Exists(t) /\ ~Exists(t)') =>
                        \E k \in Limit(pass[r].held, t) : Cardinality(Newer(pass[r].held, t)) >= k
<1>1. KeepInv(w) => Keeps
  <2> SUFFICES ASSUME KeepInv(w), NEW t \in Instants, Sweep(w), Exists(t), ~Exists(t)'
               PROVE  \E k \in Limit(pass[w].held, t) : Cardinality(Newer(pass[w].held, t)) >= k
    OBVIOUS
  <2> DEFINE p == pass[w]
             js == p.js
             o == p.held
             S == ToSweep(o, js)
             F(how) == Finished(js, o, how)
             L(how) == IF how = "Complete" THEN o.spec.keepComplete ELSE o.spec.keepFailed
  <2>1. PICK v \in p.queue : jobs' = jobs \/ jobs' = Deleted(v[1])
    BY DEF Sweep, DeleteCallSucceeds, DeleteCallFails
  <2>2. t = v[1]
    BY <2>1, KeepFacts DEF Exists, Deleted
  <2>3. /\ v \in S
        /\ \A x \in S : SweptBefore(js, v, x) => x \in p.queue
        /\ \A u \in Instants : RefTo(js, u) \in S \ p.queue \/ AsListed(p, u, jobs)
    BY KeepFacts DEF Sweep, Spared
  <2>4. PICK how \in Over :
          \E n \in L(how) : t \in OldestOf(js, F(how), Cardinality(F(how)) - n)
    <3>1. PICK u \in Excess(js, F("Complete"), o.spec.keepComplete)
                     \cup Excess(js, F("Failed"), o.spec.keepFailed) : v = RefTo(js, u)
      BY <2>3 DEF ToSweep
    <3>2. u = t
      BY <2>2, <3>1 DEF RefTo
    <3> QED
      BY <3>1, <3>2 DEF Excess, Over
  <2>5. PICK n \in L(how) : t \in OldestOf(js, F(how), Cardinality(F(how)) - n)
    BY <2>4
  <2>6. n \in Nat
    BY KeepFacts, ControllerAssumption DEF Objects, Optional
  <2>7. t \in F(how) /\ js[t].state = how
    BY <2>4 DEF OldestOf, Finished
  <2>8. v = RefTo(js, t)
    BY <2>2, <2>3, SweptAreListed
  <2>9. jobs[t] = js[t]
    BY <2>1, <2>3, <2>4, <2>7, <2>8 DEF AsListed
  <2>10. ASSUME NEW u \in F(how), Before(js, t, u)
        PROVE  u \in Newer(o, t)
    <3>1. u \in Instants /\ js[u].state = how
      BY DEF Finished, Children
    <3>2. SweptBefore(js, v, RefTo(js, u))
      BY <2>2, <2>7, <2>10, <3>1 DEF SweptBefore, RefTo
    <3>3. jobs[u] = js[u]
      BY <2>3, <2>4, <3>1, <3>2 DEF AsListed
    <3>4. Before(jobs, t, u)
      BY <2>9, <2>10, <3>3 DEF Before
    <3>5. u \in Finished(jobs, o, how)
      BY <3>1, <3>3 DEF Finished, Children
    <3> HIDE DEF o
    <3> QED
      BY <2>7, <2>9, <3>4, <3>5
  <2>11. Cardinality({u \in F(how) : Before(js, t, u)}) >= n
    <3>1. F(how) \in SUBSET Instants /\ js \in [Instants -> Jobs]
      BY KeepFacts DEF Finished, Children
    <3> HIDE DEF F, js
    <3> QED
      BY <2>5, <2>6, <3>1, NewerRemain
  <2>12. IsFiniteSet(Newer(o, t))
    <3>1. Newer(o, t) \subseteq Instants /\ IsFiniteSet(Instants)
      BY ControllerAssumption, FS_Interval DEF Instants, Finished, Children
    <3> QED
      BY <3>1, FS_Subset
  <2>13. Cardinality(Newer(o, t)) >= n
    <3> DEFINE A == {u \in F(how) : Before(js, t, u)}
               B == Newer(o, t)
    <3>1. A \subseteq B
      BY <2>10
    <3> HIDE DEF A, B
    <3>2. IsFiniteSet(A) /\ Cardinality(A) <= Cardinality(B)
      BY <2>12, <3>1, FS_Subset DEF B
    <3>3. Cardinality(A) \in Nat /\ Cardinality(B) \in Nat
      BY <2>12, <3>2, FS_CardinalityType DEF B
    <3> QED
      BY <2>6, <2>11, <3>2, <3>3 DEF A, B
  <2> QED
    BY <2>4, <2>7, <2>9, <2>13 DEF Over
<1>2. Init => KeepInv(w)
  BY KeptInitially
<1>3. KeepInv(w) /\ [Next]_vars => KeepInv(w)'
  BY KeepAlways
<1> QED
  BY <1>1, <1>2, <1>3, PTL DEF Spec, SweepKeepsNewest
=============================================================================
