---------------------------- MODULE SyncAllProofs ----------------------------
(***************************************************************************)
(* What syncAll computes, for any TZCronJobs, schedules, deadlines, width  *)
(* of the integers and Jobs of earlier processes: the loop over the        *)
(* activations against its definition in CronSchedule, the order of the    *)
(* sweep, and who is touched by a pass.                                    *)
(*                                                                         *)
(* Induction over a list is by its first counterexample (WFMin).           *)
(***************************************************************************)
EXTENDS SyncAll, SequenceTheorems, FiniteSetTheorems, WellFoundedInduction, TLAPS

(* A set of naturals that is not empty has a least element.                *)
LEMMA LeastExists ==
  ASSUME NEW S \in SUBSET Nat, S # {}
  PROVE  \E x \in S : \A y \in S : x <= y
<1> DEFINE R == OpToRel(<, Nat)
<1>1. IsWellFoundedOn(R, Nat)
  BY NatLessThanWellFounded
<1>2. \A x, y \in Nat : <<y, x>> \in R <=> y < x
  BY DEF OpToRel
<1> HIDE DEF R
<1>3. PICK x \in S : \A y \in S : ~ (<<y, x>> \in R)
  BY <1>1, WFMin
<1>4. ASSUME NEW y \in S PROVE x <= y
  <2>1. x \in Nat /\ y \in Nat /\ ~(y < x)
    BY <1>2, <1>3
  <2> QED
    BY <2>1
<1> QED
  BY <1>4

LEMMA ConstantNumbers ==
  /\ Second \in Nat /\ Second > 0 /\ Half \in Nat /\ Half > 0
  /\ MaxTime \in Nat /\ Oldest \in Int /\ Oldest <= 0
BY SyncAllAssumption
-----------------------------------------------------------------------------
(* Two's complement.                                                       *)

LEMMA WrapRange == ASSUME NEW x \in Int PROVE Wrap(x) \in Int /\ -Half <= Wrap(x) /\ Wrap(x) < Half
<1> DEFINE M == 2 * Half
<1>1. M \in Nat /\ M > 0
  BY ConstantNumbers
<1>2. (x + Half) % M \in 0..(M - 1)
  BY <1>1, ConstantNumbers
<1> QED
  BY <1>2, ConstantNumbers DEF Wrap

LEMMA WrapMultiple ==
  ASSUME NEW x \in Int
  PROVE  \E q \in Int : x = Wrap(x) + q * (2 * Half)
<1> DEFINE M == 2 * Half
<1>1. M \in Nat /\ M > 0
  BY ConstantNumbers
<1>2. x + Half = M * ((x + Half) \div M) + ((x + Half) % M) /\ (x + Half) \div M \in Int
  BY <1>1, ConstantNumbers
<1> DEFINE q == (x + Half) \div M
<1>3. (x + Half) % M = Wrap(x) + Half /\ Wrap(x) \in Int
  BY WrapRange, <1>1, <1>2, ConstantNumbers DEF Wrap
<1>4. q \in Int /\ x + Half = M * q + (Wrap(x) + Half)
  BY <1>2, <1>3
<1> HIDE DEF q
<1>5. M * q = q * (2 * Half)
  BY <1>4, ConstantNumbers
<1>6. x = Wrap(x) + q * (2 * Half)
  BY <1>1, <1>3, <1>4, <1>5, ConstantNumbers
<1> QED
  BY <1>4, <1>6

LEMMA WrapUnique ==
  ASSUME NEW x \in Int, NEW y \in Int, NEW q \in Int,
         x = y + q * (2 * Half), -Half <= y, y < Half
  PROVE  Wrap(x) = y
<1> DEFINE w == Wrap(x)
<1>1. PICK p \in Int : x = w + p * (2 * Half)
  BY WrapMultiple
<1>2. w \in Int /\ -Half <= w /\ w < Half
  BY WrapRange
<1>3. w - y = (q - p) * (2 * Half)
  BY <1>1, <1>2, ConstantNumbers
<1>4. q - p = 0
  <2>1. CASE q - p >= 1
    <3>1. (q - p) * (2 * Half) >= 2 * Half
      BY <2>1, ConstantNumbers
    <3> QED
      BY <1>2, <1>3, <3>1, ConstantNumbers
  <2>2. CASE q - p <= -1
    <3>1. (q - p) * (2 * Half) <= -(2 * Half)
      BY <2>2, ConstantNumbers
    <3> QED
      BY <1>2, <1>3, <3>1, ConstantNumbers
  <2> QED
    BY <2>1, <2>2
<1>5. (q - p) * (2 * Half) = 0
  BY <1>4, ConstantNumbers
<1> QED
  BY <1>2, <1>3, <1>5

LEMMA WrapNegated ==
  ASSUME NEW x \in Int, Wrap(x) # -Half
  PROVE  Wrap(-x) = -Wrap(x)
<1>1. PICK q \in Int : x = Wrap(x) + q * (2 * Half)
  BY WrapMultiple
<1>2. Wrap(x) \in Int /\ -Half <= -Wrap(x) /\ -Wrap(x) < Half
  BY WrapRange, ConstantNumbers
<1>3. -x = -Wrap(x) + (-q) * (2 * Half)
  BY <1>1, <1>2, ConstantNumbers
<1> QED
  BY <1>2, <1>3, WrapUnique
-----------------------------------------------------------------------------
(* Schedule times.                                                         *)

(* What the arithmetic is given: a TZCronJob and an instant. *)
Timed(o) == \E t \in 0..MaxTime : o \in Objects(t)

LEMMA OptionalCases ==
  ASSUME NEW S, NEW X \in Optional(S)
  PROVE  X = {} \/ \E v \in S : X = {v}
<1>1. CASE X = {}
  BY <1>1
<1>2. CASE X # {}
  <2>1. PICK v \in X : TRUE
    BY <1>2
  <2>2. v \in S /\ X = {v}
    BY <2>1 DEF Optional
  <2> QED
    BY <2>2
<1> QED
  BY <1>1, <1>2

LEMMA TimedFields ==
  ASSUME NEW o, Timed(o)
  PROVE  /\ o.spec \in Specs /\ o.active \in SUBSET JobNames
         /\ LastKnownStart(o) \in Int
         /\ o.spec.deadline \in Optional(Int)
         /\ Limit(o.spec, "Complete") \in Optional(Int) /\ Limit(o.spec, "Failed") \in Optional(Int)
BY DEF Timed, Objects, Specs, LastKnownStart, Never, Limit

LEMMA ActivationsAreNaturals ==
  ASSUME NEW o, o.spec.schedule \in Schedules
  PROVE  Activations(o.spec) \in SUBSET Nat
<1>1. Location(o.spec) \in Zones
  BY ScheduleAssumption DEF Location
<1> QED
  BY <1>1, ScheduleAssumption DEF Activations

(* The search begins behind the last known start and behind what the       *)
(* deadline, in the integers of the machine, leaves out.                   *)
LEMMA LoopBoundIs ==
  ASSUME NEW o, Timed(o), NEW t \in Int
  PROVE  /\ LoopBound(o, t) \in Int /\ LastKnownStart(o) <= LoopBound(o, t)
         /\ \A d \in o.spec.deadline : d \in Int /\ t + Wrap(-Second * d) <= LoopBound(o, t)
         /\ \/ LoopBound(o, t) = LastKnownStart(o)
            \/ \E d \in o.spec.deadline : LoopBound(o, t) = t + Wrap(-Second * d)
<1> DEFINE L == LastKnownStart(o)
<1>1. L \in Int /\ o.spec.deadline \in Optional(Int)
  BY TimedFields
<1>2. CASE o.spec.deadline = {}
  <2>1. LoopBound(o, t) = CHOOSE b \in {L} : \A c \in {L} : c <= b
    BY <1>2 DEF LoopBound
  <2>2. LoopBound(o, t) = L
    BY <1>1, <2>1
  <2> QED
    BY <1>1, <1>2, <2>2
<1>3. CASE \E d \in Int : o.spec.deadline = {d}
  <2>1. PICK d \in Int : o.spec.deadline = {d}
    BY <1>3
  <2> DEFINE e == t + Wrap(-Second * d)
  <2>2. e \in Int
    BY WrapRange, ConstantNumbers
  <2>3. LoopBound(o, t) = CHOOSE b \in {e, L} : \A c \in {e, L} : c <= b
    <3>1. {t + Wrap(-Second * x) : x \in o.spec.deadline} \cup {L} = {e, L}
      BY <2>1
    <3> QED
      BY <3>1 DEF LoopBound
  <2> HIDE DEF e, L
  <2>4. \E b \in {e, L} : \A c \in {e, L} : c <= b
    BY <1>1, <2>2
  <2>5. LoopBound(o, t) \in {e, L} /\ \A c \in {e, L} : c <= LoopBound(o, t)
    BY <2>3, <2>4
  <2> QED
    BY <1>1, <2>1, <2>2, <2>5 DEF e, L
<1> QED
  BY <1>1, <1>2, <1>3, OptionalCases

(* The next activation: none lies between. *)
LEMMA NextAfterIs ==
  ASSUME NEW o, o.spec.schedule \in Schedules, NEW t \in Int
  PROVE  /\ NextAfter(o.spec, t) \in Int
         /\ Activations(o.spec) = {} => NextAfter(o.spec, t) = ZeroTime
         /\ Activations(o.spec) # {} =>
              LET n == NextAfter(o.spec, t)
              IN  \/ n = MaxTime + 1 /\ \A a \in Activations(o.spec) : a <= t
                  \/ n \in Activations(o.spec) /\ n > t
                     /\ \A a \in Activations(o.spec) : a > t => n <= a
<1> DEFINE A == Activations(o.spec)
           later == {a \in A : a > t}
           n == NextAfter(o.spec, t)
<1>1. A \in SUBSET Nat
  BY ActivationsAreNaturals
<1>2. CASE A = {}
  BY <1>2 DEF NextAfter, ZeroTime
<1>3. CASE A # {} /\ later = {}
  <2>1. n = MaxTime + 1
    BY <1>3 DEF NextAfter
  <2>2. \A a \in A : a <= t
    BY <1>1, <1>3
  <2> QED
    BY <1>3, <2>1, <2>2, ConstantNumbers
<1>4. CASE later # {}
  <2>1. \E x \in later : \A y \in later : x <= y
    <3>1. later \in SUBSET Nat
      BY <1>1
    <3> QED
      BY <1>4, <3>1, LeastExists
  <2>2. n = CHOOSE a \in later : \A b \in later : a <= b
    BY <1>4 DEF NextAfter
  <2>3. n \in later /\ \A b \in later : n <= b
    BY <2>1, <2>2
  <2> QED
    BY <1>1, <1>4, <2>3
<1> QED
  BY <1>2, <1>3, <1>4
-----------------------------------------------------------------------------
(* The order of the sweep.                                                 *)

LEMMA JobFields ==
  ASSUME NEW js \in [JobNames -> Jobs], NEW j \in JobNames
  PROVE  /\ j[1] \in Names /\ j[2] \in Int /\ js[j] \in Jobs
         /\ js[j].start = {} \/ \E s \in Int : js[j].start = {s}
<1>1. js[j] \in Jobs /\ js[j].start \in Optional(Int)
  BY DEF Jobs
<1>2. j[1] \in Names /\ j[2] \in Int
  BY ConstantNumbers DEF JobNames
<1> QED
  BY <1>1, <1>2, OptionalCases

LEMMA LessIs ==
  ASSUME NEW js \in [JobNames -> Jobs], NEW i \in JobNames, NEW j \in JobNames
  PROVE  /\ js[j].start = {} => (Less(js, i, j) <=> js[i].start # {})
         /\ (js[i].start = {} /\ js[j].start # {}) => ~Less(js, i, j)
         /\ \A s, t \in Int : (js[i].start = {s} /\ js[j].start = {t}) =>
              (Less(js, i, j) <=> s < t \/ (s = t /\ i[2] < j[2]))
<1>1. js[j].start = {} => (Less(js, i, j) <=> js[i].start # {})
  BY DEF Less
<1>2. ASSUME js[i].start = {}, js[j].start # {} PROVE ~Less(js, i, j)
  BY <1>2 DEF Less
<1>3. ASSUME NEW s \in Int, NEW t \in Int, js[i].start = {s}, js[j].start = {t}
      PROVE  Less(js, i, j) <=> s < t \/ (s = t /\ i[2] < j[2])
  <2>1. CASE s = t
    <3>1. js[i].start = js[j].start /\ js[j].start # {} /\ ~(s < t)
      BY <1>3, <2>1
    <3> QED
      BY <2>1, <3>1 DEF Less
  <2>2. CASE s # t
    <3>1. js[i].start # js[j].start /\ js[j].start # {}
      BY <1>3, <2>2
    <3>2. Less(js, i, j) <=> \E u \in js[i].start, v \in js[j].start : u < v
      BY <3>1 DEF Less
    <3> QED
      BY <1>3, <2>2, <3>2
  <2> QED
    BY <2>1, <2>2
<1> QED
  BY <1>1, <1>2, <1>3

(* Less is a weak order: being no less carries over. *)
LEMMA NoLessCarriesOver ==
  ASSUME NEW js \in [JobNames -> Jobs],
         NEW i \in JobNames, NEW j \in JobNames, NEW k \in JobNames,
         ~Less(js, j, i), ~Less(js, k, j)
  PROVE  ~Less(js, k, i)
<1>1. \A x \in JobNames : x[2] \in Int /\ (js[x].start = {} \/ \E s \in Int : js[x].start = {s})
  BY JobFields
<1>2. CASE js[i].start = {}
  <2>1. js[j].start = {}
    BY <1>2, LessIs
  <2>2. js[k].start = {}
    BY <2>1, LessIs
  <2> QED
    BY <1>2, <2>2, LessIs
<1>3. CASE js[k].start = {} /\ js[i].start # {}
  BY <1>3, LessIs
<1>4. CASE js[i].start # {} /\ js[k].start # {}
  <2>1. js[j].start # {}
    BY <1>4, LessIs
  <2>2. PICK s, t, u \in Int : js[i].start = {s} /\ js[j].start = {t} /\ js[k].start = {u}
    BY <1>1, <1>4, <2>1
  <2>3. ~(t < s \/ (t = s /\ j[2] < i[2])) /\ ~(u < t \/ (u = t /\ k[2] < j[2]))
    BY <2>2, LessIs
  <2>4. ~(u < s \/ (u = s /\ k[2] < i[2]))
    BY <1>1, <2>3
  <2> QED
    BY <2>2, <2>4, LessIs
<1> QED
  BY <1>2, <1>3, <1>4

LEMMA JobNamesAreFinite == \A S \in SUBSET JobNames : IsFiniteSet(S) /\ Cardinality(S) \in Nat
<1>1. IsFiniteSet(Names) /\ IsFiniteSet(Oldest..MaxTime)
  BY SyncAllAssumption, ConstantNumbers, FS_Interval
<1>2. IsFiniteSet(JobNames)
  BY <1>1, FS_Product DEF JobNames
<1> QED
  BY <1>2, FS_Subset, FS_CardinalityType

(* A list that is sorted by its neighbours is sorted. *)
LEMMA SortedThroughout ==
  ASSUME NEW js \in [JobNames -> Jobs], NEW S \in SUBSET JobNames, NEW l \in Sorted(js, S)
  PROVE  /\ l \in Seq(JobNames) /\ Len(l) = Cardinality(S)
         /\ \A m \in 1..Len(l) : l[m] \in S
         /\ \A m, n \in 1..Len(l) : m # n => l[m] # l[n]
         /\ \A m, n \in 1..Len(l) : m < n => ~Less(js, l[n], l[m])
<1>1. Cardinality(S) \in Nat
  BY JobNamesAreFinite
<1>2. /\ l \in [1..Cardinality(S) -> S]
      /\ \A m, n \in 1..Cardinality(S) : m # n => l[m] # l[n]
      /\ \A m \in 1..(Len(l) - 1) : ~Less(js, l[m + 1], l[m])
  BY DEF Sorted, SetToSeqs
<1>3. l \in Seq(JobNames) /\ Len(l) = Cardinality(S)
  BY <1>1, <1>2
<1>4. ASSUME NEW m \in 1..Len(l), NEW n \in 1..Len(l), m < n, Less(js, l[n], l[m])
      PROVE  FALSE
  <2> DEFINE T == {k \in 1..Len(l) : m < k /\ Less(js, l[k], l[m])}
  <2>1. PICK k \in T : \A y \in T : k <= y
    <3>1. T \in SUBSET Nat /\ n \in T
      BY <1>3, <1>4
    <3> HIDE DEF T
    <3> QED
      BY <3>1, LeastExists
  <2>2. k \in 1..Len(l) /\ m < k /\ Less(js, l[k], l[m])
    BY <2>1
  <2>3. /\ k - 1 \in 1..(Len(l) - 1) /\ (k - 1) + 1 = k /\ k - 1 \in 1..Len(l)
        /\ k - 1 = m \/ m < k - 1
    BY <1>3, <2>2
  <2>4. ~Less(js, l[k], l[k - 1])
    BY <1>2, <2>3
  <2>5. k - 1 # m
    BY <2>2, <2>4
  <2>6. k - 1 \notin T
    <3>1. ~(k <= k - 1)
      BY <2>2
    <3> QED
      BY <2>1, <3>1
  <2>7. ~Less(js, l[k - 1], l[m])
    BY <2>3, <2>5, <2>6
  <2>8. l[m] \in JobNames /\ l[k - 1] \in JobNames /\ l[k] \in JobNames
    BY <1>3, <2>2, <2>3
  <2> QED
    BY <2>2, <2>4, <2>7, <2>8, NoLessCarriesOver
<1> QED
  BY <1>1, <1>2, <1>3, <1>4
-----------------------------------------------------------------------------
(* The inductive invariant.                                                *)

Increasing(l) == \A m, n \in 1..Len(l) : m < n => l[m] < l[n]

Bound == LoopBound(Here, pass.at)
Fired == Activations(Here.spec)

(* The activations that the search is for. *)
Wanted == {a \in Fired : Bound < a /\ a <= pass.at}

(* In the loop, all activations before t have been found and no other. *)
Searching ==
  pass.pc = "loop" =>
    /\ Here.spec.schedule \in Schedules /\ Bound <= pass.at /\ Len(pass.starts) <= MaxMissed
    /\ Fired = {} => pass.t = ZeroTime
    /\ Fired # {} =>
         /\ pass.t \in Fired \cup {MaxTime + 1} /\ Bound < pass.t
         /\ Increasing(pass.starts)
         /\ \A m \in 1..Len(pass.starts) : pass.starts[m] \in Wanted /\ pass.starts[m] < pass.t
         /\ \A a \in Fired : (Bound < a /\ a < pass.t) => a \in Found

Fresh == pass.pc = "sync" => pass.starts = <<>>

Searched ==
  pass.pc = "decide" =>
    /\ Here.spec.schedule \in Schedules /\ Len(pass.starts) <= MaxMissed
    /\ Increasing(pass.starts) /\ Found = Wanted
    /\ Fired = {} => Bound > pass.at

GaveUp ==
  Len(pass.starts) > MaxMissed =>
    /\ pass.pc \in {"cleanup", "sort", "remove", "next", "dead"}
    /\ Here.spec.schedule \in Schedules
    /\ Bound <= pass.at
    /\ Fired = {} \/ Cardinality(Wanted) > MaxMissed

Working == pass.pc \in {"sync", "loop", "decide", "cleanup", "sort", "remove", "dead"}

(* Of what was listed for a TZCronJob still to come nothing is gone; what  *)
(* was listed for the present one is gone or is still its own.             *)
Owners ==
  pass.pc # "idle" =>
    \A j \in JobNames : pass.js[j].state # "Absent" =>
      /\ pass.js[j].owner \in pass.todo => Exists(j) /\ jobs[j].owner = pass.js[j].owner
      /\ (Working /\ pass.js[j].owner = pass.cur /\ Exists(j)) => jobs[j].owner = pass.cur

Coming == Working => pass.cur \notin pass.todo

(* What is active is running, and belongs to the present TZCronJob. *)
ActiveRuns ==
  pass.pc \in {"loop", "decide"} =>
    \A j \in Here.active : j \in Children(pass.js, pass.cur) /\ pass.js[j].state = "Running"

Kept(how) == \A j \in Finished(pass.js, pass.cur, how) : Exists(j)

Swept(how) ==
  \A k \in Limit(Here.spec, how) :
    Cardinality({j \in Finished(pass.js, pass.cur, how) : Exists(j)}) =
      LET n == Cardinality(Finished(pass.js, pass.cur, how)) IN IF n <= k THEN n ELSE k

(* How far the sweep is. *)
Sweeping ==
  /\ pass.pc \in {"sync", "loop", "decide", "cleanup"} => Kept("Complete") /\ Kept("Failed")
  /\ pass.pc \in {"sort", "remove"} =>
       IF pass.how = "Complete" THEN Kept("Failed") ELSE Swept("Complete")
  /\ pass.pc = "sort" => Kept(pass.how)
  /\ pass.pc = "next" /\ pass.how = "Failed" => Swept("Complete") /\ Swept("Failed")

(* The list: what is before the index has been removed, and nothing else.  *)
Removing ==
  pass.pc = "remove" =>
    /\ pass.list \in Sorted(pass.js, Finished(pass.js, pass.cur, pass.how))
    /\ Limit(Here.spec, pass.how) # {}
    /\ pass.i >= 1 /\ pass.i <= NumToDelete(pass) + 1
    /\ \A m \in 1..Len(pass.list) : Exists(pass.list[m]) <=> pass.i <= m

Inv ==
  /\ TypeOK /\ Fresh /\ Searching /\ Searched /\ GaveUp /\ Owners /\ Coming /\ ActiveRuns
  /\ Sweeping /\ Removing /\ PanicNeedsNegativeLimit
-----------------------------------------------------------------------------
LEMMA HereTimed == ASSUME TypeOK PROVE Timed(Here) /\ Here \in Objects(now)
<1>1. Here \in Objects(now)
  BY DEF TypeOK, Here, Passes
<1> QED
  BY <1>1 DEF Timed, TypeOK

LEMMA PassFields ==
  ASSUME TypeOK
  PROVE  /\ pass.js \in [JobNames -> Jobs] /\ pass.todo \in SUBSET Names /\ pass.cur \in Names
         /\ pass.at \in Nat /\ pass.at <= now /\ now \in Nat /\ now <= MaxTime /\ MaxTime \in Nat
         /\ pass.t \in Int /\ pass.starts \in Seq(Int) /\ Len(pass.starts) \in Nat
         /\ pass.how \in Hows /\ pass.list \in Seq(JobNames) /\ Len(pass.list) \in Nat
         /\ pass.i \in Nat /\ MaxMissed \in Nat
<1>1. now \in Nat /\ now <= MaxTime /\ MaxTime \in Nat /\ MaxMissed \in Nat
  BY ConstantNumbers, ScheduleAssumption DEF TypeOK
<1> QED
  BY <1>1 DEF TypeOK, Passes

LEMMA FinishedIsListed ==
  ASSUME NEW js, NEW n, NEW how
  PROVE  /\ Finished(js, n, how) \in SUBSET Children(js, n)
         /\ Children(js, n) \in SUBSET JobNames
         /\ \A j \in Children(js, n) : js[j].owner = n /\ js[j].state # "Absent"
         /\ \A j \in Finished(js, n, how) : js[j].state = how
BY DEF Finished, Children

LEMMA RestingPass ==
  ASSUME TypeOK
  PROVE  /\ Resting \in Passes /\ Resting.pc = "idle" /\ Resting.starts = <<>> /\ Resting.i = 0
         /\ Resting.list = <<>> /\ Resting.how = "Complete" /\ Resting.cur \in Names
<1>1. NoJob \in Jobs
  BY DEF NoJob, Jobs, States, Optional
<1>2. (CHOOSE n \in Names : TRUE) \in Names
  BY SyncAllAssumption
<1>3. 0 \in 0..now
  BY PassFields
<1> QED
  BY <1>1, <1>2, <1>3 DEF Resting, Passes, Hows

(* What the rest of the cluster does to Jobs.                              *)
LEMMA Quiet ==
  ASSUME Inv, TypeOK', pass' = pass, objs' = objs,
         \A j \in JobNames : (Exists(j)' <=> Exists(j)) /\ jobs'[j].owner = jobs[j].owner
  PROVE  Inv'
<1>1. (Here = Here') /\ Bound' = Bound /\ Fired' = Fired /\ Wanted' = Wanted /\ Found' = Found
  BY DEF Here, Bound, Fired, Wanted, Found
<1>2. Fresh' /\ Searching' /\ Searched' /\ GaveUp' /\ Coming' /\ ActiveRuns' /\ PanicNeedsNegativeLimit'
  BY <1>1 DEF Inv, Fresh, Searching, Searched, GaveUp, Coming, Working, ActiveRuns, PanicNeedsNegativeLimit
<1>3. Owners'
  BY DEF Inv, Owners, Working
<1>4. \A how : Kept(how)' <=> Kept(how)
  BY FinishedIsListed DEF Kept
<1>5. ASSUME NEW how PROVE Swept(how)' <=> Swept(how)
  <2>1. {j \in Finished(pass.js, pass.cur, how) : Exists(j)}'
          = {j \in Finished(pass.js, pass.cur, how) : Exists(j)}
    BY FinishedIsListed
  <2> QED
    BY <1>1, <2>1 DEF Swept
<1>6. Sweeping'
  BY <1>4, <1>5 DEF Inv, Sweeping
<1>7. Removing'
  <2> SUFFICES ASSUME pass.pc = "remove" PROVE Removing'
    BY DEF Removing
  <2>1. \A m \in 1..Len(pass.list) : pass.list[m] \in JobNames
    BY PassFields DEF Inv
  <2>2. NumToDelete(pass)' = NumToDelete(pass)
    BY DEF NumToDelete
  <2> QED
    BY <1>1, <2>1, <2>2 DEF Inv, Removing
<1> QED
  BY <1>2, <1>3, <1>6, <1>7 DEF Inv

LEMMA TickKeeps == ASSUME Inv, Tick PROVE Inv'
<1>1. now' \in 0..MaxTime /\ now' = now + 1 /\ now \in Nat
  BY PassFields DEF Inv, Tick
<1>2. Objects(now) \in SUBSET Objects(now')
  BY <1>1 DEF Objects, Never
<1>3. pass \in Passes'
  BY <1>1 DEF Inv, TypeOK, Passes
<1>4. TypeOK'
  BY <1>1, <1>2, <1>3 DEF Inv, TypeOK, Tick
<1> QED
  BY <1>4, Quiet DEF Tick, Exists

LEMMA ObserveKeeps == ASSUME Inv, NEW j \in JobNames, Observe(j) \/ Finish(j) PROVE Inv'
<1>1. jobs \in [JobNames -> Jobs] /\ now \in Int
  BY PassFields DEF Inv, TypeOK
<1>2. /\ jobs' \in [JobNames -> Jobs]
      /\ \A k \in JobNames : (Exists(k)' <=> Exists(k)) /\ jobs'[k].owner = jobs[k].owner
  <2>1. CASE Observe(j)
    <3>1. {now} \in Optional(Int)
      BY <1>1 DEF Optional
    <3> QED
      BY <1>1, <2>1, <3>1 DEF Observe, Jobs, Exists
  <2>2. CASE Finish(j)
    <3>1. PICK how \in Hows : jobs' = [jobs EXCEPT ![j].state = how]
      BY <2>2 DEF Finish
    <3>2. how \in States /\ how # "Absent"
      BY DEF Hows, States
    <3> QED
      BY <1>1, <2>2, <3>1, <3>2 DEF Finish, Jobs, Exists
  <2> QED
    BY <2>1, <2>2
<1>3. TypeOK'
  BY <1>2 DEF Inv, TypeOK, Observe, Finish, Passes
<1> QED
  BY <1>2, <1>3, Quiet DEF Observe, Finish

(* A process between two passes.                                           *)
LEMMA RestKeeps == ASSUME Inv, EndPass \/ Restart PROVE Inv'
<1>1. pass' = Resting /\ UNCHANGED <<now, objs, jobs>>
  BY DEF EndPass, Restart
<1>2. /\ Resting \in Passes /\ Resting.pc = "idle" /\ Resting.starts = <<>> /\ Resting.i = 0
      /\ Resting.list = <<>>
  BY RestingPass DEF Inv
<1>3. TypeOK'
  BY <1>1, <1>2 DEF Inv, TypeOK, Passes
<1>4. GaveUp'
  BY <1>1, <1>2, PassFields DEF Inv, GaveUp
<1> QED
  BY <1>1, <1>2, <1>3, <1>4
     DEF Inv, Fresh, Searching, Searched, Owners, Coming, Working, ActiveRuns, Sweeping, Removing,
         PanicNeedsNegativeLimit

LEMMA ListKeeps == ASSUME Inv, List PROVE Inv'
<1>1. /\ pass' = [Resting EXCEPT !.pc = "next", !.js = jobs, !.todo = Names]
      /\ UNCHANGED <<now, objs, jobs>>
  BY DEF List
<1>2. /\ Resting \in Passes /\ Resting.starts = <<>> /\ Resting.i = 0 /\ Resting.how = "Complete"
      /\ Resting.list = <<>>
  BY RestingPass DEF Inv
<1>3. /\ pass' \in Passes /\ pass'.pc = "next" /\ pass'.js = jobs /\ pass'.starts = <<>>
      /\ pass'.how = "Complete" /\ pass'.i = 0 /\ pass'.list = <<>>
  BY <1>1, <1>2 DEF Passes, Inv, TypeOK
<1>4. TypeOK'
  BY <1>1, <1>3 DEF Inv, TypeOK, Passes
<1>5. GaveUp'
  BY <1>3, PassFields DEF Inv, GaveUp
<1>6. Owners'
  BY <1>1, <1>3 DEF Owners, Working, Exists
<1> QED
  BY <1>3, <1>4, <1>5, <1>6
     DEF Inv, Fresh, Searching, Searched, Coming, Working, ActiveRuns, Sweeping, Removing,
         PanicNeedsNegativeLimit

LEMMA TakeKeeps == ASSUME Inv, NEW n \in Names, Take(n) PROVE Inv'
<1>1. /\ pass.pc = "next" /\ n \in pass.todo /\ UNCHANGED <<now, objs, jobs>>
      /\ pass' = [pass EXCEPT !.pc = "sync", !.cur = n, !.todo = @ \ {n}, !.at = now, !.starts = <<>>]
      /\ pass \in Passes /\ now \in 0..now
  <2>1. now \in 0..now
    BY PassFields DEF Inv
  <2> QED
    BY <2>1 DEF Take, Inv, TypeOK
<1>2. /\ pass' \in Passes /\ pass'.pc = "sync" /\ pass'.cur = n /\ pass'.todo = pass.todo \ {n}
      /\ pass'.starts = <<>> /\ pass'.js = pass.js /\ pass'.i = pass.i /\ pass'.list = pass.list
  <2>1. <<>> \in Seq(Int) /\ pass.todo \ {n} \in SUBSET Names
    BY <1>1 DEF Passes
  <2>2. pass' \in Passes
    BY <1>1, <2>1 DEF Passes
  <2> QED
    BY <1>1, <2>2 DEF Passes
<1>3. TypeOK'
  BY <1>1, <1>2 DEF Inv, TypeOK, Passes
<1>4. GaveUp'
  BY <1>2, PassFields DEF Inv, GaveUp
<1>5. Owners' /\ Coming'
  BY <1>1, <1>2 DEF Inv, Owners, Coming, Working, Exists
<1>6. Kept("Complete")' /\ Kept("Failed")'
  <2> SUFFICES ASSUME NEW j \in JobNames, pass.js[j].state # "Absent", pass.js[j].owner = n
               PROVE  Exists(j)
    BY <1>1, <1>2, FinishedIsListed DEF Kept, Exists
  <2> QED
    BY <1>1 DEF Inv, Owners
<1> QED
  BY <1>2, <1>3, <1>4, <1>5, <1>6
     DEF Inv, Fresh, Searching, Searched, ActiveRuns, Sweeping, Removing, PanicNeedsNegativeLimit

(* What a start does not change, the search does not depend on.            *)
LEMMA BoundKept ==
  ASSUME NEW o, NEW p, NEW t, p.spec = o.spec, p.lst = o.lst, p.created = o.created
  PROVE  LoopBound(p, t) = LoopBound(o, t)
BY DEF LoopBound, LastKnownStart

(* The status of the present TZCronJob is written.                         *)
LEMMA PruneKeeps == ASSUME Inv, Prune PROVE Inv'
<1> DEFINE B == LoopBound(Here, pass.at)
           X == {j \in Here.active : j \in Children(pass.js, pass.cur) /\ pass.js[j].state = "Running"}
           l == IF Here.spec.suspend \/ Here.spec.schedule \notin Schedules THEN "cleanup"
                ELSE IF B > pass.at THEN "decide" ELSE "loop"
           u == IF Here.spec.schedule \in Schedules THEN NextAfter(Here.spec, B) ELSE 0
<1>0. TypeOK /\ Here \in Objects(now) /\ Timed(Here) /\ pass.pc = "sync" /\ pass.cur \in Names
  BY HereTimed, PassFields DEF Inv, Prune
<1>1. B \in Int /\ u \in Int
  <2>1. B \in Int
    <3>1. pass.at \in Int
      BY <1>0, PassFields
    <3> QED
      BY <1>0, <3>1, LoopBoundIs
  <2> QED
    BY <1>0, <2>1, NextAfterIs
<1>2. pass' = [pass EXCEPT !.pc = l, !.t = u] /\ UNCHANGED <<now, jobs>>
  BY DEF Prune
<1>3. objs' = [objs EXCEPT ![pass.cur].active = X] /\ X \in SUBSET JobNames
  <2>1. X \in SUBSET JobNames
    BY <1>0 DEF Objects
  <2> QED
    BY <2>1 DEF Prune, Here
<1> HIDE DEF B, X, l, u
<1>4. l \in {"cleanup", "decide", "loop"}
  BY DEF l
<1>5. /\ pass' \in Passes /\ pass'.pc = l /\ pass'.t = u /\ pass'.cur = pass.cur /\ pass'.at = pass.at
      /\ pass'.js = pass.js /\ pass'.starts = pass.starts /\ pass'.how = pass.how
      /\ pass'.i = pass.i /\ pass'.list = pass.list /\ pass'.todo = pass.todo
  BY <1>0, <1>1, <1>2, <1>4 DEF TypeOK, Passes
<1>6. /\ objs' \in [Names -> Objects(now)] /\ Here'.spec = Here.spec /\ Here'.lst = Here.lst
      /\ Here'.created = Here.created /\ Here'.active = X
  BY <1>0, <1>3, <1>5 DEF TypeOK, Objects, Here
<1>7. TypeOK'
  BY <1>0, <1>2, <1>5, <1>6 DEF TypeOK, Passes
<1>8. Bound' = B /\ Fired' = Fired /\ Wanted' = {a \in Fired : B < a /\ a <= pass.at}
  BY <1>5, <1>6, BoundKept DEF Bound, Fired, Wanted, Activations, Location, B
<1>9. pass'.starts = <<>> /\ Len(pass'.starts) = 0 /\ Found' = {}
  BY <1>0, <1>5 DEF Inv, Fresh, Found
<1>10. B \in Int /\ pass.at \in Nat /\ pass.at <= MaxTime /\ MaxTime \in Nat /\ MaxMissed \in Nat
  BY <1>0, <1>1, PassFields
<1>11. Searching'
  <2> SUFFICES ASSUME l = "loop" PROVE Searching'
    BY <1>5 DEF Searching
  <2>1. Here.spec.schedule \in Schedules /\ B <= pass.at
    BY <1>10 DEF l
  <2>2. u = NextAfter(Here.spec, B)
    BY <2>1 DEF u
  <2>3. Fired = {} => u = ZeroTime
    BY <1>10, <2>1, <2>2, NextAfterIs DEF Fired
  <2>4. ASSUME Fired # {}
        PROVE  u \in Fired \cup {MaxTime + 1} /\ B < u /\ \A a \in Fired : ~(B < a /\ a < u)
    <3>1. \/ u = MaxTime + 1 /\ \A a \in Fired : a <= B
          \/ u \in Fired /\ u > B /\ \A a \in Fired : a > B => u <= a
      BY <1>10, <2>1, <2>2, <2>4, NextAfterIs DEF Fired
    <3>2. Fired \in SUBSET Nat
      BY <2>1, ActivationsAreNaturals DEF Fired
    <3>3. ASSUME NEW a \in Fired PROVE ~(B < a /\ a < u)
      <4>1. a \in Nat /\ (a <= B \/ (a > B => u <= a))
        BY <3>1, <3>2
      <4> QED
        BY <1>1, <4>1
    <3>4. u \in Fired \cup {MaxTime + 1} /\ B < u
      BY <1>10, <2>1, <3>1
    <3> QED
      BY <3>3, <3>4
  <2> QED
    BY <1>5, <1>6, <1>8, <1>9, <1>10, <2>1, <2>3, <2>4 DEF Searching, Increasing
<1>12. Searched'
  <2> SUFFICES ASSUME l = "decide" PROVE Searched'
    BY <1>5 DEF Searched
  <2>1. Here.spec.schedule \in Schedules /\ B > pass.at
    BY DEF l
  <2>2. Wanted' = {}
    <3>1. Fired \in SUBSET Nat
      BY <2>1, ActivationsAreNaturals DEF Fired
    <3>2. ASSUME NEW a \in Fired PROVE ~(B < a /\ a <= pass.at)
      <4>1. a \in Nat
        BY <3>1
      <4> QED
        BY <1>10, <2>1, <4>1
    <3> QED
      BY <1>8, <3>2
  <2> QED
    BY <1>5, <1>6, <1>8, <1>9, <1>10, <2>1, <2>2 DEF Searched, Increasing
<1>13. GaveUp' /\ Fresh'
  BY <1>4, <1>5, <1>9, <1>10 DEF GaveUp, Fresh
<1>14. Owners' /\ Coming'
  BY <1>0, <1>2, <1>4, <1>5 DEF Inv, Owners, Coming, Working, Exists
<1>15. ActiveRuns'
  BY <1>5, <1>6 DEF ActiveRuns, X
<1>16. Kept("Complete")' /\ Kept("Failed")'
  BY <1>0, <1>2, <1>5 DEF Inv, Sweeping, Kept, Exists
<1>17. Sweeping' /\ Removing' /\ PanicNeedsNegativeLimit'
  BY <1>4, <1>5, <1>16 DEF Sweeping, Removing, PanicNeedsNegativeLimit
<1> QED
  BY <1>7, <1>11, <1>12, <1>13, <1>14, <1>15, <1>17 DEF Inv

(* An increasing list is as long as the set of its elements is large.      *)
LEMMA IncreasingCounts ==
  ASSUME NEW l \in Seq(Int), Increasing(l), NEW S, IsFiniteSet(S),
         \A m \in 1..Len(l) : l[m] \in S
  PROVE  /\ Len(l) <= Cardinality(S)
         /\ S = {l[m] : m \in 1..Len(l)} => Len(l) = Cardinality(S)
<1>1. Len(l) \in Nat /\ l \in [1..Len(l) -> S] /\ \A m \in 1..Len(l) : l[m] \in Int
  <2>1. Len(l) \in Nat /\ l \in [1..Len(l) -> Int]
    OBVIOUS
  <2> QED
    BY <2>1
<1>2. l \in Injection(1..Len(l), S)
  <2>1. ASSUME NEW m \in 1..Len(l), NEW n \in 1..Len(l), l[m] = l[n] PROVE m = n
    <3>1. ~(m < n) /\ ~(n < m)
      BY <1>1, <2>1 DEF Increasing
    <3> QED
      BY <1>1, <3>1
  <2> QED
    BY <1>1, <2>1 DEF Injection, IsInjective
<1>3. IsFiniteSet(1..Len(l)) /\ Cardinality(1..Len(l)) = Len(l)
  <2>1. Len(l) \in Int /\ 1 \in Int
    BY <1>1
  <2>2. /\ IsFiniteSet(1..Len(l))
        /\ Cardinality(1..Len(l)) = IF 1 > Len(l) THEN 0 ELSE Len(l) - 1 + 1
    BY <2>1, FS_Interval
  <2> QED
    BY <1>1, <2>2
<1>4. /\ Cardinality(1..Len(l)) <= Cardinality(S)
      /\ Cardinality(1..Len(l)) = Cardinality(S) <=> l \in Surjection(1..Len(l), S)
  BY <1>2, FS_Injection
<1>5. S = {l[m] : m \in 1..Len(l)} => l \in Surjection(1..Len(l), S)
  BY <1>1 DEF Surjection
<1> QED
  BY <1>3, <1>4, <1>5

LEMMA WantedIsFinite ==
  ASSUME TypeOK, Here.spec.schedule \in Schedules
  PROVE  Fired \in SUBSET Nat /\ Wanted \in SUBSET Fired /\ IsFiniteSet(Wanted)
<1>1. Fired \in SUBSET Nat
  BY ActivationsAreNaturals DEF Fired
<1>2. pass.at \in Nat /\ Wanted \in SUBSET Nat /\ \A a \in Wanted : a <= pass.at
  BY <1>1, PassFields DEF Wanted
<1> QED
  BY <1>1, <1>2, FS_BoundedSetOfNaturals DEF Wanted

(* Steps that are of syncOne still and touch nothing but the pass.         *)
LEMMA SearchSteps ==
  ASSUME Inv, UNCHANGED <<now, objs, jobs>>, pass' \in Passes, pass.pc = "loop",
         pass'.pc \in {"loop", "decide", "cleanup"}, pass'.cur = pass.cur, pass'.at = pass.at,
         pass'.js = pass.js, pass'.todo = pass.todo, pass'.how = pass.how,
         pass'.list = pass.list, pass'.i = pass.i
  PROVE  /\ TypeOK' /\ Fresh' /\ Owners' /\ Coming' /\ ActiveRuns' /\ Sweeping' /\ Removing'
         /\ PanicNeedsNegativeLimit'
         /\ Here' = Here /\ Bound' = Bound /\ Fired' = Fired /\ Wanted' = Wanted
<1>1. Here' = Here /\ Bound' = Bound /\ Fired' = Fired /\ Wanted' = Wanted
  BY DEF Here, Bound, Fired, Wanted
<1>2. TypeOK' /\ Fresh'
  BY DEF Inv, TypeOK, Passes, Fresh
<1>3. Owners' /\ Coming' /\ ActiveRuns'
  BY <1>1 DEF Inv, Owners, Coming, Working, ActiveRuns, Exists
<1>4. Kept("Complete")' /\ Kept("Failed")'
  BY DEF Inv, Sweeping, Kept, Exists
<1>5. Sweeping' /\ Removing' /\ PanicNeedsNegativeLimit'
  BY <1>4 DEF Sweeping, Removing, PanicNeedsNegativeLimit
<1> QED
  BY <1>1, <1>2, <1>3, <1>5

(* One turn of the loop.                                                   *)
LEMMA LoopKeeps == ASSUME Inv, Loop PROVE Inv'
<1> DEFINE found == Append(pass.starts, pass.t)
<1>0. /\ pass.pc = "loop" /\ UNCHANGED <<now, objs, jobs>> /\ pass \in Passes /\ TypeOK
      /\ Here.spec.schedule \in Schedules /\ Bound <= pass.at /\ Len(pass.starts) <= MaxMissed
      /\ Fired = {} => pass.t = ZeroTime
      /\ Fired # {} =>
           /\ pass.t \in Fired \cup {MaxTime + 1} /\ Bound < pass.t
           /\ Increasing(pass.starts)
           /\ \A m \in 1..Len(pass.starts) : pass.starts[m] \in Wanted /\ pass.starts[m] < pass.t
           /\ \A a \in Fired : (Bound < a /\ a < pass.t) => a \in Found
  BY DEF Inv, TypeOK, Searching, Loop
<1>1. /\ pass.at \in Nat /\ pass.at <= MaxTime /\ MaxTime \in Nat /\ MaxMissed \in Nat
      /\ pass.t \in Int /\ pass.starts \in Seq(Int) /\ Len(pass.starts) \in Nat
  BY <1>0, PassFields
<1>2. /\ found \in Seq(Int) /\ Len(found) = Len(pass.starts) + 1
      /\ \A m \in 1..Len(pass.starts) : found[m] = pass.starts[m]
      /\ found[Len(pass.starts) + 1] = pass.t
  BY <1>1, AppendProperties
<1>3. Fired \in SUBSET Nat /\ IsFiniteSet(Wanted) /\ Bound \in Int
  <2>1. pass.at \in Int /\ Timed(Here)
    BY <1>0, <1>1, HereTimed
  <2> QED
    BY <1>0, <2>1, WantedIsFinite, LoopBoundIs DEF Bound
<1>4. CASE pass.t > pass.at
  <2>1. pass' = [pass EXCEPT !.pc = "decide"]
    BY <1>4 DEF Loop
  <2>2. /\ pass' \in Passes /\ pass'.pc = "decide" /\ pass'.cur = pass.cur /\ pass'.at = pass.at
        /\ pass'.js = pass.js /\ pass'.todo = pass.todo /\ pass'.how = pass.how
        /\ pass'.list = pass.list /\ pass'.i = pass.i /\ pass'.starts = pass.starts
    BY <1>0, <2>1 DEF Passes
  <2>3. /\ TypeOK' /\ Fresh' /\ Owners' /\ Coming' /\ ActiveRuns' /\ Sweeping' /\ Removing'
        /\ PanicNeedsNegativeLimit' /\ Here' = Here /\ Bound' = Bound /\ Fired' = Fired /\ Wanted' = Wanted
    BY <1>0, <2>2, SearchSteps
  <2>4. Fired # {}
    BY <1>0, <1>1, <1>4 DEF ZeroTime
  <2>5. Found = Wanted
    <3>1. Found \in SUBSET Wanted
      BY <1>0, <2>4 DEF Found
    <3>2. ASSUME NEW a \in Wanted PROVE a \in Found
      <4>1. a \in Fired /\ a \in Nat /\ Bound < a /\ a <= pass.at
        BY <1>3 DEF Wanted
      <4>2. a < pass.t
        BY <1>1, <1>4, <4>1
      <4> QED
        BY <1>0, <2>4, <4>1, <4>2
    <3> QED
      BY <3>1, <3>2
  <2>6. Searched'
    BY <1>0, <2>2, <2>3, <2>4, <2>5 DEF Searched, Increasing, Found
  <2>7. Searching' /\ GaveUp'
    BY <1>0, <1>1, <2>2 DEF Searching, GaveUp
  <2> QED
    BY <2>3, <2>6, <2>7 DEF Inv
<1>5. CASE ~(pass.t > pass.at)
  <2>1. Fired # {} => pass.t \in Wanted
    BY <1>0, <1>1, <1>5 DEF Wanted
  <2> HIDE DEF found
  <2>2. Fired # {} => Increasing(found) /\ \A m \in 1..Len(found) : found[m] \in Wanted
    <3> SUFFICES ASSUME Fired # {}
                 PROVE  Increasing(found) /\ \A m \in 1..Len(found) : found[m] \in Wanted
      OBVIOUS
    <3>1. \A m \in 1..Len(found) : m \in 1..Len(pass.starts) \/ m = Len(pass.starts) + 1
      BY <1>1, <1>2
    <3>2. ASSUME NEW m \in 1..Len(found) PROVE found[m] \in Wanted
      BY <1>0, <1>2, <2>1, <3>1
    <3>3. ASSUME NEW m \in 1..Len(found), NEW n \in 1..Len(found), m < n PROVE found[m] < found[n]
      <4>1. m \in 1..Len(pass.starts)
        BY <1>1, <1>2, <3>3
      <4>2. CASE n \in 1..Len(pass.starts)
        BY <1>0, <1>2, <3>3, <4>1, <4>2 DEF Increasing
      <4>3. CASE n = Len(pass.starts) + 1
        BY <1>0, <1>2, <4>1, <4>3
      <4> QED
        BY <3>1, <4>2, <4>3
    <3> QED
      BY <3>2, <3>3 DEF Increasing
  <2>3. CASE Len(found) > MaxMissed
    <3>1. pass' = [pass EXCEPT !.pc = "cleanup", !.starts = found]
      <4>1. pass' = GiveUp([pass EXCEPT !.starts = found])
        BY <1>5, <2>3 DEF Loop, found
      <4> QED
        BY <1>0, <4>1 DEF GiveUp, Passes
    <3>2. /\ pass' \in Passes /\ pass'.pc = "cleanup" /\ pass'.cur = pass.cur /\ pass'.at = pass.at
          /\ pass'.js = pass.js /\ pass'.todo = pass.todo /\ pass'.how = pass.how
          /\ pass'.list = pass.list /\ pass'.i = pass.i /\ pass'.starts = found
      BY <1>0, <1>2, <3>1 DEF Passes
    <3>3. /\ TypeOK' /\ Fresh' /\ Owners' /\ Coming' /\ ActiveRuns' /\ Sweeping' /\ Removing'
          /\ PanicNeedsNegativeLimit' /\ Here' = Here /\ Bound' = Bound /\ Fired' = Fired /\ Wanted' = Wanted
      BY <1>0, <3>2, SearchSteps
    <3>4. Fired = {} \/ Cardinality(Wanted) > MaxMissed
      <4> SUFFICES ASSUME Fired # {} PROVE Cardinality(Wanted) > MaxMissed
        OBVIOUS
      <4>1. Len(found) <= Cardinality(Wanted) /\ Cardinality(Wanted) \in Nat
        BY <1>2, <1>3, <2>2, IncreasingCounts, FS_CardinalityType
      <4> QED
        BY <1>1, <1>2, <2>3, <4>1
    <3>5. GaveUp'
      BY <1>0, <3>2, <3>3, <3>4 DEF GaveUp
    <3>6. Searching' /\ Searched'
      BY <3>2 DEF Searching, Searched
    <3> QED
      BY <3>3, <3>5, <3>6 DEF Inv
  <2>4. CASE ~(Len(found) > MaxMissed)
    <3> DEFINE u == NextAfter(Here.spec, pass.t)
    <3>1. pass' = [pass EXCEPT !.starts = found, !.t = u]
      BY <1>5, <2>4 DEF Loop, found
    <3>2. u \in Int
      BY <1>0, <1>1, NextAfterIs
    <3> HIDE DEF u
    <3>3. /\ pass' \in Passes /\ pass'.pc = "loop" /\ pass'.cur = pass.cur /\ pass'.at = pass.at
          /\ pass'.js = pass.js /\ pass'.todo = pass.todo /\ pass'.how = pass.how
          /\ pass'.list = pass.list /\ pass'.i = pass.i /\ pass'.starts = found /\ pass'.t = u
      BY <1>0, <1>2, <3>1, <3>2 DEF Passes
    <3>4. /\ TypeOK' /\ Fresh' /\ Owners' /\ Coming' /\ ActiveRuns' /\ Sweeping' /\ Removing'
          /\ PanicNeedsNegativeLimit' /\ Here' = Here /\ Bound' = Bound /\ Fired' = Fired /\ Wanted' = Wanted
      BY <1>0, <3>3, SearchSteps
    <3>5. Fired = {} => u = ZeroTime
      BY <1>0, <1>1, NextAfterIs DEF u, Fired
    <3>6. ASSUME Fired # {}
          PROVE  /\ u \in Fired \cup {MaxTime + 1} /\ Bound < u
                 /\ \A m \in 1..Len(found) : found[m] \in Wanted /\ found[m] < u
                 /\ \A a \in Fired : (Bound < a /\ a < u) => a \in {found[m] : m \in 1..Len(found)}
      <4>1. \/ u = MaxTime + 1 /\ \A a \in Fired : a <= pass.t
            \/ u \in Fired /\ u > pass.t /\ \A a \in Fired : a > pass.t => u <= a
        BY <1>0, <1>1, <3>6, NextAfterIs DEF u, Fired
      <4>2. u \in Fired \cup {MaxTime + 1} /\ pass.t < u /\ Bound < pass.t
        BY <1>0, <1>1, <1>5, <3>6, <4>1
      <4>3. Bound < u
        BY <1>1, <1>3, <3>2, <4>2
      <4>4. ASSUME NEW m \in 1..Len(found) PROVE found[m] < u
        <5>1. CASE m = Len(pass.starts) + 1
          BY <1>2, <4>2, <5>1
        <5>2. CASE m \in 1..Len(pass.starts)
          <6>1. found[m] < pass.t /\ found[m] \in Int
            <7>1. found[m] = pass.starts[m]
              BY <1>2, <5>2
            <7>2. pass.starts[m] < pass.t
              BY <1>0, <3>6, <5>2
            <7>3. pass.starts[m] \in Int
              BY <1>0, <5>2 DEF Passes
            <7> QED
              BY <7>1, <7>2, <7>3
          <6> QED
            BY <1>1, <3>2, <4>2, <6>1
        <5> QED
          BY <1>1, <1>2, <5>1, <5>2
      <4>5. ASSUME NEW a \in Fired, Bound < a, a < u PROVE \E m \in 1..Len(found) : a = found[m]
        <5>1. a \in Nat /\ ~(a > pass.t)
          BY <1>3, <1>1, <3>2, <4>1, <4>5
        <5>2. CASE a = pass.t
          BY <1>1, <1>2, <5>2
        <5>3. CASE a < pass.t
          <6>1. a \in Found
            BY <1>0, <3>6, <4>5, <5>3
          <6>2. PICK m \in 1..Len(pass.starts) : a = pass.starts[m]
            BY <6>1 DEF Found
          <6> QED
            BY <1>1, <1>2, <6>2
        <5> QED
          BY <1>1, <5>1, <5>2, <5>3
      <4> QED
        BY <2>2, <3>6, <4>2, <4>3, <4>4, <4>5
    <3>7. Searching'
      <4>1. Found' = {found[m] : m \in 1..Len(found)} /\ Len(found) <= MaxMissed
        BY <1>1, <1>2, <2>4, <3>3 DEF Found
      <4>2. /\ (Here.spec.schedule \in Schedules)' /\ Bound' <= pass'.at /\ Len(pass'.starts) <= MaxMissed
            /\ Fired' = {} => pass'.t = ZeroTime
        BY <1>0, <3>3, <3>4, <3>5, <4>1
      <4>3. ASSUME Fired # {}
            PROVE  /\ pass'.t \in Fired' \cup {MaxTime + 1} /\ Bound' < pass'.t
                   /\ Increasing(pass'.starts)
                   /\ \A m \in 1..Len(pass'.starts) : pass'.starts[m] \in Wanted' /\ pass'.starts[m] < pass'.t
                   /\ \A a \in Fired' : (Bound' < a /\ a < pass'.t) => a \in Found'
        <5> HIDE DEF found
        <5> QED
          BY <2>2, <3>3, <3>4, <3>6, <4>1, <4>3
      <4> QED
        BY <3>4, <4>2, <4>3 DEF Searching
    <3>8. GaveUp' /\ Searched'
      BY <1>1, <1>2, <2>4, <3>3 DEF GaveUp, Searched
    <3> QED
      BY <3>4, <3>7, <3>8 DEF Inv
  <2> QED
    BY <2>3, <2>4
<1> QED
  BY <1>4, <1>5

(* What the rest of syncOne leaves of the Jobs.                            *)
LEMMA StartEffect ==
  ASSUME Inv, pass.pc = "decide", pass.starts # <<>>, Start(Last(pass.starts))
  PROVE  /\ objs' \in [Names -> Objects(now)] /\ jobs' \in [JobNames -> Jobs]
         /\ \A n \in Names : n # pass.cur => objs'[n] = objs[n]
         /\ objs'[pass.cur].spec = Here.spec
         /\ \A j \in JobNames : (Exists(j) /\ jobs'[j] # jobs[j]) =>
              j \in Here.active /\ (Exists(j)' => jobs'[j].owner = pass.cur)
         /\ \A j \in JobNames : ~Exists(j) =>
              jobs'[j].state = "Absent" \/ jobs'[j].owner = pass.cur
<1> DEFINE n == pass.cur
           t == Last(pass.starts)
           killed == IF Here.spec.policy = "Replace" THEN Here.active ELSE {}
           left == [j \in JobNames |-> IF j \in killed THEN NoJob ELSE jobs[j]]
           taken == left[<<n, t>>].state # "Absent"
           new == [owner |-> n, state |-> "Running", start |-> {}]
<1>1. /\ TypeOK /\ n \in Names /\ Here \in Objects(now) /\ pass.at <= now /\ now <= MaxTime
      /\ pass.at \in Nat /\ now \in Nat /\ MaxTime \in Nat
      /\ pass.starts \in Seq(Int) /\ Found = Wanted /\ Here.spec.schedule \in Schedules
  BY HereTimed, PassFields DEF Inv, Searched
<1>2. t \in Nat /\ t <= now /\ <<n, t>> \in JobNames
  <2>1. Len(pass.starts) \in 1..Len(pass.starts) /\ t = pass.starts[Len(pass.starts)]
    BY <1>1 DEF Last
  <2>2. t \in Wanted
    BY <1>1, <2>1 DEF Found
  <2>3. t \in Nat /\ t <= pass.at
    BY <1>1, <2>2, WantedIsFinite DEF Wanted
  <2> QED
    BY <1>1, <2>3, ConstantNumbers DEF JobNames
<1>3. /\ jobs' = IF taken THEN left ELSE [left EXCEPT ![<<n, t>>] = new]
      /\ objs' = IF taken THEN [objs EXCEPT ![n].active = @ \ killed]
                 ELSE [objs EXCEPT ![n].active = (@ \ killed) \cup {<<n, t>>}, ![n].lst = t]
  BY DEF Start
<1> HIDE DEF t
<1>4. NoJob \in Jobs /\ new \in Jobs /\ NoJob.state = "Absent" /\ new.owner = n
  BY <1>1 DEF NoJob, Jobs, States, Optional
<1>5. left \in [JobNames -> Jobs] /\ \A j \in JobNames : left[j] = IF j \in killed THEN NoJob ELSE jobs[j]
  BY <1>1, <1>4 DEF TypeOK
<1> HIDE DEF left, new
<1>6. jobs' \in [JobNames -> Jobs]
  BY <1>2, <1>3, <1>4, <1>5
<1>7. /\ objs' \in [Names -> Objects(now)] /\ objs'[n].spec = Here.spec
      /\ \A m \in Names : m # n => objs'[m] = objs[m]
  <2>1. Here.active \ killed \in SUBSET JobNames /\ (Here.active \ killed) \cup {<<n, t>>} \in SUBSET JobNames
        /\ t \in Never..now
    <3>1. Here.active \in SUBSET JobNames
      BY <1>1 DEF Objects
    <3>2. t \in Never..now
      BY <1>1, <1>2 DEF Never
    <3> HIDE DEF killed, n
    <3> QED
      BY <1>2, <3>1, <3>2
  <2> HIDE DEF killed
  <2>2. CASE taken
    <3>1. objs' = [objs EXCEPT ![n].active = @ \ killed]
      BY <1>3, <2>2
    <3> QED
      BY <1>1, <2>1, <3>1 DEF TypeOK, Objects, Here
  <2>3. CASE ~taken
    <3>1. objs' = [objs EXCEPT ![n].active = (@ \ killed) \cup {<<n, t>>}, ![n].lst = t]
      BY <1>3, <2>3
    <3> QED
      BY <1>1, <2>1, <3>1 DEF TypeOK, Objects, Here
  <2> QED
    BY <2>2, <2>3
<1>8. ASSUME NEW j \in JobNames
      PROVE  \/ jobs'[j] = left[j]
             \/ j = <<n, t>> /\ left[j].state = "Absent" /\ jobs'[j] = new
  BY <1>2, <1>3, <1>5
<1>9. killed \in SUBSET Here.active
  OBVIOUS
<1> HIDE DEF killed
<1>10. ASSUME NEW j \in JobNames, Exists(j), jobs'[j] # jobs[j]
       PROVE  j \in Here.active /\ (Exists(j)' => jobs'[j].owner = n)
  <2>1. j \in killed
    BY <1>5, <1>8, <1>10 DEF Exists
  <2> QED
    BY <1>4, <1>5, <1>8, <1>9, <2>1 DEF Exists
<1>11. ASSUME NEW j \in JobNames, ~Exists(j)
       PROVE  jobs'[j].state = "Absent" \/ jobs'[j].owner = n
  BY <1>4, <1>5, <1>8, <1>11 DEF Exists
<1> QED
  BY <1>6, <1>7, <1>10, <1>11

LEMMA DecideKeeps == ASSUME Inv, Decide PROVE Inv'
<1>1. pass.pc = "decide" /\ pass' = [pass EXCEPT !.pc = "cleanup"] /\ now' = now /\ pass \in Passes /\ TypeOK
  BY DEF Decide, Go, Inv, TypeOK
<1>2. /\ objs' \in [Names -> Objects(now)] /\ jobs' \in [JobNames -> Jobs]
      /\ \A j \in JobNames : (Exists(j) /\ jobs'[j] # jobs[j]) =>
           j \in Here.active /\ (Exists(j)' => jobs'[j].owner = pass.cur)
      /\ \A j \in JobNames : ~Exists(j) =>
           jobs'[j].state = "Absent" \/ jobs'[j].owner = pass.cur
  <2>1. CASE UNCHANGED <<objs, jobs>>
    BY <1>1, <2>1 DEF TypeOK, Exists
  <2>2. CASE pass.starts # <<>> /\ Start(Last(pass.starts))
    BY <1>1, <2>2, StartEffect
  <2> QED
    BY <2>1, <2>2 DEF Decide
<1>3. /\ pass' \in Passes /\ pass'.pc = "cleanup" /\ pass'.cur = pass.cur /\ pass'.at = pass.at
      /\ pass'.js = pass.js /\ pass'.todo = pass.todo /\ pass'.starts = pass.starts
      /\ pass'.list = pass.list /\ pass'.i = pass.i
  BY <1>1 DEF Passes
<1>4. TypeOK'
  BY <1>1, <1>2, <1>3 DEF TypeOK, Passes
<1>5. GaveUp'
  <2>1. Len(pass.starts) <= MaxMissed /\ Len(pass.starts) \in Nat /\ MaxMissed \in Nat
    BY <1>1, PassFields DEF Inv, Searched
  <2> QED
    BY <1>3, <2>1 DEF GaveUp
<1>6. \A j \in Here.active : /\ pass.js[j].owner = pass.cur /\ pass.js[j].state = "Running"
                             /\ pass.cur \notin pass.todo
  BY <1>1 DEF Inv, ActiveRuns, Coming, Working, Children
<1>7. Owners' /\ Coming'
  <2>1. Coming'
    BY <1>1, <1>3 DEF Inv, Coming, Working
  <2>2. ASSUME NEW j \in JobNames, pass.js[j].state # "Absent", pass.js[j].owner \in pass.todo
        PROVE  Exists(j)' /\ jobs'[j].owner = pass.js[j].owner
    <3>1. Exists(j) /\ jobs[j].owner = pass.js[j].owner
      BY <1>1, <2>2 DEF Inv, Owners
    <3>2. jobs'[j] = jobs[j]
      BY <1>2, <1>6, <2>2, <3>1
    <3> QED
      BY <3>1, <3>2 DEF Exists
  <2>3. ASSUME NEW j \in JobNames, pass.js[j].state # "Absent", pass.js[j].owner = pass.cur, Exists(j)'
        PROVE  jobs'[j].owner = pass.cur
    <3>1. CASE Exists(j)
      BY <1>1, <1>2, <2>3, <3>1 DEF Inv, Owners, Working
    <3>2. CASE ~Exists(j)
      BY <1>2, <2>3, <3>2 DEF Exists
    <3> QED
      BY <3>1, <3>2
  <2> QED
    BY <1>3, <2>1, <2>2, <2>3 DEF Owners
<1>8. ASSUME NEW how \in Hows, Kept(how) PROVE Kept(how)'
  <2> SUFFICES ASSUME NEW j \in Finished(pass.js, pass.cur, how) PROVE Exists(j)'
    BY <1>3 DEF Kept
  <2>1. j \in JobNames /\ Exists(j) /\ pass.js[j].state = how /\ how # "Running"
    BY <1>8, FinishedIsListed DEF Kept, Hows
  <2>2. jobs'[j] = jobs[j]
    BY <1>2, <1>6, <2>1
  <2> QED
    BY <2>1, <2>2 DEF Exists
<1>9. Sweeping'
  BY <1>1, <1>3, <1>8 DEF Inv, Sweeping, Hows
<1> QED
  BY <1>3, <1>4, <1>5, <1>7, <1>9
     DEF Inv, Fresh, Searching, Searched, ActiveRuns, Removing, PanicNeedsNegativeLimit

(* A step of the sweep, but for what it removes.                           *)
LEMMA SweepSteps ==
  ASSUME Inv, UNCHANGED <<now, objs>>, pass' \in Passes, Working, pass.pc # "dead",
         pass'.pc \in {"sort", "remove", "next", "dead"},
         pass'.cur = pass.cur, pass'.at = pass.at, pass'.js = pass.js, pass'.todo = pass.todo,
         pass'.starts = pass.starts, pass'.i <= Len(pass'.list) + 1,
         jobs' \in [JobNames -> Jobs],
         pass.pc \in {"cleanup", "sort", "remove"},
         \A j \in JobNames :
           jobs'[j] = jobs[j] \/ (j \in Children(pass.js, pass.cur) /\ jobs'[j].state = "Absent")
  PROVE  /\ TypeOK' /\ Fresh' /\ Searching' /\ Searched' /\ GaveUp' /\ Owners' /\ Coming'
         /\ ActiveRuns' /\ Here' = Here
<1>1. Here' = Here /\ Bound' = Bound /\ Fired' = Fired /\ Wanted' = Wanted
  BY DEF Here, Bound, Fired, Wanted
<1>2. TypeOK'
  BY DEF Inv, TypeOK, Passes
<1>3. Fresh' /\ Searching' /\ Searched' /\ ActiveRuns'
  BY DEF Fresh, Searching, Searched, ActiveRuns
<1>4. GaveUp'
  BY <1>1 DEF Inv, GaveUp
<1>5. Coming'
  BY DEF Inv, Coming, Working
<1>6. Owners'
  <2>1. pass.cur \notin pass.todo /\ pass.pc # "idle"
    BY DEF Inv, Coming, Working
  <2> QED
    BY <2>1 DEF Inv, Owners, Exists, Working, Children
<1> QED
  BY <1>1, <1>2, <1>3, <1>4, <1>5, <1>6

LEMMA CleanupKeeps == ASSUME Inv, Cleanup PROVE Inv'
<1> DEFINE l == IF Here.spec.keepComplete = {} /\ Here.spec.keepFailed = {} THEN "next" ELSE "sort"
<1>1. /\ pass.pc = "cleanup" /\ pass' = [pass EXCEPT !.how = "Complete", !.pc = l]
      /\ UNCHANGED <<now, objs, jobs>> /\ pass \in Passes /\ TypeOK /\ Working
  BY DEF Cleanup, Inv, TypeOK, Working
<1> HIDE DEF l
<1>2. /\ pass' \in Passes /\ pass'.pc \in {"next", "sort"} /\ pass'.cur = pass.cur
      /\ pass'.at = pass.at /\ pass'.js = pass.js /\ pass'.todo = pass.todo
      /\ pass'.starts = pass.starts /\ pass'.list = pass.list /\ pass'.i = pass.i
      /\ pass'.how = "Complete"
  BY <1>1 DEF Passes, Hows, l
<1>3. pass.i <= Len(pass.list) + 1 /\ jobs \in [JobNames -> Jobs]
  BY <1>1 DEF TypeOK
<1>4. /\ TypeOK' /\ Fresh' /\ Searching' /\ Searched' /\ GaveUp' /\ Owners' /\ Coming'
      /\ ActiveRuns' /\ Here' = Here
  BY <1>1, <1>2, <1>3, SweepSteps
<1>5. Kept("Complete")' /\ Kept("Failed")'
  BY <1>1, <1>2 DEF Inv, Sweeping, Kept, Exists
<1>6. Sweeping' /\ Removing' /\ PanicNeedsNegativeLimit'
  BY <1>2, <1>5 DEF Sweeping, Removing, PanicNeedsNegativeLimit
<1> QED
  BY <1>4, <1>6 DEF Inv

(* The locals after one way to be finished.                                *)
LEMMA AfterSortLocals ==
  ASSUME NEW p \in Passes
  PROVE  /\ AfterSort(p) \in Passes
         /\ AfterSort(p).cur = p.cur /\ AfterSort(p).at = p.at /\ AfterSort(p).js = p.js
         /\ AfterSort(p).todo = p.todo /\ AfterSort(p).starts = p.starts
         /\ AfterSort(p).list = <<>> /\ AfterSort(p).i = 0
         /\ p.how = "Complete" => AfterSort(p).pc = "sort" /\ AfterSort(p).how = "Failed"
         /\ p.how # "Complete" => AfterSort(p).pc = "next" /\ AfterSort(p).how = p.how
<1> DEFINE l == IF p.how = "Complete" THEN "sort" ELSE "next"
           h == IF p.how = "Complete" THEN "Failed" ELSE p.how
           none == <<>>
           zero == 0
           a == AfterSort(p)
<1>1. l \in {"sort", "remove", "next"} /\ h \in Hows /\ none \in Seq(JobNames) /\ zero \in Nat
  BY DEF Passes, Hows
<1>2. a = [p EXCEPT !.pc = l, !.how = h, !.list = none, !.i = zero]
  BY DEF AfterSort, Passes
<1> HIDE DEF l, h, none, zero, a
<1>3. a \in Passes
  BY <1>1, <1>2 DEF Passes
<1>4. /\ a.cur = p.cur /\ a.at = p.at /\ a.js = p.js /\ a.todo = p.todo /\ a.starts = p.starts
      /\ a.list = none /\ a.i = zero /\ a.pc = l /\ a.how = h
  BY <1>2 DEF Passes
<1> QED
  BY <1>3, <1>4 DEF l, h, none, zero, a

(* One way to be finished is done with.                                    *)
LEMMA AfterSortKeeps ==
  ASSUME Inv, pass.pc \in {"sort", "remove"}, pass' = AfterSort(pass),
         UNCHANGED <<now, objs, jobs>>, Swept(pass.how)
  PROVE  Inv'
<1>1. pass \in Passes /\ TypeOK /\ pass.how \in Hows /\ Working
  BY DEF Inv, TypeOK, Passes, Working
<1> DEFINE none == <<>>
<1>2. Len(none) = 0
  OBVIOUS
<1>4. /\ pass' \in Passes /\ pass'.cur = pass.cur /\ pass'.at = pass.at /\ pass'.js = pass.js
      /\ pass'.todo = pass.todo /\ pass'.starts = pass.starts /\ pass'.list = none /\ pass'.i = 0
      /\ IF pass.how = "Complete" THEN pass'.pc = "sort" /\ pass'.how = "Failed"
         ELSE pass'.pc = "next" /\ pass'.how = pass.how
  BY <1>1, AfterSortLocals
<1> HIDE DEF none
<1>5. /\ TypeOK' /\ Fresh' /\ Searching' /\ Searched' /\ GaveUp' /\ Owners' /\ Coming'
      /\ ActiveRuns' /\ Here' = Here
  <2>1. pass'.i <= Len(pass'.list) + 1 /\ jobs' \in [JobNames -> Jobs]
    BY <1>1, <1>4, <1>2 DEF TypeOK
  <2> QED
    BY <1>1, <1>4, <2>1, SweepSteps
<1>6. \A how : (Swept(how)' <=> Swept(how)) /\ (Kept(how)' <=> Kept(how))
  BY <1>4, <1>5 DEF Swept, Kept, Exists
<1>7. Sweeping'
  <2>1. CASE pass.how = "Complete"
    <3>1. Kept("Failed") /\ Swept("Complete")
      BY <2>1 DEF Inv, Sweeping
    <3> QED
      BY <1>4, <1>6, <2>1, <3>1 DEF Sweeping
  <2>2. CASE pass.how = "Failed"
    <3>1. Swept("Failed") /\ Swept("Complete")
      BY <2>2 DEF Inv, Sweeping
    <3> QED
      BY <1>4, <1>6, <2>2, <3>1 DEF Sweeping
  <2> QED
    BY <1>1, <2>1, <2>2 DEF Hows
<1>8. Removing' /\ PanicNeedsNegativeLimit'
  BY <1>4 DEF Removing, PanicNeedsNegativeLimit
<1> QED
  BY <1>5, <1>7, <1>8 DEF Inv

LEMMA LimitCases ==
  ASSUME TypeOK
  PROVE  Limit(Here.spec, pass.how) = {} \/ \E k \in Int : Limit(Here.spec, pass.how) = {k}
<1>1. Timed(Here) /\ pass.how \in Hows
  BY HereTimed, PassFields
<1> QED
  BY <1>1, TimedFields, OptionalCases DEF Hows

LEMMA NumToDeleteIs ==
  ASSUME NEW p, NEW k \in Int, Limit(objs[p.cur].spec, p.how) = {k}
  PROVE  NumToDelete(p) = Len(p.list) - k
<1>1. {Len(p.list) - x : x \in Limit(objs[p.cur].spec, p.how)} = {Len(p.list) - k}
  OBVIOUS
<1> QED
  BY <1>1 DEF NumToDelete

LEMMA SortKeeps == ASSUME Inv, Sort PROVE Inv'
<1> DEFINE S == Finished(pass.js, pass.cur, pass.how)
<1>1. /\ TypeOK /\ pass \in Passes /\ pass.pc = "sort" /\ UNCHANGED <<now, objs, jobs>>
      /\ pass.how \in Hows /\ pass.js \in [JobNames -> Jobs] /\ Working /\ Kept(pass.how)
  BY PassFields DEF Inv, TypeOK, Sort, Sweeping, Working
<1>2. S \in SUBSET JobNames /\ Cardinality(S) \in Nat
  BY FinishedIsListed, JobNamesAreFinite
<1>3. Limit(Here.spec, pass.how) = {} \/ \E k \in Int : Limit(Here.spec, pass.how) = {k}
  BY <1>1, LimitCases
<1>4. CASE \E k \in Limit(Here.spec, pass.how) : Cardinality(S) - k > 0
  <2>1. PICK l \in Sorted(pass.js, S) : pass' = [pass EXCEPT !.pc = "remove", !.list = l, !.i = 1]
    BY <1>4 DEF Sort
  <2>2. PICK k \in Int : Limit(Here.spec, pass.how) = {k} /\ Cardinality(S) - k > 0
    BY <1>3, <1>4
  <2>3. /\ l \in Seq(JobNames) /\ Len(l) = Cardinality(S) /\ \A m \in 1..Len(l) : l[m] \in S
    BY <1>1, <1>2, SortedThroughout
  <2>4. /\ pass' \in Passes /\ pass'.cur = pass.cur /\ pass'.at = pass.at /\ pass'.js = pass.js
        /\ pass'.todo = pass.todo /\ pass'.starts = pass.starts /\ pass'.pc = "remove"
        /\ pass'.how = pass.how /\ pass'.list = l /\ pass'.i = 1
    BY <1>1, <2>1, <2>3 DEF Passes
  <2>5. /\ TypeOK' /\ Fresh' /\ Searching' /\ Searched' /\ GaveUp' /\ Owners' /\ Coming'
        /\ ActiveRuns' /\ Here' = Here
    <3>1. pass'.i <= Len(pass'.list) + 1 /\ jobs' \in [JobNames -> Jobs]
      BY <1>1, <1>2, <2>3, <2>4 DEF TypeOK
    <3> QED
      BY <1>1, <2>4, <3>1, SweepSteps
  <2>6. NumToDelete(pass)' = Len(l) - k
    <3>1. Limit(objs'[pass'.cur].spec, pass'.how) = {k}
      BY <1>1, <2>2, <2>4 DEF Here
    <3>2. {Len(l) - x : x \in Limit(objs'[pass'.cur].spec, pass'.how)} = {Len(l) - k}
      BY <3>1
    <3> QED
      BY <2>4, <3>2 DEF NumToDelete
  <2>7. Removing'
    <3>1. \A m \in 1..Len(l) : Exists(l[m])' /\ 1 <= m
      BY <1>1, <2>3 DEF Kept, Exists
    <3>2. pass'.i <= NumToDelete(pass)' + 1
      BY <1>2, <2>2, <2>3, <2>4, <2>6
    <3>3. pass'.list \in Sorted(pass'.js, Finished(pass'.js, pass'.cur, pass'.how))
      BY <2>4
    <3>4. Limit(Here'.spec, pass'.how) # {}
      BY <2>2, <2>4, <2>5
    <3>5. \A m \in 1..Len(pass'.list) : Exists(pass.list[m])' <=> pass'.i <= m
      BY <2>4, <3>1 DEF Exists
    <3>6. pass'.i >= 1
      BY <2>4
    <3> HIDE DEF S
    <3> QED
      BY <3>2, <3>3, <3>4, <3>5, <3>6 DEF Removing
  <2>8. Sweeping'
    <3>1. \A how : (Swept(how)' <=> Swept(how)) /\ (Kept(how)' <=> Kept(how))
      BY <1>1, <2>4, <2>5 DEF Swept, Kept, Exists
    <3> QED
      BY <1>1, <2>4, <3>1 DEF Inv, Sweeping
  <2> QED
    BY <2>4, <2>5, <2>7, <2>8 DEF Inv, PanicNeedsNegativeLimit
<1>5. CASE ~\E k \in Limit(Here.spec, pass.how) : Cardinality(S) - k > 0
  <2>1. pass' = AfterSort(pass)
    BY <1>5 DEF Sort
  <2>2. Swept(pass.how)
    <3> SUFFICES ASSUME NEW k \in Limit(Here.spec, pass.how)
                 PROVE  Cardinality({j \in S : Exists(j)}) = IF Cardinality(S) <= k THEN Cardinality(S) ELSE k
      BY DEF Swept
    <3>1. {j \in S : Exists(j)} = S
      BY <1>1 DEF Kept
    <3>2. k \in Int /\ ~(Cardinality(S) - k > 0)
      BY <1>3, <1>5
    <3>3. Cardinality(S) <= k
      <4> DEFINE c == Cardinality(S)
      <4>1. c \in Nat /\ ~(c - k > 0)
        BY <1>2, <3>2
      <4> HIDE DEF c
      <4>2. c <= k
        BY <3>2, <4>1
      <4> QED
        BY <4>2 DEF c
    <3> QED
      BY <3>1, <3>3
  <2> QED
    BY <1>1, <2>1, <2>2, AfterSortKeeps
<1> QED
  BY <1>4, <1>5

(* What the loop of the sweep knows.                                       *)
LEMMA RemovingFacts ==
  ASSUME Inv, pass.pc = "remove"
  PROVE  LET S == Finished(pass.js, pass.cur, pass.how)
         IN  /\ S \in SUBSET Children(pass.js, pass.cur) /\ S \in SUBSET JobNames
             /\ IsFiniteSet(S) /\ Cardinality(S) \in Nat
             /\ pass.list \in Seq(JobNames) /\ Len(pass.list) = Cardinality(S)
             /\ \A m \in 1..Len(pass.list) : pass.list[m] \in S
             /\ \A m, n \in 1..Len(pass.list) : m # n => pass.list[m] # pass.list[n]
             /\ \A m \in 1..Len(pass.list) : Exists(pass.list[m]) <=> pass.i <= m
             /\ pass.i \in Nat /\ pass.i >= 1 /\ pass.i <= Len(pass.list) + 1
             /\ \E k \in Int : /\ Limit(Here.spec, pass.how) = {k}
                               /\ NumToDelete(pass) = Len(pass.list) - k
                               /\ pass.i <= Len(pass.list) - k + 1
<1> DEFINE S == Finished(pass.js, pass.cur, pass.how)
<1>1. TypeOK /\ Removing /\ pass.js \in [JobNames -> Jobs] /\ pass.i \in Nat /\ pass.i <= Len(pass.list) + 1
  BY PassFields DEF Inv, TypeOK
<1>2. S \in SUBSET Children(pass.js, pass.cur) /\ S \in SUBSET JobNames
  BY FinishedIsListed
<1>3. IsFiniteSet(S) /\ Cardinality(S) \in Nat
  BY <1>2, JobNamesAreFinite
<1>4. pass.list \in Sorted(pass.js, S)
  BY <1>1 DEF Removing
<1>5. /\ pass.list \in Seq(JobNames) /\ Len(pass.list) = Cardinality(S)
      /\ \A m \in 1..Len(pass.list) : pass.list[m] \in S
      /\ \A m, n \in 1..Len(pass.list) : m # n => pass.list[m] # pass.list[n]
  BY <1>1, <1>2, <1>4, SortedThroughout
<1>6. PICK k \in Int : Limit(Here.spec, pass.how) = {k}
  BY <1>1, LimitCases DEF Removing
<1>7. NumToDelete(pass) = Len(pass.list) - k
  BY <1>6, NumToDeleteIs DEF Here
<1> QED
  BY <1>1, <1>2, <1>3, <1>5, <1>6, <1>7 DEF Removing

(* The next Job of the list is deleted.                                    *)
LEMMA RemoveNextKeeps == ASSUME Inv, RemoveNext PROVE Inv'
<1> DEFINE S == Finished(pass.js, pass.cur, pass.how)
           j == pass.list[pass.i]
<1>1. /\ TypeOK /\ pass \in Passes /\ pass.pc = "remove" /\ UNCHANGED <<now, objs>>
      /\ pass.how \in Hows /\ pass.js \in [JobNames -> Jobs] /\ Working
      /\ jobs \in [JobNames -> Jobs] /\ NoJob \in Jobs /\ pass.i <= Len(pass.list)
      /\ pass.i <= NumToDelete(pass)
      /\ jobs' = [jobs EXCEPT ![j] = NoJob] /\ pass' = [pass EXCEPT !.i = pass.i + 1]
  <2>1. NoJob \in Jobs
    BY DEF NoJob, Jobs, States, Optional
  <2> QED
    BY <2>1, PassFields DEF Inv, TypeOK, RemoveNext, MoreToRemove, Working
<1>2. /\ S \in SUBSET Children(pass.js, pass.cur) /\ S \in SUBSET JobNames
      /\ pass.list \in Seq(JobNames) /\ Len(pass.list) = Cardinality(S) /\ Len(pass.list) \in Nat
      /\ \A m \in 1..Len(pass.list) : pass.list[m] \in S
      /\ \A m, n \in 1..Len(pass.list) : m # n => pass.list[m] # pass.list[n]
      /\ \A m \in 1..Len(pass.list) : Exists(pass.list[m]) <=> pass.i <= m
      /\ pass.i \in Nat /\ pass.i >= 1
  BY <1>1, RemovingFacts
<1>3. j \in S /\ j \in JobNames /\ j \in Children(pass.js, pass.cur) /\ pass.i \in 1..Len(pass.list)
  BY <1>1, <1>2
<1>4. PICK k \in Int : NumToDelete(pass) = Len(pass.list) - k
  BY <1>1, RemovingFacts
<1> HIDE DEF S
<1>5. /\ pass' \in Passes /\ pass'.cur = pass.cur /\ pass'.at = pass.at /\ pass'.js = pass.js
      /\ pass'.todo = pass.todo /\ pass'.starts = pass.starts /\ pass'.pc = "remove"
      /\ pass'.how = pass.how /\ pass'.list = pass.list /\ pass'.i = pass.i + 1
  <2>1. pass.i + 1 \in Nat
    BY <1>2
  <2> QED
    BY <1>1, <2>1 DEF Passes
<1>6. /\ jobs' \in [JobNames -> Jobs] /\ jobs'[j].state = "Absent"
      /\ \A x \in JobNames : x # j => jobs'[x] = jobs[x]
  <2> HIDE DEF j
  <2> QED
    BY <1>1, <1>3 DEF NoJob
<1>7. /\ TypeOK' /\ Fresh' /\ Searching' /\ Searched' /\ GaveUp' /\ Owners' /\ Coming'
      /\ ActiveRuns' /\ Here' = Here
  <2>1. pass'.i <= Len(pass'.list) + 1
    BY <1>1, <1>2, <1>5
  <2>2. \A x \in JobNames :
          jobs'[x] = jobs[x] \/ (x \in Children(pass.js, pass.cur) /\ jobs'[x].state = "Absent")
    BY <1>3, <1>6
  <2> QED
    BY <1>1, <1>5, <1>6, <2>1, <2>2, SweepSteps
<1>8. Removing'
  <2>1. NumToDelete(pass)' = NumToDelete(pass)
    BY <1>1, <1>5 DEF NumToDelete
  <2>2. pass'.i >= 1 /\ pass'.i <= NumToDelete(pass)' + 1
    BY <1>1, <1>2, <1>4, <1>5, <2>1
  <2>3. ASSUME NEW m \in 1..Len(pass.list)
        PROVE  Exists(pass.list[m])' <=> pass.i + 1 <= m
    <3>1. CASE m = pass.i
      BY <1>2, <1>5, <1>6, <3>1 DEF Exists
    <3>2. CASE m # pass.i
      <4>1. pass.list[m] # j /\ pass.list[m] \in JobNames
        BY <1>2, <1>3, <3>2
      <4>2. jobs'[pass.list[m]] = jobs[pass.list[m]]
        BY <1>6, <4>1
      <4>3. Exists(pass.list[m]) <=> pass.i <= m
        BY <1>2
      <4> QED
        BY <1>2, <1>5, <3>2, <4>2, <4>3 DEF Exists
    <3> QED
      BY <3>1, <3>2
  <2>4. /\ pass.list \in Sorted(pass.js, Finished(pass.js, pass.cur, pass.how))
        /\ Limit(Here.spec, pass.how) # {}
    BY <1>1 DEF Inv, Removing
  <2> QED
    BY <1>5, <1>7, <2>2, <2>3, <2>4 DEF Removing, Exists
<1>9. Sweeping'
  <2>1. pass.js[j].state = pass.how
    BY <1>3, FinishedIsListed DEF S
  <2>2. ASSUME NEW how, how # pass.how, NEW x \in Finished(pass.js, pass.cur, how)
        PROVE  x \in JobNames /\ jobs'[x] = jobs[x]
    BY <1>6, <2>1, <2>2, FinishedIsListed
  <2>3. pass.how = "Complete" => Kept("Failed")'
    <3> SUFFICES ASSUME pass.how = "Complete", NEW x \in Finished(pass.js, pass.cur, "Failed")
                 PROVE  jobs'[x].state # "Absent"
      BY <1>5 DEF Kept, Exists
    <3>1. Exists(x)
      BY <1>1 DEF Inv, Sweeping, Kept
    <3> QED
      BY <2>2, <3>1 DEF Exists
  <2>4. pass.how # "Complete" => Swept("Complete")'
    <3> SUFFICES ASSUME pass.how # "Complete" PROVE Swept("Complete")'
      OBVIOUS
    <3>1. Swept("Complete")
      BY <1>1 DEF Inv, Sweeping
    <3>2. {x \in Finished(pass.js, pass.cur, "Complete") : Exists(x)}'
            = {x \in Finished(pass.js, pass.cur, "Complete") : Exists(x)}
      BY <1>5, <2>2 DEF Exists
    <3> QED
      BY <1>5, <1>7, <3>1, <3>2 DEF Swept
  <2> QED
    BY <1>5, <2>3, <2>4 DEF Sweeping
<1> QED
  BY <1>5, <1>7, <1>8, <1>9 DEF Inv, PanicNeedsNegativeLimit

(* The index leaves the list.                                              *)
LEMMA PanicKeeps == ASSUME Inv, Panic PROVE Inv'
<1>1. /\ TypeOK /\ pass \in Passes /\ pass.pc = "remove" /\ UNCHANGED <<now, objs, jobs>> /\ Working
      /\ pass' = [pass EXCEPT !.pc = "dead"] /\ pass.i <= NumToDelete(pass) /\ pass.i > Len(pass.list)
      /\ pass.i <= Len(pass.list) + 1 /\ jobs \in [JobNames -> Jobs]
  BY DEF Inv, TypeOK, Panic, Go, MoreToRemove, Working
<1>2. PICK k \in Int : /\ Limit(Here.spec, pass.how) = {k} /\ NumToDelete(pass) = Len(pass.list) - k
                       /\ Len(pass.list) \in Nat /\ pass.i \in Nat
  BY <1>1, RemovingFacts
<1>3. k < 0
  BY <1>1, <1>2
<1>4. /\ pass' \in Passes /\ pass'.cur = pass.cur /\ pass'.at = pass.at /\ pass'.js = pass.js
      /\ pass'.todo = pass.todo /\ pass'.starts = pass.starts /\ pass'.pc = "dead"
      /\ pass'.how = pass.how /\ pass'.list = pass.list /\ pass'.i = pass.i
  BY <1>1 DEF Passes
<1>5. /\ TypeOK' /\ Fresh' /\ Searching' /\ Searched' /\ GaveUp' /\ Owners' /\ Coming'
      /\ ActiveRuns' /\ Here' = Here
  BY <1>1, <1>4, SweepSteps
<1>6. PanicNeedsNegativeLimit'
  BY <1>2, <1>3, <1>4, <1>5 DEF PanicNeedsNegativeLimit
<1>7. Sweeping' /\ Removing'
  BY <1>4 DEF Sweeping, Removing
<1> QED
  BY <1>5, <1>6, <1>7 DEF Inv

(* The loop of the sweep is over: as many Jobs are left as are kept.       *)
LEMMA EndRemoveKeeps == ASSUME Inv, EndRemove PROVE Inv'
<1> DEFINE S == Finished(pass.js, pass.cur, pass.how)
           L == pass.list
           X == {j \in S : Exists(j)}
           I == pass.i..Len(L)
           f == [m \in I |-> L[m]]
<1>1. /\ pass.pc = "remove" /\ UNCHANGED <<now, objs, jobs>> /\ pass' = AfterSort(pass)
      /\ ~(pass.i <= NumToDelete(pass))
  BY DEF EndRemove, MoreToRemove
<1>2. /\ IsFiniteSet(S) /\ Len(L) = Cardinality(S) /\ Len(L) \in Nat
      /\ \A m \in 1..Len(L) : L[m] \in S
      /\ \A m, n \in 1..Len(L) : m # n => L[m] # L[n]
      /\ \A m \in 1..Len(L) : Exists(L[m]) <=> pass.i <= m
      /\ pass.i \in Nat /\ pass.i >= 1 /\ pass.i <= Len(L) + 1
  BY <1>1, RemovingFacts
<1>3. PICK k \in Int : /\ Limit(Here.spec, pass.how) = {k} /\ NumToDelete(pass) = Len(L) - k
                       /\ pass.i <= Len(L) - k + 1
  BY <1>1, RemovingFacts
<1>4. pass.i = Len(L) - k + 1
  BY <1>1, <1>2, <1>3
<1> HIDE DEF S, L
<1>5. \A x \in S : \E m \in 1..Len(L) : L[m] = x
  <2> DEFINE g == [m \in 1..Len(L) |-> L[m]]
  <2>1. IsFiniteSet(1..Len(L)) /\ Cardinality(1..Len(L)) = Len(L)
    <3>1. Len(L) \in Int /\ 1 \in Int
      BY <1>2
    <3>2. /\ IsFiniteSet(1..Len(L))
          /\ Cardinality(1..Len(L)) = IF 1 > Len(L) THEN 0 ELSE Len(L) - 1 + 1
      BY <3>1, FS_Interval
    <3> QED
      BY <1>2, <3>2
  <2>2. g \in Injection(1..Len(L), S)
    BY <1>2 DEF Injection, IsInjective
  <2>3. g \in Surjection(1..Len(L), S)
    BY <1>2, <2>1, <2>2, FS_Injection
  <2> QED
    BY <2>3 DEF Surjection
<1>6. f \in Bijection(I, X)
  <2>1. \A m \in I : m \in 1..Len(L) /\ pass.i <= m
    BY <1>2
  <2>2. f \in [I -> X]
    BY <1>2, <2>1
  <2>3. f \in Injection(I, X)
    BY <1>2, <2>1, <2>2 DEF Injection, IsInjective
  <2>4. ASSUME NEW x \in X PROVE \E m \in I : f[m] = x
    <3>1. PICK m \in 1..Len(L) : L[m] = x
      BY <1>5
    <3>2. m \in I
      BY <1>2, <3>1
    <3> QED
      BY <3>1, <3>2
  <2> QED
    BY <2>2, <2>3, <2>4 DEF Bijection, Surjection
<1>7. IsFiniteSet(I) /\ Cardinality(I) = k
  <2>1. pass.i \in Int /\ Len(L) \in Int
    BY <1>2
  <2>2. /\ IsFiniteSet(I)
        /\ Cardinality(I) = IF pass.i > Len(L) THEN 0 ELSE Len(L) - pass.i + 1
    BY <2>1, FS_Interval
  <2> QED
    BY <1>2, <1>4, <2>2
<1> HIDE DEF I, f
<1>8. Cardinality(X) = k
  <2>1. ExistsBijection(I, X)
    BY <1>6 DEF ExistsBijection
  <2> QED
    BY <1>7, <2>1, FS_Bijection
<1>9. Swept(pass.how)
  <2>1. Cardinality(S) >= k
    BY <1>2, <1>4
  <2>2. Cardinality(X) = IF Cardinality(S) <= k THEN Cardinality(S) ELSE k
    BY <1>2, <1>8, <2>1
  <2> QED
    BY <1>3, <2>2 DEF Swept, S
<1> QED
  BY <1>1, <1>9, AfterSortKeeps

LEMMA InitInv == Init => Inv
<1> SUFFICES ASSUME Init PROVE Inv
  OBVIOUS
<1>1. PICK c \in Clusters : objs = c.objs /\ jobs = c.jobs
  BY DEF Init
<1>2. now = 0 /\ pass = Resting /\ now \in 0..MaxTime
  BY ConstantNumbers DEF Init
<1>3. objs \in [Names -> Objects(now)] /\ jobs \in [JobNames -> Jobs]
  BY <1>1, <1>2, SyncAllAssumption
<1>4. /\ Resting \in Passes /\ Resting.pc = "idle" /\ Resting.starts = <<>> /\ Resting.i = 0
      /\ Resting.list = <<>>
  <2>1. NoJob \in Jobs
    BY DEF NoJob, Jobs, States, Optional
  <2>2. (CHOOSE n \in Names : TRUE) \in Names
    BY SyncAllAssumption
  <2>3. 0 \in 0..now
    BY <1>2
  <2> QED
    BY <2>1, <2>2, <2>3 DEF Resting, Passes, Hows
<1>5. TypeOK
  BY <1>2, <1>3, <1>4 DEF TypeOK
<1>6. GaveUp
  BY <1>2, <1>4, ScheduleAssumption DEF GaveUp
<1> QED
  BY <1>2, <1>4, <1>5, <1>6
     DEF Inv, Fresh, Searching, Searched, Owners, Coming, Working, ActiveRuns, Sweeping, Removing,
         PanicNeedsNegativeLimit

LEMMA NextInv == Inv /\ [Next]_vars => Inv'
<1> SUFFICES ASSUME Inv, [Next]_vars PROVE Inv'
  OBVIOUS
<1>1. CASE Next
  <2>1. CASE List \/ EndPass \/ Restart \/ \E n \in Names : Take(n)
    BY <2>1, ListKeeps, RestKeeps, TakeKeeps
  <2>2. CASE Prune \/ Loop \/ Decide
    BY <2>2, PruneKeeps, LoopKeeps, DecideKeeps
  <2>3. CASE Cleanup \/ Sort \/ RemoveNext \/ Panic \/ EndRemove
    BY <2>3, CleanupKeeps, SortKeeps, RemoveNextKeeps, PanicKeeps, EndRemoveKeeps
  <2>4. CASE Tick \/ \E j \in JobNames : Observe(j) \/ Finish(j)
    BY <2>4, TickKeeps, ObserveKeeps
  <2> QED
    BY <1>1, <2>1, <2>2, <2>3, <2>4 DEF Next, PassStep
<1>2. CASE UNCHANGED vars
  <2>1. TypeOK' /\ pass' = pass /\ objs' = objs /\ jobs' = jobs
    BY <1>2 DEF Inv, TypeOK, vars, Passes
  <2> QED
    BY <2>1, Quiet DEF Exists
<1> QED
  BY <1>1, <1>2

(* The invariant that all the others follow from.                          *)
THEOREM Invariance == Spec => []Inv
<1> QED
  BY InitInv, NextInv, PTL DEF Spec
-----------------------------------------------------------------------------
(* What follows from it.                                                   *)

(* Every variable has its type: the Job that is started is for an instant  *)
(* of the clock, and the sweep's index passes the end of its list by one   *)
(* at most (syncOne, removeOldestJobs).                                    *)
THEOREM TypeCorrect == Spec => []TypeOK
<1>1. Inv => TypeOK
  BY DEF Inv
<1> QED
  BY <1>1, Invariance, PTL

(* Whatever else is wrong with a TZCronJob, the process dies in the sweep  *)
(* of one whose history limit is negative, and in no other.                *)
THEOREM OnlyNegativeLimitsPanic == Spec => []PanicNeedsNegativeLimit
<1>1. Inv => PanicNeedsNegativeLimit
  BY DEF Inv
<1> QED
  BY <1>1, Invariance, PTL

(* However many Jobs there are and whichever start times are missing, the  *)
(* sweep deletes none that started after one that it keeps.                *)
THEOREM OldestFirst == Spec => []OldestGoFirst
<1>1. Inv => OldestGoFirst
  <2> SUFFICES ASSUME Inv, pass.pc = "remove",
                      NEW k \in 1..Len(pass.list), NEW l \in 1..Len(pass.list), k < pass.i, pass.i <= l
               PROVE  ~Less(pass.js, pass.list[l], pass.list[k])
    BY DEF OldestGoFirst
  <2> DEFINE S == Finished(pass.js, pass.cur, pass.how)
  <2>1. pass.js \in [JobNames -> Jobs] /\ S \in SUBSET JobNames /\ pass.list \in Sorted(pass.js, S)
    BY PassFields, FinishedIsListed DEF Inv, Removing
  <2>2. pass.i \in Nat
    BY PassFields DEF Inv
  <2>3. k < l
    BY <2>2
  <2> QED
    BY <2>1, <2>3, SortedThroughout
<1> QED
  BY <1>1, Invariance, PTL

(* For any limits that are set, zero among them, and any Jobs: a sweep     *)
(* leaves as many complete and as many failed Jobs of those it listed as   *)
(* the limits say.                                                         *)
THEOREM LimitsAreKept == Spec => []HistoryWithinLimits
<1>1. Inv => HistoryWithinLimits
  <2> SUFFICES ASSUME Inv, pass.pc = "next", pass.how = "Failed",
                      NEW how \in Hows, NEW k \in Limit(Here.spec, how)
               PROVE  LET listed == {j \in Children(pass.js, pass.cur) : pass.js[j].state = how}
                      IN  Cardinality({j \in listed : Exists(j)}) =
                            IF Cardinality(listed) <= k THEN Cardinality(listed) ELSE k
    BY DEF HistoryWithinLimits
  <2>1. Swept(how)
    BY DEF Inv, Sweeping, Hows
  <2> QED
    BY <2>1 DEF Swept, Finished
<1> QED
  BY <1>1, Invariance, PTL
-----------------------------------------------------------------------------
(* The search against CronSchedule's definition.                           *)

LEMMA ExactIs ==
  ASSUME NEW o, Timed(o), NEW t \in Int
  PROVE  /\ Activations(Exact(o).spec) = Activations(o.spec)
         /\ o.spec.deadline = {} => EarliestTime(Exact(o), t) = LastKnownStart(o)
         /\ \A d \in Int : o.spec.deadline = {d} =>
              EarliestTime(Exact(o), t) =
                IF t - Second * d > LastKnownStart(o) THEN t - Second * d ELSE LastKnownStart(o)
<1> DEFINE D == {Second * d : d \in o.spec.deadline}
           e == Exact(o)
<1>1. e = [o EXCEPT !.spec.deadline = D]
  BY DEF Exact
<1>2. PICK u \in 0..MaxTime : o \in Objects(u)
  BY DEF Timed
<1> HIDE DEF D, e
<1>3. /\ e.created = o.created /\ e.lst = o.lst /\ e.spec.deadline = D
      /\ e.spec.schedule = o.spec.schedule /\ e.spec.timezone = o.spec.timezone
  BY <1>1, <1>2 DEF Objects, Specs
<1>4. Activations(e.spec) = Activations(o.spec) /\ LastKnownStart(e) = LastKnownStart(o)
  BY <1>3 DEF Activations, Location, LastKnownStart
<1>5. ASSUME o.spec.deadline = {} PROVE EarliestTime(e, t) = LastKnownStart(o)
  BY <1>3, <1>4, <1>5 DEF EarliestTime, D
<1>6. ASSUME NEW d \in Int, o.spec.deadline = {d}
      PROVE  EarliestTime(e, t) =
               IF t - Second * d > LastKnownStart(o) THEN t - Second * d ELSE LastKnownStart(o)
  <2> DEFINE p == Second * d
  <2>1. D = {p}
    BY <1>6 DEF D
  <2> HIDE DEF p
  <2>2. e.spec.deadline = {p}
    BY <1>3, <2>1
  <2>3. (CHOOSE x \in e.spec.deadline : TRUE) = p
    BY <2>2
  <2>4. (\E x \in e.spec.deadline : t - x > LastKnownStart(e)) <=> t - p > LastKnownStart(o)
    BY <1>4, <2>2
  <2>5. EarliestTime(e, t) = IF t - p > LastKnownStart(o) THEN t - p ELSE LastKnownStart(o)
    BY <1>4, <2>3, <2>4 DEF EarliestTime
  <2> QED
    BY <2>5 DEF p
<1> QED
  BY <1>4, <1>5, <1>6 DEF e

(* A deadline that fits is computed exactly; one that does not fit, only   *)
(* ever too late.                                                          *)
LEMMA EarliestAgainstBound ==
  ASSUME NEW o, Timed(o), NEW t \in Int
  PROVE  /\ Fits(o) => EarliestTime(Exact(o), t) = LoopBound(o, t)
         /\ (\A d \in o.spec.deadline : d >= 0) => EarliestTime(Exact(o), t) <= LoopBound(o, t)
         /\ EarliestTime(Exact(o), t) \in Int
<1> DEFINE L == LastKnownStart(o)
           B == LoopBound(o, t)
<1>1. /\ L \in Int /\ B \in Int /\ L <= B /\ o.spec.deadline \in Optional(Int)
      /\ \A d \in o.spec.deadline : d \in Int /\ t + Wrap(-Second * d) <= B
      /\ B = L \/ \E d \in o.spec.deadline : B = t + Wrap(-Second * d)
  BY TimedFields, LoopBoundIs
<1>2. CASE o.spec.deadline = {}
  <2>1. EarliestTime(Exact(o), t) = L
    BY <1>2, ExactIs
  <2>2. B = L
    BY <1>1, <1>2
  <2> HIDE DEF L, B
  <2> QED
    BY <1>1, <2>1, <2>2 DEF B
<1>3. ASSUME NEW d \in Int, o.spec.deadline = {d}
      PROVE  /\ Fits(o) => EarliestTime(Exact(o), t) = LoopBound(o, t)
             /\ (\A x \in o.spec.deadline : x >= 0) => EarliestTime(Exact(o), t) <= LoopBound(o, t)
             /\ EarliestTime(Exact(o), t) \in Int
  <2> DEFINE p == Second * d
             w == Wrap(-Second * d)
  <2>1. p \in Int /\ -Second * d = -p /\ w \in Int /\ -Half <= w /\ w < Half
    <3>1. p \in Int /\ -Second * d = -p /\ -Second * d \in Int
      BY ConstantNumbers
    <3> QED
      BY <3>1, WrapRange
  <2>2. EarliestTime(Exact(o), t) = IF t - p > L THEN t - p ELSE L
    BY <1>3, ExactIs
  <2>3. t + w <= B /\ (B = L \/ B = t + w)
    BY <1>1, <1>3
  <2>4. Fits(o) => w = -p
    BY <1>3, <2>1 DEF Fits
  <2>5. d >= 0 => w >= -p
    <3> SUFFICES ASSUME d >= 0 PROVE w >= -p
      OBVIOUS
    <3>1. p >= 0
      BY ConstantNumbers
    <3>2. CASE -p < -Half
      BY <2>1, <3>2, ConstantNumbers
    <3>3. CASE ~(-p < -Half)
      <4>1. -p = -p + 0 * (2 * Half) /\ -Half <= -p /\ -p < Half /\ -p \in Int
        BY <2>1, <3>1, <3>3, ConstantNumbers
      <4>2. Wrap(-p) = -p
        BY <4>1, WrapUnique
      <4> QED
        BY <2>1, <4>2
    <3> QED
      BY <3>2, <3>3
  <2> HIDE DEF p, w, L, B
  <2>6. (w = -p) => (IF t - p > L THEN t - p ELSE L) = B
    BY <1>1, <2>1, <2>3
  <2>7. (w >= -p) => (IF t - p > L THEN t - p ELSE L) <= B
    BY <1>1, <2>1, <2>3
  <2>8. (IF t - p > L THEN t - p ELSE L) \in Int
    BY <1>1, <2>1
  <2> QED
    BY <1>3, <2>2, <2>4, <2>5, <2>6, <2>7, <2>8 DEF B
<1> QED
  BY <1>1, <1>2, <1>3, OptionalCases

(* The loop over the activations, with its shortcut for the last start and *)
(* the deadline and its limit of MaxMissed, computes what CronSchedule     *)
(* defines, for every schedule, every last start and every deadline that   *)
(* fits the integers of the machine.                                       *)
THEOREM SearchIsExact == Spec => []LoopIsUnmetTimes
<1>1. Inv => LoopIsUnmetTimes
  <2> SUFFICES ASSUME Inv, Fits(Here) PROVE LoopIsUnmetTimes
    BY DEF LoopIsUnmetTimes
  <2> DEFINE e == Exact(Here)
  <2>1. TypeOK /\ Timed(Here) /\ pass.at \in Int /\ pass.at \in Nat /\ MaxMissed \in Nat
        /\ Len(pass.starts) \in Nat /\ pass.starts \in Seq(Int)
    BY HereTimed, PassFields DEF Inv
  <2>2. EarliestTime(e, pass.at) = Bound /\ Activations(e.spec) = Fired /\ Bound \in Int
    BY <2>1, ExactIs, EarliestAgainstBound, LoopBoundIs DEF Bound, Fired
  <2>3. UnmetTimes(e, pass.at) = Wanted
    BY <2>2 DEF UnmetTimes, Wanted
  <2>4. ASSUME pass.pc = "decide"
        PROVE  /\ ~TooManyMissed(e, pass.at) /\ Found = UnmetTimes(e, pass.at)
               /\ \A k, l \in 1..Len(pass.starts) : k < l => pass.starts[k] < pass.starts[l]
    <3>1. /\ Here.spec.schedule \in Schedules /\ Len(pass.starts) <= MaxMissed
          /\ Increasing(pass.starts) /\ Found = Wanted
          /\ Fired = {} => Bound > pass.at
      BY <2>4 DEF Inv, Searched
    <3>2. IsFiniteSet(Wanted)
      BY <2>1, <3>1, WantedIsFinite
    <3>3. Len(pass.starts) = Cardinality(Wanted)
      <4>1. Wanted = {pass.starts[m] : m \in 1..Len(pass.starts)}
        BY <3>1 DEF Found
      <4>2. \A m \in 1..Len(pass.starts) : pass.starts[m] \in Wanted
        BY <4>1
      <4> HIDE DEF Found
      <4> QED
        BY <2>1, <3>1, <3>2, <4>1, <4>2, IncreasingCounts
    <3>4. ~TooManyMissed(e, pass.at)
      <4>1. Fired = {} => ~(Bound <= pass.at)
        BY <2>1, <2>2, <3>1
      <4>2. ~(Cardinality(Wanted) > MaxMissed)
        BY <2>1, <3>1, <3>3
      <4> QED
        BY <2>2, <2>3, <4>1, <4>2 DEF TooManyMissed
    <3> QED
      BY <2>3, <3>1, <3>4 DEF Increasing
  <2>5. ASSUME Len(pass.starts) > MaxMissed PROVE TooManyMissed(e, pass.at)
    <3>1. Bound <= pass.at /\ (Fired = {} \/ Cardinality(Wanted) > MaxMissed)
      BY <2>5 DEF Inv, GaveUp
    <3> QED
      BY <2>2, <2>3, <3>1 DEF TooManyMissed
  <2> QED
    BY <2>4, <2>5 DEF LoopIsUnmetTimes
<1> QED
  BY <1>1, Invariance, PTL

(* Whatever the width of the machine's integers and however long the       *)
(* deadline: overflow never makes the search find a time that the deadline *)
(* as written excludes.                                                    *)
THEOREM OverflowSuppresses == Spec => []WrappedDeadlineSuppresses
<1>1. Inv => WrappedDeadlineSuppresses
  <2> SUFFICES ASSUME Inv, pass.pc = "decide", \A d \in Here.spec.deadline : d >= 0,
                      NEW a \in Found
               PROVE  a \in UnmetTimes(Exact(Here), pass.at)
    BY DEF WrappedDeadlineSuppresses
  <2>1. TypeOK /\ Timed(Here) /\ pass.at \in Int
    BY HereTimed, PassFields DEF Inv
  <2>2. Here.spec.schedule \in Schedules /\ Found = Wanted
    BY DEF Inv, Searched
  <2>3. a \in Fired /\ a \in Nat /\ Bound < a /\ a <= pass.at
    BY <2>1, <2>2, WantedIsFinite DEF Wanted
  <2> DEFINE E == EarliestTime(Exact(Here), pass.at)
  <2>4. E \in Int /\ E <= Bound /\ Activations(Exact(Here).spec) = Fired /\ Bound \in Int
    BY <2>1, ExactIs, EarliestAgainstBound, LoopBoundIs DEF Bound, Fired
  <2>5. E < a
    <3> HIDE DEF E
    <3> QED
      BY <2>3, <2>4
  <2> QED
    BY <2>3, <2>4, <2>5 DEF UnmetTimes
<1> QED
  BY <1>1, Invariance, PTL

(* The two computations of the deadline agree on every deadline but those  *)
(* whose product is the least integer: syncOne's check for a start that is *)
(* too late is dead code for all others.                                   *)
THEOREM LateChecksAgree == Spec => []LateAtLeastIntegerOnly
<1>1. Inv => LateAtLeastIntegerOnly
  <2> SUFFICES ASSUME Inv, pass.pc = "decide", pass.starts # <<>>,
                      NEW d \in Here.spec.deadline, Last(pass.starts) + Wrap(Second * d) < pass.at
               PROVE  Wrap(Second * d) = -Half
    BY DEF LateAtLeastIntegerOnly, LateInMachine
  <2> DEFINE a == Last(pass.starts)
             p == Second * d
  <2>1. TypeOK /\ Timed(Here) /\ pass.at \in Int /\ pass.starts \in Seq(Int)
    BY HereTimed, PassFields DEF Inv
  <2>2. Here.spec.schedule \in Schedules /\ Found = Wanted
    BY DEF Inv, Searched
  <2>3. a \in Nat /\ Bound < a
    <3>1. Len(pass.starts) \in 1..Len(pass.starts) /\ a = pass.starts[Len(pass.starts)]
      BY <2>1 DEF Last
    <3>2. a \in Found
      BY <3>1 DEF Found
    <3> QED
      BY <2>1, <2>2, <3>2, WantedIsFinite DEF Wanted
  <2>4. d \in Int /\ Bound \in Int /\ pass.at + Wrap(-Second * d) <= Bound
    BY <2>1, LoopBoundIs DEF Bound
  <2>5. p \in Int /\ -Second * d = -p
    BY <2>4, ConstantNumbers
  <2>6. Wrap(p) \in Int /\ Wrap(-p) \in Int
    BY <2>5, WrapRange
  <2>7. a + Wrap(p) < pass.at /\ pass.at + Wrap(-p) <= Bound
    BY <2>4, <2>5
  <2> HIDE DEF a, p
  <2>8. Wrap(-p) # -Wrap(p)
    BY <2>1, <2>3, <2>4, <2>6, <2>7
  <2> QED
    BY <2>5, <2>8, WrapNegated DEF p
<1> QED
  BY <1>1, Invariance, PTL

(* However many TZCronJobs there are: what the controller writes or        *)
(* deletes belongs to the one the pass is at, though the list of Jobs that *)
(* it goes by was taken when the pass began.                               *)
THEOREM OwnBusinessOnly == Spec => EachMindsItsOwn
<1> DEFINE A == PassStep =>
               /\ \A n \in Names : n # pass.cur => objs'[n] = objs[n]
               /\ \A j \in JobNames : (Exists(j) /\ jobs'[j] # jobs[j]) => jobs[j].owner = pass.cur
<1>1. Inv /\ [Next]_vars => [A]_vars
  <2> SUFFICES ASSUME Inv, PassStep PROVE A
    BY DEF A
  <2>1. /\ objs \in [Names -> Objects(now)] /\ jobs \in [JobNames -> Jobs]
        /\ \A j \in JobNames : (Working /\ j \in Children(pass.js, pass.cur) /\ Exists(j)) =>
             jobs[j].owner = pass.cur
    BY DEF Inv, TypeOK, Owners, Working, Children
  <2>2. CASE UNCHANGED <<objs, jobs>>
    BY <2>2
  <2>3. CASE Prune
    BY <2>1, <2>3 DEF Prune
  <2>4. CASE Decide
    <3>1. CASE UNCHANGED <<objs, jobs>>
      BY <3>1
    <3>2. CASE pass.starts # <<>> /\ Start(Last(pass.starts))
      <4>1. /\ pass.pc = "decide"
            /\ \A j \in Here.active : j \in Children(pass.js, pass.cur)
        BY <2>4 DEF Decide, Inv, ActiveRuns
      <4>2. /\ \A n \in Names : n # pass.cur => objs'[n] = objs[n]
            /\ \A j \in JobNames : (Exists(j) /\ jobs'[j] # jobs[j]) => j \in Here.active
        BY <3>2, <4>1, StartEffect
      <4> QED
        BY <2>1, <4>1, <4>2 DEF Working
    <3> QED
      BY <2>4, <3>1, <3>2 DEF Decide
  <2>5. CASE RemoveNext
    <3>1. /\ pass.pc = "remove" /\ objs' = objs /\ jobs' = [jobs EXCEPT ![pass.list[pass.i]] = NoJob]
          /\ pass.i <= Len(pass.list)
      BY <2>5 DEF RemoveNext
    <3>2. pass.list[pass.i] \in Children(pass.js, pass.cur)
      <4>1. pass.i \in 1..Len(pass.list)
        BY <3>1, RemovingFacts
      <4> QED
        BY <3>1, <4>1, RemovingFacts
    <3>3. \A j \in JobNames : jobs'[j] # jobs[j] => j = pass.list[pass.i]
      BY <2>1, <3>1
    <3> QED
      BY <2>1, <3>1, <3>2, <3>3 DEF Working
  <2> QED
    BY <2>2, <2>3, <2>4, <2>5
       DEF PassStep, List, EndPass, Loop, Cleanup, Sort, Panic, EndRemove, Restart, Take
<1>2. Spec => [][A]_vars
  BY <1>1, Invariance, PTL DEF Spec
<1> QED
  BY <1>2 DEF EachMindsItsOwn
=============================================================================
