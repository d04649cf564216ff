-------------------------- MODULE CronScheduleProofs --------------------------
(***************************************************************************)
(* What the time arithmetic of the controller guarantees for every         *)
(* schedule, time zone, deadline and instant.                              *)
(***************************************************************************)
EXTENDS CronSchedule, FiniteSetTheorems, TLAPS

(* What the arithmetic is given: an object of the API and an instant.      *)
Timed(o) ==
  /\ o.spec.deadline \in Optional(Int)
  /\ o.created \in Nat
  /\ o.lst \in Nat \cup {Never}

(* A set of numbers that is finite and not empty has a greatest element:   *)
(* the set of the elements above it is minimal for inclusion.              *)
LEMMA GreatestExists ==
  ASSUME NEW S \in SUBSET Int, IsFiniteSet(S), S # {}
  PROVE  \E m \in S : \A b \in S : b <= m
<1> DEFINE Above(a) == {b \in S : b > a}
           T == {Above(a) : a \in S}
<1>1. IsWellFoundedOn(StrictSubsetOrdering(S), SUBSET S)
  BY FS_StrictSubsetOrderingWellFounded, FS_FiniteSubsetsOfFinite
<1>2. T \subseteq SUBSET S /\ T # {}
  OBVIOUS
<1> HIDE DEF T
<1>3. PICK x \in T : \A y \in T : <<y, x>> \notin StrictSubsetOrdering(S)
  BY <1>1, <1>2, WFMin
<1>4. PICK m \in S : x = Above(m)
  BY DEF T
<1>5. \A b \in S : b <= m
  <2> SUFFICES ASSUME NEW b \in S, b > m PROVE FALSE
    OBVIOUS
  <2>1. Above(b) \subseteq Above(m) /\ b \in Above(m) /\ b \notin Above(b)
    <3>1. b \in Int /\ m \in Int /\ b > m
      OBVIOUS
    <3>2. \A c \in S : c \in Int /\ (c > b => c > m) /\ ~(b > b)
      BY <3>1
    <3> QED
      BY <3>1, <3>2
  <2>2. Above(b) \in T /\ Above(b) \in SUBSET S /\ Above(m) \in SUBSET S
    BY DEF T
  <2>3. <<Above(b), Above(m)>> \in StrictSubsetOrdering(S)
    BY <2>1, <2>2 DEF StrictSubsetOrdering
  <2> QED
    BY <1>3, <1>4, <2>2, <2>3
<1> QED
  BY <1>5

(* The unmet activations are finite in number, lie between the earliest    *)
(* time and the present, and have a last one: the Job that is started is   *)
(* scheduled for it.                                                       *)
LEMMA ScheduledTimeIsLast ==
  ASSUME NEW o, Timed(o), NEW t \in Nat,
         o.spec.schedule \in Schedules, UnmetTimes(o, t) # {}
  PROVE  /\ ScheduledTime(o, t) \in UnmetTimes(o, t)
         /\ \A b \in UnmetTimes(o, t) : b <= ScheduledTime(o, t)
         /\ ScheduledTime(o, t) \in Nat
         /\ EarliestTime(o, t) < ScheduledTime(o, t)
         /\ ScheduledTime(o, t) <= t
<1> DEFINE U == UnmetTimes(o, t)
<1>1. Location(o.spec) \in Zones
  BY ScheduleAssumption DEF Location
<1>2. Activations(o.spec) \in SUBSET Nat
  BY <1>1, ScheduleAssumption DEF Activations
<1>3. U \in SUBSET Nat /\ \A a \in U : EarliestTime(o, t) < a /\ a <= t
  BY <1>2 DEF UnmetTimes
<1>4. IsFiniteSet(U)
  BY <1>3, FS_BoundedSetOfNaturals
<1> HIDE DEF U
<1>5. \E m \in U : \A b \in U : b <= m
  <2>1. U \in SUBSET Int /\ U # {}
    BY <1>3 DEF U
  <2> QED
    BY <1>4, <2>1, GreatestExists
<1>6. ScheduledTime(o, t) = CHOOSE a \in U : \A b \in U : b <= a
  BY DEF ScheduledTime, U
<1>7. ScheduledTime(o, t) \in U /\ \A b \in U : b <= ScheduledTime(o, t)
  BY <1>5, <1>6
<1> QED
  BY <1>3, <1>7 DEF U

(* The earliest time is no earlier than the last known start and than the  *)
(* deadline allows.                                                        *)
LEMMA EarliestTimeBounds ==
  ASSUME NEW o, Timed(o), NEW t \in Nat
  PROVE  /\ LastKnownStart(o) \in Nat /\ o.lst \in Int /\ o.lst <= LastKnownStart(o)
         /\ EarliestTime(o, t) \in Int
         /\ LastKnownStart(o) <= EarliestTime(o, t)
         /\ \A d \in o.spec.deadline : d \in Int /\ t - d <= EarliestTime(o, t)
<1>1. LastKnownStart(o) \in Nat /\ o.lst \in Int /\ o.lst <= LastKnownStart(o)
  BY DEF Timed, LastKnownStart, Never
<1>2. CASE o.spec.deadline = {}
  BY <1>1, <1>2 DEF EarliestTime
<1>3. CASE o.spec.deadline # {}
  <2>1. PICK d \in Int : o.spec.deadline = {d}
    <3>1. PICK d \in o.spec.deadline : TRUE
      BY <1>3
    <3>2. d \in Int /\ \A v \in o.spec.deadline : v = d
      BY <3>1 DEF Timed, Optional
    <3> QED
      BY <3>1, <3>2
  <2>2. (CHOOSE e \in o.spec.deadline : TRUE) = d
    BY <2>1
  <2>3. EarliestTime(o, t) = IF t - d > LastKnownStart(o) THEN t - d ELSE LastKnownStart(o)
    BY <2>1, <2>2 DEF EarliestTime
  <2> QED
    BY <1>1, <2>1, <2>3
<1> QED
  BY <1>1, <1>2, <1>3

(* What is started lies after the last start on record and after the       *)
(* creation of the TZCronJob.                                              *)
LEMMA ScheduledAfterLastStart ==
  ASSUME NEW o, Timed(o), NEW t \in Nat,
         o.spec.schedule \in Schedules, UnmetTimes(o, t) # {}
  PROVE  ScheduledTime(o, t) > LastKnownStart(o) /\ ScheduledTime(o, t) > o.lst
<1>1. /\ ScheduledTime(o, t) \in Nat
      /\ EarliestTime(o, t) < ScheduledTime(o, t)
  BY ScheduledTimeIsLast
<1> QED
  BY <1>1, EarliestTimeBounds

(* No pass ever finds the scheduled time too late: an activation outside   *)
(* the deadline is not among the unmet ones in the first place.  The       *)
(* branch of syncOne that reports MissSchedule is never taken.             *)
THEOREM NeverTooLate ==
  ASSUME NEW o, Timed(o), NEW t \in Nat,
         o.spec.schedule \in Schedules, UnmetTimes(o, t) # {}
  PROVE  ~TooLate(o, t)
<1> SUFFICES ASSUME NEW d \in o.spec.deadline, ScheduledTime(o, t) + d < t PROVE FALSE
  BY DEF TooLate
<1>1. /\ ScheduledTime(o, t) \in Nat
      /\ EarliestTime(o, t) < ScheduledTime(o, t)
  BY ScheduledTimeIsLast
<1> QED
  BY <1>1, EarliestTimeBounds
=============================================================================
