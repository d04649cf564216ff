------------------------------- MODULE CronRuns -------------------------------
(***************************************************************************)
(* What a TZCronJob promises to its user, without passes, copies, watches  *)
(* or lost calls: a run is started no earlier than it is scheduled and     *)
(* later than every run on record, and only what was started goes on       *)
(* record, in order.  Runs may be skipped.                                 *)
(*                                                                         *)
(* A run that is started and not on record yet may be started again; under *)
(* which circumstances the code prevents that is the subject of            *)
(* RunAtMostOnce in TZCronJobController.                                   *)
(***************************************************************************)
EXTENDS Integers

CONSTANTS
  MaxTime,   \* the clock stops here
  Never      \* stands on record before the first run; less than every instant

VARIABLES
  clock,
  started,       \* started[t]: how often the run scheduled for t was started
  recorded,      \* the last run on record, Status.LastScheduleTime
  incarnation    \* how many TZCronJobs of the name there have been

Scheduled == 0..MaxTime

Init ==
  /\ clock = 0
  /\ started = [t \in Scheduled |-> 0]
  /\ recorded = Never
  /\ incarnation = 1

Tick == clock < MaxTime /\ clock' = clock + 1 /\ UNCHANGED <<started, recorded, incarnation>>

Start(t) ==
  /\ recorded < t /\ t <= clock
  /\ started' = [started EXCEPT ![t] = @ + 1]
  /\ UNCHANGED <<clock, recorded, incarnation>>

Record(t) ==
  /\ recorded < t /\ started[t] > 0
  /\ recorded' = t
  /\ UNCHANGED <<clock, started, incarnation>>

(* A new TZCronJob of the name has nothing on record. *)
Recreate ==
  /\ incarnation' = incarnation + 1
  /\ recorded' = Never
  /\ UNCHANGED <<clock, started>>

Next == Tick \/ Recreate \/ \E t \in Scheduled : Start(t) \/ Record(t)

Spec == Init /\ [][Next]_<<clock, started, recorded, incarnation>>
=============================================================================
