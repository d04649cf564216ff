----------------------------- MODULE CronSchedule -----------------------------
(***************************************************************************)
(* The time arithmetic of pkg/controller/cronjobber: which activations of  *)
(* a TZCronJob are unmet at an instant, and which of them is started.      *)
(*                                                                         *)
(* Instants are integers.  A cron expression read in a location is the set *)
(* of instants at which it fires, Fires[schedule][location]; the empty set *)
(* is an expression that never fires (30 February).  A set that is not     *)
(* empty stands for a schedule that goes on firing after every instant of  *)
(* the model.                                                              *)
(*                                                                         *)
(* An "@every d", which ParseStandard accepts too, is not such a set and   *)
(* is left out: its activations are counted from the earliest time, which  *)
(* a deadline moves from pass to pass, so that what one pass computes      *)
(* another need not.                                                       *)
(*                                                                         *)
(* An optional field of the API (a Go pointer) is a set with at most one   *)
(* element: {} is nil, {v} points to v.                                    *)
(***************************************************************************)
EXTENDS Integers, FiniteSets

CONSTANTS
  Schedules,   \* the expressions cron.ParseStandard accepts, but "@every"
  Zones,       \* the locations time.LoadLocation finds
  Local,       \* the location of the controller's process
  Fires,       \* Fires[s][z]: the instants at which s fires in location z
  MaxMissed    \* how many unmet activations are listed at most (100)

ASSUME ScheduleAssumption ==
  /\ Local \in Zones
  /\ Fires \in [Schedules -> [Zones -> SUBSET Nat]]
  /\ MaxMissed \in Nat

Optional(S) == {X \in SUBSET S : \A v, w \in X : v = w}

Never == -1    \* a nil Status.LastScheduleTime: before every instant
-----------------------------------------------------------------------------
(* The location a pass computes in: an empty or unknown time zone is the   *)
(* controller's own.  (syncAll goes on after the error of LoadLocation.)   *)
Location(spec) == IF spec.timezone \in Zones THEN spec.timezone ELSE Local

Activations(spec) == Fires[spec.schedule][Location(spec)]

LastKnownStart(o) == IF o.lst = Never THEN o.created ELSE o.lst

(* Seeded fault: the deadline is not taken into account. *)
EarliestTimeNoDeadline(o, t) == LastKnownStart(o)

(* Nothing at or before this instant is started by a pass at instant t.    *)
EarliestTime(o, t) ==
  IF \E d \in o.spec.deadline : t - d > LastKnownStart(o)
    THEN t - (CHOOSE d \in o.spec.deadline : TRUE)
    ELSE LastKnownStart(o)

(* Seeded fault: the loop starts at the earliest time itself. *)
UnmetTimesFromEarliest(o, t) ==
  {a \in Activations(o.spec) : EarliestTime(o, t) <= a /\ a <= t}

UnmetTimes(o, t) ==
  {a \in Activations(o.spec) : EarliestTime(o, t) < a /\ a <= t}

(* The loop gives up: an expression that never fires makes Next return the *)
(* zero time, which is before now, until the list is too long.             *)
TooManyMissed(o, t) ==
  /\ EarliestTime(o, t) <= t
  /\ \/ Activations(o.spec) = {}
     \/ Cardinality(UnmetTimes(o, t)) > MaxMissed

(* getRecentUnmetScheduleTimes returns no error. *)
Determinable(o, t) == o.spec.schedule \in Schedules /\ ~TooManyMissed(o, t)

(* The last element of the list, the only one that is started. *)
ScheduledTime(o, t) ==
  CHOOSE a \in UnmetTimes(o, t) : \A b \in UnmetTimes(o, t) : b <= a

TooLate(o, t) == \E d \in o.spec.deadline : ScheduledTime(o, t) + d < t
=============================================================================
