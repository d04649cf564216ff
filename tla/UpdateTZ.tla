------------------------------- MODULE UpdateTZ -------------------------------
(***************************************************************************)
(* The time zone database of a pod: the container that keeps it up to date *)
(* (updatetz/), first as an init container and then as a sidecar, and the  *)
(* controller, which loads the location of a TZCronJob from it at every    *)
(* pass.                                                                   *)
(*                                                                         *)
(* A file of the database is the release it comes from.  The scripts run   *)
(* under set -e; a step of theirs that fails is Fail, a container that     *)
(* dies is Die.  Upstream publishes releases in order.                     *)
(*                                                                         *)
(* Abstraction: unpacking a release takes less than the five minutes after *)
(* which a file counts as old.                                             *)
(***************************************************************************)
EXTENDS Integers, FiniteSets

CONSTANTS
  Files,      \* the zones
  Release,    \* Release[v]: the zones that release v has
  Embedded,   \* the zones in the binary of the controller (time/tzdata)
  Configs,    \* what the environment may set: [base, max, retries], integers
  Width,      \* the bits of an integer of the shell
  Trouble     \* how many steps other than network calls fail, or containers die

Releases == DOMAIN Release

(* 2 ** n of the shell, before it is cut to Width bits. *)
Power[n \in Nat] == IF n = 0 THEN 1 ELSE 2 * Power[n - 1]

ASSUME UpdateTZAssumption ==
  /\ Cardinality(Releases) \in Nat \ {0} /\ Releases = 1..Cardinality(Releases)
  /\ IsFiniteSet(Files)
  /\ \A v \in Releases : Release[v] \subseteq Files
  /\ Width \in Nat \ {0} /\ Trouble \in Nat
  /\ Configs \subseteq [base : Nat \ {0}, max : Nat \ {0}, retries : Nat \ {0}]
  /\ \A c \in Configs : c.base < Power[Width - 1]

VARIABLES
  upstream,   \* the latest release
  db,         \* db[f]: the release file f comes from; Absent, or Cut within a write
  version,    \* the version file: a release, or Absent
  fresh,      \* the files written within the last five minutes
  box,        \* the container with the scripts
  up,         \* the controller has been started
  conf,       \* the environment of the container
  trouble     \* how much trouble is left

vars == <<upstream, db, version, fresh, box, up, conf, trouble>>

Absent == 0
Cut == -1
Down(role) == [role |-> role, pc |-> "down", got |-> Absent, todo |-> {}, file |-> {},
               failures |-> 0, delay |-> 0]

Goto(l) == box' = [box EXCEPT !.pc = l]
Spend == trouble > 0 /\ trouble' = trouble - 1
-----------------------------------------------------------------------------
(* docker-entrypoint.sh: retry.                                            *)

(* Arithmetic of the shell: two's complement in Width bits. *)
Wrap(x) == ((x + Power[Width - 1]) % Power[Width]) - Power[Width - 1]

AtMost(d, most) == IF d > most THEN most ELSE d

(* Seeded fault: the exponent is the number of failures. *)
DelayDoubled(n) == AtMost(Wrap(conf.base * Wrap(Power[n])), conf.max)

(* BASE * 2 ** (FAILURES - 1), and MAX if that is more. *)
DelayAfter(n) == AtMost(Wrap(conf.base * Wrap(Power[n - 1])), conf.max)

(* Seeded fault: there is one retry more than MAX_RETRIES. *)
MayRetryOnceMore(n) == n <= conf.retries

MayRetry(n) == n < conf.retries

(* sleep does not take a negative number, and the script ends with it. *)
Sleeps(n) == MayRetry(n) /\ DelayAfter(n) >= 0

(* What becomes of the container when updatetz.sh ends with an error. *)
Failed ==
  LET n == box.failures + 1
  IN  IF Sleeps(n) THEN [Down(box.role) EXCEPT !.pc = "backoff", !.failures = n, !.delay = DelayAfter(n)]
      ELSE Down(box.role)

Retry ==
  /\ box.pc = "backoff"
  /\ box' = [box EXCEPT !.pc = "check", !.delay = 0]
  /\ UNCHANGED <<upstream, db, version, fresh, up, conf, trouble>>

Succeeded == [Down(box.role) EXCEPT !.pc = "ok"]
-----------------------------------------------------------------------------
(* updatetz.sh.                                                            *)

(* Upstream's version is asked for and compared. *)
Check ==
  /\ box.pc = "check"
  /\ box' = IF version = upstream THEN Succeeded ELSE [box EXCEPT !.pc = "fetch"]
  /\ UNCHANGED <<upstream, db, version, fresh, up, conf, trouble>>

(* The package is fetched, in the version of now, and unpacked elsewhere. *)
Fetch ==
  /\ box.pc = "fetch"
  /\ box' = [box EXCEPT !.pc = "unpack", !.got = upstream, !.todo = Release[upstream]]
  /\ UNCHANGED <<upstream, db, version, fresh, up, conf, trouble>>

NetworkFails ==
  /\ box.pc \in {"check", "fetch"}
  /\ box' = Failed
  /\ UNCHANGED <<upstream, db, version, fresh, up, conf, trouble>>

(* tar takes the old file away and writes the new one. *)
Unlink(f) ==
  /\ box.pc = "unpack" /\ f \in box.todo
  /\ db' = [db EXCEPT ![f] = Cut]
  /\ box' = [box EXCEPT !.pc = "write", !.file = {f}, !.todo = @ \ {f}]
  /\ UNCHANGED <<upstream, version, fresh, up, conf, trouble>>

Write(f) ==
  /\ box.pc = "write" /\ f \in box.file
  /\ db' = [db EXCEPT ![f] = box.got]
  /\ fresh' = fresh \cup {f}
  /\ box' = [box EXCEPT !.pc = "unpack", !.file = {}]
  /\ UNCHANGED <<upstream, version, up, conf, trouble>>

(* Seeded fault: the version is written while files are still missing. *)
AnyTime == TRUE

Unpacked == box.todo = {}

(* The version file is opened for writing ... *)
Truncate ==
  /\ box.pc = "unpack" /\ Unpacked
  /\ version' = Absent
  /\ Goto("stamp")
  /\ UNCHANGED <<upstream, db, fresh, up, conf, trouble>>

(* ... and written. *)
Stamp ==
  /\ box.pc = "stamp"
  /\ version' = box.got
  /\ Goto("sweep")
  /\ UNCHANGED <<upstream, db, fresh, up, conf, trouble>>

(* find deletes what is older than five minutes. *)
Sweep(f) ==
  /\ box.pc = "sweep" /\ f \notin fresh /\ db[f] # Absent
  /\ db' = [db EXCEPT ![f] = Absent]
  /\ UNCHANGED <<upstream, version, fresh, box, up, conf, trouble>>

EndSweep ==
  /\ box.pc = "sweep" /\ \A f \in Files \ fresh : db[f] = Absent
  /\ box' = Succeeded
  /\ UNCHANGED <<upstream, db, version, fresh, up, conf, trouble>>

(* A step fails, as when the disk is full. *)
Fail ==
  /\ box.pc \in {"unpack", "write", "stamp", "sweep"} /\ Spend
  /\ box' = Failed
  /\ UNCHANGED <<upstream, db, version, fresh, up, conf>>
-----------------------------------------------------------------------------
(* docker-entrypoint.sh: the rest, and the pod.                            *)

Boot ==
  /\ box.pc = "down"
  /\ Goto("check")
  /\ UNCHANGED <<upstream, db, version, fresh, up, conf, trouble>>

(* The sidecar sleeps for REFRESH_INTERVAL. *)
Refresh ==
  /\ box.pc = "ok" /\ box.role = "sidecar"
  /\ Goto("check")
  /\ UNCHANGED <<upstream, db, version, fresh, up, conf, trouble>>

(* Seeded fault: the init container may end without a database. *)
InitMayEndEarly == box.pc \in {"ok", "backoff"}

(* updatetz_atleastonce_ok: the first update has succeeded. *)
InitMayEnd == box.pc = "ok"

(* The init container ends, and the pod's containers are started. *)
EndInit ==
  /\ box.role = "init" /\ InitMayEnd
  /\ box' = Down("sidecar") /\ up' = TRUE
  /\ UNCHANGED <<upstream, db, version, fresh, conf, trouble>>

Die ==
  /\ box.pc # "down" /\ Spend
  /\ box' = Down(box.role)
  /\ UNCHANGED <<upstream, db, version, fresh, up, conf>>

(* Five minutes pass. *)
Age ==
  /\ box.pc \in {"down", "backoff", "ok"} /\ fresh # {}
  /\ fresh' = {}
  /\ UNCHANGED <<upstream, db, version, box, up, conf, trouble>>

Publish ==
  /\ upstream + 1 \in Releases
  /\ upstream' = upstream + 1
  /\ UNCHANGED <<db, version, fresh, box, up, conf, trouble>>
-----------------------------------------------------------------------------
Init ==
  /\ upstream = 1
  /\ db = [f \in Files |-> Absent] /\ version = Absent /\ fresh = {}
  /\ box = Down("init") /\ up = FALSE
  /\ conf \in Configs /\ trouble = Trouble

LocalStep ==
  \/ Retry \/ Truncate \/ Stamp \/ EndSweep \/ Boot \/ Refresh \/ EndInit
  \/ \E f \in Files : Unlink(f) \/ Write(f) \/ Sweep(f)

Next == LocalStep \/ Check \/ Fetch \/ NetworkFails \/ Fail \/ Die \/ Age \/ Publish

Spec == Init /\ [][Next]_vars

(* The scripts go on, containers are restarted, and the network is never   *)
(* gone for good.                                                          *)
FairSpec == Spec /\ WF_vars(LocalStep) /\ SF_vars(Check) /\ SF_vars(Fetch)
-----------------------------------------------------------------------------
TypeOK ==
  /\ upstream \in Releases
  /\ db \in [Files -> {Cut, Absent} \cup Releases]
  /\ version \in {Absent} \cup Releases
  /\ fresh \subseteq Files
  /\ box.role \in {"init", "sidecar"}
  /\ box.pc \in {"down", "check", "fetch", "unpack", "write", "stamp", "sweep", "ok", "backoff"}
  /\ box.got \in {Absent} \cup Releases /\ box.todo \subseteq Files /\ box.file \subseteq Files
  /\ box.failures \in 0..(conf.retries - 1) /\ box.delay \in 0..conf.max
  /\ up \in BOOLEAN /\ trouble \in 0..Trouble

(* The version file never says too much: if it names the latest release    *)
(* the next update changes nothing, so all of that release is there,       *)
(* wherever earlier updates were cut off (updatetz.sh: files, then the     *)
(* version, then what is old).                                             *)
CompleteIfCurrent == version = upstream => \A f \in Release[upstream] : db[f] = upstream

(* time.LoadLocation as the controller calls it: a file, or what is in the *)
(* binary, or an error, for which the controller takes its own location.   *)
Located(f) == db[f] > 0 \/ f \in Embedded

Lasting == {f \in Files : \A v \in Releases : f \in Release[v]}

(* While the controller runs, a zone that every release has is unknown to  *)
(* it only while its file is replaced: one zone at a time, and one more    *)
(* for each update that was cut off; none that the binary has              *)
(* (updatetz.sh: tar over the existing files; docker-entrypoint.sh: the    *)
(* init container).                                                        *)
ZonesLast ==
  up => Cardinality({f \in Lasting : ~Located(f)}) <= 1 + (Trouble - trouble)

(* The delay is the exact power or MAX, in however few bits: the first     *)
(* that overflows is negative, and ends the script (retry).                *)
BackoffIsExact ==
  box.pc = "backoff" => box.delay = AtMost(conf.base * Power[box.failures - 1], conf.max)

(* Once upstream rests, the database becomes the latest release, and stays *)
(* it (docker-entrypoint.sh).                                              *)
BecomesCurrent == <>[](version = upstream /\ \A f \in Release[upstream] : db[f] = upstream)
=============================================================================
