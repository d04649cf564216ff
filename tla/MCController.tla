---------------------------- MODULE MCController -----------------------------
(***************************************************************************)
(* Values of the constants of TZCronJobController for TLC, and the claims  *)
(* of the repository's texts that the runs expected to fail are about.     *)
(***************************************************************************)
EXTENDS TZCronJobController, TLC

(* "every" fires at each instant from 1 on, "even" at each second one, an  *)
(* instant apart in the two zones, "never" not at all.                     *)
MCFires ==
  [s \in {"every", "even", "never"} |->
    [z \in {"UTC", "CET"} |->
      CASE s = "every" -> 1..MaxTime
        [] s = "even"  -> {t \in 1..MaxTime : t % 2 = (IF z = "UTC" THEN 0 ELSE 1)}
        [] s = "never" -> {}]]
-----------------------------------------------------------------------------
(* Specs: what a user may write.                                           *)

Plain == [suspend |-> FALSE, policy |-> "Allow", deadline |-> {}, schedule |-> "every",
          timezone |-> "UTC", keepComplete |-> {}, keepFailed |-> {}]

With(p, s) == [s EXCEPT !.policy = p]
Keeping(n, s) == [s EXCEPT !.keepComplete = {n}, !.keepFailed = {n}]

AllowOnly == {Plain}
Exclusive == {With("Forbid", [Keeping(1, Plain) EXCEPT !.keepFailed = {0}]),
              With("Forbid", [Plain EXCEPT !.keepFailed = {1}]),
              With("Forbid", [Plain EXCEPT !.schedule = "even", !.timezone = "CET"]),
              With("Forbid", [Plain EXCEPT !.schedule = "never"]),
              With("Forbid", [Plain EXCEPT !.schedule = "unreadable"]),
              With("Replace", Keeping(0, Plain))}
Suspendable == {Keeping(1, Plain), [Keeping(1, Plain) EXCEPT !.suspend = TRUE]}
SweptAndReplaced == {Keeping(1, Plain), With("Replace", Keeping(0, Plain))}
InTime == {[With(p, Keeping(1, Plain)) EXCEPT !.deadline = {1}] : p \in {"Forbid", "Replace"}}
Swept == {Keeping(0, Plain)}
ForbidEdited == {With("Forbid", Plain), With("Forbid", Keeping(1, Plain))}
-----------------------------------------------------------------------------
(* Budgets: which events happen, and how often.                            *)

Calm == [e \in Events |-> 0]
Outdated == [Calm EXCEPT !["oldlist"] = 1]
OutdatedAndFaulty == [Outdated EXCEPT !["fault"] = 1]
OutdatedAndRemoved == [Outdated EXCEPT !["delete"] = 1]
Unlucky == [e \in Events |-> IF e \in {"edit", "delete"} THEN 0 ELSE 1]
Troubled == [Outdated EXCEPT !["edit"] = 1, !["fault"] = 2, !["crash"] = 1]
Edited == [Calm EXCEPT !["edit"] = 1]
Crashed == [Calm EXCEPT !["crash"] = 1]
Removed == [Calm EXCEPT !["delete"] = 1]

Symmetry == Permutations(Replicas)
-----------------------------------------------------------------------------
(* Claims.                                                                 *)

(* controller.go, syncAll: a pass that sees an orphaned Job must also see  *)
(* that its parent is being deleted.                                       *)
OrphanSeenWithParent ==
  \A r \in Replicas, t \in Instants :
    LET j == pass[r].js[t]
    IN  (pass[r].pc = "sync" /\ j.state # "Absent" /\ j.owner = 0) =>
          j.start <= pass[r].held.created \/ pass[r].held.phase # "live"

(* controller.go, syncOne: nothing but the status is updated for a         *)
(* TZCronJob that is being deleted.                                        *)
OnlyStatusWhileDeleted ==
  [][\A r \in Replicas :
       (pass[r].held.phase = "orphaning" /\ PassStep(r)) => jobs' = jobs]_vars
=============================================================================
