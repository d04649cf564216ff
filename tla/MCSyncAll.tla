------------------------------ MODULE MCSyncAll ------------------------------
(***************************************************************************)
(* Values of the constants of SyncAll for TLC.  A second has 2 units and   *)
(* an integer 4 bits, so that deadlines of 0 to 9 seconds give every kind  *)
(* of product: one that fits (1), the least integer (4), one that wraps    *)
(* into the future (5), to nothing (8) and into the recent past (9).       *)
(***************************************************************************)
EXTENDS SyncAll, TLC

MCOldest == -4

MCFires ==
  [s \in {"every", "odd", "never"} |->
    [z \in {"UTC", "CET"} |->
      CASE s = "every" -> 1..MaxTime
        [] s = "odd"   -> {t \in 1..MaxTime : t % 2 = (IF z = "UTC" THEN 1 ELSE 0)}
        [] s = "never" -> {}]]

Plain == [suspend |-> FALSE, policy |-> "Allow", deadline |-> {}, schedule |-> "odd",
          timezone |-> "UTC", keepComplete |-> {}, keepFailed |-> {}]
Idle == [Plain EXCEPT !.suspend = TRUE]
Every(d) == [Plain EXCEPT !.schedule = "every", !.deadline = {d}]
Keeping(c, f) == [Plain EXCEPT !.schedule = "never", !.keepComplete = {c}, !.keepFailed = {f}]

Fresh(s) == [spec |-> s, created |-> 0, active |-> {}, lst |-> Never]

(* The Jobs of an earlier process, by the instants they were for: their    *)
(* owner, state and start time.                                            *)
Old(owner, state, start) == [owner |-> owner, state |-> state, start |-> start]
Unrecorded == (-1 :> Old("a", "Complete", {-2})) @@ (-2 :> Old("a", "Complete", {}))
           @@ (-3 :> Old("a", "Complete", {})) @@ (-4 :> Old("a", "Complete", {-1}))
Mixed == (-1 :> Old("a", "Complete", {-1})) @@ (-2 :> Old("a", "Failed", {-2}))
      @@ (-3 :> Old("a", "Complete", {-3})) @@ (-4 :> Old("a", "Failed", {-4}))
Foreign == (-1 :> Old("other", "Complete", {-1})) @@ (-2 :> Old("none", "Failed", {-2}))
        @@ (-3 :> Old("a", "Complete", {-3}))

Cluster(a, b, old) ==
  [objs |-> [n \in {"a", "b"} |-> Fresh(IF n = "a" THEN a ELSE b)],
   jobs |-> [j \in JobNames |-> IF j[1] = "a" /\ j[2] \in DOMAIN old THEN old[j[2]] ELSE NoJob]]

MCClusters ==
  {Cluster(Every(d), Idle, <<>>) : d \in {1, 4, 5, 8, 9, -1}}
  \cup {Cluster([Plain EXCEPT !.schedule = "unreadable"], [Plain EXCEPT !.policy = "Replace"], <<>>),
        Cluster([Plain EXCEPT !.schedule = "never"],
                [Plain EXCEPT !.policy = "Forbid", !.timezone = "Utopia"], <<>>),
        Cluster(Keeping(2, 0), Keeping(1, 1), Unrecorded),
        Cluster(Keeping(1, 1), [Idle EXCEPT !.keepFailed = {0}], Mixed),
        Cluster(Keeping(0, 0), [Plain EXCEPT !.timezone = "CET", !.keepComplete = {0}], Foreign),
        Cluster(Keeping(-1, 0), Idle, Foreign),
        Cluster(Keeping(0, -2), Idle, Mixed)}
=============================================================================
