------------------------ MODULE ConcurrencyPolicyProofs ------------------------
(***************************************************************************)
(* The concurrency policies of TZCronJobController, and what keeps one     *)
(* replica from running a scheduled time twice.                            *)
(*                                                                         *)
(* Both rest on what a pass remembers of the Jobs it started: Active and   *)
(* LastScheduleTime, written after the Job is created.  With one replica,  *)
(* and without an edit, a deletion of the TZCronJob, a failed call or a    *)
(* crash, that write is never refused and never lost, and the policies     *)
(* hold for any specs, any horizon and however Jobs finish or are deleted. *)
(* (With any of these they do not: see the runs that expect a violation.)  *)
(* One replica runs nothing twice even when it dies or loses calls, as     *)
(* long as it alone deletes Jobs, history limits are not zero and the      *)
(* schedule stays: of the Jobs there were the latest is on record or still *)
(* there.                                                                  *)
(***************************************************************************)
EXTENDS JobOwnershipProofs

Undisturbed == \A e \in {"edit", "delete", "fault", "crash"} : Budget[e] = 0

Goes(t, js) == js[t].state = "Running"

(* Copy o, if it is of the stored version, refers to every Job that runs,  *)
(* but for the one that pass p has started and is about to record.         *)
Tracked(o, p, s, js) ==
  o.rv = s.rv => \A t \in Instants : Goes(t, js) =>
                   RefTo(js, t) \in o.active \/ (p.pc = "record" /\ p.held.lst = t)

(* A name is used once, and what was started is on record or about to be.  *)
Names(p, s, js) ==
  \A t \in Instants :
    /\ js[t].uid <= 1
    /\ js[t].uid > 0 => t <= s.lst \/ (p.pc = "record" /\ p.held.lst = t)

(* From its first status write to its second a pass works for the stored   *)
(* version; it lists all that runs before it prunes, and before it creates *)
(* a Job under Forbid or Replace nothing runs.                             *)
Exclusive(o) == o.spec.policy \in {"Forbid", "Replace"}

Queued(p, t) == \E q \in p.queue : q[1] = t

InStep(p, s, js) ==
  /\ p.pc \in {"replace", "kill", "create", "record"} => p.held.rv = s.rv
  /\ p.pc = "record" =>
       /\ s.lst < p.held.lst
       /\ \A t \in Instants : Goes(t, js) => RefTo(js, t) \in p.held.active
  /\ p.pc \in {"listed", "sync"} => \A t \in Instants : Goes(t, js) => p.js[t] = js[t]
  /\ (p.pc = "create" /\ Exclusive(p.held)) => \A t \in Instants : ~Goes(t, js)
  /\ p.pc = "replace" => \A t \in Instants : Goes(t, js) => Queued(p, t)
  /\ p.pc = "kill" => \A t \in Instants : Goes(t, js) => Queued(p, t) \/ t = p.victim[1]

OneGoes(s, js) == Exclusive(s) => \A t, u \in Instants : Goes(t, js) /\ Goes(u, js) => t = u

Calm(p, s, js) ==
  /\ s.phase = "live"
  /\ \A t \in Instants : js[t].state # "Absent" => js[t].owner = s.uid
  /\ Names(p, s, js) /\ InStep(p, s, js) /\ OneGoes(s, js)
  /\ Tracked(s, p, s, js) /\ Tracked(p.held, p, s, js)

(* The inductive invariant, w being the replica. *)
CalmInv(w) ==
  /\ Inv /\ Calm(pass[w], sj, jobs)
  /\ Tracked(cache[w], pass[w], sj, jobs)
  /\ \A i \in 1..Len(log) : Tracked(log[i], pass[w], sj, jobs)
-----------------------------------------------------------------------------
(* What steps have in common.                                              *)

(* Jobs finish and go; none comes, none changes its name or its owner. *)
Dwindles ==
  \A t \in Instants :
    /\ jobs'[t].uid = jobs[t].uid
    /\ Goes(t, jobs') => jobs'[t] = jobs[t]
    /\ jobs'[t].state # "Absent" => jobs[t].state # "Absent" /\ jobs'[t].owner = jobs[t].owner

Recording(p, t) == p.pc = "record" /\ p.held.lst = t

LEMMA NoneSpent ==
  ASSUME Undisturbed, TypeOK, NEW e \in {"edit", "delete", "fault", "crash"}
  PROVE  ~Spend(e)
<1>1. spent[e] \in Nat /\ Budget[e] = 0
  BY DEF Undisturbed, TypeOK, Events
<1> QED
  BY <1>1 DEF Spend

(* A status write is refused for a stale copy only. *)
LEMMA OnlyRefused ==
  ASSUME Undisturbed, TypeOK, NEW o, StatusCallFails(o)
  PROVE  ~Accepts(o) /\ UNCHANGED <<sj, log>>
BY NoneSpent DEF StatusCallFails

LEMMA DeletedDwindles ==
  ASSUME TypeOK, NEW t \in Instants, jobs' = jobs \/ jobs' = Deleted(t)
  PROVE  Dwindles /\ (jobs' = Deleted(t) => ~Goes(t, jobs'))
<1>1. ASSUME jobs' = Deleted(t)
      PROVE  /\ jobs'[t].uid = jobs[t].uid /\ jobs'[t].state = "Absent"
             /\ \A u \in Instants \ {t} : jobs'[u] = jobs[u]
  BY <1>1 DEF Deleted, NoJob, TypeOK
<1> QED
  BY <1>1 DEF Dwindles, Goes

LEMMA TrackedDwindles ==
  ASSUME Dwindles, NEW o, NEW p, NEW q, NEW s, Tracked(o, q, s, jobs),
         \A t \in Instants : Recording(q, t) => Recording(p, t)
  PROVE  Tracked(o, p, s, jobs')
<1> SUFFICES ASSUME o.rv = s.rv, NEW t \in Instants, Goes(t, jobs')
             PROVE  RefTo(jobs', t) \in o.active \/ Recording(p, t)
  BY DEF Tracked, Recording
<1>1. jobs'[t] = jobs[t] /\ Goes(t, jobs)
  BY DEF Dwindles, Goes
<1>2. RefTo(jobs', t) = RefTo(jobs, t)
  BY <1>1 DEF RefTo
<1> QED
  BY <1>1, <1>2 DEF Tracked, Recording

LEMMA InStepDwindles ==
  ASSUME Dwindles, NEW p, NEW s, InStep(p, s, jobs)
  PROVE  InStep(p, s, jobs')
<1>1. \A t \in Instants : Goes(t, jobs') => /\ Goes(t, jobs) /\ jobs'[t] = jobs[t]
                                            /\ RefTo(jobs', t) = RefTo(jobs, t)
  BY DEF Dwindles, Goes, RefTo
<1> QED
  BY <1>1 DEF InStep

(* The watch and the store after a step. *)
LEMMA CalmKeeps ==
  ASSUME NEW w, Replicas = {w}, CalmInv(w), Inv', LogExtends,
         NEW p, NEW c, pass' = [pass EXCEPT ![w] = p], cache' = [cache EXCEPT ![w] = c],
         \A o \in Objects : Agrees(o, sj) /\ Tracked(o, pass[w], sj, jobs) => Tracked(o, p, sj', jobs'),
         Tracked(c, p, sj', jobs'), Calm(p, sj', jobs')
  PROVE  CalmInv(w)'
<1>1. w \in Replicas /\ pass'[w] = p /\ cache'[w] = c
  BY DEF CalmInv, Inv, TypeOK
<1>2. ASSUME NEW i \in 1..Len(log') PROVE Tracked(log'[i], p, sj', jobs')
  <2>1. CASE log'[i] = sj'
    BY <2>1 DEF Calm
  <2>2. CASE log'[i] # sj'
    <3>1. PICK k \in 1..Len(log) : log'[i] = log[k]
      BY <1>1, <2>2 DEF LogExtends
    <3>2. log[k] \in Objects /\ Agrees(log[k], sj) /\ Tracked(log[k], pass[w], sj, jobs)
      BY <1>1 DEF CalmInv, Inv, TypeOK, CopiesAgree
    <3> QED
      BY <3>1, <3>2
  <2> QED
    BY <2>1, <2>2
<1> QED
  BY <1>1, <1>2 DEF CalmInv

(* A step that writes nothing to the TZCronJob and creates no Job. *)
LEMMA QuietCalm ==
  ASSUME NEW w, Replicas = {w}, CalmInv(w), Inv', LogExtends, UNCHANGED sj, Dwindles,
         NEW p, NEW c, pass' = [pass EXCEPT ![w] = p], cache' = [cache EXCEPT ![w] = c],
         \A t \in Instants : Recording(pass[w], t) => Recording(p, t),
         Tracked(c, p, sj, jobs'), Tracked(p.held, p, sj, jobs'), InStep(p, sj, jobs')
  PROVE  CalmInv(w)'
<1>1. Calm(pass[w], sj, jobs) /\ sj' = sj
  BY DEF CalmInv
<1>2. \A o : Tracked(o, pass[w], sj, jobs) => Tracked(o, p, sj', jobs')
  BY <1>1, TrackedDwindles
<1>3. Names(p, sj', jobs')
  <2> SUFFICES ASSUME NEW t \in Instants
               PROVE  /\ jobs'[t].uid <= 1
                      /\ jobs'[t].uid > 0 => t <= sj.lst \/ Recording(p, t)
    BY <1>1 DEF Names, Recording
  <2>1. jobs'[t].uid = jobs[t].uid
    BY DEF Dwindles
  <2>2. jobs[t].uid <= 1 /\ (jobs[t].uid > 0 => t <= sj.lst \/ Recording(pass[w], t))
    BY <1>1 DEF Calm, Names, Recording
  <2> QED
    BY <2>1, <2>2
<1>4. OneGoes(sj', jobs') /\ \A t \in Instants : jobs'[t].state # "Absent" => jobs'[t].owner = sj'.uid
  <2>1. \A t \in Instants : Goes(t, jobs') => Goes(t, jobs)
    BY DEF Dwindles, Goes
  <2> QED
    BY <1>1, <2>1 DEF Dwindles, Calm, OneGoes
<1>5. Calm(p, sj', jobs')
  BY <1>1, <1>2, <1>3, <1>4 DEF Calm
<1> QED
  BY <1>1, <1>2, <1>5, CalmKeeps

LEMMA CalmFacts ==
  ASSUME NEW w, Replicas = {w}, CalmInv(w)
  PROVE  /\ w \in Replicas /\ Inv /\ TypeOK /\ Calm(pass[w], sj, jobs) /\ sj.rv > 0
         /\ Tracked(cache[w], pass[w], sj, jobs) /\ Tracked(pass[w].held, pass[w], sj, jobs)
         /\ InStep(pass[w], sj, jobs) /\ Names(pass[w], sj, jobs)
         /\ pass[w] \in Passes /\ pass[w].held \in Objects /\ cache[w] \in Objects
         /\ pass[w].queue \in SUBSET Refs /\ pass[w].victim \in Refs
         /\ cache = [cache EXCEPT ![w] = cache[w]]
         /\ Agrees(pass[w].held, sj)
<1>1. w \in Replicas /\ pass[w] \in Passes
  BY DEF CalmInv, Inv, TypeOK
<1> QED
  BY <1>1 DEF CalmInv, Inv, TypeOK, CopiesAgree, Calm, Passes

(* Such a step of the pass. *)
LEMMA LocalCalm ==
  ASSUME NEW w, Replicas = {w}, CalmInv(w), Inv', UNCHANGED <<sj, log>>, Dwindles,
         NEW p, pass' = [pass EXCEPT ![w] = p],
         cache' = cache \/ cache' = [cache EXCEPT ![w] = p.held],
         \A t \in Instants : Recording(pass[w], t) => Recording(p, t),
         Tracked(p.held, p, sj, jobs'), InStep(p, sj, jobs')
  PROVE  CalmInv(w)'
<1>1. Tracked(cache[w], p, sj, jobs') /\ cache = [cache EXCEPT ![w] = cache[w]]
  BY CalmFacts, TrackedDwindles
<1>2. \E c : cache' = [cache EXCEPT ![w] = c] /\ Tracked(c, p, sj, jobs')
  BY <1>1
<1>3. LogExtends
  BY LogRests
<1> QED
  BY <1>2, <1>3, QuietCalm
-----------------------------------------------------------------------------
(* The steps of a pass.                                                    *)

(* Nothing is asked of a pass in these states. *)
LEMMA AtEase ==
  ASSUME NEW p, p.pc \in {"down", "idle", "cleanup", "sweep"}, NEW s, NEW js
  PROVE  InStep(p, s, js)
BY DEF InStep

(* The pass is over, or goes on to the cleanup with the copy it has. *)
LEMMA RestingCalm ==
  ASSUME NEW w, Replicas = {w}, CalmInv(w), Inv', UNCHANGED <<sj, log, cache>>, Dwindles,
         pass' = [pass EXCEPT ![w] = Resting], pass[w].pc # "record"
  PROVE  CalmInv(w)'
<1>1. Tracked(Resting.held, Resting, sj, jobs')
  BY CalmFacts, RestingType, NoObjectType DEF Tracked
<1>2. InStep(Resting, sj, jobs')
  BY RestingType, AtEase
<1> QED
  BY <1>1, <1>2, LocalCalm DEF Recording

LEMMA GoToCalm ==
  ASSUME NEW w, Replicas = {w}, CalmInv(w), Inv', UNCHANGED <<sj, log>>, Dwindles,
         GoTo(w, "cleanup"), pass[w].pc # "record"
  PROVE  CalmInv(w)'
<1> DEFINE p == [pass[w] EXCEPT !.pc = "cleanup"]
<1>1. p.held = pass[w].held /\ p.pc = "cleanup"
  BY CalmFacts DEF Passes
<1>2. pass' = [pass EXCEPT ![w] = p] /\ cache' = cache
  BY CalmFacts DEF GoTo, TypeOK
<1> HIDE DEF p
<1>3. Tracked(p.held, p, sj, jobs')
  BY <1>1, CalmFacts, TrackedDwindles DEF Recording
<1>4. InStep(p, sj, jobs')
  BY <1>1, AtEase
<1> QED
  BY <1>2, <1>3, <1>4, LocalCalm DEF Recording

LEMMA StillDwindles == ASSUME jobs' = jobs PROVE Dwindles
BY DEF Dwindles

LEMMA ListingCalm ==
  ASSUME NEW w, Replicas = {w}, CalmInv(w), Inv', ListJobs(w) \/ ListTZCronJobs(w)
  PROVE  CalmInv(w)'
<1>1. UNCHANGED <<sj, jobs, log, cache>> /\ Dwindles /\ pass[w].pc \in {"idle", "listed"}
  BY StillDwindles DEF ListJobs, ListTZCronJobs
<1>2. CASE ListJobs(w)
  <2> DEFINE p == [pass[w] EXCEPT !.pc = "listed", !.js = jobs, !.since = sj.rv]
  <2>1. p.held = pass[w].held /\ p.js = jobs /\ p.pc = "listed"
    BY CalmFacts DEF Passes
  <2>2. pass' = [pass EXCEPT ![w] = p]
    BY <1>2, CalmFacts DEF ListJobs, TypeOK
  <2> HIDE DEF p
  <2>3. Tracked(p.held, p, sj, jobs')
    BY <1>1, <2>1, CalmFacts, TrackedDwindles DEF Recording
  <2>4. InStep(p, sj, jobs')
    BY <1>1, <2>1 DEF InStep
  <2> QED
    BY <1>1, <2>2, <2>3, <2>4, LocalCalm DEF Recording
<1>3. CASE ListTZCronJobs(w) /\ cache[w].phase = "gone"
  <2>1. pass' = [pass EXCEPT ![w] = Resting]
    BY <1>3 DEF ListTZCronJobs
  <2> QED
    BY <1>1, <2>1, RestingCalm
<1>4. CASE ListTZCronJobs(w) /\ cache[w].phase # "gone"
  <2> DEFINE p == [pass[w] EXCEPT !.pc = "sync", !.held = cache[w], !.shared = TRUE, !.at = now]
  <2>1. p.held = cache[w] /\ p.js = pass[w].js /\ p.pc = "sync" /\ pass[w].pc = "listed"
    BY <1>4, CalmFacts DEF Passes, ListTZCronJobs
  <2>2. pass' = [pass EXCEPT ![w] = p]
    BY <1>4, CalmFacts DEF ListTZCronJobs, TypeOK
  <2> HIDE DEF p
  <2>3. Tracked(p.held, p, sj, jobs')
    BY <1>1, <2>1, CalmFacts, TrackedDwindles DEF Recording
  <2>4. InStep(p, sj, jobs')
    BY <1>1, <2>1, CalmFacts DEF InStep
  <2> QED
    BY <1>1, <2>2, <2>3, <2>4, LocalCalm DEF Recording
<1> QED
  BY <1>2, <1>3, <1>4

LEMMA GetVictimCalm ==
  ASSUME Undisturbed, NEW w, Replicas = {w}, CalmInv(w), Inv', GetVictim(w)
  PROVE  CalmInv(w)'
<1>1. UNCHANGED <<sj, jobs, log>> /\ Dwindles /\ pass[w].pc = "replace"
  BY StillDwindles DEF GetVictim
<1>2. PICK v \in pass[w].queue :
        \/ /\ pass' = [pass EXCEPT ![w].victim = RefTo(jobs, v[1]),
                                   ![w].queue = @ \ {v},
                                   ![w].pc = "kill"]
           /\ UNCHANGED cache
        \/ GoTo(w, "cleanup")
  BY DEF GetVictim
<1>3. CASE GoTo(w, "cleanup")
  BY <1>1, <1>3, GoToCalm
<1>4. CASE ~GoTo(w, "cleanup")
  <2> DEFINE x == RefTo(jobs, v[1])
             p == [pass[w] EXCEPT !.victim = x, !.queue = @ \ {v}, !.pc = "kill"]
  <2>1. pass' = [pass EXCEPT ![w] = p] /\ cache' = cache
    BY <1>2, <1>4, CalmFacts DEF TypeOK
  <2>2. x[1] = v[1]
    BY DEF RefTo
  <2> HIDE DEF x
  <2>3. p.held = pass[w].held /\ p.pc = "kill" /\ p.victim = x /\ p.queue = pass[w].queue \ {v}
    BY CalmFacts DEF Passes
  <2> HIDE DEF p
  <2>4. Tracked(p.held, p, sj, jobs')
    BY <1>1, <2>3, CalmFacts, TrackedDwindles DEF Recording
  <2>5. InStep(p, sj, jobs')
    <3>1. \A t \in Instants : Goes(t, jobs') => Queued(pass[w], t) /\ pass[w].held.rv = sj.rv
      BY <1>1, CalmFacts DEF InStep
    <3>2. pass[w].held.rv = sj.rv
      BY <1>1, CalmFacts DEF InStep
    <3>3. \A t \in Instants : Goes(t, jobs') => Queued(p, t) \/ t = p.victim[1]
      BY <2>2, <2>3, <3>1 DEF Queued
    <3> QED
      BY <2>3, <3>2, <3>3 DEF InStep
  <2> QED
    BY <1>1, <2>1, <2>4, <2>5, LocalCalm DEF Recording
<1> QED
  BY <1>3, <1>4

LEMMA KillVictimCalm ==
  ASSUME Undisturbed, NEW w, Replicas = {w}, CalmInv(w), Inv', KillVictim(w)
  PROVE  CalmInv(w)'
<1> DEFINE v == pass[w].victim
           h == [pass[w].held EXCEPT !.active = @ \ {v}]
           l == IF pass[w].queue = {} THEN "create" ELSE "replace"
           p == [pass[w] EXCEPT !.held.active = @ \ {v}, !.pc = l]
<1>1. UNCHANGED <<sj, log>> /\ pass[w].pc = "kill" /\ v[1] \in Instants
  BY CalmFacts DEF KillVictim, Refs
<1>2. \/ jobs' = Deleted(v[1]) /\ Mutate(w, p)
      \/ (jobs' = jobs \/ jobs' = Deleted(v[1])) /\ GoTo(w, "cleanup")
  BY DEF KillVictim, DeleteCallSucceeds, DeleteCallFails
<1>3. Dwindles /\ (jobs' = Deleted(v[1]) => ~Goes(v[1], jobs'))
  BY <1>1, <1>2, CalmFacts, DeletedDwindles
<1>4. CASE jobs' = Deleted(v[1]) /\ Mutate(w, p)
  <2>1. pass' = [pass EXCEPT ![w] = p] /\ (cache' = cache \/ cache' = [cache EXCEPT ![w] = p.held])
    BY <1>4 DEF Mutate
  <2>2. p.held = h /\ p.queue = pass[w].queue /\ p.pc = l
    BY CalmFacts DEF Passes
  <2>3. h.rv = pass[w].held.rv /\ h.active = pass[w].held.active \ {v}
    BY CalmFacts DEF Objects
  <2>4. pass[w].held.rv = sj.rv /\ \A t \in Instants : Goes(t, jobs) => Queued(pass[w], t) \/ t = v[1]
    BY <1>1, CalmFacts DEF InStep
  <2>5. ASSUME NEW t \in Instants, Goes(t, jobs')
        PROVE  t # v[1] /\ Goes(t, jobs) /\ RefTo(jobs', t) = RefTo(jobs, t) /\ RefTo(jobs, t)[1] = t
    BY <1>3, <1>4, <2>5 DEF Dwindles, Goes, RefTo
  <2>6. \A t \in Instants : Goes(t, jobs') => Queued(p, t)
    BY <2>2, <2>4, <2>5 DEF Queued
  <2>7. l \in {"create", "replace"} /\ (l = "create" => \A t \in Instants : ~Queued(p, t))
    BY <2>2 DEF Queued
  <2>8. Tracked(h, p, sj, jobs')
    <3>1. \A t \in Instants : Goes(t, jobs) => RefTo(jobs, t) \in pass[w].held.active
      BY <1>1, <2>4, CalmFacts DEF Tracked
    <3>2. ASSUME NEW t \in Instants, Goes(t, jobs') PROVE RefTo(jobs', t) \in h.active
      <4>1. RefTo(jobs, t) # v
        BY <2>5, <3>2
      <4> QED
        BY <2>3, <2>5, <3>1, <3>2, <4>1
    <3> HIDE DEF h, p
    <3> QED
      BY <3>2 DEF Tracked
  <2> HIDE DEF h, l, p
  <2>9. InStep(p, sj, jobs')
    BY <2>2, <2>3, <2>4, <2>6, <2>7 DEF InStep
  <2> QED
    BY <1>1, <1>3, <2>1, <2>2, <2>8, <2>9, LocalCalm DEF Recording
<1>5. CASE GoTo(w, "cleanup")
  BY <1>1, <1>3, <1>5, GoToCalm
<1> QED
  BY <1>2, <1>4, <1>5

LEMMA BeginCleanupCalm ==
  ASSUME NEW w, Replicas = {w}, CalmInv(w), Inv', BeginCleanup(w)
  PROVE  CalmInv(w)'
<1> DEFINE S == ToSweep(pass[w].held, pass[w].js)
           p == [pass[w] EXCEPT !.pc = "sweep", !.queue = S]
<1>1. UNCHANGED <<sj, jobs, log, cache>> /\ Dwindles /\ pass[w].pc = "cleanup"
  BY StillDwindles DEF BeginCleanup
<1>2. pass' = [pass EXCEPT ![w] = p] \/ pass' = [pass EXCEPT ![w] = Resting]
  BY CalmFacts DEF BeginCleanup, TypeOK
<1> HIDE DEF S
<1>3. p.held = pass[w].held /\ p.pc = "sweep"
  BY CalmFacts DEF Passes
<1> HIDE DEF p
<1>4. CASE pass' = [pass EXCEPT ![w] = p]
  <2>1. Tracked(p.held, p, sj, jobs')
    BY <1>1, <1>3, CalmFacts, TrackedDwindles DEF Recording
  <2>2. InStep(p, sj, jobs')
    BY <1>3, AtEase
  <2> QED
    BY <1>1, <1>4, <2>1, <2>2, LocalCalm DEF Recording
<1>5. CASE pass' = [pass EXCEPT ![w] = Resting]
  BY <1>1, <1>5, RestingCalm
<1> QED
  BY <1>2, <1>4, <1>5

LEMMA SweepCalm ==
  ASSUME Undisturbed, NEW w, Replicas = {w}, CalmInv(w), Inv', Sweep(w)
  PROVE  CalmInv(w)'
<1>1. PICK v \in pass[w].queue :
        \/ /\ DeleteCallSucceeds(v[1])
           /\ Mutate(w, [pass[w] EXCEPT !.held.active = @ \ {v}, !.queue = @ \ {v}])
        \/ /\ DeleteCallFails(v[1])
           /\ pass' = [pass EXCEPT ![w].queue = @ \ {v}]
           /\ UNCHANGED cache
  BY DEF Sweep
<1>2. v[1] \in Instants
  BY CalmFacts DEF Refs
<1>3. UNCHANGED <<sj, log>> /\ pass[w].pc = "sweep"
  BY DEF Sweep
<1>4. Dwindles /\ (jobs' = Deleted(v[1]) => ~Goes(v[1], jobs'))
  BY <1>1, <1>2, CalmFacts, DeletedDwindles DEF DeleteCallSucceeds, DeleteCallFails
<1> DEFINE h == [pass[w].held EXCEPT !.active = @ \ {v}]
           p == [pass[w] EXCEPT !.held.active = @ \ {v}, !.queue = @ \ {v}]
           q == [pass[w] EXCEPT !.queue = @ \ {v}]
<1>5. p.held = h /\ p.pc = "sweep" /\ q.held = pass[w].held /\ q.pc = "sweep"
  BY <1>3, CalmFacts DEF Passes
<1>6. CASE DeleteCallSucceeds(v[1]) /\ Mutate(w, p)
  <2>1. pass' = [pass EXCEPT ![w] = p] /\ (cache' = cache \/ cache' = [cache EXCEPT ![w] = p.held])
    BY <1>6 DEF Mutate
  <2>2. h.rv = pass[w].held.rv /\ h.active = pass[w].held.active \ {v}
    BY CalmFacts DEF Objects
  <2> HIDE DEF h, p, q
  <2>3. Tracked(h, p, sj, jobs')
    <3> SUFFICES ASSUME h.rv = sj.rv, NEW t \in Instants, Goes(t, jobs')
                 PROVE  RefTo(jobs', t) \in h.active
      BY DEF Tracked
    <3>1. t # v[1] /\ RefTo(jobs', t)[1] = t
      BY <1>4, <1>6 DEF DeleteCallSucceeds, RefTo
    <3>2. Tracked(pass[w].held, pass[w], sj, jobs')
      BY <1>4, CalmFacts, TrackedDwindles DEF Recording
    <3>3. RefTo(jobs', t) \in pass[w].held.active
      BY <1>3, <2>2, <3>2 DEF Tracked
    <3> QED
      BY <2>2, <3>1, <3>3
  <2>4. InStep(p, sj, jobs')
    BY <1>5, AtEase
  <2> QED
    BY <1>3, <1>4, <1>5, <2>1, <2>3, <2>4, LocalCalm DEF Recording
<1>7. CASE DeleteCallFails(v[1]) /\ pass' = [pass EXCEPT ![w].queue = @ \ {v}] /\ UNCHANGED cache
  <2>1. pass' = [pass EXCEPT ![w] = q] /\ cache' = cache
    BY <1>7, CalmFacts DEF TypeOK
  <2> HIDE DEF h, p, q
  <2>2. Tracked(q.held, q, sj, jobs')
    BY <1>3, <1>4, <1>5, CalmFacts, TrackedDwindles DEF Recording
  <2>3. InStep(q, sj, jobs')
    BY <1>5, AtEase
  <2> QED
    BY <1>3, <1>4, <1>5, <2>1, <2>2, <2>3, LocalCalm DEF Recording
<1> QED
  BY <1>1, <1>6, <1>7

(* The Job created is the first of its name, and under Forbid or Replace   *)
(* the only one that runs.                                                 *)
LEMMA CreateJobCalm ==
  ASSUME Undisturbed, NEW w, Replicas = {w}, CalmInv(w), Inv', CreateJob(w)
  PROVE  CalmInv(w)'
<1> DEFINE o == pass[w].held
           t == ScheduledTime(o, pass[w].at)
           x == <<t, jobs[t].uid + 1>>
           h == Started(o, t, x)
           p == [pass[w] EXCEPT !.held = h, !.pc = "record"]
<1>1. UNCHANGED <<sj, log>> /\ pass[w].pc = "create"
  BY DEF CreateJob
<1>2. \/ jobs' = Created(t, o) /\ Mutate(w, p)
      \/ jobs' = jobs /\ GoTo(w, "cleanup")
  BY CalmFacts, NoneSpent DEF CreateJob
<1>3. t \in Instants /\ t > o.lst
  BY <1>1, CalmFacts, PassFacts, ScheduledTimeType DEF Decided
<1>4. o \in Objects /\ o.rv = sj.rv /\ o.uid = sj.uid /\ o.spec = sj.spec /\ o.lst >= sj.lst
  BY <1>1, CalmFacts DEF InStep, Agrees
<1>5. /\ h.rv = o.rv /\ h.lst = t /\ h.active = o.active \cup {x}
      /\ p.held = h /\ p.pc = "record"
  BY <1>4, CalmFacts DEF Started, Objects, Passes
<1> HIDE DEF o, t, h, p
<1>6. CASE jobs' = jobs /\ GoTo(w, "cleanup")
  BY <1>1, <1>6, StillDwindles, GoToCalm
<1>7. CASE jobs' = Created(t, o) /\ Mutate(w, p)
  <2>1. sj.lst < t /\ jobs[t].uid = 0
    <3>1. o.lst \in Int /\ sj.lst \in Int /\ t \in Int /\ jobs[t].uid \in Nat
      BY <1>3, <1>4, CalmFacts, ObjectNumbers, InstantNumbers, Numbers
    <3>2. sj.lst < t
      BY <1>3, <1>4, <3>1
    <3>3. jobs[t].uid > 0 => t <= sj.lst
      BY <1>1, <1>3, CalmFacts DEF Names
    <3> QED
      BY <3>1, <3>2, <3>3
  <2>2. jobs' = [jobs EXCEPT ![t] = [uid |-> jobs[t].uid + 1, owner |-> o.uid,
                                     state |-> "Running", start |-> now]]
    BY <1>7 DEF Created
  <2>3. /\ jobs'[t].uid = 1 /\ jobs'[t].owner = o.uid /\ RefTo(jobs', t) = x
        /\ \A u \in Instants \ {t} : jobs'[u] = jobs[u] /\ RefTo(jobs', u) = RefTo(jobs, u)
    BY <1>3, <2>1, <2>2, CalmFacts DEF TypeOK, RefTo
  <2>4. \A a : Tracked(a, pass[w], sj, jobs) => Tracked(a, p, sj', jobs')
    BY <1>1, <1>5, <2>3 DEF Tracked, Goes
  <2>5. \A u \in Instants : Goes(u, jobs') => RefTo(jobs', u) \in h.active
    <3>1. \A u \in Instants : Goes(u, jobs) => RefTo(jobs, u) \in o.active
      BY <1>1, <1>4, CalmFacts DEF Tracked, o
    <3> HIDE DEF x
    <3> QED
      BY <1>5, <2>3, <3>1 DEF Goes
  <2>6. Calm(p, sj', jobs')
    <3>1. Names(p, sj', jobs')
      <4> SUFFICES ASSUME NEW u \in Instants
                   PROVE  jobs'[u].uid <= 1 /\ (jobs'[u].uid > 0 => u <= sj.lst \/ u = t)
        BY <1>1, <1>5 DEF Names
      <4>1. CASE u = t
        BY <2>3, <4>1
      <4>2. CASE u # t
        BY <1>1, <2>3, <4>2, CalmFacts DEF Names
      <4> QED
        BY <4>1, <4>2
    <3>2. InStep(p, sj', jobs')
      BY <1>1, <1>4, <1>5, <2>1, <2>5 DEF InStep
    <3>3. OneGoes(sj', jobs')
      <4>1. Exclusive(sj) => \A u \in Instants : ~Goes(u, jobs)
        BY <1>1, <1>4, CalmFacts DEF InStep, Exclusive, o
      <4> QED
        BY <1>1, <2>3, <4>1 DEF OneGoes, Goes
    <3>4. \A u \in Instants : jobs'[u].state # "Absent" => jobs'[u].owner = sj'.uid
      BY <1>1, <1>4, <2>3, CalmFacts DEF Calm
    <3>5. Tracked(sj', p, sj', jobs') /\ Tracked(p.held, p, sj', jobs')
      BY <1>1, <1>5, <2>4, <2>5, CalmFacts DEF Calm, Tracked
    <3> QED
      BY <1>1, <3>1, <3>2, <3>3, <3>4, <3>5, CalmFacts DEF Calm
  <2>7. pass' = [pass EXCEPT ![w] = p] /\ (cache' = cache \/ cache' = [cache EXCEPT ![w] = p.held])
    BY <1>7 DEF Mutate
  <2>8. \E c : cache' = [cache EXCEPT ![w] = c] /\ Tracked(c, p, sj', jobs')
    BY <2>4, <2>6, <2>7, CalmFacts DEF Calm
  <2>9. LogExtends
    BY <1>1, LogRests
  <2> QED
    BY <2>4, <2>6, <2>7, <2>8, <2>9, CalmKeeps
<1> QED
  BY <1>2, <1>6, <1>7

(* A status write, accepted, from a copy that refers to all that runs.     *)
LEMMA StatusCalm ==
  ASSUME NEW w, Replicas = {w}, CalmInv(w), Inv', jobs' = jobs,
         NEW o \in Objects, Agrees(o, sj), Accepts(o), Publish(Stored(o)),
         \A t \in Instants : Goes(t, jobs) => RefTo(jobs, t) \in o.active,
         pass[w].pc = "record" => o = pass[w].held,
         NEW p, p.pc # "record", InStep(p, sj', jobs),
         pass' = [pass EXCEPT ![w] = p], cache' = cache \/ cache' = [cache EXCEPT ![w] = p.held],
         p.held = sj' \/ p.held = NoObject \/ p.held = pass[w].held
  PROVE  CalmInv(w)'
<1> DEFINE n == Stored(o)
<1>1. sj' = n /\ (log' = log \/ log' = Append(log, n))
  BY DEF Publish
<1>2. n \in Objects /\ n.uid = sj.uid /\ n.lst = o.lst /\ (n = sj \/ n.rv = sj.rv + 1)
  BY CalmFacts, StoredType
<1>3. n.phase = sj.phase /\ n.spec = sj.spec /\ n.active = o.active
  BY CalmFacts DEF Stored, TypeOK, Objects
<1> HIDE DEF n
<1>4. o.lst >= sj.lst /\ o.lst \in Int /\ sj.lst \in Int /\ sj.rv \in Nat
  BY CalmFacts, ObjectNumbers, Numbers DEF Accepts, Agrees, TypeOK
<1>5. ASSUME NEW a \in Objects, Agrees(a, sj), Tracked(a, pass[w], sj, jobs)
      PROVE  Tracked(a, p, sj', jobs')
  <2>1. a.rv \in Nat /\ a.rv <= sj.rv
    BY <1>5, ObjectNumbers DEF Agrees
  <2>2. CASE n = sj
    <3>1. pass[w].pc # "record"
      BY <1>2, <1>4, <2>2, CalmFacts DEF InStep
    <3> QED
      BY <1>1, <1>5, <2>2, <3>1 DEF Tracked
  <2>3. CASE n.rv = sj.rv + 1
    BY <1>1, <1>4, <2>1, <2>3 DEF Tracked
  <2> QED
    BY <1>2, <2>2, <2>3
<1>6. Tracked(sj', p, sj', jobs')
  BY <1>1, <1>3 DEF Tracked
<1>7. Names(p, sj', jobs')
  <2> SUFFICES ASSUME NEW t \in Instants
               PROVE  jobs[t].uid <= 1 /\ (jobs[t].uid > 0 => t <= o.lst)
    BY <1>1, <1>2 DEF Names
  <2>1. t \in Nat
    BY InstantNumbers
  <2>2. jobs[t].uid <= 1 /\ (jobs[t].uid > 0 => t <= sj.lst \/ t = o.lst)
    BY CalmFacts DEF Names
  <2> QED
    BY <1>4, <2>1, <2>2
<1>8. OneGoes(sj', jobs') /\ sj'.phase = "live"
      /\ \A t \in Instants : jobs'[t].state # "Absent" => jobs'[t].owner = sj'.uid
  BY <1>1, <1>2, <1>3, CalmFacts DEF Calm, OneGoes, Exclusive
<1>9. Tracked(p.held, p, sj', jobs')
  <2>1. CASE p.held = NoObject
    BY <2>1, NoObjectType, CalmFacts DEF Inv, Tracked
  <2>2. CASE p.held = pass[w].held
    BY <1>5, <2>2, CalmFacts
  <2> QED
    BY <1>6, <2>1, <2>2
<1>10. Calm(p, sj', jobs')
  BY <1>6, <1>7, <1>8, <1>9 DEF Calm
<1>11. Tracked(cache[w], p, sj', jobs')
  BY <1>5, CalmFacts DEF Inv, CopiesAgree
<1>12. \E c : cache' = [cache EXCEPT ![w] = c] /\ Tracked(c, p, sj', jobs')
  BY <1>9, <1>11, CalmFacts
<1>13. LogExtends
  BY <1>1, <1>2, CalmFacts, LogAppends
<1> QED
  BY <1>5, <1>10, <1>12, <1>13, CalmKeeps

(* What is pruned does not run. *)
LEMMA PrunedRuns ==
  ASSUME NEW w, Replicas = {w}, CalmInv(w), pass[w].pc = "sync", pass[w].held.rv = sj.rv,
         NEW t \in Instants, Goes(t, jobs)
  PROVE  RefTo(jobs, t) \in Pruned(pass[w].held, pass[w].js).active
<1> DEFINE o == pass[w].held
           js == pass[w].js
           x == RefTo(jobs, t)
<1>1. o \in Objects /\ x \in o.active /\ x = <<t, jobs[t].uid>>
  BY CalmFacts DEF Tracked, RefTo
<1>2. js[t] = jobs[t]
  BY CalmFacts DEF InStep
<1>3. jobs[t].owner = o.uid
  BY CalmFacts DEF Calm, Agrees, Goes
<1>4. t \in Children(js, o)
  BY <1>2, <1>3 DEF Children, Goes
<1>5. Pruned(o, js).active = {r \in o.active : /\ r[1] \in Children(js, o)
                                               /\ js[r[1]].uid = r[2]
                                               /\ js[r[1]].state = "Running"}
  BY <1>1 DEF Pruned, Objects
<1> QED
  BY <1>1, <1>2, <1>4, <1>5 DEF Goes

LEMMA SyncStatusCalm ==
  ASSUME Undisturbed, NEW w, Replicas = {w}, CalmInv(w), Inv', SyncStatus(w)
  PROVE  CalmInv(w)'
<1> DEFINE want == Pruned(pass[w].held, pass[w].js)
           next == Stored(want)
           f == Fenced(w, next)
           g == Refused(w, want)
<1>1. want \in Objects /\ Agrees(want, sj) /\ want.rv = pass[w].held.rv
  BY CalmFacts, PrunedAgrees DEF Pruned, Objects
<1>2. jobs' = jobs /\ pass[w].pc = "sync" /\ sj.phase = "live"
  BY CalmFacts DEF SyncStatus, Calm
<1>3. CASE StatusCallSucceeds(want) /\ Mutate(w, f)
  <2>1. Accepts(want) /\ Publish(next) /\ sj' = next
    BY <1>3 DEF StatusCallSucceeds, Publish
  <2>2. \A t \in Instants : Goes(t, jobs) => RefTo(jobs, t) \in want.active
    BY <1>1, <1>2, <2>1, PrunedRuns DEF Accepts
  <2>3. next.active = want.active
    BY CalmFacts DEF Stored, TypeOK, Objects
  <2> HIDE DEF want
  <2> HIDE DEF next
  <2> DEFINE q == IF MayStart(next, pass[w].at) /\ Replaces(next) THEN next.active ELSE {}
             l == IF ~MayStart(next, pass[w].at) THEN "cleanup"
                  ELSE IF Replaces(next) THEN "replace" ELSE "create"
  <2>4. f.held = next /\ f.pc = l /\ f.queue = q
    <3>1. f = [pass[w] EXCEPT !.held = next, !.queue = q, !.pc = l]
      BY DEF Fenced
    <3> HIDE DEF q, l
    <3> QED
      BY <3>1, CalmFacts DEF Passes
  <2>5. pass' = [pass EXCEPT ![w] = f] /\ (cache' = cache \/ cache' = [cache EXCEPT ![w] = f.held])
    BY <1>3 DEF Mutate
  <2> HIDE DEF f
  <2>6. InStep(f, sj', jobs)
    <3>1. l = "create" /\ Exclusive(next) => \A t \in Instants : ~Goes(t, jobs)
      BY <2>2, <2>3 DEF MayStart, Replaces, Exclusive
    <3>2. l = "replace" => \A t \in Instants : Goes(t, jobs) => Queued(f, t)
      <4> SUFFICES ASSUME l = "replace", NEW t \in Instants, Goes(t, jobs) PROVE Queued(f, t)
        OBVIOUS
      <4>1. q = next.active /\ RefTo(jobs, t)[1] = t
        BY DEF RefTo
      <4> HIDE DEF q, l
      <4> QED
        BY <2>2, <2>3, <2>4, <4>1 DEF Queued
    <3>3. l \in {"cleanup", "replace", "create"}
      OBVIOUS
    <3> HIDE DEF q, l
    <3> QED
      BY <2>1, <2>4, <3>1, <3>2, <3>3 DEF InStep
  <2>7. f.pc # "record"
    BY <2>4
  <2> QED
    BY <1>1, <1>2, <2>1, <2>2, <2>4, <2>5, <2>6, <2>7, StatusCalm DEF next
<1>4. CASE StatusCallFails(want) /\ Mutate(w, g)
  <2>1. ~Accepts(want) /\ UNCHANGED <<sj, log>>
    BY <1>4, CalmFacts, OnlyRefused
  <2>2. g.held = want /\ g.pc = "cleanup"
    BY CalmFacts DEF Refused, Passes
  <2>3. pass' = [pass EXCEPT ![w] = g] /\ (cache' = cache \/ cache' = [cache EXCEPT ![w] = g.held])
    BY <1>4 DEF Mutate
  <2> HIDE DEF want, g
  <2>4. Tracked(g.held, g, sj, jobs')
    BY <1>2, <2>1, <2>2 DEF Tracked, Accepts
  <2>5. InStep(g, sj, jobs')
    BY <2>2, AtEase
  <2> QED
    BY <1>2, <2>1, <2>3, <2>4, <2>5, StillDwindles, LocalCalm DEF Recording
<1> QED
  BY <1>3, <1>4 DEF SyncStatus

(* The second write is accepted: nothing was written since the first. *)
LEMMA RecordStartCalm ==
  ASSUME Undisturbed, NEW w, Replicas = {w}, CalmInv(w), Inv', RecordStart(w)
  PROVE  CalmInv(w)'
<1> DEFINE o == pass[w].held
           p == [pass[w] EXCEPT !.pc = "cleanup"]
<1>1. pass[w].pc = "record" /\ jobs' = jobs
  BY DEF RecordStart
<1>2. Accepts(o)
  BY <1>1, CalmFacts DEF InStep, Accepts, Calm
<1>3. Publish(Stored(o))
  BY <1>2, CalmFacts, OnlyRefused DEF RecordStart, StatusCallSucceeds
<1>4. p.held = o /\ p.pc = "cleanup"
  BY CalmFacts DEF Passes
<1>5. pass' = [pass EXCEPT ![w] = p] /\ cache' = cache
  BY CalmFacts DEF RecordStart, GoTo, TypeOK
<1>6. \A t \in Instants : Goes(t, jobs) => RefTo(jobs, t) \in o.active
  BY <1>1, CalmFacts DEF InStep
<1> HIDE DEF p
<1>7. InStep(p, sj', jobs)
  BY <1>4, AtEase
<1> QED
  BY <1>1, <1>2, <1>3, <1>4, <1>5, <1>6, <1>7, CalmFacts, StatusCalm

LEMMA EndCleanupCalm ==
  ASSUME Undisturbed, NEW w, Replicas = {w}, CalmInv(w), Inv', EndCleanup(w)
  PROVE  CalmInv(w)'
<1> DEFINE o == pass[w].held
<1>1. pass[w].pc = "sweep" /\ UNCHANGED <<jobs, cache>> /\ pass' = [pass EXCEPT ![w] = Resting]
  BY DEF EndCleanup
<1>2. CASE StatusCallSucceeds(o)
  <2>1. Accepts(o) /\ Publish(Stored(o))
    BY <1>2 DEF StatusCallSucceeds
  <2>2. \A t \in Instants : Goes(t, jobs) => RefTo(jobs, t) \in o.active
    BY <1>1, <2>1, CalmFacts DEF Tracked, Accepts
  <2>3. Resting.held = NoObject /\ Resting.pc = "idle" /\ InStep(Resting, sj', jobs)
    BY RestingType, AtEase
  <2> QED
    BY <1>1, <2>1, <2>2, <2>3, CalmFacts, StatusCalm
<1>3. CASE StatusCallFails(o)
  <2>1. UNCHANGED <<sj, log>>
    BY <1>3, CalmFacts, OnlyRefused
  <2> QED
    BY <1>1, <2>1, StillDwindles, RestingCalm
<1> QED
  BY <1>2, <1>3 DEF EndCleanup
-----------------------------------------------------------------------------
(* The informer, the process and the rest of the cluster.                  *)

LEMMA InformerCalm ==
  ASSUME Undisturbed, NEW w, Replicas = {w}, CalmInv(w), Inv',
         List(w) \/ Deliver(w) \/ Relist(w) \/ Crash(w) \/ Start(w)
  PROVE  CalmInv(w)'
<1> DEFINE p == [pass[w] EXCEPT !.shared = FALSE]
<1>1. UNCHANGED <<sj, jobs>> /\ ~Crash(w) /\ LogExtends /\ Dwindles
  BY CalmFacts, NoneSpent, StoreTakes, StillDwindles DEF List, Deliver, Relist, Receive, Crash, Start
<1>2. PICK c \in {cache[w], NoObject} \cup {log[v] : v \in 1..Len(log)} : cache' = [cache EXCEPT ![w] = c]
  BY CalmFacts, StoreTakes
<1>3. Tracked(c, pass[w], sj, jobs)
  <2>1. NoObject.rv # sj.rv
    BY CalmFacts, ObjectNumbers DEF NoObject, Calm
  <2> QED
    BY <1>2, <2>1 DEF CalmInv, Tracked
<1>4. CASE Start(w)
  <2>1. pass' = [pass EXCEPT ![w] = Resting] /\ pass[w].pc = "down"
    BY <1>4 DEF Start
  <2>2. Tracked(Resting.held, Resting, sj, jobs') /\ InStep(Resting, sj, jobs')
    BY CalmFacts, RestingType, NoObjectType, AtEase DEF Tracked
  <2>3. \A t \in Instants : Recording(pass[w], t) => Recording(Resting, t)
    BY <2>1 DEF Recording
  <2>4. Tracked(c, Resting, sj, jobs')
    BY <1>1, <1>3, <2>3, TrackedDwindles
  <2> QED
    BY <1>1, <1>2, <2>1, <2>2, <2>3, <2>4, QuietCalm
<1>5. CASE List(w) \/ Deliver(w) \/ Relist(w)
  <2>1. pass' = [pass EXCEPT ![w] = p]
    BY <1>5, CalmFacts DEF List, Deliver, Relist, Receive, TypeOK
  <2>2. /\ p.held = pass[w].held /\ p.js = pass[w].js /\ p.pc = pass[w].pc
        /\ p.queue = pass[w].queue /\ p.victim = pass[w].victim
    BY CalmFacts DEF Passes
  <2> HIDE DEF p
  <2>3. InStep(p, sj, jobs')
    BY <1>1, <2>2, CalmFacts DEF InStep, Queued
  <2>4. \A t \in Instants : Recording(pass[w], t) => Recording(p, t)
    BY <2>2 DEF Recording
  <2>5. Tracked(p.held, p, sj, jobs') /\ Tracked(c, p, sj, jobs')
    BY <1>1, <1>3, <2>2, <2>4, CalmFacts, TrackedDwindles
  <2> QED
    BY <1>1, <1>2, <2>1, <2>3, <2>4, <2>5, QuietCalm
<1> QED
  BY <1>1, <1>4, <1>5

LEMMA OthersCalm ==
  ASSUME Undisturbed, NEW w, Replicas = {w}, CalmInv(w), Inv',
         \/ \E t \in Instants : Finish(t) \/ Reap(t) \/ Orphan(t) \/ Collect(t)
         \/ Edit \/ Delete \/ Finalize \/ Recreate \/ Tick \/ UNCHANGED vars
  PROVE  CalmInv(w)'
<1>1. sj.phase = "live" /\ TypeOK
  BY CalmFacts DEF Calm
<1>2. \/ \E t \in Instants : Finish(t) \/ Reap(t) \/ Collect(t)
      \/ Tick \/ UNCHANGED vars
  BY <1>1, NoneSpent DEF Orphan, Edit, Delete, Finalize, Recreate
<1>3. UNCHANGED <<sj, log, cache, pass>>
  BY <1>2 DEF Finish, Reap, Collect, Tick, vars
<1>4. Dwindles
  <2>1. CASE \E t \in Instants : Reap(t) \/ Collect(t)
    BY <1>1, <2>1, DeletedDwindles DEF Reap, Collect
  <2>2. CASE \E t \in Instants : Finish(t)
    <3>1. PICK t \in Instants : Finish(t)
      BY <2>2
    <3>2. PICK how \in Outcomes : jobs' = [jobs EXCEPT ![t].state = how]
      BY <3>1 DEF Finish
    <3>3. how # "Running" /\ jobs[t].state # "Absent" /\ jobs \in [Instants -> Jobs]
      BY <1>1, <3>1, ControllerAssumption DEF Finish, TypeOK
    <3>4. /\ jobs'[t].state = how /\ jobs'[t].uid = jobs[t].uid /\ jobs'[t].owner = jobs[t].owner
          /\ \A u \in Instants \ {t} : jobs'[u] = jobs[u]
      BY <3>2, <3>3 DEF Jobs
    <3> QED
      BY <3>3, <3>4 DEF Dwindles, Goes
  <2>3. CASE Tick \/ UNCHANGED vars
    BY <2>3, StillDwindles DEF Tick, vars
  <2> QED
    BY <1>2, <2>1, <2>2, <2>3
<1>5. pass' = [pass EXCEPT ![w] = pass[w]] /\ cache' = cache
  BY <1>1, <1>3 DEF TypeOK
<1>6. Tracked(pass[w].held, pass[w], sj, jobs') /\ InStep(pass[w], sj, jobs')
  BY <1>4, CalmFacts, TrackedDwindles, InStepDwindles
<1> QED
  BY <1>3, <1>4, <1>5, <1>6, LocalCalm
-----------------------------------------------------------------------------
LEMMA CalmInitially ==
  ASSUME NEW w, Replicas = {w}, Init
  PROVE  CalmInv(w)
<1>1. PICK s \in Specs : sj = NewObject(s, 1, 1)
  BY DEF Init
<1>2. Inv
  BY InvInitially
<1> DEFINE d == [Resting EXCEPT !.pc = "down"]
<1>3. d.held = NoObject /\ d.pc = "down"
  BY RestingType DEF Passes, PassStates
<1>4. pass[w] = d /\ cache[w] = NoObject /\ log = <<sj>>
  BY DEF Init
<1> HIDE DEF d
<1>5. \A t \in Instants : jobs[t].uid = 0 /\ jobs[t].state = "Absent"
  BY DEF Init, NoJob
<1>6. \A o, p : Tracked(o, p, sj, jobs)
  BY <1>5 DEF Tracked, Goes
<1>7. Names(d, sj, jobs) /\ OneGoes(sj, jobs) /\ InStep(d, sj, jobs)
  BY <1>3, <1>5, AtEase DEF Names, OneGoes, Goes
<1>8. sj.phase = "live"
  BY <1>1 DEF NewObject
<1> QED
  BY <1>2, <1>4, <1>5, <1>6, <1>7, <1>8 DEF CalmInv, Calm

LEMMA CalmAlways ==
  ASSUME Undisturbed, NEW w, Replicas = {w}, CalmInv(w), [Next]_vars
  PROVE  CalmInv(w)'
<1>1. Inv'
  BY CalmFacts, InvPreserved
<1>2. CASE PassStep(w)
  BY <1>1, <1>2, ListingCalm, SyncStatusCalm, GetVictimCalm, KillVictimCalm, CreateJobCalm,
     RecordStartCalm, BeginCleanupCalm, SweepCalm, EndCleanupCalm DEF PassStep
<1>3. CASE List(w) \/ Deliver(w) \/ Relist(w) \/ Crash(w) \/ Start(w)
  BY <1>1, <1>3, InformerCalm
<1>4. CASE \/ \E t \in Instants : Finish(t) \/ Reap(t) \/ Orphan(t) \/ Collect(t)
           \/ Tick \/ Edit \/ Delete \/ Finalize \/ Recreate \/ UNCHANGED vars
  BY <1>1, <1>4, OthersCalm
<1> QED
  BY <1>2, <1>3, <1>4 DEF Next

(* With one replica that nothing disturbs, what the API server stores of   *)
(* the Jobs that run and ran is at every moment what the pass knows.       *)
THEOREM Calmness ==
  ASSUME Undisturbed, NEW w, Replicas = {w}
  PROVE  Spec => []CalmInv(w)
<1>1. Init => CalmInv(w)
  BY CalmInitially
<1>2. CalmInv(w) /\ [Next]_vars => CalmInv(w)'
  BY CalmAlways
<1> QED
  BY <1>1, <1>2, PTL DEF Spec

(* One undisturbed replica never runs a scheduled time twice, also when    *)
(* Jobs are swept, replaced or deleted by others: LastScheduleTime is      *)
(* recorded before syncOne looks for unmet times again.                    *)
THEOREM OnceWhenUndisturbed ==
  ASSUME Undisturbed, NEW w, Replicas = {w}
  PROVE  Spec => []RunAtMostOnce
<1>1. CalmInv(w) => RunAtMostOnce
  BY DEF CalmInv, Calm, Names, RunAtMostOnce
<1> QED
  BY <1>1, Calmness, PTL

(* Every Job of its TZCronJob that runs is in Status.Active, or the pass   *)
(* that created it is about to write it there.                             *)
THEOREM TrackedWhenUndisturbed ==
  ASSUME Undisturbed, NEW w, Replicas = {w}
  PROVE  Spec => []RunningIsTracked
<1>1. CalmInv(w) => RunningIsTracked
  <2> SUFFICES ASSUME CalmInv(w), NEW t \in Running(sj)
               PROVE  \/ RefTo(jobs, t) \in sj.active
                      \/ pass[w].pc = "record" /\ RefTo(jobs, t) \in pass[w].held.active
    BY CalmFacts DEF RunningIsTracked
  <2>1. t \in Instants /\ Goes(t, jobs)
    BY DEF Running, Children, Goes
  <2>2. RefTo(jobs, t) \in sj.active \/ pass[w].pc = "record"
    BY <2>1, CalmFacts DEF Calm, Tracked
  <2> QED
    BY <2>1, <2>2, CalmFacts DEF InStep
<1> QED
  BY <1>1, Calmness, PTL

(* Under Forbid and under Replace at most one Job runs at a time.          *)
THEOREM OneAtATimeWhenUndisturbed ==
  ASSUME Undisturbed, NEW w, Replicas = {w}
  PROVE  Spec => []NoOverlap
<1>1. CalmInv(w) => NoOverlap
  <2> SUFFICES ASSUME CalmInv(w), sj.spec.policy \in {"Forbid", "Replace"}
               PROVE  Cardinality(Running(sj)) <= 1
    BY DEF NoOverlap
  <2>1. \A t, u \in Running(sj) : t = u
    BY CalmFacts DEF Calm, OneGoes, Exclusive, Running, Children, Goes
  <2>2. CASE Running(sj) = {}
    BY <2>2, FS_EmptySet
  <2>3. CASE Running(sj) # {}
    <3>1. PICK t \in Running(sj) : TRUE
      BY <2>3
    <3>2. Running(sj) = {t}
      BY <2>1, <3>1
    <3> QED
      BY <3>2, FS_Singleton
  <2> QED
    BY <2>2, <2>3
<1> QED
  BY <1>1, Calmness, PTL

(* What cleanupFinishedJobs deletes has finished.                          *)
THEOREM SweepSparesWhenUndisturbed ==
  ASSUME Undisturbed, NEW w, Replicas = {w}
  PROVE  Spec => SweepSparesRunning
BY OnceWhenUndisturbed, SweepSpares, PTL
-----------------------------------------------------------------------------
(* One replica in trouble: calls and replies are lost, the process dies,   *)
(* specs are edited.  What it started may then be missing from the record, *)
(* and of the Jobs that lock their names only the latest is left for sure. *)

Steady ==
  /\ LeftAlone
  /\ \A s, q \in Specs : s.schedule = q.schedule /\ s.timezone = q.timezone
  /\ \A s \in Specs : 0 \notin s.keepComplete \cup s.keepFailed

Made(js, t) == js[t].uid > 0
There(js, t) == js[t].state # "Absent"

(* Jobs were started in the order of the instants they are for. *)
InOrder(js) ==
  \A t, u \in Instants : (t < u /\ There(js, t) /\ There(js, u)) => js[t].start <= js[u].start

(* Nothing is started twice, out of order or off schedule, and the latest  *)
(* Job there was is there unless it is on record.                          *)
Starts ==
  /\ InOrder(jobs)
  /\ \A t \in Instants :
       /\ jobs[t].uid <= 1
       /\ Made(jobs, t) => t \in Activations(sj.spec) /\ t <= now
       /\ (Made(jobs, t) /\ \A u \in Instants : Made(jobs, u) => u <= t) => There(jobs, t) \/ t <= sj.lst

(* What a copy refers to is at or behind what it has on record. *)
Noted(o) == \A x \in o.active : x[1] <= o.lst

CopiesNoted(w) ==
  /\ Noted(sj) /\ Noted(cache[w]) /\ Noted(pass[w].held)
  /\ \A i \in 1..Len(log) : Noted(log[i])

(* A pass looks back at all that was started; what it replaces is on       *)
(* record, and what it sweeps has a successor.                             *)
LooksBack(p, s, js) ==
  /\ InOrder(p.js)
  /\ p.pc \in {"sync", "replace", "kill", "create"} => \A t \in Instants : Made(js, t) => t <= p.at
  /\ p.pc \in {"replace", "kill"} => \A x \in p.queue : x[1] <= s.lst
  /\ p.pc = "kill" => p.victim[1] <= s.lst
  /\ p.pc = "sweep" => \A x \in p.queue : \E u \in Instants : Made(js, u) /\ u > x[1]

(* The inductive invariant, w being the replica. *)
TroubleInv(w) == KeepInv(w) /\ RunInv /\ Starts /\ CopiesNoted(w) /\ LooksBack(pass[w], sj, jobs)

LEMMA TroubleFacts ==
  ASSUME NEW w, Replicas = {w}, TroubleInv(w)
  PROVE  /\ w \in Replicas /\ Inv /\ TypeOK /\ OwnInv /\ KeepInv(w) /\ RunInv /\ Single
         /\ pass[w] \in Passes /\ pass[w].held \in Objects /\ cache[w] \in Objects /\ sj \in Objects
         /\ pass[w].js \in [Instants -> Jobs] /\ jobs \in [Instants -> Jobs]
         /\ pass[w].queue \in SUBSET Refs /\ pass[w].victim \in Refs
         /\ sj.lst \in Int /\ now \in Nat /\ Instants \in SUBSET Nat
         /\ \A t \in Instants : jobs[t].uid \in Nat
<1>1. w \in Replicas /\ Inv /\ TypeOK /\ OwnInv /\ KeepInv(w) /\ RunInv /\ Single
  BY KeepFacts DEF TroubleInv, KeepInv, Single
<1> QED
  BY <1>1, KeepFacts, PassFacts, ObjectNumbers, InstantNumbers, Numbers

(* The Job a pass is about to create is later than all there ever were:    *)
(* a later one would have been scheduled in its place, and it was not      *)
(* there itself, for then it would be there or on record.                  *)
LEMMA CreatesTheLatest ==
  ASSUME Steady, NEW w, Replicas = {w}, TroubleInv(w), pass[w].pc = "create",
         ~Exists(ScheduledTime(pass[w].held, pass[w].at))
  PROVE  LET t == ScheduledTime(pass[w].held, pass[w].at)
         IN  /\ t \in Instants /\ t <= now /\ t \in Activations(sj.spec) /\ t > pass[w].held.lst
             /\ \A u \in Instants : Made(jobs, u) => u < t
<1> DEFINE o == pass[w].held
           n == pass[w].at
           t == ScheduledTime(o, n)
<1>1. o.spec.schedule \in Schedules /\ UnmetTimes(o, n) # {} /\ o \in Objects /\ n \in Instants
  BY TroubleFacts, PassFacts DEF Decided
<1>2. Timed(o) /\ n \in Nat
  BY <1>1, ObjectIsTimed, ControllerAssumption DEF Instants
<1>3. /\ t \in Instants /\ t \in UnmetTimes(o, n) /\ t > o.lst /\ t <= n
      /\ \A b \in UnmetTimes(o, n) : b <= t
  <2> HIDE DEF o
  <2> QED
    BY <1>1, <1>2, ScheduledTimeType, ScheduledTimeIsLast
<1>4. Activations(o.spec) = Activations(sj.spec)
  <2>1. o.spec \in Specs /\ sj.spec \in Specs
    BY <1>1, TroubleFacts DEF Objects
  <2> QED
    BY <2>1 DEF Steady, Activations, Location
<1>5. n <= now /\ sj.lst <= o.lst /\ o.lst \in Int
  BY <1>1, TroubleFacts, RunFacts, ObjectNumbers DEF Deciding
<1>6. EarliestTime(o, n) \in Int
  BY <1>2, EarliestTimeBounds
<1>7. ASSUME NEW u \in Instants, Made(jobs, u) PROVE u <= t
  <2> SUFFICES ASSUME u > t PROVE FALSE
    BY <1>3, TroubleFacts
  <2>1. u \in Activations(o.spec) /\ u <= n
    BY <1>4, <1>7, TroubleFacts DEF TroubleInv, Starts, LooksBack
  <2>2. EarliestTime(o, n) < t
    BY <1>3 DEF UnmetTimes
  <2>3. u \in UnmetTimes(o, n)
    BY <1>3, <1>6, <2>1, <2>2, TroubleFacts DEF UnmetTimes
  <2> QED
    BY <1>3, <2>3, TroubleFacts
<1>8. ~Made(jobs, t)
  <2>1. ~There(jobs, t)
    BY DEF Exists, There
  <2>2. ~(t <= sj.lst)
    BY <1>3, <1>5, TroubleFacts
  <2> QED
    BY <1>3, <1>7, <2>1, <2>2 DEF TroubleInv, Starts
<1>9. t <= now /\ t \in Activations(sj.spec)
  <2>1. t \in Nat /\ now \in Nat
    BY <1>3, TroubleFacts
  <2> QED
    BY <1>2, <1>3, <1>4, <1>5, <2>1 DEF UnmetTimes
<1>10. ASSUME NEW u \in Instants, Made(jobs, u) PROVE u < t
  BY <1>3, <1>7, <1>8, <1>10, TroubleFacts
<1> QED
  BY <1>3, <1>9, <1>10

(* A step that starts and deletes no Job. *)
LEMMA SameStarts ==
  ASSUME Steady, NEW w, Replicas = {w}, TroubleInv(w), TypeOK', now' >= now, sj'.lst >= sj.lst,
         \A t \in Instants : /\ jobs'[t].uid = jobs[t].uid /\ jobs'[t].start = jobs[t].start
                             /\ There(jobs', t) = There(jobs, t)
  PROVE  Starts'
<1>1. Activations(sj'.spec) = Activations(sj.spec)
  <2>1. sj'.spec \in Specs /\ sj.spec \in Specs
    BY TroubleFacts DEF TypeOK, Objects
  <2> QED
    BY <2>1 DEF Steady, Activations, Location
<1>2. InOrder(jobs')
  BY DEF TroubleInv, Starts, InOrder
<1>3. \A t \in Instants : Made(jobs', t) = Made(jobs, t)
  BY DEF Made
<1>4. ASSUME NEW t \in Instants, Made(jobs, t)
      PROVE  t \in Activations(sj.spec) /\ t <= now'
  <2>1. t \in Nat /\ now \in Nat /\ now' \in Nat
    BY TroubleFacts, InstantNumbers DEF TypeOK
  <2> QED
    BY <1>4, <2>1 DEF TroubleInv, Starts
<1>5. ASSUME NEW t \in Instants, Made(jobs, t), \A u \in Instants : Made(jobs, u) => u <= t
      PROVE  There(jobs, t) \/ t <= sj'.lst
  <2>1. t \in Nat /\ sj.lst \in Int /\ sj'.lst \in Int
    BY TroubleFacts, InstantNumbers, ObjectNumbers DEF TypeOK
  <2> QED
    BY <1>5, <2>1 DEF TroubleInv, Starts
<1>6. \A t \in Instants : jobs'[t].uid <= 1
  BY DEF TroubleInv, Starts
<1> QED
  BY <1>1, <1>2, <1>3, <1>4, <1>5, <1>6 DEF Starts

(* A Job is deleted that has a successor or is on record. *)
LEMMA DeletedStarts ==
  ASSUME Steady, NEW w, Replicas = {w}, TroubleInv(w), UNCHANGED <<now, sj>>, NEW t \in Instants,
         jobs' = jobs \/ jobs' = Deleted(t),
         t <= sj.lst \/ \E u \in Instants : Made(jobs, u) /\ u > t
  PROVE  Starts' /\ \A u \in Instants : Made(jobs', u) = Made(jobs, u)
<1>1. /\ \A u \in Instants : jobs'[u].uid = jobs[u].uid
      /\ \A u \in Instants \ {t} : jobs'[u] = jobs[u]
      /\ jobs'[t] = jobs[t] \/ ~There(jobs', t)
  BY TroubleFacts DEF Deleted, NoJob, There
<1>2. \A u \in Instants : Made(jobs', u) = Made(jobs, u)
  BY <1>1 DEF Made
<1>3. InOrder(jobs')
  BY <1>1 DEF TroubleInv, Starts, InOrder, There
<1>4. ASSUME NEW u \in Instants, Made(jobs, u), \A x \in Instants : Made(jobs, x) => x <= u
      PROVE  There(jobs', u) \/ u <= sj.lst
  <2>1. CASE u = t
    <3>1. ~ \E x \in Instants : Made(jobs, x) /\ x > t
      BY <1>4, <2>1, TroubleFacts
    <3> QED
      BY <2>1, <3>1
  <2>2. CASE u # t
    BY <1>1, <1>4, <2>2 DEF TroubleInv, Starts, There
  <2> QED
    BY <2>1, <2>2
<1>5. \A u \in Instants : /\ jobs'[u].uid <= 1
                          /\ Made(jobs, u) => u \in Activations(sj.spec) /\ u <= now
  BY <1>1 DEF TroubleInv, Starts
<1> QED
  BY <1>2, <1>3, <1>4, <1>5 DEF Starts

LEMMA CreatedStarts ==
  ASSUME Steady, NEW w, Replicas = {w}, TroubleInv(w), TypeOK', CreateJob(w)
  PROVE  Starts'
<1> DEFINE o == pass[w].held
           t == ScheduledTime(o, pass[w].at)
<1>1. pass[w].pc = "create" /\ UNCHANGED <<now, sj>> /\ (jobs' = jobs \/ (jobs' = Created(t, o) /\ ~Exists(t)))
  BY DEF CreateJob, Admits
<1>2. CASE jobs' = jobs
  BY <1>1, <1>2, TroubleFacts, SameStarts
<1>3. CASE jobs' = Created(t, o) /\ ~Exists(t)
  <2>1. /\ t \in Instants /\ t <= now /\ t \in Activations(sj.spec)
        /\ \A u \in Instants : Made(jobs, u) => u < t
    BY <1>1, <1>3, CreatesTheLatest
  <2>2. jobs[t].uid = 0
    BY <2>1, TroubleFacts DEF Made
  <2> HIDE DEF o, t
  <2>3. /\ jobs'[t].uid = 1 /\ jobs'[t].start = now /\ There(jobs', t)
        /\ \A u \in Instants \ {t} : jobs'[u] = jobs[u]
    BY <1>3, <2>1, <2>2, TroubleFacts DEF Created, There
  <2>4. InOrder(jobs')
    <3> SUFFICES ASSUME NEW u \in Instants, NEW v \in Instants, u < v, There(jobs', u), There(jobs', v)
                 PROVE  jobs'[u].start <= jobs'[v].start
      BY DEF InOrder
    <3>1. CASE u # t /\ v # t
      BY <2>3, <3>1 DEF TroubleInv, Starts, InOrder, There
    <3>2. CASE v = t
      <4>1. u # t /\ jobs'[u] = jobs[u]
        BY <2>1, <2>3, <3>2, TroubleFacts
      <4>2. Seen(jobs[u], sj, jobs[u], now)
        BY TroubleFacts, OwnFacts DEF Listed
      <4> QED
        BY <2>3, <3>2, <4>1, <4>2 DEF Seen
    <3>3. CASE u = t
      <4>1. v # t /\ jobs'[v] = jobs[v]
        BY <2>1, <2>3, <3>3, TroubleFacts
      <4>2. Seen(jobs[v], sj, jobs[v], now) /\ jobs[v].uid \in Nat
        BY TroubleFacts, OwnFacts DEF Listed
      <4>3. Made(jobs, v)
        BY <4>1, <4>2 DEF Seen, There, Made
      <4> QED
        BY <2>1, <3>3, <4>3, TroubleFacts
    <3> QED
      BY <3>1, <3>2, <3>3
  <2>5. ASSUME NEW u \in Instants
        PROVE  /\ jobs'[u].uid <= 1
               /\ Made(jobs', u) => u \in Activations(sj.spec) /\ u <= now /\ (u = t \/ u < t)
    BY <1>1, <2>1, <2>3 DEF TroubleInv, Starts, Made
  <2>6. ASSUME NEW u \in Instants, Made(jobs', u), \A x \in Instants : Made(jobs', x) => x <= u
        PROVE  There(jobs', u)
    <3>1. t <= u
      BY <2>1, <2>3, <2>6 DEF Made
    <3> QED
      BY <2>1, <2>3, <2>5, <2>6, <3>1, TroubleFacts
  <2> QED
    BY <1>1, <2>4, <2>5, <2>6 DEF Starts
<1> QED
  BY <1>1, <1>2, <1>3

LEMMA NotedCopies ==
  ASSUME NEW w, Replicas = {w}, TroubleInv(w)
  PROVE  /\ Noted(NoObject) /\ Noted(Pruned(pass[w].held, pass[w].js))
         /\ \A o \in Objects : Noted(o) => Noted(Stored(o)) /\ Stored(o).active \subseteq o.active
         /\ \A o \in Objects : \A v : Noted(o) => Noted([o EXCEPT !.active = @ \ {v}])
<1>1. Noted(NoObject)
  BY DEF NoObject, Noted
<1>2. Noted(Pruned(pass[w].held, pass[w].js))
  <2> DEFINE h == pass[w].held
             o == Pruned(h, pass[w].js)
  <2>1. h \in Objects /\ Noted(h)
    BY TroubleFacts DEF TroubleInv, CopiesNoted
  <2>2. o.lst = h.lst /\ o.active \subseteq h.active
    BY <2>1 DEF Pruned, Objects
  <2> HIDE DEF o
  <2> QED
    BY <2>1, <2>2 DEF Noted, o
<1>3. ASSUME NEW o \in Objects, Noted(o) PROVE Noted(Stored(o)) /\ Stored(o).active \subseteq o.active
  <2>1. Stored(o).lst = o.lst
    BY TroubleFacts, StoredType
  <2>2. Stored(o).active = o.active
    BY TroubleFacts DEF Stored, Objects
  <2> QED
    BY <1>3, <2>1, <2>2 DEF Noted
<1>4. ASSUME NEW o \in Objects, NEW v, Noted(o) PROVE Noted([o EXCEPT !.active = @ \ {v}])
  <2> DEFINE h == [o EXCEPT !.active = @ \ {v}]
  <2>1. h.lst = o.lst /\ h.active \subseteq o.active
    BY DEF Objects
  <2> HIDE DEF h
  <2> QED
    BY <1>4, <2>1 DEF Noted, h
<1> QED
  BY <1>1, <1>2, <1>3, <1>4

(* The stored object after a step. *)
LEMMA StoredNoted ==
  ASSUME NEW w, Replicas = {w}, TroubleInv(w), [Next]_vars
  PROVE  Noted(sj') /\ LogExtends
<1>1. Noted(sj) /\ sj \in Objects /\ Noted(pass[w].held) /\ Inv
  BY TroubleFacts DEF TroubleInv, CopiesNoted
<1>2. sj' \in Objects
  BY InvPreserved, <1>1 DEF Inv, TypeOK
<1>3. CASE UNCHANGED <<sj, log>>
  BY <1>1, <1>3, LogRests
<1>4. ASSUME NEW o, Publish(o), Noted(o) PROVE Noted(sj') /\ LogExtends
  <2>1. sj' = o /\ (log' = log \/ log' = Append(log, sj'))
    BY <1>4 DEF Publish
  <2> QED
    BY <1>1, <1>2, <1>4, <2>1, LogAppends
<1>5. ASSUME NEW o \in Objects, Noted(o), StatusCallSucceeds(o) \/ StatusCallFails(o)
      PROVE  Noted(sj') /\ LogExtends
  <2>1. CASE Publish(Stored(o))
    BY <1>4, <1>5, <2>1, NotedCopies
  <2> QED
    BY <1>3, <1>5, <2>1 DEF StatusCallSucceeds, StatusCallFails
<1>6. CASE PassStep(w)
  <2>1. CASE SyncStatus(w)
    <3>1. Pruned(pass[w].held, pass[w].js) \in Objects /\ Noted(Pruned(pass[w].held, pass[w].js))
      BY TroubleFacts, PrunedAgrees, NotedCopies
    <3> QED
      BY <1>5, <2>1, <3>1 DEF SyncStatus
  <2>2. CASE RecordStart(w) \/ EndCleanup(w)
    BY <1>1, <1>5, <2>2, TroubleFacts DEF RecordStart, EndCleanup
  <2> QED
    BY <1>3, <1>6, <2>1, <2>2 DEF PassStep, ListJobs, ListTZCronJobs, GetVictim, KillVictim, CreateJob,
       BeginCleanup, Sweep
<1>7. CASE List(w) \/ Deliver(w) \/ Relist(w) \/ Crash(w) \/ Start(w)
  <2>1. sj' = sj
    BY <1>7 DEF List, Deliver, Relist, Receive, Crash, Start
  <2> QED
    BY <1>1, <1>7, <2>1, TroubleFacts, StoreTakes
<1>8. CASE Edit \/ Delete \/ Finalize \/ Recreate
  <2>1. \A s : Noted([sj EXCEPT !.spec = s, !.rv = @ + 1]) /\ Noted([sj EXCEPT !.phase = s, !.rv = @ + 1])
    BY <1>1 DEF Noted, Objects
  <2>2. \A s, v, u : Noted(NewObject(s, v, u))
    BY DEF NewObject, Noted
  <2> QED
    BY <1>4, <1>8, <2>1, <2>2 DEF Edit, Delete, Finalize, Recreate
<1> QED
  BY <1>3, <1>6, <1>7, <1>8 DEF Next, Finish, Reap, Orphan, Collect, Tick, vars

(* The watch and the store after a step of the pass or the informer. *)
LEMMA CopiesNotedOn ==
  ASSUME NEW w, Replicas = {w}, TroubleInv(w), [Next]_vars, Noted(pass'[w].held),
         \/ cache' = cache \/ cache'[w] \in {pass'[w].held, NoObject}
         \/ \E v \in 1..Len(log) : cache'[w] = log[v]
  PROVE  CopiesNoted(w)'
<1>1. Noted(sj') /\ LogExtends /\ w \in Replicas
  BY StoredNoted, TroubleFacts
<1>2. ASSUME NEW i \in 1..Len(log') PROVE Noted(log'[i])
  BY <1>1 DEF LogExtends, TroubleInv, CopiesNoted
<1>3. Noted(cache'[w])
  BY NotedCopies DEF TroubleInv, CopiesNoted
<1> QED
  BY <1>1, <1>2, <1>3 DEF CopiesNoted, Noted

(* The informer fills the store from what was published. *)
LEMMA StoreFilled ==
  ASSUME Inv, NEW w \in Replicas, List(w) \/ Deliver(w) \/ Relist(w) \/ Crash(w) \/ Start(w)
  PROVE  cache' = cache \/ cache'[w] = NoObject \/ \E v \in 1..Len(log) : cache'[w] = log[v]
<1>1. cache \in [Replicas -> Objects]
  BY DEF Inv, TypeOK
<1> QED
  BY <1>1, StoreTakes

LEMMA NothingInOrder == InOrder(Resting.js)
BY DEF Resting, NoJob, InOrder, There

(* Nothing but that is asked of a pass in these states. *)
LEMMA LooksBackAtEase ==
  ASSUME NEW p, InOrder(p.js), p.pc \in {"down", "idle", "listed", "record", "cleanup"}, NEW s, NEW js
  PROVE  LooksBack(p, s, js)
BY DEF LooksBack

LEMMA LooksBackThrough ==
  ASSUME NEW w, Replicas = {w}, TroubleInv(w), TypeOK', sj'.lst >= sj.lst,
         \A t \in Instants : Made(jobs', t) = Made(jobs, t)
  PROVE  LooksBack(pass[w], sj', jobs')
<1>1. sj.lst \in Int /\ sj'.lst \in Int
  BY TroubleFacts, ObjectNumbers DEF TypeOK
<1>2. \A t \in Instants : t \in Nat /\ (t <= sj.lst => t <= sj'.lst)
  BY <1>1, TroubleFacts
<1>3. pass[w].victim[1] \in Instants /\ \A x \in pass[w].queue : x[1] \in Instants
  BY TroubleFacts DEF Refs
<1> QED
  BY <1>2, <1>3 DEF LooksBack, TroubleInv

(* What every step has: nothing recorded is forgotten. *)
LEMMA TroubleMoves ==
  ASSUME Steady, NEW w, Replicas = {w}, TroubleInv(w), [Next]_vars
  PROVE  /\ KeepInv(w)' /\ RunInv' /\ TypeOK' /\ sj'.lst >= sj.lst
         /\ UNCHANGED <<now, jobs>> => Starts'
<1>1. KeepInv(w)' /\ RunInv' /\ TypeOK'
  BY TroubleFacts, KeepAlways, EveryStepRuns DEF Steady, RunInv, Inv
<1>2. sj'.lst >= sj.lst
  <2>1. sj'.uid = sj.uid
    BY <1>1 DEF TroubleInv, KeepInv
  <2>2. CASE UNCHANGED vars
    BY <2>2, TroubleFacts DEF vars
  <2>3. CASE ~UNCHANGED vars
    BY <2>1, <2>3, TroubleFacts, NoStepGoesBack
  <2> QED
    BY <2>2, <2>3
<1>3. UNCHANGED <<now, jobs>> => Starts'
  BY <1>1, <1>2, TroubleFacts, SameStarts
<1> QED
  BY <1>1, <1>2, <1>3

LEMMA RestingTrouble ==
  ASSUME NEW p, p = Resting \/ p = [Resting EXCEPT !.pc = "down"], NEW s, NEW js
  PROVE  Noted(p.held) /\ LooksBack(p, s, js)
<1>1. p.held = NoObject /\ p.js = Resting.js /\ p.pc \in {"idle", "down"}
  BY RestingType DEF Passes
<1>2. Noted(NoObject)
  BY DEF NoObject, Noted
<1> QED
  BY <1>1, <1>2, NothingInOrder, LooksBackAtEase

(* A pass that goes on to the cleanup. *)
LEMMA GoToTrouble ==
  ASSUME NEW w, Replicas = {w}, TroubleInv(w), GoTo(w, "cleanup")
  PROVE  Noted(pass'[w].held) /\ LooksBack(pass'[w], sj', jobs') /\ cache' = cache
<1>1. pass'[w].held = pass[w].held /\ pass'[w].js = pass[w].js /\ pass'[w].pc = "cleanup"
  BY TroubleFacts DEF GoTo, TypeOK, Passes
<1>2. Noted(pass'[w].held)
  BY <1>1 DEF TroubleInv, CopiesNoted
<1>3. LooksBack(pass'[w], sj', jobs')
  BY <1>1, LooksBackAtEase DEF TroubleInv, LooksBack
<1> QED
  BY <1>2, <1>3 DEF GoTo

LEMMA ListingTrouble ==
  ASSUME Steady, NEW w, Replicas = {w}, TroubleInv(w), ListJobs(w) \/ ListTZCronJobs(w)
  PROVE  Starts' /\ CopiesNoted(w)' /\ LooksBack(pass'[w], sj', jobs')
<1>1. UNCHANGED <<now, sj, jobs, cache>> /\ [Next]_vars
  BY TroubleFacts DEF ListJobs, ListTZCronJobs, Next, PassStep
<1>2. Noted(pass'[w].held) /\ LooksBack(pass'[w], sj', jobs')
  <2>1. CASE ListJobs(w)
    <3>1. pass'[w].held = pass[w].held /\ pass'[w].js = jobs /\ pass'[w].pc = "listed"
      BY <2>1, TroubleFacts DEF ListJobs, TypeOK, Passes
    <3> QED
      BY <3>1, LooksBackAtEase DEF TroubleInv, Starts, CopiesNoted
  <2>2. CASE ListTZCronJobs(w) /\ cache[w].phase = "gone"
    BY <2>2, TroubleFacts, RestingTrouble DEF ListTZCronJobs, TypeOK
  <2>3. CASE ListTZCronJobs(w) /\ cache[w].phase # "gone"
    <3>1. /\ pass'[w].held = cache[w] /\ pass'[w].js = pass[w].js /\ pass'[w].pc = "sync"
          /\ pass'[w].at = now
      BY <2>3, TroubleFacts DEF ListTZCronJobs, TypeOK, Passes
    <3> QED
      BY <1>1, <3>1 DEF TroubleInv, Starts, CopiesNoted, LooksBack
  <2> QED
    BY <2>1, <2>2, <2>3
<1> QED
  BY <1>1, <1>2, TroubleMoves, CopiesNotedOn

(* Replace is to delete what is on record in the object just written. *)
LEMMA SyncStatusTrouble ==
  ASSUME Steady, NEW w, Replicas = {w}, TroubleInv(w), SyncStatus(w)
  PROVE  Starts' /\ CopiesNoted(w)' /\ LooksBack(pass'[w], sj', jobs')
<1> DEFINE want == Pruned(pass[w].held, pass[w].js)
           next == Stored(want)
           f == Fenced(w, next)
           g == Refused(w, want)
<1>1. UNCHANGED <<now, jobs>> /\ [Next]_vars /\ pass[w].pc = "sync"
  BY TroubleFacts DEF SyncStatus, Next, PassStep
<1>2. want \in Objects /\ Noted(want) /\ Noted(next)
  BY TroubleFacts, PrunedAgrees, NotedCopies
<1>3. CASE StatusCallSucceeds(want) /\ Mutate(w, f)
  <2>1. pass'[w] = f /\ (cache' = cache \/ cache'[w] = f.held) /\ sj' = next
    BY <1>3, TroubleFacts DEF Mutate, TypeOK, StatusCallSucceeds, Publish
  <2> HIDE DEF want, next
  <2> DEFINE q == IF MayStart(next, pass[w].at) /\ Replaces(next) THEN next.active ELSE {}
             l == IF ~MayStart(next, pass[w].at) THEN "cleanup"
                  ELSE IF Replaces(next) THEN "replace" ELSE "create"
  <2>2. /\ f.held = next /\ f.js = pass[w].js /\ f.at = pass[w].at /\ f.pc = l /\ f.queue = q
    <3>1. f = [pass[w] EXCEPT !.held = next, !.queue = q, !.pc = l]
      BY DEF Fenced
    <3> HIDE DEF q, l
    <3> QED
      BY <3>1, TroubleFacts DEF Passes
  <2>3. l \in {"cleanup", "replace", "create"} /\ \A x \in q : x[1] <= sj'.lst
    BY <1>2, <2>1 DEF Noted
  <2> HIDE DEF f, q, l
  <2>4. LooksBack(f, sj', jobs')
    BY <1>1, <2>2, <2>3 DEF TroubleInv, LooksBack
  <2> QED
    BY <1>1, <1>2, <2>1, <2>2, <2>4, TroubleMoves, CopiesNotedOn
<1>4. CASE Mutate(w, g)
  <2>1. pass'[w] = g /\ (cache' = cache \/ cache'[w] = g.held)
    BY <1>4, TroubleFacts DEF Mutate, TypeOK
  <2> HIDE DEF want
  <2>2. g.held = want /\ g.js = pass[w].js /\ g.pc = "cleanup"
    BY TroubleFacts DEF Refused, Passes
  <2> HIDE DEF g
  <2>3. LooksBack(g, sj', jobs')
    BY <2>2, LooksBackAtEase DEF TroubleInv, LooksBack
  <2> QED
    BY <1>1, <1>2, <2>1, <2>2, <2>3, TroubleMoves, CopiesNotedOn
<1> QED
  BY <1>3, <1>4 DEF SyncStatus

LEMMA ReplaceTrouble ==
  ASSUME Steady, NEW w, Replicas = {w}, TroubleInv(w), GetVictim(w) \/ KillVictim(w)
  PROVE  Starts' /\ CopiesNoted(w)' /\ LooksBack(pass'[w], sj', jobs')
<1>1. UNCHANGED <<now, sj>> /\ [Next]_vars
  BY TroubleFacts DEF GetVictim, KillVictim, Next, PassStep
<1>2. CASE GoTo(w, "cleanup")
  <2>1. Starts'
    <3>1. CASE GetVictim(w)
      BY <1>1, <3>1, TroubleMoves DEF GetVictim
    <3>2. CASE KillVictim(w)
      <4>1. pass[w].victim[1] \in Instants /\ pass[w].victim[1] <= sj.lst
        BY <3>2, TroubleFacts DEF KillVictim, Refs, TroubleInv, LooksBack
      <4> QED
        BY <1>1, <3>2, <4>1, DeletedStarts DEF KillVictim, DeleteCallSucceeds, DeleteCallFails
    <3> QED
      BY <3>1, <3>2
  <2> QED
    BY <1>1, <1>2, <2>1, GoToTrouble, CopiesNotedOn
<1>3. CASE GetVictim(w) /\ ~GoTo(w, "cleanup")
  <2>1. PICK v \in pass[w].queue :
          pass' = [pass EXCEPT ![w].victim = RefTo(jobs, v[1]), ![w].queue = @ \ {v}, ![w].pc = "kill"]
    BY <1>3 DEF GetVictim
  <2>2. pass[w].pc = "replace" /\ UNCHANGED <<jobs, cache>>
    BY <1>3 DEF GetVictim
  <2> DEFINE n == pass'[w]
  <2>3. /\ n.held = pass[w].held /\ n.js = pass[w].js /\ n.at = pass[w].at /\ n.pc = "kill"
        /\ n.queue = pass[w].queue \ {v} /\ n.victim[1] = v[1]
    BY <2>1, TroubleFacts DEF TypeOK, Passes, RefTo
  <2> HIDE DEF n
  <2>4. LooksBack(n, sj', jobs') /\ Noted(n.held)
    BY <1>1, <2>2, <2>3 DEF TroubleInv, LooksBack, CopiesNoted
  <2> QED
    BY <1>1, <2>2, <2>4, TroubleMoves, CopiesNotedOn DEF n
<1>4. CASE KillVictim(w) /\ ~GoTo(w, "cleanup")
  <2> DEFINE v == pass[w].victim
             h == [pass[w].held EXCEPT !.active = @ \ {v}]
             l == IF pass[w].queue = {} THEN "create" ELSE "replace"
             p == [pass[w] EXCEPT !.held.active = @ \ {v}, !.pc = l]
  <2>1. pass[w].pc = "kill" /\ jobs' = Deleted(v[1]) /\ Mutate(w, p)
    BY <1>4 DEF KillVictim, DeleteCallSucceeds
  <2>2. pass'[w] = p /\ (cache' = cache \/ cache'[w] = p.held)
    BY <2>1, TroubleFacts DEF Mutate, TypeOK
  <2>3. p.held = h /\ p.js = pass[w].js /\ p.at = pass[w].at /\ p.pc = l /\ p.queue = pass[w].queue
    BY TroubleFacts DEF Passes
  <2>4. Noted(h)
    BY TroubleFacts, NotedCopies DEF TroubleInv, CopiesNoted
  <2>5. l \in {"create", "replace"}
    OBVIOUS
  <2>6. Starts' /\ \A u \in Instants : Made(jobs', u) = Made(jobs, u)
    <3>1. v[1] \in Instants /\ v[1] <= sj.lst
      BY <2>1, TroubleFacts DEF Refs, TroubleInv, LooksBack
    <3> QED
      BY <1>1, <2>1, <3>1, DeletedStarts
  <2> HIDE DEF p, l, h
  <2>7. LooksBack(p, sj', jobs')
    BY <1>1, <2>1, <2>3, <2>5, <2>6 DEF TroubleInv, LooksBack
  <2> QED
    BY <1>1, <2>2, <2>3, <2>4, <2>6, <2>7, CopiesNotedOn
<1> QED
  BY <1>2, <1>3, <1>4

LEMMA CreateJobTrouble ==
  ASSUME Steady, NEW w, Replicas = {w}, TroubleInv(w), CreateJob(w)
  PROVE  Starts' /\ CopiesNoted(w)' /\ LooksBack(pass'[w], sj', jobs')
<1> DEFINE o == pass[w].held
           t == ScheduledTime(o, pass[w].at)
           x == <<t, jobs[t].uid + 1>>
           h == Started(o, t, x)
           p == [pass[w] EXCEPT !.held = h, !.pc = "record"]
<1>1. UNCHANGED <<now, sj>> /\ [Next]_vars /\ pass[w].pc = "create"
  BY TroubleFacts DEF CreateJob, Next, PassStep
<1>2. Starts'
  BY <1>1, TroubleMoves, CreatedStarts
<1>3. CASE GoTo(w, "cleanup")
  BY <1>1, <1>2, <1>3, GoToTrouble, CopiesNotedOn
<1>4. CASE Mutate(w, p) /\ ~Exists(t)
  <2>1. pass'[w] = p /\ (cache' = cache \/ cache'[w] = p.held)
    BY <1>4, TroubleFacts DEF Mutate, TypeOK
  <2>2. p.held = h /\ p.js = pass[w].js /\ p.pc = "record"
    BY TroubleFacts DEF Passes
  <2>3. t \in Instants /\ t > o.lst
    BY <1>1, <1>4, CreatesTheLatest
  <2>4. h.lst = t /\ h.active = o.active \cup {x} /\ o.lst \in Int /\ Noted(o)
        /\ \A y \in o.active : y[1] \in Instants
    <3>1. o \in Objects
      BY TroubleFacts
    <3>2. Noted(o)
      BY DEF TroubleInv, CopiesNoted
    <3> HIDE DEF o, t, x
    <3>3. h.lst = t /\ h.active = o.active \cup {x}
      BY <3>1 DEF Started, Objects
    <3>4. o.lst \in Int /\ o.active \subseteq Refs
      BY <3>1, ObjectNumbers DEF Objects
    <3>5. \A y \in Refs : y[1] \in Instants
      BY DEF Refs
    <3> QED
      BY <3>2, <3>3, <3>4, <3>5
  <2>5. x[1] = t
    OBVIOUS
  <2> HIDE DEF p, h, x, t, o
  <2>6. Noted(h)
    BY <2>3, <2>4, <2>5, TroubleFacts DEF Noted
  <2>7. LooksBack(p, sj', jobs')
    BY <2>2, LooksBackAtEase DEF TroubleInv, LooksBack
  <2> QED
    BY <1>1, <1>2, <2>1, <2>2, <2>6, <2>7, CopiesNotedOn
<1> QED
  BY <1>3, <1>4 DEF CreateJob, Admits

(* Of the Jobs listed as finished one way the last is not swept, for some  *)
(* are to remain, and the others were started for earlier instants.        *)
LEMMA SweptHaveSuccessors ==
  ASSUME Steady, NEW w, Replicas = {w}, TroubleInv(w), NEW x \in ToSweep(pass[w].held, pass[w].js)
  PROVE  \E u \in Instants : Made(jobs, u) /\ u > x[1]
<1> DEFINE js == pass[w].js
           o == pass[w].held
           F(how) == Finished(js, o, how)
<1>1. PICK t \in Instants, how \in Over, n \in o.spec.keepComplete \cup o.spec.keepFailed :
        x = RefTo(js, t) /\ t \in OldestOf(js, F(how), Cardinality(F(how)) - n)
  <2>1. PICK t \in Excess(js, F("Complete"), o.spec.keepComplete)
                   \cup Excess(js, F("Failed"), o.spec.keepFailed) : x = RefTo(js, t)
    BY DEF ToSweep
  <2>2. \A S, limit : Excess(js, S, limit) \subseteq S
    BY DEF Excess, OldestOf
  <2>3. t \in Instants
    BY <2>1, <2>2 DEF Finished, Children
  <2>4. \E how \in Over, n \in o.spec.keepComplete \cup o.spec.keepFailed :
          t \in OldestOf(js, F(how), Cardinality(F(how)) - n)
    BY <2>1 DEF Excess, Over
  <2> QED
    BY <2>1, <2>3, <2>4
<1>2. n \in Nat /\ n # 0 /\ x[1] = t
  <2>1. o.spec \in Specs
    BY TroubleFacts DEF Objects
  <2>2. n \in Nat /\ n # 0
    BY <2>1, ControllerAssumption DEF Steady, Optional
  <2> QED
    BY <1>1, <2>2 DEF RefTo
<1>3. F(how) \in SUBSET Instants /\ js \in [Instants -> Jobs] /\ \A u \in F(how) : There(js, u)
      /\ InOrder(js) /\ t \in F(how)
  BY <1>1, TroubleFacts DEF Finished, Children, There, OldestOf, TroubleInv, LooksBack
<1> HIDE DEF js, o, F
<1>4. Cardinality({u \in F(how) : Before(js, t, u)}) >= n
  BY <1>1, <1>2, <1>3, NewerRemain
<1>5. PICK u \in F(how) : Before(js, t, u)
  <2>1. {u \in F(how) : Before(js, t, u)} # {}
    BY <1>2, <1>4, FS_EmptySet
  <2> QED
    BY <2>1
<1>6. u \in Instants /\ There(js, t) /\ There(js, u) /\ u \in Nat /\ t \in Nat
      /\ js[t].start \in Nat /\ js[u].start \in Nat
  BY <1>1, <1>3, <1>5, TroubleFacts DEF Jobs
<1>7. u > t
  <2>1. CASE u = t
    BY <1>5, <1>6, <2>1 DEF Before
  <2>2. CASE u < t
    BY <1>1, <1>3, <1>5, <1>6, <2>2 DEF Before, InOrder
  <2> QED
    BY <1>6, <2>1, <2>2
<1>8. Made(jobs, u)
  <2>1. Seen(js[u], sj, jobs[u], now) /\ js[u].uid \in Nat /\ jobs[u].uid \in Nat
    BY <1>3, <1>6, TroubleFacts, OwnFacts DEF Listed, js, Jobs
  <2> QED
    BY <1>6, <2>1 DEF Seen, There, Made
<1> QED
  BY <1>2, <1>6, <1>7, <1>8

LEMMA CleanupTrouble ==
  ASSUME Steady, NEW w, Replicas = {w}, TroubleInv(w), RecordStart(w) \/ BeginCleanup(w) \/ EndCleanup(w)
  PROVE  Starts' /\ CopiesNoted(w)' /\ LooksBack(pass'[w], sj', jobs')
<1>1. UNCHANGED <<now, jobs, cache>> /\ [Next]_vars
  BY TroubleFacts DEF RecordStart, BeginCleanup, EndCleanup, GoTo, Next, PassStep
<1>2. CASE RecordStart(w)
  BY <1>1, <1>2, TroubleMoves, GoToTrouble, CopiesNotedOn DEF RecordStart
<1>3. CASE pass' = [pass EXCEPT ![w] = Resting]
  <2>1. pass'[w] = Resting
    BY <1>3, TroubleFacts DEF TypeOK
  <2> QED
    BY <1>1, <2>1, RestingTrouble, TroubleMoves, CopiesNotedOn
<1>4. CASE BeginCleanup(w) /\ pass' # [pass EXCEPT ![w] = Resting]
  <2> DEFINE S == ToSweep(pass[w].held, pass[w].js)
             n == pass'[w]
  <2>1. pass' = [pass EXCEPT ![w] = [pass[w] EXCEPT !.pc = "sweep", !.queue = S]]
    BY <1>4, TroubleFacts DEF BeginCleanup, TypeOK
  <2>2. n.pc = "sweep" /\ n.js = pass[w].js /\ n.held = pass[w].held /\ n.queue = S
    BY <2>1, TroubleFacts DEF TypeOK, Passes
  <2>3. \A x \in S : \E u \in Instants : Made(jobs, u) /\ u > x[1]
    BY SweptHaveSuccessors
  <2> HIDE DEF n, S
  <2>4. LooksBack(n, sj', jobs') /\ Noted(n.held)
    BY <1>1, <2>2, <2>3 DEF TroubleInv, LooksBack, CopiesNoted
  <2> QED
    BY <1>1, <2>4, TroubleMoves, CopiesNotedOn DEF n
<1> QED
  BY <1>2, <1>3, <1>4 DEF EndCleanup

LEMMA SweepTrouble ==
  ASSUME Steady, NEW w, Replicas = {w}, TroubleInv(w), Sweep(w)
  PROVE  Starts' /\ CopiesNoted(w)' /\ LooksBack(pass'[w], sj', jobs')
<1>1. PICK v \in pass[w].queue :
        \/ /\ DeleteCallSucceeds(v[1])
           /\ Mutate(w, [pass[w] EXCEPT !.held.active = @ \ {v}, !.queue = @ \ {v}])
        \/ /\ DeleteCallFails(v[1])
           /\ pass' = [pass EXCEPT ![w].queue = @ \ {v}]
           /\ UNCHANGED cache
  BY DEF Sweep
<1>2. UNCHANGED <<now, sj>> /\ [Next]_vars /\ pass[w].pc = "sweep" /\ v[1] \in Instants
  <2>1. UNCHANGED <<now, sj>> /\ pass[w].pc = "sweep"
    BY DEF Sweep
  <2>2. w \in Replicas /\ pass[w].queue \subseteq Refs
    BY TroubleFacts
  <2>3. [Next]_vars
    BY <2>2 DEF Next, PassStep
  <2>4. \A y \in Refs : y[1] \in Instants
    BY DEF Refs
  <2> QED
    BY <2>1, <2>2, <2>3, <2>4
<1>3. Starts' /\ \A u \in Instants : Made(jobs', u) = Made(jobs, u)
  <2>1. \E u \in Instants : Made(jobs, u) /\ u > v[1]
    BY <1>2 DEF TroubleInv, LooksBack
  <2>2. jobs' = jobs \/ jobs' = Deleted(v[1])
    BY <1>1 DEF DeleteCallSucceeds, DeleteCallFails
  <2> QED
    BY <1>2, <2>1, <2>2, DeletedStarts
<1> DEFINE h == [pass[w].held EXCEPT !.active = @ \ {v}]
           p == [pass[w] EXCEPT !.held.active = @ \ {v}, !.queue = @ \ {v}]
           q == [pass[w] EXCEPT !.queue = @ \ {v}]
<1>4. \/ pass'[w] = p /\ (cache' = cache \/ cache'[w] = p.held)
      \/ pass'[w] = q /\ cache' = cache
  BY <1>1, TroubleFacts DEF Mutate, TypeOK
<1>5. /\ p.held = h /\ p.js = pass[w].js /\ p.pc = "sweep" /\ p.queue \subseteq pass[w].queue
      /\ q.held = pass[w].held /\ q.js = pass[w].js /\ q.pc = "sweep" /\ q.queue \subseteq pass[w].queue
  BY <1>2, TroubleFacts DEF Passes
<1>6. Noted(h) /\ Noted(pass[w].held)
  BY TroubleFacts, NotedCopies DEF TroubleInv, CopiesNoted
<1> HIDE DEF h, p, q
<1>7. LooksBack(p, sj', jobs') /\ LooksBack(q, sj', jobs')
  BY <1>2, <1>3, <1>5 DEF TroubleInv, LooksBack
<1> QED
  BY <1>2, <1>3, <1>4, <1>5, <1>6, <1>7, CopiesNotedOn

LEMMA OthersTrouble ==
  ASSUME Steady, NEW w, Replicas = {w}, TroubleInv(w),
         \/ List(w) \/ Deliver(w) \/ Relist(w) \/ Crash(w) \/ Start(w)
         \/ \E t \in Instants : Finish(t) \/ Reap(t) \/ Orphan(t) \/ Collect(t)
         \/ Tick \/ Edit \/ Delete \/ Finalize \/ Recreate \/ UNCHANGED vars
  PROVE  Starts' /\ CopiesNoted(w)' /\ LooksBack(pass'[w], sj', jobs')
<1>1. [Next]_vars /\ TypeOK' /\ sj'.lst >= sj.lst /\ now' >= now
  <2>1. [Next]_vars
    BY TroubleFacts DEF Next
  <2>2. now' = now \/ now' = now + 1
    BY DEF List, Deliver, Relist, Receive, Crash, Start, Finish, Reap, Orphan, Collect, Tick, Edit, Delete, Finalize, Recreate, vars
  <2> QED
    BY <2>1, <2>2, TroubleFacts, TroubleMoves
<1>2. \A t \in Instants : ~Reap(t) /\ ~Orphan(t) /\ ~Collect(t)
  <2>1. ~Spend("reap")
    BY TroubleFacts DEF Steady, LeftAlone, Spend, TypeOK, Events
  <2> QED
    BY <2>1 DEF TroubleInv, KeepInv, Reap, Orphan, Collect
<1>3. \A t \in Instants : /\ jobs'[t].uid = jobs[t].uid /\ jobs'[t].start = jobs[t].start
                          /\ There(jobs', t) = There(jobs, t)
  <2>1. CASE jobs' = jobs
    BY <2>1 DEF There
  <2>2. CASE \E t \in Instants : Finish(t)
    <3>1. PICK t \in Instants, how \in Outcomes :
            jobs[t].state = "Running" /\ jobs' = [jobs EXCEPT ![t].state = how] /\ how # "Absent"
      BY <2>2, ControllerAssumption DEF Finish
    <3>2. /\ jobs'[t].uid = jobs[t].uid /\ jobs'[t].start = jobs[t].start /\ jobs'[t].state = how
          /\ \A u \in Instants \ {t} : jobs'[u] = jobs[u]
      BY <3>1, TroubleFacts DEF Jobs
    <3> QED
      BY <3>1, <3>2 DEF There
  <2> QED
    BY <1>2, <2>1, <2>2 DEF List, Deliver, Relist, Receive, Crash, Start, Tick, Edit, Delete, Finalize, Recreate, vars
<1>4. Starts'
  BY <1>1, <1>3, SameStarts
<1>5. LooksBack(pass[w], sj', jobs')
  BY <1>1, <1>3, LooksBackThrough DEF Made
<1>6. CASE UNCHANGED <<pass, cache>>
  BY <1>1, <1>4, <1>5, <1>6, CopiesNotedOn DEF TroubleInv, CopiesNoted
<1>7. ASSUME List(w) \/ Deliver(w) \/ Relist(w) \/ Crash(w) \/ Start(w)
      PROVE  cache' = cache \/ cache'[w] = NoObject \/ \E v \in 1..Len(log) : cache'[w] = log[v]
  BY <1>7, TroubleFacts, StoreFilled
<1>8. CASE List(w) \/ Deliver(w) \/ Relist(w)
  <2> DEFINE n == pass'[w]
  <2>1. /\ n.pc = pass[w].pc /\ n.js = pass[w].js /\ n.queue = pass[w].queue /\ n.at = pass[w].at
        /\ n.victim = pass[w].victim /\ n.held = pass[w].held
    BY <1>8, TroubleFacts DEF List, Deliver, Relist, Receive, TypeOK, Passes
  <2> HIDE DEF n
  <2>2. LooksBack(n, sj', jobs') /\ Noted(n.held)
    BY <1>5, <2>1 DEF LooksBack, TroubleInv, CopiesNoted
  <2> QED
    BY <1>1, <1>4, <1>8, <1>7, <2>2, CopiesNotedOn DEF n
<1>9. CASE Crash(w) \/ Start(w)
  <2>1. pass'[w] = [Resting EXCEPT !.pc = "down"] \/ pass'[w] = Resting
    BY <1>9, TroubleFacts DEF Crash, Start, TypeOK
  <2> QED
    BY <1>1, <1>4, <1>9, <1>7, <2>1, RestingTrouble, CopiesNotedOn
<1> QED
  BY <1>6, <1>8, <1>9 DEF Finish, Reap, Orphan, Collect, Tick, Edit, Delete, Finalize, Recreate, vars

LEMMA TroubleInitially == ASSUME NEW w, Replicas = {w}, Init PROVE TroubleInv(w)
<1>1. KeepInv(w) /\ RunInv
  BY KeptInitially, RunInvInitially
<1>2. PICK s \in Specs : sj = NewObject(s, 1, 1)
  BY DEF Init
<1>3. Starts
  <2>1. \A t \in Instants : ~Made(jobs, t) /\ jobs[t].uid = 0 /\ ~There(jobs, t)
    BY DEF Init, NoJob, Made, There
  <2> QED
    BY <2>1 DEF Starts, InOrder
<1>4. pass[w] = [Resting EXCEPT !.pc = "down"] /\ cache[w] = NoObject /\ log = <<sj>>
  BY DEF Init
<1>5. Noted(pass[w].held) /\ LooksBack(pass[w], sj, jobs)
  BY <1>4, RestingTrouble
<1>6. Noted(sj) /\ Noted(NoObject)
  BY <1>2 DEF NewObject, Noted, NoObject
<1>7. \A i \in 1..Len(log) : Noted(log[i])
  BY <1>4, <1>6
<1> QED
  BY <1>1, <1>3, <1>4, <1>5, <1>6, <1>7 DEF TroubleInv, CopiesNoted

LEMMA TroubleAlways == ASSUME Steady, NEW w, Replicas = {w}, TroubleInv(w), [Next]_vars PROVE TroubleInv(w)'
<1>1. KeepInv(w)' /\ RunInv'
  BY TroubleMoves
<1>2. Starts' /\ CopiesNoted(w)' /\ LooksBack(pass'[w], sj', jobs')
  <2>1. CASE PassStep(w)
    BY <2>1, ListingTrouble, SyncStatusTrouble, ReplaceTrouble, CreateJobTrouble, CleanupTrouble,
       SweepTrouble DEF PassStep
  <2>2. CASE ~PassStep(w)
    BY <2>2, OthersTrouble DEF Next
  <2> QED
    BY <2>1, <2>2
<1>3. LooksBack(pass'[w], sj', jobs') = LooksBack(pass[w], sj, jobs)'
  BY DEF LooksBack, InOrder, There, Made
<1> QED
  BY <1>1, <1>2, <1>3 DEF TroubleInv

(* One replica never runs a scheduled time twice, whichever calls or       *)
(* replies are lost, whenever the process dies and whatever is edited but  *)
(* the schedule and its time zone: provided that history limits are not    *)
(* zero and that Jobs are deleted by the controller alone.  (With a limit  *)
(* of zero it may: run_twice_after_crash.)                                 *)
THEOREM OnceDespiteTrouble ==
  ASSUME Steady, NEW w, Replicas = {w}
  PROVE  Spec => []RunAtMostOnce
<1>1. Init => TroubleInv(w)
  BY TroubleInitially
<1>2. TroubleInv(w) /\ [Next]_vars => TroubleInv(w)'
  BY TroubleAlways
<1>3. TroubleInv(w) => RunAtMostOnce
  BY DEF TroubleInv, Starts, RunAtMostOnce
<1> QED
  BY <1>1, <1>2, <1>3, PTL DEF Spec
=============================================================================
