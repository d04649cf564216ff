---------------------------- MODULE UpdateTZProofs ----------------------------
(***************************************************************************)
(* What the database is worth while it is replaced in use, for any zones,  *)
(* releases, settings and amount of trouble.                               *)
(*                                                                         *)
(* The order of updatetz.sh (files, version, sweep) is the invariant: of   *)
(* the release that is being unpacked every file is there and fresh, or    *)
(* still to do.  A file that was taken away and not written is either the  *)
(* one in work or was left by a step that failed.                          *)
(*                                                                         *)
(* The delay between two tries is computed with powers of two in integers  *)
(* that overflow.  What Power is worth follows from its recursion by the   *)
(* least counterexample.  A delay that was slept fits the integers; so the *)
(* next, which is at most twice as long, is exact or negative (Pace).      *)
(***************************************************************************)
EXTENDS UpdateTZ, FiniteSetTheorems, NaturalsInduction, WellFoundedInduction, TLAPS

Phases == {"down", "check", "fetch", "unpack", "write", "stamp", "sweep", "ok", "backoff"}
Installing == {"unpack", "write", "stamp", "sweep"}

Types ==
  /\ upstream \in Releases /\ version \in {Absent} \cup Releases
  /\ db \in [Files -> {Cut, Absent} \cup Releases]
  /\ fresh \in SUBSET Files /\ up \in BOOLEAN /\ trouble \in 0..Trouble

BoxTypes ==
  /\ DOMAIN box = {"role", "pc", "got", "todo", "file", "failures", "delay"}
  /\ box.pc \in Phases
  /\ box.got \in {Absent} \cup Releases
  /\ box.todo \in SUBSET Files /\ box.file \in SUBSET Files

(* The file in work is there only within a write, and is a single one. *)
InWork ==
  IF box.pc = "write" THEN \E f \in Files : box.file = {f} ELSE box.file = {}

Unpacking ==
  box.pc \in Installing =>
    /\ box.got \in Releases /\ box.got <= upstream
    /\ \A f \in Release[box.got] :
         f \in box.todo \cup box.file \/ (db[f] = box.got /\ f \in fresh)
    /\ box.pc \in {"stamp", "sweep"} => box.todo = {}

Versions ==
  /\ version <= upstream
  /\ box.pc \in {"fetch", "unpack", "write"} => version < upstream
  /\ box.pc = "stamp" => version = Absent
  /\ box.pc = "sweep" => version = box.got

Missing == {f \in Lasting : ~Located(f)}

Installed ==
  /\ box.pc = "ok" => Missing = {}
  /\ up => Cardinality(Missing \ box.file) <= Trouble - trouble

(* The inductive invariant. *)
Inv == Types /\ BoxTypes /\ InWork /\ Unpacking /\ Versions /\ CompleteIfCurrent /\ Installed
-----------------------------------------------------------------------------
LEMMA ReleaseNumbers ==
  /\ Releases \in SUBSET (Nat \ {0}) /\ Absent \notin Releases /\ Cut \notin Releases
  /\ 1 \in Releases
BY UpdateTZAssumption DEF Absent, Cut

LEMMA ReleasesArePositive == \A v \in Releases : v > 0
BY UpdateTZAssumption

LEMMA VersionNumbers == Types => version \in Nat /\ upstream \in Nat
BY ReleaseNumbers DEF Types, Absent

LEMMA TroubleNumbers == Types => trouble \in Nat /\ Trouble \in Nat /\ trouble <= Trouble
<1>1. Trouble \in Nat
  BY UpdateTZAssumption
<1> QED
  BY <1>1 DEF Types

LEMMA MissingIsFinite ==
  /\ Missing \in SUBSET Files
  /\ \A S \in SUBSET Files : IsFiniteSet(S) /\ Cardinality(S) \in Nat
<1>1. \A S \in SUBSET Files : IsFiniteSet(S)
  BY FS_Subset, UpdateTZAssumption
<1> QED
  BY <1>1, FS_CardinalityType DEF Missing, Lasting

LEMMA FewerMissing ==
  ASSUME NEW S \in SUBSET Files, NEW T \in SUBSET S
  PROVE  Cardinality(T) \in Nat /\ Cardinality(S) \in Nat /\ Cardinality(T) <= Cardinality(S)
BY FS_Subset, MissingIsFinite

LEMMA OneMoreMissing ==
  ASSUME InWork
  PROVE  /\ Cardinality(Missing) <= Cardinality(Missing \ box.file) + 1
         /\ Cardinality(Missing) \in Nat /\ Cardinality(Missing \ box.file) \in Nat
<1>1. IsFiniteSet(Missing) /\ Cardinality(Missing) \in Nat
  BY MissingIsFinite
<1>2. CASE box.file = {}
  <2>1. Missing \ box.file = Missing
    BY <1>2
  <2> QED
    BY <1>1, <2>1
<1>3. CASE \E f \in Files : box.file = {f}
  <2>1. PICK f \in Files : box.file = {f}
    BY <1>3
  <2>2. Cardinality(Missing \ {f}) = IF f \in Missing THEN Cardinality(Missing) - 1 ELSE Cardinality(Missing)
    BY <1>1, FS_RemoveElement
  <2>3. Cardinality(Missing \ {f}) \in Nat
    BY MissingIsFinite
  <2> QED
    BY <1>1, <2>1, <2>2, <2>3
<1> QED
  BY <1>1, <1>2, <1>3 DEF InWork

(* A release that is complete has every zone that lasts. *)
LEMMA CompleteHasAll ==
  ASSUME Types, NEW v \in Releases, \A f \in Release[v] : db[f] = v
  PROVE  Missing = {}
BY ReleaseNumbers DEF Missing, Lasting, Located
-----------------------------------------------------------------------------
(* The arithmetic of the backoff.                                          *)

(* Induction without an operator as a parameter: a set that has 0 and with *)
(* each number the next has all of them.                                   *)
LEMMA Induction ==
  ASSUME NEW S, 0 \in S, \A n \in Nat : n \in S => n + 1 \in S
  PROVE  \A n \in Nat : n \in S
<1> DEFINE R == OpToRel(<, Nat)
           T == Nat \ S
<1> SUFFICES ASSUME T # {} PROVE FALSE
  OBVIOUS
<1>1. PICK x \in T : \A y \in T : <<y, x>> \notin R
  <2>1. IsWellFoundedOn(R, Nat)
    BY NatLessThanWellFounded
  <2> HIDE DEF R
  <2> QED
    BY <2>1, WFMin
<1>2. x - 1 \in Nat /\ x - 1 + 1 = x /\ x - 1 < x
  OBVIOUS
<1>3. <<x - 1, x>> \in R
  BY <1>2 DEF OpToRel
<1> QED
  BY <1>1, <1>2, <1>3

(* The tables of the powers up to the N-th. *)
Partial(N) == {g \in [0..N -> Nat] : g[0] = 1 /\ \A n \in 1..N : g[n] = 2 * g[n - 1]}

LEMMA PartialFacts ==
  ASSUME NEW N \in Nat, NEW g \in Partial(N)
  PROVE  /\ g[0] = 1 /\ \A n \in 0..N : g[n] \in Nat
         /\ \A n \in 1..N : g[n] = 2 * g[n - 1]
BY DEF Partial

LEMMA PartialExists == \A N \in Nat : Partial(N) # {}
<1> DEFINE S == {N \in Nat : Partial(N) # {}}
<1>1. 0 \in S
  <2>1. [n \in 0..0 |-> 1] \in Partial(0)
    BY DEF Partial
  <2> QED
    BY <2>1
<1>2. ASSUME NEW N \in Nat, N \in S PROVE N + 1 \in S
  <2>1. PICK g : g \in Partial(N)
    BY <1>2
  <2> DEFINE h == [n \in 0..(N + 1) |-> IF n = N + 1 THEN 2 * g[N] ELSE g[n]]
  <2>2. h \in [0..(N + 1) -> Nat] /\ h[0] = 1
    BY <2>1 DEF Partial
  <2>3. ASSUME NEW n \in 1..(N + 1) PROVE h[n] = 2 * h[n - 1]
    BY <2>1 DEF Partial
  <2>4. h \in Partial(N + 1)
    BY <2>2, <2>3 DEF Partial
  <2> QED
    BY <2>4
<1> HIDE DEF S
<1>3. \A N \in Nat : N \in S
  BY <1>1, <1>2, Induction
<1> QED
  BY <1>3 DEF S

LEMMA PartialUnique ==
  ASSUME NEW M \in Nat, NEW N \in Nat, NEW g \in Partial(M), NEW h \in Partial(N)
  PROVE  \A n \in 0..M \cap 0..N : g[n] = h[n]
<1> DEFINE S == {n \in Nat : n \in 0..M \cap 0..N => g[n] = h[n]}
<1>1. 0 \in S
  BY DEF Partial
<1>2. ASSUME NEW n \in Nat, n \in S PROVE n + 1 \in S
  BY <1>2 DEF Partial
<1> HIDE DEF S
<1>3. \A n \in Nat : n \in S
  BY <1>1, <1>2, Induction
<1> QED
  BY <1>3 DEF S

(* The powers of two satisfy their recursive definition (docker-entrypoint *)
(* .sh: 2 ** n).                                                           *)
LEMMA PowerDoubles ==
  /\ Power[0] = 1
  /\ \A n \in Nat : Power[n] \in Nat /\ Power[n + 1] = 2 * Power[n]
<1> DEFINE part(n) == CHOOSE g : g \in Partial(n)
           F == [n \in Nat |-> part(n)[n]]
<1>1. \A n \in Nat : part(n) \in Partial(n)
  BY PartialExists
<1>2. F[0] = 1 /\ \A n \in Nat : F[n] \in Nat
  <2> HIDE DEF part
  <2>1. \A n \in Nat : part(n)[0] = 1 /\ part(n)[n] \in Nat
    BY <1>1, PartialFacts
  <2> QED
    BY <2>1
<1>3. ASSUME NEW n \in Nat PROVE F[n + 1] = 2 * F[n]
  <2>1. part(n) \in Partial(n) /\ part(n + 1) \in Partial(n + 1)
    BY <1>1
  <2>2. part(n + 1)[n] = part(n)[n]
    <3>1. n \in 0..(n + 1) \cap 0..n
      OBVIOUS
    <3> HIDE DEF part
    <3> QED
      BY <2>1, <3>1, PartialUnique
  <2>3. part(n + 1)[n + 1] = 2 * part(n + 1)[n]
    <3> HIDE DEF part
    <3>1. n + 1 \in 1..(n + 1) /\ (n + 1) - 1 = n
      OBVIOUS
    <3> QED
      BY <2>1, <3>1, PartialFacts
  <2> QED
    BY <2>2, <2>3
<1> DEFINE G(f) == [n \in Nat |-> IF n = 0 THEN 1 ELSE 2 * f[n - 1]]
<1>4. F = G(F)
  <2>1. ASSUME NEW n \in Nat PROVE F[n] = G(F)[n]
    <3>1. CASE n = 0
      BY <3>1, <1>2
    <3>2. CASE n # 0
      <4>1. n - 1 \in Nat /\ n = (n - 1) + 1
        BY <3>2
      <4>2. F[n] = 2 * F[n - 1]
        BY <1>3, <4>1
      <4> QED
        BY <3>2, <4>2
    <3> QED
      BY <3>1, <3>2
  <2> QED
    BY <2>1
<1>5. Power = G(Power)
  <2>1. Power = CHOOSE f : f = G(f)
    BY DEF Power
  <2> HIDE DEF G, F
  <2> QED
    BY <1>4, <2>1
<1>6. \A n \in Nat : Power[n] = IF n = 0 THEN 1 ELSE 2 * Power[n - 1]
  <2> HIDE DEF F
  <2> QED
    BY <1>5
<1>7. Power[0] = 1 /\ \A n \in Nat : Power[n + 1] = 2 * Power[n]
  BY <1>6
<1> DEFINE S == {n \in Nat : Power[n] \in Nat}
<1>8. 0 \in S
  BY <1>7
<1>9. ASSUME NEW n \in Nat, n \in S PROVE n + 1 \in S
  BY <1>7, <1>9
<1> HIDE DEF S
<1>10. \A n \in Nat : n \in S
  BY <1>8, <1>9, Induction
<1> QED
  BY <1>7, <1>10 DEF S

Half == Power[Width - 1]

LEMMA HalfNumbers ==
  /\ Half \in Nat /\ Half > 0 /\ Power[Width] = 2 * Half
  /\ \A n \in Nat : Power[n] > 0
<1> DEFINE S == {n \in Nat : Power[n] > 0}
<1>1. 0 \in S
  BY PowerDoubles
<1>2. ASSUME NEW n \in Nat, n \in S PROVE n + 1 \in S
  <2>1. Power[n] \in Nat /\ Power[n] > 0 /\ Power[n + 1] = 2 * Power[n]
    BY <1>2, PowerDoubles
  <2> QED
    BY <2>1
<1> HIDE DEF S
<1>3. \A n \in Nat : n \in S
  BY <1>1, <1>2, Induction
<1>4. \A n \in Nat : Power[n] > 0
  BY <1>3 DEF S
<1>5. Width - 1 \in Nat /\ (Width - 1) + 1 = Width
  BY UpdateTZAssumption
<1> QED
  BY <1>4, <1>5, PowerDoubles DEF Half

(* What fits is kept; what is too large by less than twice turns negative. *)
LEMMA WrapOnce ==
  ASSUME NEW x \in Int
  PROVE  /\ -Half <= x /\ x < Half => Wrap(x) = x
         /\ Half <= x /\ x < 2 * Half => Wrap(x) = x - 2 * Half
<1> DEFINE H == Half
<1>1. H \in Nat /\ H > 0 /\ Wrap(x) = ((x + H) % (2 * H)) - H
  BY HalfNumbers DEF Wrap, Half
<1> HIDE DEF H
<1>2. ASSUME -H <= x, x < H PROVE (x + H) % (2 * H) = x + H
  BY <1>1, <1>2
<1>3. ASSUME H <= x, x < 2 * H PROVE (x + H) % (2 * H) = x - H
  BY <1>1, <1>3
<1> QED
  BY <1>1, <1>2, <1>3 DEF H

(* As long as the delay before it fits, the next one is exact or negative. *)
LEMMA ExactOrNegative ==
  ASSUME NEW b \in Nat \ {0}, b < Half, NEW k \in Nat,
         k > 0 => b * Power[k - 1] < Half
  PROVE  /\ b * Power[k] \in Nat /\ Wrap(b * Wrap(Power[k])) \in Int
         /\ b * Power[k] < Half => Wrap(b * Wrap(Power[k])) = b * Power[k]
         /\ b * Power[k] >= Half => Wrap(b * Wrap(Power[k])) < 0
<1> DEFINE p == Power[k]
           e == b * p
<1>1. p \in Nat /\ p > 0 /\ Half \in Nat /\ Half > 0
  BY PowerDoubles, HalfNumbers
<1>2. e \in Nat /\ p <= e /\ (b = 1 => e = p) /\ (b # 1 => 2 * p <= e)
  <2> HIDE DEF p
  <2>1. CASE b = 1
    BY <1>1, <2>1
  <2>2. CASE b # 1
    <3>1. b - 2 \in Nat /\ e = (b - 2) * p + 2 * p
      BY <1>1, <2>2
    <3>2. (b - 2) * p \in Nat
      BY <1>1, <3>1
    <3> QED
      BY <1>1, <2>2, <3>1, <3>2
  <2> QED
    BY <2>1, <2>2
<1>3. e < 2 * Half
  <2>1. CASE k = 0
    <3>1. e = b
      BY <2>1, PowerDoubles
    <3> QED
      BY <1>1, <3>1
  <2>2. CASE k > 0
    <3>1. k - 1 \in Nat /\ p = 2 * Power[k - 1] /\ Power[k - 1] \in Nat
      BY <2>2, PowerDoubles
    <3>2. e = 2 * (b * Power[k - 1]) /\ b * Power[k - 1] \in Nat
      BY <3>1
    <3> QED
      BY <1>1, <2>2, <3>2
  <2> QED
    BY <2>1, <2>2
<1> HIDE DEF p
<1>4. CASE p < Half
  <2>1. Wrap(p) = p
    BY <1>1, <1>4, WrapOnce
  <2> HIDE DEF e
  <2>2. /\ e < Half => Wrap(e) = e
        /\ e >= Half => Wrap(e) = e - 2 * Half
    BY <1>1, <1>2, <1>3, WrapOnce
  <2>3. Wrap(e) \in Int /\ (e >= Half => Wrap(e) < 0)
    BY <1>1, <1>2, <1>3, <2>2
  <2> QED
    BY <1>2, <2>1, <2>2, <2>3 DEF p, e
<1>5. CASE p >= Half
  <2>1. b = 1 /\ e = p /\ p < 2 * Half
    BY <1>1, <1>2, <1>3, <1>5
  <2>2. Wrap(p) = p - 2 * Half /\ Wrap(p) \in Int /\ Wrap(p) < 0 /\ -Half <= Wrap(p)
    BY <1>1, <1>5, <2>1, WrapOnce
  <2>3. Wrap(b * Wrap(p)) = Wrap(p)
    BY <1>1, <2>1, <2>2, WrapOnce
  <2> QED
    BY <1>1, <1>5, <2>1, <2>2, <2>3 DEF p, e
<1> QED
  BY <1>1, <1>4, <1>5
-----------------------------------------------------------------------------
(* Steps that leave the files, the version and upstream alone.             *)

(* The scripts stop, are started, wait or look again. *)
LEMMA Between ==
  ASSUME Inv, UNCHANGED <<upstream, db, version>>,
         fresh' \in SUBSET Files, up' = up, trouble' \in 0..trouble,
         BoxTypes', box'.file = {}, box'.pc \in {"down", "check", "backoff", "fetch", "ok"},
         box'.pc = "fetch" => version < upstream,
         box'.pc = "ok" => Missing = {},
         trouble' = trouble => box.file = {}
  PROVE  Inv'
<1> USE DEF Inv
<1>1. Types'
  BY TroubleNumbers DEF Types
<1>2. InWork' /\ Unpacking' /\ Versions' /\ CompleteIfCurrent'
  BY DEF InWork, Unpacking, Installing, Versions, CompleteIfCurrent
<1>3. Missing' = Missing
  BY DEF Missing, Located
<1>4. Installed'
  <2>1. box'.pc = "ok" => Missing' = {}
    BY <1>3
  <2>2. ASSUME up' PROVE Cardinality(Missing' \ box'.file) <= Trouble - trouble'
    <3>1. Missing' \ box'.file = Missing
      BY <1>3
    <3>2. CASE trouble' = trouble
      <4>1. Missing \ box.file = Missing
        BY <3>2
      <4> QED
        BY <2>2, <3>1, <3>2, <4>1 DEF Installed
    <3>3. CASE trouble' # trouble
      <4>1. Cardinality(Missing \ box.file) <= Trouble - trouble
        BY <2>2 DEF Installed
      <4>2. trouble' + 1 <= trouble /\ trouble \in Nat /\ trouble' \in Nat /\ Trouble \in Nat
        BY <3>3, TroubleNumbers
      <4>3. /\ Cardinality(Missing) <= Cardinality(Missing \ box.file) + 1
            /\ Cardinality(Missing) \in Nat /\ Cardinality(Missing \ box.file) \in Nat
        BY OneMoreMissing
      <4>4. Cardinality(Missing) <= Trouble - trouble'
        BY <4>1, <4>2, <4>3
      <4> QED
        BY <3>1, <4>4
    <3> QED
      BY <3>2, <3>3
  <2> QED
    BY <2>1, <2>2 DEF Installed
<1> QED
  BY <1>1, <1>2, <1>4

LEMMA FailedBox ==
  /\ DOMAIN Failed = {"role", "pc", "got", "todo", "file", "failures", "delay"}
  /\ Failed.pc \in {"down", "backoff"} /\ Failed.got = Absent
  /\ Failed.todo = {} /\ Failed.file = {}
BY DEF Failed, Down

LEMMA DownBox ==
  ASSUME NEW r
  PROVE  /\ DOMAIN Down(r) = {"role", "pc", "got", "todo", "file", "failures", "delay"}
         /\ Down(r).pc = "down" /\ Down(r).got = Absent
         /\ Down(r).todo = {} /\ Down(r).file = {}
BY DEF Down

LEMMA SucceededBox ==
  /\ DOMAIN Succeeded = {"role", "pc", "got", "todo", "file", "failures", "delay"}
  /\ Succeeded.pc = "ok" /\ Succeeded.got = Absent
  /\ Succeeded.todo = {} /\ Succeeded.file = {}
BY DEF Succeeded, Down

LEMMA GotoBox ==
  ASSUME BoxTypes, NEW l \in Phases, Goto(l)
  PROVE  BoxTypes' /\ box'.pc = l /\ box'.got = box.got /\ box'.todo = box.todo /\ box'.file = box.file
BY DEF BoxTypes, Goto
-----------------------------------------------------------------------------
(* The actions.                                                            *)

LEMMA QuietSteps ==
  ASSUME Inv, Retry \/ Check \/ NetworkFails \/ Boot \/ Refresh \/ Die \/ EndSweep
  PROVE  Inv'
<1>0. /\ Types /\ BoxTypes /\ InWork /\ trouble \in 0..trouble
      /\ box.pc # "write" => box.file = {}
  BY TroubleNumbers DEF Inv, InWork
<1>0a. /\ "check" \in Phases /\ "down" \in Phases /\ "backoff" \in Phases /\ "ok" \in Phases
       /\ "fetch" \in Phases
  BY DEF Phases
<1>0b. fresh \in SUBSET Files
  BY <1>0 DEF Types
<1>1. CASE Retry
  <2>1. BoxTypes' /\ box'.pc = "check" /\ box'.file = {}
    BY <1>1, <1>0, <1>0a DEF Retry, BoxTypes
  <2> QED
    BY <1>1, <1>0, <1>0b, <2>1, Between DEF Retry
<1>2. CASE Check
  <2>1. CASE version = upstream
    <3>1. BoxTypes' /\ box'.pc = "ok" /\ box'.file = {}
      BY <1>2, <2>1, <1>0a, SucceededBox DEF Check, BoxTypes
    <3>2. Missing = {}
      BY <2>1, <1>0, CompleteHasAll DEF Inv, CompleteIfCurrent, Types
    <3> QED
      BY <1>2, <1>0, <1>0b, <3>1, <3>2, Between DEF Check
  <2>2. CASE version # upstream
    <3>1. BoxTypes' /\ box'.pc = "fetch" /\ box'.file = {}
      BY <1>2, <2>2, <1>0, <1>0a DEF Check, BoxTypes
    <3>2. version < upstream
      BY <2>2, <1>0, ReleaseNumbers DEF Inv, Versions, Types, Absent
    <3> QED
      BY <1>2, <1>0, <1>0b, <3>1, <3>2, Between DEF Check
  <2> QED
    BY <2>1, <2>2
<1>3. CASE NetworkFails
  <2>1. BoxTypes' /\ box'.pc \in {"down", "backoff"} /\ box'.file = {}
    BY <1>3, <1>0a, FailedBox DEF NetworkFails, BoxTypes
  <2> QED
    BY <1>3, <1>0, <1>0b, <2>1, Between DEF NetworkFails
<1>4. CASE Boot
  <2>1. BoxTypes' /\ box'.pc = "check" /\ box'.file = {}
    BY <1>4, <1>0, <1>0a, GotoBox DEF Boot
  <2> QED
    BY <1>4, <1>0, <1>0b, <2>1, Between DEF Boot
<1>5. CASE Refresh
  <2>1. BoxTypes' /\ box'.pc = "check" /\ box'.file = {}
    BY <1>5, <1>0, <1>0a, GotoBox DEF Refresh
  <2> QED
    BY <1>5, <1>0, <1>0b, <2>1, Between DEF Refresh
<1>6. CASE Die
  <2>1. BoxTypes' /\ box'.pc = "down" /\ box'.file = {}
    BY <1>6, <1>0a, DownBox DEF Die, BoxTypes
  <2>2. trouble' \in 0..trouble /\ trouble' # trouble
    BY <1>6, <1>0, TroubleNumbers DEF Die, Spend
  <2> QED
    BY <1>6, <1>0b, <2>1, <2>2, Between DEF Die
<1>7. CASE EndSweep
  <2>1. BoxTypes' /\ box'.pc = "ok" /\ box'.file = {}
    BY <1>7, <1>0a, SucceededBox DEF EndSweep, BoxTypes
  <2>2. Missing = {}
    BY <1>7, <1>0, CompleteHasAll DEF EndSweep, Inv, Unpacking, Installing
  <2> QED
    BY <1>7, <1>0, <1>0b, <2>1, <2>2, Between DEF EndSweep
<1> QED
  BY <1>1, <1>2, <1>3, <1>4, <1>5, <1>6, <1>7

LEMMA FailKeeps == ASSUME Inv, Fail PROVE Inv'
<1>1. BoxTypes' /\ box'.pc \in {"down", "backoff"} /\ box'.file = {}
  BY FailedBox DEF Fail, BoxTypes, Phases
<1>2. trouble' \in 0..trouble /\ trouble' # trouble
  BY TroubleNumbers DEF Fail, Spend, Inv
<1>3. fresh \in SUBSET Files
  BY DEF Inv, Types
<1> QED
  BY <1>1, <1>2, <1>3, Between DEF Fail

LEMMA AgeKeeps == ASSUME Inv, Age PROVE Inv'
<1>1. BoxTypes' /\ box'.file = {}
  BY DEF Age, Inv, BoxTypes, InWork
<1>2. trouble' \in 0..trouble /\ box.file = {}
  BY <1>1, TroubleNumbers DEF Age, Inv
<1>3. box.pc = "ok" => Missing = {}
  BY DEF Inv, Installed
<1> QED
  BY <1>1, <1>2, <1>3, Between DEF Age

LEMMA EndInitKeeps == ASSUME Inv, EndInit PROVE Inv'
<1>1. box'.pc = "down" /\ box'.file = {} /\ BoxTypes'
  BY DownBox DEF EndInit, BoxTypes, Phases
<1>2. Types' /\ InWork' /\ Unpacking' /\ Versions' /\ CompleteIfCurrent'
  BY <1>1 DEF EndInit, Inv, Types, InWork, Unpacking, Installing, Versions, CompleteIfCurrent
<1>3. Missing' = {}
  BY DEF EndInit, InitMayEnd, Inv, Installed, Missing, Located
<1>4. Installed'
  <2>1. Missing' \ box'.file = {} /\ trouble' = trouble
    BY <1>3 DEF EndInit
  <2> QED
    BY <1>1, <2>1, FS_EmptySet, TroubleNumbers DEF Installed, Inv
<1> QED
  BY <1>1, <1>2, <1>4 DEF Inv

LEMMA PublishKeeps == ASSUME Inv, Publish PROVE Inv'
<1>1. upstream' = upstream + 1 /\ upstream' \in Releases /\ upstream \in Nat /\ version \in Nat
  BY ReleaseNumbers DEF Publish, Inv, Types, Absent
<1>2. Types'
  BY <1>1 DEF Publish, Inv, Types
<1>3. BoxTypes' /\ InWork'
  BY DEF Publish, Inv, BoxTypes, InWork
<1>4. Unpacking'
  BY <1>1, ReleaseNumbers DEF Publish, Inv, Unpacking
<1>5. Versions' /\ CompleteIfCurrent'
  BY <1>1 DEF Publish, Inv, Versions, CompleteIfCurrent
<1>6. Installed'
  BY DEF Publish, Inv, Installed, Missing, Located
<1> QED
  BY <1>2, <1>3, <1>4, <1>5, <1>6 DEF Inv

LEMMA FetchKeeps == ASSUME Inv, Fetch PROVE Inv'
<1>1. /\ box'.pc = "unpack" /\ box'.got = upstream /\ box'.todo = Release[upstream]
      /\ box'.file = box.file /\ box.file = {} /\ DOMAIN box' = DOMAIN box
  BY DEF Fetch, Inv, BoxTypes, InWork
<1>2. BoxTypes' /\ InWork'
  BY <1>1, UpdateTZAssumption DEF Fetch, Inv, Types, BoxTypes, InWork, Phases
<1>3. Unpacking'
  BY <1>1, ReleaseNumbers DEF Fetch, Inv, Types, Unpacking
<1>4. Types' /\ Versions' /\ CompleteIfCurrent'
  BY <1>1 DEF Fetch, Inv, Types, Versions, CompleteIfCurrent
<1>5. Installed'
  BY <1>1 DEF Fetch, Inv, Installed, Missing, Located
<1> QED
  BY <1>2, <1>3, <1>4, <1>5 DEF Inv

LEMMA TruncateKeeps == ASSUME Inv, Truncate PROVE Inv'
<1>1. /\ BoxTypes' /\ box'.pc = "stamp" /\ box'.got = box.got /\ box'.todo = {}
      /\ box'.file = {} /\ box.file = {}
  BY GotoBox DEF Truncate, Unpacked, Inv, InWork, Phases
<1>2. version' = Absent /\ upstream' = upstream /\ upstream \in Releases
  BY DEF Truncate, Inv, Types
<1>3. Types' /\ InWork'
  BY <1>1, <1>2 DEF Truncate, Inv, Types, InWork
<1>4. Unpacking'
  BY <1>1 DEF Truncate, Unpacked, Inv, Unpacking, Installing
<1>5. Versions' /\ CompleteIfCurrent'
  BY <1>1, <1>2, ReleaseNumbers DEF Versions, CompleteIfCurrent, Absent
<1>6. Installed'
  BY <1>1 DEF Truncate, Inv, Installed, Missing, Located
<1> QED
  BY <1>1, <1>3, <1>4, <1>5, <1>6 DEF Inv

LEMMA StampKeeps == ASSUME Inv, Stamp PROVE Inv'
<1>1. /\ BoxTypes' /\ box'.pc = "sweep" /\ box'.got = box.got /\ box'.todo = {} /\ box.todo = {}
      /\ box'.file = {} /\ box.file = {}
  BY GotoBox DEF Stamp, Inv, InWork, Phases, Unpacking, Installing
<1>2. version' = box.got /\ box.got \in Releases /\ box.got <= upstream /\ upstream' = upstream
  BY DEF Stamp, Inv, Unpacking, Installing
<1>3. Types' /\ InWork'
  BY <1>1, <1>2 DEF Stamp, Inv, Types, InWork
<1>4. Unpacking'
  BY <1>1 DEF Stamp, Inv, Unpacking, Installing
<1>5. Versions' /\ CompleteIfCurrent'
  BY <1>1, <1>2 DEF Stamp, Inv, Unpacking, Installing, Versions, CompleteIfCurrent
<1>6. Installed'
  BY <1>1 DEF Stamp, Inv, Installed, Missing, Located
<1> QED
  BY <1>1, <1>3, <1>4, <1>5, <1>6 DEF Inv

LEMMA UnlinkKeeps == ASSUME Inv, NEW f \in Files, Unlink(f) PROVE Inv'
<1>1. /\ box'.pc = "write" /\ box'.got = box.got /\ box'.todo = box.todo \ {f}
      /\ box'.file = {f} /\ box.file = {} /\ DOMAIN box' = DOMAIN box
  BY DEF Unlink, Inv, BoxTypes, InWork
<1>2. BoxTypes' /\ InWork'
  BY <1>1 DEF Unlink, Inv, BoxTypes, InWork, Phases
<1>3. /\ db' \in [Files -> {Cut, Absent} \cup Releases] /\ db'[f] = Cut
      /\ \A g \in Files \ {f} : db'[g] = db[g]
  BY DEF Unlink, Inv, Types
<1>4. Types'
  BY <1>3 DEF Unlink, Inv, Types
<1>5. Unpacking'
  <2>1. box.got \in Releases /\ Release[box.got] \in SUBSET Files
    BY UpdateTZAssumption DEF Unlink, Inv, Unpacking, Installing
  <2> QED
    BY <1>1, <1>3, <2>1 DEF Unlink, Inv, Unpacking, Installing
<1>6. Versions' /\ CompleteIfCurrent'
  BY <1>1, VersionNumbers DEF Unlink, Inv, Versions, CompleteIfCurrent
<1>7. Installed'
  <2> SUFFICES ASSUME up PROVE Cardinality(Missing' \ {f}) <= Trouble - trouble
    BY <1>1 DEF Unlink, Installed
  <2>1. Missing' \ {f} \in SUBSET Missing
    BY <1>3 DEF Missing, Located, Lasting
  <2>2. Cardinality(Missing) <= Trouble - trouble
    <3>1. Missing \ box.file = Missing
      BY <1>1
    <3> QED
      BY <3>1 DEF Inv, Installed
  <2> QED
    BY <2>1, <2>2, FewerMissing, MissingIsFinite, TroubleNumbers DEF Inv
<1> QED
  BY <1>2, <1>4, <1>5, <1>6, <1>7 DEF Inv

LEMMA WriteKeeps == ASSUME Inv, NEW f \in Files, Write(f) PROVE Inv'
<1>1. /\ box'.pc = "unpack" /\ box'.got = box.got /\ box'.todo = box.todo
      /\ box'.file = {} /\ box.file = {f} /\ DOMAIN box' = DOMAIN box
  BY DEF Write, Inv, BoxTypes, InWork
<1>2. BoxTypes' /\ InWork'
  BY <1>1 DEF Write, Inv, BoxTypes, InWork, Phases
<1>3. box.got \in Releases /\ Release[box.got] \in SUBSET Files
  BY UpdateTZAssumption DEF Write, Inv, Unpacking, Installing
<1>4. /\ db' \in [Files -> {Cut, Absent} \cup Releases] /\ db'[f] = box.got
      /\ \A g \in Files \ {f} : db'[g] = db[g]
  BY <1>3 DEF Write, Inv, Types
<1>5. Types'
  BY <1>4 DEF Write, Inv, Types
<1>6. Unpacking'
  BY <1>1, <1>3, <1>4 DEF Write, Inv, Unpacking, Installing
<1>7. Versions' /\ CompleteIfCurrent'
  BY <1>1, VersionNumbers DEF Write, Inv, Versions, CompleteIfCurrent
<1>8. Installed'
  <2> SUFFICES ASSUME up PROVE Cardinality(Missing') <= Trouble - trouble
    <3>1. Missing' \ box'.file = Missing'
      BY <1>1
    <3> QED
      BY <1>1, <3>1 DEF Write, Installed
  <2>1. db'[f] > 0
    BY <1>3, <1>4, ReleasesArePositive
  <2>2. ASSUME NEW g \in Missing' PROVE g \in Missing \ {f}
    BY <1>4, <2>1 DEF Missing, Located, Lasting
  <2>3. Cardinality(Missing \ {f}) <= Trouble - trouble
    BY <1>1 DEF Inv, Installed
  <2>4. Missing' \in SUBSET (Missing \ {f}) /\ Missing \ {f} \in SUBSET Files
    BY <2>2, MissingIsFinite
  <2> QED
    BY <2>3, <2>4, FewerMissing, TroubleNumbers DEF Inv
<1> QED
  BY <1>2, <1>5, <1>6, <1>7, <1>8 DEF Inv

(* What find deletes is not of the release just unpacked, and no zone that *)
(* lasts.                                                                  *)
LEMMA SweepKeeps == ASSUME Inv, NEW f \in Files, Sweep(f) PROVE Inv'
<1>1. /\ box.got \in Releases /\ version = box.got /\ box.todo = {} /\ box.file = {}
      /\ f \notin fresh /\ box' = box
  BY DEF Sweep, Inv, Versions, Unpacking, Installing, InWork
<1>2. \A g \in Release[box.got] : g \in Files /\ g # f /\ db[g] = box.got
  BY <1>1, UpdateTZAssumption DEF Sweep, Inv, Unpacking, Installing
<1>3. /\ db' \in [Files -> {Cut, Absent} \cup Releases]
      /\ \A g \in Files \ {f} : db'[g] = db[g]
  BY DEF Sweep, Inv, Types
<1>4. Types' /\ BoxTypes' /\ InWork' /\ Versions'
  BY <1>1, <1>3 DEF Sweep, Inv, Types, BoxTypes, InWork, Versions
<1>5. Unpacking'
  BY <1>1, <1>2, <1>3 DEF Sweep, Inv, Unpacking
<1>6. CompleteIfCurrent'
  BY <1>1, <1>2, <1>3 DEF Sweep, CompleteIfCurrent
<1>7. Missing' = {}
  <2> SUFFICES ASSUME NEW g \in Lasting PROVE Located(g)'
    BY DEF Missing
  <2>1. g \in Release[box.got]
    BY <1>1 DEF Lasting
  <2>2. db'[g] > 0
    BY <1>1, <1>2, <1>3, <2>1, ReleasesArePositive
  <2> QED
    BY <2>2 DEF Located
<1>8. Installed'
  <2>1. Missing' \ box'.file = {} /\ trouble' = trouble
    BY <1>7 DEF Sweep
  <2> QED
    BY <1>7, <2>1, FS_EmptySet, TroubleNumbers DEF Installed, Inv
<1> QED
  BY <1>4, <1>5, <1>6, <1>8 DEF Inv
-----------------------------------------------------------------------------
LEMMA InitInv == Init => Inv
<1> SUFFICES ASSUME Init PROVE Inv
  OBVIOUS
<1>1. Types
  <2>1. Trouble \in 0..Trouble
    BY UpdateTZAssumption
  <2>2. db \in [Files -> {Cut, Absent} \cup Releases]
    BY DEF Init
  <2> QED
    BY <2>1, <2>2, ReleaseNumbers DEF Init, Types
<1>2. BoxTypes /\ InWork /\ Unpacking
  BY DownBox DEF Init, BoxTypes, InWork, Unpacking, Installing, Phases
<1>3. Versions /\ CompleteIfCurrent
  BY DownBox DEF Init, Versions, CompleteIfCurrent, Absent
<1>4. Installed
  BY DownBox DEF Init, Installed
<1> QED
  BY <1>1, <1>2, <1>3, <1>4 DEF Inv

LEMMA NextInv == Inv /\ [Next]_vars => Inv'
<1> SUFFICES ASSUME Inv, [Next]_vars PROVE Inv'
  OBVIOUS
<1>1. CASE UNCHANGED vars
  BY <1>1 DEF vars, Inv, Types, BoxTypes, InWork, Unpacking, Versions, CompleteIfCurrent,
              Installed, Missing, Located
<1>2. CASE LocalStep
  BY <1>2, QuietSteps, TruncateKeeps, StampKeeps, EndInitKeeps, UnlinkKeeps, WriteKeeps, SweepKeeps
     DEF LocalStep
<1>3. CASE Check \/ NetworkFails \/ Die
  BY <1>3, QuietSteps
<1>4. CASE Fetch \/ Fail \/ Age \/ Publish
  BY <1>4, FetchKeeps, FailKeeps, AgeKeeps, PublishKeeps
<1> QED
  BY <1>1, <1>2, <1>3, <1>4 DEF Next

(* The inductive invariant holds: of the release being unpacked every file *)
(* is there and fresh or still to do, and the version names no release     *)
(* before all of it is there (updatetz.sh).                                *)
THEOREM Invariance == Spec => []Inv
BY InitInv, NextInv, PTL DEF Spec

(* Whatever is cut off and whatever is published meanwhile, an update that *)
(* finds upstream's version on record and leaves everything as it is finds *)
(* all of that release (the comparison of the versions in updatetz.sh).    *)
THEOREM VersionIsHonest == Spec => []CompleteIfCurrent
<1>1. Inv => CompleteIfCurrent
  BY DEF Inv
<1> QED
  BY <1>1, Invariance, PTL

(* While the controller runs, at most one lasting zone, and one more for   *)
(* each step that failed, is unknown to it, for any number of zones        *)
(* (updatetz.sh, docker-entrypoint.sh).                                    *)
THEOREM ZonesAreKept == Spec => []ZonesLast
<1>1. Inv => ZonesLast
  <2> SUFFICES ASSUME Inv, up PROVE Cardinality(Missing) <= 1 + (Trouble - trouble)
    BY DEF ZonesLast, Missing
  <2> QED
    BY OneMoreMissing, TroubleNumbers DEF Inv, Installed
<1> QED
  BY <1>1, Invariance, PTL
-----------------------------------------------------------------------------
(* The pace of the retries.                                                *)

(* Each delay that was slept fits the shell's integers, whatever MAX is:   *)
(* what makes the next one exact or negative.                              *)
Pace ==
  /\ conf \in Configs /\ box.role \in {"init", "sidecar"}
  /\ box.failures \in 0..(conf.retries - 1)
  /\ box.failures > 0 => conf.base * Power[box.failures - 1] < Half
  /\ box.pc = "backoff" => box.failures > 0
  /\ box.delay \in 0..conf.max
  /\ BackoffIsExact

LEMMA Settings ==
  ASSUME conf \in Configs
  PROVE  /\ conf.base \in Nat \ {0} /\ conf.base < Half
         /\ conf.max \in Nat \ {0} /\ conf.retries \in Nat \ {0}
BY UpdateTZAssumption DEF Half

LEMMA PaceRests ==
  ASSUME Pace, conf' = conf, box'.role \in {"init", "sidecar"},
         \/ box'.failures = box.failures /\ box'.delay = box.delay
         \/ box'.failures = box.failures /\ box'.delay = 0
         \/ box'.failures = 0 /\ box'.delay = 0,
         box'.pc # "backoff"
  PROVE  Pace'
<1>1. 0 \in 0..(conf.retries - 1) /\ 0 \in 0..conf.max
  BY Settings DEF Pace
<1> QED
  BY <1>1 DEF Pace, BackoffIsExact

LEMMA PaceFails ==
  ASSUME Pace, conf' = conf, box' = Failed
  PROVE  Pace'
<1> DEFINE n == box.failures + 1
           d == Wrap(conf.base * Wrap(Power[n - 1]))
           e == conf.base * Power[n - 1]
<1>1. /\ conf.base \in Nat \ {0} /\ conf.base < Half
      /\ conf.max \in Nat \ {0} /\ conf.retries \in Nat \ {0}
      /\ box.failures \in Nat /\ n \in Nat /\ n > 0 /\ n - 1 = box.failures
  BY Settings DEF Pace
<1>2. CASE Sleeps(n)
  <2>1. /\ box'.role = box.role /\ box'.pc = "backoff" /\ box'.failures = n
        /\ box'.delay = DelayAfter(n)
    BY <1>2 DEF Failed, Down
  <2>2. /\ e \in Nat /\ d \in Int /\ Half \in Nat
        /\ e < Half => d = e
        /\ e >= Half => d < 0
    BY <1>1, ExactOrNegative, HalfNumbers DEF Pace
  <2>3. n < conf.retries /\ DelayAfter(n) >= 0 /\ DelayAfter(n) = AtMost(d, conf.max)
    BY <1>2 DEF Sleeps, MayRetry, DelayAfter
  <2> HIDE DEF d, e, n
  <2>4. d >= 0
    BY <1>1, <2>2, <2>3 DEF AtMost
  <2>5. d = e /\ e < Half
    BY <2>2, <2>4
  <2>6. DelayAfter(n) \in 0..conf.max
    BY <1>1, <2>2, <2>3, <2>4 DEF AtMost
  <2>7. n \in 0..(conf.retries - 1)
    BY <1>1, <2>3
  <2>8. (box.delay = AtMost(conf.base * Power[box.failures - 1], conf.max))'
    BY <2>1, <2>3, <2>5 DEF e, AtMost
  <2>9. (conf.base * Power[box.failures - 1] < Half)'
    BY <2>1, <2>5 DEF e, Half
  <2> QED
    BY <1>1, <2>1, <2>6, <2>7, <2>8, <2>9 DEF Pace, BackoffIsExact
<1>3. CASE ~Sleeps(n)
  BY <1>3, PaceRests DEF Failed, Down, Pace
<1> QED
  BY <1>2, <1>3

LEMMA PaceInitially == Init => Pace
<1> SUFFICES ASSUME Init PROVE Pace
  OBVIOUS
<1>1. 0 \in 0..(conf.retries - 1) /\ 0 \in 0..conf.max
  BY Settings DEF Init
<1> QED
  BY <1>1 DEF Init, Down, Pace, BackoffIsExact

LEMMA PaceKept == Inv /\ Pace /\ [Next]_vars => Pace'
<1> SUFFICES ASSUME Inv, Pace, [Next]_vars PROVE Pace'
  OBVIOUS
<1>0. /\ DOMAIN box = {"role", "pc", "got", "todo", "file", "failures", "delay"}
      /\ box.role \in {"init", "sidecar"}
  BY DEF Inv, BoxTypes, Pace
<1>1. CASE UNCHANGED vars \/ Age \/ Publish
  BY <1>1 DEF vars, Age, Publish, Pace, BackoffIsExact
<1>2. CASE Retry \/ Fetch \/ (Check /\ version # upstream)
  BY <1>0, <1>2, PaceRests DEF Retry, Fetch, Check
<1>3. CASE Truncate \/ Stamp \/ Boot \/ Refresh
  BY <1>0, <1>3, PaceRests DEF Truncate, Stamp, Boot, Refresh, Goto
<1>4. CASE EndSweep \/ Die \/ EndInit \/ (Check /\ version = upstream)
  BY <1>0, <1>4, PaceRests DEF EndSweep, Die, EndInit, Check, Succeeded, Down, Pace
<1>5. CASE \E f \in Files : Unlink(f) \/ Write(f)
  BY <1>0, <1>5, PaceRests DEF Unlink, Write
<1>6. CASE \E f \in Files : Sweep(f)
  BY <1>0, <1>6 DEF Sweep, Pace, BackoffIsExact
<1>7. CASE NetworkFails \/ Fail
  BY <1>7, PaceFails DEF NetworkFails, Fail
<1> QED
  BY <1>1, <1>2, <1>3, <1>4, <1>5, <1>6, <1>7 DEF Next, LocalStep

LEMMA Pacing == Spec => [](Inv /\ Pace)
<1>1. Init => Inv /\ Pace
  BY InitInv, PaceInitially
<1>2. (Inv /\ Pace) /\ [Next]_vars => (Inv /\ Pace)'
  BY NextInv, PaceKept
<1> QED
  BY <1>1, <1>2, PTL DEF Spec

(* Every delay is the exact power of two, or MAX if that is less, for any  *)
(* settings and any width of the shell's integers: the first delay that    *)
(* does not fit is negative, and ends the script (retry).                  *)
THEOREM BackoffStaysExact == Spec => []BackoffIsExact
<1>1. Inv /\ Pace => BackoffIsExact
  BY DEF Pace
<1> QED
  BY <1>1, Pacing, PTL

(* Types: among them that there are fewer failures in a row than           *)
(* MAX_RETRIES while the script goes on, and no delay above MAX (retry).   *)
THEOREM TypeCorrect == Spec => []TypeOK
<1>1. Inv /\ Pace => TypeOK
  BY DEF Inv, Types, BoxTypes, Pace, Phases, TypeOK
<1> QED
  BY <1>1, Pacing, PTL
=============================================================================
