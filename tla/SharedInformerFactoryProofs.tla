---------------------- MODULE SharedInformerFactoryProofs ----------------------
(***************************************************************************)
(* The factory of informers, its one informer and the server behind it,    *)
(* for any numbers of goroutines, clients, types and TZCronJobs, any scope *)
(* and any order of calls, writes, lists and broken watches.               *)
(*                                                                         *)
(* The mutex: whoever is between the lock and the unlock holds it, so that *)
(* what InformerFor looked up still holds when it registers an informer,   *)
(* and an informer runs exactly if it is marked as started.                *)
(*                                                                         *)
(* The server: a version is given once, so that who sends the version that *)
(* is stored has what is stored.                                           *)
(*                                                                         *)
(* The store: with what is in the queue applied to it, it is the server's  *)
(* state at the version the informer has got to.                           *)
(***************************************************************************)
EXTENDS SharedInformerFactory, FiniteSetTheorems, SequenceTheorems, TLAPS

(* Where a call is while it holds the mutex. *)
Critical == {"new"} \cup Ops

FactoryTypes ==
  /\ lock \in Callers \cup {NoCaller}
  /\ informers \in [Types -> Nat] /\ made \in [Types -> Nat] /\ running \in [Types -> Nat]
  /\ started \in SUBSET Types
  /\ call \in [Callers -> Calls]

(* Mutual exclusion. *)
Exclusive ==
  \A c \in Callers :
    /\ call[c].pc \in Critical => lock = c
    /\ call[c].pc = "lock" => call[c].op \in Ops

(* Every informer made is the registered one, and was made when there was  *)
(* none.                                                                   *)
OneMade ==
  /\ \A t \in Types : informers[t] = made[t] /\ made[t] <= 1
  /\ \A c \in Callers : call[c].pc = "new" => informers[call[c].type] = 0

(* The calls of Run are those that are remembered. *)
RunIsRemembered == \A t \in Types : running[t] = IF t \in started THEN 1 ELSE 0

(* The inductive invariant. *)
FactoryInv == FactoryTypes /\ Exclusive /\ OneMade /\ RunIsRemembered /\ OneInformerPerType
-----------------------------------------------------------------------------
LEMMA FactoryInitially == Init => FactoryInv
<1> SUFFICES ASSUME Init PROVE FactoryInv
  OBVIOUS
<1>1. Idle \in Calls /\ Idle.pc = "idle" /\ Idle.ref = 0
  BY FactoryAssumption DEF Idle, Calls, Phases
<1>2. \A c \in Callers : call[c] = Idle
  BY DEF Init
<1>3. FactoryTypes
  BY <1>1 DEF Init, FactoryTypes
<1> QED
  BY <1>1, <1>2, <1>3 DEF Init, FactoryInv, Exclusive, OneMade, RunIsRemembered,
     OneInformerPerType, Critical, Ops

(* Only a caller's own step changes what its call is at. *)
LEMMA OthersStay ==
  ASSUME FactoryInv, NEW c \in Callers, NEW x \in Calls, call' = [call EXCEPT ![c] = x]
  PROVE  call' \in [Callers -> Calls] /\ call'[c] = x
         /\ \A d \in Callers : d # c => call'[d] = call[d]
BY DEF FactoryInv, FactoryTypes

LEMMA FactoryStep ==
  ASSUME FactoryInv, NEW c \in Callers,
         CallStep(c) \/ \E op \in Ops, t \in Types : Begin(c, op, t)
  PROVE  FactoryInv'
<1> DEFINE was == call[c]
<1>0. was \in Calls /\ call = [call EXCEPT ![c] = was]
  BY DEF FactoryInv, FactoryTypes
<1> USE DEF FactoryInv
<1>1. ASSUME NEW op \in Ops, NEW t \in Types, Begin(c, op, t) PROVE FactoryInv'
  <2> DEFINE x == [Idle EXCEPT !.pc = "lock", !.op = op, !.type = t]
  <2>1. x \in Calls /\ x.pc = "lock" /\ x.op = op /\ x.ref = 0
    BY FactoryAssumption DEF Idle, Calls, Phases
  <2>2. call' = [call EXCEPT ![c] = x] /\ UNCHANGED <<lock, informers, started, made, running>>
    BY <1>1 DEF Begin
  <2> HIDE DEF x
  <2> QED
    BY <2>1, <2>2, OthersStay DEF FactoryTypes, Exclusive, OneMade, RunIsRemembered,
       OneInformerPerType, Critical, Ops
<1>2. CASE Lock(c)
  <2> DEFINE x == [was EXCEPT !.pc = was.op]
  <2>1. was.op \in Ops
    BY <1>2 DEF Lock, At, Exclusive
  <2>2. x \in Calls /\ x.pc \in Ops /\ x.ref = was.ref /\ x.type = was.type
    BY <1>0, <2>1 DEF Calls, Phases
  <2>3. call' = [call EXCEPT ![c] = x] /\ lock = NoCaller /\ lock' = c
        /\ UNCHANGED <<informers, started, made, running>>
    BY <1>2 DEF Lock, Goto, Free
  <2>4. \A d \in Callers : call[d].pc \notin Critical
    BY <2>3, FactoryAssumption DEF Exclusive
  <2> HIDE DEF x
  <2> QED
    BY <2>2, <2>3, <2>4, OthersStay DEF FactoryTypes, Exclusive, OneMade, RunIsRemembered,
       OneInformerPerType, Critical, Ops
<1>3. CASE LookUp(c)
  <2> DEFINE i == informers[was.type]
             x == [was EXCEPT !.pc = "idle", !.ref = i]
             y == [was EXCEPT !.pc = "new"]
  <2>1. was.pc = "InformerFor" /\ lock = c /\ UNCHANGED <<informers, started, made, running>>
    BY <1>3 DEF LookUp, At, Exclusive, Critical, Ops
  <2>2. i \in Nat /\ was.type \in Types /\ i = made[was.type] /\ made[was.type] <= 1
    BY <1>0 DEF FactoryTypes, Calls, OneMade
  <2>3. CASE i > 0
    <3>1. x \in Calls /\ x.pc = "idle" /\ x.ref = i /\ x.type = was.type
      BY <1>0, <2>2 DEF Calls, Phases
    <3>2. call' = [call EXCEPT ![c] = x] /\ lock' = NoCaller
      BY <1>0, <1>3, <2>3 DEF LookUp, Calls
    <3>3. i = 1
      BY <2>2, <2>3
    <3>4. \A d \in Callers : d # c => call[d].pc \notin Critical
      BY <2>1 DEF Exclusive
    <3> HIDE DEF x, i
    <3> QED
      BY <2>1, <2>2, <3>1, <3>2, <3>3, <3>4, OthersStay DEF FactoryTypes, Exclusive, OneMade,
         RunIsRemembered, OneInformerPerType, Critical, Ops
  <2>4. CASE ~(i > 0)
    <3>1. y \in Calls /\ y.pc = "new" /\ y.ref = was.ref /\ y.type = was.type
      BY <1>0 DEF Calls, Phases
    <3>2. call' = [call EXCEPT ![c] = y] /\ lock' = lock
      BY <1>3, <2>4 DEF LookUp, Goto
    <3>3. i = 0
      BY <2>2, <2>4
    <3> HIDE DEF y
    <3> QED
      BY <2>1, <3>1, <3>2, <3>3, OthersStay DEF FactoryTypes, Exclusive, OneMade,
         RunIsRemembered, OneInformerPerType, Critical, Ops
  <2> QED
    BY <2>3, <2>4
<1>4. CASE Register(c)
  <2> DEFINE t == was.type
             x == [was EXCEPT !.pc = "idle", !.ref = 1]
  <2>1. was.pc = "new" /\ lock = c /\ lock' = NoCaller /\ UNCHANGED <<started, running>>
    BY <1>4 DEF Register, At, Exclusive, Critical
  <2>2. t \in Types /\ made[t] = 0 /\ informers[t] = 0
    BY <1>0, <2>1 DEF Calls, OneMade
  <2>3. x \in Calls /\ x.pc = "idle" /\ x.ref = 1 /\ x.type = t
    BY <1>0 DEF Calls, Phases
  <2>4. made' = [made EXCEPT ![t] = 1] /\ informers' = [informers EXCEPT ![t] = 1]
    BY <1>4, <2>2 DEF Register, FactoryTypes
  <2>5. call' = [call EXCEPT ![c] = x]
    <3>1. call' = [call EXCEPT ![c].pc = "idle", ![c].ref = made[t] + 1]
      BY <1>4 DEF Register
    <3>2. call' = [call EXCEPT ![c].pc = "idle", ![c].ref = 1]
      BY <2>2, <3>1
    <3> QED
      BY <3>2 DEF FactoryInv, FactoryTypes
  <2>6. /\ made' \in [Types -> Nat] /\ informers' \in [Types -> Nat]
        /\ made'[t] = 1 /\ informers'[t] = 1
        /\ \A u \in Types : u # t => made'[u] = made[u] /\ informers'[u] = informers[u]
    BY <2>2, <2>4 DEF FactoryTypes
  <2>7. \A d \in Callers : d # c => call[d].pc \notin Critical
    BY <2>1 DEF Exclusive
  <2>8. \A d \in Callers : call[d].type \in Types /\ call[d].ref \in Nat
    BY DEF FactoryTypes, Calls
  <2>9. \A d \in Callers : d # c => call'[d] = call[d]
    BY <2>3, <2>5, OthersStay
  <2>10. call' \in [Callers -> Calls] /\ call'[c] = x
    BY <2>3, <2>5, OthersStay
  <2> HIDE DEF x, t
  <2>11. FactoryTypes'
    BY <2>1, <2>6, <2>10 DEF FactoryTypes
  <2>12. Exclusive'
    BY <2>1, <2>3, <2>7, <2>9, <2>10 DEF Exclusive, Critical, Ops
  <2>13. OneMade'
    BY <2>2, <2>3, <2>6, <2>7, <2>9, <2>10 DEF OneMade, Critical
  <2>14. OneInformerPerType'
    <3> SUFFICES ASSUME NEW d \in Callers, call'[d].ref > 0
                 PROVE  call'[d].ref = 1 /\ made'[call'[d].type] = 1
      BY DEF OneInformerPerType
    <3>1. CASE d = c
      BY <3>1, <2>3, <2>6, <2>10
    <3>2. CASE d # c
      BY <3>2, <2>2, <2>6, <2>8, <2>9 DEF OneInformerPerType
    <3> QED
      BY <3>1, <3>2
  <2> QED
    BY <2>1, <2>11, <2>12, <2>13, <2>14 DEF RunIsRemembered
<1>5. CASE StartNext(c)
  <2>1. PICK t \in Registered \ started :
          running' = [running EXCEPT ![t] = @ + 1] /\ started' = started \cup {t}
    BY <1>5 DEF StartNext, MarkStarted
  <2>2. t \in Types /\ t \notin started /\ running[t] = 0
    BY DEF Registered, RunIsRemembered
  <2>3. UNCHANGED <<lock, informers, made, call>>
    BY <1>5 DEF StartNext
  <2>4. running' \in [Types -> Nat] /\ running'[t] = 1
        /\ \A u \in Types : u # t => running'[u] = running[u]
    BY <2>1, <2>2 DEF FactoryTypes
  <2>5. RunIsRemembered' /\ FactoryTypes'
    BY <2>1, <2>2, <2>3, <2>4 DEF RunIsRemembered, FactoryTypes
  <2> QED
    BY <2>3, <2>5 DEF Exclusive, OneMade, OneInformerPerType
<1>6. CASE EndStart(c)
  <2>1. was.pc = "Start" /\ lock = c /\ lock' = NoCaller
        /\ UNCHANGED <<informers, started, made, running>>
    BY <1>6 DEF EndStart, At, Exclusive, Critical, Ops
  <2> DEFINE x == [was EXCEPT !.pc = "idle"]
  <2>2. x \in Calls /\ x.pc = "idle" /\ x.ref = was.ref /\ x.type = was.type
    BY <1>0 DEF Calls, Phases
  <2>3. call' = [call EXCEPT ![c] = x]
    BY <1>6 DEF EndStart, Goto
  <2>4. \A d \in Callers : d # c => call[d].pc \notin Critical
    BY <2>1 DEF Exclusive
  <2> HIDE DEF x
  <2> QED
    BY <2>1, <2>2, <2>3, <2>4, OthersStay DEF FactoryTypes, Exclusive, OneMade,
       RunIsRemembered, OneInformerPerType, Critical, Ops
<1>7. CASE Snapshot(c)
  <2>1. was.pc = "WaitForCacheSync" /\ lock = c /\ lock' = NoCaller
        /\ UNCHANGED <<informers, started, made, running>>
    BY <1>7 DEF Snapshot, Unlock, At, Exclusive, Critical, Ops
  <2> DEFINE x == [was EXCEPT !.pc = "wait", !.todo = Awaited]
  <2>2. x \in Calls /\ x.pc = "wait" /\ x.ref = was.ref /\ x.type = was.type
    BY <1>0 DEF Calls, Phases, Awaited, Registered
  <2>3. call' = [call EXCEPT ![c] = x]
    BY <1>0, <1>7 DEF Snapshot, Calls
  <2>4. \A d \in Callers : d # c => call[d].pc \notin Critical
    BY <2>1 DEF Exclusive
  <2> HIDE DEF x
  <2> QED
    BY <2>1, <2>2, <2>3, <2>4, OthersStay DEF FactoryTypes, Exclusive, OneMade,
       RunIsRemembered, OneInformerPerType, Critical, Ops
<1>8. CASE WaitNext(c) \/ EndWait(c)
  <2>1. was.pc = "wait" /\ UNCHANGED <<lock, informers, started, made, running>>
    BY <1>8 DEF WaitNext, EndWait, At
  <2>2. \E x \in Calls : /\ x.pc \in {"wait", "idle"} /\ x.ref = was.ref /\ x.type = was.type
                         /\ call' = [call EXCEPT ![c] = x]
    <3>1. CASE EndWait(c)
      <4> DEFINE x == [was EXCEPT !.pc = "idle"]
      <4>1. x \in Calls /\ x.pc = "idle" /\ x.ref = was.ref /\ x.type = was.type
        BY <1>0 DEF Calls, Phases
      <4> QED
        BY <3>1, <4>1 DEF EndWait, Goto
    <3>2. CASE WaitNext(c)
      <4>1. PICK t \in was.todo, b \in BOOLEAN :
              call' = [call EXCEPT ![c].todo = @ \ {t}, ![c].res[t] = {b}]
        BY <3>2 DEF WaitNext, Answer
      <4> DEFINE x == [was EXCEPT !.todo = @ \ {t}, !.res[t] = {b}]
      <4>2. x \in Calls /\ x.pc = was.pc /\ x.ref = was.ref /\ x.type = was.type
        BY <1>0 DEF Calls
      <4>3. call' = [call EXCEPT ![c] = x]
        BY <1>0, <4>1 DEF Calls
      <4> QED
        BY <2>1, <4>2, <4>3
    <3> QED
      BY <1>8, <3>1, <3>2
  <2>3. PICK x \in Calls : /\ x.pc \in {"wait", "idle"} /\ x.ref = was.ref /\ x.type = was.type
                           /\ call' = [call EXCEPT ![c] = x]
    BY <2>2
  <2> QED
    BY <2>1, <2>3, OthersStay DEF FactoryTypes, Exclusive, OneMade,
       RunIsRemembered, OneInformerPerType, Critical, Ops
<1> QED
  BY <1>1, <1>2, <1>3, <1>4, <1>5, <1>6, <1>7, <1>8 DEF CallStep

LEMMA FactoryAlways == FactoryInv /\ [Next]_vars => FactoryInv'
<1> SUFFICES ASSUME FactoryInv, [Next]_vars PROVE FactoryInv'
  OBVIOUS
<1>1. CASE UNCHANGED factoryVars
  BY <1>1 DEF factoryVars, FactoryInv, FactoryTypes, Exclusive, OneMade, RunIsRemembered,
     OneInformerPerType
<1>2. CASE \E c \in Callers : CallStep(c) \/ \E op \in Ops, t \in Types : Begin(c, op, t)
  BY <1>2, FactoryStep
<1>3. UNCHANGED vars \/ InformerStep \/ Break \/ Stop => UNCHANGED factoryVars
  BY DEF vars, InformerStep, Event, Pop, List, Break, Stop, factoryVars
<1> QED
  BY <1>1, <1>2, <1>3, FactoryAssumption DEF Next, Ops

LEMMA FactoryInvariant == Spec => []FactoryInv
BY FactoryInitially, FactoryAlways, PTL DEF Spec

(* However many goroutines ask for an informer, and whatever they call in  *)
(* between, each type has one informer and everyone gets it.               *)
THEOREM InformersAreShared == Spec => []OneInformerPerType
<1>1. FactoryInv => OneInformerPerType
  BY DEF FactoryInv
<1> QED
  BY <1>1, FactoryInvariant, PTL

(* However often Start is called, and by whomever, no informer is run      *)
(* twice.                                                                  *)
THEOREM StartIsIdempotent == Spec => []RunOnce
<1>1. FactoryInv => RunOnce
  BY DEF FactoryInv, RunIsRemembered, RunOnce
<1> QED
  BY <1>1, FactoryInvariant, PTL
-----------------------------------------------------------------------------
(* The server's history, and what its clients have of it.                  *)

ServerTypes ==
  /\ log \in Seq(States) /\ Len(log) > 0
  /\ copy \in [Clients -> [key: Keys, obj: Objects]]
  /\ written \in [Keys -> [spec: Nat, status: Nat]]

(* A resource version is given once, and an object without one is none. *)
Versions ==
  \A v \in 1..Len(log), k \in Keys :
    /\ log[v][k].rv <= Len(log)
    /\ log[v][k].rv = 0 => log[v][k] = NoObject

(* Who has an object of the stored version has the stored object. *)
CopiesAgree ==
  \A c \in Clients :
    /\ copy[c].obj.rv <= Len(log)
    /\ (Stored(copy[c].key) /\ copy[c].obj.rv = Server[copy[c].key].rv) =>
         copy[c].obj = Server[copy[c].key]

ServerInv == ServerTypes /\ Versions /\ CopiesAgree /\ NothingLost

(* The history is never rewritten. *)
Grown ==
  /\ log' \in Seq(States) /\ Len(log') >= Len(log)
  /\ \A v \in 1..Len(log) : log'[v] = log[v]

LEMMA NoObjectType == NoObject \in Objects /\ NoObject.rv = 0 /\ Nothing \in States
BY DEF NoObject, Objects, Nothing, States

LEMMA ServerType == ServerTypes => Server \in States
BY DEF ServerTypes, Server, Last

LEMMA ServerInitially == Init => ServerInv
<1> SUFFICES ASSUME Init PROVE ServerInv
  OBVIOUS
<1> DEFINE s == [k \in Keys |-> IF k \in Initial THEN [NoObject EXCEPT !.rv = 1] ELSE NoObject]
<1>1. s \in States /\ \A k \in Keys : s[k].rv <= 1 /\ (s[k].rv = 0 => s[k] = NoObject)
                                      /\ s[k].spec = 0 /\ s[k].status = 0
  BY DEF States, Objects, NoObject
<1>2. log = <<s>> /\ written = [k \in Keys |-> [spec |-> 0, status |-> 0]]
  BY DEF Init, ClientInit
<1>3. \A c \in Clients : copy[c].key \in Keys /\ copy[c].obj = NoObject
  BY ClientAssumption DEF Init, ClientInit
<1>4. copy \in [Clients -> [key: Keys, obj: Objects]]
  BY ClientAssumption, NoObjectType DEF Init, ClientInit
<1> HIDE DEF s
<1>5. Len(log) = 1 /\ log[1] = s /\ Server = s /\ log \in Seq(States)
  BY <1>1, <1>2 DEF Server, Last
<1>6. ServerTypes
  BY <1>2, <1>4, <1>5 DEF ServerTypes
<1>7. Versions
  BY <1>1, <1>5 DEF Versions
<1>8. CopiesAgree
  BY <1>3, <1>5, NoObjectType DEF CopiesAgree, Stored
<1>9. NothingLost
  BY <1>1, <1>2, <1>5 DEF NothingLost
<1> QED
  BY <1>6, <1>7, <1>8, <1>9 DEF ServerInv

(* A write of object n, given the next version. *)
LEMMA WriteGrows ==
  ASSUME ServerTypes, Versions, NEW k \in Keys, NEW o \in Objects, Write(k, o)
  PROVE  LET n == [o EXCEPT !.rv = Len(log) + 1]
         IN  /\ Grown /\ Versions' /\ Len(log') = Len(log) + 1
             /\ n \in Objects /\ n.spec = o.spec /\ n.status = o.status /\ n.rv = Len(log) + 1
             /\ Server'[k] = n /\ \A u \in Keys : u # k => Server'[u] = Server[u]
<1> DEFINE n == [o EXCEPT !.rv = Len(log) + 1]
           s == [Server EXCEPT ![k] = n]
<1>1. n \in Objects /\ n.spec = o.spec /\ n.status = o.status /\ n.rv = Len(log) + 1
  <2>1. Len(log) + 1 \in Nat
    BY DEF ServerTypes
  <2> QED
    BY <2>1 DEF Objects
<1>2. Server \in States
  BY ServerType
<1> HIDE DEF n
<1>3. s \in States /\ s[k] = n /\ \A u \in Keys : u # k => s[u] = Server[u]
  BY <1>1, <1>2 DEF States
<1>4. log' = Append(log, s)
  BY DEF Write, n
<1> HIDE DEF s
<1>5. /\ log' \in Seq(States) /\ Len(log') = Len(log) + 1
      /\ log'[Len(log) + 1] = s /\ \A v \in 1..Len(log) : log'[v] = log[v]
  BY <1>3, <1>4 DEF ServerTypes
<1>6. Server' = s
  BY <1>5 DEF Server, Last
<1>7. Versions'
  <2> SUFFICES ASSUME NEW v \in 1..Len(log'), NEW u \in Keys
               PROVE  log'[v][u].rv <= Len(log') /\ (log'[v][u].rv = 0 => log'[v][u] = NoObject)
    BY DEF Versions
  <2>1. Len(log) \in Nat /\ Len(log) > 0
    BY DEF ServerTypes
  <2>2. \A w \in 1..Len(log) : log[w] \in States /\ log[w][u] \in Objects
    BY DEF ServerTypes, States
  <2>3. \A w \in 1..Len(log) : log[w][u].rv \in Nat
    BY <2>2 DEF Objects
  <2>4. Server[u] = log[Len(log)][u]
    BY DEF Server, Last
  <2>5. CASE v \in 1..Len(log)
    BY <1>5, <2>1, <2>3, <2>5 DEF Versions
  <2>6. CASE v = Len(log) + 1 /\ u = k
    BY <1>1, <1>3, <1>5, <2>1, <2>6
  <2>7. CASE v = Len(log) + 1 /\ u # k
    <3>1. log'[v][u] = log[Len(log)][u]
      BY <1>3, <1>5, <2>4, <2>7
    <3> QED
      BY <1>5, <2>1, <2>3, <3>1 DEF Versions
  <2> QED
    BY <1>5, <2>1, <2>5, <2>6, <2>7
<1> QED
  BY <1>1, <1>3, <1>5, <1>6, <1>7 DEF Grown, n, ServerTypes

(* The writer's copy is what it wrote; all other copies are older. *)
LEMMA WriteAgrees ==
  ASSUME ServerInv, NEW c \in Clients, NEW k \in Keys, NEW o \in Objects,
         Write(k, o), Reply(c, k, Server'[k]),
         written' = [written EXCEPT ![k] = [spec |-> o.spec, status |-> o.status]]
  PROVE  Grown /\ ServerInv'
<1> DEFINE n == [o EXCEPT !.rv = Len(log) + 1]
<1>1. /\ Grown /\ Versions' /\ Len(log') = Len(log) + 1
      /\ n \in Objects /\ n.spec = o.spec /\ n.status = o.status /\ n.rv = Len(log) + 1
      /\ Server'[k] = n /\ \A u \in Keys : u # k => Server'[u] = Server[u]
  BY WriteGrows DEF ServerInv
<1> HIDE DEF n
<1>2. copy' = [copy EXCEPT ![c] = [key |-> k, obj |-> n]]
  BY <1>1 DEF Reply
<1>3. /\ copy' \in [Clients -> [key: Keys, obj: Objects]]
      /\ copy'[c].key = k /\ copy'[c].obj = n
      /\ \A d \in Clients : d # c => copy'[d] = copy[d]
  BY <1>1, <1>2 DEF ServerInv, ServerTypes
<1>4. /\ written' \in [Keys -> [spec: Nat, status: Nat]]
      /\ written'[k] = [spec |-> o.spec, status |-> o.status]
      /\ \A u \in Keys : u # k => written'[u] = written[u]
  BY DEF ServerInv, ServerTypes, Objects
<1>5. ServerTypes'
  BY <1>1, <1>3, <1>4 DEF ServerInv, ServerTypes, Grown
<1>6. NothingLost'
  BY <1>1, <1>4 DEF ServerInv, NothingLost, Stored
<1>7. CopiesAgree'
  <2> SUFFICES ASSUME NEW d \in Clients
               PROVE  /\ copy'[d].obj.rv <= Len(log')
                      /\ (Server'[copy'[d].key].rv > 0 /\ copy'[d].obj.rv = Server'[copy'[d].key].rv)
                           => copy'[d].obj = Server'[copy'[d].key]
    BY DEF CopiesAgree, Stored
  <2>1. CASE d = c
    BY <1>1, <1>3, <2>1 DEF ServerInv, ServerTypes
  <2>2. CASE d # c
    <3>1. copy'[d] = copy[d] /\ copy[d].key \in Keys /\ copy[d].obj.rv \in Nat
      BY <1>3, <2>2 DEF ServerInv, ServerTypes, Objects
    <3>2. copy[d].obj.rv <= Len(log) /\ Len(log) \in Nat
      BY DEF ServerInv, ServerTypes, CopiesAgree
    <3>3. CASE copy[d].key = k
      BY <1>1, <3>1, <3>2, <3>3
    <3>4. CASE copy[d].key # k
      BY <1>1, <3>1, <3>2, <3>4 DEF ServerInv, CopiesAgree, Stored
    <3> QED
      BY <3>3, <3>4
  <2> QED
    BY <2>1, <2>2
<1> QED
  BY <1>1, <1>5, <1>6, <1>7 DEF ServerInv

(* Deletions leave of an object all or nothing. *)
LEMMA VanishGrows ==
  ASSUME ServerInv, NEW S \in SUBSET Keys, Vanish(S), copy' = copy, written' = written
  PROVE  Grown /\ ServerInv'
<1>1. PICK q \in SetToSeqs(S) :
        log' = log \o [i \in 1..Len(q) |->
                         [k \in Keys |-> IF \E j \in 1..i : q[j] = k THEN NoObject ELSE Server[k]]]
  BY DEF Vanish
<1> DEFINE e == [i \in 1..Len(q) |->
                   [k \in Keys |-> IF \E j \in 1..i : q[j] = k THEN NoObject ELSE Server[k]]]
<1>2. IsFiniteSet(S)
  BY ClientAssumption, FS_Subset
<1>3. Cardinality(S) \in Nat /\ q \in [1..Cardinality(S) -> S]
  BY <1>2, FS_CardinalityType DEF SetToSeqs
<1>4. Len(q) \in Nat
  BY <1>3
<1>5. Server \in States
  BY ServerType DEF ServerInv
<1>6. \A i \in 1..Len(q) : e[i] \in States /\ \A k \in Keys : e[i][k] \in {NoObject, Server[k]}
  BY <1>5, NoObjectType DEF States
<1>7. e \in Seq(States) /\ Len(e) = Len(q)
  BY <1>4, <1>6
<1> HIDE DEF e
<1>8. log \in Seq(States) /\ Len(log) \in Nat /\ Len(log) > 0
  BY DEF ServerInv, ServerTypes
<1>9. /\ log' \in Seq(States) /\ Len(log') = Len(log) + Len(e)
      /\ \A v \in 1..Len(log) : log'[v] = log[v]
      /\ \A v \in 1..Len(e) : log'[Len(log) + v] = e[v]
  <2>1. log' = log \o e
    BY <1>1 DEF e
  <2>2. /\ log \o e \in Seq(States) /\ Len(log \o e) = Len(log) + Len(e)
        /\ \A v \in 1..Len(log) + Len(e) :
             (log \o e)[v] = IF v <= Len(log) THEN log[v] ELSE e[v - Len(log)]
    BY <1>7, <1>8, ConcatProperties
  <2>3. Len(e) \in Nat
    BY <1>4, <1>7
  <2> QED
    BY <1>8, <2>1, <2>2, <2>3
<1>10. \A k \in Keys : Server[k] = log[Len(log)][k] /\ Server[k].rv \in Nat
  BY <1>5 DEF Server, Last, States, Objects
<1>11. \A v \in 1..Len(log'), k \in Keys :
         \/ v \in 1..Len(log) /\ log'[v][k] = log[v][k]
         \/ log'[v][k] = log[Len(log)][k]
         \/ log'[v][k] = NoObject
  <2> SUFFICES ASSUME NEW v \in 1..Len(log'), NEW k \in Keys, v \notin 1..Len(log)
               PROVE  log'[v][k] \in {log[Len(log)][k], NoObject}
    BY <1>9
  <2> DEFINE i == v - Len(log)
  <2>1. i \in 1..Len(e) /\ Len(log) + i = v
    BY <1>4, <1>7, <1>8, <1>9
  <2>2. log'[v] = e[i] /\ e[i][k] \in {NoObject, Server[k]}
    BY <1>6, <1>7, <1>9, <2>1
  <2> QED
    BY <1>10, <2>2
<1>12. \A k \in Keys : Server'[k] \in {Server[k], NoObject}
  <2>1. Server' = log'[Len(log')] /\ Len(log') \in 1..Len(log')
    BY <1>7, <1>8, <1>9 DEF Server, Last
  <2>2. CASE Len(e) = 0
    BY <1>8, <1>9, <1>10, <2>1, <2>2
  <2>3. CASE Len(e) > 0
    <3>1. Len(e) \in 1..Len(e) /\ Len(e) \in 1..Len(q)
      BY <1>4, <1>7, <2>3
    <3>2. Server' = e[Len(e)]
      BY <1>9, <2>1, <3>1
    <3> QED
      BY <1>6, <3>1, <3>2
  <2> QED
    BY <1>7, <1>4, <2>2, <2>3
<1>13. Versions'
  <2> SUFFICES ASSUME NEW v \in 1..Len(log'), NEW k \in Keys
               PROVE  log'[v][k].rv <= Len(log') /\ (log'[v][k].rv = 0 => log'[v][k] = NoObject)
    BY DEF Versions
  <2>1. \A w \in 1..Len(log) : /\ log[w][k].rv \in Nat /\ log[w][k].rv <= Len(log)
                               /\ log[w][k].rv = 0 => log[w][k] = NoObject
    BY <1>8 DEF ServerInv, Versions, States, Objects
  <2>2. Len(log) <= Len(log') /\ Len(log') \in Nat /\ Len(log) \in 1..Len(log)
    BY <1>4, <1>7, <1>8, <1>9
  <2> QED
    BY <1>8, <1>11, <2>1, <2>2, NoObjectType
<1>14. CopiesAgree'
  <2> SUFFICES ASSUME NEW d \in Clients
               PROVE  /\ copy[d].obj.rv <= Len(log')
                      /\ (Server'[copy[d].key].rv > 0 /\ copy[d].obj.rv = Server'[copy[d].key].rv)
                           => copy[d].obj = Server'[copy[d].key]
    BY DEF CopiesAgree, Stored
  <2>1. copy[d].key \in Keys /\ copy[d].obj.rv \in Nat /\ copy[d].obj.rv <= Len(log)
    BY DEF ServerInv, ServerTypes, CopiesAgree, Objects
  <2>2. Len(log) <= Len(log') /\ Len(log') \in Nat
    BY <1>4, <1>7, <1>8, <1>9
  <2>3. copy[d].obj.rv <= Len(log')
    BY <1>8, <2>1, <2>2
  <2>4. CASE Server'[copy[d].key] = Server[copy[d].key]
    BY <2>3, <2>4 DEF ServerInv, CopiesAgree, Stored
  <2>5. CASE Server'[copy[d].key] = NoObject
    BY <2>3, <2>5, NoObjectType
  <2> QED
    BY <1>12, <2>1, <2>4, <2>5
<1>15. NothingLost'
  BY <1>12, NoObjectType DEF ServerInv, NothingLost, Stored
<1>16. Grown
  BY <1>4, <1>7, <1>8, <1>9 DEF Grown
<1> QED
  BY <1>8, <1>9, <1>13, <1>14, <1>15, <1>16, <1>7, <1>4 DEF ServerInv, ServerTypes

LEMMA CountsUp ==
  ASSUME NEW k \in Keys, NEW o, written[k] = [spec |-> o.spec, status |-> o.status]
  PROVE  /\ [written EXCEPT ![k].spec = @ + 1]
              = [written EXCEPT ![k] = [spec |-> o.spec + 1, status |-> o.status]]
         /\ [written EXCEPT ![k].status = @ + 1]
              = [written EXCEPT ![k] = [spec |-> o.spec, status |-> o.status + 1]]
<1>1. /\ [written[k] EXCEPT !.spec = @ + 1] = [spec |-> o.spec + 1, status |-> o.status]
      /\ [written[k] EXCEPT !.status = @ + 1] = [spec |-> o.spec, status |-> o.status + 1]
  OBVIOUS
<1> QED
  BY <1>1

LEMMA ClientsStep == ASSUME ServerInv, ClientStep PROVE Grown /\ ServerInv'
<1>1. Server \in States /\ log \in Seq(States) /\ Len(log) \in Nat /\ Len(log) > 0
  BY ServerType DEF ServerInv, ServerTypes
<1>2. \A k \in Keys : Server[k] \in Objects /\ Server[k].rv <= Len(log)
  BY <1>1 DEF States, ServerInv, Versions, Server, Last
<1>3. ASSUME NEW c \in Clients, NEW k \in Keys, Get(c, k) PROVE Grown /\ ServerInv'
  <2>1. log' = log /\ written' = written /\ copy' = [copy EXCEPT ![c] = [key |-> k, obj |-> Server[k]]]
    BY <1>3 DEF Get, Reply
  <2>2. /\ copy' \in [Clients -> [key: Keys, obj: Objects]]
        /\ copy'[c].key = k /\ copy'[c].obj = Server[k]
        /\ \A d \in Clients : d # c => copy'[d] = copy[d]
    BY <1>2, <2>1 DEF ServerInv, ServerTypes
  <2>3. CopiesAgree'
    BY <1>2, <2>1, <2>2 DEF ServerInv, CopiesAgree, Server, Stored
  <2> QED
    BY <1>1, <2>1, <2>2, <2>3 DEF ServerInv, ServerTypes, Versions, NothingLost, Server, Stored, Grown
<1>4. ASSUME NEW c \in Clients, NEW k \in Keys, Create(c, k) PROVE Grown /\ ServerInv'
  <2> DEFINE o == [NoObject EXCEPT !.spec = 1]
  <2>1. o \in Objects /\ o.spec = 1 /\ o.status = 0
    BY DEF NoObject, Objects
  <2>2. Write(k, o) /\ Reply(c, k, Server'[k])
        /\ written' = [written EXCEPT ![k] = [spec |-> 1, status |-> 0]]
    BY <1>4 DEF Create, Server
  <2> HIDE DEF o
  <2> QED
    BY <2>1, <2>2, WriteAgrees
<1>5. ASSUME NEW c \in Clients, NEW k \in Keys, Patch(c, k) PROVE Grown /\ ServerInv'
  <2> DEFINE o == WithSpec(k, Server[k].spec + 1)
             u == WithStatus(k, Server[k].status + 1)
  <2>1. /\ o \in Objects /\ o.spec = Server[k].spec + 1 /\ o.status = Server[k].status
        /\ u \in Objects /\ u.spec = Server[k].spec /\ u.status = Server[k].status + 1
    BY <1>2 DEF WithSpec, WithStatus, Objects
  <2>2. written[k] = [spec |-> Server[k].spec, status |-> Server[k].status]
    BY <1>5 DEF Patch, ServerInv, NothingLost
  <2>3. /\ [written EXCEPT ![k].spec = @ + 1]
              = [written EXCEPT ![k] = [spec |-> Server[k].spec + 1, status |-> Server[k].status]]
        /\ [written EXCEPT ![k].status = @ + 1]
              = [written EXCEPT ![k] = [spec |-> Server[k].spec, status |-> Server[k].status + 1]]
    BY <2>2, CountsUp DEF ServerInv
  <2>4. /\ Reply(c, k, Server'[k])
        /\ \/ Write(k, o) /\ written' = [written EXCEPT ![k].spec = @ + 1]
           \/ Write(k, u) /\ written' = [written EXCEPT ![k].status = @ + 1]
    BY <1>5 DEF Patch, Server
  <2> HIDE DEF o, u
  <2>5. CASE Write(k, o) /\ written' = [written EXCEPT ![k].spec = @ + 1]
    <3>1. written' = [written EXCEPT ![k] = [spec |-> o.spec, status |-> o.status]]
      BY <2>1, <2>3, <2>5
    <3> QED
      BY <2>1, <2>4, <2>5, <3>1, WriteAgrees
  <2>6. CASE Write(k, u) /\ written' = [written EXCEPT ![k].status = @ + 1]
    <3>1. written' = [written EXCEPT ![k] = [spec |-> u.spec, status |-> u.status]]
      BY <2>1, <2>3, <2>6
    <3> QED
      BY <2>1, <2>4, <2>6, <3>1, WriteAgrees
  <2> QED
    BY <2>4, <2>5, <2>6
<1>6. ASSUME NEW c \in Clients, Update(c) PROVE Grown /\ ServerInv'
  <2> DEFINE k == copy[c].key
             o == WithSpec(k, copy[c].obj.spec + 1)
  <2>1. k \in Keys
    BY DEF ServerInv, ServerTypes
  <2>2. Stored(k) /\ copy[c].obj = Server[k]
    BY <1>6 DEF Update, Current, ServerInv, CopiesAgree
  <2>3. written[k] = [spec |-> Server[k].spec, status |-> Server[k].status]
    BY <2>1, <2>2 DEF ServerInv, NothingLost
  <2>4. o \in Objects /\ o.spec = Server[k].spec + 1 /\ o.status = Server[k].status
    BY <1>2, <2>1, <2>2 DEF WithSpec, Objects
  <2>5. Write(k, o) /\ Reply(c, k, Server'[k]) /\ written' = [written EXCEPT ![k].spec = @ + 1]
    BY <1>6 DEF Update, Server
  <2> HIDE DEF o, k
  <2>6. written' = [written EXCEPT ![k] = [spec |-> o.spec, status |-> o.status]]
    <3>1. [written EXCEPT ![k].spec = @ + 1]
            = [written EXCEPT ![k] = [spec |-> Server[k].spec + 1, status |-> Server[k].status]]
      BY <2>1, <2>3, CountsUp DEF ServerInv
    <3> QED
      BY <2>4, <2>5, <3>1
  <2> QED
    BY <2>1, <2>4, <2>5, <2>6, WriteAgrees
<1>7. ASSUME NEW c \in Clients, UpdateStatus(c) PROVE Grown /\ ServerInv'
  <2> DEFINE k == copy[c].key
             o == WithStatus(k, copy[c].obj.status + 1)
  <2>1. k \in Keys
    BY DEF ServerInv, ServerTypes
  <2>2. Stored(k) /\ copy[c].obj = Server[k]
    BY <1>7 DEF UpdateStatus, Current, ServerInv, CopiesAgree
  <2>3. written[k] = [spec |-> Server[k].spec, status |-> Server[k].status]
    BY <2>1, <2>2 DEF ServerInv, NothingLost
  <2>4. o \in Objects /\ o.spec = Server[k].spec /\ o.status = Server[k].status + 1
    BY <1>2, <2>1, <2>2 DEF WithStatus, Objects
  <2>5. Write(k, o) /\ Reply(c, k, Server'[k]) /\ written' = [written EXCEPT ![k].status = @ + 1]
    BY <1>7 DEF UpdateStatus, Server
  <2> HIDE DEF o, k
  <2>6. written' = [written EXCEPT ![k] = [spec |-> o.spec, status |-> o.status]]
    <3>1. [written EXCEPT ![k].status = @ + 1]
            = [written EXCEPT ![k] = [spec |-> Server[k].spec, status |-> Server[k].status + 1]]
      BY <2>1, <2>3, CountsUp DEF ServerInv
    <3> QED
      BY <2>4, <2>5, <3>1
  <2> QED
    BY <2>1, <2>4, <2>5, <2>6, WriteAgrees
<1>8. ASSUME \/ \E k \in Keys : Delete(k)
             \/ \E n \in Namespaces : DeleteCollection(n)
      PROVE  Grown /\ ServerInv'
  <2>1. \E S \in SUBSET Keys : Vanish(S)
    BY <1>8 DEF Delete, DeleteCollection
  <2>2. copy' = copy /\ written' = written
    BY <1>8 DEF Delete, DeleteCollection
  <2> QED
    BY <2>1, <2>2, VanishGrows
<1> QED
  BY <1>3, <1>4, <1>5, <1>6, <1>7, <1>8 DEF ClientStep

LEMMA ServerAlways == ASSUME ServerInv, [Next]_vars PROVE Grown /\ ServerInv'
<1>1. ASSUME UNCHANGED <<log, copy, written>> PROVE Grown /\ ServerInv'
  BY <1>1 DEF ServerInv, ServerTypes, Versions, CopiesAgree, NothingLost, Server, Stored, Grown
<1>2. ClientStep \/ UNCHANGED <<log, copy, written>>
  <2>1. \A c \in Callers : CallStep(c) => UNCHANGED <<log, copy, written>>
    BY DEF CallStep, Lock, LookUp, Register, StartNext, EndStart, Snapshot, WaitNext, EndWait, clientVars
  <2>2. \A c \in Callers : \A op, t : Begin(c, op, t) => UNCHANGED <<log, copy, written>>
    BY DEF Begin
  <2>3. InformerStep \/ Break \/ Stop \/ UNCHANGED vars => UNCHANGED <<log, copy, written>>
    BY DEF InformerStep, Event, Pop, List, Break, Stop, vars, clientVars
  <2> QED
    BY <2>1, <2>2, <2>3 DEF Next
<1> QED
  BY <1>1, <1>2, ClientsStep

(* Whichever clients write, with whichever copies and in whichever order:  *)
(* each accepted change of a spec or a status is in the object.            *)
THEOREM NoChangeIsLost == Spec => []NothingLost
<1>1. Init => ServerInv
  BY ServerInitially
<1>2. ServerInv /\ [Next]_vars => ServerInv'
  BY ServerAlways
<1>3. ServerInv => NothingLost
  BY DEF ServerInv
<1> QED
  BY <1>1, <1>2, <1>3, PTL DEF Spec
-----------------------------------------------------------------------------
(* The queue and the store, taken together, as a state of the server.      *)

Sound(o) == o.rv = 0 => o = NoObject

InformerTypes ==
  /\ inf \in [pc: {"list", "watch"}, at: Nat, listed: BOOLEAN, initial: Nat,
              queue: Seq(Deltas), store: States]
  /\ inf.at <= Len(log) /\ (inf.listed => inf.at > 0) /\ (inf.pc = "watch" => inf.listed)
  /\ ~inf.listed => inf.queue = <<>>
  /\ \A k \in Keys : Sound(inf.store[k])
  /\ \A i \in 1..Len(inf.queue) : Sound(inf.queue[i].obj)

Mentions(q, k) == \E i \in 1..Len(q) : q[i].key = k

(* Entry i is the last one of q for key k. *)
Final(q, k, i) ==
  /\ i \in 1..Len(q) /\ q[i].key = k
  /\ \A j \in 1..Len(q) : j > i => q[j].key # k

(* What st will hold for k once q has been worked off. *)
Shows(q, st, k, o) ==
  IF Mentions(q, k) THEN \E i \in 1..Len(q) : Final(q, k, i) /\ q[i].obj = o ELSE st[k] = o

QueueShows ==
  inf.listed => \A k \in Keys : Shows(inf.queue, inf.store, k, ListFrom(inf.at, Scope)[k])

(* What there has been all along is stored or among the first entries,     *)
(* those of the first list.                                                *)
Lasting(k) == k[1] \in Scope /\ \A v \in 1..Len(log) : log[v][k].rv > 0

Filling ==
  /\ inf.initial <= Len(inf.queue)
  /\ inf.listed => \A k \in Keys : Lasting(k) =>
       /\ inf.store[k].rv > 0 \/ \E i \in 1..inf.initial : inf.queue[i].key = k
       /\ \A i \in 1..Len(inf.queue) : inf.queue[i].key = k => inf.queue[i].obj.rv > 0

Answered ==
  \A c \in Callers : call[c].res[TZCronJob] = {TRUE} => inf.listed /\ inf.initial = 0

(* Only informers that run are waited for. *)
Waiting == started \subseteq Registered /\ \A c \in Callers : call[c].todo \subseteq started

StoreInv == InformerTypes /\ QueueShows /\ Filling

LEMMA Joined ==
  ASSUME NEW q \in Seq(Deltas), NEW e \in Seq(Deltas)
  PROVE  /\ q \o e \in Seq(Deltas) /\ Len(q \o e) = Len(q) + Len(e)
         /\ Len(q) \in Nat /\ Len(e) \in Nat
         /\ \A i \in 1..Len(q) : (q \o e)[i] = q[i]
         /\ \A i \in 1..Len(e) : (q \o e)[Len(q) + i] = e[i]
         /\ \A i \in 1..Len(q \o e) : i \in 1..Len(q) \/ \E j \in 1..Len(e) : i = Len(q) + j
<1>1. /\ q \o e \in Seq(Deltas) /\ Len(q \o e) = Len(q) + Len(e)
      /\ \A i \in 1..Len(q) + Len(e) :
           (q \o e)[i] = IF i <= Len(q) THEN q[i] ELSE e[i - Len(q)]
  BY ConcatProperties
<1>2. Len(q) \in Nat /\ Len(e) \in Nat
  OBVIOUS
<1>3. ASSUME NEW i \in 1..Len(q \o e), i \notin 1..Len(q)
      PROVE  \E j \in 1..Len(e) : i = Len(q) + j
  <2>1. i - Len(q) \in 1..Len(e) /\ i = Len(q) + (i - Len(q))
    BY <1>1, <1>2, <1>3
  <2> QED
    BY <2>1
<1> QED
  BY <1>1, <1>2, <1>3

(* New entries: the last of them for a key decides, if there is one. *)
LEMMA ShowsNew ==
  ASSUME NEW q \in Seq(Deltas), NEW e \in Seq(Deltas), NEW st, NEW k, NEW o,
         NEW i \in 1..Len(e), Final(e, k, i), e[i].obj = o
  PROVE  Shows(q \o e, st, k, o)
<1> DEFINE w == q \o e
           n == Len(q) + i
<1>1. n \in 1..Len(w) /\ w[n] = e[i]
  BY Joined
<1>2. ASSUME NEW j \in 1..Len(w), j > n PROVE w[j].key # k
  <2>1. PICK m \in 1..Len(e) : j = Len(q) + m
    <3>1. Len(q) \in Nat /\ j \notin 1..Len(q)
      BY <1>2, Joined
    <3> QED
      BY <3>1, Joined
  <2>2. m > i /\ w[j] = e[m]
    BY <1>2, <2>1, Joined
  <2> QED
    BY <2>2 DEF Final
<1> HIDE DEF w, n
<1>3. Final(w, k, n) /\ w[n].obj = o
  BY <1>1, <1>2 DEF Final
<1> QED
  BY <1>1, <1>3 DEF Shows, Mentions, Final, w

LEMMA ShowsStill ==
  ASSUME NEW q \in Seq(Deltas), NEW e \in Seq(Deltas), NEW st, NEW k, NEW o,
         ~Mentions(e, k), Shows(q, st, k, o)
  PROVE  Shows(q \o e, st, k, o)
<1> DEFINE w == q \o e
<1>1. \A j \in 1..Len(w) : w[j].key = k => j \in 1..Len(q)
  <2> SUFFICES ASSUME NEW j \in 1..Len(w), j \notin 1..Len(q) PROVE w[j].key # k
    OBVIOUS
  <2>1. PICK m \in 1..Len(e) : j = Len(q) + m
    BY Joined
  <2>2. w[j] = e[m]
    BY <2>1, Joined
  <2> QED
    BY <2>2 DEF Mentions
<1>2. \A j \in 1..Len(q) : j \in 1..Len(w) /\ w[j] = q[j]
  BY Joined
<1> HIDE DEF w
<1>3. CASE Mentions(q, k)
  <2>1. PICK i \in 1..Len(q) : Final(q, k, i) /\ q[i].obj = o
    BY <1>3 DEF Shows
  <2>2. i \in 1..Len(w) /\ Final(w, k, i) /\ w[i].obj = o
    BY <1>1, <1>2, <2>1 DEF Final
  <2> QED
    BY <2>2 DEF Shows, Mentions, Final, w
<1>4. CASE ~Mentions(q, k)
  <2>1. ~Mentions(w, k) /\ st[k] = o
    BY <1>1, <1>2, <1>4 DEF Shows, Mentions
  <2> QED
    BY <2>1 DEF Shows, w
<1> QED
  BY <1>3, <1>4

(* The head of the queue goes to the store. *)
LEMMA ShowsPopped ==
  ASSUME NEW q \in Seq(Deltas), q # <<>>, NEW st \in States, NEW k \in Keys, NEW o,
         Shows(q, st, k, o)
  PROVE  Shows(Tail(q), [st EXCEPT ![Head(q).key] = Head(q).obj], k, o)
<1> DEFINE w == Tail(q)
           s == [st EXCEPT ![Head(q).key] = Head(q).obj]
<1>1. /\ Len(q) \in Nat /\ Len(q) > 0 /\ Len(w) = Len(q) - 1 /\ Head(q) = q[1]
      /\ \A i \in 1..Len(w) : w[i] = q[i + 1]
  OBVIOUS
<1>2. s[k] = IF q[1].key = k THEN q[1].obj ELSE st[k]
  BY <1>1 DEF States, Deltas
<1> HIDE DEF w, s
<1>3. CASE Mentions(w, k)
  <2>1. PICK m \in 1..Len(w) : w[m].key = k
    BY <1>3 DEF Mentions
  <2>2. m + 1 \in 1..Len(q) /\ q[m + 1].key = k
    BY <1>1, <2>1
  <2>3. PICK i \in 1..Len(q) : Final(q, k, i) /\ q[i].obj = o
    BY <2>2 DEF Shows, Mentions
  <2>4. i >= m + 1
    BY <1>1, <2>2, <2>3 DEF Final
  <2>5. i - 1 \in 1..Len(w) /\ w[i - 1] = q[i]
    BY <1>1, <2>1, <2>4
  <2>6. \A j \in 1..Len(w) : j > i - 1 => w[j].key # k
    <3> SUFFICES ASSUME NEW j \in 1..Len(w), j > i - 1 PROVE w[j].key # k
      OBVIOUS
    <3>1. j + 1 \in 1..Len(q) /\ j + 1 > i /\ w[j] = q[j + 1]
      BY <1>1
    <3> QED
      BY <2>3, <3>1 DEF Final
  <2>7. Final(w, k, i - 1) /\ w[i - 1].obj = o
    BY <2>3, <2>5, <2>6 DEF Final
  <2> QED
    BY <1>3, <2>5, <2>7 DEF Shows, w, s
<1>4. CASE ~Mentions(w, k)
  <2>1. \A i \in 1..Len(q) : q[i].key = k => i = 1
    <3> SUFFICES ASSUME NEW i \in 1..Len(q), i # 1 PROVE q[i].key # k
      OBVIOUS
    <3>1. i - 1 \in 1..Len(w) /\ w[i - 1] = q[i]
      BY <1>1
    <3> QED
      BY <1>4, <3>1 DEF Mentions
  <2>2. s[k] = o
    <3>1. CASE q[1].key = k
      <4>1. Mentions(q, k)
        BY <1>1, <3>1 DEF Mentions
      <4> QED
        BY <1>2, <2>1, <3>1, <4>1 DEF Shows, Final
    <3>2. CASE q[1].key # k
      <4>1. ~Mentions(q, k)
        BY <2>1, <3>2 DEF Mentions
      <4> QED
        BY <1>2, <3>2, <4>1 DEF Shows
    <3> QED
      BY <3>1, <3>2
  <2> QED
    BY <1>4, <2>2 DEF Shows, w, s
<1> QED
  BY <1>3, <1>4

(* A set of keys in any order, each once. *)
Orders(S) == SetToSeqs(S) \cup {SetToSeq(S)}

LEMMA Ordered ==
  ASSUME NEW S \in SUBSET Keys, NEW q \in Orders(S)
  PROVE  /\ q \in Seq(Keys) /\ Len(q) = Cardinality(S) /\ Len(q) \in Nat
         /\ \A i \in 1..Len(q) : q[i] \in S
         /\ \A i, j \in 1..Len(q) : q[i] = q[j] => i = j
         /\ \A k \in S : \E i \in 1..Len(q) : q[i] = k
<1> DEFINE D == 1..Cardinality(S)
<1>1. IsFiniteSet(S)
  BY ClientAssumption, FS_Subset
<1>2. Cardinality(S) \in Nat /\ ExistsBijection(D, S)
  BY <1>1, FS_CardinalityType
<1>3. q \in [D -> S] /\ \A i, j \in D : q[i] = q[j] => i = j
  <2>1. CASE q \in SetToSeqs(S)
    BY <2>1 DEF SetToSeqs
  <2>2. CASE q = SetToSeq(S)
    <3>1. \E f \in [D -> S] : IsInjective(f)
      BY <1>2 DEF ExistsBijection, Bijection, Injection
    <3>2. q \in [D -> S] /\ IsInjective(q)
      BY <2>2, <3>1 DEF SetToSeq
    <3> QED
      BY <3>2 DEF IsInjective
  <2> QED
    BY <2>1, <2>2 DEF Orders
<1>4. Len(q) = Cardinality(S) /\ q \in Seq(Keys)
  BY <1>2, <1>3
<1>5. q \in Injection(D, S)
  BY <1>3 DEF Injection, IsInjective
<1>6. IsFiniteSet(D) /\ Cardinality(D) = Cardinality(S)
  BY <1>2, FS_Interval
<1>7. q \in Surjection(D, S)
  BY <1>1, <1>5, <1>6, FS_Injection
<1> QED
  BY <1>2, <1>3, <1>4, <1>7 DEF Surjection

(* A batch of entries, with the objects that s has for the keys of q.      *)
Batch(q, s) == [i \in 1..Len(q) |-> Delta(q[i], s[q[i]])]

LEMMA BatchEntries ==
  ASSUME NEW S \in SUBSET Keys, NEW q \in Orders(S), NEW s \in States
  PROVE  LET e == Batch(q, s)
         IN  /\ e \in Seq(Deltas) /\ Len(e) = Cardinality(S) /\ Cardinality(S) \in Nat
             /\ \A i \in 1..Len(e) : e[i].key \in S /\ e[i].obj = s[e[i].key]
             /\ \A k \in S : \E i \in 1..Len(e) : Final(e, k, i) /\ e[i].obj = s[k]
<1> DEFINE e == Batch(q, s)
<1>e. e = [i \in 1..Len(q) |-> Delta(q[i], s[q[i]])]
  BY DEF Batch
<1> HIDE DEF e
<1>1. /\ q \in Seq(Keys) /\ Len(q) = Cardinality(S) /\ Len(q) \in Nat
      /\ \A i \in 1..Len(q) : q[i] \in S
      /\ \A i, j \in 1..Len(q) : q[i] = q[j] => i = j
      /\ \A k \in S : \E i \in 1..Len(q) : q[i] = k
  BY Ordered
<1>2. \A i \in 1..Len(q) : Delta(q[i], s[q[i]]) \in Deltas
  BY <1>1 DEF Delta, Deltas, States
<1>3. e \in Seq(Deltas) /\ Len(e) = Len(q)
  BY <1>1, <1>2, <1>e
<1>4. \A i \in 1..Len(q) : e[i].key = q[i] /\ e[i].obj = s[q[i]]
  BY <1>e DEF Delta
<1>5. ASSUME NEW k \in S PROVE \E i \in 1..Len(e) : Final(e, k, i) /\ e[i].obj = s[k]
  <2>1. PICK i \in 1..Len(q) : q[i] = k
    BY <1>1
  <2> QED
    BY <1>1, <1>3, <1>4, <2>1 DEF Final
<1> QED
  BY <1>1, <1>3, <1>4, <1>5 DEF e

LEMMA ListType ==
  ASSUME ServerInv, NEW v \in 1..Len(log)
  PROVE  /\ ListFrom(v, Scope) \in States
         /\ \A k \in Keys : /\ Sound(ListFrom(v, Scope)[k])
                            /\ k[1] \in Scope => ListFrom(v, Scope)[k] = log[v][k]
                            /\ Lasting(k) => ListFrom(v, Scope)[k].rv > 0
<1>1. log[v] \in States
  BY DEF ServerInv, ServerTypes
<1>2. \A k \in Keys : ListFrom(v, Scope)[k] = IF k[1] \in Scope THEN log[v][k] ELSE NoObject
  BY DEF ListFrom
<1>3. ListFrom(v, Scope) \in States
  BY <1>1, NoObjectType DEF ListFrom, States
<1> QED
  BY <1>2, <1>3 DEF Sound, Lasting, ServerInv, Versions

(* Later writes do not change what was listed. *)
LEMMA StoreStays ==
  ASSUME ServerInv, StoreInv, Grown, inf' = inf
  PROVE  StoreInv'
<1>1. InformerTypes'
  BY DEF StoreInv, InformerTypes, Grown, ServerInv, ServerTypes
<1>2. QueueShows'
  <2>1. CASE inf.listed
    <3>1. inf.at \in 1..Len(log)
      BY <2>1 DEF StoreInv, InformerTypes, ServerInv, ServerTypes
    <3>2. log'[inf.at] = log[inf.at]
      BY <3>1 DEF Grown
    <3>3. ListFrom(inf.at, Scope)' = ListFrom(inf.at, Scope)
      BY <3>2 DEF ListFrom
    <3> QED
      BY <3>3 DEF StoreInv, QueueShows
  <2>2. CASE ~inf.listed
    BY <2>2 DEF QueueShows
  <2> QED
    BY <2>1, <2>2
<1>3. Filling'
  <2>1. \A k \in Keys : Lasting(k)' => Lasting(k)
    BY DEF Lasting, Grown, ServerInv, ServerTypes
  <2> QED
    BY <2>1 DEF StoreInv, Filling
<1> QED
  BY <1>1, <1>2, <1>3 DEF StoreInv

LEMMA ListStores ==
  ASSUME ServerInv, StoreInv, NEW v \in 1..Len(log), List(v)
  PROVE  StoreInv' /\ inf'.listed /\ (inf.listed => inf'.initial = inf.initial)
<1> DEFINE st == ListFrom(v, Scope)
           listed == {k \in Keys : st[k].rv > 0}
           known == {k \in Keys : inf.store[k].rv > 0} \cup DeltaKeys
<1>1. /\ inf \in [pc: {"list", "watch"}, at: Nat, listed: BOOLEAN, initial: Nat,
                  queue: Seq(Deltas), store: States]
      /\ v \in Nat /\ v > 0 /\ v <= Len(log) /\ log' = log
  BY DEF StoreInv, InformerTypes, ServerInv, ServerTypes, List, clientVars
<1>2. st \in States /\ \A k \in Keys : Sound(st[k]) /\ st[k].rv \in Nat
  BY ListType DEF States, Objects
<1>3. listed \in SUBSET Keys /\ known \ listed \in SUBSET Keys
  <2>1. \A i \in 1..Len(inf.queue) : inf.queue[i].key \in Keys
    <3>1. inf.queue \in Seq(Deltas)
      BY <1>1
    <3>2. \A i \in 1..Len(inf.queue) : inf.queue[i] \in Deltas
      BY <3>1
    <3> QED
      BY <3>2 DEF Deltas
  <2>2. DeltaKeys \subseteq Keys
    BY <2>1 DEF DeltaKeys
  <2> QED
    BY <2>2
<1>4. PICK q \in SetToSeqs(listed), d \in SetToSeqs(known \ listed) :
        inf' = [inf EXCEPT !.pc = "watch", !.at = v, !.listed = TRUE,
                  !.initial = IF inf.listed THEN @ ELSE Cardinality(listed),
                  !.queue = @ \o Batch(q, st)
                              \o [i \in 1..Len(d) |-> Delta(d[i], NoObject)]]
  BY DEF List, Batch
<1> DEFINE a == Batch(q, st)
           b == [i \in 1..Len(d) |-> Delta(d[i], NoObject)]
           m == inf.queue \o a
           w == m \o b
<1>o. q \in Orders(listed) /\ d \in Orders(known \ listed)
  BY DEF Orders
<1> HIDE DEF st, known, listed
<1>5. /\ a \in Seq(Deltas) /\ Len(a) = Cardinality(listed) /\ Cardinality(listed) \in Nat
      /\ \A i \in 1..Len(a) : a[i].key \in listed /\ a[i].obj = st[a[i].key]
      /\ \A k \in listed : \E i \in 1..Len(a) : Final(a, k, i) /\ a[i].obj = st[k]
  <2> HIDE DEF a
  <2>1. st \in States /\ listed \in SUBSET Keys
    BY <1>2, <1>3
  <2>2. LET e == Batch(q, st)
        IN  /\ e \in Seq(Deltas) /\ Len(e) = Cardinality(listed) /\ Cardinality(listed) \in Nat
            /\ \A i \in 1..Len(e) : e[i].key \in listed /\ e[i].obj = st[e[i].key]
            /\ \A k \in listed : \E i \in 1..Len(e) : Final(e, k, i) /\ e[i].obj = st[k]
    BY <1>o, <2>1, BatchEntries
  <2> QED
    BY <2>2 DEF a
<1>6. /\ b \in Seq(Deltas)
      /\ \A i \in 1..Len(b) : b[i].key \in known \ listed /\ b[i].obj = NoObject
      /\ \A k \in known \ listed : \E i \in 1..Len(b) : Final(b, k, i) /\ b[i].obj = NoObject
  <2> DEFINE c == Batch(d, Nothing)
  <2>1. /\ c \in Seq(Deltas)
        /\ \A i \in 1..Len(c) : c[i].key \in known \ listed /\ c[i].obj = Nothing[c[i].key]
        /\ \A k \in known \ listed : \E i \in 1..Len(c) : Final(c, k, i) /\ c[i].obj = Nothing[k]
    <3> DEFINE S == known \ listed
    <3>1. S \in SUBSET Keys /\ d \in Orders(S) /\ Nothing \in States
      BY <1>o, <1>3, NoObjectType
    <3> HIDE DEF S
    <3>2. /\ Batch(d, Nothing) \in Seq(Deltas)
          /\ \A i \in 1..Len(Batch(d, Nothing)) :
               /\ Batch(d, Nothing)[i].key \in S
               /\ Batch(d, Nothing)[i].obj = Nothing[Batch(d, Nothing)[i].key]
          /\ \A k \in S : \E i \in 1..Len(Batch(d, Nothing)) :
               Final(Batch(d, Nothing), k, i) /\ Batch(d, Nothing)[i].obj = Nothing[k]
      BY <3>1, BatchEntries
    <3> QED
      BY <3>2 DEF S
  <2>2. \A i \in 1..Len(d) : d[i] \in Keys
    BY <1>o, <1>3, Ordered
  <2>3. \A k \in Keys : Nothing[k] = NoObject
    BY DEF Nothing
  <2>4. c = b
    BY <2>2, <2>3 DEF Batch
  <2> HIDE DEF c, b
  <2> QED
    BY <1>3, <2>1, <2>3, <2>4
<1>7. /\ inf'.pc = "watch" /\ inf'.at = v /\ inf'.listed /\ inf'.store = inf.store /\ inf'.queue = w
      /\ inf'.initial = IF inf.listed THEN inf.initial ELSE Cardinality(listed)
      /\ DOMAIN inf' = DOMAIN inf
  BY <1>1, <1>4
<1> HIDE DEF a, b
<1>8. /\ m \in Seq(Deltas) /\ Len(m) = Len(inf.queue) + Len(a)
      /\ \A i \in 1..Len(inf.queue) : m[i] = inf.queue[i]
      /\ \A i \in 1..Len(a) : m[Len(inf.queue) + i] = a[i]
      /\ \A i \in 1..Len(m) : i \in 1..Len(inf.queue) \/ \E j \in 1..Len(a) : i = Len(inf.queue) + j
  BY <1>1, <1>5, Joined
<1> HIDE DEF m
<1>9. /\ w \in Seq(Deltas) /\ Len(w) = Len(m) + Len(b) /\ Len(b) \in Nat
      /\ \A i \in 1..Len(m) : w[i] = m[i]
      /\ \A i \in 1..Len(b) : w[Len(m) + i] = b[i]
      /\ \A i \in 1..Len(w) : i \in 1..Len(m) \/ \E j \in 1..Len(b) : i = Len(m) + j
  BY <1>6, <1>8, Joined
<1> HIDE DEF w
<1>10. \A i \in 1..Len(w) :
         \/ \E j \in 1..Len(inf.queue) : w[i] = inf.queue[j]
         \/ \E j \in 1..Len(a) : w[i] = a[j]
         \/ \E j \in 1..Len(b) : w[i] = b[j]
  <2>1. \A i \in 1..Len(m) : \/ \E j \in 1..Len(inf.queue) : m[i] = inf.queue[j]
                            \/ \E j \in 1..Len(a) : m[i] = a[j]
    BY <1>8
  <2>2. ASSUME NEW i \in 1..Len(m)
        PROVE  \/ \E j \in 1..Len(inf.queue) : w[i] = inf.queue[j]
               \/ \E j \in 1..Len(a) : w[i] = a[j]
    <3>1. w[i] = m[i]
      BY <1>9
    <3> QED
      BY <2>1, <3>1
  <2>3. ASSUME NEW i \in 1..Len(w), i \notin 1..Len(m)
        PROVE  \E j \in 1..Len(b) : w[i] = b[j]
    BY <1>9, <2>3
  <2> QED
    BY <2>2, <2>3
<1>11. InformerTypes'
  <2>1. inf' \in [pc: {"list", "watch"}, at: Nat, listed: BOOLEAN, initial: Nat,
                  queue: Seq(Deltas), store: States]
    BY <1>1, <1>4, <1>5, <1>7, <1>9
  <2>2. \A i \in 1..Len(w) : Sound(w[i].obj)
    <3>1. \A i \in 1..Len(a) : Sound(a[i].obj)
      BY <1>2, <1>3, <1>5
    <3>2. \A i \in 1..Len(b) : Sound(b[i].obj)
      BY <1>6 DEF Sound
    <3>3. \A i \in 1..Len(inf.queue) : Sound(inf.queue[i].obj)
      BY DEF StoreInv, InformerTypes
    <3> QED
      BY <1>10, <3>1, <3>2, <3>3
  <2> QED
    BY <1>1, <1>7, <2>1, <2>2 DEF StoreInv, InformerTypes
<1>12. QueueShows'
  <2>1. ListFrom(v, Scope)' = st
    BY <1>1 DEF ListFrom, st
  <2>2. ASSUME NEW k \in Keys PROVE Shows(w, inf.store, k, st[k])
    <3>1. CASE k \in listed
      <4>1. Shows(m, inf.store, k, st[k])
        BY <1>1, <1>5, <3>1, ShowsNew DEF m
      <4>2. ~Mentions(b, k)
        BY <1>6, <3>1 DEF Mentions
      <4> QED
        BY <1>6, <1>8, <4>1, <4>2, ShowsStill DEF w
    <3>2. CASE k \in known \ listed
      <4>1. st[k] = NoObject
        BY <1>2, <3>2 DEF listed, Sound
      <4> QED
        BY <1>6, <1>8, <3>2, <4>1, ShowsNew DEF w
    <3>3. CASE k \notin listed /\ k \notin known
      <4>1. st[k] = NoObject
        BY <1>2, <3>3 DEF listed, Sound
      <4>2. inf.store[k] = NoObject /\ ~Mentions(inf.queue, k)
        <5>1. ~(inf.store[k].rv > 0) /\ k \notin DeltaKeys
          BY <3>3 DEF known
        <5>2. inf.store[k].rv \in Nat /\ Sound(inf.store[k])
          BY <1>1 DEF States, Objects, StoreInv, InformerTypes
        <5>3. ~Mentions(inf.queue, k)
          BY <5>1 DEF Mentions, DeltaKeys
        <5> QED
          BY <5>1, <5>2, <5>3 DEF Sound
      <4>3. ~Mentions(w, k)
        <5>1. ~Mentions(a, k)
          BY <1>5, <3>3 DEF Mentions
        <5>2. ~Mentions(b, k)
          BY <1>6, <3>3 DEF Mentions
        <5> QED
          BY <1>10, <4>2, <5>1, <5>2 DEF Mentions
      <4> QED
        BY <4>1, <4>2, <4>3 DEF Shows
    <3> QED
      BY <3>1, <3>2, <3>3
  <2> QED
    BY <1>7, <2>1, <2>2 DEF QueueShows
<1>13. Filling'
  <2>1. inf'.initial <= Len(w)
    <3>1. inf.initial <= Len(inf.queue) /\ inf.initial \in Nat /\ Len(inf.queue) \in Nat
      BY <1>1 DEF StoreInv, Filling
    <3>2. Len(w) = Len(inf.queue) + Len(a) + Len(b) /\ Len(b) \in Nat /\ Len(a) \in Nat
      BY <1>5, <1>8, <1>9
    <3> QED
      BY <1>5, <1>7, <3>1, <3>2
  <2>2. ASSUME NEW k \in Keys, Lasting(k)'
        PROVE  /\ inf.store[k].rv > 0 \/ \E i \in 1..inf'.initial : w[i].key = k
               /\ \A i \in 1..Len(w) : w[i].key = k => w[i].obj.rv > 0
    <3>1. Lasting(k)
      BY <1>1, <2>2 DEF Lasting
    <3>2. st[k].rv > 0 /\ k \in listed
      BY <3>1, ListType DEF st, listed
    <3>a. \A i \in 1..Len(a) : a[i].key = k => a[i].obj.rv > 0
      BY <1>5, <3>2
    <3>b. \A i \in 1..Len(b) : b[i].key # k
      BY <1>6, <3>2
    <3>3. CASE inf.listed
      <4>1. /\ inf.store[k].rv > 0 \/ \E i \in 1..inf.initial : inf.queue[i].key = k
            /\ \A i \in 1..Len(inf.queue) : inf.queue[i].key = k => inf.queue[i].obj.rv > 0
            /\ inf.initial <= Len(inf.queue)
        BY <3>1, <3>3 DEF StoreInv, Filling
      <4>2. \A i \in 1..inf.initial : i \in 1..Len(inf.queue) /\ w[i] = inf.queue[i]
        <5>1. \A i \in 1..inf.initial : i \in 1..Len(inf.queue)
          BY <1>1, <4>1
        <5>2. \A i \in 1..Len(inf.queue) : i \in 1..Len(m)
          BY <1>1, <1>5, <1>8
        <5> QED
          BY <1>8, <1>9, <5>1, <5>2
      <4>3. \A i \in 1..Len(w) : w[i].key = k => w[i].obj.rv > 0
        BY <1>10, <3>a, <3>b, <4>1
      <4> QED
        BY <1>7, <3>3, <4>1, <4>2, <4>3
    <3>4. CASE ~inf.listed
      <4>1. Len(inf.queue) = 0
        BY <3>4 DEF StoreInv, InformerTypes
      <4>2. PICK i \in 1..Len(a) : a[i].key = k
        BY <1>5, <3>2 DEF Final
      <4>3. i \in 1..inf'.initial
        BY <1>5, <1>7, <3>4
      <4>4. m[i] = a[i] /\ i \in 1..Len(m)
        BY <1>5, <1>8, <4>1
      <4>5. w[i].key = k
        BY <1>9, <4>2, <4>4
      <4>6. \A j \in 1..Len(w) : w[j].key = k => w[j].obj.rv > 0
        <5>1. 1..Len(inf.queue) = {}
          BY <4>1
        <5> QED
          BY <1>10, <3>a, <3>b, <5>1
      <4> QED
        BY <4>3, <4>5, <4>6
    <3> QED
      BY <3>3, <3>4
  <2> QED
    BY <1>7, <2>1, <2>2 DEF Filling
<1> QED
  BY <1>7, <1>11, <1>12, <1>13 DEF StoreInv

LEMMA EventStores ==
  ASSUME ServerInv, StoreInv, Event
  PROVE  StoreInv' /\ inf'.listed = inf.listed /\ inf'.initial = inf.initial
<1> DEFINE u == inf.at
           S == WatchAfter(u, Scope)
           q == SetToSeq(S)
           a == Batch(q, log[u + 1])
           w == inf.queue \o a
<1>1. /\ inf \in [pc: {"list", "watch"}, at: Nat, listed: BOOLEAN, initial: Nat,
                  queue: Seq(Deltas), store: States]
      /\ inf.listed /\ u \in 1..Len(log) /\ u + 1 \in 1..Len(log) /\ u \in Nat /\ log' = log
  BY DEF StoreInv, InformerTypes, ServerInv, ServerTypes, Event, clientVars
<1>2. inf' = [inf EXCEPT !.at = u + 1, !.queue = w]
  <2>1. LET v == WatchFrom(inf.at)
            p == SetToSeq(WatchAfter(v - 1, Scope))
        IN  inf' = [inf EXCEPT !.at = v,
                      !.queue = @ \o [i \in 1..Len(p) |-> Delta(p[i], log[v][p[i]])]]
    BY DEF Event
  <2>2. WatchFrom(inf.at) = u + 1 /\ WatchFrom(inf.at) - 1 = u
    BY <1>1 DEF WatchFrom
  <2> QED
    BY <2>1, <2>2 DEF Batch
<1>3. S \in SUBSET Keys /\ log[u + 1] \in States
  BY <1>1 DEF WatchAfter, ServerInv, ServerTypes
<1>4. /\ a \in Seq(Deltas)
      /\ \A i \in 1..Len(a) : a[i].key \in S /\ a[i].obj = log[u + 1][a[i].key]
      /\ \A k \in S : \E i \in 1..Len(a) : Final(a, k, i) /\ a[i].obj = log[u + 1][k]
  <2>1. q = SetToSeq(S)
    OBVIOUS
  <2> DEFINE s == log[u + 1]
  <2>2. s \in States /\ S \in SUBSET Keys
    BY <1>3
  <2> HIDE DEF S, q, s
  <2>3. /\ Batch(q, s) \in Seq(Deltas)
        /\ \A i \in 1..Len(Batch(q, s)) :
             Batch(q, s)[i].key \in S /\ Batch(q, s)[i].obj = s[Batch(q, s)[i].key]
        /\ \A k \in S : \E i \in 1..Len(Batch(q, s)) :
             Final(Batch(q, s), k, i) /\ Batch(q, s)[i].obj = s[k]
    <3>1. q \in Orders(S)
      BY <2>1 DEF Orders
    <3> HIDE DEF a, w, u
    <3> QED
      BY <2>2, <3>1, BatchEntries
  <2> QED
    BY <2>3 DEF s
<1> HIDE DEF a
<1>5. /\ w \in Seq(Deltas) /\ Len(w) = Len(inf.queue) + Len(a) /\ Len(a) \in Nat
      /\ Len(inf.queue) \in Nat
      /\ \A i \in 1..Len(inf.queue) : w[i] = inf.queue[i]
      /\ \A i \in 1..Len(a) : w[Len(inf.queue) + i] = a[i]
      /\ \A i \in 1..Len(w) : i \in 1..Len(inf.queue) \/ \E j \in 1..Len(a) : i = Len(inf.queue) + j
  BY <1>1, <1>4, Joined
<1> HIDE DEF w
<1>6. \A i \in 1..Len(w) :
        \/ \E j \in 1..Len(inf.queue) : w[i] = inf.queue[j]
        \/ \E j \in 1..Len(a) : w[i] = a[j]
  BY <1>5
<1>7. /\ inf'.at = u + 1 /\ inf'.queue = w
      /\ inf'.pc = inf.pc /\ inf'.listed = inf.listed /\ inf'.initial = inf.initial
      /\ inf'.store = inf.store
  BY <1>1, <1>2
<1>8. InformerTypes'
  <2>1. inf' \in [pc: {"list", "watch"}, at: Nat, listed: BOOLEAN, initial: Nat,
                  queue: Seq(Deltas), store: States]
    <3>1. u + 1 \in Nat
      BY <1>1
    <3> HIDE DEF u
    <3> QED
      BY <1>1, <1>2, <1>5, <3>1
  <2>2. \A i \in 1..Len(w) : Sound(w[i].obj)
    <3>1. \A k \in Keys : Sound(log[u + 1][k])
      BY <1>1 DEF Sound, ServerInv, Versions
    <3>2. \A i \in 1..Len(a) : Sound(a[i].obj)
      BY <1>3, <1>4, <3>1
    <3>3. \A i \in 1..Len(inf.queue) : Sound(inf.queue[i].obj)
      BY DEF StoreInv, InformerTypes
    <3> QED
      BY <1>6, <3>2, <3>3
  <2> QED
    BY <1>1, <1>7, <2>1, <2>2 DEF StoreInv, InformerTypes
<1>9. QueueShows'
  <2>1. ListFrom(inf.at, Scope)' = ListFrom(u + 1, Scope)
    BY <1>1, <1>7 DEF ListFrom
  <2>2. ASSUME NEW k \in Keys PROVE Shows(w, inf.store, k, ListFrom(u + 1, Scope)[k])
    <3>1. CASE k \in S
      <4>1. ListFrom(u + 1, Scope)[k] = log[u + 1][k]
        BY <3>1 DEF WatchAfter, ListFrom
      <4> QED
        BY <1>1, <1>4, <3>1, <4>1, ShowsNew DEF w
    <3>2. CASE k \notin S
      <4>1. ListFrom(u + 1, Scope)[k] = ListFrom(u, Scope)[k]
        BY <3>2 DEF WatchAfter, ListFrom
      <4>2. ~Mentions(a, k)
        BY <1>4, <3>2 DEF Mentions
      <4>3. Shows(inf.queue, inf.store, k, ListFrom(u, Scope)[k])
        BY <1>1 DEF StoreInv, QueueShows
      <4> QED
        BY <1>1, <1>4, <4>1, <4>2, <4>3, ShowsStill DEF w
    <3> QED
      BY <3>1, <3>2
  <2> QED
    BY <1>7, <2>1, <2>2 DEF QueueShows
<1>10. Filling'
  <2>1. inf.initial <= Len(inf.queue) /\ inf.initial \in Nat
    BY <1>1 DEF StoreInv, Filling
  <2>2. ASSUME NEW k \in Keys, Lasting(k)'
        PROVE  /\ inf.store[k].rv > 0 \/ \E i \in 1..inf.initial : w[i].key = k
               /\ \A i \in 1..Len(w) : w[i].key = k => w[i].obj.rv > 0
    <3>1. Lasting(k)
      BY <1>1, <2>2 DEF Lasting
    <3>2. log[u + 1][k].rv > 0
      BY <1>1, <3>1 DEF Lasting
    <3>3. /\ inf.store[k].rv > 0 \/ \E i \in 1..inf.initial : inf.queue[i].key = k
          /\ \A i \in 1..Len(inf.queue) : inf.queue[i].key = k => inf.queue[i].obj.rv > 0
      BY <1>1, <3>1 DEF StoreInv, Filling
    <3>4. \A i \in 1..inf.initial : w[i] = inf.queue[i]
      BY <1>5, <2>1
    <3>5. \A i \in 1..Len(a) : a[i].key = k => a[i].obj.rv > 0
      BY <1>4, <3>2
    <3> QED
      BY <1>6, <3>3, <3>4, <3>5
  <2> QED
    BY <1>5, <1>7, <2>1, <2>2 DEF Filling
<1> QED
  BY <1>7, <1>8, <1>9, <1>10 DEF StoreInv

LEMMA PopStores ==
  ASSUME ServerInv, StoreInv, Pop
  PROVE  StoreInv' /\ inf'.listed = inf.listed /\ (inf.initial = 0 => inf'.initial = 0)
<1> DEFINE q == inf.queue
           w == Tail(q)
           st == [inf.store EXCEPT ![Head(q).key] = Head(q).obj]
<1>1. /\ inf \in [pc: {"list", "watch"}, at: Nat, listed: BOOLEAN, initial: Nat,
                  queue: Seq(Deltas), store: States]
      /\ q # <<>> /\ inf.listed /\ log' = log
  BY DEF StoreInv, InformerTypes, Pop, clientVars
<1>2. /\ Len(q) \in Nat /\ Len(q) > 0 /\ w \in Seq(Deltas) /\ Len(w) = Len(q) - 1 /\ Head(q) = q[1]
      /\ q[1] \in Deltas /\ \A i \in 1..Len(w) : i + 1 \in 1..Len(q) /\ w[i] = q[i + 1]
  BY <1>1
<1>3. st \in States /\ \A k \in Keys : st[k] = IF q[1].key = k THEN q[1].obj ELSE inf.store[k]
  BY <1>1, <1>2 DEF States, Deltas
<1>4. inf' = [inf EXCEPT !.store = st, !.queue = w, !.initial = IF @ > 0 THEN @ - 1 ELSE 0]
  BY <1>1 DEF Pop
<1> HIDE DEF w, st
<1>5. /\ inf'.at = inf.at /\ inf'.queue = w /\ inf'.store = st
      /\ inf'.pc = inf.pc /\ inf'.listed = inf.listed
      /\ inf'.initial = IF inf.initial > 0 THEN inf.initial - 1 ELSE 0
  BY <1>1, <1>4
<1>6. InformerTypes'
  <2>1. inf'.initial \in Nat
    BY <1>1, <1>5
  <2>2. inf' \in [pc: {"list", "watch"}, at: Nat, listed: BOOLEAN, initial: Nat,
                  queue: Seq(Deltas), store: States]
    BY <1>1, <1>2, <1>3, <1>4, <1>5, <2>1
  <2>3. /\ \A i \in 1..Len(w) : Sound(w[i].obj)
        /\ \A k \in Keys : Sound(st[k])
    <3>1. /\ \A i \in 1..Len(q) : Sound(q[i].obj)
          /\ \A k \in Keys : Sound(inf.store[k])
      BY DEF StoreInv, InformerTypes
    <3>2. 1 \in 1..Len(q)
      BY <1>2
    <3> QED
      BY <1>2, <1>3, <3>1, <3>2
  <2> QED
    BY <1>1, <1>5, <2>2, <2>3 DEF StoreInv, InformerTypes
<1>7. QueueShows'
  <2>1. ListFrom(inf.at, Scope)' = [k \in Keys |-> IF k[1] \in Scope THEN log[inf.at][k] ELSE NoObject]
    BY <1>1, <1>5 DEF ListFrom
  <2>2. ListFrom(inf.at, Scope)' = ListFrom(inf.at, Scope)
    BY <2>1 DEF ListFrom
  <2>3. ASSUME NEW k \in Keys PROVE Shows(w, st, k, ListFrom(inf.at, Scope)[k])
    BY <1>1, ShowsPopped DEF StoreInv, QueueShows, w, st
  <2> QED
    BY <1>5, <2>2, <2>3 DEF QueueShows
<1>8. Filling'
  <2>1. inf.initial <= Len(q) /\ inf.initial \in Nat
    BY <1>1 DEF StoreInv, Filling
  <2>2. ASSUME NEW k \in Keys, Lasting(k)'
        PROVE  /\ st[k].rv > 0 \/ \E i \in 1..inf'.initial : w[i].key = k
               /\ \A i \in 1..Len(w) : w[i].key = k => w[i].obj.rv > 0
    <3>1. Lasting(k)
      BY <1>1, <2>2 DEF Lasting
    <3>2. /\ inf.store[k].rv > 0 \/ \E i \in 1..inf.initial : q[i].key = k
          /\ \A i \in 1..Len(q) : q[i].key = k => q[i].obj.rv > 0
      BY <1>1, <3>1 DEF StoreInv, Filling
    <3>3. CASE inf.store[k].rv > 0 \/ q[1].key = k
      BY <1>2, <1>3, <3>2, <3>3
    <3>4. CASE q[1].key # k /\ \E i \in 1..inf.initial : q[i].key = k
      <4>1. PICK i \in 1..inf.initial : q[i].key = k
        BY <3>4
      <4>2. i # 1
        BY <3>4, <4>1
      <4>3. i - 1 \in 1..inf'.initial /\ i - 1 \in 1..Len(w) /\ (i - 1) + 1 = i
        BY <1>2, <1>5, <2>1, <4>2
      <4>4. w[i - 1] = q[i]
        BY <1>2, <4>3
      <4> QED
        BY <1>2, <3>2, <4>1, <4>3, <4>4
    <3> QED
      BY <3>2, <3>3, <3>4
  <2> QED
    BY <1>2, <1>5, <2>1, <2>2 DEF Filling
<1> QED
  BY <1>1, <1>5, <1>6, <1>7, <1>8 DEF StoreInv

LEMMA StoreInitially == Init => StoreInv /\ Answered /\ Waiting
<1> SUFFICES ASSUME Init PROVE StoreInv /\ Answered /\ Waiting
  OBVIOUS
<1>1. /\ inf.pc = "list" /\ inf.at = 0 /\ ~inf.listed /\ inf.initial = 0
      /\ inf.queue = <<>> /\ inf.store = Nothing
  BY DEF Init
<1>2. inf \in [pc: {"list", "watch"}, at: Nat, listed: BOOLEAN, initial: Nat,
               queue: Seq(Deltas), store: States]
  BY NoObjectType DEF Init
<1>3. Len(log) \in Nat /\ Len(inf.queue) = 0
  BY <1>1, ServerInitially DEF ServerInv, ServerTypes
<1>4. \A k \in Keys : Sound(Nothing[k])
  BY DEF Nothing, Sound
<1>5. \A c \in Callers : call[c].res[TZCronJob] # {TRUE}
  BY FactoryAssumption DEF Init, Idle
<1>6. InformerTypes
  BY <1>1, <1>2, <1>3, <1>4 DEF InformerTypes
<1>7. QueueShows
  BY <1>1 DEF QueueShows
<1>8. Filling
  BY <1>1, <1>3 DEF Filling
<1>9. Answered
  BY <1>5 DEF Answered
<1>10. Waiting
  BY DEF Init, Idle, Waiting
<1> QED
  BY <1>6, <1>7, <1>8, <1>9, <1>10 DEF StoreInv

(* What a call returned stays; a new answer "in sync" is given when the    *)
(* first list is in the store.                                             *)
LEMMA AnswersHold ==
  ASSUME FactoryInv, Answered, Waiting, NEW c \in Callers,
         CallStep(c) \/ \E op \in Ops, t \in Types : Begin(c, op, t)
  PROVE  inf' = inf /\ Answered' /\ Waiting'
<1> DEFINE was == call[c]
<1>0. was \in Calls /\ \A d \in Callers : call[d] \in Calls
  BY DEF FactoryInv, FactoryTypes
<1>1. inf' = inf
  BY DEF CallStep, Lock, LookUp, Register, StartNext, EndStart, Snapshot, WaitNext, EndWait, Begin
<1>s. started \subseteq started' /\ started' \subseteq Registered'
  <2>1. CASE Register(c)
    <3>1. started' = started /\ was.type \in Types /\ made[was.type] \in Nat
      BY <1>0, <2>1 DEF Register, FactoryInv, FactoryTypes, Calls
    <3>2. informers' = [informers EXCEPT ![was.type] = made[was.type] + 1]
      BY <2>1 DEF Register
    <3> QED
      BY <3>1, <3>2 DEF Waiting, Registered, FactoryInv, FactoryTypes
  <2>2. CASE StartNext(c)
    BY <2>2 DEF StartNext, MarkStarted, Waiting, Registered
  <2>3. CASE UNCHANGED <<informers, started>>
    BY <2>3 DEF Waiting, Registered
  <2> QED
    BY <2>1, <2>2, <2>3
    DEF CallStep, Lock, LookUp, EndStart, Snapshot, WaitNext, EndWait, Begin
<1> DEFINE Good == Answered' /\ Waiting'
<1> SUFFICES Good
  BY <1>1
<1>2. ASSUME NEW x \in Calls, call' = [call EXCEPT ![c] = x],
             x.res[TZCronJob] = {TRUE} => inf.listed /\ inf.initial = 0, x.todo \subseteq started'
      PROVE  Good
  <2>1. Answered'
    BY <1>1, <1>2, OthersStay DEF Answered
  <2>2. Waiting'
    BY <1>s, <1>2, OthersStay DEF Waiting
  <2> QED
    BY <2>1, <2>2
<1>3. ASSUME NEW x \in Calls, call' = [call EXCEPT ![c] = x], x.res = was.res,
             x.todo \subseteq was.todo
      PROVE  Good
  BY <1>s, <1>2, <1>3 DEF Answered, Waiting
<1> HIDE DEF Good
<1>4. ASSUME NEW op \in Ops, NEW t \in Types, Begin(c, op, t) PROVE Good
  <2> DEFINE x == [Idle EXCEPT !.pc = "lock", !.op = op, !.type = t]
  <2>1. x \in Calls /\ x.res[TZCronJob] = {} /\ x.todo = {}
    BY FactoryAssumption DEF Idle, Calls, Phases
  <2>2. call' = [call EXCEPT ![c] = x]
    BY <1>4 DEF Begin
  <2> HIDE DEF x
  <2> QED
    BY <1>2, <2>1, <2>2
<1>5. ASSUME NEW l \in Phases, Goto(c, l) PROVE Good
  <2> DEFINE x == [was EXCEPT !.pc = l]
  <2>1. x \in Calls /\ x.res = was.res /\ x.todo = was.todo
    BY <1>0 DEF Calls
  <2>2. call' = [call EXCEPT ![c] = x]
    BY <1>5 DEF Goto
  <2> HIDE DEF x
  <2> QED
    BY <1>3, <2>1, <2>2
<1>6. CASE Lock(c) \/ EndStart(c) \/ EndWait(c)
  <2>1. "idle" \in Phases /\ (At(c, "lock") => was.op \in Phases)
    BY DEF FactoryInv, Exclusive, At, Phases, Ops
  <2>2. Goto(c, "idle") \/ (At(c, "lock") /\ Goto(c, was.op))
    BY <1>6 DEF Lock, EndStart, EndWait
  <2> QED
    BY <1>5, <2>1, <2>2
<1>7. CASE LookUp(c)
  <2> DEFINE i == informers[was.type]
             x == [was EXCEPT !.pc = "idle", !.ref = i]
  <2>1. i \in Nat
    BY <1>0 DEF FactoryInv, FactoryTypes, Calls
  <2>2. x \in Calls /\ x.res = was.res /\ x.todo = was.todo
    BY <1>0, <2>1 DEF Calls, Phases
  <2>3. CASE Goto(c, "new")
    BY <1>5, <2>3 DEF Phases
  <2>4. CASE call' = [call EXCEPT ![c] = x]
    <3> HIDE DEF x
    <3> QED
      BY <1>3, <2>2, <2>4
  <2>5. Goto(c, "new") \/ call' = [call EXCEPT ![c].pc = "idle", ![c].ref = i]
    BY <1>7 DEF LookUp
  <2>6. [call EXCEPT ![c].pc = "idle", ![c].ref = i] = [call EXCEPT ![c] = x]
    BY DEF FactoryInv, FactoryTypes
  <2> QED
    BY <2>3, <2>4, <2>5, <2>6
<1>8. CASE Register(c)
  <2> DEFINE n == made[was.type] + 1
             x == [was EXCEPT !.pc = "idle", !.ref = n]
  <2>1. n \in Nat
    BY <1>0 DEF FactoryInv, FactoryTypes, Calls
  <2>2. x \in Calls /\ x.res = was.res /\ x.todo = was.todo
    BY <1>0, <2>1 DEF Calls, Phases
  <2>3. call' = [call EXCEPT ![c].pc = "idle", ![c].ref = n]
    BY <1>8 DEF Register
  <2>4. [call EXCEPT ![c].pc = "idle", ![c].ref = n] = [call EXCEPT ![c] = x]
    BY DEF FactoryInv, FactoryTypes
  <2> HIDE DEF x
  <2> QED
    BY <1>3, <2>2, <2>3, <2>4
<1>9. CASE StartNext(c)
  BY <1>s, <1>1, <1>9 DEF StartNext, Answered, Waiting, Good
<1>10. CASE Snapshot(c)
  <2> DEFINE x == [was EXCEPT !.pc = "wait", !.todo = Awaited]
  <2>1. x \in Calls /\ x.res = was.res /\ x.todo \subseteq started
    BY <1>0 DEF Calls, Phases, Awaited, Registered
  <2>2. call' = [call EXCEPT ![c].pc = "wait", ![c].todo = Awaited]
    BY <1>10 DEF Snapshot
  <2>3. [call EXCEPT ![c].pc = "wait", ![c].todo = Awaited] = [call EXCEPT ![c] = x]
    BY DEF FactoryInv, FactoryTypes
  <2> HIDE DEF x
  <2> QED
    BY <1>s, <1>2, <2>1, <2>2, <2>3 DEF Answered
<1>11. CASE WaitNext(c)
  <2>1. PICK t \in was.todo : \E b \in Answer(t) :
          call' = [call EXCEPT ![c].todo = @ \ {t}, ![c].res[t] = {b}]
    BY <1>11 DEF WaitNext
  <2>b. PICK b \in Answer(t) :
          call' = [call EXCEPT ![c].todo = @ \ {t}, ![c].res[t] = {b}]
    BY <2>1
  <2> DEFINE x == [was EXCEPT !.todo = @ \ {t}, !.res[t] = {b}]
  <2>2. t \in Types /\ b \in BOOLEAN
    BY <1>0 DEF Calls, Answer
  <2>3. x \in Calls /\ x.todo \subseteq was.todo /\ \A u \in Types : x.res[u] = IF u = t THEN {b} ELSE was.res[u]
    BY <1>0, <2>2 DEF Calls
  <2>4. [call EXCEPT ![c].todo = @ \ {t}, ![c].res[t] = {b}] = [call EXCEPT ![c] = x]
    BY DEF FactoryInv, FactoryTypes
  <2>5. (t = TZCronJob /\ b) => inf.listed /\ inf.initial = 0
    BY DEF Answer, HasSynced
  <2> HIDE DEF x
  <2>6. x.res[TZCronJob] = {TRUE} => inf.listed /\ inf.initial = 0
    <3>1. CASE t = TZCronJob
      BY <2>2, <2>3, <2>5, <3>1
    <3>2. CASE t # TZCronJob
      BY <2>3, <3>2, FactoryAssumption DEF Answered
    <3> QED
      BY <3>1, <3>2
  <2> QED
    BY <1>s, <1>2, <2>b, <2>3, <2>4, <2>6 DEF Waiting
<1> QED
  BY <1>1, <1>4, <1>6, <1>7, <1>8, <1>9, <1>10, <1>11 DEF CallStep

(* The inductive invariant of all of it. *)
AllInv == FactoryInv /\ ServerInv /\ StoreInv /\ Answered /\ Waiting

LEMMA AllAlways == AllInv /\ [Next]_vars => AllInv'
<1> SUFFICES ASSUME AllInv, [Next]_vars PROVE AllInv'
  OBVIOUS
<1>1. FactoryInv' /\ Grown /\ ServerInv'
  BY FactoryAlways, ServerAlways DEF AllInv
<1>2. CASE \E c \in Callers : CallStep(c) \/ \E op \in Ops, t \in Types : Begin(c, op, t)
  <2>1. inf' = inf /\ Answered' /\ Waiting'
    BY <1>2, AnswersHold DEF AllInv
  <2> QED
    BY <1>1, <2>1, StoreStays DEF AllInv
<1>3. CASE inf' = inf /\ UNCHANGED factoryVars
  <2>1. Answered' /\ Waiting'
    BY <1>3 DEF AllInv, Answered, Waiting, Registered, factoryVars
  <2> QED
    BY <1>1, <1>3, <2>1, StoreStays DEF AllInv
<1>4. ASSUME StoreInv', inf.listed => inf'.listed, UNCHANGED factoryVars,
             (inf.listed /\ inf.initial = 0) => inf'.initial = 0
      PROVE  AllInv'
  <2>1. Answered' /\ Waiting'
    BY <1>4 DEF AllInv, Answered, Waiting, Registered, factoryVars
  <2> QED
    BY <1>1, <1>4, <2>1 DEF AllInv
<1>5. CASE InformerStep
  <2>1. UNCHANGED factoryVars
    BY <1>5 DEF InformerStep, Event, Pop, List
  <2>2. CASE Event
    BY <1>4, <2>1, <2>2, EventStores DEF AllInv
  <2>3. CASE Pop
    BY <1>4, <2>1, <2>3, PopStores DEF AllInv
  <2>4. ASSUME NEW v \in 1..Len(log), List(v) PROVE AllInv'
    BY <1>4, <2>1, <2>4, ListStores DEF AllInv
  <2> QED
    BY <1>5, <2>2, <2>3, <2>4 DEF InformerStep
<1>6. CASE Break
  <2>1. inf' = [inf EXCEPT !.pc = "list"] /\ log' = log /\ UNCHANGED factoryVars
    BY <1>6 DEF Break
  <2>2. inf \in [pc: {"list", "watch"}, at: Nat, listed: BOOLEAN, initial: Nat,
                 queue: Seq(Deltas), store: States]
    BY DEF AllInv, StoreInv, InformerTypes
  <2>3. /\ inf' \in [pc: {"list", "watch"}, at: Nat, listed: BOOLEAN, initial: Nat,
                     queue: Seq(Deltas), store: States]
        /\ inf'.pc = "list" /\ inf'.at = inf.at /\ inf'.listed = inf.listed
        /\ inf'.initial = inf.initial /\ inf'.queue = inf.queue /\ inf'.store = inf.store
    BY <2>1, <2>2
  <2>4. InformerTypes'
    BY <2>1, <2>3 DEF AllInv, StoreInv, InformerTypes
  <2>5. ListFrom(inf.at, Scope)' = ListFrom(inf.at, Scope)
    BY <2>1, <2>3 DEF ListFrom
  <2>6. QueueShows'
    BY <2>3, <2>5 DEF AllInv, StoreInv, QueueShows
  <2>7. Filling'
    BY <2>1, <2>3 DEF AllInv, StoreInv, Filling, Lasting
  <2> QED
    BY <1>4, <2>1, <2>3, <2>4, <2>6, <2>7 DEF StoreInv
<1>7. (ClientStep /\ UNCHANGED <<factoryVars, inf, stopped>>) \/ Stop \/ UNCHANGED vars
        => inf' = inf /\ UNCHANGED factoryVars
  BY DEF Stop, vars, factoryVars
<1> QED
  BY <1>2, <1>3, <1>5, <1>6, <1>7, FactoryAssumption DEF Next, Ops

(* For any clients, keys, scope and callers, and any order of their steps: *)
(* what callers, the server and the informer know of each other.           *)
THEOREM InformersInvariant == Spec => []AllInv
<1>1. Init => AllInv
  BY FactoryInitially, ServerInitially, StoreInitially DEF AllInv
<1> QED
  BY <1>1, AllAlways, PTL DEF Spec

(* However often the watch breaks and however old the lists are, the store *)
(* with an empty queue is the server's at one instant.                     *)
THEOREM StoreIsConsistent == Spec => []StoreIsOneState
<1>1. AllInv => StoreIsOneState
  <2> SUFFICES ASSUME AllInv, inf.listed, inf.queue = <<>>
               PROVE  inf.store = ListFrom(inf.at, Scope)
    BY DEF StoreIsOneState
  <2>1. \A k \in Keys : ~Mentions(inf.queue, k)
    BY DEF Mentions
  <2>2. \A k \in Keys : inf.store[k] = ListFrom(inf.at, Scope)[k]
    BY <2>1 DEF AllInv, StoreInv, QueueShows, Shows
  <2>3. inf.store = [k \in Keys |-> inf.store[k]]
    BY DEF AllInv, StoreInv, InformerTypes, States
  <2>4. ListFrom(inf.at, Scope) = [k \in Keys |-> ListFrom(inf.at, Scope)[k]]
    BY DEF ListFrom
  <2> QED
    BY <2>2, <2>3, <2>4
<1> QED
  BY <1>1, InformersInvariant, PTL

(* A call of WaitForCacheSync that was answered "in sync" was told the     *)
(* truth, and it stays the truth.                                          *)
THEOREM SyncedMeansFilled == Spec => []SyncedStoreIsFilled
<1>1. AllInv => SyncedStoreIsFilled
  <2> SUFFICES ASSUME AllInv, NEW c \in Callers, call[c].res[TZCronJob] = {TRUE},
                      NEW k \in Keys, Lasting(k)
               PROVE  inf.store[k].rv > 0
    BY DEF SyncedStoreIsFilled, Lasting
  <2>1. inf.listed /\ inf.initial = 0
    BY DEF AllInv, Answered
  <2> QED
    BY <2>1 DEF AllInv, StoreInv, Filling
<1> QED
  BY <1>1, InformersInvariant, PTL

(* Of the budget nothing is taken that is not there. *)
Remains == left \in [{"gets", "writes", "calls", "breaks"} -> Nat] /\ stopped \in BOOLEAN

LEMMA RemainsSo == Remains /\ [Next]_vars => Remains'
<1> SUFFICES ASSUME Remains, [Next]_vars PROVE Remains'
  OBVIOUS
<1>1. left' = left \/ \E e \in {"gets", "writes", "calls", "breaks"} : Take(e)
  <2>1. ClientStep => \E e \in {"gets", "writes"} : Take(e)
    BY DEF ClientStep, Get, Create, Update, UpdateStatus, Patch, Delete, DeleteCollection
  <2>2. \A c \in Callers : CallStep(c) => left' = left
    BY DEF CallStep, Lock, LookUp, Register, StartNext, EndStart, Snapshot, WaitNext, EndWait, clientVars
  <2>3. \A c \in Callers : \A op, t : Begin(c, op, t) => Take("calls")
    BY DEF Begin
  <2>4. InformerStep \/ UNCHANGED vars => left' = left
    BY DEF InformerStep, Event, Pop, List, vars, clientVars
  <2>5. Break \/ Stop => Take("breaks")
    BY DEF Break, Stop
  <2> QED
    BY <2>1, <2>2, <2>3, <2>4, <2>5 DEF Next
<1>2. stopped' = stopped \/ stopped' = TRUE
  <2>1. \A c \in Callers : CallStep(c) => stopped' = stopped
    BY DEF CallStep, Lock, LookUp, Register, StartNext, EndStart, Snapshot, WaitNext, EndWait
  <2>2. \A c \in Callers : \A op, t : Begin(c, op, t) => stopped' = stopped
    BY DEF Begin
  <2>3. InformerStep \/ Break \/ Stop \/ UNCHANGED vars => stopped' = stopped \/ stopped' = TRUE
    BY DEF InformerStep, Event, Pop, List, Break, Stop, vars
  <2> QED
    BY <2>1, <2>2, <2>3 DEF Next
<1>3. ASSUME NEW e \in {"gets", "writes", "calls", "breaks"}, Take(e)
      PROVE  left' \in [{"gets", "writes", "calls", "breaks"} -> Nat]
  <2>1. left[e] \in Nat /\ left[e] > 0 /\ left' = [left EXCEPT ![e] = left[e] - 1]
    BY <1>3 DEF Take, Remains
  <2> QED
    BY <2>1 DEF Remains
<1> QED
  BY <1>1, <1>2, <1>3 DEF Remains

(* Every variable keeps its type.  In particular what a caller waits for   *)
(* is an informer that runs, a started informer is registered, no informer *)
(* is handed out that was not made, and the informer is at a state the     *)
(* server has been in.                                                     *)
THEOREM TypesAreKept == Spec => []TypeOK
<1>1. Init => Remains
  BY ClientAssumption DEF Init, ClientInit, Remains
<1>2. AllInv /\ Remains => TypeOK
  <2> SUFFICES ASSUME AllInv, Remains PROVE TypeOK
    OBVIOUS
  <2>1. call \in [Callers -> Calls] /\ \A c \in Callers : call[c].ref \in Nat /\ call[c].type \in Types
    BY DEF AllInv, FactoryInv, FactoryTypes, Calls
  <2>2. \A c \in Callers : call[c].ref <= made[call[c].type]
    <3> SUFFICES ASSUME NEW c \in Callers PROVE call[c].ref <= made[call[c].type]
      OBVIOUS
    <3>1. made[call[c].type] \in Nat
      BY <2>1 DEF AllInv, FactoryInv, FactoryTypes
    <3>2. call[c].ref = 0 \/ (call[c].ref = 1 /\ made[call[c].type] = 1)
      BY <2>1 DEF AllInv, FactoryInv, OneInformerPerType
    <3> QED
      BY <3>1, <3>2
  <2>3. \A c \in Callers : \A t \in call[c].todo : running[t] > 0
    BY <2>1 DEF AllInv, Waiting, FactoryInv, FactoryTypes, RunIsRemembered
  <2>4. inf \in [pc: {"list", "watch"}, at: 0..Len(log), listed: BOOLEAN, initial: Nat,
                 queue: Seq(Deltas), store: States]
    BY DEF AllInv, StoreInv, InformerTypes, ServerInv, ServerTypes
  <2>5. started \subseteq Registered
    BY DEF AllInv, Waiting
  <2> QED
    BY <2>1, <2>2, <2>3, <2>4, <2>5 DEF TypeOK, AllInv, FactoryInv, FactoryTypes, ServerInv, ServerTypes,
       Remains
<1> QED
  BY <1>1, <1>2, RemainsSo, InformersInvariant, PTL DEF Spec
=============================================================================
