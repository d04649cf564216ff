------------------------ MODULE SharedInformerFactory ------------------------
(***************************************************************************)
(* The factory of shared informers, called by several goroutines, and the  *)
(* one informer of TZCronJobs that it makes: its reflector lists and       *)
(* watches through the typed client, and fills the store that listers      *)
(* read.                                                                   *)
(*                                                                         *)
(* The mutex of the factory is a variable; what a call does while it holds *)
(* it is cut into the steps that would interleave if it did not.           *)
(*                                                                         *)
(* External, as src uses it: the reflector lists from any state the server *)
(* has been in ("0" as resource version), watches from there on, and lists *)
(* again when the watch breaks; changes pass through a queue to the store. *)
(* A resync puts into the store what is in it, and is left out.            *)
(***************************************************************************)
EXTENDS TZCronJobClient

CONSTANTS
  Callers,   \* the goroutines that call the factory
  Types,     \* the types informers are asked for
  Namespace  \* the one WithNamespace limits the factory to, if it is given

TZCronJob == "TZCronJob"

NoCaller == "none"

ASSUME FactoryAssumption ==
  /\ TZCronJob \in Types /\ NoCaller \notin Callers
  /\ Namespace \subseteq Namespaces /\ \A m, n \in Namespace : m = n

(* The namespaces that are listed and watched: all (NamespaceAll), unless  *)
(* the factory is made with another.                                       *)
Scope == IF Namespace = {} THEN Namespaces ELSE Namespace

VARIABLES
  lock,       \* the caller that holds f.lock, or NoCaller
  informers,  \* f.informers: the number of the informer of a type, 0 for none
  started,    \* f.startedInformers
  made,       \* how many informers of a type have been made
  running,    \* running[t]: how often Run of the informer of t was called
  call,       \* call[c]: the call that c is in, and what its last one returned
  inf,        \* the informer of TZCronJobs
  stopped     \* stopCh is closed

factoryVars == <<lock, informers, started, made, running, call>>
vars == <<clientVars, factoryVars, inf, stopped>>

Ops == {"Start", "WaitForCacheSync", "InformerFor"}
Phases == {"idle", "lock", "new", "wait"} \cup Ops
Calls == [pc: Phases, op: Ops \cup {"none"}, type: Types, todo: SUBSET Types, ref: Nat,
          res: [Types -> SUBSET BOOLEAN]]

Idle == [pc |-> "idle", op |-> "none", type |-> TZCronJob, todo |-> {},
         ref |-> 0, res |-> [t \in Types |-> {}]]

At(c, l) == call[c].pc = l
Goto(c, l) == call' = [call EXCEPT ![c].pc = l]
Registered == {t \in Types : informers[t] > 0}
-----------------------------------------------------------------------------
(* Calls of the factory.                                                   *)

Begin(c, op, t) ==
  /\ At(c, "idle") /\ Take("calls")
  /\ call' = [call EXCEPT ![c] = [Idle EXCEPT !.pc = "lock", !.op = op, !.type = t]]
  /\ UNCHANGED <<lock, informers, started, made, running, log, copy, written, inf, stopped>>

(* Seeded fault: there is no lock. *)
FreeOrNot == TRUE

Free == lock = NoCaller

Lock(c) ==
  /\ At(c, "lock") /\ Free
  /\ lock' = c
  /\ Goto(c, call[c].op)
  /\ UNCHANGED <<informers, started, made, running, clientVars, inf, stopped>>

(* InformerFor: the informer of the type if there is one ... *)
LookUp(c) ==
  /\ At(c, "InformerFor")
  /\ LET i == informers[call[c].type]
     IN  IF i > 0
           THEN /\ call' = [call EXCEPT ![c].pc = "idle", ![c].ref = i]
                /\ lock' = NoCaller
           ELSE Goto(c, "new") /\ UNCHANGED lock
  /\ UNCHANGED <<informers, started, made, running, clientVars, inf, stopped>>

(* ... otherwise a new one, which is registered and not started. *)
Register(c) ==
  /\ At(c, "new")
  /\ LET t == call[c].type
     IN  /\ made' = [made EXCEPT ![t] = @ + 1]
         /\ informers' = [informers EXCEPT ![t] = made[t] + 1]
         /\ call' = [call EXCEPT ![c].pc = "idle", ![c].ref = made[t] + 1]
  /\ lock' = NoCaller
  /\ UNCHANGED <<started, running, clientVars, inf, stopped>>

(* Seeded fault: an informer is not remembered as started. *)
ForgetStarted(t) == started' = started

MarkStarted(t) == started' = started \cup {t}

(* Start: the next informer that is registered and not started runs. *)
StartNext(c) ==
  /\ At(c, "Start")
  /\ \E t \in Registered \ started :
       /\ running' = [running EXCEPT ![t] = @ + 1]
       /\ MarkStarted(t)
  /\ UNCHANGED <<lock, informers, made, call, clientVars, inf, stopped>>

EndStart(c) ==
  /\ At(c, "Start") /\ Registered \subseteq started
  /\ lock' = NoCaller /\ Goto(c, "idle")
  /\ UNCHANGED <<informers, started, made, running, clientVars, inf, stopped>>

(* Seeded fault: the lock is held while the call waits. *)
KeepLock == UNCHANGED lock

Unlock == lock' = NoCaller

(* Seeded fault: informers that have not been started are waited for. *)
AwaitRegistered == Registered

Awaited == Registered \cap started

(* WaitForCacheSync: the informers to wait for are copied under the lock. *)
Snapshot(c) ==
  /\ At(c, "WaitForCacheSync")
  /\ Unlock
  /\ call' = [call EXCEPT ![c].pc = "wait", ![c].todo = Awaited]
  /\ UNCHANGED <<informers, started, made, running, clientVars, inf, stopped>>

(* The first list is in the store.  (The other types list nothing.) *)
HasSynced(t) == running[t] > 0 /\ (t = TZCronJob => inf.listed /\ inf.initial = 0)

(* Seeded fault: being stopped counts as having synced. *)
AnyAnswer(t) == {b \in BOOLEAN : b /\ (HasSynced(t) \/ stopped)}

(* cache.WaitForCacheSync polls until it has synced or is stopped. *)
Answer(t) == {b \in BOOLEAN : IF b THEN HasSynced(t) ELSE stopped}

WaitNext(c) ==
  /\ At(c, "wait")
  /\ \E t \in call[c].todo : \E b \in Answer(t) :
       call' = [call EXCEPT ![c].todo = @ \ {t}, ![c].res[t] = {b}]
  /\ UNCHANGED <<lock, informers, started, made, running, clientVars, inf, stopped>>

EndWait(c) ==
  /\ At(c, "wait") /\ call[c].todo = {}
  /\ Goto(c, "idle")
  /\ UNCHANGED <<lock, informers, started, made, running, clientVars, inf, stopped>>
-----------------------------------------------------------------------------
(* The informer of TZCronJobs.                                             *)

Alive == running[TZCronJob] > 0 /\ ~stopped

Deltas == [key: Keys, obj: Objects]
Delta(k, o) == [key |-> k, obj |-> o]
DeltaKeys == {inf.queue[i].key : i \in 1..Len(inf.queue)}

(* ListFunc: all of it goes to the queue, with deletions of what is known  *)
(* and not in the list.                                                    *)
List(v) ==
  /\ Alive /\ inf.pc = "list"
  /\ LET st == ListFrom(v, Scope)
         listed == {k \in Keys : st[k].rv > 0}
         known == {k \in Keys : inf.store[k].rv > 0} \cup DeltaKeys
     IN  \E q \in SetToSeqs(listed), d \in SetToSeqs(known \ listed) :
           inf' = [inf EXCEPT !.pc = "watch", !.at = v, !.listed = TRUE,
                     !.initial = IF inf.listed THEN @ ELSE Cardinality(listed),
                     !.queue = @ \o [i \in 1..Len(q) |-> Delta(q[i], st[q[i]])]
                                 \o [i \in 1..Len(d) |-> Delta(d[i], NoObject)]]
  /\ UNCHANGED <<clientVars, factoryVars, stopped>>

(* Seeded fault: the watch begins at the present state. *)
SkipToPresent(v) == Len(log)

(* WatchFunc passes the resource version of the list on. *)
WatchFrom(v) == v + 1

(* The next event of the watch. *)
Event ==
  /\ Alive /\ inf.pc = "watch" /\ inf.at < Len(log)
  /\ LET v == WatchFrom(inf.at)
         q == SetToSeq(WatchAfter(v - 1, Scope))
     IN  inf' = [inf EXCEPT !.at = v,
                   !.queue = @ \o [i \in 1..Len(q) |-> Delta(q[i], log[v][q[i]])]]
  /\ UNCHANGED <<clientVars, factoryVars, stopped>>

(* The head of the queue goes to the store. *)
Pop ==
  /\ Alive /\ inf.queue # <<>>
  /\ inf' = [inf EXCEPT !.store[Head(inf.queue).key] = Head(inf.queue).obj,
                        !.queue = Tail(@),
                        !.initial = IF @ > 0 THEN @ - 1 ELSE 0]
  /\ UNCHANGED <<clientVars, factoryVars, stopped>>

(* The watch breaks, and the reflector lists again. *)
Break ==
  /\ Alive /\ inf.pc = "watch" /\ Take("breaks")
  /\ inf' = [inf EXCEPT !.pc = "list"]
  /\ UNCHANGED <<log, copy, written, factoryVars, stopped>>

(* SIGTERM: stopCh is closed. *)
Stop ==
  /\ ~stopped /\ Take("breaks")
  /\ stopped' = TRUE
  /\ UNCHANGED <<log, copy, written, factoryVars, inf>>
-----------------------------------------------------------------------------
Init ==
  /\ ClientInit
  /\ lock = NoCaller
  /\ informers = [t \in Types |-> 0] /\ started = {} /\ made = informers /\ running = informers
  /\ call = [c \in Callers |-> Idle]
  /\ inf = [pc |-> "list", at |-> 0, listed |-> FALSE, initial |-> 0, queue |-> <<>>,
            store |-> Nothing]
  /\ stopped = FALSE

CallStep(c) ==
  \/ Lock(c) \/ LookUp(c) \/ Register(c) \/ StartNext(c) \/ EndStart(c)
  \/ Snapshot(c) \/ WaitNext(c) \/ EndWait(c)

InformerStep == Event \/ Pop \/ \E v \in 1..Len(log) : List(v)

Next ==
  \/ ClientStep /\ UNCHANGED <<factoryVars, inf, stopped>>
  \/ \E c \in Callers :
       \/ CallStep(c)
       \/ Begin(c, "Start", TZCronJob) \/ Begin(c, "WaitForCacheSync", TZCronJob)
       \/ \E t \in Types : Begin(c, "InformerFor", t)
  \/ InformerStep \/ Break \/ Stop

Spec == Init /\ [][Next]_vars

(* A goroutine that can go on does; nothing is said of the server. *)
FairSpec == Spec /\ \A c \in Callers : WF_vars(CallStep(c))
-----------------------------------------------------------------------------
TypeOK ==
  /\ log \in Seq(States) /\ Len(log) > 0
  /\ copy \in [Clients -> [key: Keys, obj: Objects]]
  /\ written \in [Keys -> [spec: Nat, status: Nat]]
  /\ left \in [{"gets", "writes", "calls", "breaks"} -> Nat]
  /\ lock \in Callers \cup {NoCaller}
  /\ informers \in [Types -> Nat] /\ made \in [Types -> Nat] /\ running \in [Types -> Nat]
  /\ started \subseteq Registered
  /\ call \in [Callers -> Calls]
  /\ \A c \in Callers : /\ call[c].ref <= made[call[c].type]
                        /\ \A t \in call[c].todo : running[t] > 0
  /\ inf \in [pc: {"list", "watch"}, at: 0..Len(log), listed: BOOLEAN, initial: Nat,
              queue: Seq(Deltas), store: States]
  /\ stopped \in BOOLEAN

(* One informer per type, and everyone who asks gets it: whichever calls   *)
(* come first, listers and Start work with the same store (InformerFor,    *)
(* between its look-up and its registration).                              *)
OneInformerPerType ==
  \A c \in Callers : call[c].ref > 0 => call[c].ref = 1 /\ made[call[c].type] = 1

(* No informer is run twice, however often and by whomever Start is called *)
(* (Start: "This allows Start() to be called multiple times safely").      *)
RunOnce == \A t \in Types : running[t] <= 1

(* Who was told that the cache is in sync finds in the store all that has  *)
(* been there all along, at the server (WaitForCacheSync; the controller's *)
(* main does not ask).                                                     *)
SyncedStoreIsFilled ==
  \A c \in Callers : call[c].res[TZCronJob] = {TRUE} =>
    \A k \in Keys :
      (k[1] \in Scope /\ \A v \in 1..Len(log) : log[v][k].rv > 0) => inf.store[k].rv > 0

(* Between two changes the store is the server's at one instant, not a mix *)
(* of several, with nothing out of scope, however often the watch breaks   *)
(* and however old the list is (ListFunc and WatchFunc of the informer).   *)
StoreIsOneState ==
  (inf.listed /\ inf.queue = <<>>) => inf.store = ListFrom(inf.at, Scope)

(* A call returns, or has let go of the lock and waits for a cache: nobody *)
(* is kept from the factory by a server that does not answer               *)
(* (WaitForCacheSync copies the map in a closure of its own).              *)
CallsReturn ==
  \A c \in Callers : call[c].pc \notin {"idle", "wait"} ~> call[c].pc \in {"idle", "wait"}

(* Who waits for a cache is answered, given a server that answers          *)
(* (WaitForCacheSync leaves out what has not been started).                *)
WaitsEnd == WF_vars(InformerStep) => \A c \in Callers : call[c].pc = "wait" ~> call[c].pc = "idle"

(* Once writes end the store is the server's, deletions included, however  *)
(* stale the lists were (ListFunc, WatchFunc).                             *)
CatchesUp == WF_vars(InformerStep) => <>[](Alive => inf.store = ListFrom(Len(log), Scope))
=============================================================================
