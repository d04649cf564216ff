--------------------------- MODULE TZCronJobClient ---------------------------
(***************************************************************************)
(* The typed client of TZCronJobs, verb by verb, and what the API server   *)
(* does with each request.                                                 *)
(*                                                                         *)
(* The server is the sequence of the states it has been in; the resource   *)
(* version of an object is the index of the state that it was written in.  *)
(* Clients work as clients do: they get or list objects, change their      *)
(* copies, and send these back.  A spec and a status count the changes     *)
(* made to them, so that a change that gets lost is missed.                *)
(***************************************************************************)
EXTENDS Integers, SequencesExt

CONSTANTS
  Clients,      \* the users of a clientset
  Keys,         \* the namespaces and names there may be TZCronJobs of
  Initial,      \* the keys of those there are at first
  Budgets       \* what may happen at most, one of which a behaviour gets

ASSUME ClientAssumption ==
  /\ IsFiniteSet(Keys) /\ Keys # {} /\ Initial \subseteq Keys
  /\ \A b \in Budgets : b \in [{"gets", "writes", "calls", "breaks"} -> Nat]

VARIABLES
  log,      \* the states of the server, the last one the present
  copy,     \* copy[c]: the object that c received last, and its key
  written,  \* written[k]: the changes the server accepted to object k
  left      \* what is left of the budget

clientVars == <<log, copy, written, left>>

Namespaces == {k[1] : k \in Keys}
Objects == [rv: Nat, spec: Nat, status: Nat]
NoObject == [rv |-> 0, spec |-> 0, status |-> 0]
States == [Keys -> Objects]
Nothing == [k \in Keys |-> NoObject]

Server == Last(log)
Stored(k) == Server[k].rv > 0

Take(e) == left[e] > 0 /\ left' = [left EXCEPT ![e] = @ - 1]
-----------------------------------------------------------------------------
(* The server's side.                                                      *)

(* The next state has object o under key k. *)
Write(k, o) == log' = Append(log, [Server EXCEPT ![k] = [o EXCEPT !.rv = Len(log) + 1]])

(* The result of a request is decoded into a new object. *)
Reply(c, k, o) == copy' = [copy EXCEPT ![c] = [key |-> k, obj |-> o]]

(* Seeded fault: the resource version of the object sent is not looked at. *)
CurrentIfStored(c) == Stored(copy[c].key)

(* The object sent is the one that is stored. *)
Current(c) == Stored(copy[c].key) /\ copy[c].obj.rv = Server[copy[c].key].rv

(* The status subresource is enabled: a request to the resource leaves the *)
(* status as it is, one to the subresource all but the status.             *)
WithSpec(k, n) == [Server[k] EXCEPT !.spec = n]
WithStatus(k, n) == [Server[k] EXCEPT !.status = n]
-----------------------------------------------------------------------------
(* The verbs.                                                              *)

Get(c, k) ==
  /\ Stored(k) /\ Take("gets")
  /\ Reply(c, k, Server[k])
  /\ UNCHANGED <<log, written>>

Create(c, k) ==
  /\ ~Stored(k) /\ Take("writes")
  /\ Write(k, [NoObject EXCEPT !.spec = 1])
  /\ Reply(c, k, Last(log')[k])
  /\ written' = [written EXCEPT ![k] = [spec |-> 1, status |-> 0]]

(* PUT to the resource.  A refused one changes nothing. *)
Update(c) ==
  /\ Current(c) /\ Take("writes")
  /\ LET k == copy[c].key
     IN  /\ Write(k, WithSpec(k, copy[c].obj.spec + 1))
         /\ Reply(c, k, Last(log')[k])
         /\ written' = [written EXCEPT ![k].spec = @ + 1]

(* PUT to the subresource. *)
UpdateStatus(c) ==
  /\ Current(c) /\ Take("writes")
  /\ LET k == copy[c].key
     IN  /\ Write(k, WithStatus(k, copy[c].obj.status + 1))
         /\ Reply(c, k, Last(log')[k])
         /\ written' = [written EXCEPT ![k].status = @ + 1]

(* A patch, of the resource or of the subresource that is named, is        *)
(* computed by the server from what is stored.                             *)
Patch(c, k) ==
  /\ Stored(k) /\ Take("writes")
  /\ \/ /\ Write(k, WithSpec(k, Server[k].spec + 1))
        /\ written' = [written EXCEPT ![k].spec = @ + 1]
     \/ /\ Write(k, WithStatus(k, Server[k].status + 1))
        /\ written' = [written EXCEPT ![k].status = @ + 1]
  /\ Reply(c, k, Last(log')[k])

(* S is removed from the server, one object after another. *)
Vanish(S) ==
  \E q \in SetToSeqs(S) :
    log' = log \o [i \in 1..Len(q) |->
                     [k \in Keys |-> IF \E j \in 1..i : q[j] = k THEN NoObject ELSE Server[k]]]

Delete(k) ==
  /\ Stored(k) /\ Take("writes")
  /\ Vanish({k})
  /\ UNCHANGED <<copy, written>>

DeleteCollection(n) ==
  /\ Take("writes")
  /\ LET S == {k \in Keys : k[1] = n /\ Stored(k)} IN S # {} /\ Vanish(S)
  /\ UNCHANGED <<copy, written>>

(* The state a list returns: the present one, or an earlier one that the   *)
(* server has in its own cache if the request allows that.                 *)
ListFrom(v, scope) == [k \in Keys |-> IF k[1] \in scope THEN log[v][k] ELSE NoObject]

(* Seeded fault: the namespace is not part of the request. *)
WatchEverywhere(v, scope) == {k \in Keys : log[v + 1][k] # log[v][k]}

(* The keys that the event after state v is about, none out of scope. *)
WatchAfter(v, scope) == {k \in Keys : k[1] \in scope /\ log[v + 1][k] # log[v][k]}
-----------------------------------------------------------------------------
ClientInit ==
  /\ log = <<[k \in Keys |-> IF k \in Initial THEN [NoObject EXCEPT !.rv = 1] ELSE NoObject]>>
  /\ copy = [c \in Clients |-> [key |-> CHOOSE k \in Keys : TRUE, obj |-> NoObject]]
  /\ written = [k \in Keys |-> [spec |-> 0, status |-> 0]]
  /\ left \in Budgets

ClientStep ==
  \/ \E c \in Clients : \/ Update(c) \/ UpdateStatus(c)
                        \/ \E k \in Keys : Get(c, k) \/ Create(c, k) \/ Patch(c, k)
  \/ \E k \in Keys : Delete(k)
  \/ \E n \in Namespaces : DeleteCollection(n)
-----------------------------------------------------------------------------
(* No accepted change is lost: whatever copies clients send back, however  *)
(* old, the object stored has every change of its spec and of its status   *)
(* since it was created (Update, UpdateStatus and Patch side by side).     *)
NothingLost ==
  \A k \in Keys : Stored(k) => [spec |-> Server[k].spec, status |-> Server[k].status] = written[k]
=============================================================================
