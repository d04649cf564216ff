----------------------------- MODULE MCInformers -----------------------------
(***************************************************************************)
(* Budgets for TLC: either the goroutines do much with the factory, or the *)
(* clients with the server.                                                *)
(***************************************************************************)
EXTENDS SharedInformerFactory

Busy(c, g, w, b) == [calls |-> c, gets |-> g, writes |-> w, breaks |-> b]
MCKeys == {<<"n1", "a">>, <<"n1", "b">>, <<"n2", "a">>}
MCInitial == {<<"n1", "a">>, <<"n2", "a">>}
MCBudgets == {Busy(4, 0, 0, 1), Busy(2, 0, 2, 1), Busy(0, 3, 3, 0)}
=============================================================================
