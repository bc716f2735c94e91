------------------------------- MODULE OrderDesk -------------------------------
(***************************************************************************)
(* What the shop owes the workflows, whatever goes wrong between them: a    *)
(* session puts one piece in its basket at most once, and gets at most one  *)
(* order, which holds exactly what the basket holds and never changes.      *)
(* There is no failure here: a request that fails, is abandoned or meets a  *)
(* dying target is a step that did or did not happen.                       *)
(***************************************************************************)
EXTENDS Integers

CONSTANT Id  \* session and order identifiers

VARIABLES
  basket,    \* the pieces in the basket of each session
  placed     \* the orders

vars == <<basket, placed>>

Init ==
  /\ basket = [s \in Id |-> 0]
  /\ placed = {}

Add(s) ==
  /\ basket[s] = 0
  /\ basket' = [basket EXCEPT ![s] = 1]
  /\ UNCHANGED placed

Order(o, s) == [id |-> o, session |-> s, pieces |-> basket[s], total |-> basket[s]]

\* The whole order appears in one step, and stays as it is.
Place(s) ==
  /\ basket[s] = 1
  /\ \A p \in placed : p.session # s
  /\ \E o \in Id : /\ \A p \in placed : p.id # o
                  /\ placed' = placed \cup {Order(o, s)}
  /\ UNCHANGED basket

Next == \E s \in Id : Add(s) \/ Place(s)

Spec == Init /\ [][Next]_vars
===============================================================================
