------------------------------ MODULE Ranking ------------------------------
(* Ranked lists: sorted, filtered, and cut to a page.                      *)
EXTENDS Integers, Sequences, FiniteSets

Atop(a, b) == IF a < b THEN a ELSE b
Cut(l, n) == SubSeq(l, 1, Atop(n, Len(l)))
Elements(l) == {l[i] : i \in DOMAIN l}

(* The elements of a finite set one after the other, where before[i] are   *)
(* those that come before i.                                               *)
InOrder(before) ==
  [p \in 1..Cardinality(DOMAIN before) |-> CHOOSE i \in DOMAIN before : Cardinality(before[i]) = p - 1]

Follow(l, places) == [p \in DOMAIN places |-> l[places[p]]]

(* What is at these places of a list.                                      *)
Picked(l, places) == Follow(l, InOrder([i \in places |-> {j \in places : j < i}]))
=============================================================================
