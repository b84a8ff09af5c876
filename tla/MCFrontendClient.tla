--------------------------- MODULE MCFrontendClient ---------------------------
(* Two tabs; the tabs, and the slots of their checks, are interchangeable. *)
EXTENDS FrontendClient, TLC
Perms == Permutations(Tabs) \cup Permutations(Slots)

(* Two scenarios of the one specification: one tab, while the page of the
   other is away, with failures, several checks, logins and logouts; and two
   tabs with one check each (in the same slot) while nothing fails. *)
Away(t) == tab[t] = [Page EXCEPT !.leaving = "login"]

OneTab == \E t \in Tabs : Away(t)

TwoTabs == /\ clock <= 2 /\ set <= 2 /\ faults = 0 /\ moves <= 1
           /\ \E c \in Slots : \A t \in Tabs : tab[t].check[c] = "new"

Scenarios == OneTab \/ TwoTabs
==============================================================================
