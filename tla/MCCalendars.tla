----------------------------- MODULE MCCalendars ----------------------------
(***************************************************************************)
(* Calendars on small instances.  All requests ask for one name: different *)
(* names share no lock and no memory.                                      *)
(***************************************************************************)
EXTENDS Calendars, TLC

CONSTANT n1

Symmetric == Permutations(Creators) \union Permutations(Pages)

OneName == [c \in Creators |-> n1]
=============================================================================
