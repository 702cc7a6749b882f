------------------------------ MODULE MCRounds ------------------------------
(***************************************************************************)
(* Rounds on a small instance: a synchronous post, an event Google refuses *)
(* and one whose source is gone; the unit of time is a poll interval.      *)
(***************************************************************************)
EXTENDS Rounds

TheLadder == <<2, 3>>
TheClimb == <<0, 2>>
TheWaits == <<1, 2>>
=============================================================================
