-------------------------------- MODULE MCHub -------------------------------
(***************************************************************************)
(* Hub on small instances.  The entries and deletes all address one key,   *)
(* but for those posted before ids were required at the door: different    *)
(* keys share nothing but the journal.                                     *)
(***************************************************************************)
EXTENDS Hub

CONSTANT k1, Unkeyed

OneKey == [x \in Entries \union Deletes |-> IF x \in Unkeyed THEN NoKey ELSE k1]

CONSTANTS o1, l1

NoBacklog == <<>>
OldBacklog == <<o1, l1>>
OrphanBacklog == <<o1>>
UnkeyedBacklog == <<l1>>
=============================================================================
