----------------------------- MODULE MCJournal ------------------------------
(* Journal on a small instance: entries are interchangeable. *)
EXTENDS Journal, TLC

EntrySymmetry == Permutations(Entries)
=============================================================================
