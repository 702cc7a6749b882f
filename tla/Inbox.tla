------------------------------- MODULE Inbox --------------------------------
(***************************************************************************)
(* What Almanac promises the source of an event, whatever happens inside:  *)
(* an entry that is once held is held until Google has stored its event or *)
(* it is set aside for the operator; it is never forgotten, and never      *)
(* comes back once it has been settled.  (README: "Nothing is lost", T1 in *)
(* core/journal.rs.)                                                       *)
(***************************************************************************)
CONSTANT Entries

VARIABLES
  state,   \* where each entry stands
  stored   \* the entries whose event Google has stored at least once

vars == <<state, stored>>

States == {"unknown", "held", "delivered", "aside"}

TypeOK ==
  /\ state \in [Entries -> States]
  /\ stored \subseteq Entries

Init ==
  /\ state \in [Entries -> {"unknown", "held"}]
  /\ stored = {}

Move(e, from, to) ==
  /\ state[e] \in from
  /\ state' = [state EXCEPT ![e] = to]
  /\ UNCHANGED stored

Hold(e) == Move(e, {"unknown"}, "held")
Settle(e) == e \in stored /\ Move(e, {"held"}, "delivered")

\* The worker may give up on an entry that a sync handler has just delivered.
SetAside(e) == Move(e, {"held", "delivered"}, "aside")

\* Possibly again: deliveries are at least once.
Store(e) ==
  /\ state[e] # "unknown"
  /\ stored' = stored \union {e}
  /\ UNCHANGED state

Next == \E e \in Entries : Hold(e) \/ Settle(e) \/ SetAside(e) \/ Store(e)

Spec == Init /\ [][Next]_vars
=============================================================================
