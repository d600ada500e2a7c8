------------------------------ MODULE SavedFile ------------------------------
(***************************************************************************)
(* What a state file promises: it changes from one text to another at      *)
(* once, and a power loss leaves the text that was kept or one that came   *)
(* after it.  Saves that overlap may spoil it; a save that overlaps with   *)
(* no other mends it.                                                      *)
(***************************************************************************)
CONSTANTS Texts, Absent

VARIABLES
  value,     \* the text of the file, Absent while it is spoilt
  possible,  \* what a power loss may leave, if it is not spoilt
  spoilt

vars == <<value, possible, spoilt>>

Init ==
  /\ value \in Texts \cup {Absent} /\ possible = {value}
  /\ spoilt = FALSE

Change(t) ==
  /\ ~spoilt /\ value' = t
  /\ possible' = possible \cup {t}
  /\ UNCHANGED spoilt

Keep ==
  /\ ~spoilt /\ possible' = {value}
  /\ UNCHANGED <<value, spoilt>>

FallBack ==
  /\ ~spoilt /\ value' \in possible
  /\ possible' = {value'}
  /\ UNCHANGED spoilt

Spoil ==
  /\ ~spoilt /\ spoilt' = TRUE
  /\ value' = Absent /\ possible' = {}

Mend(t) ==
  /\ spoilt /\ spoilt' = FALSE
  /\ value' = t /\ possible' = {t}

Next == (\E t \in Texts : Change(t) \/ Mend(t)) \/ Keep \/ FallBack \/ Spoil

Spec == Init /\ [][Next]_vars
=============================================================================
