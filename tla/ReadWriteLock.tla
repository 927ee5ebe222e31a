---------------------------- MODULE ReadWriteLock ----------------------------
(***************************************************************************)
(* What the gate of a LocalMultimap bucket list promises: any number of    *)
(* inserters at a time, or a single deleter.                               *)
(***************************************************************************)
CONSTANT Threads

VARIABLES 
  sharing,   \* tasks that work on the list as inserters
  owning     \* tasks that work on it as deleters

vars == <<sharing, owning>>

Init == sharing = {} /\ owning = {}

Share(t) == 
  /\ owning = {} /\ t \notin sharing
  /\ sharing' = sharing \cup {t} /\ UNCHANGED owning

Unshare(t) == 
  /\ t \in sharing
  /\ sharing' = sharing \ {t} /\ UNCHANGED owning

Own(t) == 
  /\ owning = {} /\ sharing = {}
  /\ owning' = {t} /\ UNCHANGED sharing

Disown(t) == 
  /\ t \in owning
  /\ owning' = owning \ {t} /\ UNCHANGED sharing

Next == \E t \in Threads : Share(t) \/ Unshare(t) \/ Own(t) \/ Disown(t)

Spec == Init /\ [][Next]_vars
=============================================================================
