------------------------------ MODULE Completion ------------------------------
(***************************************************************************)
(* What shad::rt promises of the calls that run functions: a synchronous   *)
(* call returns when everything it asked for has been done, and a wait     *)
(* returns when everything has been done that was asked for with the       *)
(* handle, by the task itself or by the functions that run on its behalf.  *)
(* Everything is done exactly once.                                        *)
(***************************************************************************)
EXTENDS Integers

CONSTANTS
  Tasks,       \* the tasks of the program
  Calls,       \* the calls they may make
  MaxCalls     \* bound: calls of one task

VARIABLES
  localities,  \* the number of localities
  status,      \* [Tasks -> {"idle", "called", "waiting"}]
  made,        \* [Tasks -> Nat]: the calls each task has made
  owed,        \* what has been asked for and not been done
  done         \* what has been done

vars == <<localities, status, made, owed, done>>

(* The function once, once per locality, or once per index of the loop; a  *)
(* loop over all localities leaves open where an index runs.  The first    *)
(* component tells the function from one that it starts.                   *)
AnyWhere == -1
At(c) == IF c.loc < localities THEN c.loc ELSE 0
Items(c) == 
  CASE c.f \in {"executeAt", "dma"} -> {0} \X {At(c)} \X {0}
    [] c.f = "executeOnAll" -> {0} \X (0..localities - 1) \X {0}
    [] c.f = "forEachAt" -> {0} \X {At(c)} \X (0..c.n - 1)
    [] c.f = "forEachOnAll" -> {0} \X {AnyWhere} \X (0..c.n - 1)

Obligations(t, c) == 
  {[task |-> t, number |-> made[t], call |-> c, item |-> i] : i \in Items(c)}

(* A function that was given the handle may start another one with it.     *)
Spawned(x) == 
  IF x.call.spawns /\ x.item[1] = 0
    THEN {[x EXCEPT !.item[1] = 1]} ELSE {}

Pending(t, async) == {x \in owed : x.task = t /\ x.call.async = async}

Init == 
  /\ localities \in Nat \ {0}
  /\ status = [t \in Tasks |-> "idle"] /\ made = [t \in Tasks |-> 0]
  /\ owed = {} /\ done = {}

Ask(t, c) == 
  /\ status[t] = "idle" /\ made[t] < MaxCalls
  /\ made' = [made EXCEPT ![t] = @ + 1]
  /\ status' = [status EXCEPT ![t] = IF c.async THEN "idle" ELSE "called"]
  /\ owed' = owed \cup Obligations(t, c)
  /\ UNCHANGED <<localities, done>>

Do(x) == 
  /\ owed' = (owed \ {x}) \cup Spawned(x)
  /\ done' = done \cup {x}
  /\ UNCHANGED <<localities, status, made>>

Wait(t) == 
  /\ status[t] = "idle"
  /\ status' = [status EXCEPT ![t] = "waiting"]
  /\ UNCHANGED <<localities, made, owed, done>>

GoOn(t) == 
  /\ \/ status[t] = "called" /\ Pending(t, FALSE) = {}
     \/ status[t] = "waiting" /\ Pending(t, TRUE) = {}
  /\ status' = [status EXCEPT ![t] = "idle"]
  /\ UNCHANGED <<localities, made, owed, done>>

DoOne == \E x \in owed : Do(x)

Next == 
  \/ DoOne
  \/ \E t \in Tasks : Wait(t) \/ GoOn(t) \/ \E c \in Calls : Ask(t, c)

Spec == 
  /\ Init /\ [][Next]_vars
  /\ WF_vars(DoOne) /\ \A t \in Tasks : WF_vars(GoOn(t))
=============================================================================
