-------------------------------- MODULE Calls --------------------------------
(***************************************************************************)
(* The calls of the tasks that use a data structure over the runtime       *)
(* (Runtime.tla).  What runs on its own is an activity, which belongs to   *)
(* the call or to the handle of its task.                                  *)
(***************************************************************************)
EXTENDS Integers, FiniteSets, SequencesExt

CONSTANTS
  NumLocalities,   \* rt::numLocalities()
  Tasks,           \* the tasks of the program
  Home,            \* [Tasks -> Localities]: where each of them runs
  Programs         \* the programs: records of the data structures, the 
                   \* operations and the first contents that they use, and a
                   \* bound of the calls of all tasks

Localities == 0..NumLocalities - 1

ASSUME CallsAssumption == 
  /\ NumLocalities \in Nat \ {0} 
  /\ IsFiniteSet(Tasks) /\ Home \in [Tasks -> Localities]
  /\ \A p \in Programs : p.calls \in Nat

VARIABLES
  kind,        \* the data structure in use
  program,     \* the program that uses it
  calls,       \* calls made so far
  acts,        \* the activities under way
  doing,       \* [Tasks -> what the task is doing]
  handle       \* [Tasks -> BOOLEAN]: whether it has a handle to wait for

callVars == <<kind, program, calls, acts, doing, handle>>

Idle == [op |-> "idle"]

InitCalls == 
  /\ program \in Programs /\ kind \in program.kinds /\ calls = 0
  /\ acts = {} /\ doing = [t \in Tasks |-> Idle]
  /\ handle = [t \in Tasks |-> FALSE]

Become(t, d) == doing' = [doing EXCEPT ![t] = d]

MayCall(t, op) == 
  /\ doing[t] = Idle /\ op \in program.operations
  /\ \A u \in Tasks : doing[u].op # "clearing"
Calling(t, op) == MayCall(t, op) /\ calls < program.calls /\ calls' = calls + 1 

\* an activity of the call that the task is making, waited for by the call
\* itself or through the handle
Activity(t, async, at, work) == 
  [task |-> t, async |-> async, number |-> calls, at |-> at, work |-> work]
Mine(t, async) == {a \in acts : a.task = t /\ a.async = async}

\* rt::executeOnAll: one activity for each locality
OnAll(t, async, work) == {Activity(t, async, l, work) : l \in Localities}

\* a call that starts activities, and waits for them or leaves them the handle
Waiting(t, as, op) == 
  acts' = acts \cup as /\ Become(t, [op |-> op]) /\ UNCHANGED handle
Leaving(t, as) == 
  /\ acts' = acts \cup as /\ handle' = [handle EXCEPT ![t] = TRUE] 
  /\ UNCHANGED doing

\* a call that is over with its only step
AtOnce == UNCHANGED <<acts, doing, handle>>

\* a further step of a call, or of an activity
GoesOn(t, d) == Become(t, d) /\ UNCHANGED <<calls, acts, handle>>
Running(a, more) == 
  acts' = (acts \ {a}) \cup more /\ UNCHANGED <<calls, doing, handle>>
=============================================================================
