---------------------------- MODULE MultimapGate -----------------------------
(***************************************************************************)
(* The gate of one bucket list of shad::LocalMultimap: allow_inserter,     *)
(* release_inserter, allow_deleter and release_deleter on the list's two   *)
(* atomic counters.  Insert, Lookup and the blocking applies enter as      *)
(* inserters, Erase as a deleter.                                          *)
(*                                                                         *)
(* A weak compare and exchange that fails spuriously only takes the        *)
(* failing branch, which the model always retries from the same point.     *)
(***************************************************************************)
EXTENDS Integers, FiniteSets

CONSTANTS 
  Threads,     \* the tasks that use the list
  HasDeleter   \* has_deleter, the value of inserter_array_ that locks it

ASSUME ThreadsAssumption == IsFiniteSet(Threads)
ASSUME HasDeleterAssumption == 
  HasDeleter \in Nat /\ HasDeleter > Cardinality(Threads)

GatePoints == {"out", "i_read", "i_test", "i_swap", "inside",
               "d_read", "d_swap", "d_leave", "exclusive"}

VARIABLES
  inserters,   \* inserter_array_[i]: inserters inside, or HasDeleter
  deleters,    \* deleter_array_[i]: deleters that wait
  gate,        \* where each task is
  seen         \* prev_inserters of each task

gateVars == <<inserters, deleters, gate, seen>>

GoGate(t, g) == gate' = [gate EXCEPT ![t] = g]

GateInit == 
  /\ inserters = 0 /\ deleters = 0
  /\ gate = [t \in Threads |-> "out"]
  /\ seen = [t \in Threads |-> 0]

-----------------------------------------------------------------------------
(* allow_inserter and release_inserter.                                    *)
CallAllowInserter(t) == 
  /\ gate[t] = "out" /\ GoGate(t, "i_read")
  /\ UNCHANGED <<inserters, deleters, seen>>

ReadInserters(t) == 
  /\ gate[t] = "i_read" /\ GoGate(t, "i_test")
  /\ seen' = [seen EXCEPT ![t] = inserters]
  /\ UNCHANGED <<inserters, deleters>>

\* mutant: an inserter does not test for has_deleter
TestWaitingOnly(t) == 
  /\ gate[t] = "i_test" 
  /\ GoGate(t, IF deleters = 0 THEN "i_swap" ELSE "i_read")
  /\ UNCHANGED <<inserters, deleters, seen>>

\* mutant: an inserter does not give way to waiting deleters
TestHasDeleterOnly(t) == 
  /\ gate[t] = "i_test" 
  /\ GoGate(t, IF seen[t] # HasDeleter THEN "i_swap" ELSE "i_read")
  /\ UNCHANGED <<inserters, deleters, seen>>

TestDeleters(t) == 
  /\ gate[t] = "i_test" 
  /\ GoGate(t, IF seen[t] # HasDeleter /\ deleters = 0 
                 THEN "i_swap" ELSE "i_read")
  /\ UNCHANGED <<inserters, deleters, seen>>

SwapInserters(t) == 
  /\ gate[t] = "i_swap"
  /\ IF inserters = seen[t]
       THEN inserters' = seen[t] + 1 /\ GoGate(t, "inside")
       ELSE GoGate(t, "i_read") /\ UNCHANGED inserters
  /\ UNCHANGED <<deleters, seen>>

ReleaseInserter(t) == 
  /\ gate[t] = "inside" /\ GoGate(t, "out")
  /\ inserters' = inserters - 1
  /\ UNCHANGED <<deleters, seen>>

(* allow_deleter and release_deleter.                                      *)
CallAllowDeleter(t) == 
  /\ gate[t] = "out" /\ GoGate(t, "d_read")
  /\ deleters' = deleters + 1
  /\ UNCHANGED <<inserters, seen>>

ReadZero(t) == 
  /\ gate[t] = "d_read" /\ inserters = 0 /\ GoGate(t, "d_swap")
  /\ UNCHANGED <<inserters, deleters, seen>>

\* mutant: a store takes the place of the compare and exchange
StoreDeleter(t) == 
  /\ gate[t] = "d_swap" /\ GoGate(t, "d_leave")
  /\ inserters' = HasDeleter
  /\ UNCHANGED <<deleters, seen>>

SwapDeleter(t) == 
  /\ gate[t] = "d_swap"
  /\ IF inserters = 0
       THEN inserters' = HasDeleter /\ GoGate(t, "d_leave")
       ELSE GoGate(t, "d_read") /\ UNCHANGED inserters
  /\ UNCHANGED <<deleters, seen>>

LeaveWaiting(t) == 
  /\ gate[t] = "d_leave" /\ GoGate(t, "exclusive")
  /\ deleters' = deleters - 1
  /\ UNCHANGED <<inserters, seen>>

ReleaseDeleter(t) == 
  /\ gate[t] = "exclusive" /\ GoGate(t, "out")
  /\ inserters' = 0
  /\ UNCHANGED <<deleters, seen>>

-----------------------------------------------------------------------------
(* Inside allow_inserter or allow_deleter.                                 *)
Allowing(t) == 
  \/ ReadInserters(t) \/ TestDeleters(t) \/ SwapInserters(t)
  \/ ReadZero(t) \/ SwapDeleter(t) \/ LeaveWaiting(t)
Releasing(t) == ReleaseInserter(t) \/ ReleaseDeleter(t)
GateCall(t) == CallAllowInserter(t) \/ CallAllowDeleter(t)

GateNext == \E t \in Threads : GateCall(t) \/ Allowing(t) \/ Releasing(t)

GateSpec == GateInit /\ [][GateNext]_gateVars

\* a task that spins yields and is scheduled again, and every operation
\* that was let in ends by releasing the gate
FairGateSpec == 
  GateSpec /\ \A t \in Threads : WF_gateVars(Allowing(t) \/ Releasing(t))

-----------------------------------------------------------------------------
Inside == {t \in Threads : gate[t] = "inside"}
Deleting == {t \in Threads : gate[t] \in {"d_leave", "exclusive"}}
Waiting == {t \in Threads : gate[t] \in {"d_read", "d_swap"}}
Counted == {t \in Threads : gate[t] \in {"d_read", "d_swap", "d_leave"}}

GateTypeOK == 
  /\ inserters \in Nat /\ deleters \in Nat
  /\ gate \in [Threads -> GatePoints]
  /\ seen \in [Threads -> Nat]

(* A deleter is alone in its list: no other deleter and no inserter is     *)
(* inside, whatever the tasks had read of the counters before.             *)
MutualExclusion == 
  \A t, u \in Threads : 
    t \in Deleting /\ u \in Inside \cup Deleting => t = u

(* inserter_array_ counts the inserters inside, or is has_deleter and then *)
(* stands for exactly one deleter; deleter_array_ counts the deleters that *)
(* have not left allow_deleter.                                            *)
InsertersCounted == 
  IF Deleting = {} 
    THEN inserters = Cardinality(Inside)
    ELSE inserters = HasDeleter /\ Inside = {}
DeletersCounted == deleters = Cardinality(Counted)

\* no task swaps with has_deleter as the expected value
SwapExpectsCount == \A t \in Threads : gate[t] = "i_swap" => seen[t] # HasDeleter

GateInv == 
  /\ GateTypeOK /\ MutualExclusion
  /\ InsertersCounted /\ DeletersCounted /\ SwapExpectsCount

(* The gate implements a read-write lock.                                  *)
Lock == INSTANCE ReadWriteLock WITH sharing <- Inside, owning <- Deleting
ImplementsLock == Lock!Spec

(* Inserters cannot keep the deleters out for ever: when one waits, one of *)
(* them gets in.  (Which one is not determined, and inserters have no such *)
(* guarantee against a stream of deleters.)                                *)
SomeDeleterEnters == Waiting # {} ~> Deleting # {}
=============================================================================
