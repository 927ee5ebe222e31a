--------------------------- MODULE ElementPrograms ---------------------------
(***************************************************************************)
(* Programs that use the elements of an Array, a Vector or an Atomic, and  *)
(* what they find there.                                                   *)
(***************************************************************************)
EXTENDS Elements

CONSTANTS MaxChunkSize, BlockSize, MaxElements, Owner

A == INSTANCE Array
V == INSTANCE Vector
C == INSTANCE Atomic

Init == 
  /\ InitCalls
  /\ \/ kind = "array" /\ \E n \in program.sizes : A!InitArray(n)
     \/ kind = "vector" /\ \E n \in program.sizes : V!InitVector(n)
     \/ kind = "atomic" /\ C!InitAtomic

Operation == 
  \/ kind = "array" /\ A!Next
  \/ kind = "vector" /\ V!Next
  \/ kind = "atomic" /\ C!Next

Next == 
  /\ \/ Operation
     \/ \E t \in Tasks : NextPiece(t) \/ Return(t) \/ waitForCompletion(t)
     \/ \E a \in acts : RunPiece(a)
  /\ UNCHANGED <<kind, program>>

Spec == Init /\ [][Next]_elementVars

-----------------------------------------------------------------------------
Place(p) == 
  CASE kind = "array" -> A!PlaceInArray(p)
    [] kind = "vector" -> V!PlaceInVector(p)
    [] kind = "atomic" -> [loc |-> Owner, off |-> 0]

Holds(p) == 
  LET elements == mem[Place(p).loc]
  IN  Place(p).off < Len(elements) /\ elements[Place(p).off + 1] = wanted[p]

(* A position that no call is about any more, and no handle that is still  *)
(* to be waited for, holds what its last operation was to leave there.  An *)
(* atomic's value is at any time that of its operations so far, each of    *)
(* them done exactly once.                                                 *)
Kept == \A p \in Positions \ InUse : wanted[p] # Unwritten => Holds(p)

(* A call that reads answers for every position it was asked for, and with *)
(* the value that the last operation on it has left, once it is over.      *)
AnswersTrue == 
  /\ answers \subseteq asked
  /\ \A q \in asked \ answers : \E j \in UnderWay : 
       j.number = q.number /\ q.position \in InPiece(j.piece)

(* Whatever is on its way to a locality finds its elements in the memory   *)
(* there: in a vector, the blocks of a position are allocated before any   *)
(* call goes there.                                                        *)
InBounds == 
  \A j \in UnderWay : j.piece.off + j.piece.n <= Len(mem[j.piece.loc])
=============================================================================
