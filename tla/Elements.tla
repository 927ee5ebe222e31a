------------------------------ MODULE Elements ------------------------------
(***************************************************************************)
(* What Array, Vector and Atomic have in common: elements in the memory    *)
(* of the localities, and operations that cut the positions they are about *)
(* into pieces, each of them a run of elements on one locality.            *)
(*                                                                         *)
(* Elements are plain memory, so a program must not use a position while   *)
(* another call on it is under way.  What it may rely on then is that the  *)
(* position holds what its last operation has left there.  All elements of *)
(* a piece are handled in one step: nobody else may look at them.          *)
(***************************************************************************)
EXTENDS Calls

CONSTANT MaxSize     \* bound: positions that a program uses

Positions == 0..MaxSize - 1
Unwritten == -1

VARIABLES
  mem,       \* [Localities -> Seq(Nat)]: the elements in the memory of each
  size,      \* of the data structure
  capacity,  \* Vector's capacity_
  lock,      \* Vector's sizeCapacityLock_
  using,     \* [Tasks -> the positions of its call and of its handle]
  wanted,    \* history: [Positions -> what the last operation is to leave]
  asked,     \* history: the answers that calls are to give
  answers    \* history: the answers that they gave

storage == <<mem, size, capacity, lock>>
elementVars == <<callVars, storage, using, wanted, asked, answers>>

NoPositions == [call |-> {}, handle |-> {}]

InitElements(memory, n, cap, contents) == 
  /\ mem = memory /\ size = n /\ capacity = cap /\ lock = FALSE
  /\ using = [t \in Tasks |-> NoPositions]
  /\ wanted = contents /\ asked = {} /\ answers = {}

-----------------------------------------------------------------------------
Piece(l, o, first, n) == [loc |-> l, off |-> o, first |-> first, n |-> n]
Job(op, piece, number) == [op |-> op, piece |-> piece, number |-> number]
Jobs(op, pieces) == [i \in DOMAIN pieces |-> Job(op, pieces[i], calls)]

Operations == {"write", "read", "apply", "fetch"}
Asking == {"read", "fetch"}

\* what is written names the call and the position; the user's function adds
\* 1, and returns the old value if it returns anything
Value(op, old, number, p) == 
  CASE op = "write" -> 10 * (number + 1) + p
    [] op \in {"apply", "fetch"} -> old + 1
    [] op = "read" -> old

Answer(number, p, v) == [number |-> number, position |-> p, value |-> v]

Perform(j) == 
  LET at(i) == j.piece.first + (i - 1 - j.piece.off)
      here == (j.piece.off + 1)..(j.piece.off + j.piece.n)
  IN  /\ mem' = [mem EXCEPT ![j.piece.loc] = 
                  [i \in DOMAIN @ |-> IF i \in here 
                     THEN Value(j.op, @[i], j.number, at(i)) ELSE @[i]]]
      /\ answers' = answers \cup 
           {Answer(j.number, at(i), mem[j.piece.loc][i]) : 
              i \in {i \in here : j.op \in Asking 
                                    /\ i \in DOMAIN mem[j.piece.loc]}}

InPiece(piece) == piece.first..(piece.first + piece.n - 1)
InPieces(pieces) == UNION {InPiece(pieces[i]) : i \in DOMAIN pieces}

InUse == UNION {using[t].call \cup using[t].handle : t \in Tasks}

\* the positions ps are in use by a call, or by the handle, for op
Claim(t, how, op, ps) == 
  /\ ps \cap InUse = {} 
  /\ op # "write" => \A p \in ps : wanted[p] # Unwritten
  /\ using' = [using EXCEPT ![t][how] = @ \cup ps]
  /\ wanted' = [p \in Positions |-> 
       IF p \in ps THEN Value(op, wanted[p], calls, p) ELSE wanted[p]]
  /\ asked' = asked \cup {Answer(calls, p, wanted[p]) : 
                            p \in {p \in ps : op \in Asking}}

NoClaim == UNCHANGED <<using, wanted, asked>>

-----------------------------------------------------------------------------
\* a call that handles one piece after the other, waiting for each
Synchronous(t, name, op, pieces) == 
  /\ Calling(t, name) /\ Claim(t, "call", op, InPieces(pieces))
  /\ Become(t, [op |-> "pieces", jobs |-> Jobs(op, pieces)])
  /\ UNCHANGED <<acts, handle, storage, answers>>

\* activities for the pieces, waited for by the call or by the handle
ForPieces(t, async, jobs) == 
  {Activity(t, async, j.piece.loc, j) : j \in ToSet(jobs)}

Together(t, name, op, pieces) == 
  /\ Calling(t, name) /\ Claim(t, "call", op, InPieces(pieces))
  /\ Waiting(t, ForPieces(t, FALSE, Jobs(op, pieces)), "called")
  /\ UNCHANGED <<storage, answers>>

\* the pieces on the localities of here, at most one of them, at once
Asynchronous(t, name, op, pieces, here) == 
  LET jobs == Jobs(op, pieces)
      away == SelectSeq(jobs, LAMBDA j : j.piece.loc \notin here)
      near == ToSet(jobs) \ ToSet(away)
  IN  /\ Calling(t, name) /\ Claim(t, "handle", op, InPieces(pieces))
      /\ Leaving(t, ForPieces(t, TRUE, away))
      /\ IF near = {} THEN UNCHANGED <<mem, answers>>
                      ELSE \E j \in near : Perform(j)
      /\ UNCHANGED <<size, capacity, lock>>

NextPiece(t) == 
  /\ doing[t].op = "pieces" /\ doing[t].jobs # <<>>
  /\ Perform(Head(doing[t].jobs))
  /\ GoesOn(t, [doing[t] EXCEPT !.jobs = Tail(@)])
  /\ NoClaim /\ UNCHANGED <<size, capacity, lock>>

RunPiece(a) == 
  /\ a.work.op \in Operations
  /\ Perform(a.work) /\ Running(a, {})
  /\ NoClaim /\ UNCHANGED <<size, capacity, lock>>

Return(t) == 
  /\ \/ doing[t].op = "pieces" /\ doing[t].jobs = <<>>
     \/ doing[t].op = "called" /\ Mine(t, FALSE) = {}
  /\ GoesOn(t, Idle)
  /\ using' = [using EXCEPT ![t].call = {}]
  /\ UNCHANGED <<storage, wanted, asked, answers>>

waitForCompletion(t) == 
  /\ doing[t] = Idle /\ handle[t] /\ Mine(t, TRUE) = {}
  /\ handle' = [handle EXCEPT ![t] = FALSE]
  /\ using' = [using EXCEPT ![t].handle = {}]
  /\ UNCHANGED <<calls, acts, doing, storage, wanted, asked, answers>>

\* the pieces that are still to be handled
UnderWay == 
  {a.work : a \in {a \in acts : a.work.op \in Operations}}
    \cup UNION {ToSet(doing[t].jobs) : 
                  t \in {t \in Tasks : doing[t].op = "pieces"}}
=============================================================================
