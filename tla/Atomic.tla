------------------------------- MODULE Atomic -------------------------------
(***************************************************************************)
(* shad::Atomic: one std::atomic in the memory of its owner.  A call runs  *)
(* its operation there, either itself (at home, or by executeAt, which it  *)
(* waits for) or by an activity of its handle.  The user's function adds 1 *)
(* and stands for the FetchAdd, FetchSub, FetchAnd, FetchOr and FetchXor.  *)
(***************************************************************************)
EXTENDS Elements

CONSTANT Owner   \* the owner's locality

InitAtomic == 
  InitElements([l \in Localities |-> IF l = Owner THEN <<1>> ELSE <<>>], 1, 1,
               [p \in Positions |-> IF p = 0 THEN 1 ELSE Unwritten])

Cell == mem[Owner][1]
NotLoaded == -1

AtomicOps == {"load", "store", "add", "try", "force", "exchange"}

\* old is what was loaded last, or what CompareExchange expects to find
Work(op, old) == [op |-> op, old |-> old, number |-> calls]

Stored(w) == 10 * (w.number + 1)
IsOver == [op |-> "over"]

\* a step of an operation: the operation that is left of it, the new value,
\* what it was to be, and the value it answers with, if any
Turn(left, cell, want, answer) == 
  [left |-> left, cell |-> cell, wanted |-> want, answer |-> answer]

Nothing == {}
Load(w) == Turn(IsOver, Cell, wanted[0], {Cell})
Store(w) == Turn(IsOver, Stored(w), Stored(w), Nothing)
Fetch(w) == Turn(IsOver, Cell + 1, wanted[0] + 1, {Cell})
CompareExchange(w) == 
  IF Cell = w.old THEN Turn(IsOver, Stored(w), Stored(w), Nothing)
                  ELSE Turn(IsOver, Cell, wanted[0], Nothing)

LoadFirst(w) == Turn([w EXCEPT !.old = Cell], Cell, wanted[0], Nothing)
\* mutant: what was stored is the answer, not what was found
SuccessNew(w) == Turn(IsOver, w.old + 1, wanted[0] + 1, {w.old + 1})
Success(w) == Turn(IsOver, w.old + 1, wanted[0] + 1, {w.old})

\* Store with a function: one strong compare and exchange
TryStore(w) == 
  IF w.old = NotLoaded THEN {LoadFirst(w)}
  ELSE IF Cell = w.old 
    THEN {[Success(w) EXCEPT !.answer = Nothing]}
    ELSE {Turn(IsOver, Cell, wanted[0], Nothing)}

\* ForceStore, ForceFetchStore: a weak one, which may fail for no reason,
\* and then again from the load on
ForceStore(w) == 
  IF w.old = NotLoaded THEN {LoadFirst(w)}
  ELSE (IF Cell = w.old THEN {Success(w)} ELSE {}) \cup 
       {Turn([w EXCEPT !.old = NotLoaded], Cell, wanted[0], Nothing)}

Turns(w) == 
  CASE w.op = "load" -> {Load(w)} [] w.op = "store" -> {Store(w)}
    [] w.op = "add" -> {Fetch(w)} [] w.op = "try" -> TryStore(w)
    [] w.op = "force" -> ForceStore(w) 
    [] w.op = "exchange" -> {CompareExchange(w)}

Take(w, turn) == 
  /\ mem' = [mem EXCEPT ![Owner] = <<turn.cell>>]
  /\ wanted' = [wanted EXCEPT ![0] = turn.wanted]
  /\ asked' = asked \cup {Answer(w.number, 0, wanted[0]) : v \in turn.answer}
  /\ answers' = answers \cup {Answer(w.number, 0, v) : v \in turn.answer}
  /\ UNCHANGED <<size, capacity, lock, using>>

-----------------------------------------------------------------------------
Operate(t, name, op, old) == 
  /\ Calling(t, name) 
  /\ Become(t, [op |-> "operating", work |-> Work(op, old)])
  /\ UNCHANGED <<acts, handle, storage, answers>> /\ NoClaim

AsyncOperate(t, name, op, old) == 
  \/ Home[t] = Owner /\ Operate(t, name, op, old)
  \/ /\ Home[t] # Owner /\ Calling(t, name) 
     /\ Leaving(t, {Activity(t, TRUE, Owner, Work(op, old))})
     /\ UNCHANGED <<storage, answers>> /\ NoClaim

RunOperation(t) == 
  /\ doing[t].op = "operating"
  /\ \E turn \in Turns(doing[t].work) : 
       /\ Take(doing[t].work, turn)
       /\ GoesOn(t, IF turn.left = IsOver THEN Idle 
                    ELSE [op |-> "operating", work |-> turn.left])

RunAsyncOperation(a) == 
  /\ a.work.op \in AtomicOps
  /\ \E turn \in Turns(a.work) : 
       /\ Take(a.work, turn)
       /\ Running(a, IF turn.left = IsOver THEN {} 
                     ELSE {[a EXCEPT !.work = turn.left]})

\* CompareExchange expects what the program has read before
Next == 
  \/ \E t \in Tasks : 
       \/ \E op \in AtomicOps : 
            LET old == IF op = "exchange" THEN Cell ELSE NotLoaded
            IN  Operate(t, op, op, old) \/ AsyncOperate(t, "async", op, old)
       \/ RunOperation(t)
  \/ \E a \in acts : RunAsyncOperation(a)
=============================================================================
