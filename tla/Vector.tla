------------------------------- MODULE Vector -------------------------------
(***************************************************************************)
(* shad::Vector: blocks of elements, dealt out to the localities in turn.  *)
(* Size and capacity are kept at the main locality, under a lock there,    *)
(* and blocks are allocated on all localities while it is held.            *)
(*                                                                         *)
(* Programs insert a range where it begins in the vector or at its end,    *)
(* and ends at its end or beyond (a range within the vector overwrites its *)
(* last elements instead); Clear has the vector for itself; and, as the    *)
(* code asks for, programs use elements only below the size.               *)
(***************************************************************************)
EXTENDS Elements

CONSTANTS
  BlockSize,     \* kBlockSize
  MaxElements    \* kNumElements: of one message of a ranged insertion

\* _targetFromPosition, and the place in dataBlocks_ of that locality
Block(p) == p \div BlockSize
LocalityOf(p) == Block(p) % NumLocalities
OffsetOf(p) == (Block(p) \div NumLocalities) * BlockSize + (p % BlockSize)
PlaceInVector(p) == [loc |-> LocalityOf(p), off |-> OffsetOf(p)]

\* the constructor: _sizeToLocalBlocks, but at least one block
LocalBlocks(n, l) == 
  LET last == Block(n - 1)
      full == last \div NumLocalities
  IN  IF n = 0 THEN IF l = 0 THEN 1 ELSE 0
      ELSE Max({1, IF l <= last % NumLocalities THEN full + 1 ELSE full})

\* the element at position p is p + 1, as if it had been inserted
InitVector(n) == 
  InitElements(
    [l \in Localities |-> [i \in 1..(BlockSize * LocalBlocks(n, l)) |-> 
      LET ps == {p \in 0..n - 1 : PlaceInVector(p) = [loc |-> l, off |-> i - 1]}
      IN  IF ps = {} THEN 0 ELSE 1 + CHOOSE p \in ps : TRUE]],
    n, Max({BlockSize * Block(n), BlockSize}),
    [p \in Positions |-> IF p < n THEN p + 1 ELSE Unwritten])

-----------------------------------------------------------------------------
\* runs of elements, of at most max, that do not leave their block
BlockPieces(p0, n0, max) == 
  LET length(p, n) == Min({n, max, BlockSize - (p % BlockSize)})
      from[p \in Nat, n \in Nat] == 
        IF n = 0 THEN <<>>
        ELSE <<Piece(LocalityOf(p), OffsetOf(p), p, length(p, n))>>
               \o from[p + length(p, n), n - length(p, n)]
  IN  from[p0, n0]

OneElement(p) == BlockPieces(p, 1, 1)

-----------------------------------------------------------------------------
(* The size and the capacity.                                              *)
\* blocks for n elements, and one more if they fill the last block
BlocksToAllocate(n) == 1 + Block(n) - Block(capacity)
NewBlocks(n, l) == 
  Cardinality({i \in 0..BlocksToAllocate(n) - 1 : 
                 (Block(capacity) + i) % NumLocalities = l})

\* what a call does when it has left the lock
Proceed(t, how, jobs) == 
  CASE how = "pieces" -> 
         Become(t, [op |-> "pieces", jobs |-> jobs]) /\ UNCHANGED <<acts, handle>>
    [] how = "called" -> Waiting(t, ForPieces(t, FALSE, jobs), "called")
    [] how = "handle" -> 
         /\ acts' = acts \cup ForPieces(t, TRUE, jobs) 
         /\ handle' = [handle EXCEPT ![t] = TRUE] /\ Become(t, Idle)

\* under the lock: a size, then the blocks for it, then perhaps another size
Locked(t, n, before, after, how, jobs) == 
  /\ ~ lock /\ after <= MaxSize
  /\ IF capacity >= n
       THEN size' = after /\ Proceed(t, how, jobs) /\ UNCHANGED lock
       ELSE /\ size' = before /\ lock' = TRUE
            /\ acts' = acts \cup 
                 {Activity(t, FALSE, l, 
                           [op |-> "allocate", blocks |-> NewBlocks(n, l)]) : 
                    l \in {l \in Localities : NewBlocks(n, l) > 0}}
            /\ Become(t, [op |-> "reserving", blocks |-> BlocksToAllocate(n),
                          size |-> after, how |-> how, jobs |-> jobs])
            /\ UNCHANGED handle
  /\ UNCHANGED <<mem, capacity, answers>>

RunAllocate(a) == 
  /\ a.work.op = "allocate" /\ Running(a, {})
  /\ mem' = [mem EXCEPT ![a.at] = 
              @ \o [i \in 1..(a.work.blocks * BlockSize) |-> 0]]
  /\ NoClaim /\ UNCHANGED <<size, capacity, lock, answers>>

\* mutant: the blocks are not waited for
ReservedEarly(t) == 
  /\ doing[t].op = "reserving"
  /\ capacity' = capacity + BlockSize * doing[t].blocks
  /\ size' = doing[t].size /\ lock' = FALSE
  /\ Proceed(t, doing[t].how, doing[t].jobs)
  /\ NoClaim /\ UNCHANGED <<calls, mem, answers>>

Reserved(t) == 
  /\ doing[t].op = "reserving" /\ Mine(t, FALSE) = {}
  /\ capacity' = capacity + BlockSize * doing[t].blocks
  /\ size' = doing[t].size /\ lock' = FALSE
  /\ Proceed(t, doing[t].how, doing[t].jobs)
  /\ NoClaim /\ UNCHANGED <<calls, mem, answers>>

Reserve(t, n) == 
  Calling(t, "Reserve") /\ Locked(t, n, size, size, "pieces", <<>>) /\ NoClaim

\* never shrinks
Resize(t, n) == 
  /\ Calling(t, "Resize") /\ NoClaim
  /\ IF n <= size THEN Locked(t, 0, size, size, "pieces", <<>>)
                  ELSE Locked(t, n, size, n, "pieces", <<>>)

Clear(t) == 
  /\ Calling(t, "Clear") /\ ~ lock /\ InUse = {} 
  /\ acts = {} /\ \A u \in Tasks : doing[u] = Idle
  /\ Waiting(t, OnAll(t, FALSE, [op |-> "clear"]), "clearing")
  /\ lock' = TRUE /\ size' = 0 /\ capacity' = 0
  /\ wanted' = [p \in Positions |-> Unwritten]
  /\ UNCHANGED <<mem, using, asked, answers>>

RunClear(a) == 
  /\ a.work.op = "clear" /\ Running(a, {})
  /\ mem' = [mem EXCEPT ![a.at] = <<>>]
  /\ NoClaim /\ UNCHANGED <<size, capacity, lock, answers>>

Cleared(t) == 
  /\ doing[t].op = "clearing" /\ Mine(t, FALSE) = {}
  /\ lock' = FALSE /\ GoesOn(t, Idle)
  /\ NoClaim /\ UNCHANGED <<mem, size, capacity, answers>>

-----------------------------------------------------------------------------
(* The elements.                                                           *)
PushBack(t) == 
  /\ Calling(t, "PushBack") /\ Claim(t, "call", "write", {size})
  /\ Locked(t, size + 1, size + 1, size + 1, "pieces", 
            Jobs("write", OneElement(size)))

\* a ranged insertion sends the first piece to the locality of position, and
\* puts the range where it ends at the new size
NewSize(p, n) == Max({size, p + n})
InsertPieces(p, n) == 
  LET pieces == BlockPieces(NewSize(p, n) - n, n, MaxElements)
  IN  [pieces EXCEPT ![1].loc = LocalityOf(p)]

Insertion(t, name, how, owner, p, n) == 
  /\ p <= size /\ size <= p + n
  /\ Calling(t, name) /\ Claim(t, owner, "write", p..p + n - 1)
  /\ Locked(t, NewSize(p, n), NewSize(p, n), NewSize(p, n), how, 
            Jobs("write", InsertPieces(p, n)))

InsertRangeAt(t, p, n) == Insertion(t, "InsertRangeAt", "called", "call", p, n)
AsyncInsertRangeAt(t, p, n) == 
  Insertion(t, "AsyncInsertRangeAt", "handle", "handle", p, n)

InsertOneAt(t, p) == Synchronous(t, "InsertOneAt", "write", OneElement(p))
AsyncInsertOneAt(t, p) == 
  Asynchronous(t, "AsyncInsertOneAt", "write", OneElement(p), {Home[t]})

At(t, p) == Synchronous(t, "At", "read", OneElement(p))
AsyncAt(t, p) == Asynchronous(t, "AsyncAt", "read", OneElement(p), {})
\* the size first, then the element before it
Back(t) == size > 0 /\ Synchronous(t, "Back", "read", OneElement(size - 1))

Apply(t, p) == Synchronous(t, "Apply", "apply", OneElement(p))
AsyncApply(t, p) == Asynchronous(t, "AsyncApply", "apply", OneElement(p), {})

ForEachInRange(t, p, n) == 
  Synchronous(t, "ForEachInRange", "apply", BlockPieces(p, n, BlockSize))
AsyncForEachInRange(t, p, n) == 
  Asynchronous(t, "AsyncForEachInRange", "apply", 
               BlockPieces(p, n, BlockSize), {})

OnPosition(t, p) == 
  \/ InsertOneAt(t, p) \/ AsyncInsertOneAt(t, p) \/ At(t, p) \/ AsyncAt(t, p)
  \/ Apply(t, p) \/ AsyncApply(t, p)

Next == 
  \/ \E t \in Tasks : 
       \/ PushBack(t) \/ Back(t) \/ Clear(t) \/ Cleared(t) \/ Reserved(t)
       \/ \E r \in program.ranges : 
            \/ InsertRangeAt(t, r[1], r[2]) \/ AsyncInsertRangeAt(t, r[1], r[2])
            \/ Reserve(t, r[1] + r[2]) \/ Resize(t, r[1] + r[2])
            \/ r[1] < size /\ OnPosition(t, r[1])
            \/ /\ r[1] + r[2] <= size
               /\ \/ ForEachInRange(t, r[1], r[2]) 
                  \/ AsyncForEachInRange(t, r[1], r[2])
  \/ \E a \in acts : RunAllocate(a) \/ RunClear(a)
=============================================================================
