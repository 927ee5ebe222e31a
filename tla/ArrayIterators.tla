--------------------------- MODULE ArrayIterators ---------------------------
(***************************************************************************)
(* A program walks over a distributed array with an iterator: begin(),     *)
(* ++, --, +=, -= of array::array_iterator (core/array.h) and of           *)
(* Array::array_iterator (data_structures/array.h).  pos is the index that *)
(* a random access iterator would have reached by the same steps.          *)
(*                                                                         *)
(* The walk uses what the code supports.  Of -= that is, in core, to the   *)
(* locality before and, in Array, not past a locality; Array's -- leaves   *)
(* its place unless the iterator is at the end of a chunk, and its += does *)
(* not work with fewer elements than localities.                           *)
(***************************************************************************)
EXTENDS Distribution

CONSTANTS
  Sizes,       \* numbers of elements
  Counts,      \* numbers of localities
  Callers,     \* localities that call begin()
  MaxChunks    \* values of kMaxChunkSize, in elements

ASSUME SizesAssumption == Sizes \subseteq Nat \ {0}
ASSUME CountsAssumption == Counts \subseteq Nat \ {0}
ASSUME CallersAssumption == Callers \subseteq Nat
ASSUME MaxChunksAssumption == MaxChunks \subseteq Nat \ {0}

VARIABLES
  kind, N, L,  \* the array
  size,        \* the iterator's size_
  it,
  pos

array == <<kind, N, L>>
vars == <<kind, N, L, size, it, pos>>

\* begin() of Array sets size_ only on locality 0, and only if there are as
\* many elements as localities
Init == 
  /\ kind \in Kinds /\ N \in Sizes /\ L \in Counts
  /\ \E l \in Callers : 
       /\ l < L
       /\ size = IF kind = "core" \/ (N >= L /\ l = 0) THEN N ELSE 0
  /\ it = Begin(kind, N, L)
  /\ pos = 0

Move(to, n) == it' = to /\ pos' = pos + n /\ UNCHANGED <<array, size>>

Step == pos < N /\ Move(Increment(kind, size, L, it), 1)

AtChunkEnd == it.off = Chunk(kind, N, L, it.loc)

Previous == 
  /\ pos > 0
  /\ kind = "core" \/ (N >= L /\ (AtChunkEnd \/ it.off = 0))
  /\ Move(Decrement(kind, size, L, it), -1)

Forward(n) == 
  /\ n <= N - pos
  /\ kind = "core" \/ N >= L
  /\ Move(Advance(kind, size, L, it, n), n)

Back(n) == 
  /\ n <= pos
  /\ n <= it.off + (IF kind = "core" /\ it.loc > 0
                      THEN Chunk(kind, N, L, it.loc - 1) ELSE 0)
  /\ kind = "core" \/ N >= L
  /\ Move(Retreat(kind, size, L, it, n), -n)

Next == Step \/ Previous \/ \E n \in 0..N : Forward(n) \/ Back(n)

Spec == Init /\ [][Next]_vars

-----------------------------------------------------------------------------
(* The reference: the elements are numbered from 0 over the localities,    *)
(* and an iterator at the end of a chunk is at the start of the next.      *)
Before(l) == 
  MapThenSumSet(LAMBDA k : Chunk(kind, N, L, k), Begin(kind, N, L).loc..(l - 1))

Place(p) == 
  IF p = N THEN End(kind, N, L)
  ELSE LET l == CHOOSE k \in 0..(L - 1) : 
                  Before(k) <= p /\ p < Before(k) + Chunk(kind, N, L, k)
       IN  At(l, p - Before(l))

\* the positions of the elements that a range of offsets of l stands for
PositionsOf(l, o1, o2) == [i \in 1..(o2 - o1) |-> Before(l) + o1 + i - 1]

(* Any number of steps leaves the iterator where the same steps on an      *)
(* index lead, so end() is reached, after N steps.                         *)
PositionExact == it = Place(pos)

(* A range is spread over the localities without a gap or an overlap: the  *)
(* localities' local ranges and the blocks of distribution(), put one      *)
(* after the other, are the elements from one iterator to the other, and   *)
(* as many as the difference of the iterators.                             *)
RangeCovered == 
  \A p \in 0..pos : 
    LET b == Place(p)
        parts == [i \in 1..(it.loc - b.loc + 1) |-> 
                    LET r == LocalRange(kind, N, L, b, it, b.loc + i - 1)
                    IN  PositionsOf(b.loc + i - 1, r[1], r[2])]
        blocks == Blocks(kind, N, L, b, it)
    IN  /\ FlattenSeq(parts) = [i \in 1..(pos - p) |-> p + i - 1]
        /\ Localities(b, it) = {b.loc + i - 1 : i \in DOMAIN parts}
        /\ SelectSeq(blocks, LAMBDA x : x[2] > 0) = 
           SelectSeq([i \in DOMAIN parts |-> <<b.loc + i - 1, Len(parts[i])>>],
                     LAMBDA x : x[2] > 0)
        /\ Difference(kind, N, L, it, b) = pos - p
        /\ Difference(kind, N, L, b, it) = p - pos

\* operator[], InsertAt and At go to the element of the iterator
FoundByIndex == 
  pos < N => IF kind = "core" THEN Index(N, L, pos) = it
                              ELSE Target(N, L, pos) = it

\* and so do the ranged operations of Array, for each element of their range,
\* once, whatever the length of a message and whoever asks
PiecesExact == 
  kind = "Array" => 
    \A n \in 0..(N - pos), this \in 0..(L - 1), max \in MaxChunks : 
      LET ps == Pieces(N, L, this, max, pos, n)
          reached == FlattenSeq([i \in DOMAIN ps |-> 
                       [j \in 1..ps[i].n |-> At(ps[i].loc, ps[i].off + j - 1)]])
      IN  reached = [i \in 1..n |-> Place(pos + i - 1)]

(* An element has one place: operator[], InsertAt and At find the element  *)
(* that an iterator at the same index stands at, and a ranged operation    *)
(* reaches each element of its range there, once.                          *)
OnePlace == FoundByIndex /\ PiecesExact
=============================================================================
