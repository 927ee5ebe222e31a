---------------------------- MODULE Distribution ----------------------------
(***************************************************************************)
(* Where the elements of a distributed array live.  shad::array<T, N>      *)
(* (core/array.h, kind "core") gives the larger chunks to the first        *)
(* localities, shad::Array<T> (data_structures/array.h, kind "Array") to   *)
(* the last ones.  N elements, L localities, both at least 1; localities   *)
(* and positions count from 0.                                             *)
(*                                                                         *)
(* An iterator is a place [loc, off].  Its oid_ and its cached chunk_      *)
(* pointer are left out: they say which array, not where in it.            *)
(***************************************************************************)
EXTENDS Integers, Sequences, FiniteSetsExt, SequencesExt

Kinds == {"core", "Array"}

Least(a, b) == IF a <= b THEN a ELSE b

Pivot(kind, N, L) == 
  IF kind = "core" THEN N % L 
  ELSE IF N % L = 0 THEN L ELSE L - (N % L)

ChunkSize(N, L) == IF N % L # 0 THEN N \div L + 1 ELSE N \div L

\* elements of locality l
Chunk(kind, N, L, l) == 
  IF kind = "core" 
    THEN IF Pivot(kind, N, L) # 0 /\ l >= Pivot(kind, N, L)
           THEN ChunkSize(N, L) - 1 ELSE ChunkSize(N, L)
    ELSE IF l < Pivot(kind, N, L) THEN N \div L ELSE N \div L + 1

At(l, o) == [loc |-> l, off |-> o]

Begin(kind, N, L) == 
  At(IF kind = "Array" /\ N < L THEN Pivot(kind, N, L) ELSE 0, 0)

LastLocality(kind, N, L) == IF kind = "core" /\ N < L THEN N - 1 ELSE L - 1

End(kind, N, L) == 
  LET last == LastLocality(kind, N, L)
  IN  At(last, IF N < L THEN 1 ELSE Chunk(kind, N, L, last))

-----------------------------------------------------------------------------
(* The operators of array_iterator.                                        *)
Increment(kind, N, L, it) == 
  IF N < L
    THEN IF it.loc = LastLocality(kind, N, L) 
           THEN At(it.loc, it.off + 1) ELSE At(it.loc + 1, it.off)
    ELSE IF it.off + 1 = Chunk(kind, N, L, it.loc) /\ it.loc < L - 1
           THEN At(it.loc + 1, 0) ELSE At(it.loc, it.off + 1)

\* mutant: the offset within the last locality is taken for this one's
DecrementFull(kind, N, L, it) == 
  IF it.loc > 0 /\ it.off = 0
    THEN At(it.loc - 1, ChunkSize(N, L) - 1)
    ELSE At(it.loc, it.off - 1)

\* in Array every decrement goes to the end of a chunk
Decrement(kind, N, L, it) == 
  LET l == IF it.loc > 0 /\ it.off = 0 THEN it.loc - 1 ELSE it.loc
  IN  At(l, IF kind = "Array" \/ l # it.loc 
              THEN Chunk(kind, N, L, l) - 1 ELSE it.off - 1)

\* mutant: the end of a chunk is taken for a place in it
GoPastStrict(kind, N, L, last, l0, n0) == 
  LET from[l \in Nat, n \in Nat] == 
        IF l < last /\ n > Chunk(kind, N, L, l)
          THEN from[l + 1, n - Chunk(kind, N, L, l)] ELSE At(l, n)
  IN  from[l0, n0]

\* the loop of operator+=: from locality l0, past the localities before last
\* that n covers.  For Array, last is wrong if there are fewer elements than
\* localities.
GoPast(kind, N, L, last, l0, n0) == 
  LET from[l \in Nat, n \in Nat] == 
        IF l < last /\ n >= Chunk(kind, N, L, l)
          THEN from[l + 1, n - Chunk(kind, N, L, l)] ELSE At(l, n)
  IN  from[l0, n0]

Advance(kind, N, L, it, n) == 
  LET last == IF N < L THEN N - 1 ELSE L - 1
      chunk == Chunk(kind, N, L, it.loc)
  IN  IF n = 0 \/ L = 1 \/ it.loc = last \/ n + it.off < chunk
        THEN At(it.loc, it.off + n)
        ELSE GoPast(kind, N, L, last, it.loc + 1, n - (chunk - it.off))

\* the loop of operator-=: it asks for the chunk of l at every turn
GoBack(kind, N, L, l, it, n0) == 
  LET from[k \in Nat, o \in Int, n \in Int] == 
        IF k > 0 /\ n > o
          THEN from[k - 1, Chunk(kind, N, L, l) - 1, n - (o + 1)]
          ELSE At(k, o - n)
  IN  from[it.loc, it.off, n0]

Retreat(kind, N, L, it, n) == 
  IF n > it.off /\ L > 1 /\ it.loc # 0
    THEN LET l == it.loc - 1
             o == IF kind = "core" THEN Chunk(kind, N, L, l) - 1 ELSE -1
             m == n - (it.off + 1)
         IN  IF l = 1 THEN At(l, o - m) 
             ELSE GoBack(kind, N, L, l - 1, At(l, o), m)
    ELSE At(it.loc, it.off - n)

Less(a, b) == a.loc < b.loc \/ (a.loc = b.loc /\ a.off < b.off)

\* operator-(O) for it before O: the chunks from it to O, less their ends
Between(kind, N, L, it, O) == 
  LET chunk(l) == Chunk(kind, N, L, l)
  IN  MapThenSumSet(chunk, it.loc..O.loc) - it.off - (chunk(O.loc) - O.off)

Difference(kind, N, L, it, O) == 
  IF Less(O, it) THEN Between(kind, N, L, O, it)
  ELSE IF it = O THEN 0 ELSE -Between(kind, N, L, it, O)

-----------------------------------------------------------------------------
(* The traits: what the algorithms ask of a range [b, e).                  *)
Localities(b, e) == b.loc..e.loc

\* mutant: the first locality's part is its whole chunk
LocalRangeFromZero(kind, N, L, b, e, l) == 
  IF l < b.loc \/ l > e.loc THEN <<0, 0>>
  ELSE <<0, IF l = e.loc THEN e.off ELSE Chunk(kind, N, L, l)>>

\* the offsets of [b, e) on locality l: from the first to before the second
LocalRange(kind, N, L, b, e, l) == 
  IF l < b.loc \/ l > e.loc THEN <<0, 0>>
  ELSE <<IF l = b.loc THEN b.off ELSE 0, 
         IF l = e.loc THEN e.off ELSE Chunk(kind, N, L, l)>>

\* the blocks of [b, e) in order, as <<locality, length>>
Blocks(kind, N, L, b, e) == 
  LET first == (IF b.loc = e.loc THEN e.off ELSE Chunk(kind, N, L, b.loc)) 
                 - b.off
      inner == [i \in 1..(e.loc - b.loc - 1) |-> 
                  <<b.loc + i, Chunk(kind, N, L, b.loc + i)>>]
      last == IF e.off # 0 /\ b.loc # e.loc 
                THEN <<<<e.loc, e.off>>>> ELSE <<>>
  IN  <<<<b.loc, first>>>> \o inner \o last

-----------------------------------------------------------------------------
(* From a position to a place.                                             *)
\* array::operator[]: goes past the chunks of all localities but the last
Index(N, L, pos) == GoPast("core", N, L, L - 1, 0, pos)

\* Array's dataDistribution_: the first and the last position of locality l.
\* Localities before the pivot have none if there are too few elements.
DataDistribution(N, L, l) == 
  LET q == N \div L
      p == Pivot("Array", N, L)
  IN  IF l < p THEN <<l * q, l * q + q - 1>>
               ELSE <<l * q + l - p, l * q + l - p + q>>

\* getTargetLocalityFromTargePosition: the first locality with elements
\* whose last position is not before pos
Target(N, L, pos) == 
  LET first == Begin("Array", N, L).loc
      end(l) == DataDistribution(N, L, l)[2]
      l == CHOOSE k \in first..(L - 1) : 
             end(k) >= pos /\ \A j \in first..(k - 1) : end(j) < pos
  IN  At(l, pos - DataDistribution(N, L, l)[1])

-----------------------------------------------------------------------------
(* The ranged operations of Array cut [pos, pos + n) into pieces, one per  *)
(* locality, and InsertAt sends no more than max values in one message.    *)
Piece(l, o, first, n) == [loc |-> l, off |-> o, first |-> first, n |-> n]

FirstPiece(N, L, pos, n) == 
  LET q == N \div L
      p == Pivot("Array", N, L)
      new == pos - p * q
  IN  IF pos < p * q
        THEN Piece(pos \div q, pos % q, pos, Least(q - (pos % q), n))
        ELSE Piece(p + new \div (q + 1), new % (q + 1), pos, 
                   Least(q + 1 - (new % (q + 1)), n))

\* one element at a time if there are fewer elements than localities;
\* this is the locality that asks, and copies its own values in one piece
Pieces(N, L, this, max, pos0, n0) == 
  LET piece(pos, n) == 
        LET p == FirstPiece(N, L, pos, n)
        IN  IF p.loc = this THEN p ELSE [p EXCEPT !.n = Least(@, max)]
      from[pos \in Nat, n \in Nat] == 
        IF n = 0 THEN <<>>
        ELSE <<piece(pos, n)>> 
               \o from[pos + piece(pos, n).n, n - piece(pos, n).n]
      single(i) == LET t == Target(N, L, pos0 + i - 1) 
                   IN  Piece(t.loc, t.off, pos0 + i - 1, 1)
  IN  IF N < L THEN [i \in 1..n0 |-> single(i)] ELSE from[pos0, n0]
=============================================================================
