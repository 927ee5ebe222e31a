------------------------------ MODULE Patterns ------------------------------
(***************************************************************************)
(* The patterns of core/impl/impl_patterns.h, from which the distributed   *)
(* algorithms are built.  A distributed range is a sequence D: D[k] holds  *)
(* the elements of the range on its k-th locality, possibly none.          *)
(*                                                                         *)
(* Kernels that only read do not see each other, so what they return does  *)
(* not depend on the order in which localities and tasks run them.  The    *)
(* algorithms that write are in module WritingOps.                         *)
(***************************************************************************)
EXTENDS Integers, Sequences, SequencesExt, FiniteSetsExt

Elements(D) == FlattenSeq(D)

\* elements of the range before its k-th locality
Offset(D, k) == Len(FlattenSeq(SubSeq(D, 1, k - 1)))

\* one locality after the other, each from what the last one returned
distributed_folding_map(D, kernel(_, _), init) == 
  FoldLeft(kernel, init, [k \in DOMAIN D |-> k])

distributed_folding_map_early_termination(D, kernel(_, _), halt(_), init) == 
  FoldLeft(LAMBDA res, k : IF halt(res) THEN res ELSE kernel(res, k), 
           init, [k \in DOMAIN D |-> k])

\* the localities whose results are kept: those that have elements
ValidLocalities(D) == 
  SelectSeq([k \in DOMAIN D |-> k], LAMBDA k : D[k] # <<>>)

\* all localities at once
distributed_map(D, kernel(_)) == 
  [i \in DOMAIN ValidLocalities(D) |-> kernel(ValidLocalities(D)[i])]

-----------------------------------------------------------------------------
\* local_iterator_traits<T*>::partitions: at most n blocks of one size, the
\* last one may be smaller
Partitions(len, n) == 
  LET parts == Min({n, len})
      block == (len + parts - 1) \div parts
      blocks == (len + block - 1) \div block
  IN  IF parts = 0 THEN <<>>
      ELSE [i \in 1..blocks |-> <<(i - 1) * block, Min({i * block, len})>>]

\* the partitions of a local range s for n tasks, each with its offset
LocalParts(s, n) == 
  LET ps == Partitions(Len(s), n)
  IN  [i \in DOMAIN ps |-> [part |-> SubSeq(s, ps[i][1] + 1, ps[i][2]), 
                           offset |-> ps[i][1]]]

local_map(s, n, kernel(_, _)) == 
  LET parts == LocalParts(s, n)
  IN  [i \in DOMAIN parts |-> kernel(parts[i].part, parts[i].offset)]

-----------------------------------------------------------------------------
(* The standard algorithms that kernels call on local sequences.  A place  *)
(* is an index, and one past the last stands for end().  A predicate is a  *)
(* function p to BOOLEAN, a comparison a function less[x, y].              *)
Is(v) == [x \in Int |-> x = v]
IsNot(v) == [x \in Int |-> x # v]
Not(p) == [x \in DOMAIN p |-> ~p[x]]

AllIn(s, p) == \A i \in DOMAIN s : p[s[i]]
AnyIn(s, p) == \E i \in DOMAIN s : p[s[i]]
AllTrue(s) == FALSE \notin ToSet(s)
AnyTrue(s) == TRUE \in ToSet(s)

FirstWhere(s, p) == 
  CHOOSE i \in 1..(Len(s) + 1) : 
    /\ i <= Len(s) => p[s[i]]
    /\ \A j \in 1..(i - 1) : ~p[s[j]]

CountWhere(s, p) == Cardinality({i \in DOMAIN s : p[s[i]]})

Accumulated(init, s, op) == FoldLeft(LAMBDA a, x : op[a, x], init, s)

\* max_element and min_element: the first of the largest and the smallest,
\* for any less[x, y] of two elements
MaxPlace(s, less) == 
  FoldLeft(LAMBDA best, i : IF best = Len(s) + 1 THEN i
                            ELSE IF less[s[best], s[i]] THEN i ELSE best,
           Len(s) + 1, [i \in DOMAIN s |-> i])

MinPlace(s, less) == 
  FoldLeft(LAMBDA best, i : IF best = Len(s) + 1 THEN i
                            ELSE IF less[s[i], s[best]] THEN i ELSE best,
           Len(s) + 1, [i \in DOMAIN s |-> i])

\* minmax_element's second: the last of the largest
LastMaxPlace(s, less) == 
  FoldLeft(LAMBDA best, i : IF best = Len(s) + 1 THEN i
                            ELSE IF less[s[i], s[best]] THEN best ELSE i,
           Len(s) + 1, [i \in DOMAIN s |-> i])

\* std::plus for numbers
Sum(s) == FoldLeft(LAMBDA a, x : a + x, 0, s)
=============================================================================
