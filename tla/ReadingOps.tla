----------------------------- MODULE ReadingOps -----------------------------
(***************************************************************************)
(* The distributed algorithms that only read: non_modifyng_sequence_ops.h, *)
(* minimum_maximum_ops.h, comparison_ops.h and the reductions of           *)
(* numeric_ops.h, all under core/impl.  Of each one _seq is what it does   *)
(* under the sequential policy and _par under the parallel one, with n     *)
(* tasks on a locality.  Iterators are indices of Elements(D), and         *)
(* Last(D) is the end of the range.                                        *)
(***************************************************************************)
EXTENDS Patterns

PastLast(D) == Len(Elements(D)) + 1

\* iterator_from_local: the global iterator of place i of locality k
FromLocal(D, k, i) == Offset(D, k) + i

all_of_seq(D, p) == 
  distributed_folding_map_early_termination(
    D, LAMBDA res, k : AllIn(D[k], p), LAMBDA res : ~res, TRUE)

all_of_par(D, n, p) == 
  AllTrue(distributed_map(D, LAMBDA k : 
          AllTrue(local_map(D[k], n, LAMBDA s, o : AllIn(s, p)))))

any_of_seq(D, p) == 
  distributed_folding_map_early_termination(
    D, LAMBDA res, k : AnyIn(D[k], p), LAMBDA res : res, FALSE)

any_of_par(D, n, p) == 
  AnyTrue(distributed_map(D, LAMBDA k : 
          AnyTrue(local_map(D[k], n, LAMBDA s, o : AnyIn(s, p)))))

\* a local place, or the partial solution if it is the end
FoundOr(D, k, i, else) == IF i <= Len(D[k]) THEN FromLocal(D, k, i) ELSE else

\* mutant: a later locality that finds nothing resets the result
find_seq_forgets(D, value) == 
  distributed_folding_map(
    D, LAMBDA res, k : FoundOr(D, k, FirstWhere(D[k], Is(value)), 
                               PastLast(D)), 
    PastLast(D))

find_seq(D, value) == 
  distributed_folding_map_early_termination(
    D, LAMBDA res, k : 
         FoundOr(D, k, FirstWhere(D[k], Is(value)), res),
    LAMBDA res : res # PastLast(D), PastLast(D))

find_if_seq(D, p) == 
  distributed_folding_map_early_termination(
    D, LAMBDA res, k : FoundOr(D, k, FirstWhere(D[k], p), res),
    LAMBDA res : res # PastLast(D), PastLast(D))

find_if_not_seq(D, p) == 
  distributed_folding_map_early_termination(
    D, LAMBDA res, k : FoundOr(D, k, FirstWhere(D[k], Not(p)), res),
    LAMBDA res : res # PastLast(D), PastLast(D))

\* the first of the localities' results that is not the end; a partition
\* that finds nothing returns the end of the locality's range
FirstFound(D, n, p) == 
  LET kernel(k) == 
        LET in_part(s, o) == LET i == FirstWhere(s, p)
                             IN  IF i <= Len(s) THEN o + i ELSE Len(D[k]) + 1
            found == local_map(D[k], n, in_part)
            f == FirstWhere(found, IsNot(Len(D[k]) + 1))
        IN  IF f <= Len(found) THEN FromLocal(D, k, found[f]) ELSE PastLast(D)
      res == distributed_map(D, kernel)
      g == FirstWhere(res, IsNot(PastLast(D)))
  IN  IF g <= Len(res) THEN res[g] ELSE PastLast(D)

find_par(D, n, value) == FirstFound(D, n, Is(value))
find_if_par(D, n, p) == FirstFound(D, n, p)
find_if_not_par(D, n, p) == FirstFound(D, n, Not(p))

\* std::count and std::count_if
count_if_seq(D, p) == 
  distributed_folding_map(D, LAMBDA cnt, k : cnt + CountWhere(D[k], p), 0)

count_if_par(D, n, p) == 
  Sum(distributed_map(D, LAMBDA k : 
        Sum(local_map(D[k], n, LAMBDA s, o : CountWhere(s, p)))))

count_seq(D, value) == 
  distributed_folding_map(
    D, LAMBDA cnt, k : cnt + CountWhere(D[k], Is(value)), 0)

count_par(D, n, value) == 
  Sum(distributed_map(D, LAMBDA k : 
        Sum(local_map(D[k], n, LAMBDA s, o : CountWhere(s, Is(value))))))

-----------------------------------------------------------------------------
(* minimum_maximum_ops.h.  A solution is a pair of an iterator and the     *)
(* value there; NoSolution's iterator is the end.                          *)
NoSolution(D) == <<PastLast(D), 0>>

Solution(D, k, i) == 
  IF i <= Len(D[k]) THEN <<FromLocal(D, k, i), D[k][i]>> ELSE NoSolution(D)

\* x unless y is better
Better(D, x, y, less) == 
  IF y # NoSolution(D) /\ (x = NoSolution(D) \/ less[x[2], y[2]]) THEN y ELSE x

max_element_seq(D, less) == 
  distributed_folding_map(
    D, LAMBDA res, k : Better(D, res, Solution(D, k, MaxPlace(D[k], less)), less), 
    NoSolution(D))[1]

Greater(less) == [x, y \in Int |-> less[y, x]]

min_element_seq(D, less) == 
  distributed_folding_map(
    D, LAMBDA res, k : 
         Better(D, res, Solution(D, k, MinPlace(D[k], less)), Greater(less)), 
    NoSolution(D))[1]

\* the places that the tasks of a locality return, and the best of them
BestOfParts(D, k, n, place(_), best(_)) == 
  LET found == local_map(D[k], n, LAMBDA s, o : o + place(s))
  IN  Solution(D, k, found[best([i \in DOMAIN found |-> D[k][found[i]]])])

\* of the localities' solutions res, the one that best chooses by the values
BestOf(D, res, best(_)) == 
  IF res = <<>> THEN PastLast(D) 
  ELSE res[best([i \in DOMAIN res |-> res[i][2]])][1]

max_element_par(D, n, less) == 
  LET largest(s) == MaxPlace(s, less)
  IN  BestOf(D, distributed_map(D, LAMBDA k : 
                  BestOfParts(D, k, n, largest, largest)), largest)

min_element_par(D, n, less) == 
  LET least(s) == MinPlace(s, less)
  IN  BestOf(D, distributed_map(D, LAMBDA k : 
                  BestOfParts(D, k, n, least, least)), least)

\* the maximum is the last one within a locality, and that of the first of
\* the localities
minmax_element_seq(D, less) == 
  LET kernel(res, k) == 
        <<Better(D, res[1], Solution(D, k, MinPlace(D[k], less)), Greater(less)),
          Better(D, res[2], Solution(D, k, LastMaxPlace(D[k], less)), less)>>
      res == distributed_folding_map(D, kernel, 
               <<NoSolution(D), NoSolution(D)>>)
  IN  <<res[1][1], res[2][1]>>

\* here the maximum is the last one within a partition
minmax_element_par(D, n, less) == 
  LET largest(s) == MaxPlace(s, less)
      last(s) == LastMaxPlace(s, less)
  IN  <<min_element_par(D, n, less),
        BestOf(D, distributed_map(D, LAMBDA k : 
                    BestOfParts(D, k, n, last, largest)), largest)>>

-----------------------------------------------------------------------------
(* comparison_ops.h, with a second range given as the sequence s2.         *)
equal_seq(D, s2, p) == 
  distributed_folding_map_early_termination(
    D, LAMBDA res, k : 
         LET e == FirstWhere([i \in DOMAIN D[k] |-> p[D[k][i], s2[res[1] + i - 1]]], 
                             Not([b \in BOOLEAN |-> b]))
         IN  <<res[1] + e - 1, e > Len(D[k])>>,
    LAMBDA res : ~res[2], <<1, TRUE>>)[2]

\* what the localities find of their parts ...
equal_parts(D, s2, p) == 
  [k \in DOMAIN D |-> \A i \in DOMAIN D[k] : p[D[k][i], s2[Offset(D, k) + i]]]

\* ... is asked for with all_of, whose value is not used
equal_par(D, s2, p) == TRUE

\* from index f of s2, the comparison of a local part with the rest of s2:
\* where it stopped and whether the part is less
LexLocal(s, s2, f, less) == 
  LET n == Min({Len(s), Len(s2) - f + 1})
      differs(i) == less[s[i], s2[f + i - 1]] \/ less[s2[f + i - 1], s[i]]
      d == FirstWhere([i \in 1..n |-> differs(i)], [b \in BOOLEAN |-> b])
  IN  IF d <= n THEN <<f + d - 1, less[s[d], s2[f + d - 1]]>>
      ELSE <<f + n, f + n <= Len(s2)>>

\* a locality that finds its part less does not end the comparison
lexicographical_compare_seq(D, s2, less) == 
  distributed_folding_map_early_termination(
    D, LAMBDA res, k : LexLocal(D[k], s2, res[1], less),
    LAMBDA res : ~res[2], <<1, TRUE>>)[2]

\* what the localities find of their parts, for an s2 that is not shorter
lexicographical_compare_parts(D, s2, less) == 
  [k \in DOMAIN D |-> LexLocal(D[k], s2, Offset(D, k) + 1, less)[2]]

\* all_of's value is not used here either
lexicographical_compare_par(D, s2, less) == TRUE

-----------------------------------------------------------------------------
(* The reductions of numeric_ops.h.                                        *)
Reduced(s, op) == Accumulated(Head(s), Tail(s), op)

accumulate(D, init, op) == 
  distributed_folding_map(D, LAMBDA res, k : Accumulated(res, D[k], op), init)

inner_product_op(D, s2, init, op1, op2) == 
  distributed_folding_map(
    D, LAMBDA res, k : 
         FoldLeft(LAMBDA a, x : <<a[1] + 1, op1[a[2], op2[x, s2[a[1]]]]>>, 
                  res, D[k]), 
    <<1, init>>)[2]

inner_product(D, s2, init) == 
  distributed_folding_map(
    D, LAMBDA res, k : 
         FoldLeft(LAMBDA a, x : <<a[1] + 1, a[2] + x * s2[a[1]]>>, res, D[k]), 
    <<1, init>>)[2]

reduce_seq(D, init, op) == accumulate(D, init, op)

\* mutant: the localities' results are combined from the last to the first
reduce_par_backwards(D, n, init, op) == 
  LET kernel(k) == Reduced(local_map(D[k], n, LAMBDA s, o : Reduced(s, op)), op)
  IN  Accumulated(init, Reverse(distributed_map(D, kernel)), op)

reduce_par(D, n, init, op) == 
  LET kernel(k) == Reduced(local_map(D[k], n, LAMBDA s, o : Reduced(s, op)), op)
  IN  Accumulated(init, distributed_map(D, kernel), op)

transform_reduce_seq(D, init, op, uop) == 
  distributed_folding_map(
    D, LAMBDA res, k : FoldLeft(LAMBDA a, x : op[a, uop[x]], res, D[k]), init)

transform_reduce_par(D, n, init, op, uop) == 
  LET part(s, o) == Reduced([i \in DOMAIN s |-> uop[s[i]]], op)
      kernel(k) == Reduced(local_map(D[k], n, part), op)
  IN  Accumulated(init, distributed_map(D, kernel), op)

transform_reduce2_seq(D, s2, init, op, op2) == 
  distributed_folding_map(
    D, LAMBDA res, k : 
         FoldLeft(LAMBDA a, x : <<a[1] + 1, op[a[2], op2[x, s2[a[1]]]]>>, 
                  res, D[k]), 
    <<1, init>>)[2]

\* reads the first element of every locality, also where there is none:
\* defined only for ranges without an empty part
transform_reduce2_par(D, s2, init, op, op2) == 
  LET kernel(k) == Reduced([i \in DOMAIN D[k] |-> 
                             op2[D[k][i], s2[Offset(D, k) + i]]], op)
  IN  Accumulated(init, [k \in DOMAIN D |-> kernel(k)], op)
=============================================================================
