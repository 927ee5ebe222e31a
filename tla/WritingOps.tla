----------------------------- MODULE WritingOps -----------------------------
(***************************************************************************)
(* The distributed algorithms that write: modifyng_sequence_ops.h and the  *)
(* scans of numeric_ops.h, under core/impl.  An operator's value is what   *)
(* it leaves in the output range, element by element; input and output are *)
(* different ranges, or the algorithm writes each element where it read it.*)
(*                                                                         *)
(* Every kernel writes the elements of its own part and no other (module   *)
(* Algorithms checks the pieces of transform), so what the localities and  *)
(* tasks leave does not depend on their order.                             *)
(***************************************************************************)
EXTENDS Patterns

\* each locality, and under the parallel policy each of n tasks on it,
\* replaces its elements
InPlace_seq(D, f) == 
  FlattenSeq([k \in DOMAIN D |-> [i \in DOMAIN D[k] |-> f[D[k][i]]]])

InPlace_par(D, n, f) == 
  LET kernel(k) == FlattenSeq(
        local_map(D[k], n, LAMBDA s, o : [i \in DOMAIN s |-> f[s[i]]]))
  IN  FlattenSeq([k \in DOMAIN D |-> kernel(k)])

fill_seq(D, value) == InPlace_seq(D, [x \in Int |-> value])
fill_par(D, n, value) == InPlace_par(D, n, [x \in Int |-> value])

\* for_each with a function that changes its argument
for_each_seq(D, f) == InPlace_seq(D, f)
for_each_par(D, n, f) == InPlace_par(D, n, f)

\* generate with a generator that has no state
generate_seq(D, value) == InPlace_seq(D, [x \in Int |-> value])
generate_par(D, n, value) == InPlace_par(D, n, [x \in Int |-> value])

replace_seq(D, old, new) == InPlace_seq(D, [x \in Int |-> IF x = old THEN new ELSE x])
replace_par(D, n, old, new) == 
  InPlace_par(D, n, [x \in Int |-> IF x = old THEN new ELSE x])

replace_if_seq(D, p, new) == InPlace_seq(D, [x \in Int |-> IF p[x] THEN new ELSE x])
replace_if_par(D, n, p, new) == 
  InPlace_par(D, n, [x \in Int |-> IF p[x] THEN new ELSE x])

iota(D, value) == 
  distributed_folding_map(
    D, LAMBDA res, k : [out |-> res.out \o [i \in DOMAIN D[k] |-> res.acc + i - 1],
                        acc |-> res.acc + Len(D[k])],
    [out |-> <<>>, acc |-> value]).out

-----------------------------------------------------------------------------
(* transform.  The output range begins a new locality at each place of     *)
(* cuts; a kernel writes its part in blocks, one per output locality, and  *)
(* a block to another locality in messages of at most buf elements.  The   *)
(* part's own block, if there is one, is written by n tasks.               *)
Write(first, values) == [first |-> first, values |-> values]

\* distribution(d_first, d_last): the block of s that starts at place d goes
\* up to the next cut
BlockEnds(d, len, cuts) == {c \in cuts : d < c /\ c < d + len} \cup {d + len}

\* mutant: the output moves on by the whole buffer
block_contiguous_remote_full(s, d, buf) == 
  [m \in 1..((Len(s) + buf - 1) \div buf) |-> 
     Write(d + (m - 1) * (buf + 1), 
           SubSeq(s, (m - 1) * buf + 1, Min({m * buf, Len(s)})))]

block_contiguous_remote(s, d, buf) == 
  [m \in 1..((Len(s) + buf - 1) \div buf) |-> 
     Write(d + (m - 1) * buf, 
           SubSeq(s, (m - 1) * buf + 1, Min({m * buf, Len(s)})))]

block_contiguous_local(s, d) == <<Write(d, s)>>

block_contiguous_local_par(s, d, n) == 
  local_map(s, n, LAMBDA part, o : Write(d + o, part))

\* the writes of a kernel for the part s that goes to place d; local(_, _)
\* and remote(_, _) write a block, here(_) tells of a place which it is
kernel_writes(s, d, cuts, here(_), local(_, _), remote(_, _)) == 
  LET ends == SetToSortSeq(BlockEnds(d, Len(s), cuts), <)
      block(i) == 
        LET from == IF i = 1 THEN d ELSE ends[i - 1]
            b == SubSeq(s, from - d + 1, ends[i] - d)
        IN  IF here(from) THEN local(b, from) ELSE remote(b, from)
  IN  FlattenSeq([i \in DOMAIN ends |-> block(i)])

\* place d of the output is on the k-th of the input's localities
dseq_kernel(s, k, d, cuts, buf) == 
  kernel_writes(s, d, cuts, 
    LAMBDA place : Cardinality({c \in cuts : c <= place}) + 1 = k,
    block_contiguous_local, LAMBDA b, p : block_contiguous_remote(b, p, buf))

dpar_kernel(s, k, d, cuts, buf, n) == 
  kernel_writes(s, d, cuts, 
    LAMBDA place : Cardinality({c \in cuts : c <= place}) + 1 = k,
    LAMBDA b, p : block_contiguous_local_par(b, p, n), 
    LAMBDA b, p : block_contiguous_remote(b, p, buf))

Transformed(s, uop) == [i \in DOMAIN s |-> uop[s[i]]]

\* one locality after the other, each from where the last one ended
transform_seq(D, cuts, buf, uop) == 
  distributed_folding_map(
    D, LAMBDA res, k : 
         [writes |-> res.writes 
            \o dseq_kernel(Transformed(D[k], uop), k, res.d, cuts, buf),
          d |-> res.d + Len(D[k])],
    [writes |-> <<>>, d |-> 0])

\* the returned place is that of the last kernel that ran; defined only for
\* ranges that have an element
transform_par(D, n, cuts, buf, uop) == 
  [writes |-> FlattenSeq([k \in DOMAIN D |-> 
       dpar_kernel(Transformed(D[k], uop), k, Offset(D, k), cuts, buf, n)]),
   d |-> Last(distributed_map(D, LAMBDA k : Offset(D, k) + Len(D[k])))]

-----------------------------------------------------------------------------
(* The scans of numeric_ops.h.  A partial solution of the sequential ones  *)
(* is what has been written and the accumulator.                           *)
Partial(out, acc) == [out |-> out, acc |-> acc]

\* acc = op(acc, x); write acc: for the elements of s, from a first value
Including(res, a, s, op) == 
  FoldLeft(LAMBDA r, x : LET b == op[r.acc, x] IN Partial(Append(r.out, b), b),
           Partial(Append(res.out, a), a), s)

\* write acc; acc = op(acc, x): for the elements of s
Excluding(res, s, op) == 
  FoldLeft(LAMBDA r, x : Partial(Append(r.out, r.acc), op[r.acc, x]), res, s)

\* from the second locality on, the first element takes up the accumulator,
\* with the operands the other way round
InclusiveFromFirst(D, op) == 
  distributed_folding_map(
    D, LAMBDA res, k : 
         IF D[k] = <<>> THEN res
         ELSE LET x == Head(D[k])
              IN  Including(res, IF k = 1 THEN x ELSE op[x, res.acc], 
                            Tail(D[k]), op),
    Partial(<<>>, <<>>)).out

\* with an initial value every locality takes up the accumulator
InclusiveFromInit(D, op, init) == 
  distributed_folding_map(
    D, LAMBDA res, k : 
         IF D[k] = <<>> THEN res
         ELSE Including(res, op[res.acc, Head(D[k])], Tail(D[k]), op),
    Partial(<<>>, init)).out

ExclusiveFromInit(D, op, init) == 
  distributed_folding_map(
    D, LAMBDA res, k : Excluding(res, D[k], op), Partial(<<>>, init)).out

Mapped(D, uop) == [k \in DOMAIN D |-> [i \in DOMAIN D[k] |-> uop[D[k][i]]]]

partial_sum(D, op) == InclusiveFromFirst(D, op)
inclusive_scan_seq(D, op) == InclusiveFromFirst(D, op)
transform_inclusive_scan_seq(D, op, uop) == 
  InclusiveFromFirst(Mapped(D, uop), op)
inclusive_scan_init_seq(D, op, init) == InclusiveFromInit(D, op, init)
transform_inclusive_scan_init_seq(D, op, uop, init) == 
  InclusiveFromInit(Mapped(D, uop), op, init)
exclusive_scan_seq(D, op, init) == ExclusiveFromInit(D, op, init)
transform_exclusive_scan_seq(D, op, init, uop) == 
  ExclusiveFromInit(Mapped(D, uop), op, init)

-----------------------------------------------------------------------------
(* Under the parallel policy each locality scans its own part; when all    *)
(* are done, tasks on the output's localities combine each part with what  *)
(* the parts before it add up to.  value_t{} is empty.                     *)
empty == <<>>

\* the accumulator that an earlier part leaves: its reduction, or value_t{}
PartTotals(D, op) == 
  [k \in DOMAIN D |-> IF D[k] = <<>> THEN empty 
                      ELSE Accumulated(Head(D[k]), Tail(D[k]), op)]

\* mutant: the accumulator leaves out the part that has just been combined
PrecedingTotalLate(D, k, from, init, op) == 
  Accumulated(init, SubSeq(PartTotals(D, op), from, k - 2), op)

\* what precedes part k, from part `from' and an initial value
PrecedingTotal(D, k, from, init, op) == 
  Accumulated(init, SubSeq(PartTotals(D, op), from, k - 1), op)

LocalInclusive(s, op) == 
  IF s = <<>> THEN <<>> ELSE Including(Partial(<<>>, empty), Head(s), Tail(s), op).out

\* the first element appears twice, until it is overwritten
LocalExclusive(s, op) == 
  IF s = <<>> THEN <<>> 
  ELSE <<Head(s)>> \o Excluding(Partial(<<>>, Head(s)), Tail(s), op).out

\* part k > 1 with what precedes it; the first part stays as it is
ScannedFromFirst(D, op) == 
  FlattenSeq([k \in DOMAIN D |-> 
    LET s == LocalInclusive(D[k], op)
        before == PrecedingTotal(D, k, 2, PartTotals(D, op)[1], op)
    IN  IF k = 1 THEN s ELSE [i \in DOMAIN s |-> op[before, s[i]]]])

\* inclusive_scan has the operands the other way round there
inclusive_scan_par(D, op) == 
  FlattenSeq([k \in DOMAIN D |-> 
    LET s == LocalInclusive(D[k], op)
        before == PrecedingTotal(D, k, 2, PartTotals(D, op)[1], op)
    IN  IF k = 1 THEN s ELSE [i \in DOMAIN s |-> op[s[i], before]]])

transform_inclusive_scan_par(D, op, uop) == ScannedFromFirst(Mapped(D, uop), op)

\* the initial value is not used
transform_inclusive_scan_init_par(D, op, uop, init) == 
  ScannedFromFirst(Mapped(D, uop), op)

inclusive_scan_init_par(D, op, init) == 
  FlattenSeq([k \in DOMAIN D |-> 
    LET s == LocalInclusive(D[k], op)
    IN  [i \in DOMAIN s |-> op[PrecedingTotal(D, k, 1, init, op), s[i]]]])

\* the first element at each locality of the output becomes the accumulator
exclusive_scan_par(D, cuts, op, init) == 
  FlattenSeq([k \in DOMAIN D |-> 
    LET s == LocalExclusive(D[k], op)
        before == PrecedingTotal(D, k, 1, init, op)
        starts(i) == i = 1 \/ Offset(D, k) + i - 1 \in cuts
    IN  [i \in DOMAIN s |-> IF starts(i) THEN before ELSE op[before, s[i]]]])

transform_exclusive_scan_par(D, cuts, op, init, uop) == 
  exclusive_scan_par(Mapped(D, uop), cuts, op, init)

-----------------------------------------------------------------------------
\* only the first element of a locality is combined with op
adjacent_difference_seq(D, op, minus) == 
  distributed_folding_map(
    D, LAMBDA res, k : 
         IF D[k] = <<>> THEN res
         ELSE LET x == Head(D[k])
                  rest == [i \in 1..(Len(D[k]) - 1) |-> minus[D[k][i + 1], D[k][i]]]
              IN  Partial(res.out \o <<IF k = 1 THEN x ELSE op[x, res.acc]>> \o rest,
                          Last(D[k])),
    Partial(<<>>, <<>>)).out

\* what locality k writes, and where: from the second locality on, one place
\* too early, where the locality before writes its last element
adjacent_difference_par(D, op) == 
  [k \in DOMAIN D |-> 
     LET s == Elements(D)
         at == Offset(D, k)
     IN  Write(IF k = 1 THEN 0 ELSE at - 1,
               [i \in DOMAIN D[k] |-> IF at + i = 1 THEN s[1] 
                                      ELSE op[s[at + i], s[at + i - 1]]])]
=============================================================================
