----------------------------- MODULE Algorithms -----------------------------
(***************************************************************************)
(* The distributed algorithms against the standard ones.  The range is     *)
(* built element by element and locality by locality; in every state each  *)
(* algorithm, under both policies, is compared with the standard algorithm *)
(* on the whole range, for any number of tasks on a locality.              *)
(*                                                                         *)
(* The reductions, the scans and transform work on words: element i is    *)
(* <<i>>, op is concatenation, the initial value is <<0>>, so the order in *)
(* which an algorithm combines elements shows.                             *)
(***************************************************************************)
EXTENDS Policies, Integers

CONSTANTS
  Values,      \* values of elements
  MaxParts,    \* localities of the range
  MaxPart,     \* elements on a locality
  MaxElements, \* elements of the range
  MaxTasks     \* bound on rt::impl::getConcurrency()

ASSUME ValuesAssumption == Values \subseteq Int
ASSUME BoundsAssumption == {MaxParts, MaxPart, MaxElements, MaxTasks} \subseteq Nat \ {0}

VARIABLE range
vars == range

Init == range = <<<<>>>>

PushBack(x) == 
  LET k == Len(range)
  IN  /\ Len(range[k]) < MaxPart /\ Len(Elements(range)) < MaxElements
      /\ range' = [range EXCEPT ![k] = Append(@, x)]

NextLocality == Len(range) < MaxParts /\ range' = Append(range, <<>>)

Next == NextLocality \/ \E x \in Values : PushBack(x)

Spec == Init /\ [][Next]_vars

\* of a range of an array only the last part may be empty
OfArray(D) == \A k \in 1..(Len(D) - 1) : D[k] # <<>>

-----------------------------------------------------------------------------
(* The standard algorithms, and what they are called with.                 *)
LOCAL all == Elements(range)
LOCAL less == [x, y \in Int |-> x < y]
LOCAL plus == [x, y \in Int |-> x + y]
LOCAL times == [x, y \in Int |-> x * y]
LOCAL tasks == 1..MaxTasks

\* the same on words
LOCAL words == 
  [k \in DOMAIN range |-> [i \in DOMAIN range[k] |-> <<Offset(range, k) + i>>]]
LOCAL op == [x, y \in Seq(Int) |-> x \o y]
LOCAL uop == [x \in Seq(Int) |-> <<-1>> \o x]
LOCAL init == <<0>>

\* the concatenation of the first i words of s
Prefix(s, i) == FlattenSeq(SubSeq(s, 1, i))

LastLargest == 
  LET tied == {i \in DOMAIN all : \A j \in DOMAIN all : all[j] <= all[i]}
  IN  IF tied = {} THEN 1 ELSE Max(tied)

\* minmax_element gives some largest element, not always the last
SomeLargest(i) == IF all = <<>> THEN i = 1 ELSE \A j \in DOMAIN all : all[j] <= all[i]

Searches == 
  \A pol \in ExecutionPolicies, n \in tasks, v \in Values : 
    LET is == Is(v)
    IN  /\ find(pol, range, n, v) = FirstWhere(all, is)
        /\ find_if(pol, range, n, is) = FirstWhere(all, is)
        /\ find_if_not(pol, range, n, is) = FirstWhere(all, Not(is))
        /\ all_of(pol, range, n, is) = AllIn(all, is)
        /\ any_of(pol, range, n, is) = AnyIn(all, is)
        /\ none_of(pol, range, n, is) = AllIn(all, Not(is))
        /\ count(pol, range, n, v) = CountWhere(all, is)
        /\ count_if(pol, range, n, is) = CountWhere(all, is)

Extremes == 
  LET least == MinPlace(all, less)
      largest == MaxPlace(all, less)
  IN  \A pol \in ExecutionPolicies, n \in tasks : 
        /\ min_element(pol, range, n, less) = least
        /\ max_element(pol, range, n, less) = largest
        /\ minmax_element(pol, range, n, less)[1] = least
        /\ SomeLargest(minmax_element(pol, range, n, less)[2])

(* Searching, counting and looking for the least and the largest element   *)
(* over several localities, some of which may have no elements, gives the  *)
(* place or the number that the standard algorithm gives for the whole     *)
(* range; of minmax_element's second, some largest element.  (max_element  *)
(* without a policy and a comparison looks for the least one and is left   *)
(* out.)                                                                   *)
SearchesAgree == Searches /\ Extremes

Reductions == 
  LET w == Elements(words)
      u == Elements(Mapped(words, uop))
      second == [i \in DOMAIN w |-> <<100 + i>>]
      paired == [i \in DOMAIN w |-> w[i] \o second[i]]
      whole(s) == init \o FlattenSeq(s)
      dense == \A k \in DOMAIN range : range[k] # <<>>
  IN  /\ accumulate(words, init, op) = whole(w)
      /\ inner_product_op(words, second, init, op, op) = whole(paired)
      /\ inner_product(range, all, 5) = 5 + Sum([i \in DOMAIN all |-> all[i] * all[i]])
      /\ \A pol \in ExecutionPolicies : 
           /\ \A n \in tasks : 
                /\ reduce(pol, words, n, init, op) = whole(w)
                /\ transform_reduce(pol, words, n, init, op, uop) = whole(u)
           /\ pol \in Sequential \/ dense => 
                transform_reduce2(pol, words, second, init, op, op) = whole(paired)

Comparisons == 
  LET is == [x, y \in Int |-> x = y]
      others == {all} \cup {[all EXCEPT ![i] = v] : i \in DOMAIN all, v \in Values}
      longer == {Append(s, v) : s \in others, v \in Values}
      precedes(s) == \E i \in DOMAIN s : /\ i <= Len(all) => all[i] < s[i]
                                         /\ SubSeq(all, 1, i - 1) = SubSeq(s, 1, i - 1)
      right(answer, s) == /\ answer => precedes(s)
                          /\ Len(range) = 1 => answer = precedes(s)
  IN  /\ \A s \in others : 
           /\ AllTrue(equal_parts(range, s, is)) = (all = s)
           /\ \A pol \in Sequential : equal(pol, range, s, is) = (all = s)
      /\ \A s \in others \cup longer : 
           /\ right(AllTrue(lexicographical_compare_parts(range, s, less)), s)
           /\ \A pol \in Sequential : 
                /\ equal_ranges(pol, range, s, is) = (all = s)
                /\ right(lexicographical_compare(pol, range, s, less), s)

(* Reductions combine every element once and, under both policies, from    *)
(* the first to the last, so the operation need not be commutative.  The   *)
(* first element that differs from a second range decides equal;           *)
(* lexicographical_compare says less only of a range that is less, and on  *)
(* one locality says it of each.  Under the parallel policy it is what the *)
(* localities find that is right; the two algorithms drop it and return    *)
(* true.  A transform_reduce of two ranges under that policy needs an      *)
(* element on every locality.                                              *)
ReductionsAgree == Reductions /\ Comparisons

-----------------------------------------------------------------------------
(* What is written.                                                        *)
SameLetters(s, t) == 
  /\ DOMAIN s = DOMAIN t
  /\ \A i \in DOMAIN s : 
       LET number(r, x) == Cardinality({j \in DOMAIN r : r[j] = x})
       IN  \A x \in Range(s[i]) \cup Range(t[i]) : number(s[i], x) = number(t[i], x)

\* the places at which a range with the localities of the input begins one
Aligned == {Offset(range, k) : k \in 2..Len(range)} \ {Len(all)}

(* A scan over several localities leaves the prefix sums of the whole      *)
(* range: each element once, in order where the algorithm keeps the order, *)
(* in any order for partial_sum, for the sequential scans without an       *)
(* initial value and for the parallel inclusive_scan, which swap the       *)
(* operands where localities meet.  The parallel exclusive scans need an   *)
(* output with the localities of the input.  Left out is the initial value *)
(* that transform_inclusive_scan forgets under the parallel policy, the    *)
(* parallel adjacent_difference beyond one locality, and operations other  *)
(* than minus, which the sequential one does not call within a locality.   *)
ScansAgree == 
  LET w == Elements(words)
      u == Elements(Mapped(words, uop))
      upTo(s) == [i \in DOMAIN s |-> Prefix(s, i)]
      fromInit(s) == [i \in DOMAIN s |-> init \o Prefix(s, i)]
      before(s) == [i \in DOMAIN s |-> init \o Prefix(s, i - 1)]
      single == Len(words) = 1
      minus == [x, y \in Int |-> x - y]
      differences == [i \in DOMAIN all |-> IF i = 1 THEN all[1] ELSE all[i] - all[i - 1]]
      parallel == "distributed_parallel_tag"
  IN  OfArray(range) =>
      /\ adjacent_difference_seq(range, minus, minus) = differences
      /\ \A pol \in ExecutionPolicies : 
           /\ inclusive_scan_init(pol, words, op, init) = fromInit(w)
           /\ exclusive_scan(pol, words, Aligned, op, init) = before(w)
           /\ SameLetters(inclusive_scan(pol, words, op), upTo(w))
           /\ SameLetters(transform_inclusive_scan(pol, words, op, uop), upTo(u))
           /\ single => /\ inclusive_scan(pol, words, op) = upTo(w)
                        /\ transform_inclusive_scan(pol, words, op, uop) = upTo(u)
           /\ transform_exclusive_scan(pol, words, Aligned, op, init, uop) = before(u)
           /\ pol \in Sequential => 
                transform_inclusive_scan_init(pol, words, op, uop, init) = fromInit(u)
      /\ transform_inclusive_scan(parallel, words, op, uop) = upTo(u)
      /\ SameLetters(partial_sum(words, op), upTo(w))
      /\ single => /\ partial_sum(words, op) = upTo(w)
                   /\ adjacent_difference_par(range, minus) = <<Write(0, differences)>>

Transforms == 
  LET places(writes) == FlattenSeq([m \in DOMAIN writes |-> 
                          [i \in DOMAIN writes[m].values |-> writes[m].first + i]])
      exact(t) == 
        LET at == places(t.writes)
            values == FlattenSeq([m \in DOMAIN t.writes |-> t.writes[m].values])
        IN  /\ IsInjective(at) /\ Range(at) = DOMAIN all
            /\ \A j \in DOMAIN at : values[j] = <<-1, at[j]>>
            /\ t.d = Len(all)
  IN  OfArray(range) => 
        \A cuts \in SUBSET (1..(Len(all) - 1)), buf \in 1..MaxPart, 
           pol \in ExecutionPolicies, n \in tasks : 
          pol \in Sequential \/ all # <<>> 
            => exact(transform(pol, words, n, cuts, buf, uop))

InPlace == 
  LET is == Is(0)
      replaced == [i \in DOMAIN all |-> IF all[i] = 0 THEN 7 ELSE all[i]]
      same == [i \in DOMAIN all |-> 7]
  IN  /\ iota(range, 3) = [i \in DOMAIN all |-> i + 2]
      /\ \A pol \in ExecutionPolicies, n \in tasks : 
           /\ fill(pol, range, n, 7) = same
           /\ generate(pol, range, n, 7) = same
           /\ replace(pol, range, n, 0, 7) = replaced
           /\ replace_if(pol, range, n, is, 7) = replaced
           /\ for_each(pol, range, n, [x \in Int |-> x + 5]) = [i \in DOMAIN all |-> all[i] + 5]

(* transform writes every element of the output once, with the value of    *)
(* the element at the same index of the input, wherever the output changes *)
(* locality, whatever the length of a message and the number of tasks, and *)
(* returns the place behind the last one (under the parallel policy, of a  *)
(* range that has an element).                                             *)
(* The algorithms that write where they read, and iota, leave what they    *)
(* leave on one locality.                                                  *)
WritesAgree == Transforms /\ InPlace
=============================================================================
