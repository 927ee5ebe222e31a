------------------------------ MODULE Policies ------------------------------
(***************************************************************************)
(* shad's algorithms as a program calls them (core/algorithm.h and         *)
(* core/numeric.h): the overloads choose the sequential or the parallel    *)
(* implementation by their first argument, with the sequential one where   *)
(* there is no policy, and fill in default operations.  n is the number of *)
(* tasks on a locality; policies are those of core/execution.h.            *)
(***************************************************************************)
EXTENDS ReadingOps, WritingOps

Sequential == {"none", "distributed_sequential_tag"}
ExecutionPolicies == Sequential \cup {"distributed_parallel_tag"}

all_of(pol, D, n, p) == 
  IF pol \in Sequential THEN all_of_seq(D, p) ELSE all_of_par(D, n, p)
any_of(pol, D, n, p) == 
  IF pol \in Sequential THEN any_of_seq(D, p) ELSE any_of_par(D, n, p)
none_of(pol, D, n, p) == ~any_of(pol, D, n, p)
find(pol, D, n, value) == 
  IF pol \in Sequential THEN find_seq(D, value) ELSE find_par(D, n, value)
find_if(pol, D, n, p) == 
  IF pol \in Sequential THEN find_if_seq(D, p) ELSE find_if_par(D, n, p)
find_if_not(pol, D, n, p) == 
  IF pol \in Sequential THEN find_if_not_seq(D, p) ELSE find_if_not_par(D, n, p)
count(pol, D, n, value) == 
  IF pol \in Sequential THEN count_seq(D, value) ELSE count_par(D, n, value)
count_if(pol, D, n, p) == 
  IF pol \in Sequential THEN count_if_seq(D, p) ELSE count_if_par(D, n, p)

max_element(pol, D, n, less) == 
  IF pol \in Sequential THEN max_element_seq(D, less) ELSE max_element_par(D, n, less)
min_element(pol, D, n, less) == 
  IF pol \in Sequential THEN min_element_seq(D, less) ELSE min_element_par(D, n, less)
minmax_element(pol, D, n, less) == 
  IF pol \in Sequential THEN minmax_element_seq(D, less) 
                        ELSE minmax_element_par(D, n, less)

fill(pol, D, n, value) == 
  IF pol \in Sequential THEN fill_seq(D, value) ELSE fill_par(D, n, value)
for_each(pol, D, n, f) == 
  IF pol \in Sequential THEN for_each_seq(D, f) ELSE for_each_par(D, n, f)
generate(pol, D, n, value) == 
  IF pol \in Sequential THEN generate_seq(D, value) ELSE generate_par(D, n, value)
replace(pol, D, n, old, new) == 
  IF pol \in Sequential THEN replace_seq(D, old, new) ELSE replace_par(D, n, old, new)
replace_if(pol, D, n, p, new) == 
  IF pol \in Sequential THEN replace_if_seq(D, p, new) ELSE replace_if_par(D, n, p, new)
transform(pol, D, n, cuts, buf, uop) == 
  IF pol \in Sequential THEN transform_seq(D, cuts, buf, uop)
                        ELSE transform_par(D, n, cuts, buf, uop)

-----------------------------------------------------------------------------
equal(pol, D, s2, p) == 
  IF pol \in Sequential THEN equal_seq(D, s2, p) ELSE equal_par(D, s2, p)

\* with both ends of the second range the lengths are compared first
equal_ranges(pol, D, s2, p) == 
  Len(Elements(D)) = Len(s2) /\ equal(pol, D, s2, p)

lexicographical_compare(pol, D, s2, less) == 
  IF pol \in Sequential THEN lexicographical_compare_seq(D, s2, less)
                        ELSE lexicographical_compare_par(D, s2, less)

-----------------------------------------------------------------------------
reduce(pol, D, n, init, op) == 
  IF pol \in Sequential THEN reduce_seq(D, init, op) ELSE reduce_par(D, n, init, op)
transform_reduce(pol, D, n, init, op, uop) == 
  IF pol \in Sequential THEN transform_reduce_seq(D, init, op, uop)
                        ELSE transform_reduce_par(D, n, init, op, uop)
transform_reduce2(pol, D, s2, init, op, op2) == 
  IF pol \in Sequential THEN transform_reduce2_seq(D, s2, init, op, op2)
                        ELSE transform_reduce2_par(D, s2, init, op, op2)

inclusive_scan(pol, D, op) == 
  IF pol \in Sequential THEN inclusive_scan_seq(D, op) ELSE inclusive_scan_par(D, op)
inclusive_scan_init(pol, D, op, init) == 
  IF pol \in Sequential THEN inclusive_scan_init_seq(D, op, init)
                        ELSE inclusive_scan_init_par(D, op, init)
exclusive_scan(pol, D, cuts, op, init) == 
  IF pol \in Sequential THEN exclusive_scan_seq(D, op, init)
                        ELSE exclusive_scan_par(D, cuts, op, init)
transform_inclusive_scan(pol, D, op, uop) == 
  IF pol \in Sequential THEN transform_inclusive_scan_seq(D, op, uop)
                        ELSE transform_inclusive_scan_par(D, op, uop)
transform_inclusive_scan_init(pol, D, op, uop, init) == 
  IF pol \in Sequential THEN transform_inclusive_scan_init_seq(D, op, uop, init)
                        ELSE transform_inclusive_scan_init_par(D, op, uop, init)
transform_exclusive_scan(pol, D, cuts, op, init, uop) == 
  IF pol \in Sequential THEN transform_exclusive_scan_seq(D, op, init, uop)
                        ELSE transform_exclusive_scan_par(D, cuts, op, init, uop)
=============================================================================
