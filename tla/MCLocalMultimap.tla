--------------------------- MODULE MCLocalMultimap ---------------------------
(***************************************************************************)
(* Instance of LocalMultimap for TLC: programs that erase, whose keys fit  *)
(* into the first bucket, and programs that let the chain grow.            *)
(***************************************************************************)
EXTENDS LocalMultimap

CONSTANTS k1, k2

Erasing == 
  [kinds |-> {"Insert", "Lookup", "Erase"}, keys |-> {k1, k2}, ops |-> 1,
   first |-> {k1, k2}]
Growing == 
  [kinds |-> {"Insert", "Lookup", "RemoteLookup", "BlockingApply", "TryApply"}, 
   keys |-> {k1, k2}, ops |-> 1, first |-> Keys]
McPrograms == {Erasing, Growing}
=============================================================================
