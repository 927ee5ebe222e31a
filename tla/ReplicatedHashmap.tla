-------------------------- MODULE ReplicatedHashmap --------------------------
(***************************************************************************)
(* shad::Replicated_Hashmap: every locality has all the entries in a       *)
(* LocalHashmap of its own, and reads are local.  Its buffered insertions  *)
(* are its asynchronous ones, and there is nothing to flush.               *)
(***************************************************************************)
EXTENDS Questions

InsertOnAll(t, name, k) == 
  /\ Calling(t, name) 
  /\ Leaving(t, OnAll(t, TRUE, Work("insert", k, FALSE)))
  /\ Later(t, "async", k) /\ UNCHANGED <<memory, look>>

AsyncInsert(t, k) == InsertOnAll(t, "AsyncInsert", k)
BufferedAsyncInsert(t, k) == InsertOnAll(t, "BufferedAsyncInsert", k)
Clear(t) == ClearAll(t, "Clear")

Lookup(t, k) == LookUp(t, "Lookup", k, Home[t])
Size(t) == 
  Summing(t, "Size", "values", Counted(Home[t], "values"), <<>>)

Next == 
  \E t \in Tasks : 
    \/ \E k \in Keys : 
         AsyncInsert(t, k) \/ BufferedAsyncInsert(t, k) \/ Lookup(t, k)
    \/ Clear(t) \/ Size(t)
=============================================================================
