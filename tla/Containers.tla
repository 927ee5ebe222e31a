------------------------------ MODULE Containers ------------------------------
(***************************************************************************)
(* Programs that use a Hashmap, a Multimap, a Set or a Replicated_Hashmap, *)
(* and what the answers to their questions are worth while other tasks go  *)
(* on changing the container.                                              *)
(***************************************************************************)
EXTENDS Questions

vars == <<objectVars, seen>>

HM == INSTANCE Hashmap
MM == INSTANCE Multimap
S == INSTANCE Set
R == INSTANCE ReplicatedHashmap

-----------------------------------------------------------------------------
InitContainers == Init /\ seen = [t \in Tasks |-> NothingSeen]

Operation == 
  \/ kind = "hashmap" /\ HM!Next
  \/ kind = "multimap" /\ MM!Next
  \/ kind = "set" /\ S!Next
  \/ kind = "replicated" /\ R!Next

Step == 
  \/ Operation
  \/ \E a \in acts : RunActivity(a) \/ AnswerActivity(a)
  \/ \E t \in Tasks : Return(t) \/ waitForCompletion(t) \/ Asked(t)

Next == 
  /\ Step /\ UNCHANGED <<kind, program>>
  /\ kind = "multimap" => MM!IteratorsValid
  /\ seen' = [t \in Tasks |-> Watch(t)]

Spec == InitContainers /\ [][Next]_vars

-----------------------------------------------------------------------------
(* An insertion that a program may rely on, because its call has returned, *)
(* its handle was waited for or its buffers were flushed afterwards, has   *)
(* put the key where lookups look for it, unless the key was to be erased; *)
(* in a multimap each insertion has added one value, no more and no less.  *)
Delivered == 
  \A k \in Keys \ dropped : \A l \in Places(k) :
    IF kind = "multimap" 
      THEN /\ Len(mem[l][k]) >= promised[k]
           /\ Len(mem[l][k]) <= promised[k] + Unpromised(k)
      ELSE promised[k] > 0 => mem[l][k] # <<>>

Answered(t, asks) == doing[t].op = "looked" /\ look[t].asks = asks

(* A size counts at least the entries that were there all the time and at  *)
(* most those that were there at some time while it was computed.          *)
SizeBetween == 
  \A t \in Tasks : Answered(t, "size") =>
    /\ look[t].answer >= Cardinality(seen[t].always)
    /\ look[t].answer <= Cardinality(seen[t].ever)

(* An iteration and a ForEach visit every entry that is there all the time *)
(* exactly once, at the locality that has it, and nothing that never was.  *)
TraversalExact == 
  \A t \in Tasks : Answered(t, "walk") =>
    /\ seen[t].always \subseteq BagToSet(look[t].answer)
    /\ BagToSet(look[t].answer) \subseteq seen[t].ever
    /\ \A e \in seen[t].always : look[t].answer[e] = 1

(* A lookup, asynchronous or not, answers with the values that the key had *)
(* at some time between the call and the end of the wait for it.           *)
LookupTrue == 
  \A t \in Tasks : Answered(t, "lookup") =>
    look[t].answer \in seen[t].ever
=============================================================================
