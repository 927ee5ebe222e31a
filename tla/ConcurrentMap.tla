---------------------------- MODULE ConcurrentMap ---------------------------
(***************************************************************************)
(* What a thread-safe map promises: every operation takes effect on a map  *)
(* at one instant between its call and its return.  LocalHashmap and       *)
(* LocalMultimap are shown to implement this specification.                *)
(*                                                                         *)
(* A value is the set of tokens of the operations that wrote it.           *)
(***************************************************************************)
EXTENDS Naturals

CONSTANTS 
  Threads, Keys, NoKey, Absent, MaxOps, Kinds,
  MayMiss   \* searches that may miss a key while another operation runs

VARIABLES 
  map,    \* map[k]: the value of key k, or Absent
  phase,  \* of each task: "idle", "running" or "finished"
  call,   \* the operation: its kind and key
  out,    \* its outcome, "absent" when a search has found no such key
  got,    \* the value a Lookup returns
  count   \* operations each task has called

vars == <<map, phase, call, out, got, count>>

Token(t) == <<t, count[t]>>
Searches == {"Lookup", "RemoteLookup", "TryApply", "BlockingApply", "Apply"}
Running(t, kinds) == phase[t] = "running" /\ call[t].kind \in kinds
In(t) == map[call[t].key] # Absent
\* a blocking apply that has read a value keeps all but plain applies from
\* changing it before it has written its own
Reserved(t) == 
  \E u \in Threads \ {t} : 
    Running(u, {"TryApply"}) /\ call[u].key = call[t].key /\ out[u] = "read"
Put(t, v) == 
  /\ call[t].kind = "Apply" \/ ~Reserved(t)
  /\ map' = [map EXCEPT ![call[t].key] = v]
Finish(t, outcome) == 
  /\ phase' = [phase EXCEPT ![t] = "finished"]
  /\ out' = [out EXCEPT ![t] = outcome]

Init == 
  /\ map \in [Keys -> {Absent, {}}]
  /\ phase = [t \in Threads |-> "idle"]
  /\ call = [t \in Threads |-> [kind |-> "Lookup", key |-> NoKey]]
  /\ out = [t \in Threads |-> "none"]
  /\ got = [t \in Threads |-> {}]
  /\ count = [t \in Threads |-> 0]

Call(t) == 
  /\ phase[t] = "idle" /\ count[t] < MaxOps
  /\ \E kind \in Kinds, k \in Keys : 
       call' = [call EXCEPT ![t] = [kind |-> kind, key |-> k]]
  /\ phase' = [phase EXCEPT ![t] = "running"]
  /\ out' = [out EXCEPT ![t] = "none"]
  /\ got' = [got EXCEPT ![t] = {}]
  /\ count' = [count EXCEPT ![t] = @ + 1]
  /\ UNCHANGED map

\* an insertion stores the value of a new key, or overwrites
Store(t) == 
  /\ \/ Running(t, {"Overwrite"})
     \/ Running(t, {"Update"}) /\ ~In(t)
  /\ Put(t, {Token(t)}) /\ Finish(t, "true")
  /\ UNCHANGED <<call, got, count>>

\* with the Updater policy a key that is there keeps its value
Keep(t) == 
  /\ Running(t, {"Update"}) /\ In(t) 
  /\ Finish(t, "false")
  /\ UNCHANGED <<map, call, got, count>>

\* an insertion into a multimap adds a value to its key
Add(t) == 
  /\ Running(t, {"Insert"})
  /\ Put(t, (IF In(t) THEN map[call[t].key] ELSE {}) \cup {Token(t)}) 
  /\ Finish(t, "true")
  /\ UNCHANGED <<call, got, count>>

Remove(t) == 
  /\ Running(t, {"Erase"})
  /\ Put(t, Absent) /\ Finish(t, "erased")
  /\ UNCHANGED <<call, got, count>>

\* a blocking apply updates the value it read
Apply(t) == 
  /\ Running(t, {"TryApply", "BlockingApply"}) /\ In(t)
  /\ Put(t, map[call[t].key] \cup {Token(t)}) /\ Finish(t, "SUCCESS")
  /\ UNCHANGED <<call, got, count>>

\* an apply may read and write at two instants: what a plain apply writes
\* between them is lost, and a plain apply loses every update
ReadToApply(t) == 
  /\ Running(t, {"Apply", "TryApply"}) /\ In(t) /\ out[t] # "read"
  /\ got' = [got EXCEPT ![t] = map[call[t].key]]
  /\ out' = [out EXCEPT ![t] = "read"]
  /\ UNCHANGED <<map, phase, call, count>>

WriteApplied(t) == 
  /\ Running(t, {"Apply", "TryApply"}) /\ In(t) /\ out[t] = "read"
  /\ Put(t, got[t] \cup {Token(t)}) /\ Finish(t, "SUCCESS")
  /\ got' = [got EXCEPT ![t] = {}]
  /\ UNCHANGED <<call, count>>

\* a try fails only while another operation works on its key
Refuse(t) == 
  /\ Running(t, {"TryApply"}) /\ In(t)
  /\ \E u \in Threads \ {t} : phase[u] # "idle" /\ call[u].key = call[t].key
  /\ Finish(t, "FAILED")
  /\ UNCHANGED <<map, call, got, count>>

Hit(t) == 
  /\ Running(t, {"Lookup", "RemoteLookup"}) /\ In(t)
  /\ got' = [got EXCEPT ![t] = map[call[t].key]]
  /\ Finish(t, "found")
  /\ UNCHANGED <<map, call, count>>

\* a search may settle on the absence of its key before it returns
SeeAbsent(t) == 
  /\ \/ Running(t, Searches) /\ ~In(t)
     \/ Running(t, MayMiss) /\ \E u \in Threads \ {t} : phase[u] # "idle"
  /\ out' = [out EXCEPT ![t] = "absent"]
  /\ UNCHANGED <<map, phase, call, got, count>>

Miss(t) == 
  /\ Running(t, Searches) 
  /\ out[t] = "absent" \/ ~In(t)
  /\ Finish(t, "not_found")
  /\ UNCHANGED <<map, call, got, count>>

Return(t) == 
  /\ phase[t] = "finished"
  /\ phase' = [phase EXCEPT ![t] = "idle"]
  /\ UNCHANGED <<map, call, out, got, count>>

Next == \E t \in Threads : 
          \/ Call(t) \/ Store(t) \/ Keep(t) \/ Add(t) \/ Remove(t)
          \/ Apply(t) \/ Refuse(t) \/ ReadToApply(t) \/ WriteApplied(t)
          \/ Hit(t) \/ SeeAbsent(t) \/ Miss(t) \/ Return(t)

Spec == Init /\ [][Next]_vars
=============================================================================
