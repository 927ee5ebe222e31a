---------------------------- MODULE LocalHashmap ----------------------------
(***************************************************************************)
(* shad::LocalHashmap (data_structures/local_hashmap.h) under concurrent   *)
(* tasks that insert, look up and apply functions.  EntryList has the      *)
(* bucket list, LocalHashmapErase adds Erase.                              *)
(*                                                                         *)
(* A value is the set of tokens of the operations that wrote it: Insert    *)
(* with the Overwriter policy stores {token}, an applied function adds its *)
(* token to the value it read, so a lost update loses a token.             *)
(***************************************************************************)
EXTENDS EntryList

CONSTANTS
  Absent,       \* abstract value of a key that is not in the map
  MaxOps,       \* bound: operations per task
  Kinds         \* the operations the tasks of an instance perform

AllKinds == {"Overwrite", "Update", "Lookup", "Apply", "TryApply"}

ASSUME MaxOpsAssumption == MaxOps \in Nat
ASSUME KindsAssumption == Kinds \subseteq AllKinds

Tokens == Threads \X (1..MaxOps)

ASSUME AbsentAssumption == \A v \in SUBSET Tokens : v # Absent

Present == {"USED", "PENDING_UPDATE"}   \* states of an entry that is in the map

InsertKinds == {"Overwrite", "Update"}
PCs == {"idle", "claim", "await", "compare", "init", "count", "publish",
        "lock", "update", "release", "grow", "link", "waitnext",
        "scan", "probe", "found", "hop", "deref", "looked", "tag",
        "call", "store", "done"}
EraseKind == "Erase"   \* of LocalHashmapErase, whose Erase calls Lookup
Outcomes == {"none", "absent", "true", "false", "found", "not_found",
             "SUCCESS", "FAILED"}

VARIABLES
  val,        \* val[s]: tokens of the operations that wrote the value
  size,       \* size_
  op,         \* op[t]: the operation task t performs and its key
  hit,        \* Lookup's result pointer
  read,       \* the value a Lookup copied or a function read
  res,        \* the outcome an operation has established so far
  nops        \* operations each task has started

entries == <<state, key, val>>
local == <<pc, op, pos, hit, read, res, nops>>
vars == <<entries, size, chain, local>>

Tok(t) == <<t, nops[t]>>
MyKey(t) == op[t].key

-----------------------------------------------------------------------------
Init == 
  /\ \E P \in SUBSET Slots : ListInit(P) /\ size = Cardinality(P)
  /\ val = [s \in Slots |-> {}]
  /\ op = [t \in Threads |-> [kind |-> "Lookup", key |-> NoKey]]
  /\ hit = [t \in Threads |-> NoSlot]
  /\ read = [t \in Threads |-> {}]
  /\ res = [t \in Threads |-> "none"]
  /\ nops = [t \in Threads |-> 0]

(* A task calls an operation: the list is chosen by the key's hash and the *)
(* scan starts at the first entry of its first bucket.                     *)
Call(t, kind, k) ==
  /\ pc[t] = "idle" /\ nops[t] < MaxOps
  /\ Goto(t, IF kind \in InsertKinds THEN "claim" ELSE "scan")
  /\ op' = [op EXCEPT ![t] = [kind |-> kind, key |-> k]]
  /\ pos' = [pos EXCEPT ![t] = FirstSlot]
  /\ hit' = [hit EXCEPT ![t] = NoSlot]
  /\ read' = [read EXCEPT ![t] = {}]
  /\ res' = [res EXCEPT ![t] = "none"]
  /\ nops' = [nops EXCEPT ![t] = @ + 1]
  /\ UNCHANGED <<entries, size, chain>>

Finish(t, outcome) == 
  /\ Goto(t, "done")
  /\ res' = [res EXCEPT ![t] = outcome]

\* Lookup returns to the task, or to the Erase that called it
LookupReturns(t, outcome) == 
  /\ Goto(t, IF op[t].kind = EraseKind THEN "looked" ELSE "done")
  /\ res' = [res EXCEPT ![t] = outcome]

Return(t) == 
  /\ pc[t] = "done" /\ Goto(t, "idle")
  /\ UNCHANGED <<entries, size, chain, op, pos, hit, read, res, nops>>

-----------------------------------------------------------------------------
(* Insert.                                                                 *)

\* mutant: the claim does not check that the entry is EMPTY
ClaimUnchecked(t) == 
  /\ pc[t] = "claim" 
  /\ SetState(pos[t], "PENDING_INSERT")
  /\ Goto(t, "init")
  /\ UNCHANGED <<key, val, size, chain, op, pos, hit, read, res, nops>>

\* compare_and_swap(state, EMPTY, PENDING_INSERT) of a first insertion
Claim(t) == 
  /\ pc[t] = "claim" /\ state[pos[t]] = "EMPTY"
  /\ SetState(pos[t], "PENDING_INSERT")
  /\ Goto(t, "init")
  /\ UNCHANGED <<key, val, size, chain, op, pos, hit, read, res, nops>>

ClaimFails(t) == 
  /\ pc[t] = "claim" /\ state[pos[t]] # "EMPTY"
  /\ Goto(t, "await")
  /\ UNCHANGED <<entries, size, chain, op, pos, hit, read, res, nops>>

\* mutant: an insertion does not wait for the one in front of it
AwaitNothing(t) == 
  /\ pc[t] = "await" /\ Goto(t, "compare")
  /\ UNCHANGED <<entries, size, chain, op, pos, hit, read, res, nops>>

\* while (entry->state == PENDING_INSERT) yield
AwaitInsert(t) == 
  /\ pc[t] = "await" /\ state[pos[t]] # "PENDING_INSERT"
  /\ Goto(t, "compare")
  /\ UNCHANGED <<entries, size, chain, op, pos, hit, read, res, nops>>

Compare(t) == 
  /\ pc[t] = "compare"
  /\ IF key[pos[t]] = MyKey(t) 
       THEN Goto(t, "lock") /\ UNCHANGED pos
       ELSE NextEntry(t, "claim", "grow")
  /\ UNCHANGED <<entries, size, chain, op, hit, read, res, nops>>

InitEntry(t) == 
  /\ pc[t] = "init"
  /\ key' = [key EXCEPT ![pos[t]] = MyKey(t)]
  /\ val' = [val EXCEPT ![pos[t]] = {Tok(t)}]
  /\ Goto(t, "count")
  /\ UNCHANGED <<state, size, chain, op, pos, hit, read, res, nops>>

CountEntry(t) == 
  /\ pc[t] = "count"
  /\ size' = size + 1
  /\ Goto(t, "publish")
  /\ UNCHANGED <<entries, chain, op, pos, hit, read, res, nops>>

Publish(t) == 
  /\ pc[t] = "publish"
  /\ SetState(pos[t], "USED")
  /\ Finish(t, "true")
  /\ UNCHANGED <<key, val, size, chain, op, pos, hit, read, nops>>

\* mutant: the lock is taken by a plain store
LockUnchecked(t) == 
  /\ pc[t] = "lock" 
  /\ SetState(pos[t], "PENDING_UPDATE")
  /\ Goto(t, "update")
  /\ UNCHANGED <<key, val, size, chain, op, pos, hit, read, res, nops>>

\* the spin on compare_and_swap(state, USED, PENDING_UPDATE)
LockEntry(t) == 
  /\ pc[t] = "lock" /\ state[pos[t]] = "USED"
  /\ SetState(pos[t], "PENDING_UPDATE")
  /\ Goto(t, "update")
  /\ UNCHANGED <<key, val, size, chain, op, pos, hit, read, res, nops>>

\* mutant: an insertion on an existing key is counted too
UpdateCounts(t) == 
  /\ pc[t] = "update" /\ Goto(t, "release")
  /\ size' = size + 1 /\ res' = [res EXCEPT ![t] = "true"]
  /\ val' = [val EXCEPT ![pos[t]] = {Tok(t)}]
  /\ UNCHANGED <<state, key, chain, op, pos, hit, read, nops>>

\* the inserter on an existing key: Overwriter stores, Updater does not
UpdateEntry(t) == 
  /\ pc[t] = "update"
  /\ Goto(t, "release")
  /\ IF op[t].kind = "Overwrite"
       THEN /\ val' = [val EXCEPT ![pos[t]] = {Tok(t)}]
            /\ res' = [res EXCEPT ![t] = "true"]
       ELSE UNCHANGED val /\ res' = [res EXCEPT ![t] = "false"]
  /\ UNCHANGED <<state, key, size, chain, op, pos, hit, read, nops>>

\* mutant: the entry is not released
ReleaseNothing(t) == 
  /\ pc[t] = "release" /\ Goto(t, "done")
  /\ UNCHANGED <<entries, size, chain, op, pos, hit, read, res, nops>>

\* entry->state = USED, by an insert or by TryBlockingApply
Release(t) == 
  /\ pc[t] = "release"
  /\ SetState(pos[t], "USED")
  /\ Goto(t, "done")
  /\ UNCHANGED <<key, val, size, chain, op, pos, hit, read, res, nops>>

Grow(t) == 
  /\ GrowList(t) \/ LinkBucket(t) \/ AwaitBucket(t)
  /\ UNCHANGED <<entries, size, op, hit, read, res, nops>>

-----------------------------------------------------------------------------
(* The scan of Lookup, Apply and TryBlockingApply.                         *)

\* mutant: the scan also stops at an entry that is being updated
ScanUsedOnly(t) == 
  /\ pc[t] = "scan"
  /\ IF state[pos[t]] = "USED"
       THEN Goto(t, "probe") /\ UNCHANGED res
       ELSE /\ Goto(t, "hop") 
            /\ res' = [res EXCEPT ![t] = IF hit[t] = NoSlot THEN "absent" ELSE @]
  /\ UNCHANGED <<entries, size, chain, op, pos, hit, read, nops>>

\* stop the bucket at the first EMPTY or PENDING_INSERT entry
Scan(t) == 
  /\ pc[t] = "scan"
  /\ IF state[pos[t]] \in Present
       THEN Goto(t, "probe") /\ UNCHANGED res
       ELSE /\ Goto(t, "hop") 
            /\ res' = [res EXCEPT ![t] = IF hit[t] = NoSlot THEN "absent" ELSE @]
  /\ UNCHANGED <<entries, size, chain, op, pos, hit, read, nops>>

Probe(t) == 
  /\ pc[t] = "probe"
  /\ IF key[pos[t]] = MyKey(t) 
       THEN /\ Goto(t, IF op[t].kind = "TryApply" THEN "tag" ELSE "found")
            /\ UNCHANGED pos
       ELSE NextEntry(t, "scan", "hop")
  /\ UNCHANGED <<entries, size, chain, op, hit, read, res, nops>>

\* Lookup waits for a pending update, keeps the address and scans on to the
\* end of the bucket
Found(t) == 
  /\ pc[t] = "found" /\ state[pos[t]] # "PENDING_UPDATE"
  /\ hit' = [hit EXCEPT ![t] = pos[t]]
  /\ NextEntry(t, "scan", "hop")
  /\ UNCHANGED <<entries, size, chain, op, read, res, nops>>

\* out of a bucket: with a result, into the next bucket, or not found
Hop(t) == 
  /\ pc[t] = "hop"
  /\ \/ /\ hit[t] # NoSlot
        /\ Goto(t, IF op[t].kind = "Apply" THEN "call" ELSE "deref")
        /\ UNCHANGED <<pos, res>>
     \/ /\ hit[t] = NoSlot /\ next[pos[t][1]]
        /\ EnterNextBucket(t, "scan") /\ UNCHANGED res
     \/ /\ hit[t] = NoSlot /\ ~next[pos[t][1]]
        /\ LookupReturns(t, "not_found") /\ UNCHANGED pos
  /\ UNCHANGED <<entries, size, chain, op, hit, read, nops>>

\* *res = *result, after Lookup has let go of the entry
Deref(t) == 
  /\ pc[t] = "deref"
  /\ read' = [read EXCEPT ![t] = val[hit[t]]]
  /\ LookupReturns(t, "found")
  /\ UNCHANGED <<entries, size, chain, op, pos, hit, nops>>

\* TryBlockingApply: compare_and_swap(state, USED, PENDING_UPDATE) or FAILED
Tag(t) == 
  /\ pc[t] = "tag"
  /\ IF state[pos[t]] = "USED" 
       THEN /\ SetState(pos[t], "PENDING_UPDATE")
            /\ hit' = [hit EXCEPT ![t] = pos[t]]
            /\ Goto(t, "call") /\ UNCHANGED res
       ELSE Finish(t, "FAILED") /\ UNCHANGED <<state, hit>>
  /\ UNCHANGED <<key, val, size, chain, op, pos, read, nops>>

\* function(key, value, args...): reads the value, ...
CallFunction(t) == 
  /\ pc[t] = "call"
  /\ read' = [read EXCEPT ![t] = val[hit[t]]]
  /\ Goto(t, "store")
  /\ UNCHANGED <<entries, size, chain, op, pos, hit, res, nops>>

\* ... and writes it back; Apply holds no lock on the entry while it does
StoreResult(t) == 
  /\ pc[t] = "store"
  /\ val' = [val EXCEPT ![hit[t]] = read[t] \cup {Tok(t)}]
  /\ res' = [res EXCEPT ![t] = "SUCCESS"]
  /\ Goto(t, IF op[t].kind = "Apply" THEN "done" ELSE "release")
  /\ UNCHANGED <<state, key, size, chain, op, pos, hit, read, nops>>

-----------------------------------------------------------------------------
InsertStep(t) == 
  \/ Claim(t) \/ ClaimFails(t) \/ AwaitInsert(t) \/ Compare(t)
  \/ InitEntry(t) \/ CountEntry(t) \/ Publish(t)
  \/ LockEntry(t) \/ UpdateEntry(t) \/ Release(t)
  \/ Grow(t)

ScanStep(t) == 
  \/ Scan(t) \/ Probe(t) \/ Found(t) \/ Hop(t) \/ Deref(t)
  \/ Tag(t) \/ CallFunction(t) \/ StoreResult(t)

Step(t) == InsertStep(t) \/ ScanStep(t) \/ Return(t)
CallAny(t) == \E kind \in Kinds, k \in Keys : Call(t, kind, k)
Terminating == 
  /\ \A t \in Threads : pc[t] = "idle" /\ nops[t] = MaxOps
  /\ UNCHANGED vars

Next == \/ \E t \in Threads : CallAny(t) \/ Step(t)
        \/ Terminating

Spec == Init /\ [][Next]_vars

\* every task the runtime started keeps being scheduled: a spinning task
\* calls rt::impl::yield and its worker runs the others
FairSpec == Spec /\ \A t \in Threads : WF_vars(Step(t))

-----------------------------------------------------------------------------
TypeOK == 
  /\ state \in [Slots -> EntryStates]
  /\ key \in [Slots -> Keys \cup {NoKey}]
  /\ val \in [Slots -> SUBSET Tokens]
  /\ size \in Nat
  /\ allocated \in [Buckets -> BOOLEAN]
  /\ next \in [Buckets -> BOOLEAN]
  /\ pc \in [Threads -> PCs]
  /\ op \in [Threads -> [kind : AllKinds \cup {EraseKind}, key : Keys \cup {NoKey}]]
  /\ pos \in [Threads -> Slots]
  /\ hit \in [Threads -> Slots \cup {NoSlot}]
  /\ read \in [Threads -> SUBSET Tokens]
  /\ res \in [Threads -> Outcomes]
  /\ nops \in [Threads -> 0..MaxOps]

(* Two tasks that insert the same key never create two entries for it:     *)
(* Insert claims only the first EMPTY entry, and only after it has waited  *)
(* for every pending insertion in front of it and compared its key.        *)
UniqueKeys == 
  \A p, q \in Slots : 
    state[p] \in Present /\ state[q] \in Present /\ key[p] = key[q] => p = q

(* The entries of a list form a prefix of the chain, and at most its last  *)
(* one is being inserted.  Every scan that stops at the first EMPTY or     *)
(* PENDING_INSERT entry relies on it, and so do the iterators.             *)
Packed == 
  \A p, q \in Slots : 
    Before(p, q) /\ state[p] \in {"EMPTY", "PENDING_INSERT"} 
      => state[q] = "EMPTY"

(* size_ is raised before the entry is published, so Size() is exact but   *)
(* for the insertions between their two stores.                            *)
SizeExact == 
  size = Cardinality({s \in Slots : state[s] \in Present}) 
         + Cardinality({t \in Threads : pc[t] = "publish"})

(* The state word is a lock: an entry in a pending state belongs to one    *)
(* task, which is at a point of the code that will release it.             *)
Holds(t, s) == 
  \/ pc[t] \in {"init", "count", "publish", "update", "release"} /\ s = pos[t]
  \/ pc[t] \in {"call", "store"} /\ op[t].kind = "TryApply" /\ s = hit[t]

OneOwner == 
  \A s \in Slots : 
    /\ state[s] \in {"PENDING_INSERT", "PENDING_UPDATE"} 
         => \E t \in Threads : Holds(t, s)
    /\ \A t, u \in Threads : Holds(t, s) /\ Holds(u, s) => t = u

(* An entry that is in the map stays in it under the same key: addresses   *)
(* and iterators that an Insert or a Lookup returned stay valid.           *)
EntriesStay == 
  [][\A s \in Slots : state[s] \in Present 
       => state'[s] \in Present /\ key'[s] = key[s]]_vars

(* Every operation returns.                                                *)
OperationsReturn == 
  \A t \in Threads : pc[t] # "idle" ~> pc[t] = "idle"

-----------------------------------------------------------------------------
(* The inductive invariant behind UniqueKeys and Packed: what a task knows *)
(* of the list at each point of the code.                                  *)
Inserting == {"init", "count", "publish"}
Searching == {"claim", "await", "compare"} \cup Inserting
Growing == {"grow", "link", "waitnext"}
AtPresent(t) == 
  \/ pc[t] \in {"compare", "lock", "update", "release", "probe", "tag"}
  \/ pc[t] \in {"call", "store"} /\ op[t].kind # "Apply"

\* an insertion has gone past entries of other keys only
WentPast(t) == 
  /\ pc[t] \in Searching \cup Growing 
       => \A p \in Slots : Before(p, pos[t]) 
                            => state[p] \in Present /\ key[p] # MyKey(t)
  /\ pc[t] \in Growing 
       => /\ LastInBucket(pos[t]) 
          /\ state[pos[t]] \in Present /\ key[pos[t]] # MyKey(t)

\* the entry it has reached
Reached(t) == 
  /\ pc[t] = "await" => state[pos[t]] # "EMPTY"
  /\ AtPresent(t) => state[pos[t]] \in Present
  /\ pc[t] \in Inserting => state[pos[t]] = "PENDING_INSERT"
  /\ pc[t] \in {"count", "publish"} => key[pos[t]] = MyKey(t)

InRange(t) == 
  /\ pc[t] # "idle" => nops[t] >= 1
  /\ pc[t] \in {"deref", "call", "store"} => hit[t] \in Slots
  /\ pc[t] = "link" => pos[t][1] + 1 \in Buckets

ChainInBounds == \A b \in Buckets : next[b] => b + 1 \in Buckets
OneInserter == 
  \A t, u \in Threads : 
    pc[t] \in Inserting /\ pc[u] \in Inserting /\ pos[t] = pos[u] => t = u

HashmapInv == 
  /\ TypeOK /\ UniqueKeys /\ Packed /\ ChainInBounds /\ OneInserter
  /\ \A t \in Threads : WentPast(t) /\ Reached(t) /\ InRange(t)

-----------------------------------------------------------------------------
(* The map of ConcurrentMap that the list represents.                      *)
mapOf == 
  [k \in Keys |-> 
     IF \E s \in Slots : state[s] \in Present /\ key[s] = k
       THEN val[CHOOSE s \in Slots : state[s] \in Present /\ key[s] = k]
       ELSE Absent]
phaseOf == 
  [t \in Threads |-> IF pc[t] = "idle" THEN "idle" 
                     ELSE IF pc[t] \in {"done", "release"} THEN "finished"
                     ELSE "running"]
gotOf == 
  [t \in Threads |-> 
     IF op[t].kind = "Lookup" \/ pc[t] = "store" THEN read[t] ELSE {}]
outOf == [t \in Threads |-> IF pc[t] = "store" THEN "read" ELSE res[t]]

Abstract == INSTANCE ConcurrentMap WITH 
              map <- mapOf, phase <- phaseOf, call <- op, out <- outOf, 
              got <- gotOf, count <- nops, MayMiss <- {}

(* Insert and Lookup take effect at one instant between their call and     *)
(* their return.  Apply and TryBlockingApply read the value and later      *)
(* store what their function made of it; only a plain Apply, which takes   *)
(* no lock, can change the value under a TryBlockingApply.                 *)
Linearizable == Abstract!Spec
=============================================================================
