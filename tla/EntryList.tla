------------------------------ MODULE EntryList ------------------------------
(***************************************************************************)
(* The bucket list that shad::LocalHashmap, shad::LocalMultimap and        *)
(* shad::LocalSet have in common: a chain of buckets of BucketSize entries *)
(* each, whose entries are claimed and released through a state word, and  *)
(* that grows by one bucket when an insertion finds it full.               *)
(*                                                                         *)
(* A key hashes to one list (hash % numBuckets_) and lists share no entry, *)
(* so the modules that extend this one model one list.                     *)
(***************************************************************************)
EXTENDS Integers, FiniteSets

CONSTANTS
  Threads,      \* the tasks that share the container
  Keys,         \* keys that hash to this list
  NoKey,        \* the uninitialised key of an entry never written
  BucketSize,   \* entries per bucket
  MaxBuckets,   \* bound: buckets a chain may grow to
  MaxPrefill    \* bound: entries already in the list at the start

ASSUME NoKeyAssumption == NoKey \notin Keys
ASSUME BucketSizeAssumption == BucketSize \in Nat \ {0}
ASSUME MaxBucketsAssumption == MaxBuckets \in Nat \ {0}
ASSUME MaxPrefillAssumption == MaxPrefill \in Nat

Buckets == 0..(MaxBuckets - 1)
Slots == Buckets \X (0..(BucketSize - 1))
NoSlot == <<-1, -1>>
FirstSlot == <<0, 0>>
Before(p, q) == \/ p[1] < q[1]
                \/ p[1] = q[1] /\ p[2] < q[2]
LastInBucket(p) == p[2] + 1 = BucketSize

EntryStates == {"EMPTY", "USED", "PENDING_INSERT", "PENDING_UPDATE"}

VARIABLES
  state,      \* state[s]: the state word of entry s
  key,        \* key[s]
  allocated,  \* isNextAllocated of each bucket
  next,       \* next[b]: next of bucket b is not null
  pc,         \* pc[t]: the program point of task t
  pos         \* pos[t]: the entry task t has reached

chain == <<allocated, next>>

(* A list that sequential inserts have filled: the entries of P are USED.  *)
ListInit(P) == 
  /\ Cardinality(P) <= MaxPrefill
  /\ \A p, q \in Slots : Before(p, q) /\ q \in P => p \in P
  /\ state = [s \in Slots |-> IF s \in P THEN "USED" ELSE "EMPTY"]
  /\ \E f \in [P -> Keys] : 
       /\ \A p, q \in P : f[p] = f[q] => p = q
       /\ key = [s \in Slots |-> IF s \in P THEN f[s] ELSE NoKey]
  /\ allocated = [b \in Buckets |-> \E s \in P : s[1] = b + 1]
  /\ next = [b \in Buckets |-> \E s \in P : s[1] = b + 1]
  /\ pc = [t \in Threads |-> "idle"]
  /\ pos = [t \in Threads |-> FirstSlot]

Goto(t, l) == pc' = [pc EXCEPT ![t] = l]
SetState(s, st) == state' = [state EXCEPT ![s] = st]

(* The for loop over a bucket: the next entry, or out of the bucket.       *)
NextEntry(t, again, out) ==
  IF LastInBucket(pos[t]) 
    THEN Goto(t, out) /\ UNCHANGED pos
    ELSE /\ Goto(t, again)
         /\ pos' = [pos EXCEPT ![t] = <<@[1], @[2] + 1>>]

EnterNextBucket(t, l) == 
  /\ pos' = [pos EXCEPT ![t] = <<@[1] + 1, 0>>]
  /\ Goto(t, l)

(* An insertion past a full bucket follows next, or wins the compare and   *)
(* swap of isNextAllocated and allocates, or waits for the task that won.  *)
GrowList(t) == 
  /\ pc[t] = "grow"
  /\ pos[t][1] + 1 \in Buckets
  /\ \/ next[pos[t][1]] /\ EnterNextBucket(t, "claim") /\ UNCHANGED allocated
     \/ /\ ~next[pos[t][1]] /\ ~allocated[pos[t][1]]
        /\ allocated' = [allocated EXCEPT ![pos[t][1]] = TRUE]
        /\ Goto(t, "link") /\ UNCHANGED pos
     \/ /\ ~next[pos[t][1]] /\ allocated[pos[t][1]]
        /\ Goto(t, "waitnext") /\ UNCHANGED <<allocated, pos>>
  /\ UNCHANGED next

LinkBucket(t) == 
  /\ pc[t] = "link"
  /\ next' = [next EXCEPT ![pos[t][1]] = TRUE]
  /\ EnterNextBucket(t, "claim")
  /\ UNCHANGED allocated

AwaitBucket(t) == 
  /\ pc[t] = "waitnext" /\ next[pos[t][1]]
  /\ EnterNextBucket(t, "claim")
  /\ UNCHANGED chain
=============================================================================
