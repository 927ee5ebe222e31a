------------------------- MODULE LocalHashmap_proofs -------------------------
(***************************************************************************)
(* Proofs about LocalHashmap and its Erase, for any set of tasks and keys, *)
(* any size of the buckets and any length of the chain.  Without erasures, *)
(* a key has one entry, the entries are packed, and an entry that is in    *)
(* the map stays there; a locked entry has one owner, size_ is exact, and  *)
(* the list implements the map of ConcurrentMap, on which every operation  *)
(* takes effect at one instant.  Erasures leave no entry held; as long as  *)
(* none of them resumes after its recursive call and nothing is inserted,  *)
(* they keep the entries packed, the keys unique and size_ exact; and      *)
(* erasures of different keys keep every other key.                        *)
(***************************************************************************)
EXTENDS LocalHashmapErase, FiniteSetTheorems, TLAPS

-----------------------------------------------------------------------------
(* The order in which a scan visits the entries of a list.                 *)

\* Before is a strict total order of the entries, FirstSlot its least.
LEMMA BeforeIsOrder == 
  ASSUME NEW p \in Slots, NEW q \in Slots
  PROVE  /\ p = q \/ Before(p, q) \/ Before(q, p)
         /\ ~(Before(p, q) /\ Before(q, p))
         /\ ~Before(p, p)
<1>1. PICK a \in Buckets, i \in 0..(BucketSize - 1) : p = <<a, i>>
  BY DEF Slots
<1>2. PICK b \in Buckets, j \in 0..(BucketSize - 1) : q = <<b, j>>
  BY DEF Slots
<1>3. a \in Int /\ b \in Int /\ i \in Int /\ j \in Int
  BY MaxBucketsAssumption, BucketSizeAssumption DEF Buckets
<1>4. /\ p[1] = a /\ p[2] = i /\ q[1] = b /\ q[2] = j
  BY <1>1, <1>2
<1>5. p = q <=> a = b /\ i = j
  BY <1>1, <1>2
<1> QED BY <1>3, <1>4, <1>5 DEF Before

LEMMA FirstSlotIsFirst == 
  /\ FirstSlot \in Slots 
  /\ \A p \in Slots : ~Before(p, FirstSlot)
<1>1. FirstSlot \in Slots
  BY MaxBucketsAssumption, BucketSizeAssumption DEF Slots, Buckets, FirstSlot
<1>2. ASSUME NEW p \in Slots PROVE ~Before(p, FirstSlot)
  <2>1. PICK a \in Buckets, i \in 0..(BucketSize - 1) : p = <<a, i>>
    BY DEF Slots
  <2> QED BY <2>1, MaxBucketsAssumption, BucketSizeAssumption 
          DEF Before, FirstSlot, Buckets
<1> QED BY <1>1, <1>2

\* The next entry of a bucket comes right after its predecessor, ...
LEMMA NextSlot == 
  ASSUME NEW p \in Slots, ~LastInBucket(p)
  PROVE  /\ <<p[1], p[2] + 1>> \in Slots
         /\ \A q \in Slots : Before(q, <<p[1], p[2] + 1>>) 
                               => q = p \/ Before(q, p)
<1>1. PICK a \in Buckets, i \in 0..(BucketSize - 1) : p = <<a, i>>
  BY DEF Slots
<1>2. i + 1 \in 0..(BucketSize - 1)
  BY <1>1, BucketSizeAssumption DEF LastInBucket
<1>3. <<p[1], p[2] + 1>> \in Slots
  BY <1>1, <1>2 DEF Slots
<1>4. ASSUME NEW q \in Slots, Before(q, <<p[1], p[2] + 1>>)
      PROVE  q = p \/ Before(q, p)
  <2>1. PICK b \in Buckets, j \in 0..(BucketSize - 1) : q = <<b, j>>
    BY DEF Slots
  <2>2. a \in Int /\ b \in Int /\ i \in Int /\ j \in Int
    BY MaxBucketsAssumption, BucketSizeAssumption DEF Buckets
  <2>3. b < a \/ (b = a /\ j < i + 1)
    BY <1>1, <1>4, <2>1 DEF Before
  <2>4. b < a \/ (b = a /\ j < i) \/ (b = a /\ j = i)
    BY <2>2, <2>3
  <2> QED BY <1>1, <2>1, <2>4 DEF Before
<1> QED BY <1>3, <1>4

\* ... and so does the first entry of the next bucket.
LEMMA NextBucket == 
  ASSUME NEW p \in Slots, p[1] + 1 \in Buckets
  PROVE  /\ <<p[1] + 1, 0>> \in Slots
         /\ LastInBucket(p) 
              => \A q \in Slots : Before(q, <<p[1] + 1, 0>>) 
                                    => q = p \/ Before(q, p)
<1>1. PICK a \in Buckets, i \in 0..(BucketSize - 1) : p = <<a, i>>
  BY DEF Slots
<1>2. <<p[1] + 1, 0>> \in Slots
  BY <1>1, BucketSizeAssumption DEF Slots
<1>3. ASSUME LastInBucket(p), NEW q \in Slots, Before(q, <<p[1] + 1, 0>>)
      PROVE  q = p \/ Before(q, p)
  <2>1. PICK b \in Buckets, j \in 0..(BucketSize - 1) : q = <<b, j>>
    BY DEF Slots
  <2>2. a \in Int /\ b \in Int /\ i \in Int /\ j \in Int /\ j <= i
    BY <1>1, <1>3, MaxBucketsAssumption, BucketSizeAssumption 
       DEF Buckets, LastInBucket
  <2>3. b < a + 1 
    BY <1>1, <1>3, <2>1, <2>2 DEF Before
  <2>4. b < a \/ (b = a /\ j < i) \/ (b = a /\ j = i)
    BY <2>2, <2>3
  <2> QED BY <1>1, <2>1, <2>4 DEF Before
<1> QED BY <1>2, <1>3

-----------------------------------------------------------------------------
(* What a step of task t may do to the others.                             *)

\* an entry that is in the map stays in it, under its key, and no entry
\* becomes EMPTY
Monotone == 
  \A s \in Slots : 
    /\ state[s] \in Present => state'[s] \in Present /\ key'[s] = key[s]
    /\ state[s] # "EMPTY" => state'[s] # "EMPTY"

OthersStay(t) == 
  \A u \in Threads \ {t} : 
    /\ pc'[u] = pc[u] /\ pos'[u] = pos[u] /\ op'[u] = op[u]
    /\ hit'[u] = hit[u] /\ nops'[u] = nops[u]

\* the entries that other tasks are inserting are left alone
InsertionsStay(t) == 
  \A u \in Threads \ {t} : 
    pc[u] \in Inserting => /\ state'[pos[u]] = state[pos[u]] 
                           /\ key'[pos[u]] = key[pos[u]]

\* What the other tasks know of the list stays true.
LEMMA OthersKeepKnowledge == 
  ASSUME HashmapInv, NEW t \in Threads, NEW u \in Threads \ {t},
         Monotone, OthersStay(t), InsertionsStay(t)
  PROVE  WentPast(u)' /\ Reached(u)' /\ InRange(u)'
<1>1. /\ pc'[u] = pc[u] /\ pos'[u] = pos[u] /\ op'[u] = op[u]
      /\ hit'[u] = hit[u] /\ nops'[u] = nops[u]
  BY DEF OthersStay
<1>2. WentPast(u) /\ Reached(u) /\ InRange(u) /\ pos[u] \in Slots
  BY DEF HashmapInv, TypeOK
<1>3. WentPast(u)'
  BY <1>1, <1>2 DEF WentPast, Monotone, MyKey
<1>4. Reached(u)'
  BY <1>1, <1>2 DEF Reached, AtPresent, Monotone, InsertionsStay, MyKey, Inserting
<1>5. InRange(u)'
  BY <1>1, <1>2 DEF InRange
<1> QED BY <1>3, <1>4, <1>5

\* A step of t preserves the invariant when it preserves its global parts,
\* what t knows, and the rights of the others.
LEMMA StepPreserves == 
  ASSUME HashmapInv, NEW t \in Threads,
         TypeOK', UniqueKeys', Packed', ChainInBounds',
         WentPast(t)' /\ Reached(t)' /\ InRange(t)',
         Monotone, OthersStay(t), InsertionsStay(t),
         pc'[t] \in Inserting => 
           \A u \in Threads \ {t} : pc[u] \in Inserting => pos[u] # pos'[t]
  PROVE  HashmapInv'
<1>1. \A u \in Threads \ {t} : WentPast(u)' /\ Reached(u)' /\ InRange(u)'
  BY OthersKeepKnowledge
<1>2. OneInserter'
  BY DEF OneInserter, OthersStay, HashmapInv
<1> QED BY <1>1, <1>2 DEF HashmapInv

\* Most steps change neither the state nor the key of an entry.
LEMMA LocalStepPreserves == 
  ASSUME HashmapInv, NEW t \in Threads, UNCHANGED <<state, key>>,
         TypeOK', ChainInBounds', 
         WentPast(t)' /\ Reached(t)' /\ InRange(t)', OthersStay(t),
         pc'[t] \in Inserting => pc[t] \in Inserting /\ pos'[t] = pos[t]
  PROVE  HashmapInv' /\ Monotone
<1>1. UniqueKeys' /\ Packed'
  BY DEF HashmapInv, UniqueKeys, Packed
<1>2. Monotone /\ InsertionsStay(t)
  BY DEF Monotone, InsertionsStay
<1>3. pc'[t] \in Inserting => 
        \A u \in Threads \ {t} : pc[u] \in Inserting => pos[u] # pos'[t]
  BY DEF HashmapInv, OneInserter
<1> QED BY <1>1, <1>2, <1>3, StepPreserves

\* A step that changes the state of one entry but its key of none.
LEMMA EntryStepStays == 
  ASSUME HashmapInv, NEW t \in Threads, NEW s \in Slots, NEW st,
         SetState(s, st), key' = key,
         \/ state[s] \in Present /\ st \in Present
         \/ state[s] = "EMPTY" /\ st = "PENDING_INSERT"
         \/ pc[t] \in Inserting /\ s = pos[t] /\ st \in Present
  PROVE  /\ \A q \in Slots : state'[q] = IF q = s THEN st ELSE state[q]
         /\ Monotone /\ InsertionsStay(t)
<1>1. state \in [Slots -> EntryStates] /\ pos \in [Threads -> Slots]
  BY DEF HashmapInv, TypeOK
<1>2. \A q \in Slots : state'[q] = IF q = s THEN st ELSE state[q]
  BY <1>1 DEF SetState
<1>3. pc[t] \in Inserting => state[pos[t]] = "PENDING_INSERT"
  BY DEF HashmapInv, Reached
<1>4. Monotone
  BY <1>2, <1>3 DEF Monotone, Present
<1>5. ASSUME NEW u \in Threads \ {t}, pc[u] \in Inserting
      PROVE  pos[u] # s
  <2>1. state[pos[u]] = "PENDING_INSERT"
    BY <1>5 DEF HashmapInv, Reached
  <2>2. pc[t] \in Inserting => pos[u] # pos[t]
    BY <1>5 DEF HashmapInv, OneInserter
  <2> QED BY <2>1, <2>2 DEF Present
<1>6. InsertionsStay(t)
  BY <1>1, <1>2, <1>5 DEF InsertionsStay
<1> QED BY <1>2, <1>4, <1>6

-----------------------------------------------------------------------------
(* Calls and returns, and the steps of Insert.                             *)
LEMMA CallPreserves == 
  ASSUME HashmapInv, NEW t \in Threads, NEW kind \in Kinds, NEW k \in Keys,
         Call(t, kind, k)
  PROVE  HashmapInv' /\ Monotone
<1> USE DEF Call, Goto
<1>1. TypeOK
  BY DEF HashmapInv
<1>2. /\ pc'[t] \in {"claim", "scan"} /\ pos'[t] = FirstSlot 
      /\ nops[t] + 1 \in 0..MaxOps /\ nops'[t] = nops[t] + 1 
      /\ UNCHANGED <<state, key, val, size, allocated, next>>
  BY <1>1, MaxOpsAssumption DEF TypeOK, entries, chain
<1>3. TypeOK'
  BY <1>1, <1>2, FirstSlotIsFirst, KindsAssumption 
     DEF TypeOK, PCs, Outcomes, InsertKinds
<1>4. WentPast(t)' /\ Reached(t)' /\ InRange(t)'
  BY <1>1, <1>2, FirstSlotIsFirst 
     DEF TypeOK, WentPast, Reached, InRange, AtPresent, Inserting, Growing, Searching
<1>5. OthersStay(t) /\ ChainInBounds'
  BY <1>1, <1>2 DEF HashmapInv, TypeOK, OthersStay, ChainInBounds
<1> QED BY <1>2, <1>3, <1>4, <1>5, LocalStepPreserves DEF Inserting

\* steps that only move the task to a point of the same entry
LEMMA MovePreserves == 
  ASSUME HashmapInv, NEW t \in Threads, 
         Return(t) \/ ClaimFails(t) \/ AwaitInsert(t)
  PROVE  HashmapInv' /\ Monotone
<1> USE DEF Return, ClaimFails, AwaitInsert, Goto
<1>1. TypeOK /\ WentPast(t) /\ Reached(t) /\ InRange(t)
  BY DEF HashmapInv
<1>2. UNCHANGED <<entries, size, chain, op, pos, hit, read, res, nops>>
  OBVIOUS
<1>3. \/ pc[t] = "done" /\ pc' = [pc EXCEPT ![t] = "idle"]
      \/ /\ pc[t] = "claim" /\ pc' = [pc EXCEPT ![t] = "await"]
         /\ state[pos[t]] # "EMPTY"
      \/ /\ pc[t] = "await" /\ pc' = [pc EXCEPT ![t] = "compare"]
         /\ state[pos[t]] # "PENDING_INSERT"
  OBVIOUS
<1>4. TypeOK'
  BY <1>1, <1>2, <1>3 DEF TypeOK, PCs, entries, chain
<1>5. \/ pc[t] = "done" /\ pc'[t] = "idle"
      \/ pc[t] = "claim" /\ pc'[t] = "await" /\ state[pos[t]] # "EMPTY"
      \/ /\ pc[t] = "await" /\ pc'[t] = "compare"
         /\ state[pos[t]] \in Present
  BY <1>1, <1>3 DEF TypeOK, Reached, EntryStates, Present
<1>6. WentPast(t)' /\ Reached(t)' /\ InRange(t)'
  BY <1>1, <1>2, <1>5 DEF WentPast, Reached, InRange, AtPresent, Inserting, 
     Growing, Searching, MyKey, entries
<1>7. OthersStay(t) /\ ChainInBounds'
  BY <1>1, <1>2, <1>3 DEF HashmapInv, TypeOK, OthersStay, ChainInBounds, chain
<1> QED BY <1>2, <1>4, <1>5, <1>6, <1>7, LocalStepPreserves DEF Inserting, entries

LEMMA ComparePreserves == 
  ASSUME HashmapInv, NEW t \in Threads, Compare(t)
  PROVE  HashmapInv' /\ Monotone
<1> USE DEF Compare, Goto
<1>1. TypeOK /\ WentPast(t) /\ Reached(t) /\ InRange(t) /\ pos[t] \in Slots
  BY DEF HashmapInv, TypeOK
<1>2. /\ pc[t] = "compare" /\ state[pos[t]] \in Present
      /\ UNCHANGED <<entries, size, chain, op, hit, read, res, nops>>
  BY <1>1 DEF Reached, AtPresent
<1>3. CASE key[pos[t]] = MyKey(t)
  <2>1. pc' = [pc EXCEPT ![t] = "lock"] /\ UNCHANGED pos
    BY <1>3
  <2>2. TypeOK'
    BY <1>1, <1>2, <2>1 DEF TypeOK, PCs, entries, chain
  <2>3. WentPast(t)' /\ Reached(t)' /\ InRange(t)' /\ pc'[t] = "lock"
    BY <1>1, <1>2, <2>1 DEF TypeOK, WentPast, Reached, InRange, AtPresent, 
       Inserting, Growing, Searching, entries
  <2>4. OthersStay(t) /\ ChainInBounds'
    BY <1>1, <1>2, <2>1 
       DEF HashmapInv, TypeOK, OthersStay, ChainInBounds, chain
  <2> QED BY <1>2, <2>2, <2>3, <2>4, LocalStepPreserves DEF Inserting, entries
<1>4. CASE key[pos[t]] # MyKey(t) /\ LastInBucket(pos[t])
  <2>1. pc' = [pc EXCEPT ![t] = "grow"] /\ UNCHANGED pos
    BY <1>4 DEF NextEntry
  <2>2. TypeOK'
    BY <1>1, <1>2, <2>1 DEF TypeOK, PCs, entries, chain
  <2>3. WentPast(t)' /\ Reached(t)' /\ InRange(t)' /\ pc'[t] = "grow"
    BY <1>1, <1>2, <1>4, <2>1 DEF TypeOK, WentPast, Reached, InRange, AtPresent, 
       Inserting, Growing, Searching, entries, MyKey
  <2>4. OthersStay(t) /\ ChainInBounds'
    BY <1>1, <1>2, <2>1 
       DEF HashmapInv, TypeOK, OthersStay, ChainInBounds, chain
  <2> QED BY <1>2, <2>2, <2>3, <2>4, LocalStepPreserves DEF Inserting, entries
<1>5. CASE key[pos[t]] # MyKey(t) /\ ~LastInBucket(pos[t])
  <2>1. /\ pc' = [pc EXCEPT ![t] = "claim"] 
        /\ pos' = [pos EXCEPT ![t] = <<pos[t][1], pos[t][2] + 1>>]
    BY <1>5 DEF NextEntry
  <2>2. /\ <<pos[t][1], pos[t][2] + 1>> \in Slots
        /\ \A q \in Slots : Before(q, <<pos[t][1], pos[t][2] + 1>>) 
                              => q = pos[t] \/ Before(q, pos[t])
    BY <1>1, <1>5, NextSlot
  <2>3. /\ pc'[t] = "claim" /\ pos'[t] \in Slots
        /\ \A q \in Slots : Before(q, pos'[t]) => q = pos[t] \/ Before(q, pos[t])
    BY <1>1, <2>1, <2>2 DEF TypeOK
  <2>4. TypeOK'
    BY <1>1, <1>2, <2>1, <2>2 DEF TypeOK, PCs, entries, chain
  <2>5. WentPast(t)'
    BY <1>1, <1>2, <1>5, <2>3 
       DEF WentPast, Inserting, Growing, Searching, entries, MyKey
  <2>6. Reached(t)' /\ InRange(t)'
    BY <1>1, <1>2, <2>3 DEF Reached, InRange, AtPresent, Inserting
  <2>7. OthersStay(t) /\ ChainInBounds'
    BY <1>1, <1>2, <2>1 
       DEF HashmapInv, TypeOK, OthersStay, ChainInBounds, chain
  <2> QED BY <1>2, <2>3, <2>4, <2>5, <2>6, <2>7, LocalStepPreserves 
          DEF Inserting, entries
<1> QED BY <1>3, <1>4, <1>5

\* The entry t claims comes after entries that are in the map, so it is the
\* first EMPTY one.
LEMMA ClaimPreserves == 
  ASSUME HashmapInv, NEW t \in Threads, Claim(t)
  PROVE  HashmapInv' /\ Monotone
<1> USE DEF Claim, Goto
<1>1. TypeOK /\ WentPast(t) /\ Reached(t) /\ InRange(t) /\ pos[t] \in Slots
  BY DEF HashmapInv, TypeOK
<1>2. /\ pc[t] = "claim" /\ state[pos[t]] = "EMPTY" 
      /\ pc' = [pc EXCEPT ![t] = "init"] /\ SetState(pos[t], "PENDING_INSERT")
      /\ UNCHANGED <<key, val, size, chain, op, pos, hit, read, res, nops>>
  OBVIOUS
<1>3. /\ \A q \in Slots : state'[q] = IF q = pos[t] THEN "PENDING_INSERT" 
                                                     ELSE state[q]
      /\ Monotone /\ InsertionsStay(t)
  BY <1>1, <1>2, EntryStepStays
<1>4. TypeOK'
  BY <1>1, <1>2 DEF TypeOK, PCs, EntryStates, SetState, chain
<1>5. UniqueKeys'
  BY <1>2, <1>3 DEF HashmapInv, UniqueKeys, Present
<1>6. Packed'
  <2>1. \A p \in Slots : Before(p, pos[t]) => state[p] \in Present
    BY <1>1, <1>2 DEF WentPast, Searching
  <2> QED BY <1>1, <1>2, <1>3, <2>1, BeforeIsOrder 
          DEF HashmapInv, Packed, Present
<1>7. pc'[t] = "init" /\ pos'[t] = pos[t] /\ state'[pos[t]] = "PENDING_INSERT"
  BY <1>1, <1>2, <1>3 DEF TypeOK
<1>8. WentPast(t)' /\ Reached(t)' /\ InRange(t)'
  BY <1>1, <1>2, <1>3, <1>7 DEF WentPast, Reached, InRange, AtPresent, Monotone,
     Inserting, Growing, Searching, MyKey
<1>9. OthersStay(t) /\ ChainInBounds'
  BY <1>1, <1>2 DEF HashmapInv, TypeOK, OthersStay, ChainInBounds, chain
<1>10. \A u \in Threads \ {t} : pc[u] \in Inserting => pos[u] # pos'[t]
  BY <1>2, <1>7 DEF HashmapInv, Reached
<1> QED BY <1>3, <1>4, <1>5, <1>6, <1>8, <1>9, <1>10, StepPreserves

LEMMA InitEntryPreserves == 
  ASSUME HashmapInv, NEW t \in Threads, InitEntry(t)
  PROVE  HashmapInv' /\ Monotone
<1> USE DEF InitEntry, Goto
<1>1. TypeOK /\ WentPast(t) /\ Reached(t) /\ InRange(t) /\ pos[t] \in Slots
  BY DEF HashmapInv, TypeOK
<1>2. /\ pc[t] = "init" /\ pc' = [pc EXCEPT ![t] = "count"] 
      /\ key' = [key EXCEPT ![pos[t]] = MyKey(t)]
      /\ val' = [val EXCEPT ![pos[t]] = {Tok(t)}]
      /\ UNCHANGED <<state, size, chain, op, pos, hit, read, res, nops>>
  OBVIOUS
<1>3. state[pos[t]] = "PENDING_INSERT"
  BY <1>1, <1>2 DEF Reached, Inserting
<1>4. \A q \in Slots : key'[q] = IF q = pos[t] THEN MyKey(t) ELSE key[q]
  BY <1>1, <1>2 DEF TypeOK
<1>5. nops[t] \in 1..MaxOps
  BY <1>1, <1>2, MaxOpsAssumption DEF TypeOK, InRange
<1>6. TypeOK'
  BY <1>1, <1>2, <1>5 DEF TypeOK, PCs, Tokens, Tok, MyKey, chain
<1>7. Monotone
  BY <1>2, <1>3, <1>4 DEF Monotone, Present
<1>8. InsertionsStay(t)
  BY <1>1, <1>2, <1>4 DEF HashmapInv, OneInserter, InsertionsStay, Inserting, TypeOK
<1>9. UniqueKeys' /\ Packed'
  BY <1>2, <1>3, <1>4 DEF HashmapInv, UniqueKeys, Packed, Present
<1>10. pc'[t] = "count" /\ pos'[t] = pos[t] /\ key'[pos[t]] = MyKey(t)
  BY <1>1, <1>2, <1>4 DEF TypeOK
<1>11. WentPast(t)' /\ Reached(t)' /\ InRange(t)'
  BY <1>1, <1>2, <1>7, <1>10 DEF WentPast, Reached, InRange, AtPresent, Monotone,
     Inserting, Growing, Searching, MyKey
<1>12. OthersStay(t) /\ ChainInBounds'
  BY <1>1, <1>2 DEF HashmapInv, TypeOK, OthersStay, ChainInBounds, chain
<1>13. \A u \in Threads \ {t} : pc[u] \in Inserting => pos[u] # pos'[t]
  BY <1>2, <1>10 DEF HashmapInv, OneInserter, Inserting
<1> QED BY <1>6, <1>7, <1>8, <1>9, <1>11, <1>12, <1>13, StepPreserves

LEMMA CountEntryPreserves == 
  ASSUME HashmapInv, NEW t \in Threads, CountEntry(t)
  PROVE  HashmapInv' /\ Monotone
<1> USE DEF CountEntry, Goto
<1>1. TypeOK /\ WentPast(t) /\ Reached(t) /\ InRange(t) 
  BY DEF HashmapInv
<1>2. /\ pc[t] = "count" /\ pc' = [pc EXCEPT ![t] = "publish"] 
      /\ UNCHANGED <<entries, chain, op, pos, hit, read, res, nops>>
  OBVIOUS
<1>3. TypeOK'
  BY <1>1, <1>2 DEF TypeOK, PCs, entries, chain
<1>4. pc'[t] = "publish"
  BY <1>1, <1>2 DEF TypeOK
<1>5. WentPast(t)' /\ Reached(t)' /\ InRange(t)'
  BY <1>1, <1>2, <1>4 DEF WentPast, Reached, InRange, AtPresent, 
     Inserting, Growing, Searching, MyKey, entries
<1>6. OthersStay(t) /\ ChainInBounds'
  BY <1>1, <1>2 DEF HashmapInv, TypeOK, OthersStay, ChainInBounds, chain
<1> QED BY <1>2, <1>3, <1>4, <1>5, <1>6, LocalStepPreserves DEF Inserting, entries

\* The new entry has the key of no earlier entry, and no later one exists.
LEMMA PublishPreserves == 
  ASSUME HashmapInv, NEW t \in Threads, Publish(t)
  PROVE  HashmapInv' /\ Monotone
<1> USE DEF Publish, Goto, Finish
<1>1. TypeOK /\ WentPast(t) /\ Reached(t) /\ InRange(t) /\ pos[t] \in Slots
  BY DEF HashmapInv, TypeOK
<1>2. /\ pc[t] = "publish" /\ pc' = [pc EXCEPT ![t] = "done"] 
      /\ SetState(pos[t], "USED") /\ res' = [res EXCEPT ![t] = "true"]
      /\ UNCHANGED <<key, val, size, chain, op, pos, hit, read, nops>>
  OBVIOUS
<1>3. /\ \A q \in Slots : state'[q] = IF q = pos[t] THEN "USED" ELSE state[q]
      /\ Monotone /\ InsertionsStay(t)
  BY <1>1, <1>2, EntryStepStays DEF Inserting, Present
<1>4. state[pos[t]] = "PENDING_INSERT" /\ key[pos[t]] = MyKey(t)
  BY <1>1, <1>2 DEF Reached, Inserting
<1>5. TypeOK'
  BY <1>1, <1>2 DEF TypeOK, PCs, EntryStates, Outcomes, SetState, chain
<1>6. \A p \in Slots : Before(p, pos[t]) 
                        => state[p] \in Present /\ key[p] # MyKey(t)
  BY <1>1, <1>2 DEF WentPast, Searching, Inserting
<1>7. \A q \in Slots : Before(pos[t], q) => state[q] = "EMPTY"
  BY <1>1, <1>4 DEF HashmapInv, Packed
<1>8. ASSUME NEW q \in Slots, q # pos[t], state[q] \in Present
      PROVE  key[q] # key[pos[t]]
  BY <1>1, <1>4, <1>6, <1>7, <1>8, BeforeIsOrder DEF Present
<1>9. UniqueKeys'
  BY <1>1, <1>2, <1>3, <1>8 DEF HashmapInv, UniqueKeys
<1>10. Packed'
  BY <1>3, <1>4 DEF HashmapInv, Packed
<1>11. pc'[t] = "done"
  BY <1>1, <1>2 DEF TypeOK
<1>12. WentPast(t)' /\ Reached(t)' /\ InRange(t)'
  BY <1>1, <1>2, <1>11 DEF WentPast, Reached, InRange, AtPresent, 
     Inserting, Growing, Searching
<1>13. OthersStay(t) /\ ChainInBounds'
  BY <1>1, <1>2 DEF HashmapInv, TypeOK, OthersStay, ChainInBounds, chain
<1> QED BY <1>3, <1>5, <1>9, <1>10, <1>11, <1>12, <1>13, StepPreserves 
        DEF Inserting

\* Locking or releasing an entry that is in the map.
LEMMA PresentStepPreserves == 
  ASSUME HashmapInv, NEW t \in Threads, NEW s \in Slots, NEW st \in Present,
         state[s] \in Present, SetState(s, st), UNCHANGED <<key, next>>,
         TypeOK', WentPast(t)' /\ InRange(t)', OthersStay(t),
         Monotone => Reached(t)', pc'[t] \notin Inserting
  PROVE  HashmapInv' /\ Monotone
<1>1. /\ \A q \in Slots : state'[q] = IF q = s THEN st ELSE state[q]
      /\ Monotone /\ InsertionsStay(t)
  BY EntryStepStays
<1>2. UniqueKeys' /\ Packed' /\ ChainInBounds'
  BY <1>1 DEF HashmapInv, UniqueKeys, Packed, ChainInBounds, Present
<1> QED BY <1>1, <1>2, StepPreserves

LEMMA LockPreserves == 
  ASSUME HashmapInv, NEW t \in Threads, LockEntry(t) \/ Release(t)
  PROVE  HashmapInv' /\ Monotone
<1> USE DEF LockEntry, Release, Goto
<1>1. TypeOK /\ WentPast(t) /\ Reached(t) /\ InRange(t) /\ pos[t] \in Slots
  BY DEF HashmapInv, TypeOK
<1>2. PICK g \in {"update", "done"}, st \in Present : 
        /\ pc' = [pc EXCEPT ![t] = g] /\ SetState(pos[t], st)
        /\ g = "update" => pc[t] = "lock"
  BY DEF Present
<1>3. /\ UNCHANGED <<key, val, size, chain, op, pos, hit, read, res, nops>>
      /\ pc[t] \in {"lock", "release"}
  OBVIOUS
<1>4. state[pos[t]] \in Present
  BY <1>1, <1>3 DEF Reached, AtPresent
<1>5. TypeOK'
  BY <1>1, <1>2, <1>3 DEF TypeOK, PCs, EntryStates, Present, SetState, chain
<1>6. pc'[t] = g
  BY <1>1, <1>2 DEF TypeOK
<1>7. WentPast(t)' /\ InRange(t)'
  BY <1>1, <1>3, <1>6 DEF WentPast, InRange, Inserting, Growing, Searching
<1>8. ASSUME Monotone PROVE Reached(t)'
  BY <1>1, <1>3, <1>4, <1>6, <1>8 DEF Reached, AtPresent, Inserting, Monotone
<1>9. OthersStay(t)
  BY <1>1, <1>2, <1>3 DEF TypeOK, OthersStay
<1> QED BY <1>1, <1>2, <1>3, <1>4, <1>5, <1>6, <1>7, <1>8, <1>9, 
           PresentStepPreserves DEF Inserting, chain

LEMMA TagPreserves == 
  ASSUME HashmapInv, NEW t \in Threads, Tag(t)
  PROVE  HashmapInv' /\ Monotone
<1> USE DEF Tag, Goto, Finish
<1>1. TypeOK /\ WentPast(t) /\ Reached(t) /\ InRange(t) /\ pos[t] \in Slots
  BY DEF HashmapInv, TypeOK
<1>2. /\ pc[t] = "tag" 
      /\ UNCHANGED <<key, val, size, chain, op, pos, read, nops>>
  OBVIOUS
<1>3. CASE state[pos[t]] = "USED"
  <2>1. /\ pc' = [pc EXCEPT ![t] = "call"] /\ hit' = [hit EXCEPT ![t] = pos[t]]
        /\ SetState(pos[t], "PENDING_UPDATE") /\ UNCHANGED res
    BY <1>3
  <2>2. TypeOK'
    BY <1>1, <1>2, <2>1 DEF TypeOK, PCs, EntryStates, SetState, chain
  <2>3. pc'[t] = "call" /\ hit'[t] = pos[t]
    BY <1>1, <2>1 DEF TypeOK
  <2>4. WentPast(t)' /\ InRange(t)'
    BY <1>1, <1>2, <2>3 DEF WentPast, InRange, Inserting, Growing, Searching
  <2>5. ASSUME Monotone PROVE Reached(t)'
    BY <1>1, <1>2, <1>3, <2>3, <2>5 
       DEF Reached, AtPresent, Inserting, Monotone, Present
  <2>6. OthersStay(t)
    BY <1>1, <1>2, <2>1 DEF TypeOK, OthersStay
  <2> QED BY <1>1, <1>2, <1>3, <2>1, <2>2, <2>3, <2>4, <2>5, <2>6, 
             PresentStepPreserves DEF Inserting, chain, Present
<1>4. CASE state[pos[t]] # "USED"
  <2>1. /\ pc' = [pc EXCEPT ![t] = "done"] /\ UNCHANGED <<state, hit>>
        /\ res' = [res EXCEPT ![t] = "FAILED"]
    BY <1>4
  <2>2. TypeOK'
    BY <1>1, <1>2, <2>1 DEF TypeOK, PCs, Outcomes, chain
  <2>3. pc'[t] = "done" 
    BY <1>1, <2>1 DEF TypeOK
  <2>4. WentPast(t)' /\ Reached(t)' /\ InRange(t)'
    BY <1>1, <1>2, <2>3 
       DEF WentPast, Reached, InRange, AtPresent, Inserting, Growing, Searching
  <2>5. OthersStay(t) /\ ChainInBounds'
    BY <1>1, <1>2, <2>1 DEF HashmapInv, TypeOK, OthersStay, ChainInBounds, chain
  <2> QED BY <1>2, <2>1, <2>2, <2>3, <2>4, <2>5, LocalStepPreserves 
          DEF Inserting
<1> QED BY <1>3, <1>4

\* The steps that read or write the value of an entry.
LEMMA ValueStepPreserves == 
  ASSUME HashmapInv, NEW t \in Threads, 
         UpdateEntry(t) \/ CallFunction(t) \/ StoreResult(t) \/ Deref(t)
  PROVE  HashmapInv' /\ Monotone
<1> USE DEF UpdateEntry, CallFunction, StoreResult, Deref, Goto, LookupReturns
<1>1. TypeOK /\ WentPast(t) /\ Reached(t) /\ InRange(t) /\ pos[t] \in Slots
  BY DEF HashmapInv, TypeOK
<1>2. UNCHANGED <<state, key, size, chain, op, pos, hit, nops>>
  BY DEF entries
<1>3. pc[t] # "idle" /\ Tok(t) \in Tokens
  BY <1>1, MaxOpsAssumption DEF TypeOK, InRange, Tok, Tokens
<1>4. pc[t] \in {"deref", "call", "store"} => hit[t] \in Slots
  BY <1>1 DEF InRange
<1>5. /\ val' \in [Slots -> SUBSET Tokens] /\ read' \in [Threads -> SUBSET Tokens]
      /\ res' \in [Threads -> Outcomes]
  <2>1. CASE UpdateEntry(t)
    <3>1. \/ val' = [val EXCEPT ![pos[t]] = {Tok(t)}] \/ UNCHANGED val
      BY <2>1
    <3>2. PICK o \in {"true", "false"} : res' = [res EXCEPT ![t] = o]
      BY <2>1
    <3>3. UNCHANGED read
      BY <2>1
    <3>4. val \in [Slots -> SUBSET Tokens] /\ {Tok(t)} \in SUBSET Tokens
      BY <1>1, <1>3 DEF TypeOK
    <3>5. val' \in [Slots -> SUBSET Tokens]
      BY ONLY <3>1, <3>4
    <3> QED BY <1>1, <3>2, <3>3, <3>5 DEF TypeOK, Outcomes
  <2>2. CASE CallFunction(t)
    BY <2>2, <1>1, <1>4 DEF TypeOK, entries
  <2>3. CASE StoreResult(t)
    BY <2>3, <1>1, <1>3, <1>4 DEF TypeOK, Outcomes
  <2>4. CASE Deref(t)
    BY <2>4, <1>1, <1>4 DEF TypeOK, Outcomes, entries
  <2> QED BY <2>1, <2>2, <2>3, <2>4
<1>6. PICK g \in {"release", "store", "done", "looked"} : 
        /\ pc' = [pc EXCEPT ![t] = g]
        /\ g = "release" => AtPresent(t)
        /\ g = "store" => pc[t] = "call"
  <2>1. CASE UpdateEntry(t)
    BY <2>1 DEF AtPresent
  <2>2. CASE CallFunction(t)
    BY <2>2
  <2>3. CASE StoreResult(t)
    BY <2>3 DEF AtPresent
  <2>4. CASE Deref(t)
    BY <2>4
  <2> QED BY <2>1, <2>2, <2>3, <2>4
<1>7. TypeOK'
  BY <1>1, <1>2, <1>5, <1>6 DEF TypeOK, PCs, chain
<1>8. pc'[t] = g
  BY <1>1, <1>6 DEF TypeOK
<1>9. WentPast(t)' /\ Reached(t)' /\ InRange(t)'
  BY <1>1, <1>2, <1>3, <1>4, <1>6, <1>8 
     DEF WentPast, Reached, InRange, AtPresent, Inserting, Growing, Searching
<1>10. OthersStay(t) /\ ChainInBounds'
  BY <1>1, <1>2, <1>6 DEF HashmapInv, TypeOK, OthersStay, ChainInBounds, chain
<1> QED BY <1>2, <1>7, <1>8, <1>9, <1>10, LocalStepPreserves DEF Inserting

-----------------------------------------------------------------------------
(* The scan of Lookup and the applies.                                     *)
LEMMA SearchStepPreserves == 
  ASSUME HashmapInv, NEW t \in Threads, pc[t] # "idle",
         UNCHANGED <<state, key, val, size, chain, op, read, nops>>,
         NEW g \in {"scan", "probe", "tag", "found", "hop", "deref", "call", 
                    "looked", "done"}, 
         NEW s \in Slots, NEW h \in Slots \cup {NoSlot},
         pc' = [pc EXCEPT ![t] = g], pos' = [pos EXCEPT ![t] = s], 
         hit' = [hit EXCEPT ![t] = h], res' \in [Threads -> Outcomes],
         g \in {"probe", "tag"} => state[s] \in Present,
         g \in {"deref", "call"} => h \in Slots,
         g = "call" => op[t].kind = "Apply"
  PROVE  HashmapInv' /\ Monotone
<1>1. TypeOK /\ InRange(t)
  BY DEF HashmapInv
<1>2. TypeOK'
  BY <1>1 DEF TypeOK, PCs, chain
<1>3. pc'[t] = g /\ pos'[t] = s /\ hit'[t] = h
  BY <1>1 DEF TypeOK
<1>4. WentPast(t)' /\ Reached(t)' /\ InRange(t)'
  BY <1>1, <1>3 
     DEF WentPast, Reached, InRange, AtPresent, Inserting, Growing, Searching
<1>5. OthersStay(t) /\ ChainInBounds'
  BY <1>1 DEF HashmapInv, TypeOK, OthersStay, ChainInBounds, chain
<1> QED BY <1>2, <1>3, <1>4, <1>5, LocalStepPreserves DEF Inserting

LEMMA ScanPreserves == 
  ASSUME HashmapInv, NEW t \in Threads, Scan(t) \/ Probe(t) \/ Found(t)
  PROVE  HashmapInv' /\ Monotone
<1> USE DEF Scan, Probe, Found, Goto
<1>1. /\ TypeOK /\ Reached(t) /\ pos[t] \in Slots 
      /\ hit[t] \in Slots \cup {NoSlot} /\ pc[t] # "idle"
  BY DEF HashmapInv, TypeOK
<1>2. UNCHANGED <<state, key, val, size, chain, op, read, nops>>
  BY DEF entries
<1>3. ASSUME NEW out \in {"hop"}, NEW again \in {"scan"}, NextEntry(t, again, out)
      PROVE  \E g \in {"scan", "hop"}, s \in Slots : 
               pc' = [pc EXCEPT ![t] = g] /\ pos' = [pos EXCEPT ![t] = s]
  <2>1. CASE LastInBucket(pos[t])
    <3>1. pc' = [pc EXCEPT ![t] = "hop"] /\ pos' = [pos EXCEPT ![t] = pos[t]]
      BY <1>1, <1>3, <2>1 DEF NextEntry, TypeOK
    <3> QED BY <3>1, <1>1
  <2>2. CASE ~LastInBucket(pos[t])
    <3>1. /\ pc' = [pc EXCEPT ![t] = "scan"] 
          /\ pos' = [pos EXCEPT ![t] = <<pos[t][1], pos[t][2] + 1>>]
      BY <1>3, <2>2 DEF NextEntry
    <3>2. <<pos[t][1], pos[t][2] + 1>> \in Slots
      BY <1>1, <2>2, NextSlot
    <3> QED BY <3>1, <3>2
  <2> QED BY <2>1, <2>2
<1>4. CASE Scan(t)
  <2>1. PICK g \in {"probe", "hop"} : 
          /\ pc' = [pc EXCEPT ![t] = g] 
          /\ g = "probe" => state[pos[t]] \in Present
    BY <1>4
  <2>2. /\ pos' = [pos EXCEPT ![t] = pos[t]] /\ hit' = [hit EXCEPT ![t] = hit[t]]
    BY <1>1, <1>4 DEF TypeOK
  <2>3. res' \in [Threads -> Outcomes]
    <3>1. \/ UNCHANGED res \/ res' = [res EXCEPT ![t] = "absent"]
          \/ res' = [res EXCEPT ![t] = res[t]]
      BY <1>4
    <3> QED BY <3>1, <1>1 DEF TypeOK, Outcomes
  <2> QED BY <1>1, <1>2, <2>1, <2>2, <2>3, SearchStepPreserves
<1>5. CASE Probe(t)
  <2>1. state[pos[t]] \in Present
    BY <1>1, <1>5 DEF Reached, AtPresent
  <2>2. PICK g \in {"scan", "tag", "found", "hop"}, s \in Slots : 
          /\ pc' = [pc EXCEPT ![t] = g] /\ pos' = [pos EXCEPT ![t] = s]
          /\ g = "tag" => s = pos[t]
    <3>1. CASE key[pos[t]] = MyKey(t)
      <4>1. pos' = [pos EXCEPT ![t] = pos[t]]
        BY <1>1, <1>5, <3>1 DEF TypeOK
      <4> QED BY <4>1, <1>1, <1>5, <3>1
    <3>2. CASE key[pos[t]] # MyKey(t)
      BY <1>3, <1>5, <3>2
    <3> QED BY <3>1, <3>2
  <2>3. hit' = [hit EXCEPT ![t] = hit[t]]
    BY <1>1, <1>5 DEF TypeOK
  <2>4. res' \in [Threads -> Outcomes]
    BY <1>1, <1>5 DEF TypeOK
  <2>5. g \in {"probe", "tag"} => state[s] \in Present
    BY <2>1, <2>2
  <2>6. g \notin {"deref", "call"}
    OBVIOUS
  <2> QED BY <1>1, <1>2, <2>2, <2>3, <2>4, <2>5, <2>6, SearchStepPreserves
<1>6. CASE Found(t)
  <2>1. PICK g \in {"scan", "hop"}, s \in Slots : 
          pc' = [pc EXCEPT ![t] = g] /\ pos' = [pos EXCEPT ![t] = s]
    BY <1>3, <1>6
  <2>2. /\ hit' = [hit EXCEPT ![t] = pos[t]] /\ res' \in [Threads -> Outcomes]
    BY <1>1, <1>6 DEF TypeOK
  <2>3. g \notin {"probe", "tag", "deref", "call"}
    OBVIOUS
  <2> QED BY <1>1, <1>2, <2>1, <2>2, <2>3, SearchStepPreserves
<1> QED BY <1>4, <1>5, <1>6

LEMMA HopPreserves == 
  ASSUME HashmapInv, NEW t \in Threads, Hop(t)
  PROVE  HashmapInv' /\ Monotone
<1> USE DEF Hop, Goto
<1>1. /\ TypeOK /\ pos[t] \in Slots /\ hit[t] \in Slots \cup {NoSlot} 
      /\ pc[t] # "idle"
  BY DEF HashmapInv, TypeOK
<1>2. UNCHANGED <<state, key, val, size, chain, op, read, nops>>
  BY DEF entries
<1>3. hit' = [hit EXCEPT ![t] = hit[t]]
  BY <1>1 DEF TypeOK
<1>4. CASE hit[t] # NoSlot
  <2>1. PICK g \in {"call", "deref"} : 
          pc' = [pc EXCEPT ![t] = g] /\ (g = "call" => op[t].kind = "Apply")
    BY <1>4
  <2>2. pos' = [pos EXCEPT ![t] = pos[t]] /\ res' \in [Threads -> Outcomes]
    BY <1>1, <1>4 DEF TypeOK
  <2> QED BY <1>1, <1>2, <1>3, <1>4, <2>1, <2>2, SearchStepPreserves
<1>5. CASE hit[t] = NoSlot /\ next[pos[t][1]]
  <2>1. pos[t][1] \in Buckets
    BY <1>1 DEF Slots
  <2>2. <<pos[t][1] + 1, 0>> \in Slots
    BY <1>1, <1>5, <2>1, NextBucket DEF HashmapInv, ChainInBounds
  <2>3. PICK g \in {"scan"}, s \in Slots : 
          pc' = [pc EXCEPT ![t] = g] /\ pos' = [pos EXCEPT ![t] = s]
    BY <1>5, <2>2 DEF EnterNextBucket
  <2>4. res' \in [Threads -> Outcomes]
    BY <1>1, <1>5 DEF TypeOK
  <2> QED BY <1>1, <1>2, <1>3, <2>3, <2>4, SearchStepPreserves
<1>6. CASE hit[t] = NoSlot /\ ~next[pos[t][1]]
  <2>1. PICK g \in {"looked", "done"} : pc' = [pc EXCEPT ![t] = g]
    BY <1>6 DEF LookupReturns
  <2>2. pos' = [pos EXCEPT ![t] = pos[t]] /\ res' \in [Threads -> Outcomes]
    BY <1>1, <1>6 DEF TypeOK, LookupReturns, Outcomes
  <2> QED BY <1>1, <1>2, <1>3, <2>1, <2>2, SearchStepPreserves
<1> QED BY <1>4, <1>5, <1>6

-----------------------------------------------------------------------------
(* The growth of the chain.                                                *)

\* An insertion that enters the next bucket has gone past all of this one.
LEMMA EnterNextBucketPreserves == 
  ASSUME HashmapInv, NEW t \in Threads, pc[t] \in Growing,
         EnterNextBucket(t, "claim"), pos[t][1] + 1 \in Buckets,
         UNCHANGED <<entries, size, allocated, op, hit, read, res, nops>>,
         \/ UNCHANGED next 
         \/ next' = [next EXCEPT ![pos[t][1]] = TRUE]
  PROVE  HashmapInv' /\ Monotone
<1>1. TypeOK /\ WentPast(t) /\ InRange(t) /\ pos[t] \in Slots
  BY DEF HashmapInv, TypeOK
<1>2. /\ pc' = [pc EXCEPT ![t] = "claim"] 
      /\ pos' = [pos EXCEPT ![t] = <<pos[t][1] + 1, 0>>]
  BY DEF EnterNextBucket, Goto
<1>3. LastInBucket(pos[t])
  BY <1>1 DEF WentPast
<1>4. /\ <<pos[t][1] + 1, 0>> \in Slots
      /\ \A q \in Slots : Before(q, <<pos[t][1] + 1, 0>>) 
                            => q = pos[t] \/ Before(q, pos[t])
  BY <1>1, <1>3, NextBucket
<1>5. TypeOK'
  BY <1>1, <1>2, <1>4 DEF TypeOK, PCs, entries
<1>6. /\ pc'[t] = "claim" /\ pos'[t] = <<pos[t][1] + 1, 0>>
      /\ UNCHANGED <<state, key>> /\ MyKey(t)' = MyKey(t) /\ nops'[t] = nops[t]
  BY <1>1, <1>2 DEF TypeOK, entries, MyKey
<1>7. WentPast(t)'
  BY <1>1, <1>4, <1>6 DEF WentPast, Growing, Searching, Inserting
<1>8. Reached(t)' /\ InRange(t)'
  BY <1>1, <1>6 DEF Reached, InRange, AtPresent, Inserting, Growing
<1>9. OthersStay(t) /\ ChainInBounds'
  BY <1>1, <1>2 DEF HashmapInv, TypeOK, OthersStay, ChainInBounds
<1> QED BY <1>5, <1>6, <1>7, <1>8, <1>9, LocalStepPreserves DEF Inserting

LEMMA GrowPreserves == 
  ASSUME HashmapInv, NEW t \in Threads, Grow(t)
  PROVE  HashmapInv' /\ Monotone
<1>1. TypeOK /\ WentPast(t) /\ InRange(t) /\ pos[t] \in Slots
  BY DEF HashmapInv, TypeOK
<1>2. pc[t] \in Growing /\ UNCHANGED <<entries, size, op, hit, read, res, nops>>
  BY DEF Grow, GrowList, LinkBucket, AwaitBucket, Growing
<1>3. pos[t][1] \in Buckets
  BY <1>1 DEF Slots
<1>4. CASE pos[t][1] + 1 \in Buckets /\ EnterNextBucket(t, "claim")
           /\ UNCHANGED allocated
  <2>1. UNCHANGED next \/ next' = [next EXCEPT ![pos[t][1]] = TRUE]
    BY DEF Grow, GrowList, LinkBucket, AwaitBucket, chain
  <2> QED BY <1>2, <1>4, <2>1, EnterNextBucketPreserves
<1>5. CASE /\ pc[t] = "grow" /\ UNCHANGED <<pos, next>> 
           /\ allocated' \in [Buckets -> BOOLEAN]
           /\ \E g \in {"link", "waitnext"} : pc' = [pc EXCEPT ![t] = g]
           /\ pos[t][1] + 1 \in Buckets
  <2>1. PICK g \in {"link", "waitnext"} : pc' = [pc EXCEPT ![t] = g]
    BY <1>5
  <2>2. TypeOK'
    BY <1>1, <1>2, <1>5, <2>1 DEF TypeOK, PCs, entries
  <2>3. pc'[t] = g /\ UNCHANGED <<state, key>>
    BY <1>1, <1>2, <2>1 DEF TypeOK, entries
  <2>4. WentPast(t)' /\ Reached(t)' /\ InRange(t)'
    BY <1>1, <1>2, <1>5, <2>3 DEF WentPast, Reached, InRange, AtPresent, 
       Inserting, Growing, Searching, MyKey
  <2>5. OthersStay(t) /\ ChainInBounds'
    BY <1>1, <1>2, <1>5, <2>1 
       DEF HashmapInv, TypeOK, OthersStay, ChainInBounds
  <2> QED BY <2>2, <2>3, <2>4, <2>5, LocalStepPreserves DEF Inserting
<1>6. CASE GrowList(t)
  <2>1. CASE next[pos[t][1]]
    BY <1>4, <1>6, <2>1 DEF GrowList
  <2>2. CASE ~next[pos[t][1]]
    BY <1>1, <1>5, <1>6, <2>2 DEF GrowList, Goto, TypeOK
  <2> QED BY <2>1, <2>2
<1>7. CASE LinkBucket(t)
  BY <1>1, <1>4, <1>7 DEF LinkBucket, InRange
<1>8. CASE AwaitBucket(t)
  BY <1>3, <1>4, <1>8 DEF AwaitBucket, HashmapInv, ChainInBounds, chain
<1> QED BY <1>6, <1>7, <1>8 DEF Grow

-----------------------------------------------------------------------------
LEMMA InitEstablishes == Init => HashmapInv
<1> SUFFICES ASSUME Init PROVE HashmapInv
  OBVIOUS
<1>1. PICK P \in SUBSET Slots : ListInit(P) /\ size = Cardinality(P)
  BY DEF Init
<1>2. PICK f \in [P -> Keys] : 
        /\ \A p, q \in P : f[p] = f[q] => p = q
        /\ key = [s \in Slots |-> IF s \in P THEN f[s] ELSE NoKey]
  BY <1>1 DEF ListInit
<1>3. /\ state = [s \in Slots |-> IF s \in P THEN "USED" ELSE "EMPTY"]
      /\ \A p, q \in Slots : Before(p, q) /\ q \in P => p \in P
      /\ pc = [t \in Threads |-> "idle"] /\ pos = [t \in Threads |-> FirstSlot]
      /\ next = [b \in Buckets |-> \E s \in P : s[1] = b + 1]
      /\ allocated = [b \in Buckets |-> \E s \in P : s[1] = b + 1]
  BY <1>1 DEF ListInit
<1>4. size \in Nat
  <2>1. Slots = Buckets \X (0..(BucketSize - 1)) /\ IsFiniteSet(Buckets) 
        /\ IsFiniteSet(0..(BucketSize - 1))
    BY FS_Interval, BucketSizeAssumption, MaxBucketsAssumption DEF Slots, Buckets
  <2>2. IsFiniteSet(Slots)
    BY <2>1, FS_Product
  <2>3. IsFiniteSet(P)
    BY <2>2, FS_Subset
  <2> QED BY <2>3, <1>1, FS_CardinalityType
<1>5. TypeOK
  <2>1. state \in [Slots -> EntryStates] /\ key \in [Slots -> Keys \cup {NoKey}]
    BY <1>2, <1>3 DEF EntryStates
  <2>2. allocated \in [Buckets -> BOOLEAN] /\ next \in [Buckets -> BOOLEAN]
    BY <1>3
  <2>3. /\ pc \in [Threads -> PCs] /\ pos \in [Threads -> Slots]
        /\ hit \in [Threads -> Slots \cup {NoSlot}]
    BY <1>3, FirstSlotIsFirst DEF Init, PCs
  <2>4. /\ val \in [Slots -> SUBSET Tokens] /\ read \in [Threads -> SUBSET Tokens]
        /\ op \in [Threads -> [kind : AllKinds \cup {EraseKind}, 
                               key : Keys \cup {NoKey}]]
        /\ res \in [Threads -> Outcomes] /\ nops \in [Threads -> 0..MaxOps]
    BY MaxOpsAssumption DEF Init, AllKinds, Outcomes
  <2> QED BY <1>4, <2>1, <2>2, <2>3, <2>4 DEF TypeOK
<1>6. UniqueKeys
  BY <1>2, <1>3 DEF UniqueKeys, Present
<1>7. Packed
  BY <1>3 DEF Packed
<1>8. ChainInBounds
  BY <1>3 DEF ChainInBounds, Slots
<1>9. \A t \in Threads : WentPast(t) /\ Reached(t) /\ InRange(t)
  BY <1>3 DEF WentPast, Reached, InRange, AtPresent, Inserting, Growing, Searching
<1>10. OneInserter
  BY <1>3 DEF OneInserter, Inserting
<1> QED BY <1>5, <1>6, <1>7, <1>8, <1>9, <1>10 DEF HashmapInv

LEMMA NextPreserves == HashmapInv /\ [Next]_vars => HashmapInv' /\ (Monotone \/ UNCHANGED vars)
<1> SUFFICES ASSUME HashmapInv, [Next]_vars 
             PROVE  HashmapInv' /\ (Monotone \/ UNCHANGED vars)
  OBVIOUS
<1>1. CASE UNCHANGED vars
  BY <1>1 DEF vars, entries, chain, local, HashmapInv, TypeOK, UniqueKeys, Packed,
     ChainInBounds, OneInserter, WentPast, Reached, InRange, AtPresent, MyKey
<1>2. ASSUME NEW t \in Threads, CallAny(t) PROVE HashmapInv' /\ Monotone
  BY <1>2, CallPreserves DEF CallAny
<1>3. ASSUME NEW t \in Threads, InsertStep(t) PROVE HashmapInv' /\ Monotone
  BY <1>3, ClaimPreserves, MovePreserves, ComparePreserves, InitEntryPreserves,
     CountEntryPreserves, PublishPreserves, LockPreserves, ValueStepPreserves,
     GrowPreserves DEF InsertStep
<1>4. ASSUME NEW t \in Threads, ScanStep(t) PROVE HashmapInv' /\ Monotone
  BY <1>4, ScanPreserves, HopPreserves, TagPreserves, ValueStepPreserves
     DEF ScanStep
<1>5. ASSUME NEW t \in Threads, Return(t) PROVE HashmapInv' /\ Monotone
  BY <1>5, MovePreserves
<1>6. CASE Next
  BY <1>1, <1>2, <1>3, <1>4, <1>5, <1>6 DEF Next, Step, Terminating
<1> QED BY <1>1, <1>6

(* HashmapInv, which says what each task knows of the list at each point   *)
(* of Insert, Lookup and the applies, is an inductive invariant.           *)
THEOREM HashmapInvariant == Spec => []HashmapInv
<1> QED BY InitEstablishes, NextPreserves, PTL DEF Spec

(* Type correctness.                                                       *)
THEOREM HashmapTypes == Spec => []TypeOK
<1>1. HashmapInv => TypeOK
  BY DEF HashmapInv
<1> QED BY <1>1, HashmapInvariant, PTL

(* No interleaving of any number of Inserts, Lookups and applies creates a *)
(* second entry for a key.                                                 *)
THEOREM KeysAreUnique == Spec => []UniqueKeys
<1>1. HashmapInv => UniqueKeys
  BY DEF HashmapInv
<1> QED BY <1>1, HashmapInvariant, PTL

(* The entries of a list are a prefix of the chain at all times.           *)
THEOREM EntriesArePacked == Spec => []Packed
<1>1. HashmapInv => Packed
  BY DEF HashmapInv
<1> QED BY <1>1, HashmapInvariant, PTL

(* Without Erase, an entry that is in the map stays in it under its key.   *)
THEOREM EntriesNeverMove == Spec => EntriesStay
<1> DEFINE Stays == \A s \in Slots : state[s] \in Present 
                      => state'[s] \in Present /\ key'[s] = key[s]
<1>1. HashmapInv /\ [Next]_vars => [Stays]_vars
  <2> SUFFICES ASSUME HashmapInv, [Next]_vars PROVE Stays \/ UNCHANGED vars
    OBVIOUS
  <2>1. Monotone \/ UNCHANGED vars
    BY NextPreserves
  <2> QED BY <2>1 DEF Monotone
<1> QED BY <1>1, HashmapInvariant, PTL DEF Spec, EntriesStay

-----------------------------------------------------------------------------
(* What the refinement needs besides HashmapInv.                           *)

\* the task owns the entry at pos[t]
Holding(t) == 
  \/ pc[t] \in {"init", "count", "publish", "update", "release"}
  \/ pc[t] \in {"call", "store"} /\ op[t].kind = "TryApply"

InsertPCs == Searching \cup Growing \cup {"lock", "update"}
SeekPCs == {"scan", "probe", "found", "hop", "deref", "tag", "call", "store"}

\* the operation a task performs, by the point it has reached
KnowsKind(t) == 
  /\ op[t].kind \in AllKinds /\ (pc[t] # "idle" => op[t].key \in Keys)
  /\ pc[t] \in InsertPCs => op[t].kind \in InsertKinds
  /\ pc[t] \in SeekPCs => op[t].kind \notin InsertKinds
  /\ pc[t] = "found" => op[t].kind # "TryApply"
  /\ pc[t] = "tag" => op[t].kind = "TryApply"
  /\ pc[t] = "deref" => op[t].kind = "Lookup"
  /\ pc[t] \in {"call", "store"} => op[t].kind # "Lookup"
  /\ pc[t] \in {"scan", "probe", "hop", "tag"} /\ op[t].kind = "TryApply" 
       => hit[t] = NoSlot

\* the entry at which it works or that it has found is the one of its key
KnowsEntry(t) == 
  /\ pc[t] \in {"lock", "update", "release", "found", "tag"} 
       => key[pos[t]] = MyKey(t)
  /\ pc[t] = "found" => state[pos[t]] \in Present
  /\ hit[t] # NoSlot => state[hit[t]] \in Present /\ key[hit[t]] = MyKey(t)
  /\ pc[t] \in {"update", "release"} => state[pos[t]] = "PENDING_UPDATE"
  /\ pc[t] \in {"call", "store"} /\ op[t].kind = "TryApply" 
       => hit[t] = pos[t] /\ state[pos[t]] = "PENDING_UPDATE"
  /\ pc[t] \in {"count", "publish"} => val[pos[t]] = {Tok(t)}

\* a search that has not found its key has gone past entries of other keys,
\* unless it has met the end of the list
NotSeen(t) == 
  hit[t] = NoSlot /\ res[t] # "absent" => 
    /\ pc[t] \in {"scan", "probe", "hop"} 
         => \A p \in Slots : Before(p, pos[t]) 
                              => state[p] \in Present /\ key[p] # MyKey(t)
    /\ pc[t] = "hop" 
         => /\ LastInBucket(pos[t])
            /\ state[pos[t]] \in Present /\ key[pos[t]] # MyKey(t)

\* the buckets in front of an entry are linked
Linked(s) == \A b \in Buckets : b < s[1] => next[b]
ChainLinked == 
  /\ \A t \in Threads : Linked(pos[t])
  /\ \A s \in Slots : state[s] # "EMPTY" => Linked(s)

Knows(t) == KnowsKind(t) /\ KnowsEntry(t) /\ NotSeen(t)
MapInv == 
  /\ HashmapInv /\ OneOwner /\ ChainLinked
  /\ \A t \in Threads : Knows(t)

-----------------------------------------------------------------------------
(* What a step of task t may do to the entries and to the other tasks.     *)
KeepsEntry(t) == 
  state' = state /\ Holding(t)' = Holding(t) /\ (Holding(t) => pos'[t] = pos[t])
TakesEntry(t) == 
  /\ ~Holding(t) /\ Holding(t)' /\ pos'[t] = pos[t]
  /\ state[pos[t]] \in {"EMPTY", "USED"}
  /\ \E st \in {"PENDING_INSERT", "PENDING_UPDATE"} : SetState(pos[t], st)
GivesEntry(t) == 
  Holding(t) /\ ~Holding(t)' /\ SetState(pos[t], "USED")

Frame(t) == 
  /\ KeepsEntry(t) \/ TakesEntry(t) \/ GivesEntry(t)
  /\ \A u \in Threads \ {t} : 
       /\ pc'[u] = pc[u] /\ pos'[u] = pos[u] /\ op'[u] = op[u] /\ hit'[u] = hit[u]
       /\ nops'[u] = nops[u] /\ res'[u] = res[u]
  /\ \A s \in Slots : 
       val'[s] = val[s] \/ state[s] \in Present \/ (Holding(t) /\ s = pos[t])
  /\ \A b \in Buckets : next[b] => next'[b]

\* an owned entry is in a pending state
LEMMA HoldingIsPending == 
  ASSUME MapInv, NEW t \in Threads, Holding(t)
  PROVE  state[pos[t]] \in {"PENDING_INSERT", "PENDING_UPDATE"}
BY DEF MapInv, HashmapInv, Reached, Inserting, Knows, KnowsEntry, Holding

\* Holding is what Holds of OneOwner says
LEMMA HoldsIsHolding == 
  ASSUME MapInv, NEW t \in Threads, NEW s \in Slots
  PROVE  Holds(t, s) <=> Holding(t) /\ s = pos[t]
BY DEF MapInv, Knows, KnowsEntry, Holding, Holds

\* The entries of the other owners are left alone.
LEMMA OwnedStay == 
  ASSUME MapInv, NEW t \in Threads, NEW u \in Threads \ {t}, Frame(t), Holding(u)
  PROVE  /\ state'[pos[u]] = state[pos[u]] 
         /\ TakesEntry(t) \/ GivesEntry(t) => pos[u] # pos[t]
<1>1. TypeOK /\ pos[t] \in Slots /\ pos[u] \in Slots
  BY DEF MapInv, HashmapInv, TypeOK
<1>2. state[pos[u]] \in {"PENDING_INSERT", "PENDING_UPDATE"}
  BY HoldingIsPending
<1>3. Holding(t) => pos[u] # pos[t]
  BY <1>1, HoldsIsHolding DEF MapInv, OneOwner
<1>4. TakesEntry(t) \/ GivesEntry(t) => pos[u] # pos[t]
  BY <1>2, <1>3 DEF TakesEntry, GivesEntry
<1>5. state'[pos[u]] = state[pos[u]]
  BY <1>1, <1>4 DEF Frame, KeepsEntry, TakesEntry, GivesEntry, SetState, TypeOK
<1> QED BY <1>4, <1>5

\* What the other tasks know stays true.
LEMMA OthersKnow == 
  ASSUME MapInv, NEW t \in Threads, NEW u \in Threads \ {t}, Frame(t), Monotone
  PROVE  Knows(u)'
<1>1. /\ pc'[u] = pc[u] /\ pos'[u] = pos[u] /\ op'[u] = op[u] /\ hit'[u] = hit[u]
      /\ nops'[u] = nops[u] /\ res'[u] = res[u]
  BY DEF Frame
<1>2. /\ TypeOK /\ Knows(u) /\ Reached(u)
      /\ pos[u] \in Slots /\ hit[u] \in Slots \cup {NoSlot}
  BY DEF MapInv, HashmapInv, TypeOK
<1>3. KnowsKind(u)'
  BY <1>1, <1>2 DEF Knows, KnowsKind
<1>4. NotSeen(u)'
  BY <1>1, <1>2 DEF Knows, NotSeen, Monotone, MyKey
<1>5. Holding(u) => state'[pos[u]] = state[pos[u]]
  BY OwnedStay
<1>6. ASSUME pc[u] \in {"count", "publish"} PROVE val'[pos[u]] = val[pos[u]]
  <2>1. Holding(u) /\ state[pos[u]] = "PENDING_INSERT"
    BY <1>2, <1>6 DEF Holding, Reached, Inserting
  <2>2. ~(Holding(t) /\ pos[u] = pos[t])
    BY <1>2, <2>1, HoldsIsHolding DEF MapInv, OneOwner
  <2> QED BY <1>2, <2>1, <2>2 DEF Frame, Present
<1>7. KnowsEntry(u)'
  <2>1. key[pos[u]] = MyKey(u) /\ state[pos[u]] \in Present => key'[pos[u]] = MyKey(u)
    BY <1>2 DEF Monotone
  <2>2. pc[u] \in {"lock", "update", "release", "found", "tag"} => state[pos[u]] \in Present
    BY <1>2 DEF Reached, AtPresent, Knows, KnowsEntry
  <2>3. MyKey(u)' = MyKey(u) /\ Tok(u)' = Tok(u)
    BY <1>1 DEF MyKey, Tok
  <2>4. pc[u] \in {"lock", "update", "release", "found", "tag"} 
          => key'[pos[u]] = MyKey(u)
    BY <1>2, <2>1, <2>2 DEF Knows, KnowsEntry
  <2>5. pc[u] = "found" => state'[pos[u]] \in Present
    BY <1>2 DEF Knows, KnowsEntry, Monotone
  <2>6. hit[u] # NoSlot => state'[hit[u]] \in Present /\ key'[hit[u]] = MyKey(u)
    BY <1>2 DEF Knows, KnowsEntry, Monotone
  <2>7. pc[u] \in {"update", "release"} => state'[pos[u]] = "PENDING_UPDATE"
    BY <1>2, <1>5 DEF Knows, KnowsEntry, Holding
  <2>8. pc[u] \in {"call", "store"} /\ op[u].kind = "TryApply" 
          => hit[u] = pos[u] /\ state'[pos[u]] = "PENDING_UPDATE"
    BY <1>2, <1>5 DEF Knows, KnowsEntry, Holding
  <2>9. pc[u] \in {"count", "publish"} => val'[pos[u]] = {Tok(u)}
    BY <1>2, <1>6 DEF Knows, KnowsEntry
  <2> QED BY <1>1, <2>3, <2>4, <2>5, <2>6, <2>7, <2>8, <2>9 DEF KnowsEntry
<1> QED BY <1>3, <1>4, <1>7 DEF Knows

LEMMA OneOwnerKept == 
  ASSUME MapInv, NEW t \in Threads, Frame(t), HashmapInv', 
         \A u \in Threads : Knows(u)'
  PROVE  OneOwner'
<1>1. /\ TypeOK /\ TypeOK'
      /\ \A u \in Threads : pos[u] \in Slots /\ pos'[u] \in Slots
  BY DEF MapInv, HashmapInv, TypeOK
<1>2. \A u \in Threads, s \in Slots : Holds(u, s) <=> Holding(u) /\ s = pos[u]
  BY HoldsIsHolding
<1>3. \A u \in Threads, s \in Slots : Holds(u, s)' <=> Holding(u)' /\ s = pos'[u]
  BY DEF Knows, KnowsEntry, Holding, Holds
<1>4. \A u \in Threads \ {t} : Holding(u)' = Holding(u) /\ pos'[u] = pos[u]
  BY DEF Frame, Holding
<1>5. ASSUME NEW s \in Slots, state'[s] \in {"PENDING_INSERT", "PENDING_UPDATE"}
      PROVE  \E u \in Threads : Holding(u)' /\ s = pos'[u]
  <2>1. CASE KeepsEntry(t)
    <3>1. PICK u \in Threads : Holding(u) /\ s = pos[u]
      BY <1>2, <1>5, <2>1 DEF KeepsEntry, MapInv, OneOwner
    <3> QED BY <1>4, <2>1, <3>1 DEF KeepsEntry
  <2>2. CASE TakesEntry(t) /\ s = pos[t]
    BY <2>2 DEF TakesEntry
  <2>3. CASE (TakesEntry(t) \/ GivesEntry(t)) /\ s # pos[t]
    <3>1. state'[s] = state[s]
      BY <1>1, <2>3 DEF TakesEntry, GivesEntry, SetState, TypeOK
    <3>2. PICK u \in Threads : Holding(u) /\ s = pos[u]
      BY <1>2, <1>5, <3>1 DEF MapInv, OneOwner
    <3> QED BY <1>4, <2>3, <3>2
  <2>4. CASE GivesEntry(t) /\ s = pos[t]
    BY <1>1, <1>5, <2>4 DEF GivesEntry, SetState, TypeOK
  <2> QED BY <2>1, <2>2, <2>3, <2>4 DEF Frame
<1>6. ASSUME NEW u \in Threads, NEW v \in Threads, Holding(u)', Holding(v)', 
             pos'[u] = pos'[v]
      PROVE  u = v
  <2>1. CASE u # t /\ v # t
    BY <1>1, <1>2, <1>4, <1>6, <2>1 DEF MapInv, OneOwner
  <2>2. ASSUME NEW w \in Threads \ {t}, Holding(w)', Holding(t)', pos'[w] = pos'[t]
        PROVE  FALSE
    <3>1. Holding(w) /\ pos'[w] = pos[w]
      BY <1>4, <2>2
    <3>2. CASE KeepsEntry(t)
      BY <1>1, <1>2, <2>2, <3>1, <3>2 DEF KeepsEntry, MapInv, OneOwner
    <3>3. CASE TakesEntry(t)
      BY <2>2, <3>1, <3>3, OwnedStay DEF TakesEntry
    <3> QED BY <2>2, <3>2, <3>3 DEF Frame, GivesEntry
  <2> QED BY <1>6, <2>1, <2>2
<1> QED BY <1>3, <1>5, <1>6 DEF OneOwner

\* A step of t preserves MapInv when it does what Frame allows and t still
\* knows what it should.
LEMMA StepKeepsMapInv == 
  ASSUME MapInv, NEW t \in Threads, HashmapInv', Monotone, Frame(t),
         Knows(t)', Linked(pos[t])'
  PROVE  MapInv'
<1>1. \A u \in Threads : Knows(u)'
  BY OthersKnow
<1>2. OneOwner'
  BY <1>1, OneOwnerKept
<1>3. \A s \in Slots : Linked(s) => Linked(s)'
  BY DEF Frame, Linked
<1>4. TypeOK /\ TypeOK' /\ \A u \in Threads : pos[u] \in Slots
  BY DEF MapInv, HashmapInv, TypeOK
<1>5. ASSUME NEW u \in Threads PROVE Linked(pos[u])'
  <2>1. CASE u # t
    <3>1. pos'[u] = pos[u]
      BY <2>1 DEF Frame
    <3>2. \A b \in Buckets : b < pos[u][1] => next'[b]
      BY DEF MapInv, ChainLinked, Frame, Linked
    <3> QED BY <3>1, <3>2 DEF Linked
  <2> QED BY <2>1
<1>6. ASSUME NEW s \in Slots, state'[s] # "EMPTY" PROVE Linked(s)'
  <2>1. state[s] # "EMPTY" \/ s = pos[t]
    BY <1>4, <1>6, HoldingIsPending 
       DEF Frame, KeepsEntry, TakesEntry, GivesEntry, SetState, TypeOK
  <2> QED BY <1>3, <1>4, <2>1 DEF MapInv, ChainLinked
<1> QED BY <1>1, <1>2, <1>5, <1>6 DEF MapInv, ChainLinked

-----------------------------------------------------------------------------
(* Every step preserves MapInv.                                            *)

LEMMA InvAndMonotone == 
  ASSUME HashmapInv, [Next]_vars
  PROVE  HashmapInv' /\ Monotone
<1>1. CASE UNCHANGED vars
  BY <1>1, NextPreserves DEF vars, entries, Monotone
<1> QED BY <1>1, NextPreserves

\* what the step lemmas below assume of a step of task t
StepOf(t) == MapInv /\ t \in Threads /\ HashmapInv' /\ Monotone

LEMMA StepTypes == 
  ASSUME NEW t, StepOf(t)
  PROVE  /\ TypeOK /\ TypeOK' /\ Knows(t) /\ Reached(t) /\ WentPast(t) /\ InRange(t)
         /\ pos[t] \in Slots /\ Linked(pos[t]) /\ hit[t] \in Slots \cup {NoSlot}
         /\ op[t].key \in Keys \cup {NoKey}
BY DEF StepOf, MapInv, HashmapInv, TypeOK, ChainLinked

\* Going on to the next entry keeps to linked buckets.
LEMMA NextEntryLinked == 
  ASSUME NEW s \in Slots, NEW s2 \in Slots, Linked(s), s2[1] = s[1]
  PROVE  Linked(s2)
BY DEF Linked

LEMMA NoSlotIsOutside == NoSlot \notin Slots
BY DEF NoSlot, Slots, Buckets

LEMMA CallKeepsMapInv == 
  ASSUME NEW t, StepOf(t), NEW kind \in Kinds, NEW k \in Keys, Call(t, kind, k)
  PROVE  MapInv'
<1>1. TypeOK /\ TypeOK' /\ Knows(t) /\ kind \in AllKinds
  BY StepTypes, KindsAssumption
<1>2. /\ pc'[t] = (IF kind \in InsertKinds THEN "claim" ELSE "scan")
      /\ pos'[t] = FirstSlot /\ hit'[t] = NoSlot /\ res'[t] = "none"
      /\ op'[t] = [kind |-> kind, key |-> k] /\ pc[t] = "idle"
  BY <1>1 DEF Call, Goto, TypeOK, StepOf
<1>3. Frame(t)
  <2>1. KeepsEntry(t)
    BY <1>2 DEF KeepsEntry, Holding, Call, entries
  <2> QED BY <1>1, <2>1 DEF Frame, Call, Goto, entries, chain, TypeOK
<1>4. Knows(t)'
  <2>1. KnowsKind(t)'
    BY <1>1, <1>2 DEF KnowsKind, InsertPCs, SeekPCs, InsertKinds, Searching, Growing, Inserting
  <2>2. KnowsEntry(t)'
    BY <1>2 DEF KnowsEntry
  <2>3. NotSeen(t)'
    BY <1>2, FirstSlotIsFirst DEF NotSeen
  <2> QED BY <2>1, <2>2, <2>3 DEF Knows
<1>5. Linked(pos[t])'
  BY <1>2, MaxBucketsAssumption DEF Linked, FirstSlot, Buckets
<1> QED BY <1>3, <1>4, <1>5, StepKeepsMapInv DEF StepOf

LEMMA MoveKeepsMapInv == 
  ASSUME NEW t, StepOf(t), 
         Return(t) \/ ClaimFails(t) \/ AwaitInsert(t) \/ CountEntry(t)
  PROVE  MapInv'
<1>1. TypeOK /\ TypeOK' /\ Knows(t) /\ Linked(pos[t]) /\ t \in Threads
  BY StepTypes DEF StepOf
<1>2. /\ UNCHANGED <<entries, chain, op, pos, hit, read, res, nops>>
      /\ \/ pc[t] = "done" /\ pc' = [pc EXCEPT ![t] = "idle"]
         \/ pc[t] = "claim" /\ pc' = [pc EXCEPT ![t] = "await"]
         \/ pc[t] = "await" /\ pc' = [pc EXCEPT ![t] = "compare"]
         \/ pc[t] = "count" /\ pc' = [pc EXCEPT ![t] = "publish"]
  BY DEF Return, ClaimFails, AwaitInsert, CountEntry, Goto
<1>3. Frame(t)
  <2>1. KeepsEntry(t)
    BY <1>1, <1>2 DEF KeepsEntry, Holding, entries, TypeOK
  <2> QED BY <1>1, <1>2, <2>1 DEF Frame, entries, chain, TypeOK
<1>4. Knows(t)'
  <2>1. KnowsKind(t)'
    BY <1>1, <1>2 DEF Knows, KnowsKind, InsertPCs, SeekPCs, InsertKinds, Searching, 
       Growing, Inserting, TypeOK
  <2>2. KnowsEntry(t)'
    BY <1>1, <1>2 DEF Knows, KnowsEntry, TypeOK, entries, MyKey, Tok
  <2>3. NotSeen(t)'
    BY <1>1, <1>2 DEF Knows, NotSeen, TypeOK
  <2> QED BY <2>1, <2>2, <2>3 DEF Knows
<1>5. Linked(pos[t])'
  BY <1>1, <1>2 DEF Linked, chain
<1> QED BY <1>3, <1>4, <1>5, StepKeepsMapInv DEF StepOf

LEMMA CompareKeepsMapInv == 
  ASSUME NEW t, StepOf(t), Compare(t)
  PROVE  MapInv'
<1>1. TypeOK /\ TypeOK' /\ Knows(t) /\ Linked(pos[t]) /\ t \in Threads
  BY StepTypes DEF StepOf
<1>2. /\ UNCHANGED <<entries, chain, op, hit, read, res, nops>>
      /\ pc[t] = "compare" 
      /\ \/ key[pos[t]] = MyKey(t) /\ pc' = [pc EXCEPT ![t] = "lock"] /\ pos' = pos
         \/ pc' = [pc EXCEPT ![t] = "grow"] /\ pos' = pos
         \/ /\ pc' = [pc EXCEPT ![t] = "claim"]
            /\ pos' = [pos EXCEPT ![t] = <<@[1], @[2] + 1>>]
  BY DEF Compare, NextEntry, Goto
<1>3. Frame(t)
  <2>1. KeepsEntry(t)
    BY <1>1, <1>2 DEF KeepsEntry, Holding, entries, TypeOK
  <2> QED BY <1>1, <1>2, <2>1 DEF Frame, entries, chain, TypeOK
<1>4. Knows(t)'
  <2>1. KnowsKind(t)'
    BY <1>1, <1>2 DEF Knows, KnowsKind, InsertPCs, SeekPCs, InsertKinds, Searching, 
       Growing, Inserting, TypeOK
  <2>2. KnowsEntry(t)'
    BY <1>1, <1>2 DEF Knows, KnowsEntry, TypeOK, entries, MyKey
  <2>3. NotSeen(t)'
    BY <1>1, <1>2 DEF NotSeen, TypeOK
  <2> QED BY <2>1, <2>2, <2>3 DEF Knows
<1>5. Linked(pos[t])'
  BY <1>1, <1>2 DEF Linked, chain, TypeOK
<1> QED BY <1>3, <1>4, <1>5, StepKeepsMapInv DEF StepOf

LEMMA GrowKeepsMapInv == 
  ASSUME NEW t, StepOf(t), Grow(t)
  PROVE  MapInv'
<1>1. TypeOK /\ TypeOK' /\ Knows(t) /\ Linked(pos[t]) /\ t \in Threads
      /\ pos[t] \in Slots /\ InRange(t) /\ ChainInBounds
  BY StepTypes DEF StepOf, MapInv, HashmapInv
<1>2. UNCHANGED <<entries, size, op, hit, read, res, nops>> /\ pc[t] \in Growing
  BY DEF Grow, GrowList, LinkBucket, AwaitBucket, Growing
<1>3. \/ /\ next' = next /\ pos' = pos 
         /\ \E l \in Growing : pc' = [pc EXCEPT ![t] = l]
      \/ /\ next[pos[t][1]] /\ next' = next
         /\ pos' = [pos EXCEPT ![t] = <<@[1] + 1, 0>>] 
         /\ pc' = [pc EXCEPT ![t] = "claim"]
      \/ /\ next' = [next EXCEPT ![pos[t][1]] = TRUE]
         /\ pos' = [pos EXCEPT ![t] = <<@[1] + 1, 0>>] 
         /\ pc' = [pc EXCEPT ![t] = "claim"]
  BY DEF Grow, GrowList, LinkBucket, AwaitBucket, EnterNextBucket, Goto, Growing, chain
<1>4. /\ \A u \in Threads \ {t} : pc'[u] = pc[u] /\ pos'[u] = pos[u]
      /\ \A b \in Buckets : next[b] => next'[b]
      /\ pc'[t] \in Growing \cup {"claim"}
  BY <1>1, <1>3 DEF TypeOK
<1>5. Frame(t)
  <2>1. KeepsEntry(t)
    BY <1>2, <1>4 DEF KeepsEntry, Holding, entries, Growing
  <2> QED BY <1>2, <1>4, <2>1 DEF Frame, entries
<1>6. Knows(t)'
  <2>1. KnowsKind(t)'
    BY <1>1, <1>2, <1>4 DEF Knows, KnowsKind, InsertPCs, SeekPCs, InsertKinds, Searching, 
       Growing, Inserting
  <2>2. KnowsEntry(t)'
    BY <1>1, <1>2, <1>4 DEF Knows, KnowsEntry, entries, MyKey, Growing
  <2>3. NotSeen(t)'
    BY <1>4 DEF NotSeen, Growing
  <2> QED BY <2>1, <2>2, <2>3 DEF Knows
<1>7. Linked(pos[t])'
  <2>1. CASE next' = next /\ pos' = pos
    BY <1>1, <2>1 DEF Linked
  <2>2. CASE next'[pos[t][1]] /\ pos'[t] = <<pos[t][1] + 1, 0>>
    <3>1. PICK b \in Buckets : pos[t][1] = b 
      BY <1>1 DEF Slots
    <3>2. \A c \in Buckets : c < b + 1 => c < b \/ c = b
      BY DEF Buckets
    <3>3. \A c \in Buckets : c < b + 1 => next'[c]
      BY <1>1, <1>4, <2>2, <3>1, <3>2 DEF Linked
    <3> QED BY <2>2, <3>1, <3>3 DEF Linked
  <2>3. pos[t][1] \in Buckets
    BY <1>1 DEF Slots
  <2> QED BY <1>1, <1>3, <2>1, <2>2, <2>3 DEF TypeOK
<1> QED BY <1>5, <1>6, <1>7, StepKeepsMapInv DEF StepOf

LEMMA InitEntryKeepsMapInv == 
  ASSUME NEW t, StepOf(t), InitEntry(t)
  PROVE  MapInv'
<1>1. TypeOK /\ TypeOK' /\ Knows(t) /\ Reached(t) /\ Linked(pos[t]) /\ t \in Threads
      /\ pos[t] \in Slots /\ hit[t] \in Slots \cup {NoSlot} /\ Monotone
  BY StepTypes DEF StepOf
<1>2. /\ pc[t] = "init" /\ pc' = [pc EXCEPT ![t] = "count"] 
      /\ val' = [val EXCEPT ![pos[t]] = {Tok(t)}]
      /\ UNCHANGED <<state, size, chain, op, pos, hit, read, res, nops>>
  BY DEF InitEntry, Goto
<1>3. Frame(t)
  <2>1. KeepsEntry(t) /\ Holding(t)
    BY <1>1, <1>2 DEF KeepsEntry, Holding, TypeOK
  <2> QED BY <1>1, <1>2, <2>1 DEF Frame, chain, TypeOK
<1>4. Knows(t)'
  <2>1. KnowsKind(t)'
    BY <1>1, <1>2 DEF Knows, KnowsKind, InsertPCs, SeekPCs, Searching, Growing, 
       Inserting, TypeOK
  <2>2. KnowsEntry(t)'
    BY <1>1, <1>2 DEF Knows, KnowsEntry, TypeOK, Monotone, MyKey, Tok
  <2>3. NotSeen(t)'
    BY <1>1, <1>2 DEF NotSeen, TypeOK
  <2> QED BY <2>1, <2>2, <2>3 DEF Knows
<1>5. Linked(pos[t])'
  BY <1>1, <1>2 DEF Linked, chain
<1> QED BY <1>3, <1>4, <1>5, StepKeepsMapInv DEF StepOf

\* compare and swap of a state word by an insertion or by a blocking apply
LEMMA TakeKeepsMapInv == 
  ASSUME NEW t, StepOf(t), Claim(t) \/ LockEntry(t) \/ (Tag(t) /\ state[pos[t]] = "USED")
  PROVE  MapInv'
<1>1. TypeOK /\ TypeOK' /\ Knows(t) /\ Linked(pos[t]) /\ t \in Threads
      /\ pos[t] \in Slots /\ hit[t] \in Slots \cup {NoSlot} /\ Monotone
  BY StepTypes DEF StepOf
<1>2. /\ UNCHANGED <<key, val, size, chain, op, pos, read, res, nops>>
      /\ \/ /\ pc[t] = "claim" /\ state[pos[t]] = "EMPTY" /\ hit' = hit
            /\ SetState(pos[t], "PENDING_INSERT") /\ pc' = [pc EXCEPT ![t] = "init"]
         \/ /\ pc[t] = "lock" /\ state[pos[t]] = "USED" /\ hit' = hit
            /\ SetState(pos[t], "PENDING_UPDATE") /\ pc' = [pc EXCEPT ![t] = "update"]
         \/ /\ pc[t] = "tag" /\ state[pos[t]] = "USED" 
            /\ hit' = [hit EXCEPT ![t] = pos[t]]
            /\ SetState(pos[t], "PENDING_UPDATE") /\ pc' = [pc EXCEPT ![t] = "call"]
  BY DEF Claim, LockEntry, Tag, Goto
<1>3. Frame(t)
  <2>1. TakesEntry(t)
    BY <1>1, <1>2 DEF TakesEntry, Holding, TypeOK, Knows, KnowsKind
  <2> QED BY <1>1, <1>2, <2>1 DEF Frame, chain, TypeOK
<1>4. Knows(t)'
  <2>1. KnowsKind(t)'
    BY <1>1, <1>2 DEF Knows, KnowsKind, InsertPCs, SeekPCs, Searching, Growing, 
       Inserting, TypeOK
  <2>2. KnowsEntry(t)'
    BY <1>1, <1>2 DEF Knows, KnowsEntry, TypeOK, Monotone, MyKey, SetState, Present
  <2>3. NotSeen(t)'
    BY <1>1, <1>2 DEF NotSeen, TypeOK
  <2> QED BY <2>1, <2>2, <2>3 DEF Knows
<1>5. Linked(pos[t])'
  BY <1>1, <1>2 DEF Linked, chain
<1> QED BY <1>3, <1>4, <1>5, StepKeepsMapInv DEF StepOf

LEMMA GiveKeepsMapInv == 
  ASSUME NEW t, StepOf(t), Publish(t) \/ Release(t)
  PROVE  MapInv'
<1>1. TypeOK /\ TypeOK' /\ Knows(t) /\ Linked(pos[t]) /\ t \in Threads
      /\ pos[t] \in Slots /\ hit[t] \in Slots \cup {NoSlot} /\ Monotone
  BY StepTypes DEF StepOf
<1>2. /\ UNCHANGED <<key, val, size, chain, op, pos, hit, read, nops>>
      /\ pc[t] \in {"publish", "release"} /\ SetState(pos[t], "USED")
      /\ pc' = [pc EXCEPT ![t] = "done"] /\ \A u \in Threads \ {t} : res'[u] = res[u]
  BY <1>1 DEF Publish, Release, Finish, Goto, TypeOK
<1>3. Frame(t)
  <2>1. GivesEntry(t)
    BY <1>1, <1>2 DEF GivesEntry, Holding, TypeOK
  <2> QED BY <1>1, <1>2, <2>1 DEF Frame, chain, TypeOK
<1>4. Knows(t)'
  <2>1. KnowsKind(t)'
    BY <1>1, <1>2 DEF Knows, KnowsKind, InsertPCs, SeekPCs, Searching, Growing, 
       Inserting, TypeOK
  <2>2. KnowsEntry(t)'
    BY <1>1, <1>2 DEF Knows, KnowsEntry, TypeOK, Monotone, MyKey
  <2>3. NotSeen(t)'
    BY <1>1, <1>2 DEF NotSeen, TypeOK
  <2> QED BY <2>1, <2>2, <2>3 DEF Knows
<1>5. Linked(pos[t])'
  BY <1>1, <1>2 DEF Linked, chain
<1> QED BY <1>3, <1>4, <1>5, StepKeepsMapInv DEF StepOf

LEMMA ValueKeepsMapInv == 
  ASSUME NEW t, StepOf(t), 
         UpdateEntry(t) \/ CallFunction(t) \/ StoreResult(t) \/ Deref(t)
  PROVE  MapInv'
<1>1. TypeOK /\ TypeOK' /\ Knows(t) /\ Linked(pos[t]) /\ t \in Threads
      /\ pos[t] \in Slots /\ hit[t] \in Slots \cup {NoSlot} /\ Monotone
  BY StepTypes DEF StepOf
<1>2. /\ UNCHANGED <<state, key, size, chain, op, pos, hit, nops>>
      /\ \/ /\ pc[t] = "update" /\ pc' = [pc EXCEPT ![t] = "release"] 
            /\ val' = [val EXCEPT ![pos[t]] = {Tok(t)}] \/ val' = val
         \/ pc[t] = "call" /\ pc' = [pc EXCEPT ![t] = "store"] /\ val' = val
         \/ /\ pc[t] = "store" /\ op[t].kind = "Apply" 
            /\ pc' = [pc EXCEPT ![t] = "done"]
            /\ \E v : val' = [val EXCEPT ![hit[t]] = v]
         \/ /\ pc[t] = "store" /\ op[t].kind = "TryApply" 
            /\ pc' = [pc EXCEPT ![t] = "release"]
            /\ \E v : val' = [val EXCEPT ![hit[t]] = v]
         \/ pc[t] = "deref" /\ pc' = [pc EXCEPT ![t] = "done"] /\ val' = val
  BY <1>1 DEF UpdateEntry, CallFunction, StoreResult, Deref, LookupReturns, Goto,
     Knows, KnowsKind, entries, AllKinds, InsertKinds, SeekPCs, EraseKind
<1>3. \A u \in Threads \ {t} : res'[u] = res[u]
  BY <1>1 DEF UpdateEntry, CallFunction, StoreResult, Deref, LookupReturns, TypeOK
<1>4. pc[t] = "update" => state[pos[t]] \in Present
  BY <1>1 DEF Knows, KnowsEntry, Present
<1>5. pc[t] = "store" => hit[t] \in Slots /\ state[hit[t]] \in Present
  BY <1>1, StepTypes, NoSlotIsOutside DEF InRange, Knows, KnowsEntry
<1>6. Frame(t)
  <2>1. KeepsEntry(t)
    BY <1>1, <1>2 DEF KeepsEntry, Holding, TypeOK
  <2>2. \A s \in Slots : val'[s] = val[s] \/ state[s] \in Present
    BY <1>1, <1>2, <1>4, <1>5 DEF TypeOK
  <2> QED BY <1>1, <1>2, <1>3, <2>1, <2>2 DEF Frame, chain, TypeOK
<1>7. Knows(t)'
  <2>1. KnowsKind(t)'
    BY <1>1, <1>2 DEF Knows, KnowsKind, InsertPCs, SeekPCs, Searching, Growing, 
       Inserting, TypeOK
  <2>2. /\ UNCHANGED <<state, key, pos, hit>> /\ op' = op
        /\ pc'[t] \in {"release", "store", "done"} 
        /\ pc'[t] = "release" => 
             key[pos[t]] = MyKey(t) /\ state[pos[t]] = "PENDING_UPDATE"
        /\ pc'[t] = "store" => pc[t] = "call"
    BY <1>1, <1>2, NoSlotIsOutside DEF Knows, KnowsEntry, TypeOK
  <2>3. KnowsEntry(t)'
    BY <1>1, <2>2 DEF Knows, KnowsEntry, MyKey
  <2>4. NotSeen(t)'
    BY <1>1, <1>2 DEF NotSeen, TypeOK
  <2> QED BY <2>1, <2>3, <2>4 DEF Knows
<1>8. Linked(pos[t])'
  BY <1>1, <1>2 DEF Linked, chain
<1> QED BY <1>6, <1>7, <1>8, StepKeepsMapInv DEF StepOf

\* The steps of a search leave the entries alone.
LEMMA SearchFrame == 
  ASSUME NEW t, StepOf(t), UNCHANGED <<entries, chain, op, nops>>,
         ~Holding(t), ~Holding(t)',
         \A u \in Threads \ {t} : 
           pc'[u] = pc[u] /\ pos'[u] = pos[u] /\ hit'[u] = hit[u] /\ res'[u] = res[u]
  PROVE  Frame(t)
BY DEF Frame, KeepsEntry, Holding, entries, chain

LEMMA ScanKeepsMapInv == 
  ASSUME NEW t, StepOf(t), Scan(t)
  PROVE  MapInv'
<1>1. TypeOK /\ Knows(t) /\ Linked(pos[t]) /\ t \in Threads
  BY StepTypes DEF StepOf
<1>2. /\ UNCHANGED <<entries, chain, op, pos, hit, read, nops>> /\ pc[t] = "scan"
      /\ \/ pc' = [pc EXCEPT ![t] = "probe"] /\ res' = res
         \/ /\ pc' = [pc EXCEPT ![t] = "hop"]
            /\ res' = [res EXCEPT ![t] = IF hit[t] = NoSlot THEN "absent" ELSE @]
  BY DEF Scan, Goto
<1>3. /\ pc'[t] \in {"probe", "hop"} 
      /\ pc'[t] = "hop" => hit[t] # NoSlot \/ res'[t] = "absent"
      /\ pc'[t] = "probe" => res'[t] = res[t]
  BY <1>1, <1>2 DEF TypeOK
<1>4. Frame(t)
  <2>1. \A u \in Threads \ {t} : pc'[u] = pc[u] /\ res'[u] = res[u]
    BY <1>1, <1>2 DEF TypeOK
  <2> QED BY <1>2, <1>3, <2>1, SearchFrame DEF Holding
<1>5. Knows(t)'
  <2>1. KnowsKind(t)'
    BY <1>1, <1>2, <1>3 DEF Knows, KnowsKind, InsertPCs, SeekPCs, Searching, Growing, 
       Inserting
  <2>2. KnowsEntry(t)'
    BY <1>1, <1>2, <1>3 DEF Knows, KnowsEntry, entries, MyKey
  <2>3. NotSeen(t)'
    BY <1>1, <1>2, <1>3 DEF Knows, NotSeen, entries, MyKey
  <2> QED BY <2>1, <2>2, <2>3 DEF Knows
<1>6. Linked(pos[t])'
  BY <1>1, <1>2 DEF Linked, chain
<1> QED BY <1>4, <1>5, <1>6, StepKeepsMapInv DEF StepOf

LEMMA ProbeKeepsMapInv == 
  ASSUME NEW t, StepOf(t), Probe(t) \/ Found(t)
  PROVE  MapInv'
<1>1. /\ TypeOK /\ Knows(t) /\ Linked(pos[t]) /\ t \in Threads /\ pos[t] \in Slots 
      /\ pos'[t] \in Slots /\ hit[t] \in Slots \cup {NoSlot}
  BY StepTypes DEF StepOf, TypeOK
<1>2. /\ UNCHANGED <<entries, chain, op, res, nops>> /\ pc[t] \in {"probe", "found"}
      /\ state[pos[t]] \in Present
  BY StepTypes DEF Probe, Found, Reached, AtPresent, Knows, KnowsEntry
<1>3. /\ pc[t] = "found" => hit' = [hit EXCEPT ![t] = pos[t]]
      /\ pc[t] = "probe" => hit' = hit
  BY DEF Probe, Found
<1>4. \/ /\ pc[t] = "probe" /\ key[pos[t]] = MyKey(t) /\ pos' = pos
         /\ pc' = [pc EXCEPT ![t] = IF op[t].kind = "TryApply" THEN "tag" ELSE "found"]
      \/ /\ pc[t] = "found" \/ key[pos[t]] # MyKey(t) 
         /\ LastInBucket(pos[t]) /\ pos' = pos /\ pc' = [pc EXCEPT ![t] = "hop"]
      \/ /\ pc[t] = "found" \/ key[pos[t]] # MyKey(t) 
         /\ ~LastInBucket(pos[t]) /\ pc' = [pc EXCEPT ![t] = "scan"]
         /\ pos' = [pos EXCEPT ![t] = <<@[1], @[2] + 1>>]
  BY DEF Probe, Found, NextEntry, Goto
<1>5. pc'[t] \in {"tag", "found", "hop", "scan"}
  BY <1>1, <1>4 DEF TypeOK
<1>6. Frame(t)
  <2>1. \A u \in Threads \ {t} : pc'[u] = pc[u] /\ pos'[u] = pos[u] /\ hit'[u] = hit[u]
    BY <1>1, <1>3, <1>4, <1>2 DEF TypeOK
  <2> QED BY <1>2, <1>5, <2>1, SearchFrame DEF Holding
<1>7. Knows(t)'
  <2>1. KnowsKind(t)'
    BY <1>1, <1>2, <1>3, <1>4 DEF Knows, KnowsKind, InsertPCs, SeekPCs, Searching, 
       Growing, Inserting, TypeOK
  <2>2. KnowsEntry(t)'
    <3>1. hit'[t] # NoSlot => state[hit'[t]] \in Present /\ key[hit'[t]] = MyKey(t)
      BY <1>1, <1>2, <1>3 DEF Knows, KnowsEntry, TypeOK
    <3>2. pc'[t] \in {"found", "tag"} => pos'[t] = pos[t] /\ key[pos[t]] = MyKey(t)
      BY <1>1, <1>4 DEF TypeOK
    <3> QED BY <1>2, <1>5, <3>1, <3>2 DEF KnowsEntry, entries, MyKey
  <2>3. NotSeen(t)'
    <3> SUFFICES ASSUME hit'[t] = NoSlot, res'[t] # "absent", pc'[t] \in {"scan", "hop"}
                 PROVE  NotSeen(t)'
      BY <1>5 DEF NotSeen
    <3>1. pc[t] = "probe" /\ hit[t] = NoSlot /\ res[t] # "absent"
      BY <1>1, <1>2, <1>3, NoSlotIsOutside DEF TypeOK
    <3>2. key[pos[t]] # MyKey(t) 
          /\ \A p \in Slots : Before(p, pos[t]) => state[p] \in Present /\ key[p] # MyKey(t)
      BY <1>1, <1>4, <3>1 DEF Knows, NotSeen, TypeOK
    <3>3. CASE pc'[t] = "hop"
      <4>1. LastInBucket(pos[t]) /\ pos'[t] = pos[t]
        BY <1>1, <1>4, <3>3 DEF TypeOK
      <4> QED BY <1>2, <3>2, <3>3, <4>1 DEF NotSeen, entries, MyKey
    <3>4. CASE pc'[t] = "scan"
      <4>1. ~LastInBucket(pos[t]) /\ pos'[t] = <<pos[t][1], pos[t][2] + 1>>
        BY <1>1, <1>4, <3>4 DEF TypeOK
      <4>2. \A p \in Slots : Before(p, pos'[t]) => p = pos[t] \/ Before(p, pos[t])
        BY <1>1, <4>1, NextSlot
      <4> QED BY <1>2, <3>2, <3>4, <4>2 DEF NotSeen, entries, MyKey
    <3> QED BY <3>3, <3>4
  <2> QED BY <2>1, <2>2, <2>3 DEF Knows
<1>8. Linked(pos[t])'
  <2>1. pos'[t][1] = pos[t][1]
    BY <1>1, <1>4 DEF TypeOK
  <2> QED BY <1>1, <1>2, <2>1 DEF Linked, chain
<1> QED BY <1>6, <1>7, <1>8, StepKeepsMapInv DEF StepOf

LEMMA HopKeepsMapInv == 
  ASSUME NEW t, StepOf(t), Hop(t)
  PROVE  MapInv'
<1>1. /\ TypeOK /\ Knows(t) /\ Linked(pos[t]) /\ t \in Threads /\ pos[t] \in Slots
      /\ ChainInBounds
  BY StepTypes DEF StepOf, MapInv, HashmapInv
<1>2. /\ UNCHANGED <<entries, chain, op, hit, nops>> /\ pc[t] = "hop"
      /\ \/ /\ hit[t] # NoSlot /\ op[t].kind \in {"Lookup", "Apply"}
            /\ pc' = [pc EXCEPT ![t] = IF op[t].kind = "Apply" THEN "call" ELSE "deref"]
            /\ pos' = pos /\ res' = res
         \/ /\ hit[t] = NoSlot /\ next[pos[t][1]] /\ res' = res
            /\ pos' = [pos EXCEPT ![t] = <<@[1] + 1, 0>>] 
            /\ pc' = [pc EXCEPT ![t] = "scan"]
         \/ /\ pos' = pos /\ pc' = [pc EXCEPT ![t] = "done"]
            /\ res' = [res EXCEPT ![t] = "not_found"]
  BY <1>1 DEF Hop, EnterNextBucket, LookupReturns, Goto, Knows, KnowsKind, AllKinds, 
     InsertKinds, SeekPCs, EraseKind
<1>3. pc'[t] \in {"call", "deref", "scan", "done"}
  BY <1>1, <1>2 DEF TypeOK
<1>4. Frame(t)
  <2>1. \A u \in Threads \ {t} : pc'[u] = pc[u] /\ pos'[u] = pos[u] /\ res'[u] = res[u]
    BY <1>1, <1>2 DEF TypeOK
  <2>2. ~Holding(t)'
    BY <1>1, <1>2 DEF Holding, TypeOK
  <2> QED BY <1>2, <2>1, <2>2, SearchFrame DEF Holding
<1>5. CASE pc'[t] = "scan"
  <2>1. /\ next[pos[t][1]] /\ hit[t] = NoSlot /\ res'[t] = res[t]
        /\ pos'[t] = <<pos[t][1] + 1, 0>> 
    BY <1>1, <1>2, <1>5 DEF TypeOK
  <2>2. pos[t][1] \in Buckets /\ pos[t][1] + 1 \in Buckets
    BY <1>1, <2>1 DEF ChainInBounds, Slots
  <2>3. KnowsKind(t)'
    BY <1>1, <1>2, <1>5 DEF Knows, KnowsKind, InsertPCs, SeekPCs, Searching, Growing, 
       Inserting
  <2>4. KnowsEntry(t)'
    BY <1>2, <1>5, <2>1 DEF KnowsEntry
  <2>5. NotSeen(t)'
    <3>1. LastInBucket(pos[t]) => \A p \in Slots : Before(p, pos'[t]) 
                                    => p = pos[t] \/ Before(p, pos[t])
      BY <1>1, <2>1, <2>2, NextBucket
    <3> QED BY <1>1, <1>2, <1>5, <2>1, <3>1 DEF Knows, NotSeen, entries, MyKey
  <2>6. Linked(pos[t])'
    <3>1. \A b \in Buckets : b < pos[t][1] + 1 => b < pos[t][1] \/ b = pos[t][1]
      BY <2>2 DEF Buckets
    <3> QED BY <1>1, <1>2, <2>1, <3>1 DEF Linked, chain
  <2> QED BY <1>4, <2>3, <2>4, <2>5, <2>6, StepKeepsMapInv DEF StepOf, Knows
<1>6. CASE pc'[t] # "scan"
  <2>1. pos'[t] = pos[t] /\ pc'[t] \in {"call", "deref", "done"}
    BY <1>1, <1>2, <1>3, <1>6 DEF TypeOK
  <2>2. KnowsKind(t)'
    BY <1>1, <1>2, <1>6 DEF Knows, KnowsKind, InsertPCs, SeekPCs, Searching, Growing, 
       Inserting, TypeOK, InsertKinds
  <2>3. KnowsEntry(t)'
    <3>1. op'[t].kind # "TryApply" \/ pc'[t] = "done"
      BY <1>1, <1>2, <1>6 DEF TypeOK
    <3> QED BY <1>1, <1>2, <2>1, <3>1 DEF Knows, KnowsEntry, entries, MyKey
  <2>4. NotSeen(t)'
    BY <2>1 DEF NotSeen
  <2>5. Linked(pos[t])'
    BY <1>1, <1>2, <2>1 DEF Linked, chain
  <2> QED BY <1>4, <2>2, <2>3, <2>4, <2>5, StepKeepsMapInv DEF StepOf, Knows
<1> QED BY <1>5, <1>6

LEMMA RefusedTagKeepsMapInv == 
  ASSUME NEW t, StepOf(t), Tag(t), state[pos[t]] # "USED"
  PROVE  MapInv'
<1>1. TypeOK /\ Knows(t) /\ Linked(pos[t]) /\ t \in Threads
  BY StepTypes DEF StepOf
<1>2. /\ UNCHANGED <<entries, chain, op, pos, hit, nops>> /\ pc[t] = "tag"
      /\ pc' = [pc EXCEPT ![t] = "done"] /\ res' = [res EXCEPT ![t] = "FAILED"]
  BY DEF Tag, Finish, Goto, entries
<1>3. pc'[t] = "done" 
      /\ \A u \in Threads \ {t} : pc'[u] = pc[u] /\ res'[u] = res[u]
  BY <1>1, <1>2 DEF TypeOK
<1>4. Frame(t)
  BY <1>2, <1>3, SearchFrame DEF Holding
<1>5. Knows(t)'
  <2>1. KnowsKind(t)' /\ NotSeen(t)'
    BY <1>1, <1>2, <1>3 DEF Knows, KnowsKind, InsertPCs, SeekPCs, Searching, Growing, 
       Inserting, NotSeen
  <2>2. KnowsEntry(t)'
    BY <1>1, <1>2, <1>3 DEF Knows, KnowsEntry, entries, MyKey
  <2> QED BY <2>1, <2>2 DEF Knows
<1>6. Linked(pos[t])'
  BY <1>1, <1>2 DEF Linked, chain
<1> QED BY <1>4, <1>5, <1>6, StepKeepsMapInv DEF StepOf

LEMMA InitEstablishesMapInv == Init => MapInv
<1> SUFFICES ASSUME Init PROVE MapInv
  OBVIOUS
<1>1. PICK P \in SUBSET Slots : ListInit(P)
  BY DEF Init
<1>2. /\ state = [s \in Slots |-> IF s \in P THEN "USED" ELSE "EMPTY"]
      /\ \A p, q \in Slots : Before(p, q) /\ q \in P => p \in P
      /\ pc = [t \in Threads |-> "idle"] /\ pos = [t \in Threads |-> FirstSlot]
      /\ next = [b \in Buckets |-> \E s \in P : s[1] = b + 1]
  BY <1>1 DEF ListInit
<1>3. OneOwner
  BY <1>2 DEF OneOwner, Holds
<1>4. ASSUME NEW t \in Threads PROVE Knows(t)
  BY <1>2, <1>4 DEF Init, Knows, KnowsKind, KnowsEntry, NotSeen, AllKinds, InsertPCs, 
     SeekPCs, Searching, Growing, Inserting
<1>5. ASSUME NEW t \in Threads PROVE Linked(pos[t])
  BY <1>2, <1>5 DEF Linked, FirstSlot, Buckets
<1>6. ASSUME NEW s \in Slots, state[s] # "EMPTY", NEW b \in Buckets, b < s[1]
      PROVE  next[b]
  <2>1. PICK c \in Buckets, i \in 0..(BucketSize - 1) : s = <<c, i>>
    BY DEF Slots
  <2>2. b \in Int /\ c \in Int /\ b < c /\ c <= MaxBuckets - 1 /\ 0 <= b
    BY <1>6, <2>1, MaxBucketsAssumption DEF Buckets
  <2>3. b + 1 \in Buckets
    BY <2>2, MaxBucketsAssumption DEF Buckets
  <2>4. <<b + 1, 0>> \in Slots
    BY <2>3, BucketSizeAssumption DEF Slots
  <2>5. <<b + 1, 0>> = s \/ Before(<<b + 1, 0>>, s)
    BY <2>1, <2>2 DEF Before
  <2>6. <<b + 1, 0>> \in P
    BY <1>2, <1>6, <2>4, <2>5
  <2>7. \E q \in P : q[1] = b + 1
    BY <2>6
  <2> QED BY <1>2, <2>7
<1> QED BY <1>3, <1>4, <1>5, <1>6, InitEstablishes DEF MapInv, ChainLinked, Linked

LEMMA NextKeepsMapInv == 
  ASSUME MapInv, [Next]_vars
  PROVE  MapInv'
<1>1. CASE UNCHANGED vars
  <2>1. HashmapInv'
    BY <1>1, NextPreserves DEF MapInv
  <2>2. OneOwner'
    BY <1>1 DEF vars, entries, chain, local, MapInv, OneOwner, Holds
  <2>3. ChainLinked'
    BY <1>1 DEF vars, entries, chain, local, MapInv, ChainLinked, Linked
  <2>4. \A t \in Threads : Knows(t)'
    BY <1>1 DEF vars, entries, chain, local, MapInv, Knows, KnowsKind, KnowsEntry, 
       NotSeen, MyKey, Tok
  <2> QED BY <2>1, <2>2, <2>3, <2>4 DEF MapInv
<1>2. \A t \in Threads : StepOf(t)
  BY InvAndMonotone DEF MapInv, StepOf
<1>3. ASSUME NEW t \in Threads, CallAny(t) PROVE MapInv'
  BY <1>2, <1>3, CallKeepsMapInv DEF CallAny
<1>4. ASSUME NEW t \in Threads, InsertStep(t) PROVE MapInv'
  BY <1>2, <1>4, MoveKeepsMapInv, CompareKeepsMapInv, InitEntryKeepsMapInv, 
     TakeKeepsMapInv, GiveKeepsMapInv, ValueKeepsMapInv, GrowKeepsMapInv DEF InsertStep
<1>5. ASSUME NEW t \in Threads, ScanStep(t) PROVE MapInv'
  BY <1>2, <1>5, ScanKeepsMapInv, ProbeKeepsMapInv, HopKeepsMapInv, TakeKeepsMapInv,
     RefusedTagKeepsMapInv, ValueKeepsMapInv DEF ScanStep
<1>6. ASSUME NEW t \in Threads, Return(t) PROVE MapInv'
  BY <1>2, <1>6, MoveKeepsMapInv
<1> QED BY <1>1, <1>3, <1>4, <1>5, <1>6 DEF Next, Step, Terminating

(* MapInv is an inductive invariant: what each task knows of its operation *)
(* and of its key at each point of Insert, Lookup and the applies.         *)
THEOREM MapInvariant == Spec => []MapInv
<1>1. MapInv /\ [Next]_vars => MapInv'
  BY NextKeepsMapInv
<1> QED BY <1>1, InitEstablishesMapInv, PTL DEF Spec

(* The state word is a lock: an entry that is being inserted or updated    *)
(* belongs to exactly one task, which is where the code releases it.       *)
THEOREM EntriesHaveOneOwner == Spec => []OneOwner
<1>1. MapInv => OneOwner
  BY DEF MapInv
<1> QED BY <1>1, MapInvariant, PTL

-----------------------------------------------------------------------------
(* size_ and the entries of the map.                                       *)

PresentSlots == {s \in Slots : state[s] \in Present}
Publishing == {t \in Threads : pc[t] = "publish"}

LEMMA SlotsAreFinite == IsFiniteSet(Slots)
<1>1. IsFiniteSet(Buckets) /\ IsFiniteSet(0..(BucketSize - 1))
  BY FS_Interval, BucketSizeAssumption, MaxBucketsAssumption DEF Buckets
<1> QED BY <1>1, FS_Product DEF Slots

\* However many tasks there are, only finitely many publish an entry, since
\* no two work at the same one.
LEMMA CountedSetsAreFinite == 
  ASSUME HashmapInv
  PROVE  IsFiniteSet(PresentSlots) /\ IsFiniteSet(Publishing)
<1>1. IsFiniteSet(PresentSlots)
  BY SlotsAreFinite, FS_Subset DEF PresentSlots
<1>2. [t \in Publishing |-> pos[t]] \in Injection(Publishing, Slots)
  <2>1. [t \in Publishing |-> pos[t]] \in [Publishing -> Slots]
    BY DEF HashmapInv, TypeOK, Publishing
  <2>2. \A t, u \in Publishing : pos[t] = pos[u] => t = u
    BY DEF HashmapInv, OneInserter, Publishing, Inserting
  <2> QED BY <2>1, <2>2 DEF Injection, IsInjective
<1> QED BY <1>1, <1>2, SlotsAreFinite, FS_Injection

LEMMA InitEstablishesSize == Init => SizeExact
<1> SUFFICES ASSUME Init PROVE SizeExact
  OBVIOUS
<1>1. PICK P \in SUBSET Slots : ListInit(P) /\ size = Cardinality(P)
  BY DEF Init
<1>2. {s \in Slots : state[s] \in Present} = P
  BY <1>1 DEF ListInit, Present
<1>3. {t \in Threads : pc[t] = "publish"} = {}
  BY <1>1 DEF ListInit
<1>4. Cardinality({}) = 0 /\ Cardinality(P) \in Nat
  BY FS_EmptySet, SlotsAreFinite, FS_Subset, FS_CardinalityType
<1> QED BY <1>1, <1>2, <1>3, <1>4 DEF SizeExact

LEMMA StepKeepsSize == 
  ASSUME HashmapInv, SizeExact, [Next]_vars
  PROVE  SizeExact'
<1>1. /\ TypeOK /\ \A t \in Threads : Reached(t) /\ pos[t] \in Slots
      /\ IsFiniteSet(PresentSlots) /\ IsFiniteSet(Publishing)
      /\ Cardinality(PresentSlots) \in Nat /\ Cardinality(Publishing) \in Nat
      /\ size = Cardinality(PresentSlots) + Cardinality(Publishing)
  BY CountedSetsAreFinite, FS_CardinalityType 
     DEF HashmapInv, TypeOK, SizeExact, PresentSlots, Publishing
<1> SUFFICES size' = Cardinality(PresentSlots') + Cardinality(Publishing')
  BY DEF SizeExact, PresentSlots, Publishing
<1>2. ASSUME NEW t \in Threads, CountEntry(t) 
      PROVE  size' = Cardinality(PresentSlots') + Cardinality(Publishing')
  <2>1. PresentSlots' = PresentSlots
    BY <1>2 DEF CountEntry, entries, PresentSlots
  <2>2. Publishing' = Publishing \cup {t} /\ t \notin Publishing
    BY <1>1, <1>2 DEF CountEntry, Goto, Publishing, TypeOK
  <2>3. Cardinality(Publishing') = Cardinality(Publishing) + 1
    BY <1>1, <2>2, FS_AddElement
  <2> QED BY <1>1, <1>2, <2>1, <2>3 DEF CountEntry
<1>3. ASSUME NEW t \in Threads, Publish(t)
      PROVE  size' = Cardinality(PresentSlots') + Cardinality(Publishing')
  <2>1. pos[t] \in Slots /\ pos[t] \notin PresentSlots
    BY <1>1, <1>3 DEF Publish, Reached, Inserting, PresentSlots, Present
  <2>2. PresentSlots' = PresentSlots \cup {pos[t]}
    BY <1>1, <1>3, <2>1 DEF Publish, SetState, PresentSlots, Present, TypeOK
  <2>3. Publishing' = Publishing \ {t} /\ t \in Publishing
    BY <1>1, <1>3 DEF Publish, Finish, Goto, Publishing, TypeOK
  <2>4. Cardinality(PresentSlots') = Cardinality(PresentSlots) + 1
    BY <1>1, <2>1, <2>2, FS_AddElement
  <2>5. Cardinality(Publishing') = Cardinality(Publishing) - 1
    BY <1>1, <2>3, FS_RemoveElement
  <2> QED BY <1>1, <1>3, <2>4, <2>5 DEF Publish
<1>4. ASSUME size' = size, NEW t \in Threads, pc[t] # "publish", pc'[t] # "publish",
             \A u \in Threads \ {t} : pc'[u] = pc[u],
             \A s \in Slots : state[s] \in Present <=> state'[s] \in Present
      PROVE  size' = Cardinality(PresentSlots') + Cardinality(Publishing')
  <2>1. PresentSlots' = PresentSlots /\ Publishing' = Publishing
    BY <1>4 DEF PresentSlots, Publishing
  <2> QED BY <1>1, <1>4, <2>1
<1>5. ASSUME NEW t \in Threads, 
             CallAny(t) \/ ClaimFails(t) \/ AwaitInsert(t) \/ Compare(t) 
             \/ InitEntry(t) \/ UpdateEntry(t) \/ Grow(t) \/ Return(t)
      PROVE  size' = Cardinality(PresentSlots') + Cardinality(Publishing')
  <2>1. size' = size /\ state' = state
    BY <1>5 DEF CallAny, Call, ClaimFails, AwaitInsert, Compare, InitEntry, UpdateEntry,
       Grow, Return, entries
  <2>2. pc[t] # "publish" 
        /\ \E l \in PCs \ {"publish"} : pc' = [pc EXCEPT ![t] = l]
    BY <1>5 DEF CallAny, Call, ClaimFails, AwaitInsert, Compare, InitEntry, UpdateEntry,
       Grow, Return, Goto, NextEntry, GrowList, LinkBucket, AwaitBucket, 
       EnterNextBucket, PCs
  <2> QED BY <1>1, <1>4, <2>1, <2>2 DEF TypeOK
<1>6. ASSUME NEW t \in Threads, 
             Scan(t) \/ Probe(t) \/ Found(t) \/ Hop(t) \/ Deref(t) 
             \/ CallFunction(t) \/ StoreResult(t)
      PROVE  size' = Cardinality(PresentSlots') + Cardinality(Publishing')
  <2>1. size' = size /\ state' = state
    BY <1>6 DEF Scan, Probe, Found, Hop, Deref, CallFunction, StoreResult, entries
  <2>2. pc[t] # "publish" 
        /\ \E l \in PCs \ {"publish"} : pc' = [pc EXCEPT ![t] = l]
    BY <1>6 DEF Scan, Probe, Found, Hop, Deref, CallFunction, StoreResult, Goto, 
       NextEntry, EnterNextBucket, LookupReturns, PCs
  <2> QED BY <1>1, <1>4, <2>1, <2>2 DEF TypeOK
<1>7. ASSUME NEW t \in Threads, Claim(t) \/ LockEntry(t) \/ Release(t) \/ Tag(t)
      PROVE  size' = Cardinality(PresentSlots') + Cardinality(Publishing')
  <2>1. size' = size /\ pc[t] # "publish" 
        /\ \E l \in PCs \ {"publish"} : pc' = [pc EXCEPT ![t] = l]
    BY <1>7 DEF Claim, LockEntry, Release, Tag, Finish, Goto, PCs
  <2>2. \A s \in Slots : state[s] \in Present <=> state'[s] \in Present
    <3>1. pc[t] = "release" => state[pos[t]] \in Present
      BY <1>1 DEF Reached, AtPresent
    <3> QED BY <1>1, <1>7, <3>1 DEF Claim, LockEntry, Release, Tag, SetState, Present, TypeOK
  <2> QED BY <1>1, <1>4, <2>1, <2>2 DEF TypeOK
<1>8. CASE UNCHANGED vars
  <2>1. PresentSlots' = PresentSlots /\ Publishing' = Publishing /\ size' = size
    BY <1>8 DEF vars, entries, local, PresentSlots, Publishing
  <2> QED BY <1>1, <2>1
<1> QED BY <1>2, <1>3, <1>5, <1>6, <1>7, <1>8 
        DEF Next, Step, InsertStep, ScanStep, Terminating

(* Size() is exact but for the insertions between their increment of size_ *)
(* and the store that publishes their entry, for any number of tasks.      *)
THEOREM SizeIsExact == Spec => []SizeExact
<1>1. HashmapInv /\ SizeExact /\ [Next]_vars => SizeExact'
  BY StepKeepsSize
<1> QED BY <1>1, InitEstablishesSize, HashmapInvariant, PTL DEF Spec

-----------------------------------------------------------------------------
(* The list implements the map of ConcurrentMap.                           *)

Mapped(k) == \E s \in Slots : state[s] \in Present /\ key[s] = k

\* The value of a key is the one of its entry, in this state ...
LEMMA MapOfPresent == 
  ASSUME HashmapInv, NEW k \in Keys
  PROVE  /\ \A s \in Slots : state[s] \in Present /\ key[s] = k => mapOf[k] = val[s]
         /\ Mapped(k) <=> mapOf[k] # Absent
<1>1. ASSUME NEW s \in Slots, state[s] \in Present, key[s] = k PROVE mapOf[k] = val[s]
  <2>1. s = CHOOSE q \in Slots : state[q] \in Present /\ key[q] = k
    BY <1>1 DEF HashmapInv, UniqueKeys
  <2> QED BY <1>1, <2>1 DEF mapOf
<1>2. ~Mapped(k) => mapOf[k] = Absent
  BY DEF mapOf, Mapped
<1>3. \A s \in Slots : val[s] # Absent
  BY AbsentAssumption DEF HashmapInv, TypeOK
<1> QED BY <1>1, <1>2, <1>3 DEF Mapped

\* ... and in the next one.
LEMMA NextMapOfPresent == 
  ASSUME HashmapInv', NEW k \in Keys
  PROVE  /\ \A s \in Slots : state'[s] \in Present /\ key'[s] = k => mapOf'[k] = val'[s]
         /\ ~Mapped(k)' => mapOf'[k] = Absent
<1>1. ASSUME NEW s \in Slots, state'[s] \in Present, key'[s] = k PROVE mapOf'[k] = val'[s]
  <2>1. s = CHOOSE q \in Slots : state'[q] \in Present /\ key'[q] = k
    BY <1>1 DEF HashmapInv, UniqueKeys
  <2> QED BY <1>1, <2>1 DEF mapOf
<1>2. ~Mapped(k)' => mapOf'[k] = Absent
  BY DEF mapOf, Mapped
<1> QED BY <1>1, <1>2

\* A step that neither adds an entry nor writes the value of one leaves the
\* map alone.
LEMMA MapOfKept == 
  ASSUME HashmapInv, HashmapInv', Monotone,
         \A s \in Slots : state'[s] \in Present => state[s] \in Present,
         \A s \in Slots : state[s] \in Present => val'[s] = val[s]
  PROVE  mapOf' = mapOf
<1>1. ASSUME NEW k \in Keys PROVE mapOf'[k] = mapOf[k]
  <2>1. CASE Mapped(k)
    <3>1. PICK s \in Slots : state[s] \in Present /\ key[s] = k
      BY <2>1 DEF Mapped
    <3>2. state'[s] \in Present /\ key'[s] = k /\ val'[s] = val[s]
      BY <3>1 DEF Monotone
    <3> QED BY <3>1, <3>2, MapOfPresent, NextMapOfPresent
  <2>2. CASE ~Mapped(k)
    <3>1. ~Mapped(k)'
      BY <2>2 DEF Mapped, Monotone
    <3> QED BY <2>2, <3>1, MapOfPresent, NextMapOfPresent
  <2> QED BY <2>1, <2>2
<1>2. mapOf = [k \in Keys |-> mapOf[k]] /\ mapOf' = [k \in Keys |-> mapOf'[k]]
  BY DEF mapOf
<1> QED BY <1>1, <1>2

\* A step that adds or writes the entry of one key writes that key only.
LEMMA MapOfWritten == 
  ASSUME HashmapInv, HashmapInv', Monotone, NEW k \in Keys, NEW e \in Slots,
         state'[e] \in Present, key'[e] = k,
         \A s \in Slots \ {e} : 
           /\ state'[s] \in Present => state[s] \in Present 
           /\ state[s] \in Present => val'[s] = val[s]
  PROVE  mapOf' = [mapOf EXCEPT ![k] = val'[e]]
<1>1. mapOf'[k] = val'[e]
  BY NextMapOfPresent
<1>2. ASSUME NEW j \in Keys \ {k} PROVE mapOf'[j] = mapOf[j]
  <2>1. CASE Mapped(j)
    <3>1. PICK s \in Slots : state[s] \in Present /\ key[s] = j
      BY <2>1 DEF Mapped
    <3>2. state'[s] \in Present /\ key'[s] = j /\ s # e
      BY <3>1 DEF Monotone
    <3>3. val'[s] = val[s]
      BY <3>1, <3>2
    <3> QED BY <3>1, <3>2, <3>3, MapOfPresent, NextMapOfPresent
  <2>2. CASE ~Mapped(j)
    <3>1. ASSUME NEW s \in Slots, state'[s] \in Present, key'[s] = j PROVE FALSE
      <4>1. s # e /\ state[s] \in Present
        BY <3>1
      <4> QED BY <2>2, <3>1, <4>1 DEF Mapped, Monotone
    <3> QED BY <2>2, <3>1, MapOfPresent, NextMapOfPresent DEF Mapped
  <2> QED BY <2>1, <2>2
<1>3. /\ mapOf = [j \in Keys |-> mapOf[j]] /\ mapOf' = [j \in Keys |-> mapOf'[j]]
  BY DEF mapOf
<1> QED BY <1>1, <1>2, <1>3

\* An insertion or a search that has come to the end of the entries knows
\* that its key is not in the map.
LEMMA EndOfEntries == 
  ASSUME HashmapInv, NEW s \in Slots, NEW k, state[s] \notin Present,
         \A p \in Slots : Before(p, s) => key[p] # k
  PROVE  ~Mapped(k)
<1>1. state[s] \in {"EMPTY", "PENDING_INSERT"}
  BY DEF HashmapInv, TypeOK, EntryStates, Present
<1>2. \A p \in Slots : Before(s, p) => state[p] = "EMPTY"
  BY <1>1 DEF HashmapInv, Packed
<1> QED BY <1>2, BeforeIsOrder DEF Mapped, Present

\* every step is one of the map's, or changes nothing that it shows
Simulates == Abstract!Next \/ UNCHANGED Abstract!vars

OthersSame(t) == 
  \A u \in Threads \ {t} : 
    pc'[u] = pc[u] /\ op'[u] = op[u] /\ read'[u] = read[u] /\ res'[u] = res[u] 
    /\ nops'[u] = nops[u]

LEMMA OthersMapped == 
  ASSUME NEW t \in Threads, TypeOK, TypeOK', OthersSame(t)
  PROVE  /\ phaseOf' = [phaseOf EXCEPT ![t] = phaseOf'[t]]
         /\ gotOf' = [gotOf EXCEPT ![t] = gotOf'[t]]
         /\ outOf' = [outOf EXCEPT ![t] = outOf'[t]]
         /\ op' = [op EXCEPT ![t] = op'[t]] /\ nops' = [nops EXCEPT ![t] = nops'[t]]
<1>1. phaseOf' = [phaseOf EXCEPT ![t] = phaseOf'[t]]
  BY DEF phaseOf, OthersSame
<1>2. gotOf' = [gotOf EXCEPT ![t] = gotOf'[t]]
  BY DEF gotOf, OthersSame
<1>3. outOf' = [outOf EXCEPT ![t] = outOf'[t]]
  BY DEF outOf, OthersSame
<1>4. op' = [op EXCEPT ![t] = op'[t]] /\ nops' = [nops EXCEPT ![t] = nops'[t]]
  BY DEF OthersSame, TypeOK
<1> QED BY <1>1, <1>2, <1>3, <1>4

\* what the map shows of a task
LEMMA ShownOf == 
  ASSUME NEW t \in Threads
  PROVE  /\ phaseOf[t] = IF pc[t] = "idle" THEN "idle" 
                         ELSE IF pc[t] \in {"done", "release"} THEN "finished"
                         ELSE "running"
         /\ gotOf[t] = IF op[t].kind = "Lookup" \/ pc[t] = "store" THEN read[t] ELSE {}
         /\ outOf[t] = IF pc[t] = "store" THEN "read" ELSE res[t]
BY DEF phaseOf, gotOf, outOf

LEMMA NextShownOf == 
  ASSUME NEW t \in Threads
  PROVE  /\ phaseOf'[t] = IF pc'[t] = "idle" THEN "idle" 
                          ELSE IF pc'[t] \in {"done", "release"} THEN "finished"
                          ELSE "running"
         /\ gotOf'[t] = IF op'[t].kind = "Lookup" \/ pc'[t] = "store" THEN read'[t] ELSE {}
         /\ outOf'[t] = IF pc'[t] = "store" THEN "read" ELSE res'[t]
BY DEF phaseOf, gotOf, outOf

\* A step that the map does not show.
LEMMA HiddenStep == 
  ASSUME NEW t, StepOf(t), OthersSame(t), mapOf' = mapOf, 
         UNCHANGED <<op, read, nops>>, res'[t] = res[t],
         \/ pc[t] \notin {"idle", "done", "release", "store"} 
            /\ pc'[t] \notin {"idle", "done", "release", "store"}
         \/ pc[t] = "release" /\ pc'[t] = "done"
  PROVE  Simulates
<1>1. t \in Threads /\ TypeOK /\ TypeOK'
  BY StepTypes DEF StepOf
<1>2. phaseOf'[t] = phaseOf[t] /\ gotOf'[t] = gotOf[t] /\ outOf'[t] = outOf[t]
  BY <1>1, ShownOf, NextShownOf
<1>3. phaseOf' = phaseOf /\ gotOf' = gotOf /\ outOf' = outOf
  <2>1. /\ phaseOf = [phaseOf EXCEPT ![t] = phaseOf[t]] 
        /\ gotOf = [gotOf EXCEPT ![t] = gotOf[t]] 
        /\ outOf = [outOf EXCEPT ![t] = outOf[t]]
    BY DEF phaseOf, gotOf, outOf
  <2> QED BY <1>1, <1>2, <2>1, OthersMapped
<1> QED BY <1>3 DEF Simulates, Abstract!vars

LEMMA MapOfSame == 
  ASSUME NEW t, StepOf(t), state' = state, val' = val
  PROVE  mapOf' = mapOf
BY MapOfKept DEF StepOf, MapInv

LEMMA HiddenMoves == 
  ASSUME NEW t, StepOf(t), 
         \/ ClaimFails(t) \/ AwaitInsert(t) \/ Compare(t) \/ CountEntry(t) \/ Grow(t) 
         \/ Probe(t) \/ Found(t)
  PROVE  Simulates
<1>1. t \in Threads /\ TypeOK /\ UNCHANGED <<state, key, val, op, read, res, nops>>
  BY StepTypes DEF StepOf, ClaimFails, AwaitInsert, Compare, CountEntry, Grow, Probe, 
     Found, entries
<1>2. pc[t] \notin {"idle", "done", "release", "store"}
      /\ \E l \in {"await", "compare", "lock", "claim", "grow", "publish", "link", 
                  "waitnext", "tag", "found", "scan", "hop"} :
           pc' = [pc EXCEPT ![t] = l]
  BY DEF ClaimFails, AwaitInsert, Compare, CountEntry, Grow, Probe, Found, NextEntry,
     GrowList, LinkBucket, AwaitBucket, EnterNextBucket, Goto
<1>3. OthersSame(t) /\ pc'[t] \notin {"idle", "done", "release", "store"}
  BY <1>1, <1>2 DEF OthersSame, TypeOK
<1> QED BY <1>1, <1>2, <1>3, MapOfSame, HiddenStep

LEMMA HiddenEntrySteps == 
  ASSUME NEW t, StepOf(t), 
         \/ Claim(t) \/ InitEntry(t) \/ LockEntry(t) \/ Release(t) 
         \/ Tag(t) /\ state[pos[t]] = "USED"
  PROVE  Simulates
<1>1. t \in Threads /\ TypeOK /\ UNCHANGED <<op, read, res, nops>> /\ Reached(t)
      /\ pos[t] \in Slots
  BY StepTypes DEF StepOf, Claim, InitEntry, LockEntry, Release, Tag
<1>2. \/ /\ pc[t] \notin {"idle", "done", "release", "store"}
         /\ \E l \in {"init", "count", "update", "call"} : pc' = [pc EXCEPT ![t] = l]
      \/ pc[t] = "release" /\ pc' = [pc EXCEPT ![t] = "done"]
  BY DEF Claim, InitEntry, LockEntry, Release, Tag, Goto
<1>3. mapOf' = mapOf
  <2>1. \A s \in Slots : state'[s] \in Present => state[s] \in Present
    <3>1. pc[t] = "release" => state[pos[t]] \in Present
      BY <1>1 DEF Reached, AtPresent
    <3> QED BY <1>1, <3>1 DEF Claim, InitEntry, LockEntry, Release, Tag, SetState, 
            Present, TypeOK
  <2>2. \A s \in Slots : state[s] \in Present => val'[s] = val[s]
    BY <1>1 DEF Claim, InitEntry, LockEntry, Release, Tag, Reached, Inserting, Present,
       TypeOK
  <2> QED BY <2>1, <2>2, MapOfKept DEF StepOf, MapInv
<1>4. OthersSame(t)
  BY <1>1, <1>2 DEF OthersSame, TypeOK
<1> QED BY <1>1, <1>2, <1>3, <1>4, HiddenStep DEF TypeOK

LEMMA CallSimulates == 
  ASSUME NEW t, StepOf(t), NEW kind \in Kinds, NEW k \in Keys, Call(t, kind, k)
  PROVE  Simulates
<1>1. t \in Threads /\ TypeOK /\ TypeOK' /\ mapOf' = mapOf
  BY StepTypes, MapOfSame DEF StepOf, Call, entries
<1>2. /\ pc[t] = "idle" /\ nops[t] < MaxOps /\ pc'[t] \in {"claim", "scan"}
      /\ op'[t] = [kind |-> kind, key |-> k] /\ nops'[t] = nops[t] + 1
      /\ res'[t] = "none" /\ read'[t] = {}
  BY <1>1 DEF Call, Goto, TypeOK
<1>3. OthersSame(t)
  BY <1>1 DEF Call, Goto, OthersSame, TypeOK
<1>4. Abstract!Call(t)
  BY <1>1, <1>2, <1>3, ShownOf, NextShownOf, OthersMapped DEF Abstract!Call
<1> QED BY <1>1, <1>4 DEF Simulates, Abstract!Next

LEMMA ReturnSimulates == 
  ASSUME NEW t, StepOf(t), Return(t)
  PROVE  Simulates
<1>1. t \in Threads /\ TypeOK /\ TypeOK' /\ mapOf' = mapOf
  BY StepTypes, MapOfSame DEF StepOf, Return, entries
<1>2. /\ pc[t] = "done" /\ pc'[t] = "idle" /\ UNCHANGED <<op, read, res, nops>>
  BY <1>1 DEF Return, Goto, TypeOK
<1>3. OthersSame(t)
  BY <1>1 DEF Return, Goto, OthersSame, TypeOK
<1>4. /\ phaseOf[t] = "finished" /\ phaseOf'[t] = "idle" 
      /\ gotOf'[t] = gotOf[t] /\ outOf'[t] = outOf[t]
  BY <1>1, <1>2, ShownOf, NextShownOf
<1>5. gotOf' = gotOf /\ outOf' = outOf
  <2>1. /\ gotOf = [gotOf EXCEPT ![t] = gotOf[t]] 
        /\ outOf = [outOf EXCEPT ![t] = outOf[t]]
    BY DEF gotOf, outOf
  <2> QED BY <1>1, <1>3, <1>4, <2>1, OthersMapped
<1>6. Abstract!Return(t)
  BY <1>1, <1>2, <1>3, <1>4, <1>5, OthersMapped DEF Abstract!Return
<1> QED BY <1>1, <1>6 DEF Simulates, Abstract!Next

\* A blocking apply that has read a value owns the entry of its key.
LEMMA ReservedIsHeld == 
  ASSUME MapInv, NEW t \in Threads, Abstract!Reserved(t)
  PROVE  \E u \in Threads \ {t} : 
           Holding(u) /\ pos[u] \in Slots /\ state[pos[u]] \in Present 
           /\ key[pos[u]] = MyKey(t)
<1>1. PICK u \in Threads \ {t} : 
        op[u].kind = "TryApply" /\ op[u].key = op[t].key /\ outOf[u] = "read"
  BY DEF Abstract!Reserved, Abstract!Running
<1>2. /\ TypeOK /\ Knows(u) /\ InRange(u) /\ res[u] \in Outcomes /\ pos[u] \in Slots
  BY DEF MapInv, HashmapInv, TypeOK
<1>3. pc[u] = "store"
  BY <1>1, <1>2, ShownOf DEF Outcomes
<1>4. hit[u] = pos[u] /\ state[pos[u]] = "PENDING_UPDATE" /\ key[pos[u]] = MyKey(u)
  BY <1>1, <1>2, <1>3, NoSlotIsOutside DEF Knows, KnowsEntry
<1> QED BY <1>1, <1>2, <1>3, <1>4 DEF Holding, Present, MyKey

\* The owner of the entry of its key meets no such apply.
LEMMA OwnerIsFree == 
  ASSUME MapInv, NEW t \in Threads, Holding(t), 
         state[pos[t]] \in Present, key[pos[t]] = MyKey(t)
  PROVE  ~Abstract!Reserved(t)
<1> SUFFICES ASSUME Abstract!Reserved(t) PROVE FALSE
  OBVIOUS
<1>1. PICK u \in Threads \ {t} : 
        Holding(u) /\ pos[u] \in Slots /\ state[pos[u]] \in Present 
        /\ key[pos[u]] = MyKey(t)
  BY ReservedIsHeld
<1>2. pos[t] \in Slots
  BY DEF MapInv, HashmapInv, TypeOK
<1>3. pos[u] = pos[t]
  BY <1>1, <1>2 DEF MapInv, HashmapInv, UniqueKeys
<1> QED BY <1>1, <1>2, <1>3, HoldsIsHolding DEF MapInv, OneOwner

LEMMA PublishSimulates == 
  ASSUME NEW t, StepOf(t), Publish(t)
  PROVE  Simulates
<1>1. /\ t \in Threads /\ TypeOK /\ TypeOK' /\ pos[t] \in Slots /\ MapInv
      /\ Knows(t) /\ WentPast(t) /\ Reached(t) /\ Monotone
  BY StepTypes DEF StepOf
<1>2. /\ pc[t] = "publish" /\ pc'[t] = "done" /\ res'[t] = "true" 
      /\ UNCHANGED <<key, val, op, read, nops>>
      /\ state' = [state EXCEPT ![pos[t]] = "USED"]
  BY <1>1 DEF Publish, Goto, Finish, SetState, TypeOK
<1>3. OthersSame(t)
  BY <1>1 DEF Publish, Finish, Goto, OthersSame, TypeOK
<1>4. /\ MyKey(t) \in Keys /\ op[t].kind \in InsertKinds /\ key[pos[t]] = MyKey(t)
      /\ val[pos[t]] = {Tok(t)} /\ state[pos[t]] = "PENDING_INSERT"
      /\ \A p \in Slots : Before(p, pos[t]) => key[p] # MyKey(t)
  BY <1>1, <1>2 DEF Knows, KnowsKind, KnowsEntry, InsertPCs, Searching, Inserting, 
     Reached, WentPast, MyKey
<1>5. ~Mapped(MyKey(t))
  BY <1>1, <1>4, EndOfEntries DEF MapInv, Present
<1>6. mapOf' = [mapOf EXCEPT ![MyKey(t)] = {Tok(t)}]
  <2>1. state'[pos[t]] \in Present /\ key'[pos[t]] = MyKey(t)
    BY <1>1, <1>2, <1>4 DEF Present, TypeOK
  <2>2. \A s \in Slots \ {pos[t]} : state'[s] = state[s]
    BY <1>1, <1>2 DEF TypeOK
  <2> QED BY <1>1, <1>2, <1>4, <2>1, <2>2, MapOfWritten DEF MapInv, StepOf
<1>7. mapOf[MyKey(t)] = Absent
  BY <1>1, <1>4, <1>5, MapOfPresent DEF MapInv
<1>8. ~Abstract!Reserved(t)
  BY <1>1, <1>5, ReservedIsHeld DEF Mapped
<1>9. /\ phaseOf[t] = "running" /\ phaseOf'[t] = "finished" 
      /\ outOf'[t] = "true" /\ gotOf'[t] = gotOf[t]
  BY <1>1, <1>2, <1>4, ShownOf, NextShownOf DEF InsertKinds
<1>10. gotOf' = gotOf
  <2>1. gotOf = [gotOf EXCEPT ![t] = gotOf[t]] 
    BY DEF gotOf
  <2> QED BY <1>1, <1>3, <1>9, <2>1, OthersMapped
<1>11. Abstract!Store(t)
  BY <1>1, <1>2, <1>3, <1>4, <1>6, <1>7, <1>8, <1>9, <1>10, OthersMapped 
     DEF Abstract!Store, Abstract!Put, Abstract!Finish, Abstract!Running, Abstract!In,
         Abstract!Token, MyKey, Tok, InsertKinds
<1> QED BY <1>1, <1>11 DEF Simulates, Abstract!Next

LEMMA UpdateSimulates == 
  ASSUME NEW t, StepOf(t), UpdateEntry(t)
  PROVE  Simulates
<1>1. /\ t \in Threads /\ TypeOK /\ TypeOK' /\ pos[t] \in Slots /\ MapInv
      /\ Knows(t) /\ Monotone
  BY StepTypes DEF StepOf
<1>2. /\ pc[t] = "update" /\ pc'[t] = "release" /\ UNCHANGED <<state, key, op, read, nops>>
      /\ op[t].kind = "Overwrite" 
           => val' = [val EXCEPT ![pos[t]] = {Tok(t)}] /\ res'[t] = "true"
      /\ op[t].kind # "Overwrite" => val' = val /\ res'[t] = "false"
  BY <1>1 DEF UpdateEntry, Goto, TypeOK
<1>3. OthersSame(t)
  BY <1>1 DEF UpdateEntry, Goto, OthersSame, TypeOK
<1>4. /\ MyKey(t) \in Keys /\ op[t].kind \in InsertKinds /\ key[pos[t]] = MyKey(t)
      /\ state[pos[t]] \in Present
  BY <1>1, <1>2 DEF Knows, KnowsKind, KnowsEntry, InsertPCs, MyKey, Present
<1>5. mapOf[MyKey(t)] # Absent
  BY <1>1, <1>4, MapOfPresent DEF MapInv, Mapped
<1>6. ~Abstract!Reserved(t)
  BY <1>1, <1>2, <1>4, OwnerIsFree DEF Holding
<1>7. /\ phaseOf[t] = "running" /\ phaseOf'[t] = "finished" 
      /\ outOf'[t] = res'[t] /\ gotOf'[t] = gotOf[t]
  BY <1>1, <1>2, <1>4, ShownOf, NextShownOf DEF InsertKinds
<1>8. gotOf' = gotOf
  <2>1. gotOf = [gotOf EXCEPT ![t] = gotOf[t]] 
    BY DEF gotOf
  <2> QED BY <1>1, <1>3, <1>7, <2>1, OthersMapped
<1>9. CASE op[t].kind = "Overwrite"
  <2>1. mapOf' = [mapOf EXCEPT ![MyKey(t)] = {Tok(t)}]
    <3>1. val'[pos[t]] = {Tok(t)} /\ \A s \in Slots \ {pos[t]} : val'[s] = val[s]
      BY <1>1, <1>2, <1>9 DEF TypeOK
    <3> QED BY <1>1, <1>2, <1>4, <3>1, MapOfWritten DEF MapInv, StepOf
  <2>2. Abstract!Store(t)
    BY <1>1, <1>2, <1>3, <1>6, <1>7, <1>8, <1>9, <2>1, OthersMapped 
       DEF Abstract!Store, Abstract!Put, Abstract!Finish, Abstract!Running, 
           Abstract!Token, MyKey, Tok
  <2> QED BY <1>1, <2>2 DEF Simulates, Abstract!Next
<1>10. CASE op[t].kind = "Update"
  <2>1. mapOf' = mapOf
    BY <1>2, <1>10, MapOfSame
  <2>2. Abstract!Keep(t)
    BY <1>1, <1>2, <1>3, <1>5, <1>7, <1>8, <1>10, <2>1, OthersMapped 
       DEF Abstract!Keep, Abstract!Finish, Abstract!Running, Abstract!In, MyKey
  <2> QED BY <1>1, <2>2 DEF Simulates, Abstract!Next
<1> QED BY <1>4, <1>9, <1>10 DEF InsertKinds

LEMMA ScanSimulates == 
  ASSUME NEW t, StepOf(t), Scan(t)
  PROVE  Simulates
<1>1. /\ t \in Threads /\ TypeOK /\ TypeOK' /\ pos[t] \in Slots /\ MapInv
      /\ Knows(t) /\ mapOf' = mapOf
  BY StepTypes, MapOfSame DEF StepOf, Scan, entries
<1>2. /\ pc[t] = "scan" /\ pc'[t] \in {"probe", "hop"} /\ UNCHANGED <<op, read, nops>>
      /\ OthersSame(t)
  BY <1>1 DEF Scan, Goto, OthersSame, TypeOK
<1>3. CASE res'[t] = res[t]
  BY <1>1, <1>2, <1>3, HiddenStep
<1>4. CASE res'[t] # res[t]
  <2>1. /\ state[pos[t]] \notin Present /\ hit[t] = NoSlot /\ res'[t] = "absent"
        /\ res[t] # "absent"
    BY <1>1, <1>4 DEF Scan, TypeOK
  <2>2. /\ MyKey(t) \in Keys /\ op[t].kind \in {"Lookup", "Apply", "TryApply"}
        /\ \A p \in Slots : Before(p, pos[t]) => key[p] # MyKey(t)
    BY <1>1, <1>2, <2>1 DEF Knows, KnowsKind, NotSeen, AllKinds, InsertKinds, SeekPCs, MyKey
  <2>3. mapOf[MyKey(t)] = Absent
    BY <1>1, <2>1, <2>2, EndOfEntries, MapOfPresent DEF MapInv
  <2>4. /\ phaseOf[t] = "running" /\ phaseOf'[t] = phaseOf[t] 
        /\ outOf'[t] = "absent" /\ gotOf'[t] = gotOf[t]
    BY <1>1, <1>2, <2>1, ShownOf, NextShownOf
  <2>5. gotOf' = gotOf /\ phaseOf' = phaseOf
    <3>1. /\ gotOf = [gotOf EXCEPT ![t] = gotOf[t]] 
          /\ phaseOf = [phaseOf EXCEPT ![t] = phaseOf[t]]
      BY DEF gotOf, phaseOf
    <3> QED BY <1>1, <1>2, <2>4, <3>1, OthersMapped
  <2>6. Abstract!SeeAbsent(t)
    BY <1>1, <1>2, <2>2, <2>3, <2>4, <2>5, OthersMapped 
       DEF Abstract!SeeAbsent, Abstract!Running, Abstract!In, Abstract!Searches, MyKey
  <2> QED BY <1>1, <2>6 DEF Simulates, Abstract!Next
<1> QED BY <1>3, <1>4

\* A search that has left the last bucket of the list has met every entry.
LEMMA LastBucketSeen == 
  ASSUME MapInv, NEW t \in Threads, pc[t] = "hop", hit[t] = NoSlot, 
         res[t] # "absent", ~next[pos[t][1]]
  PROVE  ~Mapped(MyKey(t))
<1>1. /\ Knows(t) /\ pos[t] \in Slots
  BY DEF MapInv, HashmapInv, TypeOK
<1>2. LastInBucket(pos[t]) 
      /\ \A p \in Slots : p = pos[t] \/ Before(p, pos[t]) => key[p] # MyKey(t)
  BY <1>1 DEF Knows, NotSeen
<1>3. ASSUME NEW s \in Slots, Before(pos[t], s), state[s] \in Present PROVE FALSE
  <2>1. PICK a \in Buckets, i \in 0..(BucketSize - 1) : pos[t] = <<a, i>>
    BY <1>1 DEF Slots
  <2>2. PICK b \in Buckets, j \in 0..(BucketSize - 1) : s = <<b, j>>
    BY DEF Slots
  <2>3. a < b
    BY <1>2, <1>3, <2>1, <2>2, BucketSizeAssumption DEF Before, LastInBucket
  <2>4. Linked(s)
    BY <1>3 DEF MapInv, ChainLinked, Present
  <2> QED BY <2>1, <2>2, <2>3, <2>4 DEF Linked
<1> QED BY <1>1, <1>2, <1>3, BeforeIsOrder DEF Mapped

LEMMA HopSimulates == 
  ASSUME NEW t, StepOf(t), Hop(t)
  PROVE  Simulates
<1>1. /\ t \in Threads /\ TypeOK /\ TypeOK' /\ MapInv /\ Knows(t) /\ mapOf' = mapOf
  BY StepTypes, MapOfSame DEF StepOf, Hop, entries
<1>2. /\ MyKey(t) \in Keys /\ op[t].kind \in {"Lookup", "Apply", "TryApply"}
      /\ pc[t] = "hop" /\ UNCHANGED <<op, read, nops>>
  BY <1>1 DEF Hop, Knows, KnowsKind, AllKinds, InsertKinds, SeekPCs, MyKey
<1>3. \/ pc'[t] \in {"call", "deref", "scan"} /\ res' = res
      \/ /\ hit[t] = NoSlot /\ ~next[pos[t][1]]
         /\ pc'[t] = "done" /\ res' = [res EXCEPT ![t] = "not_found"]
  BY <1>1, <1>2 DEF Hop, EnterNextBucket, LookupReturns, Goto, EraseKind, TypeOK
<1>4. OthersSame(t)
  BY <1>1 DEF Hop, EnterNextBucket, LookupReturns, Goto, OthersSame, TypeOK
<1>5. CASE pc'[t] # "done"
  BY <1>1, <1>2, <1>3, <1>4, <1>5, HiddenStep
<1>6. CASE pc'[t] = "done"
  <2>1. hit[t] = NoSlot /\ ~next[pos[t][1]] /\ res'[t] = "not_found"
    BY <1>1, <1>3, <1>6 DEF TypeOK
  <2>2. res[t] = "absent" \/ mapOf[MyKey(t)] = Absent
    BY <1>1, <1>2, <2>1, LastBucketSeen, MapOfPresent DEF MapInv
  <2>3. /\ phaseOf[t] = "running" /\ phaseOf'[t] = "finished" 
        /\ outOf[t] = res[t] /\ outOf'[t] = "not_found" /\ gotOf'[t] = gotOf[t]
    BY <1>1, <1>2, <1>6, <2>1, ShownOf, NextShownOf
  <2>4. gotOf' = gotOf
    <3>1. gotOf = [gotOf EXCEPT ![t] = gotOf[t]]
      BY DEF gotOf
    <3> QED BY <1>1, <1>4, <2>3, <3>1, OthersMapped
  <2>5. Abstract!Miss(t)
    BY <1>1, <1>2, <1>4, <2>2, <2>3, <2>4, OthersMapped 
       DEF Abstract!Miss, Abstract!Running, Abstract!In, Abstract!Searches, 
           Abstract!Finish, MyKey
  <2> QED BY <1>1, <2>5 DEF Simulates, Abstract!Next
<1> QED BY <1>5, <1>6

\* The entry a search has found is the one of its key.
LEMMA HitIsMapped == 
  ASSUME MapInv, NEW t \in Threads, pc[t] \in {"deref", "call", "store"}
  PROVE  /\ hit[t] \in Slots /\ state[hit[t]] \in Present /\ key[hit[t]] = MyKey(t)
         /\ MyKey(t) \in Keys
         /\ mapOf[MyKey(t)] = val[hit[t]] /\ mapOf[MyKey(t)] # Absent
<1>1. Knows(t) /\ InRange(t)
  BY DEF MapInv, HashmapInv
<1>2. hit[t] \in Slots /\ state[hit[t]] \in Present /\ key[hit[t]] = MyKey(t)
  BY <1>1, NoSlotIsOutside DEF InRange, Knows, KnowsEntry
<1>3. MyKey(t) \in Keys
  BY <1>1 DEF Knows, KnowsKind, MyKey
<1> QED BY <1>2, <1>3, MapOfPresent DEF MapInv, Mapped

LEMMA DerefSimulates == 
  ASSUME NEW t, StepOf(t), Deref(t)
  PROVE  Simulates
<1>1. /\ t \in Threads /\ TypeOK /\ TypeOK' /\ MapInv /\ Knows(t) /\ mapOf' = mapOf
  BY StepTypes, MapOfSame DEF StepOf, Deref, entries
<1>2. /\ op[t].kind = "Lookup" /\ pc[t] = "deref" /\ UNCHANGED <<op, nops>>
  BY <1>1 DEF Deref, Knows, KnowsKind
<1>3. pc'[t] = "done" /\ res'[t] = "found" /\ read'[t] = val[hit[t]] /\ OthersSame(t)
  BY <1>1, <1>2 DEF Deref, LookupReturns, Goto, EraseKind, OthersSame, TypeOK
<1>4. mapOf[MyKey(t)] = val[hit[t]] /\ mapOf[MyKey(t)] # Absent
  BY <1>1, <1>2, HitIsMapped
<1>5. /\ phaseOf[t] = "running" /\ phaseOf'[t] = "finished" 
      /\ outOf'[t] = "found" /\ gotOf'[t] = mapOf[MyKey(t)]
  BY <1>1, <1>2, <1>3, <1>4, ShownOf, NextShownOf
<1>6. Abstract!Hit(t)
  BY <1>1, <1>2, <1>3, <1>4, <1>5, OthersMapped 
     DEF Abstract!Hit, Abstract!Running, Abstract!In, Abstract!Finish, MyKey
<1> QED BY <1>1, <1>6 DEF Simulates, Abstract!Next

\* a try is refused only at an entry that another task owns
LEMMA RefusalSimulates == 
  ASSUME NEW t, StepOf(t), Tag(t), state[pos[t]] # "USED"
  PROVE  Simulates
<1>1. /\ t \in Threads /\ TypeOK /\ TypeOK' /\ MapInv /\ Knows(t) /\ Reached(t)
      /\ pos[t] \in Slots /\ mapOf' = mapOf
  BY StepTypes, MapOfSame DEF StepOf, Tag
<1>2. /\ op[t].kind = "TryApply" /\ pc[t] = "tag" /\ UNCHANGED <<op, read, nops>>
      /\ pc'[t] = "done" /\ res'[t] = "FAILED" /\ OthersSame(t)
  BY <1>1 DEF Tag, Finish, Goto, OthersSame, Knows, KnowsKind, TypeOK
<1>3. key[pos[t]] = MyKey(t) /\ MyKey(t) \in Keys /\ state[pos[t]] = "PENDING_UPDATE"
  BY <1>1, <1>2 DEF Knows, KnowsEntry, KnowsKind, Reached, AtPresent, Present, MyKey
<1>4. PICK u \in Threads : Holding(u) /\ pos[u] = pos[t]
  BY <1>1, <1>3, HoldsIsHolding DEF MapInv, OneOwner
<1>5. Knows(u) /\ Reached(u) /\ u # t
  BY <1>1, <1>2, <1>4 DEF MapInv, HashmapInv, Holding
<1>6. op[u].key = op[t].key /\ pc[u] # "idle"
  BY <1>1, <1>3, <1>4, <1>5, NoSlotIsOutside DEF Holding, Knows, KnowsEntry, Reached, Inserting, MyKey
<1>7. mapOf[MyKey(t)] # Absent
  BY <1>1, <1>3, MapOfPresent DEF MapInv, Mapped, Present
<1>8. /\ phaseOf[t] = "running" /\ phaseOf'[t] = "finished" /\ phaseOf[u] # "idle"
      /\ outOf'[t] = "FAILED" /\ gotOf'[t] = gotOf[t]
  BY <1>1, <1>2, <1>6, ShownOf, NextShownOf
<1>9. gotOf' = gotOf
  <2>1. gotOf = [gotOf EXCEPT ![t] = gotOf[t]]
    BY DEF gotOf
  <2> QED BY <1>1, <1>2, <1>8, <2>1, OthersMapped
<1>10. Abstract!Refuse(t)
  BY <1>1, <1>2, <1>5, <1>6, <1>7, <1>8, <1>9, OthersMapped 
     DEF Abstract!Refuse, Abstract!Running, Abstract!In, Abstract!Finish, MyKey
<1> QED BY <1>1, <1>10 DEF Simulates, Abstract!Next

LEMMA CallFunctionSimulates == 
  ASSUME NEW t, StepOf(t), CallFunction(t)
  PROVE  Simulates
<1>1. /\ t \in Threads /\ TypeOK /\ TypeOK' /\ MapInv /\ Knows(t) /\ mapOf' = mapOf
      /\ res[t] \in Outcomes
  BY StepTypes, MapOfSame DEF StepOf, CallFunction, entries, TypeOK
<1>2. /\ op[t].kind \in {"Apply", "TryApply"} /\ UNCHANGED <<op, res, nops>>
      /\ pc[t] = "call" /\ pc'[t] = "store" /\ read'[t] = val[hit[t]] /\ OthersSame(t)
  BY <1>1 DEF CallFunction, Goto, OthersSame, Knows, KnowsKind, AllKinds, InsertKinds, 
     SeekPCs, TypeOK
<1>3. mapOf[MyKey(t)] = val[hit[t]] /\ mapOf[MyKey(t)] # Absent
  BY <1>1, <1>2, HitIsMapped
<1>4. /\ phaseOf[t] = "running" /\ phaseOf'[t] = phaseOf[t] 
      /\ outOf[t] # "read" /\ outOf'[t] = "read" /\ gotOf'[t] = mapOf[MyKey(t)]
  BY <1>1, <1>2, <1>3, ShownOf, NextShownOf DEF Outcomes
<1>5. phaseOf' = phaseOf
  <2>1. phaseOf = [phaseOf EXCEPT ![t] = phaseOf[t]]
    BY DEF phaseOf
  <2> QED BY <1>1, <1>2, <1>4, <2>1, OthersMapped
<1>6. Abstract!ReadToApply(t)
  BY <1>1, <1>2, <1>3, <1>4, <1>5, OthersMapped 
     DEF Abstract!ReadToApply, Abstract!Running, Abstract!In, MyKey
<1> QED BY <1>1, <1>6 DEF Simulates, Abstract!Next

LEMMA StoreResultSimulates == 
  ASSUME NEW t, StepOf(t), StoreResult(t)
  PROVE  Simulates
<1>1. /\ t \in Threads /\ TypeOK /\ TypeOK' /\ MapInv /\ Knows(t) /\ Monotone
  BY StepTypes DEF StepOf
<1>2. /\ op[t].kind \in {"Apply", "TryApply"} /\ UNCHANGED <<state, key, op, nops>>
      /\ pc[t] = "store" /\ pc'[t] \in {"done", "release"} /\ res'[t] = "SUCCESS" 
      /\ val' = [val EXCEPT ![hit[t]] = read[t] \cup {Tok(t)}] /\ OthersSame(t)
  BY <1>1 DEF StoreResult, Goto, OthersSame, Knows, KnowsKind, AllKinds, InsertKinds, 
     SeekPCs, TypeOK
<1>3. /\ hit[t] \in Slots /\ state[hit[t]] \in Present /\ key[hit[t]] = MyKey(t)
      /\ MyKey(t) \in Keys /\ mapOf[MyKey(t)] # Absent
  BY <1>1, <1>2, HitIsMapped
<1>4. mapOf' = [mapOf EXCEPT ![MyKey(t)] = read[t] \cup {Tok(t)}]
  <2>1. /\ val'[hit[t]] = read[t] \cup {Tok(t)} 
        /\ \A s \in Slots \ {hit[t]} : val'[s] = val[s]
    BY <1>1, <1>2, <1>3 DEF TypeOK
  <2> QED BY <1>1, <1>2, <1>3, <2>1, MapOfWritten DEF MapInv, StepOf
<1>5. op[t].kind = "TryApply" => ~Abstract!Reserved(t)
  BY <1>1, <1>2, <1>3, OwnerIsFree DEF Holding, Knows, KnowsEntry
<1>6. /\ phaseOf[t] = "running" /\ phaseOf'[t] = "finished" 
      /\ outOf[t] = "read" /\ gotOf[t] = read[t] 
      /\ outOf'[t] = "SUCCESS" /\ gotOf'[t] = {}
  BY <1>1, <1>2, ShownOf, NextShownOf
<1>7. Abstract!WriteApplied(t)
  BY <1>1, <1>2, <1>3, <1>4, <1>5, <1>6, OthersMapped 
     DEF Abstract!WriteApplied, Abstract!Running, Abstract!In, Abstract!Finish,
         Abstract!Put, Abstract!Token, MyKey, Tok
<1> QED BY <1>1, <1>7 DEF Simulates, Abstract!Next

LEMMA InitSimulates == Init => Abstract!Init
<1> SUFFICES ASSUME Init PROVE Abstract!Init
  OBVIOUS
<1>1. pc = [t \in Threads |-> "idle"]
  BY DEF Init, ListInit
<1>2. mapOf \in [Keys -> {Absent, {}}]
  <2>1. ASSUME NEW k \in Keys, Mapped(k) PROVE mapOf[k] = {}
    <3>1. PICK s \in Slots : state[s] \in Present /\ key[s] = k
      BY <2>1 DEF Mapped
    <3>2. mapOf[k] = val[s]
      BY <3>1, InitEstablishes, MapOfPresent
    <3> QED BY <3>1, <3>2 DEF Init
  <2>2. ASSUME NEW k \in Keys, ~Mapped(k) PROVE mapOf[k] = Absent
    BY <2>2 DEF Mapped, mapOf
  <2>3. mapOf = [k \in Keys |-> mapOf[k]]
    BY DEF mapOf
  <2> QED BY <2>1, <2>2, <2>3
<1>3. phaseOf = [t \in Threads |-> "idle"]
  BY <1>1 DEF phaseOf
<1>4. outOf = [t \in Threads |-> "none"] /\ gotOf = [t \in Threads |-> {}]
  BY <1>1 DEF outOf, gotOf, Init
<1> QED BY <1>2, <1>3, <1>4 DEF Init, Abstract!Init

LEMMA NextSimulates == 
  ASSUME MapInv, [Next]_vars
  PROVE  Simulates
<1>1. CASE UNCHANGED vars
  <2>1. UNCHANGED <<mapOf, phaseOf, op, outOf, gotOf, nops>>
    BY <1>1 DEF vars, entries, local, mapOf, phaseOf, outOf, gotOf
  <2> QED BY <2>1 DEF Simulates, Abstract!vars
<1>2. \A t \in Threads : StepOf(t)
  BY InvAndMonotone DEF MapInv, StepOf
<1>3. ASSUME NEW t \in Threads, CallAny(t) PROVE Simulates
  BY <1>2, <1>3, CallSimulates DEF CallAny
<1>4. ASSUME NEW t \in Threads, InsertStep(t) PROVE Simulates
  BY <1>2, <1>4, HiddenMoves, HiddenEntrySteps, PublishSimulates, UpdateSimulates
     DEF InsertStep
<1>5. ASSUME NEW t \in Threads, ScanStep(t) PROVE Simulates
  BY <1>2, <1>5, ScanSimulates, HiddenMoves, HopSimulates, DerefSimulates, 
     HiddenEntrySteps, RefusalSimulates, CallFunctionSimulates, StoreResultSimulates 
     DEF ScanStep
<1>6. ASSUME NEW t \in Threads, Return(t) PROVE Simulates
  BY <1>2, <1>6, ReturnSimulates
<1> QED BY <1>1, <1>3, <1>4, <1>5, <1>6 DEF Next, Step, Terminating

(* Insert and Lookup take effect on a map at one instant between their     *)
(* call and their return, TryBlockingApply updates a value that only a     *)
(* plain Apply can change under it, and a search misses a key only if the  *)
(* key was absent at some instant of the search.                           *)
THEOREM HashmapIsLinearizable == Spec => Linearizable
<1>1. MapInv /\ [Next]_vars => [Abstract!Next]_(Abstract!vars)
  BY NextSimulates DEF Simulates
<1> QED BY <1>1, InitSimulates, MapInvariant, PTL DEF Spec, Linearizable, Abstract!Spec

-----------------------------------------------------------------------------
(* Where the variables of an erasure point to.                             *)

TakenPCs == {"e_tail", "e_check", "e_chain", "e_prev", "e_free", "e_move", 
             "e_publish", "e_drop", "e_cleardel", "e_unlast", "e_undo"}
LastPCs == {"e_prev", "e_free", "e_drop", "e_unlast"}
PrevPCs == {"e_free", "e_move", "e_publish", "e_clearprev"}

EraseTypes == 
  /\ state \in [Slots -> EntryStates]
  /\ key \in [Slots -> Keys \cup {NoKey}]
  /\ allocated \in [Buckets -> BOOLEAN]
  /\ next \in [Buckets -> BOOLEAN]
  /\ pc \in [Threads -> PCs \cup ErasePCs]
  /\ op \in [Threads -> [kind : AllKinds \cup {EraseKind}, key : Keys \cup {NoKey}]]
  /\ pos \in [Threads -> Slots]
  /\ hit \in [Threads -> Slots \cup {NoSlot}]
  /\ frames \in [Threads -> Seq(Slots)]
  /\ del \in [Threads -> Slots \cup {NoSlot}]
  /\ prev \in [Threads -> Slots \cup {NoSlot}]
  /\ last \in [Threads -> Slots \cup {NoSlot}]
  /\ cur \in [Threads -> (Buckets \X (0..BucketSize)) \cup {NoSlot}]
  /\ resumed \in BOOLEAN

Placed(t) == 
  /\ pc[t] = "link" => pos[t][1] + 1 \in Buckets
  /\ pc[t] \in TakenPCs => del[t] \in Slots
  /\ pc[t] \in TakenPCs \cup PrevPCs => prev[t] \in Slots
  /\ pc[t] \in LastPCs \cup {"e_check"} => last[t] \in Slots
  /\ pc[t] = "e_tail" => cur[t] \in Slots
  /\ pc[t] = "e_check" => cur[t] = last[t]
  /\ pc[t] = "e_chain" => /\ cur[t][1] \in Buckets
                          /\ \/ last[t] = NoSlot /\ prev[t] = del[t]
                             \/ last[t] \in Slots /\ prev[t] = last[t]
  /\ pc[t] = "tag" => op[t].kind = "TryApply"
  /\ pc[t] \in {"call", "store"} /\ op[t].kind = "TryApply" => hit[t] = pos[t]

(* Who holds an entry.                                                     *)
HoldsInErase(t, s) == 
  \/ pc[t] = "e_take" /\ s = pos[t]
  \/ pc[t] \in TakenPCs /\ s = del[t]
  \/ pc[t] \in LastPCs /\ s = last[t]
  \/ pc[t] \in PrevPCs /\ s = prev[t]

Has(t, s) == Holds(t, s) \/ HoldsInErase(t, s)

Pending == {"PENDING_INSERT", "PENDING_UPDATE"}
PendingIsHeld == 
  \A s \in Slots : state[s] \in Pending => \E t \in Threads : Has(t, s)

HoldInv == 
  /\ EraseTypes /\ ChainInBounds /\ PendingIsHeld
  /\ \A t \in Threads : Placed(t)

-----------------------------------------------------------------------------
(* The invariant of a list on which nothing is inserted, up to the first   *)
(* call that resumes.                                                      *)
NoInserts == Kinds \cap InsertKinds = {}
DifferentKeys == 
  \A t, u \in Threads : t # u => MayErase[t] \cap MayErase[u] = {}

ScanPCs == {"idle", "scan", "probe", "found", "hop", "deref", "looked", "tag", 
            "call", "store", "release", "done"}

\* an entry that no key of the map will come back to
HeldFree(t, s) == pc[t] \in LastPCs /\ s = last[t]
Free(s) == state[s] = "EMPTY" \/ \E t \in Threads : HeldFree(t, s)
FreeAfter(p) == \A s \in Slots : Before(p, s) => Free(s)

\* an entry whose key has moved, and one that still has its key
LeftBy(t, s) == pc[t] \in {"e_publish", "e_clearprev"} /\ s = prev[t]
Left(s) == \E t \in Threads : LeftBy(t, s)
Live(s) == ~Free(s) /\ ~Left(s)

\* c comes right after p
Follows(p, c) == 
  Before(p, c) /\ \A s \in Slots : Before(p, s) => s = c \/ Before(c, s)

KnowsOp(t) == 
  /\ pc[t] \in ScanPCs \cup ErasePCs
  /\ pc[t] \in (ErasePCs \ {"rescan"}) \cup {"looked"} => op[t].kind = EraseKind
  /\ pc[t] \in {"call", "store"} => op[t].kind \in {"Apply", "TryApply"}
  /\ op[t].kind = EraseKind => MyKey(t) \in MayErase[t]

\* what it holds is in the state it left it in
KnowsState(t) == 
  \A s \in Slots : /\ Holds(t, s) => state[s] = "PENDING_UPDATE"
                   /\ HoldsInErase(t, s) => state[s] = "PENDING_INSERT"

KnowsOrder(t) == 
  /\ pc[t] \in {"e_tail", "e_check"} 
       => /\ prev[t] = del[t] \/ Before(del[t], prev[t])
          /\ Follows(prev[t], cur[t])
  /\ pc[t] = "e_chain" 
       => /\ (prev[t] = del[t] /\ last[t] = NoSlot) \/ Before(del[t], prev[t])
          /\ LastInBucket(prev[t]) /\ cur[t][1] = prev[t][1]
  /\ pc[t] \in {"e_prev", "e_unlast", "e_free", "e_move", "e_publish"} 
       => Before(del[t], prev[t])
  /\ pc[t] \in {"e_prev", "e_unlast", "e_free"} => Before(prev[t], last[t])
  /\ pc[t] = "e_drop" => Before(del[t], last[t])
  /\ pc[t] \in {"e_prev", "e_free", "e_move", "e_publish", "e_clearprev"} 
       => FreeAfter(prev[t])
  /\ pc[t] \in {"e_drop", "e_cleardel"} => FreeAfter(del[t])

OneHolder == 
  \A t, u \in Threads : \A s \in Slots : Has(t, s) /\ Has(u, s) => t = u
FreeIsLast == \A s \in Slots : Free(s) => FreeAfter(s)
ChainIsFree == \A b \in Buckets : ~next[b] => \A s \in Slots : s[1] > b => Free(s)
LiveKeysDiffer == 
  \A p, q \in Slots : Live(p) /\ Live(q) /\ key[p] = key[q] => p = q

ListInv == 
  /\ OneHolder /\ FreeIsLast /\ ChainIsFree /\ LiveKeysDiffer
  /\ \A t \in Threads : KnowsOp(t) /\ KnowsState(t) /\ KnowsOrder(t)

\* an entry counts in size_ from its insertion to the size_-- of its Erase
CountedBy(t, s) == 
  \/ pc[t] = "e_take" /\ s = pos[t]
  \/ pc[t] \in {"e_free", "e_move", "e_publish"} /\ s = prev[t]
Counted(s) == state[s] \in Present \/ \E t \in Threads : CountedBy(t, s)
CountedSlots == {s \in Slots : Counted(s)}
Recounting == {t \in Threads : pc[t] = "e_recount"}
SizeInv == 
  /\ IsFiniteSet(Recounting)
  /\ size = (Cardinality(CountedSlots) - Cardinality(Recounting)) % SizeRange

\* what erasures of different keys know and keep
KnowsKey(t) == 
  /\ pc[t] \in {"e_claim", "e_take"} => key[pos[t]] = MyKey(t)
  /\ pc[t] \in TakenPCs \ {"e_publish"} => key[del[t]] = MyKey(t)
KeysKept == 
  \A k \in filled : (\A t \in Threads : k \notin MayErase[t])
    => \E s \in Slots : Live(s) /\ key[s] = k
KeyInv == KeysKept /\ \A t \in Threads : KnowsKey(t)

EraseInv == 
  /\ HoldInv
  /\ NoInserts /\ ~resumed => ListInv /\ SizeInv
  /\ NoInserts /\ ~resumed /\ DifferentKeys => KeyInv

-----------------------------------------------------------------------------
(* Steps as they look to the other tasks.                                  *)

\* the points of the code at which a task holds no entry
FreeHands == {"idle", "claim", "await", "compare", "lock", "grow", "link", 
              "waitnext", "scan", "probe", "found", "hop", "deref", "looked", 
              "tag", "done", "e_scan", "e_wait", "e_compare", "e_claim", 
              "e_recount", "e_next", "rescan"}

\* task t goes to a point of L, and to some entry
Moves(t, L) == 
  /\ pc' \in [Threads -> PCs \cup ErasePCs] /\ pc'[t] \in L
  /\ pos' \in [Threads -> Slots]
  /\ \A u \in Threads \ {t} : pc'[u] = pc[u] /\ pos'[u] = pos[u]

\* what the other tasks have in their variables is left alone
Alone(t) == 
  \A u \in Threads \ {t} : 
    /\ pc'[u] = pc[u] /\ pos'[u] = pos[u] /\ op'[u] = op[u] /\ hit'[u] = hit[u]
    /\ del'[u] = del[u] /\ prev'[u] = prev[u] /\ last'[u] = last[u] 
    /\ cur'[u] = cur[u]

LEMMA GotoMoves == 
  ASSUME EraseTypes, NEW t \in Threads, NEW l \in PCs \cup ErasePCs,
         Goto(t, l), UNCHANGED pos
  PROVE  Moves(t, {l})
BY DEF EraseTypes, Goto, Moves

LEMMA NextEntryMoves == 
  ASSUME EraseTypes, NEW t \in Threads, 
         NEW l \in PCs \cup ErasePCs, NEW m \in PCs \cup ErasePCs, 
         NextEntry(t, l, m)
  PROVE  Moves(t, {l, m})
<1>1. CASE LastInBucket(pos[t])
  BY <1>1, GotoMoves DEF NextEntry, Moves
<1>2. CASE ~LastInBucket(pos[t])
  <2>1. <<pos[t][1], pos[t][2] + 1>> \in Slots
    BY <1>2, NextSlot DEF EraseTypes
  <2> QED BY <1>2, <2>1 DEF NextEntry, Goto, Moves, EraseTypes
<1> QED BY <1>1, <1>2

LEMMA EnterBucketMoves == 
  ASSUME EraseTypes, NEW t \in Threads, NEW l \in PCs \cup ErasePCs,
         pos[t][1] + 1 \in Buckets, EnterNextBucket(t, l)
  PROVE  Moves(t, {l})
<1>1. <<pos[t][1] + 1, 0>> \in Slots
  BY NextBucket DEF EraseTypes
<1> QED BY <1>1 DEF EnterNextBucket, Goto, Moves, EraseTypes

LEMMA BeginMoves == 
  ASSUME EraseTypes, NEW t \in Threads, Begin(t)
  PROVE  /\ Moves(t, {"e_scan"}) /\ pos'[t] = FirstSlot
         /\ hit' \in [Threads -> Slots \cup {NoSlot}]
         /\ \A u \in Threads \ {t} : hit'[u] = hit[u]
BY FirstSlotIsFirst DEF EraseTypes, Begin, Goto, Moves, ErasePCs

\* A step that preserves the types and t's pointers preserves the invariant
\* when t holds the entries it makes pending and lets none go pending.
LEMMA HoldStep == 
  ASSUME HoldInv, NEW t \in Threads, EraseTypes', ChainInBounds', Placed(t)',
         Alone(t),
         \A s \in Slots : state'[s] \in Pending =>
           Has(t, s)' \/ (state[s] \in Pending /\ ~Has(t, s))
  PROVE  HoldInv'
<1>1. ASSUME NEW u \in Threads \ {t} PROVE Placed(u)'
  BY <1>1 DEF HoldInv, Alone, Placed
<1>2. ASSUME NEW s \in Slots, state'[s] \in Pending 
      PROVE  \E u \in Threads : Has(u, s)'
  <2>1. CASE Has(t, s)'
    BY <2>1
  <2>2. CASE state[s] \in Pending /\ ~Has(t, s)
    <3>1. PICK u \in Threads : Has(u, s)
      BY <2>2 DEF HoldInv, PendingIsHeld
    <3>2. u # t
      BY <2>2, <3>1
    <3>3. Has(u, s)'
      BY <3>1, <3>2 DEF Alone, Has, Holds, HoldsInErase
    <3> QED BY <3>3
  <2> QED BY <1>2, <2>1, <2>2
<1>3. PendingIsHeld'
  BY <1>2 DEF PendingIsHeld
<1> QED BY <1>1, <1>3 DEF HoldInv

\* It may change the state of one entry; t keeps what else it holds.
LEMMA EntryStep == 
  ASSUME HoldInv, NEW t \in Threads, EraseTypes', ChainInBounds', Placed(t)',
         Alone(t), NEW p, NEW st, SetState(p, st), 
         p \in Slots /\ st \in Pending => Has(t, p)',
         \A s \in Slots : s # p /\ Has(t, s) => Has(t, s)'
  PROVE  HoldInv'
<1>1. state \in [Slots -> EntryStates]
  BY DEF HoldInv, EraseTypes
<1>2. ASSUME NEW s \in Slots, state'[s] \in Pending
      PROVE  Has(t, s)' \/ (state[s] \in Pending /\ ~Has(t, s))
  BY <1>1, <1>2 DEF SetState
<1> QED BY <1>2, HoldStep

LEMMA KeepStep == 
  ASSUME HoldInv, NEW t \in Threads, EraseTypes', ChainInBounds', Placed(t)',
         Alone(t), UNCHANGED state, \A s \in Slots : Has(t, s) => Has(t, s)'
  PROVE  HoldInv'
BY HoldStep

\* A step between two points at which t holds nothing.
LEMMA FreeHandsStep == 
  ASSUME HoldInv, NEW t \in Threads, Moves(t, FreeHands), pc[t] \in FreeHands,
         UNCHANGED <<state, key, next, del, prev, last, cur, resumed>>,
         allocated' \in [Buckets -> BOOLEAN],
         op' \in [Threads -> [kind : AllKinds \cup {EraseKind}, 
                              key : Keys \cup {NoKey}]],
         hit' \in [Threads -> Slots \cup {NoSlot}],
         frames' \in [Threads -> Seq(Slots)],
         \A u \in Threads \ {t} : op'[u] = op[u] /\ hit'[u] = hit[u],
         pc'[t] = "link" => pos'[t][1] + 1 \in Buckets,
         pc'[t] = "tag" => op'[t].kind = "TryApply"
  PROVE  HoldInv'
<1>1. EraseTypes' /\ Alone(t) /\ ChainInBounds'
  BY DEF HoldInv, EraseTypes, Moves, Alone, ChainInBounds
<1>2. pc'[t] \in FreeHands
  BY DEF Moves
<1>3. Placed(t)'
  BY <1>2 DEF Placed, FreeHands, TakenPCs, LastPCs, PrevPCs
<1>4. \A s \in Slots : ~Has(t, s)
  BY DEF Has, Holds, HoldsInErase, FreeHands, TakenPCs, LastPCs, PrevPCs
<1> QED BY <1>1, <1>3, <1>4, HoldStep

-----------------------------------------------------------------------------
(* The steps of LocalHashmap.                                              *)

LEMMA SearchKeepsHoldInv == 
  ASSUME HoldInv, NEW t \in Threads, UNCHANGED eraseVars,
         \/ ClaimFails(t) \/ AwaitInsert(t) \/ Compare(t) \/ Return(t)
         \/ Scan(t) \/ Probe(t) \/ Deref(t)
  PROVE  HoldInv'
<1> USE DEF PCs, FreeHands
<1>1. EraseTypes
  BY DEF HoldInv
<1>2. /\ UNCHANGED <<state, key, next, allocated, del, prev, last, cur, resumed>>
      /\ UNCHANGED <<op, hit, frames>>
  BY DEF ClaimFails, AwaitInsert, Compare, Return, Scan, Probe, Deref, entries, 
     chain, eraseVars, history
<1>3. /\ pc[t] \in FreeHands /\ Moves(t, FreeHands) /\ pc'[t] # "link"
      /\ pc'[t] = "tag" => op[t].kind = "TryApply"
  <2>1. CASE ClaimFails(t)
    BY <1>1, <2>1, GotoMoves DEF ClaimFails, Moves
  <2>2. CASE AwaitInsert(t)
    BY <1>1, <2>2, GotoMoves DEF AwaitInsert, Moves
  <2>3. CASE Compare(t)
    BY <1>1, <2>3, GotoMoves, NextEntryMoves DEF Compare, Moves
  <2>4. CASE Return(t)
    BY <1>1, <2>4, GotoMoves DEF Return, Moves
  <2>5. CASE Scan(t)
    BY <1>1, <2>5, GotoMoves DEF Scan, Moves
  <2>6. CASE Probe(t)
    BY <1>1, <2>6, GotoMoves, NextEntryMoves DEF Probe, Moves
  <2>7. CASE Deref(t)
    BY <1>1, <2>7, GotoMoves DEF Deref, LookupReturns, Moves
  <2> QED BY <2>1, <2>2, <2>3, <2>4, <2>5, <2>6, <2>7
<1> QED BY <1>1, <1>2, <1>3, FreeHandsStep DEF EraseTypes

LEMMA CallKeepsHoldInv == 
  ASSUME HoldInv, NEW t \in Threads, NEW kind \in Kinds, NEW k \in Keys,
         Call(t, kind, k), UNCHANGED eraseVars
  PROVE  HoldInv'
<1>1. EraseTypes /\ kind \in AllKinds
  BY KindsAssumption DEF HoldInv
<1>2. /\ UNCHANGED <<state, key, next, allocated, del, prev, last, cur, resumed>>
      /\ UNCHANGED frames /\ pc[t] \in FreeHands
  BY DEF Call, entries, chain, eraseVars, history, FreeHands
<1>3. Moves(t, FreeHands) /\ pc'[t] \notin {"link", "tag"}
  BY <1>1, FirstSlotIsFirst DEF Call, Goto, Moves, EraseTypes, PCs, FreeHands
<1>4. /\ op' = [op EXCEPT ![t] = [kind |-> kind, key |-> k]]
      /\ hit' = [hit EXCEPT ![t] = NoSlot]
  BY DEF Call
<1>5. /\ op' \in [Threads -> [kind : AllKinds \cup {EraseKind}, key : Keys \cup {NoKey}]]
      /\ hit' \in [Threads -> Slots \cup {NoSlot}]
      /\ \A u \in Threads \ {t} : op'[u] = op[u] /\ hit'[u] = hit[u]
  BY <1>1, <1>4 DEF EraseTypes
<1> QED BY <1>1, <1>2, <1>3, <1>5, FreeHandsStep DEF EraseTypes

LEMMA FoundKeepsHoldInv == 
  ASSUME HoldInv, NEW t \in Threads, Found(t), UNCHANGED eraseVars
  PROVE  HoldInv'
<1>1. EraseTypes
  BY DEF HoldInv
<1>2. /\ UNCHANGED <<state, key, next, allocated, del, prev, last, cur, resumed>>
      /\ UNCHANGED <<op, frames>> /\ pc[t] \in FreeHands
  BY DEF Found, entries, chain, eraseVars, history, FreeHands
<1>3. Moves(t, FreeHands) /\ pc'[t] \notin {"link", "tag"}
  BY <1>1, NextEntryMoves DEF Found, PCs, Moves, FreeHands
<1>4. /\ hit' \in [Threads -> Slots \cup {NoSlot}]
      /\ \A u \in Threads \ {t} : hit'[u] = hit[u]
  BY <1>1 DEF Found, EraseTypes
<1> QED BY <1>1, <1>2, <1>3, <1>4, FreeHandsStep DEF EraseTypes

LEMMA GrowKeepsHoldInv == 
  ASSUME HoldInv, NEW t \in Threads, Grow(t), UNCHANGED eraseVars
  PROVE  HoldInv'
<1>1. EraseTypes /\ ChainInBounds /\ pos[t] \in Slots /\ pos[t][1] \in Buckets
  BY DEF HoldInv, EraseTypes, Slots
<1>2. /\ UNCHANGED <<state, key, del, prev, last, cur, resumed, op, hit, frames>>
  BY DEF Grow, entries, eraseVars, history
<1>3. allocated' \in [Buckets -> BOOLEAN] 
  BY <1>1 DEF Grow, GrowList, LinkBucket, AwaitBucket, EraseTypes, chain
<1>4. CASE GrowList(t)
  <2>1. /\ pc[t] \in FreeHands /\ UNCHANGED next /\ pos[t][1] + 1 \in Buckets
        /\ \/ EnterNextBucket(t, "claim")
           \/ Goto(t, "link") /\ UNCHANGED pos
           \/ Goto(t, "waitnext") /\ UNCHANGED pos
    BY <1>4 DEF GrowList, FreeHands
  <2>2. CASE EnterNextBucket(t, "claim")
    <3>1. Moves(t, FreeHands) /\ pc'[t] \notin {"link", "tag"}
      BY <1>1, <2>1, <2>2, EnterBucketMoves DEF PCs, FreeHands, Moves
    <3> QED BY <1>1, <1>2, <1>3, <2>1, <3>1, FreeHandsStep DEF EraseTypes
  <2>3. CASE Goto(t, "link") /\ UNCHANGED pos
    <3>1. Moves(t, FreeHands) /\ pc'[t] = "link"
      BY <1>1, <2>3, GotoMoves DEF PCs, FreeHands, Moves
    <3> QED BY <1>1, <1>2, <1>3, <2>1, <2>3, <3>1, FreeHandsStep DEF EraseTypes
  <2>4. CASE Goto(t, "waitnext") /\ UNCHANGED pos
    <3>1. Moves(t, FreeHands) /\ pc'[t] \notin {"link", "tag"}
      BY <1>1, <2>4, GotoMoves DEF PCs, FreeHands, Moves
    <3> QED BY <1>1, <1>2, <1>3, <2>1, <2>4, <3>1, FreeHandsStep DEF EraseTypes
  <2> QED BY <2>1, <2>2, <2>3, <2>4
<1>5. CASE AwaitBucket(t)
  <2>1. /\ pc[t] \in FreeHands /\ UNCHANGED next /\ pos[t][1] + 1 \in Buckets
        /\ EnterNextBucket(t, "claim")
    BY <1>1, <1>5 DEF AwaitBucket, FreeHands, chain, ChainInBounds
  <2>2. Moves(t, FreeHands) /\ pc'[t] \notin {"link", "tag"}
    BY <1>1, <2>1, EnterBucketMoves DEF PCs, FreeHands, Moves
  <2> QED BY <1>1, <1>2, <1>3, <2>1, <2>2, FreeHandsStep DEF EraseTypes
<1>6. CASE LinkBucket(t)
  <2>1. /\ pc[t] = "link" /\ pos[t][1] + 1 \in Buckets
        /\ next' = [next EXCEPT ![pos[t][1]] = TRUE]
        /\ EnterNextBucket(t, "claim")
    BY <1>6 DEF HoldInv, Placed, LinkBucket
  <2>2. Moves(t, {"claim"}) 
    BY <1>1, <2>1, EnterBucketMoves DEF PCs
  <2>3. EraseTypes' /\ ChainInBounds' /\ Alone(t) /\ pc'[t] = "claim"
    BY <1>1, <1>2, <1>3, <2>1, <2>2 DEF EraseTypes, Moves, ChainInBounds, Alone
  <2>4. Placed(t)' /\ \A s \in Slots : ~Has(t, s)
    BY <2>1, <2>3 DEF Placed, Has, Holds, HoldsInErase, TakenPCs, LastPCs, PrevPCs
  <2> QED BY <1>2, <2>3, <2>4, HoldStep
<1> QED BY <1>4, <1>5, <1>6 DEF Grow

LEMMA HopKeepsHoldInv == 
  ASSUME HoldInv, NEW t \in Threads, Hop(t), UNCHANGED eraseVars
  PROVE  HoldInv'
<1>1. EraseTypes /\ ChainInBounds /\ pos[t] \in Slots /\ pos[t][1] \in Buckets
  BY DEF HoldInv, EraseTypes, Slots
<1>2. /\ UNCHANGED <<state, key, next, allocated, del, prev, last, cur, resumed>>
      /\ UNCHANGED <<op, hit, frames>> /\ pc[t] \in FreeHands
  BY DEF Hop, entries, chain, eraseVars, history, FreeHands
<1>3. CASE Goto(t, "call") /\ UNCHANGED pos /\ op[t].kind = "Apply"
  <2>1. Moves(t, {"call"}) /\ pc'[t] = "call"
    BY <1>1, <1>3, GotoMoves DEF PCs, Moves
  <2>2. EraseTypes' /\ ChainInBounds' /\ Alone(t)
    BY <1>1, <1>2, <2>1 DEF EraseTypes, Moves, ChainInBounds, Alone
  <2>3. Placed(t)' /\ \A s \in Slots : ~Has(t, s)
    BY <1>2, <1>3, <2>1 
       DEF Placed, Has, Holds, HoldsInErase, TakenPCs, LastPCs, PrevPCs, FreeHands
  <2> QED BY <1>2, <2>2, <2>3, HoldStep
<1>4. CASE ~(Goto(t, "call") /\ UNCHANGED pos /\ op[t].kind = "Apply")
  <2>1. \/ Goto(t, "deref") /\ UNCHANGED pos
        \/ next[pos[t][1]] /\ EnterNextBucket(t, "scan")
        \/ Goto(t, "looked") /\ UNCHANGED pos
        \/ Goto(t, "done") /\ UNCHANGED pos
    BY <1>4 DEF Hop, LookupReturns
  <2>2. Moves(t, FreeHands) /\ pc'[t] \notin {"link", "tag"}
    BY <1>1, <2>1, GotoMoves, EnterBucketMoves 
       DEF PCs, Moves, ChainInBounds, FreeHands
  <2> QED BY <1>1, <1>2, <2>2, FreeHandsStep DEF EraseTypes
<1> QED BY <1>3, <1>4

\* The steps with which a task takes an entry, ...
LEMMA TakeKeepsHoldInv == 
  ASSUME HoldInv, NEW t \in Threads, UNCHANGED eraseVars,
         Claim(t) \/ LockEntry(t) \/ Tag(t)
  PROVE  HoldInv'
<1>1. EraseTypes /\ pos[t] \in Slots
  BY DEF HoldInv, EraseTypes
<1>2. /\ UNCHANGED <<key, next, allocated, del, prev, last, cur, resumed>>
      /\ UNCHANGED <<op, frames, pos>>
  BY DEF Claim, LockEntry, Tag, chain, eraseVars, history
<1>3. CASE Tag(t) /\ state[pos[t]] # "USED"
  <2>1. UNCHANGED <<state, hit>> /\ Goto(t, "done") /\ pc[t] \in FreeHands
    BY <1>3 DEF Tag, Finish, FreeHands
  <2>2. Moves(t, FreeHands) /\ pc'[t] \notin {"link", "tag"}
    BY <1>1, <1>2, <2>1, GotoMoves DEF PCs, Moves, FreeHands
  <2> QED BY <1>1, <1>2, <2>1, <2>2, FreeHandsStep DEF EraseTypes
<1>4. CASE ~(Tag(t) /\ state[pos[t]] # "USED")
  <2>1. PICK l \in {"init", "update", "call"}, st \in Pending :
          /\ Goto(t, l) /\ SetState(pos[t], st)
          /\ IF l = "call" THEN hit' = [hit EXCEPT ![t] = pos[t]] ELSE hit' = hit
    BY <1>4 DEF Claim, LockEntry, Tag, Pending
  <2>2. Moves(t, {l}) /\ pc'[t] = l
    BY <1>1, <1>2, <2>1, GotoMoves DEF PCs, Moves
  <2>3. EraseTypes' /\ ChainInBounds' /\ Alone(t)
    BY <1>1, <1>2, <2>1, <2>2 
       DEF HoldInv, EraseTypes, Moves, ChainInBounds, Alone, SetState, Pending, 
           EntryStates
  <2>4. Placed(t)'
    BY <1>1, <1>2, <2>1, <2>2 
       DEF EraseTypes, Placed, TakenPCs, LastPCs, PrevPCs
  <2>5. ASSUME NEW s \in Slots, state'[s] \in Pending
        PROVE  Has(t, s)' \/ (state[s] \in Pending /\ ~Has(t, s))
    <3>1. CASE s = pos[t]
      <4>1. l = "call" => op[t].kind = "TryApply" /\ hit'[t] = s
        BY <1>1, <2>1, <2>2, <3>1 
           DEF HoldInv, Placed, EraseTypes, Claim, LockEntry, Tag, Goto
      <4> QED BY <1>2, <2>2, <3>1, <4>1 DEF Has, Holds
    <3>2. CASE s # pos[t]
      <4>1. state'[s] = state[s]
        BY <1>1, <2>1, <3>2 DEF SetState, EraseTypes
      <4>2. ~Has(t, s)
        BY <1>1, <2>1, <3>2 DEF Claim, LockEntry, Tag, Has, Holds, HoldsInErase,
           TakenPCs, LastPCs, PrevPCs
      <4> QED BY <2>5, <4>1, <4>2
    <3> QED BY <3>1, <3>2
  <2> QED BY <2>3, <2>4, <2>5, HoldStep
<1> QED BY <1>3, <1>4

\* ... with which it keeps what it holds, ...
LEMMA WorkKeepsHoldInv == 
  ASSUME HoldInv, NEW t \in Threads, UNCHANGED eraseVars,
         \/ InitEntry(t) \/ CountEntry(t) \/ UpdateEntry(t) 
         \/ CallFunction(t) \/ StoreResult(t)
  PROVE  HoldInv'
<1>1. EraseTypes /\ ChainInBounds /\ Placed(t)
  BY DEF HoldInv
<1>2. /\ UNCHANGED <<state, next, allocated, del, prev, last, cur, resumed>>
      /\ UNCHANGED <<op, hit, frames, pos>>
  BY DEF InitEntry, CountEntry, UpdateEntry, CallFunction, StoreResult, entries, 
     chain, eraseVars, history
<1>3. PICK l \in {"count", "publish", "release", "store", "done"} :
        /\ Goto(t, l)
        /\ l = "count" => pc[t] = "init"
        /\ l = "publish" => pc[t] = "count"
        /\ l = "store" => pc[t] = "call"
        /\ l = "release" => pc[t] = "update" \/ pc[t] = "store"
        /\ l = "done" => pc[t] = "store" /\ op[t].kind = "Apply"
  BY DEF InitEntry, CountEntry, UpdateEntry, CallFunction, StoreResult
<1>4. Moves(t, {l}) /\ pc'[t] = l
  BY <1>1, <1>2, <1>3, GotoMoves DEF PCs, Moves
<1>5. key' \in [Slots -> Keys \cup {NoKey}]
  <2>1. op[t].key \in Keys \cup {NoKey}
    BY <1>1 DEF EraseTypes
  <2>2. \/ UNCHANGED key 
        \/ key' = [key EXCEPT ![pos[t]] = MyKey(t)]
    BY DEF InitEntry, CountEntry, UpdateEntry, CallFunction, StoreResult, entries
  <2> QED BY <1>1, <2>1, <2>2 DEF EraseTypes, MyKey
<1>6. EraseTypes' /\ ChainInBounds' /\ Alone(t)
  BY <1>1, <1>2, <1>4, <1>5 DEF EraseTypes, Moves, ChainInBounds, Alone
<1>7. Placed(t)'
  BY <1>1, <1>2, <1>3, <1>4 DEF Placed, TakenPCs, LastPCs, PrevPCs
<1>8. \A s \in Slots : Has(t, s) => Has(t, s)'
  BY <1>1, <1>2, <1>3, <1>4 
     DEF Has, Holds, HoldsInErase, TakenPCs, LastPCs, PrevPCs, Placed
<1> QED BY <1>2, <1>6, <1>7, <1>8, KeepStep

\* ... and with which it gives it back.
LEMMA GiveKeepsHoldInv == 
  ASSUME HoldInv, NEW t \in Threads, UNCHANGED eraseVars,
         Publish(t) \/ Release(t)
  PROVE  HoldInv'
<1>1. EraseTypes /\ ChainInBounds /\ Placed(t)
  BY DEF HoldInv
<1>2. /\ UNCHANGED <<key, next, allocated, del, prev, last, cur, resumed>>
      /\ UNCHANGED <<op, hit, frames, pos>>
      /\ pc[t] \in {"publish", "release"} 
      /\ Goto(t, "done") /\ SetState(pos[t], "USED")
  BY DEF Publish, Release, Finish, chain, eraseVars, history
<1>3. Moves(t, {"done"}) /\ pc'[t] = "done"
  BY <1>1, <1>2, GotoMoves DEF PCs, Moves
<1>4. EraseTypes' /\ ChainInBounds' /\ Alone(t)
  BY <1>1, <1>2, <1>3 
     DEF EraseTypes, Moves, ChainInBounds, Alone, SetState, EntryStates
<1>5. Placed(t)'
  BY <1>3 DEF Placed, TakenPCs, LastPCs, PrevPCs
<1>6. \A s \in Slots : s # pos[t] => ~Has(t, s)
  BY <1>2 DEF Has, Holds, HoldsInErase, TakenPCs, LastPCs, PrevPCs
<1>7. "USED" \notin Pending
  BY DEF Pending
<1> QED BY <1>2, <1>4, <1>5, <1>6, <1>7, EntryStep

LEMMA HashmapStepKeepsHoldInv == 
  ASSUME HoldInv, Next /\ UNCHANGED eraseVars
  PROVE  HoldInv'
<1>1. CASE Terminating
  BY <1>1 DEF HoldInv, Terminating, vars, entries, chain, local, eraseVars, 
     history, EraseTypes, ChainInBounds, PendingIsHeld, Has, Holds, HoldsInErase, 
     Placed
<1>2. ASSUME NEW t \in Threads, CallAny(t) PROVE HoldInv'
  BY <1>2, CallKeepsHoldInv DEF CallAny
<1>3. ASSUME NEW t \in Threads, InsertStep(t) PROVE HoldInv'
  BY <1>3, SearchKeepsHoldInv, TakeKeepsHoldInv, WorkKeepsHoldInv, 
     GiveKeepsHoldInv, GrowKeepsHoldInv DEF InsertStep
<1>4. ASSUME NEW t \in Threads, ScanStep(t) PROVE HoldInv'
  BY <1>4, SearchKeepsHoldInv, TakeKeepsHoldInv, WorkKeepsHoldInv, 
     FoundKeepsHoldInv, HopKeepsHoldInv DEF ScanStep
<1>5. ASSUME NEW t \in Threads, Return(t) PROVE HoldInv'
  BY <1>5, SearchKeepsHoldInv
<1> QED BY <1>1, <1>2, <1>3, <1>4, <1>5 DEF Next, Step

-----------------------------------------------------------------------------
(* The steps of Erase.                                                     *)

\* the search for the entry of the key
LEMMA EraseSearchKeepsHoldInv == 
  ASSUME HoldInv, NEW t \in Threads, 
         \/ ScanErase(t) \/ WaitErase(t) \/ CompareErase(t) \/ NextErase(t) 
         \/ ReadPending(t) \/ ReadAgain(t)
  PROVE  HoldInv'
<1> USE DEF PCs, ErasePCs, FreeHands
<1>1. EraseTypes /\ ChainInBounds /\ pos[t][1] \in Buckets
  BY DEF HoldInv, EraseTypes, Slots
<1>2. /\ UNCHANGED <<state, key, next, allocated, del, prev, last, cur, resumed>>
      /\ UNCHANGED <<op, hit, frames>>
  BY DEF ScanErase, WaitErase, CompareErase, NextErase, ReadPending, ReadAgain,
     entries, chain, eraseVars, history
<1>3. /\ pc[t] \in FreeHands /\ Moves(t, FreeHands)
      /\ pc'[t] \notin {"link", "tag"}
  <2>1. CASE ScanErase(t)
    BY <1>1, <2>1, GotoMoves DEF ScanErase, Moves
  <2>2. CASE WaitErase(t)
    BY <1>1, <2>2, GotoMoves DEF WaitErase, Moves
  <2>3. CASE CompareErase(t)
    <3>1. \/ Goto(t, "e_claim") /\ UNCHANGED pos 
          \/ NextEntry(t, "e_scan", "e_next")
      BY <2>3 DEF CompareErase
    <3>2. pc[t] = "e_compare" 
      BY <2>3 DEF CompareErase
    <3>3. CASE Goto(t, "e_claim") /\ UNCHANGED pos 
      BY <1>1, <3>2, <3>3, GotoMoves DEF Moves
    <3>4. CASE NextEntry(t, "e_scan", "e_next")
      <4>1. "e_scan" \in PCs \cup ErasePCs /\ "e_next" \in PCs \cup ErasePCs
        OBVIOUS
      <4>2. Moves(t, {"e_scan", "e_next"})
        BY <1>1, <3>4, <4>1, NextEntryMoves
      <4> QED BY <3>2, <4>2 DEF Moves
    <3> QED BY <3>1, <3>3, <3>4
  <2>4. CASE NextErase(t)
    <3>1. pos[t][1] + 1 \in Buckets \/ ~next[pos[t][1]]
      BY <1>1 DEF ChainInBounds
    <3>2. CASE next[pos[t][1]]
      BY <1>1, <2>4, <3>1, <3>2, EnterBucketMoves DEF NextErase, Moves
    <3>3. CASE ~next[pos[t][1]]
      BY <1>1, <2>4, <3>3, FirstSlotIsFirst DEF NextErase, Moves, Goto, EraseTypes
    <3> QED BY <3>2, <3>3
  <2>5. CASE ReadPending(t)
    BY <1>1, <2>5, GotoMoves DEF ReadPending, Moves
  <2>6. CASE ReadAgain(t)
    BY <1>1, <2>6, GotoMoves DEF ReadAgain, Moves
  <2> QED BY <2>1, <2>2, <2>3, <2>4, <2>5, <2>6
<1> QED BY <1>1, <1>2, <1>3, FreeHandsStep DEF EraseTypes

\* the calls of Erase, of a task or of Erase itself
LEMMA BeginKeepsHoldInv == 
  ASSUME HoldInv, NEW t \in Threads, 
         \/ \E k \in MayErase[t] : CallErase(t, k) 
         \/ ClaimEraseFails(t) \/ Recount(t)
         \/ Looked(t) /\ res[t] = "found"
  PROVE  HoldInv'
<1>1. EraseTypes
  BY DEF HoldInv
<1>2. /\ UNCHANGED <<state, key, next, allocated, del, prev, last, cur, resumed>>
      /\ Begin(t) /\ pc[t] \in FreeHands
  BY DEF CallErase, ClaimEraseFails, Recount, Looked, entries, chain, eraseVars, 
     history, FreeHands
<1>3. /\ op' \in [Threads -> [kind : AllKinds \cup {EraseKind}, 
                             key : Keys \cup {NoKey}]]
      /\ \A u \in Threads \ {t} : op'[u] = op[u]
  <2>1. CASE UNCHANGED op
    BY <1>1, <2>1 DEF EraseTypes
  <2>2. ASSUME NEW k \in MayErase[t], CallErase(t, k) 
        PROVE  /\ op' \in [Threads -> [kind : AllKinds \cup {EraseKind}, 
                                       key : Keys \cup {NoKey}]]
               /\ \A u \in Threads \ {t} : op'[u] = op[u]
    <3>1. k \in Keys
      BY MayEraseAssumption
    <3>2. op' = [op EXCEPT ![t] = [kind |-> EraseKind, key |-> k]]
      BY <2>2 DEF CallErase
    <3> QED BY <1>1, <3>1, <3>2 DEF EraseTypes
  <2> QED BY <2>1, <2>2 DEF ClaimEraseFails, Recount, Looked
<1>4. frames' \in [Threads -> Seq(Slots)]
  <2>1. CASE UNCHANGED frames
    BY <1>1, <2>1 DEF EraseTypes
  <2>2. CASE ClaimEraseFails(t)
    <3>1. <<pos[t]>> \o frames[t] \in Seq(Slots)
      BY <1>1 DEF EraseTypes
    <3> QED BY <1>1, <2>2, <3>1 DEF EraseTypes, ClaimEraseFails
  <2> QED BY <2>1, <2>2 DEF CallErase, Recount, Looked, eraseVars
<1>5. Moves(t, FreeHands) /\ pc'[t] \notin {"link", "tag"}
  BY <1>1, <1>2, BeginMoves DEF Moves, FreeHands
<1> QED BY <1>1, <1>2, <1>3, <1>4, <1>5, BeginMoves, FreeHandsStep DEF EraseTypes

\* a return, or the entry at which a suspended call resumes
LEMMA LeaveMoves == 
  ASSUME EraseTypes, NEW t \in Threads, Leave(t)
  PROVE  /\ Moves(t, {"done", "e_take"})
         /\ frames' \in [Threads -> Seq(Slots)] /\ resumed' \in BOOLEAN
         /\ ~resumed' => /\ pc'[t] = "done" /\ ~resumed
                         /\ UNCHANGED <<pos, frames, filled>>
<1>1. CASE frames[t] = <<>>
  <2>1. Goto(t, "done") /\ UNCHANGED <<pos, frames, resumed, filled>>
    BY <1>1 DEF Leave, Finish, history
  <2>2. Moves(t, {"done"})
    BY <2>1, GotoMoves DEF PCs
  <2> QED BY <2>1, <2>2 DEF Moves, EraseTypes
<1>2. CASE frames[t] # <<>>
  <2>1. /\ resumed' = TRUE /\ pos' = [pos EXCEPT ![t] = Head(frames[t])]
        /\ frames' = [frames EXCEPT ![t] = Tail(frames[t])]
        /\ Goto(t, "e_take")
    BY <1>2 DEF Leave
  <2>2. frames[t] \in Seq(Slots)
    BY DEF EraseTypes
  <2>3. Head(frames[t]) \in Slots /\ Tail(frames[t]) \in Seq(Slots)
    BY <1>2, <2>2
  <2> QED BY <2>1, <2>3 DEF EraseTypes, Moves, Goto, ErasePCs
<1> QED BY <1>1, <1>2

LEMMA LookedKeepsHoldInv == 
  ASSUME HoldInv, NEW t \in Threads, Looked(t), res[t] # "found" 
  PROVE  HoldInv'
<1>1. EraseTypes
  BY DEF HoldInv
<1>2. /\ UNCHANGED <<state, key, next, allocated, del, prev, last, cur, op, hit>>
      /\ Leave(t) /\ pc[t] = "looked"
  BY DEF Looked, entries, chain
<1>3. Moves(t, {"done", "e_take"}) /\ pc'[t] \in {"done", "e_take"}
  BY <1>1, <1>2, LeaveMoves DEF Moves
<1>4. EraseTypes' /\ ChainInBounds' /\ Alone(t)
  BY <1>1, <1>2, <1>3, LeaveMoves 
     DEF HoldInv, EraseTypes, Moves, ChainInBounds, Alone
<1>5. Placed(t)' /\ \A s \in Slots : ~Has(t, s)
  BY <1>2, <1>3 DEF Placed, Has, Holds, HoldsInErase, TakenPCs, LastPCs, PrevPCs
<1> QED BY <1>2, <1>4, <1>5, KeepStep

LEMMA ClaimEraseKeepsHoldInv == 
  ASSUME HoldInv, NEW t \in Threads, ClaimErase(t)
  PROVE  HoldInv'
<1>1. EraseTypes
  BY DEF HoldInv
<1>2. /\ UNCHANGED <<key, next, allocated, del, prev, last, cur, resumed>>
      /\ UNCHANGED <<op, hit, frames, pos>>
      /\ pc[t] = "e_claim" /\ Goto(t, "e_take") 
      /\ SetState(pos[t], "PENDING_INSERT")
  BY DEF ClaimErase, chain, eraseVars, history
<1> PICK c \in Slots : c = pos[t]
  BY <1>1 DEF EraseTypes
<1>3. Moves(t, {"e_take"}) /\ pc'[t] = "e_take"
  BY <1>1, <1>2, GotoMoves DEF ErasePCs, Moves
<1>4. EraseTypes' /\ ChainInBounds' /\ Alone(t)
  BY <1>1, <1>2, <1>3 DEF HoldInv, EraseTypes, Moves, ChainInBounds, Alone, 
     SetState, EntryStates
<1>5. Placed(t)' /\ Has(t, c)' 
  BY <1>2, <1>3 DEF Placed, Has, HoldsInErase, TakenPCs, LastPCs, PrevPCs
<1>6. \A s \in Slots : ~Has(t, s)
  BY <1>2 DEF Has, Holds, HoldsInErase, TakenPCs, LastPCs, PrevPCs
<1> QED BY <1>2, <1>4, <1>5, <1>6, EntryStep

LEMMA TakeEraseKeepsHoldInv == 
  ASSUME HoldInv, NEW t \in Threads, Take(t)
  PROVE  HoldInv'
<1>1. EraseTypes /\ pos[t] \in Slots /\ pos[t][1] \in Buckets
  BY DEF HoldInv, EraseTypes, Slots
<1>2. /\ UNCHANGED <<state, key, next, allocated, op, hit, frames, pos, resumed>>
      /\ pc[t] = "e_take" 
      /\ del' = [del EXCEPT ![t] = pos[t]] /\ prev' = [prev EXCEPT ![t] = pos[t]]
      /\ last' = [last EXCEPT ![t] = NoSlot] 
      /\ cur' = [cur EXCEPT ![t] = <<pos[t][1], pos[t][2] + 1>>]
      /\ Goto(t, IF LastInBucket(pos[t]) THEN "e_chain" ELSE "e_tail")
  BY DEF Take, entries, chain, history
<1>3. /\ <<pos[t][1], pos[t][2] + 1>> \in Buckets \X (0..BucketSize) 
      /\ ~LastInBucket(pos[t]) => <<pos[t][1], pos[t][2] + 1>> \in Slots
  BY <1>1, NextSlot, BucketSizeAssumption DEF Slots
<1>4. /\ Moves(t, {"e_chain", "e_tail"}) 
      /\ pc'[t] = IF LastInBucket(pos[t]) THEN "e_chain" ELSE "e_tail"
  BY <1>1, <1>2, GotoMoves DEF ErasePCs, Moves, Goto, EraseTypes
<1>5. EraseTypes' /\ ChainInBounds' /\ Alone(t)
  BY <1>1, <1>2, <1>3, <1>4 DEF HoldInv, EraseTypes, Moves, ChainInBounds, Alone
<1>6. /\ del'[t] = pos[t] /\ prev'[t] = pos[t] /\ last'[t] = NoSlot
      /\ cur'[t] = <<pos[t][1], pos[t][2] + 1>>
  BY <1>1, <1>2 DEF EraseTypes
<1>7. Placed(t)' 
  BY <1>1, <1>3, <1>4, <1>6 DEF Placed, TakenPCs, LastPCs, PrevPCs
<1>8. \A s \in Slots : Has(t, s) => Has(t, s)'
  BY <1>2, <1>4, <1>6 DEF Has, Holds, HoldsInErase, TakenPCs, LastPCs, PrevPCs
<1> QED BY <1>2, <1>5, <1>7, <1>8, KeepStep

LEMMA HoldLastKeepsHoldInv == 
  ASSUME HoldInv, NEW t \in Threads, HoldLast(t)
  PROVE  HoldInv'
<1>1. EraseTypes /\ Placed(t)
  BY DEF HoldInv
<1>2. /\ UNCHANGED <<key, next, allocated, op, hit, frames, pos, resumed>>
      /\ UNCHANGED <<del, prev, cur>>
      /\ pc[t] = "e_tail" /\ last' = [last EXCEPT ![t] = cur[t]]
  BY DEF HoldLast, chain, history
<1>3. /\ cur[t] \in Slots /\ prev[t] \in Slots /\ del[t] \in Slots 
      /\ last'[t] = cur[t]
  BY <1>1, <1>2 DEF Placed, EraseTypes, TakenPCs
<1> PICK c \in Slots : c = cur[t]
  BY <1>3
<1>4. CASE state[c] = "EMPTY"
  <2>1. PICK l \in {"e_drop", "e_prev"} : Goto(t, l) 
    BY <1>4, "e_drop" \in {"e_drop", "e_prev"}, "e_prev" \in {"e_drop", "e_prev"} 
       DEF HoldLast
  <2>2. SetState(c, "PENDING_INSERT")
    BY <1>4 DEF HoldLast
  <2>3. Moves(t, {l}) /\ pc'[t] = l
    BY <1>1, <1>2, <2>1, GotoMoves DEF ErasePCs, Moves
  <2>4. EraseTypes' /\ ChainInBounds' /\ Alone(t)
    BY <1>1, <1>2, <1>3, <2>2, <2>3 DEF HoldInv, EraseTypes, Moves, ChainInBounds, 
       Alone, SetState, EntryStates
  <2>5. Placed(t)' /\ Has(t, c)'
    BY <1>2, <1>3, <2>3 DEF Placed, Has, HoldsInErase, TakenPCs, LastPCs, PrevPCs
  <2>6. \A s \in Slots : Has(t, s) => Has(t, s)'
    BY <1>2, <2>3 DEF Has, Holds, HoldsInErase, TakenPCs, LastPCs, PrevPCs
  <2> QED BY <2>2, <2>4, <2>5, <2>6, EntryStep
<1>5. CASE state[c] # "EMPTY"
  <2>1. UNCHANGED state /\ Goto(t, "e_check")
    BY <1>5 DEF HoldLast
  <2>2. Moves(t, {"e_check"}) /\ pc'[t] = "e_check"
    BY <1>1, <1>2, <2>1, GotoMoves DEF ErasePCs, Moves
  <2>3. EraseTypes' /\ ChainInBounds' /\ Alone(t)
    BY <1>1, <1>2, <1>3, <2>1, <2>2 
       DEF HoldInv, EraseTypes, Moves, ChainInBounds, Alone
  <2>4. Placed(t)' 
    BY <1>2, <1>3, <2>2 DEF Placed, TakenPCs, LastPCs, PrevPCs
  <2>5. \A s \in Slots : Has(t, s) => Has(t, s)'
    BY <1>2, <2>2 DEF Has, Holds, HoldsInErase, TakenPCs, LastPCs, PrevPCs
  <2> QED BY <2>1, <2>3, <2>4, <2>5, KeepStep
<1> QED BY <1>4, <1>5

LEMMA CheckKeepsHoldInv == 
  ASSUME HoldInv, NEW t \in Threads, Check(t)
  PROVE  HoldInv'
<1>1. EraseTypes /\ Placed(t)
  BY DEF HoldInv
<1>2. /\ UNCHANGED <<state, key, next, allocated, op, hit, frames, pos, resumed>>
      /\ UNCHANGED <<del, last>> /\ pc[t] = "e_check"
  BY DEF Check, entries, chain, history
<1>3. cur[t] = last[t] /\ cur[t] \in Slots /\ prev[t] \in Slots /\ del[t] \in Slots 
  BY <1>1, <1>2 DEF Placed, TakenPCs
<1>4. CASE state[last[t]] = "PENDING_INSERT"
  <2>1. Goto(t, "e_undo") /\ UNCHANGED <<prev, cur>>
    BY <1>4 DEF Check
  <2>2. Moves(t, {"e_undo"}) /\ pc'[t] = "e_undo"
    BY <1>1, <1>2, <2>1, GotoMoves DEF ErasePCs, Moves
  <2>3. EraseTypes' /\ ChainInBounds' /\ Alone(t)
    BY <1>1, <1>2, <2>1, <2>2 DEF HoldInv, EraseTypes, Moves, ChainInBounds, Alone
  <2>4. Placed(t)' 
    BY <1>2, <1>3, <2>1, <2>2 DEF Placed, TakenPCs, LastPCs, PrevPCs
  <2>5. \A s \in Slots : Has(t, s) => Has(t, s)'
    BY <1>2, <2>2 DEF Has, Holds, HoldsInErase, TakenPCs, LastPCs, PrevPCs
  <2> QED BY <1>2, <2>3, <2>4, <2>5, KeepStep
<1>5. CASE state[last[t]] # "PENDING_INSERT"
  <2>1. /\ Goto(t, IF LastInBucket(cur[t]) THEN "e_chain" ELSE "e_tail")
        /\ prev' = [prev EXCEPT ![t] = last[t]]
        /\ cur' = [cur EXCEPT ![t] = <<cur[t][1], cur[t][2] + 1>>]
    BY <1>5 DEF Check
  <2>2. /\ <<cur[t][1], cur[t][2] + 1>> \in Buckets \X (0..BucketSize) 
        /\ ~LastInBucket(cur[t]) => <<cur[t][1], cur[t][2] + 1>> \in Slots
        /\ cur[t][1] \in Buckets
    BY <1>3, NextSlot, BucketSizeAssumption DEF Slots
  <2>3. /\ Moves(t, {"e_chain", "e_tail"}) 
        /\ pc'[t] = IF LastInBucket(cur[t]) THEN "e_chain" ELSE "e_tail"
    BY <1>1, <1>2, <2>1, GotoMoves DEF ErasePCs, Moves, Goto, EraseTypes
  <2>4. EraseTypes' /\ ChainInBounds' /\ Alone(t)
    BY <1>1, <1>2, <1>3, <2>1, <2>2, <2>3 
       DEF HoldInv, EraseTypes, Moves, ChainInBounds, Alone
  <2>5. prev'[t] = last[t] /\ cur'[t] = <<cur[t][1], cur[t][2] + 1>>
    BY <1>1, <2>1 DEF EraseTypes
  <2>6. Placed(t)' 
    BY <1>2, <1>3, <2>2, <2>3, <2>5 DEF Placed, TakenPCs, LastPCs, PrevPCs
  <2>7. \A s \in Slots : Has(t, s) => Has(t, s)'
    BY <1>2, <2>3 DEF Has, Holds, HoldsInErase, TakenPCs, LastPCs, PrevPCs
  <2> QED BY <1>2, <2>4, <2>6, <2>7, KeepStep
<1> QED BY <1>4, <1>5

LEMMA ChainKeepsHoldInv == 
  ASSUME HoldInv, NEW t \in Threads, Chain(t)
  PROVE  HoldInv'
<1>1. EraseTypes /\ ChainInBounds /\ Placed(t)
  BY DEF HoldInv
<1>2. /\ UNCHANGED <<key, next, allocated, op, hit, frames, pos, resumed>>
      /\ UNCHANGED <<del, prev, last>> /\ pc[t] = "e_chain"
  BY DEF Chain, chain, history
<1>3. /\ cur[t][1] \in Buckets /\ del[t] \in Slots /\ prev[t] \in Slots
      /\ last[t] # NoSlot => last[t] \in Slots /\ prev[t] = last[t]
  BY <1>1, <1>2 DEF Placed, TakenPCs
<1>4. CASE next[cur[t][1]]
  <2>1. /\ UNCHANGED state /\ Goto(t, "e_tail")
        /\ cur' = [cur EXCEPT ![t] = <<cur[t][1] + 1, 0>>]
    BY <1>4 DEF Chain
  <2>2. /\ <<cur[t][1] + 1, 0>> \in Slots 
        /\ <<cur[t][1] + 1, 0>> \in Buckets \X (0..BucketSize)
    BY <1>1, <1>3, <1>4, BucketSizeAssumption DEF ChainInBounds, Slots
  <2>3. Moves(t, {"e_tail"}) /\ pc'[t] = "e_tail"
    BY <1>1, <1>2, <2>1, GotoMoves DEF ErasePCs, Moves
  <2>4. EraseTypes' /\ ChainInBounds' /\ Alone(t) /\ cur'[t] \in Slots
    BY <1>1, <1>2, <2>1, <2>2, <2>3 DEF EraseTypes, Moves, ChainInBounds, Alone
  <2>5. Placed(t)' 
    BY <1>2, <1>3, <2>3, <2>4 DEF Placed, TakenPCs, LastPCs, PrevPCs
  <2>6. \A s \in Slots : Has(t, s) => Has(t, s)'
    BY <1>2, <2>3 DEF Has, Holds, HoldsInErase, TakenPCs, LastPCs, PrevPCs
  <2> QED BY <2>1, <2>4, <2>5, <2>6, KeepStep
<1>5. CASE /\ ~next[cur[t][1]] 
           /\ last[t] = NoSlot \/ state[last[t]] # "USED"
  <2>1. /\ Goto(t, "e_cleardel") \/ Goto(t, "e_undo") 
        /\ UNCHANGED <<state, cur>>
    BY <1>5 DEF Chain
  <2>2. /\ Moves(t, {"e_cleardel", "e_undo"}) 
        /\ pc'[t] = "e_cleardel" \/ pc'[t] = "e_undo"
    BY <1>1, <1>2, <2>1, GotoMoves DEF ErasePCs, Moves
  <2>3. EraseTypes' /\ ChainInBounds' /\ Alone(t)
    BY <1>1, <1>2, <2>1, <2>2 DEF EraseTypes, Moves, ChainInBounds, Alone
  <2>4. Placed(t)' 
    BY <1>2, <1>3, <2>2 DEF Placed, TakenPCs, LastPCs, PrevPCs
  <2>5. \A s \in Slots : Has(t, s) => Has(t, s)'
    BY <1>2, <2>2 DEF Has, Holds, HoldsInErase, TakenPCs, LastPCs, PrevPCs
  <2> QED BY <2>1, <2>3, <2>4, <2>5, KeepStep
<1>6. CASE ~next[cur[t][1]] /\ last[t] # NoSlot /\ state[last[t]] = "USED"
  <2> PICK c \in Slots : c = last[t] /\ c = prev[t]
    BY <1>3, <1>6
  <2>1. /\ SetState(c, "PENDING_INSERT") /\ Goto(t, "e_move") /\ UNCHANGED cur
    BY <1>6 DEF Chain
  <2>2. Moves(t, {"e_move"}) /\ pc'[t] = "e_move"
    BY <1>1, <1>2, <2>1, GotoMoves DEF ErasePCs, Moves
  <2>3. EraseTypes' /\ ChainInBounds' /\ Alone(t)
    BY <1>1, <1>2, <2>1, <2>2 DEF EraseTypes, Moves, ChainInBounds, Alone, 
       SetState, EntryStates
  <2>4. Placed(t)' /\ Has(t, c)'
    BY <1>2, <1>3, <2>2 DEF Placed, TakenPCs, LastPCs, PrevPCs, Has, HoldsInErase
  <2>5. \A s \in Slots : Has(t, s) => Has(t, s)'
    BY <1>2, <2>2 DEF Has, Holds, HoldsInErase, TakenPCs, LastPCs, PrevPCs
  <2> QED BY <2>1, <2>3, <2>4, <2>5, EntryStep
<1> QED BY <1>4, <1>5, <1>6

LEMMA LockPrevKeepsHoldInv == 
  ASSUME HoldInv, NEW t \in Threads, LockPrev(t)
  PROVE  HoldInv'
<1>1. EraseTypes /\ ChainInBounds /\ Placed(t)
  BY DEF HoldInv
<1>2. /\ UNCHANGED <<key, next, allocated, op, hit, frames, pos, resumed>>
      /\ UNCHANGED <<del, prev, last, cur>> /\ pc[t] = "e_prev"
  BY DEF LockPrev, chain, eraseVars, history
<1>3. del[t] \in Slots /\ prev[t] \in Slots /\ last[t] \in Slots
  BY <1>1, <1>2 DEF Placed, TakenPCs, LastPCs
<1> PICK c \in Slots : c = prev[t]
  BY <1>3
<1>4. CASE state[c] = "USED"
  <2>1. SetState(c, "PENDING_INSERT") /\ Goto(t, "e_free")
    BY <1>4 DEF LockPrev
  <2>2. Moves(t, {"e_free"}) /\ pc'[t] = "e_free"
    BY <1>1, <1>2, <2>1, GotoMoves DEF ErasePCs, Moves
  <2>3. EraseTypes' /\ ChainInBounds' /\ Alone(t)
    BY <1>1, <1>2, <2>1, <2>2 DEF EraseTypes, Moves, ChainInBounds, Alone, 
       SetState, EntryStates
  <2>4. Placed(t)' /\ Has(t, c)'
    BY <1>2, <1>3, <2>2 DEF Placed, TakenPCs, LastPCs, PrevPCs, Has, HoldsInErase
  <2>5. \A s \in Slots : Has(t, s) => Has(t, s)'
    BY <1>2, <2>2 DEF Has, Holds, HoldsInErase, TakenPCs, LastPCs, PrevPCs
  <2> QED BY <2>1, <2>3, <2>4, <2>5, EntryStep
<1>5. CASE state[c] # "USED"
  <2>1. Goto(t, "e_unlast") /\ UNCHANGED state
    BY <1>5 DEF LockPrev
  <2>2. Moves(t, {"e_unlast"}) /\ pc'[t] = "e_unlast"
    BY <1>1, <1>2, <2>1, GotoMoves DEF ErasePCs, Moves
  <2>3. EraseTypes' /\ ChainInBounds' /\ Alone(t)
    BY <1>1, <1>2, <2>1, <2>2 DEF EraseTypes, Moves, ChainInBounds, Alone
  <2>4. Placed(t)'
    BY <1>2, <1>3, <2>2 DEF Placed, TakenPCs, LastPCs, PrevPCs
  <2>5. \A s \in Slots : Has(t, s) => Has(t, s)'
    BY <1>2, <2>2 DEF Has, Holds, HoldsInErase, TakenPCs, LastPCs, PrevPCs
  <2> QED BY <2>1, <2>3, <2>4, <2>5, KeepStep
<1> QED BY <1>4, <1>5

\* the stores that let go of an entry
LEMMA FreeLastKeepsHoldInv == 
  ASSUME HoldInv, NEW t \in Threads, FreeLast(t)
  PROVE  HoldInv'
<1>1. EraseTypes /\ ChainInBounds /\ Placed(t)
  BY DEF HoldInv
<1>2. /\ UNCHANGED <<key, next, allocated, op, hit, frames, pos, resumed>>
      /\ UNCHANGED <<del, prev, last, cur>> 
      /\ pc[t] \in {"e_free", "e_drop", "e_unlast"} /\ SetState(last[t], "EMPTY")
  BY DEF FreeLast, chain, eraseVars, history
<1>3. PICK l \in {"e_move", "e_cleardel", "e_undo"} : 
        Goto(t, l) /\ (l = "e_move" <=> pc[t] = "e_free")
  BY DEF FreeLast
<1>4. Moves(t, {l}) /\ pc'[t] = l
  BY <1>1, <1>2, <1>3, GotoMoves DEF ErasePCs, Moves
<1>5. EraseTypes' /\ ChainInBounds' /\ Alone(t)
  BY <1>1, <1>2, <1>4 DEF EraseTypes, Moves, ChainInBounds, Alone, SetState, 
     EntryStates
<1>6. Placed(t)'
  BY <1>1, <1>2, <1>3, <1>4 DEF Placed, TakenPCs, LastPCs, PrevPCs
<1>7. \A s \in Slots : s # last[t] /\ Has(t, s) => Has(t, s)'
  BY <1>2, <1>3, <1>4 DEF Has, Holds, HoldsInErase, TakenPCs, LastPCs, PrevPCs
<1> QED BY <1>2, <1>5, <1>6, <1>7, EntryStep DEF Pending

LEMMA MoveKeepsHoldInv == 
  ASSUME HoldInv, NEW t \in Threads, Move(t)
  PROVE  HoldInv'
<1>1. EraseTypes /\ ChainInBounds /\ Placed(t)
  BY DEF HoldInv
<1>2. /\ UNCHANGED <<state, next, allocated, op, hit, frames, pos, resumed>>
      /\ UNCHANGED <<del, prev, last, cur>> 
      /\ pc[t] = "e_move" /\ Goto(t, "e_publish")
      /\ key' = [key EXCEPT ![del[t]] = key[prev[t]]]
  BY DEF Move, chain, eraseVars, history
<1>3. Moves(t, {"e_publish"}) /\ pc'[t] = "e_publish"
  BY <1>1, <1>2, GotoMoves DEF ErasePCs, Moves
<1>4. del[t] \in Slots /\ prev[t] \in Slots 
  BY <1>1, <1>2 DEF Placed, TakenPCs
<1>5. EraseTypes' /\ ChainInBounds' /\ Alone(t)
  BY <1>1, <1>2, <1>3, <1>4 DEF EraseTypes, Moves, ChainInBounds, Alone
<1>6. Placed(t)'
  BY <1>2, <1>3, <1>4 DEF Placed, TakenPCs, LastPCs, PrevPCs
<1>7. \A s \in Slots : Has(t, s) => Has(t, s)'
  BY <1>2, <1>3 DEF Has, Holds, HoldsInErase, TakenPCs, LastPCs, PrevPCs
<1> QED BY <1>2, <1>5, <1>6, <1>7, KeepStep

LEMMA GiveBackKeepsHoldInv == 
  ASSUME HoldInv, NEW t \in Threads, PublishMoved(t) \/ Undo(t)
  PROVE  HoldInv'
<1>1. EraseTypes /\ ChainInBounds /\ Placed(t)
  BY DEF HoldInv
<1>2. /\ UNCHANGED <<key, next, allocated, op, hit, frames, pos, resumed>>
      /\ UNCHANGED <<del, prev, last, cur>> /\ SetState(del[t], "USED")
  BY DEF PublishMoved, Undo, chain, eraseVars, history
<1>3. \/ pc[t] = "e_publish" /\ Goto(t, "e_clearprev")
      \/ pc[t] = "e_undo" /\ Goto(t, "e_recount")
  BY DEF PublishMoved, Undo
<1>4. /\ Moves(t, {"e_clearprev", "e_recount"})
      /\ \/ pc[t] = "e_publish" /\ pc'[t] = "e_clearprev"
         \/ pc[t] = "e_undo" /\ pc'[t] = "e_recount"
  BY <1>1, <1>2, <1>3, GotoMoves DEF ErasePCs, Moves
<1>5. EraseTypes' /\ ChainInBounds' /\ Alone(t)
  BY <1>1, <1>2, <1>4 DEF EraseTypes, Moves, ChainInBounds, Alone, SetState, 
     EntryStates
<1>6. Placed(t)'
  BY <1>1, <1>2, <1>4 DEF Placed, TakenPCs, LastPCs, PrevPCs
<1>7. \A s \in Slots : s # del[t] /\ Has(t, s) => Has(t, s)'
  BY <1>2, <1>4 DEF Has, Holds, HoldsInErase, TakenPCs, LastPCs, PrevPCs
<1> QED BY <1>2, <1>5, <1>6, <1>7, EntryStep DEF Pending

LEMMA ClearKeepsHoldInv == 
  ASSUME HoldInv, NEW t \in Threads, Clear(t)
  PROVE  HoldInv'
<1>1. EraseTypes /\ ChainInBounds /\ Placed(t)
  BY DEF HoldInv
<1>2. /\ UNCHANGED <<key, next, allocated, op, hit>>
      /\ UNCHANGED <<del, prev, last, cur>> 
      /\ pc[t] \in {"e_cleardel", "e_clearprev"} /\ Leave(t)
  BY DEF Clear, chain
<1> DEFINE e == IF pc[t] = "e_cleardel" THEN del[t] ELSE prev[t]
<1>3. SetState(e, "EMPTY")
  BY DEF Clear
<1>4. /\ Moves(t, {"done", "e_take"}) /\ pc'[t] \in {"done", "e_take"}
      /\ frames' \in [Threads -> Seq(Slots)] /\ resumed' \in BOOLEAN
  BY <1>1, <1>2, LeaveMoves DEF Moves
<1>5. EraseTypes' /\ ChainInBounds' /\ Alone(t)
  BY <1>1, <1>2, <1>3, <1>4 DEF EraseTypes, Moves, ChainInBounds, Alone, SetState, 
     EntryStates
<1>6. Placed(t)'
  BY <1>2, <1>4 DEF Placed, TakenPCs, LastPCs, PrevPCs
<1>7. \A s \in Slots : s # e => ~Has(t, s)
  BY <1>2 DEF Has, Holds, HoldsInErase, TakenPCs, LastPCs, PrevPCs
<1> QED BY <1>3, <1>5, <1>6, <1>7, EntryStep DEF Pending

LEMMA InitHolds == EraseInit => HoldInv
<1> SUFFICES ASSUME EraseInit PROVE HoldInv
  OBVIOUS
<1>1. PICK P \in SUBSET Slots : ListInit(P)
  BY DEF EraseInit, Init
<1>2. state = [s \in Slots |-> IF s \in P THEN "USED" ELSE "EMPTY"]
  BY <1>1 DEF ListInit
<1>3. state \in [Slots -> EntryStates]
  BY <1>2 DEF EntryStates
<1>4. key \in [Slots -> Keys \cup {NoKey}]
  <2>1. PICK f \in [P -> Keys] : 
          key = [s \in Slots |-> IF s \in P THEN f[s] ELSE NoKey]
    BY <1>1 DEF ListInit
  <2> QED BY <2>1
<1>5. /\ allocated = [b \in Buckets |-> \E s \in P : s[1] = b + 1]
      /\ next = [b \in Buckets |-> \E s \in P : s[1] = b + 1]
      /\ pc = [t \in Threads |-> "idle"] /\ pos = [t \in Threads |-> FirstSlot]
  BY <1>1 DEF ListInit
<1>6. op \in [Threads -> [kind : AllKinds \cup {EraseKind}, key : Keys \cup {NoKey}]]
  BY DEF EraseInit, Init, AllKinds
<1>7. EraseTypes
  <2>1. allocated \in [Buckets -> BOOLEAN] /\ next \in [Buckets -> BOOLEAN]
    BY <1>5
  <2>2. frames \in [Threads -> Seq(Slots)]
    BY DEF EraseInit
  <2>3. /\ hit \in [Threads -> Slots \cup {NoSlot}]
        /\ del \in [Threads -> Slots \cup {NoSlot}]
        /\ prev \in [Threads -> Slots \cup {NoSlot}]
        /\ last \in [Threads -> Slots \cup {NoSlot}]
        /\ cur \in [Threads -> (Buckets \X (0..BucketSize)) \cup {NoSlot}]
        /\ resumed \in BOOLEAN
    BY DEF EraseInit, Init
  <2>4. /\ pc \in [Threads -> PCs \cup ErasePCs]
        /\ pos \in [Threads -> Slots]
    BY <1>5, FirstSlotIsFirst DEF PCs
  <2> QED BY <1>3, <1>4, <1>6, <2>1, <2>2, <2>3, <2>4 DEF EraseTypes
<1>8. ChainInBounds
  BY <1>5 DEF ChainInBounds, Slots
<1>9. PendingIsHeld
  BY <1>2 DEF PendingIsHeld, Pending
<1>10. \A t \in Threads : Placed(t)
  BY <1>5 DEF Placed, TakenPCs, LastPCs, PrevPCs
<1> QED BY <1>7, <1>8, <1>9, <1>10 DEF HoldInv

LEMMA EraseStepKeepsHoldInv == 
  ASSUME HoldInv, NEW t \in Threads, 
         EraseStep(t) \/ \E k \in MayErase[t] : CallErase(t, k)
  PROVE  HoldInv'
<1>1. CASE Looked(t)
  BY <1>1, LookedKeepsHoldInv, BeginKeepsHoldInv
<1>2. CASE Clear(t) \/ Undo(t) \/ PublishMoved(t) \/ Move(t) \/ FreeLast(t)
  BY <1>2, ClearKeepsHoldInv, GiveBackKeepsHoldInv, MoveKeepsHoldInv, 
     FreeLastKeepsHoldInv
<1>3. CASE Take(t) \/ ClaimErase(t) \/ HoldLast(t) \/ Check(t) \/ Chain(t) \/ LockPrev(t)
  BY <1>3, TakeEraseKeepsHoldInv, ClaimEraseKeepsHoldInv, HoldLastKeepsHoldInv,
     CheckKeepsHoldInv, ChainKeepsHoldInv, LockPrevKeepsHoldInv
<1>4. CASE \/ ScanErase(t) \/ WaitErase(t) \/ CompareErase(t) \/ NextErase(t) 
           \/ ReadPending(t) \/ ReadAgain(t)
  BY <1>4, EraseSearchKeepsHoldInv
<1>5. CASE \/ ClaimEraseFails(t) \/ Recount(t) 
           \/ \E k \in MayErase[t] : CallErase(t, k)
  BY <1>5, BeginKeepsHoldInv
<1> QED BY <1>1, <1>2, <1>3, <1>4, <1>5 DEF EraseStep

LEMMA NextKeepsHoldInv == HoldInv /\ [EraseNext]_allVars => HoldInv'
<1> SUFFICES ASSUME HoldInv, [EraseNext]_allVars PROVE HoldInv'
  OBVIOUS
<1>1. CASE UNCHANGED allVars
  BY <1>1 DEF HoldInv, allVars, vars, entries, chain, local, eraseVars, 
     history, EraseTypes, ChainInBounds, PendingIsHeld, Has, Holds, HoldsInErase, 
     Placed
<1>2. CASE Next /\ UNCHANGED eraseVars
  BY <1>2, HashmapStepKeepsHoldInv
<1> QED BY <1>1, <1>2, EraseStepKeepsHoldInv DEF EraseNext

\* Every entry in a pending state is held by a task that runs.
THEOREM HoldInvariant == EraseSpec => []HoldInv
<1> QED BY InitHolds, NextKeepsHoldInv, PTL DEF EraseSpec

\* NothingHeld: no erasure, and no other operation, leaves an entry in a
\* state that later operations wait on.
THEOREM NothingStaysHeld == EraseSpec => []NothingHeld
<1>1. HoldInv => NothingHeld
  <2> SUFFICES ASSUME HoldInv, Quiet, NEW s \in Slots 
               PROVE  state[s] \in {"EMPTY", "USED"}
    BY DEF NothingHeld
  <2>1. state[s] \notin Pending
    BY DEF HoldInv, PendingIsHeld, Quiet, Has, Holds, HoldsInErase, TakenPCs, 
       LastPCs, PrevPCs
  <2> QED BY <2>1 DEF HoldInv, EraseTypes, EntryStates, Pending
<1> QED BY <1>1, HoldInvariant, PTL

-----------------------------------------------------------------------------
(* What a step of t may do to a list on which nothing is inserted.         *)

\* it takes only entries that nobody holds, ...
TakesFreely(t) == 
  \A s \in Slots : Has(t, s)' => Has(t, s) \/ state[s] \notin Pending
\* ... writes only the state of those and of its own, ...
WritesOwn(t) == 
  \A s \in Slots : state'[s] = state[s] \/ Has(t, s) \/ state[s] \notin Pending
\* ... leaves free what is free, ...
KeepsFree(t) == 
  \A s \in Slots : state[s] = "EMPTY" \/ HeldFree(t, s)
                    => state'[s] = "EMPTY" \/ HeldFree(t, s)'
\* ... and frees only the last entries
FreesLast(t) == 
  \A s \in Slots : state'[s] = "EMPTY" \/ HeldFree(t, s)' 
                    => Free(s) \/ FreeAfter(s)

\* what t no longer leaves behind is free
KeepsLeft(t) == 
  \A s \in Slots : LeftBy(t, s) => LeftBy(t, s)' \/ state'[s] = "EMPTY"

ListStep(t) == TakesFreely(t) /\ WritesOwn(t) /\ KeepsFree(t) /\ FreesLast(t)

LEMMA HeldIsPending == 
  ASSUME ListInv, NEW t \in Threads, NEW s \in Slots, Has(t, s)
  PROVE  state[s] \in Pending
BY DEF ListInv, KnowsState, Has, Pending

LEMMA FreeStays == 
  ASSUME NEW t \in Threads, Alone(t), KeepsFree(t), NEW s \in Slots, Free(s)
  PROVE  Free(s)'
BY DEF Free, KeepsFree, Alone, HeldFree

LEMMA LiveStays == 
  ASSUME NEW t \in Threads, Alone(t), KeepsFree(t), KeepsLeft(t), 
         NEW s \in Slots, Live(s)'
  PROVE  Live(s)
<1>1. ~Free(s)
  BY FreeStays DEF Live
<1>2. ASSUME NEW u \in Threads, LeftBy(u, s) PROVE Left(s)' \/ Free(s)'
  <2>1. CASE u = t
    BY <1>2, <2>1 DEF KeepsLeft, Left, Free
  <2>2. CASE u # t
    BY <1>2, <2>2 DEF Alone, LeftBy, Left
  <2> QED BY <2>1, <2>2
<1> QED BY <1>1, <1>2 DEF Live, Left

LEMMA LiveKeysStay == 
  ASSUME ListInv, NEW t \in Threads, Alone(t), KeepsFree(t), KeepsLeft(t), 
         UNCHANGED key
  PROVE  LiveKeysDiffer'
BY LiveStays DEF ListInv, LiveKeysDiffer

LEMMA ListStepPreserves == 
  ASSUME HoldInv, ListInv, NEW t \in Threads, Alone(t), ListStep(t),
         UNCHANGED next, LiveKeysDiffer', 
         KnowsOp(t)' /\ KnowsState(t)' /\ KnowsOrder(t)'
  PROVE  ListInv'
<1> USE DEF ListStep
<1>1. \A s \in Slots : Free(s) => Free(s)'
  BY FreeStays
<1>2. \A p \in Slots : FreeAfter(p) => FreeAfter(p)'
  BY <1>1 DEF FreeAfter
<1>3. ASSUME NEW u \in Threads \ {t}, NEW s \in Slots
      PROVE  /\ Has(u, s)' <=> Has(u, s)
             /\ Holds(u, s)' <=> Holds(u, s)
             /\ HoldsInErase(u, s)' <=> HoldsInErase(u, s)
             /\ Has(u, s) => state'[s] = state[s] /\ ~Has(t, s)'
  <2>1. /\ Holds(u, s)' <=> Holds(u, s)
        /\ HoldsInErase(u, s)' <=> HoldsInErase(u, s)
    BY DEF Alone, Holds, HoldsInErase
  <2>2. Has(u, s) => state[s] \in Pending /\ ~Has(t, s)
    BY HeldIsPending DEF ListInv, OneHolder
  <2> QED BY <2>1, <2>2 DEF Has, TakesFreely, WritesOwn
<1>4. OneHolder'
  <2> SUFFICES ASSUME NEW u \in Threads, NEW w \in Threads, NEW s \in Slots, 
                      Has(u, s)', Has(w, s)', u # w
               PROVE  FALSE
    BY DEF OneHolder
  <2>1. CASE u = t \/ w = t
    BY <1>3, <2>1
  <2>2. CASE u # t /\ w # t
    BY <1>3, <2>2 DEF ListInv, OneHolder
  <2> QED BY <2>1, <2>2
<1>5. ASSUME NEW u \in Threads \ {t} 
      PROVE  KnowsOp(u)' /\ KnowsState(u)' /\ KnowsOrder(u)'
  <2>1. KnowsOp(u) /\ KnowsState(u) /\ KnowsOrder(u) /\ Placed(u)
    BY DEF ListInv, HoldInv
  <2>2. KnowsOp(u)'
    BY <2>1 DEF KnowsOp, Alone, MyKey
  <2>3. KnowsState(u)'
    BY <1>3, <2>1 DEF KnowsState, Has
  <2>4. KnowsOrder(u)'
    BY <1>2, <2>1 DEF KnowsOrder, Alone, Placed, TakenPCs, PrevPCs
  <2> QED BY <2>2, <2>3, <2>4
<1>6. FreeIsLast'
  <2> SUFFICES ASSUME NEW s \in Slots, Free(s)' PROVE FreeAfter(s)'
    BY DEF FreeIsLast
  <2>1. Free(s) \/ FreeAfter(s)
    <3>1. CASE state'[s] = "EMPTY" \/ HeldFree(t, s)'
      BY <3>1 DEF FreesLast
    <3>2. ASSUME NEW u \in Threads \ {t}, HeldFree(u, s)' PROVE Free(s)
      BY <3>2 DEF Free, HeldFree, Alone
    <3> QED BY <3>1, <3>2 DEF Free
  <2>2. FreeAfter(s)
    BY <2>1 DEF ListInv, FreeIsLast
  <2> QED BY <1>2, <2>2
<1>7. ChainIsFree'
  BY <1>1 DEF ListInv, ChainIsFree
<1> QED BY <1>4, <1>5, <1>6, <1>7 DEF ListInv

\* Every step is a step of one task.
LEMMA HashmapStepIsAlone == 
  ASSUME EraseTypes, NEW t \in Threads, UNCHANGED eraseVars, 
         CallAny(t) \/ Step(t)
  PROVE  Alone(t)
<1> USE DEF EraseTypes, Goto, eraseVars, NextEntry, EnterNextBucket
<1>1. UNCHANGED <<del, prev, last, cur>>
  OBVIOUS
<1>2. \A u \in Threads \ {t} : 
        pc'[u] = pc[u] /\ pos'[u] = pos[u] /\ op'[u] = op[u] /\ hit'[u] = hit[u]
  <2>1. CASE CallAny(t)
    BY <2>1 DEF CallAny, Call
  <2>2. CASE Claim(t) \/ ClaimFails(t) \/ AwaitInsert(t) 
    BY <2>2 DEF Claim, ClaimFails, AwaitInsert
  <2>3. CASE Compare(t) \/ InitEntry(t) \/ CountEntry(t) 
    BY <2>3 DEF Compare, InitEntry, CountEntry
  <2>4. CASE Publish(t) \/ LockEntry(t) \/ UpdateEntry(t) \/ Release(t)
    BY <2>4 DEF Publish, LockEntry, UpdateEntry, Release, Finish
  <2>5. CASE Grow(t) 
    BY <2>5 DEF Grow, GrowList, LinkBucket, AwaitBucket
  <2>6. CASE Scan(t) \/ Probe(t) \/ Found(t) 
    BY <2>6 DEF Scan, Probe, Found
  <2>7. CASE Hop(t) \/ Deref(t)
    BY <2>7 DEF Hop, Deref, LookupReturns
  <2>8. CASE Tag(t) \/ CallFunction(t) \/ StoreResult(t) \/ Return(t)
    BY <2>8 DEF Tag, CallFunction, StoreResult, Return, Finish
  <2> QED BY <2>1, <2>2, <2>3, <2>4, <2>5, <2>6, <2>7, <2>8 
          DEF Step, InsertStep, ScanStep
<1> QED BY <1>1, <1>2 DEF Alone

LEMMA EraseStepIsAlone == 
  ASSUME EraseTypes, NEW t \in Threads, 
         EraseStep(t) \/ \E k \in MayErase[t] : CallErase(t, k)
  PROVE  Alone(t)
<1> USE DEF EraseTypes, Goto, eraseVars, NextEntry, EnterNextBucket, Alone, Begin
<1>1. CASE \E k \in MayErase[t] : CallErase(t, k)
  BY <1>1 DEF CallErase
<1>2. CASE ScanErase(t) \/ WaitErase(t) \/ CompareErase(t)
  BY <1>2 DEF ScanErase, WaitErase, CompareErase
<1>3. CASE ClaimErase(t) \/ ClaimEraseFails(t) \/ Take(t) \/ HoldLast(t)
  BY <1>3 DEF ClaimErase, ClaimEraseFails, Take, HoldLast
<1>4. CASE Check(t) \/ Chain(t) \/ LockPrev(t) \/ FreeLast(t) 
  BY <1>4 DEF Check, Chain, LockPrev, FreeLast
<1>5. CASE Move(t) \/ PublishMoved(t) \/ Undo(t) \/ Recount(t)
  BY <1>5 DEF Move, PublishMoved, Undo, Recount
<1>6. CASE Clear(t) \/ Looked(t)
  BY <1>6, LeaveMoves DEF Clear, Looked, Moves
<1>7. CASE NextErase(t) \/ ReadPending(t) \/ ReadAgain(t)
  BY <1>7 DEF NextErase, ReadPending, ReadAgain
<1> QED BY <1>1, <1>2, <1>3, <1>4, <1>5, <1>6, <1>7 DEF EraseStep

-----------------------------------------------------------------------------
(* Steps that write no entry.                                              *)

Working == {"call", "store", "release"}

LEMMA SearchList == 
  ASSUME HoldInv, ListInv, NEW t \in Threads, UNCHANGED <<state, key, next>>, 
         Alone(t), KnowsOp(t)',
         pc[t] \in FreeHands \cup Working, pc'[t] \in FreeHands \cup Working,
         \A s \in Slots : Has(t, s)' => Has(t, s)
  PROVE  ListInv'
<1> USE DEF FreeHands, Working
<1>1. ListStep(t)
  BY DEF ListStep, TakesFreely, WritesOwn, KeepsFree, FreesLast, HeldFree, LastPCs, 
     Free
<1>2. KeepsLeft(t) /\ KeepsFree(t)
  BY <1>1 DEF KeepsLeft, LeftBy, ListStep
<1>3. KnowsState(t)' /\ KnowsOrder(t)'
  BY DEF ListInv, KnowsState, KnowsOrder, Has, HoldsInErase, TakenPCs, LastPCs, 
     PrevPCs
<1> QED BY <1>1, <1>2, <1>3, LiveKeysStay, ListStepPreserves

LEMMA ScanKnowsOp == 
  ASSUME HoldInv, ListInv, NoInserts, NEW t \in Threads, UNCHANGED eraseVars,
         \/ CallAny(t) \/ ScanStep(t) \/ Return(t) \/ Release(t)
  PROVE  KnowsOp(t)'
<1> USE DEF KnowsOp, ScanPCs, ErasePCs, NextEntry, EnterNextBucket, Goto, MyKey
<1>1. EraseTypes /\ KnowsOp(t) /\ Placed(t)
  BY DEF HoldInv, ListInv
<1> USE DEF EraseTypes
<1>2. CASE CallAny(t)
  <2>1. PICK kind \in Kinds, k \in Keys : Call(t, kind, k)
    BY <1>2 DEF CallAny
  <2>2. kind \notin InsertKinds /\ kind \in AllKinds /\ kind # EraseKind
    BY KindsAssumption DEF NoInserts, AllKinds, EraseKind
  <2>3. pc'[t] = "scan" /\ op'[t].kind = kind
    BY <1>1, <2>1, <2>2 DEF Call
  <2> QED BY <2>2, <2>3
<1>3. CASE Scan(t) \/ Probe(t) \/ Found(t) 
  BY <1>1, <1>3 DEF Scan, Probe, Found
<1>4. CASE Hop(t) \/ Deref(t)
  BY <1>1, <1>4 DEF Hop, Deref, LookupReturns
<1>5. CASE Tag(t) \/ CallFunction(t) \/ StoreResult(t) \/ Return(t) \/ Release(t)
  BY <1>1, <1>5 
     DEF Tag, CallFunction, StoreResult, Return, Release, Finish, Placed
<1> QED BY <1>2, <1>3, <1>4, <1>5 DEF ScanStep

LEMMA EraseKnowsOp == 
  ASSUME HoldInv, ListInv, NEW t \in Threads,
         EraseStep(t) \/ \E k \in MayErase[t] : CallErase(t, k), 
         ~resumed'
  PROVE  KnowsOp(t)'
<1> USE DEF KnowsOp, ScanPCs, ErasePCs, NextEntry, EnterNextBucket, Goto, MyKey, Begin
<1>1. EraseTypes /\ KnowsOp(t) /\ Placed(t)
  BY DEF HoldInv, ListInv
<1>2. CASE \E k \in MayErase[t] : CallErase(t, k)
  BY <1>1, <1>2, MayEraseAssumption DEF CallErase, EraseTypes
<1>3. CASE ScanErase(t) \/ WaitErase(t) \/ CompareErase(t)
  BY <1>1, <1>3 DEF ScanErase, WaitErase, CompareErase, EraseTypes
<1>4. CASE ClaimErase(t) \/ ClaimEraseFails(t) \/ Take(t) \/ HoldLast(t)
  BY <1>1, <1>4 DEF ClaimErase, ClaimEraseFails, Take, HoldLast, EraseTypes
<1>5. CASE Check(t) \/ Chain(t) \/ LockPrev(t) \/ FreeLast(t) 
  BY <1>1, <1>5 DEF Check, Chain, LockPrev, FreeLast, EraseTypes
<1>6. CASE Move(t) \/ PublishMoved(t) \/ Undo(t) \/ Recount(t)
  BY <1>1, <1>6 DEF Move, PublishMoved, Undo, Recount, EraseTypes
<1>7. CASE Clear(t) \/ Looked(t)
  <2>1. UNCHANGED op 
    BY <1>7 DEF Clear, Looked
  <2>2. CASE Leave(t)
    <3>1. pc'[t] = "done"
      BY <1>1, <2>2, LeaveMoves
    <3> QED BY <1>1, <2>1, <3>1
  <2>3. CASE Begin(t) /\ pc[t] = "looked"
    BY <1>1, <2>1, <2>3 DEF EraseTypes
  <2> QED BY <1>7, <2>2, <2>3 DEF Clear, Looked
<1>8. CASE NextErase(t) \/ ReadPending(t) \/ ReadAgain(t)
  BY <1>1, <1>8 DEF NextErase, ReadPending, ReadAgain, EraseTypes
<1> QED BY <1>2, <1>3, <1>4, <1>5, <1>6, <1>7, <1>8 DEF EraseStep

LEMMA ScanKeepsList == 
  ASSUME HoldInv, ListInv, NoInserts, NEW t \in Threads, UNCHANGED eraseVars,
         \/ CallAny(t) \/ Return(t) \/ Scan(t) \/ Probe(t) \/ Found(t) \/ Hop(t)
         \/ Deref(t) \/ CallFunction(t) \/ StoreResult(t)
         \/ Tag(t) /\ state[pos[t]] # "USED"
  PROVE  ListInv'
<1> USE DEF FreeHands, Working, Goto, NextEntry, EnterNextBucket
<1>1. EraseTypes /\ KnowsOp(t)
  BY DEF HoldInv, ListInv
<1>2. Alone(t) /\ KnowsOp(t)'
  BY <1>1, HashmapStepIsAlone, ScanKnowsOp DEF Step, InsertStep, ScanStep
<1>3. UNCHANGED <<state, key, next, del, prev, last>>
  BY DEF CallAny, Call, Return, Scan, Probe, Found, Hop, Deref, CallFunction, 
     StoreResult, Tag, entries, chain, eraseVars
<1>4. CASE CallAny(t) 
  <2>1. PICK kind \in Kinds, k \in Keys : Call(t, kind, k)
    BY <1>4 DEF CallAny
  <2>2. pc[t] \in FreeHands /\ pc'[t] = "scan"
    BY <1>1, <2>1 DEF Call, EraseTypes, NoInserts
  <2>3. \A s \in Slots : ~Has(t, s)'
    BY <2>2 DEF Has, Holds, HoldsInErase, TakenPCs, LastPCs, PrevPCs
  <2> QED BY <1>2, <1>3, <2>2, <2>3, SearchList
<1>5. CASE \/ Return(t) \/ Scan(t) \/ Probe(t) \/ Found(t) \/ Deref(t)
           \/ Tag(t) /\ state[pos[t]] # "USED"
  <2>1. pc[t] \in FreeHands /\ pc'[t] \in FreeHands
    BY <1>1, <1>5 DEF Return, Scan, Probe, Found, Deref, Tag, Finish, 
       LookupReturns, EraseTypes
  <2>2. \A s \in Slots : ~Has(t, s)'
    BY <2>1 DEF Has, Holds, HoldsInErase, TakenPCs, LastPCs, PrevPCs
  <2> QED BY <1>2, <1>3, <2>1, <2>2, SearchList
<1>6. CASE Hop(t) \/ CallFunction(t) \/ StoreResult(t)
  <2>1. UNCHANGED <<op, hit>>
    BY <1>6 DEF Hop, CallFunction, StoreResult
  <2>2. \/ pc[t] \in FreeHands /\ pc'[t] \in FreeHands
        \/ pc[t] = "hop" /\ pc'[t] = "call" /\ op[t].kind = "Apply"
        \/ pc[t] = "call" /\ pc'[t] = "store" 
        \/ pc[t] = "store" /\ pc'[t] = "done" 
        \/ /\ pc[t] = "store" /\ pc'[t] = "release" /\ UNCHANGED pos
           /\ op[t].kind = "TryApply"
    BY <1>1, <1>6 
       DEF Hop, CallFunction, StoreResult, LookupReturns, EraseTypes, KnowsOp
  <2>3. hit[t] = pos[t] \/ ~(pc[t] = "store" /\ op[t].kind = "TryApply")
    BY DEF HoldInv, Placed
  <2>4. \A s \in Slots : Has(t, s)' => Has(t, s)
    BY <2>1, <2>2, <2>3 
       DEF Has, Holds, HoldsInErase, TakenPCs, LastPCs, PrevPCs
  <2>5. pc[t] \in FreeHands \cup Working /\ pc'[t] \in FreeHands \cup Working
    BY <2>2
  <2> QED BY <1>2, <1>3, <2>4, <2>5, SearchList
<1> QED BY <1>4, <1>5, <1>6

\* the search of an Erase, and the beginning of another one
LEMMA EraseSearchKeepsList == 
  ASSUME HoldInv, ListInv, NEW t \in Threads, ~resumed',
         \/ \E k \in MayErase[t] : CallErase(t, k)
         \/ ScanErase(t) \/ WaitErase(t) \/ CompareErase(t) \/ ClaimEraseFails(t) 
         \/ Recount(t) \/ NextErase(t) \/ Looked(t) \/ ReadPending(t) \/ ReadAgain(t)
  PROVE  ListInv'
<1> USE DEF FreeHands, Goto, NextEntry, EnterNextBucket, Begin
<1>1. EraseTypes
  BY DEF HoldInv
<1>2. Alone(t) /\ KnowsOp(t)'
  BY <1>1, EraseStepIsAlone, EraseKnowsOp DEF EraseStep
<1>3. UNCHANGED <<state, key, next>>
  BY DEF CallErase, ScanErase, WaitErase, CompareErase, ClaimEraseFails, Recount, 
     NextErase, Looked, ReadPending, ReadAgain, entries, chain
<1>4. pc[t] \in FreeHands /\ pc'[t] \in FreeHands
  <2>1. CASE Looked(t)
    <3>1. CASE Leave(t)
      BY <1>1, <2>1, <3>1, LeaveMoves DEF Looked
    <3>2. CASE Begin(t)
      BY <1>1, <2>1, <3>2 DEF Looked, EraseTypes
    <3> QED BY <2>1, <3>1, <3>2 DEF Looked
  <2>2. CASE \/ \E k \in MayErase[t] : CallErase(t, k)
             \/ ClaimEraseFails(t) \/ Recount(t) 
    BY <1>1, <2>2 DEF CallErase, ClaimEraseFails, Recount, EraseTypes
  <2>3. CASE \/ ScanErase(t) \/ WaitErase(t) \/ CompareErase(t) 
             \/ NextErase(t) \/ ReadPending(t) \/ ReadAgain(t)
    BY <1>1, <2>3 DEF ScanErase, WaitErase, CompareErase, NextErase, ReadPending, 
       ReadAgain, EraseTypes
  <2> QED BY <2>1, <2>2, <2>3
<1>5. \A s \in Slots : ~Has(t, s)'
  BY <1>4 DEF Has, Holds, HoldsInErase, TakenPCs, LastPCs, PrevPCs
<1> QED BY <1>2, <1>3, <1>4, <1>5, SearchList

-----------------------------------------------------------------------------
(* Steps that write one entry.                                             *)

\* A step that takes the entry c, which nobody held and which is not free, ...
LEMMA TakingList == 
  ASSUME HoldInv, ListInv, NEW t \in Threads, NEW c \in Slots, NEW st \in Pending,
         state[c] = "USED", SetState(c, st), UNCHANGED <<key, next>>, Alone(t),
         \A s \in Slots : Has(t, s)' => Has(t, s) \/ s = c,
         \A s \in Slots : HeldFree(t, s) => HeldFree(t, s)',
         \A s \in Slots : HeldFree(t, s)' => HeldFree(t, s),
         pc[t] \notin {"e_publish", "e_clearprev"},
         KnowsOp(t)', KnowsState(t)', KnowsOrder(t)'
  PROVE  ListInv'
<1>1. \A s \in Slots : state'[s] = IF s = c THEN st ELSE state[s]
  BY DEF HoldInv, EraseTypes, SetState
<1>2. TakesFreely(t) /\ WritesOwn(t)
  BY <1>1 DEF TakesFreely, WritesOwn, Pending
<1>3. KeepsFree(t) /\ FreesLast(t)
  BY <1>1 DEF KeepsFree, FreesLast, Pending, Free
<1>4. KeepsLeft(t)
  BY DEF KeepsLeft, LeftBy
<1> QED BY <1>2, <1>3, <1>4, LiveKeysStay, ListStepPreserves DEF ListStep

\* ... and one that puts the entry c back, which it held.
LEMMA GivingList == 
  ASSUME HoldInv, ListInv, NEW t \in Threads, NEW c \in Slots,
         Has(t, c), SetState(c, "USED"), 
         UNCHANGED <<key, next>>, Alone(t),
         \A s \in Slots : Has(t, s)' => Has(t, s),
         \A s \in Slots : ~HeldFree(t, s) /\ ~HeldFree(t, s)',
         \A s \in Slots : LeftBy(t, s) => LeftBy(t, s)',
         KnowsOp(t)', KnowsState(t)', KnowsOrder(t)'
  PROVE  ListInv'
<1>1. \A s \in Slots : state'[s] = IF s = c THEN "USED" ELSE state[s]
  BY DEF HoldInv, EraseTypes, SetState
<1>2. state[c] \in Pending
  BY HeldIsPending
<1>3. TakesFreely(t) /\ WritesOwn(t)
  BY <1>1 DEF TakesFreely, WritesOwn
<1>4. KeepsFree(t) /\ FreesLast(t)
  BY <1>1, <1>2 DEF KeepsFree, FreesLast, Pending, Free
<1>5. KeepsLeft(t)
  BY DEF KeepsLeft
<1> QED BY <1>3, <1>4, <1>5, LiveKeysStay, ListStepPreserves DEF ListStep

LEMMA TagKeepsList == 
  ASSUME HoldInv, ListInv, NoInserts, NEW t \in Threads, UNCHANGED eraseVars, 
         Tag(t), state[pos[t]] = "USED"
  PROVE  ListInv'
<1>1. EraseTypes /\ Placed(t)
  BY DEF HoldInv
<1>2. Alone(t) /\ KnowsOp(t)'
  BY <1>1, HashmapStepIsAlone, ScanKnowsOp DEF Step, ScanStep
<1> PICK c \in Slots : c = pos[t]
  BY <1>1 DEF EraseTypes
<1>3. /\ UNCHANGED <<key, next, op, pos>> /\ SetState(c, "PENDING_UPDATE")
      /\ pc[t] = "tag" /\ pc'[t] = "call" /\ hit'[t] = c /\ state[c] = "USED"
      /\ op[t].kind = "TryApply"
  BY <1>1 DEF Tag, chain, Goto, EraseTypes, Placed
<1>4. state'[c] = "PENDING_UPDATE"
  BY <1>1, <1>3 DEF SetState, EraseTypes
<1>5. \A s \in Slots : /\ Has(t, s)' => s = c
                       /\ ~HeldFree(t, s) /\ ~HeldFree(t, s)'
                       /\ ~HoldsInErase(t, s)'
  BY <1>3 DEF Has, Holds, HoldsInErase, HeldFree, TakenPCs, LastPCs, PrevPCs
<1>6. KnowsState(t)' /\ KnowsOrder(t)'
  BY <1>3, <1>4, <1>5 DEF KnowsState, KnowsOrder, Has
<1> QED BY <1>2, <1>3, <1>5, <1>6, TakingList DEF Pending

LEMMA ReleaseKeepsList == 
  ASSUME HoldInv, ListInv, NoInserts, NEW t \in Threads, UNCHANGED eraseVars, 
         Release(t)
  PROVE  ListInv'
<1>1. EraseTypes
  BY DEF HoldInv
<1>2. Alone(t) /\ KnowsOp(t)'
  BY <1>1, HashmapStepIsAlone, ScanKnowsOp DEF Step, InsertStep
<1> PICK c \in Slots : c = pos[t]
  BY <1>1 DEF EraseTypes
<1>3. /\ UNCHANGED <<key, next, op, pos>> /\ SetState(c, "USED")
      /\ pc[t] = "release" /\ pc'[t] = "done" 
  BY <1>1 DEF Release, chain, Goto, EraseTypes
<1>4. /\ Has(t, c)
      /\ \A s \in Slots : /\ ~Has(t, s)' /\ ~HeldFree(t, s) /\ ~HeldFree(t, s)'
                          /\ ~LeftBy(t, s)
  BY <1>3 
     DEF Has, Holds, HoldsInErase, HeldFree, LeftBy, TakenPCs, LastPCs, PrevPCs
<1>5. KnowsState(t)' /\ KnowsOrder(t)'
  BY <1>3, <1>4 DEF KnowsState, KnowsOrder, Has
<1> QED BY <1>2, <1>3, <1>4, <1>5, GivingList

LEMMA HashmapStepKeepsList == 
  ASSUME HoldInv, ListInv, NoInserts, Next /\ UNCHANGED eraseVars
  PROVE  ListInv'
<1>1. CASE Terminating
  <2>1. UNCHANGED allVars
    BY <1>1 DEF Terminating, allVars
  <2> QED BY <2>1 DEF ListInv, allVars, vars, entries, chain, local, eraseVars, 
       OneHolder, FreeIsLast, ChainIsFree, LiveKeysDiffer, KnowsOp, KnowsState, 
       KnowsOrder, Has, Holds, HoldsInErase, Free, FreeAfter, HeldFree, Live, Left, 
       LeftBy, MyKey
<1>2. ASSUME NEW t \in Threads, CallAny(t) \/ Step(t) PROVE ListInv'
  <2>1. pc[t] \in ScanPCs \cup ErasePCs
    BY DEF ListInv, KnowsOp
  <2>2. CASE CallAny(t) \/ Return(t) \/ Release(t) \/ ScanStep(t)
    <3>1. CASE Tag(t) /\ state[pos[t]] = "USED"
      BY <1>2, <3>1, TagKeepsList
    <3>2. CASE Release(t)
      BY <1>2, <3>2, ReleaseKeepsList
    <3>3. CASE ~Release(t) /\ ~(Tag(t) /\ state[pos[t]] = "USED")
      <4>1. \/ CallAny(t) \/ Return(t) \/ Scan(t) \/ Probe(t) \/ Found(t) \/ Hop(t)
            \/ Deref(t) \/ CallFunction(t) \/ StoreResult(t)
            \/ Tag(t) /\ state[pos[t]] # "USED"
        BY <2>2, <3>3 DEF ScanStep
      <4> QED BY <1>2, <4>1, ScanKeepsList
    <3> QED BY <3>1, <3>2, <3>3
  <2>3. ~Claim(t) /\ ~ClaimFails(t) /\ ~AwaitInsert(t) /\ ~Compare(t)
    BY <2>1 DEF Claim, ClaimFails, AwaitInsert, Compare, ScanPCs, ErasePCs
  <2>4. ~InitEntry(t) /\ ~CountEntry(t) /\ ~Publish(t) /\ ~LockEntry(t) 
    BY <2>1 DEF InitEntry, CountEntry, Publish, LockEntry, ScanPCs, ErasePCs
  <2>5. ~UpdateEntry(t) /\ ~Grow(t)
    BY <2>1 DEF UpdateEntry, Grow, GrowList, LinkBucket, AwaitBucket, ScanPCs, 
       ErasePCs
  <2> QED BY <1>2, <2>2, <2>3, <2>4, <2>5 DEF Step, InsertStep
<1> QED BY <1>1, <1>2 DEF Next

LEMMA NoSlotIsNone == NoSlot \notin Slots
BY MaxBucketsAssumption DEF NoSlot, Slots, Buckets

\* the entry after an entry, in its bucket or at the start of the next one
LEMMA AfterInBucket == 
  ASSUME NEW p \in Slots, ~LastInBucket(p)
  PROVE  Follows(p, <<p[1], p[2] + 1>>)
<1> PICK c \in Slots : c = <<p[1], p[2] + 1>>
  BY NextSlot
<1>1. \A q \in Slots : Before(q, c) => q = p \/ Before(q, p)
  BY NextSlot
<1>2. Before(p, c)
  <2>1. PICK a \in Buckets, i \in 0..(BucketSize - 1) : p = <<a, i>>
    BY DEF Slots
  <2> QED BY <2>1, BucketSizeAssumption DEF Before
<1>3. ASSUME NEW q \in Slots, Before(p, q) PROVE q = c \/ Before(c, q)
  BY <1>1, <1>3, BeforeIsOrder
<1> QED BY <1>2, <1>3 DEF Follows

LEMMA AfterBucket == 
  ASSUME NEW p \in Slots, LastInBucket(p), p[1] + 1 \in Buckets
  PROVE  Follows(p, <<p[1] + 1, 0>>)
<1>1. p[1] \in Int 
  BY MaxBucketsAssumption DEF Slots, Buckets
<1> PICK c \in Slots : c = <<p[1] + 1, 0>>
  BY NextBucket
<1>2. \A q \in Slots : Before(q, c) => q = p \/ Before(q, p)
  BY NextBucket
<1>3. Before(p, c)
  BY <1>1 DEF Before
<1>4. ASSUME NEW q \in Slots, Before(p, q) PROVE q = c \/ Before(c, q)
  BY <1>2, <1>4, BeforeIsOrder
<1> QED BY <1>3, <1>4 DEF Follows

LEMMA AfterLastInBucket == 
  ASSUME NEW p \in Slots, LastInBucket(p), NEW q \in Slots, Before(p, q)
  PROVE  q[1] > p[1]
<1>1. PICK a \in Buckets, i \in 0..(BucketSize - 1) : p = <<a, i>>
  BY DEF Slots
<1>2. PICK b \in Buckets, j \in 0..(BucketSize - 1) : q = <<b, j>>
  BY DEF Slots
<1> QED BY <1>1, <1>2, BucketSizeAssumption, MaxBucketsAssumption 
        DEF Before, LastInBucket, Buckets

LEMMA BeforeIsTransitive == 
  ASSUME NEW p \in Slots, NEW q \in Slots, NEW r \in Slots, 
         Before(p, q), Before(q, r)
  PROVE  Before(p, r)
<1>1. PICK a \in Buckets, i \in 0..(BucketSize - 1) : p = <<a, i>>
  BY DEF Slots
<1>2. PICK b \in Buckets, j \in 0..(BucketSize - 1) : q = <<b, j>>
  BY DEF Slots
<1>3. PICK c \in Buckets, k \in 0..(BucketSize - 1) : r = <<c, k>>
  BY DEF Slots
<1> QED BY <1>1, <1>2, <1>3, BucketSizeAssumption, MaxBucketsAssumption 
        DEF Before, Buckets

\* nothing is after the last entry of the last bucket but what is free
LEMMA EndIsFree == 
  ASSUME ListInv, NEW p \in Slots, LastInBucket(p), ~next[p[1]]
  PROVE  FreeAfter(p)
<1>1. p[1] \in Buckets
  BY DEF Slots
<1> QED BY <1>1, AfterLastInBucket DEF ListInv, ChainIsFree, FreeAfter

LEMMA FreeAfterStays == 
  ASSUME NEW t \in Threads, Alone(t), KeepsFree(t), NEW p, FreeAfter(p)
  PROVE  \A s \in Slots : Before(p, s) => Free(s)'
BY FreeStays DEF FreeAfter

-----------------------------------------------------------------------------
(* The steps of an Erase that holds its entry.                             *)

LEMMA ClaimEraseKeepsList == 
  ASSUME HoldInv, ListInv, NEW t \in Threads, ~resumed', ClaimErase(t)
  PROVE  ListInv'
<1>1. EraseTypes
  BY DEF HoldInv
<1>2. Alone(t) /\ KnowsOp(t)'
  BY <1>1, EraseStepIsAlone, EraseKnowsOp DEF EraseStep
<1> PICK c \in Slots : c = pos[t]
  BY <1>1 DEF EraseTypes
<1>3. /\ UNCHANGED <<key, next, op, pos>> /\ SetState(c, "PENDING_INSERT")
      /\ pc[t] = "e_claim" /\ pc'[t] = "e_take" /\ state[c] = "USED"
  BY <1>1 DEF ClaimErase, chain, Goto, EraseTypes
<1>4. state'[c] = "PENDING_INSERT"
  BY <1>1, <1>3 DEF SetState, EraseTypes
<1>5. \A s \in Slots : /\ Has(t, s)' => s = c
                       /\ ~HeldFree(t, s) /\ ~HeldFree(t, s)'
                       /\ ~Holds(t, s)'
  BY <1>3 DEF Has, Holds, HoldsInErase, HeldFree, TakenPCs, LastPCs, PrevPCs
<1>6. KnowsState(t)' /\ KnowsOrder(t)'
  BY <1>3, <1>4, <1>5 DEF KnowsState, KnowsOrder, Has
<1> QED BY <1>2, <1>3, <1>5, <1>6, TakingList DEF Pending

\* A step of an Erase that writes no entry.
LEMMA KeepingList == 
  ASSUME HoldInv, ListInv, NEW t \in Threads, UNCHANGED <<state, key, next>>, 
         Alone(t), KnowsOp(t)', KnowsOrder(t)',
         pc[t] \in ErasePCs \ {"e_publish", "e_clearprev"}, pc'[t] \in ErasePCs,
         \A s \in Slots : Has(t, s)' => Has(t, s),
         \A s \in Slots : HeldFree(t, s)' <=> HeldFree(t, s)
  PROVE  ListInv'
<1>1. ListStep(t)
  BY DEF ListStep, TakesFreely, WritesOwn, KeepsFree, FreesLast, Free
<1>2. KeepsLeft(t) /\ KeepsFree(t)
  BY <1>1 DEF KeepsLeft, LeftBy, ListStep
<1>3. \A s \in Slots : ~Holds(t, s) /\ ~Holds(t, s)'
  BY DEF Holds, ErasePCs
<1>4. KnowsState(t)' 
  BY <1>3 DEF ListInv, KnowsState, Has
<1> QED BY <1>1, <1>2, <1>4, LiveKeysStay, ListStepPreserves

LEMMA TakeEraseKeepsList == 
  ASSUME HoldInv, ListInv, NEW t \in Threads, ~resumed', Take(t)
  PROVE  ListInv'
<1>1. EraseTypes /\ pos[t] \in Slots
  BY DEF HoldInv, EraseTypes
<1>2. Alone(t) /\ KnowsOp(t)'
  BY <1>1, EraseStepIsAlone, EraseKnowsOp DEF EraseStep
<1>3. /\ UNCHANGED <<state, key, next, op, pos>> /\ pc[t] = "e_take" 
      /\ del'[t] = pos[t] /\ prev'[t] = pos[t] /\ last'[t] = NoSlot
      /\ cur'[t] = <<pos[t][1], pos[t][2] + 1>>
      /\ pc'[t] = IF LastInBucket(pos[t]) THEN "e_chain" ELSE "e_tail"
  BY <1>1 DEF Take, entries, chain, Goto, EraseTypes
<1>4. \A s \in Slots : /\ Has(t, s)' => Has(t, s)
                       /\ HeldFree(t, s)' <=> HeldFree(t, s)
  BY <1>3 DEF Has, Holds, HoldsInErase, HeldFree, TakenPCs, LastPCs, PrevPCs
<1>5. KnowsOrder(t)'
  <2> PICK c \in Slots : c = pos[t]
    BY <1>1
  <2>1. ~LastInBucket(c) => Follows(c, <<c[1], c[2] + 1>>)
    BY AfterInBucket
  <2>2. CASE LastInBucket(c)
    BY <1>3, <2>2 DEF KnowsOrder
  <2>3. CASE ~LastInBucket(c)
    <3>1. Follows(prev'[t], cur'[t])
      BY <1>3, <2>1, <2>3
    <3>2. pc'[t] = "e_tail" /\ prev'[t] = del'[t]
      BY <1>3, <2>3
    <3> QED BY <3>1, <3>2 DEF KnowsOrder, Follows
  <2> QED BY <2>2, <2>3
<1>6. pc[t] \in ErasePCs \ {"e_publish", "e_clearprev"} /\ pc'[t] \in ErasePCs
  BY <1>3 DEF ErasePCs
<1> QED BY <1>2, <1>3, <1>4, <1>5, <1>6, KeepingList

LEMMA HoldLastKeepsList == 
  ASSUME HoldInv, ListInv, NEW t \in Threads, ~resumed', HoldLast(t)
  PROVE  ListInv'
<1>1. EraseTypes /\ Placed(t) /\ KnowsOrder(t) /\ KnowsState(t)
  BY DEF HoldInv, ListInv
<1>2. Alone(t) /\ KnowsOp(t)'
  BY <1>1, EraseStepIsAlone, EraseKnowsOp DEF EraseStep
<1>3. /\ UNCHANGED <<key, next, op, pos, del, prev, cur>> /\ pc[t] = "e_tail" 
      /\ last'[t] = cur[t] 
  BY <1>1 DEF HoldLast, chain, EraseTypes
<1> PICK c \in Slots, p \in Slots, d \in Slots : 
      c = cur[t] /\ p = prev[t] /\ d = del[t]
  BY <1>1, <1>3 DEF Placed, TakenPCs
<1>4. Follows(p, c) /\ (p = d \/ Before(d, p))
  BY <1>1, <1>3 DEF KnowsOrder
<1>5. CASE state[c] # "EMPTY"
  <2>1. UNCHANGED state /\ pc'[t] = "e_check"
    BY <1>1, <1>5 DEF HoldLast, Goto, EraseTypes
  <2>2. KnowsOrder(t)'
    BY <1>3, <1>4, <2>1 DEF KnowsOrder, Follows
  <2>3. \A s \in Slots : /\ Has(t, s)' => Has(t, s)
                         /\ HeldFree(t, s)' <=> HeldFree(t, s)
    BY <1>3, <2>1 DEF Has, Holds, HoldsInErase, HeldFree, TakenPCs, LastPCs, PrevPCs
  <2> QED BY <1>2, <1>3, <2>1, <2>2, <2>3, KeepingList DEF ErasePCs
<1>6. CASE state[c] = "EMPTY"
  <2>1. /\ SetState(c, "PENDING_INSERT") 
        /\ pc'[t] = IF p = d THEN "e_drop" ELSE "e_prev"
    BY <1>1, <1>6 DEF HoldLast, Goto, EraseTypes
  <2>2. \A s \in Slots : state'[s] = IF s = c THEN "PENDING_INSERT" ELSE state[s]
    BY <1>1, <2>1 DEF SetState, EraseTypes
  <2>3. \A s \in Slots : /\ Has(t, s)' <=> s = d \/ s = c
                         /\ Has(t, s) <=> s = d
                         /\ HeldFree(t, s)' <=> s = c
                         /\ ~HeldFree(t, s) /\ ~LeftBy(t, s) 
                         /\ ~Holds(t, s)' /\ ~Holds(t, s)
    BY <1>3, <2>1 DEF Has, Holds, HoldsInErase, HeldFree, LeftBy, TakenPCs, LastPCs, 
       PrevPCs
  <2>4. TakesFreely(t) /\ WritesOwn(t) /\ KeepsFree(t) /\ KeepsLeft(t)
    BY <1>6, <2>2, <2>3 DEF TakesFreely, WritesOwn, KeepsFree, KeepsLeft, Pending
  <2>5. FreesLast(t)
    BY <1>6, <2>2, <2>3 DEF FreesLast, Free
  <2>6. Free(c) /\ \A s \in Slots : Before(c, s) => Free(s)
    BY <1>6 DEF Free, ListInv, FreeIsLast, FreeAfter
  <2>7. \A s \in Slots : Before(p, s) => Free(s)'
    BY <1>2, <1>4, <2>4, <2>6, FreeStays DEF Follows
  <2>8. Before(p, c) /\ (p # d => Before(d, p)) 
    BY <1>4 DEF Follows
  <2>9. KnowsOrder(t)'
    <3>1. FreeAfter(p)'
      BY <2>7 DEF FreeAfter
    <3>2. /\ del'[t] = d /\ prev'[t] = p /\ last'[t] = c
      BY <1>3
    <3> QED BY <2>1, <2>7, <2>8, <3>2 DEF KnowsOrder, FreeAfter
  <2>10. KnowsState(t)'
    BY <1>1, <2>2, <2>3 DEF KnowsState, Has
  <2>11. LiveKeysDiffer'
    BY <1>2, <1>3, <2>4, LiveKeysStay
  <2> QED BY <1>2, <1>3, <2>4, <2>5, <2>9, <2>10, <2>11, ListStepPreserves 
          DEF ListStep
<1> QED BY <1>5, <1>6

LEMMA CheckKeepsList == 
  ASSUME HoldInv, ListInv, NEW t \in Threads, ~resumed', Check(t)
  PROVE  ListInv'
<1>1. EraseTypes /\ Placed(t) /\ KnowsOrder(t)
  BY DEF HoldInv, ListInv
<1>2. Alone(t) /\ KnowsOp(t)'
  BY <1>1, EraseStepIsAlone, EraseKnowsOp DEF EraseStep
<1>3. UNCHANGED <<state, key, next, op, pos, del, last>> /\ pc[t] = "e_check" 
  BY DEF Check, entries, chain
<1> PICK c \in Slots, p \in Slots, d \in Slots : 
      c = cur[t] /\ c = last[t] /\ p = prev[t] /\ d = del[t]
  BY <1>1, <1>3 DEF Placed, TakenPCs
<1>4. Before(p, c) /\ (p = d \/ Before(d, p))
  BY <1>1, <1>3 DEF KnowsOrder, Follows
<1>5. pc'[t] \in {"e_undo", "e_tail", "e_chain"}
  BY <1>1 DEF Check, Goto, EraseTypes
<1>6. \A s \in Slots : /\ Has(t, s)' => Has(t, s)
                       /\ HeldFree(t, s)' <=> HeldFree(t, s)
  BY <1>3, <1>5 DEF Has, Holds, HoldsInErase, HeldFree, TakenPCs, LastPCs, PrevPCs
<1>7. KnowsOrder(t)'
  <2>1. CASE state[c] = "PENDING_INSERT"
    <3>1. pc'[t] = "e_undo"
      BY <1>1, <2>1 DEF Check, Goto, EraseTypes
    <3> QED BY <3>1 DEF KnowsOrder
  <2>2. CASE state[c] # "PENDING_INSERT"
    <3>1. /\ pc'[t] = IF LastInBucket(c) THEN "e_chain" ELSE "e_tail"
          /\ prev'[t] = c /\ cur'[t] = <<c[1], c[2] + 1>> /\ del'[t] = d
      BY <1>1, <1>3, <2>2 DEF Check, Goto, EraseTypes
    <3>2. Before(d, c)
      BY <1>4, BeforeIsTransitive
    <3>3. CASE LastInBucket(c)
      BY <3>1, <3>2, <3>3 DEF KnowsOrder
    <3>4. CASE ~LastInBucket(c)
      <4>1. Follows(prev'[t], cur'[t]) 
        BY <3>1, <3>4, AfterInBucket
      <4>2. pc'[t] = "e_tail" /\ Before(del'[t], prev'[t])
        BY <3>1, <3>2, <3>4
      <4> QED BY <4>1, <4>2 DEF KnowsOrder, Follows
    <3> QED BY <3>3, <3>4
  <2> QED BY <2>1, <2>2
<1> QED BY <1>2, <1>3, <1>5, <1>6, <1>7, KeepingList DEF ErasePCs

LEMMA ChainKeepsList == 
  ASSUME HoldInv, ListInv, NEW t \in Threads, ~resumed', Chain(t)
  PROVE  ListInv'
<1>1. EraseTypes /\ Placed(t) /\ KnowsOrder(t) /\ KnowsState(t)
  BY DEF HoldInv, ListInv
<1>2. Alone(t) /\ KnowsOp(t)'
  BY <1>1, EraseStepIsAlone, EraseKnowsOp DEF EraseStep
<1>3. UNCHANGED <<key, next, op, pos, del, prev, last>> /\ pc[t] = "e_chain" 
  BY DEF Chain, chain
<1> PICK p \in Slots, d \in Slots : p = prev[t] /\ d = del[t]
  BY <1>1, <1>3 DEF Placed, TakenPCs
<1>4. /\ LastInBucket(p) /\ cur[t][1] = p[1] /\ p[1] \in Buckets
      /\ (p = d /\ last[t] = NoSlot) \/ Before(d, p)
      /\ (last[t] = NoSlot /\ p = d) \/ (last[t] # NoSlot /\ last[t] = p)
  BY <1>1, <1>3, NoSlotIsNone DEF KnowsOrder, Placed, Slots
<1>5. CASE next[p[1]]
  <2>1. /\ UNCHANGED state /\ pc'[t] = "e_tail" /\ cur'[t] = <<p[1] + 1, 0>>
        /\ p[1] + 1 \in Buckets
    BY <1>1, <1>4, <1>5 DEF Chain, Goto, EraseTypes, HoldInv, ChainInBounds
  <2>2. Follows(prev'[t], cur'[t])
    BY <1>3, <1>4, <2>1, AfterBucket
  <2>3. KnowsOrder(t)'
    BY <1>3, <1>4, <2>1, <2>2 DEF KnowsOrder, Follows
  <2>4. \A s \in Slots : /\ Has(t, s)' => Has(t, s)
                         /\ HeldFree(t, s)' <=> HeldFree(t, s)
    BY <1>3, <2>1 DEF Has, Holds, HoldsInErase, HeldFree, TakenPCs, LastPCs, PrevPCs
  <2> QED BY <1>2, <1>3, <2>1, <2>3, <2>4, KeepingList DEF ErasePCs
<1>6. CASE ~next[p[1]] /\ (last[t] = NoSlot \/ state[last[t]] # "USED")
  <2>1. /\ UNCHANGED state 
        /\ \/ pc'[t] = "e_cleardel" /\ last[t] = NoSlot
           \/ pc'[t] = "e_undo"
    BY <1>1, <1>4, <1>6 DEF Chain, Goto, EraseTypes
  <2>2. KnowsOrder(t)'
    <3>1. CASE pc'[t] = "e_undo"
      BY <3>1 DEF KnowsOrder
    <3>2. CASE pc'[t] = "e_cleardel" /\ last[t] = NoSlot
      <4>1. FreeAfter(d) 
        BY <1>4, <1>6, <3>2, EndIsFree, NoSlotIsNone
      <4>2. KeepsFree(t)
        BY <1>3, <2>1 DEF KeepsFree, HeldFree, LastPCs
      <4>3. \A s \in Slots : Before(d, s) => Free(s)'
        BY <1>2, <4>1, <4>2, FreeAfterStays
      <4>4. del'[t] = d
        BY <1>3
      <4> QED BY <3>2, <4>3, <4>4 DEF KnowsOrder, FreeAfter
    <3> QED BY <2>1, <3>1, <3>2
  <2>3. \A s \in Slots : /\ Has(t, s)' => Has(t, s)
                         /\ HeldFree(t, s)' <=> HeldFree(t, s)
    BY <1>3, <2>1 DEF Has, Holds, HoldsInErase, HeldFree, TakenPCs, LastPCs, PrevPCs
  <2> QED BY <1>2, <1>3, <2>1, <2>2, <2>3, KeepingList DEF ErasePCs
<1>7. CASE ~next[p[1]] /\ last[t] # NoSlot /\ state[last[t]] = "USED"
  <2>1. /\ SetState(p, "PENDING_INSERT") /\ pc'[t] = "e_move" /\ state[p] = "USED"
        /\ Before(d, p)
    BY <1>1, <1>4, <1>7 DEF Chain, Goto, EraseTypes
  <2>2. \A s \in Slots : state'[s] = IF s = p THEN "PENDING_INSERT" ELSE state[s]
    BY <1>1, <2>1 DEF SetState, EraseTypes
  <2>3. \A s \in Slots : /\ Has(t, s)' <=> s = d \/ s = p
                         /\ Has(t, s) <=> s = d
                         /\ ~HeldFree(t, s) /\ ~HeldFree(t, s)' /\ ~Holds(t, s)'
                         /\ ~Holds(t, s)
    BY <1>3, <2>1 DEF Has, Holds, HoldsInErase, HeldFree, TakenPCs, LastPCs, PrevPCs
  <2>4. KnowsState(t)'
    BY <1>1, <2>2, <2>3 DEF KnowsState, Has
  <2>5. KnowsOrder(t)'
    <3>1. FreeAfter(p)
      BY <1>4, <1>7, EndIsFree
    <3>2. KeepsFree(t)
      BY <2>1, <2>2, <2>3 DEF KeepsFree
    <3>3. \A s \in Slots : Before(p, s) => Free(s)'
      BY <1>2, <3>1, <3>2, FreeAfterStays
    <3>4. del'[t] = d /\ prev'[t] = p
      BY <1>3
    <3> QED BY <2>1, <3>3, <3>4 DEF KnowsOrder, FreeAfter
  <2> QED BY <1>2, <1>3, <2>1, <2>3, <2>4, <2>5, TakingList DEF Pending
<1> QED BY <1>5, <1>6, <1>7

LEMMA LockPrevKeepsList == 
  ASSUME HoldInv, ListInv, NEW t \in Threads, ~resumed', LockPrev(t)
  PROVE  ListInv'
<1>1. EraseTypes /\ Placed(t) /\ KnowsOrder(t) /\ KnowsState(t)
  BY DEF HoldInv, ListInv
<1>2. Alone(t) /\ KnowsOp(t)'
  BY <1>1, EraseStepIsAlone, EraseKnowsOp DEF EraseStep
<1>3. UNCHANGED <<key, next, op, pos, del, prev, last>> /\ pc[t] = "e_prev" 
  BY DEF LockPrev, chain, eraseVars
<1> PICK p \in Slots, d \in Slots, l \in Slots : 
      p = prev[t] /\ d = del[t] /\ l = last[t]
  BY <1>1, <1>3 DEF Placed, TakenPCs, LastPCs
<1>4. Before(d, p) /\ Before(p, l) /\ FreeAfter(p)
  BY <1>1, <1>3 DEF KnowsOrder
<1>5. /\ del'[t] = d /\ prev'[t] = p /\ last'[t] = l
  BY <1>3
<1>6. CASE state[p] # "USED"
  <2>1. UNCHANGED state /\ pc'[t] = "e_unlast"
    BY <1>1, <1>6 DEF LockPrev, Goto, EraseTypes
  <2>2. KnowsOrder(t)'
    BY <1>4, <1>5, <2>1 DEF KnowsOrder
  <2>3. \A s \in Slots : /\ Has(t, s)' => Has(t, s)
                         /\ HeldFree(t, s)' <=> HeldFree(t, s)
    BY <1>3, <2>1 DEF Has, Holds, HoldsInErase, HeldFree, TakenPCs, LastPCs, PrevPCs
  <2> QED BY <1>2, <1>3, <2>1, <2>2, <2>3, KeepingList DEF ErasePCs
<1>7. CASE state[p] = "USED"
  <2>1. SetState(p, "PENDING_INSERT") /\ pc'[t] = "e_free" 
    BY <1>1, <1>7 DEF LockPrev, Goto, EraseTypes
  <2>2. \A s \in Slots : state'[s] = IF s = p THEN "PENDING_INSERT" ELSE state[s]
    BY <1>1, <2>1 DEF SetState, EraseTypes
  <2>3. \A s \in Slots : /\ Has(t, s)' <=> s = d \/ s = p \/ s = l
                         /\ Has(t, s) <=> s = d \/ s = l
                         /\ HeldFree(t, s) <=> s = l
                         /\ HeldFree(t, s)' <=> s = l
                         /\ ~Holds(t, s)' /\ ~Holds(t, s)
    BY <1>3, <2>1 DEF Has, Holds, HoldsInErase, HeldFree, TakenPCs, LastPCs, PrevPCs
  <2>4. KnowsState(t)'
    BY <1>1, <2>2, <2>3 DEF KnowsState, Has
  <2>5. KnowsOrder(t)'
    <3>1. KeepsFree(t)
      <4>1. state[l] = "PENDING_INSERT"
        BY <1>1, <2>3 DEF KnowsState, Has
      <4> QED BY <1>7, <2>2, <2>3, <4>1 DEF KeepsFree
    <3>2. \A s \in Slots : Before(p, s) => Free(s)'
      BY <1>2, <1>4, <3>1, FreeAfterStays
    <3> QED BY <1>4, <1>5, <2>1, <3>2 DEF KnowsOrder, FreeAfter
  <2> QED BY <1>2, <1>3, <1>7, <2>1, <2>3, <2>4, <2>5, TakingList DEF Pending
<1> QED BY <1>6, <1>7

LEMMA FreeLastKeepsList == 
  ASSUME HoldInv, ListInv, NEW t \in Threads, ~resumed', FreeLast(t)
  PROVE  ListInv'
<1>1. EraseTypes /\ Placed(t) /\ KnowsOrder(t) /\ KnowsState(t)
  BY DEF HoldInv, ListInv
<1>2. Alone(t) /\ KnowsOp(t)'
  BY <1>1, EraseStepIsAlone, EraseKnowsOp DEF EraseStep
<1>3. /\ UNCHANGED <<key, next, op, pos, del, prev, last>> 
      /\ pc[t] \in {"e_free", "e_drop", "e_unlast"} 
      /\ SetState(last[t], "EMPTY")
  BY DEF FreeLast, chain, eraseVars
<1> PICK p \in Slots, d \in Slots, l \in Slots : 
      p = prev[t] /\ d = del[t] /\ l = last[t]
  BY <1>1, <1>3 DEF Placed, TakenPCs, LastPCs
<1>4. Before(d, l) /\ (pc[t] = "e_free" => Before(p, l))
  BY <1>1, <1>3, BeforeIsTransitive DEF KnowsOrder
<1>5. d # l /\ (pc[t] = "e_free" => p # l)
  BY <1>4, BeforeIsOrder
<1>6. \/ pc[t] = "e_free" /\ pc'[t] = "e_move"
      \/ pc[t] = "e_drop" /\ pc'[t] = "e_cleardel"
      \/ pc[t] = "e_unlast" /\ pc'[t] = "e_undo"
  BY <1>1, <1>3 DEF FreeLast, Goto, EraseTypes
<1>7. \A s \in Slots : state'[s] = IF s = l THEN "EMPTY" ELSE state[s]
  BY <1>1, <1>3 DEF SetState, EraseTypes
<1>8. \A s \in Slots : /\ Has(t, s)' => Has(t, s) /\ s # l
                       /\ HeldFree(t, s) <=> s = l
                       /\ Has(t, l)
                       /\ ~HeldFree(t, s)' /\ ~LeftBy(t, s) 
                       /\ ~Holds(t, s) /\ ~Holds(t, s)'
  BY <1>3, <1>5, <1>6 
     DEF Has, Holds, HoldsInErase, HeldFree, LeftBy, TakenPCs, LastPCs, PrevPCs
<1>9. TakesFreely(t) /\ WritesOwn(t) /\ KeepsFree(t) /\ KeepsLeft(t)
  BY <1>7, <1>8 DEF TakesFreely, WritesOwn, KeepsFree, KeepsLeft
<1>10. FreesLast(t)
  BY <1>7, <1>8 DEF FreesLast, Free
<1>11. KnowsState(t)'
  BY <1>1, <1>7, <1>8 DEF KnowsState, Has
<1>12. KnowsOrder(t)'
  <2>1. del'[t] = d /\ prev'[t] = p
    BY <1>3
  <2>2. CASE pc[t] = "e_free"
    <3>1. Before(d, p) /\ \A s \in Slots : Before(p, s) => Free(s)'
      BY <1>1, <1>2, <1>9, <2>2, FreeAfterStays DEF KnowsOrder
    <3> QED BY <1>6, <2>1, <2>2, <3>1 DEF KnowsOrder, FreeAfter
  <2>3. CASE pc[t] = "e_drop"
    <3>1. \A s \in Slots : Before(d, s) => Free(s)'
      BY <1>1, <1>2, <1>9, <2>3, FreeAfterStays DEF KnowsOrder
    <3> QED BY <1>6, <2>1, <2>3, <3>1 DEF KnowsOrder, FreeAfter
  <2>4. CASE pc[t] = "e_unlast"
    BY <1>6, <2>4 DEF KnowsOrder
  <2> QED BY <1>3, <2>2, <2>3, <2>4
<1>13. LiveKeysDiffer'
  BY <1>2, <1>3, <1>9, LiveKeysStay
<1> QED BY <1>2, <1>3, <1>9, <1>10, <1>11, <1>12, <1>13, ListStepPreserves 
        DEF ListStep

\* The hole takes the key of the last entry, which leaves the map with it.
LEMMA MoveKeepsList == 
  ASSUME HoldInv, ListInv, NEW t \in Threads, ~resumed', Move(t)
  PROVE  ListInv'
<1>1. EraseTypes /\ Placed(t) /\ KnowsOrder(t) /\ KnowsState(t)
  BY DEF HoldInv, ListInv
<1>2. Alone(t) /\ KnowsOp(t)'
  BY <1>1, EraseStepIsAlone, EraseKnowsOp DEF EraseStep
<1> PICK p \in Slots, d \in Slots : p = prev[t] /\ d = del[t] 
  BY <1>1 DEF Move, Placed, TakenPCs
<1>3. /\ UNCHANGED <<state, next, op, pos, del, prev, last>> 
      /\ pc[t] = "e_move" /\ pc'[t] = "e_publish"
      /\ key' = [key EXCEPT ![d] = key[p]]
  BY <1>1 DEF Move, chain, eraseVars, Goto, EraseTypes
<1>4. \A s \in Slots : key'[s] = IF s = d THEN key[p] ELSE key[s]
  BY <1>1, <1>3 DEF EraseTypes
<1>5. \A s \in Slots : /\ Has(t, s)' => Has(t, s) 
                       /\ ~HeldFree(t, s) /\ ~HeldFree(t, s)' 
                       /\ ~LeftBy(t, s) /\ (LeftBy(t, s)' <=> s = p)
                       /\ Has(t, p) /\ HoldsInErase(t, p)
                       /\ ~Holds(t, s) /\ ~Holds(t, s)'
  BY <1>3 
     DEF Has, Holds, HoldsInErase, HeldFree, LeftBy, TakenPCs, LastPCs, PrevPCs
<1>6. TakesFreely(t) /\ WritesOwn(t) /\ KeepsFree(t) /\ KeepsLeft(t)
  BY <1>3, <1>5 DEF TakesFreely, WritesOwn, KeepsFree, KeepsLeft
<1>7. FreesLast(t)
  BY <1>3, <1>5 DEF FreesLast, Free
<1>8. KnowsState(t)'
  BY <1>1, <1>3, <1>5 DEF KnowsState, Has
<1>9. KnowsOrder(t)'
  <2>1. del'[t] = d /\ prev'[t] = p
    BY <1>3
  <2>2. Before(d, p) /\ \A s \in Slots : Before(p, s) => Free(s)'
    BY <1>1, <1>2, <1>3, <1>6, FreeAfterStays DEF KnowsOrder
  <2> QED BY <1>3, <2>1, <2>2 DEF KnowsOrder, FreeAfter
<1>10. Live(p)
  <2>1. state[p] # "EMPTY"
    BY <1>1, <1>5 DEF KnowsState
  <2>2. ASSUME NEW u \in Threads, HeldFree(u, p) \/ LeftBy(u, p) PROVE FALSE
    <3>1. Has(u, p)
      BY <2>2 DEF HeldFree, LeftBy, Has, HoldsInErase, PrevPCs
    <3>2. u = t
      BY <1>5, <3>1 DEF ListInv, OneHolder
    <3> QED BY <1>5, <2>2, <3>2
  <2> QED BY <2>1, <2>2 DEF Live, Free, Left
<1>11. ~Live(p)'
  BY <1>5 DEF Live, Left
<1>12. \A s \in Slots : Live(s)' => Live(s) /\ s # p
  BY <1>2, <1>6, <1>11, LiveStays
<1>13. LiveKeysDiffer'
  BY <1>4, <1>10, <1>12 DEF ListInv, LiveKeysDiffer
<1> QED BY <1>2, <1>3, <1>6, <1>7, <1>8, <1>9, <1>13, ListStepPreserves 
        DEF ListStep

LEMMA PublishMovedKeepsList == 
  ASSUME HoldInv, ListInv, NEW t \in Threads, ~resumed', PublishMoved(t)
  PROVE  ListInv'
<1>1. EraseTypes /\ Placed(t) /\ KnowsOrder(t) /\ KnowsState(t)
  BY DEF HoldInv, ListInv
<1>2. Alone(t) /\ KnowsOp(t)'
  BY <1>1, EraseStepIsAlone, EraseKnowsOp DEF EraseStep
<1> PICK p \in Slots, d \in Slots : p = prev[t] /\ d = del[t] 
  BY <1>1 DEF PublishMoved, Placed, TakenPCs
<1>3. /\ UNCHANGED <<key, next, op, pos, del, prev, last>> 
      /\ pc[t] = "e_publish" /\ pc'[t] = "e_clearprev" /\ SetState(d, "USED")
  BY <1>1 DEF PublishMoved, chain, eraseVars, Goto, EraseTypes
<1>4. Before(d, p) /\ FreeAfter(p) /\ p # d
  BY <1>1, <1>3, BeforeIsOrder DEF KnowsOrder
<1>5. \A s \in Slots : state'[s] = IF s = d THEN "USED" ELSE state[s]
  BY <1>1, <1>3 DEF SetState, EraseTypes
<1>6. \A s \in Slots : /\ Has(t, s)' => Has(t, s) /\ s # d
                       /\ ~HeldFree(t, s) /\ ~HeldFree(t, s)' 
                       /\ LeftBy(t, s) => LeftBy(t, s)'
                       /\ Has(t, d)
                       /\ ~Holds(t, s) /\ ~Holds(t, s)'
  BY <1>3, <1>4
     DEF Has, Holds, HoldsInErase, HeldFree, LeftBy, TakenPCs, LastPCs, PrevPCs
<1>7. KeepsFree(t)
  <2>1. state[d] \in Pending
    BY <1>6, HeldIsPending
  <2> QED BY <1>5, <1>6, <2>1 DEF KeepsFree, Pending
<1>8. KnowsState(t)'
  BY <1>1, <1>5, <1>6 DEF KnowsState, Has
<1>9. KnowsOrder(t)'
  <2>1. prev'[t] = p /\ \A s \in Slots : Before(p, s) => Free(s)'
    BY <1>2, <1>3, <1>4, <1>7, FreeAfterStays
  <2> QED BY <1>3, <2>1 DEF KnowsOrder, FreeAfter
<1> QED BY <1>2, <1>3, <1>6, <1>8, <1>9, GivingList

LEMMA UndoKeepsList == 
  ASSUME HoldInv, ListInv, NEW t \in Threads, ~resumed', Undo(t)
  PROVE  ListInv'
<1>1. EraseTypes /\ Placed(t) 
  BY DEF HoldInv
<1>2. Alone(t) /\ KnowsOp(t)'
  BY <1>1, EraseStepIsAlone, EraseKnowsOp DEF EraseStep
<1> PICK d \in Slots : d = del[t] 
  BY <1>1 DEF Undo, Placed, TakenPCs
<1>3. /\ UNCHANGED <<key, next, op, pos, del, prev, last>> 
      /\ pc[t] = "e_undo" /\ pc'[t] = "e_recount" /\ SetState(d, "USED")
  BY <1>1 DEF Undo, chain, eraseVars, Goto, EraseTypes
<1>4. \A s \in Slots : /\ ~Has(t, s)' /\ ~HeldFree(t, s) /\ ~HeldFree(t, s)' 
                       /\ ~LeftBy(t, s) /\ Has(t, d)
  BY <1>3 DEF Has, Holds, HoldsInErase, HeldFree, LeftBy, TakenPCs, LastPCs, PrevPCs
<1>5. KnowsState(t)' /\ KnowsOrder(t)'
  BY <1>3, <1>4 DEF KnowsState, KnowsOrder, Has
<1> QED BY <1>2, <1>3, <1>4, <1>5, GivingList

LEMMA ClearKeepsList == 
  ASSUME HoldInv, ListInv, NEW t \in Threads, ~resumed', Clear(t)
  PROVE  ListInv'
<1>1. EraseTypes /\ Placed(t) /\ KnowsOrder(t)
  BY DEF HoldInv, ListInv
<1>2. Alone(t) /\ KnowsOp(t)'
  BY <1>1, EraseStepIsAlone, EraseKnowsOp DEF EraseStep
<1>3. /\ UNCHANGED <<key, next, op, del, prev, last>> 
      /\ pc[t] \in {"e_cleardel", "e_clearprev"} /\ Leave(t)
  BY DEF Clear, chain
<1>4. pc'[t] = "done"
  BY <1>1, <1>3, LeaveMoves
<1>5. IF pc[t] = "e_cleardel" THEN del[t] \in Slots ELSE prev[t] \in Slots
  BY <1>1, <1>3 DEF Placed, TakenPCs, PrevPCs
<1> PICK e \in Slots : e = IF pc[t] = "e_cleardel" THEN del[t] ELSE prev[t]
  BY <1>5
<1>6. \A s \in Slots : state'[s] = IF s = e THEN "EMPTY" ELSE state[s]
  BY <1>1 DEF Clear, SetState, EraseTypes
<1>7. FreeAfter(e)
  BY <1>1, <1>3 DEF KnowsOrder
<1>8. \A s \in Slots : /\ ~Has(t, s)' /\ ~HeldFree(t, s) /\ ~HeldFree(t, s)' 
                       /\ LeftBy(t, s) => s = e
                       /\ Has(t, e)
  BY <1>3, <1>4 
     DEF Has, Holds, HoldsInErase, HeldFree, LeftBy, TakenPCs, LastPCs, PrevPCs
<1>9. TakesFreely(t) /\ WritesOwn(t) /\ KeepsFree(t) /\ KeepsLeft(t)
  BY <1>6, <1>8 DEF TakesFreely, WritesOwn, KeepsFree, KeepsLeft
<1>10. FreesLast(t)
  BY <1>6, <1>7, <1>8 DEF FreesLast, Free
<1>11. KnowsState(t)' /\ KnowsOrder(t)'
  BY <1>4, <1>8 DEF KnowsState, KnowsOrder, Has
<1>12. LiveKeysDiffer'
  BY <1>2, <1>3, <1>9, LiveKeysStay
<1> QED BY <1>2, <1>3, <1>9, <1>10, <1>11, <1>12, ListStepPreserves DEF ListStep

LEMMA EraseStepKeepsList == 
  ASSUME HoldInv, ListInv, NEW t \in Threads, ~resumed',
         EraseStep(t) \/ \E k \in MayErase[t] : CallErase(t, k)
  PROVE  ListInv'
<1>1. CASE \/ ClaimErase(t) \/ Take(t) \/ HoldLast(t) \/ Check(t) \/ Chain(t) 
           \/ LockPrev(t)
  BY <1>1, ClaimEraseKeepsList, TakeEraseKeepsList, HoldLastKeepsList, 
     CheckKeepsList, ChainKeepsList, LockPrevKeepsList
<1>2. CASE FreeLast(t) \/ Move(t) \/ PublishMoved(t) \/ Clear(t) \/ Undo(t) 
  BY <1>2, FreeLastKeepsList, MoveKeepsList, PublishMovedKeepsList, ClearKeepsList, 
     UndoKeepsList
<1>3. CASE \/ \E k \in MayErase[t] : CallErase(t, k)
           \/ ScanErase(t) \/ WaitErase(t) \/ CompareErase(t) \/ ClaimEraseFails(t) 
           \/ Recount(t) \/ NextErase(t) \/ Looked(t) \/ ReadPending(t) \/ ReadAgain(t)
  BY <1>3, EraseSearchKeepsList
<1> QED BY <1>1, <1>2, <1>3 DEF EraseStep

LEMMA InitList == EraseInit => ListInv
<1> SUFFICES ASSUME EraseInit PROVE ListInv
  OBVIOUS
<1>1. PICK P \in SUBSET Slots : ListInit(P)
  BY DEF EraseInit, Init
<1>2. PICK f \in [P -> Keys] : 
        /\ \A p, q \in P : f[p] = f[q] => p = q
        /\ key = [s \in Slots |-> IF s \in P THEN f[s] ELSE NoKey]
  BY <1>1 DEF ListInit
<1>3. /\ state = [s \in Slots |-> IF s \in P THEN "USED" ELSE "EMPTY"]
      /\ \A p, q \in Slots : Before(p, q) /\ q \in P => p \in P
      /\ pc = [t \in Threads |-> "idle"] 
      /\ next = [b \in Buckets |-> \E s \in P : s[1] = b + 1]
      /\ op = [t \in Threads |-> [kind |-> "Lookup", key |-> NoKey]]
  BY <1>1 DEF ListInit, EraseInit, Init
<1>4. \A t \in Threads : pc[t] = "idle" /\ op[t].kind = "Lookup"
  BY <1>3
<1>5. \A t \in Threads : \A s \in Slots : 
        ~Has(t, s) /\ ~Holds(t, s) /\ ~HoldsInErase(t, s) /\ ~HeldFree(t, s) 
  BY <1>4 DEF Has, Holds, HoldsInErase, HeldFree, TakenPCs, LastPCs, PrevPCs
<1>6. \A s \in Slots : /\ Free(s) <=> s \notin P
                       /\ Live(s) => s \in P
  BY <1>3, <1>5 DEF Free, Live
<1>7. OneHolder
  BY <1>5 DEF OneHolder
<1>8. FreeIsLast
  BY <1>3, <1>6 DEF FreeIsLast, FreeAfter
<1>9. ChainIsFree
  <2> SUFFICES ASSUME NEW b \in Buckets, ~next[b], NEW s \in Slots, s[1] > b, s \in P
               PROVE  FALSE
    BY <1>6 DEF ChainIsFree
  <2>1. PICK c \in Buckets, i \in 0..(BucketSize - 1) : s = <<c, i>>
    BY DEF Slots
  <2>2. b + 1 \in Buckets /\ 0 \in 0..(BucketSize - 1)
    BY <2>1, MaxBucketsAssumption, BucketSizeAssumption DEF Buckets
  <2> PICK r \in Slots : r = <<b + 1, 0>>
    BY <2>2 DEF Slots
  <2>3. r[1] = b + 1 
    OBVIOUS
  <2>4. r = s \/ Before(r, s)
    BY <2>1, <2>2, BucketSizeAssumption, MaxBucketsAssumption DEF Before, Buckets
  <2>5. r \in P
    BY <1>3, <2>4
  <2> QED BY <1>3, <2>3, <2>5
<1>10. LiveKeysDiffer
  BY <1>2, <1>6 DEF LiveKeysDiffer
<1>11. ASSUME NEW t \in Threads PROVE KnowsOp(t) /\ KnowsState(t) /\ KnowsOrder(t)
  BY <1>4, <1>5 DEF KnowsOp, KnowsState, KnowsOrder, ScanPCs, ErasePCs, EraseKind
<1> QED BY <1>7, <1>8, <1>9, <1>10, <1>11 DEF ListInv

\* What has happened stays in the history.
LEMMA OnceResumed == 
  ASSUME EraseTypes, [EraseNext]_allVars, resumed
  PROVE  resumed'
<1>1. CASE UNCHANGED allVars \/ (Next /\ UNCHANGED eraseVars)
  BY <1>1 DEF allVars, eraseVars, history
<1>2. ASSUME NEW t \in Threads, EraseStep(t) \/ \E k \in MayErase[t] : CallErase(t, k)
      PROVE  resumed'
  <2>1. CASE Leave(t)
    BY <2>1, LeaveMoves
  <2>2. CASE ~Leave(t)
    <3>1. UNCHANGED resumed
      BY <1>2, <2>2 DEF EraseStep, CallErase, ScanErase, WaitErase, CompareErase, 
         ClaimErase, ClaimEraseFails, Take, HoldLast, Check, Chain, LockPrev, 
         FreeLast, Move, PublishMoved, Clear, Undo, Recount, NextErase, Looked, 
         ReadPending, ReadAgain, eraseVars, history
    <3> QED BY <3>1
  <2> QED BY <2>1, <2>2
<1> QED BY <1>1, <1>2 DEF EraseNext

LEMMA NextKeepsList == 
  ASSUME HoldInv, ListInv, NoInserts, ~resumed', [EraseNext]_allVars
  PROVE  ListInv'
<1>1. CASE UNCHANGED allVars
  BY <1>1 DEF ListInv, allVars, vars, entries, chain, local, eraseVars, 
     OneHolder, FreeIsLast, ChainIsFree, LiveKeysDiffer, KnowsOp, KnowsState, 
     KnowsOrder, Has, Holds, HoldsInErase, Free, FreeAfter, HeldFree, Live, Left, 
     LeftBy, MyKey
<1> QED BY <1>1, HashmapStepKeepsList, EraseStepKeepsList DEF EraseNext

\* Between operations an entry is free or used, and nobody holds it.
LEMMA QuietEntries == 
  ASSUME HoldInv, Quiet, NEW s \in Slots
  PROVE  /\ \A t \in Threads : ~Has(t, s) /\ ~CountedBy(t, s)
         /\ Free(s) <=> state[s] = "EMPTY"
         /\ Live(s) <=> state[s] = "USED"
         /\ state[s] \in {"EMPTY", "USED"}
<1>1. \A t \in Threads : /\ ~Has(t, s) /\ ~CountedBy(t, s) /\ ~HeldFree(t, s) 
                         /\ ~LeftBy(t, s)
  BY DEF Quiet, Has, Holds, HoldsInErase, CountedBy, HeldFree, LeftBy, TakenPCs, 
     LastPCs, PrevPCs
<1>2. state[s] \in {"EMPTY", "USED"}
  BY <1>1 DEF HoldInv, PendingIsHeld, Pending, EraseTypes, EntryStates
<1> QED BY <1>1, <1>2 DEF Live, Free, Left

-----------------------------------------------------------------------------
(* size_ counts the entries, down to the wrapping around of its type.      *)

\* A step of LocalHashmap that inserts nothing takes no entry out of the map.
LEMMA HashmapStepView == 
  ASSUME HoldInv, ListInv, NoInserts, NEW t \in Threads, UNCHANGED eraseVars, 
         CallAny(t) \/ Step(t)
  PROVE  /\ pc[t] \in PCs /\ pc'[t] \in PCs /\ UNCHANGED <<key, size, filled>>
         /\ \A s \in Slots : /\ state'[s] \in Present <=> state[s] \in Present
                             /\ state'[s] = "EMPTY" <=> state[s] = "EMPTY"
<1> USE DEF PCs, Goto, NextEntry, EnterNextBucket
<1>1. EraseTypes /\ KnowsOp(t) /\ KnowsState(t) /\ UNCHANGED filled
  BY DEF HoldInv, ListInv, eraseVars, history
<1> USE <1>1 DEF EraseTypes
<1>2. CASE CallAny(t) \/ Return(t)
  <2>1. pc[t] \in {"idle", "done"} /\ UNCHANGED <<state, key, size>>
    BY <1>2 DEF CallAny, Call, Return, entries
  <2>2. pc'[t] \in {"claim", "scan", "idle"}
    BY <1>2 DEF CallAny, Call, Return
  <2> QED BY <2>1, <2>2
<1>3. CASE Scan(t) \/ Probe(t) \/ Found(t) \/ Hop(t) \/ Deref(t)
  <2>1. UNCHANGED <<state, key, size>> 
    BY <1>3 DEF Scan, Probe, Found, Hop, Deref, entries
  <2>2. pc[t] \in PCs /\ pc'[t] \in PCs
    BY <1>3 DEF Scan, Probe, Found, Hop, Deref, LookupReturns
  <2> QED BY <2>1, <2>2
<1>4. CASE CallFunction(t) \/ StoreResult(t)
  BY <1>4 DEF CallFunction, StoreResult, entries
<1>5. CASE Tag(t)
  <2>1. PICK c \in Slots : c = pos[t]
    OBVIOUS
  <2>2. \/ UNCHANGED state
        \/ state[c] = "USED" /\ SetState(c, "PENDING_UPDATE")
    BY <1>5, <2>1 DEF Tag
  <2>3. \A s \in Slots : /\ state'[s] \in Present <=> state[s] \in Present
                         /\ state'[s] = "EMPTY" <=> state[s] = "EMPTY"
    BY <2>2 DEF SetState, Present
  <2>4. pc[t] = "tag" /\ pc'[t] \in {"call", "done"} /\ UNCHANGED <<key, size>>
    BY <1>5 DEF Tag, Finish
  <2> QED BY <2>3, <2>4
<1>6. CASE Release(t)
  <2>1. PICK c \in Slots : c = pos[t]
    OBVIOUS
  <2>2. state[c] = "PENDING_UPDATE" /\ SetState(c, "USED")
    BY <1>6, <2>1 DEF Release, KnowsState, Holds
  <2>3. \A s \in Slots : /\ state'[s] \in Present <=> state[s] \in Present
                         /\ state'[s] = "EMPTY" <=> state[s] = "EMPTY"
    BY <2>2 DEF SetState, Present
  <2>4. pc[t] = "release" /\ pc'[t] = "done" /\ UNCHANGED <<key, size>>
    BY <1>6 DEF Release
  <2> QED BY <2>3, <2>4
<1>7. CASE InsertStep(t) /\ ~Release(t)
  <2>1. pc[t] \in ScanPCs \cup ErasePCs
    BY DEF KnowsOp
  <2>2. ~Claim(t) /\ ~ClaimFails(t) /\ ~AwaitInsert(t) /\ ~Compare(t)
    BY <2>1 DEF Claim, ClaimFails, AwaitInsert, Compare, ScanPCs, ErasePCs
  <2>3. ~InitEntry(t) /\ ~CountEntry(t) /\ ~Publish(t) /\ ~LockEntry(t) 
    BY <2>1 DEF InitEntry, CountEntry, Publish, LockEntry, ScanPCs, ErasePCs
  <2>4. ~UpdateEntry(t) /\ ~Grow(t)
    BY <2>1 DEF UpdateEntry, Grow, GrowList, LinkBucket, AwaitBucket, ScanPCs, 
       ErasePCs
  <2> QED BY <1>7, <2>2, <2>3, <2>4 DEF InsertStep
<1> QED BY <1>2, <1>3, <1>4, <1>5, <1>6, <1>7 DEF Step, ScanStep

LEMMA FiniteSlots == 
  /\ IsFiniteSet(Slots) 
  /\ Cardinality(Slots) = MaxBuckets * BucketSize
<1>1. /\ IsFiniteSet(Buckets) /\ Cardinality(Buckets) = MaxBuckets
      /\ IsFiniteSet(0..(BucketSize - 1)) 
      /\ Cardinality(0..(BucketSize - 1)) = BucketSize
  BY FS_Interval, BucketSizeAssumption, MaxBucketsAssumption DEF Buckets
<1> QED BY <1>1, FS_Product DEF Slots

LEMMA CountedAreFew == 
  /\ IsFiniteSet(CountedSlots) /\ Cardinality(CountedSlots) \in 0..(SizeRange - 1)
  /\ SizeRange \in Nat \ {0}
<1>1. CountedSlots \subseteq Slots
  BY DEF CountedSlots
<1>2. /\ IsFiniteSet(CountedSlots) /\ Cardinality(CountedSlots) \in Nat
      /\ Cardinality(CountedSlots) <= MaxBuckets * BucketSize
  BY <1>1, FiniteSlots, FS_Subset, FS_CardinalityType
<1>3. MaxBuckets * BucketSize \in Nat
  BY BucketSizeAssumption, MaxBucketsAssumption
<1> QED BY <1>2, <1>3, SizeRangeAssumption

LEMMA DivMod == 
  ASSUME NEW x \in Int, NEW n \in Nat \ {0} 
  PROVE  /\ x = n * (x \div n) + (x % n)
         /\ x \div n \in Int /\ x % n \in 0..(n - 1)
OBVIOUS

LEMMA ModOfSum == 
  ASSUME NEW n \in Nat \ {0}, NEW q \in Int, NEW r \in 0..(n - 1)
  PROVE  (n * q + r) % n = r
OBVIOUS

\* counting up or down from a number that has wrapped around
LEMMA ModStep == 
  ASSUME NEW x \in Int, NEW n \in Nat \ {0}, NEW d \in Int
  PROVE  ((x % n) + d) % n = (x + d) % n
<1>1. PICK q \in Int, r \in 0..(n - 1) : x = n * q + r /\ r = x % n
  BY DivMod
<1>2. r + d \in Int
  OBVIOUS
<1>3. PICK p \in Int, m \in 0..(n - 1) : r + d = n * p + m /\ m = (r + d) % n
  BY <1>2, DivMod
<1>4. PICK k \in Int : k = q + p
  OBVIOUS
<1>5. n * k = n * q + n * p
  BY <1>4
<1>6. x + d = n * k + m
  <2>1. PICK a \in Int : a = n * q
    OBVIOUS
  <2>2. PICK b \in Int : b = n * p
    OBVIOUS
  <2>3. x = a + r /\ r + d = b + m /\ n * k = a + b
    BY <1>1, <1>3, <1>5, <2>1, <2>2
  <2> HIDE <2>1, <2>2
  <2>4. x + d = (a + b) + m
    BY <2>3
  <2> QED BY <2>3, <2>4
<1>7. (n * k + m) % n = m
  BY ModOfSum
<1> QED BY <1>1, <1>3, <1>6, <1>7

LEMMA CountedIsPresent == 
  ASSUME ListInv, NEW t \in Threads, NEW s \in Slots, CountedBy(t, s)
  PROVE  /\ Has(t, s) /\ state[s] = "PENDING_INSERT"
         /\ \A u \in Threads \ {t} : ~CountedBy(u, s)
<1>1. \A u \in Threads : CountedBy(u, s) => HoldsInErase(u, s)
  BY DEF CountedBy, HoldsInErase, PrevPCs
<1> QED BY <1>1 DEF ListInv, OneHolder, KnowsState, Has

\* A step after which the same entries count, and as many tasks as before
\* have an entry to count again.
LEMMA SizeStays == 
  ASSUME SizeInv, NEW t \in Threads, Alone(t), UNCHANGED size,
         pc[t] # "e_recount", pc'[t] # "e_recount",
         \A s \in Slots : 
           state'[s] \in Present \/ CountedBy(t, s)' 
             <=> state[s] \in Present \/ CountedBy(t, s)
  PROVE  SizeInv'
<1>1. \A s \in Slots : Counted(s)' <=> Counted(s)
  BY DEF Counted, CountedBy, Alone
<1>2. CountedSlots' = CountedSlots
  BY <1>1 DEF CountedSlots
<1>3. Recounting' = Recounting
  BY DEF Recounting, Alone
<1> QED BY <1>2, <1>3 DEF SizeInv

LEMMA HashmapStepKeepsSize == 
  ASSUME HoldInv, ListInv, SizeInv, NoInserts, NEW t \in Threads, 
         UNCHANGED eraseVars, CallAny(t) \/ Step(t)
  PROVE  SizeInv'
<1>1. Alone(t)
  BY HashmapStepIsAlone DEF HoldInv
<1>2. \A s \in Slots : ~CountedBy(t, s) /\ ~CountedBy(t, s)'
  BY HashmapStepView DEF CountedBy, PCs
<1>3. pc[t] # "e_recount" /\ pc'[t] # "e_recount"
  BY HashmapStepView DEF PCs
<1> QED BY <1>1, <1>2, <1>3, HashmapStepView, SizeStays

\* The steps of an erasure that write no entry.
LEMMA EraseSearchKeepsSize == 
  ASSUME HoldInv, ListInv, SizeInv, NEW t \in Threads, ~resumed',
         \/ \E k \in MayErase[t] : CallErase(t, k)
         \/ ScanErase(t) \/ WaitErase(t) \/ CompareErase(t) \/ ClaimEraseFails(t) 
         \/ NextErase(t) \/ Looked(t) \/ ReadPending(t) \/ ReadAgain(t)
         \/ Check(t)
  PROVE  SizeInv'
<1> USE DEF Goto, NextEntry, EnterNextBucket, Begin
<1>1. EraseTypes
  BY DEF HoldInv
<1>2. Alone(t)
  BY <1>1, EraseStepIsAlone DEF EraseStep
<1>3. UNCHANGED <<state, size>>
  BY DEF CallErase, ScanErase, WaitErase, CompareErase, ClaimEraseFails, 
     NextErase, Looked, ReadPending, ReadAgain, Check, entries
<1> DEFINE L == {"idle", "e_scan", "e_wait", "e_compare", "e_claim", "e_next", 
                 "looked", "scan", "rescan", "probe", "hop", "done", "e_check", 
                 "e_tail", "e_chain", "e_undo"}
<1>4. pc[t] \in L /\ pc'[t] \in L
  <2>1. CASE Looked(t)
    <3>1. CASE Leave(t)
      BY <1>1, <2>1, <3>1, LeaveMoves DEF Looked
    <3>2. CASE Begin(t)
      BY <1>1, <2>1, <3>2 DEF Looked, EraseTypes
    <3> QED BY <2>1, <3>1, <3>2 DEF Looked
  <2>2. CASE \/ \E k \in MayErase[t] : CallErase(t, k)
             \/ ClaimEraseFails(t) \/ Check(t)
    BY <1>1, <2>2 DEF CallErase, ClaimEraseFails, Check, EraseTypes
  <2>3. CASE \/ ScanErase(t) \/ WaitErase(t) \/ CompareErase(t) 
             \/ NextErase(t) \/ ReadPending(t) \/ ReadAgain(t)
    BY <1>1, <2>3 DEF ScanErase, WaitErase, CompareErase, NextErase, ReadPending, 
       ReadAgain, EraseTypes
  <2> QED BY <2>1, <2>2, <2>3
<1>5. \A s \in Slots : ~CountedBy(t, s) /\ ~CountedBy(t, s)'
  BY <1>4 DEF CountedBy
<1> QED BY <1>2, <1>3, <1>4, <1>5, SizeStays

\* The steps that hold or let go of entries, and leave the count alone.
LEMMA HoldingKeepsSize == 
  ASSUME HoldInv, ListInv, SizeInv, NEW t \in Threads, ~resumed',
         \/ ClaimErase(t) \/ HoldLast(t) \/ Chain(t) \/ LockPrev(t) \/ FreeLast(t)
         \/ Move(t) \/ Clear(t)
  PROVE  SizeInv'
<1> USE DEF Goto
<1>1. EraseTypes /\ Placed(t) /\ KnowsState(t) /\ KnowsOrder(t)
  BY DEF HoldInv, ListInv
<1>2. Alone(t)
  BY <1>1, EraseStepIsAlone DEF EraseStep
<1>3. CASE ClaimErase(t)
  <2> PICK c \in Slots : c = pos[t]
    BY <1>1 DEF EraseTypes
  <2>1. /\ UNCHANGED <<pos, size>> /\ SetState(c, "PENDING_INSERT") 
        /\ state[c] = "USED" /\ pc[t] = "e_claim" /\ pc'[t] = "e_take"
    BY <1>1, <1>3 DEF ClaimErase, EraseTypes
  <2>2. \A s \in Slots : /\ ~CountedBy(t, s) 
                         /\ CountedBy(t, s)' <=> s = c
                         /\ state'[s] = IF s = c THEN "PENDING_INSERT" ELSE state[s]
    BY <1>1, <2>1 DEF CountedBy, SetState, EraseTypes
  <2> QED BY <1>2, <2>1, <2>2, SizeStays DEF Present
<1>4. CASE HoldLast(t)
  <2> PICK c \in Slots : c = cur[t]
    BY <1>1, <1>4 DEF HoldLast, Placed
  <2>1. /\ UNCHANGED <<pos, size>> /\ pc[t] = "e_tail" 
        /\ pc'[t] \in {"e_drop", "e_prev", "e_check"}
        /\ \/ UNCHANGED state
           \/ state[c] = "EMPTY" /\ SetState(c, "PENDING_INSERT")
    BY <1>1, <1>4 DEF HoldLast, EraseTypes
  <2>2. \A s \in Slots : /\ ~CountedBy(t, s) /\ ~CountedBy(t, s)'
                         /\ state'[s] \in Present <=> state[s] \in Present
    BY <1>1, <2>1 DEF CountedBy, SetState, EraseTypes, Present
  <2> QED BY <1>2, <2>1, <2>2, SizeStays 
<1>5. CASE Chain(t)
  <2> PICK p \in Slots : p = prev[t]
    BY <1>1, <1>5 DEF Chain, Placed, TakenPCs
  <2>1. /\ UNCHANGED <<pos, size, prev>> /\ pc[t] = "e_chain" 
        /\ \/ UNCHANGED state /\ pc'[t] \in {"e_tail", "e_cleardel", "e_undo"}
           \/ /\ state[p] = "USED" /\ SetState(p, "PENDING_INSERT") 
              /\ pc'[t] = "e_move"
    <3>1. last[t] # NoSlot => last[t] = p
      BY <1>1, <1>5 DEF Chain, Placed
    <3> QED BY <1>1, <1>5, <3>1 DEF Chain, EraseTypes
  <2>2. \A s \in Slots : /\ ~CountedBy(t, s) 
                         /\ state'[s] \in Present \/ CountedBy(t, s)' 
                              <=> state[s] \in Present 
    BY <1>1, <2>1 DEF CountedBy, SetState, EraseTypes, Present
  <2> QED BY <1>2, <2>1, <2>2, SizeStays 
<1>6. CASE LockPrev(t)
  <2> PICK p \in Slots : p = prev[t]
    BY <1>1, <1>6 DEF LockPrev, Placed, TakenPCs
  <2>1. /\ UNCHANGED <<pos, size, prev>> /\ pc[t] = "e_prev" 
        /\ \/ UNCHANGED state /\ pc'[t] = "e_unlast"
           \/ /\ state[p] = "USED" /\ SetState(p, "PENDING_INSERT") 
              /\ pc'[t] = "e_free"
    BY <1>1, <1>6 DEF LockPrev, EraseTypes, eraseVars
  <2>2. \A s \in Slots : /\ ~CountedBy(t, s) 
                         /\ state'[s] \in Present \/ CountedBy(t, s)' 
                              <=> state[s] \in Present 
    BY <1>1, <2>1 DEF CountedBy, SetState, EraseTypes, Present
  <2> QED BY <1>2, <2>1, <2>2, SizeStays 
<1>7. CASE FreeLast(t)
  <2> PICK l \in Slots : l = last[t]
    BY <1>1, <1>7 DEF FreeLast, Placed, LastPCs
  <2>1. /\ UNCHANGED <<pos, size, prev>> /\ SetState(l, "EMPTY")
        /\ \/ pc[t] = "e_free" /\ pc'[t] = "e_move"
           \/ pc[t] = "e_drop" /\ pc'[t] = "e_cleardel"
           \/ pc[t] = "e_unlast" /\ pc'[t] = "e_undo"
    BY <1>1, <1>7 DEF FreeLast, EraseTypes, eraseVars
  <2>2. state[l] = "PENDING_INSERT"
    BY <1>1, <2>1 DEF KnowsState, HoldsInErase, LastPCs
  <2>3. \A s \in Slots : /\ CountedBy(t, s) <=> CountedBy(t, s)'
                         /\ state'[s] \in Present <=> state[s] \in Present 
    BY <1>1, <2>1, <2>2 DEF CountedBy, SetState, EraseTypes, Present
  <2> QED BY <1>2, <2>1, <2>3, SizeStays 
<1>8. CASE Move(t)
  <2>1. /\ UNCHANGED <<pos, size, prev, state>> 
        /\ pc[t] = "e_move" /\ pc'[t] = "e_publish"
    BY <1>1, <1>8 DEF Move, EraseTypes, eraseVars
  <2>2. \A s \in Slots : CountedBy(t, s) <=> CountedBy(t, s)'
    BY <2>1 DEF CountedBy
  <2> QED BY <1>2, <2>1, <2>2, SizeStays 
<1>9. CASE Clear(t)
  <2>1. IF pc[t] = "e_cleardel" THEN del[t] \in Slots ELSE prev[t] \in Slots
    BY <1>1, <1>9 DEF Clear, Placed, TakenPCs, PrevPCs
  <2> PICK e \in Slots : e = IF pc[t] = "e_cleardel" THEN del[t] ELSE prev[t]
    BY <2>1
  <2>2. /\ UNCHANGED <<size>> /\ SetState(e, "EMPTY")
        /\ pc[t] \in {"e_cleardel", "e_clearprev"} /\ pc'[t] = "done"
    BY <1>1, <1>9, LeaveMoves DEF Clear
  <2>3. state[e] = "PENDING_INSERT"
    BY <1>1, <2>2 DEF KnowsState, HoldsInErase, TakenPCs, PrevPCs
  <2>4. \A s \in Slots : /\ ~CountedBy(t, s) /\ ~CountedBy(t, s)'
                         /\ state'[s] \in Present <=> state[s] \in Present 
    BY <1>1, <2>2, <2>3 DEF CountedBy, SetState, EraseTypes, Present
  <2> QED BY <1>2, <2>2, <2>4, SizeStays 
<1> QED BY <1>3, <1>4, <1>5, <1>6, <1>7, <1>8, <1>9

\* size_-- of an erasure that has claimed its entry
LEMMA TakeEraseKeepsSize == 
  ASSUME HoldInv, ListInv, SizeInv, NEW t \in Threads, ~resumed', Take(t)
  PROVE  SizeInv'
<1>1. EraseTypes
  BY DEF HoldInv
<1>2. Alone(t)
  BY <1>1, EraseStepIsAlone DEF EraseStep
<1> PICK c \in Slots : c = pos[t]
  BY <1>1 DEF EraseTypes
<1>3. /\ UNCHANGED <<pos, state>> /\ size' = (size - 1) % SizeRange 
      /\ pc[t] = "e_take" /\ pc'[t] \in {"e_chain", "e_tail"}
  BY <1>1 DEF Take, EraseTypes, entries, Goto
<1>4. CountedBy(t, c) 
  BY <1>3 DEF CountedBy
<1>5. /\ state[c] = "PENDING_INSERT" 
      /\ \A u \in Threads \ {t} : ~CountedBy(u, c)
  BY <1>4, CountedIsPresent
<1>6. \A s \in Slots : Counted(s)' <=> Counted(s) /\ s # c
  <2>1. \A s \in Slots : ~CountedBy(t, s)' /\ (CountedBy(t, s) <=> s = c)
    BY <1>3 DEF CountedBy
  <2>2. \A u \in Threads \ {t} : \A s \in Slots : CountedBy(u, s)' <=> CountedBy(u, s)
    BY <1>2 DEF CountedBy, Alone
  <2> QED BY <1>3, <1>5, <2>1, <2>2 DEF Counted, Present
<1>7. c \in CountedSlots /\ CountedSlots' = CountedSlots \ {c}
  BY <1>4, <1>6 DEF CountedSlots, Counted
<1>8. Recounting' = Recounting
  BY <1>2, <1>3 DEF Recounting, Alone
<1>9. /\ Cardinality(CountedSlots') = Cardinality(CountedSlots) - 1
      /\ Cardinality(CountedSlots) \in Int /\ Cardinality(Recounting) \in Int
      /\ SizeRange \in Nat \ {0}
  <2>1. /\ IsFiniteSet(CountedSlots) /\ Cardinality(CountedSlots) \in Int
        /\ SizeRange \in Nat \ {0}
    BY CountedAreFew
  <2>2. Cardinality(Recounting) \in Int
    BY FS_CardinalityType DEF SizeInv
  <2>3. Cardinality(CountedSlots \ {c}) = Cardinality(CountedSlots) - 1
    BY <1>7, <2>1, FS_RemoveElement 
  <2> QED BY <1>7, <2>1, <2>2, <2>3
<1> DEFINE n == Cardinality(CountedSlots) 
           r == Cardinality(Recounting)
<1>10. size' = (((n - r) % SizeRange) + (-1)) % SizeRange
  BY <1>3, <1>9 DEF SizeInv
<1>11. size' = ((n - r) + (-1)) % SizeRange
  BY <1>9, <1>10, ModStep
<1>12. (n - r) + (-1) = (n - 1) - r
  BY <1>9
<1> QED BY <1>8, <1>9, <1>11, <1>12 DEF SizeInv

\* toDelete goes back into the map before size_++ ...
LEMMA UndoKeepsSize == 
  ASSUME HoldInv, ListInv, SizeInv, NEW t \in Threads, ~resumed', Undo(t)
  PROVE  SizeInv'
<1>1. EraseTypes /\ Placed(t) /\ KnowsState(t)
  BY DEF HoldInv, ListInv
<1>2. Alone(t)
  BY <1>1, EraseStepIsAlone DEF EraseStep
<1> PICK d \in Slots : d = del[t]
  BY <1>1 DEF Undo, Placed, TakenPCs
<1>3. /\ UNCHANGED <<pos, size>> /\ pc[t] = "e_undo" /\ pc'[t] = "e_recount"
      /\ SetState(d, "USED")
  BY <1>1 DEF Undo, EraseTypes, eraseVars, Goto
<1>4. \A s \in Slots : /\ state'[s] = IF s = d THEN "USED" ELSE state[s]
                       /\ ~CountedBy(t, s) /\ ~CountedBy(t, s)'
  BY <1>1, <1>3 DEF SetState, EraseTypes, CountedBy
<1>5. HoldsInErase(t, d) /\ state[d] = "PENDING_INSERT"
  BY <1>1, <1>3 DEF HoldsInErase, KnowsState, TakenPCs
<1>6. \A u \in Threads : ~CountedBy(u, d)
  <2> SUFFICES ASSUME NEW u \in Threads, CountedBy(u, d) PROVE FALSE
    OBVIOUS
  <2>1. Has(u, d) /\ Has(t, d)
    BY <1>5, CountedIsPresent DEF Has
  <2>2. u = t
    BY <2>1 DEF ListInv, OneHolder
  <2> QED BY <1>4, <2>2
<1>7. \A s \in Slots : Counted(s)' <=> Counted(s) \/ s = d
  <2>1. \A u \in Threads \ {t} : \A s \in Slots : CountedBy(u, s)' <=> CountedBy(u, s)
    BY <1>2 DEF CountedBy, Alone
  <2> QED BY <1>4, <2>1 DEF Counted, Present
<1>8. d \notin CountedSlots /\ CountedSlots' = CountedSlots \cup {d}
  BY <1>5, <1>6, <1>7 DEF CountedSlots, Counted, Present
<1>9. t \notin Recounting /\ Recounting' = Recounting \cup {t}
  BY <1>2, <1>3 DEF Recounting, Alone
<1>10. /\ Cardinality(CountedSlots') = Cardinality(CountedSlots) + 1
       /\ Cardinality(Recounting') = Cardinality(Recounting) + 1
       /\ Cardinality(CountedSlots) \in Int /\ Cardinality(Recounting) \in Int
       /\ IsFiniteSet(Recounting')
  <2>1. IsFiniteSet(CountedSlots) /\ Cardinality(CountedSlots) \in Int
    BY CountedAreFew
  <2>2. IsFiniteSet(Recounting) /\ Cardinality(Recounting) \in Int
    BY FS_CardinalityType DEF SizeInv
  <2>3. Cardinality(CountedSlots \cup {d}) = Cardinality(CountedSlots) + 1
    BY <1>8, <2>1, FS_AddElement 
  <2>4. /\ Cardinality(Recounting \cup {t}) = Cardinality(Recounting) + 1
        /\ IsFiniteSet(Recounting \cup {t})
    BY <1>9, <2>2, FS_AddElement 
  <2> QED BY <1>8, <1>9, <2>1, <2>2, <2>3, <2>4
<1>11. Cardinality(CountedSlots') - Cardinality(Recounting') 
         = Cardinality(CountedSlots) - Cardinality(Recounting)
  BY <1>10
<1> QED BY <1>3, <1>10, <1>11 DEF SizeInv

\* ... which follows
LEMMA RecountKeepsSize == 
  ASSUME HoldInv, ListInv, SizeInv, NEW t \in Threads, ~resumed', Recount(t)
  PROVE  SizeInv'
<1>1. EraseTypes 
  BY DEF HoldInv
<1>2. Alone(t)
  BY <1>1, EraseStepIsAlone DEF EraseStep
<1>3. /\ UNCHANGED state /\ pc[t] = "e_recount" /\ pc'[t] = "e_scan"
      /\ size' = (size + 1) % SizeRange
  BY <1>1 DEF Recount, EraseTypes, entries, Begin, Goto
<1>4. \A s \in Slots : Counted(s)' <=> Counted(s) 
  <2>1. \A s \in Slots : ~CountedBy(t, s) /\ ~CountedBy(t, s)'
    BY <1>3 DEF CountedBy
  <2>2. \A u \in Threads \ {t} : \A s \in Slots : CountedBy(u, s)' <=> CountedBy(u, s)
    BY <1>2 DEF CountedBy, Alone
  <2> QED BY <1>3, <2>1, <2>2 DEF Counted
<1>5. CountedSlots' = CountedSlots 
  BY <1>4 DEF CountedSlots
<1>6. t \in Recounting /\ Recounting' = Recounting \ {t}
  BY <1>2, <1>3 DEF Recounting, Alone
<1>7. /\ Cardinality(Recounting') = Cardinality(Recounting) - 1
      /\ Cardinality(CountedSlots) \in Int /\ Cardinality(Recounting) \in Int
      /\ IsFiniteSet(Recounting') /\ SizeRange \in Nat \ {0}
  BY <1>6, CountedAreFew, FS_RemoveElement, FS_CardinalityType DEF SizeInv
<1> DEFINE n == Cardinality(CountedSlots) 
           r == Cardinality(Recounting)
<1>8. size' = (((n - r) % SizeRange) + 1) % SizeRange
  BY <1>3 DEF SizeInv
<1>9. size' = ((n - r) + 1) % SizeRange
  BY <1>7, <1>8, ModStep
<1>10. (n - r) + 1 = n - (r - 1)
  BY <1>7
<1> QED BY <1>5, <1>7, <1>9, <1>10 DEF SizeInv

\* The hole counts in place of the entry that moved into it.
LEMMA PublishMovedKeepsSize == 
  ASSUME HoldInv, ListInv, SizeInv, NEW t \in Threads, ~resumed', PublishMoved(t)
  PROVE  SizeInv'
<1>1. EraseTypes /\ Placed(t) /\ KnowsState(t) /\ KnowsOrder(t)
  BY DEF HoldInv, ListInv
<1>2. Alone(t)
  BY <1>1, EraseStepIsAlone DEF EraseStep
<1> PICK p \in Slots, d \in Slots : p = prev[t] /\ d = del[t]
  BY <1>1 DEF PublishMoved, Placed, TakenPCs
<1>3. /\ UNCHANGED <<pos, prev, size>> 
      /\ pc[t] = "e_publish" /\ pc'[t] = "e_clearprev" /\ SetState(d, "USED")
  BY <1>1 DEF PublishMoved, EraseTypes, eraseVars, Goto
<1>4. p # d
  BY <1>1, <1>3, BeforeIsOrder DEF KnowsOrder
<1>5. \A s \in Slots : /\ state'[s] = IF s = d THEN "USED" ELSE state[s]
                       /\ ~CountedBy(t, s)' /\ (CountedBy(t, s) <=> s = p)
  BY <1>1, <1>3 DEF SetState, EraseTypes, CountedBy
<1>6. HoldsInErase(t, d) /\ state[d] = "PENDING_INSERT"
  BY <1>1, <1>3 DEF HoldsInErase, KnowsState, TakenPCs
<1>7. \A u \in Threads : ~CountedBy(u, d)
  <2> SUFFICES ASSUME NEW u \in Threads, CountedBy(u, d) PROVE FALSE
    OBVIOUS
  <2>1. Has(u, d) /\ Has(t, d)
    BY <1>6, CountedIsPresent DEF Has
  <2>2. u = t
    BY <2>1 DEF ListInv, OneHolder
  <2> QED BY <1>4, <1>5, <2>2
<1>8. state[p] = "PENDING_INSERT" /\ \A u \in Threads \ {t} : ~CountedBy(u, p)
  BY <1>5, CountedIsPresent
<1>9. \A s \in Slots : Counted(s)' <=> (Counted(s) /\ s # p) \/ s = d
  <2>1. \A u \in Threads \ {t} : \A s \in Slots : CountedBy(u, s)' <=> CountedBy(u, s)
    BY <1>2 DEF CountedBy, Alone
  <2>2. ~Counted(p)'
    BY <1>4, <1>5, <1>8, <2>1 DEF Counted, Present
  <2>3. ASSUME NEW s \in Slots, s # p PROVE Counted(s)' <=> Counted(s) \/ s = d
    BY <1>5, <2>1, <2>3 DEF Counted, Present
  <2> QED BY <1>4, <2>2, <2>3
<1>10. p \in CountedSlots /\ d \notin CountedSlots
  BY <1>5, <1>6, <1>7 DEF CountedSlots, Counted, Present
<1>11. CountedSlots' = (CountedSlots \ {p}) \cup {d}
  BY <1>9 DEF CountedSlots
<1>12. Recounting' = Recounting
  BY <1>2, <1>3 DEF Recounting, Alone
<1>13. /\ IsFiniteSet(CountedSlots \ {p}) 
       /\ Cardinality(CountedSlots \ {p}) = Cardinality(CountedSlots) - 1
       /\ Cardinality(CountedSlots) \in Int
  BY <1>10, CountedAreFew, FS_RemoveElement
<1>14. Cardinality(CountedSlots') = Cardinality(CountedSlots)
  <2>1. d \notin CountedSlots \ {p}
    BY <1>10
  <2>2. Cardinality((CountedSlots \ {p}) \cup {d}) = Cardinality(CountedSlots \ {p}) + 1
    BY <1>13, <2>1, FS_AddElement
  <2> QED BY <1>11, <1>13, <2>2
<1> QED BY <1>3, <1>12, <1>14 DEF SizeInv

LEMMA InitSize == EraseInit => SizeInv
<1> SUFFICES ASSUME EraseInit PROVE SizeInv
  OBVIOUS
<1>1. PICK P \in SUBSET Slots : ListInit(P) /\ size = Cardinality(P)
  BY DEF EraseInit, Init
<1>2. /\ state = [s \in Slots |-> IF s \in P THEN "USED" ELSE "EMPTY"]
      /\ pc = [t \in Threads |-> "idle"] 
  BY <1>1 DEF ListInit
<1>3. CountedSlots = P /\ Recounting = {}
  BY <1>2 DEF CountedSlots, Counted, CountedBy, Recounting, Present
<1>4. IsFiniteSet({}) /\ Cardinality({}) = 0
  BY FS_EmptySet
<1>5. Cardinality(P) \in 0..(SizeRange - 1) /\ SizeRange \in Nat \ {0}
  BY <1>3, CountedAreFew
<1>6. (Cardinality(P) - 0) % SizeRange = Cardinality(P)
  BY <1>5
<1> QED BY <1>1, <1>3, <1>4, <1>6 DEF SizeInv

LEMMA NextKeepsSize == 
  ASSUME HoldInv, ListInv, SizeInv, NoInserts, ~resumed', [EraseNext]_allVars
  PROVE  SizeInv'
<1>1. CASE UNCHANGED allVars \/ (Terminating /\ UNCHANGED eraseVars)
  <2>1. UNCHANGED allVars
    BY <1>1 DEF Terminating, allVars
  <2> QED BY <2>1 DEF SizeInv, allVars, vars, entries, chain, local, eraseVars, 
       CountedSlots, Counted, CountedBy, Recounting
<1>2. ASSUME NEW t \in Threads, UNCHANGED eraseVars, CallAny(t) \/ Step(t)
      PROVE  SizeInv'
  BY <1>2, HashmapStepKeepsSize
<1>3. ASSUME NEW t \in Threads, EraseStep(t) \/ \E k \in MayErase[t] : CallErase(t, k)
      PROVE  SizeInv'
  <2>1. CASE \/ \E k \in MayErase[t] : CallErase(t, k)
             \/ ScanErase(t) \/ WaitErase(t) \/ CompareErase(t) \/ ClaimEraseFails(t) 
             \/ NextErase(t) \/ Looked(t) \/ ReadPending(t) \/ ReadAgain(t)
             \/ Check(t)
    BY <2>1, EraseSearchKeepsSize
  <2>2. CASE \/ ClaimErase(t) \/ HoldLast(t) \/ Chain(t) \/ LockPrev(t) 
             \/ FreeLast(t) \/ Move(t) \/ Clear(t)
    BY <2>2, HoldingKeepsSize
  <2>3. CASE Take(t) \/ Undo(t) \/ Recount(t) \/ PublishMoved(t)
    BY <2>3, TakeEraseKeepsSize, UndoKeepsSize, RecountKeepsSize, 
       PublishMovedKeepsSize
  <2> QED BY <1>3, <2>1, <2>2, <2>3 DEF EraseStep
<1> QED BY <1>1, <1>2, <1>3 DEF EraseNext, Next

-----------------------------------------------------------------------------
(* Erasures of different keys keep every other key.                        *)

\* a live entry is lost only to a step that frees it or leaves it behind
LEMMA LiveUnless == 
  ASSUME NEW t \in Threads, Alone(t), NEW s \in Slots, Live(s),
         state'[s] # "EMPTY", ~HeldFree(t, s)', ~LeftBy(t, s)'
  PROVE  Live(s)'
<1>1. \A u \in Threads : ~HeldFree(u, s)' /\ ~LeftBy(u, s)'
  BY DEF Alone, HeldFree, LeftBy, Live, Free, Left
<1> QED BY <1>1 DEF Live, Free, Left

\* what t may lose is what it erases
LosesOwn(t) == 
  \A s \in Slots : Live(s) /\ (state'[s] = "EMPTY" \/ HeldFree(t, s)' \/ LeftBy(t, s)')
                    => key[s] \in MayErase[t]

LEMMA KeyStep == 
  ASSUME EraseTypes, KeyInv, NEW t \in Threads, Alone(t), UNCHANGED <<key, filled>>, 
         LosesOwn(t), KnowsKey(t)'
  PROVE  KeyInv'
<1>1. ASSUME NEW k \in filled', \A u \in Threads : k \notin MayErase[u]
      PROVE  \E s \in Slots : Live(s)' /\ key'[s] = k
  <2>1. PICK s \in Slots : Live(s) /\ key[s] = k
    BY <1>1 DEF KeyInv, KeysKept
  <2>2. Live(s)'
    BY <1>1, <2>1, LiveUnless DEF LosesOwn
  <2> QED BY <2>1, <2>2
<1>2. KeysKept'
  BY <1>1 DEF KeysKept
<1>3. ASSUME NEW u \in Threads \ {t} PROVE KnowsKey(u)'
  BY DEF KeyInv, KnowsKey, Alone, MyKey
<1> QED BY <1>2, <1>3 DEF KeyInv

LEMMA HashmapStepKeepsKeys == 
  ASSUME HoldInv, ListInv, KeyInv, NoInserts, NEW t \in Threads, 
         UNCHANGED eraseVars, CallAny(t) \/ Step(t)
  PROVE  KeyInv'
<1>1. EraseTypes /\ Alone(t)
  BY HashmapStepIsAlone DEF HoldInv
<1>2. pc'[t] \in PCs /\ UNCHANGED <<key, filled>>
  BY HashmapStepView
<1>3. \A s \in Slots : ~HeldFree(t, s)' /\ ~LeftBy(t, s)'
  BY <1>2 DEF HeldFree, LeftBy, PCs, LastPCs
<1>4. LosesOwn(t)
  BY <1>3, HashmapStepView DEF LosesOwn, Live, Free
<1>5. KnowsKey(t)'
  BY <1>2 DEF KnowsKey, PCs, TakenPCs
<1> QED BY <1>1, <1>2, <1>4, <1>5, KeyStep

\* the steps of an erasure up to the claim of its entry, and after it gives up
LEMMA EraseSearchKeepsKeys == 
  ASSUME HoldInv, ListInv, KeyInv, NEW t \in Threads, ~resumed',
         \/ \E k \in MayErase[t] : CallErase(t, k)
         \/ ScanErase(t) \/ WaitErase(t) \/ CompareErase(t) \/ ClaimEraseFails(t) 
         \/ NextErase(t) \/ Looked(t) \/ ReadPending(t) \/ ReadAgain(t)
         \/ Recount(t) 
  PROVE  KeyInv'
<1> USE DEF Goto, NextEntry, EnterNextBucket, Begin
<1>1. EraseTypes
  BY DEF HoldInv
<1>2. Alone(t)
  BY <1>1, EraseStepIsAlone DEF EraseStep
<1>3. UNCHANGED <<state, key>>
  BY DEF CallErase, ScanErase, WaitErase, CompareErase, ClaimEraseFails, 
     NextErase, Looked, ReadPending, ReadAgain, Recount, entries
<1>4. /\ UNCHANGED filled /\ pc'[t] \notin TakenPCs
      /\ pc'[t] \notin LastPCs \cup {"e_publish", "e_clearprev", "e_take"}
      /\ pc'[t] = "e_claim" => key[pos'[t]] = op'[t].key
  <2> USE DEF TakenPCs, LastPCs
  <2>1. CASE Looked(t)
    <3>1. CASE Leave(t)
      BY <1>1, <2>1, <3>1, LeaveMoves DEF Looked
    <3>2. CASE Begin(t) /\ UNCHANGED history
      BY <1>1, <2>1, <3>2 DEF Looked, EraseTypes, history
    <3> QED BY <2>1, <3>1, <3>2 DEF Looked
  <2>2. CASE \/ \E k \in MayErase[t] : CallErase(t, k)
             \/ ClaimEraseFails(t) \/ Recount(t)
    BY <1>1, <2>2 DEF CallErase, ClaimEraseFails, Recount, EraseTypes, eraseVars, 
       history
  <2>3. CASE CompareErase(t) 
    BY <1>1, <2>3 DEF CompareErase, EraseTypes, eraseVars, history, MyKey
  <2>4. CASE \/ ScanErase(t) \/ WaitErase(t)
             \/ NextErase(t) \/ ReadPending(t) \/ ReadAgain(t)
    BY <1>1, <2>4 DEF ScanErase, WaitErase, NextErase, ReadPending, 
       ReadAgain, EraseTypes, eraseVars, history
  <2> QED BY <2>1, <2>2, <2>3, <2>4
<1>5. \A s \in Slots : ~HeldFree(t, s)' /\ ~LeftBy(t, s)'
  BY <1>4 DEF HeldFree, LeftBy
<1>6. LosesOwn(t)
  BY <1>3, <1>5 DEF LosesOwn, Live, Free
<1>7. KnowsKey(t)'
  BY <1>3, <1>4 DEF KnowsKey, MyKey
<1> QED BY <1>1, <1>2, <1>3, <1>4, <1>6, <1>7, KeyStep

\* the steps of an erasure that holds its entry, but for the move
LEMMA HoldingKeepsKeys == 
  ASSUME HoldInv, ListInv, KeyInv, NEW t \in Threads, ~resumed',
         \/ ClaimErase(t) \/ Take(t) \/ HoldLast(t) \/ Check(t) \/ Chain(t) 
         \/ LockPrev(t) \/ FreeLast(t) \/ PublishMoved(t) \/ Undo(t) \/ Clear(t)
  PROVE  KeyInv'
<1> USE DEF Goto
<1>1. EraseTypes /\ Placed(t) /\ KnowsKey(t) /\ KnowsOp(t)
  BY DEF HoldInv, ListInv, KeyInv
<1>2. Alone(t)
  BY <1>1, EraseStepIsAlone DEF EraseStep
<1>3. UNCHANGED <<key, op>>
  BY DEF ClaimErase, Take, HoldLast, Check, Chain, LockPrev, FreeLast, PublishMoved, 
     Undo, Clear, entries
<1>4. CASE ClaimErase(t) \/ Take(t) 
  <2>1. /\ UNCHANGED <<pos, filled>> 
        /\ \/ pc[t] = "e_claim" /\ pc'[t] = "e_take"
           \/ /\ pc[t] = "e_take" /\ pc'[t] \in {"e_chain", "e_tail"}
              /\ del'[t] = pos[t] 
    BY <1>1, <1>4 DEF ClaimErase, Take, EraseTypes, eraseVars, history
  <2>2. KnowsKey(t)'
    BY <1>1, <1>3, <2>1 DEF KnowsKey, MyKey, TakenPCs
  <2>3. \A s \in Slots : ~HeldFree(t, s)' /\ ~LeftBy(t, s)'
    BY <2>1 DEF HeldFree, LeftBy, LastPCs
  <2>4. \A s \in Slots : state'[s] = "EMPTY" => state[s] = "EMPTY"
    BY <1>1, <1>4 DEF ClaimErase, Take, EraseTypes, entries, SetState
  <2>5. LosesOwn(t)
    BY <2>3, <2>4 DEF LosesOwn, Live, Free
  <2> QED BY <1>1, <1>2, <1>3, <2>1, <2>2, <2>5, KeyStep
<1>5. CASE HoldLast(t) \/ Check(t) \/ Chain(t) \/ LockPrev(t) 
  <2>1. UNCHANGED <<filled, del>> /\ pc[t] \in TakenPCs \ {"e_publish"}
    BY <1>5 DEF HoldLast, Check, Chain, LockPrev, eraseVars, history, TakenPCs
  <2>2. pc'[t] \in TakenPCs \ {"e_publish"}
    BY <1>1, <1>5 DEF HoldLast, Check, Chain, LockPrev, TakenPCs, EraseTypes
  <2>3. KnowsKey(t)'
    BY <1>1, <1>3, <2>1, <2>2 DEF KnowsKey, MyKey, TakenPCs
  <2>4. \A s \in Slots : ~LeftBy(t, s)'
    BY <2>2 DEF LeftBy, TakenPCs
  <2>5. \A s \in Slots : state'[s] = "EMPTY" => state[s] = "EMPTY"
    BY <1>1, <1>5 DEF HoldLast, Check, Chain, LockPrev, EraseTypes, entries, SetState
  <2>6. ASSUME NEW s \in Slots, HeldFree(t, s)' PROVE ~Live(s)
    <3>1. CASE HoldLast(t)
      <4>1. last'[t] = cur[t] /\ (state[cur[t]] # "EMPTY" => pc'[t] = "e_check")
        BY <1>1, <3>1 DEF HoldLast, EraseTypes
      <4>2. state[s] = "EMPTY"
        BY <2>6, <4>1 DEF HeldFree, LastPCs
      <4> QED BY <4>2 DEF Live, Free
    <3>2. CASE Check(t) \/ Chain(t) 
      <4>1. pc'[t] \notin LastPCs
        BY <1>1, <3>2 DEF Check, Chain, EraseTypes, LastPCs
      <4> QED BY <2>6, <4>1 DEF HeldFree
    <3>3. CASE LockPrev(t)
      <4>1. pc[t] \in LastPCs /\ UNCHANGED last
        BY <3>3 DEF LockPrev, eraseVars, LastPCs
      <4> QED BY <2>6, <4>1 DEF HeldFree, Live, Free
    <3> QED BY <1>5, <3>1, <3>2, <3>3
  <2>7. LosesOwn(t)
    BY <2>4, <2>5, <2>6 DEF LosesOwn, Live, Free
  <2> QED BY <1>1, <1>2, <1>3, <2>1, <2>3, <2>7, KeyStep
<1>6. CASE FreeLast(t)
  <2> PICK l \in Slots : l = last[t]
    BY <1>1, <1>6 DEF FreeLast, Placed, LastPCs
  <2>1. /\ UNCHANGED <<filled, del, prev>> /\ SetState(l, "EMPTY")
        /\ pc[t] \in LastPCs
        /\ pc[t] \in TakenPCs \ {"e_publish"} 
        /\ pc'[t] \in {"e_move", "e_cleardel", "e_undo"}
    BY <1>1, <1>6 DEF FreeLast, eraseVars, history, TakenPCs, LastPCs, EraseTypes
  <2>2. KnowsKey(t)'
    BY <1>1, <1>3, <2>1 DEF KnowsKey, MyKey, TakenPCs
  <2>3. \A s \in Slots : ~LeftBy(t, s)' /\ ~HeldFree(t, s)'
    BY <2>1 DEF LeftBy, HeldFree, LastPCs
  <2>4. \A s \in Slots : state'[s] = "EMPTY" => state[s] = "EMPTY" \/ HeldFree(t, s)
    BY <1>1, <2>1 DEF EraseTypes, SetState, HeldFree
  <2>5. LosesOwn(t)
    BY <2>3, <2>4 DEF LosesOwn, Live, Free
  <2> QED BY <1>1, <1>2, <1>3, <2>1, <2>2, <2>5, KeyStep
<1>7. CASE PublishMoved(t) \/ Undo(t)
  <2> PICK d \in Slots : d = del[t]
    BY <1>1, <1>7 DEF PublishMoved, Undo, Placed, TakenPCs
  <2>1. /\ UNCHANGED <<filled, prev>> /\ SetState(d, "USED")
        /\ \/ pc[t] = "e_publish" /\ pc'[t] = "e_clearprev"
           \/ pc[t] = "e_undo" /\ pc'[t] = "e_recount"
    BY <1>1, <1>7 DEF PublishMoved, Undo, eraseVars, history, EraseTypes
  <2>2. KnowsKey(t)'
    BY <2>1 DEF KnowsKey, TakenPCs
  <2>3. \A s \in Slots : ~HeldFree(t, s)' /\ (LeftBy(t, s)' => LeftBy(t, s))
    BY <2>1 DEF LeftBy, HeldFree, LastPCs
  <2>4. \A s \in Slots : state'[s] = "EMPTY" => state[s] = "EMPTY" 
    BY <1>1, <2>1 DEF EraseTypes, SetState
  <2>5. LosesOwn(t)
    BY <2>3, <2>4 DEF LosesOwn, Live, Free, Left
  <2> QED BY <1>1, <1>2, <1>3, <2>1, <2>2, <2>5, KeyStep
<1>8. CASE Clear(t)
  <2>1. /\ UNCHANGED <<prev, del>> /\ Leave(t)
        /\ pc[t] \in {"e_cleardel", "e_clearprev"} 
        /\ SetState(IF pc[t] = "e_cleardel" THEN del[t] ELSE prev[t], "EMPTY")
    BY <1>8 DEF Clear
  <2>2. pc'[t] = "done" /\ UNCHANGED filled
    BY <1>1, <2>1, LeaveMoves
  <2>3. KnowsKey(t)'
    BY <2>2 DEF KnowsKey, TakenPCs
  <2>4. \A s \in Slots : ~HeldFree(t, s)' /\ ~LeftBy(t, s)'
    BY <2>2 DEF LeftBy, HeldFree, LastPCs
  <2>5. ASSUME NEW s \in Slots, state'[s] = "EMPTY" 
        PROVE  state[s] = "EMPTY" \/ LeftBy(t, s) \/ key[s] \in MayErase[t]
    <3>1. CASE state[s] = "EMPTY"
      BY <3>1
    <3>2. CASE pc[t] = "e_cleardel" /\ state[s] # "EMPTY"
      <4>1. s = del[t]
        BY <1>1, <2>1, <2>5, <3>2 DEF EraseTypes, SetState
      <4>2. key[s] = MyKey(t)
        BY <1>1, <3>2, <4>1 DEF KnowsKey, TakenPCs
      <4>3. MyKey(t) \in MayErase[t]
        BY <1>1, <3>2 DEF KnowsOp, ErasePCs
      <4> QED BY <4>2, <4>3
    <3>3. CASE pc[t] = "e_clearprev" /\ state[s] # "EMPTY"
      BY <1>1, <2>1, <2>5, <3>3 DEF EraseTypes, SetState, LeftBy
    <3> QED BY <2>1, <3>1, <3>2, <3>3
  <2>6. LosesOwn(t)
    BY <2>4, <2>5 DEF LosesOwn, Live, Free, Left
  <2> QED BY <1>1, <1>2, <1>3, <2>2, <2>3, <2>6, KeyStep
<1> QED BY <1>4, <1>5, <1>6, <1>7, <1>8

\* The key that moves is in the hole before its entry leaves the map, and the
\* hole is nobody else's.
LEMMA MoveKeepsKeys == 
  ASSUME HoldInv, ListInv, KeyInv, DifferentKeys, NEW t \in Threads, ~resumed', 
         Move(t)
  PROVE  KeyInv'
<1>1. EraseTypes /\ Placed(t) /\ KnowsKey(t) /\ KnowsOp(t) /\ KnowsState(t)
  BY DEF HoldInv, ListInv, KeyInv
<1>2. Alone(t)
  BY <1>1, EraseStepIsAlone DEF EraseStep
<1> PICK p \in Slots, d \in Slots : p = prev[t] /\ d = del[t]
  BY <1>1 DEF Move, Placed, TakenPCs
<1>3. /\ UNCHANGED <<state, op, pos, del, prev, filled>> 
      /\ pc[t] = "e_move" /\ pc'[t] = "e_publish"
      /\ key' = [key EXCEPT ![d] = key[p]]
  BY <1>1 DEF Move, EraseTypes, eraseVars, history, Goto
<1>4. \A s \in Slots : key'[s] = IF s = d THEN key[p] ELSE key[s]
  BY <1>1, <1>3 DEF EraseTypes
<1>5. key[d] = MyKey(t) /\ MyKey(t) \in MayErase[t]
  BY <1>1, <1>3 DEF KnowsKey, KnowsOp, TakenPCs, ErasePCs
<1>6. Live(d)
  <2>1. state[d] # "EMPTY" /\ Has(t, d)
    BY <1>1, <1>3 DEF KnowsState, Has, HoldsInErase, TakenPCs
  <2>2. ASSUME NEW u \in Threads, HeldFree(u, d) \/ LeftBy(u, d) PROVE FALSE
    <3>1. Has(u, d)
      BY <2>2 DEF HeldFree, LeftBy, Has, HoldsInErase, PrevPCs
    <3>2. u = t
      BY <2>1, <3>1 DEF ListInv, OneHolder
    <3> QED BY <1>3, <2>2, <3>2 DEF HeldFree, LeftBy, LastPCs
  <2> QED BY <2>1, <2>2 DEF Live, Free, Left
<1>7. p # d
  BY <1>1, <1>3, BeforeIsOrder DEF ListInv, KnowsOrder
<1>8. \A s \in Slots : ~HeldFree(t, s)' /\ (LeftBy(t, s)' => s = p)
  BY <1>3 DEF HeldFree, LeftBy, LastPCs
<1>9. \A s \in Slots : Live(s) /\ s # p => Live(s)'
  <2>1. \A s \in Slots : Live(s) => state'[s] # "EMPTY"
    BY <1>3 DEF Live, Free
  <2> QED BY <1>2, <1>8, <2>1, LiveUnless
<1>10. ASSUME NEW k \in filled', \A u \in Threads : k \notin MayErase[u]
       PROVE  \E s \in Slots : Live(s)' /\ key'[s] = k
  <2>1. PICK s \in Slots : Live(s) /\ key[s] = k
    BY <1>3, <1>10 DEF KeyInv, KeysKept
  <2>2. s # d
    BY <1>5, <1>10, <2>1
  <2>3. CASE s = p
    BY <1>4, <1>6, <1>7, <1>9, <2>1, <2>3
  <2>4. CASE s # p
    BY <1>4, <1>9, <2>1, <2>2, <2>4
  <2> QED BY <2>3, <2>4
<1>11. KeysKept'
  BY <1>10 DEF KeysKept
<1>12. ASSUME NEW u \in Threads \ {t} PROVE KnowsKey(u)'
  <2>1. KnowsKey(u) /\ KnowsOp(u) /\ Placed(u) /\ pos[u] \in Slots
    BY <1>1 DEF KeyInv, ListInv, HoldInv, EraseTypes
  <2>2. pc[u] \in TakenPCs => del[u] \in Slots
    BY <2>1 DEF Placed
  <2>3. /\ pc'[u] = pc[u] /\ pos'[u] = pos[u] /\ op'[u] = op[u] /\ del'[u] = del[u] 
    BY <1>2 DEF Alone
  <2>4. pc[u] \in TakenPCs \cup {"e_claim", "e_take"} => MyKey(u) \in MayErase[u]
    BY <2>1 DEF KnowsOp, TakenPCs, ErasePCs
  <2>5. pc[u] \in TakenPCs \cup {"e_claim", "e_take"} => MyKey(u) # key[d]
    BY <1>5, <2>4 DEF DifferentKeys
  <2>6. pc[u] \in {"e_claim", "e_take"} => key'[pos[u]] = MyKey(u)
    BY <1>4, <2>1, <2>5 DEF KnowsKey
  <2>7. pc[u] \in TakenPCs \ {"e_publish"} => key'[del[u]] = MyKey(u)
    BY <1>4, <2>1, <2>2, <2>5 DEF KnowsKey
  <2> QED BY <2>3, <2>6, <2>7 DEF KnowsKey, MyKey
<1>13. KnowsKey(t)'
  BY <1>3 DEF KnowsKey, TakenPCs
<1> QED BY <1>11, <1>12, <1>13 DEF KeyInv

LEMMA InitKeys == EraseInit => KeyInv
<1> SUFFICES ASSUME EraseInit PROVE KeyInv
  OBVIOUS
<1>1. PICK P \in SUBSET Slots : ListInit(P)
  BY DEF EraseInit, Init
<1>2. pc = [t \in Threads |-> "idle"] 
  BY <1>1 DEF ListInit
<1>3. \A s \in Slots : state[s] = "USED" => Live(s)
  BY <1>2 DEF Live, Free, Left, HeldFree, LeftBy, LastPCs
<1>4. filled = {key[s] : s \in {s \in Slots : state[s] = "USED"}}
  BY DEF EraseInit
<1>5. KeysKept
  BY <1>3, <1>4 DEF KeysKept
<1>6. \A t \in Threads : KnowsKey(t)
  BY <1>2 DEF KnowsKey, TakenPCs
<1> QED BY <1>5, <1>6 DEF KeyInv

LEMMA NextKeepsKeys == 
  ASSUME HoldInv, ListInv, KeyInv, NoInserts, DifferentKeys, ~resumed', 
         [EraseNext]_allVars
  PROVE  KeyInv'
<1>1. CASE UNCHANGED allVars \/ (Terminating /\ UNCHANGED eraseVars)
  <2>1. UNCHANGED allVars
    BY <1>1 DEF Terminating, allVars
  <2> QED BY <2>1 DEF KeyInv, allVars, vars, entries, chain, local, eraseVars, 
       history, KeysKept, KnowsKey, MyKey, Live, Free, Left, HeldFree, LeftBy
<1>2. ASSUME NEW t \in Threads, UNCHANGED eraseVars, CallAny(t) \/ Step(t)
      PROVE  KeyInv'
  BY <1>2, HashmapStepKeepsKeys
<1>3. ASSUME NEW t \in Threads, EraseStep(t) \/ \E k \in MayErase[t] : CallErase(t, k)
      PROVE  KeyInv'
  <2>1. CASE \/ \E k \in MayErase[t] : CallErase(t, k)
             \/ ScanErase(t) \/ WaitErase(t) \/ CompareErase(t) \/ ClaimEraseFails(t) 
             \/ NextErase(t) \/ Looked(t) \/ ReadPending(t) \/ ReadAgain(t)
             \/ Recount(t)
    BY <2>1, EraseSearchKeepsKeys
  <2>2. CASE \/ ClaimErase(t) \/ Take(t) \/ HoldLast(t) \/ Check(t) \/ Chain(t) 
             \/ LockPrev(t) \/ FreeLast(t) \/ PublishMoved(t) \/ Undo(t) \/ Clear(t)
    BY <2>2, HoldingKeepsKeys
  <2>3. CASE Move(t)
    BY <2>3, MoveKeepsKeys
  <2> QED BY <1>3, <2>1, <2>2, <2>3 DEF EraseStep
<1> QED BY <1>1, <1>2, <1>3 DEF EraseNext, Next

-----------------------------------------------------------------------------
(* The invariant and what it says of a map on which no operation runs.     *)

\* Every step keeps what is held, the list, the count and, when tasks erase
\* different keys, the keys.
THEOREM EraseInvariant == EraseSpec => []EraseInv
<1>1. EraseInit => EraseInv
  BY InitHolds, InitList, InitSize, InitKeys DEF EraseInv
<1>2. EraseInv /\ [EraseNext]_allVars => EraseInv'
  <2> SUFFICES ASSUME EraseInv, [EraseNext]_allVars PROVE EraseInv'
    OBVIOUS
  <2>1. HoldInv /\ HoldInv'
    BY NextKeepsHoldInv DEF EraseInv
  <2>2. ASSUME NoInserts, ~resumed' PROVE ListInv' /\ SizeInv'
    <3>1. ~resumed
      BY <2>1, <2>2, OnceResumed DEF HoldInv
    <3> QED BY <2>1, <2>2, <3>1, NextKeepsList, NextKeepsSize DEF EraseInv
  <2>3. ASSUME NoInserts, DifferentKeys, ~resumed' PROVE KeyInv'
    <3>1. ~resumed
      BY <2>1, <2>3, OnceResumed DEF HoldInv
    <3> QED BY <2>1, <2>3, <3>1, NextKeepsKeys DEF EraseInv
  <2> QED BY <2>1, <2>2, <2>3 DEF EraseInv, NoInserts, DifferentKeys
<1> QED BY <1>1, <1>2, PTL DEF EraseSpec

\* QuietList, up to the first Erase that goes on after its recursive call:
\* when no operation runs the entries are packed and their keys differ,
\* whichever keys are erased at once.
THEOREM ListStaysPacked == EraseSpec => [](NoInserts => QuietList)
<1>1. EraseInv => (NoInserts => QuietList)
  <2> SUFFICES ASSUME EraseInv, NoInserts, Quiet, ~resumed 
               PROVE  /\ UniqueKeys
                      /\ \A p, q \in Slots : 
                           Before(p, q) /\ state[p] # "USED" => state[q] = "EMPTY"
    BY DEF QuietList
  <2>1. HoldInv /\ ListInv
    BY DEF EraseInv
  <2>2. \A s \in Slots : /\ Free(s) <=> state[s] = "EMPTY"
                         /\ Live(s) <=> state[s] = "USED"
                         /\ state[s] \in {"EMPTY", "USED"}
    BY <2>1, QuietEntries
  <2>3. UniqueKeys
    BY <2>1, <2>2 DEF ListInv, LiveKeysDiffer, UniqueKeys, Present
  <2>4. \A p, q \in Slots : Before(p, q) /\ state[p] # "USED" => state[q] = "EMPTY"
    BY <2>1, <2>2 DEF ListInv, FreeIsLast, FreeAfter
  <2> QED BY <2>3, <2>4
<1> QED BY <1>1, EraseInvariant, PTL

\* QuietSize, up to the same point: every entry that erasures claim, move and
\* give back counts once.
THEOREM SizeStaysExact == EraseSpec => [](NoInserts => QuietSize)
<1>1. EraseInv => (NoInserts => QuietSize)
  <2> SUFFICES ASSUME EraseInv, NoInserts, Quiet, ~resumed 
               PROVE  size = Cardinality({s \in Slots : state[s] \in Present})
    BY DEF QuietSize
  <2>1. HoldInv /\ SizeInv
    BY DEF EraseInv
  <2>2. CountedSlots = {s \in Slots : state[s] \in Present}
    BY <2>1, QuietEntries DEF CountedSlots, Counted
  <2>3. Recounting = {}
    BY DEF Recounting, Quiet
  <2>4. Cardinality(Recounting) = 0
    BY <2>3, FS_EmptySet
  <2>5. Cardinality(CountedSlots) \in 0..(SizeRange - 1) /\ SizeRange \in Nat \ {0}
    BY CountedAreFew
  <2>6. (Cardinality(CountedSlots) - 0) % SizeRange = Cardinality(CountedSlots)
    BY <2>5
  <2> QED BY <2>1, <2>2, <2>4, <2>6 DEF SizeInv
<1> QED BY <1>1, EraseInvariant, PTL

\* OthersKeptAtFirst, when no two tasks erase the same key: the moves of the
\* erasures lose no key that is not being erased.
THEOREM OtherKeysAreKept == 
  EraseSpec => [](NoInserts /\ DifferentKeys => OthersKeptAtFirst)
<1>1. EraseInv => (NoInserts /\ DifferentKeys => OthersKeptAtFirst)
  <2> SUFFICES ASSUME EraseInv, NoInserts, DifferentKeys, ~resumed, Quiet, 
                      NEW k \in filled, \A t \in Threads : k \notin MayErase[t]
               PROVE  InMap(k)
    BY DEF OthersKeptAtFirst, OthersKept
  <2>1. HoldInv /\ KeyInv
    BY DEF EraseInv
  <2>2. PICK s \in Slots : Live(s) /\ key[s] = k
    BY <2>1 DEF KeyInv, KeysKept
  <2>3. state[s] = "USED"
    BY <2>1, <2>2, QuietEntries
  <2> QED BY <2>2, <2>3 DEF InMap, Present
<1> QED BY <1>1, EraseInvariant, PTL
=============================================================================
