------------------------ MODULE LocalMultimap_proofs -------------------------
(***************************************************************************)
(* Proofs about LocalMultimap, for any number of tasks, any size of the    *)
(* buckets and any length of the chain: what the gate keeps apart, that    *)
(* the buckets stay packed while Erase moves entries about, that           *)
(* numberKeys_ counts the entries and, where it is true, that a key has    *)
(* one entry and the operations implement the map of ConcurrentMap.        *)
(*                                                                         *)
(* A failed TryBlockingApply never releases the gate, so inserter_array_   *)
(* is only an upper bound of the inserters inside; it still keeps Erase    *)
(* alone.                                                                  *)
(***************************************************************************)
EXTENDS LocalMultimap, FiniteSetTheorems, TLAPS

InsidePCs == {"claim", "await", "compare", "fill", "count", "publish", "lock", 
              "work", "unlock", "grow", "link", "waitnext", "scan", "probe", 
              "hop", "failed"}
HoldingPCs == {"fill", "count", "publish", "work", "unlock"}

-----------------------------------------------------------------------------
(* The inductive invariant.                                                *)

\* where the gate has a task, by where the task is in its operation
GateOf(t) == 
  /\ pc[t] = "idle" => gate[t] = "out"
  /\ pc[t] = "enter" /\ Is(t, {"Erase"}) 
       => gate[t] \in {"d_read", "d_swap", "d_leave"}
  /\ pc[t] = "enter" /\ ~Is(t, {"Erase"}) 
       => gate[t] \in {"i_read", "i_test", "i_swap"}
  /\ pc[t] = "erase" \/ (pc[t] = "leave" /\ Is(t, {"Erase"})) 
       => gate[t] = "exclusive"
  /\ pc[t] \in InsidePCs \/ (pc[t] = "leave" /\ ~Is(t, {"Erase"})) 
       => gate[t] = "inside"
  /\ gate[t] = "i_swap" => seen[t] # HasDeleter

\* the counters: a deleter is alone, and no inserter inside goes uncounted
CountersInv == 
  /\ deleters = Cardinality(Gate!Counted)
  /\ \A t, u \in Gate!Deleting : t = u
  /\ Gate!Deleting = {} => inserters >= Cardinality(Gate!Inside)
  /\ Gate!Deleting # {} => inserters = HasDeleter /\ Gate!Inside = {}

\* the operation that a task is in, by its place
KindOf(t) == 
  /\ pc[t] \in {"claim", "fill", "count", "publish", "grow", "link", "waitnext"}
       => Is(t, {"Insert"})
  /\ pc[t] = "erase" => Is(t, {"Erase"})
  /\ pc[t] \in InsidePCs => ~Is(t, {"Erase"})
  /\ pc[t] \in {"probe", "failed"} => Is(t, ApplyKinds)
  /\ pc[t] \in {"await", "compare"} => Is(t, {"Insert"} \cup LookupKinds)
  /\ pc[t] \in {"scan", "hop"} => ~Is(t, {"Insert"})
  /\ pc[t] # "idle" => nops[t] > 0

\* the state of an entry that a task holds
HeldAs(t) == 
  IF Is(t, ApplyKinds) THEN "PENDING_UPDATE" ELSE "PENDING_INSERT"
Holds(t, s) == pc[t] \in HoldingPCs /\ pos[t] = s

OwnersInv == 
  /\ \A t \in Threads : pc[t] \in HoldingPCs => state[pos[t]] = HeldAs(t)
  /\ \A t, u \in Threads : 
       pc[t] \in HoldingPCs /\ pc[u] \in HoldingPCs /\ pos[t] = pos[u] => t = u
  /\ \A s \in Pending : \E t \in Threads : Holds(t, s)

\* the way of a search through a bucket: over entries that are not EMPTY
OnTheWay(t) == 
  /\ pc[t] = "enter" => pos[t] = FirstSlot
  /\ pc[t] \in {"claim", "await", "compare", "scan", "probe"} => 
       \A p \in Slots : 
         p[1] = pos[t][1] /\ Before(p, pos[t]) => state[p] # "EMPTY"
  /\ pc[t] \in {"await", "compare", "probe"} => state[pos[t]] # "EMPTY"
  /\ pc[t] \in {"link", "waitnext"} => pos[t][1] + 1 \in Buckets

ChainInv == \A b \in Buckets : next[b] => b + 1 \in Buckets

MultimapInv == 
  /\ TypeOK /\ CountersInv /\ OwnersInv /\ ChainInv
  /\ \A t \in Threads : GateOf(t) /\ KindOf(t) /\ OnTheWay(t)
  /\ BucketsPacked /\ NumberKeysExact

-----------------------------------------------------------------------------
(* Programs under which a key has one entry: those that erase use no more  *)
(* keys than fit into the first bucket.  (Erase leaves a hole in its       *)
(* bucket, and an Insert takes the hole without a look at the next bucket, *)
(* where its key may be.)                                                  *)
Roomy(p) == 
  "Erase" \in p.kinds => 
    /\ IsFiniteSet(p.keys \cup p.first)
    /\ Cardinality(p.keys \cup p.first) <= BucketSize

\* entries are filled from the front of the chain on
FilledInOrder == 
  \A p, q \in Slots : Before(p, q) /\ state[q] # "EMPTY" => Filled(p)

\* what an operation has passed, and what it has found
Seen(t) == 
  /\ pc[t] # "idle" => MyKey(t) \in program.keys /\ op[t].kind \in program.kinds
  /\ pc[t] \in {"compare", "probe", "lock", "grow", "link", "waitnext", "work", 
                "unlock"}
       => Filled(pos[t])
  /\ pc[t] \in {"lock", "work", "unlock", "count", "publish"} 
       => key[pos[t]] = MyKey(t)
  /\ pc[t] \in {"claim", "await", "compare", "fill", "grow", "link", "waitnext"}
     /\ Is(t, {"Insert"})
       => \A p \in Slots : Before(p, pos[t]) => Filled(p) /\ key[p] # MyKey(t)
  /\ pc[t] \in {"grow", "link", "waitnext"} 
       => LastInBucket(pos[t]) /\ key[pos[t]] # MyKey(t)

KeysInv == 
  /\ Roomy(program)
  /\ UniqueKeys /\ FilledInOrder
  /\ \A s \in Slots : Filled(s) => key[s] \in program.keys \cup program.first
  /\ "Erase" \in program.kinds => \A s \in Slots : state[s] # "EMPTY" => s[1] = 0
  /\ \A t \in Threads : Seen(t)

-----------------------------------------------------------------------------
(* What makes the list a map: where the chain goes on every entry is used, *)
(* an entry that is free has no value, and a search that has not seen that *)
(* its key is absent has passed used entries of other keys only.           *)
ChainFull == 
  \A b \in Buckets : next[b] => 
    /\ "Erase" \notin program.kinds
    /\ \A s \in Slots : s[1] <= b => Filled(s)

Linked(s) == \A b \in Buckets : b < s[1] => next[b]

Passed(t, s) == \A p \in Slots : Before(p, s) => Filled(p) /\ key[p] # MyKey(t)

Searched(t) == 
  /\ pc[t] \in {"scan", "await", "compare", "probe"} 
       => res[t] = "absent" \/ Passed(t, pos[t])
  /\ pc[t] = "hop" 
       => \/ res[t] = "absent" 
          \/ /\ LastInBucket(pos[t]) /\ Passed(t, pos[t])
             /\ Filled(pos[t]) /\ key[pos[t]] # MyKey(t)

SearchInv == 
  /\ ChainFull
  /\ \A s \in Slots : state[s] # "EMPTY" => Linked(s)
  /\ \A s \in Slots : ~Filled(s) => val[s] = {}
  /\ \A t \in Threads : Linked(pos[t]) /\ Searched(t)

-----------------------------------------------------------------------------
(* The gate.                                                               *)

LEMMA GateConstants == HasDeleter \in Nat \ {0}
BY HasDeleterAssumption, ThreadsAssumption, FS_CardinalityType

LEMMA GateSetsAreFinite == 
  /\ IsFiniteSet(Gate!Inside) /\ Cardinality(Gate!Inside) \in Nat
  /\ IsFiniteSet(Gate!Counted) /\ Cardinality(Gate!Counted) \in Nat
<1>1. Gate!Inside \in SUBSET Threads /\ Gate!Counted \in SUBSET Threads
  BY DEF Gate!Inside, Gate!Counted
<1>2. IsFiniteSet(Gate!Inside) /\ IsFiniteSet(Gate!Counted)
  BY <1>1, FS_Subset, ThreadsAssumption
<1> QED BY <1>2, FS_CardinalityType

\* what a move of one task does to the sets that the counters count
LEMMA GateMoves == 
  ASSUME gate \in [Threads -> Gate!GatePoints], 
         NEW t \in Threads, NEW g \in Gate!GatePoints, Gate!GoGate(t, g)
  PROVE  /\ gate' \in [Threads -> Gate!GatePoints]
         /\ \A u \in Threads : gate'[u] = IF u = t THEN g ELSE gate[u]
         /\ Gate!Inside' = IF g = "inside" THEN Gate!Inside \cup {t} 
                                           ELSE Gate!Inside \ {t}
         /\ Gate!Deleting' = IF g \in {"d_leave", "exclusive"} 
                               THEN Gate!Deleting \cup {t} ELSE Gate!Deleting \ {t}
         /\ Gate!Counted' = IF g \in {"d_read", "d_swap", "d_leave"} 
                              THEN Gate!Counted \cup {t} ELSE Gate!Counted \ {t}
<1>1. /\ gate' \in [Threads -> Gate!GatePoints]
      /\ \A u \in Threads : gate'[u] = IF u = t THEN g ELSE gate[u]
  BY DEF Gate!GoGate
<1>2. Gate!Inside' = IF g = "inside" THEN Gate!Inside \cup {t} 
                                     ELSE Gate!Inside \ {t}
  BY <1>1 DEF Gate!Inside
<1>3. Gate!Deleting' = IF g \in {"d_leave", "exclusive"} 
                         THEN Gate!Deleting \cup {t} ELSE Gate!Deleting \ {t}
  BY <1>1 DEF Gate!Deleting
<1>4. Gate!Counted' = IF g \in {"d_read", "d_swap", "d_leave"} 
                        THEN Gate!Counted \cup {t} ELSE Gate!Counted \ {t}
  BY <1>1 DEF Gate!Counted
<1> QED BY <1>1, <1>2, <1>3, <1>4

LEMMA CountedStay == 
  ASSUME Gate!GateTypeOK, NEW t \in Threads, 
         NEW g \in Gate!GatePoints, Gate!GoGate(t, g), 
         UNCHANGED <<inserters, deleters>>, CountersInv,
         \/ /\ gate[t] \in {"out", "i_read", "i_test", "i_swap"} 
            /\ g \in {"i_read", "i_test", "i_swap"} 
         \/ gate[t] \in {"d_read", "d_swap"} /\ g \in {"d_read", "d_swap"}
         \/ gate[t] = "inside" /\ g = "out"
  PROVE  CountersInv'
<1>1. /\ Gate!Deleting' = Gate!Deleting /\ Gate!Counted' = Gate!Counted
      /\ Gate!Inside' = Gate!Inside \ {t}
  BY GateMoves DEF Gate!GateTypeOK, Gate!Deleting, Gate!Counted, Gate!Inside
<1>2. Cardinality(Gate!Inside') <= Cardinality(Gate!Inside)
  <2>1. Gate!Inside \ {t} \in SUBSET Gate!Inside
    OBVIOUS
  <2>2. Cardinality(Gate!Inside \ {t}) <= Cardinality(Gate!Inside)
    BY <2>1, GateSetsAreFinite, FS_Subset
  <2> QED BY <1>1, <2>2
<1>3. Gate!Inside = {} => Gate!Inside' = {}
  BY <1>1
<1>4. inserters >= Cardinality(Gate!Inside) 
        => inserters >= Cardinality(Gate!Inside')
  <2>1. Cardinality(Gate!Inside') \in Nat
    <3>1. IsFiniteSet(Gate!Inside')
      BY <1>1, GateSetsAreFinite, FS_RemoveElement
    <3> QED BY <3>1, FS_CardinalityType
  <2> QED BY <1>2, <2>1, GateSetsAreFinite DEF Gate!GateTypeOK
<1> QED BY <1>1, <1>3, <1>4 DEF CountersInv

\* one step of allow_inserter or allow_deleter
LEMMA AllowingKeepsCounters == 
  ASSUME Gate!GateTypeOK, CountersInv, NEW t \in Threads, Gate!Allowing(t),
         gate[t] = "i_swap" => seen[t] # HasDeleter
  PROVE  /\ Gate!GateTypeOK' /\ CountersInv'
         /\ \A u \in Threads \ {t} : gate'[u] = gate[u] /\ seen'[u] = seen[u]
         /\ gate'[t] = "i_swap" => seen'[t] # HasDeleter
         /\ \/ gate[t] \in {"i_read", "i_test", "i_swap"} 
               /\ gate'[t] \in {"i_read", "i_test", "i_swap", "inside"}
            \/ gate[t] \in {"d_read", "d_swap", "d_leave"}
               /\ gate'[t] \in {"d_read", "d_swap", "d_leave", "exclusive"}
<1> USE DEF Gate!GateTypeOK, Gate!GatePoints
<1>1. CASE Gate!ReadInserters(t)
  <2>0. /\ gate[t] = "i_read" /\ UNCHANGED <<inserters, deleters>>
        /\ \E g \in {"i_test"} : Gate!GoGate(t, g)
    BY <1>1 DEF Gate!ReadInserters
  <2>1. CountersInv'
    BY <2>0, CountedStay
  <2> QED BY <1>1, <2>1 DEF Gate!ReadInserters, Gate!GoGate
<1>2. CASE Gate!TestDeleters(t)
  <2>0. /\ gate[t] = "i_test" /\ UNCHANGED <<inserters, deleters>>
        /\ \E g \in {"i_swap", "i_read"} : Gate!GoGate(t, g)
    BY <1>2 DEF Gate!TestDeleters
  <2>1. CountersInv'
    BY <2>0, CountedStay
  <2> QED BY <1>2, <2>1 DEF Gate!TestDeleters, Gate!GoGate
<1>3. CASE Gate!SwapInserters(t) /\ inserters = seen[t]
  <2>1. /\ gate[t] = "i_swap" /\ Gate!GoGate(t, "inside")
        /\ inserters' = inserters + 1 /\ UNCHANGED <<deleters, seen>>
    BY <1>3 DEF Gate!SwapInserters
  <2>2. /\ Gate!Deleting' = Gate!Deleting /\ Gate!Counted' = Gate!Counted
        /\ Gate!Inside' = Gate!Inside \cup {t}
    BY <2>1, GateMoves DEF Gate!Deleting, Gate!Counted, Gate!Inside
  <2>3. Gate!Deleting = {}
    BY <1>3, <2>1 DEF CountersInv
  <2>4. t \notin Gate!Inside
    BY <2>1 DEF Gate!Inside
  <2>5. Cardinality(Gate!Inside') = Cardinality(Gate!Inside) + 1
    BY <2>2, <2>4, GateSetsAreFinite, FS_AddElement
  <2>6. inserters' >= Cardinality(Gate!Inside')
    BY <2>1, <2>3, <2>5, GateSetsAreFinite DEF CountersInv
  <2>7. CountersInv'
    BY <2>1, <2>2, <2>3, <2>6 DEF CountersInv
  <2> QED BY <2>1, <2>7 DEF Gate!GoGate
<1>4. CASE Gate!SwapInserters(t) /\ inserters # seen[t]
  <2>0. /\ gate[t] = "i_swap" /\ UNCHANGED <<inserters, deleters>>
        /\ \E g \in {"i_read"} : Gate!GoGate(t, g)
    BY <1>4 DEF Gate!SwapInserters
  <2>1. CountersInv'
    BY <2>0, CountedStay
  <2> QED BY <1>4, <2>1 DEF Gate!SwapInserters, Gate!GoGate
<1>5. CASE Gate!ReadZero(t)
  <2>0. /\ gate[t] = "d_read" /\ UNCHANGED <<inserters, deleters>>
        /\ \E g \in {"d_swap"} : Gate!GoGate(t, g)
    BY <1>5 DEF Gate!ReadZero
  <2>1. CountersInv'
    BY <2>0, CountedStay
  <2> QED BY <1>5, <2>1 DEF Gate!ReadZero, Gate!GoGate
<1>6. CASE Gate!SwapDeleter(t) /\ inserters = 0
  <2>1. /\ gate[t] = "d_swap" /\ Gate!GoGate(t, "d_leave")
        /\ inserters' = HasDeleter /\ UNCHANGED <<deleters, seen>>
    BY <1>6 DEF Gate!SwapDeleter
  <2>2. Gate!Deleting = {}
    BY <1>6, GateConstants DEF CountersInv
  <2>3. Gate!Inside = {}
    <3>1. Cardinality(Gate!Inside) = 0
      BY <1>6, <2>2, GateSetsAreFinite DEF CountersInv
    <3> QED BY <3>1, GateSetsAreFinite, FS_EmptySet
  <2>4. /\ Gate!Deleting' = {t} /\ Gate!Counted' = Gate!Counted
        /\ Gate!Inside' = {}
    BY <2>1, <2>2, <2>3, GateMoves DEF Gate!Counted
  <2>5. CountersInv'
    BY <2>1, <2>4 DEF CountersInv
  <2> QED BY <2>1, <2>5, GateConstants DEF Gate!GoGate
<1>7. CASE Gate!SwapDeleter(t) /\ inserters # 0
  <2>0. /\ gate[t] = "d_swap" /\ UNCHANGED <<inserters, deleters>>
        /\ \E g \in {"d_read"} : Gate!GoGate(t, g)
    BY <1>7 DEF Gate!SwapDeleter
  <2>1. CountersInv'
    BY <2>0, CountedStay
  <2> QED BY <1>7, <2>1 DEF Gate!SwapDeleter, Gate!GoGate
<1>8. CASE Gate!LeaveWaiting(t)
  <2>1. /\ gate[t] = "d_leave" /\ Gate!GoGate(t, "exclusive")
        /\ deleters' = deleters - 1 /\ UNCHANGED <<inserters, seen>>
    BY <1>8 DEF Gate!LeaveWaiting
  <2>2. /\ Gate!Deleting' = Gate!Deleting /\ Gate!Counted' = Gate!Counted \ {t}
        /\ Gate!Inside' = Gate!Inside
    BY <2>1, GateMoves DEF Gate!Deleting, Gate!Inside
  <2>3. t \in Gate!Counted
    BY <2>1 DEF Gate!Counted
  <2>4. /\ Cardinality(Gate!Counted') = Cardinality(Gate!Counted) - 1
        /\ Cardinality(Gate!Counted') \in Nat
    BY <2>2, <2>3, GateSetsAreFinite, FS_RemoveElement, FS_CardinalityType
  <2>5. deleters' = Cardinality(Gate!Counted')
    BY <2>1, <2>4 DEF CountersInv
  <2>6. CountersInv'
    BY <2>1, <2>2, <2>5 DEF CountersInv
  <2> QED BY <2>1, <2>4, <2>5, <2>6 DEF Gate!GoGate
<1> QED BY <1>1, <1>2, <1>3, <1>4, <1>5, <1>6, <1>7, <1>8 DEF Gate!Allowing

LEMMA CallingKeepsCounters == 
  ASSUME Gate!GateTypeOK, CountersInv, NEW t \in Threads, 
         Gate!CallAllowInserter(t) \/ Gate!CallAllowDeleter(t)
  PROVE  /\ Gate!GateTypeOK' /\ CountersInv' /\ seen' = seen
         /\ \A u \in Threads \ {t} : gate'[u] = gate[u]
         /\ Gate!CallAllowInserter(t) => gate'[t] = "i_read"
         /\ Gate!CallAllowDeleter(t) => gate'[t] = "d_read"
<1> USE DEF Gate!GateTypeOK, Gate!GatePoints
<1>1. CASE Gate!CallAllowInserter(t)
  <2>0. /\ gate[t] = "out" /\ UNCHANGED <<inserters, deleters>>
        /\ \E g \in {"i_read"} : Gate!GoGate(t, g)
    BY <1>1 DEF Gate!CallAllowInserter
  <2>1. CountersInv'
    BY <2>0, CountedStay
  <2> QED BY <1>1, <2>1 DEF Gate!CallAllowInserter, Gate!CallAllowDeleter, 
                            Gate!GoGate
<1>2. CASE Gate!CallAllowDeleter(t)
  <2>1. /\ gate[t] = "out" /\ Gate!GoGate(t, "d_read")
        /\ deleters' = deleters + 1 /\ UNCHANGED <<inserters, seen>>
    BY <1>2 DEF Gate!CallAllowDeleter
  <2>2. /\ Gate!Deleting' = Gate!Deleting 
        /\ Gate!Counted' = Gate!Counted \cup {t}
        /\ Gate!Inside' = Gate!Inside
    BY <2>1, GateMoves DEF Gate!Deleting, Gate!Inside
  <2>3. t \notin Gate!Counted
    BY <2>1 DEF Gate!Counted
  <2>4. Cardinality(Gate!Counted') = Cardinality(Gate!Counted) + 1
    BY <2>2, <2>3, GateSetsAreFinite, FS_AddElement
  <2>5. CountersInv'
    BY <2>1, <2>2, <2>4 DEF CountersInv
  <2> QED BY <2>1, <2>5 DEF Gate!GoGate, Gate!CallAllowInserter
<1> QED BY <1>1, <1>2

LEMMA ReleasingKeepsCounters == 
  ASSUME Gate!GateTypeOK, CountersInv, NEW t \in Threads, Gate!Releasing(t)
  PROVE  /\ Gate!GateTypeOK' /\ CountersInv' /\ seen' = seen
         /\ gate'[t] = "out" 
         /\ \A u \in Threads \ {t} : gate'[u] = gate[u]
<1> USE DEF Gate!GateTypeOK, Gate!GatePoints
<1>1. CASE Gate!ReleaseInserter(t)
  <2>1. /\ gate[t] = "inside" /\ Gate!GoGate(t, "out")
        /\ inserters' = inserters - 1 /\ UNCHANGED <<deleters, seen>>
    BY <1>1 DEF Gate!ReleaseInserter
  <2>2. /\ Gate!Deleting' = Gate!Deleting /\ Gate!Counted' = Gate!Counted
        /\ Gate!Inside' = Gate!Inside \ {t}
    BY <2>1, GateMoves DEF Gate!Deleting, Gate!Counted
  <2>3. t \in Gate!Inside /\ Gate!Deleting = {}
    BY <2>1 DEF Gate!Inside, CountersInv
  <2>4. /\ Cardinality(Gate!Inside') = Cardinality(Gate!Inside) - 1
        /\ Cardinality(Gate!Inside') \in Nat
    BY <2>2, <2>3, GateSetsAreFinite, FS_RemoveElement, FS_CardinalityType
  <2>5. inserters' >= Cardinality(Gate!Inside') /\ inserters' \in Nat
    BY <2>1, <2>3, <2>4, GateSetsAreFinite DEF CountersInv
  <2>6. CountersInv'
    BY <2>1, <2>2, <2>3, <2>5 DEF CountersInv
  <2> QED BY <2>1, <2>5, <2>6 DEF Gate!GoGate
<1>2. CASE Gate!ReleaseDeleter(t)
  <2>1. /\ gate[t] = "exclusive" /\ Gate!GoGate(t, "out")
        /\ inserters' = 0 /\ UNCHANGED <<deleters, seen>>
    BY <1>2 DEF Gate!ReleaseDeleter
  <2>2. t \in Gate!Deleting
    BY <2>1 DEF Gate!Deleting
  <2>3. Gate!Deleting = {t} /\ Gate!Inside = {}
    BY <2>2 DEF CountersInv
  <2>4. /\ Gate!Deleting' = {} /\ Gate!Counted' = Gate!Counted
        /\ Gate!Inside' = {}
    BY <2>1, <2>3, GateMoves DEF Gate!Counted
  <2>5. CountersInv'
    BY <2>1, <2>4, FS_EmptySet DEF CountersInv
  <2> QED BY <2>1, <2>5 DEF Gate!GoGate
<1> QED BY <1>1, <1>2 DEF Gate!Releasing

\* a deleter inside is alone there
LEMMA DeleterAlone == 
  ASSUME CountersInv, NEW t \in Threads, NEW u \in Threads, u # t,
         gate[t] = "exclusive"
  PROVE  gate[u] \notin {"inside", "exclusive"}
BY DEF CountersInv, Gate!Deleting, Gate!Inside

-----------------------------------------------------------------------------
(* Entries and their order.                                                *)

LEMMA LeastNatural == 
  ASSUME NEW N \in SUBSET Nat, N # {}
  PROVE  \E n \in N : \A m \in N : n <= m
<1>1. PICK n \in N : \A m \in N : <<m, n>> \notin OpToRel(<, Nat)
  BY NatLessThanWellFounded, WFMin, Zenon
<1>2. \A m \in N : ~(m < n)
  BY <1>1 DEF OpToRel
<1> QED BY <1>2

LEMMA SlotParts == 
  ASSUME NEW s \in Slots
  PROVE  /\ s[1] \in Buckets /\ s[1] \in Nat /\ s[1] < MaxBuckets
         /\ s[2] \in Nat /\ s[2] < BucketSize /\ s = <<s[1], s[2]>>
BY MaxBucketsAssumption, BucketSizeAssumption DEF Slots, Buckets

LEMMA BeforeIsTotal == 
  ASSUME NEW p \in Slots, NEW q \in Slots
  PROVE  /\ ~Before(p, p) /\ (Before(p, q) => ~Before(q, p))
         /\ p = q \/ Before(p, q) \/ Before(q, p)
         /\ \A r \in Slots : Before(p, q) /\ Before(q, r) => Before(p, r)
BY SlotParts DEF Before

LEMMA FirstSlotIsFirst == FirstSlot \in Slots /\ \A p \in Slots : ~Before(p, FirstSlot)
<1>1. FirstSlot \in Slots
  BY MaxBucketsAssumption, BucketSizeAssumption DEF FirstSlot, Slots, Buckets
<1> QED BY <1>1, SlotParts DEF FirstSlot, Before

LEMMA NextInBucket == 
  ASSUME NEW s \in Slots, ~LastInBucket(s)
  PROVE  LET n == <<s[1], s[2] + 1>> 
         IN  /\ n \in Slots 
             /\ \A p \in Slots : Before(p, n) <=> p = s \/ Before(p, s)
<1>1. <<s[1], s[2] + 1>> \in Slots
  BY SlotParts, BucketSizeAssumption DEF Slots, Buckets, LastInBucket
<1> QED BY <1>1, SlotParts DEF Before

LEMMA NextBucketStart == 
  ASSUME NEW s \in Slots, s[1] + 1 \in Buckets
  PROVE  LET n == <<s[1] + 1, 0>> 
         IN  /\ n \in Slots 
             /\ \A p \in Slots : Before(p, n) /\ LastInBucket(s) 
                  => p = s \/ Before(p, s)
             /\ \A p \in Slots : ~(p[1] = n[1] /\ Before(p, n))
<1>1. <<s[1] + 1, 0>> \in Slots
  BY SlotParts, BucketSizeAssumption DEF Slots, Buckets
<1> QED BY <1>1, SlotParts DEF Before, LastInBucket

LEMMA FirstOfSlots == 
  ASSUME NEW T \in SUBSET Slots, T # {}
  PROVE  \E s \in T : \A p \in T : ~Before(p, s)
<1> DEFINE Bs == {p[1] : p \in T}
<1>1. Bs \in SUBSET Nat /\ Bs # {}
  BY SlotParts
<1>2. PICK b \in Bs : \A c \in Bs : b <= c
  BY <1>1, LeastNatural
<1> DEFINE Ns == {p[2] : p \in {q \in T : q[1] = b}}
<1>3. Ns \in SUBSET Nat /\ Ns # {}
  BY SlotParts
<1>4. PICK i \in Ns : \A j \in Ns : i <= j
  BY <1>3, LeastNatural
<1>5. PICK s \in T : s[1] = b /\ s[2] = i
  OBVIOUS
<1>6. ASSUME NEW p \in T PROVE ~Before(p, s)
  <2>1. b <= p[1] /\ (p[1] = b => i <= p[2])
    BY <1>2, <1>4
  <2> QED BY <2>1, <1>5, SlotParts DEF Before
<1> QED BY <1>6

\* the last of a set of entries of one bucket
LEMMA LastOfSlots == 
  ASSUME NEW b, NEW T \in SUBSET {s \in Slots : s[1] = b}, T # {}
  PROVE  \E s \in T : \A p \in T : ~Before(s, p)
<1> DEFINE Ks == {BucketSize - p[2] : p \in T}
<1>1. Ks \in SUBSET Nat /\ Ks # {}
  BY SlotParts, BucketSizeAssumption
<1>2. PICK k \in Ks : \A j \in Ks : k <= j
  BY <1>1, LeastNatural
<1>3. PICK s \in T : k = BucketSize - s[2]
  OBVIOUS
<1>4. ASSUME NEW p \in T PROVE ~Before(s, p)
  <2>1. BucketSize - s[2] <= BucketSize - p[2] /\ s[1] = p[1]
    BY <1>2, <1>3
  <2> QED BY <2>1, SlotParts, BucketSizeAssumption DEF Before
<1> QED BY <1>4

\* the entry that Erase removes, and the one that it empties
LEMMA EraseFinds == 
  ASSUME BucketsPacked, NEW k, Matching(k) # {}
  PROVE  LET e == ErasedEntry(k)
             l == LastUsed(e)
         IN  /\ e \in Slots /\ l \in Slots
             /\ key[e] = k /\ state[e] # "EMPTY" /\ state[l] # "EMPTY"
             /\ \A p \in Matching(k) : ~Before(p, e)
             /\ e[1] = l[1] /\ e[2] <= l[2]
             /\ \A q \in Slots : q[1] = l[1] /\ Before(l, q) 
                  => state[q] = "EMPTY"
<1> DEFINE e == ErasedEntry(k)
           run == {p \in Slots : 
                     p[1] = e[1] /\ e[2] <= p[2] /\ UsedUpTo(e[2], p)}
           l == LastUsed(e)
<1>1. Matching(k) \in SUBSET Slots
  BY DEF Matching
<1>2. \E s \in Matching(k) : \A p \in Matching(k) : ~Before(p, s)
  BY <1>1, FirstOfSlots
<1>3. e \in Matching(k) /\ \A p \in Matching(k) : ~Before(p, e)
  BY <1>2 DEF ErasedEntry
<1> HIDE DEF e
<1>4. e \in Slots /\ key[e] = k /\ UsedUpTo(0, e)
  BY <1>3 DEF Matching
<1>5. state[e] # "EMPTY"
  BY <1>4, SlotParts DEF UsedUpTo
<1>6. e \in run
  BY <1>4, SlotParts DEF UsedUpTo
<1>7. run \in SUBSET {s \in Slots : s[1] = e[1]} /\ run # {}
  BY <1>6
<1>8. \E p \in run : \A q \in run : ~Before(p, q)
  BY <1>7, LastOfSlots
<1>9. l \in run /\ \A q \in run : ~Before(l, q)
  BY <1>8 DEF LastUsed
<1> HIDE DEF l
<1>10. state[l] # "EMPTY"
  BY <1>9, SlotParts DEF UsedUpTo
<1>11. ASSUME NEW q \in Slots, q[1] = l[1], Before(l, q), state[q] # "EMPTY"
       PROVE  FALSE
  <2>1. q[1] = e[1] /\ e[2] <= q[2]
    BY <1>4, <1>9, <1>11, SlotParts DEF Before
  <2>2. ASSUME NEW p \in Slots, p[1] = q[1], e[2] <= p[2], p[2] <= q[2]
        PROVE  state[p] # "EMPTY"
    <3>1. p = q \/ Before(p, q)
      BY <2>2, SlotParts DEF Before
    <3> QED BY <3>1, <2>2, <1>11 DEF BucketsPacked
  <2>3. q \in run
    BY <2>1, <2>2 DEF UsedUpTo
  <2> QED BY <2>3, <1>9, <1>11
<1>12. /\ e \in Slots /\ l \in Slots
       /\ key[e] = k /\ state[e] # "EMPTY" /\ state[l] # "EMPTY"
       /\ \A p \in Matching(k) : ~Before(p, e)
       /\ e[1] = l[1] /\ e[2] <= l[2]
       /\ \A q \in Slots : q[1] = l[1] /\ Before(l, q) => state[q] = "EMPTY"
  BY <1>3, <1>4, <1>5, <1>9, <1>10, <1>11
<1> QED BY <1>12 DEF e, l

-----------------------------------------------------------------------------
(* The steps between the gate's: where they lead.                          *)

\* all steps but those that pass the gate
Works(t) == 
  \/ Claim(t) \/ Fill(t) \/ CountKey(t) \/ Unlock(t) \/ Grow(t) 
  \/ AwaitEntry(t) \/ Compare(t) \/ Scan(t) \/ Probe(t) \/ Hop(t) 
  \/ LockEntry(t) \/ TryFails(t) \/ Work(t) \/ EraseKey(t)

LEMMA StepKinds == 
  ASSUME NEW t \in Threads, CallAny(t) \/ Step(t)
  PROVE  /\ program' = program
         /\ \/ \E kind \in program.kinds, k \in program.keys : Call(t, kind, k)
            \/ Enter(t) \/ Leave(t) \/ ReturnFailed(t) \/ Works(t)
BY DEF CallAny, Step, Works

LEMMA WorkMoves == 
  ASSUME TypeOK, NEW t \in Threads, Works(t)
  PROVE  /\ UNCHANGED <<op, nops, gateVars>>
         /\ pc[t] \in InsidePCs \cup {"erase"} 
         /\ pc'[t] \in InsidePCs \cup {"leave"}
         /\ pc[t] = "erase" => pc'[t] = "leave"
         /\ pc' \in [Threads -> PCs]
         /\ \A u \in Threads \ {t} : 
              pc'[u] = pc[u] /\ pos'[u] = pos[u] /\ read'[u] = read[u] 
              /\ res'[u] = res[u]
<1> USE DEF TypeOK, InsidePCs, PCs, Goto, SetOutcome, ReturnWith, gateVars
<1>1. CASE Claim(t)
  BY <1>1 DEF Claim
<1>2. CASE Fill(t)
  BY <1>2 DEF Fill
<1>3. CASE CountKey(t)
  BY <1>3 DEF CountKey
<1>4. CASE Unlock(t)
  BY <1>4 DEF Unlock
<1>5. CASE Grow(t)
  BY <1>5 DEF Grow, GrowList, LinkBucket, AwaitBucket, EnterNextBucket, chain
<1>6. CASE AwaitEntry(t)
  BY <1>6 DEF AwaitEntry
<1>7. CASE Compare(t)
  BY <1>7 DEF Compare, NextEntry
<1>8. CASE Scan(t)
  BY <1>8 DEF Scan, LeaveBucket
<1>9. CASE Probe(t)
  BY <1>9 DEF Probe, NextEntry
<1>10. CASE Hop(t)
  BY <1>10 DEF Hop, EnterNextBucket
<1>11. CASE LockEntry(t)
  BY <1>11 DEF LockEntry
<1>12. CASE TryFails(t)
  BY <1>12 DEF TryFails
<1>13. CASE Work(t)
  BY <1>13 DEF Work
<1>14. CASE EraseKey(t)
  BY <1>14 DEF EraseKey
<1> QED BY <1>1, <1>2, <1>3, <1>4, <1>5, <1>6, <1>7, <1>8, <1>9, <1>10, <1>11, 
           <1>12, <1>13, <1>14 DEF Works

\* a step that leads the task through the gate
LEMMA EnterMoves == 
  ASSUME TypeOK, NEW t \in Threads, Enter(t)
  PROVE  /\ pc[t] = "enter" /\ Gate!Allowing(t) 
         /\ pc' \in [Threads -> PCs]
         /\ UNCHANGED <<entries, numberKeys, chain, pos, op, read, res, nops>>
         /\ \A u \in Threads \ {t} : pc'[u] = pc[u]
         /\ gate'[t] \in {"inside", "exclusive"} => pc'[t] = FirstStep(t)
         /\ gate'[t] \notin {"inside", "exclusive"} => pc'[t] = "enter"
BY DEF Enter, TypeOK, Goto, FirstStep, PCs

LEMMA StepGate == 
  ASSUME TypeOK, CountersInv, \A u \in Threads : GateOf(u) /\ KindOf(u), 
         NEW t \in Threads, CallAny(t) \/ Step(t)
  PROVE  /\ Gate!GateTypeOK' /\ CountersInv'
         /\ \A u \in Threads : GateOf(u)'
<1>0. Gate!GateTypeOK /\ GateOf(t) /\ KindOf(t)
  BY DEF TypeOK
<1>1. CASE \E kind \in program.kinds, k \in program.keys : Call(t, kind, k)
  <2>1. PICK kind \in program.kinds, k \in program.keys : Call(t, kind, k)
    BY <1>1
  <2>2. /\ pc'[t] = "enter" /\ op'[t].kind = kind
        /\ \A u \in Threads \ {t} : pc'[u] = pc[u] /\ op'[u] = op[u]
        /\ IF kind = "Erase" THEN Gate!CallAllowDeleter(t) 
                             ELSE Gate!CallAllowInserter(t)
    BY <2>1 DEF Call, Goto, TypeOK
  <2>3. /\ Gate!GateTypeOK' /\ CountersInv' /\ seen' = seen
        /\ \A u \in Threads \ {t} : gate'[u] = gate[u]
        /\ gate'[t] = IF kind = "Erase" THEN "d_read" ELSE "i_read"
    BY <2>2, <1>0, CallingKeepsCounters
  <2> QED BY <2>2, <2>3 DEF GateOf, Is, InsidePCs
<1>2. CASE Enter(t)
  <2>1. /\ pc[t] = "enter" /\ Gate!Allowing(t) /\ op' = op
        /\ \A u \in Threads \ {t} : pc'[u] = pc[u]
        /\ gate'[t] \in {"inside", "exclusive"} => pc'[t] = FirstStep(t)
        /\ gate'[t] \notin {"inside", "exclusive"} => pc'[t] = "enter"
    BY <1>2, EnterMoves
  <2>2. /\ Gate!GateTypeOK' /\ CountersInv'
        /\ \A u \in Threads \ {t} : gate'[u] = gate[u] /\ seen'[u] = seen[u]
        /\ gate'[t] = "i_swap" => seen'[t] # HasDeleter
        /\ \/ gate[t] \in {"i_read", "i_test", "i_swap"} 
              /\ gate'[t] \in {"i_read", "i_test", "i_swap", "inside"}
           \/ gate[t] \in {"d_read", "d_swap", "d_leave"}
              /\ gate'[t] \in {"d_read", "d_swap", "d_leave", "exclusive"}
    BY <2>1, <1>0, AllowingKeepsCounters DEF GateOf
  <2>3. Is(t, {"Erase"}) <=> gate[t] \in {"d_read", "d_swap", "d_leave"}
    BY <1>0, <2>1 DEF GateOf
  <2>4. ASSUME NEW u \in Threads \ {t} PROVE GateOf(u)'
    BY <2>1, <2>2 DEF GateOf, Is
  <2>5. GateOf(t)'
    BY <2>1, <2>2, <2>3 DEF GateOf, Is, FirstStep, InsidePCs
  <2> QED BY <2>2, <2>4, <2>5
<1>3. CASE Leave(t)
  <2>1. /\ Gate!Releasing(t) /\ op' = op /\ pc'[t] = "idle"
        /\ \A u \in Threads \ {t} : pc'[u] = pc[u]
    BY <1>3 DEF Leave, Goto, TypeOK
  <2>2. /\ Gate!GateTypeOK' /\ CountersInv' /\ seen' = seen
        /\ gate'[t] = "out" /\ \A u \in Threads \ {t} : gate'[u] = gate[u]
    BY <2>1, <1>0, ReleasingKeepsCounters
  <2> QED BY <2>1, <2>2 DEF GateOf, Is, InsidePCs
<1>4. CASE ReturnFailed(t)
  <2>1. /\ Gate!GoGate(t, "out") /\ op' = op /\ pc'[t] = "idle" 
        /\ gate[t] = "inside"
        /\ \A u \in Threads \ {t} : pc'[u] = pc[u]
        /\ UNCHANGED <<inserters, deleters, seen>>
    BY <1>4, <1>0 DEF ReturnFailed, Goto, TypeOK, GateOf, InsidePCs
  <2>2. CountersInv' /\ Gate!GateTypeOK'
    BY <2>1, <1>0, CountedStay DEF Gate!GateTypeOK, Gate!GoGate, Gate!GatePoints
  <2>3. gate'[t] = "out" /\ \A u \in Threads \ {t} : gate'[u] = gate[u]
    BY <2>1, <1>0 DEF Gate!GateTypeOK, Gate!GoGate
  <2> QED BY <2>1, <2>2, <2>3 DEF GateOf, Is, InsidePCs
<1>5. CASE Works(t)
  <2>1. /\ UNCHANGED <<op, inserters, deleters, gate, seen>>
        /\ pc[t] \in InsidePCs \cup {"erase"} 
        /\ pc'[t] \in InsidePCs \cup {"leave"}
        /\ pc[t] = "erase" => pc'[t] = "leave"
        /\ \A u \in Threads \ {t} : pc'[u] = pc[u]
    BY <1>5, WorkMoves DEF gateVars
  <2>2. CountersInv' /\ Gate!GateTypeOK'
    BY <2>1, <1>0 DEF CountersInv, Gate!GateTypeOK, Gate!Inside, Gate!Deleting, 
                      Gate!Counted
  <2>3. ASSUME NEW u \in Threads \ {t} PROVE GateOf(u)'
    BY <2>1 DEF GateOf, Is
  <2>4. GateOf(t)'
    BY <2>1, <1>0 DEF GateOf, KindOf, Is, InsidePCs
  <2> QED BY <2>2, <2>3, <2>4
<1> QED BY <1>1, <1>2, <1>3, <1>4, <1>5, StepKinds

LEMMA StepKindOf == 
  ASSUME TypeOK, \A u \in Threads : GateOf(u) /\ KindOf(u), 
         CountersInv, NEW t \in Threads, CallAny(t) \/ Step(t)
  PROVE  \A u \in Threads : KindOf(u)'
<1>0. GateOf(t) /\ KindOf(t) /\ Gate!GateTypeOK
  BY DEF TypeOK
<1> USE DEF KindOf, Is, InsidePCs, ApplyKinds, LookupKinds
<1>1. CASE \E kind \in program.kinds, k \in program.keys : Call(t, kind, k)
  BY <1>1 DEF Call, Goto, TypeOK
<1>2. CASE Enter(t)
  <2>1. /\ op' = op /\ nops' = nops /\ pc[t] = "enter"
        /\ pc'[t] \in {"enter", FirstStep(t)} 
        /\ \A u \in Threads \ {t} : pc'[u] = pc[u]
    BY <1>2, EnterMoves
  <2> QED BY <2>1 DEF FirstStep
<1>3. CASE Leave(t)
  BY <1>3 DEF Leave, Goto, TypeOK
<1>4. CASE ReturnFailed(t)
  BY <1>4 DEF ReturnFailed, Goto, TypeOK
<1>5. CASE Works(t)
  <2>0. /\ op' = op /\ nops' = nops /\ pc[t] # "idle" 
        /\ \A u \in Threads \ {t} : pc'[u] = pc[u]
    BY <1>5, WorkMoves
  <2> SUFFICES KindOf(t)'
    BY <2>0
  <2> USE <1>0, <2>0 DEF Goto, SetOutcome, ReturnWith, TypeOK
  <2>1. CASE Claim(t)
    BY <2>1 DEF Claim
  <2>2. CASE Fill(t)
    BY <2>2 DEF Fill
  <2>3. CASE CountKey(t)
    BY <2>3 DEF CountKey
  <2>4. CASE Unlock(t)
    BY <2>4 DEF Unlock
  <2>5. CASE Grow(t)
    BY <2>5 DEF Grow, GrowList, LinkBucket, AwaitBucket, EnterNextBucket
  <2>6. CASE AwaitEntry(t)
    BY <2>6 DEF AwaitEntry
  <2>7. CASE Compare(t)
    BY <2>7 DEF Compare, NextEntry
  <2>8. CASE Scan(t)
    BY <2>8 DEF Scan, LeaveBucket
  <2>9. CASE Probe(t)
    BY <2>9 DEF Probe, NextEntry
  <2>10. CASE Hop(t)
    BY <2>10 DEF Hop, EnterNextBucket
  <2>11. CASE LockEntry(t)
    BY <2>11 DEF LockEntry
  <2>12. CASE TryFails(t)
    BY <2>12 DEF TryFails
  <2>13. CASE Work(t)
    <3>1. CASE Is(t, LookupKinds)
      BY <2>13, <3>1 DEF Work
    <3>2. CASE ~Is(t, LookupKinds)
      BY <2>13, <3>2 DEF Work
    <3> QED BY <3>1, <3>2
  <2>14. CASE EraseKey(t)
    BY <2>14 DEF EraseKey
  <2> QED BY <1>5, <2>1, <2>2, <2>3, <2>4, <2>5, <2>6, <2>7, <2>8, <2>9, <2>10, 
             <2>11, <2>12, <2>13, <2>14 DEF Works
<1> QED BY <1>1, <1>2, <1>3, <1>4, <1>5, StepKinds

-----------------------------------------------------------------------------
(* Erase is alone, and what it does.                                       *)

LEMMA InvIsAlone == MultimapInv => EraseAlone
<1> SUFFICES ASSUME MultimapInv, NEW t \in Threads, pc[t] = "erase"
             PROVE  Pending = {} /\ \A u \in Threads \ {t} : pc[u] \in {"idle", "enter"}
  BY DEF EraseAlone
<1>1. gate[t] = "exclusive"
  BY DEF MultimapInv, GateOf
<1>2. ASSUME NEW u \in Threads \ {t} PROVE pc[u] \in {"idle", "enter"}
  <2>1. gate[u] \notin {"inside", "exclusive"}
    BY <1>1, DeleterAlone DEF MultimapInv
  <2>2. GateOf(u) /\ pc[u] \in PCs
    BY DEF MultimapInv, TypeOK
  <2> QED BY <2>1, <2>2 DEF GateOf, InsidePCs, PCs
<1>3. Pending = {}
  <2>1. \A u \in Threads : pc[u] \notin HoldingPCs
    BY <1>2 DEF HoldingPCs
  <2> QED BY <2>1 DEF MultimapInv, OwnersInv, Holds
<1> QED BY <1>2, <1>3

LEMMA EraseEffect == 
  ASSUME MultimapInv, NEW t \in Threads, EraseKey(t)
  PROVE  \/ UNCHANGED <<entries, numberKeys>> /\ Matching(MyKey(t)) = {}
         \/ \E e, l \in Slots : 
              /\ key[e] = MyKey(t) /\ state[e] # "EMPTY" /\ state[l] # "EMPTY"
              /\ \A p \in Matching(MyKey(t)) : ~Before(p, e)
              /\ e[1] = l[1] /\ e[2] <= l[2]
              /\ \A q \in Slots : q[1] = l[1] /\ Before(l, q) 
                   => state[q] = "EMPTY"
              /\ key' = [key EXCEPT ![e] = key[l]]
              /\ val' = [[val EXCEPT ![e] = val[l]] EXCEPT ![l] = {}]
              /\ state' = [state EXCEPT ![l] = "EMPTY"]
              /\ numberKeys' = numberKeys - 1
<1>1. CASE Matching(MyKey(t)) = {}
  BY <1>1 DEF EraseKey
<1>2. CASE Matching(MyKey(t)) # {}
  <2> DEFINE e == ErasedEntry(MyKey(t))
             l == LastUsed(e)
  <2>1. /\ e \in Slots /\ l \in Slots
        /\ key[e] = MyKey(t) /\ state[e] # "EMPTY" /\ state[l] # "EMPTY"
        /\ \A p \in Matching(MyKey(t)) : ~Before(p, e)
        /\ e[1] = l[1] /\ e[2] <= l[2]
        /\ \A q \in Slots : q[1] = l[1] /\ Before(l, q) => state[q] = "EMPTY"
    BY <1>2, EraseFinds DEF MultimapInv
  <2>2. /\ key' = [key EXCEPT ![e] = key[l]]
        /\ val' = [[val EXCEPT ![e] = val[l]] EXCEPT ![l] = {}]
        /\ state' = [state EXCEPT ![l] = "EMPTY"]
        /\ numberKeys' = numberKeys - 1
    BY <1>2 DEF EraseKey, SetState
  <2> HIDE DEF e, l
  <2> QED BY <2>1, <2>2
<1> QED BY <1>1, <1>2

-----------------------------------------------------------------------------
(* Counting.                                                               *)

Taken == {s \in Slots : state[s] # "EMPTY"}
Counting == {t \in Threads : pc[t] \in {"fill", "count"}}

LEMMA CountedSetsAreFinite == 
  /\ IsFiniteSet(Taken) /\ Cardinality(Taken) \in Nat
  /\ IsFiniteSet(Counting) /\ Cardinality(Counting) \in Nat
<1>1. IsFiniteSet(0..(MaxBuckets - 1)) /\ IsFiniteSet(0..(BucketSize - 1))
  BY FS_Interval, MaxBucketsAssumption, BucketSizeAssumption
<1>2. IsFiniteSet(Slots)
  BY <1>1, FS_Product DEF Slots, Buckets
<1>3. Taken \in SUBSET Slots /\ Counting \in SUBSET Threads
  BY DEF Taken, Counting
<1>4. IsFiniteSet(Taken) /\ IsFiniteSet(Counting)
  BY <1>2, <1>3, ThreadsAssumption, FS_Subset
<1> QED BY <1>4, FS_CardinalityType

LEMMA CountIs == NumberKeysExact <=> numberKeys = Cardinality(Taken) - Cardinality(Counting)
BY DEF NumberKeysExact, Taken, Counting

LEMMA CountIsNext == 
  NumberKeysExact' <=> numberKeys' = Cardinality(Taken') - Cardinality(Counting')
BY DEF NumberKeysExact, Taken, Counting

LEMMA StepCounts == 
  ASSUME MultimapInv, NEW t \in Threads, CallAny(t) \/ Step(t)
  PROVE  NumberKeysExact' /\ numberKeys' \in Nat
<1> USE DEF Counting, Taken
<1>0. /\ numberKeys = Cardinality(Taken) - Cardinality(Counting)
      /\ numberKeys \in Nat /\ TypeOK /\ KindOf(t)
  BY CountIs DEF MultimapInv, TypeOK
<1>1. ASSUME numberKeys' = numberKeys, state' = state, 
             pc[t] \notin {"fill", "count"}, pc'[t] \notin {"fill", "count"},
             \A u \in Threads \ {t} : pc'[u] = pc[u]
      PROVE  NumberKeysExact' /\ numberKeys' \in Nat
  <2>1. Taken' = Taken /\ Counting' = Counting
    BY <1>1
  <2> QED BY <1>0, <1>1, <2>1, CountIsNext
<1>2. CASE \E kind \in program.kinds, k \in program.keys : Call(t, kind, k)
  BY <1>0, <1>1, <1>2 DEF Call, Goto, TypeOK, entries
<1>3. CASE Enter(t)
  <2>1. FirstStep(t) \notin {"fill", "count"}
    BY DEF FirstStep
  <2> QED BY <1>0, <1>1, <1>3, <2>1, EnterMoves DEF entries
<1>4. CASE Leave(t)
  BY <1>0, <1>1, <1>4 DEF Leave, Goto, TypeOK, entries
<1>5. CASE ReturnFailed(t)
  BY <1>0, <1>1, <1>5 DEF ReturnFailed, Goto, TypeOK, entries
<1>6. CASE Works(t)
  <2>0. \A u \in Threads \ {t} : pc'[u] = pc[u]
    BY <1>0, <1>6, WorkMoves
  <2> USE DEF Goto, SetOutcome, ReturnWith, SetState, TypeOK
  <2>1. CASE Claim(t) /\ state[pos[t]] = "EMPTY"
    <3>1. /\ numberKeys' = numberKeys /\ pc'[t] = "fill" /\ pc[t] = "claim"
          /\ state' = [state EXCEPT ![pos[t]] = "PENDING_INSERT"] 
          /\ pos[t] \in Slots
      BY <2>1, <1>0 DEF Claim
    <3>2. Taken' = Taken \cup {pos[t]} /\ pos[t] \notin Taken
      BY <3>1, <2>1, <1>0
    <3>3. Counting' = Counting \cup {t} /\ t \notin Counting
      BY <3>1, <2>0
    <3> HIDE DEF Counting, Taken
    <3>4. Cardinality(Taken') = Cardinality(Taken) + 1
      BY <3>2, CountedSetsAreFinite, FS_AddElement
    <3>5. Cardinality(Counting') = Cardinality(Counting) + 1
      BY <3>3, CountedSetsAreFinite, FS_AddElement
    <3> QED BY <1>0, <3>1, <3>4, <3>5, CountedSetsAreFinite, CountIsNext
  <2>2. CASE Claim(t) /\ state[pos[t]] # "EMPTY"
    BY <1>0, <1>1, <2>0, <2>2 DEF Claim
  <2>3. CASE Fill(t)
    <3>1. /\ numberKeys' = numberKeys /\ pc'[t] = "count" /\ pc[t] = "fill"
          /\ state' = state
      BY <2>3, <1>0 DEF Fill
    <3>2. Taken' = Taken /\ Counting' = Counting
      BY <3>1, <2>0
    <3> QED BY <1>0, <3>1, <3>2, CountIsNext
  <2>4. CASE CountKey(t)
    <3>1. /\ numberKeys' = numberKeys + 1 /\ pc'[t] = "publish" 
          /\ pc[t] = "count" /\ state' = state
      BY <2>4, <1>0 DEF CountKey, entries
    <3>2. Taken' = Taken /\ Counting' = Counting \ {t} /\ t \in Counting
      BY <3>1, <2>0
    <3> HIDE DEF Counting, Taken
    <3>3. Cardinality(Counting') = Cardinality(Counting) - 1
      BY <3>2, CountedSetsAreFinite, FS_RemoveElement
    <3> QED BY <1>0, <3>1, <3>2, <3>3, CountedSetsAreFinite, CountIsNext
  <2>5. CASE Unlock(t)
    <3>1. /\ numberKeys' = numberKeys /\ pc'[t] = "leave" 
          /\ pc[t] \in {"publish", "unlock"} /\ pos[t] \in Slots
          /\ state' = [state EXCEPT ![pos[t]] = "USED"] /\ state[pos[t]] # "EMPTY"
      BY <2>5, <1>0 DEF Unlock, MultimapInv, OwnersInv, HoldingPCs, HeldAs
    <3>2. Taken' = Taken /\ Counting' = Counting
      BY <3>1, <2>0, <1>0
    <3> QED BY <1>0, <3>1, <3>2, CountIsNext
  <2>6. CASE LockEntry(t)
    <3>1. /\ numberKeys' = numberKeys /\ pc'[t] = "work" /\ pc[t] = "lock"
          /\ pos[t] \in Slots /\ state[pos[t]] # "EMPTY"
          /\ \E st \in EntryStates \ {"EMPTY"} : 
               state' = [state EXCEPT ![pos[t]] = st]
      BY <2>6, <1>0 DEF LockEntry, EntryStates
    <3>2. Taken' = Taken /\ Counting' = Counting
      BY <3>1, <2>0, <1>0
    <3> QED BY <1>0, <3>1, <3>2, CountIsNext
  <2>7. CASE EraseKey(t)
    <3>1. pc[t] = "erase" /\ pc'[t] = "leave"
      BY <2>7, <1>0 DEF EraseKey
    <3>2. CASE UNCHANGED <<entries, numberKeys>>
      BY <3>1, <3>2, <2>0, <1>1 DEF entries
    <3>3. CASE \E l \in Slots : 
                 /\ state[l] # "EMPTY" /\ state' = [state EXCEPT ![l] = "EMPTY"]
                 /\ numberKeys' = numberKeys - 1
      <4>1. PICK l \in Slots : 
              /\ state[l] # "EMPTY" /\ state' = [state EXCEPT ![l] = "EMPTY"]
              /\ numberKeys' = numberKeys - 1
        BY <3>3
      <4>2. Taken' = Taken \ {l} /\ l \in Taken
        BY <4>1, <1>0
      <4>3. Counting' = {} /\ Counting = {}
        BY <3>1, <2>0, InvIsAlone DEF EraseAlone
      <4> HIDE DEF Counting, Taken
      <4>4. Cardinality(Taken') = Cardinality(Taken) - 1 /\ Cardinality(Taken') \in Nat
        BY <4>2, CountedSetsAreFinite, FS_RemoveElement, FS_CardinalityType
      <4> QED BY <1>0, <4>1, <4>3, <4>4, CountedSetsAreFinite, FS_EmptySet, 
                 CountIsNext
    <3> QED BY <2>7, <3>2, <3>3, EraseEffect
  <2>8. CASE Grow(t)
    BY <1>0, <1>1, <2>0, <2>8 
       DEF Grow, GrowList, LinkBucket, AwaitBucket, EnterNextBucket, entries
  <2>9. CASE AwaitEntry(t)
    BY <1>0, <1>1, <2>0, <2>9 DEF AwaitEntry, entries
  <2>10. CASE Compare(t)
    BY <1>0, <1>1, <2>0, <2>10 DEF Compare, NextEntry, entries
  <2>11. CASE Scan(t)
    BY <1>0, <1>1, <2>0, <2>11 DEF Scan, entries
  <2>12. CASE Probe(t)
    BY <1>0, <1>1, <2>0, <2>12 DEF Probe, NextEntry, entries
  <2>13. CASE Hop(t)
    BY <1>0, <1>1, <2>0, <2>13 DEF Hop, EnterNextBucket, entries
  <2>14. CASE TryFails(t)
    BY <1>0, <1>1, <2>0, <2>14 DEF TryFails, entries
  <2>15. CASE Work(t)
    BY <1>0, <1>1, <2>0, <2>15 DEF Work
  <2> QED BY <1>6, <2>1, <2>2, <2>3, <2>4, <2>5, <2>6, <2>7, <2>8, <2>9, <2>10, 
             <2>11, <2>12, <2>13, <2>14, <2>15 DEF Works
<1> QED BY <1>2, <1>3, <1>4, <1>5, <1>6, StepKinds

-----------------------------------------------------------------------------
(* Types.                                                                  *)

\* where a search goes
LEMMA NextEntryMoves == 
  ASSUME TypeOK, NEW t \in Threads, NEW again \in PCs, NEW out \in PCs, 
         NextEntry(t, again, out)
  PROVE  /\ pos' \in [Threads -> Slots] /\ pc' \in [Threads -> PCs]
         /\ \/ LastInBucket(pos[t]) /\ pos' = pos /\ pc'[t] = out
            \/ /\ ~LastInBucket(pos[t]) /\ pc'[t] = again
               /\ pos'[t] = <<pos[t][1], pos[t][2] + 1>>
         /\ \A u \in Threads \ {t} : pos'[u] = pos[u]
<1>1. pos[t] \in Slots
  BY DEF TypeOK
<1>2. ~LastInBucket(pos[t]) => <<pos[t][1], pos[t][2] + 1>> \in Slots
  BY <1>1, NextInBucket
<1> QED BY <1>1, <1>2 DEF NextEntry, Goto, TypeOK

LEMMA EnterBucketMoves == 
  ASSUME TypeOK, NEW t \in Threads, NEW l \in PCs, pos[t][1] + 1 \in Buckets,
         EnterNextBucket(t, l)
  PROVE  /\ pos' \in [Threads -> Slots] /\ pc' \in [Threads -> PCs]
         /\ pc'[t] = l /\ pos'[t] = <<pos[t][1] + 1, 0>>
         /\ \A u \in Threads \ {t} : pos'[u] = pos[u]
<1>1. pos[t] \in Slots
  BY DEF TypeOK
<1>2. <<pos[t][1] + 1, 0>> \in Slots
  BY <1>1, NextBucketStart
<1> QED BY <1>1, <1>2 DEF EnterNextBucket, Goto, TypeOK

\* the three ways out of a full bucket
LEMMA GrowMoves == 
  ASSUME TypeOK, NEW t \in Threads, OnTheWay(t), Grow(t)
  PROVE  /\ pos[t][1] + 1 \in Buckets
         /\ pos' \in [Threads -> Slots] /\ pc' \in [Threads -> PCs]
         /\ pc[t] \in {"grow", "link", "waitnext"}
         /\ \/ pc'[t] = "claim" /\ pos'[t] = <<pos[t][1] + 1, 0>>
            \/ pc'[t] \in {"link", "waitnext"} /\ pos'[t] = pos[t]
         /\ \A u \in Threads \ {t} : pos'[u] = pos[u]
         /\ \A b \in Buckets : next'[b] => next[b] \/ b = pos[t][1]
         /\ allocated' \in [Buckets -> BOOLEAN] /\ next' \in [Buckets -> BOOLEAN]
<1>1. pos[t] \in Slots /\ pos[t][1] + 1 \in Buckets /\ pos[t][1] \in Buckets
  BY SlotParts DEF Grow, GrowList, LinkBucket, AwaitBucket, OnTheWay, TypeOK
<1> USE DEF PCs
<1>2. CASE GrowList(t)
  <2>1. CASE EnterNextBucket(t, "claim")
    BY <1>1, <1>2, <2>1, EnterBucketMoves DEF GrowList, TypeOK
  <2>2. CASE ~EnterNextBucket(t, "claim")
    BY <1>1, <1>2, <2>2 DEF GrowList, Goto, TypeOK
  <2> QED BY <2>1, <2>2
<1>3. CASE LinkBucket(t)
  BY <1>1, <1>3, EnterBucketMoves DEF LinkBucket, TypeOK
<1>4. CASE AwaitBucket(t)
  BY <1>1, <1>4, EnterBucketMoves DEF AwaitBucket, TypeOK, chain
<1> QED BY <1>2, <1>3, <1>4 DEF Grow

LEMMA TokIsToken == 
  ASSUME TypeOK, NEW t \in Threads, nops[t] > 0
  PROVE  Tok(t) \in Tokens
BY MaxOpsAssumption DEF TypeOK, Tok, Tokens

LEMMA StepType == 
  ASSUME MultimapInv, NEW t \in Threads, CallAny(t) \/ Step(t)
  PROVE  TypeOK'
<1>0. /\ TypeOK /\ KindOf(t) /\ OnTheWay(t) /\ ChainInv /\ pos[t] \in Slots
  BY DEF MultimapInv, TypeOK
<1>1. Gate!GateTypeOK' /\ numberKeys' \in Nat
  BY StepGate, StepCounts DEF MultimapInv
<1>2. program' = program
  BY StepKinds
<1>3. program.keys \subseteq Keys /\ program.kinds \subseteq AllKinds 
      /\ program.ops \in 0..MaxOps
  BY <1>0, ProgramsAssumption DEF TypeOK
<1> USE <1>0, <1>1, <1>2 DEF TypeOK, Goto
<1>4. CASE \E kind \in program.kinds, k \in program.keys : Call(t, kind, k)
  <2>1. nops' \in [Threads -> 0..MaxOps]
    BY <1>3, <1>4, MaxOpsAssumption DEF Call
  <2> QED BY <1>3, <1>4, <2>1, FirstSlotIsFirst 
          DEF Call, PCs, Outcomes, entries, chain
<1>5. CASE Enter(t)
  BY <1>5, EnterMoves DEF entries, chain
<1>6. CASE Leave(t)
  BY <1>6 DEF Leave, PCs, entries, chain
<1>7. CASE ReturnFailed(t)
  BY <1>7 DEF ReturnFailed, PCs, entries, chain
<1>8. CASE Works(t)
  <2>0. UNCHANGED <<op, nops>> /\ pc' \in [Threads -> PCs] /\ Tok(t) \in Tokens
    BY <1>8, WorkMoves, TokIsToken DEF KindOf, InsidePCs
  <2> USE <2>0 DEF SetOutcome, ReturnWith, SetState, Outcomes, EntryStates, 
                   entries, chain
  <2>1. CASE Claim(t)
    BY <2>1 DEF Claim
  <2>2. CASE Fill(t)
    <3>1. MyKey(t) \in Keys \cup {NoKey}
      BY DEF MyKey
    <3> QED BY <2>2, <3>1 DEF Fill
  <2>3. CASE CountKey(t)
    BY <2>3 DEF CountKey
  <2>4. CASE Unlock(t)
    BY <2>4 DEF Unlock
  <2>5. CASE Grow(t)
    BY <2>5, GrowMoves DEF Grow
  <2>6. CASE AwaitEntry(t)
    BY <2>6 DEF AwaitEntry
  <2>7. CASE Compare(t)
    <3>1. pos' \in [Threads -> Slots]
      BY <2>7, NextEntryMoves DEF Compare, PCs
    <3> QED BY <2>7, <3>1 DEF Compare
  <2>8. CASE Scan(t)
    BY <2>8 DEF Scan, LeaveBucket
  <2>9. CASE Probe(t)
    <3>1. pos' \in [Threads -> Slots]
      BY <2>9, NextEntryMoves DEF Probe, PCs
    <3> QED BY <2>9, <3>1 DEF Probe
  <2>10. CASE Hop(t)
    <3>1. next[pos[t][1]] => pos[t][1] + 1 \in Buckets
      BY SlotParts DEF ChainInv
    <3>2. pos' \in [Threads -> Slots]
      BY <2>10, <3>1, EnterBucketMoves DEF Hop, PCs
    <3> QED BY <2>10, <3>2 DEF Hop
  <2>11. CASE LockEntry(t)
    BY <2>11 DEF LockEntry
  <2>12. CASE TryFails(t)
    BY <2>12 DEF TryFails
  <2>13. CASE Work(t)
    <3>1. CASE Is(t, LookupKinds)
      BY <2>13, <3>1 DEF Work
    <3>2. CASE ~Is(t, LookupKinds)
      BY <2>13, <3>2 DEF Work
    <3> QED BY <3>1, <3>2
  <2>14. CASE EraseKey(t)
    <3>1. state' \in [Slots -> EntryStates] /\ key' \in [Slots -> Keys \cup {NoKey}] 
          /\ val' \in [Slots -> SUBSET Tokens]
      <4>1. CASE UNCHANGED <<entries, numberKeys>>
        BY <4>1
      <4>2. CASE ~UNCHANGED <<entries, numberKeys>>
        <5>1. PICK e \in Slots, l \in Slots : 
                /\ key' = [key EXCEPT ![e] = key[l]]
                /\ val' = [[val EXCEPT ![e] = val[l]] EXCEPT ![l] = {}]
                /\ state' = [state EXCEPT ![l] = "EMPTY"]
          BY <2>14, <4>2, EraseEffect, Zenon
        <5> QED BY <5>1
      <4> QED BY <4>1, <4>2
    <3>2. UNCHANGED <<chain, pos, read>> /\ res' = [res EXCEPT ![t] = "erased"]
      BY <2>14 DEF EraseKey
    <3> QED BY <3>1, <3>2
  <2> QED BY <1>8, <2>1, <2>2, <2>3, <2>4, <2>5, <2>6, <2>7, <2>8, <2>9, <2>10, 
             <2>11, <2>12, <2>13, <2>14 DEF Works
<1> QED BY <1>4, <1>5, <1>6, <1>7, <1>8, StepKinds

-----------------------------------------------------------------------------
(* Who holds an entry.                                                     *)

LEMMA OwnersStay == 
  ASSUME OwnersInv, NEW t \in Threads, state' = state,
         \A u \in Threads \ {t} : 
           pc'[u] = pc[u] /\ pos'[u] = pos[u] /\ op'[u] = op[u],
         pc'[t] \in HoldingPCs <=> pc[t] \in HoldingPCs,
         pc[t] \in HoldingPCs => pos'[t] = pos[t] /\ op'[t] = op[t]
  PROVE  OwnersInv'
BY DEF OwnersInv, Holds, HeldAs, Is, Pending

LEMMA OwnersTake == 
  ASSUME TypeOK, OwnersInv, NEW t \in Threads, UNCHANGED <<pos, op>>,
         pc[t] \notin HoldingPCs, pc'[t] \in HoldingPCs, 
         \A u \in Threads \ {t} : pc'[u] = pc[u],
         state[pos[t]] \in {"EMPTY", "USED"}, 
         state' = [state EXCEPT ![pos[t]] = HeldAs(t)]
  PROVE  OwnersInv'
<1>1. pos[t] \in Slots
  BY DEF TypeOK
<1>2. \A s \in Slots : state'[s] = IF s = pos[t] THEN HeldAs(t) ELSE state[s]
  BY <1>1 DEF TypeOK
<1>3. \A u \in Threads : HeldAs(u)' = HeldAs(u) /\ HeldAs(u) \in 
                                           {"PENDING_INSERT", "PENDING_UPDATE"}
  BY DEF HeldAs, Is
<1>4. \A u \in Threads : pc[u] \in HoldingPCs => pos[u] # pos[t] /\ pos[u] \in Slots
  BY <1>3 DEF OwnersInv, TypeOK
<1>5. \A u \in Threads : pc'[u] \in HoldingPCs => state'[pos'[u]] = HeldAs(u)'
  BY <1>1, <1>2, <1>3, <1>4 DEF OwnersInv
<1>6. \A u, v \in Threads : 
       pc'[u] \in HoldingPCs /\ pc'[v] \in HoldingPCs /\ pos'[u] = pos'[v] => u = v
  BY <1>4 DEF OwnersInv
<1>7. ASSUME NEW s \in Slots, state'[s] \in {"PENDING_INSERT", "PENDING_UPDATE"}
      PROVE  \E u \in Threads : Holds(u, s)'
  <2>1. CASE s = pos[t]
    BY <2>1 DEF Holds
  <2>2. CASE s # pos[t]
    <3>1. PICK u \in Threads : Holds(u, s)
      BY <1>2, <1>7, <2>2 DEF OwnersInv, Pending
    <3> QED BY <3>1 DEF Holds
  <2> QED BY <2>1, <2>2
<1> QED BY <1>5, <1>6, <1>7 DEF OwnersInv, Pending

LEMMA OwnersGive == 
  ASSUME TypeOK, OwnersInv, NEW t \in Threads, UNCHANGED <<pos, op>>,
         pc[t] \in HoldingPCs, pc'[t] \notin HoldingPCs, 
         \A u \in Threads \ {t} : pc'[u] = pc[u],
         state' = [state EXCEPT ![pos[t]] = "USED"]
  PROVE  OwnersInv'
<1>1. pos[t] \in Slots
  BY DEF TypeOK
<1>2. \A s \in Slots : state'[s] = IF s = pos[t] THEN "USED" ELSE state[s]
  BY <1>1 DEF TypeOK
<1>3. \A u \in Threads : HeldAs(u)' = HeldAs(u)
  BY DEF HeldAs, Is
<1>4. \A u \in Threads \ {t} : 
        pc[u] \in HoldingPCs => pos[u] # pos[t] /\ pos[u] \in Slots
  BY DEF OwnersInv, TypeOK
<1>5. \A u \in Threads : pc'[u] \in HoldingPCs => state'[pos'[u]] = HeldAs(u)'
  BY <1>2, <1>3, <1>4 DEF OwnersInv
<1>6. \A u, v \in Threads : 
       pc'[u] \in HoldingPCs /\ pc'[v] \in HoldingPCs /\ pos'[u] = pos'[v] => u = v
  BY DEF OwnersInv
<1>7. ASSUME NEW s \in Slots, state'[s] \in {"PENDING_INSERT", "PENDING_UPDATE"}
      PROVE  \E u \in Threads : Holds(u, s)'
  <2>1. s # pos[t] /\ s \in Pending
    BY <1>2, <1>7 DEF Pending
  <2>2. PICK u \in Threads : Holds(u, s)
    BY <2>1 DEF OwnersInv
  <2> QED BY <2>1, <2>2 DEF Holds
<1> QED BY <1>5, <1>6, <1>7 DEF OwnersInv, Pending

LEMMA StepOwners == 
  ASSUME MultimapInv, NEW t \in Threads, CallAny(t) \/ Step(t)
  PROVE  OwnersInv'
<1>0. TypeOK /\ OwnersInv /\ KindOf(t)
  BY DEF MultimapInv
<1> USE <1>0 DEF HoldingPCs, Goto
<1>1. CASE \E kind \in program.kinds, k \in program.keys : Call(t, kind, k)
  BY <1>1, OwnersStay DEF Call, TypeOK, entries
<1>2. CASE Enter(t)
  <2>1. FirstStep(t) \notin HoldingPCs
    BY DEF FirstStep
  <2> QED BY <1>2, <2>1, EnterMoves, OwnersStay DEF entries
<1>3. CASE Leave(t)
  BY <1>3, OwnersStay DEF Leave, TypeOK, entries
<1>4. CASE ReturnFailed(t)
  BY <1>4, OwnersStay DEF ReturnFailed, TypeOK, entries
<1>5. CASE Works(t)
  <2>0. op' = op /\ \A u \in Threads \ {t} : pc'[u] = pc[u] /\ pos'[u] = pos[u]
    BY <1>5, WorkMoves
  <2> USE <2>0 DEF SetOutcome, ReturnWith, SetState
  <2>1. CASE Claim(t)
    <3>1. CASE state[pos[t]] = "EMPTY"
      <4>1. HeldAs(t) = "PENDING_INSERT"
        BY <2>1 DEF Claim, KindOf, HeldAs, Is, ApplyKinds
      <4> QED BY <2>1, <3>1, <4>1, OwnersTake DEF Claim, TypeOK
    <3>2. CASE state[pos[t]] # "EMPTY"
      BY <2>1, <3>2, OwnersStay DEF Claim, TypeOK
    <3> QED BY <3>1, <3>2
  <2>2. CASE Fill(t)
    BY <2>2, OwnersStay DEF Fill, TypeOK
  <2>3. CASE CountKey(t)
    BY <2>3, OwnersStay DEF CountKey, TypeOK, entries
  <2>4. CASE Unlock(t)
    BY <2>4, OwnersGive DEF Unlock, TypeOK
  <2>5. CASE Grow(t)
    <3>1. pc[t] \notin HoldingPCs /\ pc'[t] \notin HoldingPCs
      BY <2>5, GrowMoves DEF MultimapInv
    <3> QED BY <2>5, <3>1, OwnersStay DEF Grow, entries
  <2>6. CASE AwaitEntry(t)
    BY <2>6, OwnersStay DEF AwaitEntry, TypeOK, entries
  <2>7. CASE Compare(t)
    BY <2>7, OwnersStay DEF Compare, NextEntry, TypeOK, entries
  <2>8. CASE Scan(t)
    BY <2>8, OwnersStay DEF Scan, TypeOK, entries
  <2>9. CASE Probe(t)
    BY <2>9, OwnersStay DEF Probe, NextEntry, TypeOK, entries
  <2>10. CASE Hop(t)
    BY <2>10, OwnersStay DEF Hop, EnterNextBucket, TypeOK, entries
  <2>11. CASE LockEntry(t)
    <3>1. state' = [state EXCEPT ![pos[t]] = HeldAs(t)] /\ state[pos[t]] = "USED"
      BY <2>11 DEF LockEntry, HeldAs
    <3> QED BY <2>11, <3>1, OwnersTake DEF LockEntry, TypeOK
  <2>12. CASE TryFails(t)
    BY <2>12, OwnersStay DEF TryFails, TypeOK, entries
  <2>13. CASE Work(t)
    BY <2>13, OwnersStay DEF Work, TypeOK
  <2>14. CASE EraseKey(t)
    <3>1. pc[t] = "erase" /\ pc'[t] = "leave"
      BY <2>14 DEF EraseKey, TypeOK
    <3>2. Pending = {} /\ \A u \in Threads : pc'[u] \notin HoldingPCs
      BY <3>1, InvIsAlone DEF EraseAlone
    <3>3. Pending' = {}
      <4>1. CASE UNCHANGED <<entries, numberKeys>>
        BY <3>2, <4>1 DEF Pending, entries
      <4>2. CASE ~UNCHANGED <<entries, numberKeys>>
        <5>1. PICK l \in Slots : state' = [state EXCEPT ![l] = "EMPTY"]
          BY <2>14, <4>2, EraseEffect, Zenon
        <5> QED BY <5>1, <3>2 DEF Pending, TypeOK
      <4> QED BY <4>1, <4>2
    <3> QED BY <3>2, <3>3 DEF OwnersInv
  <2> QED BY <1>5, <2>1, <2>2, <2>3, <2>4, <2>5, <2>6, <2>7, <2>8, <2>9, <2>10, 
             <2>11, <2>12, <2>13, <2>14 DEF Works
<1> QED BY <1>1, <1>2, <1>3, <1>4, <1>5, StepKinds

-----------------------------------------------------------------------------
(* The way of a search, and the packing of the buckets.                    *)

\* an entry becomes EMPTY by Erase only
LEMMA TakenStay == 
  ASSUME MultimapInv, NEW t \in Threads, CallAny(t) \/ Step(t), pc[t] # "erase"
  PROVE  \A s \in Slots : state[s] # "EMPTY" => state'[s] # "EMPTY"
<1>0. TypeOK
  BY DEF MultimapInv
<1> USE <1>0 DEF TypeOK, entries, SetState
<1>1. CASE Works(t)
  BY <1>1 DEF Works, Claim, Fill, CountKey, Unlock, Grow, AwaitEntry, Compare, 
     Scan, Probe, Hop, LockEntry, TryFails, Work, EraseKey
<1>2. CASE ~Works(t)
  BY <1>2, StepKinds DEF Call, Enter, Leave, ReturnFailed
<1> QED BY <1>1, <1>2

LEMMA StepPacked == 
  ASSUME MultimapInv, NEW t \in Threads, CallAny(t) \/ Step(t)
  PROVE  BucketsPacked'
<1>0. TypeOK /\ BucketsPacked /\ OnTheWay(t) /\ pos[t] \in Slots
  BY DEF MultimapInv, TypeOK
<1>1. CASE EraseKey(t)
  <2>1. CASE UNCHANGED <<entries, numberKeys>>
    BY <2>1, <1>0 DEF BucketsPacked, entries
  <2>2. CASE ~UNCHANGED <<entries, numberKeys>>
    <3>1. PICK l \in Slots : 
            /\ state' = [state EXCEPT ![l] = "EMPTY"]
            /\ \A q \in Slots : q[1] = l[1] /\ Before(l, q) => state[q] = "EMPTY"
      BY <1>1, <2>2, EraseEffect, Zenon
    <3> QED BY <3>1, <1>0 DEF BucketsPacked, TypeOK
  <2> QED BY <2>1, <2>2
<1>2. CASE Claim(t) /\ state[pos[t]] = "EMPTY"
  <2>1. /\ state' = [state EXCEPT ![pos[t]] = "PENDING_INSERT"] 
        /\ \A p \in Slots : p[1] = pos[t][1] /\ Before(p, pos[t]) 
                               => state[p] # "EMPTY"
    BY <1>2, <1>0 DEF Claim, SetState, OnTheWay
  <2> QED BY <2>1, <1>0 DEF BucketsPacked, TypeOK
<1>3. CASE ~EraseKey(t) /\ ~(Claim(t) /\ state[pos[t]] = "EMPTY")
  <2>1. \A s \in Slots : state'[s] = "EMPTY" <=> state[s] = "EMPTY"
    <3> USE <1>0 DEF TypeOK, entries, SetState
    <3>1. CASE Unlock(t)
      <4>1. state[pos[t]] # "EMPTY"
        BY <3>1 DEF Unlock, MultimapInv, OwnersInv, HoldingPCs, HeldAs
      <4> QED BY <3>1, <4>1 DEF Unlock
    <3>2. CASE Works(t) /\ ~Unlock(t)
      BY <1>3, <3>2 DEF Works, Claim, Fill, CountKey, Grow, AwaitEntry, Compare, 
         Scan, Probe, Hop, LockEntry, TryFails, Work
    <3>3. CASE ~Works(t)
      BY <3>3, StepKinds DEF Call, Enter, Leave, ReturnFailed
    <3> QED BY <3>1, <3>2, <3>3
  <2> QED BY <2>1, <1>0 DEF BucketsPacked
<1> QED BY <1>1, <1>2, <1>3

LEMMA StepOnTheWay == 
  ASSUME MultimapInv, NEW t \in Threads, CallAny(t) \/ Step(t)
  PROVE  ChainInv' /\ \A u \in Threads : OnTheWay(u)'
<1>0. /\ TypeOK /\ ChainInv /\ OnTheWay(t) /\ KindOf(t)
      /\ pos[t] \in Slots /\ pos[t][1] \in Buckets
  BY SlotParts DEF MultimapInv, TypeOK
<1>1. \A u \in Threads \ {t} : pc'[u] = pc[u] /\ pos'[u] = pos[u]
  <2>1. CASE Works(t)
    BY <2>1, <1>0, WorkMoves
  <2>2. CASE ~Works(t)
    BY <2>2, <1>0, StepKinds DEF Call, Enter, Leave, ReturnFailed, TypeOK, Goto
  <2> QED BY <2>1, <2>2
<1>2. ASSUME NEW u \in Threads \ {t} PROVE OnTheWay(u)'
  <2>1. OnTheWay(u) /\ pos[u] \in Slots
    BY DEF MultimapInv, TypeOK
  <2>2. CASE pc[t] = "erase"
    <3>1. pc[u] \in {"idle", "enter"}
      BY <2>2, InvIsAlone DEF EraseAlone
    <3> QED BY <1>1, <2>1, <3>1 DEF OnTheWay
  <2>3. CASE pc[t] # "erase"
    <3>1. \A s \in Slots : state[s] # "EMPTY" => state'[s] # "EMPTY"
      BY <2>3, TakenStay
    <3> QED BY <1>1, <2>1, <3>1 DEF OnTheWay
  <2> QED BY <2>2, <2>3
<1>3. ChainInv' /\ OnTheWay(t)'
  <2> USE <1>0 DEF Goto
  <2>1. CASE \E kind \in program.kinds, k \in program.keys : Call(t, kind, k)
    BY <2>1 DEF Call, TypeOK, OnTheWay, ChainInv, chain
  <2>2. CASE Enter(t)
    <3>1. /\ pc[t] = "enter" /\ pos' = pos /\ next' = next /\ state' = state
          /\ pc'[t] \in {"enter", FirstStep(t)} /\ pos[t] = FirstSlot
      BY <2>2, EnterMoves DEF chain, entries, OnTheWay
    <3>2. FirstStep(t) \in {"claim", "erase", "scan"}
      BY DEF FirstStep
    <3> QED BY <3>1, <3>2, FirstSlotIsFirst DEF OnTheWay, ChainInv
  <2>3. CASE Leave(t)
    BY <2>3 DEF Leave, TypeOK, OnTheWay, ChainInv, chain
  <2>4. CASE ReturnFailed(t)
    BY <2>4 DEF ReturnFailed, TypeOK, OnTheWay, ChainInv, chain
  <2>5. CASE Grow(t)
    <3>1. /\ pos[t][1] + 1 \in Buckets
          /\ \/ pc'[t] = "claim" /\ pos'[t] = <<pos[t][1] + 1, 0>>
             \/ pc'[t] \in {"link", "waitnext"} /\ pos'[t] = pos[t]
          /\ \A b \in Buckets : next'[b] => next[b] \/ b = pos[t][1]
          /\ \A p \in Slots : ~(p[1] = pos[t][1] + 1 
                                 /\ Before(p, <<pos[t][1] + 1, 0>>))
      BY <2>5, GrowMoves, NextBucketStart
    <3>2. OnTheWay(t)'
      BY <3>1 DEF OnTheWay
    <3> QED BY <3>1, <3>2 DEF ChainInv
  <2>6. CASE Compare(t) \/ Probe(t)
    <3>1. state' = state /\ next' = next /\ pc[t] \in {"compare", "probe"}
      BY <2>6 DEF Compare, Probe, entries, chain
    <3>2. CASE pc'[t] = "lock"
      BY <3>1, <3>2 DEF OnTheWay, ChainInv
    <3>3. CASE pc'[t] # "lock"
      <4>1. \E again \in {"claim", "scan"}, out \in {"grow", "hop"} : 
              NextEntry(t, again, out)
        BY <2>6, <3>3 DEF Compare, Probe, TypeOK
      <4>2. \/ ~LastInBucket(pos[t]) /\ pc'[t] \in {"claim", "scan"} 
               /\ pos'[t] = <<pos[t][1], pos[t][2] + 1>>
            \/ pc'[t] \in {"grow", "hop"} 
        <5>1. PICK again \in {"claim", "scan"}, out \in {"grow", "hop"} : 
                NextEntry(t, again, out)
          BY <4>1
        <5>2. again \in PCs /\ out \in PCs
          BY DEF PCs
        <5>3. \/ LastInBucket(pos[t]) /\ pc'[t] = out
              \/ /\ ~LastInBucket(pos[t]) /\ pc'[t] = again
                 /\ pos'[t] = <<pos[t][1], pos[t][2] + 1>>
          BY <5>1, <5>2, NextEntryMoves
        <5> QED BY <5>3
      <4>3. CASE pc'[t] \in {"grow", "hop"}
        BY <3>1, <4>3 DEF OnTheWay, ChainInv
      <4>4. CASE pc'[t] \in {"claim", "scan"}
        <5>1. /\ pos'[t][1] = pos[t][1]
              /\ \A p \in Slots : Before(p, pos'[t]) <=> p = pos[t] \/ Before(p, pos[t])
          BY <4>2, <4>4, NextInBucket
        <5>2. \A p \in Slots : p[1] = pos[t][1] /\ Before(p, pos[t]) 
                                 => state[p] # "EMPTY"
          BY <3>1 DEF OnTheWay
        <5>3. state[pos[t]] # "EMPTY"
          BY <3>1 DEF OnTheWay
        <5> QED BY <3>1, <4>4, <5>1, <5>2, <5>3 DEF OnTheWay, ChainInv
      <4> QED BY <4>2, <4>3, <4>4
    <3> QED BY <3>2, <3>3
  <2>7. CASE Hop(t)
    <3>1. state' = state /\ next' = next
      BY <2>7 DEF Hop, entries, chain
    <3>2. CASE next[pos[t][1]]
      <4>1. pos[t][1] + 1 \in Buckets
        BY <3>2 DEF ChainInv
      <4>2. pc'[t] = "scan" /\ pos'[t] = <<pos[t][1] + 1, 0>>
        BY <2>7, <3>2, <4>1, EnterBucketMoves DEF Hop, PCs
      <4>3. \A p \in Slots : ~(p[1] = pos[t][1] + 1 
                               /\ Before(p, <<pos[t][1] + 1, 0>>))
        BY <4>1, NextBucketStart
      <4> QED BY <3>1, <4>2, <4>3 DEF OnTheWay, ChainInv
    <3>3. CASE ~next[pos[t][1]]
      BY <2>7, <3>1, <3>3 DEF Hop, ReturnWith, TypeOK, OnTheWay, ChainInv
    <3> QED BY <3>2, <3>3
  <2>8. CASE Claim(t)
    <3>1. \A s \in Slots : state[s] # "EMPTY" => state'[s] # "EMPTY"
      BY <2>8, TakenStay DEF Claim
    <3> QED BY <2>8, <3>1 DEF Claim, TypeOK, OnTheWay, ChainInv, chain
  <2>9. CASE Fill(t) \/ CountKey(t) \/ Unlock(t) \/ LockEntry(t) 
             \/ TryFails(t) \/ Work(t) \/ EraseKey(t)
    <3>1. pc'[t] \in {"count", "publish", "leave", "work", "failed", "unlock"} 
          /\ next' = next
      BY <2>9 DEF Fill, CountKey, Unlock, LockEntry, TryFails, Work, EraseKey, 
                  ReturnWith, TypeOK, chain
    <3> QED BY <3>1 DEF OnTheWay, ChainInv
  <2>10. CASE AwaitEntry(t)
    BY <2>10 DEF AwaitEntry, TypeOK, OnTheWay, ChainInv, chain, entries
  <2>11. CASE Scan(t)
    BY <2>11 DEF Scan, ReturnWith, TypeOK, OnTheWay, ChainInv, chain, entries
  <2> QED BY <2>1, <2>2, <2>3, <2>4, <2>5, <2>6, <2>7, <2>8, <2>9, <2>10, <2>11,
             StepKinds DEF Works
<1> QED BY <1>2, <1>3

-----------------------------------------------------------------------------
(* The initial states.                                                     *)

LEMMA SlotsAreFinite == IsFiniteSet(Slots)
<1>1. IsFiniteSet(0..(MaxBuckets - 1)) /\ IsFiniteSet(0..(BucketSize - 1))
  BY FS_Interval, MaxBucketsAssumption, BucketSizeAssumption
<1> QED BY <1>1, FS_Product DEF Slots, Buckets

LEMMA InitEstablishes == Init => MultimapInv
<1> SUFFICES ASSUME Init PROVE MultimapInv
  OBVIOUS
<1>1. PICK P \in SUBSET Slots : ListInit(P) /\ numberKeys = Cardinality(P)
  BY DEF Init
<1>2. IsFiniteSet(P) /\ Cardinality(P) \in Nat
  BY SlotsAreFinite, FS_Subset, FS_CardinalityType
<1>3. /\ state = [s \in Slots |-> IF s \in P THEN "USED" ELSE "EMPTY"]
      /\ \A p, q \in Slots : Before(p, q) /\ q \in P => p \in P
      /\ next = [b \in Buckets |-> \E s \in P : s[1] = b + 1]
      /\ allocated = [b \in Buckets |-> \E s \in P : s[1] = b + 1]
      /\ pc = [t \in Threads |-> "idle"]
      /\ pos = [t \in Threads |-> FirstSlot]
      /\ key \in [Slots -> Keys \cup {NoKey}]
  BY <1>1 DEF ListInit
<1>4. /\ program \in Programs
      /\ val = [s \in Slots |-> {}] 
      /\ op = [t \in Threads |-> [kind |-> "Lookup", key |-> NoKey]]
      /\ read = [t \in Threads |-> {}] /\ res = [t \in Threads |-> "none"]
      /\ nops = [t \in Threads |-> 0]
  BY DEF Init
<1>5. /\ inserters = 0 /\ deleters = 0
      /\ gate = [t \in Threads |-> "out"] /\ seen = [t \in Threads |-> 0]
  BY DEF Init, Gate!GateInit
<1>6. TypeOK
  BY <1>1, <1>2, <1>3, <1>4, <1>5, FirstSlotIsFirst, MaxOpsAssumption 
     DEF TypeOK, Gate!GateTypeOK, Gate!GatePoints, PCs, EntryStates, Outcomes, 
         AllKinds, LookupKinds
<1>7. CountersInv
  <2>1. Gate!Inside = {} /\ Gate!Deleting = {} /\ Gate!Counted = {}
    BY <1>5 DEF Gate!Inside, Gate!Deleting, Gate!Counted
  <2> QED BY <2>1, <1>5, FS_EmptySet DEF CountersInv
<1>8. OwnersInv
  BY <1>3 DEF OwnersInv, HoldingPCs, Pending
<1>9. ChainInv
  BY <1>3, SlotParts DEF ChainInv
<1>10. \A t \in Threads : GateOf(t) /\ KindOf(t) /\ OnTheWay(t)
  BY <1>3, <1>5, FirstSlotIsFirst, GateConstants 
     DEF GateOf, KindOf, OnTheWay, InsidePCs
<1>11. BucketsPacked
  BY <1>3 DEF BucketsPacked
<1>12. NumberKeysExact
  <2>1. Taken = P /\ Counting = {}
    BY <1>3 DEF Taken, Counting
  <2>2. numberKeys = Cardinality(Taken) - Cardinality(Counting)
    BY <1>1, <1>2, <2>1, FS_EmptySet
  <2> QED BY <2>2, CountIs
<1> QED BY <1>6, <1>7, <1>8, <1>9, <1>10, <1>11, <1>12 DEF MultimapInv

LEMMA StutterKeeps == MultimapInv /\ UNCHANGED vars => MultimapInv'
<1> SUFFICES ASSUME MultimapInv, UNCHANGED vars PROVE MultimapInv'
  OBVIOUS
<1> USE DEF vars, entries, chain, gateVars
<1>1. TypeOK'
  BY DEF MultimapInv, TypeOK, Gate!GateTypeOK
<1>2. CountersInv'
  BY DEF MultimapInv, CountersInv, Gate!Inside, Gate!Deleting, Gate!Counted
<1>3. OwnersInv' /\ ChainInv'
  BY DEF MultimapInv, OwnersInv, ChainInv, Holds, HeldAs, Is, Pending
<1>4. \A t \in Threads : GateOf(t)' /\ KindOf(t)' /\ OnTheWay(t)'
  BY DEF MultimapInv, GateOf, KindOf, OnTheWay, Is
<1>5. BucketsPacked' /\ NumberKeysExact'
  BY DEF MultimapInv, BucketsPacked, NumberKeysExact
<1> QED BY <1>1, <1>2, <1>3, <1>4, <1>5 DEF MultimapInv

LEMMA NextKeeps == MultimapInv /\ [Next]_vars => MultimapInv'
<1> SUFFICES ASSUME MultimapInv, Next PROVE MultimapInv'
  BY StutterKeeps
<1>1. CASE Terminating
  BY <1>1, StutterKeeps DEF Terminating
<1>2. CASE \E t \in Threads : CallAny(t) \/ Step(t)
  <2>1. PICK t \in Threads : CallAny(t) \/ Step(t)
    BY <1>2
  <2>2. TypeOK /\ CountersInv /\ \A u \in Threads : GateOf(u) /\ KindOf(u)
    BY DEF MultimapInv
  <2>3. CountersInv' /\ \A u \in Threads : GateOf(u)' /\ KindOf(u)'
    BY <2>1, <2>2, StepGate, StepKindOf
  <2>4. TypeOK' /\ OwnersInv' /\ NumberKeysExact' /\ BucketsPacked'
    BY <2>1, StepType, StepOwners, StepCounts, StepPacked
  <2>5. ChainInv' /\ \A u \in Threads : OnTheWay(u)'
    BY <2>1, StepOnTheWay
  <2> QED BY <2>3, <2>4, <2>5 DEF MultimapInv
<1> QED BY <1>1, <1>2 DEF Next

-----------------------------------------------------------------------------
(* In every reachable state the gate, the entries' states and the places   *)
(* of the tasks agree: a task past the gate is where the gate says it is,  *)
(* an entry that is locked or being inserted has one task that holds it,   *)
(* and a search stands behind entries that are all taken.                  *)
THEOREM MultimapInvariant == Spec => []MultimapInv
BY InitEstablishes, NextKeeps, PTL DEF Spec

(* While Erase moves entries about no entry is locked or being inserted    *)
(* and no other task is past the gate, even though a TryBlockingApply that *)
(* fails leaves its count in inserter_array_ for ever.                     *)
THEOREM EraseWorksAlone == Spec => []EraseAlone
BY MultimapInvariant, InvIsAlone, PTL

(* The taken entries of a bucket are its first ones, whatever inserts and  *)
(* erasures have come and gone.                                            *)
THEOREM BucketsStayPacked == Spec => []BucketsPacked
<1>1. MultimapInv => BucketsPacked
  BY DEF MultimapInv
<1> QED BY <1>1, MultimapInvariant, PTL

(* numberKeys_ is the number of taken entries less those whose insertion   *)
(* has not reached numberKeys_ += 1.                                       *)
THEOREM NumberKeysIsExact == Spec => []NumberKeysExact
<1>1. MultimapInv => NumberKeysExact
  BY DEF MultimapInv
<1> QED BY <1>1, MultimapInvariant, PTL

-----------------------------------------------------------------------------
(* A key has one entry, where erasures do not outgrow the first bucket.    *)

\* a full bucket holds BucketSize keys, and none is left
LEMMA Pigeonhole == 
  ASSUME NEW K, IsFiniteSet(K), Cardinality(K) <= BucketSize, NEW k \in K, 
         NEW f \in [0..(BucketSize - 1) -> K \ {k}],
         \A i, j \in 0..(BucketSize - 1) : f[i] = f[j] => i = j
  PROVE  FALSE
<1>1. /\ IsFiniteSet(K \ {k}) /\ Cardinality(K \ {k}) = Cardinality(K) - 1
      /\ Cardinality(K) \in Nat
  BY FS_RemoveElement, FS_CardinalityType
<1>2. Cardinality(0..(BucketSize - 1)) = BucketSize
  BY FS_Interval, BucketSizeAssumption
<1>3. f \in Injection(0..(BucketSize - 1), K \ {k})
  BY DEF Injection, IsInjective
<1>4. Cardinality(0..(BucketSize - 1)) <= Cardinality(K \ {k})
  BY <1>1, <1>3, FS_Injection
<1> QED BY <1>1, <1>2, <1>4, BucketSizeAssumption

\* an operation whose key is missing from a full first bucket does not exist
LEMMA FirstBucketSuffices == 
  ASSUME Roomy(program), "Erase" \in program.kinds, UniqueKeys, 
         NEW k \in program.keys \cup program.first,
         \A s \in Slots : Filled(s) => key[s] \in program.keys \cup program.first,
         \A s \in Slots : s[1] = 0 => Filled(s) /\ key[s] # k
  PROVE  FALSE
<1> DEFINE K == program.keys \cup program.first
           f == [i \in 0..(BucketSize - 1) |-> key[<<0, i>>]]
<1>1. IsFiniteSet(K) /\ Cardinality(K) <= BucketSize
  BY DEF Roomy
<1>2. \A i \in 0..(BucketSize - 1) : <<0, i>> \in Slots /\ <<0, i>>[1] = 0
  BY MaxBucketsAssumption DEF Slots, Buckets
<1>3. \A i \in 0..(BucketSize - 1) : 
        Filled(<<0, i>>) /\ key[<<0, i>>] \in K \ {k}
  BY <1>2
<1>4. f \in [0..(BucketSize - 1) -> K \ {k}]
  BY <1>3
<1>5. \A i, j \in 0..(BucketSize - 1) : f[i] = f[j] => i = j
  <2>1. ASSUME NEW i \in 0..(BucketSize - 1), NEW j \in 0..(BucketSize - 1), 
               key[<<0, i>>] = key[<<0, j>>]
        PROVE  i = j
    <3>1. <<0, i>> = <<0, j>>
      BY <1>2, <1>3, <2>1 DEF UniqueKeys
    <3> QED BY <3>1
  <2> QED BY <2>1
<1> HIDE DEF K, f
<1>6. k \in K
  BY DEF K
<1> QED BY <1>1, <1>4, <1>5, <1>6, Pigeonhole

\* what a step other than Erase does to the entries
LEMMA FilledMoves == 
  ASSUME MultimapInv, NEW t \in Threads, CallAny(t) \/ Step(t), pc[t] # "erase"
  PROVE  /\ \A s \in Slots : 
              /\ Filled(s)' <=> Filled(s) \/ (pc[t] = "fill" /\ s = pos[t])
              /\ key'[s] = IF pc[t] = "fill" /\ s = pos[t] THEN MyKey(t) ELSE key[s]
              /\ state'[s] # "EMPTY" 
                   => state[s] # "EMPTY" \/ (pc[t] = "claim" /\ s = pos[t])
         /\ pc[t] = "fill" => ~Filled(pos[t])
<1>0. TypeOK /\ OwnersInv /\ pos[t] \in Slots
  BY DEF MultimapInv, TypeOK
<1>1. \A u \in Threads \ {t} : pc'[u] = pc[u] /\ pos'[u] = pos[u]
  <2>1. CASE Works(t)
    BY <2>1, <1>0, WorkMoves
  <2>2. CASE ~Works(t)
    BY <2>2, <1>0, StepKinds DEF Call, Enter, Leave, ReturnFailed, TypeOK, Goto
  <2> QED BY <2>1, <2>2
<1>2. CASE pc[t] = "fill"
  <2>1. Fill(t)
    BY <1>2 DEF CallAny, Call, Step, Enter, Leave, Claim, Fill, CountKey, Unlock, 
       Grow, GrowList, LinkBucket, AwaitBucket, AwaitEntry, Compare, Scan, Probe, 
       Hop, LockEntry, TryFails, ReturnFailed, Work, EraseKey
  <2>2. /\ state' = state /\ pc'[t] = "count" /\ pos' = pos
        /\ key' = [key EXCEPT ![pos[t]] = MyKey(t)]
    BY <2>1, <1>0 DEF Fill, Goto, TypeOK
  <2>3. \A u \in Threads : pc[u] = "fill" /\ pos[u] = pos[t] => u = t
    BY <1>0, <1>2 DEF OwnersInv, HoldingPCs
  <2>4. state[pos[t]] # "EMPTY"
    BY <1>0, <1>2 DEF OwnersInv, HoldingPCs, HeldAs
  <2>5. \A s \in Slots : 
          key'[s] = IF pc[t] = "fill" /\ s = pos[t] THEN MyKey(t) ELSE key[s]
    BY <2>2, <1>0, <1>2 DEF TypeOK
  <2>6. \A s \in Slots : Filled(s)' <=> Filled(s) \/ s = pos[t]
    BY <2>2, <2>3, <2>4, <1>1, <1>2 DEF Filled
  <2> QED BY <2>2, <2>5, <2>6, <1>2 DEF Filled
<1>3. CASE pc[t] # "fill"
  <2>1. key' = key
    <3>1. CASE Works(t)
      BY <3>1, <1>3 DEF Works, Claim, Fill, CountKey, Unlock, Grow, AwaitEntry, 
         Compare, Scan, Probe, Hop, LockEntry, TryFails, Work, EraseKey, entries
    <3>2. CASE ~Works(t)
      BY <3>2, StepKinds DEF Call, Enter, Leave, ReturnFailed, entries
    <3> QED BY <3>1, <3>2
  <2>2. CASE Claim(t) /\ state[pos[t]] = "EMPTY"
    <3>1. /\ state' = [state EXCEPT ![pos[t]] = "PENDING_INSERT"] /\ pos' = pos
          /\ pc'[t] = "fill" /\ pc[t] = "claim"
      BY <2>2, <1>0 DEF Claim, SetState, Goto, TypeOK
    <3>2. \A s \in Slots : 
            state'[s] = IF s = pos[t] THEN "PENDING_INSERT" ELSE state[s]
      BY <3>1, <1>0 DEF TypeOK
    <3>3. \A s \in Slots : Filled(s)' <=> Filled(s)
      BY <2>2, <3>1, <3>2, <1>1 DEF Filled
    <3> QED BY <2>1, <3>1, <3>2, <3>3
  <2>3. CASE ~(Claim(t) /\ state[pos[t]] = "EMPTY")
    <3>1. \A s \in Slots : state'[s] = "EMPTY" <=> state[s] = "EMPTY"
      <4> USE <1>0 DEF TypeOK, entries, SetState
      <4>1. CASE Unlock(t)
        <5>1. state[pos[t]] # "EMPTY"
          BY <4>1 DEF Unlock, OwnersInv, HoldingPCs, HeldAs
        <5> QED BY <4>1, <5>1 DEF Unlock
      <4>2. CASE Works(t) /\ ~Unlock(t)
        BY <2>3, <4>2 DEF Works, Claim, Fill, CountKey, Grow, AwaitEntry, Compare, 
           Scan, Probe, Hop, LockEntry, TryFails, Work, EraseKey
      <4>3. CASE ~Works(t)
        BY <4>3, StepKinds DEF Call, Enter, Leave, ReturnFailed
      <4> QED BY <4>1, <4>2, <4>3
    <3>2. pc'[t] # "fill"
      <4>1. CASE Works(t)
        <5>1. CASE Claim(t)
          BY <2>3, <5>1, <1>0 DEF Claim, Goto, TypeOK
        <5>2. CASE Grow(t)
          BY <5>2, <1>0, GrowMoves DEF MultimapInv
        <5>3. CASE ~Claim(t) /\ ~Grow(t)
          BY <4>1, <5>3, <1>0 DEF Works, Fill, CountKey, Unlock, AwaitEntry, Compare, 
             Scan, Probe, Hop, LockEntry, TryFails, Work, EraseKey, ReturnWith, 
             Goto, NextEntry, EnterNextBucket, TypeOK
        <5> QED BY <5>1, <5>2, <5>3
      <4>2. CASE ~Works(t)
        BY <4>2, <1>0, StepKinds DEF Call, Enter, FirstStep, Leave, ReturnFailed, 
           Goto, TypeOK
      <4> QED BY <4>1, <4>2
    <3>3. \A s \in Slots : Filled(s)' <=> Filled(s)
      BY <3>1, <3>2, <1>1, <1>3 DEF Filled
    <3> QED BY <2>1, <3>1, <3>3, <1>3
  <2> QED BY <2>2, <2>3
<1> QED BY <1>2, <1>3

LEMMA KeysInit == Init /\ (\A p \in Programs : Roomy(p)) => KeysInv
<1> SUFFICES ASSUME Init, \A p \in Programs : Roomy(p) PROVE KeysInv
  OBVIOUS
<1>1. PICK P \in SUBSET Slots : ListInit(P)
  BY DEF Init
<1>2. PICK f \in [P -> Keys] : 
        /\ \A p, q \in P : f[p] = f[q] => p = q
        /\ key = [s \in Slots |-> IF s \in P THEN f[s] ELSE NoKey]
  BY <1>1 DEF ListInit
<1>3. /\ state = [s \in Slots |-> IF s \in P THEN "USED" ELSE "EMPTY"]
      /\ \A p, q \in Slots : Before(p, q) /\ q \in P => p \in P
      /\ pc = [t \in Threads |-> "idle"]
  BY <1>1 DEF ListInit
<1>4. \A s \in Slots : (Filled(s) <=> s \in P) /\ (state[s] # "EMPTY" <=> s \in P)
  BY <1>3 DEF Filled
<1>5. Roomy(program)
  BY DEF Init
<1>6. UniqueKeys /\ FilledInOrder
  BY <1>2, <1>3, <1>4 DEF UniqueKeys, FilledInOrder
<1>7. \A s \in P : key[s] \in program.first
  <2>1. \A s \in Slots : key[s] \in program.first \cup {NoKey}
    BY DEF Init
  <2> QED BY <2>1, <1>2, NoKeyAssumption
<1>8. ASSUME "Erase" \in program.kinds, NEW s \in Slots, state[s] # "EMPTY", 
             s[1] # 0
      PROVE  FALSE
  <2>1. s \in P /\ key[s] \in program.keys \cup program.first
    BY <1>4, <1>7, <1>8
  <2>2. \A p \in Slots : Filled(p) => key[p] \in program.keys \cup program.first
    BY <1>4, <1>7
  <2>3. ASSUME NEW p \in Slots, p[1] = 0 PROVE Filled(p) /\ key[p] # key[s]
    <3>1. Before(p, s) 
      BY <1>8, <2>3, SlotParts DEF Before
    <3>2. p \in P /\ p # s
      BY <1>3, <1>8, <2>1, <2>3, <3>1
    <3> QED BY <3>2, <2>1, <1>2, <1>4
  <2> QED BY <2>1, <2>2, <2>3, <1>5, <1>6, <1>8, FirstBucketSuffices
<1>9. \A t \in Threads : Seen(t)
  BY <1>3 DEF Seen
<1> QED BY <1>4, <1>5, <1>6, <1>7, <1>8, <1>9 DEF KeysInv

\* the entries after a step other than Erase
LEMMA EntriesKeep == 
  ASSUME MultimapInv, KeysInv, NEW t \in Threads, CallAny(t) \/ Step(t), 
         pc[t] # "erase", program' = program
  PROVE  /\ UniqueKeys' /\ FilledInOrder'
         /\ \A s \in Slots : 
              Filled(s)' => key'[s] \in program.keys \cup program.first
         /\ "Erase" \in program.kinds => 
              \A s \in Slots : state'[s] # "EMPTY" => s[1] = 0
<1>0. /\ UniqueKeys /\ FilledInOrder /\ Seen(t) /\ KindOf(t) /\ Roomy(program)
      /\ pos[t] \in Slots
  BY DEF KeysInv, MultimapInv, TypeOK
<1>1. /\ \A s \in Slots : 
           /\ Filled(s)' <=> Filled(s) \/ (pc[t] = "fill" /\ s = pos[t])
           /\ key'[s] = IF pc[t] = "fill" /\ s = pos[t] THEN MyKey(t) ELSE key[s]
           /\ state'[s] # "EMPTY" 
                => state[s] # "EMPTY" \/ (pc[t] = "claim" /\ s = pos[t])
      /\ pc[t] = "fill" => ~Filled(pos[t])
  BY FilledMoves
<1>2. \A s \in Slots : Filled(s) => key[s] \in program.keys \cup program.first
  BY DEF KeysInv
<1>3. pc[t] \in {"claim", "fill"} 
        => /\ MyKey(t) \in program.keys
           /\ \A p \in Slots : Before(p, pos[t]) => Filled(p) /\ key[p] # MyKey(t)
  BY <1>0 DEF Seen, KindOf
<1>4. UniqueKeys'
  <2>1. CASE pc[t] = "fill"
    <3>1. ASSUME NEW q \in Slots, Filled(q) PROVE key[q] # MyKey(t)
      <4>1. ~Before(pos[t], q)
        BY <1>0, <1>1, <2>1, <3>1 DEF FilledInOrder, Filled
      <4>2. q # pos[t]
        BY <1>1, <2>1, <3>1
      <4>3. Before(q, pos[t])
        BY <4>1, <4>2, <1>0, BeforeIsTotal
      <4> QED BY <4>3, <1>3, <2>1
    <3>2. ASSUME NEW p \in Slots, NEW q \in Slots, Filled(p)', Filled(q)', 
                 key'[p] = key'[q]
          PROVE  p = q
      BY <1>0, <1>1, <2>1, <3>1, <3>2 DEF UniqueKeys
    <3> QED BY <3>2 DEF UniqueKeys
  <2>2. CASE pc[t] # "fill"
    <3>1. ASSUME NEW p \in Slots, NEW q \in Slots, Filled(p)', Filled(q)', 
                 key'[p] = key'[q]
          PROVE  p = q
      BY <1>0, <1>1, <2>2, <3>1 DEF UniqueKeys
    <3> QED BY <3>1 DEF UniqueKeys
  <2> QED BY <2>1, <2>2
<1>5. FilledInOrder'
  <2>1. ASSUME NEW p \in Slots, NEW q \in Slots, Before(p, q), state'[q] # "EMPTY"
        PROVE  Filled(p)'
    <3>1. CASE state[q] # "EMPTY"
      BY <1>0, <1>1, <2>1, <3>1 DEF FilledInOrder
    <3>2. CASE state[q] = "EMPTY"
      BY <1>1, <1>3, <2>1, <3>2
    <3> QED BY <3>1, <3>2
  <2> QED BY <2>1 DEF FilledInOrder
<1>6. \A s \in Slots : Filled(s)' => key'[s] \in program.keys \cup program.first
  BY <1>1, <1>2, <1>3
<1>7. ASSUME "Erase" \in program.kinds, NEW s \in Slots, state'[s] # "EMPTY", 
             s[1] # 0
      PROVE  FALSE
  <2>1. pc[t] = "claim" /\ s = pos[t]
    BY <1>1, <1>7 DEF KeysInv
  <2>2. \A p \in Slots : p[1] = 0 => Before(p, pos[t])
    BY <1>7, <2>1, SlotParts DEF Before
  <2>3. \A p \in Slots : p[1] = 0 => Filled(p) /\ key[p] # MyKey(t)
    BY <1>3, <2>1, <2>2
  <2>4. MyKey(t) \in program.keys \cup program.first
    BY <1>3, <2>1
  <2> HIDE DEF MyKey
  <2> QED BY <2>3, <2>4, <1>0, <1>2, <1>7, FirstBucketSuffices
<1> QED BY <1>4, <1>5, <1>6, <1>7

\* what another task has passed and found
LEMMA SeenStays == 
  ASSUME MultimapInv, KeysInv, NEW t \in Threads, CallAny(t) \/ Step(t), 
         pc[t] # "erase", program' = program, NEW u \in Threads \ {t},
         pc'[u] = pc[u], pos'[u] = pos[u], op'[u] = op[u]
  PROVE  Seen(u)'
<1>0. Seen(u) /\ pos[u] \in Slots /\ pos[t] \in Slots /\ OwnersInv
  BY DEF KeysInv, MultimapInv, TypeOK
<1>1. /\ \A s \in Slots : 
           /\ Filled(s)' <=> Filled(s) \/ (pc[t] = "fill" /\ s = pos[t])
           /\ key'[s] = IF pc[t] = "fill" /\ s = pos[t] THEN MyKey(t) ELSE key[s]
      /\ pc[t] = "fill" => ~Filled(pos[t])
  BY FilledMoves
<1>2. MyKey(u)' = MyKey(u) /\ (Is(u, {"Insert"})' <=> Is(u, {"Insert"}))
  BY DEF MyKey, Is
<1>3. \A s \in Slots : Filled(s) => Filled(s)' /\ key'[s] = key[s]
  BY <1>1
<1>4. pc[u] \in {"count", "publish"} => key'[pos[u]] = key[pos[u]]
  <2>1. pc[u] \in {"count", "publish"} /\ pc[t] = "fill" => pos[u] # pos[t]
    BY <1>0 DEF OwnersInv, HoldingPCs
  <2> QED BY <1>0, <1>1, <2>1
<1>5. pc[u] # "idle" => MyKey(u)' \in program.keys /\ op'[u].kind \in program.kinds
  BY <1>0, <1>2 DEF Seen
<1>6. pc[u] \in {"compare", "probe", "lock", "grow", "link", "waitnext", "work", 
                 "unlock"}
       => Filled(pos[u]) /\ Filled(pos[u])' /\ key'[pos[u]] = key[pos[u]]
  <2>1. ASSUME NEW s \in Slots, s = pos[u], pc[u] \in {"compare", "probe", "lock", 
               "grow", "link", "waitnext", "work", "unlock"}
        PROVE  Filled(pos[u]) /\ Filled(s)' /\ key'[s] = key[s] /\ s = pos'[u]
    BY <1>0, <1>3, <2>1 DEF Seen
  <2> QED BY <2>1, <1>0
<1> QED BY <1>0, <1>2, <1>3, <1>4, <1>5, <1>6 DEF Seen

\* what the task that moves has passed and found
LEMMA SeenMoves == 
  ASSUME MultimapInv, KeysInv, NEW t \in Threads, CallAny(t) \/ Step(t), 
         pc[t] # "erase", program' = program
  PROVE  Seen(t)'
<1>0. /\ Seen(t) /\ KindOf(t) /\ OnTheWay(t) /\ TypeOK /\ OwnersInv /\ ChainInv
      /\ pos[t] \in Slots
  BY DEF KeysInv, MultimapInv, TypeOK
<1>1. /\ \A s \in Slots : 
           /\ Filled(s)' <=> Filled(s) \/ (pc[t] = "fill" /\ s = pos[t])
           /\ key'[s] = IF pc[t] = "fill" /\ s = pos[t] THEN MyKey(t) ELSE key[s]
      /\ pc[t] = "fill" => ~Filled(pos[t])
  BY FilledMoves
<1>2. \A s \in Slots : Filled(s) => Filled(s)' /\ key'[s] = key[s]
  BY <1>1
<1>3. CASE \E kind \in program.kinds, k \in program.keys : Call(t, kind, k)
  <2>1. PICK kind \in program.kinds, k \in program.keys : Call(t, kind, k)
    BY <1>3
  <2>2. pc'[t] = "enter" /\ op'[t].kind = kind /\ op'[t].key = k
    BY <2>1, <1>0 DEF Call, Goto, TypeOK
  <2> QED BY <2>2 DEF Seen, MyKey
<1>4. CASE Leave(t) \/ ReturnFailed(t)
  <2>1. pc'[t] = "idle"
    BY <1>4, <1>0 DEF Leave, ReturnFailed, Goto, TypeOK
  <2> QED BY <2>1 DEF Seen
<1>5. CASE Enter(t) \/ Works(t)
  <2>1. op' = op /\ MyKey(t)' = MyKey(t) /\ pc[t] # "idle"
    <3>1. op' = op /\ pc[t] # "idle"
      BY <1>5, <1>0, WorkMoves, EnterMoves DEF InsidePCs
    <3> QED BY <3>1 DEF MyKey
  <2>2. MyKey(t)' \in program.keys /\ op'[t].kind \in program.kinds
    BY <2>1, <1>0 DEF Seen
  <2>3. Is(t, {"Insert"})' <=> Is(t, {"Insert"})
    BY <2>1 DEF Is
  <2>4. ASSUME Passed(t, pos'[t])
        PROVE  \A p \in Slots : 
                 Before(p, pos'[t]) => Filled(p)' /\ key'[p] # MyKey(t)'
    BY <2>4, <1>2, <2>1 DEF Passed
  <2>5. ASSUME pc'[t] \in {"claim", "await", "fill"}, Passed(t, pos'[t])
        PROVE  Seen(t)'
    BY <2>5, <2>4, <2>2, <2>1 DEF Seen
  <2>6. ASSUME pc'[t] \in {"enter", "erase", "scan", "hop", "leave", "failed", "idle"}
        PROVE  Seen(t)'
    BY <2>6, <2>2, <2>1 DEF Seen
  <2>7. ASSUME pc'[t] \in {"lock", "work", "unlock"}, pos'[t] = pos[t], 
               Filled(pos[t]), key[pos[t]] = MyKey(t)
        PROVE  Seen(t)'
    <3>1. \A s \in Slots : s = pos[t] => Filled(s)' /\ key'[s] = MyKey(t)
      BY <1>2, <2>7
    <3>2. Filled(pos[t])' /\ key'[pos'[t]] = MyKey(t)'
      BY <3>1, <1>0, <2>1, <2>7
    <3> QED BY <3>2, <2>2, <2>7 DEF Seen
  <2>8. pc[t] \in {"claim", "await", "compare", "fill", "grow", "link", "waitnext"}
          /\ Is(t, {"Insert"}) => Passed(t, pos[t])
    BY <1>0 DEF Seen, Passed
  <2>9. CASE Enter(t)
    <3>1. pos' = pos /\ pc'[t] \in {"enter", "claim", "erase", "scan"}
      BY <2>9, <1>0, EnterMoves DEF FirstStep
    <3>2. pos'[t] = FirstSlot
      BY <3>1, <2>9, <1>0, EnterMoves DEF OnTheWay
    <3>3. Passed(t, pos'[t])
      BY <3>2, FirstSlotIsFirst DEF Passed
    <3> QED BY <3>1, <3>3, <2>5, <2>6
  <2>10. CASE Claim(t)
    <3>1. pc[t] = "claim" /\ pc'[t] \in {"fill", "await"} /\ pos' = pos 
      BY <2>10, <1>0 DEF Claim, Goto, TypeOK
    <3> QED BY <3>1, <2>5, <2>8, <1>0 DEF KindOf
  <2>11. CASE Fill(t)
    <3>1. pc[t] = "fill" /\ pc'[t] = "count" /\ pos' = pos
      BY <2>11, <1>0 DEF Fill, Goto, TypeOK
    <3>2. key'[pos'[t]] = MyKey(t)'
      BY <3>1, <2>1, <1>0, <1>1
    <3> QED BY <3>1, <3>2, <2>2 DEF Seen
  <2>12. CASE CountKey(t)
    <3>1. pc[t] = "count" /\ pc'[t] = "publish" /\ pos' = pos /\ key' = key
      BY <2>12, <1>0 DEF CountKey, Goto, TypeOK, entries
    <3>2. key'[pos'[t]] = MyKey(t)'
      BY <3>1, <2>1, <1>0 DEF Seen
    <3> QED BY <3>1, <3>2, <2>2 DEF Seen
  <2>13. CASE \/ Unlock(t) \/ Hop(t) \/ TryFails(t)
              \/ Scan(t) /\ pc'[t] # "await" /\ pc'[t] # "probe" 
    <3>1. pc'[t] \in {"leave", "scan", "hop", "failed"}
      BY <2>13, <1>0 DEF Unlock, Scan, Hop, TryFails, Goto, ReturnWith, 
         EnterNextBucket, TypeOK
    <3> QED BY <3>1, <2>6
  <2>14. CASE Grow(t)
    <3>1. /\ pc[t] \in {"grow", "link", "waitnext"} /\ pos[t][1] + 1 \in Buckets
          /\ \/ pc'[t] = "claim" /\ pos'[t] = <<pos[t][1] + 1, 0>>
             \/ pc'[t] \in {"link", "waitnext"} /\ pos'[t] = pos[t]
      BY <2>14, <1>0, GrowMoves
    <3>2. /\ Passed(t, pos[t]) /\ Filled(pos[t]) /\ LastInBucket(pos[t]) 
          /\ key[pos[t]] # MyKey(t)
      BY <3>1, <2>8, <1>0 DEF Seen, KindOf
    <3>3. CASE pc'[t] = "claim"
      <4>1. \A p \in Slots : Before(p, <<pos[t][1] + 1, 0>>) 
                               => p = pos[t] \/ Before(p, pos[t])
        BY <3>1, <3>2, <1>0, NextBucketStart
      <4>2. Passed(t, pos'[t])
        BY <3>1, <3>2, <3>3, <4>1 DEF Passed
      <4> QED BY <3>3, <4>2, <2>5
    <3>4. CASE pc'[t] \in {"link", "waitnext"}
      <4>1. pos'[t] = pos[t] /\ Passed(t, pos'[t])
        BY <3>1, <3>2, <3>4
      <4>2. \A s \in Slots : s = pos[t] => Filled(s)' /\ key'[s] = key[s]
        BY <1>2, <3>2
      <4>3. Filled(pos[t])' /\ key'[pos'[t]] # MyKey(t)' /\ LastInBucket(pos'[t])
        BY <4>1, <4>2, <3>2, <1>0, <2>1
      <4> QED BY <4>1, <4>3, <3>4, <2>2, <2>4 DEF Seen, LastInBucket
    <3> QED BY <3>1, <3>3, <3>4
  <2>15. CASE AwaitEntry(t)
    <3>1. /\ pc[t] = "await" /\ pc'[t] = "compare" /\ pos' = pos
          /\ state[pos[t]] # "PENDING_INSERT" /\ state[pos[t]] # "EMPTY"
      BY <2>15, <1>0 DEF AwaitEntry, Goto, TypeOK, OnTheWay
    <3>2. Filled(pos[t])
      <4>1. ASSUME NEW u \in Threads, pc[u] = "fill" PROVE pos[u] # pos[t]
        <5>1. KindOf(u) /\ state[pos[u]] = HeldAs(u)
          BY <4>1, <1>0 DEF MultimapInv, OwnersInv, HoldingPCs
        <5> QED BY <5>1, <4>1, <3>1 DEF HeldAs, KindOf, Is, ApplyKinds
      <4> QED BY <4>1, <3>1 DEF Filled
    <3>3. \A s \in Slots : s = pos[t] => Filled(s)'
      BY <1>2, <3>2
    <3>4. Filled(pos[t])'
      BY <3>1, <3>3, <1>0
    <3>5. Is(t, {"Insert"}) => Passed(t, pos'[t])
      BY <3>1, <2>8
    <3> QED BY <3>1, <3>4, <3>5, <2>2, <2>3, <2>4 DEF Seen
  <2>16. CASE Compare(t)
    <3>0. pc[t] = "compare" /\ Filled(pos[t])
      BY <2>16, <1>0 DEF Compare, Seen
    <3>1. CASE key[pos[t]] = MyKey(t)
      <4>1. pc'[t] = "lock" /\ pos' = pos
        BY <2>16, <3>1, <1>0 DEF Compare, Goto, TypeOK
      <4> QED BY <3>0, <3>1, <4>1, <2>7
    <3>2. CASE key[pos[t]] # MyKey(t) /\ ~Is(t, {"Insert"})
      <4>1. pc'[t] \in {"scan", "hop"}
        BY <2>16, <3>2, <1>0 DEF Compare, NextEntry, Goto, TypeOK
      <4> QED BY <4>1, <2>6
    <3>3. CASE key[pos[t]] # MyKey(t) /\ Is(t, {"Insert"})
      <4>1. NextEntry(t, "claim", "grow")
        BY <2>16, <3>3 DEF Compare
      <4>2. \/ LastInBucket(pos[t]) /\ pos' = pos /\ pc'[t] = "grow"
            \/ /\ ~LastInBucket(pos[t]) /\ pc'[t] = "claim"
               /\ pos'[t] = <<pos[t][1], pos[t][2] + 1>>
        BY <4>1, <1>0, NextEntryMoves DEF PCs
      <4>3. Passed(t, pos[t])
        BY <3>0, <3>3, <2>8
      <4>4. CASE pc'[t] = "claim"
        <5>1. \A p \in Slots : 
                Before(p, pos'[t]) <=> p = pos[t] \/ Before(p, pos[t])
          BY <4>2, <4>4, <1>0, NextInBucket
        <5>2. Passed(t, pos'[t])
          BY <5>1, <4>3, <3>0, <3>3 DEF Passed
        <5> QED BY <5>2, <4>4, <2>5
      <4>5. CASE pc'[t] = "grow"
        <5>1. LastInBucket(pos[t]) /\ pos' = pos /\ Passed(t, pos'[t])
          BY <4>2, <4>3, <4>5
        <5>2. \A s \in Slots : s = pos[t] => Filled(s)' /\ key'[s] = key[s]
          BY <1>2, <3>0
        <5>3. Filled(pos[t])' /\ key'[pos'[t]] # MyKey(t)' /\ LastInBucket(pos'[t])
          BY <5>1, <5>2, <3>3, <1>0, <2>1
        <5> QED BY <5>1, <5>3, <4>5, <2>2, <2>4 DEF Seen, LastInBucket
      <4> QED BY <4>2, <4>4, <4>5
    <3> QED BY <3>1, <3>2, <3>3
  <2>17. CASE Scan(t) /\ pc'[t] = "await"
    <3>1. ~Is(t, {"Insert"})
      BY <2>17, <1>0 DEF Scan, KindOf
    <3> QED BY <3>1, <2>17, <2>2, <2>3 DEF Seen
  <2>18. CASE Scan(t) /\ pc'[t] = "probe"
    <3>1. state[pos[t]] \in {"USED", "PENDING_UPDATE"} /\ pos' = pos
      BY <2>18, <1>0 DEF Scan, ReturnWith, Goto, TypeOK
    <3>2. Filled(pos[t])
      <4>1. ASSUME NEW u \in Threads, pc[u] = "fill" PROVE pos[u] # pos[t]
        <5>1. KindOf(u) /\ state[pos[u]] = HeldAs(u)
          BY <4>1, <1>0 DEF MultimapInv, OwnersInv, HoldingPCs
        <5> QED BY <5>1, <4>1, <3>1 DEF HeldAs, KindOf, Is, ApplyKinds
      <4> QED BY <4>1, <3>1 DEF Filled
    <3>3. \A s \in Slots : s = pos[t] => Filled(s)'
      BY <1>2, <3>2
    <3>4. Filled(pos[t])'
      BY <3>1, <3>3, <1>0
    <3> QED BY <3>4, <2>18, <2>2 DEF Seen
  <2>19. CASE Probe(t)
    <3>0. pc[t] = "probe" /\ Filled(pos[t])
      BY <2>19, <1>0 DEF Probe, Seen
    <3>1. CASE key[pos[t]] = MyKey(t)
      <4>1. pc'[t] = "lock" /\ pos' = pos
        BY <2>19, <3>1, <1>0 DEF Probe, Goto, TypeOK
      <4> QED BY <3>0, <3>1, <4>1, <2>7
    <3>2. CASE key[pos[t]] # MyKey(t)
      <4>1. pc'[t] \in {"scan", "hop"}
        BY <2>19, <3>2, <1>0 DEF Probe, NextEntry, Goto, TypeOK
      <4> QED BY <4>1, <2>6
    <3> QED BY <3>1, <3>2
  <2>20. CASE LockEntry(t) \/ Work(t)
    <3>1. pc[t] \in {"lock", "work"} /\ pc'[t] \in {"work", "unlock"} /\ pos' = pos
      BY <2>20, <1>0 DEF LockEntry, Work, Goto, TypeOK
    <3>2. Filled(pos[t]) /\ key[pos[t]] = MyKey(t)
      BY <3>1, <1>0 DEF Seen
    <3> QED BY <3>1, <3>2, <2>7
  <2>21. CASE EraseKey(t)
    BY <2>21 DEF EraseKey
  <2>22. CASE Scan(t)
    BY <2>22, <2>13, <2>17, <2>18
  <2>23. CASE Unlock(t) \/ Hop(t) \/ TryFails(t)
    BY <2>23, <2>13
  <2> HIDE DEF Seen
  <2> QED BY <1>5, <2>9, <2>10, <2>11, <2>12, <2>14, <2>15, <2>16, <2>19, <2>20, 
             <2>21, <2>22, <2>23 DEF Works
<1> QED BY <1>3, <1>4, <1>5, StepKinds

LEMMA EraseKeepsKeys == 
  ASSUME MultimapInv, KeysInv, NEW t \in Threads, EraseKey(t), program' = program
  PROVE  KeysInv'
<1>0. /\ TypeOK /\ UniqueKeys /\ FilledInOrder /\ Seen(t) /\ KindOf(t) 
      /\ Roomy(program) /\ pc[t] = "erase"
      /\ \A s \in Slots : Filled(s) => key[s] \in program.keys \cup program.first
  BY DEF KeysInv, MultimapInv, EraseKey
<1>1. /\ op' = op /\ pc'[t] = "leave" 
      /\ \A u \in Threads \ {t} : pc'[u] = pc[u] /\ pc[u] \in {"idle", "enter"}
  BY <1>0, WorkMoves, InvIsAlone DEF Works, EraseAlone
<1>2. \A s \in Slots : /\ Filled(s) <=> state[s] # "EMPTY"
                       /\ Filled(s)' <=> state'[s] # "EMPTY"
  BY <1>0, <1>1 DEF Filled
<1>3. "Erase" \in program.kinds
  BY <1>0 DEF Seen, KindOf, Is
<1>4. \A s \in Slots : state[s] # "EMPTY" => s[1] = 0
  BY <1>3 DEF KeysInv
<1>5. \A u \in Threads : Seen(u)'
  <2>1. ASSUME NEW u \in Threads, MyKey(u)' = MyKey(u), op'[u] = op[u], 
               pc[u] # "idle" => MyKey(u) \in program.keys 
                                 /\ op[u].kind \in program.kinds,
               pc'[u] \in {"idle", "enter", "leave"}, pc'[u] # "idle" => pc[u] # "idle"
        PROVE  Seen(u)'
    BY <2>1 DEF Seen
  <2>2. ASSUME NEW u \in Threads 
        PROVE  /\ MyKey(u)' = MyKey(u) /\ op'[u] = op[u]
               /\ pc[u] # "idle" => MyKey(u) \in program.keys 
                                     /\ op[u].kind \in program.kinds
               /\ pc'[u] \in {"idle", "enter", "leave"} 
               /\ pc'[u] # "idle" => pc[u] # "idle"
    BY <1>0, <1>1 DEF MyKey, KeysInv, Seen
  <2> QED BY <2>1, <2>2
<1>6. CASE UNCHANGED <<entries, numberKeys>>
  <2>1. key' = key /\ state' = state
    BY <1>6 DEF entries
  <2>2. UniqueKeys' /\ FilledInOrder'
    BY <2>1, <1>0, <1>2 DEF UniqueKeys, FilledInOrder
  <2> QED BY <2>1, <2>2, <1>0, <1>2, <1>4, <1>5 DEF KeysInv
<1>7. CASE ~UNCHANGED <<entries, numberKeys>>
  <2>1. PICK e \in Slots, l \in Slots : 
          /\ state[e] # "EMPTY" /\ state[l] # "EMPTY"
          /\ \A q \in Slots : q[1] = l[1] /\ Before(l, q) => state[q] = "EMPTY"
          /\ key' = [key EXCEPT ![e] = key[l]]
          /\ state' = [state EXCEPT ![l] = "EMPTY"]
    BY <1>7, EraseEffect, Zenon
  <2>2. \A s \in Slots : 
          /\ key'[s] = IF s = e THEN key[l] ELSE key[s]
          /\ state'[s] = IF s = l THEN "EMPTY" ELSE state[s]
    BY <2>1, <1>0 DEF TypeOK
  <2>3. UniqueKeys'
    <3>1. ASSUME NEW p \in Slots, NEW q \in Slots, Filled(p)', Filled(q)', 
                 key'[p] = key'[q]
          PROVE  p = q
      <4>1. p # l /\ q # l /\ Filled(p) /\ Filled(q) /\ Filled(l)
        BY <3>1, <2>1, <2>2, <1>2
      <4> QED BY <4>1, <3>1, <2>2, <1>0 DEF UniqueKeys
    <3> QED BY <3>1 DEF UniqueKeys
  <2>4. FilledInOrder'
    <3>1. ASSUME NEW p \in Slots, NEW q \in Slots, Before(p, q), state'[q] # "EMPTY"
          PROVE  Filled(p)'
      <4>1. state[q] # "EMPTY" /\ Filled(p)
        BY <3>1, <2>2, <1>0 DEF FilledInOrder
      <4>2. p # l
        BY <4>1, <3>1, <2>1, <1>4
      <4> QED BY <4>1, <4>2, <2>2, <1>2
    <3> QED BY <3>1 DEF FilledInOrder
  <2>5. \A s \in Slots : Filled(s)' => key'[s] \in program.keys \cup program.first
    BY <1>0, <1>2, <2>1, <2>2
  <2>6. \A s \in Slots : state'[s] # "EMPTY" => s[1] = 0
    BY <1>4, <2>2
  <2> QED BY <2>3, <2>4, <2>5, <2>6, <1>0, <1>5 DEF KeysInv
<1> QED BY <1>6, <1>7

LEMMA KeysKeep == MultimapInv /\ KeysInv /\ [Next]_vars => KeysInv'
<1> SUFFICES ASSUME MultimapInv, KeysInv, [Next]_vars PROVE KeysInv'
  OBVIOUS
<1>1. CASE UNCHANGED vars
  <2> USE <1>1 DEF vars, entries
  <2>1. \A s \in Slots : Filled(s)' <=> Filled(s)
    BY DEF Filled
  <2>2. UniqueKeys' /\ FilledInOrder'
    BY <2>1 DEF KeysInv, UniqueKeys, FilledInOrder
  <2>3. ASSUME NEW t \in Threads PROVE Seen(t)'
    <3>1. Seen(t)
      BY DEF KeysInv
    <3> QED BY <3>1 DEF Seen, Filled, MyKey, Is
  <2> QED BY <2>1, <2>2, <2>3 DEF KeysInv, Roomy
<1>2. CASE \E t \in Threads : CallAny(t) \/ Step(t)
  <2>1. PICK t \in Threads : CallAny(t) \/ Step(t)
    BY <1>2
  <2>2. program' = program
    BY <2>1, StepKinds
  <2>3. CASE pc[t] = "erase"
    <3>1. EraseKey(t)
      BY <2>1, <2>3 DEF CallAny, Call, Step, Enter, Leave, Claim, Fill, CountKey, 
         Unlock, Grow, GrowList, LinkBucket, AwaitBucket, AwaitEntry, Compare, Scan, 
         Probe, Hop, LockEntry, TryFails, ReturnFailed, Work, EraseKey
    <3> QED BY <3>1, <2>2, EraseKeepsKeys
  <2>4. CASE pc[t] # "erase"
    <3>1. /\ UniqueKeys' /\ FilledInOrder'
          /\ \A s \in Slots : 
               Filled(s)' => key'[s] \in program.keys \cup program.first
          /\ "Erase" \in program.kinds => 
               \A s \in Slots : state'[s] # "EMPTY" => s[1] = 0
      BY <2>1, <2>2, <2>4, EntriesKeep
    <3>2. Seen(t)'
      BY <2>1, <2>2, <2>4, SeenMoves
    <3>3. \A u \in Threads \ {t} : pc'[u] = pc[u] /\ pos'[u] = pos[u] /\ op'[u] = op[u]
      <4> USE DEF MultimapInv, TypeOK, Goto
      <4>1. CASE Works(t)
        BY <4>1, WorkMoves
      <4>2. CASE ~Works(t)
        BY <2>1, <4>2, StepKinds DEF Call, Enter, Leave, ReturnFailed
      <4> QED BY <4>1, <4>2
    <3>4. \A u \in Threads \ {t} : Seen(u)'
      BY <3>3, <2>1, <2>2, <2>4, SeenStays
    <3> QED BY <3>1, <3>2, <3>4, <2>2 DEF KeysInv
  <2> QED BY <2>3, <2>4
<1> QED BY <1>1, <1>2 DEF Next, Terminating

(* A key has one entry when the programs that erase use no more keys than  *)
(* one bucket holds.  The code does not see to that: Insert takes the hole *)
(* that an Erase left in a full bucket without a look at the next bucket,  *)
(* where its key may be, and the key has two entries from then on.         *)
RoomyPrograms == \A p \in Programs : Roomy(p)

THEOREM KeysAreUnique == RoomyPrograms /\ Spec => []UniqueKeys
<1>1. RoomyPrograms /\ Init => MultimapInv /\ KeysInv
  BY InitEstablishes, KeysInit DEF RoomyPrograms
<1>2. MultimapInv /\ KeysInv /\ [Next]_vars => MultimapInv' /\ KeysInv'
  BY NextKeeps, KeysKeep
<1>3. KeysInv => UniqueKeys
  BY DEF KeysInv
<1> QED BY <1>1, <1>2, <1>3, PTL DEF Spec

-----------------------------------------------------------------------------
(* What the searches know.                                                 *)

LEMMA OthersStay == 
  ASSUME TypeOK, NEW t \in Threads, CallAny(t) \/ Step(t)
  PROVE  \A u \in Threads \ {t} : 
           /\ pc'[u] = pc[u] /\ pos'[u] = pos[u] /\ op'[u] = op[u]
           /\ read'[u] = read[u] /\ res'[u] = res[u] /\ nops'[u] = nops[u]
<1>1. CASE Works(t)
  BY <1>1, WorkMoves
<1>2. CASE ~Works(t)
  BY <1>2, StepKinds DEF Call, Enter, Leave, ReturnFailed, TypeOK, Goto
<1> QED BY <1>1, <1>2

LEMMA NextMoves == 
  ASSUME MultimapInv, NEW t \in Threads, CallAny(t) \/ Step(t)
  PROVE  /\ \A b \in Buckets : next[b] => next'[b]
         /\ \A b \in Buckets : next'[b] => next[b] \/ (pc[t] = "link" /\ b = pos[t][1])
<1>1. TypeOK /\ OnTheWay(t) /\ pos[t] \in Slots /\ pos[t][1] \in Buckets
  BY SlotParts DEF MultimapInv, TypeOK
<1>2. CASE Grow(t)
  BY <1>1, <1>2 DEF Grow, GrowList, LinkBucket, AwaitBucket, chain, TypeOK
<1>3. CASE ~Grow(t)
  <2>1. next' = next
    <3>1. CASE Works(t)
      BY <1>3, <3>1 DEF Works, Claim, Fill, CountKey, Unlock, AwaitEntry, Compare, 
         Scan, Probe, Hop, LockEntry, TryFails, Work, EraseKey, chain
    <3>2. CASE ~Works(t)
      BY <3>2, StepKinds DEF Call, Enter, Leave, ReturnFailed, chain
    <3> QED BY <3>1, <3>2
  <2> QED BY <2>1
<1> QED BY <1>2, <1>3

\* what a step other than Erase does to the values
Writes(t) == pc[t] = "fill" \/ (pc[t] = "work" /\ ~Is(t, LookupKinds))

LEMMA ValMoves == 
  ASSUME MultimapInv, NEW t \in Threads, CallAny(t) \/ Step(t), pc[t] # "erase"
  PROVE  /\ Writes(t) => val' = [val EXCEPT ![pos[t]] = @ \cup {Tok(t)}]
         /\ ~Writes(t) => val' = val
<1>1. TypeOK /\ pos[t] \in Slots
  BY DEF MultimapInv, TypeOK
<1>2. CASE pc[t] = "fill"
  <2>1. Fill(t)
    BY <1>2 DEF CallAny, Call, Step, Enter, Leave, Claim, Fill, CountKey, Unlock, 
       Grow, GrowList, LinkBucket, AwaitBucket, AwaitEntry, Compare, Scan, Probe, 
       Hop, LockEntry, TryFails, ReturnFailed, Work, EraseKey
  <2> QED BY <1>2, <2>1 DEF Fill, Writes
<1>3. CASE pc[t] = "work"
  <2>1. Work(t)
    BY <1>3 DEF CallAny, Call, Step, Enter, Leave, Claim, Fill, CountKey, Unlock, 
       Grow, GrowList, LinkBucket, AwaitBucket, AwaitEntry, Compare, Scan, Probe, 
       Hop, LockEntry, TryFails, ReturnFailed, Work, EraseKey
  <2> QED BY <1>3, <2>1 DEF Work, Writes
<1>4. CASE pc[t] \notin {"fill", "work"}
  <2>1. val' = val
    <3>1. CASE Works(t)
      BY <1>4, <3>1 DEF Works, Claim, Fill, CountKey, Unlock, Grow, AwaitEntry, 
         Compare, Scan, Probe, Hop, LockEntry, TryFails, Work, EraseKey, entries
    <3>2. CASE ~Works(t)
      BY <3>2, StepKinds DEF Call, Enter, Leave, ReturnFailed, entries
    <3> QED BY <3>1, <3>2
  <2> QED BY <1>4, <2>1 DEF Writes
<1> QED BY <1>2, <1>3, <1>4

LEMMA ErasesAtErase == 
  ASSUME MultimapInv, KeysInv, NEW t \in Threads, CallAny(t) \/ Step(t), 
         pc[t] = "erase"
  PROVE  EraseKey(t) /\ "Erase" \in program.kinds /\ op[t].kind = "Erase"
<1>1. EraseKey(t)
  BY DEF CallAny, Call, Step, Enter, Leave, Claim, Fill, CountKey, 
     Unlock, Grow, GrowList, LinkBucket, AwaitBucket, AwaitEntry, Compare, Scan, 
     Probe, Hop, LockEntry, TryFails, ReturnFailed, Work, EraseKey
<1>2. Seen(t) /\ KindOf(t)
  BY DEF KeysInv, MultimapInv
<1> QED BY <1>1, <1>2 DEF Seen, KindOf, Is

\* the chain is extended at a full list, which programs that erase never have
LEMMA ChainStaysFull == 
  ASSUME MultimapInv, KeysInv, SearchInv, NEW t \in Threads, CallAny(t) \/ Step(t)
  PROVE  ChainFull'
<1>0. ChainFull /\ program' = program /\ Seen(t) /\ KindOf(t) /\ pos[t] \in Slots
  BY StepKinds DEF SearchInv, KeysInv, MultimapInv, TypeOK
<1>1. ASSUME NEW b \in Buckets, next'[b] 
      PROVE  /\ "Erase" \notin program.kinds
             /\ \A s \in Slots : s[1] <= b => Filled(s)
  <2>1. CASE next[b]
    BY <1>0, <2>1 DEF ChainFull
  <2>2. CASE ~next[b]
    <3>1. pc[t] = "link" /\ b = pos[t][1]
      BY <1>1, <2>2, NextMoves
    <3>2. /\ Filled(pos[t]) /\ LastInBucket(pos[t]) /\ key[pos[t]] # MyKey(t)
          /\ \A p \in Slots : Before(p, pos[t]) => Filled(p) /\ key[p] # MyKey(t)
          /\ MyKey(t) \in program.keys
      BY <1>0, <3>1 DEF Seen, KindOf
    <3>3. \A s \in Slots : s[1] <= b => s = pos[t] \/ Before(s, pos[t])
      BY <1>0, <3>1, <3>2, SlotParts DEF Before, LastInBucket
    <3>4. \A s \in Slots : s[1] <= b => Filled(s) /\ key[s] # MyKey(t)
      BY <3>2, <3>3
    <3>5. \A s \in Slots : s[1] = 0 => s[1] <= b
      BY <1>0, <3>1, SlotParts
    <3>6. "Erase" \notin program.kinds
      <4> HIDE DEF MyKey
      <4> QED BY <3>2, <3>4, <3>5, FirstBucketSuffices DEF KeysInv
    <3> QED BY <3>4, <3>6
  <2> QED BY <2>1, <2>2
<1>2. CASE pc[t] = "erase"
  BY <1>0, <1>1, <1>2, ErasesAtErase DEF ChainFull
<1>3. CASE pc[t] # "erase"
  <2>1. \A s \in Slots : Filled(s) => Filled(s)'
    BY <1>3, FilledMoves
  <2> QED BY <1>0, <1>1, <2>1 DEF ChainFull
<1> QED BY <1>2, <1>3

LEMMA LinksStay == 
  ASSUME MultimapInv, KeysInv, SearchInv, NEW t \in Threads, CallAny(t) \/ Step(t)
  PROVE  /\ \A s \in Slots : state'[s] # "EMPTY" => Linked(s)'
         /\ \A s \in Slots : ~Filled(s)' => val'[s] = {}
<1>0. /\ TypeOK /\ Linked(pos[t]) /\ pos[t] \in Slots /\ Seen(t)
      /\ \A s \in Slots : state[s] # "EMPTY" => Linked(s)
      /\ \A s \in Slots : ~Filled(s) => val[s] = {}
  BY DEF SearchInv, KeysInv, MultimapInv, TypeOK
<1>1. \A s \in Slots : Linked(s) => Linked(s)'
  BY NextMoves DEF Linked
<1>2. CASE pc[t] = "erase"
  <2>1. EraseKey(t)
    BY <1>2, ErasesAtErase
  <2>2. CASE UNCHANGED <<entries, numberKeys>>
    <3>1. state' = state /\ val' = val
      BY <2>2 DEF entries
    <3>2. \A s \in Slots : Filled(s) => Filled(s)'
      <4>1. pc'[t] = "leave" /\ \A u \in Threads \ {t} : pc'[u] = pc[u] /\ pos'[u] = pos[u]
        BY <2>1, <1>0, OthersStay DEF EraseKey, ReturnWith, Goto, TypeOK
      <4> QED BY <3>1, <4>1 DEF Filled
    <3> QED BY <3>1, <3>2, <1>0, <1>1
  <2>3. CASE ~UNCHANGED <<entries, numberKeys>>
    <3>1. PICK e \in Slots, l \in Slots : 
            /\ state[e] # "EMPTY" /\ state[l] # "EMPTY"
            /\ val' = [[val EXCEPT ![e] = val[l]] EXCEPT ![l] = {}]
            /\ state' = [state EXCEPT ![l] = "EMPTY"]
      BY <2>1, <2>3, EraseEffect, Zenon
    <3>2. \A u \in Threads : pc[u] # "fill" /\ pc'[u] # "fill"
      <4>1. \A u \in Threads \ {t} : pc[u] \in {"idle", "enter"} /\ pc'[u] = pc[u]
        BY <1>0, <1>2, InvIsAlone, OthersStay DEF EraseAlone
      <4>2. pc'[t] = "leave"
        BY <2>1, <1>0 DEF EraseKey, ReturnWith, Goto, TypeOK
      <4> QED BY <4>1, <4>2, <1>2
    <3>3. \A s \in Slots : (Filled(s) <=> state[s] # "EMPTY") 
                           /\ (Filled(s)' <=> state'[s] # "EMPTY")
      BY <3>2 DEF Filled
    <3>4. \A s \in Slots : state'[s] = IF s = l THEN "EMPTY" ELSE state[s]
      BY <3>1, <1>0 DEF TypeOK
    <3>5. \A s \in Slots : val'[s] = IF s = l THEN {} ELSE IF s = e THEN val[l] ELSE val[s]
      BY <3>1, <1>0 DEF TypeOK
    <3> QED BY <3>1, <3>3, <3>4, <3>5, <1>0, <1>1
  <2> QED BY <2>2, <2>3
<1>3. CASE pc[t] # "erase"
  <2>1. \A s \in Slots : 
          /\ Filled(s)' <=> Filled(s) \/ (pc[t] = "fill" /\ s = pos[t])
          /\ state'[s] # "EMPTY" 
               => state[s] # "EMPTY" \/ (pc[t] = "claim" /\ s = pos[t])
    BY <1>3, FilledMoves
  <2>2. \A s \in Slots : state'[s] # "EMPTY" => Linked(s)'
    BY <1>0, <1>1, <2>1
  <2>3. pc[t] = "work" => Filled(pos[t])
    BY <1>0 DEF Seen
  <2>4. ASSUME NEW s \in Slots, ~Filled(s)' PROVE val'[s] = {}
    <3>1. ~Filled(s) /\ ~(s = pos[t] /\ pc[t] \in {"fill", "work"})
      BY <2>1, <2>3, <2>4
    <3>2. val'[s] = val[s]
      BY <1>0, <1>3, <3>1, ValMoves DEF Writes, TypeOK
    <3> QED BY <3>1, <3>2, <1>0
  <2> QED BY <2>2, <2>4
<1> QED BY <1>2, <1>3

\* where the positions go
LEMMA PositionsLinked == 
  ASSUME MultimapInv, SearchInv, NEW t \in Threads, CallAny(t) \/ Step(t)
  PROVE  \A u \in Threads : Linked(pos[u])'
<1>0. /\ TypeOK /\ pos[t] \in Slots /\ pos[t][1] \in Buckets /\ OnTheWay(t)
      /\ \A b \in Buckets : next[b] => next'[b]
  BY SlotParts, NextMoves DEF MultimapInv, TypeOK
<1>1. ASSUME NEW u \in Threads \ {t} PROVE Linked(pos[u])'
  <2>1. Linked(pos[u]) /\ pos'[u] = pos[u]
    BY <1>0, OthersStay DEF SearchInv
  <2> QED BY <2>1, <1>0 DEF Linked
<1>2. \/ pos'[t][1] = pos[t][1] \/ pos'[t][1] = 0
      \/ pos'[t][1] = pos[t][1] + 1 /\ next'[pos[t][1]]
  <2>1. CASE \E kind \in program.kinds, k \in program.keys : Call(t, kind, k)
    BY <2>1, <1>0 DEF Call, FirstSlot, TypeOK
  <2>2. CASE Grow(t)
    BY <2>2, <1>0 DEF Grow, GrowList, LinkBucket, AwaitBucket, EnterNextBucket, chain, 
       TypeOK
  <2>3. CASE Hop(t)
    <3>1. CASE next[pos[t][1]]
      BY <2>3, <3>1, <1>0 DEF Hop, EnterNextBucket, TypeOK
    <3>2. CASE ~next[pos[t][1]]
      BY <2>3, <3>2 DEF Hop
    <3> QED BY <3>1, <3>2
  <2>4. CASE Compare(t) \/ Probe(t)
    BY <2>4, <1>0 DEF Compare, Probe, NextEntry, TypeOK
  <2>5. CASE Works(t) /\ ~Grow(t) /\ ~Hop(t) /\ ~Compare(t) /\ ~Probe(t)
    BY <2>5 DEF Works, Claim, Fill, CountKey, Unlock, AwaitEntry, Scan, LockEntry, 
       TryFails, Work, EraseKey
  <2>6. CASE Enter(t) \/ Leave(t) \/ ReturnFailed(t)
    BY <2>6 DEF Enter, Leave, ReturnFailed
  <2> QED BY <2>1, <2>2, <2>3, <2>4, <2>5, <2>6, StepKinds
<1>3. Linked(pos[t]) 
  BY DEF SearchInv
<1>4. Linked(pos[t])'
  BY <1>0, <1>2, <1>3 DEF Linked, Buckets
<1> QED BY <1>1, <1>4

\* at an EMPTY entry the list ends
LEMMA EmptyEndsList == 
  ASSUME KeysInv, SearchInv, NEW s \in Slots, state[s] = "EMPTY"
  PROVE  /\ \A p \in Slots : Before(s, p) => state[p] = "EMPTY"
         /\ s[1] \in Buckets /\ ~next[s[1]]
<1>1. \A p \in Slots : Before(s, p) => state[p] = "EMPTY"
  BY DEF KeysInv, FilledInOrder, Filled
<1>2. s[1] \in Buckets /\ s[1] \in Nat
  BY SlotParts
<1>3. ~Filled(s)
  BY DEF Filled
<1>4. ~next[s[1]]
  BY <1>2, <1>3 DEF SearchInv, ChainFull
<1> QED BY <1>1, <1>2, <1>4

LEMMA OthersSearched == 
  ASSUME MultimapInv, KeysInv, SearchInv, NEW t \in Threads, CallAny(t) \/ Step(t), 
         NEW u \in Threads \ {t}
  PROVE  Searched(u)'
<1>0. /\ Searched(u) /\ pos[u] \in Slots /\ TypeOK
      /\ pc'[u] = pc[u] /\ pos'[u] = pos[u] /\ op'[u] = op[u] /\ res'[u] = res[u]
  BY OthersStay DEF SearchInv, MultimapInv, TypeOK
<1>1. CASE pc[t] = "erase"
  <2>1. pc[u] \in {"idle", "enter"}
    BY <1>1, InvIsAlone DEF EraseAlone
  <2> QED BY <1>0, <2>1 DEF Searched
<1>2. CASE pc[t] # "erase"
  <2>1. \A s \in Slots : Filled(s) => Filled(s)' /\ key'[s] = key[s]
    BY <1>2, FilledMoves
  <2>2. MyKey(u)' = MyKey(u)
    BY <1>0 DEF MyKey
  <2>3. Passed(u, pos[u]) => Passed(u, pos[u])'
    BY <1>0, <2>1, <2>2 DEF Passed
  <2>4. ASSUME NEW s \in Slots, s = pos[u], Filled(s), key[s] # MyKey(u)
        PROVE  Filled(pos[u])' /\ key'[pos'[u]] # MyKey(u)'
    BY <1>0, <2>1, <2>2, <2>4
  <2> QED BY <1>0, <2>3, <2>4 DEF Searched, LastInBucket
<1> QED BY <1>1, <1>2

LEMMA MoverSearched == 
  ASSUME MultimapInv, KeysInv, SearchInv, NEW t \in Threads, CallAny(t) \/ Step(t)
  PROVE  Searched(t)'
<1>0. /\ Searched(t) /\ Seen(t) /\ KindOf(t) /\ OnTheWay(t) /\ TypeOK /\ ChainInv
      /\ pos[t] \in Slots 
  BY DEF SearchInv, KeysInv, MultimapInv, TypeOK
<1>1. CASE pc'[t] \notin {"scan", "await", "compare", "probe", "hop"}
  BY <1>1 DEF Searched
<1>2. CASE pc'[t] \in {"scan", "await", "compare", "probe", "hop"}
  <2>1. /\ op' = op /\ MyKey(t)' = MyKey(t) /\ pc[t] # "erase"
        /\ \/ Enter(t) /\ pc'[t] = "scan" 
           \/ Claim(t) \/ AwaitEntry(t) \/ Compare(t) \/ Scan(t) \/ Probe(t) \/ Hop(t)
    <3>1. \/ Enter(t) \/ Claim(t) \/ AwaitEntry(t) \/ Compare(t) \/ Scan(t) \/ Probe(t) 
          \/ Hop(t)
      <4>1. ~Call(t, op'[t].kind, op'[t].key) 
            /\ ~(\E kind \in program.kinds, k \in program.keys : Call(t, kind, k))
        BY <1>0, <1>2 DEF Call, Goto, TypeOK
      <4>2. ~Leave(t) /\ ~ReturnFailed(t) /\ ~Fill(t) /\ ~CountKey(t) /\ ~Unlock(t)
            /\ ~LockEntry(t) /\ ~TryFails(t) /\ ~Work(t) /\ ~EraseKey(t)
        BY <1>0, <1>2 DEF Leave, ReturnFailed, Fill, CountKey, Unlock, LockEntry, 
           TryFails, Work, EraseKey, ReturnWith, Goto, TypeOK
      <4>3. ~Grow(t)
        BY <1>0, <1>2, GrowMoves
      <4> QED BY <4>1, <4>2, <4>3, StepKinds DEF Works
    <3>2. op' = op
      BY <3>1 DEF Enter, Claim, AwaitEntry, Compare, Scan, Probe, Hop
    <3>3. Enter(t) => pc'[t] = "scan"
      BY <1>2, <1>0, EnterMoves DEF FirstStep
    <3>4. pc[t] # "erase"
      BY <3>1 DEF Enter, Claim, AwaitEntry, Compare, Scan, Probe, Hop
    <3> QED BY <3>1, <3>2, <3>3, <3>4 DEF MyKey
  <2>2. \A s \in Slots : Filled(s) => Filled(s)' /\ key'[s] = key[s]
    BY <2>1, FilledMoves
  <2>3. ASSUME pos'[t] \in Slots, Passed(t, pos'[t]), 
               pc'[t] \in {"scan", "await", "compare", "probe"}
        PROVE  Searched(t)'
    <3>1. Passed(t, pos[t])'
      BY <2>1, <2>2, <2>3 DEF Passed
    <3> QED BY <3>1, <2>3 DEF Searched
  <2>4. ASSUME res'[t] = "absent" PROVE Searched(t)'
    BY <2>4 DEF Searched
  <2>5. ASSUME pos'[t] = pos[t], pc'[t] = "hop", LastInBucket(pos[t]), 
               Passed(t, pos[t]), Filled(pos[t]), key[pos[t]] # MyKey(t)
        PROVE  Searched(t)'
    <3>1. Passed(t, pos[t])'
      BY <2>1, <2>2, <2>5, <1>0 DEF Passed
    <3>2. \A s \in Slots : s = pos[t] => Filled(s)' /\ key'[s] = key[s]
      BY <2>2, <2>5
    <3>3. Filled(pos[t])' /\ key'[pos'[t]] # MyKey(t)' /\ LastInBucket(pos'[t])
      BY <3>2, <2>1, <2>5, <1>0
    <3> QED BY <3>1, <3>3, <2>5 DEF Searched, LastInBucket
  <2>6. CASE Enter(t)
    <3>1. pos'[t] = FirstSlot
      BY <2>6, <1>0, EnterMoves DEF OnTheWay
    <3>2. Passed(t, pos'[t])
      BY <3>1, FirstSlotIsFirst DEF Passed
    <3> QED BY <3>1, <3>2, <2>1, <2>3, <2>6, FirstSlotIsFirst DEF Enter, Claim, 
            AwaitEntry, Compare, Scan, Probe, Hop
  <2>7. CASE Claim(t)
    <3>1. pc[t] = "claim" /\ pc'[t] = "await" /\ pos' = pos
      BY <2>7, <1>0, <1>2 DEF Claim, Goto, TypeOK
    <3>2. Passed(t, pos'[t])
      BY <3>1, <1>0 DEF Seen, KindOf, Passed
    <3> QED BY <3>1, <3>2, <2>3, <1>0
  <2>8. CASE AwaitEntry(t)
    <3>1. pc[t] = "await" /\ pc'[t] = "compare" /\ pos' = pos /\ res' = res
      BY <2>8, <1>0 DEF AwaitEntry, Goto, TypeOK
    <3> QED BY <3>1, <2>3, <2>4, <1>0 DEF Searched
  <2>9. CASE Compare(t) \/ Probe(t)
    <3>1. /\ pc[t] \in {"compare", "probe"} /\ res' = res /\ Filled(pos[t])
          /\ key[pos[t]] # MyKey(t)
      BY <2>9, <1>0, <1>2 DEF Compare, Probe, Seen, Goto, TypeOK
    <3>2. \E again \in {"claim", "scan"}, out \in {"grow", "hop"} : 
              NextEntry(t, again, out)
      BY <2>9, <3>1 DEF Compare, Probe
    <3>3. PICK again \in {"claim", "scan"}, out \in {"grow", "hop"} : 
              NextEntry(t, again, out)
      BY <3>2
    <3>4. again \in PCs /\ out \in PCs
      BY DEF PCs
    <3>5. /\ \/ LastInBucket(pos[t]) /\ pos' = pos /\ pc'[t] = out
             \/ /\ ~LastInBucket(pos[t]) /\ pc'[t] = again
                /\ pos'[t] = <<pos[t][1], pos[t][2] + 1>>
          /\ pos' \in [Threads -> Slots]
      BY <3>3, <3>4, <1>0, NextEntryMoves
    <3>6. res[t] = "absent" \/ Passed(t, pos[t])
      BY <3>1, <1>0 DEF Searched
    <3>7. CASE res[t] = "absent"
      BY <3>1, <3>7, <2>4
    <3>8. CASE Passed(t, pos[t]) /\ LastInBucket(pos[t])
      <4>1. pc'[t] = "hop"
        BY <3>5, <3>8, <1>2
      <4> QED BY <4>1, <3>1, <3>5, <3>8, <2>5
    <3>9. CASE Passed(t, pos[t]) /\ ~LastInBucket(pos[t])
      <4>1. \A p \in Slots : Before(p, pos'[t]) <=> p = pos[t] \/ Before(p, pos[t])
        BY <3>5, <3>9, <1>0, NextInBucket
      <4>2. Passed(t, pos'[t])
        BY <4>1, <3>1, <3>9 DEF Passed
      <4>3. pc'[t] = "scan"
        BY <3>5, <3>9, <1>2
      <4> QED BY <4>2, <4>3, <3>5, <2>3
    <3> QED BY <3>6, <3>7, <3>8, <3>9
  <2>10. CASE Scan(t)
    <3>1. pc[t] = "scan" /\ pos' = pos
      BY <2>10 DEF Scan
    <3>2. CASE pc'[t] = "hop"
      <4>1. res'[t] = "absent"
        <5>1. CASE state[pos[t]] = "EMPTY"
          <6>1. ~next[pos[t][1]]
            BY <5>1, <1>0, EmptyEndsList
          <6> QED BY <2>10, <3>2, <5>1, <6>1, <1>0 DEF Scan, LeaveBucket, SetOutcome, 
                  ReturnWith, Goto, TypeOK
        <5>2. CASE state[pos[t]] # "EMPTY"
          BY <2>10, <3>2, <5>2, <1>0 DEF Scan, SetOutcome, Goto, TypeOK
        <5> QED BY <5>1, <5>2
      <4> QED BY <4>1, <2>4
    <3>3. CASE pc'[t] # "hop"
      <4>1. pc'[t] \in {"await", "probe"} /\ res' = res
        BY <2>10, <3>3, <1>0, <1>2 DEF Scan, ReturnWith, Goto, TypeOK
      <4> QED BY <4>1, <3>1, <2>3, <2>4, <1>0 DEF Searched
    <3> QED BY <3>2, <3>3
  <2>11. CASE Hop(t)
    <3>1. pc[t] = "hop"
      BY <2>11 DEF Hop
    <3>2. next[pos[t][1]]
      BY <2>11, <1>0, <1>2 DEF Hop, ReturnWith, Goto, TypeOK
    <3>3. pos[t][1] + 1 \in Buckets
      BY <3>2, <1>0, SlotParts DEF ChainInv
    <3>4. pc'[t] = "scan" /\ pos'[t] = <<pos[t][1] + 1, 0>> /\ res' = res
          /\ pos' \in [Threads -> Slots]
      BY <2>11, <3>2, <3>3, <1>0, EnterBucketMoves DEF Hop, PCs
    <3>5. CASE res[t] = "absent"
      BY <3>4, <3>5, <2>4
    <3>6. CASE res[t] # "absent"
      <4>1. /\ LastInBucket(pos[t]) /\ Passed(t, pos[t])
            /\ Filled(pos[t]) /\ key[pos[t]] # MyKey(t)
        BY <3>1, <3>6, <1>0 DEF Searched
      <4>2. \A p \in Slots : Before(p, pos'[t]) => p = pos[t] \/ Before(p, pos[t])
        BY <4>1, <3>3, <3>4, <1>0, NextBucketStart
      <4>3. Passed(t, pos'[t])
        BY <4>1, <4>2 DEF Passed
      <4> QED BY <4>3, <3>4, <2>3
    <3> QED BY <3>5, <3>6
  <2> QED BY <2>1, <2>6, <2>7, <2>8, <2>9, <2>10, <2>11
<1> QED BY <1>1, <1>2

LEMMA SearchInit == Init /\ (\A p \in Programs : Roomy(p)) => SearchInv
<1> SUFFICES ASSUME Init, \A p \in Programs : Roomy(p) PROVE SearchInv
  OBVIOUS
<1>1. PICK P \in SUBSET Slots : ListInit(P)
  BY DEF Init
<1>2. /\ state = [s \in Slots |-> IF s \in P THEN "USED" ELSE "EMPTY"]
      /\ \A p, q \in Slots : Before(p, q) /\ q \in P => p \in P
      /\ next = [b \in Buckets |-> \E s \in P : s[1] = b + 1]
      /\ pc = [t \in Threads |-> "idle"] /\ pos = [t \in Threads |-> FirstSlot]
  BY <1>1 DEF ListInit
<1>3. \A s \in Slots : (Filled(s) <=> s \in P) /\ (state[s] # "EMPTY" <=> s \in P)
  BY <1>2 DEF Filled
<1>4. KeysInv
  BY KeysInit
<1>5. ASSUME NEW b \in Buckets, next[b] 
      PROVE  /\ "Erase" \notin program.kinds
             /\ \A s \in Slots : s[1] <= b => Filled(s)
  <2>1. PICK q \in P : q[1] = b + 1
    BY <1>2, <1>5
  <2>2. b \in Nat
    BY DEF Buckets
  <2>3. \A s \in Slots : s[1] <= b => Before(s, q)
    BY <2>1, <2>2, SlotParts DEF Before
  <2>4. "Erase" \notin program.kinds
    BY <1>3, <1>4, <2>1, <2>2 DEF KeysInv
  <2> QED BY <1>2, <1>3, <2>3, <2>4
<1>6. ASSUME NEW s \in P PROVE Linked(s)
  <2>1. ASSUME NEW b \in Buckets, b < s[1] PROVE next[b]
    <3>1. b + 1 \in Buckets /\ b + 1 <= s[1]
      BY <2>1, SlotParts, MaxBucketsAssumption DEF Buckets
    <3>2. <<b + 1, 0>> \in Slots /\ <<b + 1, 0>>[1] = b + 1
      BY <3>1, BucketSizeAssumption DEF Slots
    <3>3. <<b + 1, 0>> = s \/ Before(<<b + 1, 0>>, s)
      BY <3>1, SlotParts DEF Before, Buckets
    <3>4. <<b + 1, 0>> \in P
      BY <1>2, <3>2, <3>3
    <3> QED BY <1>2, <3>2, <3>4
  <2> QED BY <2>1 DEF Linked
<1>7. \A t \in Threads : Linked(pos[t]) /\ Searched(t)
  BY <1>2 DEF Linked, Searched, FirstSlot, Buckets
<1>8. \A s \in Slots : val[s] = {}
  BY DEF Init
<1> QED BY <1>3, <1>5, <1>6, <1>7, <1>8 DEF SearchInv, ChainFull

LEMMA SearchKeeps == MultimapInv /\ KeysInv /\ SearchInv /\ [Next]_vars => SearchInv'
<1> SUFFICES ASSUME MultimapInv, KeysInv, SearchInv, [Next]_vars PROVE SearchInv'
  OBVIOUS
<1>1. CASE UNCHANGED vars
  <2> USE <1>1 DEF vars, entries, chain
  <2>1. \A s \in Slots : (Filled(s)' <=> Filled(s)) /\ (Linked(s)' <=> Linked(s))
    BY DEF Filled, Linked
  <2>2. ChainFull'
    BY <2>1 DEF SearchInv, ChainFull
  <2>3. ASSUME NEW t \in Threads PROVE Linked(pos[t])' /\ Searched(t)'
    <3>1. Linked(pos[t]) /\ Searched(t)
      BY DEF SearchInv
    <3> QED BY <3>1 DEF Searched, Passed, Filled, Linked, MyKey
  <2> QED BY <2>1, <2>2, <2>3 DEF SearchInv
<1>2. CASE \E t \in Threads : CallAny(t) \/ Step(t)
  <2>1. PICK t \in Threads : CallAny(t) \/ Step(t)
    BY <1>2
  <2>2. /\ ChainFull' 
        /\ \A s \in Slots : state'[s] # "EMPTY" => Linked(s)'
        /\ \A s \in Slots : ~Filled(s)' => val'[s] = {}
    BY <2>1, ChainStaysFull, LinksStay
  <2>3. \A u \in Threads : Linked(pos[u])' /\ Searched(u)'
    BY <2>1, PositionsLinked, OthersSearched, MoverSearched
  <2> QED BY <2>2, <2>3 DEF SearchInv
<1> QED BY <1>1, <1>2 DEF Next, Terminating

-----------------------------------------------------------------------------
(* The list implements the map of ConcurrentMap.                           *)

InMap(k) == \E s \in Slots : Filled(s) /\ key[s] = k

\* The value of a key is the one of its entry, in this state ...
LEMMA MapOfFilled == 
  ASSUME TypeOK, UniqueKeys, NEW k \in Keys
  PROVE  /\ \A s \in Slots : Filled(s) /\ key[s] = k 
              => mapOf[k] = val[s] /\ mapOf[k] # Absent
         /\ ~InMap(k) => mapOf[k] = Absent
<1>1. ASSUME NEW s \in Slots, Filled(s), key[s] = k PROVE mapOf[k] = val[s]
  <2>1. s = CHOOSE q \in Slots : Filled(q) /\ key[q] = k
    BY <1>1 DEF UniqueKeys
  <2> QED BY <1>1, <2>1 DEF mapOf
<1>2. ~InMap(k) => mapOf[k] = Absent
  BY DEF mapOf, InMap
<1>3. \A s \in Slots : val[s] # Absent
  BY AbsentAssumption DEF TypeOK
<1> QED BY <1>1, <1>2, <1>3

\* ... and in the next one.
LEMMA NextMapOfFilled == 
  ASSUME UniqueKeys', NEW k \in Keys
  PROVE  /\ \A s \in Slots : Filled(s)' /\ key'[s] = k => mapOf'[k] = val'[s]
         /\ (\A s \in Slots : Filled(s)' => key'[s] # k) => mapOf'[k] = Absent
<1>1. ASSUME NEW s \in Slots, Filled(s)', key'[s] = k PROVE mapOf'[k] = val'[s]
  <2>1. s = CHOOSE q \in Slots : Filled(q)' /\ key'[q] = k
    BY <1>1 DEF UniqueKeys
  <2> QED BY <1>1, <2>1 DEF mapOf
<1>2. ASSUME \A s \in Slots : Filled(s)' => key'[s] # k PROVE mapOf'[k] = Absent
  BY <1>2 DEF mapOf
<1> QED BY <1>1, <1>2

\* A step that changes the entry of one key changes that key only.
LEMMA MapOfElse == 
  ASSUME TypeOK, UniqueKeys, UniqueKeys', NEW j \in Keys,
         \A s \in Slots : Filled(s) /\ key[s] = j 
           => Filled(s)' /\ key'[s] = j /\ val'[s] = val[s],
         \A s \in Slots : Filled(s)' /\ key'[s] = j => Filled(s) /\ key[s] = j
  PROVE  mapOf'[j] = mapOf[j]
<1>1. CASE InMap(j)
  <2>1. PICK s \in Slots : Filled(s) /\ key[s] = j
    BY <1>1 DEF InMap
  <2> QED BY <2>1, MapOfFilled, NextMapOfFilled
<1>2. CASE ~InMap(j)
  BY <1>2, MapOfFilled, NextMapOfFilled DEF InMap
<1> QED BY <1>1, <1>2

\* a search at the end of the entries knows that its key is not in the map
LEMMA EndIsAbsent == 
  ASSUME TypeOK, UniqueKeys, NEW s \in Slots, NEW t \in Threads, Passed(t, s), 
         Filled(s) => key[s] # MyKey(t), MyKey(t) \in Keys,
         \A p \in Slots : Before(s, p) => state[p] = "EMPTY"
  PROVE  mapOf[MyKey(t)] = Absent
<1>1. ~InMap(MyKey(t))
  BY BeforeIsTotal DEF InMap, Passed, Filled
<1> QED BY <1>1, MapOfFilled

StepOf(t) == 
  /\ t \in Threads /\ (CallAny(t) \/ Step(t))
  /\ MultimapInv /\ KeysInv /\ SearchInv /\ MultimapInv' /\ KeysInv'

\* what a step may take for granted
LEMMA StepFacts == 
  ASSUME NEW t, StepOf(t)
  PROVE  /\ t \in Threads /\ TypeOK /\ TypeOK' /\ UniqueKeys /\ UniqueKeys'
         /\ pos[t] \in Slots /\ KindOf(t) /\ Seen(t) /\ Searched(t) 
         /\ pc[t] # "idle" => MyKey(t) \in Keys
<1>1. t \in Threads /\ Seen(t) /\ TypeOK
  BY DEF StepOf, KeysInv, MultimapInv
<1>2. program.keys \subseteq Keys
  BY <1>1, ProgramsAssumption DEF TypeOK
<1>3. pc[t] # "idle" => MyKey(t) \in Keys
  BY <1>1, <1>2 DEF Seen
<1> QED BY <1>1, <1>3 DEF StepOf, KeysInv, MultimapInv, SearchInv, TypeOK

LEMMA MapOfSame == 
  ASSUME NEW t, StepOf(t), pc[t] \notin {"erase", "fill"}, ~Writes(t)
  PROVE  mapOf' = mapOf
<1>1. t \in Threads /\ MultimapInv /\ (CallAny(t) \/ Step(t))
  BY DEF StepOf
<1>2. \A s \in Slots : (Filled(s)' <=> Filled(s)) /\ key'[s] = key[s] /\ val'[s] = val[s]
  BY FilledMoves, ValMoves DEF StepOf
<1>3. \A j \in Keys : mapOf'[j] = mapOf[j]
  BY <1>2, StepFacts, MapOfElse
<1>4. mapOf = [k \in Keys |-> mapOf[k]] /\ mapOf' = [k \in Keys |-> mapOf'[k]]
  BY DEF mapOf
<1> QED BY <1>3, <1>4

Finished == {"count", "publish", "unlock", "leave", "failed"}

\* every step is one of the map's, or changes nothing that it shows
Simulates == Abstract!Next \/ UNCHANGED Abstract!vars

LEMMA PhasesMapped == 
  ASSUME NEW t, StepOf(t)
  PROVE  /\ phaseOf' = [phaseOf EXCEPT ![t] = phaseOf'[t]]
         /\ op' = [op EXCEPT ![t] = op'[t]] /\ nops' = [nops EXCEPT ![t] = nops'[t]]
         /\ read' = [read EXCEPT ![t] = read'[t]] /\ res' = [res EXCEPT ![t] = res'[t]]
         /\ phaseOf = [phaseOf EXCEPT ![t] = phaseOf[t]]
<1>1. /\ t \in Threads /\ TypeOK /\ TypeOK'
      /\ \A u \in Threads \ {t} : 
           /\ pc'[u] = pc[u] /\ op'[u] = op[u] /\ read'[u] = read[u] 
           /\ res'[u] = res[u] /\ nops'[u] = nops[u]
  BY StepFacts, OthersStay DEF StepOf
<1>2. phaseOf' = [phaseOf EXCEPT ![t] = phaseOf'[t]] 
      /\ phaseOf = [phaseOf EXCEPT ![t] = phaseOf[t]]
  BY <1>1 DEF phaseOf
<1>3. /\ op' = [op EXCEPT ![t] = op'[t]] /\ nops' = [nops EXCEPT ![t] = nops'[t]]
      /\ read' = [read EXCEPT ![t] = read'[t]] /\ res' = [res EXCEPT ![t] = res'[t]]
  BY <1>1 DEF TypeOK
<1> QED BY <1>2, <1>3

LEMMA PhaseOf == 
  ASSUME NEW t \in Threads
  PROVE  /\ phaseOf[t] = IF pc[t] = "idle" THEN "idle" 
                         ELSE IF pc[t] \in Finished THEN "finished" ELSE "running"
         /\ phaseOf'[t] = IF pc'[t] = "idle" THEN "idle" 
                          ELSE IF pc'[t] \in Finished THEN "finished" ELSE "running"
BY DEF phaseOf, Finished

\* a step that the map does not show
LEMMA HiddenStep == 
  ASSUME NEW t, StepOf(t), mapOf' = mapOf, UNCHANGED <<op, read, nops>>, 
         res'[t] = res[t], pc[t] # "idle", pc'[t] # "idle", 
         pc[t] \in Finished <=> pc'[t] \in Finished
  PROVE  Simulates
<1>1. phaseOf'[t] = phaseOf[t]
  BY StepFacts, PhaseOf
<1>2. phaseOf' = phaseOf
  BY <1>1, PhasesMapped
<1>3. res' = res
  <2>1. res = [res EXCEPT ![t] = res[t]]
    BY StepFacts DEF TypeOK
  <2> QED BY <2>1, PhasesMapped
<1> QED BY <1>2, <1>3 DEF Simulates, Abstract!vars

LEMMA HiddenMoves == 
  ASSUME NEW t, StepOf(t), 
         \/ Enter(t) \/ Claim(t) \/ CountKey(t) \/ Unlock(t) \/ Grow(t) 
         \/ AwaitEntry(t) \/ Compare(t) \/ Probe(t) \/ LockEntry(t)
  PROVE  Simulates
<1>1. /\ t \in Threads /\ TypeOK /\ UNCHANGED <<op, read, res, nops>>
  BY StepFacts DEF Enter, Claim, CountKey, Unlock, Grow, AwaitEntry, Compare, Probe, 
     LockEntry
<1>2. /\ pc[t] \notin {"idle", "erase", "fill", "work"}
      /\ pc'[t] # "idle" /\ (pc[t] \in Finished <=> pc'[t] \in Finished)
  <2>1. CASE Enter(t)
    BY <2>1, <1>1, EnterMoves DEF FirstStep, Finished
  <2>2. CASE Grow(t)
    BY <2>2, <1>1, GrowMoves DEF Finished, StepOf, MultimapInv
  <2>3. CASE ~Enter(t) /\ ~Grow(t)
    BY <2>3, <1>1 DEF Claim, CountKey, Unlock, AwaitEntry, Compare, Probe, 
       LockEntry, NextEntry, Goto, Finished, TypeOK
  <2> QED BY <2>1, <2>2, <2>3
<1>3. mapOf' = mapOf
  BY <1>2, MapOfSame DEF Writes
<1> QED BY <1>1, <1>2, <1>3, HiddenStep

LEMMA CallSimulates == 
  ASSUME NEW t, StepOf(t), NEW kind \in program.kinds, NEW k \in program.keys, 
         Call(t, kind, k)
  PROVE  Simulates
<1>1. t \in Threads /\ TypeOK /\ TypeOK' /\ kind \in AllKinds /\ k \in Keys
      /\ program.ops \in Nat /\ program.ops <= MaxOps
  BY StepFacts, ProgramsAssumption, MaxOpsAssumption DEF TypeOK
<1>2. /\ pc[t] = "idle" /\ nops[t] < program.ops /\ pc'[t] = "enter"
      /\ op'[t] = [kind |-> kind, key |-> k] /\ nops'[t] = nops[t] + 1
      /\ res'[t] = "none" /\ read'[t] = {}
  BY <1>1 DEF Call, Goto, TypeOK
<1>3. mapOf' = mapOf
  BY <1>2, MapOfSame DEF Writes
<1>4. phaseOf[t] = "idle" /\ phaseOf'[t] = "running"
  BY <1>1, <1>2, PhaseOf DEF Finished
<1>5. nops[t] < MaxOps
  BY <1>1, <1>2, MaxOpsAssumption DEF TypeOK
<1>6. Abstract!Call(t)
  BY <1>1, <1>2, <1>3, <1>4, <1>5, PhasesMapped DEF Abstract!Call
<1> QED BY <1>1, <1>6 DEF Simulates, Abstract!Next

LEMMA ReturnSimulates == 
  ASSUME NEW t, StepOf(t), Leave(t) \/ ReturnFailed(t)
  PROVE  Simulates
<1>1. /\ t \in Threads /\ TypeOK /\ UNCHANGED <<op, read, res, nops>>
      /\ pc[t] \in {"leave", "failed"} /\ pc'[t] = "idle"
  BY StepFacts DEF Leave, ReturnFailed, Goto, TypeOK
<1>2. mapOf' = mapOf
  BY <1>1, MapOfSame DEF Writes
<1>3. phaseOf[t] = "finished" /\ phaseOf'[t] = "idle"
  BY <1>1, PhaseOf DEF Finished
<1>4. Abstract!Return(t)
  BY <1>1, <1>2, <1>3, PhasesMapped DEF Abstract!Return
<1> QED BY <1>1, <1>4 DEF Simulates, Abstract!Next

\* a search that goes on looks for a key of the map
LEMMA SearchFacts == 
  ASSUME NEW t, StepOf(t), pc[t] \in {"scan", "hop"}
  PROVE  /\ op[t].kind \in {"Lookup", "RemoteLookup", "TryApply", "BlockingApply"}
         /\ MyKey(t) \in Keys /\ phaseOf[t] = "running" /\ mapOf' = mapOf
<1>1. t \in Threads /\ TypeOK /\ KindOf(t) /\ MyKey(t) \in Keys
  BY StepFacts
<1>2. op[t].kind \in AllKinds /\ op[t].kind \notin {"Insert", "Erase"}
  BY <1>1 DEF TypeOK, KindOf, InsidePCs, Is
<1>3. mapOf' = mapOf
  BY MapOfSame DEF Writes
<1> QED BY <1>1, <1>2, <1>3, PhaseOf DEF AllKinds, LookupKinds, ApplyKinds, Finished

LEMMA MissSimulates == 
  ASSUME NEW t, StepOf(t), pc[t] \in {"scan", "hop"}, 
         res[t] = "absent" \/ mapOf[MyKey(t)] = Absent,
         pc'[t] = "leave", res'[t] = "not_found", UNCHANGED <<op, read, nops>>
  PROVE  Simulates
<1>1. t \in Threads /\ phaseOf'[t] = "finished"
  BY StepFacts, PhaseOf DEF Finished
<1>2. Abstract!Miss(t)
  BY <1>1, SearchFacts, PhasesMapped 
     DEF Abstract!Miss, Abstract!Running, Abstract!In, Abstract!Searches, 
         Abstract!Finish, MyKey
<1> QED BY <1>1, <1>2 DEF Simulates, Abstract!Next

LEMMA AbsenceSimulates == 
  ASSUME NEW t, StepOf(t), pc[t] = "scan", pc'[t] = "hop", res'[t] = "absent",
         UNCHANGED <<op, read, nops>>,
         \/ mapOf[MyKey(t)] = Absent
         \/ Is(t, ApplyKinds) /\ \E u \in Threads \ {t} : pc[u] # "idle"
  PROVE  Simulates
<1>1. t \in Threads /\ phaseOf'[t] = phaseOf[t]
  BY StepFacts, PhaseOf DEF Finished
<1>2. phaseOf' = phaseOf
  BY <1>1, PhasesMapped
<1>3. \A u \in Threads : pc[u] # "idle" => phaseOf[u] # "idle"
  BY PhaseOf
<1>4. Abstract!SeeAbsent(t)
  BY <1>1, <1>2, <1>3, SearchFacts, PhasesMapped 
     DEF Abstract!SeeAbsent, Abstract!Running, Abstract!In, Abstract!Searches, 
         MyKey, Is
<1> QED BY <1>1, <1>4 DEF Simulates, Abstract!Next

LEMMA ScanSimulates == 
  ASSUME NEW t, StepOf(t), Scan(t)
  PROVE  Simulates
<1>1. /\ t \in Threads /\ TypeOK /\ UniqueKeys /\ pos[t] \in Slots /\ Searched(t)
      /\ MultimapInv /\ KeysInv /\ SearchInv /\ MyKey(t) \in Keys
      /\ pc[t] = "scan" /\ UNCHANGED <<op, read, nops>>
  BY StepFacts DEF StepOf, Scan
<1>2. CASE state[pos[t]] = "EMPTY"
  <2>1. ~next[pos[t][1]] /\ \A p \in Slots : Before(pos[t], p) => state[p] = "EMPTY"
    BY <1>1, <1>2, EmptyEndsList
  <2>2. ASSUME NEW s, s = pos[t] PROVE ~Filled(s)
    BY <1>2, <2>2 DEF Filled
  <2>3. res[t] = "absent" \/ mapOf[MyKey(t)] = Absent
    BY <1>1, <2>1, <2>2, EndIsAbsent DEF Searched
  <2>4. \/ pc'[t] = "leave" /\ res'[t] = "not_found"
        \/ pc'[t] = "hop" /\ res'[t] = "absent"
    BY <1>1, <1>2, <2>1 DEF Scan, LeaveBucket, ReturnWith, SetOutcome, Goto, TypeOK, 
       Is, LookupKinds, ApplyKinds
  <2>5. CASE pc'[t] = "leave" /\ res'[t] = "not_found"
    BY <1>1, <2>3, <2>5, MissSimulates
  <2>6. CASE pc'[t] = "hop" /\ res'[t] = "absent" /\ res[t] = "absent"
    BY <1>1, <2>6, SearchFacts, HiddenStep DEF Finished
  <2>7. CASE pc'[t] = "hop" /\ res'[t] = "absent" /\ res[t] # "absent"
    BY <1>1, <2>3, <2>7, AbsenceSimulates
  <2> QED BY <2>4, <2>5, <2>6, <2>7
<1>3. CASE state[pos[t]] # "EMPTY" /\ ~(state[pos[t]] = "PENDING_INSERT" /\ Is(t, ApplyKinds))
  <2>1. pc'[t] \in {"await", "probe"} /\ res' = res
    BY <1>1, <1>3 DEF Scan, Goto, TypeOK, Is, LookupKinds, ApplyKinds
  <2> QED BY <1>1, <2>1, SearchFacts, HiddenStep DEF Finished
<1>4. CASE state[pos[t]] = "PENDING_INSERT" /\ Is(t, ApplyKinds)
  <2>1. pc'[t] = "hop" /\ res'[t] = "absent"
    BY <1>1, <1>4 DEF Scan, SetOutcome, Goto, TypeOK, Is, LookupKinds, ApplyKinds
  <2>2. PICK u \in Threads : Holds(u, pos[t])
    BY <1>1, <1>4 DEF MultimapInv, OwnersInv, Pending
  <2>3. u # t /\ pc[u] # "idle"
    BY <1>1, <2>2 DEF Holds, HoldingPCs
  <2> QED BY <1>1, <1>4, <2>1, <2>3, AbsenceSimulates
<1> QED BY <1>2, <1>3, <1>4

\* beyond the last bucket of the chain there is nothing
LEMMA LastBucketSeen == 
  ASSUME SearchInv, NEW s \in Slots, LastInBucket(s), ~next[s[1]]
  PROVE  \A p \in Slots : Before(s, p) => state[p] = "EMPTY"
<1> SUFFICES ASSUME NEW p \in Slots, Before(s, p), state[p] # "EMPTY" PROVE FALSE
  OBVIOUS
<1>1. s[1] < p[1] /\ s[1] \in Buckets
  BY SlotParts, BucketSizeAssumption DEF Before, LastInBucket
<1>2. Linked(p)
  BY DEF SearchInv
<1> QED BY <1>1, <1>2 DEF Linked

LEMMA HopSimulates == 
  ASSUME NEW t, StepOf(t), Hop(t)
  PROVE  Simulates
<1>1. /\ t \in Threads /\ TypeOK /\ UniqueKeys /\ pos[t] \in Slots /\ Searched(t)
      /\ SearchInv /\ MyKey(t) \in Keys
      /\ pc[t] = "hop" /\ UNCHANGED <<op, read, nops>>
  BY StepFacts DEF StepOf, Hop
<1>2. CASE next[pos[t][1]]
  <2>1. pc'[t] = "scan" /\ res' = res
    BY <1>1, <1>2 DEF Hop, EnterNextBucket, Goto, TypeOK
  <2> QED BY <1>1, <2>1, SearchFacts, HiddenStep DEF Finished
<1>3. CASE ~next[pos[t][1]]
  <2>1. pc'[t] = "leave" /\ res'[t] = "not_found"
    BY <1>1, <1>3 DEF Hop, ReturnWith, SetOutcome, Goto, TypeOK
  <2>2. CASE res[t] = "absent"
    BY <1>1, <2>1, <2>2, MissSimulates
  <2>3. CASE res[t] # "absent"
    <3>1. LastInBucket(pos[t]) /\ Passed(t, pos[t]) /\ key[pos[t]] # MyKey(t)
      BY <1>1, <2>3 DEF Searched
    <3>2. mapOf[MyKey(t)] = Absent
      BY <1>1, <1>3, <3>1, LastBucketSeen, EndIsAbsent
    <3> QED BY <1>1, <2>1, <3>2, MissSimulates
  <2> QED BY <2>2, <2>3
<1> QED BY <1>2, <1>3

\* a try is refused only at an entry that another task holds for its key
LEMMA RefusalSimulates == 
  ASSUME NEW t, StepOf(t), TryFails(t)
  PROVE  Simulates
<1>1. /\ t \in Threads /\ TypeOK /\ UniqueKeys /\ pos[t] \in Slots /\ Seen(t)
      /\ MultimapInv /\ KeysInv /\ MyKey(t) \in Keys /\ op[t].kind = "TryApply"
      /\ pc[t] = "lock" /\ UNCHANGED <<op, read, nops>> 
      /\ pc'[t] = "failed" /\ res'[t] = "FAILED" /\ state[pos[t]] # "USED"
  BY StepFacts DEF StepOf, TryFails, SetOutcome, Goto, TypeOK, Is
<1>2. Filled(pos[t]) /\ key[pos[t]] = MyKey(t) /\ state[pos[t]] # "EMPTY"
  BY <1>1 DEF Seen, Filled
<1>3. pos[t] \in Pending
  BY <1>1, <1>2 DEF TypeOK, EntryStates, Pending
<1>4. PICK u \in Threads : Holds(u, pos[t])
  BY <1>1, <1>3 DEF MultimapInv, OwnersInv
<1>5. u # t /\ pc[u] \in {"work", "unlock", "count", "publish"} /\ Seen(u)
  BY <1>1, <1>2, <1>4 DEF Holds, HoldingPCs, Filled, KeysInv
<1>6. op[u].key = op[t].key
  BY <1>2, <1>4, <1>5 DEF Seen, Holds, MyKey
<1>7. mapOf[MyKey(t)] # Absent
  BY <1>1, <1>2, MapOfFilled
<1>8. phaseOf[t] = "running" /\ phaseOf'[t] = "finished" /\ phaseOf[u] # "idle"
  BY <1>1, <1>5, PhaseOf DEF Finished
<1>9. mapOf' = mapOf
  BY <1>1, MapOfSame DEF Writes
<1>10. Abstract!Refuse(t)
  BY <1>1, <1>5, <1>6, <1>7, <1>8, <1>9, PhasesMapped 
     DEF Abstract!Refuse, Abstract!Running, Abstract!In, Abstract!Finish, MyKey
<1> QED BY <1>1, <1>10 DEF Simulates, Abstract!Next

\* no operation of a multimap keeps others from writing
LEMMA NothingIsReserved == 
  ASSUME TypeOK, NEW t PROVE ~Abstract!Reserved(t)
BY DEF Abstract!Reserved, TypeOK, Outcomes

\* an entry that is written is the one of its key
LEMMA MapOfWritten == 
  ASSUME NEW t, StepOf(t), Writes(t), MyKey(t) \in Keys, 
         pc[t] = "work" => key[pos[t]] = MyKey(t) /\ Filled(pos[t])
  PROVE  mapOf' = [mapOf EXCEPT ![MyKey(t)] = val[pos[t]] \cup {Tok(t)}]
<1>1. /\ t \in Threads /\ TypeOK /\ UniqueKeys /\ UniqueKeys' /\ pos[t] \in Slots
      /\ MultimapInv /\ (CallAny(t) \/ Step(t)) /\ pc[t] \in {"fill", "work"}
  BY StepFacts DEF StepOf, Writes
<1>2. /\ \A s \in Slots : 
           /\ Filled(s)' <=> Filled(s) \/ (pc[t] = "fill" /\ s = pos[t])
           /\ key'[s] = IF pc[t] = "fill" /\ s = pos[t] THEN MyKey(t) ELSE key[s]
      /\ pc[t] = "fill" => ~Filled(pos[t])
      /\ val' = [val EXCEPT ![pos[t]] = @ \cup {Tok(t)}]
  BY <1>1, FilledMoves, ValMoves
<1>3. ASSUME NEW s \in Slots, s = pos[t]
      PROVE  /\ Filled(s)' /\ key'[s] = MyKey(t) /\ val'[s] = val[s] \cup {Tok(t)}
             /\ Filled(s) => key[s] = MyKey(t)
  BY <1>1, <1>2, <1>3 DEF TypeOK
<1>4. ASSUME NEW s \in Slots, s # pos[t]
      PROVE  (Filled(s)' <=> Filled(s)) /\ key'[s] = key[s] /\ val'[s] = val[s]
  BY <1>1, <1>2, <1>4 DEF TypeOK
<1>5. mapOf'[MyKey(t)] = val[pos[t]] \cup {Tok(t)}
  BY <1>1, <1>3, NextMapOfFilled
<1>6. ASSUME NEW j \in Keys, j # MyKey(t) PROVE mapOf'[j] = mapOf[j]
  BY <1>1, <1>3, <1>4, <1>6, MapOfElse
<1>7. mapOf = [k \in Keys |-> mapOf[k]] /\ mapOf' = [k \in Keys |-> mapOf'[k]]
  BY DEF mapOf
<1> HIDE DEF mapOf
<1> QED BY <1>5, <1>6, <1>7

LEMMA FillSimulates == 
  ASSUME NEW t, StepOf(t), Fill(t)
  PROVE  Simulates
<1>1. /\ t \in Threads /\ TypeOK /\ UniqueKeys /\ pos[t] \in Slots /\ Seen(t) 
      /\ KindOf(t) /\ MultimapInv /\ KeysInv /\ SearchInv /\ MyKey(t) \in Keys 
      /\ pc[t] = "fill" /\ UNCHANGED <<op, read, nops>> 
      /\ pc'[t] = "count" /\ res'[t] = "true"
  BY StepFacts DEF StepOf, Fill, SetOutcome, Goto, TypeOK
<1>2. op[t].kind = "Insert"
  BY <1>1 DEF KindOf, Is
<1>3. ~Filled(pos[t]) /\ val[pos[t]] = {}
  BY <1>1, FilledMoves DEF SearchInv, StepOf
<1>4. \A p \in Slots : Before(pos[t], p) => state[p] = "EMPTY"
  BY <1>1, <1>3 DEF KeysInv, FilledInOrder
<1>5. Passed(t, pos[t])
  BY <1>1, <1>2 DEF Seen, Passed, Is
<1>6. mapOf[MyKey(t)] = Absent
  BY <1>1, <1>3, <1>4, <1>5, EndIsAbsent
<1>7. mapOf' = [mapOf EXCEPT ![MyKey(t)] = {} \cup {Tok(t)}]
  BY <1>1, <1>3, MapOfWritten DEF Writes
<1>8. phaseOf[t] = "running" /\ phaseOf'[t] = "finished"
  BY <1>1, PhaseOf DEF Finished
<1>9. Abstract!Add(t)
  BY <1>1, <1>2, <1>6, <1>7, <1>8, PhasesMapped, NothingIsReserved
     DEF Abstract!Add, Abstract!Running, Abstract!In, Abstract!Finish, Abstract!Put,
         Abstract!Token, MyKey, Tok
<1> QED BY <1>1, <1>9 DEF Simulates, Abstract!Next

LEMMA WorkSimulates == 
  ASSUME NEW t, StepOf(t), Work(t)
  PROVE  Simulates
<1>1. /\ t \in Threads /\ TypeOK /\ UniqueKeys /\ pos[t] \in Slots /\ Seen(t) 
      /\ KindOf(t) /\ MyKey(t) \in Keys /\ pc[t] = "work" /\ UNCHANGED <<op, nops>> 
      /\ pc'[t] = "unlock"
  BY StepFacts DEF StepOf, Work, Goto, TypeOK
<1>2. op[t].kind \in {"Insert"} \cup LookupKinds \cup ApplyKinds
  BY <1>1 DEF KindOf, Is, InsidePCs, TypeOK, AllKinds
<1>3. Filled(pos[t]) /\ key[pos[t]] = MyKey(t)
  BY <1>1 DEF Seen
<1>4. mapOf[MyKey(t)] = val[pos[t]] /\ mapOf[MyKey(t)] # Absent
  BY <1>1, <1>3, MapOfFilled
<1>5. phaseOf[t] = "running" /\ phaseOf'[t] = "finished"
  BY <1>1, PhaseOf DEF Finished
<1>6. CASE Is(t, LookupKinds)
  <2>1. read'[t] = mapOf[MyKey(t)] /\ res'[t] = "found"
    BY <1>1, <1>4, <1>6 DEF Work, SetOutcome, TypeOK
  <2>2. mapOf' = mapOf
    BY <1>1, <1>6, MapOfSame DEF Writes
  <2>3. Abstract!Hit(t)
    BY <1>1, <1>4, <1>5, <1>6, <2>1, <2>2, PhasesMapped
       DEF Abstract!Hit, Abstract!Running, Abstract!In, Abstract!Finish, MyKey, Is, 
           LookupKinds
  <2> QED BY <1>1, <2>3 DEF Simulates, Abstract!Next
<1>7. CASE ~Is(t, LookupKinds)
  <2>1. mapOf' = [mapOf EXCEPT ![MyKey(t)] = mapOf[MyKey(t)] \cup {Tok(t)}]
    BY <1>1, <1>3, <1>4, <1>7, MapOfWritten DEF Writes
  <2>2. read' = read 
        /\ res'[t] = IF Is(t, ApplyKinds) THEN "SUCCESS" ELSE "true"
    BY <1>1, <1>7 DEF Work, SetOutcome, TypeOK
  <2>3. CASE op[t].kind = "Insert"
    <3>1. res'[t] = "true"
      BY <2>2, <2>3 DEF Is, ApplyKinds
    <3>2. Abstract!Add(t)
      BY <1>1, <1>4, <1>5, <2>1, <2>2, <2>3, <3>1, PhasesMapped, NothingIsReserved
         DEF Abstract!Add, Abstract!Running, Abstract!In, Abstract!Finish, 
             Abstract!Put, Abstract!Token, MyKey, Tok
    <3> QED BY <1>1, <3>2 DEF Simulates, Abstract!Next
  <2>4. CASE Is(t, ApplyKinds)
    <3>1. Abstract!Apply(t)
      BY <1>1, <1>4, <1>5, <2>1, <2>2, <2>4, PhasesMapped, NothingIsReserved
         DEF Abstract!Apply, Abstract!Running, Abstract!In, Abstract!Finish, 
             Abstract!Put, Abstract!Token, MyKey, Tok, Is, ApplyKinds
    <3> QED BY <1>1, <3>1 DEF Simulates, Abstract!Next
  <2> QED BY <1>2, <1>7, <2>3, <2>4 DEF Is
<1> QED BY <1>6, <1>7

\* Erase takes its key, and no other, from the map
LEMMA MapOfErased == 
  ASSUME NEW t, StepOf(t), pc[t] = "erase"
  PROVE  mapOf' = [mapOf EXCEPT ![MyKey(t)] = Absent]
<1>1. /\ t \in Threads /\ TypeOK /\ UniqueKeys /\ UniqueKeys' /\ MyKey(t) \in Keys 
      /\ MultimapInv /\ KeysInv /\ (CallAny(t) \/ Step(t))
  BY StepFacts DEF StepOf
<1>2. EraseKey(t)
  BY <1>1, ErasesAtErase
<1>3. pc'[t] = "leave" /\ \A u \in Threads \ {t} : pc'[u] = pc[u] /\ pc[u] # "fill"
  <2>1. pc'[t] = "leave" /\ \A u \in Threads \ {t} : pc'[u] = pc[u] 
    BY <1>1, <1>2, WorkMoves DEF Works
  <2>2. \A u \in Threads \ {t} : pc[u] \in {"idle", "enter"}
    BY <1>1, InvIsAlone DEF EraseAlone
  <2> QED BY <2>1, <2>2
<1>4. \A s \in Slots : /\ Filled(s) <=> state[s] # "EMPTY"
                       /\ Filled(s)' <=> state'[s] # "EMPTY"
  BY <1>1, <1>3 DEF Filled
<1>5. mapOf = [k \in Keys |-> mapOf[k]] /\ mapOf' = [k \in Keys |-> mapOf'[k]]
  BY DEF mapOf
<1>6. CASE Matching(MyKey(t)) = {}
  <2>1. key' = key /\ val' = val /\ state' = state
    BY <1>2, <1>6 DEF EraseKey, entries
  <2>2. ~InMap(MyKey(t))
    <3>1. ASSUME NEW s \in Slots, Filled(s), key[s] = MyKey(t) PROVE FALSE
      <4>1. ASSUME NEW p \in Slots, p[1] = s[1], p[2] <= s[2] PROVE state[p] # "EMPTY"
        <5>1. p = s \/ Before(p, s)
          BY <4>1, SlotParts DEF Before
        <5> QED BY <5>1, <4>1, <3>1, <1>1, <1>4 DEF MultimapInv, BucketsPacked
      <4>2. s \in Matching(MyKey(t))
        BY <3>1, <4>1 DEF Matching, UsedUpTo
      <4> QED BY <4>2, <1>6
    <3> QED BY <3>1 DEF InMap
  <2>3. \A s \in Slots : Filled(s)' => key'[s] # MyKey(t)
    BY <2>1, <2>2, <1>4 DEF InMap
  <2>4. mapOf'[MyKey(t)] = Absent
    BY <2>3, <1>1, NextMapOfFilled
  <2>5. \A j \in Keys : mapOf'[j] = mapOf[j]
    BY <2>1, <1>1, <1>4, MapOfElse
  <2> HIDE DEF mapOf
  <2> QED BY <1>5, <2>4, <2>5
<1>7. CASE Matching(MyKey(t)) # {}
  <2> DEFINE Moved(e, l) == 
               /\ key[e] = MyKey(t) /\ state[e] # "EMPTY" /\ state[l] # "EMPTY"
               /\ key' = [key EXCEPT ![e] = key[l]]
               /\ val' = [[val EXCEPT ![e] = val[l]] EXCEPT ![l] = {}]
               /\ state' = [state EXCEPT ![l] = "EMPTY"]
  <2>0. \E e, l \in Slots : Moved(e, l)
    BY <1>1, <1>2, <1>7, EraseEffect
  <2>1. PICK e \in Slots, l \in Slots : Moved(e, l)
    BY <2>0
  <2>2. \A s \in Slots : 
          /\ key'[s] = IF s = e THEN key[l] ELSE key[s]
          /\ s # l => val'[s] = IF s = e THEN val[l] ELSE val[s]
          /\ Filled(s)' <=> Filled(s) /\ s # l
    BY <2>1, <1>1, <1>4 DEF TypeOK
  <2>3. Filled(e) /\ Filled(l) /\ (key[l] = MyKey(t) => e = l)
    BY <2>1, <1>1, <1>4 DEF UniqueKeys
  <2>4. ASSUME NEW s \in Slots, Filled(s)' PROVE key'[s] # MyKey(t)
    BY <2>1, <2>2, <2>3, <2>4, <1>1 DEF UniqueKeys
  <2>5. mapOf'[MyKey(t)] = Absent
    BY <2>4, <1>1, NextMapOfFilled
  <2>6. ASSUME NEW j \in Keys, j # MyKey(t) PROVE mapOf'[j] = mapOf[j]
    <3>1. CASE key[l] = j
      <4>1. e # l /\ Filled(e)' /\ key'[e] = j /\ val'[e] = val[l]
        BY <2>1, <2>2, <2>3, <2>6, <3>1
      <4>2. mapOf'[j] = val[l]
        BY <4>1, <1>1, NextMapOfFilled
      <4>3. mapOf[j] = val[l]
        BY <3>1, <2>3, <1>1, MapOfFilled
      <4> QED BY <4>2, <4>3
    <3>2. CASE key[l] # j
      <4>1. \A s \in Slots : Filled(s) /\ key[s] = j 
              => Filled(s)' /\ key'[s] = j /\ val'[s] = val[s]
        BY <2>1, <2>2, <2>6, <3>2
      <4>2. \A s \in Slots : Filled(s)' /\ key'[s] = j => Filled(s) /\ key[s] = j
        BY <2>1, <2>2, <2>6, <3>2
      <4> QED BY <4>1, <4>2, <1>1, MapOfElse
    <3> QED BY <3>1, <3>2
  <2> HIDE DEF mapOf
  <2> QED BY <1>5, <2>5, <2>6
<1> QED BY <1>6, <1>7

LEMMA EraseSimulates == 
  ASSUME NEW t, StepOf(t), EraseKey(t)
  PROVE  Simulates
<1>1. /\ t \in Threads /\ TypeOK /\ pc[t] = "erase" /\ UNCHANGED <<op, read, nops>> 
      /\ pc'[t] = "leave" /\ res'[t] = "erased" /\ KindOf(t)
  BY StepFacts DEF EraseKey, ReturnWith, SetOutcome, Goto, TypeOK
<1>2. op[t].kind = "Erase"
  BY <1>1 DEF KindOf, Is
<1>3. mapOf' = [mapOf EXCEPT ![MyKey(t)] = Absent]
  BY <1>1, MapOfErased
<1>4. phaseOf[t] = "running" /\ phaseOf'[t] = "finished"
  BY <1>1, PhaseOf DEF Finished
<1>5. Abstract!Remove(t)
  BY <1>1, <1>2, <1>3, <1>4, PhasesMapped, NothingIsReserved
     DEF Abstract!Remove, Abstract!Running, Abstract!Finish, Abstract!Put, MyKey
<1> QED BY <1>1, <1>5 DEF Simulates, Abstract!Next

LEMMA InitSimulates == Init => Abstract!Init
<1> SUFFICES ASSUME Init PROVE Abstract!Init
  OBVIOUS
<1>1. pc = [t \in Threads |-> "idle"] /\ val = [s \in Slots |-> {}]
  BY DEF Init, ListInit
<1>2. mapOf \in [Keys -> {Absent, {}}]
  <2>1. ASSUME NEW k \in Keys PROVE mapOf[k] \in {Absent, {}}
    <3>1. CASE InMap(k)
      <4>1. mapOf[k] = val[CHOOSE s \in Slots : Filled(s) /\ key[s] = k]
        BY <3>1 DEF mapOf, InMap
      <4>2. (CHOOSE s \in Slots : Filled(s) /\ key[s] = k) \in Slots
        BY <3>1 DEF InMap
      <4> QED BY <1>1, <4>1, <4>2
    <3>2. CASE ~InMap(k)
      BY <3>2 DEF mapOf, InMap
    <3> QED BY <3>1, <3>2
  <2>2. mapOf = [k \in Keys |-> mapOf[k]]
    BY DEF mapOf
  <2> HIDE DEF mapOf
  <2> QED BY <2>1, <2>2
<1>3. phaseOf = [t \in Threads |-> "idle"]
  BY <1>1 DEF phaseOf
<1> QED BY <1>2, <1>3 DEF Init, Abstract!Init

LEMMA NextSimulates == 
  ASSUME MultimapInv, KeysInv, SearchInv, [Next]_vars, MultimapInv', KeysInv'
  PROVE  Simulates
<1>1. CASE UNCHANGED vars
  <2>1. /\ pc' = pc /\ pos' = pos /\ state' = state /\ key' = key /\ val' = val
        /\ op' = op /\ res' = res /\ read' = read /\ nops' = nops
    BY <1>1 DEF vars, entries
  <2>2. \A s \in Slots : Filled(s)' <=> Filled(s)
    BY <2>1 DEF Filled
  <2>3. mapOf' = mapOf /\ phaseOf' = phaseOf
    BY <2>1 DEF mapOf, phaseOf, Filled
  <2> QED BY <2>1, <2>3 DEF Simulates, Abstract!vars
<1>2. ASSUME NEW t \in Threads, CallAny(t) \/ Step(t) PROVE Simulates
  <2>1. StepOf(t)
    BY <1>2 DEF StepOf
  <2>2. CASE CallAny(t)
    BY <2>1, <2>2, CallSimulates DEF CallAny
  <2>3. CASE Step(t)
    BY <2>1, <2>3, HiddenMoves, ReturnSimulates, FillSimulates, ScanSimulates, 
       HopSimulates, RefusalSimulates, WorkSimulates, EraseSimulates DEF Step
  <2> QED BY <1>2, <2>2, <2>3
<1> QED BY <1>1, <1>2 DEF Next, Terminating

(* Where the programs that erase use no more keys than the first bucket    *)
(* holds, each operation of the multimap (Insert, the lookups, the         *)
(* blocking applies and Erase) takes effect on a map at one instant        *)
(* between its call and its return, but that an apply may miss a key while *)
(* another operation runs.                                                 *)
THEOREM MultimapIsLinearizable == RoomyPrograms /\ Spec => Linearizable
<1> DEFINE Inv == MultimapInv /\ KeysInv /\ SearchInv
<1>1. RoomyPrograms /\ Init => Inv
  BY InitEstablishes, KeysInit, SearchInit DEF RoomyPrograms
<1>2. Inv /\ [Next]_vars => Inv'
  BY NextKeeps, KeysKeep, SearchKeeps
<1>3. Inv /\ [Next]_vars => [Abstract!Next]_(Abstract!vars)
  BY <1>2, NextSimulates DEF Simulates
<1> QED BY <1>1, <1>2, <1>3, InitSimulates, PTL 
        DEF Spec, Linearizable, Abstract!Spec

=============================================================================
