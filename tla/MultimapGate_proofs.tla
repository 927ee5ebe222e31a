------------------------- MODULE MultimapGate_proofs -------------------------
(***************************************************************************)
(* Proofs about MultimapGate, for any finite set of tasks: its counters    *)
(* count what they should, a deleter is alone, and the gate implements the *)
(* read-write lock of ReadWriteLock.                                       *)
(***************************************************************************)
EXTENDS MultimapGate, FiniteSetTheorems, TLAPS

\* The sets the counters count are finite, and their cardinalities naturals.
LEMMA CountsAreNat == 
  /\ IsFiniteSet(Inside) /\ Cardinality(Inside) \in Nat
  /\ IsFiniteSet(Counted) /\ Cardinality(Counted) \in Nat
<1>1. Inside \in SUBSET Threads /\ Counted \in SUBSET Threads
  BY DEF Inside, Counted
<1>2. IsFiniteSet(Inside) /\ IsFiniteSet(Counted)
  BY <1>1, FS_Subset, ThreadsAssumption
<1> QED BY <1>2, FS_CardinalityType

\* What a move of one task does to those sets.
LEMMA MoveChangesSets == 
  ASSUME gate \in [Threads -> GatePoints], 
         NEW t \in Threads, NEW g \in GatePoints, GoGate(t, g)
  PROVE  /\ gate' \in [Threads -> GatePoints]
         /\ \A u \in Threads : gate'[u] = IF u = t THEN g ELSE gate[u]
         /\ Inside' = IF g = "inside" THEN Inside \cup {t} ELSE Inside \ {t}
         /\ Deleting' = IF g \in {"d_leave", "exclusive"} 
                          THEN Deleting \cup {t} ELSE Deleting \ {t}
         /\ Counted' = IF g \in {"d_read", "d_swap", "d_leave"} 
                         THEN Counted \cup {t} ELSE Counted \ {t}
<1>1. gate' = [gate EXCEPT ![t] = g]
  BY DEF GoGate
<1>2. gate' \in [Threads -> GatePoints]
  BY <1>1
<1>3. \A u \in Threads : gate'[u] = IF u = t THEN g ELSE gate[u]
  BY <1>1
<1>4. Inside' = IF g = "inside" THEN Inside \cup {t} ELSE Inside \ {t}
  BY <1>3 DEF Inside
<1>5. Deleting' = IF g \in {"d_leave", "exclusive"} 
                    THEN Deleting \cup {t} ELSE Deleting \ {t}
  BY <1>3 DEF Deleting
<1>6. Counted' = IF g \in {"d_read", "d_swap", "d_leave"} 
                   THEN Counted \cup {t} ELSE Counted \ {t}
  BY <1>3 DEF Counted
<1> QED BY <1>2, <1>3, <1>4, <1>5, <1>6

-----------------------------------------------------------------------------
LEMMA GateInvInit == GateInit => GateInv
<1> SUFFICES ASSUME GateInit PROVE GateInv
  OBVIOUS
<1>1. GateTypeOK
  BY DEF GateInit, GateTypeOK, GatePoints
<1>2. Inside = {} /\ Deleting = {} /\ Counted = {}
  BY DEF GateInit, Inside, Deleting, Counted
<1>3. MutualExclusion /\ SwapExpectsCount
  BY <1>2 DEF MutualExclusion, SwapExpectsCount, GateInit
<1>4. InsertersCounted /\ DeletersCounted
  BY <1>2, FS_EmptySet DEF InsertersCounted, DeletersCounted, GateInit
<1> QED BY <1>1, <1>3, <1>4 DEF GateInv

\* A step inside allow_inserter that lets nobody in changes no counter.
LEMMA InserterWaits == 
  ASSUME GateInv, NEW t \in Threads,
         ReadInserters(t) \/ TestDeleters(t) \/ CallAllowInserter(t)
         \/ (SwapInserters(t) /\ inserters # seen[t])
  PROVE  GateInv'
<1>1. GateTypeOK /\ MutualExclusion /\ InsertersCounted /\ DeletersCounted 
      /\ SwapExpectsCount
  BY DEF GateInv
<1>2. PICK g \in {"i_read", "i_test", "i_swap"} : 
        /\ GoGate(t, g) /\ UNCHANGED <<inserters, deleters>>
        /\ g = "i_swap" => seen[t] # HasDeleter /\ UNCHANGED seen
        /\ \/ UNCHANGED seen 
           \/ g = "i_test" /\ seen' = [seen EXCEPT ![t] = inserters]
  BY DEF ReadInserters, TestDeleters, CallAllowInserter, SwapInserters
<1>3. gate[t] \in {"out", "i_read", "i_test", "i_swap"}
  BY DEF ReadInserters, TestDeleters, CallAllowInserter, SwapInserters
<1>4. /\ gate' \in [Threads -> GatePoints]
      /\ \A u \in Threads : gate'[u] = IF u = t THEN g ELSE gate[u]
      /\ Inside' = Inside /\ Deleting' = Deleting /\ Counted' = Counted
  BY <1>1, <1>2, <1>3, MoveChangesSets DEF GateTypeOK, GatePoints, Inside, 
     Deleting, Counted
<1>5. GateTypeOK'
  BY <1>1, <1>2, <1>4 DEF GateTypeOK
<1>6. MutualExclusion' /\ InsertersCounted' /\ DeletersCounted'
  BY <1>1, <1>2, <1>4 DEF MutualExclusion, InsertersCounted, DeletersCounted
<1>7. SwapExpectsCount'
  BY <1>1, <1>2, <1>4 DEF SwapExpectsCount, GateTypeOK
<1> QED BY <1>5, <1>6, <1>7 DEF GateInv

\* allow_inserter lets t in: the count it swaps is the count it read, which
\* is not has_deleter, so no deleter is inside.
LEMMA InserterEnters == 
  ASSUME GateInv, NEW t \in Threads, SwapInserters(t), inserters = seen[t]
  PROVE  GateInv'
<1>1. GateTypeOK /\ MutualExclusion /\ InsertersCounted /\ DeletersCounted 
      /\ SwapExpectsCount
  BY DEF GateInv
<1>2. /\ gate[t] = "i_swap" /\ GoGate(t, "inside")
      /\ inserters' = inserters + 1 /\ UNCHANGED <<deleters, seen>>
  BY DEF SwapInserters
<1>3. Deleting = {} /\ inserters = Cardinality(Inside)
  BY <1>1, <1>2 DEF SwapExpectsCount, InsertersCounted
<1>4. /\ gate' \in [Threads -> GatePoints]
      /\ \A u \in Threads : gate'[u] = IF u = t THEN "inside" ELSE gate[u]
      /\ Inside' = Inside \cup {t} /\ Deleting' = Deleting \ {t}
      /\ Counted' = Counted \ {t}
  BY <1>1, <1>2, MoveChangesSets DEF GateTypeOK, GatePoints
<1>5. t \notin Inside /\ t \notin Counted
  BY <1>2 DEF Inside, Counted
<1>6. GateTypeOK'
  BY <1>1, <1>2, <1>4 DEF GateTypeOK
<1>7. Deleting' = {} /\ MutualExclusion'
  BY <1>3, <1>4 DEF MutualExclusion
<1>8. InsertersCounted'
  <2>1. Cardinality(Inside \cup {t}) = Cardinality(Inside) + 1
    BY <1>5, CountsAreNat, FS_AddElement
  <2> QED BY <2>1, <1>2, <1>3, <1>4, <1>7 DEF InsertersCounted
<1>9. Counted' = Counted
  BY <1>4, <1>5
<1>10. DeletersCounted' /\ SwapExpectsCount'
  BY <1>1, <1>2, <1>4, <1>9 DEF DeletersCounted, SwapExpectsCount
<1> QED BY <1>6, <1>7, <1>8, <1>10 DEF GateInv

LEMMA InserterLeaves == 
  ASSUME GateInv, NEW t \in Threads, ReleaseInserter(t)
  PROVE  GateInv'
<1>1. GateTypeOK /\ MutualExclusion /\ InsertersCounted /\ DeletersCounted 
      /\ SwapExpectsCount
  BY DEF GateInv
<1>2. /\ gate[t] = "inside" /\ GoGate(t, "out")
      /\ inserters' = inserters - 1 /\ UNCHANGED <<deleters, seen>>
  BY DEF ReleaseInserter
<1>3. t \in Inside /\ t \notin Counted
  BY <1>2 DEF Inside, Counted
<1>4. Deleting = {} /\ inserters = Cardinality(Inside)
  BY <1>1, <1>3 DEF InsertersCounted
<1>5. /\ gate' \in [Threads -> GatePoints]
      /\ \A u \in Threads : gate'[u] = IF u = t THEN "out" ELSE gate[u]
      /\ Inside' = Inside \ {t} /\ Deleting' = Deleting \ {t}
      /\ Counted' = Counted \ {t}
  BY <1>1, <1>2, MoveChangesSets DEF GateTypeOK, GatePoints
<1>6. /\ IsFiniteSet(Inside \ {t})
      /\ Cardinality(Inside \ {t}) = Cardinality(Inside) - 1
      /\ Cardinality(Inside \ {t}) \in Nat
  BY <1>3, CountsAreNat, FS_RemoveElement, FS_CardinalityType
<1>7. GateTypeOK'
  BY <1>1, <1>2, <1>4, <1>5, <1>6 DEF GateTypeOK
<1>8. Deleting' = {} /\ MutualExclusion'
  BY <1>4, <1>5 DEF MutualExclusion
<1>9. InsertersCounted'
  BY <1>2, <1>4, <1>5, <1>6, <1>8 DEF InsertersCounted
<1>10. Counted' = Counted
  BY <1>3, <1>5
<1>11. DeletersCounted' /\ SwapExpectsCount'
  BY <1>1, <1>2, <1>5, <1>10 DEF DeletersCounted, SwapExpectsCount
<1> QED BY <1>7, <1>8, <1>9, <1>11 DEF GateInv

-----------------------------------------------------------------------------
\* allow_deleter before its compare and exchange succeeds.
LEMMA DeleterWaits == 
  ASSUME GateInv, NEW t \in Threads,
         CallAllowDeleter(t) \/ ReadZero(t) 
         \/ (SwapDeleter(t) /\ inserters # 0)
  PROVE  GateInv'
<1>1. GateTypeOK /\ MutualExclusion /\ InsertersCounted /\ DeletersCounted 
      /\ SwapExpectsCount
  BY DEF GateInv
<1>2. PICK g \in {"d_read", "d_swap"} : GoGate(t, g) 
  BY DEF CallAllowDeleter, ReadZero, SwapDeleter
<1>3. UNCHANGED <<inserters, seen>>
  BY DEF CallAllowDeleter, ReadZero, SwapDeleter
<1>4. \/ gate[t] = "out" /\ deleters' = deleters + 1
      \/ gate[t] \in {"d_read", "d_swap"} /\ deleters' = deleters
  BY DEF CallAllowDeleter, ReadZero, SwapDeleter
<1>5. /\ gate' \in [Threads -> GatePoints]
      /\ \A u \in Threads : gate'[u] = IF u = t THEN g ELSE gate[u]
      /\ Inside' = Inside \ {t} /\ Deleting' = Deleting \ {t}
      /\ Counted' = Counted \cup {t}
  BY <1>1, <1>2, MoveChangesSets DEF GateTypeOK, GatePoints
<1>6. Inside' = Inside /\ Deleting' = Deleting
  BY <1>4, <1>5 DEF Inside, Deleting
<1>7. GateTypeOK'
  BY <1>1, <1>3, <1>4, <1>5 DEF GateTypeOK
<1>8. MutualExclusion' /\ InsertersCounted'
  BY <1>1, <1>3, <1>6 DEF MutualExclusion, InsertersCounted
<1>9. DeletersCounted'
  <2>1. CASE gate[t] = "out" /\ deleters' = deleters + 1
    <3>1. Cardinality(Counted \cup {t}) = Cardinality(Counted) + 1
      BY <2>1, CountsAreNat, FS_AddElement DEF Counted
    <3> QED BY <3>1, <2>1, <1>1, <1>5 DEF DeletersCounted
  <2>2. CASE gate[t] \in {"d_read", "d_swap"} /\ deleters' = deleters
    <3>1. Counted' = Counted
      BY <2>2, <1>5 DEF Counted
    <3> QED BY <3>1, <2>2, <1>1 DEF DeletersCounted
  <2> QED BY <2>1, <2>2, <1>4
<1>10. SwapExpectsCount'
  BY <1>1, <1>2, <1>3, <1>5 DEF SwapExpectsCount
<1> QED BY <1>7, <1>8, <1>9, <1>10 DEF GateInv

\* The exchange of 0 for has_deleter: 0 counts no inserter, and it is not
\* has_deleter, so no deleter is inside either.
LEMMA DeleterEnters == 
  ASSUME GateInv, NEW t \in Threads, SwapDeleter(t), inserters = 0
  PROVE  GateInv' /\ Inside = {} /\ Deleting = {} /\ Inside' = {} /\ Deleting' = {t}
<1>1. GateTypeOK /\ MutualExclusion /\ InsertersCounted /\ DeletersCounted 
      /\ SwapExpectsCount
  BY DEF GateInv
<1>2. /\ gate[t] = "d_swap" /\ GoGate(t, "d_leave")
      /\ inserters' = HasDeleter /\ UNCHANGED <<deleters, seen>>
  BY DEF SwapDeleter
<1>3. HasDeleter \in Nat /\ HasDeleter # 0
  <2>1. Cardinality(Threads) \in Nat
    BY ThreadsAssumption, FS_CardinalityType
  <2> QED BY <2>1, HasDeleterAssumption
<1>4. Deleting = {} /\ Cardinality(Inside) = 0
  BY <1>1, <1>3 DEF InsertersCounted
<1>5. Inside = {}
  BY <1>4, CountsAreNat, FS_EmptySet
<1>6. /\ gate' \in [Threads -> GatePoints]
      /\ \A u \in Threads : gate'[u] = IF u = t THEN "d_leave" ELSE gate[u]
      /\ Inside' = Inside \ {t} /\ Deleting' = Deleting \cup {t}
      /\ Counted' = Counted \cup {t}
  BY <1>1, <1>2, MoveChangesSets DEF GateTypeOK, GatePoints
<1>7. Inside' = {} /\ Deleting' = {t} /\ Counted' = Counted
  BY <1>2, <1>4, <1>5, <1>6 DEF Counted
<1>8. GateTypeOK'
  BY <1>1, <1>2, <1>3, <1>6 DEF GateTypeOK
<1>9. MutualExclusion' /\ InsertersCounted' /\ DeletersCounted'
  BY <1>1, <1>2, <1>7 DEF MutualExclusion, InsertersCounted, DeletersCounted
<1>10. SwapExpectsCount'
  BY <1>1, <1>2, <1>6 DEF SwapExpectsCount
<1> QED BY <1>4, <1>5, <1>7, <1>8, <1>9, <1>10 DEF GateInv

\* A deleter that has the list leaves deleter_array_, and then the list.
LEMMA DeleterLeaves == 
  ASSUME GateInv, NEW t \in Threads, LeaveWaiting(t) \/ ReleaseDeleter(t)
  PROVE  GateInv'
<1>1. GateTypeOK /\ MutualExclusion /\ InsertersCounted /\ DeletersCounted 
      /\ SwapExpectsCount
  BY DEF GateInv
<1>2. gate[t] \in {"d_leave", "exclusive"} /\ UNCHANGED seen
  BY DEF LeaveWaiting, ReleaseDeleter
<1>3. t \in Deleting
  BY <1>2 DEF Deleting
<1>4. Deleting = {t} /\ Inside = {} /\ inserters = HasDeleter
  <2>1. Inside = {} /\ inserters = HasDeleter
    BY <1>1, <1>3 DEF InsertersCounted
  <2>2. Deleting \subseteq Threads
    BY DEF Deleting
  <2> QED BY <1>1, <1>3, <2>1, <2>2 DEF MutualExclusion
<1>5. CASE LeaveWaiting(t)
  <2>1. /\ gate[t] = "d_leave" /\ GoGate(t, "exclusive")
        /\ deleters' = deleters - 1 /\ UNCHANGED inserters
    BY <1>5 DEF LeaveWaiting
  <2>2. /\ gate' \in [Threads -> GatePoints]
        /\ \A u \in Threads : gate'[u] = IF u = t THEN "exclusive" ELSE gate[u]
        /\ Inside' = Inside \ {t} /\ Deleting' = Deleting \cup {t}
        /\ Counted' = Counted \ {t}
    BY <1>1, <2>1, MoveChangesSets DEF GateTypeOK, GatePoints
  <2>3. /\ Cardinality(Counted \ {t}) = Cardinality(Counted) - 1
        /\ Cardinality(Counted \ {t}) \in Nat
    BY <2>1, CountsAreNat, FS_RemoveElement, FS_CardinalityType DEF Counted
  <2>4. Inside' = {} /\ Deleting' = {t}
    BY <1>4, <2>2
  <2>5. GateTypeOK' 
    BY <1>1, <1>2, <2>1, <2>2, <2>3 DEF GateTypeOK, DeletersCounted
  <2>6. MutualExclusion' /\ InsertersCounted' /\ DeletersCounted'
    BY <1>1, <1>4, <2>1, <2>2, <2>3, <2>4 
       DEF MutualExclusion, InsertersCounted, DeletersCounted
  <2>7. SwapExpectsCount'
    BY <1>1, <1>2, <2>2 DEF SwapExpectsCount
  <2> QED BY <2>5, <2>6, <2>7 DEF GateInv
<1>6. CASE ReleaseDeleter(t)
  <2>1. /\ gate[t] = "exclusive" /\ GoGate(t, "out")
        /\ inserters' = 0 /\ UNCHANGED deleters
    BY <1>6 DEF ReleaseDeleter
  <2>2. /\ gate' \in [Threads -> GatePoints]
        /\ \A u \in Threads : gate'[u] = IF u = t THEN "out" ELSE gate[u]
        /\ Inside' = Inside \ {t} /\ Deleting' = Deleting \ {t}
        /\ Counted' = Counted \ {t}
    BY <1>1, <2>1, MoveChangesSets DEF GateTypeOK, GatePoints
  <2>3. Inside' = {} /\ Deleting' = {} /\ Counted' = Counted
    BY <1>4, <2>1, <2>2 DEF Counted
  <2>4. GateTypeOK' 
    BY <1>1, <1>2, <2>1, <2>2 DEF GateTypeOK
  <2>5. MutualExclusion' /\ DeletersCounted'
    BY <1>1, <2>1, <2>3 DEF MutualExclusion, DeletersCounted
  <2>6. InsertersCounted'
    BY <2>1, <2>3, FS_EmptySet DEF InsertersCounted
  <2>7. SwapExpectsCount'
    BY <1>1, <1>2, <2>2 DEF SwapExpectsCount
  <2> QED BY <2>4, <2>5, <2>6, <2>7 DEF GateInv
<1> QED BY <1>5, <1>6

-----------------------------------------------------------------------------
LEMMA GateInvStep == GateInv /\ [GateNext]_gateVars => GateInv'
<1> SUFFICES ASSUME GateInv, [GateNext]_gateVars PROVE GateInv'
  OBVIOUS
<1>1. CASE UNCHANGED gateVars
  BY <1>1 DEF gateVars, GateInv, GateTypeOK, MutualExclusion, InsertersCounted,
     DeletersCounted, SwapExpectsCount, Inside, Deleting, Counted
<1>2. ASSUME NEW t \in Threads, GateCall(t) \/ Allowing(t) \/ Releasing(t)
      PROVE  GateInv'
  <2>1. CASE ReadInserters(t) \/ TestDeleters(t) \/ CallAllowInserter(t)
    BY <2>1, InserterWaits
  <2>2. CASE SwapInserters(t)
    BY <2>2, InserterWaits, InserterEnters
  <2>3. CASE ReleaseInserter(t)
    BY <2>3, InserterLeaves
  <2>4. CASE CallAllowDeleter(t) \/ ReadZero(t)
    BY <2>4, DeleterWaits
  <2>5. CASE SwapDeleter(t)
    BY <2>5, DeleterWaits, DeleterEnters
  <2>6. CASE LeaveWaiting(t) \/ ReleaseDeleter(t)
    BY <2>6, DeleterLeaves
  <2> QED BY <1>2, <2>1, <2>2, <2>3, <2>4, <2>5, <2>6 
             DEF GateCall, Allowing, Releasing
<1> QED BY <1>1, <1>2 DEF GateNext

(* The counters of the gate always count the tasks they should, and no     *)
(* task is about to exchange has_deleter for has_deleter + 1: GateInv is   *)
(* an inductive invariant of allow_* and release_*.                        *)
THEOREM GateInvariant == GateSpec => []GateInv
<1> QED BY GateInvInit, GateInvStep, PTL DEF GateSpec

(* A deleter that allow_deleter let in is alone in its list, whatever the  *)
(* number of tasks and the order of their reads and exchanges.             *)
THEOREM DeleterIsAlone == GateSpec => []MutualExclusion
<1>1. GateInv => MutualExclusion
  BY DEF GateInv
<1> QED BY <1>1, GateInvariant, PTL

-----------------------------------------------------------------------------
\* Every step of the gate is a step of the read-write lock, or a stutter.
LEMMA GateStepsAreLockSteps == 
  ASSUME GateInv, [GateNext]_gateVars
  PROVE  [Lock!Next]_(Lock!vars)
<1>1. CASE UNCHANGED gateVars
  BY <1>1 DEF gateVars, Lock!vars, Inside, Deleting
<1>2. ASSUME NEW t \in Threads, GateCall(t) \/ Allowing(t) \/ Releasing(t)
      PROVE  [Lock!Next]_(Lock!vars)
  <2>1. gate \in [Threads -> GatePoints]
    BY DEF GateInv, GateTypeOK
  <2> DEFINE Stays(g) == /\ GoGate(t, g) 
                         /\ t \notin Inside /\ t \notin Deleting
  <2>2. ASSUME NEW g \in {"i_read", "i_test", "i_swap", "d_read", "d_swap"},
               Stays(g)
        PROVE  UNCHANGED Lock!vars
    BY <2>1, <2>2, MoveChangesSets DEF GatePoints, Lock!vars
  <2>3. CASE \/ ReadInserters(t) \/ TestDeleters(t) \/ CallAllowInserter(t)
             \/ CallAllowDeleter(t) \/ ReadZero(t)
             \/ (SwapInserters(t) /\ inserters # seen[t])
             \/ (SwapDeleter(t) /\ inserters # 0)
    <3>1. PICK g \in {"i_read", "i_test", "i_swap", "d_read", "d_swap"} : 
            GoGate(t, g)
      BY <2>3 DEF ReadInserters, TestDeleters, CallAllowInserter, 
         CallAllowDeleter, ReadZero, SwapInserters, SwapDeleter
    <3>2. t \notin Inside /\ t \notin Deleting
      BY <2>3 DEF ReadInserters, TestDeleters, CallAllowInserter, 
         CallAllowDeleter, ReadZero, SwapInserters, SwapDeleter, Inside, Deleting
    <3> QED BY <2>2, <3>1, <3>2
  <2>4. CASE SwapInserters(t) /\ inserters = seen[t]
    <3>1. gate[t] = "i_swap" /\ GoGate(t, "inside")
      BY <2>4 DEF SwapInserters
    <3>2. t \notin Inside /\ Deleting = {}
      BY <2>4, <3>1 DEF GateInv, SwapExpectsCount, InsertersCounted, Inside
    <3>3. Inside' = Inside \cup {t} /\ Deleting' = Deleting
      BY <2>1, <3>1, <3>2, MoveChangesSets DEF GatePoints
    <3> QED BY <3>2, <3>3 DEF Lock!Next, Lock!Share
  <2>5. CASE ReleaseInserter(t)
    <3>1. gate[t] = "inside" /\ GoGate(t, "out")
      BY <2>5 DEF ReleaseInserter
    <3>2. t \in Inside /\ t \notin Deleting
      BY <3>1 DEF Inside, Deleting
    <3>3. Inside' = Inside \ {t} /\ Deleting' = Deleting
      BY <2>1, <3>1, <3>2, MoveChangesSets DEF GatePoints
    <3> QED BY <3>2, <3>3 DEF Lock!Next, Lock!Unshare
  <2>6. CASE SwapDeleter(t) /\ inserters = 0
    BY <2>6, DeleterEnters DEF Lock!Next, Lock!Own
  <2>7. CASE LeaveWaiting(t)
    <3>1. gate[t] = "d_leave" /\ GoGate(t, "exclusive")
      BY <2>7 DEF LeaveWaiting
    <3>2. t \notin Inside /\ t \in Deleting
      BY <3>1 DEF Inside, Deleting
    <3> QED BY <2>1, <3>1, <3>2, MoveChangesSets DEF GatePoints, Lock!vars
  <2>8. CASE ReleaseDeleter(t)
    <3>1. gate[t] = "exclusive" /\ GoGate(t, "out")
      BY <2>8 DEF ReleaseDeleter
    <3>2. t \notin Inside /\ t \in Deleting
      BY <3>1 DEF Inside, Deleting
    <3>3. Inside' = Inside /\ Deleting' = Deleting \ {t}
      BY <2>1, <3>1, <3>2, MoveChangesSets DEF GatePoints
    <3> QED BY <3>2, <3>3 DEF Lock!Next, Lock!Disown
  <2> QED BY <1>2, <2>3, <2>4, <2>5, <2>6, <2>7, <2>8 
             DEF GateCall, Allowing, Releasing
<1> QED BY <1>1, <1>2 DEF GateNext

(* The gate implements the read-write lock that ReadWriteLock specifies.   *)
THEOREM GateImplementsLock == GateSpec => ImplementsLock
<1>1. GateInit => Lock!Init
  BY DEF GateInit, Lock!Init, Inside, Deleting
<1>2. GateInv /\ [GateNext]_gateVars => [Lock!Next]_(Lock!vars)
  BY GateStepsAreLockSteps
<1> QED BY <1>1, <1>2, GateInvariant, PTL DEF GateSpec, ImplementsLock, Lock!Spec
=============================================================================
