---------------------------- MODULE Catalog_proofs ----------------------------
(***************************************************************************)
(* Proofs about Catalog, for any set of localities, any finite set of      *)
(* tasks and any number of operations: an identifier has one use at a      *)
(* time, and its owner finds the object that has it.                       *)
(***************************************************************************)
EXTENDS Catalog, FiniteSetTheorems, SequenceTheorems, TLAPS

-----------------------------------------------------------------------------
(* The inductive invariant.                                                *)

LiveOf(id) == {o \in Objects : <<id, o>> \in live}

\* what a task knows of its operation
Works(t) == 
  /\ pc[t] # "idle" => nops[t] >= 1
  /\ pc[t] \in {"insert", "erase"} => oid[t] \in IDs
  \* the owner's catalog has the object that is being created
  /\ pc[t] = "insert" /\ oid[t][1] \notin todo[t] 
       => register[oid[t][1]][oid[t]] = Object(t)

\* operations that have taken a new identifier, or will take none
Named == 
  {o \in Objects : \/ o[2] < nops[o[1]]
                   \/ o[2] = nops[o[1]] /\ pc[o[1]] \notin {"next", "fresh"}}

\* a locality gives out one new identifier for an operation, at most
CounterBound == \A l \in Localities : counter[l] <= Cardinality(Named)

CatalogInv == 
  /\ TypeOK /\ OneUse /\ FoundAtOwner /\ CounterBound
  /\ \A t \in Tasks : Works(t)

-----------------------------------------------------------------------------
LEMMA IDParts == 
  ASSUME NEW id \in IDs
  PROVE  /\ id[1] \in Localities /\ id[2] \in LocalIDs /\ id = <<id[1], id[2]>>
         /\ id[2] \in Nat
BY DEF IDs, LocalIDs

LEMMA ObjectsAreFinite == 
  /\ IsFiniteSet(Objects) 
  /\ Cardinality(Tasks) \in Nat /\ Cardinality(Objects) = Cardinality(Tasks) * MaxOps
<1>1. IsFiniteSet(1..MaxOps) /\ Cardinality(1..MaxOps) = MaxOps
  BY FS_Interval, MaxOpsAssumption
<1> QED BY <1>1, FS_Product, FS_CardinalityType, TasksAssumption DEF Objects

\* The uses of an identifier can be counted.
LEMMA UsesAreFinite == 
  ASSUME TypeOK, NEW id \in IDs
  PROVE  /\ IsFiniteSet(LiveOf(id)) /\ Cardinality(LiveOf(id)) \in Nat
         /\ IsFiniteSet(Creating(id)) /\ Cardinality(Creating(id)) \in Nat
         /\ IsFiniteSet(Dying(id)) /\ Cardinality(Dying(id)) \in Nat
         /\ IsFiniteSet(Cached(id[1], id)) /\ Cardinality(Cached(id[1], id)) \in Nat
<1>1. LiveOf(id) \in SUBSET Objects /\ Creating(id) \in SUBSET Tasks 
      /\ Dying(id) \in SUBSET Tasks
  BY DEF LiveOf, Creating, Dying
<1>2. Cached(id[1], id) \in SUBSET (1..Len(oidCache[id[1]])) /\ Len(oidCache[id[1]]) \in Int
  BY IDParts, LenProperties DEF Cached, TypeOK
<1>3. IsFiniteSet(1..Len(oidCache[id[1]]))
  BY <1>2, FS_Interval
<1>4. IsFiniteSet(LiveOf(id)) /\ IsFiniteSet(Creating(id)) /\ IsFiniteSet(Dying(id)) 
      /\ IsFiniteSet(Cached(id[1], id))
  BY <1>1, <1>2, <1>3, FS_Subset, ObjectsAreFinite, TasksAssumption
<1> QED BY <1>4, FS_CardinalityType

\* An identifier that is in use in one way is not in another.
LEMMA UsesExclude == 
  ASSUME TypeOK, OneUse, NEW id \in IDs
  PROVE  /\ \A o, p \in LiveOf(id) : o = p
         /\ \A t, u \in Creating(id) : t = u
         /\ LiveOf(id) # {} => Creating(id) = {} /\ Dying(id) = {}
         /\ Creating(id) # {} => Dying(id) = {}
<1> DEFINE A == LiveOf(id)  B == Creating(id)  C == Dying(id)  D == Cached(id[1], id)
<1>1. /\ IsFiniteSet(A) /\ IsFiniteSet(B) /\ IsFiniteSet(C)
      /\ Cardinality(A) \in Nat /\ Cardinality(B) \in Nat /\ Cardinality(C) \in Nat
      /\ Cardinality(D) \in Nat
  BY UsesAreFinite
<1>2. Cardinality(A) + Cardinality(B) + Cardinality(C) + Cardinality(D) <= 1
  BY <1>1 DEF OneUse, LiveOf
<1>3. /\ Cardinality(A) = 0 => A = {}
      /\ Cardinality(B) = 0 => B = {}
      /\ Cardinality(C) = 0 => C = {}
  BY <1>1, FS_EmptySet
<1>4. /\ Cardinality(A) = 1 => \A o, p \in A : o = p
      /\ Cardinality(B) = 1 => \A t, u \in B : t = u
  BY <1>1, FS_Singleton
<1> QED BY <1>1, <1>2, <1>3, <1>4

\* OneUse in the sets of this module.
LEMMA OneUseIs == 
  OneUse <=> 
    \A id \in IDs : 
      /\ Cardinality(LiveOf(id)) + Cardinality(Creating(id)) + Cardinality(Dying(id)) 
           + Cardinality(Cached(id[1], id)) = IF id[2] < counter[id[1]] THEN 1 ELSE 0
      /\ \A l \in Localities \ {id[1]} : Cached(l, id) = {}
BY DEF OneUse, LiveOf

-----------------------------------------------------------------------------
(* Types, and the bound of the identifiers.                                *)

LEMMA NamedIsFinite == 
  ASSUME CatalogInv
  PROVE  IsFiniteSet(Named) /\ Cardinality(Named) \in Nat /\ Named \subseteq Objects
BY ObjectsAreFinite, FS_Subset, FS_CardinalityType DEF Named

\* an operation that needs a new identifier finds one left
LEMMA FreshIDExists == 
  ASSUME CatalogInv, NEW t \in Tasks, pc[t] \in {"next", "fresh"}
  PROVE  <<Home[t], counter[Home[t]]>> \in IDs
<1>1. /\ Home[t] \in Localities /\ counter[Home[t]] \in Nat /\ nops[t] \in 1..MaxOps
      /\ counter[Home[t]] <= Cardinality(Named)
  BY HomeAssumption DEF CatalogInv, TypeOK, CounterBound, Works
<1>2. Object(t) \in Objects /\ Object(t) \notin Named
  BY <1>1 DEF Object, Objects, Named
<1>3. /\ IsFiniteSet(Objects \ {Object(t)}) 
      /\ Cardinality(Objects \ {Object(t)}) = Cardinality(Objects) - 1
  BY <1>2, ObjectsAreFinite, FS_RemoveElement
<1>4. Named \in SUBSET (Objects \ {Object(t)})
  BY <1>2 DEF Named
<1>5. Cardinality(Named) <= Cardinality(Objects) - 1
  BY <1>3, <1>4, FS_Subset
<1>6. Cardinality(Objects) \in Nat /\ Cardinality(Named) \in Nat
  BY ObjectsAreFinite, FS_CardinalityType, NamedIsFinite
<1>7. counter[Home[t]] \in 0..(Cardinality(Objects) - 1)
  BY <1>1, <1>5, <1>6
<1> QED BY <1>1, <1>7, ObjectsAreFinite DEF IDs, LocalIDs

\* the cache without the identifier that was cached last
LEMMA PopCache == 
  ASSUME NEW cache \in Seq(IDs), cache # <<>>
  PROVE  LET rest == SubSeq(cache, 1, Len(cache) - 1) IN
         /\ Len(cache) \in Nat \ {0} /\ rest \in Seq(IDs)
         /\ cache[Len(cache)] \in IDs
         /\ DOMAIN cache = 1..Len(cache) /\ DOMAIN rest = 1..(Len(cache) - 1)
         /\ \A i \in 1..(Len(cache) - 1) : rest[i] = cache[i]
<1> DEFINE rest == SubSeq(cache, 1, Len(cache) - 1)
<1>1. /\ Len(cache) \in Nat \ {0} /\ DOMAIN cache = 1..Len(cache)
      /\ \A i \in 1..Len(cache) : cache[i] \in IDs
  BY EmptySeq, LenProperties, ElementOfSeq
<1>2. Len(cache) - 1 \in Int /\ \A i \in 1..(Len(cache) - 1) : cache[i] \in IDs
  BY <1>1
<1>3. /\ rest \in Seq(IDs) 
      /\ Len(rest) = IF 1 <= Len(cache) - 1 THEN Len(cache) - 1 - 1 + 1 ELSE 0
      /\ \A i \in 1..(Len(cache) - 1 - 1 + 1) : rest[i] = cache[1 + i - 1]
  BY <1>2, SubSeqProperties
<1>4. Len(rest) = Len(cache) - 1 /\ DOMAIN rest = 1..Len(rest)
  BY <1>1, <1>3, LenProperties
<1> QED BY <1>1, <1>3, <1>4

LEMMA PushCache == 
  ASSUME NEW cache \in Seq(IDs), NEW id \in IDs
  PROVE  /\ Append(cache, id) \in Seq(IDs) /\ Len(cache) \in Nat
         /\ DOMAIN cache = 1..Len(cache) 
         /\ DOMAIN Append(cache, id) = 1..(Len(cache) + 1)
         /\ \A i \in 1..(Len(cache) + 1) : 
              Append(cache, id)[i] = IF i = Len(cache) + 1 THEN id ELSE cache[i]
BY AppendProperties, LenProperties

LEMMA TypesKept == 
  ASSUME CatalogInv, [Next]_vars
  PROVE  TypeOK'
<1> USE DEF TypeOK
<1>1. TypeOK
  BY DEF CatalogInv
<1>2. ASSUME NEW t \in Tasks, CallCreate(t) PROVE TypeOK'
  BY <1>1, <1>2, MaxOpsAssumption DEF CallCreate, Goto, PCs
<1>3. ASSUME NEW t \in Tasks, ReuseID(t) PROVE TypeOK'
  <2>1. Home[t] \in Localities
    BY HomeAssumption
  <2>2. /\ oidCache[Home[t]] \in Seq(IDs)
        /\ SubSeq(oidCache[Home[t]], 1, Len(oidCache[Home[t]]) - 1) \in Seq(IDs)
        /\ oidCache[Home[t]][Len(oidCache[Home[t]])] \in IDs
    BY <1>1, <1>3, <2>1, PopCache DEF ReuseID
  <2>3. oidCache' \in [Localities -> Seq(IDs)]
    BY <1>1, <1>3, <2>1, <2>2 DEF ReuseID
  <2>4. oid' \in [Tasks -> IDs \cup {Null}] /\ todo' \in [Tasks -> SUBSET Localities]
        /\ pc' \in [Tasks -> PCs]
    BY <1>1, <1>3, <2>2 DEF ReuseID, OnAll, Goto, PCs
  <2> QED BY <1>1, <1>3, <2>3, <2>4 DEF ReuseID
<1>4. ASSUME NEW t \in Tasks, CacheEmpty(t) PROVE TypeOK'
  BY <1>1, <1>4 DEF CacheEmpty, Goto, PCs
<1>5. ASSUME NEW t \in Tasks, FreshID(t) PROVE TypeOK'
  <2>1. <<Home[t], counter[Home[t]]>> \in IDs /\ Home[t] \in Localities
    BY <1>5, FreshIDExists, HomeAssumption DEF FreshID
  <2>2. /\ oid' \in [Tasks -> IDs \cup {Null}] /\ todo' \in [Tasks -> SUBSET Localities]
        /\ pc' \in [Tasks -> PCs] /\ counter' \in [Localities -> Nat]
    BY <1>1, <1>5, <2>1 DEF FreshID, OnAll, Goto, PCs
  <2> QED BY <1>1, <1>5, <2>2 DEF FreshID
<1>6. ASSUME NEW t \in Tasks, NEW l \in Localities, InsertAt(t, l) PROVE TypeOK'
  <2>1. oid[t] \in IDs /\ Object(t) \in Objects
    BY <1>1, <1>6 DEF CatalogInv, Works, InsertAt, Object, Objects
  <2>2. register' \in [Localities -> [IDs -> Objects \cup {Null}]]
    BY <1>1, <1>6, <2>1 DEF InsertAt
  <2> QED BY <1>1, <1>6, <2>2 DEF InsertAt, RunAt
<1>7. ASSUME NEW t \in Tasks, CreateReturns(t) PROVE TypeOK'
  <2>1. oid[t] \in IDs /\ Object(t) \in Objects
    BY <1>1, <1>7 DEF CatalogInv, Works, CreateReturns, Object, Objects
  <2> QED BY <1>1, <1>7, <2>1 DEF CreateReturns, Goto, PCs
<1>8. ASSUME NEW t \in Tasks, NEW id \in IDs, NEW o \in Objects, CallDestroy(t, id, o) 
      PROVE  TypeOK'
  BY <1>1, <1>8, MaxOpsAssumption DEF CallDestroy, OnAll, Goto, PCs
<1>9. ASSUME NEW t \in Tasks, NEW l \in Localities, EraseAt(t, l) PROVE TypeOK'
  <2>1. oid[t] \in IDs /\ oidCache[l] \in Seq(IDs)
    BY <1>1, <1>9 DEF CatalogInv, Works, EraseAt
  <2>2. Append(oidCache[l], oid[t]) \in Seq(IDs)
    BY <2>1, PushCache
  <2>3. oidCache' \in [Localities -> Seq(IDs)]
    BY <1>1, <1>9, <2>2 DEF EraseAt
  <2>4. register' \in [Localities -> [IDs -> Objects \cup {Null}]]
    BY <1>1, <1>9, <2>1 DEF EraseAt
  <2> QED BY <1>1, <1>9, <2>3, <2>4 DEF EraseAt, RunAt
<1>10. ASSUME NEW t \in Tasks, DestroyReturns(t) PROVE TypeOK'
  BY <1>1, <1>10 DEF DestroyReturns, Goto, PCs
<1>11. CASE UNCHANGED vars
  BY <1>1, <1>11 DEF vars
<1> QED BY <1>2, <1>3, <1>4, <1>5, <1>6, <1>7, <1>8, <1>9, <1>10, <1>11 
        DEF Next, Call, Step, Terminating

LEMMA CounterBoundKept == 
  ASSUME CatalogInv, [Next]_vars
  PROVE  CounterBound'
<1>1. /\ TypeOK /\ CounterBound /\ IsFiniteSet(Named) /\ Cardinality(Named) \in Nat
      /\ \A t \in Tasks : Works(t)
  BY NamedIsFinite DEF CatalogInv
<1>2. Named' \subseteq Objects /\ IsFiniteSet(Named') /\ Cardinality(Named') \in Nat
  BY ObjectsAreFinite, FS_Subset, FS_CardinalityType DEF Named
<1>3. ASSUME counter' = counter, Named \subseteq Named' PROVE CounterBound'
  <2>1. Cardinality(Named) <= Cardinality(Named')
    BY <1>2, <1>3, FS_Subset
  <2> QED BY <1>1, <1>2, <1>3, <2>1 DEF CounterBound, TypeOK
<1>4. \A o \in Objects : o[1] \in Tasks /\ o[2] \in Nat /\ o = <<o[1], o[2]>>
  BY DEF Objects
<1>5. ASSUME NEW t \in Tasks, FreshID(t) PROVE CounterBound'
  <2>1. /\ pc[t] = "fresh" /\ pc' = [pc EXCEPT ![t] = "insert"] /\ nops' = nops
        /\ counter' = [counter EXCEPT ![Home[t]] = @ + 1]
    BY <1>5 DEF FreshID, Goto
  <2>2. Object(t) \in Objects /\ Object(t) \notin Named
    BY <1>1, <2>1 DEF Object, Objects, Named, TypeOK, Works
  <2>3. Object(t) \in Named' /\ Named \subseteq Named'
    BY <1>1, <1>4, <2>1, <2>2 DEF Object, Named, TypeOK
  <2>4. Named \cup {Object(t)} \in SUBSET Named'
    BY <2>3
  <2>5. Cardinality(Named) + 1 <= Cardinality(Named')
    BY <1>1, <1>2, <2>2, <2>4, FS_AddElement, FS_Subset
  <2> QED BY <1>1, <1>2, <2>1, <2>5 DEF CounterBound, TypeOK
<1>6. ASSUME NEW t \in Tasks, nops' = [nops EXCEPT ![t] = @ + 1], pc[t] = "idle",
             \A u \in Tasks \ {t} : pc'[u] = pc[u]
      PROVE  Named \subseteq Named'
  <2> SUFFICES ASSUME NEW o \in Named PROVE o \in Named'
    OBVIOUS
  <2>1. o \in Objects /\ o[1] \in Tasks /\ o[2] \in Nat /\ o[2] <= nops[o[1]]
    BY <1>1, <1>4 DEF Named, TypeOK
  <2>2. CASE o[1] = t
    BY <1>1, <1>6, <2>1, <2>2 DEF Named, TypeOK
  <2>3. CASE o[1] # t
    BY <1>1, <1>6, <2>1, <2>3 DEF Named, TypeOK
  <2> QED BY <2>2, <2>3
<1>7. ASSUME nops' = nops, NEW t \in Tasks, \A u \in Tasks \ {t} : pc'[u] = pc[u],
             pc[t] \in {"next", "fresh"} \/ pc'[t] \notin {"next", "fresh"}
      PROVE  Named \subseteq Named'
  BY <1>4, <1>7 DEF Named
<1>8. ASSUME NEW t \in Tasks, CallCreate(t) \/ \E id \in IDs, o \in Objects : CallDestroy(t, id, o)
      PROVE  CounterBound'
  <2>1. counter' = counter /\ nops' = [nops EXCEPT ![t] = @ + 1] /\ pc[t] = "idle"
        /\ \A u \in Tasks \ {t} : pc'[u] = pc[u]
    BY <1>1, <1>8 DEF CallCreate, CallDestroy, Goto, TypeOK
  <2> QED BY <1>3, <1>6, <2>1
<1>9. ASSUME NEW t \in Tasks, 
             \/ ReuseID(t) \/ CacheEmpty(t) \/ CreateReturns(t) \/ DestroyReturns(t)
             \/ \E l \in Localities : InsertAt(t, l) \/ EraseAt(t, l)
      PROVE  CounterBound'
  <2>1. counter' = counter /\ nops' = nops /\ (\A u \in Tasks \ {t} : pc'[u] = pc[u])
        /\ (pc[t] \in {"next", "fresh"} \/ pc'[t] \notin {"next", "fresh"})
    BY <1>1, <1>9 DEF ReuseID, CacheEmpty, CreateReturns, DestroyReturns, InsertAt, 
       EraseAt, Goto, TypeOK
  <2> QED BY <1>3, <1>7, <2>1
<1>10. CASE UNCHANGED vars
  BY <1>3, <1>10 DEF vars, Named
<1> QED BY <1>5, <1>8, <1>9, <1>10 DEF Next, Call, Step, Terminating

-----------------------------------------------------------------------------
(* The uses of an identifier.                                              *)

\* the number of uses that an identifier has, and the one that it should have
Uses(id) == 
  Cardinality(LiveOf(id)) + Cardinality(Creating(id)) + Cardinality(Dying(id)) 
    + Cardinality(Cached(id[1], id))
Due(id) == IF id[2] < counter[id[1]] THEN 1 ELSE 0
UsedRight(id) == 
  Uses(id) = Due(id) /\ \A l \in Localities \ {id[1]} : Cached(l, id) = {}

LEMMA UsedRightIs == OneUse <=> \A id \in IDs : UsedRight(id)
BY OneUseIs DEF UsedRight, Uses, Due

\* A step that changes none of the four sets.
LEMMA UsesKept == 
  ASSUME NEW id, UsedRight(id), 
         LiveOf(id)' = LiveOf(id), Creating(id)' = Creating(id), 
         Dying(id)' = Dying(id), \A l \in Localities : Cached(l, id)' = Cached(l, id),
         id[1] \in Localities, Due(id)' = Due(id)
  PROVE  UsedRight(id)'
BY DEF UsedRight, Uses

LEMMA ReuseKeepsUses == 
  ASSUME CatalogInv, NEW t \in Tasks, ReuseID(t), NEW id \in IDs
  PROVE  UsedRight(id)'
<1> DEFINE h == Home[t]
           n == Len(oidCache[h])
           r == oidCache[h][n]
<1>1. TypeOK /\ UsedRight(id) /\ id[1] \in Localities /\ h \in Localities
  BY UsedRightIs, IDParts, HomeAssumption DEF CatalogInv
<1>2. /\ n \in Nat \ {0} /\ r \in IDs
      /\ DOMAIN oidCache[h] = 1..n /\ DOMAIN oidCache'[h] = 1..(n - 1)
      /\ \A i \in 1..(n - 1) : oidCache'[h][i] = oidCache[h][i]
      /\ \A l \in Localities \ {h} : oidCache'[l] = oidCache[l]
  BY <1>1, PopCache DEF ReuseID, TypeOK
<1>3. Cached(h, id)' = Cached(h, id) \ (IF id = r THEN {n} ELSE {})
  BY <1>2 DEF Cached
<1>4. \A l \in Localities \ {h} : Cached(l, id)' = Cached(l, id)
  BY <1>2 DEF Cached
<1>5. /\ pc[t] = "next" /\ pc' = [pc EXCEPT ![t] = "insert"] 
      /\ oid' = [oid EXCEPT ![t] = r] /\ todo' = [todo EXCEPT ![t] = Localities]
      /\ counter' = counter /\ live' = live
  BY DEF ReuseID, OnAll, Goto
<1>6. LiveOf(id)' = LiveOf(id) /\ Due(id)' = Due(id)
  BY <1>5 DEF LiveOf, Due
<1>7. Dying(id)' = Dying(id)
  BY <1>1, <1>5 DEF Dying, TypeOK
<1>8. Creating(id)' = Creating(id) \cup (IF id = r THEN {t} ELSE {}) /\ t \notin Creating(id)
  BY <1>1, <1>5 DEF Creating, TypeOK
<1>9. CASE id # r
  <2>1. Cached(h, id)' = Cached(h, id) /\ Creating(id)' = Creating(id)
    BY <1>3, <1>8, <1>9
  <2> QED BY <1>1, <1>4, <1>6, <1>7, <2>1, UsesKept
<1>10. CASE id = r
  <2>1. n \in Cached(h, id)
    BY <1>2, <1>10 DEF Cached
  <2>2. h = id[1]
    BY <1>1, <2>1 DEF UsedRight
  <2>3. Cardinality(Cached(h, id)') = Cardinality(Cached(h, id)) - 1
    <3>1. Cached(h, id)' = Cached(h, id) \ {n} /\ IsFiniteSet(Cached(h, id))
      BY <1>1, <1>3, <1>10, <2>2, UsesAreFinite
    <3> QED BY <2>1, <3>1, FS_RemoveElement
  <2>4. Cardinality(Creating(id)') = Cardinality(Creating(id)) + 1
    BY <1>1, <1>8, <1>10, UsesAreFinite, FS_AddElement
  <2>5. Uses(id)' = Uses(id)
    BY <1>1, <1>6, <1>7, <2>2, <2>3, <2>4, UsesAreFinite DEF Uses
  <2> QED BY <1>1, <1>4, <1>6, <2>2, <2>5 DEF UsedRight
<1> QED BY <1>9, <1>10

LEMMA FreshKeepsUses == 
  ASSUME CatalogInv, NEW t \in Tasks, FreshID(t), NEW id \in IDs
  PROVE  UsedRight(id)'
<1> DEFINE h == Home[t]
           r == <<h, counter[h]>>
<1>1. TypeOK /\ UsedRight(id) /\ id[1] \in Localities /\ h \in Localities
      /\ id = <<id[1], id[2]>> /\ id[2] \in Nat
  BY UsedRightIs, IDParts, HomeAssumption DEF CatalogInv
<1>2. /\ pc[t] = "fresh" /\ pc' = [pc EXCEPT ![t] = "insert"] 
      /\ oid' = [oid EXCEPT ![t] = r] /\ todo' = [todo EXCEPT ![t] = Localities]
      /\ counter' = [counter EXCEPT ![h] = @ + 1] /\ UNCHANGED <<oidCache, live>>
  BY DEF FreshID, OnAll, Goto
<1>3. /\ LiveOf(id)' = LiveOf(id) /\ \A l \in Localities : Cached(l, id)' = Cached(l, id)
  BY <1>2 DEF LiveOf, Cached
<1>4. Dying(id)' = Dying(id)
  BY <1>1, <1>2 DEF Dying, TypeOK
<1>5. Creating(id)' = Creating(id) \cup (IF id = r THEN {t} ELSE {}) /\ t \notin Creating(id)
  BY <1>1, <1>2 DEF Creating, TypeOK
<1>6. Due(id)' = IF id = r THEN 1 ELSE Due(id)
  BY <1>1, <1>2 DEF Due, TypeOK
<1>7. CASE id # r
  BY <1>1, <1>3, <1>4, <1>5, <1>6, <1>7, UsesKept
<1>8. CASE id = r
  <2>1. Due(id) = 0
    BY <1>1, <1>8 DEF Due, TypeOK
  <2>2. Cardinality(Creating(id)') = Cardinality(Creating(id)) + 1
    BY <1>1, <1>5, <1>8, UsesAreFinite, FS_AddElement
  <2>3. Uses(id)' = Uses(id) + 1
    BY <1>1, <1>3, <1>4, <2>2, UsesAreFinite DEF Uses
  <2> QED BY <1>1, <1>3, <1>6, <1>8, <2>1, <2>3 DEF UsedRight
<1> QED BY <1>7, <1>8

LEMMA CreateReturnsKeepsUses == 
  ASSUME CatalogInv, NEW t \in Tasks, CreateReturns(t), NEW id \in IDs
  PROVE  UsedRight(id)'
<1>1. TypeOK /\ UsedRight(id) /\ id[1] \in Localities /\ oid[t] \in IDs
      /\ Object(t) \in Objects
  BY UsedRightIs, IDParts DEF CatalogInv, Works, CreateReturns, TypeOK, Object, Objects
<1>2. /\ pc[t] = "insert" /\ pc' = [pc EXCEPT ![t] = "idle"] 
      /\ live' = live \cup {<<oid[t], Object(t)>>}
      /\ UNCHANGED <<oidCache, counter, oid, todo>>
  BY DEF CreateReturns, Goto
<1>3. Due(id)' = Due(id) /\ \A l \in Localities : Cached(l, id)' = Cached(l, id)
  BY <1>2 DEF Due, Cached
<1>4. Dying(id)' = Dying(id)
  BY <1>1, <1>2 DEF Dying, TypeOK
<1>5. Creating(id)' = Creating(id) \ (IF id = oid[t] THEN {t} ELSE {}) 
  BY <1>1, <1>2 DEF Creating, TypeOK
<1>6. LiveOf(id)' = LiveOf(id) \cup (IF id = oid[t] THEN {Object(t)} ELSE {}) 
  BY <1>1, <1>2 DEF LiveOf
<1>7. CASE id # oid[t]
  BY <1>1, <1>3, <1>4, <1>5, <1>6, <1>7, UsesKept
<1>8. CASE id = oid[t]
  <2>1. t \in Creating(id)
    BY <1>2, <1>8 DEF Creating
  <2>2. Object(t) \notin LiveOf(id)
    BY <1>1, <2>1, UsesExclude DEF CatalogInv
  <2>3. Cardinality(Creating(id)') = Cardinality(Creating(id)) - 1
    <3>1. Creating(id)' = Creating(id) \ {t} /\ IsFiniteSet(Creating(id))
      BY <1>1, <1>5, <1>8, UsesAreFinite
    <3> QED BY <2>1, <3>1, FS_RemoveElement
  <2>4. Cardinality(LiveOf(id)') = Cardinality(LiveOf(id)) + 1
    BY <1>1, <1>6, <1>8, <2>2, UsesAreFinite, FS_AddElement
  <2>5. Uses(id)' = Uses(id)
    BY <1>1, <1>3, <1>4, <2>3, <2>4, UsesAreFinite DEF Uses
  <2> QED BY <1>1, <1>3, <2>5 DEF UsedRight
<1> QED BY <1>7, <1>8

LEMMA CallDestroyKeepsUses == 
  ASSUME CatalogInv, NEW t \in Tasks, NEW r \in IDs, NEW o \in Objects, 
         CallDestroy(t, r, o), NEW id \in IDs
  PROVE  UsedRight(id)'
<1>1. TypeOK /\ UsedRight(id) /\ id[1] \in Localities
  BY UsedRightIs, IDParts DEF CatalogInv
<1>2. /\ pc[t] = "idle" /\ pc' = [pc EXCEPT ![t] = "erase"] 
      /\ <<r, o>> \in live /\ live' = live \ {<<r, o>>}
      /\ oid' = [oid EXCEPT ![t] = r] /\ todo' = [todo EXCEPT ![t] = Localities]
      /\ UNCHANGED <<oidCache, counter>>
  BY DEF CallDestroy, OnAll, Goto
<1>3. Due(id)' = Due(id) /\ \A l \in Localities : Cached(l, id)' = Cached(l, id)
  BY <1>2 DEF Due, Cached
<1>4. Creating(id)' = Creating(id)
  BY <1>1, <1>2 DEF Creating, TypeOK
<1>5. Dying(id)' = Dying(id) \cup (IF id = r THEN {t} ELSE {}) /\ t \notin Dying(id)
  BY <1>1, <1>2 DEF Dying, TypeOK
<1>6. LiveOf(id)' = LiveOf(id) \ (IF id = r THEN {o} ELSE {}) 
  BY <1>1, <1>2 DEF LiveOf
<1>7. CASE id # r
  BY <1>1, <1>3, <1>4, <1>5, <1>6, <1>7, UsesKept
<1>8. CASE id = r
  <2>1. o \in LiveOf(id)
    BY <1>2, <1>8 DEF LiveOf
  <2>2. Cardinality(Dying(id)') = Cardinality(Dying(id)) + 1
    BY <1>1, <1>5, <1>8, UsesAreFinite, FS_AddElement
  <2>3. Cardinality(LiveOf(id)') = Cardinality(LiveOf(id)) - 1
    BY <1>1, <1>6, <1>8, <2>1, UsesAreFinite, FS_RemoveElement
  <2>4. Uses(id)' = Uses(id)
    BY <1>1, <1>3, <1>4, <2>2, <2>3, UsesAreFinite DEF Uses
  <2> QED BY <1>1, <1>3, <2>4 DEF UsedRight
<1> QED BY <1>7, <1>8

LEMMA EraseKeepsUses == 
  ASSUME CatalogInv, NEW t \in Tasks, NEW l \in Localities, EraseAt(t, l), NEW id \in IDs
  PROVE  UsedRight(id)'
<1> DEFINE n == Len(oidCache[l])
<1>1. TypeOK /\ UsedRight(id) /\ id[1] \in Localities /\ oid[t] \in IDs
  BY UsedRightIs, IDParts DEF CatalogInv, Works, EraseAt
<1>2. /\ pc[t] = "erase" /\ l \in todo[t] /\ todo' = [todo EXCEPT ![t] = @ \ {l}]
      /\ UNCHANGED <<counter, pc, oid, live>>
      /\ oidCache' = IF l = oid[t][1] THEN [oidCache EXCEPT ![l] = Append(@, oid[t])]
                                      ELSE oidCache
  BY DEF EraseAt, RunAt
<1>3. /\ Due(id)' = Due(id) /\ LiveOf(id)' = LiveOf(id) /\ Creating(id)' = Creating(id)
  BY <1>2 DEF Due, LiveOf, Creating
<1>4. Dying(id)' = Dying(id) \ (IF id = oid[t] /\ l = id[1] THEN {t} ELSE {})
  BY <1>1, <1>2 DEF Dying, TypeOK
<1>5. CASE l # oid[t][1]
  <2>1. \A k \in Localities : Cached(k, id)' = Cached(k, id)
    BY <1>2, <1>5 DEF Cached
  <2> QED BY <1>1, <1>3, <1>4, <1>5, <2>1, UsesKept
<1>6. CASE l = oid[t][1]
  <2>1. /\ n \in Nat /\ DOMAIN oidCache[l] = 1..n /\ DOMAIN oidCache'[l] = 1..(n + 1)
        /\ \A i \in 1..(n + 1) : 
             oidCache'[l][i] = IF i = n + 1 THEN oid[t] ELSE oidCache[l][i]
        /\ \A k \in Localities \ {l} : oidCache'[k] = oidCache[k]
    BY <1>1, <1>2, <1>6, PushCache DEF TypeOK
  <2>2. Cached(l, id)' = Cached(l, id) \cup (IF id = oid[t] THEN {n + 1} ELSE {})
        /\ n + 1 \notin Cached(l, id)
    BY <2>1 DEF Cached
  <2>3. \A k \in Localities \ {l} : Cached(k, id)' = Cached(k, id)
    BY <2>1 DEF Cached
  <2>4. CASE id # oid[t]
    BY <1>1, <1>3, <1>4, <2>2, <2>3, <2>4, UsesKept
  <2>5. CASE id = oid[t]
    <3>1. t \in Dying(id) /\ l = id[1]
      BY <1>2, <1>6, <2>5 DEF Dying
    <3>2. Cardinality(Dying(id)') = Cardinality(Dying(id)) - 1
      BY <1>1, <1>4, <2>5, <3>1, UsesAreFinite, FS_RemoveElement
    <3>3. Cardinality(Cached(l, id)') = Cardinality(Cached(l, id)) + 1
      <4>1. Cached(l, id)' = Cached(l, id) \cup {n + 1} /\ IsFiniteSet(Cached(l, id))
        BY <1>1, <2>2, <2>5, <3>1, UsesAreFinite
      <4> QED BY <2>2, <4>1, FS_AddElement
    <3>4. Uses(id)' = Uses(id)
      BY <1>1, <1>3, <3>1, <3>2, <3>3, UsesAreFinite DEF Uses
    <3> QED BY <1>1, <1>3, <2>3, <3>1, <3>4 DEF UsedRight
  <2> QED BY <2>4, <2>5
<1> QED BY <1>5, <1>6

LEMMA OneUseKept == 
  ASSUME CatalogInv, [Next]_vars
  PROVE  OneUse'
<1> SUFFICES ASSUME NEW id \in IDs PROVE UsedRight(id)'
  BY UsedRightIs DEF OneUse, UsedRight, Uses, Due, LiveOf
<1>1. TypeOK /\ UsedRight(id) /\ id[1] \in Localities
  BY UsedRightIs, IDParts DEF CatalogInv
<1>2. ASSUME NEW t \in Tasks, CallCreate(t) \/ CacheEmpty(t) \/ DestroyReturns(t)
      PROVE  UsedRight(id)'
  <2>1. UNCHANGED <<oidCache, counter, oid, todo, live>>
    BY <1>2 DEF CallCreate, CacheEmpty, DestroyReturns
  <2>2. \/ pc[t] \in {"idle", "next"} /\ pc' \in {[pc EXCEPT ![t] = "next"], [pc EXCEPT ![t] = "fresh"]}
        \/ pc[t] = "erase" /\ todo[t] = {} /\ pc' = [pc EXCEPT ![t] = "idle"]
    BY <1>2 DEF CallCreate, CacheEmpty, DestroyReturns, Goto
  <2>3. Creating(id)' = Creating(id) /\ Dying(id)' = Dying(id)
    BY <1>1, <2>1, <2>2 DEF Creating, Dying, TypeOK
  <2>4. LiveOf(id)' = LiveOf(id) /\ Due(id)' = Due(id) 
        /\ \A l \in Localities : Cached(l, id)' = Cached(l, id)
    BY <2>1 DEF LiveOf, Due, Cached
  <2> QED BY <1>1, <2>3, <2>4, UsesKept
<1>3. ASSUME NEW t \in Tasks, NEW l \in Localities, InsertAt(t, l) PROVE UsedRight(id)'
  <2>1. /\ UNCHANGED <<oidCache, counter, pc, oid, live>> 
        /\ pc[t] = "insert" /\ todo' = [todo EXCEPT ![t] = @ \ {l}]
    BY <1>3 DEF InsertAt, RunAt
  <2>2. LiveOf(id)' = LiveOf(id) /\ Due(id)' = Due(id) /\ Creating(id)' = Creating(id)
        /\ \A k \in Localities : Cached(k, id)' = Cached(k, id)
    BY <2>1 DEF LiveOf, Due, Cached, Creating
  <2>3. Dying(id)' = Dying(id)
    BY <1>1, <2>1 DEF Dying, TypeOK
  <2> QED BY <1>1, <2>2, <2>3, UsesKept
<1>4. CASE UNCHANGED vars
  BY <1>1, <1>4, UsesKept DEF vars, LiveOf, Due, Creating, Dying, Cached
<1> QED BY <1>2, <1>3, <1>4, ReuseKeepsUses, FreshKeepsUses, CreateReturnsKeepsUses, 
           CallDestroyKeepsUses, EraseKeepsUses DEF Next, Call, Step, Terminating

-----------------------------------------------------------------------------
(* The object an owner finds.                                              *)

\* where a step may change the catalog of the owner of an identifier
LEMMA OwnersCatalog == 
  ASSUME CatalogInv, NEW t \in Tasks, NEW l \in Localities, NEW id \in IDs,
         InsertAt(t, l) \/ EraseAt(t, l),
         register'[id[1]][id] # register[id[1]][id]
  PROVE  /\ id = oid[t] /\ l = id[1]
         /\ InsertAt(t, l) => t \in Creating(id) /\ register'[id[1]][id] = Object(t)
         /\ EraseAt(t, l) => t \in Dying(id)
<1>1. TypeOK /\ id[1] \in Localities /\ oid[t] \in IDs
  BY IDParts DEF CatalogInv, Works, InsertAt, EraseAt
<1>2. \E v : register' = [register EXCEPT ![l][oid[t]] = v]
  BY DEF InsertAt, EraseAt
<1>3. id = oid[t] /\ l = id[1]
  BY <1>1, <1>2 DEF TypeOK
<1>4. InsertAt(t, l) => t \in Creating(id) /\ register'[id[1]][id] = Object(t)
  BY <1>1, <1>3 DEF InsertAt, Creating, TypeOK
<1>5. EraseAt(t, l) => t \in Dying(id)
  BY <1>3 DEF EraseAt, RunAt, Dying
<1> QED BY <1>3, <1>4, <1>5

LEMMA FoundKept == 
  ASSUME CatalogInv, [Next]_vars
  PROVE  FoundAtOwner'
<1>1. TypeOK /\ OneUse /\ FoundAtOwner
  BY DEF CatalogInv
<1>2. ASSUME NEW t \in Tasks, CreateReturns(t) PROVE FoundAtOwner'
  <2>1. /\ live' = live \cup {<<oid[t], Object(t)>>} /\ register' = register
        /\ oid[t] \in IDs /\ register[oid[t][1]][oid[t]] = Object(t)
    BY <1>2, IDParts DEF CreateReturns, CatalogInv, Works
  <2> QED BY <1>1, <2>1 DEF FoundAtOwner, GetPtr
<1>3. ASSUME NEW t \in Tasks, NEW l \in Localities, InsertAt(t, l) \/ EraseAt(t, l)
      PROVE  FoundAtOwner'
  <2>1. live' = live
    BY <1>3 DEF InsertAt, EraseAt
  <2> SUFFICES ASSUME NEW x \in live, 
                      register'[x[1][1]][x[1]] # register[x[1][1]][x[1]]
               PROVE  FALSE
    BY <1>1, <2>1 DEF FoundAtOwner, GetPtr
  <2>2. x[1] \in IDs /\ x[2] \in LiveOf(x[1])
    <3>1. PICK id \in IDs, o \in Objects : x = <<id, o>>
      BY <1>1 DEF TypeOK
    <3> QED BY <3>1 DEF LiveOf
  <2>3. Creating(x[1]) # {} \/ Dying(x[1]) # {}
    BY <1>3, <2>2, OwnersCatalog
  <2> QED BY <1>1, <2>2, <2>3, UsesExclude
<1>4. ASSUME register' = register, live' \subseteq live PROVE FoundAtOwner'
  BY <1>1, <1>4 DEF FoundAtOwner, GetPtr
<1>5. ASSUME NEW t \in Tasks, 
             \/ CallCreate(t) \/ ReuseID(t) \/ CacheEmpty(t) \/ FreshID(t) 
             \/ DestroyReturns(t) \/ \E id \in IDs, o \in Objects : CallDestroy(t, id, o)
      PROVE  FoundAtOwner'
  <2>1. register' = register /\ live' \subseteq live
    BY <1>5 DEF CallCreate, ReuseID, CacheEmpty, FreshID, DestroyReturns, CallDestroy
  <2> QED BY <1>4, <2>1
<1>6. CASE UNCHANGED vars
  BY <1>4, <1>6 DEF vars
<1> QED BY <1>2, <1>3, <1>5, <1>6 DEF Next, Call, Step, Terminating

LEMMA WorksKept == 
  ASSUME CatalogInv, [Next]_vars, TypeOK', NEW u \in Tasks
  PROVE  Works(u)'
<1>1. TypeOK /\ OneUse /\ Works(u)
  BY DEF CatalogInv
<1>2. ASSUME NEW t \in Tasks, CallCreate(t) PROVE Works(u)'
  BY <1>1, <1>2 DEF CallCreate, Goto, Works, Object, TypeOK
<1>3. ASSUME NEW t \in Tasks, CacheEmpty(t) \/ CreateReturns(t) \/ DestroyReturns(t) 
      PROVE  Works(u)'
  BY <1>1, <1>3 DEF CacheEmpty, CreateReturns, DestroyReturns, Goto, Works, Object, TypeOK
<1>4. ASSUME NEW t \in Tasks, 
             \/ ReuseID(t) \/ FreshID(t) 
             \/ \E id \in IDs, o \in Objects : CallDestroy(t, id, o)
      PROVE  Works(u)'
  <2>1. /\ register' = register /\ \A v \in Tasks \ {t} : 
             pc'[v] = pc[v] /\ oid'[v] = oid[v] /\ todo'[v] = todo[v] /\ nops'[v] = nops[v]
    BY <1>1, <1>4 DEF ReuseID, FreshID, CallDestroy, OnAll, Goto, TypeOK
  <2>2. CASE u # t
    BY <1>1, <2>1, <2>2 DEF Works, Object
  <2>3. /\ pc'[t] \in {"insert", "erase"} /\ todo'[t] = Localities /\ oid'[t] \in IDs
        /\ nops'[t] >= 1
    <3>1. ASSUME ReuseID(t) \/ FreshID(t) 
          PROVE  pc'[t] = "insert" /\ nops'[t] >= 1 /\ todo'[t] = Localities
      BY <1>1, <3>1 DEF CatalogInv, Works, ReuseID, FreshID, OnAll, Goto, TypeOK
    <3>2. ASSUME ReuseID(t) PROVE oid'[t] \in IDs
      BY <1>1, <3>2, PopCache, HomeAssumption DEF ReuseID, OnAll, TypeOK
    <3>3. ASSUME FreshID(t) PROVE oid'[t] \in IDs
      BY <1>1, <3>3, FreshIDExists DEF FreshID, OnAll, TypeOK
    <3>4. ASSUME NEW id \in IDs, NEW o \in Objects, CallDestroy(t, id, o)
          PROVE  /\ pc'[t] = "erase" /\ todo'[t] = Localities /\ oid'[t] \in IDs
                 /\ nops'[t] >= 1
      BY <1>1, <3>4 DEF CallDestroy, OnAll, Goto, TypeOK
    <3> QED BY <1>4, <3>1, <3>2, <3>3, <3>4
  <2>4. CASE u = t
    BY <2>3, <2>4, IDParts DEF Works
  <2> QED BY <2>2, <2>4
<1>5. ASSUME NEW t \in Tasks, NEW l \in Localities, InsertAt(t, l) \/ EraseAt(t, l)
      PROVE  Works(u)'
  <2>1. /\ UNCHANGED <<pc, oid, nops>> /\ todo' = [todo EXCEPT ![t] = @ \ {l}]
        /\ pc[t] \in {"insert", "erase"} /\ oid[t] \in IDs
    BY <1>1, <1>5 DEF InsertAt, EraseAt, RunAt, CatalogInv, Works
  <2> SUFFICES ASSUME pc[u] = "insert", oid[u][1] \notin todo'[u]
               PROVE  register'[oid[u][1]][oid[u]] = Object(u)
    BY <1>1, <2>1 DEF Works, Object
  <2>2. oid[u] \in IDs /\ u \in Creating(oid[u])
    BY <1>1 DEF Works, Creating
  <2>3. CASE register'[oid[u][1]][oid[u]] # register[oid[u][1]][oid[u]]
    <3>1. /\ oid[u] = oid[t]
          /\ InsertAt(t, l) => t \in Creating(oid[u]) 
                               /\ register'[oid[u][1]][oid[u]] = Object(t)
          /\ EraseAt(t, l) => t \in Dying(oid[u])
      BY <1>5, <2>2, <2>3, OwnersCatalog
    <3>2. t = u /\ InsertAt(t, l)
      BY <1>1, <1>5, <2>2, <3>1, UsesExclude
    <3> QED BY <3>1, <3>2
  <2>4. CASE register'[oid[u][1]][oid[u]] = register[oid[u][1]][oid[u]]
    <3>1. CASE oid[u][1] \notin todo[u]
      BY <1>1, <2>4, <3>1 DEF Works
    <3>2. CASE oid[u][1] \in todo[u]
      <4>1. u = t /\ l = oid[u][1] 
        BY <1>1, <2>1, <3>2 DEF TypeOK
      <4>2. register' = [register EXCEPT ![l][oid[t]] = Object(t)]
        BY <1>5, <4>1 DEF InsertAt, EraseAt
      <4> QED BY <1>1, <2>1, <4>1, <4>2 DEF TypeOK
    <3> QED BY <3>1, <3>2
  <2> QED BY <2>3, <2>4
<1>6. CASE UNCHANGED vars
  BY <1>1, <1>6 DEF vars, Works, Object
<1> QED BY <1>2, <1>3, <1>4, <1>5, <1>6 DEF Next, Call, Step, Terminating

-----------------------------------------------------------------------------
LEMMA InitEstablishes == Init => CatalogInv
<1> SUFFICES ASSUME Init PROVE CatalogInv
  OBVIOUS
<1>1. TypeOK
  BY EmptySeq, MaxOpsAssumption DEF Init, TypeOK, PCs
<1>2. ASSUME NEW id \in IDs PROVE UsedRight(id)
  <2>1. LiveOf(id) = {} /\ Creating(id) = {} /\ Dying(id) = {}
    BY DEF Init, LiveOf, Creating, Dying
  <2>2. \A l \in Localities : Cached(l, id) = {}
    BY EmptySeq DEF Init, Cached
  <2>3. Due(id) = 0 /\ id[1] \in Localities
    BY IDParts DEF Init, Due
  <2> QED BY <2>1, <2>2, <2>3, FS_EmptySet DEF UsedRight, Uses
<1>3. FoundAtOwner
  BY DEF Init, FoundAtOwner
<1>4. CounterBound
  BY ObjectsAreFinite, FS_Subset, FS_CardinalityType DEF Init, CounterBound, Named
<1>5. ASSUME NEW t \in Tasks PROVE Works(t)
  BY DEF Init, Works
<1> QED BY <1>1, <1>2, <1>3, <1>4, <1>5, UsedRightIs DEF CatalogInv

(* CatalogInv is an inductive invariant of Create and Destroy.             *)
THEOREM CatalogInvariant == Spec => []CatalogInv
<1>1. CatalogInv /\ [Next]_vars => CatalogInv'
  BY TypesKept, OneUseKept, FoundKept, CounterBoundKept, WorksKept DEF CatalogInv
<1> QED BY <1>1, InitEstablishes, PTL DEF Spec

(* Create never gives an identifier to two objects, Destroy returns each   *)
(* identifier once, to its owner, and none is lost.                        *)
THEOREM IdentifiersHaveOneUse == Spec => []OneUse
<1>1. CatalogInv => OneUse
  BY DEF CatalogInv
<1> QED BY <1>1, CatalogInvariant, PTL

(* GetPtr on the locality that owns an identifier finds the object that    *)
(* has it from the return of Create to the call of Destroy.                *)
THEOREM OwnersFindObjects == Spec => []FoundAtOwner
<1>1. CatalogInv => FoundAtOwner
  BY DEF CatalogInv
<1> QED BY <1>1, CatalogInvariant, PTL
=============================================================================
