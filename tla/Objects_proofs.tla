--------------------------- MODULE Objects_proofs ---------------------------
(***************************************************************************)
(* Proofs about the objects that the containers are (Objects) and the      *)
(* questions about them (Questions), for any number of localities, tasks   *)
(* and keys, any hash function and any sizes: what insertions promise is   *)
(* kept, a step that is no part of a question leaves its answer alone, and *)
(* one that is leaves it right.                                            *)
(***************************************************************************)
EXTENDS Questions, FiniteSetTheorems, WellFoundedInduction, TLAPS

-----------------------------------------------------------------------------
(* The activities, what tasks are doing, and the questions they ask.       *)

Entries == Keys \X (Nat \ {0})

Works == 
  [op : {"insert", "keep", "erase", "apply"}, key : Keys, again : BOOLEAN]
    \cup [op : {"deliver"}, from : Localities, keys : Seq(Keys)]
    \cup [op : {"flush", "asyncflush", "clear"}]
    \cup [op : {"lookup", "read"}, key : Keys]
    \cup [op : {"fetch"}, values : Seq(Nat)]
    \cup [op : {"visit"}, bucket : 0..NumBuckets - 1]
Activities == 
  [task : Tasks, async : BOOLEAN, number : Nat, at : Localities, work : Works]

Doings == 
  [op : {"idle", "called", "looked", "flushing", "clearing"}]
    \cup [op : {"summing"}, next : Seq(Localities)]
    \cup [op : {"seeking"}, at : Localities]
    \cup [op : {"walking"}, at : Localities, entry : Entries]

IsLook(q) == 
  \/ q = NoLook
  \/ /\ q = [asks |-> q.asks, of |-> q.of, answer |-> q.answer]
     /\ \/ q.asks = "lookup" /\ q.of \in Keys 
        \/ q.asks \in {"size", "walk"} /\ q.of \in {"values", "keys"}

TaskTypes == 
  /\ program \in Programs /\ calls \in Nat
  /\ acts \subseteq Activities
  /\ doing \in [Tasks -> Doings]
  /\ look = [t \in Tasks |-> look[t]] /\ \A t \in Tasks : IsLook(look[t])

\* Every key is where it belongs: in the memory, in the buffers and in what is 
\* under way.
KeysOf(l) == {k \in Keys : TargetLocality(k) = l}
Placed(a) == 
  /\ a.work.op = "deliver" => a.work.keys \in Seq(KeysOf(a.at))
  /\ IsWork(a) /\ kind # "replicated" => a.at = TargetLocality(a.work.key)
MemoryInv == 
  /\ mem \in [Localities -> [Keys -> Seq(Nat)]]
  /\ kind # "replicated" => \A l \in Localities, k \in Keys : 
       l # TargetLocality(k) => mem[l][k] = <<>>
  /\ buffers \in [Localities -> [Localities -> Seq(Keys)]]
  /\ \A l, i \in Localities : buffers[l][i] \in Seq(KeysOf(i))
  /\ \A a \in acts : Placed(a)

ObjectInv == TaskTypes /\ MemoryInv

\* what is under way to answer a task's question
Answering(t) == 
  {a \in acts : a.task = t /\ a.work.op \in {"lookup", "fetch", "visit"}}

Calm == {"idle", "flushing", "clearing"}

\* a step that is no part of a question
Aside == 
  /\ look' = look 
  /\ \A t \in Tasks : 
       /\ Answering(t)' = Answering(t)
       /\ \/ doing'[t] = doing[t] 
          \/ {doing[t].op, doing'[t].op} \subseteq Calm

-----------------------------------------------------------------------------
(* What the delivery of a buffer does.                                     *)

\* a set of sets that is not empty has a finite set of which no member is a 
\* proper subset
LEMMA LeastSubset == 
  ASSUME NEW D, IsFiniteSet(D), NEW bad, bad # {}, \A s \in bad : s \subseteq D
  PROVE  \E s \in bad : \A r \in bad : r \subseteq s => r = s
<1>1. bad \subseteq FiniteSubsetsOf(D)
  BY FS_Subset DEF FiniteSubsetsOf
<1>2. PICK s \in bad : \A r \in bad : <<r, s>> \notin StrictSubsetOrdering(D)
  BY <1>1, FS_StrictSubsetOrderingWellFounded, WFMin, Zenon
<1>3. ASSUME NEW r \in bad, r \subseteq s, r # s PROVE FALSE
  BY <1>2, <1>3 DEF StrictSubsetOrdering
<1> QED BY <1>2, <1>3

\* a finite set of numbers has a greatest one
LEMMA MaxIsGreatest == 
  ASSUME NEW s \in SUBSET Nat, IsFiniteSet(s), s # {}
  PROVE  Max(s) \in s /\ \A n \in s : n <= Max(s)
<1> DEFINE above(n) == {m \in s : m > n}
           bad == {r \in SUBSET s : \E n \in s : r = above(n)}
<1>1. (\A r \in bad : r \subseteq s) /\ \A n \in s : above(n) \in bad
  OBVIOUS
<1>2. PICK a \in bad : \A r \in bad : r \subseteq a => r = a
  <2>1. bad # {}
    BY <1>1
  <2> HIDE DEF bad
  <2> QED BY <1>1, <2>1, LeastSubset
<1>3. PICK n \in s : a = above(n)
  BY <1>2
<1>4. \A m \in s : n >= m
  <2>1. SUFFICES ASSUME NEW m \in s, m > n PROVE FALSE
    OBVIOUS
  <2>2. m \in Nat /\ n \in Nat /\ \A x \in s : x \in Nat
    OBVIOUS
  <2>3. m \in above(n) /\ m \notin above(m)
    BY <2>1, <2>2
  <2>5. ASSUME NEW x \in above(m) PROVE x \in above(n)
    BY <2>1, <2>2, <2>5
  <2>4. above(m) = above(n)
    BY <1>1, <1>2, <1>3, <2>5
  <2> QED BY <2>3, <2>4
<1> QED BY <1>4 DEF Max

Times(ks, s, k) == Cardinality({j \in s : ks[j] = k})
Grown(v, c) == 
  IF c = 0 THEN v
  ELSE IF kind = "multimap" 
    THEN [i \in 1..(Len(v) + c) |-> IF i <= Len(v) THEN v[i] ELSE 1]
    ELSE <<1>>

LEMMA GrownType == 
  ASSUME NEW v \in Seq(Nat), NEW c \in Nat
  PROVE  /\ Grown(v, c) \in Seq(Nat)
         /\ kind = "multimap" => Len(Grown(v, c)) = Len(v) + c
         /\ Inserted(Grown(v, c)) = Grown(v, c + 1)
<1>1. Len(v) \in Nat
  OBVIOUS
<1>2. CASE kind = "multimap"
  <2> DEFINE g(d) == [i \in 1..(Len(v) + d) |-> IF i <= Len(v) THEN v[i] ELSE 1]
  <2>1. \A d \in Nat : g(d) \in Seq(Nat) /\ Len(g(d)) = Len(v) + d
    BY <1>1
  <2>2. g(0) = v
    BY <1>1
  <2>3. Grown(v, c) = g(c) /\ Grown(v, c + 1) = g(c + 1)
    BY <2>2, <1>2 DEF Grown
  <2>4. Append(g(c), 1) = g(c + 1)
    BY <2>1, <1>1
  <2> QED BY <2>1, <2>3, <2>4, <1>2 DEF Inserted
<1>3. CASE kind # "multimap"
  BY <1>3 DEF Grown, Inserted
<1> QED BY <1>2, <1>3

LEMMA TimesOneMore == 
  ASSUME NEW ks, NEW s, IsFiniteSet(s), NEW x \in s, NEW k
  PROVE  /\ Times(ks, s, k) \in Nat
         /\ Times(ks, s, k) = IF ks[x] = k THEN Times(ks, s \ {x}, k) + 1
                                           ELSE Times(ks, s \ {x}, k)
<1> DEFINE all == {j \in s : ks[j] = k}
           less == {j \in s \ {x} : ks[j] = k}
<1>1. IsFiniteSet(all) /\ IsFiniteSet(less)
  BY FS_Subset
<1>2. Cardinality(all) \in Nat /\ Cardinality(less) \in Nat
  BY <1>1, FS_CardinalityType
<1>3. less = all \ {x} /\ (ks[x] = k <=> x \in all)
  OBVIOUS
<1>4. Cardinality(less) = IF x \in all THEN Cardinality(all) - 1 ELSE Cardinality(all)
  BY <1>1, <1>3, FS_RemoveElement
<1> QED BY <1>2, <1>3, <1>4 DEF Times

LEMMA DeliveryGrows == 
  ASSUME NEW m0 \in [Keys -> Seq(Nat)], NEW ks \in Seq(Keys)
  PROVE  FoldLeft(LAMBDA m, k : [m EXCEPT ![k] = Inserted(@)], m0, ks)
           = [k \in Keys |-> Grown(m0[k], Times(ks, DOMAIN ks, k))]
<1> DEFINE D == DOMAIN ks
           step(it) == [s \in SUBSET D |-> 
             IF s = {} THEN m0 
             ELSE [it[s \ {Max(s)}] EXCEPT ![ks[Max(s)]] = Inserted(@)]]
           closed == [s \in SUBSET D |-> [k \in Keys |-> Grown(m0[k], Times(ks, s, k))]]
           it0 == CHOOSE it : it = step(it)
<1>1. FoldLeft(LAMBDA m, k : [m EXCEPT ![k] = Inserted(@)], m0, ks) = it0[D]
  BY DEF FoldLeft, MapThenFoldSet
<1>2. D \subseteq Nat /\ IsFiniteSet(D) /\ \A j \in D : ks[j] \in Keys
  BY FS_Interval
<1>3. ASSUME NEW s \in SUBSET D, s # {}
      PROVE  /\ Max(s) \in s /\ ks[Max(s)] \in Keys /\ s \ {Max(s)} \in SUBSET D
             /\ s \ {Max(s)} # s
             /\ [closed[s \ {Max(s)}] EXCEPT ![ks[Max(s)]] = Inserted(@)] = closed[s]
  <2>1. IsFiniteSet(s) /\ IsFiniteSet(s \ {Max(s)})
    BY <1>2, FS_Subset
  <2>2. Max(s) \in s /\ ks[Max(s)] \in Keys
    BY <1>2, <1>3, <2>1, MaxIsGreatest
  <2>3. \A k \in Keys : 
          /\ Times(ks, s \ {Max(s)}, k) \in Nat
          /\ Times(ks, s, k) = IF ks[Max(s)] = k THEN Times(ks, s \ {Max(s)}, k) + 1
                                           ELSE Times(ks, s \ {Max(s)}, k)
    <3> TAKE k \in Keys
    <3>1. IsFiniteSet({j \in s \ {Max(s)} : ks[j] = k})
      BY <2>1, FS_Subset
    <3>2. Times(ks, s \ {Max(s)}, k) \in Nat
      BY <3>1, FS_CardinalityType DEF Times
    <3> QED BY <2>1, <2>2, <3>2, TimesOneMore
  <2>4. \A k \in Keys : m0[k] \in Seq(Nat)
    OBVIOUS
  <2>5. closed[s] = [k \in Keys |-> Grown(m0[k], Times(ks, s, k))]
    OBVIOUS
  <2>6. closed[s \ {Max(s)}] = [k \in Keys |-> Grown(m0[k], Times(ks, s \ {Max(s)}, k))]
    OBVIOUS
  <2> HIDE DEF closed
  <2>7. Inserted(closed[s \ {Max(s)}][ks[Max(s)]]) = closed[s][ks[Max(s)]]
    <3>1. Inserted(Grown(m0[ks[Max(s)]], Times(ks, s \ {Max(s)}, ks[Max(s)])))
            = Grown(m0[ks[Max(s)]], Times(ks, s \ {Max(s)}, ks[Max(s)]) + 1)
      BY <2>2, <2>3, <2>4, GrownType
    <3> QED BY <2>2, <2>3, <2>5, <2>6, <3>1
  <2>8. ASSUME NEW k \in Keys, k # ks[Max(s)]
        PROVE  closed[s \ {Max(s)}][k] = closed[s][k]
    <3>1. Times(ks, s, k) = Times(ks, s \ {Max(s)}, k)
      BY <2>3, <2>8
    <3> QED BY <2>5, <2>6, <3>1
  <2>9. [closed[s \ {Max(s)}] EXCEPT ![ks[Max(s)]] = Inserted(@)] = closed[s]
    BY <2>5, <2>6, <2>7, <2>8
  <2> QED BY <2>2, <2>9
<1>4. closed[{}] = m0
  <2>1. \A k \in Keys : Times(ks, {}, k) = 0
    BY FS_EmptySet DEF Times
  <2> QED BY <2>1 DEF Grown
<1>5. closed = step(closed)
  <2> HIDE DEF closed
  <2>1. \A s \in SUBSET D : closed[s] = step(closed)[s]
    BY <1>3, <1>4
  <2>2. closed = [s \in SUBSET D |-> closed[s]]
    BY DEF closed
  <2> QED BY <2>1, <2>2
<1>6. it0 = step(it0)
  <2> HIDE DEF closed, step
  <2> QED BY <1>5
<1>7. \A s \in SUBSET D : it0[s] = closed[s]
  <2> DEFINE bad == {s \in SUBSET D : it0[s] # closed[s]}
  <2>1. SUFFICES ASSUME bad # {} PROVE FALSE
    OBVIOUS
  <2> HIDE DEF it0, closed
  <2>6. \A s \in bad : s \subseteq D 
    OBVIOUS
  <2>2. PICK s \in bad : \A r \in bad : r \subseteq s => r = s
    <3> HIDE DEF bad, D
    <3> QED BY <1>2, <2>1, <2>6, LeastSubset
  <2>3. it0[s] = step(it0)[s]
    BY <1>6
  <2>4. CASE s = {}
    BY <2>2, <2>3, <2>4, <1>4
  <2>5. CASE s # {}
    <3>2. s \ {Max(s)} \in SUBSET D /\ s \ {Max(s)} # s
      BY <2>5, <1>3
    <3>1. it0[s \ {Max(s)}] = closed[s \ {Max(s)}]
      BY <2>2, <3>2
    <3> QED BY <2>2, <2>3, <2>5, <3>1, <1>3
  <2> QED BY <2>4, <2>5
<1> QED BY <1>1, <1>7
\* A delivery adds to the values of the keys that are delivered, and to 
\* nothing else.
LEMMA DeliverEffect == 
  ASSUME mem \in [Localities -> [Keys -> Seq(Nat)]],
         NEW l \in Localities, NEW ks \in Seq(Keys), Deliver(l, ks)
  PROVE  /\ mem' \in [Localities -> [Keys -> Seq(Nat)]]
         /\ \A i \in Localities, k \in Keys : 
              mem'[i][k] = IF i = l THEN Grown(mem[i][k], Times(ks, DOMAIN ks, k))
                                    ELSE mem[i][k]
         /\ \A k \in Keys : Times(ks, DOMAIN ks, k) \in Nat
         /\ \A k \in Keys : (\A j \in DOMAIN ks : ks[j] # k)
                               <=> Times(ks, DOMAIN ks, k) = 0
<1>1. mem[l] \in [Keys -> Seq(Nat)]
  OBVIOUS
<1>2. mem' = [mem EXCEPT ![l] = 
               [k \in Keys |-> Grown(mem[l][k], Times(ks, DOMAIN ks, k))]]
  BY <1>1, DeliveryGrows DEF Deliver
<1>3. IsFiniteSet(DOMAIN ks)
  BY FS_Interval
<1>4. ASSUME NEW k \in Keys
      PROVE  /\ Times(ks, DOMAIN ks, k) \in Nat 
             /\ (\A j \in DOMAIN ks : ks[j] # k) <=> Times(ks, DOMAIN ks, k) = 0
  <2> DEFINE some == {j \in DOMAIN ks : ks[j] = k}
  <2>1. IsFiniteSet(some)
    BY <1>3, FS_Subset
  <2>2. Cardinality(some) \in Nat /\ (Cardinality(some) = 0 <=> some = {})
    BY <2>1, FS_CardinalityType, FS_EmptySet
  <2>3. some = {} <=> \A j \in DOMAIN ks : ks[j] # k
    OBVIOUS
  <2> QED BY <2>2, <2>3 DEF Times
<1>5. \A k \in Keys : Grown(mem[l][k], Times(ks, DOMAIN ks, k)) \in Seq(Nat)
  BY <1>1, <1>4, GrownType
<1> QED BY <1>2, <1>4, <1>5

\* The change of one value, and of one key of one locality.
LEMMA ChangeType == 
  ASSUME NEW op \in {"insert", "keep", "erase", "apply"}, NEW s \in Seq(Nat)
  PROVE  Change(op, s) \in Seq(Nat)
<1>1. Applied(s) \in Seq(Nat)
  BY DEF Applied
<1> QED BY <1>1 DEF Change, Inserted, Kept

LEMMA PutType == 
  ASSUME mem \in [Localities -> [Keys -> Seq(Nat)]],
         NEW l \in Localities, NEW k \in Keys, NEW s \in Seq(Nat), Put(l, k, s)
  PROVE  /\ mem' \in [Localities -> [Keys -> Seq(Nat)]]
         /\ \A i \in Localities, j \in Keys : 
              mem'[i][j] = IF i = l /\ j = k THEN s ELSE mem[i][j]
BY DEF Put

LEMMA TargetType == 
  ASSUME NEW k \in Keys
  PROVE  TargetLocality(k) \in Localities /\ Bucket(k) \in 0..NumBuckets - 1
<1>1. hash[k] \in Nat /\ NumLocalities \in Nat \ {0} /\ NumBuckets \in Nat \ {0}
  BY CallsAssumption, ObjectsAssumption
<1> QED BY <1>1 DEF TargetLocality, Bucket, Localities

-----------------------------------------------------------------------------
(* The steps that are no part of a question.                               *)

\* tasks, activities and answers that stay what they are
LEMMA StayTypes == 
  ASSUME TaskTypes, calls' \in Nat, acts' \subseteq Activities, 
         doing' \in [Tasks -> Doings], UNCHANGED <<program, look>>
  PROVE  TaskTypes'
<1>1. look' = [t \in Tasks |-> look'[t]] /\ \A t \in Tasks : IsLook(look'[t])
  BY DEF TaskTypes
<1>2. program' \in Programs
  BY DEF TaskTypes
<1> QED BY <1>1, <1>2 DEF TaskTypes, IsLook, NoLook

LEMMA AtOnceAside == 
  ASSUME TaskTypes, NEW t \in Tasks, NEW name, Calling(t, name), AtOnce, 
         UNCHANGED <<program, look>>
  PROVE  TaskTypes' /\ Aside
<1>1. calls' \in Nat /\ acts' = acts /\ doing' = doing
  BY DEF Calling, AtOnce, TaskTypes
<1>2. TaskTypes'
  BY <1>1, StayTypes DEF TaskTypes
<1> QED BY <1>1, <1>2 DEF Aside, Answering

LEMMA LeavingAside == 
  ASSUME TaskTypes, NEW t \in Tasks, NEW name, Calling(t, name), 
         NEW as \in SUBSET Activities, Leaving(t, as), UNCHANGED <<program, look>>,
         \A a \in as : a.work.op \notin {"lookup", "fetch", "visit"}
  PROVE  TaskTypes' /\ Aside
<1>1. calls' \in Nat /\ acts' = acts \cup as /\ doing' = doing
  BY DEF Calling, Leaving, TaskTypes
<1>2. TaskTypes'
  BY <1>1, StayTypes DEF TaskTypes
<1>3. \A u \in Tasks : Answering(u)' = Answering(u)
  BY <1>1 DEF Answering
<1> QED BY <1>1, <1>2, <1>3 DEF Aside

LEMMA RunningAside == 
  ASSUME TaskTypes, NEW a \in acts, NEW more \in SUBSET Activities,
         Running(a, more), UNCHANGED <<program, look>>,
         \A b \in more \cup {a} : b.work.op \notin {"lookup", "fetch", "visit"}
  PROVE  TaskTypes' /\ Aside
<1>1. calls' \in Nat /\ acts' = (acts \ {a}) \cup more /\ doing' = doing
  BY DEF Running, TaskTypes
<1>2. TaskTypes'
  BY <1>1, StayTypes DEF TaskTypes
<1>3. \A u \in Tasks : Answering(u)' = Answering(u)
  BY <1>1 DEF Answering
<1> QED BY <1>1, <1>2, <1>3 DEF Aside

LEMMA BecomeAside == 
  ASSUME TaskTypes, NEW t \in Tasks, NEW d \in Doings, Become(t, d),
         doing[t].op \in Calm, d.op \in Calm, calls' \in Nat,
         NEW as \in SUBSET Activities, acts' = acts \cup as, 
         UNCHANGED <<program, look>>,
         \A a \in as : a.work.op \notin {"lookup", "fetch", "visit"}
  PROVE  TaskTypes' /\ Aside
<1>1. /\ doing' \in [Tasks -> Doings]
      /\ \A u \in Tasks : doing'[u] = IF u = t THEN d ELSE doing[u]
  BY DEF Become, TaskTypes
<1>2. TaskTypes'
  BY <1>1, StayTypes DEF TaskTypes
<1>3. \A u \in Tasks : Answering(u)' = Answering(u)
  BY DEF Answering
<1> QED BY <1>1, <1>2, <1>3 DEF Aside

LEMMA MinIsLeast == 
  ASSUME NEW s \in SUBSET Localities, s # {}
  PROVE  Min(s) \in s
<1>1. s \subseteq Nat
  BY CallsAssumption DEF Localities
<1>2. PICK n \in s : \A m \in s : <<m, n>> \notin OpToRel(<, Nat)
  BY <1>1, NatLessThanWellFounded, WFMin, Zenon
<1>3. \A m \in s : ~(m < n)
  BY <1>1, <1>2 DEF OpToRel
<1>4. \A m \in s : n =< m
  BY <1>1, <1>3
<1> QED BY <1>4 DEF Min

LEMMA FillEffect == 
  ASSUME MemoryInv, NEW l \in Localities, NEW k \in Keys, Fill(l, k)
  PROVE  /\ buffers' \in [Localities -> [Localities -> Seq(Keys)]]
         /\ \A j, i \in Localities : buffers'[j][i] \in Seq(KeysOf(i))
         /\ InBuffer(l, k) \in Seq(KeysOf(TargetLocality(k)))
         /\ InBuffer(l, k) \in Seq(Keys)
<1> DEFINE i0 == TargetLocality(k)
           b == IF IsFull(l, k) THEN <<>> ELSE InBuffer(l, k)
<1>1. i0 \in Localities /\ k \in KeysOf(i0)
  BY TargetType DEF KeysOf
<1>2. InBuffer(l, k) \in Seq(KeysOf(i0)) /\ InBuffer(l, k) \in Seq(Keys)
  BY <1>1 DEF InBuffer, MemoryInv
<1>3. b \in Seq(KeysOf(i0)) /\ b \in Seq(Keys)
  BY <1>2
<1>4. buffers' = [buffers EXCEPT ![l][i0] = b]
  BY DEF Fill, SetBuffer
<1> HIDE DEF b, i0
<1>5. \A j, i \in Localities : 
        buffers'[j][i] = IF j = l /\ i = i0 THEN b ELSE buffers[j][i]
  BY <1>1, <1>4 DEF MemoryInv
<1>6. buffers' \in [Localities -> [Localities -> Seq(Keys)]]
  BY <1>1, <1>3, <1>4 DEF MemoryInv
<1>7. \A j, i \in Localities : buffers'[j][i] \in Seq(KeysOf(i))
  BY <1>3, <1>5 DEF MemoryInv
<1> QED BY <1>2, <1>6, <1>7 DEF i0

\* a delivery of keys of their locality
LEMMA DeliverKeeps == 
  ASSUME MemoryInv, NEW l \in Localities, NEW ks \in Seq(KeysOf(l)), 
         Deliver(l, ks)
  PROVE  /\ mem' \in [Localities -> [Keys -> Seq(Nat)]]
         /\ kind # "replicated" => \A i \in Localities, k \in Keys : 
              i # TargetLocality(k) => mem'[i][k] = <<>>
<1>1. ks \in Seq(Keys) /\ \A j \in DOMAIN ks : TargetLocality(ks[j]) = l
  BY DEF KeysOf
<1>2. /\ mem' \in [Localities -> [Keys -> Seq(Nat)]]
      /\ \A i \in Localities, k \in Keys : 
           mem'[i][k] = IF i = l THEN Grown(mem[i][k], Times(ks, DOMAIN ks, k))
                                 ELSE mem[i][k]
      /\ \A k \in Keys : (\A j \in DOMAIN ks : ks[j] # k)
                            <=> Times(ks, DOMAIN ks, k) = 0
  BY <1>1, DeliverEffect DEF MemoryInv
<1>3. \A k \in Keys : l # TargetLocality(k) => mem'[l][k] = mem[l][k]
  <2> TAKE k \in Keys
  <2>1. SUFFICES ASSUME l # TargetLocality(k) PROVE mem'[l][k] = mem[l][k]
    OBVIOUS
  <2>2. Times(ks, DOMAIN ks, k) = 0
    BY <1>1, <1>2, <2>1
  <2> QED BY <1>2, <2>2 DEF Grown
<1> QED BY <1>2, <1>3 DEF MemoryInv

\* one value is changed where its key belongs
LEMMA PutKeeps == 
  ASSUME MemoryInv, NEW l \in Localities, NEW k \in Keys, 
         kind # "replicated" => l = TargetLocality(k),
         NEW op \in {"insert", "keep", "erase", "apply"}, 
         Put(l, k, Change(op, mem[l][k]))
  PROVE  /\ mem' \in [Localities -> [Keys -> Seq(Nat)]]
         /\ kind # "replicated" => \A i \in Localities, j \in Keys : 
              i # TargetLocality(j) => mem'[i][j] = <<>>
<1>1. Change(op, mem[l][k]) \in Seq(Nat)
  BY ChangeType DEF MemoryInv
<1>2. /\ mem' \in [Localities -> [Keys -> Seq(Nat)]]
      /\ \A i \in Localities, j \in Keys : 
           mem'[i][j] = IF i = l /\ j = k THEN Change(op, mem[l][k]) ELSE mem[i][j]
  BY <1>1, PutType DEF MemoryInv
<1> QED BY <1>2 DEF MemoryInv

\* the memory, when the activities stay and when they change
LEMMA MemoryStays == 
  ASSUME MemoryInv, UNCHANGED <<kind, memory>>, \A a \in acts' : Placed(a)
  PROVE  MemoryInv'
BY DEF MemoryInv, memory, Placed, IsWork

-----------------------------------------------------------------------------
(* Each of those steps keeps the invariant of the objects.                 *)

LEMMA NothingAside == 
  ASSUME ObjectInv, UNCHANGED <<kind, program>>, NEW t \in Tasks, NEW name, 
         Calling(t, name), AtOnce, UNCHANGED <<memory, look>>
  PROVE  ObjectInv' /\ Aside
<1>1. TaskTypes' /\ Aside
  BY AtOnceAside DEF ObjectInv
<1>2. MemoryInv'
  BY MemoryStays DEF ObjectInv, MemoryInv, AtOnce
<1> QED BY <1>1, <1>2 DEF ObjectInv

LEMMA OneStepAside == 
  ASSUME ObjectInv, UNCHANGED <<kind, program>>, NEW t \in Tasks, NEW name, 
         NEW k \in Keys, NEW op \in {"insert", "keep", "erase", "apply"},
         OneStep(t, name, k, op)
  PROVE  ObjectInv' /\ Aside
<1>1. TaskTypes' /\ Aside
  BY AtOnceAside DEF ObjectInv, OneStep
<1>2. /\ mem' \in [Localities -> [Keys -> Seq(Nat)]]
      /\ kind # "replicated" => \A i \in Localities, j \in Keys : 
           i # TargetLocality(j) => mem'[i][j] = <<>>
  BY TargetType, PutKeeps DEF ObjectInv, OneStep
<1>3. acts' = acts /\ buffers' = buffers
  BY DEF OneStep, AtOnce
<1>4. MemoryInv'
  BY <1>2, <1>3 DEF ObjectInv, MemoryInv, Placed, IsWork
<1> QED BY <1>1, <1>4 DEF ObjectInv

LEMMA ByActivityAside == 
  ASSUME ObjectInv, UNCHANGED <<kind, program>>, NEW t \in Tasks, NEW name, 
         NEW k \in Keys, NEW op \in {"insert", "keep", "erase", "apply"},
         NEW again \in BOOLEAN, ByActivity(t, name, k, op, again)
  PROVE  ObjectInv' /\ Aside
<1> DEFINE w == Work(op, k, again)
           a == Activity(t, TRUE, TargetLocality(k), w)
<1>1. w \in Works /\ w.op = op /\ w.key = k
  BY DEF Work, Works
<1> HIDE DEF w
<1>2. a \in Activities /\ a.work = w /\ a.at = TargetLocality(k)
  BY <1>1, TargetType DEF Activity, Activities, ObjectInv, TaskTypes
<1> HIDE DEF a
<1>3. Calling(t, name) /\ Leaving(t, {a}) /\ UNCHANGED <<memory, look>>
  BY DEF ByActivity, a, w
<1>4. TaskTypes' /\ Aside
  BY <1>1, <1>2, <1>3, LeavingAside DEF ObjectInv
<1>5. Placed(a)
  BY <1>1, <1>2 DEF Placed
<1>6. MemoryInv'
  BY <1>3, <1>5, MemoryStays DEF ObjectInv, MemoryInv, Leaving
<1> QED BY <1>4, <1>6 DEF ObjectInv

LEMMA RunAgainAside == 
  ASSUME ObjectInv, UNCHANGED <<kind, program>>, NEW a \in acts, RunAgain(a)
  PROVE  ObjectInv' /\ Aside
<1> DEFINE b == [a EXCEPT !.work.again = FALSE]
<1>1. a \in Activities
  BY DEF ObjectInv, TaskTypes
<1>2. a.work \in [op : {"insert", "keep", "erase", "apply"}, key : Keys, 
                  again : BOOLEAN]
  BY <1>1 DEF RunAgain, IsWork, Activities, Works
<1>3. /\ b.work \in [op : {"insert", "keep", "erase", "apply"}, key : Keys, 
                     again : BOOLEAN]
      /\ b.work.op = a.work.op /\ b.work.key = a.work.key /\ b.at = a.at
      /\ b \in [task : Tasks, async : BOOLEAN, number : Nat, at : Localities, 
                work : {b.work}]
  BY <1>1, <1>2 DEF Activities
<1>4. b \in Activities
  BY <1>3 DEF Activities, Works
<1> HIDE DEF b
<1>5. Running(a, {b}) /\ UNCHANGED <<memory, look>>
  BY DEF RunAgain, b
<1>6. TaskTypes' /\ Aside
  BY <1>2, <1>3, <1>4, <1>5, RunningAside DEF ObjectInv
<1>7. Placed(b)
  BY <1>2, <1>3 DEF Placed, IsWork, ObjectInv, MemoryInv
<1>8. MemoryInv'
  BY <1>5, <1>7, MemoryStays DEF ObjectInv, MemoryInv, Running
<1> QED BY <1>6, <1>8 DEF ObjectInv

LEMMA RunWorkAside == 
  ASSUME ObjectInv, UNCHANGED <<kind, program>>, NEW a \in acts, RunWork(a)
  PROVE  ObjectInv' /\ Aside
<1>1. a \in Activities
  BY DEF ObjectInv, TaskTypes
<1>2. /\ a.work.op \in {"insert", "keep", "erase", "apply"} /\ a.work.key \in Keys
      /\ a.at \in Localities
  BY <1>1 DEF RunWork, IsWork, Activities, Works
<1>3. TaskTypes' /\ Aside
  BY <1>2, RunningAside DEF ObjectInv, RunWork
<1>4. kind # "replicated" => a.at = TargetLocality(a.work.key)
  BY <1>2 DEF ObjectInv, MemoryInv, Placed, IsWork
<1>5. /\ mem' \in [Localities -> [Keys -> Seq(Nat)]]
      /\ kind # "replicated" => \A i \in Localities, j \in Keys : 
           i # TargetLocality(j) => mem'[i][j] = <<>>
  BY <1>2, <1>4, PutKeeps DEF ObjectInv, RunWork
<1>6. acts' = acts \ {a} /\ buffers' = buffers
  BY DEF RunWork, Running
<1>7. MemoryInv'
  BY <1>5, <1>6 DEF ObjectInv, MemoryInv, Placed, IsWork
<1> QED BY <1>3, <1>7 DEF ObjectInv

LEMMA DeliveryType == 
  ASSUME NEW l \in Localities, NEW ks \in Seq(Keys)
  PROVE  /\ Delivery(l, ks) \in Works /\ Delivery(l, ks).op = "deliver" 
         /\ Delivery(l, ks).keys = ks
BY DEF Delivery, Works

LEMMA InsertBufferedAside == 
  ASSUME ObjectInv, UNCHANGED <<kind, program>>, NEW t \in Tasks, NEW name, 
         NEW k \in Keys, InsertBuffered(t, name, k)
  PROVE  ObjectInv' /\ Aside
<1>1. TaskTypes' /\ Aside
  BY AtOnceAside DEF ObjectInv, InsertBuffered
<1>2. Home[t] \in Localities /\ TargetLocality(k) \in Localities
  BY TargetType, CallsAssumption
<1>3. /\ buffers' \in [Localities -> [Localities -> Seq(Keys)]]
      /\ \A j, i \in Localities : buffers'[j][i] \in Seq(KeysOf(i))
      /\ InBuffer(Home[t], k) \in Seq(KeysOf(TargetLocality(k)))
  BY <1>2, FillEffect DEF ObjectInv, InsertBuffered
<1>4. /\ mem' \in [Localities -> [Keys -> Seq(Nat)]]
      /\ kind # "replicated" => \A i \in Localities, j \in Keys : 
           i # TargetLocality(j) => mem'[i][j] = <<>>
  <2>1. CASE IsFull(Home[t], k)
    BY <1>2, <1>3, <2>1, DeliverKeeps DEF ObjectInv, InsertBuffered
  <2>2. CASE ~IsFull(Home[t], k)
    BY <2>2 DEF ObjectInv, MemoryInv, InsertBuffered
  <2> QED BY <2>1, <2>2
<1>5. acts' = acts
  BY DEF InsertBuffered, AtOnce
<1>6. MemoryInv'
  BY <1>3, <1>4, <1>5 DEF ObjectInv, MemoryInv, Placed, IsWork
<1> QED BY <1>1, <1>6 DEF ObjectInv

LEMMA AsyncInsertBufferedAside == 
  ASSUME ObjectInv, UNCHANGED <<kind, program>>, NEW t \in Tasks, NEW name, 
         NEW k \in Keys, AsyncInsertBuffered(t, name, k)
  PROVE  ObjectInv' /\ Aside
<1> DEFINE ks == InBuffer(Home[t], k)
           w == Delivery(Home[t], ks)
           a == Activity(t, TRUE, TargetLocality(k), w)
<1>1. Home[t] \in Localities /\ TargetLocality(k) \in Localities
  BY TargetType, CallsAssumption
<1>2. /\ buffers' \in [Localities -> [Localities -> Seq(Keys)]]
      /\ \A j, i \in Localities : buffers'[j][i] \in Seq(KeysOf(i))
      /\ ks \in Seq(KeysOf(TargetLocality(k))) /\ ks \in Seq(Keys)
  BY <1>1, FillEffect DEF ObjectInv, AsyncInsertBuffered
<1> HIDE DEF ks
<1>3. w \in Works /\ w.op = "deliver" /\ w.keys = ks
  BY <1>1, <1>2, DeliveryType
<1> HIDE DEF w
<1>4. a \in Activities /\ a.work = w /\ a.at = TargetLocality(k)
  BY <1>1, <1>3 DEF Activity, Activities, ObjectInv, TaskTypes
<1> HIDE DEF a
<1>5. /\ Calling(t, name) /\ UNCHANGED <<mem, look>>
      /\ IF IsFull(Home[t], k) THEN Leaving(t, {a}) ELSE AtOnce
  BY DEF AsyncInsertBuffered, a, w, ks
<1>6. TaskTypes' /\ Aside
  <2>1. CASE IsFull(Home[t], k)
    BY <2>1, <1>3, <1>4, <1>5, LeavingAside DEF ObjectInv
  <2>2. CASE ~IsFull(Home[t], k)
    BY <2>2, <1>5, AtOnceAside DEF ObjectInv
  <2> QED BY <2>1, <2>2
<1>7. Placed(a)
  BY <1>2, <1>3, <1>4 DEF Placed, IsWork
<1>8. acts' \subseteq acts \cup {a}
  BY <1>5 DEF Leaving, AtOnce
<1>9. MemoryInv'
  BY <1>2, <1>5, <1>7, <1>8 DEF ObjectInv, MemoryInv, Placed, IsWork
<1> QED BY <1>6, <1>9 DEF ObjectInv

LEMMA RunDeliverAside == 
  ASSUME ObjectInv, UNCHANGED <<kind, program>>, NEW a \in acts, RunDeliver(a)
  PROVE  ObjectInv' /\ Aside
<1>1. a \in Activities /\ a.at \in Localities
  BY DEF ObjectInv, TaskTypes, Activities
<1>2. TaskTypes' /\ Aside
  BY RunningAside DEF ObjectInv, RunDeliver
<1>3. a.work.keys \in Seq(KeysOf(a.at))
  BY DEF ObjectInv, MemoryInv, Placed, RunDeliver
<1>4. /\ mem' \in [Localities -> [Keys -> Seq(Nat)]]
      /\ kind # "replicated" => \A i \in Localities, j \in Keys : 
           i # TargetLocality(j) => mem'[i][j] = <<>>
  BY <1>1, <1>3, DeliverKeeps DEF ObjectInv, RunDeliver
<1>5. acts' = acts \ {a} /\ buffers' = buffers
  BY DEF RunDeliver, Running
<1>6. MemoryInv'
  BY <1>4, <1>5 DEF ObjectInv, MemoryInv, Placed, IsWork
<1> QED BY <1>2, <1>6 DEF ObjectInv

LEMMA OnAllTypes == 
  ASSUME TaskTypes, NEW t \in Tasks, NEW w \in Works
  PROVE  /\ OnAll(t, TRUE, w) \subseteq Activities
         /\ OnAll(t, FALSE, w) \subseteq Activities
         /\ \A a \in OnAll(t, TRUE, w) \cup OnAll(t, FALSE, w) : a.work = w
<1>1. ASSUME NEW a \in OnAll(t, TRUE, w) PROVE a \in Activities /\ a.work = w
  <2>1. PICK l \in Localities : a = Activity(t, TRUE, l, w)
    BY DEF OnAll
  <2> QED BY <2>1 DEF Activity, Activities, TaskTypes
<1>2. ASSUME NEW a \in OnAll(t, FALSE, w) PROVE a \in Activities /\ a.work = w
  <2>1. PICK l \in Localities : a = Activity(t, FALSE, l, w)
    BY DEF OnAll
  <2> QED BY <2>1 DEF Activity, Activities, TaskTypes
<1> QED BY <1>1, <1>2

\* a call that waits for the activities that it starts everywhere
LEMMA WaitingAside == 
  ASSUME TaskTypes, UNCHANGED <<program, look>>, NEW t \in Tasks, doing[t] = Idle,
         calls' \in Nat, NEW op \in {"flush", "clear"}, 
         NEW how \in {"flushing", "clearing"},
         Waiting(t, OnAll(t, FALSE, [op |-> op]), how)
  PROVE  /\ TaskTypes' /\ Aside 
         /\ \A a \in acts' \ acts : a.work.op = op
<1> DEFINE w == [op |-> op]
           d == [op |-> how]
           as == OnAll(t, FALSE, w)
<1>1. w \in Works /\ w.op = op
  BY DEF Works
<1>2. d \in Doings /\ d.op \in Calm
  BY DEF Doings, Calm
<1> HIDE DEF w, d
<1>3. as \subseteq Activities /\ \A a \in as : a.work = w
  BY <1>1, OnAllTypes
<1> HIDE DEF as
<1>4. acts' = acts \cup as /\ Become(t, d)
  BY DEF Waiting, as, w, d
<1>5. doing[t].op \in Calm
  BY DEF Idle, Calm
<1>6. \A a \in as : a.work.op \notin {"lookup", "fetch", "visit"}
  BY <1>1, <1>3
<1> QED BY <1>1, <1>2, <1>3, <1>4, <1>5, <1>6, BecomeAside

LEMMA FlushAllBuffersAside == 
  ASSUME ObjectInv, UNCHANGED <<kind, program>>, NEW t \in Tasks, FlushAllBuffers(t)
  PROVE  ObjectInv' /\ Aside
<1>1. TaskTypes' /\ Aside /\ \A a \in acts' \ acts : a.work.op = "flush"
  BY WaitingAside DEF ObjectInv, TaskTypes, FlushAllBuffers, MayFlush, MayCall
<1>2. \A a \in acts' : Placed(a)
  BY <1>1 DEF ObjectInv, MemoryInv, Placed, IsWork
<1>3. MemoryInv'
  BY <1>2, MemoryStays DEF ObjectInv, FlushAllBuffers
<1> QED BY <1>1, <1>3 DEF ObjectInv

LEMMA AsyncFlushAllBuffersAside == 
  ASSUME ObjectInv, UNCHANGED <<kind, program>>, NEW t \in Tasks, 
         AsyncFlushAllBuffers(t)
  PROVE  ObjectInv' /\ Aside
<1> DEFINE w == [op |-> "asyncflush"]
           as == OnAll(t, TRUE, w)
<1>1. w \in Works /\ w.op = "asyncflush"
  BY DEF Works
<1> HIDE DEF w
<1>2. as \subseteq Activities /\ \A a \in as : a.work = w
  BY <1>1, OnAllTypes DEF ObjectInv
<1> HIDE DEF as
<1>3. /\ acts' = acts \cup as /\ doing' = doing /\ calls' = calls
      /\ UNCHANGED <<memory, look>>
  BY DEF AsyncFlushAllBuffers, Leaving, as, w
<1>4. TaskTypes' 
  BY <1>2, <1>3, StayTypes DEF ObjectInv, TaskTypes
<1>5. Aside
  BY <1>1, <1>2, <1>3 DEF Aside, Answering
<1>6. \A a \in acts' : Placed(a)
  BY <1>1, <1>2, <1>3 DEF ObjectInv, MemoryInv, Placed, IsWork
<1>7. MemoryInv'
  BY <1>3, <1>6, MemoryStays DEF ObjectInv
<1> QED BY <1>4, <1>5, <1>7 DEF ObjectInv

LEMMA RunFlushAside == 
  ASSUME ObjectInv, UNCHANGED <<kind, program>>, NEW a \in acts, RunFlush(a)
  PROVE  ObjectInv' /\ Aside
<1>1. a \in Activities /\ a.at \in Localities /\ a.work.op = "flush"
  BY DEF ObjectInv, TaskTypes, Activities, RunFlush
<1>2. CASE ToFlush(a.at) = {}
  <2>1. TaskTypes' /\ Aside
    BY <1>1, <1>2, RunningAside DEF ObjectInv, RunFlush
  <2>2. UNCHANGED memory /\ acts' \subseteq acts
    BY <1>2 DEF RunFlush, Running
  <2>3. MemoryInv'
    BY <2>2, MemoryStays DEF ObjectInv, MemoryInv
  <2> QED BY <2>1, <2>3 DEF ObjectInv
<1>3. CASE ToFlush(a.at) # {}
  <2> DEFINE i == Min(ToFlush(a.at))
  <2>1. i \in Localities
    BY <1>3, MinIsLeast DEF ToFlush
  <2>2. /\ Running(a, {a}) /\ Deliver(i, buffers[a.at][i])
        /\ SetBuffer(a.at, i, <<>>)
    BY <1>3 DEF RunFlush
  <2> HIDE DEF i
  <2>3. TaskTypes' /\ Aside
    BY <1>1, <2>2, RunningAside DEF ObjectInv, RunFlush
  <2>4. /\ mem' \in [Localities -> [Keys -> Seq(Nat)]]
        /\ kind # "replicated" => \A l \in Localities, j \in Keys : 
             l # TargetLocality(j) => mem'[l][j] = <<>>
    BY <1>1, <2>1, <2>2, DeliverKeeps DEF ObjectInv, MemoryInv
  <2>5. /\ buffers' \in [Localities -> [Localities -> Seq(Keys)]]
        /\ \A l, j \in Localities : buffers'[l][j] \in Seq(KeysOf(j))
    BY <1>1, <2>1, <2>2 DEF ObjectInv, MemoryInv, SetBuffer
  <2>6. acts' = acts
    BY <2>2 DEF Running
  <2>7. MemoryInv'
    BY <2>4, <2>5, <2>6 DEF ObjectInv, MemoryInv, Placed, IsWork
  <2> QED BY <2>3, <2>7 DEF ObjectInv
<1> QED BY <1>2, <1>3

LEMMA RunAsyncFlushAside == 
  ASSUME ObjectInv, UNCHANGED <<kind, program>>, NEW a \in acts, RunAsyncFlush(a)
  PROVE  ObjectInv' /\ Aside
<1> DEFINE d(i) == Delivery(a.at, buffers[a.at][i])
           b(i) == [a EXCEPT !.at = i, !.work = d(i)]
           more == {b(i) : i \in ToFlush(a.at)}
<1>1. a \in Activities /\ a.at \in Localities /\ a.work.op = "asyncflush"
  BY DEF ObjectInv, TaskTypes, Activities, RunAsyncFlush
<1>2. \A i \in Localities : /\ d(i) \in Works /\ d(i).op = "deliver" 
                            /\ d(i).keys = buffers[a.at][i] 
                            /\ d(i).keys \in Seq(KeysOf(i))
  BY <1>1, DeliveryType DEF ObjectInv, MemoryInv
<1> HIDE DEF d
<1>3. \A i \in Localities : /\ b(i) \in Activities /\ b(i).work = d(i)
                            /\ b(i).at = i
  BY <1>1, <1>2 DEF Activities
<1> HIDE DEF b
<1>4. more \in SUBSET Activities 
      /\ \A x \in more : \E i \in Localities : x.at = i /\ x.work = d(i)
  BY <1>3 DEF ToFlush
<1> HIDE DEF more
<1>5. Running(a, more) /\ mem' = mem /\ look' = look
      /\ buffers' = [buffers EXCEPT ![a.at] = [i \in Localities |-> <<>>]]
  BY DEF RunAsyncFlush, more, b, d
<1>6. \A x \in more : x.work.op = "deliver" /\ Placed(x)
  BY <1>2, <1>4 DEF Placed, IsWork
<1>7. TaskTypes' /\ Aside
  BY <1>1, <1>4, <1>5, <1>6, RunningAside DEF ObjectInv
<1>8. /\ buffers' \in [Localities -> [Localities -> Seq(Keys)]]
      /\ \A l, j \in Localities : buffers'[l][j] \in Seq(KeysOf(j))
  BY <1>1, <1>5 DEF ObjectInv, MemoryInv
<1>9. acts' \subseteq acts \cup more
  BY <1>5 DEF Running
<1>10. MemoryInv'
  BY <1>5, <1>6, <1>8, <1>9 DEF ObjectInv, MemoryInv, Placed, IsWork
<1> QED BY <1>7, <1>10 DEF ObjectInv

LEMMA ClearAllAside == 
  ASSUME ObjectInv, UNCHANGED <<kind, program>>, NEW t \in Tasks, NEW name,
         ClearAll(t, name)
  PROVE  ObjectInv' /\ Aside
<1>1. TaskTypes' /\ Aside /\ \A a \in acts' \ acts : a.work.op = "clear"
  <2>1. doing[t] = Idle /\ calls' \in Nat /\ UNCHANGED <<program, look>>
    BY DEF ClearAll, Calling, MayCall, ObjectInv, TaskTypes
  <2>2. Waiting(t, OnAll(t, FALSE, [op |-> "clear"]), "clearing")
    BY DEF ClearAll
  <2> QED BY <2>1, <2>2, WaitingAside DEF ObjectInv
<1>2. \A a \in acts' : Placed(a)
  BY <1>1 DEF ObjectInv, MemoryInv, Placed, IsWork
<1>3. MemoryInv'
  BY <1>2, MemoryStays DEF ObjectInv, ClearAll
<1> QED BY <1>1, <1>3 DEF ObjectInv

LEMMA RunClearAside == 
  ASSUME ObjectInv, UNCHANGED <<kind, program>>, NEW a \in acts, RunClear(a)
  PROVE  ObjectInv' /\ Aside
<1>1. TaskTypes' /\ Aside
  BY RunningAside DEF ObjectInv, RunClear
<1>2. a.at \in Localities
  BY DEF ObjectInv, TaskTypes, Activities
<1>3. /\ mem' = [mem EXCEPT ![a.at] = [k \in Keys |-> <<>>]]
      /\ acts' \subseteq acts /\ buffers' = buffers
  BY DEF RunClear, Running
<1>4. MemoryInv'
  BY <1>2, <1>3 DEF ObjectInv, MemoryInv, Placed, IsWork
<1> QED BY <1>1, <1>4 DEF ObjectInv

-----------------------------------------------------------------------------
(* Sums over the members of a set, as the number of their units.           *)

Units(f) == UNION {{<<c, n>> : n \in 1..f[c]} : c \in DOMAIN f}
Total(f) == Cardinality(Units(f))

LEMMA OwnUnits == 
  ASSUME NEW c, NEW n \in Nat
  PROVE  /\ IsFiniteSet({<<c, i>> : i \in 1..n})
         /\ Cardinality({<<c, i>> : i \in 1..n}) = n
<1> DEFINE own == {<<c, i>> : i \in 1..n}
           number == [i \in 1..n |-> <<c, i>>]
<1>1. number \in Bijection(1..n, own)
  BY DEF Bijection, Injection, Surjection, IsInjective
<1>2. IsFiniteSet(1..n) /\ Cardinality(1..n) = n
  BY FS_Interval
<1>3. ExistsBijection(1..n, own)
  BY <1>1 DEF ExistsBijection
<1> QED BY <1>2, <1>3, FS_Bijection

\* one summand changes
LEMMA TotalChanges == 
  ASSUME NEW C, NEW f \in [C -> Nat], NEW g \in [C -> Nat], NEW c \in C,
         \A d \in C \ {c} : g[d] = f[d], IsFiniteSet(Units(f))
  PROVE  /\ IsFiniteSet(Units(g))
         /\ Total(f) \in Nat /\ Total(g) \in Nat
         /\ Total(g) + f[c] = Total(f) + g[c] /\ Total(f) >= f[c]
<1> DEFINE own(n) == {<<c, i>> : i \in 1..n}
           others == UNION {{<<d, n>> : n \in 1..f[d]} : d \in C \ {c}}
<1>1. /\ IsFiniteSet(own(f[c])) /\ Cardinality(own(f[c])) = f[c]
      /\ IsFiniteSet(own(g[c])) /\ Cardinality(own(g[c])) = g[c]
  BY OwnUnits
<1>2. Units(f) = others \cup own(f[c])
  BY DEF Units
<1>3. Units(g) = others \cup own(g[c])
  <2>1. others = UNION {{<<d, n>> : n \in 1..g[d]} : d \in C \ {c}}
    OBVIOUS
  <2> QED BY <2>1 DEF Units
<1>4. others \cap own(f[c]) = {} /\ others \cap own(g[c]) = {}
  OBVIOUS
<1> HIDE DEF own, others
<1>5. IsFiniteSet(others)
  BY <1>2, FS_Subset
<1>6. Cardinality(others) \in Nat
  BY <1>5, FS_CardinalityType
<1>7. /\ IsFiniteSet(Units(f)) /\ Total(f) = Cardinality(others) + f[c]
      /\ IsFiniteSet(Units(g)) /\ Total(g) = Cardinality(others) + g[c]
  BY <1>1, <1>2, <1>3, <1>4, <1>5, <1>6, FS_Union, FS_EmptySet DEF Total
<1> QED BY <1>6, <1>7

\* two of them change
LEMMA TotalMoves == 
  ASSUME NEW C, NEW f \in [C -> Nat], NEW g \in [C -> Nat], NEW b \in C, 
         NEW c \in C, b # c, \A d \in C \ {b, c} : g[d] = f[d], 
         IsFiniteSet(Units(f))
  PROVE  /\ IsFiniteSet(Units(g))
         /\ Total(f) \in Nat /\ Total(g) \in Nat
         /\ Total(g) + f[b] + f[c] = Total(f) + g[b] + g[c]
<1> DEFINE h == [f EXCEPT ![b] = g[b]]
<1>1. /\ h \in [C -> Nat] /\ h[b] = g[b] /\ h[c] = f[c]
      /\ \A d \in C \ {b} : h[d] = f[d]
      /\ \A d \in C \ {c} : g[d] = h[d]
  OBVIOUS
<1> HIDE DEF h
<1>2. /\ IsFiniteSet(Units(h)) /\ Total(f) \in Nat /\ Total(h) \in Nat
      /\ Total(h) + f[b] = Total(f) + h[b]
  BY <1>1, TotalChanges
<1>3. /\ IsFiniteSet(Units(g)) /\ Total(g) \in Nat
      /\ Total(g) + h[c] = Total(h) + g[c]
  BY <1>1, <1>2, TotalChanges
<1> QED BY <1>1, <1>2, <1>3

LEMMA TotalStays == 
  ASSUME NEW f, NEW g, DOMAIN g = DOMAIN f, \A c \in DOMAIN f : g[c] = f[c]
  PROVE  Units(g) = Units(f) /\ Total(g) = Total(f)
<1>1. Units(g) = Units(f)
  BY DEF Units
<1> QED BY <1>1 DEF Total

LEMMA TotalGrows == 
  ASSUME NEW C, NEW f \in [C -> Nat], NEW g \in [C -> Nat], 
         \A c \in C : f[c] <= g[c], IsFiniteSet(Units(g))
  PROVE  /\ IsFiniteSet(Units(f)) /\ Total(f) \in Nat /\ Total(g) \in Nat
         /\ Total(f) <= Total(g)
<1>1. \A c \in C : 1..f[c] \subseteq 1..g[c]
  OBVIOUS
<1>2. Units(f) \subseteq Units(g)
  BY <1>1 DEF Units
<1> QED BY <1>2, FS_Subset, FS_CardinalityType DEF Total

LEMMA TotalNothing == 
  ASSUME NEW C, NEW f \in [C -> Nat], \A c \in C : f[c] = 0
  PROVE  IsFiniteSet(Units(f)) /\ Total(f) = 0
<1>1. Units(f) = {}
  BY DEF Units
<1> QED BY <1>1, FS_EmptySet DEF Total

\* a sum of finitely many
LEMMA TotalFinite == 
  ASSUME NEW C, IsFiniteSet(C), NEW f \in [C -> Nat]
  PROVE  IsFiniteSet(Units(f)) /\ Total(f) \in Nat
<1> DEFINE own(c) == {<<c, n>> : n \in 1..f[c]}
           all == {own(c) : c \in C}
           of == [c \in C |-> own(c)]
<1>3. \A c \in C : IsFiniteSet(own(c))
  BY OwnUnits
<1>4. Units(f) = UNION all
  BY DEF Units
<1> HIDE DEF own
<1>1. of \in Surjection(C, all)
  <2>1. of \in [C -> all] /\ \A s \in all : \E c \in C : of[c] = s
    OBVIOUS
  <2> QED BY <2>1 DEF Surjection
<1>2. IsFiniteSet(all)
  BY <1>1, FS_Surjection
<1>5. IsFiniteSet(Units(f))
  <2>1. \A s \in all : IsFiniteSet(s)
    BY <1>3
  <2> HIDE DEF all
  <2> QED BY <1>2, <1>4, <2>1, FS_UNION
<1> QED BY <1>5, FS_CardinalityType DEF Total

\* the fold of a sum
LEMMA FoldIsTotal == 
  ASSUME NEW C, IsFiniteSet(C), NEW f \in [C -> Nat]
  PROVE  FoldSet(LAMBDA c, n : n + f[c], 0, C) = Total(f)
<1> DEFINE any(s) == CHOOSE c \in s : TRUE
           some(s) == [c \in s |-> f[c]]
           step(it) == [s \in SUBSET C |-> 
             IF s = {} THEN 0 ELSE it[s \ {any(s)}] + f[any(s)]]
           closed == [s \in SUBSET C |-> Total(some(s))]
           it0 == CHOOSE it : it = step(it)
<1>1. FoldSet(LAMBDA c, n : n + f[c], 0, C) = it0[C]
  BY DEF FoldSet, MapThenFoldSet
<1>2. ASSUME NEW s \in SUBSET C, s # {}
      PROVE  /\ s \ {any(s)} \in SUBSET C /\ s \ {any(s)} # s
             /\ closed[s \ {any(s)}] + f[any(s)] = closed[s]
  <2>1. PICK c \in s : any(s) = c
    BY <1>2
  <2> DEFINE f1 == some(s)
             f2 == some(s \ {c})
             f3 == [d \in s |-> IF d = c THEN 0 ELSE f[d]]
  <2>2. IsFiniteSet(s)
    BY FS_Subset
  <2>3. f1 \in [s -> Nat] /\ f3 \in [s -> Nat] /\ f1[c] = f[c] /\ f3[c] = 0
        /\ \A d \in s \ {c} : f1[d] = f3[d]
    OBVIOUS
  <2>4. Units(f3) = Units(f2)
    BY DEF Units
  <2> HIDE DEF f1, f2, f3
  <2>5. IsFiniteSet(Units(f3))
    BY <2>2, <2>3, TotalFinite
  <2>6. Total(f1) = Total(f3) + f[c]
    BY <2>3, <2>5, TotalChanges
  <2>7. closed[s] = Total(f1) /\ closed[s \ {c}] = Total(f2)
    BY DEF f1, f2
  <2>8. Total(f3) = Total(f2)
    BY <2>4 DEF Total
  <2> HIDE DEF closed, any
  <2> QED BY <2>1, <2>6, <2>7, <2>8
<1>3. closed[{}] = 0
  <2> DEFINE none == some({})
  <2>1. none \in [{} -> Nat] /\ \A c \in {} : none[c] = 0
    OBVIOUS
  <2>2. closed[{}] = Total(none)
    OBVIOUS
  <2> HIDE DEF none
  <2>3. Total(none) = 0
    BY <2>1, TotalNothing
  <2> QED BY <2>2, <2>3
<1>4. closed = step(closed)
  <2> HIDE DEF closed
  <2>1. \A s \in SUBSET C : closed[s] = step(closed)[s]
    BY <1>2, <1>3
  <2>2. closed = [s \in SUBSET C |-> closed[s]]
    BY DEF closed
  <2> QED BY <2>1, <2>2
<1>5. it0 = step(it0)
  <2> HIDE DEF closed, step
  <2> QED BY <1>4
<1>6. \A s \in SUBSET C : it0[s] = closed[s]
  <2> DEFINE bad == {s \in SUBSET C : it0[s] # closed[s]}
  <2>1. SUFFICES ASSUME bad # {} PROVE FALSE
    OBVIOUS
  <2> HIDE DEF it0, closed, any
  <2>2. \A s \in bad : s \subseteq C
    OBVIOUS
  <2>3. PICK s \in bad : \A r \in bad : r \subseteq s => r = s
    <3> HIDE DEF bad
    <3> QED BY <2>1, <2>2, LeastSubset
  <2>4. it0[s] = step(it0)[s]
    BY <1>5
  <2>5. CASE s = {}
    BY <2>3, <2>4, <2>5, <1>3
  <2>6. CASE s # {}
    <3>1. s \ {any(s)} \in SUBSET C /\ s \ {any(s)} # s
      BY <2>6, <1>2
    <3>2. it0[s \ {any(s)}] = closed[s \ {any(s)}]
      BY <2>3, <3>1
    <3> QED BY <2>3, <2>4, <2>6, <3>2, <1>2
  <2> QED BY <2>5, <2>6
<1>7. closed[C] = Total(f)
  <2>1. some(C) = f
    OBVIOUS
  <2> QED BY <2>1
<1> QED BY <1>1, <1>6, <1>7

-----------------------------------------------------------------------------
(* What is promised is there: flushes, and what they wait for.             *)

IsFlushing(t) == doing[t].op = "flushing"
InsertOps == {"insert", "keep"}
Moving == {"insert", "keep", "deliver", "read", "flush", "asyncflush"}
IsMover(a) == a.work.op \in Moving

HistoryTypes == 
  /\ promised \in [Keys -> Nat]
  /\ pending \in [Tasks -> [async : [Keys -> Nat], both : [Keys -> Nat], 
                            buffered : [Keys -> Nat]]]

\* one flush at a time, without reads, and one that the call waits for without 
\* deliveries on their way
FlushInv == 
  /\ \A a \in acts : 
       /\ a.work.op \in Moving => (a.async <=> a.work.op # "flush")
       /\ a.work.op = "flush" => IsFlushing(a.task)
  /\ \A t, u \in Tasks : IsFlushing(t) /\ IsFlushing(u) => t = u
  /\ \A t \in Tasks, a \in acts : 
       IsFlushing(t) => a.work.op \notin {"deliver", "read", "asyncflush"}
  /\ \A a, b \in acts : a.work.op = "asyncflush" => 
       /\ b.work.op # "read"
       /\ b.work.op = "asyncflush" => a.task = b.task /\ (a.at = b.at => a = b)
  /\ \A t \in Tasks, i \in Localities : IsFlushing(t) => 
       \/ \E a \in acts : a.work.op = "flush" /\ a.at = i
       \/ \A l \in Localities : buffers[i][l] = <<>>
  /\ kind = "replicated" => 
       /\ \A a \in acts : a.work.op \notin {"deliver", "read", "asyncflush", "flush"}
       /\ \A t \in Tasks, k \in Keys : 
            pending[t].both[k] = 0 /\ pending[t].buffered[k] = 0

\* what is to be removed is known to be
DroppedInv == 
  /\ \A a \in acts : a.work.op = "erase" => a.work.key \in dropped
  /\ \A a \in acts : a.work.op = "clear" => Keys \subseteq dropped

\* a step that is no insertion and no flush
Quiet == 
  /\ \A a \in acts \cup acts' : IsMover(a) => a \in acts /\ a \in acts'
  /\ \A t \in Tasks : IsFlushing(t)' <=> IsFlushing(t)
  /\ UNCHANGED <<kind, buffers, promised, pending>> /\ calls' >= calls
  /\ dropped \subseteq dropped'
  /\ \A l \in Localities : \A k \in Keys \ dropped' : 
       Len(mem'[l][k]) = Len(mem[l][k])

\* a step that starts and ends activities only for insertions
Plainly == 
  /\ \A a \in acts' \ acts : 
       IsMover(a) => a.work.op \in InsertOps /\ a.async
  /\ \A a \in acts : a.work.op = "flush" => a \in acts'
  /\ \A t \in Tasks : IsFlushing(t)' <=> IsFlushing(t)
  /\ UNCHANGED <<kind, buffers>>
  /\ \A t \in Tasks : UNCHANGED <<pending[t].both, pending[t].buffered>>

LEMMA PlainlyFlushes == 
  ASSUME ObjectInv, ObjectInv', FlushInv, Plainly
  PROVE  FlushInv'
<1> USE DEF Plainly, Moving, IsMover, InsertOps
<1>1. \A a \in acts' : 
        /\ a.work.op \in Moving => (a.async <=> a.work.op # "flush")
        /\ a.work.op = "flush" => IsFlushing(a.task)'
  <2>1. \A a \in acts' : a.task \in Tasks
    BY DEF ObjectInv, TaskTypes, Activities
  <2> QED BY <2>1 DEF FlushInv
<1>2. \A t, u \in Tasks : IsFlushing(t)' /\ IsFlushing(u)' => t = u
  BY DEF FlushInv
<1>3. \A t \in Tasks, a \in acts' : 
        IsFlushing(t)' => a.work.op \notin {"deliver", "read", "asyncflush"}
  BY DEF FlushInv
<1>4. \A a, b \in acts' : a.work.op = "asyncflush" => 
        /\ b.work.op # "read"
        /\ b.work.op = "asyncflush" => a.task = b.task /\ (a.at = b.at => a = b)
  BY DEF FlushInv
<1>5. \A t \in Tasks, i \in Localities : IsFlushing(t)' => 
        \/ \E a \in acts' : a.work.op = "flush" /\ a.at = i
        \/ \A l \in Localities : buffers'[i][l] = <<>>
  BY DEF FlushInv
<1>6. kind' = "replicated" => 
        /\ \A a \in acts' : a.work.op \notin {"deliver", "read", "asyncflush", "flush"}
        /\ \A t \in Tasks, k \in Keys : 
             pending'[t].both[k] = 0 /\ pending'[t].buffered[k] = 0
  BY DEF FlushInv
<1> QED BY <1>1, <1>2, <1>3, <1>4, <1>5, <1>6 DEF FlushInv

LEMMA QuietFlushes == 
  ASSUME ObjectInv, ObjectInv', FlushInv, Quiet
  PROVE  FlushInv'
<1>1. Plainly
  BY DEF Quiet, Plainly, IsMover, Moving
<1> QED BY <1>1, PlainlyFlushes

\* the operations of single classes
ReadFiles(t) == 
  /\ Calling(t, "readFromFiles") /\ ~ FlushUnderWay
  /\ Leaving(t, {Activity(t, TRUE, 0, [op |-> "read", key |-> k]) : k \in Keys})
  /\ pending' = [pending EXCEPT ![t].both = [k \in Keys |-> @[k] + 1]]
  /\ UNCHANGED <<memory, look, promised, dropped>>

ReadFile(a) == 
  /\ a.work.op = "read"
  /\ \E l \in Localities : 
       /\ Fill(l, a.work.key)
       /\ Running(a, IF IsFull(l, a.work.key) 
            THEN {[a EXCEPT !.at = TargetLocality(a.work.key), 
                            !.work = Delivery(l, InBuffer(l, a.work.key))]} 
            ELSE {})
  /\ NoHistory /\ UNCHANGED <<mem, look>>

InsertEverywhere(t, name, k) == 
  /\ Calling(t, name) 
  /\ Leaving(t, OnAll(t, TRUE, Work("insert", k, FALSE)))
  /\ Later(t, "async", k) /\ UNCHANGED <<memory, look>>

-----------------------------------------------------------------------------
(* What the steps do, place by place.                                      *)

LEMMA FillIs == 
  ASSUME ObjectInv, NEW l \in Localities, NEW k \in Keys, Fill(l, k)
  PROVE  /\ InBuffer(l, k) = Append(buffers[l][TargetLocality(k)], k)
         /\ InBuffer(l, k) \in Seq(Keys) 
         /\ buffers[l][TargetLocality(k)] \in Seq(Keys)
         /\ \A j, i \in Localities : 
              buffers'[j][i] = IF j = l /\ i = TargetLocality(k)
                THEN IF IsFull(l, k) THEN <<>> ELSE InBuffer(l, k)
                ELSE buffers[j][i]
<1> DEFINE i0 == TargetLocality(k)
           b == IF IsFull(l, k) THEN <<>> ELSE InBuffer(l, k)
<1>1. i0 \in Localities /\ InBuffer(l, k) \in Seq(Keys)
  BY TargetType, FillEffect DEF ObjectInv
<1>4. buffers[l][i0] \in Seq(Keys)
  BY <1>1 DEF ObjectInv, MemoryInv
<1>2. buffers' = [buffers EXCEPT ![l][i0] = b]
  BY DEF Fill, SetBuffer
<1> HIDE DEF i0, b
<1>3. \A j, i \in Localities : 
        buffers'[j][i] = IF j = l /\ i = i0 THEN b ELSE buffers[j][i]
  BY <1>1, <1>2 DEF ObjectInv, MemoryInv
<1> QED BY <1>1, <1>3, <1>4 DEF i0, b, InBuffer

LEMMA LaterIs == 
  ASSUME HistoryTypes, NEW t \in Tasks, NEW k \in Keys
  PROVE  /\ Later(t, "async", k) => 
              /\ HistoryTypes' /\ UNCHANGED <<promised, dropped>>
              /\ \A u \in Tasks, j \in Keys : 
                   /\ UNCHANGED <<pending[u].both, pending[u].buffered>>
                   /\ pending'[u].async[j] = IF u = t /\ j = k 
                        THEN pending[u].async[j] + 1 ELSE pending[u].async[j]
         /\ Later(t, "both", k) => 
              /\ HistoryTypes' /\ UNCHANGED <<promised, dropped>>
              /\ \A u \in Tasks, j \in Keys : 
                   /\ UNCHANGED <<pending[u].async, pending[u].buffered>>
                   /\ pending'[u].both[j] = IF u = t /\ j = k 
                        THEN pending[u].both[j] + 1 ELSE pending[u].both[j]
         /\ Later(t, "buffered", k) => 
              /\ HistoryTypes' /\ UNCHANGED <<promised, dropped>>
              /\ \A u \in Tasks, j \in Keys : 
                   /\ UNCHANGED <<pending[u].async, pending[u].both>>
                   /\ pending'[u].buffered[j] = IF u = t /\ j = k 
                        THEN pending[u].buffered[j] + 1 ELSE pending[u].buffered[j]
<1> DEFINE more(f) == [f EXCEPT ![k] = @ + 1]
<1>1. \A f \in [Keys -> Nat] : 
        /\ more(f) \in [Keys -> Nat] 
        /\ \A j \in Keys : more(f)[j] = IF j = k THEN f[j] + 1 ELSE f[j]
  OBVIOUS
<1>2. /\ Later(t, "async", k) => 
           /\ pending' = [pending EXCEPT ![t].async = more(pending[t].async)]
           /\ UNCHANGED <<promised, dropped>>
      /\ Later(t, "both", k) => 
           /\ pending' = [pending EXCEPT ![t].both = more(pending[t].both)]
           /\ UNCHANGED <<promised, dropped>>
      /\ Later(t, "buffered", k) => 
           /\ pending' = [pending EXCEPT ![t].buffered = more(pending[t].buffered)]
           /\ UNCHANGED <<promised, dropped>>
  BY DEF Later
<1> HIDE DEF more
<1>3. ASSUME Later(t, "async", k)
      PROVE  /\ HistoryTypes'
             /\ \A u \in Tasks : 
                  /\ UNCHANGED <<pending[u].both, pending[u].buffered>>
                  /\ pending'[u].async = IF u = t THEN more(pending[u].async) 
                                                  ELSE pending[u].async
  <2> DEFINE new == more(pending[t].async)
  <2>1. new \in [Keys -> Nat] 
    BY <1>1 DEF HistoryTypes
  <2>2. pending' = [pending EXCEPT ![t].async = new] /\ promised' = promised
    BY <1>2, <1>3
  <2> HIDE DEF new
  <2>3. HistoryTypes'
    BY <2>1, <2>2 DEF HistoryTypes
  <2> QED BY <2>1, <2>2, <2>3 DEF HistoryTypes, new
<1>4. ASSUME Later(t, "both", k)
      PROVE  /\ HistoryTypes'
             /\ \A u \in Tasks : 
                  /\ UNCHANGED <<pending[u].async, pending[u].buffered>>
                  /\ pending'[u].both = IF u = t THEN more(pending[u].both) 
                                                 ELSE pending[u].both
  <2> DEFINE new == more(pending[t].both)
  <2>1. new \in [Keys -> Nat] 
    BY <1>1 DEF HistoryTypes
  <2>2. pending' = [pending EXCEPT ![t].both = new] /\ promised' = promised
    BY <1>2, <1>4
  <2> HIDE DEF new
  <2>3. HistoryTypes'
    BY <2>1, <2>2 DEF HistoryTypes
  <2> QED BY <2>1, <2>2, <2>3 DEF HistoryTypes, new
<1>5. ASSUME Later(t, "buffered", k)
      PROVE  /\ HistoryTypes'
             /\ \A u \in Tasks : 
                  /\ UNCHANGED <<pending[u].async, pending[u].both>>
                  /\ pending'[u].buffered = IF u = t THEN more(pending[u].buffered) 
                                                     ELSE pending[u].buffered
  <2> DEFINE new == more(pending[t].buffered)
  <2>1. new \in [Keys -> Nat] 
    BY <1>1 DEF HistoryTypes
  <2>2. pending' = [pending EXCEPT ![t].buffered = new] /\ promised' = promised
    BY <1>2, <1>5
  <2> HIDE DEF new
  <2>3. HistoryTypes'
    BY <2>1, <2>2 DEF HistoryTypes
  <2> QED BY <2>1, <2>2, <2>3 DEF HistoryTypes, new
<1>6. \A u \in Tasks : /\ pending[u].async \in [Keys -> Nat]
                       /\ pending[u].both \in [Keys -> Nat]
                       /\ pending[u].buffered \in [Keys -> Nat]
  BY DEF HistoryTypes
<1> QED BY <1>1, <1>2, <1>3, <1>4, <1>5, <1>6

LEMMA ReturnIs == 
  ASSUME ObjectInv, HistoryTypes, NEW t \in Tasks, Return(t)
  PROVE  /\ HistoryTypes' /\ UNCHANGED <<mem, buffers, acts, calls, dropped>>
         /\ Mine(t, FALSE) = {} 
         /\ \A u \in Tasks : IsFlushing(u)' <=> IsFlushing(u) /\ u # t
         /\ \A u \in Tasks, k \in Keys : 
              /\ UNCHANGED <<pending[u].async, pending[u].both>>
              /\ pending'[u].buffered[k] = IF u = t /\ IsFlushing(t) 
                   THEN 0 ELSE pending[u].buffered[k]
         /\ \A k \in Keys : promised'[k] = IF IsFlushing(t) 
              THEN promised[k] + pending[t].buffered[k] ELSE promised[k]
<1>1. /\ UNCHANGED <<mem, buffers, acts, calls, dropped>>
      /\ Mine(t, FALSE) = {} 
  BY DEF Return, GoesOn, memory
<1>2. \A u \in Tasks : IsFlushing(u)' <=> IsFlushing(u) /\ u # t
  <2> DEFINE d == IF doing[t].op = "called" THEN [op |-> "looked"] ELSE Idle
  <2>1. doing' = [doing EXCEPT ![t] = d] /\ d.op # "flushing"
    BY DEF Return, GoesOn, Become, Idle
  <2> HIDE DEF d
  <2> QED BY <2>1 DEF IsFlushing, ObjectInv, TaskTypes
<1>3. CASE IsFlushing(t)
  <2>1. /\ promised' = Plus(promised, pending[t].buffered)
        /\ pending' = [pending EXCEPT ![t].buffered = NoKeys]
    BY <1>3 DEF Return, IsFlushing
  <2>2. NoKeys \in [Keys -> Nat] /\ \A k \in Keys : NoKeys[k] = 0
    BY DEF NoKeys
  <2>3. /\ Plus(promised, pending[t].buffered) \in [Keys -> Nat]
        /\ \A k \in Keys : Plus(promised, pending[t].buffered)[k] 
                            = promised[k] + pending[t].buffered[k]
    BY DEF HistoryTypes, Plus
  <2>4. HistoryTypes'
    BY <2>1, <2>2, <2>3 DEF HistoryTypes
  <2>5. \A u \in Tasks : 
          /\ UNCHANGED <<pending[u].async, pending[u].both>>
          /\ pending'[u].buffered = IF u = t THEN NoKeys ELSE pending[u].buffered
    BY <2>1 DEF HistoryTypes
  <2>6. \A u \in Tasks, k \in Keys : 
          pending'[u].buffered[k] = IF u = t /\ IsFlushing(t) 
            THEN 0 ELSE pending[u].buffered[k]
    BY <1>3, <2>2, <2>5
  <2>7. \A k \in Keys : promised'[k] = promised[k] + pending[t].buffered[k]
    BY <2>1, <2>3
  <2> QED BY <1>1, <1>2, <1>3, <2>4, <2>5, <2>6, <2>7
<1>4. CASE ~ IsFlushing(t)
  <2>1. UNCHANGED <<promised, pending>>
    BY <1>4 DEF Return, IsFlushing
  <2> QED BY <1>1, <1>2, <1>4, <2>1 DEF HistoryTypes
<1> QED BY <1>3, <1>4

LEMMA WaitIs == 
  ASSUME ObjectInv, HistoryTypes, NEW t \in Tasks, waitForCompletion(t)
  PROVE  /\ HistoryTypes' /\ UNCHANGED <<mem, buffers, acts, calls, dropped>>
         /\ Mine(t, TRUE) = {} 
         /\ \A u \in Tasks : IsFlushing(u)' <=> IsFlushing(u)
         /\ \A u \in Tasks, k \in Keys : u # t => 
              UNCHANGED <<pending[u].async, pending[u].both, pending[u].buffered>>
         /\ \A k \in Keys : 
              /\ pending'[t].async[k] = 0 /\ pending'[t].both[k] = 0
              /\ pending'[t].buffered[k] = pending[t].buffered[k] + pending[t].both[k]
              /\ promised'[k] = promised[k] + pending[t].async[k]
<1>1. /\ UNCHANGED <<mem, buffers, acts, calls, dropped>>
      /\ Mine(t, TRUE) = {} /\ doing[t] = Idle
      /\ Become(t, IF look[t] = NoLook THEN Idle ELSE [op |-> "looked"])
  BY DEF waitForCompletion, memory
<1>2. \A u \in Tasks : IsFlushing(u)' <=> IsFlushing(u)
  <2> DEFINE d == IF look[t] = NoLook THEN Idle ELSE [op |-> "looked"]
  <2>1. doing' = [doing EXCEPT ![t] = d] /\ d.op # "flushing" /\ doing[t].op # "flushing"
    BY <1>1 DEF Become, Idle
  <2> HIDE DEF d
  <2> QED BY <2>1 DEF IsFlushing, ObjectInv, TaskTypes
<1>3. /\ promised' = Plus(promised, pending[t].async)
      /\ pending' = [pending EXCEPT ![t] = 
           [async |-> NoKeys, both |-> NoKeys, 
            buffered |-> Plus(@.buffered, @.both)]]
  BY DEF waitForCompletion
<1>4. NoKeys \in [Keys -> Nat] /\ (\A k \in Keys : NoKeys[k] = 0)
      /\ \A f, g \in [Keys -> Nat] : 
        Plus(f, g) \in [Keys -> Nat] /\ \A k \in Keys : Plus(f, g)[k] = f[k] + g[k]
  BY DEF NoKeys, Plus
<1>5. HistoryTypes'
  BY <1>3, <1>4 DEF HistoryTypes
<1>6. \A u \in Tasks, k \in Keys : u # t => 
        UNCHANGED <<pending[u].async, pending[u].both, pending[u].buffered>>
  BY <1>3 DEF HistoryTypes
<1>7. /\ pending'[t].async = NoKeys /\ pending'[t].both = NoKeys
      /\ pending'[t].buffered = Plus(pending[t].buffered, pending[t].both)
  BY <1>3 DEF HistoryTypes
<1>9. /\ promised \in [Keys -> Nat] /\ pending[t].async \in [Keys -> Nat]
      /\ pending[t].both \in [Keys -> Nat] /\ pending[t].buffered \in [Keys -> Nat]
  BY DEF HistoryTypes
<1>8. \A k \in Keys : 
        /\ pending'[t].async[k] = 0 /\ pending'[t].both[k] = 0
        /\ pending'[t].buffered[k] = pending[t].buffered[k] + pending[t].both[k]
        /\ promised'[k] = promised[k] + pending[t].async[k]
  BY <1>3, <1>4, <1>7, <1>9
<1> QED BY <1>1, <1>2, <1>5, <1>6, <1>8

LEMMA AsyncFlushIs == 
  ASSUME ObjectInv, HistoryTypes, NEW t \in Tasks, AsyncFlushAllBuffers(t)
  PROVE  /\ HistoryTypes' /\ UNCHANGED <<mem, buffers, calls, promised, dropped, doing>>
         /\ \A u \in Tasks : ~ IsFlushing(u) 
         /\ \A a \in acts : a.work.op \notin {"deliver", "read", "asyncflush"}
         /\ \A u \in Tasks, k \in Keys : u # t => 
              UNCHANGED <<pending[u].async, pending[u].both, pending[u].buffered>>
         /\ \A k \in Keys : 
              /\ pending'[t].both[k] = pending[t].both[k]
              /\ pending'[t].async[k] = pending[t].async[k] + pending[t].buffered[k]
              /\ pending'[t].buffered[k] = 0
         /\ acts \subseteq acts'
         /\ \A i \in Localities : \E a \in acts' \ acts : a.at = i
         /\ \A a \in acts' \ acts : 
              a.task = t /\ a.async /\ a.work.op = "asyncflush" /\ a.number = calls
<1> DEFINE w == [op |-> "asyncflush"]
           f(l) == Activity(t, TRUE, l, w)
<1>1. /\ acts' = acts \cup {f(l) : l \in Localities}
      /\ UNCHANGED <<mem, buffers, calls, promised, dropped, doing>>
      /\ pending' = [pending EXCEPT ![t].async = Plus(@, pending[t].buffered), 
                                    ![t].buffered = NoKeys]
      /\ \A u \in Tasks : ~ IsFlushing(u) 
      /\ \A a \in acts : a.work.op \notin {"deliver", "read", "asyncflush"}
  BY DEF AsyncFlushAllBuffers, Leaving, OnAll, memory, MayFlush, FlushUnderWay,
         IsFlushing
<1>2. \A l \in Localities : 
        /\ f(l).at = l /\ f(l).task = t /\ f(l).async /\ f(l).number = calls
        /\ f(l).work.op = "asyncflush"
  BY DEF Activity
<1> HIDE DEF f
<1>3. NoKeys \in [Keys -> Nat] /\ (\A k \in Keys : NoKeys[k] = 0)
      /\ \A g, h \in [Keys -> Nat] : 
        Plus(g, h) \in [Keys -> Nat] /\ \A k \in Keys : Plus(g, h)[k] = g[k] + h[k]
  BY DEF NoKeys, Plus
<1>4. HistoryTypes'
  BY <1>1, <1>3 DEF HistoryTypes
<1>5. \A u \in Tasks, k \in Keys : u # t => 
        UNCHANGED <<pending[u].async, pending[u].both, pending[u].buffered>>
  BY <1>1 DEF HistoryTypes
<1>6. /\ pending'[t].both = pending[t].both /\ pending'[t].buffered = NoKeys
      /\ pending'[t].async = Plus(pending[t].async, pending[t].buffered)
  BY <1>1 DEF HistoryTypes
<1>9. /\ promised \in [Keys -> Nat] /\ pending[t].async \in [Keys -> Nat]
      /\ pending[t].both \in [Keys -> Nat] /\ pending[t].buffered \in [Keys -> Nat]
  BY DEF HistoryTypes
<1>7. \A k \in Keys : 
        /\ pending'[t].both[k] = pending[t].both[k]
        /\ pending'[t].async[k] = pending[t].async[k] + pending[t].buffered[k]
        /\ pending'[t].buffered[k] = 0
  BY <1>3, <1>6, <1>9
<1>8. /\ acts \subseteq acts'
      /\ \A i \in Localities : \E a \in acts' \ acts : a.at = i
      /\ \A a \in acts' \ acts : 
           a.task = t /\ a.async /\ a.work.op = "asyncflush" /\ a.number = calls
  BY <1>1, <1>2
<1> QED BY <1>1, <1>4, <1>5, <1>7, <1>8

LEMMA FlushIs == 
  ASSUME ObjectInv, NEW t \in Tasks, FlushAllBuffers(t)
  PROVE  /\ UNCHANGED <<mem, buffers, calls, history>>
         /\ \A u \in Tasks : ~ IsFlushing(u) /\ (IsFlushing(u)' <=> u = t)
         /\ \A a \in acts : a.work.op \notin {"deliver", "read", "asyncflush"}
         /\ acts \subseteq acts'
         /\ \A i \in Localities : \E a \in acts' : a.at = i /\ a.work.op = "flush"
         /\ \A a \in acts' \ acts : a.task = t /\ ~ a.async /\ a.work.op = "flush"
<1> DEFINE w == [op |-> "flush"]
           f(l) == Activity(t, FALSE, l, w)
<1>1. /\ acts' = acts \cup {f(l) : l \in Localities}
      /\ UNCHANGED <<mem, buffers, calls, history>>
      /\ doing' = [doing EXCEPT ![t] = [op |-> "flushing"]]
      /\ \A u \in Tasks : ~ IsFlushing(u) 
      /\ \A a \in acts : a.work.op \notin {"deliver", "read", "asyncflush"}
  BY DEF FlushAllBuffers, Waiting, Become, OnAll, memory, MayFlush, FlushUnderWay,
         IsFlushing, NoHistory
<1>2. \A l \in Localities : 
        /\ f(l).at = l /\ f(l).task = t /\ ~ f(l).async 
        /\ f(l).work.op = "flush"
  BY DEF Activity
<1> HIDE DEF f
<1>3. \A u \in Tasks : IsFlushing(u)' <=> u = t
  BY <1>1 DEF ObjectInv, TaskTypes, IsFlushing
<1>4. /\ acts \subseteq acts'
      /\ \A i \in Localities : \E a \in acts' : a.at = i /\ a.work.op = "flush"
      /\ \A a \in acts' \ acts : a.task = t /\ ~ a.async /\ a.work.op = "flush"
  BY <1>1, <1>2
<1> QED BY <1>1, <1>3, <1>4

\* an activity that starts another one for its task
Successor(a, l, w) == [a EXCEPT !.at = l, !.work = w]

LEMMA SuccessorIs == 
  ASSUME NEW a \in Activities, NEW l, NEW w
  PROVE  /\ Successor(a, l, w).task = a.task /\ Successor(a, l, w).async = a.async
         /\ Successor(a, l, w).number = a.number /\ Successor(a, l, w).at = l
         /\ Successor(a, l, w).work = w
BY DEF Successor, Activities

LEMMA RunAsyncFlushIs == 
  ASSUME ObjectInv, NEW a \in acts, RunAsyncFlush(a)
  PROVE  /\ UNCHANGED <<mem, calls, doing, history>> /\ a.work.op = "asyncflush"
         /\ a \notin acts' /\ \A b \in acts : b # a => b \in acts'
         /\ \A j, i \in Localities : 
              buffers'[j][i] = IF j = a.at THEN <<>> ELSE buffers[j][i]
         /\ \A i \in Localities : buffers[a.at][i] # <<>> => 
              [a EXCEPT !.at = i, !.work = Delivery(a.at, buffers[a.at][i])] \in acts'
         /\ \A b \in acts' \ acts : \E i \in Localities : 
              b = [a EXCEPT !.at = i, !.work = Delivery(a.at, buffers[a.at][i])]
<1> DEFINE d(i) == Delivery(a.at, buffers[a.at][i])
           b(i) == [a EXCEPT !.at = i, !.work = d(i)]
           more == {b(i) : i \in ToFlush(a.at)}
<1>1. a \in Activities /\ a.at \in Localities /\ a.work.op = "asyncflush"
  BY DEF ObjectInv, TaskTypes, Activities, RunAsyncFlush
<1>2. \A i \in Localities : b(i).work.op = "deliver"
  BY <1>1 DEF Delivery, Activities
<1>3. /\ acts' = (acts \ {a}) \cup more /\ UNCHANGED <<mem, calls, doing, history>>
      /\ buffers' = [buffers EXCEPT ![a.at] = [i \in Localities |-> <<>>]]
  BY DEF RunAsyncFlush, Running, NoHistory
<1>4. \A j, i \in Localities : 
        buffers'[j][i] = IF j = a.at THEN <<>> ELSE buffers[j][i]
  BY <1>1, <1>3 DEF ObjectInv, MemoryInv
<1>5. \A i \in Localities : buffers[a.at][i] # <<>> => b(i) \in more
  BY DEF ToFlush
<1>6. \A x \in more : \E i \in Localities : x = b(i)
  BY DEF ToFlush
<1> HIDE DEF b, more
<1>7. /\ a \notin acts' /\ \A c \in acts : c # a => c \in acts'
      /\ \A i \in Localities : buffers[a.at][i] # <<>> => b(i) \in acts'
      /\ \A c \in acts' \ acts : \E i \in Localities : c = b(i)
  BY <1>1, <1>2, <1>3, <1>5, <1>6
<1> QED BY <1>1, <1>3, <1>4, <1>7 DEF b

LEMMA RunFlushIs == 
  ASSUME ObjectInv, NEW a \in acts, RunFlush(a)
  PROVE  /\ UNCHANGED <<calls, doing, history>> /\ a.work.op = "flush"
         /\ \/ /\ acts' = acts \ {a} /\ UNCHANGED <<mem, buffers>>
               /\ \A i \in Localities : buffers[a.at][i] = <<>>
            \/ /\ acts' = acts
               /\ \E i \in Localities : 
                    /\ Deliver(i, buffers[a.at][i]) 
                    /\ \A j, l \in Localities : buffers'[j][l] = 
                         IF j = a.at /\ l = i THEN <<>> ELSE buffers[j][l]
<1>1. /\ a \in Activities /\ a.at \in Localities /\ a.work.op = "flush"
      /\ UNCHANGED <<calls, doing, history>>
  BY DEF ObjectInv, TaskTypes, Activities, RunFlush, Running, NoHistory
<1>2. CASE ToFlush(a.at) = {}
  <2>1. acts' = acts \ {a} /\ UNCHANGED <<mem, buffers>>
    BY <1>2 DEF RunFlush, Running, memory
  <2> QED BY <1>1, <1>2, <2>1 DEF ToFlush
<1>3. CASE ToFlush(a.at) # {}
  <2> DEFINE i == Min(ToFlush(a.at))
  <2>1. i \in Localities
    BY <1>3, MinIsLeast DEF ToFlush
  <2>2. /\ acts' = (acts \ {a}) \cup {a} /\ Deliver(i, buffers[a.at][i])
        /\ buffers' = [buffers EXCEPT ![a.at][i] = <<>>]
    BY <1>3 DEF RunFlush, Running, SetBuffer
  <2> HIDE DEF i
  <2>3. \A j, l \in Localities : 
          buffers'[j][l] = IF j = a.at /\ l = i THEN <<>> ELSE buffers[j][l]
    BY <1>1, <2>1, <2>2 DEF ObjectInv, MemoryInv
  <2> QED BY <1>1, <2>1, <2>2, <2>3
<1> QED BY <1>2, <1>3

LEMMA ReadFileIs == 
  ASSUME ObjectInv, NEW a \in acts, ReadFile(a)
  PROVE  /\ UNCHANGED <<mem, calls, doing, history>> /\ a.work.op = "read"
         /\ a.work.key \in Keys
         /\ \E l \in Localities : 
              /\ Fill(l, a.work.key)
              /\ IF IsFull(l, a.work.key)
                   THEN acts' = (acts \ {a}) \cup 
                          {[a EXCEPT !.at = TargetLocality(a.work.key), 
                             !.work = Delivery(l, InBuffer(l, a.work.key))]}
                   ELSE acts' = acts \ {a}
<1>1. a.work.op = "read" /\ a.work.key \in Keys /\ a \in Activities
  BY DEF ObjectInv, TaskTypes, Activities, ReadFile, Works
<1>2. UNCHANGED <<mem, calls, doing, history>>
  BY DEF ReadFile, Running, NoHistory
<1>3. PICK l \in Localities : 
       /\ Fill(l, a.work.key)
       /\ Running(a, IF IsFull(l, a.work.key) 
            THEN {[a EXCEPT !.at = TargetLocality(a.work.key), 
                            !.work = Delivery(l, InBuffer(l, a.work.key))]} 
            ELSE {})
  BY DEF ReadFile
<1> QED BY <1>1, <1>2, <1>3 DEF Running

LEMMA ReadFilesIs == 
  ASSUME ObjectInv, HistoryTypes, NEW t \in Tasks, ReadFiles(t)
  PROVE  /\ HistoryTypes' /\ calls' = calls + 1
         /\ UNCHANGED <<mem, buffers, doing, promised, dropped>>
         /\ \A u \in Tasks : ~ IsFlushing(u)
         /\ \A a \in acts : a.work.op # "asyncflush"
         /\ acts' = acts \cup 
              {Activity(t, TRUE, 0, [op |-> "read", key |-> k]) : k \in Keys}
         /\ \A u \in Tasks, k \in Keys : 
              /\ UNCHANGED <<pending[u].async, pending[u].buffered>>
              /\ pending'[u].both[k] = 
                   IF u = t THEN pending[u].both[k] + 1 ELSE pending[u].both[k]
<1>1. /\ calls' = calls + 1 /\ UNCHANGED <<mem, buffers, doing, promised, dropped>>
      /\ \A u \in Tasks : ~ IsFlushing(u)
      /\ \A a \in acts : a.work.op # "asyncflush"
      /\ acts' = acts \cup 
           {Activity(t, TRUE, 0, [op |-> "read", key |-> k]) : k \in Keys}
  BY DEF ReadFiles, Calling, Leaving, memory, FlushUnderWay, IsFlushing
<1> DEFINE new == [k \in Keys |-> pending[t].both[k] + 1]
<1>2. new \in [Keys -> Nat] /\ \A k \in Keys : new[k] = pending[t].both[k] + 1
  BY DEF HistoryTypes
<1>3. pending' = [pending EXCEPT ![t].both = new]
  BY DEF ReadFiles
<1> HIDE DEF new
<1>4. HistoryTypes'
  BY <1>1, <1>2, <1>3 DEF HistoryTypes
<1>5. \A u \in Tasks : 
        /\ UNCHANGED <<pending[u].async, pending[u].buffered>>
        /\ pending'[u].both = IF u = t THEN new ELSE pending[u].both
  BY <1>3 DEF HistoryTypes
<1>6. \A u \in Tasks, k \in Keys : pending'[u].both[k] = 
        IF u = t THEN pending[u].both[k] + 1 ELSE pending[u].both[k]
  BY <1>2, <1>5
<1> QED BY <1>1, <1>4, <1>5, <1>6

LEMMA InsertBufferedIs == 
  ASSUME ObjectInv, HistoryTypes, NEW t \in Tasks, NEW name, NEW k \in Keys
  PROVE  /\ InsertBuffered(t, name, k) => 
              /\ Later(t, "buffered", k) /\ Fill(Home[t], k)
              /\ UNCHANGED <<acts, doing>> /\ calls' = calls + 1
              /\ IF IsFull(Home[t], k) 
                   THEN Deliver(TargetLocality(k), InBuffer(Home[t], k))
                   ELSE mem' = mem
              /\ \A u \in Tasks : ~ IsFlushing(u)
              /\ \A a \in acts : a.work.op # "asyncflush"
         /\ AsyncInsertBuffered(t, name, k) => 
              /\ Later(t, "both", k) /\ Fill(Home[t], k)
              /\ UNCHANGED <<mem, doing>> /\ calls' = calls + 1
              /\ acts' = IF IsFull(Home[t], k) 
                   THEN acts \cup {Activity(t, TRUE, TargetLocality(k), 
                                      Delivery(Home[t], InBuffer(Home[t], k)))}
                   ELSE acts
              /\ \A u \in Tasks : ~ IsFlushing(u)
              /\ \A a \in acts : a.work.op # "asyncflush"
BY DEF InsertBuffered, AsyncInsertBuffered, Calling, AtOnce, Leaving, FlushUnderWay,
       IsFlushing

-----------------------------------------------------------------------------
(* One flush at a time.                                                    *)

\* a step while there is none
LEMMA NoFlush == 
  ASSUME ObjectInv, ObjectInv', FlushInv, 
         kind' = kind, kind # "replicated", doing' = doing,
         \A t \in Tasks : ~ IsFlushing(t),
         \A a \in acts : a.work.op # "asyncflush",
         \A a \in acts' \ acts : a.async /\ a.work.op \in {"deliver", "read"}
  PROVE  FlushInv'
<1>1. \A t \in Tasks : ~ IsFlushing(t)'
  BY DEF IsFlushing
<1>2. \A a \in acts' : /\ a.work.op # "asyncflush"
                       /\ a.work.op \in Moving => (a.async <=> a.work.op # "flush")
                       /\ a.work.op # "flush"
  <2>1. \A a \in acts : a.task \in Tasks
    BY DEF ObjectInv, TaskTypes, Activities
  <2> QED BY <2>1 DEF FlushInv
<1> QED BY <1>1, <1>2 DEF FlushInv

LEMMA BufferedFlushes == 
  ASSUME ObjectInv, ObjectInv', FlushInv, HistoryTypes, UNCHANGED <<kind, program>>, 
         kind # "replicated", NEW t \in Tasks,
         \/ \E name : \E k \in Keys : 
              InsertBuffered(t, name, k) \/ AsyncInsertBuffered(t, name, k) 
         \/ ReadFiles(t)
  PROVE  FlushInv'
<1>1. ASSUME NEW name, NEW k \in Keys, InsertBuffered(t, name, k) PROVE FlushInv'
  BY <1>1, InsertBufferedIs, NoFlush
<1>2. ASSUME NEW name, NEW k \in Keys, AsyncInsertBuffered(t, name, k) PROVE FlushInv'
  <2> DEFINE a == Activity(t, TRUE, TargetLocality(k), 
                     Delivery(Home[t], InBuffer(Home[t], k)))
  <2>1. a.async /\ a.work.op = "deliver"
    BY DEF Activity, Delivery
  <2>2. acts' \subseteq acts \cup {a}
    BY <1>2, InsertBufferedIs
  <2> HIDE DEF a
  <2> QED BY <1>2, <2>1, <2>2, InsertBufferedIs, NoFlush
<1>3. ASSUME ReadFiles(t) PROVE FlushInv'
  <2>1. \A a \in acts' \ acts : a.async /\ a.work.op = "read"
    BY <1>3, ReadFilesIs DEF Activity
  <2> QED BY <1>3, <2>1, ReadFilesIs, NoFlush
<1> QED BY <1>1, <1>2, <1>3

LEMMA ReadFileFlushes == 
  ASSUME ObjectInv, ObjectInv', FlushInv, UNCHANGED <<kind, program>>, 
         NEW a \in acts, ReadFile(a)
  PROVE  FlushInv'
<1>1. a.work.op = "read" /\ a \in Activities /\ doing' = doing
  BY ReadFileIs DEF ObjectInv, TaskTypes
<1>2. /\ \A t \in Tasks : ~ IsFlushing(t)
      /\ \A b \in acts : b.work.op # "asyncflush"
      /\ kind # "replicated" /\ a.async
  BY <1>1 DEF FlushInv, Moving
<1>3. \A b \in acts' \ acts : b.async /\ b.work.op = "deliver"
  <2>1. PICK l \in Localities : acts' \subseteq acts \cup 
          {Successor(a, TargetLocality(a.work.key), 
                     Delivery(l, InBuffer(l, a.work.key)))}
    BY ReadFileIs DEF Successor
  <2>2. \A i, ks : /\ Successor(a, i, Delivery(l, ks)).async
                   /\ Successor(a, i, Delivery(l, ks)).work.op = "deliver"
    BY <1>1, <1>2, SuccessorIs DEF Delivery
  <2> QED BY <2>1, <2>2
<1> QED BY <1>1, <1>2, <1>3, NoFlush

LEMMA FlushFlushes == 
  ASSUME ObjectInv, ObjectInv', FlushInv, UNCHANGED <<kind, program>>, 
         kind # "replicated", NEW t \in Tasks, FlushAllBuffers(t)
  PROVE  FlushInv'
<1>1. \A u \in Tasks : ~ IsFlushing(u) /\ (IsFlushing(u)' <=> u = t)
  BY FlushIs
<1>2. /\ acts \subseteq acts'
      /\ \A a \in acts : a.work.op \notin {"deliver", "read", "asyncflush"}
      /\ \A a \in acts' \ acts : a.task = t /\ ~ a.async /\ a.work.op = "flush"
      /\ \A i \in Localities : \E a \in acts' : a.at = i /\ a.work.op = "flush"
  BY FlushIs
<1>3. \A a \in acts : a.task \in Tasks
  BY DEF ObjectInv, TaskTypes, Activities
<1>4. \A a \in acts' : 
        /\ a.work.op \in Moving => (a.async <=> a.work.op # "flush")
        /\ a.work.op = "flush" => IsFlushing(a.task)'
        /\ a.work.op \notin {"deliver", "read", "asyncflush"}
  BY <1>1, <1>2, <1>3 DEF FlushInv
<1> QED BY <1>1, <1>2, <1>4 DEF FlushInv

LEMMA AsyncFlushFlushes == 
  ASSUME ObjectInv, ObjectInv', FlushInv, HistoryTypes, UNCHANGED <<kind, program>>, 
         kind # "replicated", NEW t \in Tasks, AsyncFlushAllBuffers(t)
  PROVE  FlushInv'
<1>1. \A u \in Tasks : ~ IsFlushing(u) /\ ~ IsFlushing(u)'
  BY AsyncFlushIs DEF IsFlushing
<1>2. /\ \A a \in acts : a.work.op \notin {"deliver", "read", "asyncflush"}
      /\ \A a \in acts' \ acts : a.task = t /\ a.async /\ a.work.op = "asyncflush"
  BY AsyncFlushIs
<1>3. \A a, b \in acts' \ acts : a.at = b.at => a = b
  <2> DEFINE f(l) == Activity(t, TRUE, l, [op |-> "asyncflush"])
  <2>1. \A l \in Localities : f(l).at = l
    BY DEF Activity
  <2>2. acts' = acts \cup {f(l) : l \in Localities}
    BY DEF AsyncFlushAllBuffers, Leaving, OnAll
  <2> HIDE DEF f
  <2> QED BY <2>1, <2>2
<1>4. \A a \in acts : a.task \in Tasks
  BY DEF ObjectInv, TaskTypes, Activities
<1>5. \A a \in acts' : 
        /\ a.work.op \in Moving => (a.async <=> a.work.op # "flush")
        /\ a.work.op # "flush" /\ a.work.op # "read"
  BY <1>1, <1>2, <1>4 DEF FlushInv
<1>6. \A a, b \in acts' : a.work.op = "asyncflush" /\ b.work.op = "asyncflush" => 
        a.task = b.task /\ (a.at = b.at => a = b)
  BY <1>2, <1>3
<1> QED BY <1>1, <1>5, <1>6 DEF FlushInv

LEMMA RunFlushFlushes == 
  ASSUME ObjectInv, ObjectInv', FlushInv, UNCHANGED <<kind, program>>, 
         NEW a \in acts, RunFlush(a)
  PROVE  FlushInv'
<1>1. /\ UNCHANGED <<calls, doing, history>> /\ a.work.op = "flush"
      /\ acts' \subseteq acts
  BY RunFlushIs
<1>2. \A t \in Tasks : IsFlushing(t)' <=> IsFlushing(t)
  BY <1>1 DEF IsFlushing
<1>3. \A i \in Localities : 
        \/ \A b \in acts : b.work.op = "flush" /\ b.at = i => b \in acts'
        \/ \A l \in Localities : buffers'[i][l] = <<>>
  <2>1. CASE acts' = acts
    BY <2>1
  <2>2. CASE /\ acts' = acts \ {a} /\ buffers' = buffers
             /\ \A i \in Localities : buffers[a.at][i] = <<>>
    BY <2>2
  <2> QED BY <2>1, <2>2, RunFlushIs
<1>4. \A i, l \in Localities : buffers[i][l] = <<>> => buffers'[i][l] = <<>>
  <2>1. CASE buffers' = buffers
    BY <2>1
  <2>2. CASE \E i \in Localities : \A j, l \in Localities : buffers'[j][l] = 
               IF j = a.at /\ l = i THEN <<>> ELSE buffers[j][l]
    BY <2>2
  <2> QED BY <2>1, <2>2, RunFlushIs
<1>5. \A t \in Tasks, i \in Localities : IsFlushing(t)' => 
        \/ \E b \in acts' : b.work.op = "flush" /\ b.at = i
        \/ \A l \in Localities : buffers'[i][l] = <<>>
  BY <1>2, <1>3, <1>4 DEF FlushInv
<1>6. \A b \in acts' : b.work.op = "flush" => IsFlushing(b.task)'
  BY <1>1 DEF FlushInv, IsFlushing
<1> QED BY <1>1, <1>2, <1>5, <1>6 DEF FlushInv, history

LEMMA RunAsyncFlushFlushes == 
  ASSUME ObjectInv, ObjectInv', FlushInv, UNCHANGED <<kind, program>>, 
         NEW a \in acts, RunAsyncFlush(a)
  PROVE  FlushInv'
<1>1. /\ UNCHANGED <<calls, doing, history>> /\ a.work.op = "asyncflush"
      /\ a \in Activities
  BY RunAsyncFlushIs DEF ObjectInv, TaskTypes
<1>2. \A b \in acts' \ acts : b.work.op = "deliver" /\ b.async
  <2>1. a.async
    BY <1>1 DEF FlushInv, Moving
  <2>2. \A i, l, ks : /\ Successor(a, i, Delivery(l, ks)).async
                      /\ Successor(a, i, Delivery(l, ks)).work.op = "deliver"
    BY <1>1, <2>1, SuccessorIs DEF Delivery
  <2>3. \A b \in acts' \ acts : \E i \in Localities : 
          b = Successor(a, i, Delivery(a.at, buffers[a.at][i]))
    BY RunAsyncFlushIs DEF Successor
  <2> QED BY <2>2, <2>3
<1>3. \A t \in Tasks : ~ IsFlushing(t) /\ ~ IsFlushing(t)'
  BY <1>1 DEF FlushInv, IsFlushing
<1>4. \A b \in acts : b.task \in Tasks
  BY DEF ObjectInv, TaskTypes, Activities
<1>5. \A b \in acts' : 
        /\ b.work.op \in Moving => (b.async <=> b.work.op # "flush")
        /\ b.work.op # "flush"
  BY <1>2, <1>3, <1>4 DEF FlushInv
<1>6. \A b, c \in acts' : b.work.op = "asyncflush" => 
        /\ c.work.op # "read"
        /\ c.work.op = "asyncflush" => b.task = c.task /\ (b.at = c.at => b = c)
  BY <1>2 DEF FlushInv
<1>7. kind # "replicated"
  BY <1>1 DEF FlushInv
<1> QED BY <1>3, <1>5, <1>6, <1>7 DEF FlushInv

LEMMA ReturnFlushes == 
  ASSUME ObjectInv, ObjectInv', FlushInv, HistoryTypes, UNCHANGED <<kind, program>>, 
         NEW t \in Tasks, Return(t) \/ waitForCompletion(t)
  PROVE  FlushInv'
<1>1. CASE Return(t)
  <2>1. /\ acts' = acts /\ buffers' = buffers /\ Mine(t, FALSE) = {}
        /\ \A u \in Tasks : IsFlushing(u)' <=> IsFlushing(u) /\ u # t
    BY <1>1, ReturnIs
  <2>2. \A a \in acts : a.work.op = "flush" => IsFlushing(a.task)' /\ a.task \in Tasks
    BY <2>1 DEF FlushInv, Mine, Moving, ObjectInv, TaskTypes, Activities
  <2>3. kind = "replicated" => \A u \in Tasks, k \in Keys : 
             pending'[u].both[k] = 0 /\ pending'[u].buffered[k] = 0
    <3>1. SUFFICES ASSUME kind = "replicated", NEW u \in Tasks, NEW k \in Keys
          PROVE pending'[u].both[k] = 0 /\ pending'[u].buffered[k] = 0
      OBVIOUS
    <3>2. /\ pending[u].both[k] = 0 /\ pending[u].buffered[k] = 0
      BY <3>1 DEF FlushInv
    <3>3. /\ pending'[u].both = pending[u].both
          /\ pending'[u].buffered[k] = 0 \/ pending'[u].buffered[k] = pending[u].buffered[k]
      BY <1>1, ReturnIs
    <3> QED BY <3>2, <3>3
  <2> QED BY <2>1, <2>2, <2>3 DEF FlushInv
<1>2. CASE waitForCompletion(t)
  <2>1. /\ acts' = acts /\ buffers' = buffers
        /\ \A u \in Tasks : IsFlushing(u)' <=> IsFlushing(u)
    BY <1>2, WaitIs
  <2>2. \A a \in acts : a.work.op = "flush" => IsFlushing(a.task)' /\ a.task \in Tasks
    BY <2>1 DEF FlushInv, ObjectInv, TaskTypes, Activities
  <2>3. kind = "replicated" => \A u \in Tasks, k \in Keys : 
             pending'[u].both[k] = 0 /\ pending'[u].buffered[k] = 0
    <3>1. SUFFICES ASSUME kind = "replicated", NEW u \in Tasks, NEW k \in Keys
          PROVE pending'[u].both[k] = 0 /\ pending'[u].buffered[k] = 0
      OBVIOUS
    <3>2. /\ pending[u].both[k] = 0 /\ pending[u].buffered[k] = 0
      BY <3>1 DEF FlushInv
    <3>3. CASE u = t
      <4>1. /\ pending'[t].both[k] = 0
            /\ pending'[t].buffered[k] = pending[t].buffered[k] + pending[t].both[k]
        BY <1>2, WaitIs
      <4>2. pending[t].buffered[k] = 0 /\ pending[t].both[k] = 0
        BY <3>2, <3>3
      <4> QED BY <3>3, <4>1, <4>2
    <3>4. CASE u # t
      <4>1. pending'[u].both = pending[u].both /\ pending'[u].buffered = pending[u].buffered
        BY <1>2, <3>4, WaitIs
      <4> QED BY <3>2, <4>1
    <3> QED BY <3>3, <3>4
  <2> QED BY <2>1, <2>2, <2>3 DEF FlushInv
<1> QED BY <1>1, <1>2

-----------------------------------------------------------------------------
(* Where a key is present or absent, an insertion that one may rely on is  *)
(* not lost.                                                               *)

Among(k, ks) == \E j \in DOMAIN ks : ks[j] = k
Present(l, k) == mem[l][k] # <<>>
Carriers == InsertOps \cup {"deliver", "asyncflush"}

\* an activity that will have inserted the key
Brings(a, l, k) == 
  \/ a.work.op \in InsertOps /\ a.at = l /\ a.work.key = k
  \/ a.work.op = "deliver" /\ a.at = l /\ Among(k, a.work.keys)
  \/ a.work.op = "asyncflush" /\ Among(k, buffers[a.at][l])
Brought(t, l, k) == \E a \in acts : a.task = t /\ Brings(a, l, k)
InStore(l, k) == \E i \in Localities : Among(k, buffers[i][l])
InDelivery(l, k) == 
  \E a \in acts : a.work.op = "deliver" /\ a.at = l /\ Among(k, a.work.keys)

Awaited(l, k) == 
  /\ promised[k] = 0
  /\ \A t \in Tasks : 
       /\ pending[t].async[k] # 0 => Brought(t, l, k)
       /\ pending[t].both[k] # 0 \/ pending[t].buffered[k] # 0 
            => InStore(l, k) \/ InDelivery(l, k)
Safe(l, k) == Present(l, k) \/ Awaited(l, k)
SafeInv == 
  kind # "multimap" => \A k \in Keys \ dropped : \A l \in Places(k) : Safe(l, k)

LEMMA DeliverPresent == 
  ASSUME ObjectInv, kind # "multimap", NEW l \in Localities, NEW ks \in Seq(Keys), 
         Deliver(l, ks)
  PROVE  /\ \A i \in Localities, k \in Keys : Present(i, k) => Present(i, k)'
         /\ \A k \in Keys : Among(k, ks) => Present(l, k)'
<1>1. /\ \A i \in Localities, k \in Keys : 
           mem'[i][k] = IF i = l THEN Grown(mem[i][k], Times(ks, DOMAIN ks, k))
                                 ELSE mem[i][k]
      /\ \A k \in Keys : Times(ks, DOMAIN ks, k) \in Nat
      /\ \A k \in Keys : (\A j \in DOMAIN ks : ks[j] # k)
                            <=> Times(ks, DOMAIN ks, k) = 0
  BY DeliverEffect DEF ObjectInv, MemoryInv
<1>2. \A v, c : (v # <<>> => Grown(v, c) # <<>>) /\ (c # 0 => Grown(v, c) # <<>>)
  BY DEF Grown
<1>3. \A k \in Keys : Among(k, ks) => Times(ks, DOMAIN ks, k) # 0
  BY <1>1 DEF Among
<1> QED BY <1>1, <1>2, <1>3 DEF Present

LEMMA PutPresent == 
  ASSUME ObjectInv, kind # "multimap", NEW l \in Localities, NEW j \in Keys,
         NEW op \in InsertOps, Put(l, j, Change(op, mem[l][j]))
  PROVE  /\ \A i \in Localities, k \in Keys : Present(i, k) => Present(i, k)'
         /\ Present(l, j)'
<1>1. Change(op, mem[l][j]) # <<>>
  BY DEF Change, InsertOps, Inserted, Kept
<1>2. \A i \in Localities, k \in Keys : 
        mem'[i][k] = IF i = l /\ k = j THEN Change(op, mem[l][j]) ELSE mem[i][k]
  BY DEF Put, ObjectInv, MemoryInv
<1> QED BY <1>1, <1>2 DEF Present

LEMMA AmongAppended == 
  ASSUME NEW ks \in Seq(Keys), NEW j \in Keys
  PROVE  /\ Among(j, Append(ks, j))
         /\ \A k : Among(k, ks) => Among(k, Append(ks, j))
         /\ \A k : ~ Among(k, <<>>)
BY DEF Among

LEMMA PlacesAre == 
  ASSUME NEW k \in Keys
  PROVE  /\ Places(k) \subseteq Localities
         /\ kind # "replicated" => Places(k) = {TargetLocality(k)}
BY TargetType DEF Places

\* what has been put away stays there, and the keys stay present
LEMMA CarriersStay == 
  ASSUME NEW l \in Localities, NEW k \in Keys, Safe(l, k),
         Present(l, k) => Present(l, k)', 
         \A a \in acts : a.work.op \in Carriers => a \in acts',
         UNCHANGED <<buffers, promised, pending>>
  PROVE  Safe(l, k)'
<1>1. SUFFICES ASSUME ~ Present(l, k)' PROVE Awaited(l, k)'
  BY DEF Safe
<1>2. Awaited(l, k)
  BY <1>1 DEF Safe
<1>3. ASSUME NEW t \in Tasks PROVE Brought(t, l, k) => Brought(t, l, k)'
  BY DEF Brought, Brings, Carriers
<1>4. InStore(l, k)' <=> InStore(l, k)
  BY DEF InStore
<1>5. InDelivery(l, k) => InDelivery(l, k)'
  BY DEF InDelivery, Carriers
<1> QED BY <1>2, <1>3, <1>4, <1>5 DEF Awaited

LEMMA QuietSafe == 
  ASSUME ObjectInv, Quiet, SafeInv, ObjectInv'
  PROVE  SafeInv'
<1>1. SUFFICES ASSUME kind # "multimap", NEW k \in Keys \ dropped', 
                      NEW l \in Places(k)'
      PROVE Safe(l, k)'
  BY DEF SafeInv, Quiet
<1>2. l \in Localities /\ Safe(l, k)
  BY <1>1, PlacesAre DEF SafeInv, Quiet, Places
<1>3. Len(mem'[l][k]) = Len(mem[l][k]) /\ mem[l][k] \in Seq(Nat) /\ mem'[l][k] \in Seq(Nat)
  BY <1>2 DEF Quiet, ObjectInv, MemoryInv
<1>4. Present(l, k) => Present(l, k)'
  BY <1>3 DEF Present
<1>5. \A a \in acts : a.work.op \in Carriers => a \in acts'
  BY DEF Quiet, IsMover, Moving, Carriers, InsertOps
<1> QED BY <1>2, <1>4, <1>5, CarriersStay DEF Quiet

LEMMA InsertSafe == 
  ASSUME ObjectInv, HistoryTypes, SafeInv, UNCHANGED <<kind, program>>, 
         kind # "replicated",
         NEW t \in Tasks, NEW name, NEW j \in Keys, NEW op \in InsertOps, 
         OneStep(t, name, j, op), Promise(j)
  PROVE  SafeInv'
<1>1. SUFFICES ASSUME kind # "multimap", NEW k \in Keys \ dropped', NEW l \in Places(k)'
      PROVE Safe(l, k)'
  BY DEF SafeInv
<1>2. /\ l \in Localities /\ l = TargetLocality(k) /\ k \in Keys \ dropped /\ Safe(l, k)
      /\ acts' = acts /\ buffers' = buffers /\ pending' = pending
  BY <1>1, PlacesAre DEF SafeInv, Promise, Places, OneStep, AtOnce
<1>3. (Present(l, k) => Present(l, k)') /\ Present(TargetLocality(j), j)'
  BY <1>1, <1>2, PutPresent, TargetType DEF OneStep
<1>4. CASE k = j
  BY <1>2, <1>3, <1>4 DEF Safe
<1>5. CASE k # j
  <2>1. promised'[k] = promised[k]
    BY <1>5 DEF Promise, HistoryTypes
  <2>2. SUFFICES ASSUME ~ Present(l, k)' PROVE Awaited(l, k)'
    BY DEF Safe
  <2>3. Awaited(l, k)
    BY <1>2, <1>3, <2>2 DEF Safe
  <2> QED BY <1>2, <2>1, <2>3 DEF Awaited, Brought, Brings, InStore, InDelivery
<1> QED BY <1>4, <1>5

\* an insertion by an activity at each of the places of its key
LEMMA LaterSafe == 
  ASSUME ObjectInv, HistoryTypes, SafeInv, UNCHANGED <<kind, mem, buffers>>, 
         NEW t \in Tasks, NEW j \in Keys, Later(t, "async", j), acts \subseteq acts',
         \A l \in Places(j) : \E a \in acts' : 
           a.task = t /\ a.work.op \in InsertOps /\ a.at = l /\ a.work.key = j
  PROVE  SafeInv'
<1>1. SUFFICES ASSUME kind # "multimap", NEW k \in Keys \ dropped', NEW l \in Places(k)'
      PROVE Safe(l, k)'
  BY DEF SafeInv
<1>2. /\ l \in Places(k) /\ k \in Keys \ dropped /\ Safe(l, k)
      /\ promised' = promised
      /\ \A u \in Tasks : 
           /\ UNCHANGED <<pending[u].both, pending[u].buffered>>
           /\ pending'[u].async[k] = IF u = t /\ k = j
                THEN pending[u].async[k] + 1 ELSE pending[u].async[k]
  BY <1>1, LaterIs DEF SafeInv, Places
<1>3. SUFFICES ASSUME ~ Present(l, k)' PROVE Awaited(l, k)'
  BY DEF Safe
<1>4. Awaited(l, k)
  BY <1>2, <1>3 DEF Safe, Present
<1>5. \A u \in Tasks : Brought(u, l, k) => Brought(u, l, k)'
  BY DEF Brought, Brings
<1>6. ASSUME NEW u \in Tasks, pending'[u].async[k] # 0 PROVE Brought(u, l, k)'
  <2>1. CASE u = t /\ k = j
    BY <1>2, <2>1 DEF Brought, Brings
  <2>2. CASE ~ (u = t /\ k = j)
    BY <1>2, <1>4, <1>5, <1>6, <2>2 DEF Awaited
  <2> QED BY <2>1, <2>2
<1>7. /\ InStore(l, k) => InStore(l, k)'
      /\ InDelivery(l, k) => InDelivery(l, k)'
  BY DEF InStore, InDelivery
<1> QED BY <1>2, <1>4, <1>6, <1>7 DEF Awaited

\* a step after which a key is present, or still on its way
LEMMA CarriersMove == 
  ASSUME ObjectInv, NEW l \in Localities, NEW k \in Keys, Safe(l, k),
         Present(l, k) => Present(l, k)', UNCHANGED <<promised, pending>>,
         ~ Present(l, k)' => 
           /\ \A t \in Tasks : Brought(t, l, k) => Brought(t, l, k)'
           /\ InStore(l, k) \/ InDelivery(l, k) 
                => InStore(l, k)' \/ InDelivery(l, k)'
  PROVE  Safe(l, k)'
<1>1. SUFFICES ASSUME ~ Present(l, k)' PROVE Awaited(l, k)'
  BY DEF Safe
<1>2. Awaited(l, k)
  BY <1>1 DEF Safe
<1> QED BY <1>1, <1>2 DEF Awaited

LEMMA SafeUnless == 
  ASSUME SafeInv, ObjectInv, UNCHANGED <<kind, dropped>>,
         kind # "multimap" => 
           \A k \in Keys \ dropped : \A l \in Localities : 
             l \in Places(k) /\ Safe(l, k) => Safe(l, k)'
  PROVE  SafeInv'
<1>1. SUFFICES ASSUME kind # "multimap", NEW k \in Keys \ dropped', NEW l \in Places(k)'
      PROVE Safe(l, k)'
  BY DEF SafeInv
<1>2. l \in Places(k) /\ l \in Localities /\ k \in Keys \ dropped
  BY <1>1, PlacesAre DEF Places
<1> QED BY <1>1, <1>2 DEF SafeInv

LEMMA RunAgainSafe == 
  ASSUME ObjectInv, SafeInv, UNCHANGED <<kind, program>>, NEW a \in acts, RunAgain(a)
  PROVE  SafeInv'
<1> DEFINE b == [a EXCEPT !.work.again = FALSE]
<1>1. a \in Activities
  BY DEF ObjectInv, TaskTypes
<1>2. a.work \in [op : {"insert", "keep", "erase", "apply"}, key : Keys, 
                  again : BOOLEAN]
  BY <1>1 DEF RunAgain, IsWork, Activities, Works
<1>3. /\ b.work.op = a.work.op /\ b.work.key = a.work.key /\ b.at = a.at
      /\ b.task = a.task
  BY <1>1, <1>2 DEF Activities
<1> HIDE DEF b
<1>4. /\ acts' = (acts \ {a}) \cup {b} /\ UNCHANGED <<mem, buffers>>
      /\ UNCHANGED <<promised, pending, dropped>>
  BY DEF RunAgain, Running, memory, NoHistory, history, b
<1>5. ASSUME NEW l \in Localities, NEW k \in Keys, Safe(l, k) PROVE Safe(l, k)'
  <2>1. Brings(a, l, k) => Brings(b, l, k)'
    BY <1>2, <1>3 DEF Brings
  <2>2. \A c \in acts : Brings(c, l, k) => Brings(c, l, k)'
    BY <1>4 DEF Brings
  <2>3. \A t \in Tasks : Brought(t, l, k) => Brought(t, l, k)'
    BY <1>3, <1>4, <2>1, <2>2 DEF Brought
  <2>4. /\ InStore(l, k) => InStore(l, k)'
        /\ InDelivery(l, k) => InDelivery(l, k)'
    BY <1>2, <1>4 DEF InStore, InDelivery
  <2>5. Present(l, k) => Present(l, k)'
    BY <1>4 DEF Present
  <2> QED BY <1>4, <1>5, <2>3, <2>4, <2>5, CarriersMove
<1> QED BY <1>4, <1>5, SafeUnless

LEMMA RunWorkSafe == 
  ASSUME ObjectInv, SafeInv, UNCHANGED <<kind, program>>, NEW a \in acts, RunWork(a),
         a.work.op \in InsertOps
  PROVE  SafeInv'
<1>1. a.at \in Localities /\ a.work.key \in Keys
  BY DEF ObjectInv, TaskTypes, Activities, Works, InsertOps
<1>2. /\ acts' = acts \ {a} /\ buffers' = buffers 
      /\ UNCHANGED <<promised, pending, dropped>>
  BY DEF RunWork, Running, NoHistory, history
<1>3. ASSUME NEW l \in Localities, NEW k \in Keys, Safe(l, k), kind # "multimap"
      PROVE Safe(l, k)'
  <2>1. /\ Present(l, k) => Present(l, k)' 
        /\ l = a.at /\ k = a.work.key => Present(l, k)'
    BY <1>1, <1>3, PutPresent DEF RunWork
  <2>2. ~ Present(l, k)' => ~ Brings(a, l, k)
    BY <2>1 DEF Brings, InsertOps
  <2>3. \A c \in acts : Brings(c, l, k) => Brings(c, l, k)'
    BY <1>2 DEF Brings
  <2>4. ~ Present(l, k)' => \A t \in Tasks : Brought(t, l, k) => Brought(t, l, k)'
    BY <1>2, <2>2, <2>3 DEF Brought
  <2>5. /\ InStore(l, k) => InStore(l, k)'
        /\ InDelivery(l, k) => InDelivery(l, k)'
    BY <1>2 DEF InStore, InDelivery, InsertOps
  <2> QED BY <1>2, <1>3, <2>1, <2>4, <2>5, CarriersMove
<1> QED BY <1>2, <1>3, SafeUnless

LEMMA RunDeliverSafe == 
  ASSUME ObjectInv, SafeInv, UNCHANGED <<kind, program>>, NEW a \in acts, RunDeliver(a)
  PROVE  SafeInv'
<1>1. a.at \in Localities /\ a.work.keys \in Seq(Keys)
  BY DEF ObjectInv, TaskTypes, Activities, Works, RunDeliver
<1>2. /\ acts' = acts \ {a} /\ buffers' = buffers /\ a.work.op = "deliver"
      /\ UNCHANGED <<promised, pending, dropped>>
  BY DEF RunDeliver, Running, NoHistory, history
<1>3. ASSUME NEW l \in Localities, NEW k \in Keys, Safe(l, k), kind # "multimap"
      PROVE Safe(l, k)'
  <2>1. /\ Present(l, k) => Present(l, k)' 
        /\ l = a.at /\ Among(k, a.work.keys) => Present(l, k)'
    BY <1>1, <1>3, DeliverPresent DEF RunDeliver
  <2>2. ~ Present(l, k)' => ~ Brings(a, l, k)
    BY <1>2, <2>1 DEF Brings, InsertOps
  <2>3. \A c \in acts : Brings(c, l, k) => Brings(c, l, k)'
    BY <1>2 DEF Brings
  <2>4. ~ Present(l, k)' => \A t \in Tasks : Brought(t, l, k) => Brought(t, l, k)'
    BY <1>2, <2>2, <2>3 DEF Brought
  <2>5. /\ InStore(l, k) => InStore(l, k)'
        /\ ~ Present(l, k)' => (InDelivery(l, k) => InDelivery(l, k)')
    BY <1>2, <2>1 DEF InStore, InDelivery
  <2> QED BY <1>2, <1>3, <2>1, <2>4, <2>5, CarriersMove
<1> QED BY <1>2, <1>3, SafeUnless

LEMMA FlushSafe == 
  ASSUME ObjectInv, SafeInv, UNCHANGED <<kind, program>>, NEW t \in Tasks, 
         FlushAllBuffers(t)
  PROVE  SafeInv'
<1>1. UNCHANGED <<mem, buffers, promised, pending, dropped>> /\ acts \subseteq acts'
  BY FlushIs DEF history
<1>2. ASSUME NEW l \in Localities, NEW k \in Keys, Safe(l, k) PROVE Safe(l, k)'
  BY <1>1, <1>2, CarriersStay DEF Present
<1> QED BY <1>1, <1>2, SafeUnless

LEMMA RunFlushSafe == 
  ASSUME ObjectInv, SafeInv, FlushInv, UNCHANGED <<kind, program>>, NEW a \in acts, 
         RunFlush(a)
  PROVE  SafeInv'
<1>1. /\ UNCHANGED <<promised, pending, dropped>> /\ a.work.op = "flush"
      /\ a.at \in Localities
  BY RunFlushIs DEF history, ObjectInv, TaskTypes, Activities
<1>2. \A b \in acts : b.work.op \notin {"deliver", "asyncflush"}
  BY <1>1 DEF FlushInv, ObjectInv, TaskTypes, Activities
<1>3. CASE acts' = acts \ {a} /\ UNCHANGED <<mem, buffers>>
  <2>1. ASSUME NEW l \in Localities, NEW k \in Keys, Safe(l, k) PROVE Safe(l, k)'
    BY <1>1, <1>3, <2>1, CarriersStay DEF Present, Carriers, InsertOps
  <2> QED BY <1>1, <2>1, SafeUnless
<1>4. CASE acts' = acts /\ \E i \in Localities : 
             /\ Deliver(i, buffers[a.at][i]) 
             /\ \A j, l \in Localities : buffers'[j][l] = 
                  IF j = a.at /\ l = i THEN <<>> ELSE buffers[j][l]
  <2>1. PICK i \in Localities : 
             /\ Deliver(i, buffers[a.at][i]) 
             /\ \A j, l \in Localities : buffers'[j][l] = 
                  IF j = a.at /\ l = i THEN <<>> ELSE buffers[j][l]
    BY <1>4
  <2>2. ASSUME NEW l \in Localities, NEW k \in Keys, Safe(l, k), kind # "multimap"
        PROVE Safe(l, k)'
    <3>0. buffers[a.at][i] \in Seq(Keys)
      BY <1>1 DEF ObjectInv, MemoryInv
    <3>1. /\ Present(l, k) => Present(l, k)' 
          /\ l = i /\ Among(k, buffers[a.at][i]) => Present(l, k)'
      BY <2>1, <2>2, <3>0, DeliverPresent 
    <3>2. \A t \in Tasks : Brought(t, l, k) => Brought(t, l, k)'
      BY <1>2, <1>4 DEF Brought, Brings
    <3>3. ~ Present(l, k)' => (InStore(l, k) => InStore(l, k)')
      BY <2>1, <3>1 DEF InStore
    <3>4. InDelivery(l, k) => InDelivery(l, k)'
      BY <1>4 DEF InDelivery
    <3> QED BY <1>1, <2>2, <3>1, <3>2, <3>3, <3>4, CarriersMove
  <2> QED BY <1>1, <2>2, SafeUnless
<1> QED BY <1>3, <1>4, RunFlushIs

LEMMA RunAsyncFlushSafe == 
  ASSUME ObjectInv, SafeInv, FlushInv, UNCHANGED <<kind, program>>, NEW a \in acts, 
         RunAsyncFlush(a)
  PROVE  SafeInv'
<1>1. /\ UNCHANGED <<mem, promised, pending, dropped>> /\ a.work.op = "asyncflush"
      /\ a \in Activities /\ a.at \in Localities
      /\ \A b \in acts : b # a => b \in acts'
      /\ \A j, i \in Localities : 
           buffers'[j][i] = IF j = a.at THEN <<>> ELSE buffers[j][i]
  BY RunAsyncFlushIs DEF history, ObjectInv, TaskTypes, Activities
<1>2. \A b \in acts : b.at \in Localities
  BY DEF ObjectInv, TaskTypes, Activities
<1>3. ASSUME NEW l \in Localities, NEW k \in Keys, Safe(l, k) PROVE Safe(l, k)'
  <2>9. PICK d : d = Successor(a, l, Delivery(a.at, buffers[a.at][l]))
    OBVIOUS
  <2>1. /\ d.task = a.task /\ d.at = l /\ d.work.op = "deliver" 
        /\ d.work.keys = buffers[a.at][l]
    BY <1>1, <2>9, SuccessorIs DEF Delivery
  <2>2. Among(k, buffers[a.at][l]) => d \in acts'
    <3>1. Among(k, buffers[a.at][l]) => buffers[a.at][l] # <<>>
      BY DEF Among
    <3> QED BY <2>9, <3>1, RunAsyncFlushIs DEF Successor
  <2>3. ASSUME NEW b \in acts, b # a, Brings(b, l, k) PROVE Brings(b, l, k)'
    <3>1. CASE b.work.op = "asyncflush"
      <4>1. b.at # a.at 
        BY <1>1, <2>3, <3>1 DEF FlushInv
      <4> QED BY <1>1, <1>2, <2>3, <3>1, <4>1 DEF Brings, InsertOps
    <3>2. CASE b.work.op # "asyncflush"
      BY <2>3, <3>2 DEF Brings
    <3> QED BY <3>1, <3>2
  <2>4. Brings(a, l, k) => d \in acts' /\ Brings(d, l, k)'
    BY <1>1, <2>1, <2>2 DEF Brings, InsertOps
  <2>5. \A t \in Tasks : Brought(t, l, k) => Brought(t, l, k)'
    BY <1>1, <2>1, <2>3, <2>4 DEF Brought
  <2>6. InStore(l, k) => InStore(l, k)' \/ InDelivery(l, k)'
    BY <1>1, <2>1, <2>2 DEF InStore, InDelivery
  <2>7. InDelivery(l, k) => InDelivery(l, k)'
    BY <1>1 DEF InDelivery
  <2>8. Present(l, k) => Present(l, k)'
    BY <1>1 DEF Present
  <2> QED BY <1>1, <1>3, <2>5, <2>6, <2>7, <2>8, CarriersMove
<1> QED BY <1>1, <1>3, SafeUnless

LEMMA InsertBufferedSafe == 
  ASSUME ObjectInv, HistoryTypes, SafeInv, UNCHANGED <<kind, program>>, 
         kind # "replicated", NEW t \in Tasks, NEW name, NEW j \in Keys, 
         InsertBuffered(t, name, j)
  PROVE  SafeInv'
<1> DEFINE h == Home[t]
           i == TargetLocality(j)
<1>1. /\ Later(t, "buffered", j) /\ Fill(h, j) /\ acts' = acts
      /\ IF IsFull(h, j) THEN Deliver(i, InBuffer(h, j)) ELSE mem' = mem
      /\ \A a \in acts : a.work.op # "asyncflush"
  BY InsertBufferedIs
<1>2. h \in Localities /\ i \in Localities
  BY TargetType, CallsAssumption
<1>3. /\ InBuffer(h, j) = Append(buffers[h][i], j) 
      /\ InBuffer(h, j) \in Seq(Keys) /\ buffers[h][i] \in Seq(Keys)
      /\ \A m, n \in Localities : 
           buffers'[m][n] = IF m = h /\ n = i
             THEN IF IsFull(h, j) THEN <<>> ELSE InBuffer(h, j)
             ELSE buffers[m][n]
  BY <1>1, <1>2, FillIs
<1>4. /\ UNCHANGED <<promised, dropped>>
      /\ \A u \in Tasks, k \in Keys : 
           /\ UNCHANGED <<pending[u].async, pending[u].both>>
           /\ pending'[u].buffered[k] = IF u = t /\ k = j 
                THEN pending[u].buffered[k] + 1 ELSE pending[u].buffered[k]
  BY <1>1, LaterIs
<1> HIDE DEF h, i
<1>5. ASSUME NEW l \in Localities, NEW k \in Keys, l \in Places(k), Safe(l, k), 
             kind # "multimap"
      PROVE  Safe(l, k)'
  <2>1. /\ Present(l, k) => Present(l, k)'
        /\ IsFull(h, j) /\ l = i /\ Among(k, InBuffer(h, j)) => Present(l, k)'
    <3>1. CASE IsFull(h, j)
      BY <1>1, <1>2, <1>3, <1>5, <3>1, DeliverPresent
    <3>2. CASE ~ IsFull(h, j)
      BY <1>1, <3>2 DEF Present
    <3> QED BY <3>1, <3>2
  <2>2. SUFFICES ASSUME ~ Present(l, k)' PROVE Awaited(l, k)'
    BY DEF Safe
  <2>3. Awaited(l, k)
    BY <1>5, <2>1, <2>2 DEF Safe
  <2>4. \A u \in Tasks : Brought(u, l, k) => Brought(u, l, k)'
    BY <1>1 DEF Brought, Brings
  <2>5. InStore(l, k) => InStore(l, k)'
    BY <1>3, <2>1, <2>2, AmongAppended DEF InStore
  <2>6. InDelivery(l, k) => InDelivery(l, k)'
    BY <1>1 DEF InDelivery
  <2>7. k = j => InStore(l, k)'
    <3>1. SUFFICES ASSUME k = j PROVE InStore(l, k)'
      OBVIOUS
    <3>2. l = i /\ Among(k, InBuffer(h, j))
      BY <1>3, <1>5, <3>1, AmongAppended, PlacesAre DEF i
    <3>3. buffers'[h][l] = InBuffer(h, j)
      BY <1>2, <1>3, <2>1, <2>2, <3>2
    <3> QED BY <1>2, <3>2, <3>3 DEF InStore
  <2> QED BY <1>4, <2>3, <2>4, <2>5, <2>6, <2>7 DEF Awaited
<1> QED BY <1>4, <1>5, SafeUnless

LEMMA AsyncInsertBufferedSafe == 
  ASSUME ObjectInv, HistoryTypes, SafeInv, UNCHANGED <<kind, program>>, 
         kind # "replicated", NEW t \in Tasks, NEW name, NEW j \in Keys, 
         AsyncInsertBuffered(t, name, j)
  PROVE  SafeInv'
<1> DEFINE h == Home[t]
           i == TargetLocality(j)
<1>0. PICK d : d = Activity(t, TRUE, i, Delivery(h, InBuffer(h, j)))
  OBVIOUS
<1>1. /\ Later(t, "both", j) /\ Fill(h, j) /\ mem' = mem
      /\ acts' = IF IsFull(h, j) THEN acts \cup {d} ELSE acts
      /\ \A a \in acts : a.work.op # "asyncflush"
  BY <1>0, InsertBufferedIs
<1>2. h \in Localities /\ i \in Localities
  BY TargetType, CallsAssumption
<1>3. /\ InBuffer(h, j) = Append(buffers[h][i], j) 
      /\ InBuffer(h, j) \in Seq(Keys) /\ buffers[h][i] \in Seq(Keys)
      /\ \A m, n \in Localities : 
           buffers'[m][n] = IF m = h /\ n = i
             THEN IF IsFull(h, j) THEN <<>> ELSE InBuffer(h, j)
             ELSE buffers[m][n]
  BY <1>1, <1>2, FillIs
<1>4. /\ UNCHANGED <<promised, dropped>>
      /\ \A u \in Tasks, k \in Keys : 
           /\ UNCHANGED <<pending[u].async, pending[u].buffered>>
           /\ pending'[u].both[k] = IF u = t /\ k = j 
                THEN pending[u].both[k] + 1 ELSE pending[u].both[k]
  BY <1>1, LaterIs
<1>6. /\ d.task = t /\ d.at = i /\ d.work.op = "deliver" 
      /\ d.work.keys = InBuffer(h, j)
  BY <1>0 DEF Activity, Delivery
<1> HIDE DEF h, i
<1>5. ASSUME NEW l \in Localities, NEW k \in Keys, l \in Places(k), Safe(l, k)
      PROVE  Safe(l, k)'
  <2>1. Present(l, k)' <=> Present(l, k)
    BY <1>1 DEF Present
  <2>2. SUFFICES ASSUME ~ Present(l, k)' PROVE Awaited(l, k)'
    BY DEF Safe
  <2>3. Awaited(l, k)
    BY <1>5, <2>1, <2>2 DEF Safe
  <2>4. \A u \in Tasks : Brought(u, l, k) => Brought(u, l, k)'
    BY <1>1 DEF Brought, Brings
  <2>6. InDelivery(l, k) => InDelivery(l, k)'
    BY <1>1 DEF InDelivery
  <2>8. l = i /\ Among(k, InBuffer(h, j)) => InStore(l, k)' \/ InDelivery(l, k)'
    <3>1. CASE IsFull(h, j)
      BY <1>1, <1>6, <3>1 DEF InDelivery
    <3>2. CASE ~ IsFull(h, j)
      BY <1>2, <1>3, <3>2 DEF InStore
    <3> QED BY <3>1, <3>2
  <2>5. InStore(l, k) => InStore(l, k)' \/ InDelivery(l, k)'
    <3>1. SUFFICES ASSUME NEW m \in Localities, Among(k, buffers[m][l])
          PROVE InStore(l, k)' \/ InDelivery(l, k)'
      BY DEF InStore
    <3>2. CASE m = h /\ l = i
      BY <1>3, <2>8, <3>1, <3>2, AmongAppended
    <3>3. CASE ~ (m = h /\ l = i)
      BY <1>3, <3>1, <3>3 DEF InStore
    <3> QED BY <3>2, <3>3
  <2>7. k = j => InStore(l, k)' \/ InDelivery(l, k)'
    <3>1. k = j => l = i /\ Among(k, InBuffer(h, j))
      BY <1>3, <1>5, AmongAppended, PlacesAre DEF i
    <3> QED BY <2>8, <3>1
  <2> QED BY <1>4, <2>3, <2>4, <2>5, <2>6, <2>7 DEF Awaited
<1> QED BY <1>4, <1>5, SafeUnless

LEMMA AsyncFlushSafe == 
  ASSUME ObjectInv, HistoryTypes, SafeInv, UNCHANGED <<kind, program>>, 
         NEW t \in Tasks, AsyncFlushAllBuffers(t)
  PROVE  SafeInv'
<1>1. /\ UNCHANGED <<mem, buffers, promised, dropped>> /\ acts \subseteq acts'
      /\ \A a \in acts : a.work.op \notin {"deliver", "read", "asyncflush"}
      /\ \A i \in Localities : \E a \in acts' \ acts : a.at = i
      /\ \A a \in acts' \ acts : a.task = t /\ a.work.op = "asyncflush"
  BY AsyncFlushIs
<1>2. \A u \in Tasks, k \in Keys : u # t => 
        UNCHANGED <<pending[u].async, pending[u].both, pending[u].buffered>>
  BY AsyncFlushIs
<1>3. \A k \in Keys : 
        /\ pending'[t].both[k] = pending[t].both[k]
        /\ pending'[t].async[k] = pending[t].async[k] + pending[t].buffered[k]
        /\ pending'[t].buffered[k] = 0
        /\ pending[t].async[k] \in Nat /\ pending[t].buffered[k] \in Nat
  BY AsyncFlushIs DEF HistoryTypes
<1>4. ASSUME NEW l \in Localities, NEW k \in Keys, Safe(l, k) PROVE Safe(l, k)'
  <2>1. Present(l, k)' <=> Present(l, k)
    BY <1>1 DEF Present
  <2>2. SUFFICES ASSUME ~ Present(l, k)' PROVE Awaited(l, k)'
    BY DEF Safe
  <2>3. Awaited(l, k)
    BY <1>4, <2>1, <2>2 DEF Safe
  <2>4. \A u \in Tasks : Brought(u, l, k) => Brought(u, l, k)'
    BY <1>1 DEF Brought, Brings
  <2>5. /\ ~ InDelivery(l, k) 
        /\ InStore(l, k) => InStore(l, k)' /\ Brought(t, l, k)'
    BY <1>1 DEF InDelivery, InStore, Brought, Brings
  <2>6. ASSUME NEW u \in Tasks
        PROVE /\ pending'[u].async[k] # 0 => Brought(u, l, k)'
              /\ pending'[u].both[k] # 0 \/ pending'[u].buffered[k] # 0 
                   => InStore(l, k)' \/ InDelivery(l, k)'
    <3>1. CASE u # t
      BY <1>2, <2>3, <2>4, <2>5, <3>1 DEF Awaited
    <3>2. CASE u = t
      BY <1>3, <2>3, <2>4, <2>5, <3>2 DEF Awaited
    <3> QED BY <3>1, <3>2
  <2> QED BY <1>1, <2>3, <2>6 DEF Awaited
<1> QED BY <1>1, <1>4, SafeUnless

\* a flush that the call has waited for has emptied the buffers
LEMMA Flushed == 
  ASSUME ObjectInv, FlushInv, NEW t \in Tasks, IsFlushing(t), Mine(t, FALSE) = {}
  PROVE  /\ \A i, l \in Localities : buffers[i][l] = <<>>
         /\ \A a \in acts : a.work.op \notin {"deliver", "read", "asyncflush"}
<1>1. \A a \in acts : a.work.op # "flush"
  <2>1. SUFFICES ASSUME NEW a \in acts, a.work.op = "flush" PROVE FALSE
    OBVIOUS
  <2>2. ~ a.async /\ a.task \in Tasks /\ IsFlushing(a.task)
    BY <2>1 DEF FlushInv, Moving, ObjectInv, TaskTypes, Activities
  <2>3. a.task = t
    BY <2>2 DEF FlushInv
  <2> QED BY <2>2, <2>3 DEF Mine
<1> QED BY <1>1 DEF FlushInv

LEMMA ReturnSafe == 
  ASSUME ObjectInv, HistoryTypes, SafeInv, FlushInv, UNCHANGED <<kind, program>>, 
         NEW t \in Tasks, Return(t)
  PROVE  SafeInv'
<1>1. /\ UNCHANGED <<mem, buffers, acts, dropped>> /\ Mine(t, FALSE) = {} 
      /\ \A u \in Tasks, k \in Keys : 
           /\ UNCHANGED <<pending[u].async, pending[u].both>>
           /\ pending'[u].buffered[k] = IF u = t /\ IsFlushing(t) 
                THEN 0 ELSE pending[u].buffered[k]
      /\ \A k \in Keys : promised'[k] = IF IsFlushing(t) 
           THEN promised[k] + pending[t].buffered[k] ELSE promised[k]
  BY ReturnIs
<1>2. ASSUME NEW l \in Localities, NEW k \in Keys, Safe(l, k) PROVE Safe(l, k)'
  <2>1. Present(l, k)' <=> Present(l, k)
    BY <1>1 DEF Present
  <2>2. SUFFICES ASSUME ~ Present(l, k)' PROVE Awaited(l, k)'
    BY DEF Safe
  <2>3. Awaited(l, k)
    BY <1>2, <2>1, <2>2 DEF Safe
  <2>4. \A u \in Tasks : Brought(u, l, k) <=> Brought(u, l, k)'
    BY <1>1 DEF Brought, Brings
  <2>5. (InStore(l, k)' <=> InStore(l, k)) /\ (InDelivery(l, k)' <=> InDelivery(l, k))
    BY <1>1 DEF InDelivery, InStore
  <2>6. promised'[k] = 0
    <3>1. CASE IsFlushing(t)
      <4>1. ~ InStore(l, k) /\ ~ InDelivery(l, k)
        <5>1. /\ \A i, m \in Localities : buffers[i][m] = <<>>
              /\ \A a \in acts : a.work.op # "deliver"
          BY <1>1, <3>1, Flushed
        <5>2. ~ Among(k, <<>>)
          BY DEF Among
        <5> QED BY <1>2, <5>1, <5>2 DEF InStore, InDelivery
      <4>2. pending[t].buffered[k] = 0 /\ promised[k] = 0
        BY <2>3, <4>1 DEF Awaited
      <4> QED BY <1>1, <3>1, <4>2
    <3>2. CASE ~ IsFlushing(t)
      BY <1>1, <2>3, <3>2 DEF Awaited
    <3> QED BY <3>1, <3>2
  <2>7. \A u \in Tasks : pending'[u].buffered[k] # 0 => pending[u].buffered[k] # 0
    BY <1>1
  <2> QED BY <1>1, <2>3, <2>4, <2>5, <2>6, <2>7 DEF Awaited
<1> QED BY <1>1, <1>2, SafeUnless

LEMMA WaitSafe == 
  ASSUME ObjectInv, HistoryTypes, SafeInv, FlushInv, UNCHANGED <<kind, program>>, 
         NEW t \in Tasks, waitForCompletion(t)
  PROVE  SafeInv'
<1>1. /\ UNCHANGED <<mem, buffers, acts, dropped>> /\ Mine(t, TRUE) = {} 
      /\ \A u \in Tasks, k \in Keys : u # t => 
           UNCHANGED <<pending[u].async, pending[u].both, pending[u].buffered>>
      /\ \A k \in Keys : 
           /\ pending'[t].async[k] = 0 /\ pending'[t].both[k] = 0
           /\ pending'[t].buffered[k] = pending[t].buffered[k] + pending[t].both[k]
           /\ promised'[k] = promised[k] + pending[t].async[k]
  BY WaitIs
<1>2. \A a \in acts : a.work.op \in Carriers => a.task # t
  BY <1>1 DEF FlushInv, Mine, Moving, Carriers, InsertOps
<1>3. ASSUME NEW l \in Localities, NEW k \in Keys, Safe(l, k) PROVE Safe(l, k)'
  <2>1. Present(l, k)' <=> Present(l, k)
    BY <1>1 DEF Present
  <2>2. SUFFICES ASSUME ~ Present(l, k)' PROVE Awaited(l, k)'
    BY DEF Safe
  <2>3. Awaited(l, k)
    BY <1>3, <2>1, <2>2 DEF Safe
  <2>4. \A u \in Tasks : Brought(u, l, k) <=> Brought(u, l, k)'
    BY <1>1 DEF Brought, Brings
  <2>5. (InStore(l, k)' <=> InStore(l, k)) /\ (InDelivery(l, k)' <=> InDelivery(l, k))
    BY <1>1 DEF InDelivery, InStore
  <2>6. promised'[k] = 0
    <3>1. ~ Brought(t, l, k)
      BY <1>2 DEF Brought, Brings, Carriers
    <3>2. pending[t].async[k] = 0 /\ promised[k] = 0
      BY <2>3, <3>1 DEF Awaited
    <3> QED BY <1>1, <3>2
  <2>7. ASSUME NEW u \in Tasks
        PROVE /\ pending'[u].async[k] # 0 => Brought(u, l, k)'
              /\ pending'[u].both[k] # 0 \/ pending'[u].buffered[k] # 0 
                   => InStore(l, k)' \/ InDelivery(l, k)'
    <3>1. CASE u # t
      BY <1>1, <2>3, <2>4, <2>5, <3>1 DEF Awaited
    <3>2. CASE u = t
      <4>1. pending[t].buffered[k] = 0 /\ pending[t].both[k] = 0 => pending'[t].buffered[k] = 0
        BY <1>1
      <4>2. /\ pending'[t].async[k] = 0 /\ pending'[t].both[k] = 0
        BY <1>1
      <4> QED BY <2>3, <2>5, <3>2, <4>1, <4>2 DEF Awaited
    <3> QED BY <3>1, <3>2
  <2> QED BY <2>6, <2>7 DEF Awaited
<1> QED BY <1>1, <1>3, SafeUnless

-----------------------------------------------------------------------------
(* In a multimap, what is new is not yet there: two insertions are never   *)
(* one activity, nor are two deliveries.                                   *)

ShortBuffers == \A i, l \in Localities : Len(buffers[i][l]) < BufferSize
Numbered(a) == 
  /\ a.work.op # "keep"
  /\ a.work.op \in {"insert", "read"} => a.number < calls
  /\ a.work.op = "read" => a.at = 0
  /\ a.work.op = "deliver" => 
       /\ Len(a.work.keys) <= BufferSize 
       /\ Len(a.work.keys) = BufferSize => a.number < calls
Distinct(a, b) == 
  /\ a.work.op = "insert" /\ b.work.op = "insert" /\ a.number = b.number => a = b
  /\ /\ a.work.op = "deliver" /\ b.work.op = "read" 
     /\ Len(a.work.keys) = BufferSize /\ a.task = b.task /\ a.number = b.number
     => a.work.keys[BufferSize] # b.work.key
  /\ a.work.op = "deliver" /\ b.work.op = "asyncflush" => a.work.from # b.at
FreshInv == 
  kind = "multimap" => 
    /\ ShortBuffers /\ \A a \in acts : Numbered(a)
    /\ \A a, b \in acts : Distinct(a, b)

\* a step that starts no insertion, reading or flush
LEMMA NothingNew == 
  ASSUME ObjectInv, ObjectInv', FreshInv, kind' = kind, calls' >= calls, 
         ShortBuffers => ShortBuffers',
         \A a \in acts' : IsMover(a) /\ a.work.op # "flush" => a \in acts
  PROVE  FreshInv'
<1>1. SUFFICES ASSUME kind = "multimap"
      PROVE /\ ShortBuffers' /\ \A a \in acts' : Numbered(a)'
            /\ \A a, b \in acts' : Distinct(a, b)'
  BY DEF FreshInv
<1>2. calls \in Nat /\ calls' \in Nat /\ \A a \in acts : a.number \in Nat
  BY DEF ObjectInv, TaskTypes, Activities
<1>3. \A a \in acts' : Numbered(a)'
  BY <1>1, <1>2 DEF FreshInv, Numbered, IsMover, Moving
<1>4. \A a, b \in acts' : Distinct(a, b)'
  BY <1>1 DEF FreshInv, Distinct, IsMover, Moving
<1> QED BY <1>1, <1>3, <1>4 DEF FreshInv

LEMMA QuietFresh == 
  ASSUME ObjectInv, ObjectInv', FreshInv, Quiet
  PROVE  FreshInv'
<1>1. \A a \in acts' : IsMover(a) => a \in acts
  BY DEF Quiet
<1>2. ShortBuffers => ShortBuffers'
  BY DEF Quiet, ShortBuffers
<1> QED BY <1>1, <1>2, NothingNew DEF Quiet

\* an insertion by an activity
LEMMA LaterFresh == 
  ASSUME ObjectInv, ObjectInv', FreshInv, kind' = kind, buffers' = buffers,
         calls' = calls + 1, NEW a, acts' = acts \cup {a}, a.work.op = "insert", 
         a.number = calls
  PROVE  FreshInv'
<1>1. SUFFICES ASSUME kind = "multimap"
      PROVE /\ ShortBuffers' /\ \A b \in acts' : Numbered(b)'
            /\ \A b, c \in acts' : Distinct(b, c)'
  BY DEF FreshInv
<1>2. calls \in Nat /\ calls' \in Nat /\ \A b \in acts : b.number \in Nat
  BY DEF ObjectInv, TaskTypes, Activities
<1>3. \A b \in acts' : Numbered(b)'
  BY <1>1, <1>2 DEF FreshInv, Numbered
<1>4. \A b \in acts : b.work.op = "insert" => b.number # a.number
  BY <1>1, <1>2 DEF FreshInv, Numbered
<1>5. \A b, c \in acts' : Distinct(b, c)'
  BY <1>1, <1>4 DEF FreshInv, Distinct
<1>6. ShortBuffers'
  BY <1>1 DEF FreshInv, ShortBuffers
<1> QED BY <1>3, <1>5, <1>6

LEMMA RunAgainFresh == 
  ASSUME ObjectInv, ObjectInv', FreshInv, UNCHANGED <<kind, program>>, 
         NEW a \in acts, RunAgain(a)
  PROVE  FreshInv'
<1> DEFINE b == [a EXCEPT !.work.again = FALSE]
<1>1. a \in Activities
  BY DEF ObjectInv, TaskTypes
<1>2. a.work \in [op : {"insert", "keep", "erase", "apply"}, key : Keys, 
                  again : BOOLEAN]
  BY <1>1 DEF RunAgain, IsWork, Activities, Works
<1>3. b.work.op = a.work.op /\ b.number = a.number
  BY <1>1, <1>2 DEF Activities
<1> HIDE DEF b
<1>4. acts' = (acts \ {a}) \cup {b} /\ UNCHANGED <<buffers, calls>>
  BY DEF RunAgain, Running, memory, b
<1>5. SUFFICES ASSUME kind = "multimap"
      PROVE /\ ShortBuffers' /\ \A c \in acts' : Numbered(c)'
            /\ \A c, d \in acts' : Distinct(c, d)'
  BY DEF FreshInv
<1>6. \A c \in acts' : Numbered(c)'
  BY <1>2, <1>3, <1>4, <1>5 DEF FreshInv, Numbered
<1>7. \A c \in acts \ {a} : a.work.op = "insert" /\ c.work.op = "insert" 
                              => c.number # b.number
  BY <1>3, <1>5 DEF FreshInv, Distinct
<1>8. \A c, d \in acts' : Distinct(c, d)'
  BY <1>2, <1>3, <1>4, <1>5, <1>7 DEF FreshInv, Distinct
<1>9. ShortBuffers'
  BY <1>4, <1>5 DEF FreshInv, ShortBuffers
<1> QED BY <1>6, <1>8, <1>9

LEMMA FillShort == 
  ASSUME ObjectInv, NEW l \in Localities, NEW k \in Keys, Fill(l, k), ShortBuffers
  PROVE  /\ ShortBuffers'
         /\ IsFull(l, k) => /\ Len(InBuffer(l, k)) = BufferSize
                            /\ InBuffer(l, k)[BufferSize] = k
<1>1. /\ InBuffer(l, k) = Append(buffers[l][TargetLocality(k)], k)
      /\ \A j, i \in Localities : 
           buffers'[j][i] = IF j = l /\ i = TargetLocality(k)
             THEN IF IsFull(l, k) THEN <<>> ELSE InBuffer(l, k)
             ELSE buffers[j][i]
  BY FillIs
<1>2. /\ buffers[l][TargetLocality(k)] \in Seq(Keys) /\ BufferSize \in Nat \ {0}
      /\ Len(buffers[l][TargetLocality(k)]) < BufferSize
  BY TargetType, ObjectsAssumption DEF ObjectInv, MemoryInv, ShortBuffers
<1>3. /\ Len(InBuffer(l, k)) = Len(buffers[l][TargetLocality(k)]) + 1
      /\ InBuffer(l, k)[Len(buffers[l][TargetLocality(k)]) + 1] = k
  BY <1>1, <1>2
<1>4. IsFull(l, k) <=> Len(InBuffer(l, k)) = BufferSize
  BY DEF IsFull
<1>5. ~ IsFull(l, k) => Len(InBuffer(l, k)) < BufferSize
  BY <1>2, <1>3, <1>4
<1>6. ShortBuffers'
  <2>1. SUFFICES ASSUME NEW j \in Localities, NEW i \in Localities
        PROVE  Len(buffers'[j][i]) < BufferSize
    BY DEF ShortBuffers
  <2>2. Len(<<>>) = 0 /\ Len(<<>>) < BufferSize /\ Len(buffers[j][i]) < BufferSize
    BY <1>2 DEF ShortBuffers
  <2> QED BY <1>1, <1>5, <2>2
<1> QED BY <1>3, <1>4, <1>6

\* a delivery of a buffer that has become full
LEMMA FullFresh == 
  ASSUME ObjectInv, ObjectInv', FreshInv, kind' = kind, calls' >= calls, 
         ShortBuffers => ShortBuffers', NEW a, acts' \subseteq acts \cup {a}, 
         a.work.op = "deliver", Len(a.work.keys) = BufferSize, 
         a.number < calls', 
         \A b \in acts : b.work.op # "asyncflush",
         \A b \in acts' : b.work.op = "read" /\ a.task = b.task /\ a.number = b.number
           => a.work.keys[BufferSize] # b.work.key
  PROVE  FreshInv'
<1>1. SUFFICES ASSUME kind = "multimap"
      PROVE /\ ShortBuffers' /\ \A b \in acts' : Numbered(b)'
            /\ \A b, c \in acts' : Distinct(b, c)'
  BY DEF FreshInv
<1>2. calls \in Nat /\ calls' \in Nat /\ (\A b \in acts : b.number \in Nat) 
      /\ BufferSize \in Nat
  BY ObjectsAssumption DEF ObjectInv, TaskTypes, Activities
<1>3. \A b \in acts' : Numbered(b)'
  BY <1>1, <1>2 DEF FreshInv, Numbered
<1>4. \A b, c \in acts' : Distinct(b, c)'
  BY <1>1 DEF FreshInv, Distinct
<1> QED BY <1>1, <1>3, <1>4 DEF FreshInv

LEMMA InsertBufferedFresh == 
  ASSUME ObjectInv, ObjectInv', HistoryTypes, FreshInv, UNCHANGED <<kind, program>>, 
         NEW t \in Tasks, NEW name, NEW j \in Keys, InsertBuffered(t, name, j)
  PROVE  FreshInv'
<1>1. Fill(Home[t], j) /\ acts' = acts /\ calls' = calls + 1 /\ Home[t] \in Localities
  BY InsertBufferedIs, CallsAssumption
<1>2. ShortBuffers => ShortBuffers'
  BY <1>1, FillShort
<1>3. calls' >= calls
  BY <1>1 DEF ObjectInv, TaskTypes
<1> QED BY <1>1, <1>2, <1>3, NothingNew

LEMMA AsyncInsertBufferedFresh == 
  ASSUME ObjectInv, ObjectInv', HistoryTypes, FreshInv, UNCHANGED <<kind, program>>, 
         NEW t \in Tasks, NEW name, NEW j \in Keys, AsyncInsertBuffered(t, name, j)
  PROVE  FreshInv'
<1>1. PICK d : d = Activity(t, TRUE, TargetLocality(j), 
                     Delivery(Home[t], InBuffer(Home[t], j)))
  OBVIOUS
<1>2. /\ Fill(Home[t], j) /\ calls' = calls + 1 /\ Home[t] \in Localities
      /\ acts' = IF IsFull(Home[t], j) THEN acts \cup {d} ELSE acts
      /\ \A a \in acts : a.work.op # "asyncflush"
  BY <1>1, InsertBufferedIs, CallsAssumption
<1>3. SUFFICES ASSUME kind = "multimap" PROVE FreshInv'
  BY DEF FreshInv
<1>4. /\ ShortBuffers'
      /\ IsFull(Home[t], j) => Len(InBuffer(Home[t], j)) = BufferSize
  BY <1>2, <1>3, FillShort DEF FreshInv
<1>5. /\ d.work.op = "deliver" /\ d.number = calls 
      /\ d.work.keys = InBuffer(Home[t], j)
  BY <1>1 DEF Activity, Delivery
<1>6. calls' >= calls /\ d.number < calls' /\ calls \in Nat
  BY <1>2, <1>5 DEF ObjectInv, TaskTypes
<1>7. CASE IsFull(Home[t], j)
  <2>1. \A b \in acts' : b.work.op = "read" => b.number # d.number
    BY <1>2, <1>3, <1>5, <1>6 DEF FreshInv, Numbered
  <2> QED BY <1>2, <1>4, <1>5, <1>6, <1>7, <2>1, FullFresh
<1>8. CASE ~ IsFull(Home[t], j)
  BY <1>2, <1>4, <1>6, <1>8, NothingNew
<1> QED BY <1>7, <1>8

LEMMA ReadFilesFresh == 
  ASSUME ObjectInv, ObjectInv', HistoryTypes, FreshInv, UNCHANGED <<kind, program>>, 
         NEW t \in Tasks, ReadFiles(t)
  PROVE  FreshInv'
<1> DEFINE f(k) == Activity(t, TRUE, 0, [op |-> "read", key |-> k])
<1>1. /\ acts' = acts \cup {f(k) : k \in Keys} /\ calls' = calls + 1 
      /\ buffers' = buffers /\ \A a \in acts : a.work.op # "asyncflush"
  BY ReadFilesIs
<1>2. \A k : /\ f(k).work.op = "read" /\ f(k).number = calls /\ f(k).at = 0 
             /\ f(k).task = t
  BY DEF Activity
<1> HIDE DEF f
<1>3. SUFFICES ASSUME kind = "multimap"
      PROVE /\ ShortBuffers' /\ \A c \in acts' : Numbered(c)'
            /\ \A c, d \in acts' : Distinct(c, d)'
  BY DEF FreshInv
<1>4. calls \in Nat /\ calls' \in Nat /\ \A b \in acts : b.number \in Nat
  BY DEF ObjectInv, TaskTypes, Activities
<1>5. \A c \in acts' \ acts : c.work.op = "read" /\ c.number = calls /\ c.at = 0
  BY <1>1, <1>2
<1>6. \A c \in acts' : Numbered(c)'
  BY <1>1, <1>3, <1>4, <1>5 DEF FreshInv, Numbered
<1>7. \A c, d \in acts' : Distinct(c, d)'
  <2>1. \A c \in acts : c.work.op = "deliver" /\ Len(c.work.keys) = BufferSize
          => c.number # calls
    BY <1>3, <1>4 DEF FreshInv, Numbered
  <2> QED BY <1>1, <1>3, <1>5, <2>1 DEF FreshInv, Distinct
<1>8. ShortBuffers'
  BY <1>1, <1>3 DEF FreshInv, ShortBuffers
<1> QED BY <1>6, <1>7, <1>8

\* two readings of one call are of different files
LEMMA ReadsDiffer == 
  ASSUME ObjectInv, FlushInv, FreshInv, kind = "multimap", 
         NEW a \in acts, NEW b \in acts, a # b, a.work.op = "read", 
         b.work.op = "read", a.task = b.task, a.number = b.number
  PROVE  a.work.key # b.work.key
<1>1. /\ a = [task |-> a.task, async |-> a.async, number |-> a.number, at |-> a.at, 
              work |-> a.work]
      /\ b = [task |-> b.task, async |-> b.async, number |-> b.number, at |-> b.at, 
              work |-> b.work]
      /\ a.work \in Works /\ b.work \in Works
  BY DEF ObjectInv, TaskTypes, Activities
<1>2. /\ a.work = [op |-> "read", key |-> a.work.key]
      /\ b.work = [op |-> "read", key |-> b.work.key]
  BY <1>1 DEF Works
<1>3. a.async = b.async /\ a.at = b.at
  <2>1. a.async /\ b.async /\ a.async \in BOOLEAN /\ b.async \in BOOLEAN
    BY DEF FlushInv, Moving, ObjectInv, TaskTypes, Activities
  <2> QED BY <2>1 DEF FreshInv, Numbered
<1> QED BY <1>1, <1>2, <1>3

LEMMA ReadFileFresh == 
  ASSUME ObjectInv, ObjectInv', FlushInv, FreshInv, UNCHANGED <<kind, program>>, 
         NEW a \in acts, ReadFile(a)
  PROVE  FreshInv'
<1>1. /\ calls' = calls /\ a.work.op = "read" /\ a.work.key \in Keys
      /\ a \in Activities 
  BY ReadFileIs DEF ObjectInv, TaskTypes
<1>2. PICK l \in Localities : 
        /\ Fill(l, a.work.key)
        /\ IF IsFull(l, a.work.key)
             THEN acts' = (acts \ {a}) \cup 
                    {Successor(a, TargetLocality(a.work.key), 
                       Delivery(l, InBuffer(l, a.work.key)))}
             ELSE acts' = acts \ {a}
  BY ReadFileIs DEF Successor
<1>3. PICK d : d = Successor(a, TargetLocality(a.work.key), 
                     Delivery(l, InBuffer(l, a.work.key)))
  OBVIOUS
<1>4. SUFFICES ASSUME kind = "multimap" PROVE FreshInv'
  BY DEF FreshInv
<1>5. /\ ShortBuffers'
      /\ IsFull(l, a.work.key) => /\ Len(InBuffer(l, a.work.key)) = BufferSize
                                  /\ InBuffer(l, a.work.key)[BufferSize] = a.work.key
  BY <1>1, <1>2, <1>4, FillShort DEF FreshInv
<1>6. /\ d.work.op = "deliver" /\ d.number = a.number /\ d.task = a.task
      /\ d.work.keys = InBuffer(l, a.work.key)
  BY <1>1, <1>3, SuccessorIs DEF Delivery
<1>7. calls' >= calls /\ d.number < calls' 
  BY <1>1, <1>4, <1>6 DEF FreshInv, Numbered, ObjectInv, TaskTypes
<1>8. CASE IsFull(l, a.work.key)
  <2>1. acts' = (acts \ {a}) \cup {d} /\ acts' \subseteq acts \cup {d}
    BY <1>2, <1>3, <1>8
  <2>2. \A b \in acts' : b.work.op = "read" /\ d.task = b.task /\ d.number = b.number
           => d.work.keys[BufferSize] # b.work.key
    BY <1>1, <1>4, <1>5, <1>6, <1>8, <2>1, ReadsDiffer
  <2>3. \A b \in acts : b.work.op # "asyncflush"
    BY <1>1 DEF FlushInv
  <2> QED BY <1>5, <1>6, <1>7, <1>8, <2>1, <2>2, <2>3, FullFresh
<1>9. CASE ~ IsFull(l, a.work.key)
  BY <1>2, <1>5, <1>7, <1>9, NothingNew
<1> QED BY <1>8, <1>9

LEMMA AsyncFlushFresh == 
  ASSUME ObjectInv, ObjectInv', HistoryTypes, FreshInv, UNCHANGED <<kind, program>>, 
         NEW t \in Tasks, AsyncFlushAllBuffers(t)
  PROVE  FreshInv'
<1>1. /\ UNCHANGED <<buffers, calls>>
      /\ \A a \in acts : a.work.op \notin {"deliver", "read", "asyncflush"}
      /\ \A a \in acts' \ acts : a.work.op = "asyncflush"
  BY AsyncFlushIs
<1>2. SUFFICES ASSUME kind = "multimap"
      PROVE /\ ShortBuffers' /\ \A c \in acts' : Numbered(c)'
            /\ \A c, d \in acts' : Distinct(c, d)'
  BY DEF FreshInv
<1>3. \A c \in acts' : Numbered(c)'
  BY <1>1, <1>2 DEF FreshInv, Numbered
<1>4. \A c, d \in acts' : Distinct(c, d)'
  BY <1>1, <1>2 DEF FreshInv, Distinct
<1>5. ShortBuffers'
  BY <1>1, <1>2 DEF FreshInv, ShortBuffers
<1> QED BY <1>3, <1>4, <1>5

LEMMA RunFlushFresh == 
  ASSUME ObjectInv, ObjectInv', FreshInv, UNCHANGED <<kind, program>>, 
         NEW a \in acts, RunFlush(a)
  PROVE  FreshInv'
<1>1. calls' = calls /\ acts' \subseteq acts /\ calls \in Nat /\ BufferSize \in Nat \ {0}
  BY RunFlushIs, ObjectsAssumption DEF ObjectInv, TaskTypes
<1>2. ShortBuffers => ShortBuffers'
  <2>1. CASE buffers' = buffers
    BY <2>1 DEF ShortBuffers
  <2>2. CASE \E i \in Localities : \A j, l \in Localities : buffers'[j][l] = 
               IF j = a.at /\ l = i THEN <<>> ELSE buffers[j][l]
    BY <1>1, <2>2 DEF ShortBuffers
  <2> QED BY <2>1, <2>2, RunFlushIs
<1> QED BY <1>1, <1>2, NothingNew

LEMMA RunAsyncFlushFresh == 
  ASSUME ObjectInv, ObjectInv', FlushInv, FreshInv, UNCHANGED <<kind, program>>, 
         NEW a \in acts, RunAsyncFlush(a)
  PROVE  FreshInv'
<1>1. /\ calls' = calls /\ a.work.op = "asyncflush" /\ a \in Activities
      /\ a \notin acts' /\ a.at \in Localities
      /\ \A j, i \in Localities : 
           buffers'[j][i] = IF j = a.at THEN <<>> ELSE buffers[j][i]
      /\ \A b \in acts' \ acts : \E i \in Localities : 
           b = Successor(a, i, Delivery(a.at, buffers[a.at][i]))
  BY RunAsyncFlushIs DEF ObjectInv, TaskTypes, Activities, Successor
<1>2. SUFFICES ASSUME kind = "multimap"
      PROVE /\ ShortBuffers' /\ \A c \in acts' : Numbered(c)'
            /\ \A c, d \in acts' : Distinct(c, d)'
  BY DEF FreshInv
<1>3. \A i \in Localities : /\ Len(buffers[a.at][i]) \in Nat 
                            /\ Len(buffers[a.at][i]) < BufferSize 
                            /\ BufferSize \in Nat \ {0}
  BY <1>1, <1>2, ObjectsAssumption DEF FreshInv, ShortBuffers, ObjectInv, MemoryInv
<1>4. \A b \in acts' \ acts : /\ b.work.op = "deliver" /\ b.work.from = a.at
                              /\ Len(b.work.keys) <= BufferSize
                              /\ Len(b.work.keys) # BufferSize
  <2>1. \A i, ks : LET b == Successor(a, i, Delivery(a.at, ks)) IN 
          b.work.op = "deliver" /\ b.work.from = a.at /\ b.work.keys = ks
    BY <1>1, SuccessorIs DEF Delivery
  <2> QED BY <1>1, <1>3, <2>1
<1>5. \A c \in acts' : Numbered(c)'
  BY <1>1, <1>2, <1>4 DEF FreshInv, Numbered
<1>6. \A c \in acts' : /\ c.work.op # "read"
                       /\ c.work.op = "asyncflush" => c \in acts /\ c.at # a.at
  BY <1>1, <1>4 DEF FlushInv
<1>7. \A c, d \in acts' : Distinct(c, d)'
  BY <1>1, <1>2, <1>4, <1>6 DEF FreshInv, Distinct
<1>8. ShortBuffers'
  BY <1>1, <1>2, <1>3 DEF FreshInv, ShortBuffers
<1> QED BY <1>5, <1>7, <1>8

-----------------------------------------------------------------------------
(* A multimap's insertions are counted.  What the handles of a set of      *)
(* tasks stand for is left out: when they have been waited for, the rest   *)
(* is still no more than what the tasks know to be missing.                *)

Occurs(k, ks) == Times(ks, DOMAIN ks, k)

LEMMA OccursIs == 
  ASSUME NEW ks \in Seq(Keys), NEW k \in Keys
  PROVE  /\ Occurs(k, ks) \in Nat /\ Occurs(k, <<>>) = 0
         /\ \A j \in Keys : Occurs(k, Append(ks, j)) = 
              IF j = k THEN Occurs(k, ks) + 1 ELSE Occurs(k, ks)
         /\ \A l : ks \in Seq(KeysOf(l)) /\ l # TargetLocality(k) 
              => Occurs(k, ks) = 0
<1>1. IsFiniteSet(DOMAIN ks)
  BY FS_Interval
<1>2. Occurs(k, ks) \in Nat
  <2>1. IsFiniteSet({j \in DOMAIN ks : ks[j] = k})
    BY <1>1, FS_Subset
  <2> QED BY <2>1, FS_CardinalityType DEF Occurs, Times
<1>3. Occurs(k, <<>>) = 0
  <2>1. {j \in DOMAIN <<>> : <<>>[j] = k} = {}
    OBVIOUS
  <2> QED BY <2>1, FS_EmptySet DEF Occurs, Times
<1>4. ASSUME NEW j \in Keys
      PROVE  Occurs(k, Append(ks, j)) = 
              IF j = k THEN Occurs(k, ks) + 1 ELSE Occurs(k, ks)
  <2> DEFINE all == Append(ks, j)
             x == Len(ks) + 1
  <2>1. /\ DOMAIN all = 1..x /\ x \in DOMAIN all /\ DOMAIN all \ {x} = DOMAIN ks 
        /\ all[x] = j /\ \A i \in DOMAIN ks : all[i] = ks[i]
    <3>1. /\ Len(ks) \in Nat /\ DOMAIN ks = 1..Len(ks) /\ DOMAIN all = 1..x
          /\ all[x] = j /\ \A i \in 1..Len(ks) : all[i] = ks[i]
      OBVIOUS
    <3>2. x \in 1..x /\ (1..x) \ {x} = 1..Len(ks)
      BY <3>1
    <3> QED BY <3>1, <3>2
  <2>2. IsFiniteSet(DOMAIN all)
    BY <2>1, FS_Interval
  <2> HIDE DEF all, x
  <2>3. Times(all, DOMAIN all, k) = IF all[x] = k THEN Times(all, DOMAIN all \ {x}, k) + 1
                                           ELSE Times(all, DOMAIN all \ {x}, k)
    <3>1. PICK D : D = DOMAIN all
      OBVIOUS
    <3>2. IsFiniteSet(D) /\ x \in D
      BY <2>1, <2>2, <3>1
    <3>3. Times(all, D, k) = IF all[x] = k THEN Times(all, D \ {x}, k) + 1
                                           ELSE Times(all, D \ {x}, k)
      BY <3>2, TimesOneMore
    <3> QED BY <3>1, <3>3
  <2>4. {i \in DOMAIN ks : all[i] = k} = {i \in DOMAIN ks : ks[i] = k}
    BY <2>1
  <2>5. Times(all, DOMAIN ks, k) = Times(ks, DOMAIN ks, k)
    BY <2>4 DEF Times
  <2> QED BY <2>1, <2>3, <2>5 DEF Occurs, all
<1>5. ASSUME NEW l, ks \in Seq(KeysOf(l)), l # TargetLocality(k) 
      PROVE  Occurs(k, ks) = 0
  <2>1. {j \in DOMAIN ks : ks[j] = k} = {}
    BY <1>5 DEF KeysOf
  <2> QED BY <2>1, FS_EmptySet DEF Occurs, Times
<1> QED BY <1>2, <1>3, <1>4, <1>5

IsFlushOf(a, i) == a.work.op = "asyncflush" /\ a.at = i
Stored(s, k) == 
  [i \in Localities |-> IF \E a \in acts : IsFlushOf(a, i) /\ a.task \in s
                          THEN 0 ELSE Occurs(k, buffers[i][TargetLocality(k)])]
IsInsertOf(a, k) == a.work.op = "insert" /\ a.work.key = k
Inserting(s, k) == 
  [a \in Activities |-> 
     IF a \in acts /\ IsInsertOf(a, k) /\ a.task \notin s THEN 1 ELSE 0]
Load(a, s, k) == 
  IF a.work.op = "deliver" /\ a.task \notin s THEN Occurs(k, a.work.keys)
  ELSE IF a.work.op = "read" /\ a.work.key = k THEN 1 ELSE 0
Loaded(s, k) == [a \in Activities |-> IF a \in acts THEN Load(a, s, k) ELSE 0]
Owed(s, k) == [t \in Tasks |-> IF t \in s THEN 0 ELSE pending[t].async[k]]
OwedLater(k) == [t \in Tasks |-> pending[t].both[k] + pending[t].buffered[k]]

Counts(s, k) == 
  /\ IsFiniteSet(Units(Inserting(s, k))) /\ IsFiniteSet(Units(Loaded(s, k)))
  /\ Total(Inserting(s, k)) <= Total(Owed(s, k))
  /\ Total(Inserting(s, k)) + Total(Loaded(s, k)) + Total(Stored(s, k))
       <= Total(Owed(s, k)) + Total(OwedLater(k))
Balanced(k) == 
  Len(mem[TargetLocality(k)][k]) + Total(Inserting({}, k)) + Total(Loaded({}, k)) 
    + Total(Stored({}, k)) = promised[k] + Total(Owed({}, k)) + Total(OwedLater(k))
CountInv == 
  kind = "multimap" => \A k \in Keys : 
    /\ \A s \in SUBSET Tasks : Counts(s, k)
    /\ k \notin dropped => Balanced(k)

CountsTyped == 
  \A k \in Keys : \A s : 
    /\ Inserting(s, k) \in [Activities -> Nat]
    /\ Loaded(s, k) \in [Activities -> Nat]
    /\ Stored(s, k) \in [Localities -> Nat]
    /\ Owed(s, k) \in [Tasks -> Nat] /\ OwedLater(k) \in [Tasks -> Nat]

LEMMA CountTypes == ObjectInv /\ HistoryTypes => CountsTyped
<1> SUFFICES ASSUME ObjectInv, HistoryTypes, NEW k \in Keys, NEW s
             PROVE  /\ Inserting(s, k) \in [Activities -> Nat]
                    /\ Loaded(s, k) \in [Activities -> Nat]
                    /\ Stored(s, k) \in [Localities -> Nat]
                    /\ Owed(s, k) \in [Tasks -> Nat] 
                    /\ OwedLater(k) \in [Tasks -> Nat]
  BY DEF CountsTyped
<1>1. \A i, l \in Localities : Occurs(k, buffers[i][l]) \in Nat
  BY OccursIs DEF ObjectInv, MemoryInv
<1>2. \A a \in Activities : Load(a, s, k) \in Nat
  <2> TAKE a \in Activities
  <2>1. a.work.op = "deliver" => a.work.keys \in Seq(Keys)
    BY DEF Activities, Works
  <2> QED BY <2>1, OccursIs DEF Load
<1>3. Inserting(s, k) \in [Activities -> Nat]
  BY DEF Inserting
<1>4. Loaded(s, k) \in [Activities -> Nat]
  BY <1>2 DEF Loaded
<1>5. Stored(s, k) \in [Localities -> Nat]
  BY <1>1, TargetType DEF Stored
<1>6. Owed(s, k) \in [Tasks -> Nat] /\ OwedLater(k) \in [Tasks -> Nat]
  BY DEF HistoryTypes, Owed, OwedLater
<1> QED BY <1>3, <1>4, <1>5, <1>6

LEMMA CountTypesNext == (ObjectInv /\ HistoryTypes)' => CountsTyped'
BY CountTypes, PTL

LEMMA CountsFinite == 
  ASSUME ObjectInv, HistoryTypes, IsFiniteSet(Tasks), NEW s, NEW k \in Keys
  PROVE  /\ IsFiniteSet(Units(Stored(s, k))) /\ Total(Stored(s, k)) \in Nat
         /\ IsFiniteSet(Units(Owed(s, k))) /\ Total(Owed(s, k)) \in Nat
         /\ IsFiniteSet(Units(OwedLater(k))) /\ Total(OwedLater(k)) \in Nat
         /\ IsFiniteSet(Units(Inserting(s, k))) => Total(Inserting(s, k)) \in Nat
         /\ IsFiniteSet(Units(Loaded(s, k))) => Total(Loaded(s, k)) \in Nat
<1>1. IsFiniteSet(Localities)
  BY CallsAssumption, FS_Interval DEF Localities
<1>2. IsFiniteSet(Units(Stored(s, k))) /\ Total(Stored(s, k)) \in Nat
  BY <1>1, CountTypes, TotalFinite DEF CountsTyped
<1>3. /\ IsFiniteSet(Units(Owed(s, k))) /\ Total(Owed(s, k)) \in Nat
      /\ IsFiniteSet(Units(OwedLater(k))) /\ Total(OwedLater(k)) \in Nat
  BY CountTypes, TotalFinite DEF CountsTyped
<1> QED BY <1>2, <1>3, FS_CardinalityType DEF Total

\* sums that a step does not change
SameInserts == 
  \A a \in acts \cup acts' : a.work.op = "insert" => a \in acts /\ a \in acts'
SameLoads == 
  \A a \in acts \cup acts' : a.work.op \in {"deliver", "read"} => a \in acts /\ a \in acts'
SameFlushes == 
  \A a \in acts \cup acts' : a.work.op = "asyncflush" => a \in acts /\ a \in acts'

LEMMA InsertsStay == 
  ASSUME SameInserts, NEW s, NEW k
  PROVE  /\ Units(Inserting(s, k))' = Units(Inserting(s, k))
         /\ Total(Inserting(s, k))' = Total(Inserting(s, k))
<1>1. \A a \in Activities : Inserting(s, k)'[a] = Inserting(s, k)[a]
  BY DEF Inserting, SameInserts, IsInsertOf
<1>2. DOMAIN Inserting(s, k)' = Activities /\ DOMAIN Inserting(s, k) = Activities
  BY DEF Inserting
<1> QED BY <1>1, <1>2, TotalStays

LEMMA LoadsStay == 
  ASSUME SameLoads, NEW s, NEW k
  PROVE  /\ Units(Loaded(s, k))' = Units(Loaded(s, k))
         /\ Total(Loaded(s, k))' = Total(Loaded(s, k))
<1>1. \A a \in Activities : Loaded(s, k)'[a] = Loaded(s, k)[a]
  BY DEF Loaded, SameLoads, Load
<1>2. DOMAIN Loaded(s, k)' = Activities /\ DOMAIN Loaded(s, k) = Activities
  BY DEF Loaded
<1> QED BY <1>1, <1>2, TotalStays

LEMMA StoreStays == 
  ASSUME SameFlushes, NEW s, NEW k \in Keys, 
         \A i \in Localities : buffers'[i][TargetLocality(k)] = buffers[i][TargetLocality(k)]
  PROVE  /\ Units(Stored(s, k))' = Units(Stored(s, k))
         /\ Total(Stored(s, k))' = Total(Stored(s, k))
<1>1. \A i \in Localities : Stored(s, k)'[i] = Stored(s, k)[i]
  BY DEF Stored, SameFlushes, IsFlushOf
<1>2. DOMAIN Stored(s, k)' = Localities /\ DOMAIN Stored(s, k) = Localities
  BY DEF Stored
<1> QED BY <1>1, <1>2, TotalStays

LEMMA OwedStays == 
  ASSUME NEW s, NEW k, \A t \in Tasks : pending'[t].async[k] = pending[t].async[k]
  PROVE  Total(Owed(s, k))' = Total(Owed(s, k))
<1>1. \A t \in Tasks : Owed(s, k)'[t] = Owed(s, k)[t]
  BY DEF Owed
<1>2. DOMAIN Owed(s, k)' = Tasks /\ DOMAIN Owed(s, k) = Tasks
  BY DEF Owed
<1> QED BY <1>1, <1>2, TotalStays

LEMMA OwedLaterStays == 
  ASSUME NEW k, \A t \in Tasks : 
           pending'[t].both[k] + pending'[t].buffered[k] 
             = pending[t].both[k] + pending[t].buffered[k]
  PROVE  Total(OwedLater(k))' = Total(OwedLater(k))
<1>1. \A t \in Tasks : OwedLater(k)'[t] = OwedLater(k)[t]
  BY DEF OwedLater
<1>2. DOMAIN OwedLater(k)' = Tasks /\ DOMAIN OwedLater(k) = Tasks
  BY DEF OwedLater
<1> QED BY <1>1, <1>2, TotalStays

\* sums of which a step changes one summand
LEMMA InsertsChange == 
  ASSUME ObjectInv, ObjectInv', HistoryTypes, HistoryTypes', 
         NEW s, NEW k \in Keys, NEW c \in Activities, 
         \A a \in (acts \cup acts') \ {c} : IsInsertOf(a, k) => a \in acts /\ a \in acts',
         IsFiniteSet(Units(Inserting(s, k)))
  PROVE  /\ IsFiniteSet(Units(Inserting(s, k)))'
         /\ Total(Inserting(s, k)) \in Nat /\ Total(Inserting(s, k))' \in Nat
         /\ IsInsertOf(c, k) /\ c.task \notin s =>
              Total(Inserting(s, k))' + (IF c \in acts THEN 1 ELSE 0)
                = Total(Inserting(s, k)) + (IF c \in acts' THEN 1 ELSE 0)
         /\ ~ (IsInsertOf(c, k) /\ c.task \notin s) =>
              Total(Inserting(s, k))' = Total(Inserting(s, k))
<1>1. /\ Inserting(s, k) \in [Activities -> Nat]
      /\ Inserting(s, k)' \in [Activities -> Nat]
  BY CountTypes, CountTypesNext DEF CountsTyped
<1>2. \A a \in Activities \ {c} : Inserting(s, k)'[a] = Inserting(s, k)[a]
  BY DEF Inserting
<1>3. /\ IsFiniteSet(Units(Inserting(s, k)))'
      /\ Total(Inserting(s, k)) \in Nat /\ Total(Inserting(s, k))' \in Nat
      /\ Total(Inserting(s, k))' + Inserting(s, k)[c]
           = Total(Inserting(s, k)) + Inserting(s, k)'[c]
  BY <1>1, <1>2, TotalChanges
<1>4. /\ Inserting(s, k)[c] = 
           IF c \in acts /\ IsInsertOf(c, k) /\ c.task \notin s THEN 1 ELSE 0
      /\ Inserting(s, k)'[c] = 
           IF c \in acts' /\ IsInsertOf(c, k) /\ c.task \notin s THEN 1 ELSE 0
  BY DEF Inserting, IsInsertOf
<1>5. CASE IsInsertOf(c, k) /\ c.task \notin s
  BY <1>3, <1>4, <1>5
<1>6. CASE ~ (IsInsertOf(c, k) /\ c.task \notin s)
  BY <1>3, <1>4, <1>6
<1> QED BY <1>3, <1>5, <1>6

LEMMA LoadsChange == 
  ASSUME ObjectInv, ObjectInv', HistoryTypes, HistoryTypes', 
         NEW s, NEW k \in Keys, NEW c \in Activities, 
         \A a \in (acts \cup acts') \ {c} : Load(a, s, k) # 0 => a \in acts /\ a \in acts',
         IsFiniteSet(Units(Loaded(s, k)))
  PROVE  /\ IsFiniteSet(Units(Loaded(s, k)))'
         /\ Total(Loaded(s, k)) \in Nat /\ Total(Loaded(s, k))' \in Nat
         /\ Load(c, s, k) \in Nat
         /\ Total(Loaded(s, k))' + (IF c \in acts THEN Load(c, s, k) ELSE 0)
              = Total(Loaded(s, k)) + (IF c \in acts' THEN Load(c, s, k) ELSE 0)
<1>1. /\ Loaded(s, k) \in [Activities -> Nat]
      /\ Loaded(s, k)' \in [Activities -> Nat]
  BY CountTypes, CountTypesNext DEF CountsTyped
<1>2. \A a \in Activities \ {c} : Loaded(s, k)'[a] = Loaded(s, k)[a]
  BY DEF Loaded, Load
<1>3. /\ IsFiniteSet(Units(Loaded(s, k)))'
      /\ Total(Loaded(s, k)) \in Nat /\ Total(Loaded(s, k))' \in Nat
      /\ Total(Loaded(s, k))' + Loaded(s, k)[c]
           = Total(Loaded(s, k)) + Loaded(s, k)'[c]
  BY <1>1, <1>2, TotalChanges
<1>4. /\ Loaded(s, k)[c] = IF c \in acts THEN Load(c, s, k) ELSE 0
      /\ Loaded(s, k)'[c] = IF c \in acts' THEN Load(c, s, k) ELSE 0
  BY DEF Loaded, Load
<1>5. Load(c, s, k) \in Nat
  <2>1. c.work.op = "deliver" => c.work.keys \in Seq(Keys)
    BY DEF Activities, Works
  <2> QED BY <2>1, OccursIs DEF Load
<1> QED BY <1>3, <1>4, <1>5

LEMMA StoreChanges == 
  ASSUME ObjectInv, ObjectInv', HistoryTypes, HistoryTypes', IsFiniteSet(Tasks),
         NEW s, NEW k \in Keys, NEW i \in Localities, 
         \A j \in Localities \ {i} : Stored(s, k)'[j] = Stored(s, k)[j]
  PROVE  /\ Total(Stored(s, k)) \in Nat /\ Total(Stored(s, k))' \in Nat
         /\ Stored(s, k)[i] \in Nat /\ Stored(s, k)'[i] \in Nat
         /\ Total(Stored(s, k)) >= Stored(s, k)[i]
         /\ Total(Stored(s, k))' + Stored(s, k)[i]
              = Total(Stored(s, k)) + Stored(s, k)'[i]
<1>1. /\ Stored(s, k) \in [Localities -> Nat]
      /\ Stored(s, k)' \in [Localities -> Nat]
      /\ IsFiniteSet(Units(Stored(s, k)))
  BY CountTypes, CountTypesNext, CountsFinite DEF CountsTyped
<1> QED BY <1>1, TotalChanges

\* one insertion more is owed
LEMMA OwedMore == 
  ASSUME ObjectInv, ObjectInv', HistoryTypes, IsFiniteSet(Tasks),
         NEW t \in Tasks, NEW j \in Keys, Later(t, "async", j), NEW s, NEW k \in Keys
  PROVE  /\ HistoryTypes' /\ UNCHANGED <<promised, dropped>>
         /\ Total(Owed(s, k))' = IF k = j /\ t \notin s THEN Total(Owed(s, k)) + 1
                                                        ELSE Total(Owed(s, k))
         /\ Total(OwedLater(k))' = Total(OwedLater(k))
         /\ Total(Owed(s, k)) \in Nat /\ Total(OwedLater(k)) \in Nat
<1>1. /\ HistoryTypes' /\ UNCHANGED <<promised, dropped>>
      /\ \A u \in Tasks : 
           /\ UNCHANGED <<pending[u].both, pending[u].buffered>>
           /\ pending'[u].async[k] = IF u = t /\ k = j
                THEN pending[u].async[k] + 1 ELSE pending[u].async[k]
  BY LaterIs
<1>2. /\ Owed(s, k) \in [Tasks -> Nat] /\ Owed(s, k)' \in [Tasks -> Nat]
      /\ IsFiniteSet(Units(Owed(s, k)))
      /\ Total(Owed(s, k)) \in Nat /\ Total(OwedLater(k)) \in Nat
  BY <1>1, CountTypes, CountTypesNext, CountsFinite DEF CountsTyped
<1>3. \A u \in Tasks \ {t} : Owed(s, k)'[u] = Owed(s, k)[u]
  BY <1>1 DEF Owed
<1>4. /\ Total(Owed(s, k))' + Owed(s, k)[t] = Total(Owed(s, k)) + Owed(s, k)'[t]
      /\ Total(Owed(s, k))' \in Nat /\ Owed(s, k)[t] \in Nat
  BY <1>2, <1>3, TotalChanges
<1>5. Owed(s, k)'[t] = IF k = j /\ t \notin s THEN Owed(s, k)[t] + 1 ELSE Owed(s, k)[t]
  BY <1>1 DEF Owed
<1>6. Total(OwedLater(k))' = Total(OwedLater(k))
  BY <1>1, OwedLaterStays
<1>7. Total(Owed(s, k))' = IF k = j /\ t \notin s THEN Total(Owed(s, k)) + 1
                                                  ELSE Total(Owed(s, k))
  BY <1>2, <1>4, <1>5
<1> QED BY <1>1, <1>2, <1>6, <1>7

LEMMA OwedLaterMore == 
  ASSUME ObjectInv, ObjectInv', HistoryTypes, HistoryTypes', IsFiniteSet(Tasks),
         NEW t \in Tasks, NEW k \in Keys, NEW n \in Nat,
         \A u \in Tasks : pending'[u].async[k] = pending[u].async[k],
         \A u \in Tasks : 
           pending'[u].both[k] + pending'[u].buffered[k] 
             = pending[u].both[k] + pending[u].buffered[k] + (IF u = t THEN n ELSE 0)
  PROVE  /\ \A s : Total(Owed(s, k))' = Total(Owed(s, k))
         /\ Total(OwedLater(k))' = Total(OwedLater(k)) + n
         /\ Total(OwedLater(k)) \in Nat
<1>1. /\ OwedLater(k) \in [Tasks -> Nat] /\ OwedLater(k)' \in [Tasks -> Nat]
      /\ IsFiniteSet(Units(OwedLater(k))) /\ Total(OwedLater(k)) \in Nat
  BY CountTypes, CountTypesNext, CountsFinite DEF CountsTyped
<1>2. \A u \in Tasks : /\ OwedLater(k)[u] \in Nat
                       /\ pending[u].both[k] + pending[u].buffered[k] \in Nat
                       /\ OwedLater(k)[u] = pending[u].both[k] + pending[u].buffered[k]
                       /\ OwedLater(k)'[u] = pending'[u].both[k] + pending'[u].buffered[k]
  BY DEF OwedLater, HistoryTypes
<1>3. \A u \in Tasks \ {t} : OwedLater(k)'[u] = OwedLater(k)[u]
  BY <1>2
<1>4. OwedLater(k)'[t] = OwedLater(k)[t] + n
  BY <1>2
<1>5. /\ Total(OwedLater(k))' + OwedLater(k)[t] = Total(OwedLater(k)) + OwedLater(k)'[t]
      /\ Total(OwedLater(k))' \in Nat
  BY <1>1, <1>3, TotalChanges
<1>6. \A s : Total(Owed(s, k))' = Total(Owed(s, k))
  BY OwedStays
<1>7. OwedLater(k)[t] \in Nat
  BY <1>1
<1>8. Total(OwedLater(k))' = Total(OwedLater(k)) + n
  <2> DEFINE x == Total(OwedLater(k))
             y == OwedLater(k)[t]
             u == OwedLater(k)'[t]
             v == Total(OwedLater(k))'
  <2>1. v + y = x + u /\ u = y + n /\ x \in Nat /\ y \in Nat /\ v \in Nat
    BY <1>1, <1>4, <1>5, <1>7
  <2> HIDE DEF x, y, u, v
  <2>2. v = x + n
    BY <2>1
  <2> QED BY <2>2 DEF x, v
<1> QED BY <1>1, <1>6, <1>8

\* what a change and a delivery add in a multimap
LEMMA PutAdds == 
  ASSUME ObjectInv, kind = "multimap", NEW j \in Keys, NEW k \in Keys,
         Put(TargetLocality(j), j, Change("insert", mem[TargetLocality(j)][j]))
  PROVE  /\ Len(mem[TargetLocality(k)][k]) \in Nat
         /\ Len(mem'[TargetLocality(k)][k]) = IF k = j 
              THEN Len(mem[TargetLocality(k)][k]) + 1 ELSE Len(mem[TargetLocality(k)][k])
<1>1. /\ mem[TargetLocality(j)][j] \in Seq(Nat) /\ mem[TargetLocality(k)][k] \in Seq(Nat)
  BY TargetType DEF ObjectInv, MemoryInv
<1>2. Change("insert", mem[TargetLocality(j)][j]) = Append(mem[TargetLocality(j)][j], 1)
  BY DEF Change, Inserted
<1>3. mem'[TargetLocality(k)][k] = IF TargetLocality(k) = TargetLocality(j) /\ k = j 
        THEN Append(mem[TargetLocality(j)][j], 1) ELSE mem[TargetLocality(k)][k]
  BY <1>2, TargetType DEF Put, ObjectInv, MemoryInv
<1>4. Len(Append(mem[TargetLocality(j)][j], 1)) = Len(mem[TargetLocality(j)][j]) + 1
  BY <1>1
<1> QED BY <1>1, <1>3, <1>4

LEMMA DeliverAdds == 
  ASSUME ObjectInv, kind = "multimap", NEW l \in Localities, NEW ks \in Seq(Keys), 
         ks \in Seq(KeysOf(l)), Deliver(l, ks), NEW k \in Keys
  PROVE  /\ Len(mem[TargetLocality(k)][k]) \in Nat /\ Occurs(k, ks) \in Nat
         /\ Len(mem'[TargetLocality(k)][k]) 
              = Len(mem[TargetLocality(k)][k]) + Occurs(k, ks)
<1>1. /\ mem[TargetLocality(k)][k] \in Seq(Nat) /\ TargetLocality(k) \in Localities
      /\ Len(mem[TargetLocality(k)][k]) \in Nat 
  BY TargetType DEF ObjectInv, MemoryInv
<1>2. /\ Occurs(k, ks) \in Nat 
      /\ l # TargetLocality(k) => Occurs(k, ks) = 0
  BY OccursIs
<1>3. \A i \in Localities : mem'[i][k] = 
        IF i = l THEN Grown(mem[i][k], Occurs(k, ks)) ELSE mem[i][k]
  BY DeliverEffect DEF ObjectInv, MemoryInv, Occurs
<1>4. Len(Grown(mem[TargetLocality(k)][k], Occurs(k, ks)))
        = Len(mem[TargetLocality(k)][k]) + Occurs(k, ks)
  BY <1>1, <1>2, GrownType
<1> QED BY <1>1, <1>2, <1>3, <1>4

-----------------------------------------------------------------------------
(* Each step keeps the counts.                                             *)

LEMMA Recount == 
  ASSUME CountInv, kind' = kind, dropped \subseteq dropped',
         kind = "multimap" => \A k \in Keys : 
           /\ \A s \in SUBSET Tasks : Counts(s, k) => Counts(s, k)'
           /\ k \notin dropped' /\ Counts({}, k) /\ Balanced(k) => Balanced(k)'
  PROVE  CountInv'
<1>1. SUFFICES ASSUME kind = "multimap", NEW k \in Keys
      PROVE  /\ \A s \in SUBSET Tasks : Counts(s, k)'
             /\ k \notin dropped' => Balanced(k)'
  BY DEF CountInv
<1>2. /\ \A s \in SUBSET Tasks : Counts(s, k)
      /\ k \notin dropped => Balanced(k)
  BY <1>1 DEF CountInv
<1>3. {} \in SUBSET Tasks
  OBVIOUS
<1> QED BY <1>1, <1>2, <1>3

\* the sums of a key grow by these numbers
Shifted(s, k, i, d, b, o, q) == 
  /\ i \in Int /\ d \in Int /\ b \in Int /\ o \in Int /\ q \in Int
  /\ IsFiniteSet(Units(Inserting(s, k)))' /\ IsFiniteSet(Units(Loaded(s, k)))'
  /\ Total(Inserting(s, k))' = Total(Inserting(s, k)) + i
  /\ Total(Loaded(s, k))' = Total(Loaded(s, k)) + d
  /\ Total(Stored(s, k))' = Total(Stored(s, k)) + b
  /\ Total(Owed(s, k))' = Total(Owed(s, k)) + o
  /\ Total(OwedLater(k))' = Total(OwedLater(k)) + q

LEMMA ShiftCounts == 
  ASSUME ObjectInv, HistoryTypes, IsFiniteSet(Tasks), NEW s, NEW k \in Keys, 
         Counts(s, k), NEW i, NEW d, NEW b, NEW o, NEW q, 
         Shifted(s, k, i, d, b, o, q), i <= o, i + d + b <= o + q
  PROVE  Counts(s, k)'
<1> DEFINE I == Total(Inserting(s, k))
           D == Total(Loaded(s, k))
           B == Total(Stored(s, k))
           O == Total(Owed(s, k))
           Q == Total(OwedLater(k))
<1>1. I \in Nat /\ D \in Nat /\ B \in Nat /\ O \in Nat /\ Q \in Nat
  BY CountsFinite DEF Counts
<1>2. I <= O /\ I + D + B <= O + Q
  BY DEF Counts
<1>3. /\ i \in Int /\ d \in Int /\ b \in Int /\ o \in Int /\ q \in Int
      /\ I' = I + i /\ D' = D + d /\ B' = B + b /\ O' = O + o /\ Q' = Q + q
      /\ IsFiniteSet(Units(Inserting(s, k)))' /\ IsFiniteSet(Units(Loaded(s, k)))'
  BY DEF Shifted
<1> HIDE DEF I, D, B, O, Q
<1>4. I' <= O' /\ I' + D' + B' <= O' + Q'
  <2>1. I + i <= O + o /\ (I + i) + (D + d) + (B + b) <= (O + o) + (Q + q)
    BY <1>1, <1>2, <1>3
  <2> QED BY <1>3, <2>1
<1> QED BY <1>3, <1>4 DEF Counts, I, D, B, O, Q

\* and so do its values and what is promised of it
Added(k, l, p) == 
  /\ l \in Int /\ p \in Int
  /\ Len(mem'[TargetLocality(k)][k]) = Len(mem[TargetLocality(k)][k]) + l
  /\ promised'[k] = promised[k] + p

LEMMA ShiftBalance == 
  ASSUME ObjectInv, HistoryTypes, IsFiniteSet(Tasks), NEW k \in Keys, 
         Counts({}, k), Balanced(k), NEW i, NEW d, NEW b, NEW o, NEW q, 
         Shifted({}, k, i, d, b, o, q), NEW l, NEW p, Added(k, l, p),
         l + i + d + b = p + o + q
  PROVE  Balanced(k)'
<1> DEFINE I == Total(Inserting({}, k))
           D == Total(Loaded({}, k))
           B == Total(Stored({}, k))
           O == Total(Owed({}, k))
           Q == Total(OwedLater(k))
           L == Len(mem[TargetLocality(k)][k])
           P == promised[k]
<1>1. /\ I \in Nat /\ D \in Nat /\ B \in Nat /\ O \in Nat /\ Q \in Nat
      /\ L \in Nat /\ P \in Nat
  BY CountsFinite, TargetType DEF Counts, ObjectInv, MemoryInv, HistoryTypes
<1>2. L + I + D + B = P + O + Q
  BY DEF Balanced
<1>3. /\ i \in Int /\ d \in Int /\ b \in Int /\ o \in Int /\ q \in Int
      /\ I' = I + i /\ D' = D + d /\ B' = B + b /\ O' = O + o /\ Q' = Q + q
      /\ L' = L + l /\ P' = P + p /\ l \in Int /\ p \in Int
  BY DEF Shifted, Added
<1> HIDE DEF I, D, B, O, Q, L, P
<1>4. L' + I' + D' + B' = P' + O' + Q'
  <2>1. (L + l) + (I + i) + (D + d) + (B + b) = (P + p) + (O + o) + (Q + q)
    BY <1>1, <1>2, <1>3
  <2> QED BY <1>3, <2>1
<1> QED BY <1>4 DEF Balanced, I, D, B, O, Q, L, P

LEMMA SameCounts == 
  ASSUME ObjectInv, HistoryTypes, IsFiniteSet(Tasks), 
         SameInserts, SameLoads, SameFlushes, UNCHANGED <<buffers, pending>>, 
         NEW s, NEW k \in Keys, Counts(s, k)
  PROVE  Shifted(s, k, 0, 0, 0, 0, 0) /\ Counts(s, k)'
<1>1. /\ Units(Inserting(s, k))' = Units(Inserting(s, k))
      /\ Total(Inserting(s, k))' = Total(Inserting(s, k))
      /\ Units(Loaded(s, k))' = Units(Loaded(s, k))
      /\ Total(Loaded(s, k))' = Total(Loaded(s, k))
  BY InsertsStay, LoadsStay
<1>2. Total(Stored(s, k))' = Total(Stored(s, k))
  BY StoreStays
<1>3. /\ Total(Owed(s, k))' = Total(Owed(s, k))
      /\ Total(OwedLater(k))' = Total(OwedLater(k))
  BY OwedStays, OwedLaterStays
<1>4. \A n \in Nat : n = n + 0
  OBVIOUS
<1>5. Shifted(s, k, 0, 0, 0, 0, 0)
  BY <1>1, <1>2, <1>3, <1>4, CountsFinite DEF Counts, Shifted
<1>6. 0 <= 0 /\ 0 + 0 + 0 <= 0 + 0
  OBVIOUS
<1> QED BY <1>5, <1>6, ShiftCounts

LEMMA QuietCount == 
  ASSUME ObjectInv, ObjectInv', HistoryTypes, IsFiniteSet(Tasks), CountInv, Quiet
  PROVE  CountInv'
<1>1. SameInserts /\ SameLoads /\ SameFlushes /\ UNCHANGED <<buffers, pending>>
  BY DEF Quiet, SameInserts, SameLoads, SameFlushes, IsMover, Moving
<1>2. ASSUME NEW k \in Keys, k \notin dropped', Counts({}, k), Balanced(k)
      PROVE  Balanced(k)'
  <2>1. Shifted({}, k, 0, 0, 0, 0, 0)
    BY <1>1, <1>2, SameCounts
  <2>2. Added(k, 0, 0)
    BY <1>2, TargetType DEF Quiet, ObjectInv, MemoryInv, HistoryTypes, Added
  <2> QED BY <1>2, <2>1, <2>2, ShiftBalance
<1>3. \A k \in Keys : \A s \in SUBSET Tasks : Counts(s, k) => Counts(s, k)'
  BY <1>1, SameCounts
<1> QED BY <1>2, <1>3, Recount DEF Quiet

LEMMA InsertCount == 
  ASSUME ObjectInv, ObjectInv', HistoryTypes, IsFiniteSet(Tasks), CountInv, 
         UNCHANGED <<kind, program>>, NEW t \in Tasks, NEW name, NEW j \in Keys, 
         OneStep(t, name, j, "insert"), Promise(j)
  PROVE  CountInv'
<1>1. /\ SameInserts /\ SameLoads /\ SameFlushes 
      /\ UNCHANGED <<buffers, pending, dropped>>
  BY DEF OneStep, AtOnce, Promise, SameInserts, SameLoads, SameFlushes
<1>2. ASSUME NEW k \in Keys, kind = "multimap", Counts({}, k), Balanced(k)
      PROVE  Balanced(k)'
  <2>1. Shifted({}, k, 0, 0, 0, 0, 0)
    BY <1>1, <1>2, SameCounts
  <2>2. PICK e \in Int : e = IF k = j THEN 1 ELSE 0
    OBVIOUS
  <2>3. Len(mem'[TargetLocality(k)][k]) = Len(mem[TargetLocality(k)][k]) + e
    <3>1. Put(TargetLocality(j), j, Change("insert", mem[TargetLocality(j)][j]))
      BY DEF OneStep
    <3>2. /\ Len(mem[TargetLocality(k)][k]) \in Nat
          /\ Len(mem'[TargetLocality(k)][k]) = IF k = j 
               THEN Len(mem[TargetLocality(k)][k]) + 1 
               ELSE Len(mem[TargetLocality(k)][k])
      BY <1>2, <3>1, PutAdds
    <3>3. CASE k = j
      BY <2>2, <3>2, <3>3
    <3>4. CASE k # j
      BY <2>2, <3>2, <3>4
    <3> QED BY <3>3, <3>4
  <2>4. promised'[k] = promised[k] + e
    BY <2>2 DEF Promise, HistoryTypes
  <2>5. Added(k, e, e)
    BY <2>3, <2>4 DEF Added
  <2> QED BY <1>2, <2>1, <2>5, ShiftBalance
<1>3. \A k \in Keys : \A s \in SUBSET Tasks : Counts(s, k) => Counts(s, k)'
  BY <1>1, SameCounts
<1> QED BY <1>1, <1>2, <1>3, Recount

\* an insertion by an activity
LEMMA LaterCount == 
  ASSUME ObjectInv, ObjectInv', HistoryTypes, IsFiniteSet(Tasks), CountInv, FreshInv,
         UNCHANGED <<kind, mem, buffers>>, NEW t \in Tasks, NEW j \in Keys, 
         Later(t, "async", j), NEW a \in Activities, acts' = acts \cup {a}, 
         IsInsertOf(a, j), a.task = t, a.number = calls
  PROVE  CountInv'
<1>1. SameLoads /\ SameFlushes 
  BY DEF SameLoads, SameFlushes, IsInsertOf
<1>2. HistoryTypes' /\ UNCHANGED <<promised, dropped>>
  BY LaterIs
<1>3. ASSUME NEW k \in Keys, kind = "multimap", NEW s, Counts(s, k)
      PROVE  \E e \in Int : Shifted(s, k, e, 0, 0, e, 0)
  <2>1. a \notin acts
    BY <1>3 DEF FreshInv, Numbered, IsInsertOf, ObjectInv, TaskTypes
  <2>2. PICK e \in Int : e = IF k = j /\ t \notin s THEN 1 ELSE 0
    OBVIOUS
  <2>3. /\ IsFiniteSet(Units(Loaded(s, k)))'
        /\ Total(Loaded(s, k))' = Total(Loaded(s, k)) + 0
    BY <1>1, <1>3, LoadsStay, CountsFinite DEF Counts
  <2>4. Total(Stored(s, k))' = Total(Stored(s, k)) + 0
    BY <1>1, StoreStays, CountsFinite
  <2>5. /\ Total(Owed(s, k))' = Total(Owed(s, k)) + e
        /\ Total(OwedLater(k))' = Total(OwedLater(k)) + 0
    BY <2>2, OwedMore
  <2>6. /\ IsFiniteSet(Units(Inserting(s, k)))'
        /\ Total(Inserting(s, k)) \in Nat /\ Total(Inserting(s, k))' \in Nat
        /\ IsInsertOf(a, k) /\ a.task \notin s =>
             Total(Inserting(s, k))' + (IF a \in acts THEN 1 ELSE 0)
               = Total(Inserting(s, k)) + (IF a \in acts' THEN 1 ELSE 0)
        /\ ~ (IsInsertOf(a, k) /\ a.task \notin s) =>
             Total(Inserting(s, k))' = Total(Inserting(s, k))
    BY <1>2, <1>3, InsertsChange DEF Counts
  <2>7. IsInsertOf(a, k) <=> k = j
    BY DEF IsInsertOf
  <2>8. Total(Inserting(s, k))' = Total(Inserting(s, k)) + e
    BY <2>1, <2>2, <2>6, <2>7
  <2> QED BY <2>3, <2>4, <2>5, <2>6, <2>8 DEF Shifted
<1>4. \A e \in Int : /\ e <= e /\ e + 0 + 0 <= e + 0 /\ 0 + e + 0 + 0 = 0 + e + 0
  OBVIOUS
<1>5. ASSUME NEW k \in Keys, kind = "multimap", NEW s, Counts(s, k) PROVE Counts(s, k)'
  BY <1>3, <1>4, <1>5, ShiftCounts
<1>6. ASSUME NEW k \in Keys, kind = "multimap", Counts({}, k), Balanced(k) 
      PROVE  Balanced(k)'
  <2>1. Added(k, 0, 0)
    BY <1>2, TargetType DEF ObjectInv, MemoryInv, HistoryTypes, Added
  <2> QED BY <1>3, <1>4, <1>6, <2>1, ShiftBalance
<1> QED BY <1>2, <1>5, <1>6, Recount

\* the sums grow by numbers that add up
Evenly(s, k) == 
  \E i, d, b, o, q, l, p \in Int : 
    /\ Shifted(s, k, i, d, b, o, q) /\ i <= o /\ i + d + b <= o + q
    /\ s = {} => Added(k, l, p) /\ l + i + d + b = p + o + q

LEMMA StepCounts == 
  ASSUME ObjectInv, HistoryTypes, IsFiniteSet(Tasks), CountInv, 
         UNCHANGED <<kind, dropped>>,
         kind = "multimap" => 
           \A k \in Keys : \A s \in SUBSET Tasks : Counts(s, k) => Evenly(s, k)
  PROVE  CountInv'
<1>1. ASSUME NEW k \in Keys, kind = "multimap", NEW s \in SUBSET Tasks, Counts(s, k) 
      PROVE  Counts(s, k)'
  <2>1. PICK i, d, b, o, q \in Int : 
          Shifted(s, k, i, d, b, o, q) /\ i <= o /\ i + d + b <= o + q
    BY <1>1 DEF Evenly
  <2> QED BY <1>1, <2>1, ShiftCounts
<1>2. ASSUME NEW k \in Keys, kind = "multimap", Counts({}, k), Balanced(k) 
      PROVE  Balanced(k)'
  <2>1. Evenly({}, k)
    BY <1>2
  <2>2. PICK i, d, b, o, q, l, p \in Int : 
          /\ Shifted({}, k, i, d, b, o, q) /\ i <= o /\ i + d + b <= o + q
          /\ {} = {} => Added(k, l, p) /\ l + i + d + b = p + o + q
    BY <2>1, Zenon DEF Evenly
  <2> QED BY <1>2, <2>2, ShiftBalance
<1> QED BY <1>1, <1>2, Recount

LEMMA OwedChanges == 
  ASSUME ObjectInv, ObjectInv', HistoryTypes, HistoryTypes', IsFiniteSet(Tasks),
         NEW t \in Tasks, NEW k \in Keys, NEW x \in Int, NEW y \in Int,
         \A u \in Tasks : 
           /\ pending'[u].async[k] = pending[u].async[k] + (IF u = t THEN x ELSE 0)
           /\ pending'[u].both[k] + pending'[u].buffered[k] 
                = pending[u].both[k] + pending[u].buffered[k] 
                    + (IF u = t THEN y ELSE 0)
  PROVE  /\ \A s : Total(Owed(s, k))' = Total(Owed(s, k)) + (IF t \in s THEN 0 ELSE x)
         /\ Total(OwedLater(k))' = Total(OwedLater(k)) + y
<1>1. \A u \in Tasks : 
        /\ pending[u].async[k] \in Nat /\ pending[u].both[k] \in Nat
        /\ pending[u].buffered[k] \in Nat
  BY DEF HistoryTypes
<1>2. ASSUME NEW s
      PROVE  Total(Owed(s, k))' = Total(Owed(s, k)) + (IF t \in s THEN 0 ELSE x)
  <2>1. /\ Owed(s, k) \in [Tasks -> Nat] /\ Owed(s, k)' \in [Tasks -> Nat]
        /\ IsFiniteSet(Units(Owed(s, k)))
    BY CountTypes, CountTypesNext, CountsFinite DEF CountsTyped
  <2>2. \A u \in Tasks \ {t} : Owed(s, k)'[u] = Owed(s, k)[u]
    BY <1>1 DEF Owed
  <2>3. Owed(s, k)'[t] = Owed(s, k)[t] + (IF t \in s THEN 0 ELSE x)
    BY <1>1 DEF Owed
  <2>4. /\ Total(Owed(s, k)) \in Nat /\ Total(Owed(s, k))' \in Nat
        /\ Total(Owed(s, k))' + Owed(s, k)[t] = Total(Owed(s, k)) + Owed(s, k)'[t]
    BY <2>1, <2>2, TotalChanges
  <2> DEFINE v == Total(Owed(s, k))
             w == Total(Owed(s, k))'
             m == Owed(s, k)[t]
             n == Owed(s, k)'[t]
             z == IF t \in s THEN 0 ELSE x
  <2>5. v \in Nat /\ w \in Nat /\ m \in Nat /\ n = m + z /\ w + m = v + n /\ z \in Int
    BY <2>1, <2>3, <2>4
  <2> HIDE DEF v, w, m, n, z
  <2>6. w = v + z
    BY <2>5
  <2> QED BY <2>6 DEF v, w, z
<1>3. Total(OwedLater(k))' = Total(OwedLater(k)) + y
  <2>1. /\ OwedLater(k) \in [Tasks -> Nat] /\ OwedLater(k)' \in [Tasks -> Nat]
        /\ IsFiniteSet(Units(OwedLater(k)))
    BY CountTypes, CountTypesNext, CountsFinite DEF CountsTyped
  <2>2. \A u \in Tasks : 
          OwedLater(k)'[u] = OwedLater(k)[u] + (IF u = t THEN y ELSE 0)
    BY DEF OwedLater
  <2>3. \A u \in Tasks \ {t} : OwedLater(k)'[u] = OwedLater(k)[u]
    BY <2>1, <2>2
  <2>4. /\ Total(OwedLater(k)) \in Nat /\ Total(OwedLater(k))' \in Nat
        /\ Total(OwedLater(k))' + OwedLater(k)[t] = Total(OwedLater(k)) + OwedLater(k)'[t]
    BY <2>1, <2>3, TotalChanges
  <2> DEFINE v == Total(OwedLater(k))
             w == Total(OwedLater(k))'
             m == OwedLater(k)[t]
             n == OwedLater(k)'[t]
  <2>5. v \in Nat /\ w \in Nat /\ m \in Nat /\ n = m + y /\ w + m = v + n
    BY <2>1, <2>2, <2>4
  <2> HIDE DEF v, w, m, n
  <2>6. w = v + y
    BY <2>5
  <2> QED BY <2>6 DEF v, w
<1> QED BY <1>2, <1>3

\* one activity takes the place of another
LEMMA LoadsMove == 
  ASSUME ObjectInv, ObjectInv', HistoryTypes, HistoryTypes', 
         NEW s, NEW k \in Keys, NEW a \in Activities, NEW c \in Activities, 
         a \in acts, a \notin acts', c \notin acts, c \in acts',
         \A b \in (acts \cup acts') \ {a, c} : 
           Load(b, s, k) # 0 => b \in acts /\ b \in acts',
         IsFiniteSet(Units(Loaded(s, k)))
  PROVE  /\ IsFiniteSet(Units(Loaded(s, k)))'
         /\ Total(Loaded(s, k)) \in Nat /\ Total(Loaded(s, k))' \in Nat
         /\ Load(a, s, k) \in Nat /\ Load(c, s, k) \in Nat
         /\ Total(Loaded(s, k))' + Load(a, s, k) = Total(Loaded(s, k)) + Load(c, s, k)
<1>1. /\ Loaded(s, k) \in [Activities -> Nat]
      /\ Loaded(s, k)' \in [Activities -> Nat]
  BY CountTypes, CountTypesNext DEF CountsTyped
<1>2. \A b \in Activities \ {a, c} : Loaded(s, k)'[b] = Loaded(s, k)[b]
  BY DEF Loaded, Load
<1>3. /\ Loaded(s, k)[a] = Load(a, s, k) /\ Loaded(s, k)'[a] = 0
      /\ Loaded(s, k)[c] = 0 /\ Loaded(s, k)'[c] = Load(c, s, k)
  BY DEF Loaded, Load
<1>4. /\ IsFiniteSet(Units(Loaded(s, k)))'
      /\ Total(Loaded(s, k)) \in Nat /\ Total(Loaded(s, k))' \in Nat
      /\ Total(Loaded(s, k))' + Loaded(s, k)[a] + Loaded(s, k)[c]
           = Total(Loaded(s, k)) + Loaded(s, k)'[a] + Loaded(s, k)'[c]
  BY <1>1, <1>2, TotalMoves
<1>5. Load(a, s, k) \in Nat /\ Load(c, s, k) \in Nat
  BY <1>1, <1>3
<1> QED BY <1>3, <1>4, <1>5

LEMMA RunAgainCount == 
  ASSUME ObjectInv, ObjectInv', HistoryTypes, HistoryTypes', IsFiniteSet(Tasks), 
         CountInv, FreshInv, UNCHANGED <<kind, program>>, NEW a \in acts, RunAgain(a)
  PROVE  CountInv'
<1>1. PICK b : b = [a EXCEPT !.work.again = FALSE]
  OBVIOUS
<1>2. /\ acts' = (acts \ {a}) \cup {b}
      /\ UNCHANGED <<mem, buffers, promised, pending, dropped>>
  BY <1>1 DEF RunAgain, Running, memory, NoHistory, history
<1>3. a \in Activities /\ b \in Activities
  BY <1>2 DEF ObjectInv, TaskTypes
<1>4. a.work \in [op : {"insert", "keep", "erase", "apply"}, key : Keys, 
                  again : BOOLEAN]
  BY <1>3 DEF RunAgain, IsWork, Activities, Works
<1>5. /\ b.work.op = a.work.op /\ b.work.key = a.work.key /\ b.number = a.number
      /\ b.task = a.task /\ a # b
  BY <1>1, <1>3, <1>4 DEF Activities, RunAgain
<1>6. SameLoads /\ SameFlushes
  BY <1>2, <1>4, <1>5 DEF SameLoads, SameFlushes
<1>7. ASSUME NEW k \in Keys, kind = "multimap", NEW s, Counts(s, k)
      PROVE  Shifted(s, k, 0, 0, 0, 0, 0)
  <2>1. CASE a.work.op # "insert"
    <3>1. SameInserts
      BY <1>2, <1>5, <2>1 DEF SameInserts
    <3> QED BY <1>2, <1>6, <1>7, <3>1, SameCounts
  <2>2. CASE a.work.op = "insert"
    <3>1. b \notin acts
      BY <1>5, <1>7, <2>2 DEF FreshInv, Distinct
    <3>2. /\ Inserting(s, k) \in [Activities -> Nat]
          /\ Inserting(s, k)' \in [Activities -> Nat]
      BY CountTypes, CountTypesNext DEF CountsTyped
    <3>3. \A c \in Activities \ {a, b} : Inserting(s, k)'[c] = Inserting(s, k)[c]
      BY <1>2 DEF Inserting
    <3>4. /\ Inserting(s, k)[b] = 0 /\ Inserting(s, k)'[a] = 0
          /\ Inserting(s, k)'[b] = Inserting(s, k)[a]
      BY <1>2, <1>3, <1>5, <3>1 DEF Inserting, IsInsertOf
    <3>5. /\ IsFiniteSet(Units(Inserting(s, k)))'
          /\ Total(Inserting(s, k)) \in Nat /\ Total(Inserting(s, k))' \in Nat
          /\ Total(Inserting(s, k))' + Inserting(s, k)[a] + Inserting(s, k)[b] 
               = Total(Inserting(s, k)) + Inserting(s, k)'[a] + Inserting(s, k)'[b]
      BY <1>3, <1>5, <1>7, <3>2, <3>3, TotalMoves DEF Counts
    <3>6. Inserting(s, k)[a] \in Nat
      BY <1>3, <3>2
    <3>7. Total(Inserting(s, k))' = Total(Inserting(s, k)) + 0
      BY <3>4, <3>5, <3>6
    <3>8. /\ Units(Loaded(s, k))' = Units(Loaded(s, k))
          /\ Total(Loaded(s, k))' = Total(Loaded(s, k))
          /\ Total(Stored(s, k))' = Total(Stored(s, k))
          /\ Total(Owed(s, k))' = Total(Owed(s, k))
          /\ Total(OwedLater(k))' = Total(OwedLater(k))
      BY <1>2, <1>6, LoadsStay, StoreStays, OwedStays, OwedLaterStays
    <3>9. \A n \in Nat : n = n + 0
      OBVIOUS
    <3> QED BY <1>7, <3>5, <3>7, <3>8, <3>9, CountsFinite DEF Shifted, Counts
  <2> QED BY <2>1, <2>2
<1>8. \A k \in Keys : Added(k, 0, 0)
  BY <1>2, TargetType DEF ObjectInv, MemoryInv, HistoryTypes, Added
<1>9. 0 \in Int /\ 0 <= 0 /\ 0 + 0 + 0 <= 0 + 0 /\ 0 + 0 + 0 + 0 = 0 + 0 + 0
  OBVIOUS
<1>10. \A k \in Keys : \A s : kind = "multimap" /\ Counts(s, k) => Evenly(s, k)
  BY <1>7, <1>8, <1>9 DEF Evenly
<1> QED BY <1>2, <1>10, StepCounts

LEMMA RunWorkCount == 
  ASSUME ObjectInv, ObjectInv', HistoryTypes, HistoryTypes', IsFiniteSet(Tasks), 
         CountInv, UNCHANGED <<kind, program>>, NEW a \in acts, RunWork(a),
         a.work.op = "insert"
  PROVE  CountInv'
<1>1. /\ a \in Activities /\ a.work.key \in Keys /\ a.at \in Localities
  BY DEF ObjectInv, TaskTypes, Activities, Works
<1>2. /\ acts' = acts \ {a} /\ UNCHANGED <<buffers, promised, pending, dropped>>
      /\ Put(a.at, a.work.key, Change("insert", mem[a.at][a.work.key]))
  BY DEF RunWork, Running, NoHistory, history
<1>3. SameLoads /\ SameFlushes
  BY <1>2 DEF SameLoads, SameFlushes
<1>4. ASSUME NEW k \in Keys, kind = "multimap", NEW s, Counts(s, k), NEW x \in Int,
             x = IF k = a.work.key /\ a.task \notin s THEN 1 ELSE 0
      PROVE  Shifted(s, k, -x, 0, 0, 0, 0)
  <2>1. \A n \in Nat : n = n + 0
    OBVIOUS
  <2>2. /\ IsFiniteSet(Units(Inserting(s, k)))'
        /\ Total(Inserting(s, k)) \in Nat /\ Total(Inserting(s, k))' \in Nat
        /\ IsInsertOf(a, k) /\ a.task \notin s =>
             Total(Inserting(s, k))' + (IF a \in acts THEN 1 ELSE 0)
               = Total(Inserting(s, k)) + (IF a \in acts' THEN 1 ELSE 0)
        /\ ~ (IsInsertOf(a, k) /\ a.task \notin s) =>
             Total(Inserting(s, k))' = Total(Inserting(s, k))
    BY <1>1, <1>2, <1>4, InsertsChange DEF Counts
  <2>3. IsInsertOf(a, k) <=> k = a.work.key
    BY DEF IsInsertOf
  <2>4. Total(Inserting(s, k))' = Total(Inserting(s, k)) + (-x)
    <3>1. CASE k = a.work.key /\ a.task \notin s
      BY <1>2, <1>4, <2>2, <2>3, <3>1
    <3>2. CASE ~ (k = a.work.key /\ a.task \notin s)
      BY <1>2, <1>4, <2>2, <2>3, <3>2
    <3> QED BY <3>1, <3>2
  <2>5. /\ Units(Loaded(s, k))' = Units(Loaded(s, k))
        /\ Total(Loaded(s, k))' = Total(Loaded(s, k))
        /\ Total(Stored(s, k))' = Total(Stored(s, k))
        /\ Total(Owed(s, k))' = Total(Owed(s, k))
        /\ Total(OwedLater(k))' = Total(OwedLater(k))
    BY <1>2, <1>3, LoadsStay, StoreStays, OwedStays, OwedLaterStays
  <2> QED BY <1>4, <2>1, <2>2, <2>4, <2>5, CountsFinite DEF Shifted, Counts
<1>5. ASSUME NEW k \in Keys, kind = "multimap", NEW x \in Int, 
             x = IF k = a.work.key THEN 1 ELSE 0
      PROVE  Added(k, x, 0)
  <2>1. a.at = TargetLocality(a.work.key)
    BY <1>5 DEF ObjectInv, MemoryInv, Placed, RunWork
  <2>2. /\ Len(mem[TargetLocality(k)][k]) \in Nat
        /\ Len(mem'[TargetLocality(k)][k]) = IF k = a.work.key
             THEN Len(mem[TargetLocality(k)][k]) + 1 
             ELSE Len(mem[TargetLocality(k)][k])
    BY <1>1, <1>2, <1>5, <2>1, PutAdds
  <2>3. Len(mem'[TargetLocality(k)][k]) = Len(mem[TargetLocality(k)][k]) + x
    <3>1. CASE k = a.work.key
      BY <1>5, <2>2, <3>1
    <3>2. CASE k # a.work.key
      BY <1>5, <2>2, <3>2
    <3> QED BY <3>1, <3>2
  <2>4. promised'[k] = promised[k] + 0
    BY <1>2 DEF HistoryTypes
  <2> QED BY <2>3, <2>4 DEF Added
<1>6. ASSUME kind = "multimap", NEW k \in Keys, NEW s, Counts(s, k)
      PROVE  Evenly(s, k)
  <2>1. PICK x \in Int : x = IF k = a.work.key /\ a.task \notin s THEN 1 ELSE 0
    OBVIOUS
  <2>2. Shifted(s, k, -x, 0, 0, 0, 0) /\ (s = {} => Added(k, x, 0))
    BY <1>4, <1>5, <1>6, <2>1
  <2>3. /\ -x \in Int /\ -x <= 0 /\ -x + 0 + 0 <= 0 + 0 /\ 0 \in Int
        /\ x + (-x) + 0 + 0 = 0 + 0 + 0
    BY <2>1
  <2> QED BY <2>2, <2>3 DEF Evenly
<1> QED BY <1>2, <1>6, StepCounts

\* the sums when only deliveries are under way
LEMMA DeliveryShift == 
  ASSUME ObjectInv, HistoryTypes, IsFiniteSet(Tasks), SameInserts, 
         UNCHANGED pending, NEW s, NEW k \in Keys, Counts(s, k), 
         NEW d \in Int, NEW b \in Int, IsFiniteSet(Units(Loaded(s, k)))',
         Total(Loaded(s, k))' = Total(Loaded(s, k)) + d,
         Total(Stored(s, k))' = Total(Stored(s, k)) + b
  PROVE  Shifted(s, k, 0, d, b, 0, 0)
<1>1. /\ Units(Inserting(s, k))' = Units(Inserting(s, k))
      /\ Total(Inserting(s, k))' = Total(Inserting(s, k))
      /\ Total(Owed(s, k))' = Total(Owed(s, k))
      /\ Total(OwedLater(k))' = Total(OwedLater(k))
  BY InsertsStay, OwedStays, OwedLaterStays
<1>2. \A n \in Nat : n = n + 0
  OBVIOUS
<1> QED BY <1>1, <1>2, CountsFinite DEF Shifted, Counts

LEMMA RunDeliverCount == 
  ASSUME ObjectInv, ObjectInv', HistoryTypes, HistoryTypes', IsFiniteSet(Tasks), 
         CountInv, UNCHANGED <<kind, program>>, NEW a \in acts, RunDeliver(a)
  PROVE  CountInv'
<1>1. /\ a \in Activities /\ a.work.keys \in Seq(Keys) /\ a.at \in Localities
      /\ a.work.op = "deliver" /\ a.work.keys \in Seq(KeysOf(a.at))
  BY DEF ObjectInv, TaskTypes, Activities, Works, RunDeliver, MemoryInv, Placed
<1>2. /\ acts' = acts \ {a} /\ UNCHANGED <<buffers, promised, pending, dropped>>
      /\ Deliver(a.at, a.work.keys)
  BY DEF RunDeliver, Running, NoHistory, history
<1>3. SameInserts /\ SameFlushes
  BY <1>1, <1>2 DEF SameInserts, SameFlushes
<1>4. ASSUME NEW k \in Keys, kind = "multimap", NEW s, Counts(s, k)
      PROVE  Load(a, s, k) \in Nat /\ Shifted(s, k, 0, -Load(a, s, k), 0, 0, 0)
  <2>1. /\ IsFiniteSet(Units(Loaded(s, k)))'
        /\ Total(Loaded(s, k)) \in Nat /\ Total(Loaded(s, k))' \in Nat
        /\ Load(a, s, k) \in Nat
        /\ Total(Loaded(s, k))' + Load(a, s, k) = Total(Loaded(s, k)) + 0
    BY <1>1, <1>2, <1>4, LoadsChange DEF Counts
  <2>2. Total(Loaded(s, k))' = Total(Loaded(s, k)) + (-Load(a, s, k))
    BY <2>1
  <2>3. Total(Stored(s, k))' = Total(Stored(s, k)) + 0
    BY <1>2, <1>3, StoreStays, CountsFinite
  <2>4. -Load(a, s, k) \in Int /\ 0 \in Int
    BY <2>1
  <2> QED BY <1>2, <1>3, <1>4, <2>1, <2>2, <2>3, <2>4, DeliveryShift
<1>5. ASSUME NEW k \in Keys, kind = "multimap"
      PROVE  Added(k, Load(a, {}, k), 0)
  <2>1. Load(a, {}, k) = Occurs(k, a.work.keys)
    BY <1>1 DEF Load
  <2>2. /\ Occurs(k, a.work.keys) \in Nat
        /\ Len(mem'[TargetLocality(k)][k]) 
              = Len(mem[TargetLocality(k)][k]) + Occurs(k, a.work.keys)
    BY <1>1, <1>2, <1>5, DeliverAdds
  <2>3. promised'[k] = promised[k] + 0
    BY <1>2 DEF HistoryTypes
  <2> QED BY <2>1, <2>2, <2>3 DEF Added
<1>6. \A x \in Nat : /\ -x \in Int /\ 0 \in Int /\ 0 <= 0 /\ 0 + (-x) + 0 <= 0 + 0
                     /\ x \in Int /\ x + 0 + (-x) + 0 = 0 + 0 + 0
  OBVIOUS
<1>7. ASSUME kind = "multimap", NEW k \in Keys, NEW s, Counts(s, k) 
      PROVE  Evenly(s, k)
  <2>1. PICK x \in Nat : x = Load(a, s, k) /\ Shifted(s, k, 0, -x, 0, 0, 0)
    BY <1>4, <1>7
  <2>2. s = {} => Added(k, x, 0)
    BY <1>5, <1>7, <2>1
  <2> QED BY <1>6, <2>1, <2>2 DEF Evenly
<1> QED BY <1>2, <1>7, StepCounts

LEMMA FlushCount == 
  ASSUME ObjectInv, ObjectInv', HistoryTypes, IsFiniteSet(Tasks), 
         CountInv, UNCHANGED <<kind, program>>, NEW t \in Tasks, FlushAllBuffers(t)
  PROVE  CountInv'
<1>1. /\ UNCHANGED <<mem, buffers, promised, pending, dropped>> /\ acts \subseteq acts'
      /\ \A a \in acts' \ acts : a.work.op = "flush"
  BY FlushIs DEF history
<1>2. SameInserts /\ SameLoads /\ SameFlushes
  BY <1>1 DEF SameInserts, SameLoads, SameFlushes
<1>3. \A k \in Keys : Added(k, 0, 0)
  BY <1>1, TargetType DEF ObjectInv, MemoryInv, HistoryTypes, Added
<1>4. \A k \in Keys : \A s \in SUBSET Tasks : Counts(s, k) => 
        Shifted(s, k, 0, 0, 0, 0, 0)
  BY <1>1, <1>2, SameCounts
<1>5. 0 \in Int /\ 0 <= 0 /\ 0 + 0 + 0 <= 0 + 0 /\ 0 + 0 + 0 + 0 = 0 + 0 + 0
  OBVIOUS
<1>6. \A k \in Keys : \A s \in SUBSET Tasks : Counts(s, k) => Evenly(s, k)
  BY <1>3, <1>4, <1>5 DEF Evenly
<1> QED BY <1>1, <1>6, StepCounts

\* what an insertion into a buffer adds there, or takes away with what is there
Filled(h, j, s, k, e, y) == 
  /\ Occurs(k, InBuffer(h, j)) = y + e
  /\ Total(Stored(s, k))' 
       = Total(Stored(s, k)) + (IF IsFull(h, j) THEN -y ELSE e)

LEMMA FillCounts == 
  ASSUME ObjectInv, ObjectInv', HistoryTypes, HistoryTypes', IsFiniteSet(Tasks), 
         NEW h \in Localities, NEW j \in Keys, Fill(h, j), 
         \A a \in acts \cup acts' : a.work.op # "asyncflush",
         NEW s, NEW k \in Keys, NEW e \in Int, e = IF k = j THEN 1 ELSE 0
  PROVE  \E y \in Nat : Filled(h, j, s, k, e, y)
<1>1. /\ TargetLocality(j) \in Localities /\ TargetLocality(k) \in Localities
      /\ buffers[h][TargetLocality(j)] \in Seq(Keys)
      /\ buffers[h][TargetLocality(j)] \in Seq(KeysOf(TargetLocality(j)))
  BY TargetType DEF ObjectInv, MemoryInv
<1>2. PICK y : y = Occurs(k, buffers[h][TargetLocality(j)])
  OBVIOUS
<1>3. /\ y \in Nat /\ Occurs(k, <<>>) = 0 
      /\ Occurs(k, Append(buffers[h][TargetLocality(j)], j)) = y + e
      /\ TargetLocality(j) # TargetLocality(k) => y = 0 /\ e = 0
  <2>1. /\ y \in Nat /\ Occurs(k, <<>>) = 0 
        /\ Occurs(k, Append(buffers[h][TargetLocality(j)], j)) = 
              IF j = k THEN y + 1 ELSE y
        /\ TargetLocality(j) # TargetLocality(k) => y = 0
    BY <1>1, <1>2, OccursIs
  <2>2. TargetLocality(j) # TargetLocality(k) => k # j
    OBVIOUS
  <2> QED BY <2>1, <2>2
<1>4. /\ InBuffer(h, j) = Append(buffers[h][TargetLocality(j)], j)
      /\ \A g, i \in Localities : 
           buffers'[g][i] = IF g = h /\ i = TargetLocality(j)
             THEN IF IsFull(h, j) THEN <<>> ELSE InBuffer(h, j)
             ELSE buffers[g][i]
  BY FillIs
<1>5. \A i \in Localities : 
        /\ Stored(s, k)[i] = Occurs(k, buffers[i][TargetLocality(k)])
        /\ Stored(s, k)'[i] = Occurs(k, buffers'[i][TargetLocality(k)])
  BY DEF Stored, IsFlushOf
<1>6. CASE TargetLocality(k) # TargetLocality(j)
  <2>1. SameFlushes
    BY DEF SameFlushes
  <2>2. Total(Stored(s, k))' = Total(Stored(s, k))
    BY <1>1, <1>4, <1>6, <2>1, StoreStays
  <2>3. Total(Stored(s, k)) \in Nat
    BY CountsFinite
  <2>4. Filled(h, j, s, k, e, y)
    <3>1. y = 0 /\ e = 0 /\ Occurs(k, InBuffer(h, j)) = y + e
      BY <1>3, <1>4, <1>6
    <3>2. Total(Stored(s, k))' 
            = Total(Stored(s, k)) + (IF IsFull(h, j) THEN -y ELSE e)
      BY <2>2, <2>3, <3>1
    <3> QED BY <3>1, <3>2 DEF Filled
  <2> QED BY <1>3, <2>4
<1>7. CASE TargetLocality(k) = TargetLocality(j)
  <2>1. \A g \in Localities \ {h} : Stored(s, k)'[g] = Stored(s, k)[g]
    BY <1>1, <1>4, <1>5
  <2>2. /\ Stored(s, k)[h] = y
        /\ Stored(s, k)'[h] = IF IsFull(h, j) THEN 0 ELSE y + e
    BY <1>1, <1>2, <1>3, <1>4, <1>5, <1>7
  <2>3. /\ Total(Stored(s, k)) \in Nat /\ Total(Stored(s, k))' \in Nat
        /\ Total(Stored(s, k))' + Stored(s, k)[h] 
             = Total(Stored(s, k)) + Stored(s, k)'[h]
    BY <2>1, StoreChanges
  <2>4. Total(Stored(s, k))' 
          = Total(Stored(s, k)) + (IF IsFull(h, j) THEN -y ELSE e)
    <3>1. CASE IsFull(h, j)
      BY <1>3, <2>2, <2>3, <3>1
    <3>2. CASE ~ IsFull(h, j)
      BY <1>3, <2>2, <2>3, <3>2
    <3> QED BY <3>1, <3>2
  <2>5. Filled(h, j, s, k, e, y)
    BY <1>3, <1>4, <2>4 DEF Filled
  <2> QED BY <1>3, <2>5
<1> QED BY <1>6, <1>7

\* a full buffer has keys of one locality
LEMMA FullIs == 
  ASSUME ObjectInv, NEW h \in Localities, NEW j \in Keys
  PROVE  /\ InBuffer(h, j) \in Seq(Keys)
         /\ InBuffer(h, j) \in Seq(KeysOf(TargetLocality(j)))
BY TargetType DEF ObjectInv, MemoryInv, InBuffer, KeysOf

LEMMA InsertBufferedCount == 
  ASSUME ObjectInv, ObjectInv', HistoryTypes, IsFiniteSet(Tasks), CountInv, 
         UNCHANGED <<kind, program>>, NEW t \in Tasks, NEW name, NEW j \in Keys, 
         InsertBuffered(t, name, j)
  PROVE  CountInv'
<1>1. /\ Later(t, "buffered", j) /\ Fill(Home[t], j) /\ acts' = acts
      /\ IF IsFull(Home[t], j) 
           THEN Deliver(TargetLocality(j), InBuffer(Home[t], j)) ELSE mem' = mem
      /\ \A a \in acts : a.work.op # "asyncflush"
      /\ Home[t] \in Localities
  BY InsertBufferedIs, CallsAssumption
<1>2. /\ HistoryTypes' /\ UNCHANGED <<promised, dropped>>
      /\ \A u \in Tasks, k \in Keys : 
           /\ UNCHANGED <<pending[u].async, pending[u].both>>
           /\ pending'[u].buffered[k] = IF u = t /\ k = j 
                THEN pending[u].buffered[k] + 1 ELSE pending[u].buffered[k]
  BY <1>1, LaterIs
<1>3. ASSUME NEW k \in Keys, kind = "multimap", NEW s, Counts(s, k), NEW e \in Nat,
             e = IF k = j THEN 1 ELSE 0
      PROVE  \E y \in Nat : 
               /\ Shifted(s, k, 0, 0, IF IsFull(Home[t], j) THEN -y ELSE e, 0, e)
               /\ Added(k, IF IsFull(Home[t], j) THEN y + e ELSE 0, 0)
  <2>1. PICK y \in Nat : 
           /\ Occurs(k, InBuffer(Home[t], j)) = y + e
           /\ Total(Stored(s, k))' 
                = Total(Stored(s, k)) + (IF IsFull(Home[t], j) THEN -y ELSE e)
    <3>1. e \in Int /\ Home[t] \in Localities
      BY <1>1, <1>3
    <3>2. PICK y \in Nat : Filled(Home[t], j, s, k, e, y)
      BY <1>1, <1>2, <1>3, <3>1, FillCounts
    <3> QED BY <3>2 DEF Filled
  <2>2. /\ Total(Owed(s, k))' = Total(Owed(s, k))
        /\ Total(OwedLater(k))' = Total(OwedLater(k)) + e
    <3>1. \A u \in Tasks : 
            pending'[u].both[k] + pending'[u].buffered[k] 
              = pending[u].both[k] + pending[u].buffered[k] + (IF u = t THEN e ELSE 0)
      BY <1>2, <1>3 DEF HistoryTypes
    <3> QED BY <1>2, <3>1, OwedLaterMore
  <2>3. /\ Units(Inserting(s, k))' = Units(Inserting(s, k))
        /\ Total(Inserting(s, k))' = Total(Inserting(s, k))
        /\ Units(Loaded(s, k))' = Units(Loaded(s, k))
        /\ Total(Loaded(s, k))' = Total(Loaded(s, k))
    BY <1>1, InsertsStay, LoadsStay DEF SameInserts, SameLoads
  <2>4. \A n \in Nat : n = n + 0
    OBVIOUS
  <2>5. (IF IsFull(Home[t], j) THEN -y ELSE e) \in Int /\ 0 \in Int /\ e \in Int
    OBVIOUS
  <2>6. Shifted(s, k, 0, 0, IF IsFull(Home[t], j) THEN -y ELSE e, 0, e)
    BY <1>3, <2>1, <2>2, <2>3, <2>4, <2>5, CountsFinite DEF Counts, Shifted
  <2>7. /\ Len(mem[TargetLocality(k)][k]) \in Nat
        /\ IsFull(Home[t], j) => 
             Len(mem'[TargetLocality(k)][k]) = Len(mem[TargetLocality(k)][k]) + (y + e)
    <3>1. /\ InBuffer(Home[t], j) \in Seq(Keys)
          /\ InBuffer(Home[t], j) \in Seq(KeysOf(TargetLocality(j)))
          /\ TargetLocality(j) \in Localities /\ TargetLocality(k) \in Localities
      BY <1>1, FullIs, TargetType
    <3>2. IsFull(Home[t], j) => 
             Len(mem'[TargetLocality(k)][k]) 
               = Len(mem[TargetLocality(k)][k]) + Occurs(k, InBuffer(Home[t], j))
      BY <1>1, <1>3, <3>1, DeliverAdds
    <3>3. Len(mem[TargetLocality(k)][k]) \in Nat
      BY <3>1 DEF ObjectInv, MemoryInv
    <3> QED BY <2>1, <3>2, <3>3
  <2>8. Added(k, IF IsFull(Home[t], j) THEN y + e ELSE 0, 0)
    <3>1. promised'[k] = promised[k] + 0
      BY <1>2 DEF HistoryTypes
    <3>2. ~ IsFull(Home[t], j) => 
            Len(mem'[TargetLocality(k)][k]) = Len(mem[TargetLocality(k)][k]) + 0
      BY <1>1, <2>7
    <3>3. ASSUME NEW m \in Int, 
                 Len(mem'[TargetLocality(k)][k]) = Len(mem[TargetLocality(k)][k]) + m
          PROVE  Added(k, m, 0)
      BY <3>1, <3>3 DEF Added
    <3>4. CASE IsFull(Home[t], j)
      <4>1. y + e \in Int
        OBVIOUS
      <4>2. Added(k, y + e, 0)
        BY <2>7, <3>3, <3>4, <4>1
      <4> QED BY <3>4, <4>2
    <3>5. CASE ~ IsFull(Home[t], j)
      <4>1. Added(k, 0, 0)
        BY <3>2, <3>3, <3>5
      <4> QED BY <3>5, <4>1
    <3> QED BY <3>4, <3>5
  <2> QED BY <2>6, <2>8
<1>4. \A y, e \in Nat : \A full \in BOOLEAN : 
        LET b == IF full THEN -y ELSE e
            l == IF full THEN y + e ELSE 0 
        IN  /\ b \in Int /\ l \in Int /\ e \in Int /\ 0 \in Int /\ 0 <= 0
            /\ 0 + 0 + b <= 0 + e /\ l + 0 + 0 + b = 0 + 0 + e
  OBVIOUS
<1>5. IsFull(Home[t], j) \in BOOLEAN
  BY DEF IsFull
<1>6. ASSUME kind = "multimap", NEW k \in Keys, NEW s, Counts(s, k) 
      PROVE  Evenly(s, k)
  <2>1. PICK e \in Nat : e = IF k = j THEN 1 ELSE 0
    OBVIOUS
  <2>2. PICK y \in Nat : 
          /\ Shifted(s, k, 0, 0, IF IsFull(Home[t], j) THEN -y ELSE e, 0, e)
          /\ Added(k, IF IsFull(Home[t], j) THEN y + e ELSE 0, 0)
    BY <1>3, <1>6, <2>1
  <2> QED BY <1>4, <1>5, <2>2 DEF Evenly
<1> QED BY <1>2, <1>6, StepCounts

LEMMA AsyncInsertBufferedCount == 
  ASSUME ObjectInv, ObjectInv', HistoryTypes, IsFiniteSet(Tasks), CountInv, FreshInv,
         UNCHANGED <<kind, program>>, NEW t \in Tasks, NEW name, NEW j \in Keys, 
         AsyncInsertBuffered(t, name, j)
  PROVE  CountInv'
<1>1. PICK c : c = Activity(t, TRUE, TargetLocality(j), 
                     Delivery(Home[t], InBuffer(Home[t], j)))
  OBVIOUS
<1>2. /\ Later(t, "both", j) /\ Fill(Home[t], j) /\ mem' = mem
      /\ acts' = IF IsFull(Home[t], j) THEN acts \cup {c} ELSE acts
      /\ \A a \in acts : a.work.op # "asyncflush"
      /\ Home[t] \in Localities /\ calls' = calls + 1
  BY <1>1, InsertBufferedIs, CallsAssumption
<1>3. /\ c.work.op = "deliver" /\ c.number = calls /\ c.task = t
      /\ c.work.keys = InBuffer(Home[t], j)
  BY <1>1 DEF Activity, Delivery
<1>4. /\ HistoryTypes' /\ UNCHANGED <<promised, dropped>>
      /\ \A u \in Tasks, k \in Keys : 
           /\ UNCHANGED <<pending[u].async, pending[u].buffered>>
           /\ pending'[u].both[k] = IF u = t /\ k = j 
                THEN pending[u].both[k] + 1 ELSE pending[u].both[k]
  BY <1>2, LaterIs
<1>5. ASSUME NEW k \in Keys, kind = "multimap", NEW s, Counts(s, k), NEW e \in Nat,
             e = IF k = j THEN 1 ELSE 0
      PROVE  \E y \in Nat : 
               Shifted(s, k, 0, 
                 IF IsFull(Home[t], j) /\ t \notin s THEN y + e ELSE 0, 
                 IF IsFull(Home[t], j) THEN -y ELSE e, 0, e)
  <2>0. \A a \in acts \cup acts' : a.work.op # "asyncflush"
    BY <1>2, <1>3
  <2>1. PICK y \in Nat : 
           /\ Occurs(k, InBuffer(Home[t], j)) = y + e
           /\ Total(Stored(s, k))' 
                = Total(Stored(s, k)) + (IF IsFull(Home[t], j) THEN -y ELSE e)
    <3>1. e \in Int /\ Home[t] \in Localities
      BY <1>2, <1>5
    <3>2. PICK y \in Nat : Filled(Home[t], j, s, k, e, y)
      BY <1>2, <1>4, <1>5, <2>0, <3>1, FillCounts
    <3> QED BY <3>2 DEF Filled
  <2>2. /\ Total(Owed(s, k))' = Total(Owed(s, k))
        /\ Total(OwedLater(k))' = Total(OwedLater(k)) + e
    <3>1. \A u \in Tasks : 
            pending'[u].both[k] + pending'[u].buffered[k] 
              = pending[u].both[k] + pending[u].buffered[k] + (IF u = t THEN e ELSE 0)
      BY <1>4, <1>5 DEF HistoryTypes
    <3> QED BY <1>4, <3>1, OwedLaterMore
  <2>3. /\ Units(Inserting(s, k))' = Units(Inserting(s, k))
        /\ Total(Inserting(s, k))' = Total(Inserting(s, k))
    BY <1>2, <1>3, InsertsStay DEF SameInserts
  <2>4. /\ IsFiniteSet(Units(Loaded(s, k)))'
        /\ Total(Loaded(s, k)) \in Nat
        /\ Total(Loaded(s, k))' = Total(Loaded(s, k)) 
             + (IF IsFull(Home[t], j) /\ t \notin s THEN y + e ELSE 0)
    <3>1. CASE IsFull(Home[t], j)
      <4>1. c \in acts' /\ c \in Activities
        BY <1>2, <3>1 DEF ObjectInv, TaskTypes
      <4>2. c \notin acts
        <5>1. Len(InBuffer(Home[t], j)) = BufferSize
          BY <3>1 DEF IsFull
        <5> QED BY <1>3, <1>5, <5>1 DEF FreshInv, Numbered, ObjectInv, TaskTypes
      <4>3. /\ IsFiniteSet(Units(Loaded(s, k)))'
            /\ Total(Loaded(s, k)) \in Nat /\ Total(Loaded(s, k))' \in Nat
            /\ Load(c, s, k) \in Nat
            /\ Total(Loaded(s, k))' + 0 = Total(Loaded(s, k)) + Load(c, s, k)
        BY <1>2, <1>4, <1>5, <3>1, <4>1, <4>2, LoadsChange DEF Counts
      <4>4. Load(c, s, k) = IF t \notin s THEN y + e ELSE 0
        BY <1>3, <2>1 DEF Load
      <4> QED BY <3>1, <4>3, <4>4
    <3>2. CASE ~ IsFull(Home[t], j)
      <4>1. /\ Units(Loaded(s, k))' = Units(Loaded(s, k))
            /\ Total(Loaded(s, k))' = Total(Loaded(s, k))
        BY <1>2, <3>2, LoadsStay DEF SameLoads
      <4>2. Total(Loaded(s, k)) \in Nat
        BY <1>5, CountsFinite DEF Counts
      <4> QED BY <1>5, <3>2, <4>1, <4>2 DEF Counts
    <3> QED BY <3>1, <3>2
  <2>5. \A n \in Nat : n = n + 0
    OBVIOUS
  <2>6. /\ (IF IsFull(Home[t], j) THEN -y ELSE e) \in Int /\ 0 \in Int /\ e \in Int
        /\ (IF IsFull(Home[t], j) /\ t \notin s THEN y + e ELSE 0) \in Int
    OBVIOUS
  <2>7. /\ Total(Inserting(s, k)) \in Nat /\ Total(Owed(s, k)) \in Nat
        /\ IsFiniteSet(Units(Inserting(s, k)))
    BY <1>5, CountsFinite DEF Counts
  <2>8. Shifted(s, k, 0, 
                 IF IsFull(Home[t], j) /\ t \notin s THEN y + e ELSE 0, 
                 IF IsFull(Home[t], j) THEN -y ELSE e, 0, e)
    BY <2>1, <2>2, <2>3, <2>4, <2>5, <2>6, <2>7 DEF Shifted
  <2> QED BY <2>8
<1>6. \A y, e \in Nat : \A full, all \in BOOLEAN : 
        LET b == IF full THEN -y ELSE e
            d == IF full /\ all THEN y + e ELSE 0 
        IN  /\ b \in Int /\ d \in Int /\ e \in Int /\ 0 \in Int /\ 0 <= 0
            /\ 0 + d + b <= 0 + e /\ all => 0 + 0 + d + b = 0 + 0 + e
  OBVIOUS
<1>7. IsFull(Home[t], j) \in BOOLEAN
  BY DEF IsFull
<1>8. \A k \in Keys : Added(k, 0, 0)
  BY <1>2, <1>4, TargetType DEF ObjectInv, MemoryInv, HistoryTypes, Added
<1>9. ASSUME kind = "multimap", NEW k \in Keys, NEW s, Counts(s, k) 
      PROVE  Evenly(s, k)
  <2>1. PICK e \in Nat : e = IF k = j THEN 1 ELSE 0
    OBVIOUS
  <2>2. PICK y \in Nat : 
               Shifted(s, k, 0, 
                 IF IsFull(Home[t], j) /\ t \notin s THEN y + e ELSE 0, 
                 IF IsFull(Home[t], j) THEN -y ELSE e, 0, e)
    BY <1>5, <1>9, <2>1
  <2>3. (t \notin s) \in BOOLEAN /\ (s = {} => t \notin s)
    OBVIOUS
  <2> QED BY <1>6, <1>7, <1>8, <2>2, <2>3 DEF Evenly
<1> QED BY <1>4, <1>9, StepCounts

LEMMA ReadFilesCount == 
  ASSUME ObjectInv, ObjectInv', HistoryTypes, IsFiniteSet(Tasks), CountInv, FreshInv,
         UNCHANGED <<kind, program>>, NEW t \in Tasks, ReadFiles(t)
  PROVE  CountInv'
<1> DEFINE f(k) == Activity(t, TRUE, 0, [op |-> "read", key |-> k])
<1>1. /\ acts' = acts \cup {f(k) : k \in Keys} /\ HistoryTypes'
      /\ UNCHANGED <<mem, buffers, promised, dropped>>
      /\ \A a \in acts : a.work.op # "asyncflush"
      /\ \A u \in Tasks, k \in Keys : 
           /\ UNCHANGED <<pending[u].async, pending[u].buffered>>
           /\ pending'[u].both[k] = 
                IF u = t THEN pending[u].both[k] + 1 ELSE pending[u].both[k]
  BY ReadFilesIs
<1>2. \A k : /\ f(k).work.op = "read" /\ f(k).work.key = k /\ f(k).number = calls 
  BY DEF Activity
<1> HIDE DEF f
<1>3. /\ \A k \in Keys : f(k) \in acts' /\ f(k) \in Activities
      /\ \A a \in acts' \ acts : \E k \in Keys : a = f(k)
  BY <1>1 DEF ObjectInv, TaskTypes
<1>4. SameInserts /\ SameFlushes
  BY <1>1, <1>2 DEF SameInserts, SameFlushes
<1>5. ASSUME NEW k \in Keys, kind = "multimap", NEW s, Counts(s, k)
      PROVE  Shifted(s, k, 0, 1, 0, 0, 1)
  <2>1. /\ Total(Owed(s, k))' = Total(Owed(s, k))
        /\ Total(OwedLater(k))' = Total(OwedLater(k)) + 1
    <3>1. \A u \in Tasks : 
            pending'[u].both[k] + pending'[u].buffered[k] 
              = pending[u].both[k] + pending[u].buffered[k] + (IF u = t THEN 1 ELSE 0)
      BY <1>1 DEF HistoryTypes
    <3>2. 1 \in Nat
      OBVIOUS
    <3> QED BY <1>1, <3>1, <3>2, OwedLaterMore
  <2>2. /\ Units(Inserting(s, k))' = Units(Inserting(s, k))
        /\ Total(Inserting(s, k))' = Total(Inserting(s, k))
        /\ Total(Stored(s, k))' = Total(Stored(s, k))
    BY <1>1, <1>4, InsertsStay, StoreStays
  <2>3. f(k) \notin acts
    BY <1>2, <1>5 DEF FreshInv, Numbered, ObjectInv, TaskTypes
  <2>4. \A a \in (acts \cup acts') \ {f(k)} : Load(a, s, k) # 0 
          => a \in acts /\ a \in acts'
    BY <1>1, <1>2, <1>3 DEF Load
  <2>5. /\ IsFiniteSet(Units(Loaded(s, k)))'
        /\ Total(Loaded(s, k)) \in Nat /\ Total(Loaded(s, k))' \in Nat
        /\ Load(f(k), s, k) \in Nat
        /\ Total(Loaded(s, k))' + 0 = Total(Loaded(s, k)) + Load(f(k), s, k)
    BY <1>1, <1>3, <1>5, <2>3, <2>4, LoadsChange DEF Counts
  <2>6. Load(f(k), s, k) = 1
    BY <1>2 DEF Load
  <2>7. \A n \in Nat : n = n + 0 /\ 0 \in Int /\ 1 \in Int
    OBVIOUS
  <2> QED BY <1>5, <2>1, <2>2, <2>5, <2>6, <2>7, CountsFinite DEF Counts, Shifted
<1>6. \A k \in Keys : Added(k, 0, 0)
  BY <1>1, TargetType DEF ObjectInv, MemoryInv, HistoryTypes, Added
<1>7. /\ 0 \in Int /\ 1 \in Int /\ 0 <= 0 /\ 0 + 1 + 0 <= 0 + 1 
      /\ 0 + 0 + 1 + 0 = 0 + 0 + 1
  OBVIOUS
<1>8. \A k \in Keys : \A s \in SUBSET Tasks : 
        kind = "multimap" /\ Counts(s, k) => Evenly(s, k)
  BY <1>5, <1>6, <1>7 DEF Evenly
<1> QED BY <1>1, <1>8, StepCounts

LEMMA ReadFileCount == 
  ASSUME ObjectInv, ObjectInv', HistoryTypes, HistoryTypes', IsFiniteSet(Tasks), 
         CountInv, FlushInv, FreshInv, UNCHANGED <<kind, program>>, 
         NEW a \in acts, ReadFile(a)
  PROVE  CountInv'
<1>1. /\ UNCHANGED <<mem, promised, pending, dropped>>
      /\ a.work.op = "read" /\ a.work.key \in Keys /\ a \in Activities
      /\ \A b \in acts : b.work.op # "asyncflush"
  BY ReadFileIs DEF history, ObjectInv, TaskTypes, FlushInv
<1>2. PICK h \in Localities : 
        /\ Fill(h, a.work.key)
        /\ IF IsFull(h, a.work.key)
             THEN acts' = (acts \ {a}) \cup 
                    {Successor(a, TargetLocality(a.work.key), 
                       Delivery(h, InBuffer(h, a.work.key)))}
             ELSE acts' = acts \ {a}
  BY ReadFileIs DEF Successor
<1>3. PICK c : c = Successor(a, TargetLocality(a.work.key), 
                     Delivery(h, InBuffer(h, a.work.key)))
  OBVIOUS
<1>4. /\ c.work.op = "deliver" /\ c.number = a.number /\ c.task = a.task
      /\ c.work.keys = InBuffer(h, a.work.key)
  BY <1>1, <1>3, SuccessorIs DEF Delivery
<1>5. acts' = IF IsFull(h, a.work.key) THEN (acts \ {a}) \cup {c} ELSE acts \ {a}
  BY <1>2, <1>3
<1>6. SameInserts /\ \A b \in acts \cup acts' : b.work.op # "asyncflush"
  BY <1>1, <1>4, <1>5 DEF SameInserts
<1>7. ASSUME NEW k \in Keys, kind = "multimap", NEW s, Counts(s, k), NEW e \in Nat,
             e = IF k = a.work.key THEN 1 ELSE 0
      PROVE  \E y \in Nat : 
               Shifted(s, k, 0, 
                 IF IsFull(h, a.work.key) /\ a.task \notin s THEN y ELSE -e, 
                 IF IsFull(h, a.work.key) THEN -y ELSE e, 0, 0)
  <2>1. PICK y \in Nat : 
           /\ Occurs(k, InBuffer(h, a.work.key)) = y + e
           /\ Total(Stored(s, k))' 
                = Total(Stored(s, k)) + (IF IsFull(h, a.work.key) THEN -y ELSE e)
    <3>1. e \in Int /\ h \in Localities /\ a.work.key \in Keys
      BY <1>1, <1>7
    <3>2. PICK y \in Nat : Filled(h, a.work.key, s, k, e, y)
      BY <1>1, <1>2, <1>6, <1>7, <3>1, FillCounts
    <3> QED BY <3>2 DEF Filled
  <2>2. Load(a, s, k) = e /\ Load(c, s, k) = IF a.task \notin s THEN y + e ELSE 0
    BY <1>1, <1>4, <1>7, <2>1 DEF Load
  <2>3. /\ IsFiniteSet(Units(Loaded(s, k)))'
        /\ Total(Loaded(s, k))' = Total(Loaded(s, k)) 
             + (IF IsFull(h, a.work.key) /\ a.task \notin s THEN y ELSE -e)
    <3>1. CASE IsFull(h, a.work.key)
      <4>1. c \in acts' /\ c \in Activities /\ a \notin acts'
        BY <1>1, <1>4, <1>5, <3>1 DEF ObjectInv, TaskTypes
      <4>2. c \notin acts
        <5>1. ShortBuffers
          BY <1>7 DEF FreshInv
        <5>2. /\ Len(InBuffer(h, a.work.key)) = BufferSize
              /\ InBuffer(h, a.work.key)[BufferSize] = a.work.key
          BY <1>1, <1>2, <3>1, <5>1, FillShort
        <5> QED BY <1>1, <1>4, <1>7, <5>2 DEF FreshInv, Distinct
      <4>3. /\ IsFiniteSet(Units(Loaded(s, k)))'
            /\ Total(Loaded(s, k)) \in Nat /\ Total(Loaded(s, k))' \in Nat
            /\ Total(Loaded(s, k))' + Load(a, s, k) 
                 = Total(Loaded(s, k)) + Load(c, s, k)
        BY <1>1, <1>5, <1>7, <3>1, <4>1, <4>2, LoadsMove DEF Counts
      <4> QED BY <3>1, <2>2, <4>3
    <3>2. CASE ~ IsFull(h, a.work.key)
      <4>1. /\ IsFiniteSet(Units(Loaded(s, k)))'
            /\ Total(Loaded(s, k)) \in Nat /\ Total(Loaded(s, k))' \in Nat
            /\ Total(Loaded(s, k))' + Load(a, s, k) = Total(Loaded(s, k)) + 0
        BY <1>1, <1>5, <1>7, <3>2, LoadsChange DEF Counts
      <4> QED BY <3>2, <2>2, <4>1
    <3> QED BY <3>1, <3>2
  <2>4. /\ (IF IsFull(h, a.work.key) /\ a.task \notin s THEN y ELSE -e) \in Int
        /\ (IF IsFull(h, a.work.key) THEN -y ELSE e) \in Int
    OBVIOUS
  <2>5. Shifted(s, k, 0, 
          IF IsFull(h, a.work.key) /\ a.task \notin s THEN y ELSE -e, 
          IF IsFull(h, a.work.key) THEN -y ELSE e, 0, 0)
    BY <1>1, <1>6, <1>7, <2>1, <2>3, <2>4, DeliveryShift
  <2> QED BY <2>5
<1>8. \A k \in Keys : Added(k, 0, 0)
  BY <1>1, TargetType DEF ObjectInv, MemoryInv, HistoryTypes, Added
<1>9. \A y, e \in Nat : \A full, all \in BOOLEAN : 
        LET b == IF full THEN -y ELSE e
            d == IF full /\ all THEN y ELSE -e
        IN  /\ b \in Int /\ d \in Int /\ 0 \in Int /\ 0 <= 0
            /\ 0 + d + b <= 0 + 0 /\ all => 0 + 0 + d + b = 0 + 0 + 0
  OBVIOUS
<1>10. ASSUME kind = "multimap", NEW k \in Keys, NEW s, Counts(s, k) 
      PROVE  Evenly(s, k)
  <2>1. PICK e \in Nat : e = IF k = a.work.key THEN 1 ELSE 0
    OBVIOUS
  <2>2. PICK y \in Nat : 
               Shifted(s, k, 0, 
                 IF IsFull(h, a.work.key) /\ a.task \notin s THEN y ELSE -e, 
                 IF IsFull(h, a.work.key) THEN -y ELSE e, 0, 0)
    BY <1>7, <1>10, <2>1
  <2>3. /\ (a.task \notin s) \in BOOLEAN /\ (s = {} => a.task \notin s)
        /\ IsFull(h, a.work.key) \in BOOLEAN
    BY DEF IsFull
  <2> QED BY <1>8, <1>9, <1>10, <2>2, <2>3 DEF Evenly
<1> QED BY <1>1, <1>10, StepCounts

LEMMA RunFlushCount == 
  ASSUME ObjectInv, ObjectInv', HistoryTypes, HistoryTypes', IsFiniteSet(Tasks), 
         CountInv, FlushInv, UNCHANGED <<kind, program>>, NEW a \in acts, RunFlush(a)
  PROVE  CountInv'
<1>1. /\ UNCHANGED <<promised, pending, dropped>> /\ a.work.op = "flush"
      /\ a.at \in Localities /\ acts' \subseteq acts
      /\ \A b \in acts : b \in acts' \/ b = a
  BY RunFlushIs DEF history, ObjectInv, TaskTypes, Activities
<1>2. \A b \in acts : b.work.op # "asyncflush"
  BY <1>1 DEF FlushInv, ObjectInv, TaskTypes, Activities
<1>3. SameInserts /\ SameLoads /\ SameFlushes
  BY <1>1 DEF SameInserts, SameLoads, SameFlushes
<1>4. CASE UNCHANGED <<mem, buffers>>
  <2>1. \A k \in Keys : Added(k, 0, 0)
    BY <1>1, <1>4, TargetType DEF ObjectInv, MemoryInv, HistoryTypes, Added
  <2>2. \A k \in Keys : \A s \in SUBSET Tasks : Counts(s, k) => 
          Shifted(s, k, 0, 0, 0, 0, 0)
    BY <1>1, <1>3, <1>4, SameCounts
  <2>3. 0 \in Int /\ 0 <= 0 /\ 0 + 0 + 0 <= 0 + 0 /\ 0 + 0 + 0 + 0 = 0 + 0 + 0
    OBVIOUS
  <2>4. \A k \in Keys : \A s \in SUBSET Tasks : Counts(s, k) => Evenly(s, k)
    BY <2>1, <2>2, <2>3 DEF Evenly
  <2> QED BY <1>1, <2>4, StepCounts
<1>5. ASSUME NEW i \in Localities, Deliver(i, buffers[a.at][i]),
             \A j, l \in Localities : buffers'[j][l] = 
               IF j = a.at /\ l = i THEN <<>> ELSE buffers[j][l]
      PROVE  CountInv'
  <2>1. buffers[a.at][i] \in Seq(Keys) /\ buffers[a.at][i] \in Seq(KeysOf(i))
    BY <1>1 DEF ObjectInv, MemoryInv
  <2>2. ASSUME kind = "multimap", NEW k \in Keys, NEW s, Counts(s, k) 
        PROVE  Evenly(s, k)
    <3>1. PICK x \in Nat : x = Occurs(k, buffers[a.at][i])
      BY <2>1, OccursIs
    <3>2. i # TargetLocality(k) => x = 0
      BY <2>1, <3>1, OccursIs
    <3>3. \A g \in Localities : 
            /\ Stored(s, k)[g] = Occurs(k, buffers[g][TargetLocality(k)])
            /\ Stored(s, k)'[g] = Occurs(k, buffers'[g][TargetLocality(k)])
      BY <1>1, <1>2 DEF Stored, IsFlushOf
    <3>4. \A g \in Localities \ {a.at} : Stored(s, k)'[g] = Stored(s, k)[g]
      BY <1>5, <3>3, TargetType
    <3>5. Occurs(k, <<>>) = 0
      BY <2>1, OccursIs
    <3>6. /\ Total(Stored(s, k)) \in Nat /\ Total(Stored(s, k))' \in Nat
          /\ Stored(s, k)[a.at] \in Nat /\ Stored(s, k)'[a.at] \in Nat
          /\ Total(Stored(s, k))' + Stored(s, k)[a.at]
               = Total(Stored(s, k)) + Stored(s, k)'[a.at]
      BY <1>1, <3>4, StoreChanges
    <3>7. Stored(s, k)[a.at] = Stored(s, k)'[a.at] + x
      <4>1. CASE i = TargetLocality(k)
        BY <1>1, <1>5, <3>1, <3>3, <3>5, <4>1
      <4>2. CASE i # TargetLocality(k)
        BY <1>1, <1>5, <3>2, <3>3, <3>6, <4>2, TargetType
      <4> QED BY <4>1, <4>2
    <3>8. Total(Stored(s, k))' = Total(Stored(s, k)) + (-x)
      <4> DEFINE v == Total(Stored(s, k))
                 w == Total(Stored(s, k))'
                 m == Stored(s, k)[a.at]
                 n == Stored(s, k)'[a.at]
      <4>1. v \in Nat /\ w \in Nat /\ m \in Nat /\ n \in Nat /\ w + m = v + n /\ m = n + x
        BY <3>6, <3>7
      <4> HIDE DEF v, w, m, n
      <4>2. w = v + (-x)
        BY <4>1
      <4> QED BY <4>2 DEF v, w
    <3>9. /\ Units(Loaded(s, k))' = Units(Loaded(s, k))
          /\ Total(Loaded(s, k))' = Total(Loaded(s, k)) + 0
      BY <1>3, <2>2, LoadsStay, CountsFinite DEF Counts
    <3>10. IsFiniteSet(Units(Loaded(s, k)))' /\ 0 \in Int /\ -x \in Int
      BY <2>2, <3>9 DEF Counts
    <3>11. Shifted(s, k, 0, 0, -x, 0, 0)
      BY <1>1, <1>3, <2>2, <3>8, <3>9, <3>10, DeliveryShift
    <3>12. Len(mem'[TargetLocality(k)][k]) = Len(mem[TargetLocality(k)][k]) + x
      BY <1>5, <2>1, <2>2, <3>1, DeliverAdds
    <3>13. Added(k, x, 0)
      BY <1>1, <3>12 DEF HistoryTypes, Added
    <3>14. /\ -x \in Int /\ x \in Int /\ 0 \in Int /\ 0 <= 0 /\ 0 + 0 + (-x) <= 0 + 0
           /\ x + 0 + 0 + (-x) = 0 + 0 + 0
      OBVIOUS
    <3> QED BY <3>11, <3>13, <3>14 DEF Evenly
  <2> QED BY <1>1, <2>2, StepCounts
<1> QED BY <1>4, <1>5, RunFlushIs

LEMMA RunAsyncFlushCount == 
  ASSUME ObjectInv, ObjectInv', HistoryTypes, HistoryTypes', IsFiniteSet(Tasks), 
         CountInv, FlushInv, FreshInv, UNCHANGED <<kind, program>>, 
         NEW a \in acts, RunAsyncFlush(a)
  PROVE  CountInv'
<1>1. /\ UNCHANGED <<mem, promised, pending, dropped>> /\ a.work.op = "asyncflush"
      /\ a \in Activities /\ a.at \in Localities
      /\ a \notin acts' /\ \A b \in acts : b # a => b \in acts'
      /\ \A j, i \in Localities : 
           buffers'[j][i] = IF j = a.at THEN <<>> ELSE buffers[j][i]
      /\ \A i \in Localities : buffers[a.at][i] # <<>> => 
           Successor(a, i, Delivery(a.at, buffers[a.at][i])) \in acts'
      /\ \A b \in acts' \ acts : \E i \in Localities : 
           b = Successor(a, i, Delivery(a.at, buffers[a.at][i]))
  BY RunAsyncFlushIs DEF history, ObjectInv, TaskTypes, Activities, Successor
<1>2. \A i, ks : LET b == Successor(a, i, Delivery(a.at, ks)) IN 
        /\ b.work.op = "deliver" /\ b.work.from = a.at /\ b.work.keys = ks 
        /\ b.task = a.task
  BY <1>1, SuccessorIs DEF Delivery
<1>3. \A b \in acts' \ acts : b.work.op = "deliver"
  BY <1>1, <1>2
<1>4. SameInserts
  BY <1>1, <1>3 DEF SameInserts
<1>5. ASSUME NEW k \in Keys, kind = "multimap", NEW s, Counts(s, k)
      PROVE  \E z \in Nat : Shifted(s, k, 0, z, -z, 0, 0)
  <2>1. /\ TargetLocality(k) \in Localities
        /\ \A i \in Localities : /\ buffers[a.at][i] \in Seq(Keys) 
                                 /\ buffers[a.at][i] \in Seq(KeysOf(i))
    BY <1>1, TargetType DEF ObjectInv, MemoryInv
  <2>2. PICK x : x = Occurs(k, buffers[a.at][TargetLocality(k)])
    OBVIOUS
  <2>3. /\ x \in Nat /\ Occurs(k, <<>>) = 0
        /\ \A i \in Localities : i # TargetLocality(k) => 
             Occurs(k, buffers[a.at][i]) = 0
    BY <2>1, <2>2, OccursIs
  <2>4. PICK z : z = IF a.task \notin s THEN x ELSE 0
    OBVIOUS
  <2>5. Total(Stored(s, k))' = Total(Stored(s, k)) + (-z)
    <3>1. \A b \in acts : IsFlushOf(b, a.at) => b = a
      BY <1>1 DEF FlushInv, IsFlushOf
    <3>2. Stored(s, k)[a.at] = z
      BY <1>1, <2>2, <2>4, <3>1 DEF Stored, IsFlushOf
    <3>3. Stored(s, k)'[a.at] = 0
      BY <1>1, <2>1, <2>3 DEF Stored
    <3>4. \A g \in Localities \ {a.at} : 
            (\E b \in acts' : IsFlushOf(b, g) /\ b.task \in s) 
              <=> (\E b \in acts : IsFlushOf(b, g) /\ b.task \in s)
      BY <1>1, <1>3 DEF IsFlushOf
    <3>5. \A g \in Localities \ {a.at} : Stored(s, k)'[g] = Stored(s, k)[g]
      BY <1>1, <2>1, <3>4 DEF Stored, IsFlushOf
    <3>6. /\ Total(Stored(s, k)) \in Nat /\ Total(Stored(s, k))' \in Nat
          /\ Total(Stored(s, k))' + Stored(s, k)[a.at]
               = Total(Stored(s, k)) + Stored(s, k)'[a.at]
      BY <1>1, <3>5, StoreChanges
    <3> QED BY <2>3, <2>4, <3>2, <3>3, <3>6
  <2>6. /\ IsFiniteSet(Units(Loaded(s, k)))'
        /\ Total(Loaded(s, k))' = Total(Loaded(s, k)) + z
    <3>1. PICK c : c = Successor(a, TargetLocality(k), 
                         Delivery(a.at, buffers[a.at][TargetLocality(k)]))
      OBVIOUS
    <3>2. /\ c.work.op = "deliver" /\ c.work.from = a.at /\ c.task = a.task
          /\ c.work.keys = buffers[a.at][TargetLocality(k)]
      BY <1>2, <3>1
    <3>3. \A b \in acts' \ acts : b # c => Load(b, s, k) = 0
      BY <1>1, <1>2, <2>3, <3>1 DEF Load
    <3>4. Load(a, s, k) = 0 /\ Load(c, s, k) = z
      BY <1>1, <2>2, <2>4, <3>2 DEF Load
    <3>5. CASE c \in acts'
      <4>1. c \notin acts
        BY <1>1, <1>5, <3>2 DEF FreshInv, Distinct
      <4>2. c \in Activities
        BY <3>5 DEF ObjectInv, TaskTypes
      <4>3. /\ IsFiniteSet(Units(Loaded(s, k)))'
            /\ Total(Loaded(s, k)) \in Nat /\ Total(Loaded(s, k))' \in Nat
            /\ Total(Loaded(s, k))' + 0 = Total(Loaded(s, k)) + Load(c, s, k)
        BY <1>1, <1>5, <3>3, <3>4, <3>5, <4>1, <4>2, LoadsChange DEF Counts
      <4> QED BY <3>4, <4>3
    <3>6. CASE c \notin acts'
      <4>1. x = 0 /\ z = 0
        BY <1>1, <2>1, <2>2, <2>3, <2>4, <3>1, <3>6
      <4>2. /\ IsFiniteSet(Units(Loaded(s, k)))'
            /\ Total(Loaded(s, k)) \in Nat /\ Total(Loaded(s, k))' \in Nat
            /\ Total(Loaded(s, k))' + Load(a, s, k) = Total(Loaded(s, k)) + 0
        BY <1>1, <1>5, <3>3, <3>4, <3>6, LoadsChange DEF Counts
      <4> QED BY <3>4, <4>1, <4>2
    <3> QED BY <3>5, <3>6
  <2>7. z \in Nat /\ z \in Int /\ -z \in Int
    BY <2>3, <2>4
  <2>8. Shifted(s, k, 0, z, -z, 0, 0)
    BY <1>1, <1>4, <1>5, <2>5, <2>6, <2>7, DeliveryShift
  <2> QED BY <2>7, <2>8
<1>6. \A k \in Keys : Added(k, 0, 0)
  BY <1>1, TargetType DEF ObjectInv, MemoryInv, HistoryTypes, Added
<1>7. \A z \in Nat : /\ z \in Int /\ -z \in Int /\ 0 \in Int /\ 0 <= 0 
                     /\ 0 + z + (-z) <= 0 + 0 /\ 0 + 0 + z + (-z) = 0 + 0 + 0
  OBVIOUS
<1>8. \A k \in Keys : \A s \in SUBSET Tasks : 
        kind = "multimap" /\ Counts(s, k) => Evenly(s, k)
  BY <1>5, <1>6, <1>7 DEF Evenly
<1> QED BY <1>1, <1>8, StepCounts

\* when nothing is in a buffer or on its way there
LEMMA NothingLoaded == 
  ASSUME ObjectInv', HistoryTypes', IsFiniteSet(Tasks), NEW s, NEW k \in Keys, 
         \A a \in acts' : a.work.op \notin {"deliver", "read"},
         \/ \A i \in Localities : buffers'[i][TargetLocality(k)] = <<>>
         \/ \A i \in Localities : \E a \in acts' : IsFlushOf(a, i) /\ a.task \in s
  PROVE  /\ IsFiniteSet(Units(Loaded(s, k)))' /\ Total(Loaded(s, k))' = 0
         /\ Total(Stored(s, k))' = 0
<1>1. /\ Loaded(s, k)' \in [Activities -> Nat] /\ Stored(s, k)' \in [Localities -> Nat]
  BY CountTypesNext DEF CountsTyped
<1>2. \A a \in Activities : Loaded(s, k)'[a] = 0
  BY DEF Loaded, Load
<1>3. \A i \in Localities : Stored(s, k)'[i] = 0
  <2>1. <<>> \in Seq(Keys)
    OBVIOUS
  <2>2. Occurs(k, <<>>) = 0
    BY <2>1, OccursIs
  <2> QED BY <2>2 DEF Stored, IsFlushOf
<1> QED BY <1>1, <1>2, <1>3, TotalNothing

LEMMA AsyncFlushCount == 
  ASSUME ObjectInv, ObjectInv', HistoryTypes, IsFiniteSet(Tasks), CountInv, 
         UNCHANGED <<kind, program>>, NEW t \in Tasks, AsyncFlushAllBuffers(t)
  PROVE  CountInv'
<1>1. /\ HistoryTypes' /\ UNCHANGED <<mem, buffers, promised, dropped>>
      /\ \A a \in acts : a.work.op \notin {"deliver", "read", "asyncflush"}
      /\ acts \subseteq acts'
      /\ \A i \in Localities : \E a \in acts' \ acts : a.at = i
      /\ \A a \in acts' \ acts : a.task = t /\ a.work.op = "asyncflush"
  BY AsyncFlushIs
<1>2. \A u \in Tasks, k \in Keys : 
        /\ pending'[u].async[k] = pending[u].async[k] 
             + (IF u = t THEN pending[t].buffered[k] ELSE 0)
        /\ pending'[u].both[k] + pending'[u].buffered[k] 
             = pending[u].both[k] + pending[u].buffered[k] 
                 + (IF u = t THEN -pending[t].buffered[k] ELSE 0)
  <2> SUFFICES ASSUME NEW u \in Tasks, NEW k \in Keys
               PROVE  /\ pending'[u].async[k] = pending[u].async[k] 
                           + (IF u = t THEN pending[t].buffered[k] ELSE 0)
                      /\ pending'[u].both[k] + pending'[u].buffered[k] 
                           = pending[u].both[k] + pending[u].buffered[k] 
                               + (IF u = t THEN -pending[t].buffered[k] ELSE 0)
    OBVIOUS
  <2>1. \A v \in Tasks : 
          /\ pending[v].async[k] \in Nat /\ pending[v].both[k] \in Nat
          /\ pending[v].buffered[k] \in Nat
    BY DEF HistoryTypes
  <2>2. CASE u = t
    <3>1. /\ pending'[t].both[k] = pending[t].both[k]
          /\ pending'[t].async[k] = pending[t].async[k] + pending[t].buffered[k]
          /\ pending'[t].buffered[k] = 0
      BY AsyncFlushIs
    <3> QED BY <2>1, <2>2, <3>1
  <2>3. CASE u # t
    <3>1. UNCHANGED <<pending[u].async, pending[u].both, pending[u].buffered>>
      BY <2>3, AsyncFlushIs
    <3> QED BY <2>1, <2>3, <3>1
  <2> QED BY <2>2, <2>3
<1>3. SameInserts /\ SameLoads
  BY <1>1 DEF SameInserts, SameLoads
<1>4. ASSUME NEW k \in Keys, NEW s, Counts(s, k)
      PROVE  \E n \in Nat : 
               /\ Total(Owed(s, k))' = Total(Owed(s, k)) + (IF t \in s THEN 0 ELSE n)
               /\ Total(OwedLater(k))' = Total(OwedLater(k)) + (-n)
               /\ IsFiniteSet(Units(Inserting(s, k)))'
               /\ Total(Inserting(s, k))' = Total(Inserting(s, k))
  <2>1. PICK n : n = pending[t].buffered[k]
    OBVIOUS
  <2>2. n \in Nat /\ n \in Int /\ -n \in Int
    BY <2>1 DEF HistoryTypes
  <2>3. /\ Total(Owed(s, k))' = Total(Owed(s, k)) + (IF t \in s THEN 0 ELSE n)
        /\ Total(OwedLater(k))' = Total(OwedLater(k)) + (-n)
    <3>1. \A u \in Tasks : 
            /\ pending'[u].async[k] = pending[u].async[k] + (IF u = t THEN n ELSE 0)
            /\ pending'[u].both[k] + pending'[u].buffered[k] 
                 = pending[u].both[k] + pending[u].buffered[k] 
                     + (IF u = t THEN -n ELSE 0)
      BY <1>2, <2>1
    <3> QED BY <1>1, <2>2, <3>1, OwedChanges
  <2>4. /\ Units(Inserting(s, k))' = Units(Inserting(s, k))
        /\ Total(Inserting(s, k))' = Total(Inserting(s, k))
    BY <1>3, InsertsStay
  <2> QED BY <1>4, <2>2, <2>3, <2>4 DEF Counts
<1>5. ASSUME NEW k \in Keys, NEW s, Counts(s, k), t \notin s
      PROVE  \E n \in Nat : Shifted(s, k, 0, 0, 0, n, -n)
  <2>1. PICK n \in Nat : 
          /\ Total(Owed(s, k))' = Total(Owed(s, k)) + n
          /\ Total(OwedLater(k))' = Total(OwedLater(k)) + (-n)
          /\ IsFiniteSet(Units(Inserting(s, k)))'
          /\ Total(Inserting(s, k))' = Total(Inserting(s, k))
    BY <1>4, <1>5
  <2>2. /\ Units(Loaded(s, k))' = Units(Loaded(s, k))
        /\ Total(Loaded(s, k))' = Total(Loaded(s, k))
    BY <1>3, LoadsStay
  <2>3. \A i \in Localities : Stored(s, k)'[i] = Stored(s, k)[i]
    BY <1>1, <1>5 DEF Stored, IsFlushOf
  <2>4. Total(Stored(s, k))' = Total(Stored(s, k))
    <3>1. DOMAIN Stored(s, k)' = Localities /\ DOMAIN Stored(s, k) = Localities
      BY DEF Stored
    <3> QED BY <2>3, <3>1, TotalStays
  <2>5. \A m \in Nat : m = m + 0
    OBVIOUS
  <2>6. 0 \in Int /\ n \in Int /\ -n \in Int
    OBVIOUS
  <2>7. Shifted(s, k, 0, 0, 0, n, -n)
    BY <1>5, <2>1, <2>2, <2>4, <2>5, <2>6, CountsFinite DEF Counts, Shifted
  <2> QED BY <2>7
<1>6. ASSUME NEW k \in Keys, NEW s, Counts(s, k), t \in s
      PROVE  Counts(s, k)'
  <2>1. /\ Total(Owed(s, k))' = Total(Owed(s, k)) + 0
        /\ IsFiniteSet(Units(Inserting(s, k)))'
        /\ Total(Inserting(s, k))' = Total(Inserting(s, k))
    BY <1>4, <1>6
  <2>2. /\ \A a \in acts' : a.work.op \notin {"deliver", "read"}
        /\ \A i \in Localities : \E a \in acts' : IsFlushOf(a, i) /\ a.task \in s
    BY <1>1, <1>6 DEF IsFlushOf
  <2>3. /\ IsFiniteSet(Units(Loaded(s, k)))' /\ Total(Loaded(s, k))' = 0
        /\ Total(Stored(s, k))' = 0
    BY <1>1, <2>2, NothingLoaded
  <2>4. /\ Total(OwedLater(k))' \in Nat /\ Total(Owed(s, k)) \in Nat
        /\ Total(Inserting(s, k)) \in Nat 
        /\ Total(Inserting(s, k)) <= Total(Owed(s, k))
    <3>1. OwedLater(k)' \in [Tasks -> Nat]
      BY <1>1, CountTypesNext DEF CountsTyped
    <3>2. Total(OwedLater(k))' \in Nat
      BY <3>1, TotalFinite
    <3> QED BY <1>6, <3>2, CountsFinite DEF Counts
  <2> DEFINE i == Total(Inserting(s, k))'
             o == Total(Owed(s, k))'
             q == Total(OwedLater(k))'
  <2>5. i \in Nat /\ o \in Nat /\ q \in Nat /\ i <= o
    BY <2>1, <2>4
  <2> HIDE DEF i, o, q
  <2>6. i <= o /\ i + 0 + 0 <= o + q
    BY <2>5
  <2> QED BY <2>1, <2>3, <2>6 DEF Counts, i, o, q
<1>7. \A n \in Nat : /\ n \in Int /\ -n \in Int /\ 0 \in Int /\ 0 <= n
                     /\ 0 + 0 + 0 <= n + (-n) /\ 0 + 0 + 0 + 0 = 0 + n + (-n)
  OBVIOUS
<1>8. \A k \in Keys : Added(k, 0, 0)
  BY <1>1, TargetType DEF ObjectInv, MemoryInv, HistoryTypes, Added
<1>9. ASSUME NEW k \in Keys, NEW s, Counts(s, k)
      PROVE  Counts(s, k)'
  <2>1. CASE t \notin s
    BY <1>5, <1>7, <1>9, <2>1, ShiftCounts
  <2> QED BY <1>6, <1>9, <2>1
<1>10. ASSUME NEW k \in Keys, Counts({}, k), Balanced(k)
       PROVE  Balanced(k)'
  <2>1. PICK n \in Nat : Shifted({}, k, 0, 0, 0, n, -n)
    BY <1>5, <1>10
  <2> QED BY <1>7, <1>8, <1>10, <2>1, ShiftBalance
<1> QED BY <1>1, <1>9, <1>10, Recount

LEMMA ReturnCount == 
  ASSUME ObjectInv, ObjectInv', HistoryTypes, IsFiniteSet(Tasks), CountInv, FlushInv,
         UNCHANGED <<kind, program>>, NEW t \in Tasks, Return(t)
  PROVE  CountInv'
<1>1. /\ HistoryTypes' /\ UNCHANGED <<mem, buffers, acts, dropped>>
      /\ Mine(t, FALSE) = {} 
  BY ReturnIs
<1>2. SameInserts /\ SameLoads /\ SameFlushes
  BY <1>1 DEF SameInserts, SameLoads, SameFlushes
<1>3. CASE ~ IsFlushing(t)
  <2>1. \A u \in Tasks, k \in Keys : 
          /\ pending'[u].async = pending[u].async /\ pending'[u].both = pending[u].both
          /\ pending'[u].buffered[k] = pending[u].buffered[k]
          /\ promised'[k] = promised[k]
    BY <1>3, ReturnIs DEF HistoryTypes
  <2>2. \A k \in Keys : Added(k, 0, 0)
    BY <1>1, <2>1, TargetType DEF ObjectInv, MemoryInv, HistoryTypes, Added
  <2>3. ASSUME NEW k \in Keys, NEW s, Counts(s, k) PROVE Evenly(s, k)
    <3>1. /\ Units(Inserting(s, k))' = Units(Inserting(s, k))
          /\ Total(Inserting(s, k))' = Total(Inserting(s, k))
          /\ Units(Loaded(s, k))' = Units(Loaded(s, k))
          /\ Total(Loaded(s, k))' = Total(Loaded(s, k))
          /\ Total(Stored(s, k))' = Total(Stored(s, k))
      BY <1>1, <1>2, InsertsStay, LoadsStay, StoreStays
    <3>2. /\ Total(Owed(s, k))' = Total(Owed(s, k))
          /\ Total(OwedLater(k))' = Total(OwedLater(k))
      BY <2>1, OwedStays, OwedLaterStays
    <3>3. \A n \in Nat : n = n + 0
      OBVIOUS
    <3>4. Shifted(s, k, 0, 0, 0, 0, 0)
      BY <2>3, <3>1, <3>2, <3>3, CountsFinite DEF Counts, Shifted
    <3>5. 0 \in Int /\ 0 <= 0 /\ 0 + 0 + 0 <= 0 + 0 /\ 0 + 0 + 0 + 0 = 0 + 0 + 0
      OBVIOUS
    <3> QED BY <2>2, <3>4, <3>5 DEF Evenly
  <2> QED BY <1>1, <2>3, StepCounts
<1>4. CASE IsFlushing(t)
  <2>1. /\ \A i, l \in Localities : buffers'[i][l] = <<>>
        /\ \A a \in acts' : a.work.op \notin {"deliver", "read"}
    BY <1>1, <1>4, Flushed
  <2>2. ASSUME NEW k \in Keys, NEW s, Counts(s, k)
        PROVE  /\ Shifted(s, k, 0, 0, 0, 0, -pending[t].buffered[k])
               /\ Total(Loaded(s, k))' = 0 /\ Total(Stored(s, k))' = 0
    <3>1. PICK n : n = pending[t].buffered[k]
      OBVIOUS
    <3>2. n \in Nat /\ n \in Int /\ -n \in Int /\ 0 \in Int
      BY <3>1 DEF HistoryTypes
    <3>3. \A u \in Tasks : 
            /\ pending'[u].async[k] = pending[u].async[k] + (IF u = t THEN 0 ELSE 0)
            /\ pending'[u].both[k] + pending'[u].buffered[k] 
                 = pending[u].both[k] + pending[u].buffered[k] 
                     + (IF u = t THEN -n ELSE 0)
      <4> SUFFICES ASSUME NEW u \in Tasks
                   PROVE  /\ pending'[u].async[k] = pending[u].async[k] + 0
                          /\ pending'[u].both[k] + pending'[u].buffered[k] 
                               = pending[u].both[k] + pending[u].buffered[k] 
                                   + (IF u = t THEN -n ELSE 0)
        OBVIOUS
      <4>1. /\ pending'[u].async = pending[u].async /\ pending'[u].both = pending[u].both
            /\ pending'[u].buffered[k] = IF u = t THEN 0 ELSE pending[u].buffered[k]
        BY <1>4, ReturnIs
      <4>2. /\ pending[u].async[k] \in Nat /\ pending[u].both[k] \in Nat
            /\ pending[u].buffered[k] \in Nat
        BY DEF HistoryTypes
      <4> QED BY <3>1, <4>1, <4>2
    <3>4. /\ Total(Owed(s, k))' = Total(Owed(s, k)) + (IF t \in s THEN 0 ELSE 0)
          /\ Total(OwedLater(k))' = Total(OwedLater(k)) + (-n)
      BY <1>1, <3>2, <3>3, OwedChanges
    <3>5. /\ Units(Inserting(s, k))' = Units(Inserting(s, k))
          /\ Total(Inserting(s, k))' = Total(Inserting(s, k))
          /\ Units(Loaded(s, k))' = Units(Loaded(s, k))
          /\ Total(Loaded(s, k))' = Total(Loaded(s, k))
          /\ Total(Stored(s, k))' = Total(Stored(s, k))
      BY <1>1, <1>2, InsertsStay, LoadsStay, StoreStays
    <3>6. \A m \in Nat : m = m + 0
      OBVIOUS
    <3>7. Shifted(s, k, 0, 0, 0, 0, -n)
      BY <2>2, <3>2, <3>4, <3>5, <3>6, CountsFinite DEF Counts, Shifted
    <3>8. Total(Loaded(s, k))' = 0 /\ Total(Stored(s, k))' = 0
      BY <1>1, <2>1, NothingLoaded, TargetType
    <3> QED BY <3>1, <3>7, <3>8
  <2>3. ASSUME NEW k \in Keys, NEW s, Counts(s, k) PROVE Counts(s, k)'
    <3> DEFINE i == Total(Inserting(s, k))'
               o == Total(Owed(s, k))'
               q == Total(OwedLater(k))'
    <3>1. i \in Nat /\ o \in Nat /\ i <= o
      BY <2>2, <2>3, CountsFinite DEF Shifted, Counts
    <3>2. q \in Nat
      <4>1. OwedLater(k)' \in [Tasks -> Nat]
        BY <1>1, CountTypesNext DEF CountsTyped
      <4> QED BY <4>1, TotalFinite
    <3> HIDE DEF i, o, q
    <3>3. i <= o /\ i + 0 + 0 <= o + q
      BY <3>1, <3>2
    <3> QED BY <2>2, <2>3, <3>3 DEF Shifted, Counts, i, o, q
  <2>4. ASSUME NEW k \in Keys, Counts({}, k), Balanced(k) PROVE Balanced(k)'
    <3>1. PICK n : n = pending[t].buffered[k]
      OBVIOUS
    <3>2. n \in Nat /\ n \in Int
      BY <3>1 DEF HistoryTypes
    <3>3. Shifted({}, k, 0, 0, 0, 0, -n)
      BY <2>2, <2>4, <3>1
    <3>4. promised'[k] = promised[k] + n
      BY <1>4, <3>1, ReturnIs
    <3>5. Added(k, 0, n)
      BY <1>1, <3>2, <3>4, TargetType DEF ObjectInv, MemoryInv, Added
    <3>6. 0 + 0 + 0 + 0 = n + 0 + (-n)
      BY <3>2
    <3> QED BY <2>4, <3>3, <3>5, <3>6, ShiftBalance
  <2> QED BY <1>1, <2>3, <2>4, Recount
<1> QED BY <1>3, <1>4

\* after a wait the task is one of those whose handles stand for nothing
LEMMA WaitCount == 
  ASSUME ObjectInv, ObjectInv', HistoryTypes, IsFiniteSet(Tasks), CountInv, FlushInv,
         UNCHANGED <<kind, program>>, NEW t \in Tasks, waitForCompletion(t)
  PROVE  CountInv'
<1>1. /\ HistoryTypes' /\ UNCHANGED <<mem, buffers, acts, dropped>>
      /\ Mine(t, TRUE) = {} 
  BY WaitIs
<1>2. \A a \in acts : a.work.op \in Moving /\ a.work.op # "flush" => a.task # t
  BY <1>1 DEF FlushInv, Mine
<1>3. \A u \in Tasks, k \in Keys : 
        /\ pending'[u].async[k] = IF u = t THEN 0 ELSE pending[u].async[k] 
        /\ pending'[u].both[k] + pending'[u].buffered[k] 
             = pending[u].both[k] + pending[u].buffered[k] 
  <2> SUFFICES ASSUME NEW u \in Tasks, NEW k \in Keys
               PROVE  /\ pending'[u].async[k] = IF u = t THEN 0 ELSE pending[u].async[k] 
                      /\ pending'[u].both[k] + pending'[u].buffered[k] 
                           = pending[u].both[k] + pending[u].buffered[k] 
    OBVIOUS
  <2>1. /\ pending[u].async[k] \in Nat /\ pending[u].both[k] \in Nat
        /\ pending[u].buffered[k] \in Nat
    BY DEF HistoryTypes
  <2>2. CASE u = t
    <3>1. /\ pending'[t].async[k] = 0 /\ pending'[t].both[k] = 0
          /\ pending'[t].buffered[k] = pending[t].buffered[k] + pending[t].both[k]
      BY WaitIs
    <3> QED BY <2>1, <2>2, <3>1
  <2>3. CASE u # t
    <3>1. UNCHANGED <<pending[u].async, pending[u].both, pending[u].buffered>>
      BY <2>3, WaitIs
    <3> QED BY <2>3, <3>1
  <2> QED BY <2>2, <2>3
<1>4. ASSUME NEW k \in Keys, NEW s \in SUBSET Tasks
      PROVE  /\ Units(Inserting(s, k))' = Units(Inserting(s \cup {t}, k))
             /\ Total(Inserting(s, k))' = Total(Inserting(s \cup {t}, k))
             /\ Units(Loaded(s, k))' = Units(Loaded(s \cup {t}, k))
             /\ Total(Loaded(s, k))' = Total(Loaded(s \cup {t}, k))
             /\ Total(Stored(s, k))' = Total(Stored(s \cup {t}, k))
             /\ Total(Owed(s, k))' = Total(Owed(s \cup {t}, k))
             /\ Total(OwedLater(k))' = Total(OwedLater(k))
  <2> DEFINE u == s \cup {t}
  <2>1. /\ \A a \in Activities : Inserting(s, k)'[a] = Inserting(u, k)[a]
        /\ \A a \in Activities : Loaded(s, k)'[a] = Loaded(u, k)[a]
        /\ \A i \in Localities : Stored(s, k)'[i] = Stored(u, k)[i]
        /\ \A v \in Tasks : Owed(s, k)'[v] = Owed(u, k)[v]
    <3>1. \A a \in Activities : Inserting(s, k)'[a] = Inserting(u, k)[a]
      BY <1>1, <1>2 DEF Inserting, IsInsertOf, Moving
    <3>2. \A a \in Activities : Loaded(s, k)'[a] = Loaded(u, k)[a]
      BY <1>1, <1>2 DEF Loaded, Load, Moving
    <3>3. \A i \in Localities : Stored(s, k)'[i] = Stored(u, k)[i]
      BY <1>1, <1>2 DEF Stored, IsFlushOf, Moving
    <3>4. \A v \in Tasks : Owed(s, k)'[v] = Owed(u, k)[v]
      BY <1>3 DEF Owed
    <3> QED BY <3>1, <3>2, <3>3, <3>4
  <2>2. /\ DOMAIN Inserting(s, k)' = Activities /\ DOMAIN Inserting(u, k) = Activities
        /\ DOMAIN Loaded(s, k)' = Activities /\ DOMAIN Loaded(u, k) = Activities
        /\ DOMAIN Stored(s, k)' = Localities /\ DOMAIN Stored(u, k) = Localities
        /\ DOMAIN Owed(s, k)' = Tasks /\ DOMAIN Owed(u, k) = Tasks
    BY DEF Inserting, Loaded, Stored, Owed
  <2> HIDE DEF u
  <2>3. /\ Units(Inserting(s, k))' = Units(Inserting(u, k))
        /\ Total(Inserting(s, k))' = Total(Inserting(u, k))
    BY <2>1, <2>2, TotalStays
  <2>4. /\ Units(Loaded(s, k))' = Units(Loaded(u, k))
        /\ Total(Loaded(s, k))' = Total(Loaded(u, k))
    BY <2>1, <2>2, TotalStays
  <2>5. Total(Stored(s, k))' = Total(Stored(u, k))
    BY <2>1, <2>2, TotalStays
  <2>6. Total(Owed(s, k))' = Total(Owed(u, k))
    BY <2>1, <2>2, TotalStays
  <2>7. Total(OwedLater(k))' = Total(OwedLater(k))
    BY <1>3, OwedLaterStays
  <2> QED BY <2>3, <2>4, <2>5, <2>6, <2>7 DEF u
<1>5. ASSUME NEW k \in Keys, kind = "multimap", NEW s \in SUBSET Tasks
      PROVE  Counts(s, k)'
  <2>1. s \cup {t} \in SUBSET Tasks
    OBVIOUS
  <2>2. Counts(s \cup {t}, k)
    BY <1>5, <2>1 DEF CountInv
  <2> QED BY <1>4, <2>2 DEF Counts
<1>6. ASSUME NEW k \in Keys, Counts({}, k), Balanced(k) PROVE Balanced(k)'
  <2>1. PICK n : n = pending[t].async[k]
    OBVIOUS
  <2>2. n \in Nat /\ n \in Int /\ -n \in Int /\ 0 \in Int
    BY <2>1 DEF HistoryTypes
  <2>3. \A u \in Tasks : 
          /\ pending'[u].async[k] = pending[u].async[k] + (IF u = t THEN -n ELSE 0)
          /\ pending'[u].both[k] + pending'[u].buffered[k] 
               = pending[u].both[k] + pending[u].buffered[k] + (IF u = t THEN 0 ELSE 0)
    <3> SUFFICES ASSUME NEW u \in Tasks
                 PROVE  /\ pending'[u].async[k] 
                             = pending[u].async[k] + (IF u = t THEN -n ELSE 0)
                        /\ pending'[u].both[k] + pending'[u].buffered[k] 
                             = pending[u].both[k] + pending[u].buffered[k] + 0
      OBVIOUS
    <3>1. /\ pending[u].async[k] \in Nat /\ pending[u].both[k] \in Nat
          /\ pending[u].buffered[k] \in Nat
      BY DEF HistoryTypes
    <3> QED BY <1>3, <2>1, <3>1
  <2>4. /\ Total(Owed({}, k))' = Total(Owed({}, k)) + (IF t \in {} THEN 0 ELSE -n)
        /\ Total(OwedLater(k))' = Total(OwedLater(k)) + 0
    BY <1>1, <2>2, <2>3, OwedChanges
  <2>5. SameInserts /\ SameLoads /\ SameFlushes
    BY <1>1 DEF SameInserts, SameLoads, SameFlushes
  <2>6. /\ Units(Inserting({}, k))' = Units(Inserting({}, k))
        /\ Total(Inserting({}, k))' = Total(Inserting({}, k))
        /\ Units(Loaded({}, k))' = Units(Loaded({}, k))
        /\ Total(Loaded({}, k))' = Total(Loaded({}, k))
        /\ Total(Stored({}, k))' = Total(Stored({}, k))
    BY <1>1, <2>5, InsertsStay, LoadsStay, StoreStays
  <2>7. \A m \in Nat : m = m + 0
    OBVIOUS
  <2>8. Shifted({}, k, 0, 0, 0, -n, 0)
    BY <1>6, <2>2, <2>4, <2>6, <2>7, CountsFinite DEF Counts, Shifted
  <2>9. Added(k, 0, n)
    <3>1. promised'[k] = promised[k] + n
      BY <2>1, WaitIs
    <3> QED BY <1>1, <2>2, <3>1, TargetType DEF ObjectInv, MemoryInv, Added
  <2>10. 0 + 0 + 0 + 0 = n + (-n) + 0
    BY <2>2
  <2> QED BY <1>6, <2>8, <2>9, <2>10, ShiftBalance
<1> QED BY <1>1, <1>5, <1>6, Recount

-----------------------------------------------------------------------------
(* All of it together, operation by operation.                             *)

PromiseInv == 
  HistoryTypes /\ FlushInv /\ DroppedInv /\ SafeInv /\ FreshInv /\ CountInv

LEMMA DroppedMore == 
  ASSUME DroppedInv, dropped \subseteq dropped',
         \A a \in acts' \ acts : 
           /\ a.work.op = "erase" => a.work.key \in dropped'
           /\ a.work.op = "clear" => Keys \subseteq dropped'
  PROVE  DroppedInv'
BY DEF DroppedInv

LEMMA QuietPromised == 
  ASSUME ObjectInv, ObjectInv', PromiseInv, DroppedInv', Quiet
  PROVE  PromiseInv'
<1>1. HistoryTypes'
  BY DEF PromiseInv, HistoryTypes, Quiet
<1>2. FlushInv'
  BY QuietFlushes DEF PromiseInv
<1>3. SafeInv'
  BY QuietSafe DEF PromiseInv
<1>4. FreshInv'
  BY QuietFresh DEF PromiseInv
<1>5. CountInv'
  BY QuietCount, CallsAssumption DEF PromiseInv
<1> QED BY <1>1, <1>2, <1>3, <1>4, <1>5 DEF PromiseInv

\* removing a key and changing its values, at once or by an activity
LEMMA ErasePromised == 
  ASSUME ObjectInv, ObjectInv', PromiseInv, UNCHANGED <<kind, program>>, 
         NEW t \in Tasks, NEW name, NEW k \in Keys,
         \/ OneStep(t, name, k, "erase") /\ Drop({k})
         \/ OneStep(t, name, k, "apply") /\ NoHistory
  PROVE  PromiseInv'
<1> DEFINE l0 == TargetLocality(k)
<1>1. l0 \in Localities
  BY TargetType
<1>2. /\ UNCHANGED <<buffers, promised, pending, acts, doing>> /\ calls' >= calls
      /\ dropped \subseteq dropped'
  BY DEF OneStep, AtOnce, Calling, Drop, NoHistory, history, ObjectInv, TaskTypes
<1>3. PICK s : /\ mem' = [mem EXCEPT ![l0][k] = s] 
               /\ k \notin dropped' => Len(s) = Len(mem[l0][k])
  <2>1. CASE OneStep(t, name, k, "erase") /\ Drop({k})
    BY <2>1 DEF OneStep, Put, Drop
  <2>2. CASE OneStep(t, name, k, "apply") /\ NoHistory
    <3>1. mem[l0][k] \in Seq(Nat)
      BY <1>1 DEF ObjectInv, MemoryInv
    <3> HIDE DEF l0
    <3>2. Len(Applied(mem[l0][k])) = Len(mem[l0][k])
      BY <3>1 DEF Applied
    <3>3. mem' = [mem EXCEPT ![l0][k] = Applied(mem[l0][k])]
      BY <2>2 DEF OneStep, Put, Change, l0
    <3> QED BY <3>2, <3>3
  <2> QED BY <2>1, <2>2
<1> HIDE DEF l0
<1>4. \A l \in Localities : \A j \in Keys \ dropped' : 
        Len(mem'[l][j]) = Len(mem[l][j])
  BY <1>1, <1>3 DEF ObjectInv, MemoryInv
<1>5. Quiet
  BY <1>2, <1>4 DEF Quiet, IsFlushing
<1>6. DroppedInv'
  BY <1>2, DroppedMore DEF PromiseInv
<1> QED BY <1>5, <1>6, QuietPromised

LEMMA EraseLaterPromised == 
  ASSUME ObjectInv, ObjectInv', PromiseInv, UNCHANGED <<kind, program>>, 
         NEW t \in Tasks, NEW name, NEW k \in Keys, NEW again,
         \/ ByActivity(t, name, k, "erase", again) /\ Drop({k})
         \/ ByActivity(t, name, k, "apply", again) /\ NoHistory
  PROVE  PromiseInv'
<1>1. /\ UNCHANGED <<mem, buffers, promised, pending, doing>> /\ calls' >= calls
      /\ dropped \subseteq dropped' /\ acts \subseteq acts'
      /\ \A a \in acts' \ acts : 
           /\ a.work.op \in {"erase", "apply"}
           /\ a.work.op = "erase" => a.work.key \in dropped'
  BY DEF ByActivity, Leaving, Activity, Work, Calling, Drop, NoHistory, history, 
         memory, ObjectInv, TaskTypes
<1>2. Quiet
  BY <1>1 DEF Quiet, IsFlushing, IsMover, Moving
<1>3. DroppedInv'
  BY <1>1, DroppedMore DEF PromiseInv
<1> QED BY <1>2, <1>3, QuietPromised

LEMMA RunErasePromised == 
  ASSUME ObjectInv, ObjectInv', PromiseInv, UNCHANGED <<kind, program>>, 
         NEW a \in acts, 
         \/ RunWork(a) /\ a.work.op \in {"erase", "apply"} 
         \/ RunClear(a)
  PROVE  PromiseInv'
<1>1. /\ UNCHANGED <<buffers, promised, pending, dropped, doing, calls>>
      /\ acts' = acts \ {a} /\ a.work.op \in {"erase", "apply", "clear"}
      /\ calls \in Nat /\ a \in Activities
  BY DEF RunWork, RunClear, Running, NoHistory, history, ObjectInv, TaskTypes
<1>2. \A l \in Localities : \A j \in Keys \ dropped : 
        Len(mem'[l][j]) = Len(mem[l][j])
  <2>1. CASE RunClear(a)
    BY <2>1 DEF RunClear, PromiseInv, DroppedInv
  <2>2. CASE RunWork(a) /\ a.work.op = "erase"
    <3>1. mem' = [mem EXCEPT ![a.at][a.work.key] = <<>>] /\ a.work.key \in dropped
      BY <2>2 DEF RunWork, Put, Change, PromiseInv, DroppedInv
    <3> QED BY <3>1 DEF ObjectInv, MemoryInv
  <2>3. CASE RunWork(a) /\ a.work.op = "apply"
    <3>1. a.at \in Localities /\ a.work.key \in Keys
      BY <1>1, <2>3 DEF Activities, Works
    <3>2. mem[a.at][a.work.key] \in Seq(Nat)
      BY <3>1 DEF ObjectInv, MemoryInv
    <3>3. Len(Applied(mem[a.at][a.work.key])) = Len(mem[a.at][a.work.key])
      BY <3>2 DEF Applied
    <3>4. mem' = [mem EXCEPT ![a.at][a.work.key] = Applied(mem[a.at][a.work.key])]
      BY <2>3 DEF RunWork, Put, Change
    <3> QED BY <3>1, <3>3, <3>4 DEF ObjectInv, MemoryInv
  <2> QED BY <2>1, <2>2, <2>3, <1>1
<1>3. Quiet
  BY <1>1, <1>2 DEF Quiet, IsFlushing, IsMover, Moving
<1>4. DroppedInv'
  BY <1>1, DroppedMore DEF PromiseInv
<1> QED BY <1>3, <1>4, QuietPromised

LEMMA ClearAllPromised == 
  ASSUME ObjectInv, ObjectInv', PromiseInv, UNCHANGED <<kind, program>>, 
         NEW t \in Tasks, NEW name, ClearAll(t, name)
  PROVE  PromiseInv'
<1>1. /\ UNCHANGED <<mem, buffers, promised, pending>> /\ calls' >= calls
      /\ dropped \subseteq dropped' /\ Keys \subseteq dropped' /\ acts \subseteq acts'
      /\ \A a \in acts' \ acts : a.work.op = "clear"
  BY DEF ClearAll, Waiting, OnAll, Activity, Calling, Drop, memory, ObjectInv, TaskTypes
<1>2. \A u \in Tasks : IsFlushing(u)' <=> IsFlushing(u)
  BY DEF ClearAll, Waiting, Become, IsFlushing, Idle
<1>3. Quiet
  BY <1>1, <1>2 DEF Quiet, IsMover, Moving
<1>4. DroppedInv'
  BY <1>1, DroppedMore DEF PromiseInv
<1> QED BY <1>3, <1>4, QuietPromised

LEMMA NothingPromised == 
  ASSUME ObjectInv, ObjectInv', PromiseInv, UNCHANGED <<kind, program>>, 
         NEW t \in Tasks, NEW name, Calling(t, name), AtOnce, 
         UNCHANGED <<memory, look>>, NoHistory
  PROVE  PromiseInv'
<1>1. /\ UNCHANGED <<mem, buffers, promised, pending, dropped, doing, acts>> 
      /\ calls' >= calls
  BY DEF Calling, AtOnce, NoHistory, history, memory, ObjectInv, TaskTypes
<1>2. Quiet
  BY <1>1 DEF Quiet, IsFlushing
<1>3. DroppedInv'
  BY <1>1, DroppedMore DEF PromiseInv
<1> QED BY <1>2, <1>3, QuietPromised

\* insertions, at once or by an activity
LEMMA InsertPromised == 
  ASSUME ObjectInv, ObjectInv', PromiseInv, UNCHANGED <<kind, program>>, 
         kind # "replicated", NEW t \in Tasks, NEW name, NEW k \in Keys, 
         NEW op \in InsertOps, op = "keep" => kind # "multimap",
         OneStep(t, name, k, op), Promise(k)
  PROVE  PromiseInv'
<1>1. /\ UNCHANGED <<buffers, pending, dropped, doing, acts>> /\ calls' >= calls
  BY DEF OneStep, AtOnce, Calling, Promise, ObjectInv, TaskTypes
<1>2. HistoryTypes'
  BY <1>1 DEF PromiseInv, HistoryTypes, Promise
<1>3. FlushInv'
  <2>1. Plainly
    BY <1>1 DEF Plainly, IsFlushing
  <2> QED BY <2>1, PlainlyFlushes DEF PromiseInv
<1>4. DroppedInv'
  BY <1>1, DroppedMore DEF PromiseInv
<1>5. SafeInv'
  BY InsertSafe DEF PromiseInv
<1>6. FreshInv'
  BY <1>1, NothingNew DEF PromiseInv, ShortBuffers
<1>7. CountInv'
  <2>1. CASE kind = "multimap"
    <3>1. OneStep(t, name, k, "insert")
      BY <2>1 DEF InsertOps
    <3> QED BY <3>1, InsertCount, CallsAssumption DEF PromiseInv
  <2>2. CASE kind # "multimap"
    BY <2>2 DEF CountInv
  <2> QED BY <2>1, <2>2
<1> QED BY <1>2, <1>3, <1>4, <1>5, <1>6, <1>7 DEF PromiseInv

\* activities that will insert the key at all its places
LEMMA LaterPromised == 
  ASSUME ObjectInv, ObjectInv', PromiseInv, UNCHANGED <<kind, program>>, 
         UNCHANGED <<mem, buffers, doing>>, calls' = calls + 1,
         NEW t \in Tasks, NEW k \in Keys, Later(t, "async", k), acts \subseteq acts',
         \A a \in acts' \ acts : 
           a.async /\ a.work.op \in InsertOps,
         \A l \in Places(k) : \E a \in acts' : 
           a.task = t /\ a.work.op \in InsertOps /\ a.at = l /\ a.work.key = k
  PROVE  HistoryTypes' /\ FlushInv' /\ DroppedInv' /\ SafeInv'
<1>1. /\ HistoryTypes' /\ UNCHANGED <<promised, dropped>>
      /\ \A u \in Tasks : UNCHANGED <<pending[u].both, pending[u].buffered>>
  BY LaterIs DEF PromiseInv
<1>2. FlushInv'
  <2>1. Plainly
    BY <1>1 DEF Plainly, IsFlushing, InsertOps
  <2> QED BY <2>1, PlainlyFlushes DEF PromiseInv
<1>3. DroppedInv'
  BY <1>1, DroppedMore DEF PromiseInv, InsertOps
<1>4. SafeInv'
  BY LaterSafe DEF PromiseInv
<1> QED BY <1>1, <1>2, <1>3, <1>4

LEMMA InsertLaterPromised == 
  ASSUME ObjectInv, ObjectInv', PromiseInv, UNCHANGED <<kind, program>>, 
         kind # "replicated", NEW t \in Tasks, NEW name, NEW k \in Keys, 
         NEW op \in InsertOps, op = "keep" => kind # "multimap",
         NEW again, ByActivity(t, name, k, op, again), Later(t, "async", k)
  PROVE  PromiseInv'
<1> DEFINE a == Activity(t, TRUE, TargetLocality(k), Work(op, k, again))
<1>1. /\ UNCHANGED <<mem, buffers, doing>> /\ calls' = calls + 1 
      /\ acts' = acts \cup {a}
  BY DEF ByActivity, Leaving, Calling, memory
<1>2. /\ a.task = t /\ a.async /\ a.at = TargetLocality(k) /\ a.number = calls
      /\ a.work.op = op /\ a.work.key = k
  BY DEF Activity, Work
<1>3. a \in Activities
  BY <1>1 DEF ObjectInv, TaskTypes
<1> HIDE DEF a
<1>4. Places(k) = {TargetLocality(k)}
  BY PlacesAre
<1>5. HistoryTypes' /\ FlushInv' /\ DroppedInv' /\ SafeInv'
  BY <1>1, <1>2, <1>4, LaterPromised
<1>6. FreshInv' /\ CountInv'
  <2>1. CASE kind = "multimap"
    <3>1. a.work.op = "insert" /\ IsInsertOf(a, k)
      BY <2>1, <1>2 DEF InsertOps, IsInsertOf
    <3>2. FreshInv'
      BY <3>1, <1>1, <1>2, LaterFresh DEF PromiseInv
    <3>3. CountInv'
      BY <3>1, <1>1, <1>2, <1>3, LaterCount, CallsAssumption DEF PromiseInv
    <3> QED BY <3>2, <3>3
  <2>2. CASE kind # "multimap"
    BY <2>2 DEF CountInv, FreshInv
  <2> QED BY <2>1, <2>2
<1> QED BY <1>5, <1>6 DEF PromiseInv

LEMMA InsertEverywherePromised == 
  ASSUME ObjectInv, ObjectInv', PromiseInv, UNCHANGED <<kind, program>>, 
         kind = "replicated", NEW t \in Tasks, NEW name, NEW k \in Keys, 
         InsertEverywhere(t, name, k)
  PROVE  PromiseInv'
<1> DEFINE a(l) == Activity(t, TRUE, l, Work("insert", k, FALSE))
<1>1. /\ UNCHANGED <<mem, buffers, doing>> /\ calls' = calls + 1 
      /\ acts' = acts \cup {a(l) : l \in Localities} /\ Later(t, "async", k)
  BY DEF InsertEverywhere, Leaving, OnAll, Calling, memory
<1>2. \A l : /\ a(l).task = t /\ a(l).async /\ a(l).at = l 
             /\ a(l).work.op = "insert" /\ a(l).work.key = k
  BY DEF Activity, Work
<1> HIDE DEF a
<1>4. Places(k) \subseteq Localities /\ "insert" \in InsertOps
  BY PlacesAre DEF InsertOps
<1>5. \A l \in Places(k) : \E b \in acts' : 
        b.task = t /\ b.work.op \in InsertOps /\ b.at = l /\ b.work.key = k
  BY <1>1, <1>2, <1>4
<1>6. \A b \in acts' \ acts : b.async /\ b.work.op \in InsertOps
  BY <1>1, <1>2, <1>4
<1>7. HistoryTypes' /\ FlushInv' /\ DroppedInv' /\ SafeInv'
  BY <1>1, <1>5, <1>6, LaterPromised
<1>8. FreshInv' /\ CountInv'
  BY DEF CountInv, FreshInv
<1> QED BY <1>7, <1>8 DEF PromiseInv

\* insertions into a buffer
LEMMA BufferedPromised == 
  ASSUME ObjectInv, ObjectInv', PromiseInv, UNCHANGED <<kind, program>>, 
         kind # "replicated", NEW t \in Tasks, NEW name, NEW k \in Keys, 
         InsertBuffered(t, name, k) \/ AsyncInsertBuffered(t, name, k)
  PROVE  PromiseInv'
<1>1. /\ HistoryTypes' /\ dropped' = dropped 
      /\ \A a \in acts' \ acts : a.work.op = "deliver"
  <2>1. CASE InsertBuffered(t, name, k)
    <3>1. Later(t, "buffered", k) /\ acts' = acts
      BY <2>1, InsertBufferedIs DEF PromiseInv
    <3> QED BY <3>1, LaterIs DEF PromiseInv
  <2>2. CASE AsyncInsertBuffered(t, name, k)
    <3>1. /\ Later(t, "both", k)
          /\ acts' = IF IsFull(Home[t], k) 
               THEN acts \cup {Activity(t, TRUE, TargetLocality(k), 
                                 Delivery(Home[t], InBuffer(Home[t], k)))}
               ELSE acts
      BY <2>2, InsertBufferedIs DEF PromiseInv
    <3>2. HistoryTypes' /\ dropped' = dropped 
      BY <3>1, LaterIs DEF PromiseInv
    <3> QED BY <3>1, <3>2 DEF Activity, Delivery
  <2> QED BY <2>1, <2>2
<1>2. FlushInv'
  BY BufferedFlushes DEF PromiseInv
<1>3. DroppedInv'
  BY <1>1, DroppedMore DEF PromiseInv
<1>4. SafeInv'
  BY InsertBufferedSafe, AsyncInsertBufferedSafe DEF PromiseInv
<1>5. FreshInv'
  BY InsertBufferedFresh, AsyncInsertBufferedFresh DEF PromiseInv
<1>6. CountInv'
  BY InsertBufferedCount, AsyncInsertBufferedCount, CallsAssumption DEF PromiseInv
<1> QED BY <1>1, <1>2, <1>3, <1>4, <1>5, <1>6 DEF PromiseInv

LEMMA ReadFilesPromised == 
  ASSUME ObjectInv, ObjectInv', PromiseInv, UNCHANGED <<kind, program>>, 
         kind = "multimap", NEW t \in Tasks, ReadFiles(t)
  PROVE  PromiseInv'
<1>1. /\ HistoryTypes' /\ dropped' = dropped 
      /\ acts' = acts \cup {Activity(t, TRUE, 0, [op |-> "read", key |-> k]) : k \in Keys}
  BY ReadFilesIs DEF PromiseInv
<1>2. \A a \in acts' \ acts : a.work.op = "read"
  BY <1>1 DEF Activity
<1>3. FlushInv'
  BY BufferedFlushes DEF PromiseInv
<1>4. DroppedInv'
  BY <1>1, <1>2, DroppedMore DEF PromiseInv
<1>5. SafeInv'
  BY DEF SafeInv
<1>6. FreshInv'
  BY ReadFilesFresh DEF PromiseInv
<1>7. CountInv'
  BY ReadFilesCount, CallsAssumption DEF PromiseInv
<1> QED BY <1>1, <1>3, <1>4, <1>5, <1>6, <1>7 DEF PromiseInv

LEMMA ReadFilePromised == 
  ASSUME ObjectInv, ObjectInv', PromiseInv, UNCHANGED <<kind, program>>, 
         kind = "multimap", NEW a \in acts, ReadFile(a)
  PROVE  PromiseInv'
<1>1. PICK l : /\ UNCHANGED history
               /\ acts' \subseteq acts \cup 
                   {[a EXCEPT !.at = TargetLocality(a.work.key), 
                              !.work = Delivery(l, InBuffer(l, a.work.key))]}
  BY ReadFileIs
<1>2. HistoryTypes'
  BY <1>1 DEF PromiseInv, HistoryTypes, history
<1>3. \A b \in acts' \ acts : b.work.op = "deliver"
  <2>1. a \in Activities
    BY DEF ObjectInv, TaskTypes
  <2> DEFINE w == Delivery(l, InBuffer(l, a.work.key))
             b == Successor(a, TargetLocality(a.work.key), w)
  <2>2. b.work = w /\ w.op = "deliver"
    BY <2>1, SuccessorIs DEF Delivery
  <2>3. acts' \subseteq acts \cup {b}
    BY <1>1 DEF Successor
  <2> HIDE DEF b, w
  <2> QED BY <2>2, <2>3
<1>4. FlushInv'
  BY ReadFileFlushes DEF PromiseInv
<1>5. DroppedInv'
  BY <1>1, <1>3, DroppedMore DEF PromiseInv, history
<1>6. SafeInv'
  BY DEF SafeInv
<1>7. FreshInv'
  BY ReadFileFresh DEF PromiseInv
<1>8. CountInv'
  BY <1>2, ReadFileCount, CallsAssumption DEF PromiseInv
<1> QED BY <1>2, <1>4, <1>5, <1>6, <1>7, <1>8 DEF PromiseInv

\* flushes
LEMMA FlushPromised == 
  ASSUME ObjectInv, ObjectInv', PromiseInv, UNCHANGED <<kind, program>>, 
         kind # "replicated", NEW t \in Tasks, FlushAllBuffers(t)
  PROVE  PromiseInv'
<1>1. /\ UNCHANGED <<buffers, history, calls>>
      /\ \A a \in acts' \ acts : a.work.op = "flush"
  BY FlushIs
<1>2. HistoryTypes'
  BY <1>1 DEF PromiseInv, HistoryTypes, history
<1>3. FlushInv'
  BY FlushFlushes DEF PromiseInv
<1>4. DroppedInv'
  BY <1>1, DroppedMore DEF PromiseInv, history
<1>5. SafeInv'
  BY FlushSafe DEF PromiseInv
<1>6. FreshInv'
  <2>1. calls' >= calls
    BY <1>1 DEF ObjectInv, TaskTypes
  <2> QED BY <1>1, <2>1, NothingNew DEF PromiseInv, ShortBuffers, IsMover, Moving
<1>7. CountInv'
  BY FlushCount, CallsAssumption DEF PromiseInv
<1> QED BY <1>2, <1>3, <1>4, <1>5, <1>6, <1>7 DEF PromiseInv

LEMMA AsyncFlushPromised == 
  ASSUME ObjectInv, ObjectInv', PromiseInv, UNCHANGED <<kind, program>>, 
         kind # "replicated", NEW t \in Tasks, AsyncFlushAllBuffers(t)
  PROVE  PromiseInv'
<1>1. /\ HistoryTypes' /\ dropped' = dropped
      /\ \A a \in acts' \ acts : a.work.op = "asyncflush"
  BY AsyncFlushIs DEF PromiseInv
<1>3. FlushInv'
  BY AsyncFlushFlushes DEF PromiseInv
<1>4. DroppedInv'
  BY <1>1, DroppedMore DEF PromiseInv
<1>5. SafeInv'
  BY AsyncFlushSafe DEF PromiseInv
<1>6. FreshInv'
  BY AsyncFlushFresh DEF PromiseInv
<1>7. CountInv'
  BY AsyncFlushCount, CallsAssumption DEF PromiseInv
<1> QED BY <1>1, <1>3, <1>4, <1>5, <1>6, <1>7 DEF PromiseInv

\* the end of a call and of a wait
LEMMA ReturnPromised == 
  ASSUME ObjectInv, ObjectInv', PromiseInv, UNCHANGED <<kind, program>>, 
         NEW t \in Tasks, Return(t) \/ waitForCompletion(t)
  PROVE  PromiseInv'
<1>1. HistoryTypes' /\ UNCHANGED <<buffers, acts, calls, dropped>>
  BY ReturnIs, WaitIs DEF PromiseInv
<1>3. FlushInv'
  BY ReturnFlushes DEF PromiseInv
<1>4. DroppedInv'
  BY <1>1, DroppedMore DEF PromiseInv
<1>5. SafeInv'
  BY ReturnSafe, WaitSafe DEF PromiseInv
<1>6. FreshInv'
  <2>1. calls' >= calls
    BY <1>1 DEF ObjectInv, TaskTypes
  <2> QED BY <1>1, <2>1, NothingNew DEF PromiseInv, ShortBuffers
<1>7. CountInv'
  BY ReturnCount, WaitCount, CallsAssumption DEF PromiseInv
<1> QED BY <1>1, <1>3, <1>4, <1>5, <1>6, <1>7 DEF PromiseInv

\* the steps of activities
LEMMA RunAgainPromised == 
  ASSUME ObjectInv, ObjectInv', PromiseInv, UNCHANGED <<kind, program>>, 
         NEW a \in acts, RunAgain(a)
  PROVE  PromiseInv'
<1> DEFINE b == [a EXCEPT !.work.again = FALSE]
<1>1. /\ UNCHANGED <<mem, buffers, doing, calls, history>> /\ IsWork(a)
      /\ acts' = (acts \ {a}) \cup {b}
  BY DEF RunAgain, Running, memory, NoHistory
<1>2. /\ a \in Activities /\ a.work.op \in {"insert", "keep", "erase", "apply"}
      /\ a.work \in [op : {"insert", "keep", "erase", "apply"}, key : Keys, 
                     again : BOOLEAN]
  BY <1>1 DEF ObjectInv, TaskTypes, Activities, Works, IsWork
<1>3. /\ b.task = a.task /\ b.async = a.async /\ b.number = a.number /\ b.at = a.at
      /\ b.work.op = a.work.op /\ b.work.key = a.work.key
  BY <1>2 DEF Activities
<1> HIDE DEF b
<1>4. HistoryTypes'
  BY <1>1 DEF PromiseInv, HistoryTypes, history
<1>5. FlushInv'
  <2>1. a.work.op \in Moving => a.async
    BY <1>2 DEF PromiseInv, FlushInv
  <2>2. \A c \in acts' \ acts : IsMover(c) => c.work.op \in InsertOps /\ c.async
    BY <1>1, <1>2, <1>3, <2>1 DEF IsMover, Moving, InsertOps
  <2>3. Plainly
    BY <1>1, <1>2, <2>2 DEF Plainly, IsFlushing, history
  <2> QED BY <2>3, PlainlyFlushes DEF PromiseInv
<1>6. DroppedInv'
  <2>1. a.work.op = "erase" => a.work.key \in dropped
    BY DEF PromiseInv, DroppedInv
  <2>2. \A c \in acts' \ acts : 
          (c.work.op = "erase" => c.work.key \in dropped') /\ c.work.op # "clear"
    BY <2>1, <1>1, <1>2, <1>3 DEF history
  <2> QED BY <2>2, <1>1, DroppedMore DEF PromiseInv, history
<1>7. SafeInv'
  BY RunAgainSafe DEF PromiseInv
<1>8. FreshInv'
  BY RunAgainFresh DEF PromiseInv
<1>9. CountInv'
  BY <1>4, RunAgainCount, CallsAssumption DEF PromiseInv
<1> QED BY <1>4, <1>5, <1>6, <1>7, <1>8, <1>9 DEF PromiseInv

LEMMA RunInsertPromised == 
  ASSUME ObjectInv, ObjectInv', PromiseInv, UNCHANGED <<kind, program>>, 
         NEW a \in acts, 
         \/ RunWork(a) /\ a.work.op \in InsertOps 
         \/ RunDeliver(a)
  PROVE  PromiseInv'
<1>1. /\ UNCHANGED <<buffers, doing, calls, history>> /\ acts' = acts \ {a}
      /\ a.work.op # "flush" /\ calls' >= calls
  BY DEF RunWork, RunDeliver, Running, InsertOps, NoHistory, ObjectInv, TaskTypes
<1>2. HistoryTypes'
  BY <1>1 DEF PromiseInv, HistoryTypes, history
<1>3. FlushInv'
  <2>1. Plainly
    BY <1>1 DEF Plainly, IsFlushing, history
  <2> QED BY <2>1, PlainlyFlushes DEF PromiseInv
<1>4. DroppedInv'
  BY <1>1, DroppedMore DEF PromiseInv, history
<1>5. SafeInv'
  BY RunWorkSafe, RunDeliverSafe DEF PromiseInv
<1>6. FreshInv'
  BY <1>1, NothingNew DEF PromiseInv, ShortBuffers
<1>7. CountInv'
  <2>1. CASE RunDeliver(a)
    BY <1>2, <2>1, RunDeliverCount, CallsAssumption DEF PromiseInv
  <2>2. CASE RunWork(a) /\ a.work.op \in InsertOps /\ kind = "multimap"
    <3>1. a.work.op = "insert"
      BY <2>2 DEF InsertOps, PromiseInv, FreshInv, Numbered
    <3> QED BY <1>2, <2>2, <3>1, RunWorkCount, CallsAssumption DEF PromiseInv
  <2>3. CASE kind # "multimap"
    BY <2>3 DEF CountInv
  <2> QED BY <2>1, <2>2, <2>3
<1> QED BY <1>2, <1>3, <1>4, <1>5, <1>6, <1>7 DEF PromiseInv

LEMMA RunFlushPromised == 
  ASSUME ObjectInv, ObjectInv', PromiseInv, UNCHANGED <<kind, program>>, 
         NEW a \in acts, RunFlush(a) \/ RunAsyncFlush(a)
  PROVE  PromiseInv'
<1>1. UNCHANGED history
  BY DEF RunFlush, RunAsyncFlush, NoHistory
<1>2. \A b \in acts' \ acts : b.work.op = "deliver"
  <2>1. CASE RunFlush(a)
    BY <2>1, RunFlushIs
  <2>2. CASE RunAsyncFlush(a)
    <3>1. a \in Activities
      BY DEF ObjectInv, TaskTypes
    <3>2. \A b \in acts' \ acts : \E i \in Localities : 
            b = Successor(a, i, Delivery(a.at, buffers[a.at][i]))
      BY <2>2, RunAsyncFlushIs DEF Successor
    <3>3. \A i, w : Successor(a, i, w).work = w
      BY <3>1, SuccessorIs
    <3>4. \A i, ks : Delivery(i, ks).op = "deliver"
      BY DEF Delivery
    <3> QED BY <3>2, <3>3, <3>4
  <2> QED BY <2>1, <2>2
<1>3. HistoryTypes'
  BY <1>1 DEF PromiseInv, HistoryTypes, history
<1>4. FlushInv'
  BY RunFlushFlushes, RunAsyncFlushFlushes DEF PromiseInv
<1>5. DroppedInv'
  BY <1>1, <1>2, DroppedMore DEF PromiseInv, history
<1>6. SafeInv'
  BY RunFlushSafe, RunAsyncFlushSafe DEF PromiseInv
<1>7. FreshInv'
  BY RunFlushFresh, RunAsyncFlushFresh DEF PromiseInv
<1>8. CountInv'
  BY <1>3, RunFlushCount, RunAsyncFlushCount, CallsAssumption DEF PromiseInv
<1> QED BY <1>3, <1>4, <1>5, <1>6, <1>7, <1>8 DEF PromiseInv

LEMMA RunPromised == 
  ASSUME ObjectInv, ObjectInv', PromiseInv, UNCHANGED <<kind, program>>, 
         NEW a \in acts, RunActivity(a)
  PROVE  PromiseInv'
<1>1. RunWork(a) => a.work.op \in InsertOps \cup {"erase", "apply"}
  BY DEF RunWork, IsWork, InsertOps
<1> QED BY <1>1, RunAgainPromised, RunInsertPromised, RunErasePromised, 
           RunFlushPromised DEF RunActivity

-----------------------------------------------------------------------------
(* What is promised is there.                                              *)

\* the sum of the sums of two functions
LEMMA TotalOfSums == 
  ASSUME NEW C, IsFiniteSet(C), NEW f \in [C -> Nat], NEW g \in [C -> Nat], 
         NEW h \in [C -> Nat], \A c \in C : h[c] = f[c] + g[c]
  PROVE  Total(h) = Total(f) + Total(g)
<1> DEFINE upper == {u \in Units(h) : u \notin Units(f)}
           lift == [u \in Units(g) |-> <<u[1], f[u[1]] + u[2]>>]
<1>1. /\ \A u \in Units(g) : u[1] \in C /\ u[2] \in 1..g[u[1]] /\ u = <<u[1], u[2]>>
      /\ \A u \in Units(h) : u[1] \in C /\ u[2] \in 1..h[u[1]] /\ u = <<u[1], u[2]>>
      /\ \A c \in C, n \in Int : <<c, n>> \in Units(f) <=> n \in 1..f[c]
      /\ \A c \in C, n \in Int : <<c, n>> \in Units(g) <=> n \in 1..g[c]
      /\ \A c \in C, n \in Int : <<c, n>> \in Units(h) <=> n \in 1..h[c]
  BY DEF Units
<1>2. ASSUME NEW u \in Units(g) PROVE lift[u] \in upper
  <2>1. PICK c \in C, n \in Int : n \in 1..g[c] /\ u = <<c, n>>
    BY <1>1
  <2>2. f[c] + n \in 1..h[c] /\ f[c] + n \notin 1..f[c] /\ f[c] + n \in Int
    BY <2>1
  <2>3. lift[u] = <<c, f[c] + n>>
    BY <2>1
  <2> QED BY <1>1, <2>2, <2>3
<1>3. ASSUME NEW v \in upper PROVE \E u \in Units(g) : lift[u] = v
  <2>1. PICK c \in C, n \in Int : n \in 1..h[c] /\ v = <<c, n>>
    BY <1>1
  <2>2. n \in Int /\ n \notin 1..f[c]
    BY <1>1, <2>1
  <2>3. n - f[c] \in 1..g[c] /\ f[c] + (n - f[c]) = n
    BY <2>1, <2>2
  <2>4. <<c, n - f[c]>> \in Units(g)
    BY <1>1, <2>3
  <2>5. lift[<<c, n - f[c]>>] = <<c, f[c] + (n - f[c])>>
    BY <2>4
  <2> QED BY <2>1, <2>3, <2>4, <2>5
<1>4. ASSUME NEW u \in Units(g), NEW v \in Units(g), lift[u] = lift[v] PROVE u = v
  <2>1. PICK c \in C, n \in Int : n \in 1..g[c] /\ u = <<c, n>>
    BY <1>1
  <2>2. PICK d \in C, m \in Int : m \in 1..g[d] /\ v = <<d, m>>
    BY <1>1
  <2>3. lift[u] = <<c, f[c] + n>> /\ lift[v] = <<d, f[d] + m>>
    BY <2>1, <2>2
  <2>4. c = d /\ f[c] + n = f[d] + m
    BY <1>4, <2>3
  <2>5. n = m
    BY <2>1, <2>2, <2>4
  <2> QED BY <2>1, <2>2, <2>4, <2>5
<1>5. lift \in Bijection(Units(g), upper)
  <2>1. lift = [u \in Units(g) |-> lift[u]] 
    OBVIOUS
  <2> HIDE DEF lift, upper
  <2> QED BY <2>1, <1>2, <1>3, <1>4 DEF Bijection, Injection, Surjection, IsInjective
<1>6. Units(h) = Units(f) \cup upper /\ Units(f) \cap upper = {}
  <2>1. ASSUME NEW u \in Units(f) PROVE u \in Units(h)
    <3>1. PICK c \in C, n \in Int : n \in 1..f[c] /\ u = <<c, n>>
      BY DEF Units
    <3>2. n \in 1..h[c] /\ n \in Int
      BY <3>1
    <3> QED BY <1>1, <3>1, <3>2
  <2> QED BY <2>1
<1>7. /\ IsFiniteSet(Units(f)) /\ Total(f) \in Nat
      /\ IsFiniteSet(Units(g)) /\ Total(g) \in Nat
  BY TotalFinite
<1> HIDE DEF upper, lift
<1>8. IsFiniteSet(upper) /\ Cardinality(upper) = Cardinality(Units(g))
  BY <1>5, <1>7, FS_Bijection DEF ExistsBijection
<1>9. Cardinality(Units(h)) = Cardinality(Units(f)) + Cardinality(upper)
  <2>1. /\ Cardinality(Units(f)) \in Nat /\ Cardinality(upper) \in Nat
        /\ Cardinality({}) = 0
    BY <1>7, <1>8, FS_CardinalityType, FS_EmptySet
  <2>2. Cardinality(Units(f) \cup upper) = 
          Cardinality(Units(f)) + Cardinality(upper) - Cardinality(Units(f) \cap upper)
    BY <1>7, <1>8, FS_Union
  <2>3. Cardinality(Units(f) \cap upper) = 0
    BY <1>6, <2>1
  <2>4. Cardinality(Units(f) \cup upper) = Cardinality(Units(h))
    BY <1>6
  <2> QED BY <2>1, <2>2, <2>3, <2>4
<1> QED BY <1>8, <1>9 DEF Total

\* what is owed, task by task
LEMMA OwedInAll == 
  ASSUME ObjectInv, HistoryTypes, NEW k \in Keys
  PROVE  Unpromised(k) = Total(Owed({}, k)) + Total(OwedLater(k))
<1> DEFINE of == [t \in Tasks |-> 
      pending[t].async[k] + pending[t].both[k] + pending[t].buffered[k]]
<1>1. \A t \in Tasks : /\ pending[t].async[k] \in Nat /\ pending[t].both[k] \in Nat 
                       /\ pending[t].buffered[k] \in Nat
  BY DEF HistoryTypes
<1>2. of \in [Tasks -> Nat] /\ \A t \in Tasks : of[t] = Owed({}, k)[t] + OwedLater(k)[t]
  BY <1>1 DEF Owed, OwedLater
<1>6. Unpromised(k) = FoldSet(LAMBDA t, n : n + of[t], 0, Tasks)
  BY DEF Unpromised
<1> HIDE DEF of
<1>3. Owed({}, k) \in [Tasks -> Nat] /\ OwedLater(k) \in [Tasks -> Nat]
  BY CountTypes DEF CountsTyped
<1>4. Total(of) = Total(Owed({}, k)) + Total(OwedLater(k))
  BY <1>2, <1>3, TotalOfSums, CallsAssumption
<1>5. FoldSet(LAMBDA t, n : n + of[t], 0, Tasks) = Total(of)
  BY <1>2, FoldIsTotal, CallsAssumption
<1> QED BY <1>4, <1>5, <1>6

LEMMA PromisesHold == 
  ASSUME ObjectInv, PromiseInv, NEW k \in Keys \ dropped, NEW l \in Places(k)
  PROVE  IF kind = "multimap" 
           THEN /\ Len(mem[l][k]) >= promised[k]
                /\ Len(mem[l][k]) <= promised[k] + Unpromised(k)
           ELSE promised[k] > 0 => mem[l][k] # <<>>
<1>1. CASE kind # "multimap"
  BY <1>1 DEF PromiseInv, SafeInv, Safe, Present, Awaited
<1>2. CASE kind = "multimap"
  <2>1. l = TargetLocality(k) /\ l \in Localities
    BY <1>2, PlacesAre, TargetType
  <2>2. Counts({}, k) /\ Balanced(k)
    BY <1>2 DEF PromiseInv, CountInv
  <2> DEFINE i == Total(Inserting({}, k))
             d == Total(Loaded({}, k))
             b == Total(Stored({}, k))
             o == Total(Owed({}, k))
             q == Total(OwedLater(k))
             n == Len(mem[l][k])
             p == promised[k]
  <2>3. i \in Nat /\ d \in Nat /\ b \in Nat /\ o \in Nat /\ q \in Nat
    BY <2>2, CountsFinite, CallsAssumption DEF PromiseInv, Counts
  <2>4. n \in Nat /\ p \in Nat
    BY <2>1 DEF ObjectInv, MemoryInv, PromiseInv, HistoryTypes
  <2>5. i + d + b <= o + q /\ n + i + d + b = p + o + q
    BY <2>1, <2>2 DEF Counts, Balanced
  <2>6. Unpromised(k) = o + q
    BY OwedInAll DEF PromiseInv
  <2> HIDE DEF i, d, b, o, q, n, p
  <2>7. n >= p /\ n <= p + Unpromised(k)
    BY <2>3, <2>4, <2>5, <2>6
  <2> QED BY <1>2, <2>7 DEF n, p
<1> QED BY <1>1, <1>2

LEMMA NothingYet == 
  ASSUME ObjectInv, HistoryTypes, acts = {}, 
         \A i, l \in Localities : buffers[i][l] = <<>>,
         \A t \in Tasks, j \in Keys : 
           /\ pending[t].async[j] = 0 /\ pending[t].both[j] = 0 
           /\ pending[t].buffered[j] = 0,
         NEW s, NEW k \in Keys
  PROVE  /\ IsFiniteSet(Units(Inserting(s, k))) /\ Total(Inserting(s, k)) = 0
         /\ IsFiniteSet(Units(Loaded(s, k))) /\ Total(Loaded(s, k)) = 0
         /\ Total(Stored(s, k)) = 0 /\ Total(Owed(s, k)) = 0 
         /\ Total(OwedLater(k)) = 0
<1>1. /\ Inserting(s, k) \in [Activities -> Nat]
      /\ Loaded(s, k) \in [Activities -> Nat]
      /\ Stored(s, k) \in [Localities -> Nat]
      /\ Owed(s, k) \in [Tasks -> Nat] /\ OwedLater(k) \in [Tasks -> Nat]
  BY CountTypes DEF CountsTyped
<1>2. Occurs(k, <<>>) = 0
  <2>1. <<>> \in Seq(Keys)
    OBVIOUS
  <2> QED BY <2>1, OccursIs
<1>3. /\ \A a \in Activities : Inserting(s, k)[a] = 0 /\ Loaded(s, k)[a] = 0
      /\ \A i \in Localities : Stored(s, k)[i] = 0
      /\ \A t \in Tasks : Owed(s, k)[t] = 0 /\ OwedLater(k)[t] = 0
  <2>1. \A a \in Activities : Inserting(s, k)[a] = 0 /\ Loaded(s, k)[a] = 0
    BY DEF Inserting, Loaded
  <2>2. \A i \in Localities : Stored(s, k)[i] = 0
    BY <1>2, TargetType DEF Stored
  <2>3. \A t \in Tasks : Owed(s, k)[t] = 0 /\ OwedLater(k)[t] = 0
    BY DEF Owed, OwedLater
  <2> QED BY <2>1, <2>2, <2>3
<1> QED BY <1>1, <1>3, TotalNothing

LEMMA PromisesBegin == ObjectInv /\ Init => PromiseInv
<1> SUFFICES ASSUME ObjectInv, Init PROVE PromiseInv
  OBVIOUS
<1>1. PICK present \in program.contents : 
        /\ mem = [l \in Localities |-> [k \in Keys |-> 
                   IF k \in present /\ l \in Places(k) THEN <<1>> ELSE <<>>]]
        /\ promised = [k \in Keys |-> IF k \in present THEN 1 ELSE 0]
  BY DEF Init
<1>2. /\ acts = {} /\ dropped = {} /\ \A t \in Tasks : ~ IsFlushing(t)
      /\ \A i, l \in Localities : buffers[i][l] = <<>>
      /\ pending = [t \in Tasks |-> 
                     [async |-> NoKeys, both |-> NoKeys, buffered |-> NoKeys]]
  BY DEF Init, InitCalls, IsFlushing, Idle
<1>3. \A t \in Tasks, j \in Keys : 
        /\ pending[t].async[j] = 0 /\ pending[t].both[j] = 0 
        /\ pending[t].buffered[j] = 0
  BY <1>2 DEF NoKeys
<1>4. HistoryTypes
  BY <1>1, <1>2 DEF HistoryTypes, NoKeys
<1>5. FlushInv
  BY <1>2, <1>3 DEF FlushInv
<1>6. DroppedInv
  BY <1>2 DEF DroppedInv
<1>7. SafeInv
  <2>1. SUFFICES ASSUME NEW k \in Keys, NEW l \in Places(k) PROVE Safe(l, k)
    BY DEF SafeInv
  <2>2. l \in Localities
    BY PlacesAre
  <2>3. CASE k \in present
    <3>1. mem[l][k] = <<1>>
      BY <1>1, <2>2, <2>3
    <3> QED BY <3>1 DEF Safe, Present
  <2>4. CASE k \notin present
    <3>1. promised[k] = 0
      BY <1>1, <2>4
    <3> QED BY <3>1, <1>3 DEF Safe, Awaited
  <2> QED BY <2>3, <2>4
<1>8. FreshInv
  BY <1>2, ObjectsAssumption DEF FreshInv, ShortBuffers
<1>9. CountInv
  <2>1. SUFFICES ASSUME NEW k \in Keys, kind = "multimap"
                 PROVE  (\A s : Counts(s, k)) /\ Balanced(k)
    BY DEF CountInv
  <2>2. \A s : 
          /\ IsFiniteSet(Units(Inserting(s, k))) /\ Total(Inserting(s, k)) = 0
          /\ IsFiniteSet(Units(Loaded(s, k))) /\ Total(Loaded(s, k)) = 0
          /\ Total(Stored(s, k)) = 0 /\ Total(Owed(s, k)) = 0 
          /\ Total(OwedLater(k)) = 0
    BY <1>2, <1>3, <1>4, NothingYet
  <2>3. Len(mem[TargetLocality(k)][k]) = promised[k] /\ promised[k] \in Nat
    <3>1. TargetLocality(k) \in Localities /\ TargetLocality(k) \in Places(k)
      BY <2>1, TargetType, PlacesAre
    <3> QED BY <1>1, <3>1
  <2>4. ASSUME NEW s PROVE Counts(s, k)
    BY <2>2 DEF Counts
  <2>5. Balanced(k)
    BY <2>2, <2>3 DEF Balanced
  <2> QED BY <2>4, <2>5
<1> QED BY <1>4, <1>5, <1>6, <1>7, <1>8, <1>9 DEF PromiseInv

LEMMA PromisesStay == 
  ASSUME ObjectInv, PromiseInv, ObjectInv', UNCHANGED objectVars
  PROVE  PromiseInv'
<1>1. /\ UNCHANGED <<kind, program, calls, acts, doing, mem, buffers, promised, 
                     pending, dropped>>
  BY DEF objectVars, callVars, memory, history
<1>2. calls' >= calls
  BY <1>1 DEF ObjectInv, TaskTypes
<1>3. Quiet
  BY <1>1, <1>2 DEF Quiet, IsFlushing
<1>4. DroppedInv'
  BY <1>1, DroppedMore DEF PromiseInv
<1> QED BY <1>3, <1>4, QuietPromised

-----------------------------------------------------------------------------
(* The calls of the containers, told apart by what they do: those that are *)
(* no part of a question, those that ask one and those that go on with it. *)

LEMMA ReadFilesAside == 
  ASSUME ObjectInv, UNCHANGED <<kind, program>>, NEW t \in Tasks, ReadFiles(t)
  PROVE  ObjectInv' /\ Aside
<1> DEFINE w(k) == [op |-> "read", key |-> k]
           as == {Activity(t, TRUE, 0, w(k)) : k \in Keys}
<1>1. \A k \in Keys : w(k) \in Works /\ w(k).op = "read"
  BY DEF Works
<1>2. 0 \in Localities
  BY CallsAssumption DEF Localities
<1> HIDE DEF w
<1>3. ASSUME NEW a \in as PROVE a \in Activities /\ a.work.op = "read"
  <2>1. PICK k \in Keys : a = Activity(t, TRUE, 0, w(k))
    OBVIOUS
  <2> QED BY <2>1, <1>1, <1>2 DEF Activity, Activities, ObjectInv, TaskTypes
<1> HIDE DEF as
<1>4. /\ Calling(t, "readFromFiles") /\ Leaving(t, as) /\ UNCHANGED <<memory, look>>
  BY DEF ReadFiles, as, w
<1>5. \A a \in as : a.work.op = "read"
  BY <1>3
<1>6. TaskTypes' /\ Aside
  BY <1>3, <1>4, <1>5, LeavingAside DEF ObjectInv
<1>7. \A a \in acts' : Placed(a)
  BY <1>4, <1>5 DEF ObjectInv, MemoryInv, Placed, IsWork, Leaving
<1>8. MemoryInv'
  BY <1>4, <1>7, MemoryStays DEF ObjectInv
<1> QED BY <1>6, <1>8 DEF ObjectInv

LEMMA ReadFileAside == 
  ASSUME ObjectInv, UNCHANGED <<kind, program>>, NEW a \in acts, ReadFile(a)
  PROVE  ObjectInv' /\ Aside
<1>1. PICK l \in Localities :
        /\ Fill(l, a.work.key)
        /\ Running(a, IF IsFull(l, a.work.key) 
             THEN {[a EXCEPT !.at = TargetLocality(a.work.key), 
                             !.work = Delivery(l, InBuffer(l, a.work.key))]} 
             ELSE {})
  BY DEF ReadFile
<1>2. a \in Activities /\ a.work.op = "read" /\ UNCHANGED <<mem, look>>
  BY DEF ReadFile, ObjectInv, TaskTypes
<1>3. a.work.key \in Keys
  BY <1>2 DEF Activities, Works
<1> DEFINE ks == InBuffer(l, a.work.key)
           w == Delivery(l, ks)
           b == [a EXCEPT !.at = TargetLocality(a.work.key), !.work = w]
<1>4. /\ buffers' \in [Localities -> [Localities -> Seq(Keys)]]
      /\ \A j, i \in Localities : buffers'[j][i] \in Seq(KeysOf(i))
      /\ ks \in Seq(KeysOf(TargetLocality(a.work.key))) /\ ks \in Seq(Keys)
  BY <1>1, <1>3, FillEffect DEF ObjectInv
<1> HIDE DEF ks
<1>5. w \in Works /\ w.op = "deliver" /\ w.keys = ks
  BY <1>4, DeliveryType
<1> HIDE DEF w
<1>6. TargetLocality(a.work.key) \in Localities
  BY <1>3, TargetType
<1>7. b \in Activities /\ b.work = w /\ b.at = TargetLocality(a.work.key)
  BY <1>2, <1>5, <1>6 DEF Activities
<1> HIDE DEF b
<1>8. Running(a, IF IsFull(l, a.work.key) THEN {b} ELSE {})
  BY <1>1 DEF b, w, ks
<1>9. TaskTypes' /\ Aside
  <2>1. CASE IsFull(l, a.work.key)
    BY <2>1, <1>2, <1>5, <1>7, <1>8, RunningAside DEF ObjectInv
  <2>2. CASE ~IsFull(l, a.work.key)
    BY <2>2, <1>2, <1>8, RunningAside DEF ObjectInv
  <2> QED BY <2>1, <2>2
<1>10. Placed(b)
  BY <1>4, <1>5, <1>7 DEF Placed, IsWork
<1>11. acts' \subseteq acts \cup {b}
  BY <1>8 DEF Running
<1>12. MemoryInv'
  BY <1>2, <1>4, <1>10, <1>11 DEF ObjectInv, MemoryInv, Placed, IsWork
<1> QED BY <1>9, <1>12 DEF ObjectInv

LEMMA InsertEverywhereAside == 
  ASSUME ObjectInv, UNCHANGED <<kind, program>>, kind = "replicated", 
         NEW t \in Tasks, NEW name, NEW k \in Keys, InsertEverywhere(t, name, k)
  PROVE  ObjectInv' /\ Aside
<1> DEFINE w == Work("insert", k, FALSE)
           as == OnAll(t, TRUE, w)
<1>1. w \in Works /\ w.op = "insert"
  BY DEF Work, Works
<1> HIDE DEF w
<1>2. as \subseteq Activities /\ \A a \in as : a.work = w
  BY <1>1, OnAllTypes DEF ObjectInv
<1> HIDE DEF as
<1>3. Calling(t, name) /\ Leaving(t, as) /\ UNCHANGED <<memory, look>>
  BY DEF InsertEverywhere, as, w
<1>4. TaskTypes' /\ Aside
  BY <1>1, <1>2, <1>3, LeavingAside DEF ObjectInv
<1>5. \A a \in acts' : Placed(a)
  BY <1>1, <1>2, <1>3 DEF ObjectInv, MemoryInv, Placed, IsWork, Leaving
<1>6. MemoryInv'
  BY <1>3, <1>5, MemoryStays DEF ObjectInv
<1> QED BY <1>4, <1>6 DEF ObjectInv

InsertCall(t) == \E k \in Keys : \E name : \E op \in InsertOps :
  /\ op = "keep" => kind # "multimap"
  /\ \/ OneStep(t, name, k, op) /\ Promise(k)
     \/ \E again \in BOOLEAN : 
          ByActivity(t, name, k, op, again) /\ Later(t, "async", k)

BufferCall(t) == 
  \/ \E k \in Keys : \E name : 
       InsertBuffered(t, name, k) \/ AsyncInsertBuffered(t, name, k)
  \/ FlushAllBuffers(t) \/ AsyncFlushAllBuffers(t)

ChangeCall(t) == \E k \in Keys : \E name : 
  \/ /\ \/ OneStep(t, name, k, "erase") 
        \/ \E again \in BOOLEAN : ByActivity(t, name, k, "erase", again)
     /\ Drop({k})
  \/ /\ \/ OneStep(t, name, k, "apply") 
        \/ \E again \in BOOLEAN : ByActivity(t, name, k, "apply", again)
        \/ Calling(t, name) /\ AtOnce /\ UNCHANGED <<memory, look>>
     /\ NoHistory

PlainCall(t) == 
  \/ kind # "replicated" /\ (InsertCall(t) \/ BufferCall(t))
  \/ kind = "replicated" /\ \E k \in Keys : \E name : InsertEverywhere(t, name, k)
  \/ kind = "multimap" /\ ReadFiles(t)
  \/ ChangeCall(t) \/ \E name : ClearAll(t, name)

\* where a lookup of the task looks
Place(t, k) == IF kind = "replicated" THEN Home[t] ELSE TargetLocality(k)

\* the lookup of a multimap that copies the values before it returns
FetchLater(t, name, k) == 
  LET values == mem[TargetLocality(k)][k] IN
    /\ Asking(t, name, "lookup", k, <<>>)
    /\ Leaving(t, {Activity(t, TRUE, TargetLocality(k), 
                     [op |-> "fetch", values |-> values])})

FetchNow(a) == 
  /\ a.work.op = "fetch" /\ Running(a, {}) /\ Answer(a.task, a.work.values)
  /\ NoHistory /\ UNCHANGED memory

LookupCall(t) == \E k \in Keys : \E name : 
  \/ LookUp(t, name, k, Place(t, k)) \/ AsyncLookUp(t, name, k, Place(t, k))
  \/ kind # "replicated" /\ FetchLater(t, name, k)

SizeCall(t) == \E name : \E of \in {"values", "keys"} : 
  \/ kind = "replicated" /\ Summing(t, name, of, Counted(Home[t], of), <<>>)
  \/ /\ kind # "replicated" 
     /\ Summing(t, name, of, Counted(Home[t], of), 
                Ascending(Localities \ {Home[t]}))
  \/ kind # "replicated" /\ Summing(t, name, of, 0, Ascending(Localities))

WalkCall(t) == 
  /\ kind # "replicated"
  /\ \E name : 
       Begin(t, name) \/ ForEach(t, name) \/ AsyncForEach(t, name)
WalkStep(t) == GetLocBeginIt(t) \/ PlusPlus(t)

QuestionStep(t) == 
  \/ LookupCall(t) \/ SizeCall(t) \/ WalkCall(t) \/ WalkStep(t) 
  \/ Sum(t) \/ Forget(t)
  \/ \E a \in acts : a.task = t /\ (RunLookup(a) \/ RunVisit(a) \/ FetchNow(a))
  \/ doing[t].op = "called" /\ Return(t)
  \/ look[t] # NoLook /\ waitForCompletion(t)

LEMMA PlainCallAside == 
  ASSUME ObjectInv, UNCHANGED <<kind, program>>, NEW t \in Tasks, PlainCall(t)
  PROVE  ObjectInv' /\ Aside
<1>1. ASSUME NEW k \in Keys, NEW name, 
             NEW op \in {"insert", "keep", "erase", "apply"}, 
             \/ OneStep(t, name, k, op)
             \/ \E again \in BOOLEAN : ByActivity(t, name, k, op, again)
      PROVE  ObjectInv' /\ Aside
  BY <1>1, OneStepAside, ByActivityAside
<1>2. ASSUME InsertCall(t) PROVE ObjectInv' /\ Aside
  BY <1>1, <1>2 DEF InsertCall, InsertOps
<1>3. ASSUME BufferCall(t) PROVE ObjectInv' /\ Aside
  BY <1>3, InsertBufferedAside, AsyncInsertBufferedAside, FlushAllBuffersAside, 
     AsyncFlushAllBuffersAside DEF BufferCall
<1>4. ASSUME kind = "replicated", NEW k \in Keys, NEW name, 
             InsertEverywhere(t, name, k)
      PROVE  ObjectInv' /\ Aside
  BY <1>4, InsertEverywhereAside
<1>5. ASSUME ReadFiles(t) PROVE ObjectInv' /\ Aside
  BY <1>5, ReadFilesAside
<1>6. ASSUME ChangeCall(t) PROVE ObjectInv' /\ Aside
  <2>1. PICK k, name : 
          /\ k \in Keys
          /\ \/ OneStep(t, name, k, "erase") 
             \/ \E again \in BOOLEAN : ByActivity(t, name, k, "erase", again)
             \/ OneStep(t, name, k, "apply") 
             \/ \E again \in BOOLEAN : ByActivity(t, name, k, "apply", again)
             \/ Calling(t, name) /\ AtOnce /\ UNCHANGED <<memory, look>>
    BY <1>6 DEF ChangeCall
  <2>5. k \in Keys
    BY <2>1
  <2>2. ASSUME Calling(t, name), AtOnce, UNCHANGED <<memory, look>>
        PROVE  ObjectInv' /\ Aside
    BY <2>2, NothingAside
  <2>3. ASSUME OneStep(t, name, k, "erase") 
          \/ \E again \in BOOLEAN : ByActivity(t, name, k, "erase", again)
        PROVE  ObjectInv' /\ Aside
    BY <2>3, <2>5, <1>1
  <2>4. ASSUME OneStep(t, name, k, "apply") 
          \/ \E again \in BOOLEAN : ByActivity(t, name, k, "apply", again)
        PROVE  ObjectInv' /\ Aside
    BY <2>4, <2>5, <1>1
  <2> QED BY <2>1, <2>2, <2>3, <2>4
<1>7. ASSUME NEW name, ClearAll(t, name)
      PROVE  ObjectInv' /\ Aside
  BY <1>7, ClearAllAside
<1> QED BY <1>2, <1>3, <1>4, <1>5, <1>6, <1>7 DEF PlainCall

\* the end of a flush or of a Clear, and of a wait when nothing was asked
LEMMA ReturnAside == 
  ASSUME ObjectInv, UNCHANGED <<kind, program>>, NEW t \in Tasks, 
         \/ doing[t].op # "called" /\ Return(t)
         \/ look[t] = NoLook /\ waitForCompletion(t)
  PROVE  ObjectInv' /\ Aside
<1>1. Become(t, Idle) /\ acts' = acts \cup {} /\ calls' \in Nat
  BY DEF Return, waitForCompletion, GoesOn, Become, ObjectInv, TaskTypes
<1>6. doing[t].op \in Calm 
  <2>1. ASSUME doing[t].op # "called", Return(t) PROVE doing[t].op \in Calm
    BY <2>1 DEF Return, Calm
  <2>2. ASSUME waitForCompletion(t) PROVE doing[t].op \in Calm
    BY <2>2 DEF waitForCompletion, Calm, Idle
  <2> QED BY <2>1, <2>2
<1>2. UNCHANGED <<memory, look>>
  BY DEF Return, waitForCompletion
<1>3. Idle \in Doings /\ Idle.op \in Calm
  BY DEF Idle, Doings, Calm
<1>4. TaskTypes' /\ Aside
  <2> DEFINE none == {}
  <2>1. none \in SUBSET Activities /\ acts' = acts \cup none
    BY <1>1
  <2>2. \A a \in none : a.work.op \notin {"lookup", "fetch", "visit"}
    OBVIOUS
  <2> HIDE DEF none
  <2>3. TaskTypes
    BY DEF ObjectInv
  <2> QED BY <1>1, <1>2, <1>3, <1>6, <2>1, <2>2, <2>3, BecomeAside 
<1>5. MemoryInv'
  BY <1>1, <1>2, MemoryStays DEF ObjectInv, MemoryInv
<1> QED BY <1>4, <1>5 DEF ObjectInv

LEMMA PlainCallPromised == 
  ASSUME ObjectInv, ObjectInv', PromiseInv, UNCHANGED <<kind, program>>, 
         NEW t \in Tasks, PlainCall(t)
  PROVE  PromiseInv'
<1>1. ASSUME kind # "replicated", InsertCall(t) PROVE PromiseInv'
  <2>1. ASSUME NEW k \in Keys, NEW name, NEW op \in InsertOps, 
               op = "keep" => kind # "multimap", 
               OneStep(t, name, k, op) /\ Promise(k)
        PROVE  PromiseInv'
    BY <1>1, <2>1, InsertPromised
  <2>2. ASSUME NEW k \in Keys, NEW name, NEW op \in InsertOps, 
               op = "keep" => kind # "multimap", NEW again \in BOOLEAN, 
               ByActivity(t, name, k, op, again) /\ Later(t, "async", k)
        PROVE  PromiseInv'
    BY <1>1, <2>2, InsertLaterPromised
  <2> QED BY <1>1, <2>1, <2>2 DEF InsertCall
<1>2. ASSUME kind # "replicated", BufferCall(t) PROVE PromiseInv'
  BY <1>2, BufferedPromised, FlushPromised, AsyncFlushPromised DEF BufferCall
<1>3. ASSUME kind = "replicated", NEW k \in Keys, NEW name, 
             InsertEverywhere(t, name, k)
      PROVE  PromiseInv'
  BY <1>3, InsertEverywherePromised
<1>4. ASSUME kind = "multimap", ReadFiles(t) PROVE PromiseInv'
  BY <1>4, ReadFilesPromised
<1>5. ASSUME ChangeCall(t) PROVE PromiseInv'
  <2>1. PICK k, name : 
          /\ k \in Keys
          /\ \/ /\ \/ OneStep(t, name, k, "erase") 
                   \/ \E again \in BOOLEAN : ByActivity(t, name, k, "erase", again)
                /\ Drop({k})
             \/ /\ \/ OneStep(t, name, k, "apply") 
                   \/ \E again \in BOOLEAN : ByActivity(t, name, k, "apply", again)
                   \/ Calling(t, name) /\ AtOnce /\ UNCHANGED <<memory, look>>
                /\ NoHistory
    BY <1>5 DEF ChangeCall
  <2> QED BY <2>1, ErasePromised, EraseLaterPromised, NothingPromised
<1>6. ASSUME NEW name, ClearAll(t, name) PROVE PromiseInv'
  BY <1>6, ClearAllPromised
<1> QED BY <1>1, <1>2, <1>3, <1>4, <1>5, <1>6 DEF PlainCall

\* a step of a question
LEMMA QuestionQuiet == 
  ASSUME ObjectInv, ObjectInv', PromiseInv, UNCHANGED <<kind, program>>, 
         NoHistory, UNCHANGED memory, calls' >= calls,
         \A a \in (acts \cup acts') : 
           a.work.op \in {"lookup", "fetch", "visit"} \/ (a \in acts /\ a \in acts'),
         \A t \in Tasks : IsFlushing(t)' <=> IsFlushing(t)
  PROVE  PromiseInv'
<1>1. /\ UNCHANGED <<mem, buffers, promised, pending, dropped>>
      /\ \A a \in acts \cup acts' : IsMover(a) => a \in acts /\ a \in acts'
  BY DEF NoHistory, history, memory, IsMover, Moving
<1>2. Quiet
  BY <1>1 DEF Quiet
<1>3. DroppedInv'
  BY <1>1, DroppedMore DEF PromiseInv
<1> QED BY <1>2, <1>3, QuietPromised

LEMMA AskingPromised == 
  ASSUME ObjectInv, ObjectInv', PromiseInv, UNCHANGED <<kind, program>>, 
         NEW t \in Tasks, NEW name, NEW asks, NEW of, NEW answer, 
         Asking(t, name, asks, of, answer), NEW d, d.op # "flushing",
         doing' = doing \/ Become(t, d), NEW more, acts' = acts \cup more, 
         \A a \in more : a.work.op \in {"lookup", "fetch", "visit"}
  PROVE  PromiseInv'
<1>1. /\ NoHistory /\ UNCHANGED memory /\ calls' >= calls /\ doing[t] = Idle
      /\ doing \in [Tasks -> Doings]
  BY DEF Asking, Calling, MayCall, ObjectInv, TaskTypes
<1>2. \A u \in Tasks : IsFlushing(u)' <=> IsFlushing(u)
  BY <1>1 DEF Become, IsFlushing, Idle
<1> QED BY <1>1, <1>2, QuestionQuiet

LEMMA QuestionPromised == 
  ASSUME ObjectInv, ObjectInv', PromiseInv, UNCHANGED <<kind, program>>, 
         NEW t \in Tasks, QuestionStep(t)
  PROVE  PromiseInv'
<1> DEFINE looked == [op |-> "looked"]
           none == {}
<1>0. looked.op # "flushing" /\ \A a \in none : a.work.op \in {"lookup", "fetch", "visit"}
  OBVIOUS
<1>1. ASSUME NEW k \in Keys, NEW name, NEW l, LookUp(t, name, k, l) 
      PROVE  PromiseInv'
  <2>1. /\ Asking(t, name, "lookup", k, mem[l][k]) /\ Become(t, looked)
        /\ acts' = acts \cup none
    BY <1>1 DEF LookUp, Looked
  <2> HIDE DEF looked, none
  <2> QED BY <2>1, <1>0, AskingPromised
<1>2. ASSUME NEW k \in Keys, NEW name, NEW a, a.work.op \in {"lookup", "fetch"}, 
             Asking(t, name, "lookup", k, <<>>), Leaving(t, {a})
      PROVE  PromiseInv'
  <2> DEFINE more == {a}
  <2>1. doing' = doing /\ acts' = acts \cup more
    BY <1>2 DEF Leaving
  <2>2. \A b \in more : b.work.op \in {"lookup", "fetch", "visit"}
    BY <1>2
  <2> HIDE DEF looked, none, more
  <2> QED BY <1>2, <2>1, <2>2, <1>0, AskingPromised
<1>12. ASSUME NEW k \in Keys, NEW name, NEW l, 
              AsyncLookUp(t, name, k, l)
       PROVE  PromiseInv'
  <2> DEFINE a == Activity(t, TRUE, l, [op |-> "lookup", key |-> k])
  <2>1. a.work.op \in {"lookup", "fetch"}
    BY DEF Activity
  <2>2. Asking(t, name, "lookup", k, <<>>) /\ Leaving(t, {a})
    BY <1>12 DEF AsyncLookUp
  <2> HIDE DEF a
  <2> QED BY <1>2, <2>1, <2>2
<1>13. ASSUME NEW k \in Keys, NEW name, FetchLater(t, name, k)
       PROVE  PromiseInv'
  <2> DEFINE a == Activity(t, TRUE, TargetLocality(k), 
                    [op |-> "fetch", values |-> mem[TargetLocality(k)][k]])
  <2>1. a.work.op = "fetch"
    BY DEF Activity
  <2>2. Asking(t, name, "lookup", k, <<>>) /\ Leaving(t, {a})
    BY <1>13 DEF FetchLater
  <2> HIDE DEF a
  <2> QED BY <1>2, <2>1, <2>2
<1>3. ASSUME NEW name, NEW of, NEW first, NEW others, 
             Summing(t, name, of, first, others)
      PROVE  PromiseInv'
  <2> DEFINE d == [op |-> "summing", next |-> others]
  <2>1. /\ Asking(t, name, "size", of, first) /\ Become(t, d) 
        /\ acts' = acts \cup none /\ d.op # "flushing"
    BY <1>3 DEF Summing
  <2> HIDE DEF d, none
  <2> QED BY <2>1, <1>0, AskingPromised
<1>4. ASSUME NEW name, Begin(t, name) PROVE PromiseInv'
  <2> DEFINE d == [op |-> "seeking", at |-> 0]
  <2>1. /\ Asking(t, name, "walk", "values", EmptyBag) /\ Become(t, d) 
        /\ acts' = acts \cup none /\ d.op # "flushing"
    BY <1>4 DEF Begin
  <2> HIDE DEF d, none
  <2> QED BY <2>1, <1>0, AskingPromised
<1>5. ASSUME NEW name, ForEach(t, name) \/ AsyncForEach(t, name) PROVE PromiseInv'
  <2> DEFINE called == [op |-> "called"]
  <2>1. PICK more : 
          /\ Asking(t, name, "walk", "keys", EmptyBag) 
          /\ doing' = doing \/ Become(t, called)
          /\ acts' = acts \cup more /\ more \in {Loops(t, TRUE), Loops(t, FALSE)}
    BY <1>5 DEF ForEach, AsyncForEach, Waiting, Leaving
  <2>2. \A a \in more : a.work.op \in {"lookup", "fetch", "visit"}
    BY <2>1 DEF Loops, OnAll, Activity
  <2>3. called.op # "flushing"
    OBVIOUS
  <2> HIDE DEF called
  <2> QED BY <2>1, <2>2, <2>3, AskingPromised
<1>6. ASSUME NEW d, GoesOn(t, d), doing[t].op # "flushing", d.op # "flushing", 
             NoHistory, UNCHANGED memory
      PROVE  PromiseInv'
  <2>1. calls' >= calls /\ doing \in [Tasks -> Doings]
    BY <1>6 DEF GoesOn, ObjectInv, TaskTypes
  <2>2. \A u \in Tasks : IsFlushing(u)' <=> IsFlushing(u)
    BY <1>6, <2>1 DEF GoesOn, Become, IsFlushing
  <2> QED BY <1>6, <2>1, <2>2, QuestionQuiet DEF GoesOn
<1>7. ASSUME WalkStep(t) PROVE PromiseInv'
  <2>1. PICK l, e : Moved(t, l, e) /\ doing[t].op \in {"seeking", "walking"}
    BY <1>7 DEF WalkStep, GetLocBeginIt, PlusPlus
  <2>2. PICK d : GoesOn(t, d) /\ d.op # "flushing"
    BY <2>1 DEF Moved, At
  <2> QED BY <2>1, <2>2, <1>6 DEF Moved
<1>8. ASSUME Sum(t) \/ Forget(t) PROVE PromiseInv'
  <2>1. doing[t].op \in {"summing", "looked"} /\ NoHistory /\ UNCHANGED memory
    BY <1>8 DEF Sum, Forget
  <2> DEFINE rest == [doing[t] EXCEPT !.next = Tail(@)]
  <2>2. ASSUME doing[t].op = "summing" PROVE rest.op # "flushing"
    <3>1. doing[t] \in [op : {"summing"}, next : Seq(Localities)]
      BY <2>2 DEF ObjectInv, TaskTypes, Doings
    <3> QED BY <3>1
  <2>3. Idle.op # "flushing"
    BY DEF Idle
  <2>4. CASE Forget(t)
    BY <2>1, <2>3, <2>4, <1>6 DEF Forget
  <2>5. CASE Sum(t) /\ doing[t].next = <<>>
    BY <2>1, <2>5, <1>0, <1>6 DEF Sum
  <2>6. CASE Sum(t) /\ doing[t].next # <<>>
    <3>1. GoesOn(t, rest) /\ doing[t].op = "summing"
      BY <2>6 DEF Sum
    <3>2. rest.op # "flushing"
      BY <3>1, <2>2
    <3> HIDE DEF rest
    <3> QED BY <2>1, <3>1, <3>2, <1>6
  <2> QED BY <1>8, <2>4, <2>5, <2>6
<1>9. ASSUME NEW a \in acts, RunLookup(a) \/ RunVisit(a) \/ FetchNow(a)
      PROVE  PromiseInv'
  <2>1. /\ acts' = acts \ {a} /\ a.work.op \in {"lookup", "fetch", "visit"}
        /\ UNCHANGED <<calls, doing>> /\ NoHistory /\ UNCHANGED memory
    BY <1>9 DEF RunLookup, RunVisit, FetchNow, Running
  <2>2. calls' >= calls
    BY <2>1 DEF ObjectInv, TaskTypes
  <2> QED BY <2>1, <2>2, QuestionQuiet DEF IsFlushing
<1>10. ASSUME Return(t) \/ waitForCompletion(t) PROVE PromiseInv'
  BY <1>10, ReturnPromised
<1>11. LookupCall(t) \/ SizeCall(t) \/ WalkCall(t) => PromiseInv'
  BY <1>1, <1>12, <1>13, <1>3, <1>4, <1>5 DEF LookupCall, SizeCall, WalkCall
<1> QED BY <1>7, <1>8, <1>9, <1>10, <1>11 DEF QuestionStep

-----------------------------------------------------------------------------
(* A step leaves a question alone, or it is a step of that question, which *)
(* does no more than to change what its task is doing, the answer, and its *)
(* own activities.                                                         *)

Undisturbed(t) == 
  /\ look'[t] = look[t] /\ Answering(t)' = Answering(t)
  /\ doing'[t] = doing[t] \/ {doing[t].op, doing'[t].op} \subseteq Calm

MayAnswer(t) == 
  {a \in Activities : a.task = t /\ a.work.op \in {"lookup", "fetch", "visit"}}

Effect(t, d, q, more, gone) == 
  /\ doing' = [doing EXCEPT ![t] = d] /\ look' = [look EXCEPT ![t] = q]
  /\ acts' = (acts \ gone) \cup more /\ calls' \in Nat /\ UNCHANGED memory

LEMMA EffectKeeps == 
  ASSUME ObjectInv, UNCHANGED <<kind, program>>, NEW t \in Tasks, NEW d \in Doings, 
         NEW q, IsLook(q), NEW more \in SUBSET MayAnswer(t), 
         NEW gone \in SUBSET MayAnswer(t), Effect(t, d, q, more, gone)
  PROVE  /\ ObjectInv' /\ look'[t] = q /\ doing'[t] = d
         /\ Answering(t)' = (Answering(t) \ gone) \cup more
         /\ \A u \in Tasks \ {t} : Undisturbed(u)
<1>1. /\ acts \subseteq Activities /\ more \subseteq Activities 
      /\ look = [u \in Tasks |-> look[u]]
  BY DEF ObjectInv, TaskTypes, MayAnswer
<1>2. /\ look' = [u \in Tasks |-> look'[u]] 
      /\ \A u \in Tasks : look'[u] = IF u = t THEN q ELSE look[u]
      /\ doing' \in [Tasks -> Doings]
      /\ \A u \in Tasks : doing'[u] = IF u = t THEN d ELSE doing[u]
  <2>1. look' = [look EXCEPT ![t] = q] /\ doing' = [doing EXCEPT ![t] = d]
    BY DEF Effect
  <2>2. doing \in [Tasks -> Doings]
    BY DEF ObjectInv, TaskTypes
  <2> QED BY <1>1, <2>1, <2>2
<1>3. \A u \in Tasks : IsLook(look'[u])
  BY <1>2 DEF ObjectInv, TaskTypes
<1>4. program' \in Programs /\ calls' \in Nat /\ acts' \subseteq Activities
  BY <1>1 DEF ObjectInv, TaskTypes, Effect
<1>5. TaskTypes'
  BY <1>2, <1>3, <1>4 DEF TaskTypes, IsLook, NoLook
<1>6. \A a \in acts' : Placed(a)
  BY DEF Effect, MayAnswer, Placed, IsWork, ObjectInv, MemoryInv
<1>7. MemoryInv'
  BY <1>6, MemoryStays DEF ObjectInv, Effect
<1>8. Answering(t)' = (Answering(t) \ gone) \cup more
  BY <1>1 DEF Answering, MayAnswer, Effect
<1>9. \A u \in Tasks \ {t} : Answering(u)' = Answering(u)
  BY <1>1 DEF Answering, MayAnswer, Effect
<1> QED BY <1>2, <1>5, <1>7, <1>8, <1>9 DEF ObjectInv, Undisturbed

-----------------------------------------------------------------------------
(* The entries of a container, their order and their number.               *)

LEMMA FiniteEntries == 
  ASSUME NEW n \in Nat
  PROVE  IsFiniteSet(Localities \X (Keys \X (1..n)))
<1> DEFINE slots == Localities \X (0..NumBuckets - 1)
           f == [k \in Keys |-> <<TargetLocality(k), Bucket(k)>>]
<1>1. NumLocalities \in Nat /\ NumBuckets \in Nat
  BY CallsAssumption, ObjectsAssumption
<1>2. /\ IsFiniteSet(Localities) /\ IsFiniteSet(0..NumBuckets - 1) 
      /\ IsFiniteSet(1..n)
  BY <1>1, FS_Interval DEF Localities
<1>3. IsFiniteSet(slots)
  BY <1>2, FS_Product
<1>4. f \in Injection(Keys, slots)
  <2>1. f \in [Keys -> slots]
    BY TargetType
  <2>2. ASSUME NEW j \in Keys, NEW k \in Keys, f[j] = f[k] PROVE j = k
    BY <2>2, ObjectsAssumption
  <2> HIDE DEF f, slots
  <2> QED BY <2>1, <2>2 DEF Injection, IsInjective
<1>5. IsFiniteSet(Keys)
  <2> HIDE DEF f, slots
  <2> QED BY <1>3, <1>4, FS_Injection
<1>6. IsFiniteSet(Keys \X (1..n))
  BY <1>2, <1>5, FS_Product
<1> QED BY <1>2, <1>6, FS_Product

\* a sequence that lists each member of a set once
OneByOne(s) == \A i, j \in DOMAIN s : s[i] = s[j] => i = j
Lists(s, ls) == 
  s \in Seq(Localities) /\ OneByOne(s) /\ {s[i] : i \in DOMAIN s} = ls

LEMMA AscendingChosen == 
  ASSUME NEW ls \in SUBSET Localities, NEW n \in Nat, Cardinality(ls) = n,
         NEW w \in [1..n -> ls], \A i, j \in 1..n : i < j => w[i] < w[j]
  PROVE  Lists(Ascending(ls), ls)
<1> DEFINE s == Ascending(ls)
<1>1. s \in [1..n -> ls] /\ \A i, j \in DOMAIN s : i < j => s[i] < s[j]
  <2>1. \E v \in [1..n -> ls] : \A i, j \in DOMAIN v : i < j => v[i] < v[j]
    OBVIOUS
  <2> QED BY <2>1 DEF Ascending
<1> HIDE DEF s
<1>2. \A i \in 1..n : s[i] \in Int
  <2>1. \A l \in Localities : l \in Int
    BY CallsAssumption DEF Localities
  <2> QED BY <1>1, <2>1
<1>3. OneByOne(s)
  BY <1>1, <1>2 DEF OneByOne
<1>4. IsFiniteSet(Localities)
  BY FS_Interval, CallsAssumption DEF Localities
<1>5. IsFiniteSet(ls)
  BY <1>4, FS_Subset
<1>6. s \in Injection(1..n, ls)
  BY <1>1, <1>3 DEF Injection, IsInjective, OneByOne
<1>7. Cardinality(1..n) = n
  BY FS_Interval
<1>8. s \in Surjection(1..n, ls)
  BY <1>5, <1>6, <1>7, FS_Injection
<1>9. {s[i] : i \in DOMAIN s} = ls
  BY <1>1, <1>8 DEF Surjection
<1>10. s \in Seq(Localities)
  BY <1>1
<1> QED BY <1>3, <1>9, <1>10 DEF Lists, s

LEMMA AscendingLists == 
  ASSUME NEW h \in Localities
  PROVE  /\ Lists(Ascending(Localities), Localities)
         /\ Lists(Ascending(Localities \ {h}), Localities \ {h})
<1>1. NumLocalities \in Nat \ {0} /\ Localities = 0..NumLocalities - 1
  BY CallsAssumption DEF Localities
<1>2. IsFiniteSet(Localities) /\ Cardinality(Localities) = NumLocalities
  BY <1>1, FS_Interval
<1>3. Cardinality(Localities \ {h}) = NumLocalities - 1
  BY <1>2, FS_RemoveElement
<1>4. Lists(Ascending(Localities), Localities)
  <2> DEFINE w == [i \in 1..NumLocalities |-> i - 1]
  <2>1. w \in [1..NumLocalities -> Localities]
    BY <1>1
  <2>2. \A i, j \in 1..NumLocalities : i < j => w[i] < w[j]
    BY <1>1
  <2> HIDE DEF w
  <2> QED BY <1>1, <1>2, <2>1, <2>2, AscendingChosen
<1>5. Lists(Ascending(Localities \ {h}), Localities \ {h})
  <2> DEFINE n == NumLocalities - 1
             w == [i \in 1..n |-> IF i - 1 < h THEN i - 1 ELSE i]
  <2>1. n \in Nat /\ h \in Nat
    BY <1>1
  <2>2. w \in [1..n -> Localities \ {h}]
    BY <1>1
  <2>3. \A i, j \in 1..n : i < j => w[i] < w[j]
    BY <2>1
  <2>4. Localities \ {h} \in SUBSET Localities
    OBVIOUS
  <2> HIDE DEF w, n
  <2>5. Cardinality(Localities \ {h}) = n
    BY <1>3 DEF n
  <2> QED BY <2>1, <2>2, <2>3, <2>4, <2>5, AscendingChosen
<1> QED BY <1>4, <1>5

LEMMA BeforeOrders == 
  ASSUME NEW d \in Entries, NEW e \in Entries, NEW f \in Entries
  PROVE  /\ ~ Before(e, e)
         /\ Before(d, e) /\ Before(e, f) => Before(d, f)
         /\ TargetLocality(d[1]) = TargetLocality(e[1]) /\ d # e 
              => Before(d, e) \/ Before(e, d)
<1>1. /\ d[1] \in Keys /\ e[1] \in Keys /\ f[1] \in Keys
      /\ d[2] \in Nat /\ e[2] \in Nat /\ f[2] \in Nat
      /\ d = <<d[1], d[2]>> /\ e = <<e[1], e[2]>>
  BY DEF Entries
<1>2. \A k \in Keys : Bucket(k) \in Int
  BY TargetType
<1>3. TargetLocality(d[1]) = TargetLocality(e[1]) /\ Bucket(d[1]) = Bucket(e[1])
        => d[1] = e[1]
  BY <1>1, ObjectsAssumption
<1>4. Bucket(d[1]) \in Int /\ Bucket(e[1]) \in Int /\ Bucket(f[1]) \in Int
  BY <1>1, <1>2
<1>5. d[1] = e[1] /\ d[2] = e[2] => d = e
  BY <1>1
<1> QED BY <1>1, <1>3, <1>4, <1>5 DEF Before

\* Entries of one locality have a first one.
LEMMA FirstOfIsFirst == 
  ASSUME NEW l, NEW es \in SUBSET Entries, IsFiniteSet(es), es # {},
         \A e \in es : TargetLocality(e[1]) = l
  PROVE  /\ FirstOf(es) \in es /\ FirstOf(es) # LocalEnd
         /\ \A d \in es \ {FirstOf(es)} : Before(FirstOf(es), d)
<1> DEFINE below(e) == {d \in es : Before(d, e)}
           bad == {r \in SUBSET es : \E e \in es : r = below(e)}
<1>1. (\A r \in bad : r \subseteq es) /\ \A e \in es : below(e) \in bad
  OBVIOUS
<1>2. PICK b \in bad : \A r \in bad : r \subseteq b => r = b
  <2>1. bad # {}
    BY <1>1
  <2> HIDE DEF bad
  <2> QED BY <1>1, <2>1, LeastSubset
<1>3. PICK e \in es : b = below(e)
  BY <1>2
<1>4. \A d \in es \ {e} : Before(e, d)
  <2>1. SUFFICES ASSUME NEW d \in es, d # e, ~ Before(e, d) PROVE FALSE
    OBVIOUS
  <2>2. Before(d, e)
    BY <2>1, BeforeOrders
  <2>3. d \in below(e) /\ d \notin below(d)
    BY <2>2, BeforeOrders
  <2>4. ASSUME NEW x \in below(d) PROVE x \in below(e)
    BY <2>2, <2>4, BeforeOrders
  <2>5. below(d) = below(e)
    BY <1>1, <1>2, <1>3, <2>4
  <2> QED BY <2>3, <2>5
<1>5. /\ FirstOf(es) \in es 
      /\ \A d \in es \ {FirstOf(es)} : Before(FirstOf(es), d)
  <2>1. \E x \in es : \A d \in es \ {x} : Before(x, d)
    BY <1>4
  <2> HIDE DEF below, bad
  <2> QED BY <2>1 DEF FirstOf
<1>6. \A x \in Entries : x # LocalEnd
  BY DEF Entries, LocalEnd
<1> QED BY <1>5, <1>6

\* where a question looks for entries
InPlace(t, x) == 
  /\ x \in Sources(t) \X (Keys \X (1..program.calls + 1))
  /\ kind # "replicated" => x[1] = TargetLocality(x[2][1])

LEMMA MatterInPlace == 
  ASSUME NEW m \in [Localities -> [Keys -> Seq(Nat)]], program \in Programs,
         kind # "replicated" => \A l \in Localities, k \in Keys : 
           l # TargetLocality(k) => m[l][k] = <<>>,
         NEW t \in Tasks, NEW q, q.asks \in {"size", "walk"}
  PROVE  /\ \A x \in Matter(m, t, q) : InPlace(t, x)
         /\ \A l \in Sources(t) : \A e : <<l, e>> \in Matter(m, t, q)
              <=> e \in EntriesIn(m, l) /\ (q.of = "keys" => e[2] = 1)
<1>1. Sources(t) \subseteq Localities /\ program.calls \in Nat
  BY CallsAssumption DEF Sources
<1>2. Matter(m, t, q) = 
        UNION {{<<l, e>> : e \in {e \in EntriesIn(m, l) : q.of = "keys" => e[2] = 1}} : 
                 l \in Sources(t)}
  BY DEF Matter
<1>3. \A l \in Sources(t) : \A e : <<l, e>> \in Matter(m, t, q)
        <=> e \in EntriesIn(m, l) /\ (q.of = "keys" => e[2] = 1)
  BY <1>2
<1>4. ASSUME NEW x \in Matter(m, t, q) PROVE InPlace(t, x)
  <2>1. PICK l \in Sources(t) : \E e \in EntriesIn(m, l) : x = <<l, e>>
    BY <1>2
  <2>5. PICK e \in EntriesIn(m, l) : x = <<l, e>>
    BY <2>1
  <2>2. e \in Keys \X (1..program.calls + 1) /\ e[2] <= Len(m[l][e[1]])
    BY DEF EntriesIn
  <2>3. l \in Localities /\ e[1] \in Keys /\ e[2] \in Int /\ e[2] >= 1
    BY <1>1, <2>1, <2>2
  <2>4. kind # "replicated" => l = TargetLocality(e[1])
    <3>1. SUFFICES ASSUME kind # "replicated", l # TargetLocality(e[1]) PROVE FALSE
      OBVIOUS
    <3>2. m[l][e[1]] = <<>>
      BY <2>3, <3>1
    <3>3. Len(m[l][e[1]]) = 0
      BY <3>2
    <3> QED BY <2>2, <2>3, <3>3
  <2> QED BY <2>5, <2>2, <2>4 DEF InPlace
<1> QED BY <1>3, <1>4

LEMMA HereInPlace == 
  ASSUME ObjectInv, NEW l \in Localities
  PROVE  /\ Here(l) \subseteq Entries /\ IsFiniteSet(Here(l))
         /\ kind # "replicated" => \A e \in Here(l) : TargetLocality(e[1]) = l
<1>1. program.calls \in Nat
  BY CallsAssumption DEF ObjectInv, TaskTypes
<1>2. Here(l) \subseteq Keys \X (1..program.calls + 1)
  BY DEF Here, EntriesIn
<1>3. IsFiniteSet(Here(l))
  <2> DEFINE all == Localities \X (Keys \X (1..program.calls + 1))
             f == [e \in Here(l) |-> <<l, e>>]
  <2>1. IsFiniteSet(all)
    BY <1>1, FiniteEntries
  <2>2. f \in [Here(l) -> all]
    BY <1>2
  <2>3. \A d, e \in Here(l) : f[d] = f[e] => d = e
    OBVIOUS
  <2> HIDE DEF f, all
  <2>4. f \in Injection(Here(l), all)
    BY <2>2, <2>3 DEF Injection, IsInjective
  <2> QED BY <2>1, <2>4, FS_Injection
<1>4. ASSUME kind # "replicated", NEW e \in Here(l), TargetLocality(e[1]) # l
      PROVE  FALSE
  <2>1. e[1] \in Keys /\ e[2] \in Int /\ e[2] >= 1 /\ e[2] <= Len(mem[l][e[1]])
    BY <1>1, <1>2 DEF Here, EntriesIn
  <2>2. mem[l][e[1]] = <<>>
    BY <1>4, <2>1 DEF ObjectInv, MemoryInv
  <2>3. Len(mem[l][e[1]]) = 0
    BY <2>2
  <2> QED BY <2>1, <2>3
<1>5. Here(l) \subseteq Entries
  BY <1>1, <1>2 DEF Entries
<1> QED BY <1>3, <1>4, <1>5

-----------------------------------------------------------------------------
(* What is true of the question of a task while it is open.                *)

\* only its own task, with the operation that answers it, and its own 
\* activities work on it
Open(t) == 
  /\ look[t] = NoLook => Answering(t) = {} /\ doing[t].op \in Calm
  /\ look[t].asks = "lookup" => doing[t].op \in Calm \cup {"looked"}
  /\ look[t].asks = "size" => doing[t].op \in {"summing", "looked"}
  /\ look[t].asks = "walk" => 
       /\ kind # "replicated"
       /\ doing[t].op \in IF look[t].of = "values" 
                            THEN {"seeking", "walking", "looked"}
                            ELSE Calm \cup {"called", "looked"}
  /\ \A a \in Answering(t) : 
       /\ look[t].asks = IF a.work.op = "visit" THEN "walk" ELSE "lookup"
       /\ IF a.async THEN doing[t].op \in Calm ELSE doing[t].op = "called"

\* what has been seen encloses what is there
Watched(t) == look[t] # NoLook => 
  /\ seen[t].always \subseteq Matter(mem, t, look[t])
  /\ Matter(mem, t, look[t]) \subseteq seen[t].ever
  /\ look[t].asks \in {"size", "walk"} => \A x \in seen[t].ever : InPlace(t, x)

\* a lookup looks where the key belongs; the answer was true at some time
LookupRight(t) == look[t].asks = "lookup" =>
  /\ \A a \in Answering(t) : 
       \/ /\ a.work.op = "lookup" 
          /\ a.work.key = look[t].of /\ a.at = Place(t, look[t].of)
       \/ a.work.op = "fetch" /\ a.work.values \in seen[t].ever
  /\ Answering(t) = {} => look[t].answer \in seen[t].ever

\* what has been added up so far lies between what was always and what was ever
\* at the localities that have been counted
Left(t) == 
  IF doing[t].op = "summing" 
    THEN {doing[t].next[i] : i \in DOMAIN doing[t].next} ELSE {}
SumRight(t) == look[t].asks = "size" =>
  /\ look[t].answer \in Nat 
  /\ Left(t) \subseteq Sources(t) 
  /\ doing[t].op = "summing" => OneByOne(doing[t].next)
  /\ look[t].answer >= Cardinality({x \in seen[t].always : x[1] \notin Left(t)})
  /\ look[t].answer <= Cardinality({x \in seen[t].ever : x[1] \notin Left(t)})

\* an entry that a traversal has still to come by; what it has visited lies 
\* behind it, once each, and with what is ahead it is all that was always there
Ahead(t, x) == 
  \/ doing[t].op = "seeking" /\ x[1] >= doing[t].at
  \/ /\ doing[t].op = "walking" 
     /\ \/ x[1] > doing[t].at 
        \/ x[1] = doing[t].at /\ Before(doing[t].entry, x[2])
  \/ \E a \in Answering(t) : a.at = x[1] /\ a.work.bucket = Bucket(x[2][1])
WalkRight(t) == look[t].asks = "walk" =>
  /\ \A x \in DOMAIN look[t].answer : 
       look[t].answer[x] = 1 /\ x \in seen[t].ever /\ ~ Ahead(t, x)
  /\ \A x \in seen[t].always : x \in DOMAIN look[t].answer \/ Ahead(t, x)
  /\ \A a, b \in Answering(t) : 
       a.at = b.at /\ a.work.bucket = b.work.bucket => a = b

QuestionInv(t) == 
  Open(t) /\ Watched(t) /\ LookupRight(t) /\ SumRight(t) /\ WalkRight(t)
ContainersInv == 
  ObjectInv /\ DOMAIN seen = Tasks /\ \A t \in Tasks : QuestionInv(t)

\* the next look at what is there
Looking == 
  /\ ObjectInv /\ ObjectInv' /\ UNCHANGED <<kind, program>>
  /\ seen' = [t \in Tasks |-> Watch(t)]

LEMMA Watching == 
  ASSUME Looking, NEW t \in Tasks, Watched(t), look'[t] # NoLook,
         look[t] # NoLook => /\ look'[t].asks = look[t].asks 
                             /\ look'[t].of = look[t].of
  PROVE  /\ Watched(t)' 
         /\ seen'[t].always \subseteq Matter(mem', t, look'[t])
         /\ Matter(mem', t, look'[t]) \subseteq seen'[t].ever
         /\ look[t] = NoLook => 
              /\ seen'[t].always \subseteq Matter(mem, t, look'[t])
              /\ Matter(mem, t, look'[t]) \subseteq seen'[t].ever
         /\ look[t] # NoLook => 
              /\ seen'[t].always \subseteq seen[t].always
              /\ seen[t].ever \subseteq seen'[t].ever
<1> DEFINE q == look'[t]
           before == Matter(mem, t, q)
           after == Matter(mem', t, q)
<1>1. seen'[t] = IF look[t] = NoLook 
                   THEN [always |-> before \cap after, ever |-> before \cup after]
                   ELSE [always |-> seen[t].always \cap after, 
                         ever |-> seen[t].ever \cup after]
  BY DEF Looking, Watch
<1>2. Matter(mem, t, look[t])' = after
  BY DEF Looking, Matter, Sources, EntriesIn
<1>3. ASSUME q.asks \in {"size", "walk"}, NEW x \in before \cup after 
      PROVE  InPlace(t, x)
  <2>1. /\ mem \in [Localities -> [Keys -> Seq(Nat)]] /\ program \in Programs
        /\ kind # "replicated" => \A l \in Localities, k \in Keys : 
             l # TargetLocality(k) => mem[l][k] = <<>>
    BY DEF Looking, ObjectInv, TaskTypes, MemoryInv
  <2>2. /\ mem' \in [Localities -> [Keys -> Seq(Nat)]]
        /\ kind # "replicated" => \A l \in Localities, k \in Keys : 
             l # TargetLocality(k) => mem'[l][k] = <<>>
    BY DEF Looking, ObjectInv, MemoryInv
  <2> HIDE DEF q
  <2>3. \A y \in before : InPlace(t, y)
    BY <1>3, <2>1, MatterInPlace
  <2>4. \A y \in after : InPlace(t, y)
    BY <1>3, <2>1, <2>2, MatterInPlace
  <2> QED BY <2>3, <2>4
<1> HIDE DEF before, after
<1>4. q.asks \in {"size", "walk"} => \A x \in seen'[t].ever : InPlace(t, x)
  <2>1. CASE look[t] = NoLook
    BY <2>1, <1>1, <1>3
  <2>2. CASE look[t] # NoLook
    BY <2>2, <1>1, <1>3 DEF Watched
  <2> QED BY <2>1, <2>2
<1>5. q.asks \in {"size", "walk"} => \A x \in seen'[t].ever : InPlace(t, x)'
  BY <1>4 DEF Looking, InPlace, Sources
<1>6. seen'[t].always \subseteq after /\ after \subseteq seen'[t].ever
  BY <1>1
<1>7. Watched(t)'
  BY <1>2, <1>5, <1>6 DEF Watched
<1>8. look[t] = NoLook => /\ seen'[t].always \subseteq before
                          /\ before \subseteq seen'[t].ever
  BY <1>1
<1>9. look[t] # NoLook => /\ seen'[t].always \subseteq seen[t].always
                          /\ seen[t].ever \subseteq seen'[t].ever
  BY <1>1
<1> QED BY <1>6, <1>7, <1>8, <1>9 DEF before, after

\* entries of a question are finitely many
LEMMA SeenFinite == 
  ASSUME ObjectInv, NEW t \in Tasks, NEW s, \A x \in s : InPlace(t, x)
  PROVE  IsFiniteSet(s) /\ Cardinality(s) \in Nat
<1>1. program.calls + 1 \in Nat
  BY CallsAssumption DEF ObjectInv, TaskTypes
<1>2. Sources(t) \subseteq Localities
  BY CallsAssumption DEF Sources
<1>3. s \subseteq Localities \X (Keys \X (1..program.calls + 1))
  BY <1>2 DEF InPlace
<1>4. IsFiniteSet(s)
  BY <1>1, <1>3, FiniteEntries, FS_Subset
<1> QED BY <1>4, FS_CardinalityType

\* the entries that count, and those of them at the localities left out
Outside(s, ls) == {x \in s : x[1] \notin ls}

LEMMA SumBounds == 
  ASSUME ObjectInv, NEW t \in Tasks, NEW s, NEW r \in SUBSET s, 
         \A x \in s : InPlace(t, x), NEW ls
  PROVE  /\ IsFiniteSet(Outside(s, ls)) /\ IsFiniteSet(Outside(r, ls))
         /\ Cardinality(Outside(s, ls)) \in Nat /\ Cardinality(Outside(r, ls)) \in Nat
         /\ Cardinality(Outside(r, ls)) <= Cardinality(Outside(s, ls))
<1>1. \A x \in Outside(s, ls) : InPlace(t, x)
  BY DEF Outside
<1>2. Outside(r, ls) \in SUBSET Outside(s, ls)
  BY DEF Outside
<1>3. IsFiniteSet(Outside(s, ls)) /\ Cardinality(Outside(s, ls)) \in Nat
  BY <1>1, SeenFinite
<1>4. IsFiniteSet(Outside(r, ls)) /\ Cardinality(Outside(r, ls)) \in Nat
  BY <1>2, <1>3, FS_Subset, FS_CardinalityType
<1> QED BY <1>2, <1>3, <1>4, FS_Subset

\* what has been added up stays between its bounds while time goes on
LEMMA SumStays == 
  ASSUME Looking, NEW t \in Tasks, Watched(t), SumRight(t), 
         look[t].asks = "size", look'[t] = look[t], Left(t)' = Left(t),
         doing'[t].op = "summing" => OneByOne(doing'[t].next)
  PROVE  SumRight(t)'
<1> DEFINE ls == Left(t)
<1>1. look[t] # NoLook 
  BY DEF NoLook
<1>2. /\ Watched(t)' 
      /\ seen'[t].always \subseteq seen[t].always
      /\ seen[t].ever \subseteq seen'[t].ever
  BY <1>1, Watching 
<1>3. Sources(t)' = Sources(t)
  BY DEF Sources, Looking
<1>4. /\ \A x \in seen[t].ever : InPlace(t, x)
      /\ \A x \in seen'[t].ever : InPlace(t, x)
  <2>1. \A x \in seen'[t].ever : InPlace(t, x)'
    BY <1>1, <1>2 DEF Watched, NoLook
  <2>2. \A x : InPlace(t, x)' <=> InPlace(t, x)
    BY DEF InPlace, Sources, Looking
  <2> QED BY <1>1, <2>1, <2>2 DEF Watched
<1>5. \A x \in seen[t].always : InPlace(t, x)
  BY <1>1, <1>4 DEF Watched
<1>6. /\ Cardinality(Outside(seen'[t].always, ls)) \in Nat
      /\ Cardinality(Outside(seen[t].always, ls)) \in Nat
      /\ Cardinality(Outside(seen'[t].always, ls)) 
           <= Cardinality(Outside(seen[t].always, ls))
  BY <1>2, <1>5, SumBounds DEF Looking
<1>7. /\ Cardinality(Outside(seen'[t].ever, ls)) \in Nat
      /\ Cardinality(Outside(seen[t].ever, ls)) \in Nat
      /\ Cardinality(Outside(seen[t].ever, ls)) 
           <= Cardinality(Outside(seen'[t].ever, ls))
  BY <1>2, <1>4, SumBounds DEF Looking
<1>8. /\ look[t].answer \in Nat /\ ls \subseteq Sources(t)
      /\ look[t].answer >= Cardinality(Outside(seen[t].always, ls))
      /\ look[t].answer <= Cardinality(Outside(seen[t].ever, ls))
  BY DEF SumRight, Outside
<1> HIDE DEF ls
<1>9. /\ look[t].answer >= Cardinality(Outside(seen'[t].always, ls))
      /\ look[t].answer <= Cardinality(Outside(seen'[t].ever, ls))
  BY <1>6, <1>7, <1>8
<1>10. Left(t)' = ls
  BY DEF ls
<1> QED BY <1>3, <1>8, <1>9, <1>10 DEF SumRight, Outside

\* A step of something else leaves a question right.
LEMMA UndisturbedKeeps == 
  ASSUME Looking, NEW t \in Tasks, QuestionInv(t), Undisturbed(t)
  PROVE  QuestionInv(t)'
<1>1. /\ look'[t] = look[t] /\ Answering(t)' = Answering(t) /\ kind' = kind
      /\ doing'[t] = doing[t] \/ {doing[t].op, doing'[t].op} \subseteq Calm
  BY DEF Undisturbed, Looking
<1>2. Open(t)'
  <2>1. look[t].asks # "size" => (doing[t].op \in Calm <=> doing'[t].op \in Calm)
    BY <1>1
  <2>2. doing[t].op \notin Calm => doing'[t] = doing[t]
    BY <1>1
  <2>3. {"called", "looked", "summing", "seeking", "walking"} \cap Calm = {}
    BY DEF Calm
  <2>4. look'[t] = NoLook => Answering(t)' = {} /\ doing'[t].op \in Calm
    BY <1>1 DEF QuestionInv, Open
  <2>5. look'[t].asks = "lookup" => doing'[t].op \in Calm \cup {"looked"}
    BY <1>1 DEF QuestionInv, Open
  <2>6. look'[t].asks = "size" => doing'[t].op \in {"summing", "looked"}
    BY <1>1, <2>3 DEF QuestionInv, Open
  <2>7. look'[t].asks = "walk" => 
          /\ kind' # "replicated"
          /\ doing'[t].op \in IF look'[t].of = "values" 
                                THEN {"seeking", "walking", "looked"}
                                ELSE Calm \cup {"called", "looked"}
    BY <1>1, <2>3 DEF QuestionInv, Open
  <2>8. \A a \in Answering(t)' : 
          /\ look'[t].asks = IF a.work.op = "visit" THEN "walk" ELSE "lookup"
          /\ IF a.async THEN doing'[t].op \in Calm ELSE doing'[t].op = "called"
    BY <1>1, <2>3 DEF QuestionInv, Open
  <2>9. Calm' = Calm
    BY DEF Calm
  <2> QED BY <2>4, <2>5, <2>6, <2>7, <2>8, <2>9 DEF Open, NoLook
<1>3. CASE look[t] = NoLook
  <2>1. look'[t].asks \notin {"lookup", "size", "walk"} /\ look'[t] = NoLook
    BY <1>1, <1>3 DEF NoLook
  <2>2. Watched(t)'
    BY <2>1 DEF Watched, NoLook
  <2>3. LookupRight(t)' /\ SumRight(t)' /\ WalkRight(t)'
    BY <2>1 DEF LookupRight, SumRight, WalkRight
  <2> QED BY <1>2, <2>2, <2>3 DEF QuestionInv
<1>4. CASE look[t] # NoLook
  <2>1. /\ Watched(t)' 
        /\ seen'[t].always \subseteq seen[t].always
        /\ seen[t].ever \subseteq seen'[t].ever
    BY <1>1, <1>4, Watching DEF QuestionInv
  <2>2. LookupRight(t)'
    BY <1>1, <2>1 DEF QuestionInv, LookupRight, Place
  <2>3. ASSUME look[t].asks = "size" PROVE SumRight(t)'
    <3>1. doing'[t] = doing[t]
      BY <1>1, <2>3 DEF QuestionInv, Open, Calm
    <3>2. Left(t)' = Left(t)
      BY <3>1 DEF Left
    <3>3. doing'[t].op = "summing" => OneByOne(doing'[t].next)
      BY <2>3, <3>1 DEF QuestionInv, SumRight
    <3>4. Watched(t) /\ SumRight(t)
      BY DEF QuestionInv
    <3> QED BY <1>1, <2>3, <3>2, <3>3, <3>4, SumStays
  <2>4. ASSUME look[t].asks = "walk" PROVE WalkRight(t)'
    <3>1. \A x : Ahead(t, x)' <=> Ahead(t, x)
      BY <1>1 DEF Ahead, Before, Calm
    <3> QED BY <1>1, <2>1, <2>4, <3>1 DEF QuestionInv, WalkRight
  <2>5. SumRight(t)' /\ WalkRight(t)'
    BY <1>1, <2>3, <2>4 DEF SumRight, WalkRight
  <2> QED BY <1>2, <2>1, <2>2, <2>5 DEF QuestionInv
<1> QED BY <1>3, <1>4

-----------------------------------------------------------------------------
(* The steps of a question: a lookup, and the end of any question.         *)

Looks(t) == 
  /\ ObjectInv /\ QuestionInv(t) /\ UNCHANGED <<kind, program>> 
  /\ seen' = [u \in Tasks |-> Watch(u)]
StaysRight(t) == 
  ObjectInv' /\ QuestionInv(t)' /\ \A u \in Tasks \ {t} : Undisturbed(u)

\* a new question
LEMMA AskingEffect == 
  ASSUME ObjectInv, NEW t \in Tasks, NEW name, NEW asks, NEW of, NEW answer, 
         Asking(t, name, asks, of, answer)
  PROVE  /\ doing[t] = Idle /\ look[t] = NoLook /\ calls' \in Nat
         /\ look' = [look EXCEPT ![t] = 
                      [asks |-> asks, of |-> of, answer |-> answer]]
         /\ UNCHANGED memory
BY DEF Asking, Calling, MayCall, ObjectInv, TaskTypes

\* its effect, with new activities, with one that is over, and without any
LEMMA EffectMore == 
  ASSUME NEW t \in Tasks, Looks(t), NEW d \in Doings, NEW q, IsLook(q), 
         NEW more \in SUBSET MayAnswer(t), Effect(t, d, q, more, {})
  PROVE  /\ ObjectInv' /\ look'[t] = q /\ doing'[t] = d
         /\ Answering(t)' = Answering(t) \cup more
         /\ \A u \in Tasks \ {t} : Undisturbed(u)
<1>1. {} \in SUBSET MayAnswer(t) /\ ObjectInv /\ UNCHANGED <<kind, program>>
  BY DEF Looks
<1>2. /\ ObjectInv' /\ look'[t] = q /\ doing'[t] = d
      /\ Answering(t)' = (Answering(t) \ {}) \cup more
      /\ \A u \in Tasks \ {t} : Undisturbed(u)
  BY <1>1, EffectKeeps
<1> QED BY <1>2

LEMMA EffectGone == 
  ASSUME NEW t \in Tasks, Looks(t), NEW d \in Doings, NEW q, IsLook(q), 
         NEW gone \in SUBSET MayAnswer(t), Effect(t, d, q, {}, gone)
  PROVE  /\ ObjectInv' /\ look'[t] = q /\ doing'[t] = d
         /\ Answering(t)' = Answering(t) \ gone
         /\ \A u \in Tasks \ {t} : Undisturbed(u)
<1>1. {} \in SUBSET MayAnswer(t) /\ ObjectInv /\ UNCHANGED <<kind, program>>
  BY DEF Looks
<1>2. /\ ObjectInv' /\ look'[t] = q /\ doing'[t] = d
      /\ Answering(t)' = (Answering(t) \ gone) \cup {}
      /\ \A u \in Tasks \ {t} : Undisturbed(u)
  BY <1>1, EffectKeeps
<1> QED BY <1>2

LEMMA EffectAlone == 
  ASSUME NEW t \in Tasks, Looks(t), NEW d \in Doings, NEW q, IsLook(q), 
         Effect(t, d, q, {}, {})
  PROVE  /\ ObjectInv' /\ look'[t] = q /\ doing'[t] = d
         /\ Answering(t)' = Answering(t) 
         /\ \A u \in Tasks \ {t} : Undisturbed(u)
<1>1. {} \in SUBSET MayAnswer(t)
  OBVIOUS
<1>2. /\ ObjectInv' /\ look'[t] = q /\ doing'[t] = d
      /\ Answering(t)' = Answering(t) \cup {}
      /\ \A u \in Tasks \ {t} : Undisturbed(u)
  BY <1>1, EffectMore
<1> QED BY <1>2

LEMMA LookUpRight == 
  ASSUME NEW t \in Tasks, Looks(t), NEW k \in Keys, NEW name, 
         LookUp(t, name, k, Place(t, k))
  PROVE  StaysRight(t)
<1> DEFINE v == mem[Place(t, k)][k]
           q == [asks |-> "lookup", of |-> k, answer |-> v]
           d == [op |-> "looked"]
<1>1. /\ doing[t] = Idle /\ look[t] = NoLook /\ calls' \in Nat
      /\ look' = [look EXCEPT ![t] = q] /\ UNCHANGED memory
  BY AskingEffect DEF LookUp, Looks
<1>2. IsLook(q) /\ q # NoLook /\ d \in Doings
  BY DEF IsLook, NoLook, Doings
<1>3. Effect(t, d, q, {}, {})
  BY <1>1 DEF LookUp, Looked, Become, Effect
<1>4. Matter(mem, t, q) = {v}
  BY DEF Matter, Place
<1>5. q.asks = "lookup" /\ q.answer = v /\ d.op = "looked"
  OBVIOUS
<1> HIDE DEF q, d, v
<1>6. /\ ObjectInv' /\ look'[t] = q /\ doing'[t] = d
      /\ Answering(t)' = Answering(t) /\ \A u \in Tasks \ {t} : Undisturbed(u)
  BY <1>2, <1>3, EffectAlone
<1>7. Answering(t)' = {}
  BY <1>1, <1>6 DEF Looks, QuestionInv, Open
<1>8. Watched(t)' /\ v \in seen'[t].ever
  BY <1>1, <1>2, <1>4, <1>6, Watching DEF Looks, Looking, QuestionInv
<1>9. Open(t)' /\ LookupRight(t)' /\ SumRight(t)' /\ WalkRight(t)'
  BY <1>2, <1>5, <1>6, <1>7, <1>8 
     DEF Open, LookupRight, SumRight, WalkRight, NoLook
<1> QED BY <1>6, <1>8, <1>9 DEF StaysRight, QuestionInv

\* an activity is to look, or has the values that were there
LEMMA LookUpLaterRight == 
  ASSUME NEW t \in Tasks, Looks(t), NEW k \in Keys, NEW name, 
         NEW w \in Works,
         \/ w.op = "lookup" /\ w.key = k 
         \/ w.op = "fetch" /\ w.values = mem[Place(t, k)][k],
         Asking(t, name, "lookup", k, <<>>), 
         Leaving(t, {Activity(t, TRUE, Place(t, k), w)})
  PROVE  StaysRight(t)
<1> DEFINE a == Activity(t, TRUE, Place(t, k), w)
           q == [asks |-> "lookup", of |-> k, answer |-> <<>>]
<1>1. /\ doing[t] = Idle /\ look[t] = NoLook /\ calls' \in Nat
      /\ look' = [look EXCEPT ![t] = q] /\ UNCHANGED memory
  BY AskingEffect DEF Looks
<1>2. IsLook(q) /\ q # NoLook /\ q.asks = "lookup" /\ q.of = k
  BY DEF IsLook, NoLook
<1>3. Place(t, k) \in Localities
  BY TargetType, CallsAssumption DEF Place
<1>4. /\ a \in Activities /\ a.task = t /\ a.async /\ a.work = w 
      /\ a.at = Place(t, k)
  BY <1>3 DEF Activity, Activities, Looks, ObjectInv, TaskTypes
<1>5. {a} \in SUBSET MayAnswer(t)
  BY <1>4 DEF MayAnswer
<1>6. doing[t] \in Doings /\ doing = [u \in Tasks |-> doing[u]]
  BY DEF Looks, ObjectInv, TaskTypes
<1>7. Matter(mem, t, q) = {mem[Place(t, k)][k]}
  BY DEF Matter, Place
<1> HIDE DEF q, a
<1>8. Effect(t, doing[t], q, {a}, {})
  <2>1. acts' = acts \cup {a} /\ doing' = doing
    BY DEF Leaving, a
  <2> QED BY <1>1, <1>6, <2>1 DEF Effect
<1>9. /\ ObjectInv' /\ look'[t] = q /\ doing'[t] = doing[t]
      /\ Answering(t)' = Answering(t) \cup {a} 
      /\ \A u \in Tasks \ {t} : Undisturbed(u)
  BY <1>2, <1>5, <1>6, <1>8, EffectMore
<1>10. Answering(t)' = {a} /\ doing'[t].op \in Calm
  BY <1>1, <1>9 DEF Looks, QuestionInv, Open, Calm, Idle
<1>11. Watched(t)' /\ mem[Place(t, k)][k] \in seen'[t].ever
  BY <1>1, <1>2, <1>7, <1>9, Watching DEF Looks, Looking, QuestionInv
<1>12. Open(t)'
  BY <1>2, <1>4, <1>9, <1>10 DEF Open, Calm, NoLook
<1>13. Place(t, k)' = Place(t, k)
  BY DEF Place, Looks
<1>14. LookupRight(t)' 
  <2>1. \/ a.work.op = "lookup" /\ a.work.key = k /\ a.at = Place(t, k)'
        \/ a.work.op = "fetch" /\ a.work.values \in seen'[t].ever
    BY <1>4, <1>11, <1>13
  <2> QED BY <1>2, <1>9, <1>10, <2>1 DEF LookupRight, Place
<1>15. SumRight(t)' /\ WalkRight(t)'
  BY <1>2, <1>9 DEF SumRight, WalkRight
<1> QED BY <1>9, <1>11, <1>12, <1>14, <1>15 DEF StaysRight, QuestionInv

\* a step that gives an open lookup a value that was there
LEMMA AnswerRight == 
  ASSUME NEW t \in Tasks, Looks(t), NEW a \in Answering(t), NEW v, 
         v \in seen[t].ever, a.work.op # "visit",
         Running(a, {}), Answer(t, v), UNCHANGED memory
  PROVE  StaysRight(t)
<1> DEFINE q == [look[t] EXCEPT !.answer = v]
<1>1. look[t].asks = "lookup" /\ look[t] # NoLook
  BY DEF Looks, QuestionInv, Open, NoLook
<1>2. look[t] = [asks |-> look[t].asks, of |-> look[t].of, answer |-> look[t].answer]
      /\ look[t].of \in Keys
  BY <1>1 DEF Looks, ObjectInv, TaskTypes, IsLook
<1>3. IsLook(q) /\ q # NoLook /\ q.asks = "lookup" /\ q.of = look[t].of /\ q.answer = v
  BY <1>1, <1>2 DEF IsLook, NoLook
<1>4. {a} \in SUBSET MayAnswer(t)
  BY DEF MayAnswer, Answering, Looks, ObjectInv, TaskTypes
<1>5. doing[t] \in Doings /\ doing = [u \in Tasks |-> doing[u]]
  BY DEF Looks, ObjectInv, TaskTypes
<1>6. look' = [look EXCEPT ![t] = q]
  BY DEF Answer
<1> HIDE DEF q
<1>7. Effect(t, doing[t], q, {}, {a})
  <2>1. acts' = acts \ {a} /\ doing' = doing /\ calls' = calls
    BY DEF Running
  <2> QED BY <1>5, <1>6, <2>1 DEF Effect, Looks, ObjectInv, TaskTypes
<1>8. /\ ObjectInv' /\ look'[t] = q /\ doing'[t] = doing[t]
      /\ Answering(t)' = Answering(t) \ {a} 
      /\ \A u \in Tasks \ {t} : Undisturbed(u)
  BY <1>3, <1>4, <1>5, <1>7, EffectGone
<1>9. Watched(t)' /\ seen[t].ever \subseteq seen'[t].ever
  BY <1>1, <1>3, <1>8, Watching DEF Looks, Looking, QuestionInv
<1>10. Open(t)'
  BY <1>1, <1>3, <1>8 DEF Looks, QuestionInv, Open, NoLook, Calm
<1>11. LookupRight(t)' 
  BY <1>1, <1>3, <1>8, <1>9 DEF Looks, QuestionInv, LookupRight, Place
<1>12. SumRight(t)' /\ WalkRight(t)'
  BY <1>3, <1>8 DEF SumRight, WalkRight
<1> QED BY <1>8, <1>9, <1>10, <1>11, <1>12 DEF StaysRight, QuestionInv

LEMMA RunLookupRight == 
  ASSUME NEW t \in Tasks, Looks(t), NEW a \in acts, a.task = t, 
         RunLookup(a) \/ FetchNow(a)
  PROVE  StaysRight(t)
<1>1. a \in Answering(t) /\ a.work.op \in {"lookup", "fetch"}
  BY DEF RunLookup, FetchNow, Answering
<1>2. look[t].asks = "lookup" /\ look[t] # NoLook
  BY <1>1 DEF Looks, QuestionInv, Open, NoLook
<1>3. CASE RunLookup(a)
  <2> DEFINE v == mem[a.at][a.work.key]
  <2>1. a.work.key = look[t].of /\ a.at = Place(t, look[t].of)
    BY <1>1, <1>2, <1>3 DEF RunLookup, Looks, QuestionInv, LookupRight
  <2>2. v \in Matter(mem, t, look[t])
    BY <1>2, <2>1 DEF Matter, Place
  <2>3. v \in seen[t].ever
    BY <1>2, <2>2 DEF Looks, QuestionInv, Watched
  <2>4. Running(a, {}) /\ Answer(t, v) /\ UNCHANGED memory
    BY <1>3 DEF RunLookup
  <2> HIDE DEF v
  <2> QED BY <1>1, <2>3, <2>4, AnswerRight
<1>4. CASE FetchNow(a)
  <2>1. a.work.values \in seen[t].ever
    BY <1>1, <1>2, <1>4 DEF FetchNow, Looks, QuestionInv, LookupRight
  <2>2. Running(a, {}) /\ Answer(t, a.work.values) /\ UNCHANGED memory
    BY <1>4 DEF FetchNow
  <2> QED BY <1>1, <2>1, <2>2, AnswerRight
<1> QED BY <1>3, <1>4

LEMMA LookupCallRight == 
  ASSUME NEW t \in Tasks, Looks(t), LookupCall(t)
  PROVE  StaysRight(t)
<1>1. PICK k \in Keys : \E name : 
        \/ LookUp(t, name, k, Place(t, k)) \/ AsyncLookUp(t, name, k, Place(t, k))
        \/ kind # "replicated" /\ FetchLater(t, name, k)
  BY DEF LookupCall
<1>2. PICK name : 
        \/ LookUp(t, name, k, Place(t, k)) \/ AsyncLookUp(t, name, k, Place(t, k))
        \/ kind # "replicated" /\ FetchLater(t, name, k)
  BY <1>1
<1>3. CASE LookUp(t, name, k, Place(t, k))
  BY <1>3, LookUpRight
<1>4. CASE AsyncLookUp(t, name, k, Place(t, k))
  <2> DEFINE w == [op |-> "lookup", key |-> k]
  <2>1. w \in Works /\ w.op = "lookup" /\ w.key = k
    BY DEF Works
  <2>2. /\ Asking(t, name, "lookup", k, <<>>)
        /\ Leaving(t, {Activity(t, TRUE, Place(t, k), w)})
    BY <1>4 DEF AsyncLookUp
  <2> HIDE DEF w
  <2> QED BY <2>1, <2>2, LookUpLaterRight
<1>5. CASE kind # "replicated" /\ FetchLater(t, name, k)
  <2> DEFINE v == mem[Place(t, k)][k]
             w == [op |-> "fetch", values |-> v]
  <2>1. v \in Seq(Nat)
    BY TargetType, CallsAssumption DEF Place, Looks, ObjectInv, MemoryInv
  <2>2. w \in Works /\ w.op = "fetch" /\ w.values = v
    BY <2>1 DEF Works
  <2>3. /\ Asking(t, name, "lookup", k, <<>>)
        /\ Leaving(t, {Activity(t, TRUE, Place(t, k), w)})
    BY <1>5 DEF FetchLater, Place
  <2> HIDE DEF w
  <2> QED BY <2>2, <2>3, LookUpLaterRight
<1> QED BY <1>2, <1>3, <1>4, <1>5

\* the task has the answer: nothing is under way for it any more
LEMMA DoneRight == 
  ASSUME NEW t \in Tasks, Looks(t), look[t] # NoLook, 
         \/ doing[t].op = "called" /\ Return(t)
         \/ waitForCompletion(t)
  PROVE  StaysRight(t)
<1> DEFINE d == [op |-> "looked"]
<1>1. Answering(t) = {}
  <2>1. ASSUME NEW a \in Answering(t) PROVE FALSE
    <3>1. a \in Mine(t, a.async) /\ a.async \in BOOLEAN
      BY DEF Answering, Mine, Looks, ObjectInv, TaskTypes, Activities
    <3>2. IF a.async THEN doing[t].op \in Calm ELSE doing[t].op = "called"
      BY DEF Looks, QuestionInv, Open
    <3>3. CASE doing[t].op = "called" /\ Return(t)
      BY <3>1, <3>2, <3>3 DEF Return, Calm
    <3>4. CASE waitForCompletion(t)
      <4>1. doing[t] = Idle /\ Mine(t, TRUE) = {}
        BY <3>4 DEF waitForCompletion
      <4>2. doing[t].op = "idle"
        BY <4>1 DEF Idle
      <4> QED BY <3>1, <3>2, <4>1, <4>2
    <3> QED BY <3>3, <3>4
  <2> QED BY <2>1
<1>2. doing' = [doing EXCEPT ![t] = d] /\ acts' = acts /\ calls' = calls
      /\ look' = look /\ UNCHANGED memory
  BY DEF Return, waitForCompletion, GoesOn, Become
<1>3. d \in Doings /\ d.op = "looked" /\ IsLook(look[t])
  BY DEF Doings, Looks, ObjectInv, TaskTypes
<1>4. look = [u \in Tasks |-> look[u]]
  BY DEF Looks, ObjectInv, TaskTypes
<1> HIDE DEF d
<1>5. Effect(t, d, look[t], {}, {})
  BY <1>2, <1>4 DEF Effect, Looks, ObjectInv, TaskTypes
<1>6. /\ ObjectInv' /\ look'[t] = look[t] /\ doing'[t] = d
      /\ Answering(t)' = {} /\ \A u \in Tasks \ {t} : Undisturbed(u)
  BY <1>1, <1>3, <1>5, EffectAlone
<1>7. /\ Watched(t)' 
      /\ seen'[t].always \subseteq seen[t].always
      /\ seen[t].ever \subseteq seen'[t].ever
  BY <1>6, Watching DEF Looks, Looking, QuestionInv
<1>8. doing[t].op \in {"called", "idle"}
  <2>1. ASSUME waitForCompletion(t) PROVE doing[t].op = "idle"
    BY <2>1 DEF waitForCompletion, Idle
  <2> QED BY <2>1
<1>9. look[t].asks # "size" /\ (look[t].asks = "walk" => kind # "replicated")
      /\ (look[t].asks = "walk" /\ look[t].of = "values" => FALSE)
  BY <1>8 DEF Looks, QuestionInv, Open, Calm
<1>10. Open(t)'
  BY <1>3, <1>6, <1>9 DEF Open, Looks, NoLook
<1>11. LookupRight(t)' /\ SumRight(t)'
  BY <1>1, <1>6, <1>7, <1>9 DEF LookupRight, SumRight, Looks, QuestionInv
<1>12. WalkRight(t)'
  <2>1. \A x : ~ Ahead(t, x) /\ ~ Ahead(t, x)'
    BY <1>1, <1>3, <1>6, <1>8 DEF Ahead
  <2> QED BY <1>6, <1>7, <2>1 DEF WalkRight, Looks, QuestionInv
<1> QED BY <1>6, <1>7, <1>10, <1>11, <1>12 DEF StaysRight, QuestionInv

LEMMA ForgetRight == 
  ASSUME NEW t \in Tasks, Looks(t), Forget(t)
  PROVE  StaysRight(t)
<1>1. doing[t].op = "looked" /\ doing' = [doing EXCEPT ![t] = Idle] /\ acts' = acts
      /\ calls' = calls /\ look' = [look EXCEPT ![t] = NoLook] /\ UNCHANGED memory
  BY DEF Forget, GoesOn, Become
<1>2. Answering(t) = {}
  BY <1>1 DEF Looks, QuestionInv, Open, Calm
<1>3. Idle \in Doings /\ IsLook(NoLook) /\ Idle.op \in Calm 
      /\ NoLook.asks \notin {"lookup", "size", "walk"}
  BY DEF Idle, Doings, IsLook, NoLook, Calm
<1>4. Effect(t, Idle, NoLook, {}, {})
  BY <1>1 DEF Effect, Looks, ObjectInv, TaskTypes
<1>5. /\ ObjectInv' /\ look'[t] = NoLook /\ doing'[t] = Idle
      /\ Answering(t)' = {} /\ \A u \in Tasks \ {t} : Undisturbed(u)
  BY <1>2, <1>3, <1>4, EffectAlone
<1>6. NoLook' = NoLook /\ Calm' = Calm
  BY DEF NoLook, Calm
<1>7. Open(t)' /\ Watched(t)' /\ LookupRight(t)' /\ SumRight(t)' /\ WalkRight(t)'
  BY <1>3, <1>5, <1>6 DEF Open, Watched, LookupRight, SumRight, WalkRight
<1> QED BY <1>5, <1>7 DEF StaysRight, QuestionInv

-----------------------------------------------------------------------------
(* The steps of a question: a sum.                                         *)

\* what a locality counts is what the question is about there
LEMMA CountedIs == 
  ASSUME ObjectInv, NEW t \in Tasks, NEW l \in Sources(t), NEW q, q.asks = "size"
  PROVE  /\ Counted(l, q.of) \in Nat
         /\ IsFiniteSet({x \in Matter(mem, t, q) : x[1] = l})
         /\ Cardinality({x \in Matter(mem, t, q) : x[1] = l}) = Counted(l, q.of)
<1> DEFINE s == IF q.of = "keys" THEN {e \in Here(l) : e[2] = 1} ELSE Here(l)
           r == {x \in Matter(mem, t, q) : x[1] = l}
           f == [e \in s |-> <<l, e>>]
<1>1. l \in Localities
  BY CallsAssumption DEF Sources
<1>2. IsFiniteSet(s)
  <2>1. s \in SUBSET Here(l) /\ IsFiniteSet(Here(l))
    BY <1>1, HereInPlace
  <2> HIDE DEF s
  <2> QED BY <2>1, FS_Subset
<1>3. \A x \in r : x = <<l, x[2]>> /\ x[2] \in s
  <2>1. Matter(mem, t, q) = 
          UNION {{<<i, e>> : e \in {e \in EntriesIn(mem, i) : 
                                q.of = "keys" => e[2] = 1}} : 
                   i \in Sources(t)}
    BY DEF Matter
  <2> QED BY <2>1 DEF Here
<1>4. \A e \in s : <<l, e>> \in r
  <2>1. Matter(mem, t, q) = 
          UNION {{<<i, e>> : e \in {e \in EntriesIn(mem, i) : 
                                q.of = "keys" => e[2] = 1}} : 
                   i \in Sources(t)}
    BY DEF Matter
  <2> QED BY <2>1 DEF Here
<1> HIDE DEF s, r
<1>5. f \in Bijection(s, r)
  <2>1. f \in [s -> r]
    BY <1>4
  <2>2. \A d, e \in s : f[d] = f[e] => d = e
    OBVIOUS
  <2>3. \A x \in r : \E e \in s : f[e] = x
    BY <1>3
  <2> HIDE DEF f
  <2> QED BY <2>1, <2>2, <2>3 DEF Bijection, Injection, Surjection, IsInjective
<1>6. ExistsBijection(s, r)
  BY <1>5 DEF ExistsBijection
<1>7. IsFiniteSet(r) /\ Cardinality(r) = Cardinality(s)
  BY <1>2, <1>6, FS_Bijection
<1>8. Cardinality(s) \in Nat
  BY <1>2, FS_CardinalityType
<1> QED BY <1>7, <1>8 DEF Counted, s, r

LEMMA SummingRight == 
  ASSUME NEW t \in Tasks, Looks(t), NEW name, NEW of \in {"values", "keys"}, 
         NEW first, NEW others, Summing(t, name, of, first, others),
         \/ first = 0 /\ Lists(others, Sources(t))
         \/ /\ Home[t] \in Sources(t) /\ first = Counted(Home[t], of) 
            /\ Lists(others, Sources(t) \ {Home[t]})
  PROVE  StaysRight(t)
<1> DEFINE q == [asks |-> "size", of |-> of, answer |-> first]
           d == [op |-> "summing", next |-> others]
           M == Matter(mem, t, q)
<1>1. /\ doing[t] = Idle /\ look[t] = NoLook /\ calls' \in Nat
      /\ look' = [look EXCEPT ![t] = q] /\ UNCHANGED memory
  BY AskingEffect DEF Summing, Looks
<1>2. /\ IsLook(q) /\ q # NoLook /\ q.asks = "size" /\ q.of = of 
      /\ q.answer = first 
  BY DEF IsLook, NoLook
<1>3. d \in Doings /\ d.op = "summing" /\ d.next = others
  BY DEF Doings, Lists
<1>4. Effect(t, d, q, {}, {})
  BY <1>1 DEF Summing, Become, Effect
<1> HIDE DEF q, d
<1>5. /\ ObjectInv' /\ look'[t] = q /\ doing'[t] = d
      /\ Answering(t)' = Answering(t) /\ \A u \in Tasks \ {t} : Undisturbed(u)
  BY <1>2, <1>3, <1>4, EffectAlone
<1>6. Answering(t)' = {}
  BY <1>1, <1>5 DEF Looks, QuestionInv, Open
<1>7. Looking /\ Matter(mem', t, look'[t]) = M /\ ObjectInv
  BY <1>1, <1>5 DEF Looks, Looking, memory
<1>8. Watched(t)' /\ seen'[t].always \subseteq M /\ M \subseteq seen'[t].ever
  BY <1>1, <1>2, <1>5, <1>7, Watching DEF Looks, QuestionInv
<1>9. Open(t)' /\ LookupRight(t)' /\ WalkRight(t)'
  BY <1>2, <1>3, <1>5, <1>6 DEF Open, LookupRight, WalkRight, NoLook
<1>10. \A x \in seen'[t].ever : InPlace(t, x)
  <2>1. \A x \in seen'[t].ever : InPlace(t, x)'
    BY <1>2, <1>5, <1>8 DEF Watched
  <2>2. \A x : InPlace(t, x)' <=> InPlace(t, x)
    BY <1>7 DEF InPlace, Sources, Looking
  <2> QED BY <2>1, <2>2
<1> DEFINE ls == {others[i] : i \in DOMAIN others}
           low == Outside(seen'[t].always, ls)
           high == Outside(seen'[t].ever, ls)
<1>11. /\ IsFiniteSet(low) /\ IsFiniteSet(high) 
       /\ Cardinality(low) \in Nat /\ Cardinality(high) \in Nat
  <2>1. seen'[t].always \in SUBSET seen'[t].ever
    BY <1>8
  <2> QED BY <1>7, <1>10, <2>1, SumBounds
<1>12. ls \subseteq Sources(t) /\ OneByOne(others) /\ first \in Nat
  <2>1. ls \subseteq Sources(t) /\ OneByOne(others)
    BY DEF Lists
  <2>2. Home[t] \in Sources(t) => Counted(Home[t], q.of) \in Nat
    BY <1>2, <1>7, CountedIs
  <2> HIDE DEF ls
  <2>3. first \in Nat
    BY <1>2, <2>2
  <2> QED BY <2>1, <2>3
<1>13. Cardinality(low) <= first /\ first <= Cardinality(high)
  <2>1. CASE first = 0 /\ Lists(others, Sources(t))
    <3>1. \A x \in low : FALSE
      BY <1>8, <1>10, <2>1 DEF Outside, InPlace, Lists
    <3>2. Cardinality(low) = 0
      BY <3>1, <1>11, FS_EmptySet
    <3> QED BY <2>1, <3>2, <1>11
  <2>2. CASE /\ Home[t] \in Sources(t) /\ first = Counted(Home[t], of) 
             /\ Lists(others, Sources(t) \ {Home[t]})
    <3> DEFINE own == {x \in M : x[1] = Home[t]}
    <3>1. IsFiniteSet(own) /\ Cardinality(own) = first
      BY <1>2, <1>7, <2>2, CountedIs
    <3>2. low \in SUBSET own
      BY <1>8, <1>10, <2>2 DEF Outside, InPlace, Lists
    <3>3. own \in SUBSET high
      BY <1>8, <2>2 DEF Outside, Lists
    <3> HIDE DEF own, low, high
    <3>4. Cardinality(low) <= Cardinality(own) /\ Cardinality(own) <= Cardinality(high)
      BY <1>11, <3>1, <3>2, <3>3, FS_Subset
    <3> QED BY <3>1, <3>4
  <2> QED BY <2>1, <2>2
<1>14. Left(t)' = ls /\ Sources(t)' = Sources(t)
  BY <1>3, <1>5, <1>7 DEF Left, Sources, Looking
<1> HIDE DEF ls
<1>15. SumRight(t)'
  BY <1>2, <1>3, <1>5, <1>11, <1>12, <1>13, <1>14 DEF SumRight, Outside
<1> QED BY <1>5, <1>8, <1>9, <1>15 DEF StaysRight, QuestionInv

LEMMA SizeCallRight == 
  ASSUME NEW t \in Tasks, Looks(t), SizeCall(t)
  PROVE  StaysRight(t)
<1>1. PICK name : \E of \in {"values", "keys"} : 
        \/ kind = "replicated" /\ Summing(t, name, of, Counted(Home[t], of), <<>>)
        \/ /\ kind # "replicated" 
           /\ Summing(t, name, of, Counted(Home[t], of), 
                      Ascending(Localities \ {Home[t]}))
        \/ kind # "replicated" /\ Summing(t, name, of, 0, Ascending(Localities))
  BY DEF SizeCall
<1>2. PICK of \in {"values", "keys"} : 
        \/ kind = "replicated" /\ Summing(t, name, of, Counted(Home[t], of), <<>>)
        \/ /\ kind # "replicated" 
           /\ Summing(t, name, of, Counted(Home[t], of), 
                      Ascending(Localities \ {Home[t]}))
        \/ kind # "replicated" /\ Summing(t, name, of, 0, Ascending(Localities))
  BY <1>1
<1>3. Home[t] \in Localities
  BY CallsAssumption
<1>4. CASE kind = "replicated" /\ Summing(t, name, of, Counted(Home[t], of), <<>>)
  <2>1. Lists(<<>>, {}) 
    BY DEF Lists, OneByOne
  <2>2. Home[t] \in Sources(t) /\ Sources(t) \ {Home[t]} = {}
    BY <1>4 DEF Sources
  <2> QED BY <1>4, <2>1, <2>2, SummingRight
<1>5. CASE /\ kind # "replicated" 
           /\ Summing(t, name, of, Counted(Home[t], of), 
                      Ascending(Localities \ {Home[t]}))
  <2>1. Sources(t) = Localities
    BY <1>5 DEF Sources
  <2> QED BY <1>3, <1>5, <2>1, AscendingLists, SummingRight
<1>6. CASE kind # "replicated" /\ Summing(t, name, of, 0, Ascending(Localities))
  <2>1. Sources(t) = Localities
    BY <1>6 DEF Sources
  <2> QED BY <1>3, <1>6, <2>1, AscendingLists, SummingRight
<1> QED BY <1>2, <1>4, <1>5, <1>6

LEMMA SumStepRight == 
  ASSUME NEW t \in Tasks, Looks(t), Sum(t)
  PROVE  StaysRight(t)
<1>1. /\ doing[t].op = "summing" /\ doing[t] \in Doings /\ acts' = acts 
      /\ calls' = calls /\ UNCHANGED memory
      /\ look = [u \in Tasks |-> look[u]] /\ calls \in Nat
  BY DEF Sum, GoesOn, Looks, ObjectInv, TaskTypes
<1>2. /\ look[t].asks = "size" /\ look[t] # NoLook /\ Answering(t) = {} 
      /\ IsLook(look[t])
  <2>1. IsLook(look[t]) /\ Open(t)
    BY DEF Looks, QuestionInv, ObjectInv, TaskTypes
  <2>2. doing[t].op \notin Calm /\ doing[t].op # "called"
    BY <1>1 DEF Calm
  <2>3. \A a \in Answering(t) : FALSE
    BY <2>1, <2>2 DEF Open
  <2>4. look[t].asks \in {"lookup", "size", "walk"}
    BY <2>1, <2>2 DEF IsLook, Open
  <2> QED BY <1>1, <2>1, <2>2, <2>3, <2>4 DEF Open, NoLook
<1>3. doing[t] = [op |-> "summing", next |-> doing[t].next]
      /\ doing[t].next \in Seq(Localities)
  BY <1>1 DEF Doings
<1>4. CASE doing[t].next = <<>>
  <2> DEFINE d == [op |-> "looked"]
  <2>1. d \in Doings /\ d.op = "looked"
    BY DEF Doings
  <2>2. Effect(t, d, look[t], {}, {})
    BY <1>1, <1>4 DEF Sum, GoesOn, Become, Effect
  <2> HIDE DEF d
  <2>3. /\ ObjectInv' /\ look'[t] = look[t] /\ doing'[t] = d
        /\ Answering(t)' = Answering(t) /\ \A u \in Tasks \ {t} : Undisturbed(u)
    BY <1>2, <2>1, <2>2, EffectAlone
  <2>4. Looking
    BY <2>3 DEF Looks, Looking
  <2>5. Watched(t)'
    BY <1>2, <2>3, <2>4, Watching DEF Looks, QuestionInv
  <2>6. Left(t) = {} /\ Left(t)' = {}
    BY <1>1, <1>4, <2>1, <2>3 DEF Left
  <2>7. SumRight(t)'
    BY <1>2, <2>1, <2>3, <2>4, <2>6, SumStays DEF Looks, QuestionInv
  <2>8. Open(t)' /\ LookupRight(t)' /\ WalkRight(t)'
    BY <1>2, <2>1, <2>3 DEF Open, LookupRight, WalkRight, NoLook
  <2> QED BY <2>3, <2>5, <2>7, <2>8 DEF StaysRight, QuestionInv
<1>5. CASE doing[t].next # <<>>
  <2> DEFINE s == doing[t].next
             h == Head(s)
             n == Counted(h, look[t].of)
             q == [look[t] EXCEPT !.answer = @ + n]
             d == [op |-> "summing", next |-> Tail(s)]
             ls == Left(t)
             M == {x \in Matter(mem, t, look[t]) : x[1] = h}
  <2>1. h \in Sources(t) /\ OneByOne(s) /\ ls \subseteq Sources(t)
        /\ ls = {s[i] : i \in DOMAIN s} /\ look[t].answer \in Nat
    <3>1. ls = {s[i] : i \in DOMAIN s} /\ OneByOne(s) /\ ls \subseteq Sources(t)
          /\ look[t].answer \in Nat
      BY <1>1, <1>2 DEF Looks, QuestionInv, SumRight, Left
    <3>2. h = s[1] /\ 1 \in DOMAIN s
      BY <1>3, <1>5
    <3> QED BY <3>1, <3>2
  <2>2. Tail(s) \in Seq(Localities) /\ OneByOne(Tail(s))
        /\ {Tail(s)[i] : i \in DOMAIN Tail(s)} = ls \ {h}
    <3>1. Tail(s) \in Seq(Localities) /\ h = s[1] 
          /\ Len(Tail(s)) = Len(s) - 1 /\ Len(s) \in Nat /\ Len(s) >= 1
          /\ \A i \in 1..Len(s) - 1 : Tail(s)[i] = s[i + 1]
      BY <1>3, <1>5
    <3>2. DOMAIN s = 1..Len(s) /\ DOMAIN Tail(s) = 1..Len(s) - 1
      BY <1>3, <3>1
    <3>3. \A i, j \in 1..Len(s) : s[i] = s[j] => i = j
      BY <2>1, <3>2 DEF OneByOne
    <3>4. OneByOne(Tail(s))
      <4>1. ASSUME NEW i \in 1..Len(s) - 1, NEW j \in 1..Len(s) - 1, 
                   Tail(s)[i] = Tail(s)[j]
            PROVE  i = j
        <5>1. s[i + 1] = s[j + 1] /\ i + 1 \in 1..Len(s) /\ j + 1 \in 1..Len(s)
          BY <3>1, <4>1
        <5>2. i + 1 = j + 1
          BY <3>3, <5>1
        <5> QED BY <5>2
      <4> QED BY <3>2, <4>1 DEF OneByOne
    <3>5. ASSUME NEW x \in ls \ {h} PROVE x \in {Tail(s)[i] : i \in DOMAIN Tail(s)}
      <4>1. PICK i \in 1..Len(s) : x = s[i]
        BY <2>1, <3>2
      <4>2. i - 1 \in 1..Len(s) - 1 /\ Tail(s)[i - 1] = s[i]
        BY <3>1, <4>1
      <4> QED BY <4>1, <4>2, <3>2
    <3>6. ASSUME NEW i \in DOMAIN Tail(s) PROVE Tail(s)[i] \in ls \ {h}
      <4>1. i + 1 \in 1..Len(s) /\ i + 1 # 1 /\ Tail(s)[i] = s[i + 1]
        BY <3>1, <3>2
      <4>2. s[i + 1] # s[1]
        BY <3>1, <3>3, <4>1
      <4> QED BY <2>1, <3>1, <3>2, <4>1, <4>2
    <3> QED BY <3>1, <3>4, <3>5, <3>6
  <2>3. n \in Nat /\ IsFiniteSet(M) /\ Cardinality(M) = n
    BY <1>2, <2>1, CountedIs DEF Looks
  <2>4. look[t] = [asks |-> "size", of |-> look[t].of, answer |-> look[t].answer]
        /\ look[t].of \in {"values", "keys"}
    BY <1>2 DEF IsLook
  <2>5. q = [asks |-> "size", of |-> look[t].of, answer |-> look[t].answer + n]
    BY <2>4
  <2>6. /\ IsLook(q) /\ q # NoLook /\ q.asks = "size" /\ q.of = look[t].of 
        /\ q.answer = look[t].answer + n
    BY <2>4, <2>5 DEF IsLook, NoLook
  <2>7. d \in Doings /\ d.op = "summing" /\ d.next = Tail(s)
    BY <2>2 DEF Doings
  <2>8. [doing[t] EXCEPT !.next = Tail(@)] = d
    <3>1. s = doing[t].next
      OBVIOUS
    <3> HIDE DEF s
    <3>2. doing[t] = [op |-> "summing", next |-> s]
      BY <1>3, <3>1
    <3>3. ASSUME NEW r, NEW w, r = [op |-> "summing", next |-> s]
          PROVE  [r EXCEPT !.next = w] = [op |-> "summing", next |-> w]
      <4>1. DOMAIN [r EXCEPT !.next = w] = {"op", "next"}
        BY <3>3, Zenon
      <4>2. /\ [r EXCEPT !.next = w].op = "summing" 
            /\ [r EXCEPT !.next = w].next = w
        BY <3>3
      <4> QED BY <4>1, <4>2
    <3>4. [doing[t] EXCEPT !.next = Tail(@)] = [doing[t] EXCEPT !.next = Tail(s)]
      BY <3>1
    <3> HIDE DEF d
    <3>5. [doing[t] EXCEPT !.next = Tail(s)] = [op |-> "summing", next |-> Tail(s)]
      BY <3>2, <3>3
    <3> QED BY <3>4, <3>5 DEF d
  <2>9. doing' = [doing EXCEPT ![t] = d]
    BY <1>5, <2>8 DEF Sum, GoesOn, Become
  <2>10. look' = [look EXCEPT ![t] = q]
    BY <1>5 DEF Sum, Answer
  <2> HIDE DEF d, q, n
  <2>11. Effect(t, d, q, {}, {})
    BY <1>1, <2>9, <2>10 DEF Effect
  <2>12. /\ ObjectInv' /\ look'[t] = q /\ doing'[t] = d
         /\ Answering(t)' = Answering(t) /\ \A u \in Tasks \ {t} : Undisturbed(u)
    BY <2>6, <2>7, <2>11, EffectAlone
  <2>13. Looking /\ ObjectInv
    BY <2>12 DEF Looks, Looking
  <2>14. /\ Watched(t)' 
         /\ seen'[t].always \subseteq Matter(mem', t, look'[t])
         /\ Matter(mem', t, look'[t]) \subseteq seen'[t].ever
         /\ seen'[t].always \subseteq seen[t].always
         /\ seen[t].ever \subseteq seen'[t].ever
    BY <1>2, <2>6, <2>12, <2>13, Watching DEF Looks, QuestionInv
  <2>15. Matter(mem', t, look'[t]) = Matter(mem, t, look[t])
    BY <1>1, <1>2, <2>6, <2>12 DEF Matter, memory
  <2>16. Left(t)' = ls \ {h} /\ Sources(t)' = Sources(t)
    BY <2>2, <2>7, <2>12, <2>13 DEF Left, Sources, Looking
  <2>17. /\ \A x \in seen[t].ever : InPlace(t, x)
         /\ \A x \in seen'[t].ever : InPlace(t, x)
         /\ seen[t].always \in SUBSET seen[t].ever
         /\ seen'[t].always \in SUBSET seen'[t].ever
    <3>1. \A x \in seen'[t].ever : InPlace(t, x)'
      BY <2>6, <2>12, <2>14 DEF Watched
    <3>2. \A x : InPlace(t, x)' <=> InPlace(t, x)
      BY <2>13 DEF InPlace, Sources, Looking
    <3> QED BY <1>2, <2>14, <3>1, <3>2 DEF Looks, QuestionInv, Watched
  <2> DEFINE low == Outside(seen[t].always, ls)
             high == Outside(seen[t].ever, ls)
             low2 == Outside(seen'[t].always, ls \ {h})
             high2 == Outside(seen'[t].ever, ls \ {h})
  <2>18. /\ IsFiniteSet(low) /\ IsFiniteSet(high) 
         /\ Cardinality(low) \in Nat /\ Cardinality(high) \in Nat
         /\ IsFiniteSet(low2) /\ IsFiniteSet(high2) 
         /\ Cardinality(low2) \in Nat /\ Cardinality(high2) \in Nat
    BY <2>13, <2>17, SumBounds
  <2>19. look[t].answer >= Cardinality(low) /\ look[t].answer <= Cardinality(high)
    BY <1>2 DEF Looks, QuestionInv, SumRight, Outside
  <2>20. low2 \in SUBSET (low \cup M) /\ (high \cup M) \in SUBSET high2
         /\ high \cap M = {}
    <3>1. h \in ls
      <4>1. h = s[1] /\ 1 \in DOMAIN s
        BY <1>3, <1>5
      <4> QED BY <2>1, <4>1
    <3>2. low2 \in SUBSET (low \cup M)
      BY <2>14, <2>15 DEF Outside
    <3>3. (high \cup M) \in SUBSET high2
      BY <2>14, <2>15 DEF Outside
    <3>4. high \cap M = {}
      BY <3>1 DEF Outside
    <3> QED BY <3>2, <3>3, <3>4
  <2> HIDE DEF low, high, low2, high2, M
  <2>21. /\ IsFiniteSet(low \cup M) /\ IsFiniteSet(high \cup M) 
         /\ Cardinality(low \cup M) = Cardinality(low) + n - Cardinality(low \cap M)
         /\ Cardinality(high \cup M) = Cardinality(high) + n - Cardinality(high \cap M)
    BY <2>3, <2>18, FS_Union
  <2>22. Cardinality(low \cap M) \in Nat /\ Cardinality(high \cap M) = 0
    <3>1. IsFiniteSet(low \cap M)
      BY <2>18, FS_Intersection
    <3> QED BY <3>1, <2>20, FS_CardinalityType, FS_EmptySet
  <2>23. /\ Cardinality(low2) <= Cardinality(low \cup M) 
         /\ Cardinality(high \cup M) <= Cardinality(high2)
    BY <2>18, <2>20, <2>21, FS_Subset
  <2>24. /\ q.answer \in Nat /\ q.answer >= Cardinality(low2) 
         /\ q.answer <= Cardinality(high2)
    BY <2>1, <2>3, <2>6, <2>18, <2>19, <2>21, <2>22, <2>23
  <2>25. SumRight(t)'
    BY <2>1, <2>2, <2>7, <2>12, <2>16, <2>24 DEF SumRight, Outside, low2, high2
  <2>26. Open(t)' /\ LookupRight(t)' /\ WalkRight(t)'
    BY <1>2, <2>6, <2>7, <2>12 DEF Open, LookupRight, WalkRight, NoLook
  <2> QED BY <2>12, <2>14, <2>25, <2>26 DEF StaysRight, QuestionInv
<1> QED BY <1>4, <1>5

-----------------------------------------------------------------------------
(* The steps of a question: a walk.                                        *)

\* what an iterator has still to come by at the locality where it stands
Coming(t, e) == doing[t].op = "walking" => Before(doing[t].entry, e)

LEMMA VisitOnce == 
  ASSUME NEW b, NEW x, x \notin DOMAIN b, \A y \in DOMAIN b : b[y] = 1
  PROVE  /\ DOMAIN (b (+) SetToBag({x})) = DOMAIN b \cup {x}
         /\ \A y \in DOMAIN b \cup {x} : (b (+) SetToBag({x}))[y] = 1
BY DEF \oplus, SetToBag

\* where a walk finds what it is about
LEMMA Walked == 
  ASSUME NEW t \in Tasks, Looks(t), look[t].asks = "walk"
  PROVE  /\ kind # "replicated" /\ Sources(t) = Localities
         /\ look[t] # NoLook /\ IsLook(look[t]) 
         /\ look[t].of \in {"values", "keys"}
         /\ \A l \in Localities : \A e : <<l, e>> \in Matter(mem, t, look[t])
              <=> e \in Here(l) /\ (look[t].of = "keys" => e[2] = 1)
         /\ \A x : InPlace(t, x) => 
              /\ x = <<x[1], x[2]>> /\ x[1] \in Localities /\ x[2] \in Entries
              /\ x[1] = TargetLocality(x[2][1])
<1>1. kind # "replicated" /\ IsLook(look[t]) /\ look[t] # NoLook 
      /\ look[t].of \in {"values", "keys"}
  BY DEF Looks, QuestionInv, Open, ObjectInv, TaskTypes, IsLook, NoLook
<1>2. Sources(t) = Localities
  BY <1>1 DEF Sources
<1>3. /\ mem \in [Localities -> [Keys -> Seq(Nat)]] /\ program \in Programs
      /\ kind # "replicated" => \A l \in Localities, k \in Keys : 
           l # TargetLocality(k) => mem[l][k] = <<>>
  BY DEF Looks, ObjectInv, TaskTypes, MemoryInv
<1>4. \A l \in Sources(t) : \A e : <<l, e>> \in Matter(mem, t, look[t])
        <=> e \in EntriesIn(mem, l) /\ (look[t].of = "keys" => e[2] = 1)
  <2> DEFINE q == look[t]
  <2>1. q.asks \in {"size", "walk"}
    OBVIOUS
  <2> HIDE DEF q
  <2>2. /\ \A x \in Matter(mem, t, q) : InPlace(t, x)
        /\ \A l \in Sources(t) : \A e : <<l, e>> \in Matter(mem, t, q)
             <=> e \in EntriesIn(mem, l) /\ (q.of = "keys" => e[2] = 1)
    BY <1>3, <2>1, MatterInPlace
  <2> QED BY <2>2 DEF q
<1>5. program.calls \in Nat
  BY <1>3, CallsAssumption
<1>6. ASSUME NEW x, InPlace(t, x) 
      PROVE  /\ x = <<x[1], x[2]>> /\ x[1] \in Localities /\ x[2] \in Entries
             /\ x[1] = TargetLocality(x[2][1])
  BY <1>1, <1>2, <1>5, <1>6 DEF InPlace, Entries
<1> QED BY <1>1, <1>2, <1>4, <1>6 DEF Here

\* after a step of a walk: what is there has not changed
LEMMA WalkWatched == 
  ASSUME NEW t \in Tasks, Looks(t), look[t].asks = "walk", ObjectInv',
         look'[t].asks = "walk", look'[t].of = look[t].of, UNCHANGED memory
  PROVE  /\ Watched(t)'
         /\ seen'[t].always \subseteq seen[t].always
         /\ seen'[t].always \subseteq Matter(mem, t, look[t])
         /\ Matter(mem, t, look[t]) \subseteq seen'[t].ever
         /\ seen[t].ever \subseteq seen'[t].ever
         /\ \A x \in seen[t].ever : InPlace(t, x)
         /\ \A x \in seen'[t].ever : InPlace(t, x)
<1>1. Looking /\ look[t] # NoLook /\ look'[t] # NoLook /\ Watched(t)
  BY DEF Looks, Looking, NoLook, QuestionInv
<1>2. /\ Watched(t)' 
      /\ seen'[t].always \subseteq Matter(mem', t, look'[t])
      /\ Matter(mem', t, look'[t]) \subseteq seen'[t].ever
      /\ seen'[t].always \subseteq seen[t].always
      /\ seen[t].ever \subseteq seen'[t].ever
  BY <1>1, Watching
<1>3. Matter(mem', t, look'[t]) = Matter(mem, t, look[t])
  BY DEF Matter, memory
<1>4. \A x \in seen'[t].ever : InPlace(t, x)'
  BY <1>1, <1>2 DEF Watched
<1>5. \A x : InPlace(t, x)' <=> InPlace(t, x)
  BY <1>1 DEF InPlace, Sources, Looking
<1> QED BY <1>1, <1>2, <1>3, <1>4, <1>5 DEF Watched

\* a new walk: everything is ahead of it
Starts(t, of, d, more) == 
  /\ of = "values" => d.op = "seeking" /\ d.at = 0
  /\ of = "keys" => d.op \in Calm \cup {"called"}
  /\ doing' = [doing EXCEPT ![t] = d] /\ acts' = acts \cup more
  /\ \A a \in more : /\ a.work.op = "visit" 
                     /\ IF a.async THEN d.op \in Calm ELSE d.op = "called"
  /\ \A a, b \in more : a.at = b.at /\ a.work.bucket = b.work.bucket => a = b
  /\ of = "keys" => \A l \in Localities, b \in 0..NumBuckets - 1 : 
       \E a \in more : a.at = l /\ a.work.bucket = b

LEMMA WalkBegins == 
  ASSUME NEW t \in Tasks, Looks(t), kind # "replicated", NEW name, 
         NEW of \in {"values", "keys"}, Asking(t, name, "walk", of, EmptyBag),
         NEW d \in Doings, NEW more \in SUBSET MayAnswer(t), 
         Starts(t, of, d, more)
  PROVE  StaysRight(t)
<1> DEFINE q == [asks |-> "walk", of |-> of, answer |-> EmptyBag]
<1>1. /\ doing[t] = Idle /\ look[t] = NoLook /\ calls' \in Nat
      /\ look' = [look EXCEPT ![t] = q] /\ UNCHANGED memory
  BY AskingEffect DEF Looks
<1>2. /\ IsLook(q) /\ q # NoLook /\ q.asks = "walk" /\ q.of = of
      /\ DOMAIN q.answer = {}
  BY DEF IsLook, NoLook, EmptyBag, SetToBag
<1> HIDE DEF q
<1>3. Effect(t, d, q, more, {})
  BY <1>1 DEF Effect, Starts
<1>4. /\ ObjectInv' /\ look'[t] = q /\ doing'[t] = d
      /\ Answering(t)' = Answering(t) \cup more 
      /\ \A u \in Tasks \ {t} : Undisturbed(u)
  BY <1>2, <1>3, EffectMore
<1>5. Answering(t)' = more
  BY <1>1, <1>4 DEF Looks, QuestionInv, Open
<1>6. Looking /\ Watched(t) /\ kind' = kind
  BY <1>4 DEF Looks, Looking, QuestionInv
<1>7. Watched(t)' /\ seen'[t].always \subseteq seen'[t].ever
  BY <1>1, <1>2, <1>4, <1>6, Watching 
<1>8. Open(t)'
  BY <1>2, <1>4, <1>5, <1>6 DEF Open, NoLook, Calm, Starts
<1>9. ASSUME NEW x \in seen'[t].always PROVE Ahead(t, x)'
  <2>1. InPlace(t, x)'
    BY <1>2, <1>4, <1>7 DEF Watched
  <2>2. x[1] \in Localities /\ x[2][1] \in Keys
    BY <1>6, <2>1 DEF InPlace, Sources
  <2>3. CASE of = "values"
    BY <1>4, <2>2, <2>3, CallsAssumption DEF Ahead, Localities, Starts
  <2>4. CASE of = "keys"
    BY <1>5, <2>2, <2>4, TargetType DEF Ahead, Starts
  <2> QED BY <2>3, <2>4
<1>10. WalkRight(t)'
  BY <1>2, <1>4, <1>5, <1>9 DEF WalkRight, Starts
<1>11. LookupRight(t)' /\ SumRight(t)'
  BY <1>2, <1>4 DEF LookupRight, SumRight
<1> QED BY <1>4, <1>7, <1>8, <1>10, <1>11 DEF StaysRight, QuestionInv

LEMMA WalkCallRight == 
  ASSUME NEW t \in Tasks, Looks(t), WalkCall(t)
  PROVE  StaysRight(t)
<1>1. PICK name : Begin(t, name) \/ ForEach(t, name) \/ AsyncForEach(t, name)
  BY DEF WalkCall
<1>2. kind # "replicated"
  BY DEF WalkCall
<1>3. CASE Begin(t, name)
  <2> DEFINE d == [op |-> "seeking", at |-> 0]
             none == {}
  <2>1. d \in Doings /\ d.op = "seeking" /\ d.at = 0
    BY CallsAssumption DEF Doings, Localities
  <2>2. Asking(t, name, "walk", "values", EmptyBag) 
    BY <1>3 DEF Begin
  <2>3. none \in SUBSET MayAnswer(t) /\ Starts(t, "values", d, none)
    BY <1>3, <2>1 DEF Begin, Become, Starts
  <2> HIDE DEF d, none
  <2> QED BY <1>2, <2>1, <2>2, <2>3, WalkBegins
<1>4. ASSUME NEW async \in BOOLEAN, NEW d \in Doings, 
             IF async THEN d.op \in Calm ELSE d.op = "called",
             Asking(t, name, "walk", "keys", EmptyBag),
             doing' = [doing EXCEPT ![t] = d], acts' = acts \cup Loops(t, async)
      PROVE  StaysRight(t)
  <2> DEFINE visit(l, b) == Activity(t, async, l, [op |-> "visit", bucket |-> b])
             more == Loops(t, async)
  <2>1. \A a : a \in more <=> 
          \E l \in Localities, b \in 0..NumBuckets - 1 : a = visit(l, b)
    <3> DEFINE work(b) == [op |-> "visit", bucket |-> b]
    <3>1. \A a : a \in more <=> \E b \in 0..NumBuckets - 1 : 
            a \in OnAll(t, async, work(b))
      BY DEF Loops
    <3>2. \A b, a : a \in OnAll(t, async, work(b)) <=> 
            \E l \in Localities : a = visit(l, b)
      BY DEF OnAll
    <3> HIDE DEF more, visit, work
    <3> QED BY <3>1, <3>2
  <2>2. ASSUME NEW l \in Localities, NEW b \in 0..NumBuckets - 1
        PROVE  /\ visit(l, b) \in MayAnswer(t) /\ visit(l, b).work.op = "visit" 
               /\ visit(l, b).async = async
               /\ visit(l, b).at = l /\ visit(l, b).work.bucket = b
    BY DEF Activity, MayAnswer, Activities, Works, Looks, ObjectInv, TaskTypes
  <2> HIDE DEF visit, more
  <2>3. more \in SUBSET MayAnswer(t)
    BY <2>1, <2>2
  <2>4. \A a, b \in more : a.at = b.at /\ a.work.bucket = b.work.bucket => a = b
    BY <2>1, <2>2
  <2>5. \A l \in Localities, b \in 0..NumBuckets - 1 : 
          \E a \in more : a.at = l /\ a.work.bucket = b
    BY <2>1, <2>2
  <2>6. \A a \in more : /\ a.work.op = "visit" 
                       /\ IF a.async THEN d.op \in Calm ELSE d.op = "called"
    BY <1>4, <2>1, <2>2
  <2>7. acts' = acts \cup more
    BY <1>4 DEF more
  <2>8. Starts(t, "keys", d, more)
    BY <1>4, <2>4, <2>5, <2>6, <2>7 DEF Starts
  <2> QED BY <1>2, <1>4, <2>3, <2>8, WalkBegins
<1>5. CASE ForEach(t, name)
  <2> DEFINE d == [op |-> "called"]
  <2>1. d \in Doings /\ d.op = "called"
    BY DEF Doings
  <2>2. /\ Asking(t, name, "walk", "keys", EmptyBag) 
        /\ doing' = [doing EXCEPT ![t] = d] /\ acts' = acts \cup Loops(t, FALSE)
    BY <1>5 DEF ForEach, Waiting, Become
  <2> HIDE DEF d
  <2> QED BY <1>4, <2>1, <2>2
<1>6. CASE AsyncForEach(t, name)
  <2>1. /\ Asking(t, name, "walk", "keys", EmptyBag) 
        /\ doing' = doing /\ acts' = acts \cup Loops(t, TRUE)
    BY <1>6 DEF AsyncForEach, Leaving
  <2>2. doing[t].op \in Calm
    BY <2>1, AskingEffect DEF Looks, Idle, Calm
  <2>3. doing[t] \in Doings /\ doing' = [doing EXCEPT ![t] = doing[t]]
    BY <2>1 DEF Looks, ObjectInv, TaskTypes
  <2> QED BY <1>4, <2>1, <2>2, <2>3
<1> QED BY <1>1, <1>3, <1>5, <1>6

\* a step of an iterator, to the first of the entries it has still to come by
LEMMA IteratorRight == 
  ASSUME NEW t \in Tasks, Looks(t), NEW l, l = doing[t].at,
         doing[t].op \in {"seeking", "walking"},
         NEW es, es = {e \in Here(l) : Coming(t, e)}, Moved(t, l, FirstOf(es))
  PROVE  StaysRight(t)
<1> DEFINE M == Matter(mem, t, look[t])
<1>1. /\ look[t].asks = "walk" /\ look[t].of = "values" /\ Answering(t) = {}
  <2>1. IsLook(look[t]) /\ Open(t)
    BY DEF Looks, QuestionInv, ObjectInv, TaskTypes
  <2>2. doing[t].op \notin Calm \cup {"called", "looked", "summing"}
    BY DEF Calm
  <2>3. look[t].asks = "walk" /\ look[t].of = "values"
    BY <2>1, <2>2 DEF IsLook, Open
  <2>4. \A a \in Answering(t) : FALSE
    BY <2>1, <2>2 DEF Open
  <2> QED BY <2>3, <2>4
<1>2. /\ kind # "replicated" /\ look[t] # NoLook /\ IsLook(look[t]) 
      /\ \A i \in Localities : \A e : <<i, e>> \in M <=> e \in Here(i)
      /\ \A x : InPlace(t, x) => 
           /\ x = <<x[1], x[2]>> /\ x[1] \in Localities /\ x[2] \in Entries
           /\ x[1] = TargetLocality(x[2][1])
  BY <1>1, Walked
<1>3. /\ doing[t] \in Doings /\ doing \in [Tasks -> Doings] /\ calls \in Nat 
      /\ look = [u \in Tasks |-> look[u]]
  BY DEF Looks, ObjectInv, TaskTypes
<1>4. l \in Localities /\ (doing[t].op = "walking" => doing[t].entry \in Entries)
  BY <1>3 DEF Doings
<1>5. /\ es \in SUBSET Entries /\ IsFiniteSet(es)
      /\ \A e \in es : TargetLocality(e[1]) = l
  <2>1. es \in SUBSET Here(l)
    OBVIOUS
  <2>2. /\ Here(l) \subseteq Entries /\ IsFiniteSet(Here(l))
        /\ \A e \in Here(l) : TargetLocality(e[1]) = l
    BY <1>2, <1>4, HereInPlace DEF Looks
  <2> QED BY <2>1, <2>2, FS_Subset
<1>6. \A i \in Localities : i \in Int /\ (i > l => l + 1 < NumLocalities)
      /\ (i > l <=> i >= l + 1) /\ (i >= l <=> i > l \/ i = l)
  BY <1>4, CallsAssumption DEF Localities
<1>7. \A x : x[1] \in Localities => 
        (Ahead(t, x) <=> x[1] > l \/ (x[1] = l /\ Coming(t, x[2])))
  <2>1. \A x : ~ \E a \in Answering(t) : 
          a.at = x[1] /\ a.work.bucket = Bucket(x[2][1])
    BY <1>1
  <2>2. CASE doing[t].op = "seeking"
    BY <1>6, <2>1, <2>2 DEF Ahead, Coming
  <2>3. CASE doing[t].op = "walking"
    BY <1>6, <2>1, <2>3 DEF Ahead, Coming
  <2> QED BY <2>2, <2>3
<1>8. /\ \A x \in DOMAIN look[t].answer : 
           look[t].answer[x] = 1 /\ x \in seen[t].ever /\ ~ Ahead(t, x)
      /\ \A x \in seen[t].always : x \in DOMAIN look[t].answer \/ Ahead(t, x)
  BY <1>1 DEF Looks, QuestionInv, WalkRight
<1>9. acts' = acts /\ calls' = calls /\ UNCHANGED memory
  BY DEF Moved, GoesOn
<1>10. ASSUME NEW d \in Doings, NEW q, IsLook(q), q.asks = "walk", 
              q.of = look[t].of, doing' = [doing EXCEPT ![t] = d],
              look' = [look EXCEPT ![t] = q], 
              d.op \in {"seeking", "walking", "looked"}
       PROVE  /\ ObjectInv' /\ look'[t] = q /\ doing'[t] = d
              /\ Answering(t)' = {} /\ \A u \in Tasks \ {t} : Undisturbed(u)
              /\ Open(t)' /\ LookupRight(t)' /\ SumRight(t)'
              /\ Watched(t)'
              /\ seen'[t].always \subseteq seen[t].always
              /\ seen'[t].always \subseteq M
              /\ M \subseteq seen'[t].ever
              /\ seen[t].ever \subseteq seen'[t].ever
              /\ \A x \in seen[t].ever : InPlace(t, x)
              /\ \A x \in seen'[t].ever : InPlace(t, x)
  <2>1. Effect(t, d, q, {}, {})
    BY <1>3, <1>9, <1>10 DEF Effect
  <2>2. /\ ObjectInv' /\ look'[t] = q /\ doing'[t] = d
        /\ Answering(t)' = Answering(t) 
        /\ \A u \in Tasks \ {t} : Undisturbed(u)
    BY <1>10, <2>1, EffectAlone
  <2>3. /\ Watched(t)'
        /\ seen'[t].always \subseteq seen[t].always
        /\ seen'[t].always \subseteq M
        /\ M \subseteq seen'[t].ever
        /\ seen[t].ever \subseteq seen'[t].ever
        /\ \A x \in seen[t].ever : InPlace(t, x)
        /\ \A x \in seen'[t].ever : InPlace(t, x)
    BY <1>1, <1>9, <1>10, <2>2, WalkWatched
  <2>4. kind' = kind /\ q # NoLook
    BY <1>10 DEF Looks, NoLook
  <2>5. Open(t)' /\ LookupRight(t)' /\ SumRight(t)'
    BY <1>1, <1>2, <1>10, <2>2, <2>4 DEF Open, LookupRight, SumRight, NoLook
  <2> QED BY <1>1, <2>2, <2>3, <2>5
<1> HIDE DEF M
<1>11. CASE es = {}
  <2> DEFINE d == IF l + 1 < NumLocalities THEN [op |-> "seeking", at |-> l + 1]
                  ELSE [op |-> "looked"]
  <2>1. doing' = [doing EXCEPT ![t] = d] /\ look' = look
    <3>1. FirstOf(es) = LocalEnd
      BY <1>11 DEF FirstOf
    <3> QED BY <3>1 DEF Moved, GoesOn, Become
  <2>2. d \in Doings
    BY <1>4, CallsAssumption DEF Doings, Localities
  <2>3. /\ l + 1 < NumLocalities => d.op = "seeking" /\ d.at = l + 1 
        /\ ~ (l + 1 < NumLocalities) => d.op = "looked"
    OBVIOUS
  <2>4. look' = [look EXCEPT ![t] = look[t]]
    BY <1>3, <2>1
  <2> HIDE DEF d
  <2>5. /\ ObjectInv' /\ look'[t] = look[t] /\ doing'[t] = d
        /\ Answering(t)' = {} /\ \A u \in Tasks \ {t} : Undisturbed(u)
        /\ Open(t)' /\ LookupRight(t)' /\ SumRight(t)'
        /\ Watched(t)'
        /\ seen'[t].always \subseteq seen[t].always
        /\ seen'[t].always \subseteq M
        /\ M \subseteq seen'[t].ever
        /\ seen[t].ever \subseteq seen'[t].ever
        /\ \A x \in seen[t].ever : InPlace(t, x)
        /\ \A x \in seen'[t].ever : InPlace(t, x)
    BY <1>1, <1>2, <1>10, <2>1, <2>2, <2>3, <2>4
  <2>6. \A x : x[1] \in Localities => (Ahead(t, x)' <=> x[1] > l)
    BY <1>6, <2>3, <2>5 DEF Ahead
  <2>7. ASSUME NEW x \in DOMAIN look[t].answer 
        PROVE  /\ look[t].answer[x] = 1 /\ x \in seen'[t].ever /\ ~ Ahead(t, x)'
    <3>1. x \in seen[t].ever /\ look[t].answer[x] = 1 /\ ~ Ahead(t, x)
      BY <1>8
    <3>2. x[1] \in Localities
      BY <1>2, <2>5, <3>1
    <3>3. ~ Ahead(t, x)'
      BY <1>7, <2>6, <3>1, <3>2
    <3> QED BY <2>5, <3>1, <3>3
  <2>8. ASSUME NEW x \in seen'[t].always 
        PROVE  x \in DOMAIN look[t].answer \/ Ahead(t, x)'
    <3>1. x \in M /\ InPlace(t, x) /\ x \in seen[t].always
      BY <2>5
    <3>2. x = <<x[1], x[2]>> /\ x[1] \in Localities
      BY <1>2, <3>1
    <3>3. x[1] = l /\ Coming(t, x[2]) => x[2] \in es
      BY <1>2, <3>1, <3>2
    <3> QED BY <1>7, <1>8, <1>11, <2>6, <3>1, <3>2, <3>3
  <2>9. WalkRight(t)'
    BY <2>5, <2>7, <2>8 DEF WalkRight
  <2> QED BY <2>5, <2>9 DEF StaysRight, QuestionInv
<1>12. CASE es # {}
  <2> DEFINE f == FirstOf(es)
             y == <<l, f>>
             q == [look[t] EXCEPT !.answer = look[t].answer (+) SetToBag({y})]
             d == At(l, f)
  <2>1. f \in es /\ f # LocalEnd /\ \A e \in es \ {f} : Before(f, e)
    BY <1>5, <1>12, FirstOfIsFirst
  <2>2. f \in Entries /\ f \in Here(l) /\ Coming(t, f)
    BY <1>5, <2>1
  <2>3. y \in M /\ Ahead(t, y) /\ y[1] = l /\ y[2] = f
    BY <1>2, <1>4, <1>7, <2>2
  <2>4. doing' = [doing EXCEPT ![t] = d] /\ look' = [look EXCEPT ![t] = q]
    BY <2>1 DEF Moved, GoesOn, Become, Visit, Answer
  <2>5. d \in Doings /\ d.op = "walking" /\ d.at = l /\ d.entry = f
    BY <1>4, <2>2 DEF At, Doings
  <2> HIDE DEF d, q, f, y
  <2>6. /\ IsLook(q) /\ q # NoLook /\ q.asks = "walk" /\ q.of = look[t].of
        /\ DOMAIN q.answer = DOMAIN look[t].answer \cup {y}
        /\ \A x \in DOMAIN q.answer : q.answer[x] = 1
    <3> DEFINE b == look[t].answer 
               c == b (+) SetToBag({y})
    <3>1. DOMAIN c = DOMAIN b \cup {y} /\ \A x \in DOMAIN c : c[x] = 1
      <4>1. y \notin DOMAIN b /\ \A x \in DOMAIN b : b[x] = 1
        BY <1>8, <2>3
      <4> HIDE DEF b
      <4>2. /\ DOMAIN (b (+) SetToBag({y})) = DOMAIN b \cup {y}
            /\ \A x \in DOMAIN b \cup {y} : (b (+) SetToBag({y}))[x] = 1
        BY <4>1, VisitOnce
      <4> QED BY <4>2
    <3>2. q = [look[t] EXCEPT !.answer = c]
      BY DEF q
    <3>3. look[t] = [asks |-> "walk", of |-> look[t].of, answer |-> look[t].answer]
          /\ look[t].of \in {"values", "keys"}
      BY <1>1, <1>2 DEF IsLook, NoLook
    <3> HIDE DEF c, b
    <3>4. q = [asks |-> "walk", of |-> look[t].of, answer |-> c]
      BY <3>2, <3>3
    <3> QED BY <3>1, <3>3, <3>4 DEF IsLook, NoLook, b
  <2>7. /\ ObjectInv' /\ look'[t] = q /\ doing'[t] = d
        /\ Answering(t)' = {} /\ \A u \in Tasks \ {t} : Undisturbed(u)
        /\ Open(t)' /\ LookupRight(t)' /\ SumRight(t)'
        /\ Watched(t)'
        /\ seen'[t].always \subseteq seen[t].always
        /\ seen'[t].always \subseteq M
        /\ M \subseteq seen'[t].ever
        /\ seen[t].ever \subseteq seen'[t].ever
        /\ \A x \in seen[t].ever : InPlace(t, x)
        /\ \A x \in seen'[t].ever : InPlace(t, x)
    BY <1>10, <2>4, <2>5, <2>6
  <2>8. \A x : x[1] \in Localities => 
          (Ahead(t, x)' <=> x[1] > l \/ (x[1] = l /\ Before(f, x[2])))
    <3>1. doing'[t].op = "walking" /\ doing'[t].at = l /\ doing'[t].entry = f
      BY <2>5, <2>7
    <3>2. \A x : Before(doing[t].entry, x[2])' <=> Before(f, x[2])
      BY <3>1 DEF Before
    <3>3. \A x : ~ \E a \in Answering(t)' : 
            a.at = x[1] /\ a.work.bucket = Bucket(x[2][1])
      BY <2>7
    <3>4. \A x : Ahead(t, x)' <=> 
            (x[1] > l \/ (x[1] = l /\ Before(doing[t].entry, x[2])'))
      BY <3>1, <3>3 DEF Ahead
    <3> QED BY <3>2, <3>4
  <2>9. ASSUME NEW x \in DOMAIN q.answer 
        PROVE  /\ q.answer[x] = 1 /\ x \in seen'[t].ever /\ ~ Ahead(t, x)'
    <3>1. CASE x = y
      <4>1. ~ Before(f, f) /\ ~ (l > l)
        BY <1>6, <1>4, <2>2, BeforeOrders
      <4>2. ~ Ahead(t, y)'
        BY <1>4, <2>3, <2>8, <4>1
      <4> QED BY <2>3, <2>6, <2>7, <3>1, <4>2
    <3>2. CASE x \in DOMAIN look[t].answer
      <4>1. x \in seen[t].ever /\ ~ Ahead(t, x)
        BY <1>8, <3>2
      <4>2. x[1] \in Localities /\ x[2] \in Entries
        BY <1>2, <2>7, <4>1
      <4>3. Before(f, x[2]) => Coming(t, x[2])
        BY <1>4, <2>2, <4>2, BeforeOrders DEF Coming
      <4>4. ~ Ahead(t, x)'
        BY <1>7, <2>8, <4>1, <4>2, <4>3
      <4> QED BY <2>6, <2>7, <4>1, <4>4
    <3> QED BY <2>6, <3>1, <3>2
  <2>10. ASSUME NEW x \in seen'[t].always 
         PROVE  x \in DOMAIN q.answer \/ Ahead(t, x)'
    <3>1. x \in M /\ InPlace(t, x) /\ x \in seen[t].always
      BY <2>7
    <3>2. x = <<x[1], x[2]>> /\ x[1] \in Localities
      BY <1>2, <3>1
    <3>3. x[1] = l /\ Coming(t, x[2]) => x[2] \in es
      BY <1>2, <3>1, <3>2
    <3>4. x[1] = l /\ x[2] \in es => x = y \/ Before(f, x[2])
      BY <2>1, <3>2 DEF y
    <3> QED BY <1>7, <1>8, <2>6, <2>8, <3>1, <3>2, <3>3, <3>4
  <2>11. WalkRight(t)'
    BY <2>7, <2>9, <2>10 DEF WalkRight
  <2> QED BY <2>7, <2>11 DEF StaysRight, QuestionInv
<1> QED BY <1>11, <1>12

LEMMA WalkStepRight == 
  ASSUME NEW t \in Tasks, Looks(t), WalkStep(t)
  PROVE  StaysRight(t)
<1> DEFINE l == doing[t].at
           es == {e \in Here(l) : Coming(t, e)}
<1>1. CASE GetLocBeginIt(t)
  <2>1. doing[t].op = "seeking" /\ Moved(t, l, FirstOf(Here(l)))
    BY <1>1 DEF GetLocBeginIt, LocalBegin
  <2>2. es = Here(l)
    BY <2>1 DEF Coming
  <2> HIDE DEF es, l
  <2>3. Moved(t, l, FirstOf(es))
    BY <2>1, <2>2
  <2> QED BY <2>1, <2>3, IteratorRight DEF l, es
<1>2. CASE PlusPlus(t)
  <2>1. /\ doing[t].op = "walking" 
        /\ Moved(t, l, FirstOf({d \in Here(l) : Before(doing[t].entry, d)}))
    BY <1>2 DEF PlusPlus, LocalNext
  <2>2. es = {d \in Here(l) : Before(doing[t].entry, d)}
    BY <2>1 DEF Coming
  <2> HIDE DEF es, l
  <2>3. Moved(t, l, FirstOf(es))
    BY <2>1, <2>2
  <2> QED BY <2>1, <2>3, IteratorRight DEF l, es
<1> QED BY <1>1, <1>2 DEF WalkStep

\* a visit of a bucket, which has one key at most
LEMMA RunVisitRight == 
  ASSUME NEW t \in Tasks, Looks(t), NEW a \in acts, a.task = t, RunVisit(a)
  PROVE  StaysRight(t)
<1> DEFINE M == Matter(mem, t, look[t])
           l == a.at
           es == {e \in Here(l) : Bucket(e[1]) = a.work.bucket /\ e[2] = 1}
<1>1. /\ a.work.op = "visit" /\ acts' = acts \ {a} /\ calls' = calls 
      /\ doing' = doing /\ UNCHANGED memory
      /\ IF es = {} THEN look' = look ELSE Visit(t, <<l, FirstOf(es)>>)
  BY DEF RunVisit, Running
<1>2. a \in Answering(t) /\ a \in Activities /\ {a} \in SUBSET MayAnswer(t)
  BY <1>1 DEF Answering, MayAnswer, Looks, ObjectInv, TaskTypes
<1>3. look[t].asks = "walk" 
  BY <1>1, <1>2 DEF Looks, QuestionInv, Open
<1>4. /\ kind # "replicated" /\ look[t] # NoLook /\ IsLook(look[t]) 
      /\ look[t].of \in {"values", "keys"}
      /\ \A i \in Localities : \A e : <<i, e>> \in M
           <=> e \in Here(i) /\ (look[t].of = "keys" => e[2] = 1)
      /\ \A x : InPlace(t, x) => 
           /\ x = <<x[1], x[2]>> /\ x[1] \in Localities /\ x[2] \in Entries
           /\ x[1] = TargetLocality(x[2][1])
  BY <1>3, Walked
<1>5. doing[t].op \in Calm \cup {"called"} /\ look[t].of = "keys"
  <2>1. Open(t)
    BY DEF Looks, QuestionInv
  <2>2. doing[t].op \in Calm \cup {"called"} 
    BY <1>2, <2>1 DEF Open
  <2>3. look[t].of # "values"
    BY <1>3, <2>1, <2>2 DEF Open, Calm
  <2> QED BY <1>4, <2>2, <2>3
<1>6. /\ doing[t] \in Doings /\ doing \in [Tasks -> Doings] /\ calls \in Nat 
      /\ look = [u \in Tasks |-> look[u]] /\ l \in Localities
  BY <1>2 DEF Looks, ObjectInv, TaskTypes, Activities
<1>7. /\ es \in SUBSET Entries /\ IsFiniteSet(es)
      /\ \A e \in es : TargetLocality(e[1]) = l
  <2>1. es \in SUBSET Here(l)
    OBVIOUS
  <2>2. /\ Here(l) \subseteq Entries /\ IsFiniteSet(Here(l))
        /\ \A e \in Here(l) : TargetLocality(e[1]) = l
    BY <1>4, <1>6, HereInPlace DEF Looks
  <2> QED BY <2>1, <2>2, FS_Subset
<1>8. \A d, e \in es : ~ Before(d, e)
  <2>1. ASSUME NEW d \in es, NEW e \in es PROVE ~ Before(d, e)
    <3>1. /\ Bucket(d[1]) = a.work.bucket /\ Bucket(e[1]) = a.work.bucket
          /\ d[2] = 1 /\ e[2] = 1 /\ a.work.bucket \in Int
      <4>1. d[1] \in Keys /\ \A k \in Keys : Bucket(k) \in Int
        BY <1>7, TargetType DEF Entries
      <4> QED BY <4>1
    <3>2. ~ (Bucket(d[1]) < Bucket(e[1])) /\ ~ (d[2] < e[2])
      BY <3>1
    <3> QED BY <3>2 DEF Before
  <2> QED BY <2>1
<1>9. /\ \A x \in DOMAIN look[t].answer : 
           look[t].answer[x] = 1 /\ x \in seen[t].ever /\ ~ Ahead(t, x)
      /\ \A x \in seen[t].always : x \in DOMAIN look[t].answer \/ Ahead(t, x)
      /\ \A b, c \in Answering(t) : 
           b.at = c.at /\ b.work.bucket = c.work.bucket => b = c
  BY <1>3 DEF Looks, QuestionInv, WalkRight
<1>10. \A x : Ahead(t, x) <=> 
         \E b \in Answering(t) : b.at = x[1] /\ b.work.bucket = Bucket(x[2][1])
  BY <1>5 DEF Ahead, Calm
<1>11. ASSUME NEW q, IsLook(q), q.asks = "walk", 
              q.of = look[t].of, look' = [look EXCEPT ![t] = q]
       PROVE  /\ ObjectInv' /\ look'[t] = q /\ doing'[t] = doing[t]
              /\ Answering(t)' = Answering(t) \ {a} 
              /\ \A u \in Tasks \ {t} : Undisturbed(u)
              /\ Open(t)' /\ LookupRight(t)' /\ SumRight(t)'
              /\ Watched(t)'
              /\ seen'[t].always \subseteq seen[t].always
              /\ seen'[t].always \subseteq M
              /\ M \subseteq seen'[t].ever
              /\ seen[t].ever \subseteq seen'[t].ever
              /\ \A x \in seen'[t].ever : InPlace(t, x)
  <2>1. Effect(t, doing[t], q, {}, {a})
    BY <1>1, <1>6, <1>11 DEF Effect
  <2>2. /\ ObjectInv' /\ look'[t] = q /\ doing'[t] = doing[t]
        /\ Answering(t)' = Answering(t) \ {a} 
        /\ \A u \in Tasks \ {t} : Undisturbed(u)
    BY <1>2, <1>6, <1>11, <2>1, EffectGone
  <2>3. /\ Watched(t)'
        /\ seen'[t].always \subseteq seen[t].always
        /\ seen'[t].always \subseteq M
        /\ M \subseteq seen'[t].ever
        /\ seen[t].ever \subseteq seen'[t].ever
        /\ \A x \in seen'[t].ever : InPlace(t, x)
    BY <1>1, <1>3, <1>11, <2>2, WalkWatched
  <2>4. kind' = kind /\ q # NoLook /\ Open(t)
    BY <1>11 DEF Looks, NoLook, QuestionInv
  <2>5. Open(t)' /\ LookupRight(t)' /\ SumRight(t)'
    BY <1>3, <1>4, <1>5, <1>11, <2>2, <2>4 
       DEF Open, LookupRight, SumRight, NoLook, Calm
  <2> QED BY <2>2, <2>3, <2>5
<1>12. ASSUME Answering(t)' = Answering(t) \ {a}, doing'[t] = doing[t]
       PROVE  \A x : /\ Ahead(t, x)' => Ahead(t, x)
                     /\ Ahead(t, x) /\ ~ Ahead(t, x)' => 
                          x[1] = l /\ Bucket(x[2][1]) = a.work.bucket
                     /\ x[1] = l /\ Bucket(x[2][1]) = a.work.bucket 
                          => Ahead(t, x) /\ ~ Ahead(t, x)'
  <2>1. \A x : Ahead(t, x)' <=> \E b \in Answering(t) \ {a} : 
          b.at = x[1] /\ b.work.bucket = Bucket(x[2][1])
    BY <1>5, <1>12 DEF Ahead, Calm
  <2> QED BY <1>2, <1>9, <1>10, <2>1
<1> HIDE DEF M
<1>13. CASE es = {}
  <2>1. look' = [look EXCEPT ![t] = look[t]]
    BY <1>1, <1>6, <1>13
  <2>2. /\ ObjectInv' /\ look'[t] = look[t] /\ doing'[t] = doing[t]
        /\ Answering(t)' = Answering(t) \ {a} 
        /\ \A u \in Tasks \ {t} : Undisturbed(u)
        /\ Open(t)' /\ LookupRight(t)' /\ SumRight(t)'
        /\ Watched(t)'
        /\ seen'[t].always \subseteq seen[t].always
        /\ seen'[t].always \subseteq M
        /\ M \subseteq seen'[t].ever
        /\ seen[t].ever \subseteq seen'[t].ever
        /\ \A x \in seen'[t].ever : InPlace(t, x)
    BY <1>3, <1>4, <1>11, <2>1
  <2>3. ASSUME NEW x \in seen'[t].always 
        PROVE  x \in DOMAIN look[t].answer \/ Ahead(t, x)'
    <3>1. x \in M /\ InPlace(t, x) /\ x \in seen[t].always
      BY <2>2
    <3>2. x = <<x[1], x[2]>> /\ x[1] \in Localities
      BY <1>4, <3>1
    <3>3. x[1] = l /\ Bucket(x[2][1]) = a.work.bucket => x[2] \in es
      BY <1>4, <1>5, <3>1, <3>2
    <3> QED BY <1>9, <1>12, <1>13, <2>2, <3>1, <3>3
  <2>4. ASSUME NEW x \in DOMAIN look[t].answer 
        PROVE  /\ look[t].answer[x] = 1 /\ x \in seen'[t].ever /\ ~ Ahead(t, x)'
    BY <1>9, <1>12, <2>2
  <2>5. WalkRight(t)'
    BY <1>9, <2>2, <2>3, <2>4 DEF WalkRight
  <2> QED BY <2>2, <2>5 DEF StaysRight, QuestionInv
<1>14. CASE es # {}
  <2> DEFINE f == FirstOf(es)
             y == <<l, f>>
             q == [look[t] EXCEPT !.answer = look[t].answer (+) SetToBag({y})]
  <2>1. f \in es /\ \A e \in es \ {f} : Before(f, e)
    BY <1>7, <1>14, FirstOfIsFirst
  <2>2. \A e \in es : e = f
    BY <1>8, <2>1
  <2>3. /\ y \in M /\ y[1] = l /\ y[2] = f 
        /\ Bucket(f[1]) = a.work.bucket
    BY <1>4, <1>6, <2>1
  <2>4. look' = [look EXCEPT ![t] = q]
    BY <1>1, <1>14 DEF Visit, Answer
  <2> HIDE DEF q, f, y
  <2>5. Ahead(t, y)
    BY <1>2, <1>10, <2>3
  <2>6. /\ IsLook(q) /\ q # NoLook /\ q.asks = "walk" /\ q.of = look[t].of
        /\ DOMAIN q.answer = DOMAIN look[t].answer \cup {y}
        /\ \A x \in DOMAIN q.answer : q.answer[x] = 1
    <3> DEFINE b == look[t].answer 
               c == b (+) SetToBag({y})
    <3>1. DOMAIN c = DOMAIN b \cup {y} /\ \A x \in DOMAIN c : c[x] = 1
      <4>1. y \notin DOMAIN b /\ \A x \in DOMAIN b : b[x] = 1
        BY <1>9, <2>5
      <4> HIDE DEF b
      <4>2. /\ DOMAIN (b (+) SetToBag({y})) = DOMAIN b \cup {y}
            /\ \A x \in DOMAIN b \cup {y} : (b (+) SetToBag({y}))[x] = 1
        BY <4>1, VisitOnce
      <4> QED BY <4>2
    <3>2. q = [look[t] EXCEPT !.answer = c]
      BY DEF q
    <3>3. look[t] = [asks |-> "walk", of |-> look[t].of, answer |-> look[t].answer]
      BY <1>3, <1>4 DEF IsLook, NoLook
    <3> HIDE DEF c, b
    <3>4. q = [asks |-> "walk", of |-> look[t].of, answer |-> c]
      BY <3>2, <3>3
    <3> QED BY <1>4, <3>1, <3>4 DEF IsLook, NoLook, b
  <2>7. /\ ObjectInv' /\ look'[t] = q /\ doing'[t] = doing[t]
        /\ Answering(t)' = Answering(t) \ {a} 
        /\ \A u \in Tasks \ {t} : Undisturbed(u)
        /\ Open(t)' /\ LookupRight(t)' /\ SumRight(t)'
        /\ Watched(t)'
        /\ seen'[t].always \subseteq seen[t].always
        /\ seen'[t].always \subseteq M
        /\ M \subseteq seen'[t].ever
        /\ seen[t].ever \subseteq seen'[t].ever
        /\ \A x \in seen'[t].ever : InPlace(t, x)
    BY <1>11, <2>4, <2>6
  <2>8. ASSUME NEW x \in seen'[t].always 
        PROVE  x \in DOMAIN q.answer \/ Ahead(t, x)'
    <3>1. x \in M /\ InPlace(t, x) /\ x \in seen[t].always
      BY <2>7
    <3>2. x = <<x[1], x[2]>> /\ x[1] \in Localities
      BY <1>4, <3>1
    <3>3. x[1] = l /\ Bucket(x[2][1]) = a.work.bucket => x[2] \in es
      BY <1>4, <1>5, <3>1, <3>2
    <3>4. x[1] = l /\ Bucket(x[2][1]) = a.work.bucket => x = y
      BY <2>2, <3>2, <3>3 DEF y
    <3> QED BY <1>9, <1>12, <2>6, <2>7, <3>1, <3>4
  <2>9. ASSUME NEW x \in DOMAIN q.answer 
        PROVE  /\ q.answer[x] = 1 /\ x \in seen'[t].ever /\ ~ Ahead(t, x)'
    <3>1. CASE x = y
      BY <1>12, <2>3, <2>6, <2>7, <3>1
    <3>2. CASE x \in DOMAIN look[t].answer
      BY <1>9, <1>12, <2>6, <2>7, <3>2
    <3> QED BY <2>6, <3>1, <3>2
  <2>10. WalkRight(t)'
    BY <1>9, <2>7, <2>8, <2>9 DEF WalkRight
  <2> QED BY <2>7, <2>10 DEF StaysRight, QuestionInv
<1> QED BY <1>13, <1>14

-----------------------------------------------------------------------------
(* What the answers are worth.                                             *)

LEMMA QuestionStepRight == 
  ASSUME NEW t \in Tasks, Looks(t), QuestionStep(t)
  PROVE  StaysRight(t)
<1>1. ASSUME NEW a \in acts, a.task = t, RunLookup(a) \/ FetchNow(a)
      PROVE  StaysRight(t)
  BY <1>1, RunLookupRight
<1>2. ASSUME NEW a \in acts, a.task = t, RunVisit(a) PROVE StaysRight(t)
  BY <1>2, RunVisitRight
<1>3. ASSUME doing[t].op = "called", Return(t) PROVE StaysRight(t)
  <2>1. CASE look[t] # NoLook
    BY <1>3, <2>1, DoneRight
  <2>2. CASE look[t] = NoLook
    BY <1>3, <2>2 DEF Looks, QuestionInv, Open, Calm
  <2> QED BY <2>1, <2>2
<1>4. ASSUME look[t] # NoLook, waitForCompletion(t) PROVE StaysRight(t)
  BY <1>4, DoneRight
<1> QED BY <1>1, <1>2, <1>3, <1>4, LookupCallRight, SizeCallRight, WalkCallRight, 
           WalkStepRight, SumStepRight, ForgetRight DEF QuestionStep

LEMMA ObjectsBegin == Init => ObjectInv
<1> SUFFICES ASSUME Init PROVE ObjectInv
  OBVIOUS
<1>1. PICK present \in program.contents : 
        mem = [l \in Localities |-> [k \in Keys |-> 
                 IF k \in present /\ l \in Places(k) THEN <<1>> ELSE <<>>]]
  BY DEF Init
<1>2. mem \in [Localities -> [Keys -> Seq(Nat)]]
  BY <1>1
<1>3. kind # "replicated" => \A l \in Localities, k \in Keys : 
        l # TargetLocality(k) => mem[l][k] = <<>>
  BY <1>1 DEF Places
<1>4. /\ buffers \in [Localities -> [Localities -> Seq(Keys)]]
      /\ \A l, i \in Localities : buffers[l][i] \in Seq(KeysOf(i))
      /\ acts = {}
  BY DEF Init, InitCalls
<1>5. Idle \in Doings /\ IsLook(NoLook)
  BY DEF Idle, Doings, IsLook, NoLook
<1>6. TaskTypes
  BY <1>5 DEF Init, InitCalls, TaskTypes
<1> QED BY <1>2, <1>3, <1>4, <1>6 DEF ObjectInv, MemoryInv
=============================================================================
