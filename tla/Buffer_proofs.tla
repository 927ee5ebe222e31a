---------------------------- MODULE Buffer_proofs -----------------------------
(***************************************************************************)
(* Proofs about Buffer, for any number of tasks that insert, any size of   *)
(* the buffer and of the insertions, where the buffer is used as it is     *)
(* meant to be: WaitForBufferedInsert comes after the insertions, and one  *)
(* task calls it.  Every entry that is delivered was inserted, it is       *)
(* delivered once and, when the insertions fill the buffer exactly, none   *)
(* is left behind.                                                         *)
(***************************************************************************)
EXTENDS Buffer, FiniteSetTheorems, SequenceTheorems, TLAPS

\* one task calls WaitForBufferedInsert, when all insertions have returned
OneFlusher == Barrier /\ \A t, u \in Flushers : t = u
\* the insertions of Chunk entries fill the buffer exactly
Fits == BufferSize % Chunk = 0

-----------------------------------------------------------------------------
(* The inductive invariant.                                                *)

LockedPCs == {"size", "raise", "store", "test", "unlock"}
Active(t) == pc[t] \in LockedPCs \cup FlushPCs
InFlushAll(t) == pc[t] \in FlushPCs /\ lock # t
Past(t) == t \in Flushers /\ (InFlushAll(t) \/ pc[t] = "done")

\* who holds the lock, and who may still insert
LockInv == 
  \A t \in Tasks : 
    /\ pc[t] \in LockedPCs => lock = t
    /\ lock = t => Active(t)
    /\ pc[t] = "flush" \/ InFlushAll(t) => t \in Flushers
    /\ Past(t) => lock = NoTask /\ \A u \in Tasks : pc[u] \notin InsertPCs
    /\ pc[t] \in {"flush", "done"} \/ InFlushAll(t) 
         => inserted[t] = Inserts[t] /\ flying[t] = <<>>

\* what a task knows of size_ and of the entries it has inserted
Knows(t) == 
  /\ inserted[t] % Chunk = 0 /\ inserted[t] <= Inserts[t]
  /\ pc[t] \in {"size", "raise", "store"} => inserted[t] < Inserts[t]
  /\ pc[t] = "raise" => at[t] = size
  /\ pc[t] = "store" => size = at[t] + Chunk
  /\ pc[t] \in {"f_size", "f_send"} => args[t].data = data
  /\ pc[t] = "f_send" => args[t].n = size
  /\ t \in Flushers /\ pc[t] = "done" => size = 0

SizeInv == 
  /\ size % Chunk = 0 /\ size <= BufferSize
  /\ size = BufferSize 
       => \E t \in Tasks : pc[t] \in {"store", "test"} \cup FlushPCs

\* the elements of data_ that hold an entry which has not been sent
Stored(p) == 
  /\ p < size
  /\ \A t \in Tasks : (pc[t] = "store" => p < at[t]) /\ pc[t] # "f_reset"

InBuffer(e) == \E p \in Positions : Stored(p) /\ data[p] = e
Has(m, e) == \E p \in Positions : p < m.n /\ m.data[p] = e
InFlight(e) == \E t \in Tasks : \E i \in DOMAIN flying[t] : Has(flying[t][i], e)
WasInserted(e) == e \in Entries /\ e[2] <= inserted[e[1]]

\* a message holds entries only, each of them once
Clean(m) == 
  \A p \in Positions : p < m.n => 
    /\ WasInserted(m.data[p])
    /\ \A q \in Positions : q < m.n /\ m.data[q] = m.data[p] => p = q

\* an entry that was inserted is in one place: in the buffer, in a message or
\* at the target
InBufferOnce == 
  \A p \in Positions : Stored(p) => 
    /\ WasInserted(data[p])
    /\ \A q \in Positions : Stored(q) /\ data[q] = data[p] => p = q
InFlightOnce == 
  \A t \in Tasks : \A i \in DOMAIN flying[t] : 
    /\ Clean(flying[t][i])
    /\ \A e \in Entries : Has(flying[t][i], e) => 
         /\ ~InBuffer(e)
         /\ \A u \in Tasks : \A j \in DOMAIN flying[u] : 
              Has(flying[u][j], e) => t = u /\ i = j
DeliveredOnce == 
  /\ delivered[Garbage] = 0
  /\ \A e \in Entries : 
       /\ delivered[e] <= 1
       /\ delivered[e] = 1 => WasInserted(e) /\ ~InBuffer(e) /\ ~InFlight(e)
Kept == 
  \A e \in Entries : WasInserted(e) => 
    InBuffer(e) \/ InFlight(e) \/ delivered[e] = 1

EntryInv == InBufferOnce /\ InFlightOnce /\ DeliveredOnce /\ (Fits => Kept)

BufferInv == 
  /\ OneFlusher /\ TypeOK /\ LockInv /\ EntryInv
  /\ Fits => SizeInv
  /\ \A t \in Tasks : Knows(t)

-----------------------------------------------------------------------------
(* Arithmetic.                                                             *)

LEMMA Quotient == 
  ASSUME NEW a \in Nat, NEW c \in Nat \ {0}, a % c = 0
  PROVE  \E k \in Nat : a = c * k
<1>1. a = c * (a \div c) + (a % c) /\ a \div c \in Nat
  OBVIOUS
<1> QED BY <1>1

\* a multiple of c stays one when c is added
LEMMA NextMultiple == 
  ASSUME NEW a \in Nat, NEW c \in Nat \ {0}, a % c = 0
  PROVE  (a + c) % c = 0
<1>1. PICK k \in Nat : a = c * k
  BY Quotient
<1>2. a + c = c * (k + 1)
  BY <1>1
<1>3. (c * (k + 1)) % c = 0
  OBVIOUS
<1> QED BY <1>2, <1>3

\* between two multiples of c lie at least c numbers
LEMMA MultiplesApart == 
  ASSUME NEW a \in Nat, NEW b \in Nat, NEW c \in Nat \ {0}, 
         a % c = 0, b % c = 0, a < b
  PROVE  a + c <= b
<1>1. PICK j \in Nat : a = c * j
  BY Quotient
<1>2. PICK k \in Nat : b = c * k
  BY Quotient
<1>3. j < k
  <2>1. ASSUME k <= j PROVE c * k <= c * j
    BY <2>1
  <2> QED BY <2>1, <1>1, <1>2
<1>4. c * (j + 1) <= c * k
  BY <1>3
<1> QED BY <1>1, <1>2, <1>4

-----------------------------------------------------------------------------
(* What the parts of the state are.                                        *)

LEMMA EntryParts == 
  ASSUME NEW t \in Tasks, NEW i \in 1..Inserts[t]
  PROVE  <<t, i>> \in Entries
BY DEF Entries

LEMMA PartsOfEntry == 
  ASSUME NEW e \in Entries
  PROVE  e[1] \in Tasks /\ e[2] \in 1..Inserts[e[1]] /\ e = <<e[1], e[2]>>
BY DEF Entries

LEMMA CountNat == 
  ASSUME NEW m, NEW e
  PROVE  Cardinality({p \in Positions : p < m.n /\ m.data[p] = e}) \in Nat
<1>1. IsFiniteSet(Positions)
  BY FS_Interval, BufferSizeAssumption DEF Positions
<1>2. IsFiniteSet({p \in Positions : p < m.n /\ m.data[p] = e})
  BY <1>1, FS_Subset
<1> QED BY <1>2, FS_CardinalityType

\* a message of different entries holds an entry once or not at all
LEMMA CountOfClean == 
  ASSUME NEW m, Clean(m), NEW e
  PROVE  Cardinality({p \in Positions : p < m.n /\ m.data[p] = e}) 
           = IF Has(m, e) THEN 1 ELSE 0
<1> DEFINE Places == {p \in Positions : p < m.n /\ m.data[p] = e}
<1>1. CASE Has(m, e)
  <2>1. PICK p \in Positions : p < m.n /\ m.data[p] = e
    BY <1>1 DEF Has
  <2>2. Places = {p}
    BY <2>1 DEF Clean
  <2> QED BY <1>1, <2>2, FS_Singleton
<1>2. CASE ~Has(m, e)
  <2>1. Places = {}
    BY <1>2 DEF Has
  <2> QED BY <1>2, <2>1, FS_EmptySet
<1> QED BY <1>1, <1>2

\* the sequence without its element i
LEMMA Without == 
  ASSUME NEW S, NEW s \in Seq(S), NEW i \in DOMAIN s
  PROVE  LET r == SubSeq(s, 1, i - 1) \o SubSeq(s, i + 1, Len(s))
         IN  /\ r \in Seq(S) 
             /\ DOMAIN r = 1..(Len(s) - 1)
             /\ \A j \in DOMAIN r : r[j] = s[IF j < i THEN j ELSE j + 1]
<1> DEFINE a == SubSeq(s, 1, i - 1)
           b == SubSeq(s, i + 1, Len(s))
<1>1. Len(s) \in Nat /\ DOMAIN s = 1..Len(s) /\ i \in 1..Len(s)
  BY LenProperties
<1>2. \A j \in 1..Len(s) : s[j] \in S
  BY ElementOfSeq
<1>3. /\ a \in Seq(S) /\ Len(a) = i - 1
      /\ \A j \in 1..(i - 1) : a[j] = s[j]
  <2>1. \A j \in 1..(i - 1) : s[j] \in S
    BY <1>1, <1>2
  <2>2. /\ a \in Seq(S) 
        /\ Len(a) = IF 1 <= i - 1 THEN i - 1 - 1 + 1 ELSE 0
        /\ \A j \in 1..(i - 1 - 1 + 1) : a[j] = s[1 + j - 1]
    BY <1>1, <2>1, SubSeqProperties
  <2> QED BY <2>2, <1>1
<1>4. /\ b \in Seq(S) /\ Len(b) = Len(s) - i
      /\ \A j \in 1..(Len(s) - i) : b[j] = s[i + j]
  <2>1. \A j \in (i + 1)..Len(s) : s[j] \in S
    BY <1>1, <1>2
  <2>2. /\ b \in Seq(S) 
        /\ Len(b) = IF i + 1 <= Len(s) THEN Len(s) - (i + 1) + 1 ELSE 0
        /\ \A j \in 1..(Len(s) - (i + 1) + 1) : b[j] = s[(i + 1) + j - 1]
    BY <1>1, <2>1, SubSeqProperties
  <2> HIDE DEF b
  <2>3. Len(b) = Len(s) - i
    BY <2>2, <1>1
  <2>4. ASSUME NEW j \in 1..(Len(s) - i) PROVE b[j] = s[i + j]
    <3>1. j \in 1..(Len(s) - (i + 1) + 1) /\ (i + 1) + j - 1 = i + j
      BY <1>1
    <3> QED BY <2>2, <3>1
  <2> QED BY <2>2, <2>3, <2>4
<1> HIDE DEF a, b
<1>5. /\ a \o b \in Seq(S) 
      /\ Len(a \o b) = Len(a) + Len(b)
      /\ \A j \in 1..(Len(a) + Len(b)) : 
           (a \o b)[j] = IF j <= Len(a) THEN a[j] ELSE b[j - Len(a)]
  BY <1>3, <1>4, ConcatProperties
<1>6. DOMAIN (a \o b) = 1..(Len(s) - 1)
  <2>1. DOMAIN (a \o b) = 1..Len(a \o b)
    BY <1>5, LenProperties
  <2> QED BY <1>1, <1>3, <1>4, <1>5, <2>1
<1>7. ASSUME NEW j \in 1..(Len(s) - 1) 
      PROVE  (a \o b)[j] = s[IF j < i THEN j ELSE j + 1]
  <2>1. CASE j < i
    BY <2>1, <1>1, <1>3, <1>4, <1>5
  <2>2. CASE ~(j < i)
    <3>1. /\ j \in 1..(Len(a) + Len(b)) /\ ~(j <= Len(a)) 
          /\ j - Len(a) \in 1..(Len(s) - i) /\ i + (j - Len(a)) = j + 1
      BY <2>2, <1>1, <1>3, <1>4
    <3>2. (a \o b)[j] = b[j - Len(a)]
      BY <3>1, <1>5
    <3>3. b[j - Len(a)] = s[i + (j - Len(a))]
      BY <3>1, <1>4
    <3> QED BY <2>2, <3>1, <3>2, <3>3
  <2> QED BY <2>1, <2>2
<1> QED BY <1>5, <1>6, <1>7 DEF a, b

LEMMA OneActive == 
  ASSUME TypeOK, OneFlusher, LockInv, NEW t \in Tasks, NEW u \in Tasks, 
         Active(t), Active(u)
  PROVE  t = u
BY NoTaskAssumption 
   DEF OneFlusher, LockInv, Active, LockedPCs, FlushPCs, InFlushAll, Past, TypeOK

-----------------------------------------------------------------------------
(* Types.                                                                  *)

LEMMA ReceiveType == 
  ASSUME TypeOK, NEW m, Receive(m)
  PROVE  delivered' \in [Entries \cup {Garbage} -> Nat]
<1> DEFINE N(e) == Cardinality({p \in Positions : p < m.n /\ m.data[p] = e})
<1>1. \A e : N(e) \in Nat
  BY CountNat
<1>2. delivered' = [e \in Entries \cup {Garbage} |-> delivered[e] + N(e)]
  BY DEF Receive
<1> HIDE DEF N
<1> QED BY <1>1, <1>2 DEF TypeOK

LEMMA InitType == Init => TypeOK
BY EmptySeq, GarbageAssumption, KindsAssumption
   DEF Init, TypeOK, NoArgs, Message, PCs, InsertPCs

LEMMA StepType == 
  ASSUME TypeOK, NEW t \in Tasks, Step(t), Knows(t)
  PROVE  TypeOK'
<1> USE DEF TypeOK, Goto, FlushReturns, PCs, InsertPCs, FlushPCs
<1>0. Chunk \in Nat
  BY ChunkAssumption
<1>1. CASE Lock(t)
  BY <1>1 DEF Lock
<1>2. CASE ReadSize(t)
  BY <1>2 DEF ReadSize
<1>3. CASE RaiseSize(t)
  BY <1>3, <1>0 DEF RaiseSize
<1>4. CASE Store(t)
  <2>1. inserted' \in [Tasks -> Nat]
    BY <1>4, <1>0 DEF Store
  <2>2. ASSUME NEW p \in Positions, at[t] <= p /\ p < at[t] + Chunk
        PROVE  <<t, inserted[t] + p - at[t] + 1>> \in Entries
    <3>1. inserted[t] + Chunk <= Inserts[t]
      BY <1>4, MultiplesApart, ChunkAssumption, InsertsAssumption 
         DEF Store, Knows
    <3>2. inserted[t] + p - at[t] + 1 \in 1..Inserts[t]
      BY <3>1, <2>2, <1>0, InsertsAssumption, BufferSizeAssumption 
         DEF Positions
    <3> QED BY <3>2, EntryParts
  <2>3. data' \in [Positions -> Entries \cup {Garbage}]
    BY <1>4, <2>2 DEF Store
  <2> QED BY <1>4, <2>1, <2>3 DEF Store
<1>5. CASE TestFull(t)
  BY <1>5 DEF TestFull
<1>6. CASE Unlock(t)
  BY <1>6 DEF Unlock
<1>7. CASE FlushEmpty(t)
  BY <1>7 DEF FlushEmpty
<1>8. CASE CopyData(t)
  BY <1>8 DEF CopyData, Message
<1>9. CASE CopySize(t)
  BY <1>9 DEF CopySize, Message
<1>10. CASE Send(t)
  <2>1. CASE lock = t /\ t \in AsyncTasks
    <3>1. Append(flying[t], args[t]) \in Seq(Message)
      BY AppendProperties
    <3> QED BY <1>10, <2>1, <3>1 DEF Send
  <2>2. CASE ~(lock = t /\ t \in AsyncTasks)
    BY <1>10, <2>2, ReceiveType DEF Send
  <2> QED BY <2>1, <2>2
<1>11. CASE Reset(t)
  BY <1>11 DEF Reset
<1>12. CASE Execute(t)
  <2>1. PICK i \in DOMAIN flying[t] : 
          /\ Receive(flying[t][i])
          /\ flying' = [flying EXCEPT ![t] = 
               SubSeq(@, 1, i - 1) \o SubSeq(@, i + 1, Len(@))]
    BY <1>12 DEF Execute
  <2>2. flying[t] \in Seq(Message)
    OBVIOUS
  <2>3. SubSeq(flying[t], 1, i - 1) \o SubSeq(flying[t], i + 1, Len(flying[t])) 
          \in Seq(Message)
    BY <2>2, Without
  <2>4. flying' \in [Tasks -> Seq(Message)]
    BY <2>1, <2>3
  <2> QED BY <1>12, <2>1, <2>4, ReceiveType DEF Execute
<1>13. CASE Wait(t)
  BY <1>13 DEF Wait
<1>14. CASE FlushAll(t)
  BY <1>14 DEF FlushAll
<1> QED BY <1>1, <1>2, <1>3, <1>4, <1>5, <1>6, <1>7, <1>8, <1>9, <1>10, <1>11, 
           <1>12, <1>13, <1>14 DEF Step

-----------------------------------------------------------------------------
(* Who holds the lock.                                                     *)

LEMMA InitLock == Init => LockInv
BY NoTaskAssumption 
   DEF Init, LockInv, LockedPCs, FlushPCs, Active, InFlushAll, Past

LEMMA StepLock == 
  ASSUME TypeOK, OneFlusher, LockInv, NEW t \in Tasks, Step(t)
  PROVE  LockInv'
<1> USE NoTaskAssumption 
    DEF TypeOK, LockInv, LockedPCs, FlushPCs, InsertPCs, Active, InFlushAll, 
        Past, Goto
<1>1. CASE Lock(t)
  BY <1>1 DEF Lock
<1>2. CASE ReadSize(t)
  BY <1>2 DEF ReadSize
<1>3. CASE RaiseSize(t)
  BY <1>3 DEF RaiseSize
<1>4. CASE Store(t)
  BY <1>4 DEF Store
<1>5. CASE TestFull(t)
  BY <1>5 DEF TestFull
<1>6. CASE Unlock(t)
  BY <1>6 DEF Unlock
<1>7. CASE FlushEmpty(t)
  BY <1>7 DEF FlushEmpty, FlushReturns
<1>8. CASE CopyData(t)
  BY <1>8 DEF CopyData
<1>9. CASE CopySize(t)
  BY <1>9 DEF CopySize
<1>10. CASE Send(t)
  BY <1>10 DEF Send
<1>11. CASE Reset(t)
  BY <1>11 DEF Reset, FlushReturns
<1>12. CASE Execute(t)
  <2>1. flying[t] # <<>> /\ UNCHANGED <<lock, pc, inserted>>
    BY <1>12 DEF Execute
  <2>2. \A u \in Tasks \ {t} : flying'[u] = flying[u]
    BY <1>12 DEF Execute
  <2> QED BY <2>1, <2>2
<1>13. CASE Wait(t)
  BY <1>13 DEF Wait
<1>14. CASE FlushAll(t)
  <2>1. t \in Flushers /\ inserted[t] = Inserts[t] /\ flying[t] = <<>>
    BY <1>14 DEF FlushAll
  <2>2. lock = NoTask /\ \A u \in Tasks : pc[u] \notin InsertPCs
    BY <1>14 DEF FlushAll, OneFlusher, NoInsert
  <2> QED BY <1>14, <2>1, <2>2 DEF FlushAll
<1> QED BY <1>1, <1>2, <1>3, <1>4, <1>5, <1>6, <1>7, <1>8, <1>9, <1>10, <1>11, 
           <1>12, <1>13, <1>14 DEF Step

-----------------------------------------------------------------------------
(* What a task knows, and the size of the buffer.                          *)

LEMMA InitKnows == Init => \A t \in Tasks : Knows(t)
BY InsertsAssumption, ChunkAssumption DEF Init, Knows

LEMMA StepKnows == 
  ASSUME TypeOK, OneFlusher, LockInv, NEW t \in Tasks, Step(t), 
         \A u \in Tasks : Knows(u)
  PROVE  \A u \in Tasks : Knows(u)'
<1> USE DEF TypeOK, FlushPCs, InsertPCs, Goto
<1> SUFFICES ASSUME NEW u \in Tasks PROVE Knows(u)'
  OBVIOUS
<1>0. /\ Knows(u) /\ Knows(t) /\ Chunk \in Nat \ {0}
      /\ Inserts[t] \in Nat /\ Inserts[u] \in Nat
  BY ChunkAssumption, InsertsAssumption
<1>01. pc[t] \in LockedPCs \cup FlushPCs /\ u # t => 
         pc[u] \notin LockedPCs \cup FlushPCs
  BY OneActive DEF Active
<1>02. pc[t] \in InsertPCs => ~(u \in Flushers /\ pc[u] = "done")
  BY DEF LockInv, Past
<1> USE DEF Knows, LockedPCs
<1>1. CASE Lock(t)
  BY <1>1, <1>0 DEF Lock
<1>2. CASE ReadSize(t)
  BY <1>2, <1>0, <1>01, <1>02 DEF ReadSize
<1>3. CASE RaiseSize(t)
  BY <1>3, <1>0, <1>01, <1>02 DEF RaiseSize
<1>4. CASE Store(t)
  <2>1. inserted[t] + Chunk <= Inserts[t] /\ (inserted[t] + Chunk) % Chunk = 0
    BY <1>4, <1>0, MultiplesApart, NextMultiple, ChunkAssumption DEF Store
  <2> QED BY <1>4, <1>0, <1>01, <1>02, <2>1 DEF Store
<1>5. CASE TestFull(t)
  BY <1>5, <1>0, <1>01, <1>02 DEF TestFull
<1>6. CASE Unlock(t)
  BY <1>6, <1>0, <1>01, <1>02 DEF Unlock
<1>7. CASE FlushEmpty(t)
  BY <1>7, <1>0, <1>01 DEF FlushEmpty, FlushReturns, LockInv
<1>8. CASE CopyData(t)
  BY <1>8, <1>0, <1>01, <1>02 DEF CopyData
<1>9. CASE CopySize(t)
  BY <1>9, <1>0, <1>01, <1>02 DEF CopySize
<1>10. CASE Send(t)
  BY <1>10, <1>0, <1>01, <1>02 DEF Send
<1>11. CASE Reset(t)
  BY <1>11, <1>0, <1>01 DEF Reset, FlushReturns
<1>12. CASE Execute(t)
  BY <1>12, <1>0, <1>01, <1>02 DEF Execute
<1>13. CASE Wait(t)
  BY <1>13, <1>0, <1>01, <1>02 DEF Wait
<1>14. CASE FlushAll(t)
  BY <1>14, <1>0, <1>01, <1>02 DEF FlushAll
<1> QED BY <1>1, <1>2, <1>3, <1>4, <1>5, <1>6, <1>7, <1>8, <1>9, <1>10, <1>11, 
           <1>12, <1>13, <1>14 DEF Step

LEMMA InitSize == Init => SizeInv
BY BufferSizeAssumption, ChunkAssumption DEF Init, SizeInv

LEMMA StepSize == 
  ASSUME TypeOK, OneFlusher, LockInv, NEW t \in Tasks, Step(t), 
         \A u \in Tasks : Knows(u), Fits, SizeInv
  PROVE  SizeInv'
<1> USE DEF TypeOK, FlushPCs, Goto
<1>0. Chunk \in Nat \ {0} /\ BufferSize \in Nat \ {0}
  BY ChunkAssumption, BufferSizeAssumption
<1>00. Knows(t)
  OBVIOUS
<1>01. ASSUME NEW u \in Tasks, pc[t] \in LockedPCs \cup FlushPCs, u # t
       PROVE  pc[u] \notin {"store", "test"} \cup FlushPCs
  BY <1>01, OneActive DEF Active, LockedPCs
<1> USE DEF SizeInv, LockedPCs
<1>1. CASE Lock(t)
  BY <1>1, <1>0, <1>00, <1>01 DEF Lock
<1>2. CASE ReadSize(t)
  BY <1>2, <1>0, <1>00, <1>01 DEF ReadSize
<1>3. CASE RaiseSize(t)
  <2>1. at[t] = size
    BY <1>3, <1>00 DEF RaiseSize, Knows
  <2>2. size < BufferSize
    BY <1>3, <1>0, <1>01 DEF RaiseSize
  <2>3. size + Chunk <= BufferSize /\ (size + Chunk) % Chunk = 0
    BY <2>2, <1>0, MultiplesApart, NextMultiple DEF Fits
  <2> QED BY <1>3, <2>1, <2>3 DEF RaiseSize
<1>4. CASE Store(t)
  BY <1>4, <1>0, <1>00, <1>01 DEF Store
<1>5. CASE TestFull(t)
  BY <1>5, <1>0, <1>00, <1>01 DEF TestFull
<1>6. CASE Unlock(t)
  BY <1>6, <1>0, <1>00, <1>01 DEF Unlock
<1>7. CASE FlushEmpty(t)
  BY <1>7, <1>0, <1>01 DEF FlushEmpty, FlushReturns
<1>8. CASE CopyData(t)
  BY <1>8, <1>0, <1>00, <1>01 DEF CopyData
<1>9. CASE CopySize(t)
  BY <1>9, <1>0, <1>00, <1>01 DEF CopySize
<1>10. CASE Send(t)
  BY <1>10, <1>0, <1>00, <1>01 DEF Send
<1>11. CASE Reset(t)
  BY <1>11, <1>0, ChunkAssumption DEF Reset
<1>12. CASE Execute(t)
  BY <1>12, <1>0, <1>00, <1>01 DEF Execute
<1>13. CASE Wait(t)
  BY <1>13, <1>0, <1>00, <1>01 DEF Wait
<1>14. CASE FlushAll(t)
  BY <1>14, <1>0, <1>00, <1>01 DEF FlushAll
<1> QED BY <1>1, <1>2, <1>3, <1>4, <1>5, <1>6, <1>7, <1>8, <1>9, <1>10, <1>11, 
           <1>12, <1>13, <1>14 DEF Step

-----------------------------------------------------------------------------
(* Where the entries are.  Most steps move none.                           *)

LEMMA InitEntries == Init => EntryInv
<1> SUFFICES ASSUME Init PROVE EntryInv
  OBVIOUS
<1>1. \A p \in Positions : ~Stored(p)
  BY DEF Init, Stored, Positions
<1>2. \A t \in Tasks : DOMAIN flying[t] = {}
  BY DEF Init
<1>3. \A e \in Entries : ~WasInserted(e)
  BY PartsOfEntry DEF Init, WasInserted
<1>4. \A e \in Entries \cup {Garbage} : delivered[e] = 0
  BY DEF Init
<1>5. InBufferOnce
  BY <1>1 DEF InBufferOnce
<1>6. InFlightOnce
  BY <1>2 DEF InFlightOnce
<1>7. DeliveredOnce
  BY <1>4 DEF DeliveredOnce
<1>8. Kept
  BY <1>3 DEF Kept
<1> QED BY <1>5, <1>6, <1>7, <1>8 DEF EntryInv

LEMMA EntriesSame == 
  ASSUME EntryInv, UNCHANGED <<data, inserted, flying, delivered>>,
         \A p \in Positions : Stored(p)' <=> Stored(p)
  PROVE  EntryInv'
<1>1. \A e : InBuffer(e)' <=> InBuffer(e)
  BY DEF InBuffer
<1>2. \A e : InFlight(e)' <=> InFlight(e)
  BY DEF InFlight
<1>3. \A e : WasInserted(e)' <=> WasInserted(e)
  BY DEF WasInserted
<1>4. \A m : Clean(m)' <=> Clean(m)
  BY <1>3 DEF Clean
<1>5. InBufferOnce'
  BY <1>3 DEF InBufferOnce, EntryInv
<1>6. InFlightOnce'
  BY <1>1, <1>4 DEF InFlightOnce, EntryInv
<1>7. DeliveredOnce'
  BY <1>1, <1>2, <1>3 DEF DeliveredOnce, EntryInv
<1>8. Fits => Kept'
  BY <1>1, <1>2, <1>3 DEF Kept, EntryInv
<1> QED BY <1>5, <1>6, <1>7, <1>8 DEF EntryInv

\* the task that is in Insert or in a flush is the only one whose place in
\* the code counts
LEMMA StoredOf == 
  ASSUME TypeOK, OneFlusher, LockInv, NEW t \in Tasks, Active(t),
         NEW p \in Positions
  PROVE  Stored(p) <=> /\ p < size 
                       /\ pc[t] = "store" => p < at[t]
                       /\ pc[t] # "f_reset"
<1>1. \A u \in Tasks \ {t} : pc[u] \notin {"store", "f_reset"}
  BY OneActive DEF Active, LockedPCs, FlushPCs
<1> QED BY <1>1 DEF Stored

\* the elements of the buffer after a step of that task
LEMMA StoredAfter == 
  ASSUME TypeOK, OneFlusher, LockInv, NEW t \in Tasks, Active(t), 
         NEW l \in PCs, Goto(t, l), \A u \in Tasks \ {t} : at'[u] = at[u],
         NEW p \in Positions
  PROVE  Stored(p)' <=> /\ p < size' 
                        /\ l = "store" => p < at'[t]
                        /\ l # "f_reset"
<1>1. \A u \in Tasks \ {t} : pc[u] \notin {"store", "f_reset"}
  BY OneActive DEF Active, LockedPCs, FlushPCs
<1>2. pc'[t] = l /\ \A u \in Tasks \ {t} : pc'[u] = pc[u]
  BY DEF Goto, TypeOK
<1> QED BY <1>1, <1>2 DEF Stored

LEMMA StepStore == 
  ASSUME TypeOK, OneFlusher, LockInv, NEW t \in Tasks, Store(t), 
         Knows(t), Fits => SizeInv, EntryInv
  PROVE  EntryInv'
<1> DEFINE e0(p) == <<t, inserted[t] + p - at[t] + 1>>
<1> USE DEF Store
<1>0. /\ Chunk \in Nat \ {0} /\ size \in Nat /\ at[t] \in Nat 
      /\ BufferSize \in Nat /\ inserted[t] \in Nat
      /\ size = at[t] + Chunk
  BY ChunkAssumption, BufferSizeAssumption DEF TypeOK, Knows
<1>1. inserted[t] + Chunk <= Inserts[t]
  BY MultiplesApart, ChunkAssumption, InsertsAssumption DEF Knows, TypeOK
<1>2. /\ inserted'[t] = inserted[t] + Chunk 
      /\ \A u \in Tasks \ {t} : inserted'[u] = inserted[u]
  BY DEF TypeOK
<1>3. \A p \in Positions : Stored(p) <=> p < at[t]
  BY StoredOf, <1>0 DEF Active, LockedPCs, Positions
<1>4. \A p \in Positions : Stored(p)' <=> p < size
  <2>1. Active(t) /\ "test" \in PCs
    BY DEF Active, LockedPCs, PCs, InsertPCs
  <2> QED BY <2>1, StoredAfter
<1>5. \A p \in Positions : 
        data'[p] = IF at[t] <= p /\ p < size THEN e0(p) ELSE data[p]
  BY <1>0
<1>6. ASSUME NEW p \in Positions, at[t] <= p, p < size, NEW e, e = e0(p)
      PROVE  WasInserted(e)' /\ ~WasInserted(e)
  <2>1. inserted[t] + p - at[t] + 1 \in 1..Inserts[t]
    BY <1>0, <1>1, <1>6, InsertsAssumption DEF Positions
  <2>2. e \in Entries
    BY <1>6, <2>1, EntryParts
  <2>3. e[1] = t /\ e[2] <= inserted[t] + Chunk /\ ~(e[2] <= inserted[t])
    BY <1>0, <1>6 DEF Positions
  <2> QED BY <1>2, <2>2, <2>3 DEF WasInserted
<1>7. \A p, q \in Positions : 
        at[t] <= p /\ at[t] <= q /\ e0(p) = e0(q) => p = q
  BY <1>0 DEF Positions
<1>8. ASSUME NEW e, WasInserted(e) PROVE WasInserted(e)'
  <2>1. e \in Entries /\ e[2] <= inserted[e[1]]
    BY <1>8 DEF WasInserted
  <2>2. e[1] \in Tasks /\ e[2] \in Nat
    BY <2>1, PartsOfEntry, InsertsAssumption
  <2>3. e[2] <= inserted'[e[1]]
    BY <1>0, <1>2, <2>1, <2>2
  <2> QED BY <2>1, <2>3 DEF WasInserted
<1>9. ASSUME NEW e \in Entries, WasInserted(e)', ~WasInserted(e), Fits
      PROVE  InBuffer(e)'
  <2> DEFINE p == at[t] + (e[2] - inserted[t]) - 1
  <2>1. e[1] = t /\ e[2] > inserted[t] /\ e[2] <= inserted[t] + Chunk
    BY <1>2, <1>9, PartsOfEntry, InsertsAssumption DEF WasInserted, TypeOK
  <2>2. e[2] \in Nat /\ e = <<t, e[2]>>
    BY <2>1, PartsOfEntry, InsertsAssumption
  <2>3. p \in Nat /\ at[t] <= p /\ p < size /\ inserted[t] + p - at[t] + 1 = e[2]
    BY <1>0, <2>1, <2>2
  <2>4. p \in Positions
    BY <1>0, <1>9, <2>3 DEF Positions, SizeInv
  <2>5. data'[p] = e
    BY <1>5, <2>2, <2>3, <2>4
  <2> HIDE DEF p
  <2> QED BY <1>4, <2>3, <2>4, <2>5 DEF InBuffer
<1> HIDE DEF e0
<1>10. ASSUME NEW e, WasInserted(e)
       PROVE  InBuffer(e)' <=> InBuffer(e)
  <2>1. ASSUME NEW p \in Positions, Stored(p)', data'[p] = e
        PROVE  Stored(p) /\ data[p] = e
    BY <1>0, <1>3, <1>4, <1>5, <1>6, <1>10, <2>1 DEF Positions
  <2>2. ASSUME NEW p \in Positions, Stored(p), data[p] = e
        PROVE  Stored(p)' /\ data'[p] = e
    BY <1>0, <1>3, <1>4, <1>5, <2>2 DEF Positions
  <2> QED BY <2>1, <2>2 DEF InBuffer
<1>11. InBufferOnce'
  <2>1. ASSUME NEW q \in Positions, q < size, NEW e, data'[q] = e
        PROVE  /\ WasInserted(e)'
               /\ WasInserted(e) <=> q < at[t]
               /\ q < at[t] => data[q] = e
               /\ at[t] <= q => e = e0(q)
    <3>1. CASE at[t] <= q
      BY <2>1, <3>1, <1>0, <1>5, <1>6 DEF Positions
    <3>2. CASE q < at[t]
      <4>1. data[q] = e /\ ~(at[t] <= q)
        BY <2>1, <3>2, <1>0, <1>5 DEF Positions
      <4>2. WasInserted(data[q])
        BY <3>2, <1>3 DEF InBufferOnce, EntryInv
      <4> QED BY <4>1, <4>2, <3>2, <1>8
    <3> QED BY <3>1, <3>2, <1>0 DEF Positions
  <2>2. ASSUME NEW p \in Positions, NEW q \in Positions, p < size, q < size,
               data'[q] = data'[p]
        PROVE  p = q
    <3>1. CASE at[t] <= p
      BY <2>1, <2>2, <3>1, <1>0, <1>7 DEF Positions
    <3>2. CASE p < at[t]
      BY <2>1, <2>2, <3>2, <1>0, <1>3 DEF Positions, InBufferOnce, EntryInv
    <3> QED BY <3>1, <3>2, <1>0 DEF Positions
  <2> QED BY <2>1, <2>2, <1>4 DEF InBufferOnce
<1>12. \A m : Clean(m) => Clean(m)' /\ \A e : Has(m, e) => WasInserted(e)
  BY <1>8 DEF Clean, Has
<1>13. InFlightOnce'
  BY <1>10, <1>12 DEF InFlightOnce, EntryInv
<1>14. \A e : InFlight(e)' <=> InFlight(e)
  BY DEF InFlight
<1>15. DeliveredOnce'
  BY <1>8, <1>10, <1>14 DEF DeliveredOnce, EntryInv
<1>16. Fits => Kept'
  BY <1>9, <1>10, <1>14 DEF Kept, EntryInv
<1> QED BY <1>11, <1>13, <1>15, <1>16 DEF EntryInv

\* the target takes what a message holds
LEMMA Delivery == 
  ASSUME TypeOK, NEW m, Clean(m), Receive(m)
  PROVE  /\ delivered'[Garbage] = delivered[Garbage]
         /\ \A e \in Entries : 
              delivered'[e] = delivered[e] + IF Has(m, e) THEN 1 ELSE 0
<1> DEFINE N(e) == Cardinality({p \in Positions : p < m.n /\ m.data[p] = e})
<1>1. \A e : N(e) = IF Has(m, e) THEN 1 ELSE 0
  BY CountOfClean
<1>2. delivered' = [e \in Entries \cup {Garbage} |-> delivered[e] + N(e)]
  BY DEF Receive
<1>3. ~Has(m, Garbage)
  BY GarbageAssumption DEF Has, Clean, WasInserted
<1> HIDE DEF N
<1> QED BY <1>1, <1>2, <1>3 DEF TypeOK

\* a flush that reaches its message holds the whole buffer
LEMMA FullMessage == 
  ASSUME TypeOK, OneFlusher, LockInv, NEW t \in Tasks, Send(t), 
         Knows(t), EntryInv
  PROVE  /\ Clean(args[t])
         /\ \A e : Has(args[t], e) <=> InBuffer(e)
         /\ \A p \in Positions : ~Stored(p)'
<1>1. Active(t) /\ pc[t] = "f_send" /\ "f_reset" \in PCs
  BY DEF Send, Active, FlushPCs, PCs
<1>2. args[t].data = data /\ args[t].n = size
  BY <1>1 DEF Knows
<1>3. \A p \in Positions : Stored(p) <=> p < size
  BY <1>1, StoredOf
<1>4. \A p \in Positions : ~Stored(p)'
  BY <1>1, StoredAfter DEF Send
<1> QED BY <1>2, <1>3, <1>4 
        DEF Clean, Has, InBuffer, InBufferOnce, EntryInv

LEMMA StepSend == 
  ASSUME TypeOK, OneFlusher, LockInv, NEW t \in Tasks, Send(t), 
         Knows(t), EntryInv
  PROVE  EntryInv'
<1>1. /\ Clean(args[t])
      /\ \A e : Has(args[t], e) <=> InBuffer(e)
      /\ \A p \in Positions : ~Stored(p)'
  BY FullMessage
<1>2. \A e : ~InBuffer(e)'
  BY <1>1 DEF InBuffer
<1>3. inserted' = inserted
  BY DEF Send
<1>4. /\ \A e : WasInserted(e)' <=> WasInserted(e)
      /\ \A m : Clean(m)' <=> Clean(m)
  BY <1>3 DEF WasInserted, Clean
<1>5. InBufferOnce'
  BY <1>1 DEF InBufferOnce
<1>6. \A e : InBuffer(e) => WasInserted(e)
  BY DEF InBuffer, InBufferOnce, EntryInv
<1>7. CASE lock = t /\ t \in AsyncTasks
  <2>1. flying' = [flying EXCEPT ![t] = Append(@, args[t])]
    BY <1>7 DEF Send
  <2>2. delivered' = delivered
    BY <1>7 DEF Send
  <2> DEFINE k == Len(flying[t]) + 1
  <2>3. flying[t] \in Seq(Message) /\ args[t] \in Message
    BY DEF TypeOK
  <2>4. Len(flying[t]) \in Nat /\ DOMAIN flying[t] = 1..Len(flying[t])
    BY <2>3, LenProperties
  <2>5. /\ Append(flying[t], args[t]) \in Seq(Message)
        /\ Len(Append(flying[t], args[t])) = k
        /\ \A j \in 1..Len(flying[t]) : 
             Append(flying[t], args[t])[j] = flying[t][j]
        /\ Append(flying[t], args[t])[k] = args[t]
    BY <2>3, AppendProperties
  <2>6. DOMAIN Append(flying[t], args[t]) = 1..k
    BY <2>5, LenProperties
  <2>7. flying'[t] = Append(flying[t], args[t])
    BY <2>1 DEF TypeOK
  <2>8. \A u \in Tasks \ {t} : flying'[u] = flying[u]
    BY <2>1 DEF TypeOK
  <2>9. /\ DOMAIN flying'[t] = 1..k
        /\ \A j \in DOMAIN flying[t] : j # k /\ flying'[t][j] = flying[t][j]
        /\ \A j \in 1..k : j = k \/ j \in DOMAIN flying[t]
        /\ flying'[t][k] = args[t]
        /\ DOMAIN flying[t] \subseteq 1..k /\ k \in 1..k
    BY <2>4, <2>5, <2>6, <2>7
  <2> HIDE DEF k
  <2>10. ASSUME NEW e PROVE InFlight(e)' <=> InFlight(e) \/ InBuffer(e)
    <3>1. InFlight(e)' => InFlight(e) \/ InBuffer(e)
      BY <1>1, <2>8, <2>9 DEF InFlight
    <3>2. InFlight(e) => InFlight(e)'
      BY <2>8, <2>9 DEF InFlight
    <3>3. InBuffer(e) => InFlight(e)'
      BY <1>1, <2>9 DEF InFlight
    <3> QED BY <3>1, <3>2, <3>3
  <2>11. InFlightOnce'
    <3>1. ASSUME NEW u \in Tasks, NEW i \in DOMAIN flying'[u]
          PROVE  \/ u = t /\ i = k /\ flying'[u][i] = args[t]
                 \/ i \in DOMAIN flying[u] /\ flying'[u][i] = flying[u][i]
      BY <2>8, <2>9
    <3>2. ASSUME NEW u \in Tasks, NEW i \in DOMAIN flying'[u], NEW m, 
                 m = flying'[u][i]
          PROVE  Clean(m)'
      BY <3>1, <3>2, <1>1, <1>4 DEF InFlightOnce, EntryInv
    <3>3. ASSUME NEW u \in Tasks, NEW i \in DOMAIN flying'[u], NEW e \in Entries,
                 Has(flying'[u][i], e), 
                 NEW v \in Tasks, NEW j \in DOMAIN flying'[v],
                 Has(flying'[v][j], e)
          PROVE  u = v /\ i = j
      <4>1. \/ u = t /\ i = k /\ flying'[u][i] = args[t]
            \/ i \in DOMAIN flying[u] /\ flying'[u][i] = flying[u][i]
        BY <3>1
      <4>2. \/ v = t /\ j = k /\ flying'[v][j] = args[t]
            \/ j \in DOMAIN flying[v] /\ flying'[v][j] = flying[v][j]
        BY <3>1
      <4> QED BY <4>1, <4>2, <3>3, <1>1 DEF InFlightOnce, EntryInv
    <3> QED BY <3>2, <3>3, <1>2 DEF InFlightOnce
  <2>12. DeliveredOnce'
    BY <2>2, <2>10, <1>2, <1>4 DEF DeliveredOnce, EntryInv
  <2>13. Fits => Kept'
    BY <2>2, <2>10, <1>4 DEF Kept, EntryInv
  <2> QED BY <1>5, <2>11, <2>12, <2>13 DEF EntryInv
<1>8. CASE ~(lock = t /\ t \in AsyncTasks)
  <2>1. Receive(args[t]) /\ flying' = flying
    BY <1>8 DEF Send
  <2>2. /\ delivered'[Garbage] = delivered[Garbage]
        /\ \A e \in Entries : 
             delivered'[e] = delivered[e] + IF InBuffer(e) THEN 1 ELSE 0
    BY <2>1, <1>1, Delivery
  <2>3. \A e : InFlight(e)' <=> InFlight(e)
    BY <2>1 DEF InFlight
  <2>4. InFlightOnce'
    BY <2>1, <1>2, <1>4 DEF InFlightOnce, EntryInv
  <2>5. \A e \in Entries : delivered[e] \in Nat
    BY DEF TypeOK
  <2>6. ASSUME NEW e \in Entries, InBuffer(e)
        PROVE  delivered[e] = 0 /\ WasInserted(e) /\ ~InFlight(e)
    BY <2>5, <2>6, <1>6 DEF DeliveredOnce, InFlightOnce, InFlight, EntryInv
  <2>7. DeliveredOnce'
    BY <2>2, <2>3, <2>5, <2>6, <1>2, <1>4 DEF DeliveredOnce, EntryInv
  <2>8. Fits => Kept'
    BY <2>2, <2>3, <2>5, <2>6, <1>4 DEF Kept, EntryInv, WasInserted
  <2> QED BY <1>5, <2>4, <2>7, <2>8 DEF EntryInv
<1> QED BY <1>7, <1>8

LEMMA StepExecute == 
  ASSUME TypeOK, NEW t \in Tasks, Execute(t), EntryInv
  PROVE  EntryInv'
<1>1. PICK i \in DOMAIN flying[t] : 
        /\ Receive(flying[t][i])
        /\ flying' = [flying EXCEPT ![t] = 
             SubSeq(@, 1, i - 1) \o SubSeq(@, i + 1, Len(@))]
  BY DEF Execute
<1> DEFINE m == flying[t][i]
           old(j) == IF j < i THEN j ELSE j + 1
<1>2. flying[t] \in Seq(Message)
  BY DEF TypeOK
<1>3. Len(flying[t]) \in Nat /\ DOMAIN flying[t] = 1..Len(flying[t])
  BY <1>2, LenProperties
<1>4. flying'[t] = SubSeq(flying[t], 1, i - 1) 
                     \o SubSeq(flying[t], i + 1, Len(flying[t]))
  BY <1>1 DEF TypeOK
<1>5. /\ DOMAIN flying'[t] = 1..(Len(flying[t]) - 1)
      /\ \A j \in DOMAIN flying'[t] : flying'[t][j] = flying[t][old(j)]
  BY <1>2, <1>4, Without
<1>6. /\ \A j \in DOMAIN flying'[t] : old(j) \in DOMAIN flying[t] /\ old(j) # i
      /\ \A j, k \in DOMAIN flying'[t] : old(j) = old(k) => j = k
      /\ \A k \in DOMAIN flying[t] : 
           k # i => \E j \in DOMAIN flying'[t] : old(j) = k
  <2>1. i \in 1..Len(flying[t])
    BY <1>3
  <2>2. ASSUME NEW k \in DOMAIN flying[t], k # i
        PROVE  \E j \in DOMAIN flying'[t] : old(j) = k
    <3>1. CASE k < i
      <4>1. k \in DOMAIN flying'[t] /\ old(k) = k
        BY <3>1, <2>1, <1>3, <1>5
      <4> QED BY <4>1
    <3>2. CASE ~(k < i)
      <4>1. k - 1 \in DOMAIN flying'[t] /\ old(k - 1) = k
        BY <3>2, <2>1, <2>2, <1>3, <1>5
      <4> QED BY <4>1
    <3> QED BY <3>1, <3>2
  <2> QED BY <2>1, <2>2, <1>3, <1>5
<1>7. \A u \in Tasks \ {t} : flying'[u] = flying[u]
  BY <1>1 DEF TypeOK
<1>8. Receive(m) /\ Clean(m)
  BY <1>1 DEF EntryInv, InFlightOnce
<1>9. UNCHANGED <<data, size, pc, at, inserted>>
  BY DEF Execute
<1> HIDE DEF old
<1>10. /\ \A p : Stored(p)' <=> Stored(p)
       /\ \A e : WasInserted(e)' <=> WasInserted(e)
  BY <1>9 DEF Stored, WasInserted
<1>11. /\ \A e : InBuffer(e)' <=> InBuffer(e)
       /\ \A x : Clean(x)' <=> Clean(x)
  BY <1>9, <1>10 DEF InBuffer, Clean
<1>12. InBufferOnce'
  BY <1>9, <1>10 DEF InBufferOnce, EntryInv
\* every message that is left was there before, at its own place
<1>13. ASSUME NEW u \in Tasks, NEW j \in DOMAIN flying'[u]
       PROVE  \E k \in DOMAIN flying[u] : 
                /\ flying'[u][j] = flying[u][k] /\ (u = t => k # i)
                /\ k = IF u = t THEN old(j) ELSE j
  BY <1>5, <1>6, <1>7
<1>14. InFlightOnce'
  <2>1. ASSUME NEW u \in Tasks, NEW j \in DOMAIN flying'[u], NEW x, 
               x = flying'[u][j]
        PROVE  Clean(x)' /\ \A e \in Entries : Has(x, e) => ~InBuffer(e)'
    BY <2>1, <1>11, <1>13 DEF InFlightOnce, EntryInv
  <2>2. ASSUME NEW u \in Tasks, NEW j \in DOMAIN flying'[u], NEW e \in Entries,
               Has(flying'[u][j], e), 
               NEW v \in Tasks, NEW k \in DOMAIN flying'[v],
               Has(flying'[v][k], e)
        PROVE  u = v /\ j = k
    <3>1. PICK a \in DOMAIN flying[u] : 
            flying'[u][j] = flying[u][a] /\ a = IF u = t THEN old(j) ELSE j
      BY <1>13
    <3>2. PICK b \in DOMAIN flying[v] : 
            flying'[v][k] = flying[v][b] /\ b = IF v = t THEN old(k) ELSE k
      BY <1>13
    <3>3. u = v /\ a = b
      BY <3>1, <3>2, <2>2 DEF InFlightOnce, EntryInv
    <3> QED BY <3>1, <3>2, <3>3, <1>6
  <2> QED BY <2>1, <2>2 DEF InFlightOnce
<1>15. ASSUME NEW e \in Entries
       PROVE  /\ InFlight(e)' <=> InFlight(e) /\ ~Has(m, e)
              /\ Has(m, e) => InFlight(e)
  <2>1. Has(m, e) => InFlight(e)
    BY DEF InFlight
  <2>2. InFlight(e)' => InFlight(e) /\ ~Has(m, e)
    BY <1>13 DEF InFlight, InFlightOnce, EntryInv
  <2>3. ASSUME InFlight(e), ~Has(m, e) PROVE InFlight(e)'
    <3>1. PICK u \in Tasks : \E k \in DOMAIN flying[u] : Has(flying[u][k], e)
      BY <2>3 DEF InFlight
    <3>2. PICK k \in DOMAIN flying[u] : Has(flying[u][k], e)
      BY <3>1
    <3>3. u = t => k # i
      BY <3>2, <2>3
    <3>4. \E j \in DOMAIN flying'[u] : flying'[u][j] = flying[u][k]
      BY <3>3, <1>5, <1>6, <1>7
    <3> QED BY <3>2, <3>4 DEF InFlight
  <2> QED BY <2>1, <2>2, <2>3
<1> HIDE DEF m
<1>16. /\ delivered'[Garbage] = delivered[Garbage]
       /\ \A e \in Entries : 
            delivered'[e] = delivered[e] + IF Has(m, e) THEN 1 ELSE 0
  BY <1>8, Delivery
<1>17. \A e \in Entries : delivered[e] \in Nat
  BY DEF TypeOK
<1>18. ASSUME NEW e \in Entries, Has(m, e)
       PROVE  delivered[e] = 0 /\ WasInserted(e) /\ ~InBuffer(e)
  <2>1. WasInserted(e)
    BY <1>8, <1>18 DEF Has, Clean
  <2>2. delivered[e] = 0
    BY <1>15, <1>17, <1>18 DEF DeliveredOnce, EntryInv
  <2>3. ~InBuffer(e)
    BY <1>18 DEF m, InFlightOnce, EntryInv
  <2> QED BY <2>1, <2>2, <2>3
<1>19. DeliveredOnce'
  BY <1>10, <1>11, <1>15, <1>16, <1>17, <1>18 DEF DeliveredOnce, EntryInv
<1>20. Fits => Kept'
  BY <1>10, <1>11, <1>15, <1>16, <1>17, <1>18 DEF Kept, EntryInv, WasInserted
<1> QED BY <1>12, <1>14, <1>19, <1>20 DEF EntryInv

LEMMA StepEntries == 
  ASSUME TypeOK, OneFlusher, LockInv, NEW t \in Tasks, Step(t), Knows(t), 
         Fits => SizeInv, EntryInv
  PROVE  EntryInv'
<1> USE DEF Active, LockedPCs, FlushPCs, InsertPCs, PCs, Goto
<1>0. pc[t] \in LockedPCs \cup FlushPCs => 
        \A u \in Tasks \ {t} : pc[u] \notin LockedPCs \cup FlushPCs
  BY OneActive
\* steps that do not touch size_, from and to places that do not count
<1>1. ASSUME UNCHANGED <<data, size, inserted, flying, delivered>>,
             \A u \in Tasks \ {t} : pc'[u] = pc[u] /\ at'[u] = at[u],
             {pc[t], pc'[t]} \cap {"store", "f_reset"} = {}
      PROVE  EntryInv'
  <2>1. \A p \in Positions : Stored(p)' <=> Stored(p)
    BY <1>1 DEF Stored
  <2> QED BY <1>1, <2>1, EntriesSame
<1>2. CASE Lock(t)
  BY <1>1, <1>2 DEF Lock, TypeOK
<1>3. CASE ReadSize(t)
  BY <1>1, <1>3 DEF ReadSize, TypeOK
<1>4. CASE RaiseSize(t)
  <2>1. /\ Active(t) /\ "store" \in PCs /\ pc[t] = "raise" /\ Goto(t, "store")
        /\ at' = at /\ size' = at[t] + Chunk /\ at[t] = size
    BY <1>4 DEF RaiseSize, Knows
  <2>2. size \in Nat /\ Chunk \in Nat
    BY ChunkAssumption DEF TypeOK
  <2>3. ASSUME NEW p \in Positions PROVE Stored(p)' <=> Stored(p)
    <3>1. Stored(p) <=> p < size
      BY <2>1, StoredOf
    <3>2. Stored(p)' <=> p < size' /\ p < at'[t]
      BY <2>1, StoredAfter
    <3> QED BY <3>1, <3>2, <2>1, <2>2 DEF Positions
  <2> QED BY <1>4, <2>3, EntriesSame DEF RaiseSize
<1>5. CASE Store(t)
  BY <1>5, StepStore
<1>6. CASE TestFull(t)
  BY <1>1, <1>6 DEF TestFull, TypeOK
<1>7. CASE Unlock(t)
  BY <1>1, <1>7 DEF Unlock, TypeOK
<1>8. CASE FlushEmpty(t)
  BY <1>1, <1>8 DEF FlushEmpty, FlushReturns, TypeOK
<1>9. CASE CopyData(t)
  BY <1>1, <1>9 DEF CopyData, TypeOK
<1>10. CASE CopySize(t)
  BY <1>1, <1>10 DEF CopySize, TypeOK
<1>11. CASE Send(t)
  BY <1>11, StepSend
<1>12. CASE Reset(t)
  <2>1. /\ Active(t) /\ pc[t] = "f_reset" /\ at' = at /\ size' = 0
        /\ \E l \in {"unlock", "done"} : Goto(t, l)
    BY <1>12 DEF Reset, FlushReturns
  <2>2. ASSUME NEW p \in Positions PROVE Stored(p)' <=> Stored(p)
    <3>1. ~Stored(p)
      BY <2>1, StoredOf
    <3>2. ~Stored(p)'
      BY <2>1 DEF Stored, Positions
    <3> QED BY <3>1, <3>2
  <2> QED BY <1>12, <2>2, EntriesSame DEF Reset
<1>13. CASE Execute(t)
  BY <1>13, StepExecute
<1>14. CASE Wait(t)
  BY <1>1, <1>14 DEF Wait, TypeOK
<1>15. CASE FlushAll(t)
  BY <1>1, <1>15 DEF FlushAll, TypeOK
<1> QED BY <1>2, <1>3, <1>4, <1>5, <1>6, <1>7, <1>8, <1>9, <1>10, <1>11, 
           <1>12, <1>13, <1>14, <1>15 DEF Step

-----------------------------------------------------------------------------
(* The inductive invariant holds, whatever the tasks insert: one flush at  *)
(* the end finds the buffer, its size and the messages in agreement.       *)
THEOREM BufferInvariant == OneFlusher /\ Spec => []BufferInv
<1>1. OneFlusher /\ Init => BufferInv
  BY InitType, InitLock, InitKnows, InitSize, InitEntries DEF BufferInv
<1>2. BufferInv /\ [Next]_vars => BufferInv'
  <2> SUFFICES ASSUME BufferInv, [Next]_vars PROVE BufferInv'
    OBVIOUS
  <2>1. ASSUME NEW t \in Tasks, Step(t) PROVE BufferInv'
    <3>1. /\ TypeOK /\ OneFlusher /\ LockInv /\ EntryInv /\ (Fits => SizeInv)
          /\ \A u \in Tasks : Knows(u)
      BY DEF BufferInv
    <3>2. TypeOK'
      BY <2>1, <3>1, StepType
    <3>3. LockInv'
      BY <2>1, <3>1, StepLock
    <3>4. \A u \in Tasks : Knows(u)'
      BY <2>1, <3>1, StepKnows
    <3>5. Fits => SizeInv'
      BY <2>1, <3>1, StepSize
    <3>6. EntryInv'
      BY <2>1, <3>1, StepEntries
    <3> QED BY <3>1, <3>2, <3>3, <3>4, <3>5, <3>6 DEF BufferInv
  <2>2. CASE UNCHANGED vars
    <3> USE <2>2 DEF vars, BufferInv
    <3>1. TypeOK'
      BY DEF TypeOK
    <3>2. LockInv'
      BY DEF LockInv, LockedPCs, FlushPCs, Active, InFlushAll, Past
    <3>3. \A u \in Tasks : Knows(u)'
      BY DEF Knows
    <3>4. Fits => SizeInv'
      BY DEF SizeInv
    <3>5. \A p : Stored(p)' <=> Stored(p)
      BY DEF Stored
    <3>6. EntryInv'
      BY <3>5, EntriesSame
    <3> QED BY <3>1, <3>2, <3>3, <3>4, <3>6
  <2> QED BY <2>1, <2>2 DEF Next, Terminating
<1> QED BY <1>1, <1>2, PTL DEF Spec

(* The target inserts nothing that was not inserted at the source: no flush *)
(* sends an element of data_ before its entry is stored.                    *)
THEOREM NothingIsInvented == OneFlusher /\ Spec => []NothingInvented
<1>1. BufferInv => NothingInvented
  BY DEF BufferInv, EntryInv, DeliveredOnce, NothingInvented
<1> QED BY <1>1, BufferInvariant, PTL

(* An entry reaches the target once: neither the flush of a full buffer and *)
(* the last flush nor two messages of a handle hold the same entry.         *)
THEOREM DeliveredAtMostOnce == OneFlusher /\ Spec => []OnlyOnce
<1>1. BufferInv => OnlyOnce
  BY DEF BufferInv, EntryInv, DeliveredOnce, OnlyOnce
<1> QED BY <1>1, BufferInvariant, PTL

(* When WaitForBufferedInsert has returned, no entry is left in the buffer  *)
(* or in a message, provided that the insertions fill the buffer exactly.   *)
THEOREM NothingIsLeft == 
  OneFlusher /\ Fits /\ Flushers # {} /\ Spec => []AllDelivered
<1>1. BufferInv /\ Fits /\ Flushers # {} => AllDelivered
  <2> SUFFICES ASSUME BufferInv, Fits, Flushers # {}, Finished, 
                      NEW e \in Entries
               PROVE  delivered[e] >= 1
    BY DEF AllDelivered
  <2>1. \A t \in Tasks : inserted[t] = Inserts[t] /\ flying[t] = <<>>
    BY DEF BufferInv, LockInv, Finished
  <2>2. size = 0
    BY KindsAssumption DEF BufferInv, Knows, Finished
  <2>3. WasInserted(e)
    BY <2>1, PartsOfEntry DEF WasInserted
  <2>4. ~InFlight(e)
    BY <2>1 DEF InFlight
  <2>5. ~InBuffer(e)
    BY <2>2 DEF InBuffer, Stored, Positions
  <2> QED BY <2>3, <2>4, <2>5 DEF BufferInv, EntryInv, Kept
<1> DEFINE Used == Fits /\ Flushers # {}
<1>2. Used /\ [Next]_vars => Used'
  BY DEF Fits
<1>3. Used /\ BufferInv => AllDelivered
  BY <1>1
<1>4. OneFlusher /\ Fits /\ Flushers # {} /\ Spec => OneFlusher /\ Used /\ Spec
  OBVIOUS
<1> HIDE DEF Used
<1> QED BY <1>2, <1>3, <1>4, BufferInvariant, PTL DEF Spec

=============================================================================
