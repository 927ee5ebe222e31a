------------------------------- MODULE Buffer -------------------------------
(***************************************************************************)
(* shad::impl::Buffer (data_structures/buffer.h): the buffer in which one  *)
(* locality collects the entries it inserts at another.  Tasks insert      *)
(* under the buffer's lock, and the insertion that fills the buffer sends  *)
(* it.  FlushAll, which WaitForBufferedInsert runs on every locality,      *)
(* sends what is left and takes no lock.                                   *)
(*                                                                         *)
(* Each task inserts its entries, waits for its handle and then calls      *)
(* WaitForBufferedInsert, as the two documented steps and as               *)
(* buffered_insert_iterator's wait() and flush().  A task that inserts     *)
(* nothing stands for one on another locality, whose flush reaches this    *)
(* buffer too.                                                             *)
(***************************************************************************)
EXTENDS Integers, FiniteSets, Sequences

CONSTANTS
  Tasks,
  Inserts,     \* Inserts[t]: entries task t inserts
  Chunk,       \* entries per call of Insert
  AsyncTasks,  \* tasks that call AsyncInsert
  Flushers,    \* tasks that call WaitForBufferedInsert
  Barrier,     \* whether they do so only after every insertion returned
  BufferSize,  \* kBufferSize
  NoTask,      \* the lock is free
  Garbage      \* what an element of data_ holds that was never written

ASSUME InsertsAssumption == Inserts \in [Tasks -> Nat]
ASSUME ChunkAssumption == 
  Chunk \in Nat \ {0} /\ \A t \in Tasks : Inserts[t] % Chunk = 0
ASSUME BufferSizeAssumption == BufferSize \in Nat \ {0} /\ Chunk <= BufferSize
ASSUME KindsAssumption == 
  AsyncTasks \subseteq Tasks /\ Flushers \subseteq Tasks /\ Barrier \in BOOLEAN
ASSUME NoTaskAssumption == NoTask \notin Tasks

Entries == UNION {{t} \X (1..Inserts[t]) : t \in Tasks}
Positions == 0..(BufferSize - 1)

ASSUME GarbageAssumption == Garbage \notin Entries

FlushPCs == {"f_empty", "f_data", "f_size", "f_send", "f_reset"}
InsertPCs == {"insert", "size", "raise", "store", "test", "unlock"}
PCs == InsertPCs \cup FlushPCs \cup {"flush", "done"}

VARIABLES
  data,       \* data_
  size,       \* size_
  lock,       \* lock_: the task that holds it
  pc,
  at,         \* at[t]: the value of size_ that an Insert read
  args,       \* args[t]: the FlushArgs a task builds
  inserted,   \* inserted[t]: entries t has stored
  flying,     \* flying[t]: FlushArgs sent on t's handle, not yet executed
  delivered   \* delivered[e]: times BufferEntryInsert ran for e

vars == <<data, size, lock, pc, at, args, inserted, flying, delivered>>

Message == [data : [Positions -> Entries \cup {Garbage}], n : Nat]
NoArgs == [data |-> [p \in Positions |-> Garbage], n |-> 0]

Init == 
  /\ data = NoArgs.data
  /\ size = 0
  /\ lock = NoTask
  /\ pc = [t \in Tasks |-> "insert"]
  /\ at = [t \in Tasks |-> 0]
  /\ args = [t \in Tasks |-> NoArgs]
  /\ inserted = [t \in Tasks |-> 0]
  /\ flying = [t \in Tasks |-> <<>>]
  /\ delivered = [e \in Entries \cup {Garbage} |-> 0]

Goto(t, l) == pc' = [pc EXCEPT ![t] = l]

-----------------------------------------------------------------------------
(* Insert and AsyncInsert.                                                 *)
\* mutant: the lock is not taken
LockNothing(t) == 
  /\ pc[t] = "insert" /\ inserted[t] < Inserts[t]
  /\ lock' = t
  /\ Goto(t, "size")
  /\ UNCHANGED <<data, size, at, args, inserted, flying, delivered>>

Lock(t) == 
  /\ pc[t] = "insert" /\ inserted[t] < Inserts[t]
  /\ lock = NoTask /\ lock' = t
  /\ Goto(t, "size")
  /\ UNCHANGED <<data, size, at, args, inserted, flying, delivered>>

\* size_++, or pos = size_ and size_ += num_entries
ReadSize(t) == 
  /\ pc[t] = "size" /\ Goto(t, "raise")
  /\ at' = [at EXCEPT ![t] = size]
  /\ UNCHANGED <<data, size, lock, args, inserted, flying, delivered>>

RaiseSize(t) == 
  /\ pc[t] = "raise" /\ Goto(t, "store")
  /\ size' = at[t] + Chunk
  /\ UNCHANGED <<data, lock, at, args, inserted, flying, delivered>>

Store(t) == 
  /\ pc[t] = "store" /\ Goto(t, "test")
  /\ data' = [p \in Positions |-> 
                IF at[t] <= p /\ p < at[t] + Chunk 
                  THEN <<t, inserted[t] + p - at[t] + 1>> ELSE data[p]]
  /\ inserted' = [inserted EXCEPT ![t] = @ + Chunk]
  /\ UNCHANGED <<size, lock, at, args, flying, delivered>>

TestFull(t) == 
  /\ pc[t] = "test" 
  /\ Goto(t, IF size = BufferSize THEN "f_empty" ELSE "unlock")
  /\ UNCHANGED <<data, size, lock, at, args, inserted, flying, delivered>>

\* mutant: a path of Insert leaves the buffer locked
UnlockNothing(t) == 
  /\ pc[t] = "unlock" /\ Goto(t, "insert")
  /\ UNCHANGED <<data, size, lock, at, args, inserted, flying, delivered>>

Unlock(t) == 
  /\ pc[t] = "unlock" /\ Goto(t, "insert")
  /\ lock' = NoTask
  /\ UNCHANGED <<data, size, at, args, inserted, flying, delivered>>

-----------------------------------------------------------------------------
(* FlushBuffer and AsyncFlushBuffer, in an Insert or in FlushAll.          *)
FlushReturns(t) == Goto(t, IF lock = t THEN "unlock" ELSE "done")

FlushEmpty(t) == 
  /\ pc[t] = "f_empty"
  /\ IF size = 0 THEN FlushReturns(t) ELSE Goto(t, "f_data")
  /\ UNCHANGED <<data, size, lock, at, args, inserted, flying, delivered>>

\* FlushArgs args = {data_, size_, oid_}
CopyData(t) == 
  /\ pc[t] = "f_data" /\ Goto(t, "f_size")
  /\ args' = [args EXCEPT ![t].data = data]
  /\ UNCHANGED <<data, size, lock, at, inserted, flying, delivered>>

CopySize(t) == 
  /\ pc[t] = "f_size" /\ Goto(t, "f_send")
  /\ args' = [args EXCEPT ![t].n = size]
  /\ UNCHANGED <<data, size, lock, at, inserted, flying, delivered>>

\* BufferEntryInsert of each entry at the target
Receive(m) == 
  delivered' = [e \in Entries \cup {Garbage} |-> 
    delivered[e] + Cardinality({p \in Positions : p < m.n /\ m.data[p] = e})]

\* executeAt, or asyncExecuteAt on the handle of an AsyncInsert
Send(t) == 
  /\ pc[t] = "f_send" /\ Goto(t, "f_reset")
  /\ IF lock = t /\ t \in AsyncTasks
       THEN /\ flying' = [flying EXCEPT ![t] = Append(@, args[t])]
            /\ UNCHANGED delivered
       ELSE Receive(args[t]) /\ UNCHANGED flying
  /\ UNCHANGED <<data, size, lock, at, args, inserted>>

\* mutant: size_ is not reset
ResetNothing(t) == 
  /\ pc[t] = "f_reset" /\ FlushReturns(t)
  /\ UNCHANGED <<data, size, lock, at, args, inserted, flying, delivered>>

Reset(t) == 
  /\ pc[t] = "f_reset" /\ FlushReturns(t)
  /\ size' = 0
  /\ UNCHANGED <<data, lock, at, args, inserted, flying, delivered>>

\* the target executes a message of a handle, in any order
Execute(t) == 
  /\ \E i \in DOMAIN flying[t] : 
       /\ Receive(flying[t][i])
       /\ flying' = [flying EXCEPT ![t] = 
            SubSeq(@, 1, i - 1) \o SubSeq(@, i + 1, Len(@))]
  /\ UNCHANGED <<data, size, lock, pc, at, args, inserted>>

-----------------------------------------------------------------------------
\* waitForCompletion(handle), after the last insertion
Wait(t) == 
  /\ pc[t] = "insert" /\ inserted[t] = Inserts[t] /\ flying[t] = <<>>
  /\ Goto(t, IF t \in Flushers THEN "flush" ELSE "done")
  /\ UNCHANGED <<data, size, lock, at, args, inserted, flying, delivered>>

NoInsert == \A t \in Tasks : pc[t] \notin InsertPCs /\ lock # t

\* mutant: FlushAll looks at the buffers of the other localities only
FlushAllSkips(t) == 
  /\ pc[t] = "flush" /\ Goto(t, "done")
  /\ Barrier => NoInsert
  /\ UNCHANGED <<data, size, lock, at, args, inserted, flying, delivered>>

\* WaitForBufferedInsert reaches this buffer
FlushAll(t) == 
  /\ pc[t] = "flush" /\ Goto(t, "f_empty")
  /\ Barrier => NoInsert
  /\ UNCHANGED <<data, size, lock, at, args, inserted, flying, delivered>>

Step(t) == 
  \/ Lock(t) \/ ReadSize(t) \/ RaiseSize(t) \/ Store(t) \/ TestFull(t) 
  \/ Unlock(t)
  \/ FlushEmpty(t) \/ CopyData(t) \/ CopySize(t) \/ Send(t) \/ Reset(t)
  \/ Execute(t) \/ Wait(t) \/ FlushAll(t)

Finished == \A t \in Tasks : pc[t] = "done"
Terminating == Finished /\ UNCHANGED vars

Next == (\E t \in Tasks : Step(t)) \/ Terminating

Spec == Init /\ [][Next]_vars

\* tasks keep being scheduled, and the target executes what it is sent
FairSpec == 
  Spec /\ \A t \in Tasks : WF_vars(Step(t)) /\ WF_vars(Execute(t))

-----------------------------------------------------------------------------
TypeOK == 
  /\ data \in [Positions -> Entries \cup {Garbage}]
  /\ size \in Nat
  /\ lock \in Tasks \cup {NoTask}
  /\ pc \in [Tasks -> PCs]
  /\ at \in [Tasks -> Nat]
  /\ args \in [Tasks -> Message]
  /\ inserted \in [Tasks -> Nat]
  /\ flying \in [Tasks -> Seq(Message)]
  /\ delivered \in [Entries \cup {Garbage} -> Nat]

(* When WaitForBufferedInsert has returned everywhere, every entry that    *)
(* was inserted has reached its target.                                    *)
AllDelivered == Finished => \A e \in Entries : delivered[e] >= 1

(* No entry is inserted twice at its target.                               *)
OnlyOnce == \A e \in Entries : delivered[e] <= 1

(* The target inserts nothing that was not inserted at the source: a flush *)
(* never sends an element of data_ before its entry has been stored.       *)
NothingInvented == delivered[Garbage] = 0

(* Every entry reaches its target: no task waits for ever for the lock or  *)
(* for its handle.                                                         *)
EventuallyDelivered == <>(\A e \in Entries : delivered[e] >= 1)
=============================================================================
