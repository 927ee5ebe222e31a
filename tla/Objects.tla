------------------------------- MODULE Objects -------------------------------
(***************************************************************************)
(* What the distributed containers have in common: the memory of the       *)
(* localities and the buffers of buffered insertions.                      *)
(*                                                                         *)
(* Every locality holds, for each key, the sequence of its values, empty   *)
(* when the key is absent.  One operation on a local container is one step *)
(* (LocalHashmap.tla and LocalMultimap.tla are about what    *)
(* happens inside it), and so is a call of another locality that the task  *)
(* waits for and that makes one access there.                              *)
(*                                                                         *)
(* Programs are those that the containers are made for: a task has one     *)
(* question at a time; Clear has the container for itself; buffered        *)
(* insertions and flushes do not overlap (Buffer.tla shows why).           *)
(* No two keys of one locality are in the same bucket, so that the order   *)
(* of the buckets is the order of a traversal.                             *)
(***************************************************************************)
EXTENDS Calls

CONSTANTS
  Keys,            \* the keys
  hash,            \* [Keys -> Nat]: shad::hash
  NumBuckets,      \* buckets of each local container
  BufferSize       \* kBufferSize

TargetLocality(k) == hash[k] % NumLocalities
Bucket(k) == hash[k] % NumBuckets

ASSUME ObjectsAssumption == 
  /\ {NumBuckets, BufferSize} \subseteq Nat \ {0} /\ hash \in [Keys -> Nat]
  /\ \A j, k \in Keys : 
       TargetLocality(j) = TargetLocality(k) /\ Bucket(j) = Bucket(k) => j = k

VARIABLES
  mem,         \* [Localities -> [Keys -> Seq(Nat)]]
  buffers,     \* [Localities -> [Localities -> Seq(Keys)]]
  look,        \* [Tasks -> what it wants to know, and the answer so far]
  promised,    \* history: [Keys -> Nat]: insertions one may rely on
  pending,     \* history: insertions of each task that are not promised yet
  dropped      \* history: keys that were to be removed

memory == <<mem, buffers>>
history == <<promised, pending, dropped>>
objectVars == <<callVars, memory, look, history>>

NoLook == [asks |-> "nothing"]
NoKeys == [k \in Keys |-> 0]
Plus(f, g) == [k \in Keys |-> f[k] + g[k]]

\* the localities that hold a key: all of them in a replicated map
Places(k) == IF kind = "replicated" THEN Localities ELSE {TargetLocality(k)}

Init == 
  /\ InitCalls
  /\ \E present \in program.contents : 
       /\ mem = [l \in Localities |-> [k \in Keys |-> 
                  IF k \in present /\ l \in Places(k) THEN <<1>> ELSE <<>>]]
       /\ promised = [k \in Keys |-> IF k \in present THEN 1 ELSE 0]
  /\ buffers = [l \in Localities |-> [i \in Localities |-> <<>>]]
  /\ look = [t \in Tasks |-> NoLook]
  /\ dropped = {}
  /\ pending = [t \in Tasks |-> 
                 [async |-> NoKeys, both |-> NoKeys, buffered |-> NoKeys]]

-----------------------------------------------------------------------------
(* What a program may rely on: an insertion whose call has returned, whose *)
(* handle was waited for, whose buffer was flushed, both in this order.    *)
NoHistory == UNCHANGED history
Promise(k) == 
  promised' = [promised EXCEPT ![k] = @ + 1] /\ UNCHANGED <<pending, dropped>>
Later(t, how, k) == 
  /\ pending' = [pending EXCEPT ![t][how][k] = @ + 1] 
  /\ UNCHANGED <<promised, dropped>>
Drop(ks) == dropped' = dropped \cup ks /\ UNCHANGED <<promised, pending>>

\* the insertions of a key that one may not yet rely on
Unpromised(k) == 
  LET of == [t \in Tasks |-> 
        pending[t].async[k] + pending[t].both[k] + pending[t].buffered[k]]
  IN  FoldSet(LAMBDA t, n : n + of[t], 0, Tasks)

Return(t) == 
  /\ doing[t].op \in {"called", "flushing", "clearing"} 
  /\ Mine(t, FALSE) = {}
  /\ GoesOn(t, IF doing[t].op = "called" THEN [op |-> "looked"] ELSE Idle)
  /\ IF doing[t].op = "flushing"
       THEN /\ promised' = Plus(promised, pending[t].buffered)
            /\ pending' = [pending EXCEPT ![t].buffered = NoKeys]
       ELSE UNCHANGED <<promised, pending>>
  /\ UNCHANGED <<memory, look, dropped>>

waitForCompletion(t) == 
  /\ doing[t] = Idle /\ handle[t] /\ Mine(t, TRUE) = {}
  /\ handle' = [handle EXCEPT ![t] = FALSE]
  /\ Become(t, IF look[t] = NoLook THEN Idle ELSE [op |-> "looked"])
  /\ promised' = Plus(promised, pending[t].async)
  /\ pending' = [pending EXCEPT ![t] = 
       [async |-> NoKeys, both |-> NoKeys, 
        buffered |-> Plus(@.buffered, @.both)]]
  /\ UNCHANGED <<calls, memory, acts, look, dropped>>

-----------------------------------------------------------------------------
(* The value of an insertion is 1; a multimap keeps all values of a key,   *)
(* the other containers keep the last.  The user's other inserter keeps    *)
(* the first, and the user's function adds 1 to every value.               *)
Inserted(s) == IF kind = "multimap" THEN Append(s, 1) ELSE <<1>>
Kept(s) == IF s = <<>> THEN <<1>> ELSE s
Applied(s) == [i \in DOMAIN s |-> s[i] + 1]
Change(op, s) == 
  CASE op = "insert" -> Inserted(s) [] op = "keep" -> Kept(s)
    [] op = "erase" -> <<>> [] op = "apply" -> Applied(s)

Put(l, k, s) == mem' = [mem EXCEPT ![l][k] = s]

(* The ways to reach a key: in one step, or by an activity that does the   *)
(* work at the key's locality, or starts another activity for it there.    *)
OneStep(t, name, k, op) == 
  /\ Calling(t, name) /\ AtOnce
  /\ Put(TargetLocality(k), k, Change(op, mem[TargetLocality(k)][k]))
  /\ UNCHANGED <<buffers, look>>

Work(op, k, again) == [op |-> op, key |-> k, again |-> again]

ByActivity(t, name, k, op, again) == 
  /\ Calling(t, name)
  /\ Leaving(t, {Activity(t, TRUE, TargetLocality(k), Work(op, k, again))})
  /\ UNCHANGED <<memory, look>>

IsWork(a) == a.work.op \in {"insert", "keep", "erase", "apply"}

RunAgain(a) == 
  /\ IsWork(a) /\ a.work.again
  /\ Running(a, {[a EXCEPT !.work.again = FALSE]})
  /\ NoHistory /\ UNCHANGED <<memory, look>>

RunWork(a) == 
  /\ IsWork(a) /\ ~ a.work.again
  /\ Running(a, {}) 
  /\ Put(a.at, a.work.key, Change(a.work.op, mem[a.at][a.work.key]))
  /\ NoHistory /\ UNCHANGED <<buffers, look>>

-----------------------------------------------------------------------------
(* Buffered insertions: Insert or AsyncInsert of the buffer of the key's   *)
(* locality, which is delivered when it is full.                           *)
Deliver(l, ks) == 
  mem' = [mem EXCEPT ![l] = 
           FoldLeft(LAMBDA m, k : [m EXCEPT ![k] = Inserted(@)], @, ks)]

FlushUnderWay == 
  \/ \E t \in Tasks : doing[t].op = "flushing"
  \/ \E a \in acts : a.work.op = "asyncflush"

InBuffer(l, k) == Append(buffers[l][TargetLocality(k)], k)
IsFull(l, k) == Len(InBuffer(l, k)) = BufferSize
SetBuffer(l, i, ks) == buffers' = [buffers EXCEPT ![l][i] = ks]
Fill(l, k) == 
  SetBuffer(l, TargetLocality(k), IF IsFull(l, k) THEN <<>> ELSE InBuffer(l, k))
Delivery(l, ks) == [op |-> "deliver", from |-> l, keys |-> ks]

InsertBuffered(t, name, k) == 
  /\ Calling(t, name) /\ ~ FlushUnderWay /\ AtOnce
  /\ Fill(Home[t], k)
  /\ IF IsFull(Home[t], k) THEN Deliver(TargetLocality(k), InBuffer(Home[t], k))
                           ELSE UNCHANGED mem
  /\ Later(t, "buffered", k) /\ UNCHANGED look

AsyncInsertBuffered(t, name, k) == 
  /\ Calling(t, name) /\ ~ FlushUnderWay 
  /\ Fill(Home[t], k)
  /\ IF IsFull(Home[t], k) 
       THEN Leaving(t, {Activity(t, TRUE, TargetLocality(k), 
                           Delivery(Home[t], InBuffer(Home[t], k)))})
       ELSE AtOnce
  /\ Later(t, "both", k) /\ UNCHANGED <<mem, look>>

RunDeliver(a) == 
  /\ a.work.op = "deliver" /\ Running(a, {}) /\ Deliver(a.at, a.work.keys)
  /\ NoHistory /\ UNCHANGED <<buffers, look>>

(* FlushAll everywhere: the buffers of a locality one after the other, or  *)
(* an activity for each that is not empty.                                 *)
\* a program flushes when every handle of an insertion has been waited for
MayFlush(t) == 
  /\ MayCall(t, "Flush") /\ ~ FlushUnderWay /\ pending[t].buffered # NoKeys
  /\ \A a \in acts : a.work.op \notin {"deliver", "read"}

FlushAllBuffers(t) == 
  /\ MayFlush(t)
  /\ Waiting(t, OnAll(t, FALSE, [op |-> "flush"]), "flushing")
  /\ NoHistory /\ UNCHANGED <<calls, memory, look>>

AsyncFlushAllBuffers(t) == 
  /\ MayFlush(t)
  /\ Leaving(t, OnAll(t, TRUE, [op |-> "asyncflush"]))
  /\ pending' = [pending EXCEPT ![t].async = Plus(@, pending[t].buffered), 
                                ![t].buffered = NoKeys]
  /\ UNCHANGED <<calls, memory, look, promised, dropped>>

\* mutant: FlushAll forgets the buffer of its own locality
ToFlushElsewhere(l) == {i \in Localities \ {l} : buffers[l][i] # <<>>}
ToFlush(l) == {i \in Localities : buffers[l][i] # <<>>}

RunFlush(a) == 
  /\ a.work.op = "flush"
  /\ IF ToFlush(a.at) = {} 
       THEN Running(a, {}) /\ UNCHANGED memory
       ELSE LET i == Min(ToFlush(a.at)) IN
              /\ Running(a, {a}) /\ Deliver(i, buffers[a.at][i]) 
              /\ SetBuffer(a.at, i, <<>>)
  /\ NoHistory /\ UNCHANGED look

RunAsyncFlush(a) == 
  /\ a.work.op = "asyncflush"
  /\ Running(a, {[a EXCEPT !.at = i, !.work = Delivery(a.at, buffers[a.at][i])] : 
                   i \in ToFlush(a.at)})
  /\ buffers' = [buffers EXCEPT ![a.at] = [i \in Localities |-> <<>>]]
  /\ NoHistory /\ UNCHANGED <<mem, look>>

-----------------------------------------------------------------------------
(* Clear, everywhere.                                                      *)
ClearAll(t, name) == 
  /\ Calling(t, name) /\ acts = {} /\ \A u \in Tasks : doing[u] = Idle
  /\ Waiting(t, OnAll(t, FALSE, [op |-> "clear"]), "clearing")
  /\ Drop(Keys) /\ UNCHANGED <<memory, look>>

RunClear(a) == 
  /\ a.work.op = "clear" /\ Running(a, {})
  /\ mem' = [mem EXCEPT ![a.at] = [k \in Keys |-> <<>>]]
  /\ NoHistory /\ UNCHANGED <<buffers, look>>

RunActivity(a) == 
  \/ RunAgain(a) \/ RunWork(a) \/ RunDeliver(a)
  \/ RunFlush(a) \/ RunAsyncFlush(a) \/ RunClear(a)
=============================================================================
