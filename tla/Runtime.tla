------------------------------- MODULE Runtime -------------------------------
(***************************************************************************)
(* shad::rt over its three mappings: the functions of runtime.h that run a *)
(* function at a locality, at all localities or for every index of a loop, *)
(* the handles of their asynchronous forms and waitForCompletion.          *)
(*                                                                         *)
(* A call creates jobs.  A job runs a function for count indices from      *)
(* "from" on, at a locality or, for a loop over all localities, AnyWhere;  *)
(* the forms with a result or a result buffer write it as the last thing   *)
(* the function does, so that a result is there when the job has run.  The *)
(* function of an asynchronous call receives the handle and may itself     *)
(* call asyncExecuteAt with it.  A call with a locality that does not      *)
(* exist throws before anything else happens, and is left out.             *)
(*                                                                         *)
(* GMT and TBB are modelled as they are used here: a GMT loop runs its     *)
(* chunks as tasks of their own, a task_group runs what it is given in     *)
(* any order, and parallel_for any index at any time.                      *)
(***************************************************************************)
EXTENDS Integers, FiniteSets

CONSTANTS
  Tasks,               \* tasks that call the runtime
  Calls,               \* the calls they make: [f, async, spawns, loc, n]
  MaxCalls,            \* bound: calls of one task
  NumNodes,            \* gmt_num_nodes()
  Workers,             \* gmt_num_workers()
  OverSubscription     \* kOverSubscriptionFactor

ASSUME SizesAssumption == 
  {MaxCalls, NumNodes, Workers, OverSubscription} \subseteq Nat \ {0}

ASSUME CallsAssumption == 
  Calls \subseteq 
    [f : {"executeAt", "dma", "executeOnAll", "forEachAt", "forEachOnAll"}, 
     async : BOOLEAN, spawns : BOOLEAN, loc : Nat, n : Nat]

Mappings == {"cpp", "tbb", "gmt"}

VARIABLES
  mapping,     \* the mapping the program was built with
  handle,      \* [Tasks -> Nat]: the task's handle, 0 when null
  handles,     \* [Tasks -> Nat]: handles created so far
  status,      \* what the task is doing
  made,        \* the number of calls it has made
  jobs,        \* what is to be run
  ran          \* history: what has been run

runtimeVars == <<mapping, handle, handles, status, made, jobs, ran>>

NumLocalities == IF mapping = "gmt" THEN NumNodes ELSE 1
allLocalities == 0..NumLocalities - 1

(* A locality that gmt has and the other mappings have not is locality 0   *)
(* in their programs.                                                      *)
At(c) == IF c.loc < NumLocalities THEN c.loc ELSE 0

Larger(a, b) == IF a > b THEN a ELSE b

-----------------------------------------------------------------------------
(* What a call starts: pieces, each with its place and its indices.        *)
AnyWhere == -1
Piece(at, from, count) == [at |-> at, from |-> from, count |-> count]
Once(at) == {Piece(at, 0, 1)}
EachIndex(at, n) == {Piece(at, i, 1) : i \in 0..n - 1}

(* cpp_simple: everything is called in place, and loops are loops.         *)
cpp_executeAt(c) == Once(At(c))
cpp_executeOnAll(c) == Once(0)
cpp_forEachAt(c) == IF c.n = 0 THEN {} ELSE {Piece(At(c), 0, c.n)}
cpp_forEachOnAll(c) == IF c.n = 0 THEN {} ELSE {Piece(AnyWhere, 0, c.n)}
cpp_asyncExecuteAt(c) == Once(At(c))
cpp_asyncExecuteOnAll(c) == Once(0)
cpp_asyncForEachAt(c) == IF c.n = 0 THEN {} ELSE {Piece(At(c), 0, c.n)}
cpp_asyncForEachOnAll(c) == IF c.n = 0 THEN {} ELSE {Piece(AnyWhere, 0, c.n)}

(* tbb: loops are parallel_for, asynchronous calls go to a task_group.     *)
tbb_executeAt(c) == Once(At(c))
tbb_executeOnAll(c) == Once(0)
tbb_forEachAt(c) == EachIndex(At(c), c.n)
tbb_forEachOnAll(c) == EachIndex(AnyWhere, c.n)
tbb_asyncExecuteAt(c) == Once(At(c))
tbb_asyncExecuteOnAll(c) == Once(0)
tbb_asyncForEachAt(c) == EachIndex(At(c), c.n)
tbb_asyncForEachOnAll(c) == EachIndex(AnyWhere, c.n)

(* gmt: loops are cut in chunks of "workload" indices.                     *)
gmt_for_loop(at, n, workload) == 
  {Piece(at, i * workload, 
         IF (i + 1) * workload <= n THEN workload ELSE n - i * workload) : 
     i \in 0..(n - 1) \div workload}

LoopAt(c) == 
  gmt_for_loop(At(c), c.n, Larger(c.n \div (Workers * OverSubscription), 1))
LoopOnAll(c, workers) == 
  gmt_for_loop(AnyWhere, c.n, Larger((c.n \div NumNodes) \div workers, 1))

gmt_executeAt(c) == Once(At(c))
gmt_executeOnAll(c) == {Piece(l, 0, 1) : l \in allLocalities}
gmt_forEachAt(c) == IF c.n = 0 THEN {} ELSE LoopAt(c)
gmt_forEachOnAll(c) == IF c.n = 0 THEN {} ELSE LoopOnAll(c, Workers)
gmt_asyncExecuteAt(c) == Once(At(c))
gmt_asyncExecuteOnAll(c) == {Piece(l, 0, 1) : l \in allLocalities}
gmt_asyncForEachAt(c) == IF c.n = 0 THEN {} ELSE LoopAt(c)
gmt_asyncForEachOnAll(c) == 
  IF c.n = 0 THEN {} ELSE LoopOnAll(c, Workers * OverSubscription)

(* asyncDma runs dma in an asyncExecuteAt of the caller's locality.        *)
Synchronous(c) == 
  CASE c.f \in {"executeAt", "dma"} -> 
         [cpp |-> cpp_executeAt(c), tbb |-> tbb_executeAt(c), 
          gmt |-> gmt_executeAt(c)]
    [] c.f = "executeOnAll" ->
         [cpp |-> cpp_executeOnAll(c), tbb |-> tbb_executeOnAll(c), 
          gmt |-> gmt_executeOnAll(c)]
    [] c.f = "forEachAt" ->
         [cpp |-> cpp_forEachAt(c), tbb |-> tbb_forEachAt(c), 
          gmt |-> gmt_forEachAt(c)]
    [] c.f = "forEachOnAll" ->
         [cpp |-> cpp_forEachOnAll(c), tbb |-> tbb_forEachOnAll(c), 
          gmt |-> gmt_forEachOnAll(c)]

Asynchronous(c) == 
  CASE c.f \in {"executeAt", "dma"} -> 
         [cpp |-> cpp_asyncExecuteAt(c), tbb |-> tbb_asyncExecuteAt(c), 
          gmt |-> gmt_asyncExecuteAt(c)]
    [] c.f = "executeOnAll" ->
         [cpp |-> cpp_asyncExecuteOnAll(c), tbb |-> tbb_asyncExecuteOnAll(c), 
          gmt |-> gmt_asyncExecuteOnAll(c)]
    [] c.f = "forEachAt" ->
         [cpp |-> cpp_asyncForEachAt(c), tbb |-> tbb_asyncForEachAt(c), 
          gmt |-> gmt_asyncForEachAt(c)]
    [] c.f = "forEachOnAll" ->
         [cpp |-> cpp_asyncForEachOnAll(c), tbb |-> tbb_asyncForEachOnAll(c), 
          gmt |-> gmt_asyncForEachOnAll(c)]

-----------------------------------------------------------------------------
Init == 
  /\ mapping \in Mappings
  /\ handle = [t \in Tasks |-> 0] /\ handles = [t \in Tasks |-> 0]
  /\ status = [t \in Tasks |-> "idle"]
  /\ made = [t \in Tasks |-> 0]
  /\ jobs = {} /\ ran = {}

\* the group of a job: its caller with the handle, or with 0 when the caller
\* waits for it
Jobs(pieces, t, c, group) == 
  {[task |-> t, number |-> made[t], call |-> c, group |-> group, 
    at |-> p.at, from |-> p.from, count |-> p.count, spawned |-> FALSE] : 
     p \in pieces}
Group(g) == {j \in jobs : j.group = g}

Become(t, s) == status' = [status EXCEPT ![t] = s]

\* mutant: a new handle takes the place of one that is in use
NeedsHandleAlways(t, c) == 
  ~ (mapping = "gmt" /\ c.f \in {"forEachAt", "forEachOnAll"} /\ c.n = 0)

\* every asynchronous function creates a handle for a null one, except
\* that a GMT loop over nothing returns before it does
NeedsHandle(t, c) == 
  /\ handle[t] = 0
  /\ ~ (mapping = "gmt" /\ c.f \in {"forEachAt", "forEachOnAll"} /\ c.n = 0)

CallSync(t, c) == 
  /\ status[t] = "idle" /\ made[t] < MaxCalls /\ ~ c.async
  /\ made' = [made EXCEPT ![t] = @ + 1]
  /\ Become(t, "called")
  /\ jobs' = jobs \cup Jobs(Synchronous(c)[mapping], t, c, <<t, 0>>)
  /\ UNCHANGED <<mapping, handle, handles, ran>>

CallAsync(t, c) == 
  /\ status[t] = "idle" /\ made[t] < MaxCalls /\ c.async
  /\ made' = [made EXCEPT ![t] = @ + 1]
  /\ IF NeedsHandle(t, c) 
       THEN /\ handles' = [handles EXCEPT ![t] = @ + 1]
            /\ handle' = [handle EXCEPT ![t] = handles[t] + 1]
       ELSE UNCHANGED <<handle, handles>>
  /\ jobs' = jobs \cup Jobs(Asynchronous(c)[mapping], t, c, <<t, handle'[t]>>)
  /\ IF mapping = "cpp" THEN Become(t, "inline") ELSE UNCHANGED status
  /\ UNCHANGED <<mapping, ran>>

Return(t) == 
  /\ \/ status[t] = "called" /\ Group(<<t, 0>>) = {}
     \/ status[t] = "inline" /\ Group(<<t, handle[t]>>) = {}
  /\ Become(t, "idle")
  /\ UNCHANGED <<mapping, handle, handles, made, jobs, ran>>

-----------------------------------------------------------------------------
(* A job runs its next index; what its function starts belongs to the same *)
(* handle, and in cpp_simple runs before the function goes on.             *)
Done(j) == [task |-> j.task, number |-> j.number, call |-> j.call,
            item |-> <<IF j.spawned THEN 1 ELSE 0, j.at, j.from>>]

\* mutant: a loop that does not advance its index
RestStuck(j) == 
  IF j.count = 1 THEN {} ELSE {[j EXCEPT !.count = @ - 1]}

Rest(j) == 
  IF j.count = 1 THEN {} 
                 ELSE {[j EXCEPT !.from = @ + 1, !.count = @ - 1]}

StartedBy(j) == 
  IF j.call.spawns /\ ~ j.spawned 
    THEN {[j EXCEPT !.count = 1, !.spawned = TRUE]} ELSE {}

RunIndex(j) == 
  /\ mapping = "cpp" => \A k \in Group(j.group) : k.spawned => j.spawned
  /\ ran' = ran \cup {Done(j)}
  /\ jobs' = (jobs \ {j}) \cup Rest(j) \cup StartedBy(j)
  /\ UNCHANGED <<mapping, handle, handles, status, made>>

Run == \E j \in jobs : RunIndex(j)

-----------------------------------------------------------------------------
(* WaitFor: nothing to do in cpp_simple; TBB skips a null handle and GMT   *)
(* makes the handle null again.                                            *)
Wait(t) == 
  /\ status[t] = "idle" /\ Become(t, "waiting")
  /\ UNCHANGED <<mapping, handle, handles, made, jobs, ran>>

WaitFor_cpp(t) == UNCHANGED handle
WaitFor_tbb(t) == 
  /\ handle[t] # 0 => Group(<<t, handle[t]>>) = {}
  /\ UNCHANGED handle
WaitFor_gmt(t) == 
  /\ Group(<<t, handle[t]>>) = {}
  /\ handle' = [handle EXCEPT ![t] = 0]

waitForCompletion(t) == 
  /\ status[t] = "waiting"
  /\ \/ mapping = "cpp" /\ WaitFor_cpp(t)
     \/ mapping = "tbb" /\ WaitFor_tbb(t)
     \/ mapping = "gmt" /\ WaitFor_gmt(t)
  /\ Become(t, "idle")
  /\ UNCHANGED <<mapping, handles, made, jobs, ran>>

-----------------------------------------------------------------------------
Next == 
  \/ Run
  \/ \E t \in Tasks : 
       \/ Return(t) \/ Wait(t) \/ waitForCompletion(t)
       \/ \E c \in Calls : CallSync(t, c) \/ CallAsync(t, c)

\* jobs are scheduled, and a task goes on when it can
Spec == 
  /\ Init /\ [][Next]_runtimeVars
  /\ WF_runtimeVars(Run) 
  /\ \A t \in Tasks : WF_runtimeVars(Return(t) \/ waitForCompletion(t))

-----------------------------------------------------------------------------
(* What the jobs have still to run.                                        *)
Owed == 
  UNION {{Done([j EXCEPT !.from = i]) : i \in j.from..j.from + j.count - 1} : 
           j \in jobs}

(* Nothing that a call asked for, and nothing that its functions start,    *)
(* runs a second time: what is still to be run has never been run.  The    *)
(* chunks of a loop do not overlap, and the function that an index starts  *)
(* is not started again by the index or by its chunk.                      *)
RunsOnce == Owed \cap ran = {}

(* Every index runs exactly once, a synchronous call returns after all its *)
(* indices, a wait after everything started with the handle, nested        *)
(* functions included; and both do return.                                 *)
Promise == INSTANCE Completion WITH 
  localities <- NumLocalities, owed <- Owed, done <- ran,
  status <- [t \in Tasks |-> IF status[t] = "inline" THEN "idle" ELSE status[t]]
ImplementsCompletion == Promise!Spec
=============================================================================
