------------------------------ MODULE Catalog -------------------------------
(***************************************************************************)
(* AbstractDataStructure<DataStructure>::Create, Destroy and GetPtr        *)
(* (data_structures/abstract_data_structure.h): the catalogs that map a    *)
(* global identifier to the local instance of a data structure, one on     *)
(* every locality, and the reuse of identifiers.                           *)
(*                                                                         *)
(* An identifier is <<owner locality, local id>>; an object stands for the *)
(* instances that one Create constructs on all localities, and is named by *)
(* the Create that made it.                                                *)
(***************************************************************************)
EXTENDS Integers, FiniteSets, Sequences

CONSTANTS
  Localities,
  Tasks,
  Home,      \* Home[t]: the locality on which task t runs
  MaxOps,    \* bound: operations per task
  Null       \* nullptr

ASSUME TasksAssumption == IsFiniteSet(Tasks)
ASSUME HomeAssumption == Home \in [Tasks -> Localities]
ASSUME MaxOpsAssumption == MaxOps \in Nat

LocalIDs == 0..(Cardinality(Tasks) * MaxOps - 1)
IDs == Localities \X LocalIDs
Objects == Tasks \X (1..MaxOps)

VARIABLES
  register,   \* register_[id] of the catalog on each locality
  oidCache,   \* oidCache_ of each locality
  counter,    \* the ObjectIDCounter of each locality, its local part
  pc,
  oid,        \* oid[t]: the identifier task t creates or destroys
  todo,       \* todo[t]: localities where its executeOnAll has not run
  live,       \* objects that Create returned and nobody destroyed
  nops

vars == <<register, oidCache, counter, pc, oid, todo, live, nops>>

PCs == {"idle", "next", "fresh", "insert", "erase"}
Object(t) == <<t, nops[t]>>

Init == 
  /\ register = [l \in Localities |-> [id \in IDs |-> Null]]
  /\ oidCache = [l \in Localities |-> <<>>]
  /\ counter = [l \in Localities |-> 0]
  /\ pc = [t \in Tasks |-> "idle"]
  /\ oid = [t \in Tasks |-> Null]
  /\ todo = [t \in Tasks |-> {}]
  /\ live = {}
  /\ nops = [t \in Tasks |-> 0]

Goto(t, l) == pc' = [pc EXCEPT ![t] = l]
OnAll(t, id) == 
  /\ oid' = [oid EXCEPT ![t] = id]
  /\ todo' = [todo EXCEPT ![t] = Localities]
RunAt(t, l) == l \in todo[t] /\ todo' = [todo EXCEPT ![t] = @ \ {l}]

-----------------------------------------------------------------------------
(* Create.                                                                 *)
CallCreate(t) == 
  /\ pc[t] = "idle" /\ nops[t] < MaxOps 
  /\ Goto(t, "next")
  /\ nops' = [nops EXCEPT ![t] = @ + 1]
  /\ UNCHANGED <<register, oidCache, counter, oid, todo, live>>

\* mutant: the identifier stays in the cache
ReuseTwice(t) == 
  LET cache == oidCache[Home[t]] IN
  /\ pc[t] = "next" /\ cache # <<>>
  /\ OnAll(t, cache[Len(cache)]) /\ Goto(t, "insert")
  /\ UNCHANGED <<register, oidCache, counter, live, nops>>

\* GetNextID: the identifier cached last, under registerLock_ ...
ReuseID(t) == 
  LET cache == oidCache[Home[t]] IN
  /\ pc[t] = "next" /\ cache # <<>>
  /\ OnAll(t, cache[Len(cache)]) /\ Goto(t, "insert")
  /\ oidCache' = [oidCache EXCEPT ![Home[t]] = SubSeq(@, 1, Len(@) - 1)]
  /\ UNCHANGED <<register, counter, live, nops>>

CacheEmpty(t) == 
  /\ pc[t] = "next" /\ oidCache[Home[t]] = <<>>
  /\ Goto(t, "fresh")
  /\ UNCHANGED <<register, oidCache, counter, oid, todo, live, nops>>

\* ... or a new one, the lock released
FreshID(t) == 
  /\ pc[t] = "fresh" 
  /\ OnAll(t, <<Home[t], counter[Home[t]]>>) /\ Goto(t, "insert")
  /\ counter' = [counter EXCEPT ![Home[t]] = @ + 1]
  /\ UNCHANGED <<register, oidCache, live, nops>>

\* UpdateCatalogAndConstruct on locality l
InsertAt(t, l) == 
  /\ pc[t] = "insert" /\ RunAt(t, l)
  /\ register' = [register EXCEPT ![l][oid[t]] = Object(t)]
  /\ UNCHANGED <<oidCache, counter, pc, oid, live, nops>>

CreateReturns(t) == 
  /\ pc[t] = "insert" /\ todo[t] = {}
  /\ Goto(t, "idle")
  /\ live' = live \cup {<<oid[t], Object(t)>>}
  /\ UNCHANGED <<register, oidCache, counter, oid, todo, nops>>

-----------------------------------------------------------------------------
(* Destroy, of an object that some Create returned.  Each object is        *)
(* destroyed once.                                                         *)
CallDestroy(t, id, o) == 
  /\ pc[t] = "idle" /\ nops[t] < MaxOps /\ <<id, o>> \in live
  /\ OnAll(t, id) /\ Goto(t, "erase")
  /\ live' = live \ {<<id, o>>}
  /\ nops' = [nops EXCEPT ![t] = @ + 1]
  /\ UNCHANGED <<register, oidCache, counter>>

\* mutant: every locality caches the identifier
EraseCaches(t, l) == 
  /\ pc[t] = "erase" /\ RunAt(t, l)
  /\ register' = [register EXCEPT ![l][oid[t]] = Null]
  /\ oidCache' = [oidCache EXCEPT ![l] = Append(@, oid[t])]
  /\ UNCHANGED <<counter, pc, oid, live, nops>>

\* Catalog::Erase on locality l; the owner caches the identifier
EraseAt(t, l) == 
  /\ pc[t] = "erase" /\ RunAt(t, l)
  /\ register' = [register EXCEPT ![l][oid[t]] = Null]
  /\ oidCache' = IF l = oid[t][1] THEN [oidCache EXCEPT ![l] = Append(@, oid[t])]
                                   ELSE oidCache
  /\ UNCHANGED <<counter, pc, oid, live, nops>>

DestroyReturns(t) == 
  /\ pc[t] = "erase" /\ todo[t] = {}
  /\ Goto(t, "idle")
  /\ UNCHANGED <<register, oidCache, counter, oid, todo, live, nops>>

-----------------------------------------------------------------------------
Step(t) == 
  \/ ReuseID(t) \/ CacheEmpty(t) \/ FreshID(t) 
  \/ CreateReturns(t) \/ DestroyReturns(t)
  \/ \E l \in Localities : InsertAt(t, l) \/ EraseAt(t, l)

Call(t) == 
  CallCreate(t) \/ \E id \in IDs, o \in Objects : CallDestroy(t, id, o)

Terminating == 
  /\ \A t \in Tasks : pc[t] = "idle" /\ nops[t] = MaxOps
  /\ UNCHANGED vars

Next == (\E t \in Tasks : Call(t) \/ Step(t)) \/ Terminating

Spec == Init /\ [][Next]_vars

-----------------------------------------------------------------------------
TypeOK == 
  /\ register \in [Localities -> [IDs -> Objects \cup {Null}]]
  /\ oidCache \in [Localities -> Seq(IDs)]
  /\ counter \in [Localities -> Nat]
  /\ pc \in [Tasks -> PCs]
  /\ oid \in [Tasks -> IDs \cup {Null}]
  /\ todo \in [Tasks -> SUBSET Localities]
  /\ live \in SUBSET (IDs \X Objects)
  /\ nops \in [Tasks -> 0..MaxOps]

\* what GetPtr(id) returns on locality l
GetPtr(l, id) == register[l][id]

Creating(id) == {t \in Tasks : pc[t] = "insert" /\ oid[t] = id}
\* destroyed, but its owner has not yet cached the identifier
Dying(id) == {t \in Tasks : pc[t] = "erase" /\ oid[t] = id /\ id[1] \in todo[t]}
Cached(l, id) == {i \in DOMAIN oidCache[l] : oidCache[l][i] = id}

(* An identifier has one use at a time: it is cached once by its owner, or *)
(* names one object that lives, is being created or is being destroyed.    *)
(* Create never gives two objects the same identifier, and none is lost.   *)
OneUse == 
  \A id \in IDs : 
    /\ Cardinality({o \in Objects : <<id, o>> \in live}) 
         + Cardinality(Creating(id)) + Cardinality(Dying(id)) 
         + Cardinality(Cached(id[1], id)) 
       = IF id[2] < counter[id[1]] THEN 1 ELSE 0
    /\ \A l \in Localities \ {id[1]} : Cached(l, id) = {}

(* The owner of an identifier finds the object that has it, whatever       *)
(* destructions of former objects with it are still under way elsewhere.   *)
FoundAtOwner == \A x \in live : GetPtr(x[1][1], x[1]) = x[2]

(* From the return of Create to the call of Destroy, GetPtr finds the      *)
(* object under its identifier on every locality.  This does not hold: the *)
(* owner may give an identifier out again while its last object is still   *)
(* to be erased elsewhere, and the late erasure hits the new object.       *)
LiveIsFound == 
  \A x \in live : \A l \in Localities : GetPtr(l, x[1]) = x[2]
=============================================================================
