---------------------------- MODULE LocalMultimap ----------------------------
(***************************************************************************)
(* shad::LocalMultimap (data_structures/local_multimap.h): one bucket list *)
(* behind its gate.  Insert, Lookup, LookupFromRemote and the blocking     *)
(* applies enter the gate as inserters and lock the entries they work on;  *)
(* Erase enters it as a deleter and locks nothing.                         *)
(*                                                                         *)
(* A value vector is the set of tokens of the operations that added to it: *)
(* the order of the values of a key is not modelled.                       *)
(***************************************************************************)
EXTENDS EntryList

CONSTANTS
  Absent,       \* abstract value of a key that is not in the multimap
  MaxOps,       \* bound: operations per task
  Programs,     \* what the tasks do: the kinds and the keys of their 
                \* operations, how many operations each performs, and 
                \* the keys that the list may have at the start
  HasDeleter    \* has_deleter

LookupKinds == {"Lookup", "RemoteLookup"}
ApplyKinds == {"BlockingApply", "TryApply"}
AllKinds == {"Insert", "Erase"} \cup LookupKinds \cup ApplyKinds

ASSUME ThreadsAssumption == IsFiniteSet(Threads)
ASSUME HasDeleterAssumption == 
  HasDeleter \in Nat /\ HasDeleter > Cardinality(Threads)
ASSUME MaxOpsAssumption == MaxOps \in Nat
ASSUME ProgramsAssumption == 
  Programs \subseteq [kinds : SUBSET AllKinds, keys : SUBSET Keys, 
                      ops : 0..MaxOps, first : SUBSET Keys]

Tokens == Threads \X (1..MaxOps)

ASSUME AbsentAssumption == \A v \in SUBSET Tokens : v # Absent

PCs == {"idle", "enter", "claim", "await", "compare", "fill", "count", 
        "publish", "lock", "work", "unlock", "grow", "link", "waitnext",
        "scan", "probe", "hop", "erase", "leave", "failed"}
Outcomes == {"none", "absent", "true", "found", "not_found", 
             "SUCCESS", "FAILED", "erased"}

VARIABLES
  program,      \* the program that runs
  val,          \* val[s]: tokens in the value vector of entry s
  numberKeys,   \* numberKeys_
  op,           \* op[t]: the operation task t performs and its key
  read,         \* the values a lookup copied
  res,          \* the outcome an operation has established so far
  nops,         \* operations each task has started
  inserters, deleters, gate, seen    \* the gate of the list

Gate == INSTANCE MultimapGate

entries == <<state, key, val>>
gateVars == <<inserters, deleters, gate, seen>>
vars == 
  <<program, entries, numberKeys, chain, pc, pos, op, read, res, nops, gateVars>>

Tok(t) == <<t, nops[t]>>
MyKey(t) == op[t].key
Is(t, kinds) == op[t].kind \in kinds

-----------------------------------------------------------------------------
Init == 
  /\ program \in Programs
  /\ \E P \in SUBSET Slots : ListInit(P) /\ numberKeys = Cardinality(P)
  /\ \A s \in Slots : key[s] \in program.first \cup {NoKey}
  /\ val = [s \in Slots |-> {}]
  /\ op = [t \in Threads |-> [kind |-> "Lookup", key |-> NoKey]]
  /\ read = [t \in Threads |-> {}]
  /\ res = [t \in Threads |-> "none"]
  /\ nops = [t \in Threads |-> 0]
  /\ Gate!GateInit

(* A task calls an operation, which first asks to pass the gate.           *)
Call(t, kind, k) ==
  /\ pc[t] = "idle" /\ nops[t] < program.ops
  /\ Goto(t, "enter")
  /\ IF kind = "Erase" THEN Gate!CallAllowDeleter(t) 
                       ELSE Gate!CallAllowInserter(t)
  /\ op' = [op EXCEPT ![t] = [kind |-> kind, key |-> k]]
  /\ pos' = [pos EXCEPT ![t] = FirstSlot]
  /\ read' = [read EXCEPT ![t] = {}]
  /\ res' = [res EXCEPT ![t] = "none"]
  /\ nops' = [nops EXCEPT ![t] = @ + 1]
  /\ UNCHANGED <<entries, numberKeys, chain>>

FirstStep(t) == 
  IF Is(t, {"Insert"}) THEN "claim" 
  ELSE IF Is(t, {"Erase"}) THEN "erase" ELSE "scan"

\* one step of allow_inserter or allow_deleter
Enter(t) == 
  /\ pc[t] = "enter"
  /\ Gate!Allowing(t)
  /\ IF gate'[t] \in {"inside", "exclusive"} 
       THEN Goto(t, FirstStep(t)) ELSE UNCHANGED pc
  /\ UNCHANGED <<entries, numberKeys, chain, pos, op, read, res, nops>>

\* mutant: no operation releases the gate
LeaveGateShut(t) == 
  /\ pc[t] = "leave" /\ Goto(t, "idle")
  /\ Gate!GoGate(t, "out")
  /\ UNCHANGED <<entries, numberKeys, chain, pos, op, read, res, nops,
                 inserters, deleters, seen>>

\* release_inserter or release_deleter, and return
Leave(t) == 
  /\ pc[t] = "leave" /\ Goto(t, "idle")
  /\ Gate!Releasing(t)
  /\ UNCHANGED <<entries, numberKeys, chain, pos, op, read, res, nops>>

SetOutcome(t, outcome) == res' = [res EXCEPT ![t] = outcome]
ReturnWith(t, outcome) == SetOutcome(t, outcome) /\ Goto(t, "leave")

-----------------------------------------------------------------------------
(* Insert of a key the list does not have.                                 *)
Claim(t) == 
  /\ pc[t] = "claim" 
  /\ IF state[pos[t]] = "EMPTY" 
       THEN SetState(pos[t], "PENDING_INSERT") /\ Goto(t, "fill")
       ELSE Goto(t, "await") /\ UNCHANGED state
  /\ UNCHANGED <<key, val, numberKeys, chain, pos, op, read, res, nops, gateVars>>

\* mutant: a new key is not counted
FillUncounted(t) == 
  /\ pc[t] = "fill" /\ Goto(t, "publish")
  /\ key' = [key EXCEPT ![pos[t]] = MyKey(t)]
  /\ val' = [val EXCEPT ![pos[t]] = @ \cup {Tok(t)}]
  /\ SetOutcome(t, "true")
  /\ UNCHANGED <<state, numberKeys, chain, pos, op, read, nops, gateVars>>

Fill(t) == 
  /\ pc[t] = "fill" /\ Goto(t, "count")
  /\ key' = [key EXCEPT ![pos[t]] = MyKey(t)]
  /\ val' = [val EXCEPT ![pos[t]] = @ \cup {Tok(t)}]
  /\ SetOutcome(t, "true")
  /\ UNCHANGED <<state, numberKeys, chain, pos, op, read, nops, gateVars>>

CountKey(t) == 
  /\ pc[t] = "count" /\ Goto(t, "publish")
  /\ numberKeys' = numberKeys + 1
  /\ UNCHANGED <<entries, chain, pos, op, read, res, nops, gateVars>>

\* entry->state = USED, of a new entry or of one that was locked
Unlock(t) == 
  /\ pc[t] \in {"publish", "unlock"} /\ Goto(t, "leave")
  /\ SetState(pos[t], "USED")
  /\ UNCHANGED <<key, val, numberKeys, chain, pos, op, read, res, nops, gateVars>>

Grow(t) == 
  /\ GrowList(t) \/ LinkBucket(t) \/ AwaitBucket(t)
  /\ UNCHANGED <<entries, numberKeys, op, read, res, nops, gateVars>>

-----------------------------------------------------------------------------
(* Insert and the lookups wait for pending entries before they compare.    *)
\* mutant: a pending insertion is not waited for
AwaitNothing(t) == 
  /\ pc[t] = "await" /\ Goto(t, "compare")
  /\ UNCHANGED <<entries, numberKeys, chain, pos, op, read, res, nops, gateVars>>

AwaitEntry(t) == 
  /\ pc[t] = "await" /\ state[pos[t]] # "PENDING_INSERT" 
  /\ Goto(t, "compare")
  /\ UNCHANGED <<entries, numberKeys, chain, pos, op, read, res, nops, gateVars>>

Compare(t) == 
  /\ pc[t] = "compare"
  /\ IF key[pos[t]] = MyKey(t) 
       THEN Goto(t, "lock") /\ UNCHANGED pos
       ELSE IF Is(t, {"Insert"}) THEN NextEntry(t, "claim", "grow")
                                 ELSE NextEntry(t, "scan", "hop")
  /\ UNCHANGED <<entries, numberKeys, chain, op, read, res, nops, gateVars>>

\* a search that leaves the last bucket will not find its key
LeaveBucket(t) == 
  IF next[pos[t][1]] THEN UNCHANGED res ELSE SetOutcome(t, "absent")

(* A Lookup leaves the bucket at an EMPTY entry, a LookupFromRemote gives  *)
(* up there, and an apply leaves the bucket at a PENDING_INSERT one too.   *)
Scan(t) == 
  /\ pc[t] = "scan"
  /\ \/ /\ state[pos[t]] = "EMPTY" /\ Is(t, {"RemoteLookup"})
        /\ ReturnWith(t, "not_found")
     \/ /\ state[pos[t]] = "EMPTY" /\ ~Is(t, {"RemoteLookup"})
        /\ Goto(t, "hop") /\ LeaveBucket(t)
     \/ /\ state[pos[t]] # "EMPTY" /\ Is(t, LookupKinds)
        /\ Goto(t, "await") /\ UNCHANGED res
     \/ /\ state[pos[t]] = "PENDING_INSERT" /\ Is(t, ApplyKinds)
        /\ Goto(t, "hop") /\ SetOutcome(t, "absent")
     \/ /\ state[pos[t]] \in {"USED", "PENDING_UPDATE"} /\ Is(t, ApplyKinds)
        /\ Goto(t, "probe") /\ UNCHANGED res
  /\ UNCHANGED <<entries, numberKeys, chain, pos, op, read, nops, gateVars>>

Probe(t) == 
  /\ pc[t] = "probe"
  /\ IF key[pos[t]] = MyKey(t) 
       THEN Goto(t, "lock") /\ UNCHANGED pos
       ELSE NextEntry(t, "scan", "hop")
  /\ UNCHANGED <<entries, numberKeys, chain, op, read, res, nops, gateVars>>

\* mutant: a search ends with the first bucket
HopNever(t) == 
  /\ pc[t] = "hop" /\ ReturnWith(t, "not_found") 
  /\ UNCHANGED <<entries, numberKeys, chain, pos, op, read, nops, gateVars>>

Hop(t) == 
  /\ pc[t] = "hop"
  /\ IF next[pos[t][1]] 
       THEN EnterNextBucket(t, "scan") /\ UNCHANGED res
       ELSE ReturnWith(t, "not_found") /\ UNCHANGED pos
  /\ UNCHANGED <<entries, numberKeys, chain, op, read, nops, gateVars>>

-----------------------------------------------------------------------------
(* Insert and the lookups lock an entry as PENDING_INSERT, the applies as  *)
(* PENDING_UPDATE.                                                         *)
LockEntry(t) == 
  /\ pc[t] = "lock" /\ state[pos[t]] = "USED" /\ Goto(t, "work")
  /\ SetState(pos[t], IF Is(t, ApplyKinds) THEN "PENDING_UPDATE" 
                                           ELSE "PENDING_INSERT")
  /\ UNCHANGED <<key, val, numberKeys, chain, pos, op, read, res, nops, gateVars>>

\* TryBlockingApply returns FAILED, and does not release the gate
TryFails(t) == 
  /\ pc[t] = "lock" /\ Is(t, {"TryApply"}) /\ state[pos[t]] # "USED"
  /\ Goto(t, "failed") /\ SetOutcome(t, "FAILED") 
  /\ UNCHANGED <<entries, numberKeys, chain, pos, op, read, nops, gateVars>>

ReturnFailed(t) == 
  /\ pc[t] = "failed" /\ Goto(t, "idle")
  /\ Gate!GoGate(t, "out")
  /\ UNCHANGED <<entries, numberKeys, chain, pos, op, read, res, nops, 
                 inserters, deleters, seen>>

\* push_back, the copy of a lookup, or the function of an apply
Work(t) == 
  /\ pc[t] = "work" /\ Goto(t, "unlock")
  /\ IF Is(t, LookupKinds)
       THEN read' = [read EXCEPT ![t] = val[pos[t]]] /\ UNCHANGED val
       ELSE val' = [val EXCEPT ![pos[t]] = @ \cup {Tok(t)}] /\ UNCHANGED read
  /\ SetOutcome(t, IF Is(t, LookupKinds) THEN "found"
                   ELSE IF Is(t, ApplyKinds) THEN "SUCCESS" ELSE "true")
  /\ UNCHANGED <<state, key, numberKeys, chain, pos, op, nops, gateVars>>

-----------------------------------------------------------------------------
(* Erase: the first entry with the key gets the key and the values of the  *)
(* last used entry, which becomes EMPTY.  The index j of the search for    *)
(* that entry is not reset when the search moves to the next bucket, so it *)
(* never looks beyond the bucket of the entry.                             *)
UsedUpTo(i, s) == 
  \A p \in Slots : p[1] = s[1] /\ i <= p[2] /\ p[2] <= s[2] => state[p] # "EMPTY"
Matching(k) == {s \in Slots : UsedUpTo(0, s) /\ key[s] = k}
ErasedEntry(k) == 
  CHOOSE s \in Matching(k) : \A p \in Matching(k) : ~Before(p, s)
\* mutant: no entry is moved into the hole
NoMove(s) == s
LastUsed(s) == 
  LET run == {p \in Slots : p[1] = s[1] /\ s[2] <= p[2] /\ UsedUpTo(s[2], p)}
  IN  CHOOSE p \in run : \A q \in run : ~Before(p, q)

EraseKey(t) == 
  /\ pc[t] = "erase" /\ ReturnWith(t, "erased")
  /\ IF Matching(MyKey(t)) = {}
       THEN UNCHANGED <<entries, numberKeys>>
       ELSE LET e == ErasedEntry(MyKey(t))
                l == LastUsed(e)
            IN  /\ key' = [key EXCEPT ![e] = key[l]]
                /\ val' = [[val EXCEPT ![e] = val[l]] EXCEPT ![l] = {}]
                /\ SetState(l, "EMPTY")
                /\ numberKeys' = numberKeys - 1
  /\ UNCHANGED <<chain, pos, op, read, nops, gateVars>>

-----------------------------------------------------------------------------
Step(t) == 
  /\ \/ Enter(t) \/ Leave(t)
     \/ Claim(t) \/ Fill(t) \/ CountKey(t) \/ Unlock(t) \/ Grow(t)
     \/ AwaitEntry(t) \/ Compare(t) \/ Scan(t) \/ Probe(t) \/ Hop(t)
     \/ LockEntry(t) \/ TryFails(t) \/ ReturnFailed(t) \/ Work(t) 
     \/ EraseKey(t)
  /\ UNCHANGED program

CallAny(t) == 
  /\ \E kind \in program.kinds, k \in program.keys : Call(t, kind, k)
  /\ UNCHANGED program
Terminating == 
  /\ \A t \in Threads : pc[t] = "idle" /\ nops[t] = program.ops
  /\ UNCHANGED vars

Next == \/ \E t \in Threads : CallAny(t) \/ Step(t)
        \/ Terminating

Spec == Init /\ [][Next]_vars

\* a task that spins yields, and its worker runs it again
FairSpec == Spec /\ \A t \in Threads : WF_vars(Step(t))

-----------------------------------------------------------------------------
TypeOK == 
  /\ program \in Programs
  /\ state \in [Slots -> EntryStates]
  /\ key \in [Slots -> Keys \cup {NoKey}]
  /\ val \in [Slots -> SUBSET Tokens]
  /\ numberKeys \in Nat
  /\ allocated \in [Buckets -> BOOLEAN] /\ next \in [Buckets -> BOOLEAN]
  /\ pc \in [Threads -> PCs]
  /\ op \in [Threads -> [kind : AllKinds, key : Keys \cup {NoKey}]]
  /\ pos \in [Threads -> Slots]
  /\ read \in [Threads -> SUBSET Tokens]
  /\ res \in [Threads -> Outcomes]
  /\ nops \in [Threads -> 0..MaxOps]
  /\ Gate!GateTypeOK

Pending == {s \in Slots : state[s] \in {"PENDING_INSERT", "PENDING_UPDATE"}}

(* Erase works alone: the gate and not the entries' states protects it, so *)
(* no entry is locked or being inserted while it moves entries about, and  *)
(* no other task is between the gate and its release.                      *)
EraseAlone == 
  \A t \in Threads : pc[t] = "erase" 
    => Pending = {} /\ \A u \in Threads \ {t} : pc[u] \in {"idle", "enter"}

(* Within each bucket the used entries are a prefix, even after an Erase;  *)
(* Lookup, Erase and the applies, which leave a bucket at its first EMPTY  *)
(* entry, find every entry because of it.                                  *)
BucketsPacked == 
  \A p, q \in Slots : p[1] = q[1] /\ Before(p, q) /\ state[p] = "EMPTY" 
    => state[q] = "EMPTY"

(* numberKeys_ is the number of entries but for the insertions that have   *)
(* claimed an entry and not counted it yet.                                *)
NumberKeysExact == 
  numberKeys = Cardinality({s \in Slots : state[s] # "EMPTY"}) 
               - Cardinality({t \in Threads : pc[t] \in {"fill", "count"}})

Filled(s) == state[s] # "EMPTY" /\ \A t \in Threads : pc[t] = "fill" => pos[t] # s

(* A key has one entry.                                                    *)
UniqueKeys == 
  \A p, q \in Slots : Filled(p) /\ Filled(q) /\ key[p] = key[q] => p = q

(* Every operation returns.                                                *)
OperationsReturn == \A t \in Threads : pc[t] # "idle" ~> pc[t] = "idle"

-----------------------------------------------------------------------------
(* The map of ConcurrentMap that the list represents.                      *)
mapOf == 
  [k \in Keys |-> 
     IF \E s \in Slots : Filled(s) /\ key[s] = k
       THEN val[CHOOSE s \in Slots : Filled(s) /\ key[s] = k]
       ELSE Absent]
phaseOf == 
  [t \in Threads |-> 
     IF pc[t] = "idle" THEN "idle" 
     ELSE IF pc[t] \in {"count", "publish", "unlock", "leave", "failed"} 
       THEN "finished"
     ELSE "running"]

Abstract == INSTANCE ConcurrentMap WITH 
              map <- mapOf, phase <- phaseOf, call <- op, out <- res, 
              got <- read, count <- nops, Kinds <- AllKinds, 
              MayMiss <- ApplyKinds

(* Insert, the lookups, the applies and Erase take effect at one instant   *)
(* between their call and their return.  An apply may miss a key that is   *)
(* there, but only while another operation runs: Insert and the lookups    *)
(* lock an entry with the state that an apply takes for the end.           *)
Linearizable == Abstract!Spec
=============================================================================
