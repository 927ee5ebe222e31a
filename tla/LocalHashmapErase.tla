-------------------------- MODULE LocalHashmapErase --------------------------
(***************************************************************************)
(* LocalHashmap with Erase(key).                                           *)
(*                                                                         *)
(* Erase claims the entry of its key by setting it PENDING_INSERT, lowers  *)
(* size_, looks for the end of the list and moves the last entry into the  *)
(* hole.  When it meets another task's work it gives the entry back and    *)
(* calls itself again.  One of these recursive calls is not followed by a  *)
(* return (the claim that fails): frames holds the entries whose Erase     *)
(* resumes when the recursive call comes back.                             *)
(***************************************************************************)
EXTENDS LocalHashmap, Sequences

CONSTANTS 
  MayErase,   \* MayErase[t]: the keys task t may call Erase with
  MaxDepth,   \* bound: nesting of the recursive calls that resume
  SizeRange   \* number of values of size_t: size_ wraps around at it

ASSUME MayEraseAssumption == MayErase \in [Threads -> SUBSET Keys]
ASSUME MaxDepthAssumption == MaxDepth \in Nat
ASSUME SizeRangeAssumption == 
  SizeRange \in Nat /\ SizeRange > MaxBuckets * BucketSize

VARIABLES 
  frames,  \* frames[t]: entries at which suspended calls of Erase resume
  del,     \* toDelete
  prev,    \* prevEntry
  last,    \* lastEntry
  cur,     \* the entry the search for the end of the list has reached
  resumed, \* history: a call that has been suspended has resumed
  filled   \* history: the keys that were in the list at the start

history == <<resumed, filled>>
eraseVars == <<frames, del, prev, last, cur, history>>
allVars == <<vars, eraseVars>>

ErasePCs == {"e_scan", "e_wait", "e_compare", "e_claim", "e_take", "e_tail",
             "e_check", "e_chain", "e_prev", "e_free", "e_move", "e_publish",
             "e_drop", "e_cleardel", "e_clearprev", "e_unlast", "e_undo",
             "e_recount", "e_next", "rescan"}

EraseInit == 
  /\ Init
  /\ frames = [t \in Threads |-> <<>>]
  /\ del = [t \in Threads |-> NoSlot]
  /\ prev = [t \in Threads |-> NoSlot]
  /\ last = [t \in Threads |-> NoSlot]
  /\ cur = [t \in Threads |-> NoSlot]
  /\ resumed = FALSE /\ filled = {key[s] : s \in {s \in Slots : state[s] = "USED"}}

\* the first statements of Erase, called or called again
Begin(t) == 
  /\ pos' = [pos EXCEPT ![t] = FirstSlot]
  /\ hit' = [hit EXCEPT ![t] = NoSlot]
  /\ res' = [res EXCEPT ![t] = "none"]
  /\ Goto(t, "e_scan")

CallErase(t, k) == 
  /\ pc[t] = "idle" /\ nops[t] < MaxOps
  /\ Begin(t)
  /\ op' = [op EXCEPT ![t] = [kind |-> EraseKind, key |-> k]]
  /\ read' = [read EXCEPT ![t] = {}]
  /\ nops' = [nops EXCEPT ![t] = @ + 1]
  /\ UNCHANGED <<entries, size, chain, eraseVars>>

\* a return: of the call, or of a recursive call that its caller ignores
Leave(t) == 
  IF frames[t] = <<>> 
    THEN Finish(t, "true") /\ UNCHANGED <<pos, frames, history>>
    ELSE /\ resumed' = TRUE /\ UNCHANGED filled
         /\ pos' = [pos EXCEPT ![t] = Head(frames[t])]
         /\ frames' = [frames EXCEPT ![t] = Tail(@)]
         /\ Goto(t, "e_take") /\ UNCHANGED res

ScanErase(t) == 
  /\ pc[t] = "e_scan"
  /\ Goto(t, IF state[pos[t]] = "EMPTY" THEN "e_next" ELSE "e_wait")
  /\ UNCHANGED <<entries, size, chain, op, pos, hit, read, res, nops, eraseVars>>

WaitErase(t) == 
  /\ pc[t] = "e_wait" /\ state[pos[t]] # "PENDING_INSERT"
  /\ Goto(t, "e_compare")
  /\ UNCHANGED <<entries, size, chain, op, pos, hit, read, res, nops, eraseVars>>

CompareErase(t) == 
  /\ pc[t] = "e_compare"
  /\ IF key[pos[t]] = MyKey(t)
       THEN Goto(t, "e_claim") /\ UNCHANGED pos
       ELSE NextEntry(t, "e_scan", "e_next")
  /\ UNCHANGED <<entries, size, chain, op, hit, read, res, nops, eraseVars>>

\* key found: claim its entry, or call Erase(key) and go on after it
ClaimErase(t) == 
  /\ pc[t] = "e_claim" /\ state[pos[t]] = "USED"
  /\ SetState(pos[t], "PENDING_INSERT")
  /\ Goto(t, "e_take")
  /\ UNCHANGED <<key, val, size, chain, op, pos, hit, read, res, nops, eraseVars>>

ClaimEraseFails(t) == 
  /\ pc[t] = "e_claim" /\ state[pos[t]] # "USED"
  /\ Len(frames[t]) < MaxDepth
  /\ frames' = [frames EXCEPT ![t] = <<pos[t]>> \o @]
  /\ Begin(t)
  /\ UNCHANGED <<entries, size, chain, op, read, nops, del, prev, last, cur, history>>

\* toDelete = prevEntry = entry; size_--
Take(t) == 
  /\ pc[t] = "e_take"
  /\ del' = [del EXCEPT ![t] = pos[t]]
  /\ prev' = [prev EXCEPT ![t] = pos[t]]
  /\ last' = [last EXCEPT ![t] = NoSlot]
  /\ cur' = [cur EXCEPT ![t] = <<pos[t][1], pos[t][2] + 1>>]
  /\ size' = (size - 1) % SizeRange
  /\ Goto(t, IF LastInBucket(pos[t]) THEN "e_chain" ELSE "e_tail")
  /\ UNCHANGED <<entries, chain, op, pos, hit, read, res, nops, frames, history>>

-----------------------------------------------------------------------------
(* The search for the end of the list.                                     *)

\* an EMPTY entry ends the list: hold it while the last entry moves
HoldLast(t) == 
  /\ pc[t] = "e_tail"
  /\ last' = [last EXCEPT ![t] = cur[t]]
  /\ IF state[cur[t]] = "EMPTY"
       THEN /\ SetState(cur[t], "PENDING_INSERT")
            /\ Goto(t, IF prev[t] = del[t] THEN "e_drop" ELSE "e_prev")
       ELSE Goto(t, "e_check") /\ UNCHANGED state
  /\ UNCHANGED <<key, val, size, chain, op, pos, hit, read, res, nops, 
                 frames, del, prev, cur, history>>

\* an entry being inserted or moved: give up; otherwise look further
Check(t) == 
  /\ pc[t] = "e_check"
  /\ IF state[last[t]] = "PENDING_INSERT"
       THEN Goto(t, "e_undo") /\ UNCHANGED <<prev, cur>>
       ELSE /\ prev' = [prev EXCEPT ![t] = last[t]]
            /\ cur' = [cur EXCEPT ![t] = <<@[1], @[2] + 1>>]
            /\ Goto(t, IF LastInBucket(cur[t]) THEN "e_chain" ELSE "e_tail")
  /\ UNCHANGED <<entries, size, chain, op, pos, hit, read, res, nops, 
                 frames, del, last, history>>

\* past the end of a bucket: into the next, or the list ends in a full one.
\* There lastEntry is prevEntry, so the code's other branches are dead.
Chain(t) == 
  /\ pc[t] = "e_chain"
  /\ \/ /\ next[cur[t][1]]
        /\ cur' = [cur EXCEPT ![t] = <<@[1] + 1, 0>>]
        /\ Goto(t, "e_tail") /\ UNCHANGED state
     \/ /\ ~next[cur[t][1]] /\ last[t] = NoSlot
        /\ Goto(t, "e_cleardel") /\ UNCHANGED <<state, cur>>
     \/ /\ ~next[cur[t][1]] /\ last[t] # NoSlot /\ state[last[t]] = "USED"
        /\ SetState(last[t], "PENDING_INSERT")
        /\ Goto(t, "e_move") /\ UNCHANGED cur
     \/ /\ ~next[cur[t][1]] /\ last[t] # NoSlot /\ state[last[t]] # "USED"
        /\ Goto(t, "e_undo") /\ UNCHANGED <<state, cur>>
  /\ UNCHANGED <<key, val, size, chain, op, pos, hit, read, res, nops, 
                 frames, del, prev, last, history>>

\* mutant: the entry that moves is not locked
LockPrevUnchecked(t) == 
  /\ pc[t] = "e_prev" /\ Goto(t, "e_free")
  /\ SetState(prev[t], "PENDING_INSERT") 
  /\ UNCHANGED <<key, val, size, chain, op, pos, hit, read, res, nops, eraseVars>>

\* lock the entry before the end, to move it
LockPrev(t) == 
  /\ pc[t] = "e_prev"
  /\ IF state[prev[t]] = "USED"
       THEN SetState(prev[t], "PENDING_INSERT") /\ Goto(t, "e_free")
       ELSE Goto(t, "e_unlast") /\ UNCHANGED state
  /\ UNCHANGED <<key, val, size, chain, op, pos, hit, read, res, nops, eraseVars>>

\* mutant: an Erase that gives up does not let go of the end of the list
FreeLastNot(t) == 
  /\ pc[t] \in {"e_free", "e_drop", "e_unlast"}
  /\ IF pc[t] = "e_unlast" THEN UNCHANGED state ELSE SetState(last[t], "EMPTY")
  /\ Goto(t, CASE pc[t] = "e_free" -> "e_move" 
               [] pc[t] = "e_drop" -> "e_cleardel"
               [] pc[t] = "e_unlast" -> "e_undo")
  /\ UNCHANGED <<key, val, size, chain, op, pos, hit, read, res, nops, eraseVars>>

\* lastEntry->state = EMPTY, on each of the three ways that held it
FreeLast(t) == 
  /\ pc[t] \in {"e_free", "e_drop", "e_unlast"}
  /\ SetState(last[t], "EMPTY")
  /\ Goto(t, CASE pc[t] = "e_free" -> "e_move" 
               [] pc[t] = "e_drop" -> "e_cleardel"
               [] pc[t] = "e_unlast" -> "e_undo")
  /\ UNCHANGED <<key, val, size, chain, op, pos, hit, read, res, nops, eraseVars>>

\* mutant: the entry that moves leaves its key behind
MoveValue(t) == 
  /\ pc[t] = "e_move"
  /\ val' = [val EXCEPT ![del[t]] = val[prev[t]]]
  /\ Goto(t, "e_publish")
  /\ UNCHANGED <<state, key, size, chain, op, pos, hit, read, res, nops, eraseVars>>

Move(t) == 
  /\ pc[t] = "e_move"
  /\ key' = [key EXCEPT ![del[t]] = key[prev[t]]]
  /\ val' = [val EXCEPT ![del[t]] = val[prev[t]]]
  /\ Goto(t, "e_publish")
  /\ UNCHANGED <<state, size, chain, op, pos, hit, read, res, nops, eraseVars>>

PublishMoved(t) == 
  /\ pc[t] = "e_publish"
  /\ SetState(del[t], "USED")
  /\ Goto(t, "e_clearprev")
  /\ UNCHANGED <<key, val, size, chain, op, pos, hit, read, res, nops, eraseVars>>

\* the last store of an erasure, and its return
Clear(t) == 
  /\ pc[t] \in {"e_cleardel", "e_clearprev"}
  /\ SetState(IF pc[t] = "e_cleardel" THEN del[t] ELSE prev[t], "EMPTY")
  /\ Leave(t)
  /\ UNCHANGED <<key, val, size, chain, op, hit, read, nops, 
                 del, prev, last, cur>>

\* toDelete->state = USED; size_++; Erase(key); return
Undo(t) == 
  /\ pc[t] = "e_undo"
  /\ SetState(del[t], "USED")
  /\ Goto(t, "e_recount")
  /\ UNCHANGED <<key, val, size, chain, op, pos, hit, read, res, nops, eraseVars>>

\* mutant: size_ stays lowered after an Erase that begins again
RecountNothing(t) == 
  /\ pc[t] = "e_recount" /\ Begin(t)
  /\ UNCHANGED <<entries, size, chain, op, read, nops, eraseVars>>

Recount(t) == 
  /\ pc[t] = "e_recount"
  /\ size' = (size + 1) % SizeRange
  /\ Begin(t)
  /\ UNCHANGED <<entries, chain, op, read, nops, eraseVars>>

\* key not found in a bucket: the next one, or look it up once more
NextErase(t) == 
  /\ pc[t] = "e_next"
  /\ IF next[pos[t][1]] 
       THEN EnterNextBucket(t, "e_scan")
       ELSE pos' = [pos EXCEPT ![t] = FirstSlot] /\ Goto(t, "scan")
  /\ UNCHANGED <<entries, size, chain, op, hit, read, res, nops, eraseVars>>

Looked(t) == 
  /\ pc[t] = "looked"
  /\ IF res[t] = "found" 
       THEN Begin(t) /\ UNCHANGED <<frames, history>>
       ELSE Leave(t) /\ UNCHANGED hit
  /\ UNCHANGED <<entries, size, chain, op, read, nops, del, prev, last, cur>>

-----------------------------------------------------------------------------
(* A scan reads the state of an entry twice, to compare it with EMPTY and  *)
(* with PENDING_INSERT.  Without Erase the second read decides; an erasure *)
(* that ends between the two lets the scan go on to an EMPTY entry.        *)
ReadPending(t) == 
  /\ pc[t] = "scan" /\ state[pos[t]] = "PENDING_INSERT" 
  /\ Goto(t, "rescan")
  /\ UNCHANGED <<entries, size, chain, op, pos, hit, read, res, nops, eraseVars>>

ReadAgain(t) == 
  /\ pc[t] = "rescan"
  /\ Goto(t, IF state[pos[t]] = "PENDING_INSERT" THEN "hop" ELSE "probe")
  /\ UNCHANGED <<entries, size, chain, op, pos, hit, read, res, nops, eraseVars>>

-----------------------------------------------------------------------------
EraseStep(t) == 
  \/ ScanErase(t) \/ WaitErase(t) \/ CompareErase(t)
  \/ ClaimErase(t) \/ ClaimEraseFails(t) \/ Take(t)
  \/ HoldLast(t) \/ Check(t) \/ Chain(t) \/ LockPrev(t) \/ FreeLast(t)
  \/ Move(t) \/ PublishMoved(t) \/ Clear(t) \/ Undo(t) \/ Recount(t)
  \/ NextErase(t) \/ Looked(t) \/ ReadPending(t) \/ ReadAgain(t)

EraseNext == 
  \/ Next /\ UNCHANGED eraseVars
  \/ \E t \in Threads : EraseStep(t) \/ \E k \in MayErase[t] : CallErase(t, k)

EraseSpec == EraseInit /\ [][EraseNext]_allVars

-----------------------------------------------------------------------------
EraseTypeOK == 
  /\ state \in [Slots -> EntryStates]
  /\ key \in [Slots -> Keys \cup {NoKey}]
  /\ val \in [Slots -> SUBSET Tokens]
  /\ size \in 0..(SizeRange - 1)
  /\ pc \in [Threads -> PCs \cup ErasePCs]
  /\ pos \in [Threads -> Slots]
  /\ frames \in [Threads -> Seq(Slots)]
  /\ del \in [Threads -> Slots \cup {NoSlot}]
  /\ prev \in [Threads -> Slots \cup {NoSlot}]
  /\ last \in [Threads -> Slots \cup {NoSlot}]
  /\ resumed \in BOOLEAN

Quiet == \A t \in Threads : pc[t] \in {"idle", "done"}
InMap(k) == \E s \in Slots : state[s] \in Present /\ key[s] = k

(* No operation leaves an entry behind in a state that later ones wait on: *)
(* whatever erasures hold when they meet, they let go of.                  *)
NothingHeld == Quiet => \A s \in Slots : state[s] \in {"EMPTY", "USED"}

(* When no operation runs, the list is a prefix of distinct used entries:  *)
(* the erasures that met at its end have undone or finished their moves.   *)
(* It holds up to the first Erase that goes on after its recursive call.   *)
QuietList == 
  Quiet /\ ~resumed => 
    /\ UniqueKeys
    /\ \A p, q \in Slots : Before(p, q) /\ state[p] # "USED" => state[q] = "EMPTY"

(* Size() of a map on which no operation runs is its number of entries, up *)
(* to the same point.                                                      *)
QuietSize == 
  Quiet /\ ~resumed => size = Cardinality({s \in Slots : state[s] \in Present})

(* A key that no task erases stays in the map: an Erase that moves entries *)
(* gives up none but its own.                                              *)
OthersKept == 
  Quiet => \A k \in filled : (\A t \in Threads : k \notin MayErase[t]) => InMap(k)

(* ... up to the same point.                                               *)
OthersKeptAtFirst == ~resumed => OthersKept
=============================================================================
