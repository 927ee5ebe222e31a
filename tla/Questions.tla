------------------------------ MODULE Questions -------------------------------
(***************************************************************************)
(* Questions to a distributed container: lookups, sizes, iterators and     *)
(* traversals.  The answer is collected in "look"; an entry is a key and   *)
(* the index of one of its values.  What was there meanwhile is kept in    *)
(* "seen", by the steps of Containers.tla.                                 *)
(***************************************************************************)
EXTENDS Objects

VARIABLE seen   \* history: [Tasks -> what was there during the question]

EntriesIn(m, l) == 
  {e \in Keys \X (1..program.calls + 1) : e[2] <= Len(m[l][e[1]])}
Here(l) == EntriesIn(mem, l)

\* for a lookup "of" is the key; otherwise it says what is counted, visited
Asking(t, name, asks, of, answer) == 
  /\ Calling(t, name) /\ look[t] = NoLook
  /\ look' = [look EXCEPT ![t] = [asks |-> asks, of |-> of, answer |-> answer]]
  /\ NoHistory /\ UNCHANGED memory

Answer(t, answer) == look' = [look EXCEPT ![t].answer = answer]
Visit(t, e) == Answer(t, look[t].answer (+) SetToBag({e}))

\* the task has the answer, and forgets it
Looked(t) == Become(t, [op |-> "looked"])
Forget(t) == 
  /\ doing[t].op = "looked" /\ GoesOn(t, Idle)
  /\ look' = [look EXCEPT ![t] = NoLook]
  /\ NoHistory /\ UNCHANGED memory

-----------------------------------------------------------------------------
(* A lookup at a locality, in one step or by an activity.                  *)
LookUp(t, name, k, l) == 
  /\ Asking(t, name, "lookup", k, mem[l][k])
  /\ Looked(t) /\ UNCHANGED <<acts, handle>>

AsyncLookUp(t, name, k, l) == 
  /\ Asking(t, name, "lookup", k, <<>>)
  /\ Leaving(t, {Activity(t, TRUE, l, [op |-> "lookup", key |-> k])})

RunLookup(a) == 
  /\ a.work.op = "lookup" /\ Running(a, {})
  /\ Answer(a.task, mem[a.at][a.work.key])
  /\ NoHistory /\ UNCHANGED memory

-----------------------------------------------------------------------------
(* The sum of what the localities of a sequence count, one after another.  *)
Summing(t, name, of, first, others) == 
  /\ Asking(t, name, "size", of, first)
  /\ Become(t, [op |-> "summing", next |-> others]) 
  /\ UNCHANGED <<acts, handle>>

Counted(l, of) == 
  Cardinality(IF of = "keys" THEN {e \in Here(l) : e[2] = 1} ELSE Here(l))

Sum(t) == 
  /\ doing[t].op = "summing"
  /\ IF doing[t].next = <<>>
       THEN GoesOn(t, [op |-> "looked"]) /\ UNCHANGED look
       ELSE /\ GoesOn(t, [doing[t] EXCEPT !.next = Tail(@)])
            /\ Answer(t, look[t].answer + 
                         Counted(Head(doing[t].next), look[t].of))
  /\ NoHistory /\ UNCHANGED memory

\* the members of a set of localities in order
Ascending(ls) == 
  CHOOSE s \in [1..Cardinality(ls) -> ls] : 
    \A i, j \in DOMAIN s : i < j => s[i] < s[j]

-----------------------------------------------------------------------------
(* Iterators: a position is a locality and an entry there, or LocalEnd     *)
(* while the iterator looks for the next locality that has entries.  The   *)
(* step to a locality is made by the locality where the iterator was; the  *)
(* entry is copied into the iterator.                                      *)
LocalEnd == <<>>
Before(d, e) == 
  \/ Bucket(d[1]) < Bucket(e[1]) 
  \/ d[1] = e[1] /\ d[2] < e[2]
FirstOf(es) == 
  IF es = {} THEN LocalEnd 
             ELSE CHOOSE e \in es : \A d \in es \ {e} : Before(e, d)
LocalBegin(l) == FirstOf(Here(l))
LocalNext(l, e) == FirstOf({d \in Here(l) : Before(e, d)})

At(l, e) == [op |-> "walking", at |-> l, entry |-> e]

\* mutant: the last locality is not searched
MovedShort(t, l, e) == 
  /\ IF e # LocalEnd THEN GoesOn(t, At(l, e)) /\ Visit(t, <<l, e>>)
     ELSE /\ GoesOn(t, IF l + 1 < NumLocalities - 1
                         THEN [op |-> "seeking", at |-> l + 1]
                         ELSE [op |-> "looked"]) 
          /\ UNCHANGED look
  /\ NoHistory /\ UNCHANGED memory

\* what begin() and ++ do once the local iterator has moved
Moved(t, l, e) == 
  /\ IF e # LocalEnd THEN GoesOn(t, At(l, e)) /\ Visit(t, <<l, e>>)
     ELSE /\ GoesOn(t, IF l + 1 < NumLocalities 
                         THEN [op |-> "seeking", at |-> l + 1]
                         ELSE [op |-> "looked"]) 
          /\ UNCHANGED look
  /\ NoHistory /\ UNCHANGED memory

Begin(t, name) == 
  /\ Asking(t, name, "walk", "values", EmptyBag)
  /\ Become(t, [op |-> "seeking", at |-> 0]) /\ UNCHANGED <<acts, handle>>
GetLocBeginIt(t) == 
  doing[t].op = "seeking" /\ Moved(t, doing[t].at, LocalBegin(doing[t].at))
PlusPlus(t) == 
  /\ doing[t].op = "walking" 
  /\ Moved(t, doing[t].at, LocalNext(doing[t].at, doing[t].entry))

-----------------------------------------------------------------------------
(* ForEach: at every locality a loop over the buckets, which starts an     *)
(* activity for each of them.                                              *)
Loops(t, async) == 
  UNION {OnAll(t, async, [op |-> "visit", bucket |-> b]) : 
           b \in 0..NumBuckets - 1}
ForEach(t, name) == 
  /\ Asking(t, name, "walk", "keys", EmptyBag)
  /\ Waiting(t, Loops(t, FALSE), "called")
AsyncForEach(t, name) == 
  /\ Asking(t, name, "walk", "keys", EmptyBag)
  /\ Leaving(t, Loops(t, TRUE))

\* the user's function is called with each key of the bucket
RunVisit(a) == 
  /\ a.work.op = "visit" /\ Running(a, {})
  /\ LET es == {e \in Here(a.at) : Bucket(e[1]) = a.work.bucket /\ e[2] = 1}
     IN  IF es = {} THEN UNCHANGED look
                    ELSE Visit(a.task, <<a.at, FirstOf(es)>>)
  /\ NoHistory /\ UNCHANGED memory

-----------------------------------------------------------------------------
AnswerActivity(a) == RunLookup(a) \/ RunVisit(a)
Asked(t) == Sum(t) \/ Forget(t)

-----------------------------------------------------------------------------
(* What a question of a task is about: the entries of the container, or    *)
(* the values of a key; in a replicated map, those of its own locality.    *)
Sources(t) == IF kind = "replicated" THEN {Home[t]} ELSE Localities

Matter(m, t, question) == 
  IF question.asks = "lookup"
    THEN {m[IF kind = "replicated" THEN Home[t] 
              ELSE TargetLocality(question.of)][question.of]}
    ELSE UNION {{<<l, e>> : e \in {e \in EntriesIn(m, l) : 
                             question.of = "keys" => e[2] = 1}} : 
                  l \in Sources(t)}

NothingSeen == [always |-> {}, ever |-> {}]

Watch(t) == 
  LET before == Matter(mem, t, look'[t])
      after == Matter(mem', t, look'[t])
  IN  IF look'[t] = NoLook THEN NothingSeen
      ELSE IF look[t] = NoLook 
        THEN [always |-> before \cap after, ever |-> before \cup after]
        ELSE [always |-> seen[t].always \cap after, 
              ever |-> seen[t].ever \cup after]
=============================================================================
