-------------------------- MODULE Containers_proofs --------------------------
(***************************************************************************)
(* Proofs about Containers, for any number of localities, tasks and keys,  *)
(* any hash function and any programs: what the answers to the questions   *)
(* are worth, and that the insertions that one may rely on are there.      *)
(***************************************************************************)
EXTENDS Containers, Objects_proofs

-----------------------------------------------------------------------------
(* The modules of the containers have copies of the operators of Questions *)
(* that are those operators.                                               *)

LEMMA HashmapCalling == 
  ASSUME NEW t, NEW name
  PROVE  HM!Calling(t, name) <=> Calling(t, name)
BY DEF HM!Calling, Calling, HM!MayCall, MayCall, HM!Idle, Idle

LEMMA HashmapCardinality == 
  ASSUME NEW s
  PROVE  HM!Cardinality(s) = Cardinality(s)
BY DEF HM!Cardinality, Cardinality

LEMMA HashmapEntries == 
  ASSUME NEW m, NEW l
  PROVE  HM!EntriesIn(m, l) = EntriesIn(m, l)
BY DEF HM!EntriesIn, EntriesIn

LEMMA HashmapCounted == 
  ASSUME NEW l, NEW of
  PROVE  HM!Counted(l, of) = Counted(l, of)
BY HashmapCardinality, HashmapEntries DEF HM!Counted, Counted, HM!Here, Here

LEMMA HashmapAscending == 
  ASSUME NEW ls
  PROVE  HM!Ascending(ls) = Ascending(ls)
BY HashmapCardinality DEF HM!Ascending, Ascending

LEMMA HashmapFirst == 
  ASSUME NEW es
  PROVE  HM!FirstOf(es) = FirstOf(es)
BY DEF HM!FirstOf, FirstOf, HM!Before, Before, HM!Bucket, Bucket, HM!LocalEnd,
  LocalEnd

LEMMA HashmapMoved == 
  ASSUME NEW t, NEW l, NEW e
  PROVE  HM!Moved(t, l, e) <=> Moved(t, l, e)
BY DEF HM!Moved, Moved, HM!GoesOn, GoesOn, HM!Become, Become, HM!At, At,
  HM!Visit, Visit, HM!Answer, Answer, HM!SetToBag, SetToBag, HM!\oplus,
  \oplus, HM!LocalEnd, LocalEnd, HM!NoHistory, NoHistory, HM!history, history,
  HM!memory, memory

LEMMA HashmapSeeks == 
  ASSUME NEW t
  PROVE  HM!GetLocBeginIt(t) <=> GetLocBeginIt(t)
BY HashmapEntries, HashmapFirst, HashmapMoved DEF HM!GetLocBeginIt,
  GetLocBeginIt, HM!LocalBegin, LocalBegin, HM!Here, Here

LEMMA HashmapAdvances == 
  ASSUME NEW t
  PROVE  HM!PlusPlus(t) <=> PlusPlus(t)
BY HashmapEntries, HashmapFirst, HashmapMoved DEF HM!PlusPlus, PlusPlus,
  HM!LocalNext, LocalNext, HM!Here, Here, HM!Before, Before, HM!Bucket, Bucket

LEMMA HashmapOneStep == 
  ASSUME NEW t, NEW name, NEW k, NEW op
  PROVE  HM!OneStep(t, name, k, op) <=> OneStep(t, name, k, op)
BY HashmapCalling DEF HM!OneStep, OneStep, HM!AtOnce, AtOnce, HM!Put, Put,
  HM!TargetLocality, TargetLocality, HM!Change, Change, HM!Inserted, Inserted,
  HM!Kept, Kept, HM!Applied, Applied

LEMMA HashmapByActivity == 
  ASSUME NEW t, NEW name, NEW k, NEW op, NEW again
  PROVE  HM!ByActivity(t, name, k, op, again) <=> ByActivity(t, name, k, op, again)
BY HashmapCalling DEF HM!ByActivity, ByActivity, HM!Leaving, Leaving,
  HM!Activity, Activity, HM!TargetLocality, TargetLocality, HM!Work, Work,
  HM!memory, memory

LEMMA HashmapBuffered == 
  ASSUME NEW t, NEW name, NEW k
  PROVE  /\ HM!InsertBuffered(t, name, k) <=> InsertBuffered(t, name, k)
         /\ HM!AsyncInsertBuffered(t, name, k) <=> AsyncInsertBuffered(t, name, k)
<1>1. HM!InsertBuffered(t, name, k) <=> InsertBuffered(t, name, k)
    BY HashmapCalling DEF HM!InsertBuffered, InsertBuffered, HM!FlushUnderWay,
    FlushUnderWay, HM!AtOnce, AtOnce, HM!Fill, Fill, HM!SetBuffer, SetBuffer,
    HM!TargetLocality, TargetLocality, HM!IsFull, IsFull, HM!InBuffer,
    InBuffer, HM!Deliver, Deliver, HM!FoldLeft, FoldLeft, HM!MapThenFoldSet,
    MapThenFoldSet, HM!Max, Max, HM!Inserted, Inserted, HM!Later, Later
<1>2. HM!AsyncInsertBuffered(t, name, k) <=> AsyncInsertBuffered(t, name, k)
    BY HashmapCalling DEF HM!AsyncInsertBuffered, AsyncInsertBuffered,
    HM!FlushUnderWay, FlushUnderWay, HM!Fill, Fill, HM!SetBuffer, SetBuffer,
    HM!TargetLocality, TargetLocality, HM!IsFull, IsFull, HM!InBuffer,
    InBuffer, HM!Leaving, Leaving, HM!Activity, Activity, HM!Delivery,
    Delivery, HM!AtOnce, AtOnce, HM!Later, Later
<1> QED BY <1>1, <1>2

LEMMA HashmapFlushes == 
  ASSUME NEW t
  PROVE  /\ HM!FlushAllBuffers(t) <=> FlushAllBuffers(t)
         /\ HM!AsyncFlushAllBuffers(t) <=> AsyncFlushAllBuffers(t)
<1>1. HM!FlushAllBuffers(t) <=> FlushAllBuffers(t)
    BY HashmapCalling DEF HM!FlushAllBuffers, FlushAllBuffers, HM!MayFlush,
    MayFlush, HM!MayCall, MayCall, HM!Idle, Idle, HM!FlushUnderWay,
    FlushUnderWay, HM!NoKeys, NoKeys, HM!Waiting, Waiting, HM!Become, Become,
    HM!OnAll, OnAll, HM!Activity, Activity, HM!Localities, Localities,
    HM!NoHistory, NoHistory, HM!history, history, HM!memory, memory
<1>2. HM!AsyncFlushAllBuffers(t) <=> AsyncFlushAllBuffers(t)
    BY HashmapCalling DEF HM!AsyncFlushAllBuffers, AsyncFlushAllBuffers,
    HM!MayFlush, MayFlush, HM!MayCall, MayCall, HM!Idle, Idle,
    HM!FlushUnderWay, FlushUnderWay, HM!NoKeys, NoKeys, HM!Leaving, Leaving,
    HM!OnAll, OnAll, HM!Activity, Activity, HM!Localities, Localities,
    HM!Plus, Plus, HM!memory, memory
<1> QED BY <1>1, <1>2

LEMMA HashmapEverywhere == 
  ASSUME NEW t, NEW name
  PROVE  /\ HM!ClearAll(t, name) <=> ClearAll(t, name)
         /\ HM!Begin(t, name) <=> Begin(t, name)
         /\ HM!ForEach(t, name) <=> ForEach(t, name)
         /\ HM!AsyncForEach(t, name) <=> AsyncForEach(t, name)
<1>1. HM!ClearAll(t, name) <=> ClearAll(t, name)
    BY HashmapCalling DEF HM!ClearAll, ClearAll, HM!Idle, Idle, HM!Waiting,
    Waiting, HM!Become, Become, HM!OnAll, OnAll, HM!Activity, Activity,
    HM!Localities, Localities, HM!Drop, Drop, HM!memory, memory
<1>2. HM!Begin(t, name) <=> Begin(t, name)
    BY HashmapCalling DEF HM!Begin, Begin, HM!Asking, Asking, HM!NoLook,
    NoLook, HM!NoHistory, NoHistory, HM!history, history, HM!memory, memory,
    HM!EmptyBag, EmptyBag, HM!SetToBag, SetToBag, HM!Become, Become
<1>3. HM!ForEach(t, name) <=> ForEach(t, name)
    BY HashmapCalling DEF HM!ForEach, ForEach, HM!Asking, Asking, HM!NoLook,
    NoLook, HM!NoHistory, NoHistory, HM!history, history, HM!memory, memory,
    HM!EmptyBag, EmptyBag, HM!SetToBag, SetToBag, HM!Waiting, Waiting,
    HM!Become, Become, HM!Loops, Loops, HM!OnAll, OnAll, HM!Activity,
    Activity, HM!Localities, Localities
<1>4. HM!AsyncForEach(t, name) <=> AsyncForEach(t, name)
    BY HashmapCalling DEF HM!AsyncForEach, AsyncForEach, HM!Asking, Asking,
    HM!NoLook, NoLook, HM!NoHistory, NoHistory, HM!history, history,
    HM!memory, memory, HM!EmptyBag, EmptyBag, HM!SetToBag, SetToBag,
    HM!Leaving, Leaving, HM!Loops, Loops, HM!OnAll, OnAll, HM!Activity,
    Activity, HM!Localities, Localities
<1> QED BY <1>1, <1>2, <1>3, <1>4

LEMMA HashmapLookups == 
  ASSUME NEW t, NEW name, NEW k, NEW l
  PROVE  /\ HM!LookUp(t, name, k, l) <=> LookUp(t, name, k, l)
         /\ HM!AsyncLookUp(t, name, k, l) <=> AsyncLookUp(t, name, k, l)
<1>1. HM!LookUp(t, name, k, l) <=> LookUp(t, name, k, l)
    BY HashmapCalling DEF HM!LookUp, LookUp, HM!Asking, Asking, HM!NoLook,
    NoLook, HM!NoHistory, NoHistory, HM!history, history, HM!memory, memory,
    HM!Looked, Looked, HM!Become, Become
<1>2. HM!AsyncLookUp(t, name, k, l) <=> AsyncLookUp(t, name, k, l)
    BY HashmapCalling DEF HM!AsyncLookUp, AsyncLookUp, HM!Asking, Asking,
    HM!NoLook, NoLook, HM!NoHistory, NoHistory, HM!history, history,
    HM!memory, memory, HM!Leaving, Leaving, HM!Activity, Activity
<1> QED BY <1>1, <1>2

LEMMA HashmapSums == 
  ASSUME NEW t, NEW name, NEW of, NEW first, NEW others
  PROVE  HM!Summing(t, name, of, first, others) <=> Summing(t, name, of, first, others)
BY HashmapCalling DEF HM!Summing, Summing, HM!Asking, Asking, HM!NoLook,
  NoLook, HM!NoHistory, NoHistory, HM!history, history, HM!memory, memory,
  HM!Become, Become

LEMMA HashmapHistories == 
  ASSUME NEW t, NEW k, NEW s
  PROVE  /\ HM!Promise(k) <=> Promise(k)
         /\ HM!Later(t, "async", k) <=> Later(t, "async", k)
         /\ HM!Drop(s) <=> Drop(s)
BY DEF HM!Promise, Promise, HM!Later, Later, HM!Drop, Drop

LEMMA HashmapNoHistory == HM!NoHistory <=> NoHistory
BY DEF HM!NoHistory, NoHistory, HM!history, history

LEMMA MultimapCalling == 
  ASSUME NEW t, NEW name
  PROVE  MM!Calling(t, name) <=> Calling(t, name)
BY DEF MM!Calling, Calling, MM!MayCall, MayCall, MM!Idle, Idle

LEMMA MultimapCardinality == 
  ASSUME NEW s
  PROVE  MM!Cardinality(s) = Cardinality(s)
BY DEF MM!Cardinality, Cardinality

LEMMA MultimapEntries == 
  ASSUME NEW m, NEW l
  PROVE  MM!EntriesIn(m, l) = EntriesIn(m, l)
BY DEF MM!EntriesIn, EntriesIn

LEMMA MultimapCounted == 
  ASSUME NEW l, NEW of
  PROVE  MM!Counted(l, of) = Counted(l, of)
BY MultimapCardinality, MultimapEntries DEF MM!Counted, Counted, MM!Here, Here

LEMMA MultimapAscending == 
  ASSUME NEW ls
  PROVE  MM!Ascending(ls) = Ascending(ls)
BY MultimapCardinality DEF MM!Ascending, Ascending

LEMMA MultimapFirst == 
  ASSUME NEW es
  PROVE  MM!FirstOf(es) = FirstOf(es)
BY DEF MM!FirstOf, FirstOf, MM!Before, Before, MM!Bucket, Bucket, MM!LocalEnd,
  LocalEnd

LEMMA MultimapMoved == 
  ASSUME NEW t, NEW l, NEW e
  PROVE  MM!Moved(t, l, e) <=> Moved(t, l, e)
BY DEF MM!Moved, Moved, MM!GoesOn, GoesOn, MM!Become, Become, MM!At, At,
  MM!Visit, Visit, MM!Answer, Answer, MM!SetToBag, SetToBag, MM!\oplus,
  \oplus, MM!LocalEnd, LocalEnd, MM!NoHistory, NoHistory, MM!history, history,
  MM!memory, memory

LEMMA MultimapSeeks == 
  ASSUME NEW t
  PROVE  MM!GetLocBeginIt(t) <=> GetLocBeginIt(t)
BY MultimapEntries, MultimapFirst, MultimapMoved DEF MM!GetLocBeginIt,
  GetLocBeginIt, MM!LocalBegin, LocalBegin, MM!Here, Here

LEMMA MultimapAdvances == 
  ASSUME NEW t
  PROVE  MM!PlusPlus(t) <=> PlusPlus(t)
BY MultimapEntries, MultimapFirst, MultimapMoved DEF MM!PlusPlus, PlusPlus,
  MM!LocalNext, LocalNext, MM!Here, Here, MM!Before, Before, MM!Bucket, Bucket

LEMMA MultimapOneStep == 
  ASSUME NEW t, NEW name, NEW k, NEW op
  PROVE  MM!OneStep(t, name, k, op) <=> OneStep(t, name, k, op)
BY MultimapCalling DEF MM!OneStep, OneStep, MM!AtOnce, AtOnce, MM!Put, Put,
  MM!TargetLocality, TargetLocality, MM!Change, Change, MM!Inserted, Inserted,
  MM!Kept, Kept, MM!Applied, Applied

LEMMA MultimapByActivity == 
  ASSUME NEW t, NEW name, NEW k, NEW op, NEW again
  PROVE  MM!ByActivity(t, name, k, op, again) <=> ByActivity(t, name, k, op, again)
BY MultimapCalling DEF MM!ByActivity, ByActivity, MM!Leaving, Leaving,
  MM!Activity, Activity, MM!TargetLocality, TargetLocality, MM!Work, Work,
  MM!memory, memory

LEMMA MultimapBuffered == 
  ASSUME NEW t, NEW name, NEW k
  PROVE  /\ MM!InsertBuffered(t, name, k) <=> InsertBuffered(t, name, k)
         /\ MM!AsyncInsertBuffered(t, name, k) <=> AsyncInsertBuffered(t, name, k)
<1>1. MM!InsertBuffered(t, name, k) <=> InsertBuffered(t, name, k)
    BY MultimapCalling DEF MM!InsertBuffered, InsertBuffered,
    MM!FlushUnderWay, FlushUnderWay, MM!AtOnce, AtOnce, MM!Fill, Fill,
    MM!SetBuffer, SetBuffer, MM!TargetLocality, TargetLocality, MM!IsFull,
    IsFull, MM!InBuffer, InBuffer, MM!Deliver, Deliver, MM!FoldLeft, FoldLeft,
    MM!MapThenFoldSet, MapThenFoldSet, MM!Max, Max, MM!Inserted, Inserted,
    MM!Later, Later
<1>2. MM!AsyncInsertBuffered(t, name, k) <=> AsyncInsertBuffered(t, name, k)
    BY MultimapCalling DEF MM!AsyncInsertBuffered, AsyncInsertBuffered,
    MM!FlushUnderWay, FlushUnderWay, MM!Fill, Fill, MM!SetBuffer, SetBuffer,
    MM!TargetLocality, TargetLocality, MM!IsFull, IsFull, MM!InBuffer,
    InBuffer, MM!Leaving, Leaving, MM!Activity, Activity, MM!Delivery,
    Delivery, MM!AtOnce, AtOnce, MM!Later, Later
<1> QED BY <1>1, <1>2

LEMMA MultimapFlushes == 
  ASSUME NEW t
  PROVE  /\ MM!FlushAllBuffers(t) <=> FlushAllBuffers(t)
         /\ MM!AsyncFlushAllBuffers(t) <=> AsyncFlushAllBuffers(t)
<1>1. MM!FlushAllBuffers(t) <=> FlushAllBuffers(t)
    BY MultimapCalling DEF MM!FlushAllBuffers, FlushAllBuffers, MM!MayFlush,
    MayFlush, MM!MayCall, MayCall, MM!Idle, Idle, MM!FlushUnderWay,
    FlushUnderWay, MM!NoKeys, NoKeys, MM!Waiting, Waiting, MM!Become, Become,
    MM!OnAll, OnAll, MM!Activity, Activity, MM!Localities, Localities,
    MM!NoHistory, NoHistory, MM!history, history, MM!memory, memory
<1>2. MM!AsyncFlushAllBuffers(t) <=> AsyncFlushAllBuffers(t)
    BY MultimapCalling DEF MM!AsyncFlushAllBuffers, AsyncFlushAllBuffers,
    MM!MayFlush, MayFlush, MM!MayCall, MayCall, MM!Idle, Idle,
    MM!FlushUnderWay, FlushUnderWay, MM!NoKeys, NoKeys, MM!Leaving, Leaving,
    MM!OnAll, OnAll, MM!Activity, Activity, MM!Localities, Localities,
    MM!Plus, Plus, MM!memory, memory
<1> QED BY <1>1, <1>2

LEMMA MultimapEverywhere == 
  ASSUME NEW t, NEW name
  PROVE  /\ MM!ClearAll(t, name) <=> ClearAll(t, name)
         /\ MM!Begin(t, name) <=> Begin(t, name)
         /\ MM!ForEach(t, name) <=> ForEach(t, name)
         /\ MM!AsyncForEach(t, name) <=> AsyncForEach(t, name)
<1>1. MM!ClearAll(t, name) <=> ClearAll(t, name)
    BY MultimapCalling DEF MM!ClearAll, ClearAll, MM!Idle, Idle, MM!Waiting,
    Waiting, MM!Become, Become, MM!OnAll, OnAll, MM!Activity, Activity,
    MM!Localities, Localities, MM!Drop, Drop, MM!memory, memory
<1>2. MM!Begin(t, name) <=> Begin(t, name)
    BY MultimapCalling DEF MM!Begin, Begin, MM!Asking, Asking, MM!NoLook,
    NoLook, MM!NoHistory, NoHistory, MM!history, history, MM!memory, memory,
    MM!EmptyBag, EmptyBag, MM!SetToBag, SetToBag, MM!Become, Become
<1>3. MM!ForEach(t, name) <=> ForEach(t, name)
    BY MultimapCalling DEF MM!ForEach, ForEach, MM!Asking, Asking, MM!NoLook,
    NoLook, MM!NoHistory, NoHistory, MM!history, history, MM!memory, memory,
    MM!EmptyBag, EmptyBag, MM!SetToBag, SetToBag, MM!Waiting, Waiting,
    MM!Become, Become, MM!Loops, Loops, MM!OnAll, OnAll, MM!Activity,
    Activity, MM!Localities, Localities
<1>4. MM!AsyncForEach(t, name) <=> AsyncForEach(t, name)
    BY MultimapCalling DEF MM!AsyncForEach, AsyncForEach, MM!Asking, Asking,
    MM!NoLook, NoLook, MM!NoHistory, NoHistory, MM!history, history,
    MM!memory, memory, MM!EmptyBag, EmptyBag, MM!SetToBag, SetToBag,
    MM!Leaving, Leaving, MM!Loops, Loops, MM!OnAll, OnAll, MM!Activity,
    Activity, MM!Localities, Localities
<1> QED BY <1>1, <1>2, <1>3, <1>4

LEMMA MultimapLookups == 
  ASSUME NEW t, NEW name, NEW k, NEW l
  PROVE  /\ MM!LookUp(t, name, k, l) <=> LookUp(t, name, k, l)
         /\ MM!AsyncLookUp(t, name, k, l) <=> AsyncLookUp(t, name, k, l)
<1>1. MM!LookUp(t, name, k, l) <=> LookUp(t, name, k, l)
    BY MultimapCalling DEF MM!LookUp, LookUp, MM!Asking, Asking, MM!NoLook,
    NoLook, MM!NoHistory, NoHistory, MM!history, history, MM!memory, memory,
    MM!Looked, Looked, MM!Become, Become
<1>2. MM!AsyncLookUp(t, name, k, l) <=> AsyncLookUp(t, name, k, l)
    BY MultimapCalling DEF MM!AsyncLookUp, AsyncLookUp, MM!Asking, Asking,
    MM!NoLook, NoLook, MM!NoHistory, NoHistory, MM!history, history,
    MM!memory, memory, MM!Leaving, Leaving, MM!Activity, Activity
<1> QED BY <1>1, <1>2

LEMMA MultimapSums == 
  ASSUME NEW t, NEW name, NEW of, NEW first, NEW others
  PROVE  MM!Summing(t, name, of, first, others) <=> Summing(t, name, of, first, others)
BY MultimapCalling DEF MM!Summing, Summing, MM!Asking, Asking, MM!NoLook,
  NoLook, MM!NoHistory, NoHistory, MM!history, history, MM!memory, memory,
  MM!Become, Become

LEMMA MultimapHistories == 
  ASSUME NEW t, NEW k, NEW s
  PROVE  /\ MM!Promise(k) <=> Promise(k)
         /\ MM!Later(t, "async", k) <=> Later(t, "async", k)
         /\ MM!Drop(s) <=> Drop(s)
BY DEF MM!Promise, Promise, MM!Later, Later, MM!Drop, Drop

LEMMA MultimapNoHistory == MM!NoHistory <=> NoHistory
BY DEF MM!NoHistory, NoHistory, MM!history, history

LEMMA MultimapReads == 
  ASSUME NEW t
  PROVE  MM!readFromFiles(t) <=> ReadFiles(t)
BY MultimapCalling DEF MM!readFromFiles, ReadFiles, MM!FlushUnderWay,
  FlushUnderWay, MM!Leaving, Leaving, MM!Activity, Activity, MM!memory, memory

LEMMA MultimapActivities == 
  ASSUME NEW a
  PROVE  /\ MM!RunRead(a) <=> ReadFile(a)
         /\ MM!RunFetch(a) <=> FetchNow(a)
<1>1. MM!RunRead(a) <=> ReadFile(a)
  BY DEF MM!RunRead, ReadFile, MM!Fill, Fill, MM!SetBuffer, SetBuffer,
    MM!Running, Running, MM!IsFull, IsFull, MM!InBuffer, InBuffer, MM!Delivery,
    Delivery, MM!TargetLocality, TargetLocality, MM!Localities, Localities,
    MM!NoHistory, NoHistory, MM!history, history, Zenon
<1>2. MM!RunFetch(a) <=> FetchNow(a)
  BY DEF MM!RunFetch, FetchNow, MM!Running, Running, MM!Answer, Answer,
    MM!NoHistory, NoHistory, MM!history, history, MM!memory, memory
<1> QED BY <1>1, <1>2

LEMMA SetCalling == 
  ASSUME NEW t, NEW name
  PROVE  S!Calling(t, name) <=> Calling(t, name)
BY DEF S!Calling, Calling, S!MayCall, MayCall, S!Idle, Idle

LEMMA SetCardinality == 
  ASSUME NEW s
  PROVE  S!Cardinality(s) = Cardinality(s)
BY DEF S!Cardinality, Cardinality

LEMMA SetEntries == 
  ASSUME NEW m, NEW l
  PROVE  S!EntriesIn(m, l) = EntriesIn(m, l)
BY DEF S!EntriesIn, EntriesIn

LEMMA SetCounted == 
  ASSUME NEW l, NEW of
  PROVE  S!Counted(l, of) = Counted(l, of)
BY SetCardinality, SetEntries DEF S!Counted, Counted, S!Here, Here

LEMMA SetAscending == 
  ASSUME NEW ls
  PROVE  S!Ascending(ls) = Ascending(ls)
BY SetCardinality DEF S!Ascending, Ascending

LEMMA SetFirst == 
  ASSUME NEW es
  PROVE  S!FirstOf(es) = FirstOf(es)
BY DEF S!FirstOf, FirstOf, S!Before, Before, S!Bucket, Bucket, S!LocalEnd,
  LocalEnd

LEMMA SetMoved == 
  ASSUME NEW t, NEW l, NEW e
  PROVE  S!Moved(t, l, e) <=> Moved(t, l, e)
BY DEF S!Moved, Moved, S!GoesOn, GoesOn, S!Become, Become, S!At, At, S!Visit,
  Visit, S!Answer, Answer, S!SetToBag, SetToBag, S!\oplus, \oplus, S!LocalEnd,
  LocalEnd, S!NoHistory, NoHistory, S!history, history, S!memory, memory

LEMMA SetSeeks == 
  ASSUME NEW t
  PROVE  S!GetLocBeginIt(t) <=> GetLocBeginIt(t)
BY SetEntries, SetFirst, SetMoved DEF S!GetLocBeginIt, GetLocBeginIt,
  S!LocalBegin, LocalBegin, S!Here, Here

LEMMA SetAdvances == 
  ASSUME NEW t
  PROVE  S!PlusPlus(t) <=> PlusPlus(t)
BY SetEntries, SetFirst, SetMoved DEF S!PlusPlus, PlusPlus, S!LocalNext,
  LocalNext, S!Here, Here, S!Before, Before, S!Bucket, Bucket

LEMMA SetOneStep == 
  ASSUME NEW t, NEW name, NEW k, NEW op
  PROVE  S!OneStep(t, name, k, op) <=> OneStep(t, name, k, op)
BY SetCalling DEF S!OneStep, OneStep, S!AtOnce, AtOnce, S!Put, Put,
  S!TargetLocality, TargetLocality, S!Change, Change, S!Inserted, Inserted,
  S!Kept, Kept, S!Applied, Applied

LEMMA SetByActivity == 
  ASSUME NEW t, NEW name, NEW k, NEW op, NEW again
  PROVE  S!ByActivity(t, name, k, op, again) <=> ByActivity(t, name, k, op, again)
BY SetCalling DEF S!ByActivity, ByActivity, S!Leaving, Leaving, S!Activity,
  Activity, S!TargetLocality, TargetLocality, S!Work, Work, S!memory, memory

LEMMA SetBuffered == 
  ASSUME NEW t, NEW name, NEW k
  PROVE  /\ S!InsertBuffered(t, name, k) <=> InsertBuffered(t, name, k)
         /\ S!AsyncInsertBuffered(t, name, k) <=> AsyncInsertBuffered(t, name, k)
<1>1. S!InsertBuffered(t, name, k) <=> InsertBuffered(t, name, k)
    BY SetCalling DEF S!InsertBuffered, InsertBuffered, S!FlushUnderWay,
    FlushUnderWay, S!AtOnce, AtOnce, S!Fill, Fill, S!SetBuffer, SetBuffer,
    S!TargetLocality, TargetLocality, S!IsFull, IsFull, S!InBuffer, InBuffer,
    S!Deliver, Deliver, S!FoldLeft, FoldLeft, S!MapThenFoldSet,
    MapThenFoldSet, S!Max, Max, S!Inserted, Inserted, S!Later, Later
<1>2. S!AsyncInsertBuffered(t, name, k) <=> AsyncInsertBuffered(t, name, k)
    BY SetCalling DEF S!AsyncInsertBuffered, AsyncInsertBuffered,
    S!FlushUnderWay, FlushUnderWay, S!Fill, Fill, S!SetBuffer, SetBuffer,
    S!TargetLocality, TargetLocality, S!IsFull, IsFull, S!InBuffer, InBuffer,
    S!Leaving, Leaving, S!Activity, Activity, S!Delivery, Delivery, S!AtOnce,
    AtOnce, S!Later, Later
<1> QED BY <1>1, <1>2

LEMMA SetFlushes == 
  ASSUME NEW t
  PROVE  /\ S!FlushAllBuffers(t) <=> FlushAllBuffers(t)
         /\ S!AsyncFlushAllBuffers(t) <=> AsyncFlushAllBuffers(t)
<1>1. S!FlushAllBuffers(t) <=> FlushAllBuffers(t)
    BY SetCalling DEF S!FlushAllBuffers, FlushAllBuffers, S!MayFlush,
    MayFlush, S!MayCall, MayCall, S!Idle, Idle, S!FlushUnderWay,
    FlushUnderWay, S!NoKeys, NoKeys, S!Waiting, Waiting, S!Become, Become,
    S!OnAll, OnAll, S!Activity, Activity, S!Localities, Localities,
    S!NoHistory, NoHistory, S!history, history, S!memory, memory
<1>2. S!AsyncFlushAllBuffers(t) <=> AsyncFlushAllBuffers(t)
    BY SetCalling DEF S!AsyncFlushAllBuffers, AsyncFlushAllBuffers,
    S!MayFlush, MayFlush, S!MayCall, MayCall, S!Idle, Idle, S!FlushUnderWay,
    FlushUnderWay, S!NoKeys, NoKeys, S!Leaving, Leaving, S!OnAll, OnAll,
    S!Activity, Activity, S!Localities, Localities, S!Plus, Plus, S!memory,
    memory
<1> QED BY <1>1, <1>2

LEMMA SetEverywhere == 
  ASSUME NEW t, NEW name
  PROVE  /\ S!ClearAll(t, name) <=> ClearAll(t, name)
         /\ S!Begin(t, name) <=> Begin(t, name)
         /\ S!ForEach(t, name) <=> ForEach(t, name)
         /\ S!AsyncForEach(t, name) <=> AsyncForEach(t, name)
<1>1. S!ClearAll(t, name) <=> ClearAll(t, name)
    BY SetCalling DEF S!ClearAll, ClearAll, S!Idle, Idle, S!Waiting, Waiting,
    S!Become, Become, S!OnAll, OnAll, S!Activity, Activity, S!Localities,
    Localities, S!Drop, Drop, S!memory, memory
<1>2. S!Begin(t, name) <=> Begin(t, name)
    BY SetCalling DEF S!Begin, Begin, S!Asking, Asking, S!NoLook, NoLook,
    S!NoHistory, NoHistory, S!history, history, S!memory, memory, S!EmptyBag,
    EmptyBag, S!SetToBag, SetToBag, S!Become, Become
<1>3. S!ForEach(t, name) <=> ForEach(t, name)
    BY SetCalling DEF S!ForEach, ForEach, S!Asking, Asking, S!NoLook, NoLook,
    S!NoHistory, NoHistory, S!history, history, S!memory, memory, S!EmptyBag,
    EmptyBag, S!SetToBag, SetToBag, S!Waiting, Waiting, S!Become, Become,
    S!Loops, Loops, S!OnAll, OnAll, S!Activity, Activity, S!Localities,
    Localities
<1>4. S!AsyncForEach(t, name) <=> AsyncForEach(t, name)
    BY SetCalling DEF S!AsyncForEach, AsyncForEach, S!Asking, Asking,
    S!NoLook, NoLook, S!NoHistory, NoHistory, S!history, history, S!memory,
    memory, S!EmptyBag, EmptyBag, S!SetToBag, SetToBag, S!Leaving, Leaving,
    S!Loops, Loops, S!OnAll, OnAll, S!Activity, Activity, S!Localities,
    Localities
<1> QED BY <1>1, <1>2, <1>3, <1>4

LEMMA SetLookups == 
  ASSUME NEW t, NEW name, NEW k, NEW l
  PROVE  /\ S!LookUp(t, name, k, l) <=> LookUp(t, name, k, l)
         /\ S!AsyncLookUp(t, name, k, l) <=> AsyncLookUp(t, name, k, l)
<1>1. S!LookUp(t, name, k, l) <=> LookUp(t, name, k, l)
    BY SetCalling DEF S!LookUp, LookUp, S!Asking, Asking, S!NoLook, NoLook,
    S!NoHistory, NoHistory, S!history, history, S!memory, memory, S!Looked,
    Looked, S!Become, Become
<1>2. S!AsyncLookUp(t, name, k, l) <=> AsyncLookUp(t, name, k, l)
    BY SetCalling DEF S!AsyncLookUp, AsyncLookUp, S!Asking, Asking, S!NoLook,
    NoLook, S!NoHistory, NoHistory, S!history, history, S!memory, memory,
    S!Leaving, Leaving, S!Activity, Activity
<1> QED BY <1>1, <1>2

LEMMA SetSums == 
  ASSUME NEW t, NEW name, NEW of, NEW first, NEW others
  PROVE  S!Summing(t, name, of, first, others) <=> Summing(t, name, of, first, others)
BY SetCalling DEF S!Summing, Summing, S!Asking, Asking, S!NoLook, NoLook,
  S!NoHistory, NoHistory, S!history, history, S!memory, memory, S!Become,
  Become

LEMMA SetHistories == 
  ASSUME NEW t, NEW k, NEW s
  PROVE  /\ S!Promise(k) <=> Promise(k)
         /\ S!Later(t, "async", k) <=> Later(t, "async", k)
         /\ S!Drop(s) <=> Drop(s)
BY DEF S!Promise, Promise, S!Later, Later, S!Drop, Drop

LEMMA ReplicatedHashmapCalling == 
  ASSUME NEW t, NEW name
  PROVE  R!Calling(t, name) <=> Calling(t, name)
BY DEF R!Calling, Calling, R!MayCall, MayCall, R!Idle, Idle

LEMMA ReplicatedHashmapCardinality == 
  ASSUME NEW s
  PROVE  R!Cardinality(s) = Cardinality(s)
BY DEF R!Cardinality, Cardinality

LEMMA ReplicatedHashmapEntries == 
  ASSUME NEW m, NEW l
  PROVE  R!EntriesIn(m, l) = EntriesIn(m, l)
BY DEF R!EntriesIn, EntriesIn

LEMMA ReplicatedHashmapCounted == 
  ASSUME NEW l, NEW of
  PROVE  R!Counted(l, of) = Counted(l, of)
BY ReplicatedHashmapCardinality, ReplicatedHashmapEntries DEF R!Counted,
  Counted, R!Here, Here

LEMMA ReplicatedHashmapEverywhere == 
  ASSUME NEW t, NEW name
  PROVE  R!ClearAll(t, name) <=> ClearAll(t, name)
BY ReplicatedHashmapCalling DEF R!ClearAll, ClearAll, R!Idle, Idle, R!Waiting,
  Waiting, R!Become, Become, R!OnAll, OnAll, R!Activity, Activity,
  R!Localities, Localities, R!Drop, Drop, R!memory, memory

LEMMA ReplicatedHashmapLookups == 
  ASSUME NEW t, NEW name, NEW k, NEW l
  PROVE  R!LookUp(t, name, k, l) <=> LookUp(t, name, k, l)
BY ReplicatedHashmapCalling DEF R!LookUp, LookUp, R!Asking, Asking, R!NoLook,
  NoLook, R!NoHistory, NoHistory, R!history, history, R!memory, memory,
  R!Looked, Looked, R!Become, Become

LEMMA ReplicatedHashmapSums == 
  ASSUME NEW t, NEW name, NEW of, NEW first, NEW others
  PROVE  R!Summing(t, name, of, first, others) <=> Summing(t, name, of, first, others)
BY ReplicatedHashmapCalling DEF R!Summing, Summing, R!Asking, Asking,
  R!NoLook, NoLook, R!NoHistory, NoHistory, R!history, history, R!memory,
  memory, R!Become, Become

-----------------------------------------------------------------------------
\* the actions of Multimap and ReplicatedHashmap

LEMMA ReplicatedHashmapInserts == 
  ASSUME NEW t, NEW name, NEW k
  PROVE  R!InsertOnAll(t, name, k) <=> InsertEverywhere(t, name, k)
BY ReplicatedHashmapCalling DEF R!InsertOnAll, InsertEverywhere, R!Leaving,
  Leaving, R!OnAll, OnAll, R!Work, Work, R!Activity, Activity, R!Localities,
  Localities, R!memory, memory, R!Later, Later

-----------------------------------------------------------------------------
(* Every call of a container is one of those.                              *)

Classified(t) == 
  \/ PlainCall(t) \/ LookupCall(t) \/ SizeCall(t) \/ WalkCall(t) \/ WalkStep(t)

LEMMA HashmapCalls == 
  ASSUME kind = "hashmap", HM!Next
  PROVE  \E t \in Tasks : Classified(t)
<1>1. PICK t \in Tasks : 
       \/ \E k \in Keys : 
            \/ HM!Insert(t, k) \/ HM!InsertWith(t, k) 
            \/ HM!AsyncInsert(t, k) \/ HM!AsyncInsertWith(t, k)
            \/ HM!BufferedInsert(t, k) \/ HM!BufferedAsyncInsert(t, k)
            \/ HM!Erase(t, k) \/ HM!AsyncErase(t, k) 
            \/ HM!Apply(t, k) \/ HM!AsyncApply(t, k) \/ HM!TryBlockingApply(t, k)
            \/ HM!Lookup(t, k) \/ HM!AsyncLookup(t, k)
       \/ HM!WaitForBufferedInsert(t) \/ HM!AsyncWaitForBufferedInsert(t)
       \/ HM!Clear(t) \/ HM!Size(t) \/ HM!map_begin(t)
       \/ HM!ForEachEntry(t) \/ HM!AsyncForEachEntry(t)
       \/ HM!ForEachKey(t) \/ HM!AsyncForEachKey(t)
       \/ HM!getLocBeginIt(t) \/ HM!increment(t)
  BY DEF HM!Next
<1>2. ASSUME NEW k \in Keys, 
             \/ HM!Insert(t, k) \/ HM!InsertWith(t, k) 
             \/ HM!AsyncInsert(t, k) \/ HM!AsyncInsertWith(t, k)
      PROVE  InsertCall(t)
  BY <1>2, HashmapOneStep, HashmapByActivity, HashmapHistories 
     DEF HM!Insert, HM!InsertWith, HM!AsyncInsert, HM!AsyncInsertWith, 
         InsertCall, InsertOps
<1>3. ASSUME NEW k \in Keys, 
             \/ HM!Erase(t, k) \/ HM!AsyncErase(t, k) 
             \/ HM!Apply(t, k) \/ HM!AsyncApply(t, k) \/ HM!TryBlockingApply(t, k)
      PROVE  ChangeCall(t)
  <2>1. CASE HM!Erase(t, k) \/ HM!AsyncErase(t, k) 
    BY <2>1, HashmapOneStep, HashmapByActivity, HashmapHistories
       DEF HM!Erase, HM!AsyncErase, HM!Local, ChangeCall
  <2>2. CASE HM!Apply(t, k) \/ HM!AsyncApply(t, k)
    BY <2>2, HashmapOneStep, HashmapByActivity, HashmapNoHistory
       DEF HM!Apply, HM!AsyncApply, ChangeCall
  <2>3. CASE HM!TryBlockingApply(t, k)
    <3>1. /\ \/ OneStep(t, "TryBlockingApply", k, "apply")
             \/ /\ Calling(t, "TryBlockingApply") 
                /\ AtOnce /\ UNCHANGED <<memory, look>>
          /\ NoHistory
      BY <2>3, HashmapOneStep, HashmapNoHistory, HashmapCalling
         DEF HM!TryBlockingApply, HM!AtOnce, AtOnce, HM!memory, memory
    <3> QED BY <3>1 DEF ChangeCall
  <2> QED BY <1>3, <2>1, <2>2, <2>3
<1>4. ASSUME NEW k \in Keys, HM!BufferedInsert(t, k) \/ HM!BufferedAsyncInsert(t, k)
      PROVE  BufferCall(t)
  BY <1>4, HashmapBuffered DEF HM!BufferedInsert, HM!BufferedAsyncInsert, BufferCall
<1>5. ASSUME HM!WaitForBufferedInsert(t) \/ HM!AsyncWaitForBufferedInsert(t) 
      PROVE  BufferCall(t)
  BY <1>5, HashmapFlushes 
     DEF HM!WaitForBufferedInsert, HM!AsyncWaitForBufferedInsert, BufferCall
<1>10. ASSUME HM!Clear(t) PROVE PlainCall(t)
  BY <1>10, HashmapEverywhere DEF HM!Clear, PlainCall
<1>6. ASSUME NEW k \in Keys, HM!Lookup(t, k) \/ HM!AsyncLookup(t, k)
      PROVE  LookupCall(t)
  BY <1>6, HashmapLookups 
     DEF HM!Lookup, HM!AsyncLookup, HM!TargetLocality, TargetLocality, 
         LookupCall, Place
<1>7. ASSUME HM!Size(t) PROVE SizeCall(t)
  BY <1>7, HashmapSums, HashmapCounted, HashmapAscending 
     DEF HM!Size, HM!Localities, Localities, SizeCall
<1>8. ASSUME \/ HM!map_begin(t) \/ HM!ForEachEntry(t) \/ HM!AsyncForEachEntry(t)
             \/ HM!ForEachKey(t) \/ HM!AsyncForEachKey(t)
      PROVE  WalkCall(t)
  BY <1>8, HashmapEverywhere 
     DEF HM!map_begin, HM!ForEachEntry, HM!AsyncForEachEntry, HM!ForEachKey,
         HM!AsyncForEachKey, WalkCall
<1>9. ASSUME HM!getLocBeginIt(t) \/ HM!increment(t) PROVE WalkStep(t)
  BY <1>9, HashmapSeeks, HashmapAdvances DEF HM!getLocBeginIt, HM!increment, WalkStep
<1> QED BY <1>1, <1>2, <1>3, <1>4, <1>5, <1>6, <1>7, <1>8, <1>9, <1>10 
       DEF Classified, PlainCall

LEMMA SetCalls == 
  ASSUME kind = "set", S!Next
  PROVE  \E t \in Tasks : Classified(t)
<1>1. PICK t \in Tasks : 
       \/ \E k \in Keys : 
            \/ S!Insert(t, k) \/ S!AsyncInsert(t, k) 
            \/ S!BufferedInsert(t, k) \/ S!BufferedAsyncInsert(t, k)
            \/ S!Erase(t, k) \/ S!AsyncErase(t, k) 
            \/ S!Find(t, k) \/ S!AsyncFind(t, k)
       \/ S!WaitForBufferedInsert(t) \/ S!AsyncWaitForBufferedInsert(t)
       \/ S!Clear(t) \/ S!Reset(t) \/ S!Size(t)
       \/ S!ForEachElement(t) \/ S!AsyncForEachElement(t)
       \/ S!set_begin(t) \/ S!getLocBeginIt(t) \/ S!increment(t)
  BY DEF S!Next
<1>2. ASSUME NEW k \in Keys, S!Insert(t, k) \/ S!AsyncInsert(t, k) 
      PROVE  InsertCall(t)
  BY <1>2, SetOneStep, SetByActivity, SetHistories 
     DEF S!Insert, S!AsyncInsert, S!Local, InsertCall, InsertOps
<1>3. ASSUME NEW k \in Keys, S!Erase(t, k) \/ S!AsyncErase(t, k)
      PROVE  ChangeCall(t)
  BY <1>3, SetOneStep, SetByActivity, SetHistories 
     DEF S!Erase, S!AsyncErase, S!Local, ChangeCall
<1>4. ASSUME NEW k \in Keys, S!BufferedInsert(t, k) \/ S!BufferedAsyncInsert(t, k)
      PROVE  BufferCall(t)
  BY <1>4, SetBuffered DEF S!BufferedInsert, S!BufferedAsyncInsert, BufferCall
<1>5. ASSUME S!WaitForBufferedInsert(t) \/ S!AsyncWaitForBufferedInsert(t) 
      PROVE  BufferCall(t)
  BY <1>5, SetFlushes 
     DEF S!WaitForBufferedInsert, S!AsyncWaitForBufferedInsert, BufferCall
<1>10. ASSUME S!Clear(t) \/ S!Reset(t) PROVE PlainCall(t)
  BY <1>10, SetEverywhere DEF S!Clear, S!Reset, PlainCall
<1>6. ASSUME NEW k \in Keys, S!Find(t, k) \/ S!AsyncFind(t, k)
      PROVE  LookupCall(t)
  BY <1>6, SetLookups 
     DEF S!Find, S!AsyncFind, S!TargetLocality, TargetLocality, LookupCall, Place
<1>7. ASSUME S!Size(t) PROVE SizeCall(t)
  BY <1>7, SetSums, SetCounted, SetAscending 
     DEF S!Size, S!Localities, Localities, SizeCall
<1>8. ASSUME S!set_begin(t) \/ S!ForEachElement(t) \/ S!AsyncForEachElement(t)
      PROVE  WalkCall(t)
  BY <1>8, SetEverywhere 
     DEF S!set_begin, S!ForEachElement, S!AsyncForEachElement, WalkCall
<1>9. ASSUME S!getLocBeginIt(t) \/ S!increment(t) PROVE WalkStep(t)
  BY <1>9, SetSeeks, SetAdvances DEF S!getLocBeginIt, S!increment, WalkStep
<1> QED BY <1>1, <1>2, <1>3, <1>4, <1>5, <1>6, <1>7, <1>8, <1>9, <1>10 
       DEF Classified, PlainCall

LEMMA ReplicatedHashmapCalls == 
  ASSUME kind = "replicated", R!Next
  PROVE  \E t \in Tasks : Classified(t)
<1>1. PICK t \in Tasks : 
       \/ \E k \in Keys : \/ R!AsyncInsert(t, k) \/ R!BufferedAsyncInsert(t, k) 
                          \/ R!Lookup(t, k)
       \/ R!Clear(t) \/ R!Size(t)
  BY DEF R!Next
<1>2. ASSUME NEW k \in Keys, R!AsyncInsert(t, k) \/ R!BufferedAsyncInsert(t, k) 
      PROVE  PlainCall(t)
  BY <1>2, ReplicatedHashmapInserts 
     DEF R!AsyncInsert, R!BufferedAsyncInsert, PlainCall
<1>3. ASSUME NEW k \in Keys, R!Lookup(t, k) PROVE LookupCall(t)
  BY <1>3, ReplicatedHashmapLookups DEF R!Lookup, LookupCall, Place
<1>4. ASSUME R!Clear(t) PROVE PlainCall(t)
  BY <1>4, ReplicatedHashmapEverywhere DEF R!Clear, PlainCall
<1>5. ASSUME R!Size(t) PROVE SizeCall(t)
  BY <1>5, ReplicatedHashmapSums, ReplicatedHashmapCounted DEF R!Size, SizeCall
<1> QED BY <1>1, <1>2, <1>3, <1>4, <1>5 DEF Classified

LEMMA MultimapCalls == 
  ASSUME kind = "multimap", MM!Next
  PROVE  \/ \E t \in Tasks : Classified(t)
         \/ \E a \in acts : ReadFile(a) \/ FetchNow(a)
<1>1. CASE \E a \in acts : MM!RunRead(a) \/ MM!RunFetch(a)
  BY <1>1, MultimapActivities
<1>2. CASE \E t \in Tasks : 
       \/ \E k \in Keys : 
            \/ MM!Insert(t, k) \/ MM!AsyncInsert(t, k) 
            \/ MM!BufferedInsert(t, k) \/ MM!BufferedAsyncInsert(t, k)
            \/ MM!Erase(t, k) \/ MM!AsyncErase(t, k) 
            \/ MM!Apply(t, k) \/ MM!AsyncApply(t, k) 
            \/ MM!AsyncApplyWithRetBuff(t, k)
            \/ MM!BlockingApply(t, k) \/ MM!AsyncBlockingApply(t, k) 
            \/ MM!TryBlockingApply(t, k) \/ MM!Lookup(t, k) \/ MM!AsyncLookup(t, k)
       \/ MM!WaitForBufferedInsert(t) \/ MM!AsyncWaitForBufferedInsert(t)
       \/ MM!readFromFiles(t) \/ MM!Clear(t) \/ MM!Size(t) \/ MM!NumberKeys(t)
       \/ MM!ForEachEntry(t) \/ MM!AsyncForEachEntry(t)
       \/ MM!ForEachKey(t) \/ MM!AsyncForEachKey(t)
       \/ MM!multimap_begin(t) \/ MM!getLocBeginIt(t) \/ MM!increment(t)
  <2>1. PICK t \in Tasks : 
       \/ \E k \in Keys : 
            \/ MM!Insert(t, k) \/ MM!AsyncInsert(t, k) 
            \/ MM!BufferedInsert(t, k) \/ MM!BufferedAsyncInsert(t, k)
            \/ MM!Erase(t, k) \/ MM!AsyncErase(t, k) 
            \/ MM!Apply(t, k) \/ MM!AsyncApply(t, k) 
            \/ MM!AsyncApplyWithRetBuff(t, k)
            \/ MM!BlockingApply(t, k) \/ MM!AsyncBlockingApply(t, k) 
            \/ MM!TryBlockingApply(t, k) \/ MM!Lookup(t, k) \/ MM!AsyncLookup(t, k)
       \/ MM!WaitForBufferedInsert(t) \/ MM!AsyncWaitForBufferedInsert(t)
       \/ MM!readFromFiles(t) \/ MM!Clear(t) \/ MM!Size(t) \/ MM!NumberKeys(t)
       \/ MM!ForEachEntry(t) \/ MM!AsyncForEachEntry(t)
       \/ MM!ForEachKey(t) \/ MM!AsyncForEachKey(t)
       \/ MM!multimap_begin(t) \/ MM!getLocBeginIt(t) \/ MM!increment(t)
    BY <1>2
  <2>2. ASSUME NEW k \in Keys, MM!Insert(t, k) \/ MM!AsyncInsert(t, k)
        PROVE  InsertCall(t)
    BY <2>2, MultimapOneStep, MultimapByActivity, MultimapHistories 
       DEF MM!Insert, MM!AsyncInsert, MM!Local, InsertCall, InsertOps
  <2>3. ASSUME NEW k \in Keys, 
               \/ MM!Erase(t, k) \/ MM!AsyncErase(t, k) 
               \/ MM!Apply(t, k) \/ MM!AsyncApply(t, k) 
               \/ MM!AsyncApplyWithRetBuff(t, k)
               \/ MM!BlockingApply(t, k) \/ MM!AsyncBlockingApply(t, k) 
               \/ MM!TryBlockingApply(t, k) 
        PROVE  ChangeCall(t)
    <3>1. CASE MM!Erase(t, k) \/ MM!AsyncErase(t, k) 
      BY <3>1, MultimapOneStep, MultimapByActivity, MultimapHistories
         DEF MM!Erase, MM!AsyncErase, MM!Local, ChangeCall
    <3>2. CASE \/ MM!AsyncApply(t, k) \/ MM!AsyncApplyWithRetBuff(t, k)
               \/ MM!BlockingApply(t, k) \/ MM!AsyncBlockingApply(t, k)
      BY <3>2, MultimapOneStep, MultimapByActivity, MultimapNoHistory
         DEF MM!AsyncApply, MM!AsyncApplyWithRetBuff, MM!BlockingApply,
             MM!AsyncBlockingApply, ChangeCall
    <3>3. CASE MM!Apply(t, k) \/ MM!TryBlockingApply(t, k)
      <4>1. /\ \E name : 
                 \/ OneStep(t, name, k, "apply")
                 \/ Calling(t, name) /\ AtOnce /\ UNCHANGED <<memory, look>>
            /\ NoHistory
        BY <3>3, MultimapOneStep, MultimapNoHistory, MultimapCalling
           DEF MM!Apply, MM!TryBlockingApply, MM!AtOnce, AtOnce, MM!memory, memory
      <4> QED BY <4>1 DEF ChangeCall
    <3> QED BY <2>3, <3>1, <3>2, <3>3
  <2>4. ASSUME NEW k \in Keys, 
               MM!BufferedInsert(t, k) \/ MM!BufferedAsyncInsert(t, k)
        PROVE  BufferCall(t)
    BY <2>4, MultimapBuffered 
       DEF MM!BufferedInsert, MM!BufferedAsyncInsert, BufferCall
  <2>5. ASSUME MM!WaitForBufferedInsert(t) \/ MM!AsyncWaitForBufferedInsert(t) 
        PROVE  BufferCall(t)
    BY <2>5, MultimapFlushes
       DEF MM!WaitForBufferedInsert, MM!AsyncWaitForBufferedInsert, BufferCall
  <2>11. ASSUME MM!readFromFiles(t) \/ MM!Clear(t) PROVE PlainCall(t)
    BY <2>11, MultimapReads, MultimapEverywhere DEF MM!Clear, PlainCall
  <2>6. ASSUME NEW k \in Keys, MM!Lookup(t, k) PROVE LookupCall(t)
    BY <2>6, MultimapLookups 
       DEF MM!Lookup, MM!TargetLocality, TargetLocality, LookupCall, Place
  <2>7. ASSUME NEW k \in Keys, MM!AsyncLookup(t, k) PROVE LookupCall(t)
    <3> DEFINE values == mem[TargetLocality(k)][k]
    <3>1. \/ MM!Local(t, k) /\ MM!AsyncLookUp(t, "AsyncLookup", k, Home[t])
          \/ /\ Asking(t, "AsyncLookup", "lookup", k, <<>>)
             /\ IF values = <<>> THEN Looked(t) /\ UNCHANGED <<acts, handle>>
                ELSE Leaving(t, {Activity(t, TRUE, TargetLocality(k), 
                                   [op |-> "fetch", values |-> values])})
      BY <2>7, MultimapCalling 
         DEF MM!AsyncLookup, MM!Asking, Asking, MM!Looked, Looked, MM!Leaving, 
             Leaving, MM!Activity, Activity, MM!TargetLocality, TargetLocality,
             MM!Become, Become, MM!NoLook, NoLook, MM!NoHistory, NoHistory,
             MM!history, history, MM!memory, memory
    <3>2. CASE MM!Local(t, k) /\ MM!AsyncLookUp(t, "AsyncLookup", k, Home[t])
      BY <1>2, <3>2, MultimapLookups 
         DEF MM!Local, MM!TargetLocality, TargetLocality, LookupCall, Place
    <3>3. CASE /\ Asking(t, "AsyncLookup", "lookup", k, <<>>)
               /\ values = <<>> /\ Looked(t) /\ UNCHANGED <<acts, handle>>
      <4>1. LookUp(t, "AsyncLookup", k, Place(t, k))
        BY <3>3 DEF LookUp, Place
      <4> QED BY <4>1 DEF LookupCall
    <3>4. CASE /\ Asking(t, "AsyncLookup", "lookup", k, <<>>)
               /\ Leaving(t, {Activity(t, TRUE, TargetLocality(k), 
                                [op |-> "fetch", values |-> values])})
      BY <3>4 DEF FetchLater, LookupCall
    <3> QED BY <3>1, <3>2, <3>3, <3>4
  <2>8. ASSUME MM!Size(t) \/ MM!NumberKeys(t) PROVE SizeCall(t)
    BY <2>8, MultimapSums, MultimapCounted, MultimapAscending 
       DEF MM!Size, MM!NumberKeys, MM!Localities, Localities, SizeCall
  <2>9. ASSUME \/ MM!multimap_begin(t) \/ MM!ForEachEntry(t) 
               \/ MM!AsyncForEachEntry(t) \/ MM!ForEachKey(t) \/ MM!AsyncForEachKey(t)
        PROVE  WalkCall(t)
    BY <2>9, MultimapEverywhere 
       DEF MM!multimap_begin, MM!ForEachEntry, MM!AsyncForEachEntry, 
           MM!ForEachKey, MM!AsyncForEachKey, WalkCall
  <2>10. ASSUME MM!getLocBeginIt(t) \/ MM!increment(t) PROVE WalkStep(t)
    BY <2>10, MultimapSeeks, MultimapAdvances 
       DEF MM!getLocBeginIt, MM!increment, WalkStep
  <2> QED BY <2>1, <2>2, <2>3, <2>4, <2>5, <2>6, <2>7, <2>8, <2>9, <2>10, <2>11
          DEF Classified, PlainCall
<1> QED BY <1>1, <1>2 DEF MM!Next

-----------------------------------------------------------------------------
(* All steps together.                                                     *)

LEMMA Steps == 
  ASSUME ObjectInv, Next
  PROVE  \/ ObjectInv' /\ Aside
         \/ \E t \in Tasks : QuestionStep(t)
<1>1. Step /\ UNCHANGED <<kind, program>>
  BY DEF Next
<1>2. ASSUME NEW t \in Tasks, Classified(t) 
      PROVE  (ObjectInv' /\ Aside) \/ QuestionStep(t)
  BY <1>1, <1>2, PlainCallAside DEF Classified, QuestionStep
<1>3. ASSUME Operation PROVE (ObjectInv' /\ Aside) \/ \E t \in Tasks : QuestionStep(t)
  <2>1. CASE kind = "hashmap" /\ HM!Next
    BY <2>1, <1>2, HashmapCalls
  <2>2. CASE kind = "set" /\ S!Next
    BY <2>2, <1>2, SetCalls
  <2>3. CASE kind = "replicated" /\ R!Next
    BY <2>3, <1>2, ReplicatedHashmapCalls
  <2>4. CASE kind = "multimap" /\ MM!Next
    <3>1. ASSUME NEW a \in acts, ReadFile(a) PROVE ObjectInv' /\ Aside
      BY <1>1, <3>1, ReadFileAside
    <3>2. ASSUME NEW a \in acts, FetchNow(a) 
          PROVE \E t \in Tasks : QuestionStep(t)
      BY <3>2 DEF QuestionStep, ObjectInv, TaskTypes, Activities
    <3> QED BY <2>4, <3>1, <3>2, <1>2, MultimapCalls
  <2> QED BY <1>3, <2>1, <2>2, <2>3, <2>4 DEF Operation
<1>4. ASSUME NEW a \in acts, RunActivity(a) PROVE ObjectInv' /\ Aside
  BY <1>1, <1>4, RunAgainAside, RunWorkAside, RunDeliverAside, RunFlushAside, 
     RunAsyncFlushAside, RunClearAside DEF RunActivity
<1>5. ASSUME NEW a \in acts, AnswerActivity(a) 
      PROVE \E t \in Tasks : QuestionStep(t)
  BY <1>5 DEF AnswerActivity, QuestionStep, ObjectInv, TaskTypes, Activities
<1>6. ASSUME NEW t \in Tasks, Return(t) \/ waitForCompletion(t) \/ Asked(t)
      PROVE  (ObjectInv' /\ Aside) \/ QuestionStep(t)
  BY <1>1, <1>6, ReturnAside DEF Asked, QuestionStep
<1> QED BY <1>1, <1>3, <1>4, <1>5, <1>6 DEF Step

LEMMA Begins == InitContainers => ContainersInv
<1> SUFFICES ASSUME InitContainers PROVE ContainersInv
  OBVIOUS
<1>1. ObjectInv
  BY ObjectsBegin DEF InitContainers
<1>2. /\ \A t \in Tasks : look[t] = NoLook /\ doing[t] = Idle /\ Answering(t) = {}
      /\ DOMAIN seen = Tasks
  BY DEF InitContainers, Init, InitCalls, Answering
<1>3. ASSUME NEW t \in Tasks PROVE QuestionInv(t)
  <2>1. /\ look[t].asks \notin {"lookup", "size", "walk"} /\ look[t] = NoLook
        /\ doing[t].op \in Calm
    BY <1>2 DEF NoLook, Calm, Idle
  <2> QED BY <1>2, <2>1 
     DEF QuestionInv, Open, Watched, LookupRight, SumRight, WalkRight
<1> QED BY <1>1, <1>2, <1>3 DEF ContainersInv

LEMMA Goes == ContainersInv /\ [Next]_vars => ContainersInv'
<1> SUFFICES ASSUME ContainersInv, [Next]_vars PROVE ContainersInv'
  OBVIOUS
<1>1. CASE Next
  <2>1. /\ ObjectInv /\ UNCHANGED <<kind, program>>
        /\ seen' = [t \in Tasks |-> Watch(t)] /\ DOMAIN seen' = Tasks
    BY <1>1 DEF Next, ContainersInv
  <2>2. CASE ObjectInv' /\ Aside
    <3>1. Looking
      BY <2>1, <2>2 DEF Looking
    <3>2. ASSUME NEW t \in Tasks PROVE QuestionInv(t)'
      <4>1. Undisturbed(t)
        BY <2>2 DEF Aside, Undisturbed
      <4> QED BY <3>1, <4>1, UndisturbedKeeps DEF ContainersInv
    <3> QED BY <2>1, <2>2, <3>2 DEF ContainersInv
  <2>3. ASSUME NEW t \in Tasks, QuestionStep(t) PROVE ContainersInv'
    <3>1. Looks(t)
      BY <2>1 DEF Looks, ContainersInv
    <3>2. StaysRight(t)
      BY <2>3, <3>1, QuestionStepRight
    <3>3. Looking
      BY <2>1, <3>2 DEF Looking, StaysRight
    <3>4. ASSUME NEW u \in Tasks, u # t PROVE QuestionInv(u)'
      <4>1. Undisturbed(u) /\ QuestionInv(u)
        BY <3>2, <3>4 DEF StaysRight, ContainersInv
      <4> QED BY <3>3, <4>1, UndisturbedKeeps
    <3> QED BY <2>1, <3>2, <3>4 DEF StaysRight, ContainersInv
  <2> QED BY <1>1, <2>1, <2>2, <2>3, Steps
<1>2. CASE UNCHANGED vars
  <2>1. UNCHANGED <<kind, program, calls, acts, doing, look, mem, buffers, seen>>
    BY <1>2 DEF vars, objectVars, callVars, memory
  <2>2. ObjectInv'
    BY <2>1 DEF ContainersInv, ObjectInv, TaskTypes, MemoryInv, Placed, IsWork
  <2>3. ASSUME NEW t \in Tasks PROVE QuestionInv(t)'
    <3>1. QuestionInv(t) /\ Answering(t)' = Answering(t) /\ Left(t)' = Left(t)
          /\ Sources(t)' = Sources(t) 
      BY <2>1 DEF ContainersInv, Answering, Left, Sources
    <3>2. Matter(mem, t, look[t])' = Matter(mem, t, look[t])
      BY <2>1 DEF Matter, Sources, EntriesIn
    <3>3. \A x : (InPlace(t, x)' <=> InPlace(t, x)) /\ (Ahead(t, x)' <=> Ahead(t, x))
      BY <2>1, <3>1 DEF InPlace, Ahead, Before, Sources
    <3>4. Open(t)'
      BY <2>1, <3>1 DEF QuestionInv, Open, Calm, NoLook
    <3>5. Watched(t)'
      BY <2>1, <3>1, <3>2, <3>3 DEF QuestionInv, Watched, NoLook
    <3>6. LookupRight(t)' /\ SumRight(t)' /\ WalkRight(t)'
      BY <2>1, <3>1, <3>3 
         DEF QuestionInv, LookupRight, SumRight, WalkRight, Place, OneByOne
    <3> QED BY <3>4, <3>5, <3>6 DEF QuestionInv
  <2> QED BY <2>1, <2>2, <2>3 DEF ContainersInv
<1> QED BY <1>1, <1>2

\* a task that has its answer waits for nothing more
LEMMA NothingLeft == 
  ASSUME ContainersInv, NEW t \in Tasks, doing[t].op = "looked"
  PROVE  Answering(t) = {}
BY DEF ContainersInv, QuestionInv, Open, Calm

LEMMA Holds == ContainersInv => SizeBetween /\ TraversalExact /\ LookupTrue
<1> SUFFICES ASSUME ContainersInv 
             PROVE  SizeBetween /\ TraversalExact /\ LookupTrue
  OBVIOUS
<1>1. SizeBetween
  <2>1. SUFFICES ASSUME NEW t \in Tasks, Answered(t, "size")
                 PROVE  /\ look[t].answer >= Cardinality(seen[t].always)
                        /\ look[t].answer <= Cardinality(seen[t].ever)
    BY DEF SizeBetween
  <2>2. Left(t) = {} /\ SumRight(t) /\ look[t].asks = "size"
    BY <2>1 DEF Answered, Left, ContainersInv, QuestionInv
  <2>3. \A s : {x \in s : x[1] \notin {}} = s
    OBVIOUS
  <2> QED BY <2>2, <2>3 DEF SumRight
<1>2. TraversalExact
  <2>1. SUFFICES ASSUME NEW t \in Tasks, Answered(t, "walk")
                 PROVE  /\ seen[t].always \subseteq BagToSet(look[t].answer)
                        /\ BagToSet(look[t].answer) \subseteq seen[t].ever
                        /\ \A e \in seen[t].always : look[t].answer[e] = 1
    BY DEF TraversalExact
  <2>2. /\ doing[t].op = "looked" /\ look[t].asks = "walk" /\ WalkRight(t) 
        /\ Answering(t) = {}
    BY <2>1, NothingLeft DEF Answered, ContainersInv, QuestionInv
  <2>3. \A x : ~ Ahead(t, x)
    BY <2>2 DEF Ahead
  <2> QED BY <2>2, <2>3 DEF WalkRight, BagToSet
<1>3. LookupTrue
  BY NothingLeft 
     DEF LookupTrue, Answered, ContainersInv, QuestionInv, LookupRight
<1> QED BY <1>1, <1>2, <1>3

\* The invariant: whatever the program, the calls and the order of their 
\* activities, each key, in the memory, in a buffer or under way, is at the 
\* locality that the hash function gives it (ObjectInv); and the part of an 
\* answer that a task has so far is right for the part of the container that
\* it has been to.
THEOREM AnswersGrowRight == Spec => []ContainersInv
BY Begins, Goes, PTL DEF Spec

\* A lookup, by the task or by an activity at the locality of the key, answers
\* with values that the key had at some time between the call and the answer.
THEOREM LookupsAreTrue == Spec => []LookupTrue
<1>1. ContainersInv => LookupTrue
  BY Holds
<1> QED BY <1>1, AnswersGrowRight, PTL

\* A Size or NumberKeys, which counts one locality after another, lies between 
\* the number of the entries that were there all the time and the number of
\* those that were there at some time.
THEOREM SizesAreBetween == Spec => []SizeBetween
<1>1. ContainersInv => SizeBetween
  BY Holds
<1> QED BY <1>1, AnswersGrowRight, PTL

\* An iteration and a ForEach pass every entry that stays exactly once and no
\* entry that never was, whatever is inserted and erased meanwhile.
THEOREM TraversalsAreExact == Spec => []TraversalExact
<1>1. ContainersInv => TraversalExact
  BY Holds
<1> QED BY <1>1, AnswersGrowRight, PTL

-----------------------------------------------------------------------------
(* What is promised is there.                                              *)

LEMMA CallPromised == 
  ASSUME ObjectInv, ObjectInv', PromiseInv, UNCHANGED <<kind, program>>, 
         NEW t \in Tasks, Classified(t)
  PROVE  PromiseInv'
BY PlainCallPromised, QuestionPromised DEF Classified, QuestionStep

LEMMA PromisesGo == 
  ASSUME ObjectInv, ObjectInv', PromiseInv, Next
  PROVE  PromiseInv'
<1>1. Step /\ UNCHANGED <<kind, program>>
  BY DEF Next
<1>2. ASSUME Operation PROVE PromiseInv'
  <2>1. CASE kind = "hashmap" /\ HM!Next
    BY <1>1, <2>1, HashmapCalls, CallPromised
  <2>2. CASE kind = "set" /\ S!Next
    BY <1>1, <2>2, SetCalls, CallPromised
  <2>3. CASE kind = "replicated" /\ R!Next
    BY <1>1, <2>3, ReplicatedHashmapCalls, CallPromised
  <2>4. CASE kind = "multimap" /\ MM!Next
    <3>1. ASSUME NEW a \in acts, ReadFile(a) PROVE PromiseInv'
      BY <1>1, <2>4, <3>1, ReadFilePromised
    <3>2. ASSUME NEW a \in acts, FetchNow(a) PROVE PromiseInv'
      <4>1. a.task \in Tasks /\ QuestionStep(a.task)
        BY <3>2 DEF QuestionStep, ObjectInv, TaskTypes, Activities
      <4> QED BY <1>1, <4>1, QuestionPromised
    <3>3. CASE \E t \in Tasks : Classified(t)
      BY <1>1, <3>3, CallPromised
    <3> QED BY <2>4, <3>1, <3>2, <3>3, MultimapCalls
  <2> QED BY <1>2, <2>1, <2>2, <2>3, <2>4 DEF Operation
<1>3. ASSUME NEW a \in acts, RunActivity(a) PROVE PromiseInv'
  BY <1>1, <1>3, RunPromised
<1>4. ASSUME NEW a \in acts, AnswerActivity(a) PROVE PromiseInv'
  <2>1. a.task \in Tasks /\ QuestionStep(a.task)
    BY <1>4 DEF AnswerActivity, QuestionStep, ObjectInv, TaskTypes, Activities
  <2> QED BY <1>1, <2>1, QuestionPromised
<1>5. ASSUME NEW t \in Tasks, Return(t) \/ waitForCompletion(t)
      PROVE  PromiseInv'
  BY <1>1, <1>5, ReturnPromised
<1>6. ASSUME NEW t \in Tasks, Asked(t) PROVE PromiseInv'
  <2>1. QuestionStep(t)
    BY <1>6 DEF Asked, QuestionStep
  <2> QED BY <1>1, <2>1, QuestionPromised
<1> QED BY <1>1, <1>2, <1>3, <1>4, <1>5, <1>6 DEF Step

LEMMA PromisesKeep == 
  ContainersInv /\ ContainersInv' /\ PromiseInv /\ [Next]_vars => PromiseInv'
<1> SUFFICES ASSUME ObjectInv, ObjectInv', PromiseInv, [Next]_vars
             PROVE  PromiseInv'
  BY DEF ContainersInv
<1>1. CASE Next
  BY <1>1, PromisesGo
<1>2. CASE UNCHANGED vars
  BY <1>2, PromisesStay DEF vars
<1> QED BY <1>1, <1>2

LEMMA PromisesAll == ContainersInv /\ PromiseInv => Delivered
BY PromisesHold DEF ContainersInv, Delivered

\* The invariant of the insertions: one flush at a time, which is after what
\* it has to flush (FlushInv); a key that one may rely on is there, or what 
\* brings it is under way and its task has not yet waited for it (SafeInv); and
\* in a multimap the values of a key and the insertions in buffers and under
\* way add up to those that are promised and those that are not (CountInv).
THEOREM PromisesAreKept == Spec => [](ContainersInv /\ PromiseInv)
<1>1. InitContainers => PromiseInv
  BY Begins, PromisesBegin DEF InitContainers, ContainersInv
<1> QED BY <1>1, PromisesKeep, AnswersGrowRight, PTL DEF Spec

\* An insertion whose call has returned, whose handle was waited for or whose 
\* buffers were flushed is where lookups look for it, unless its key was to be
\* erased; a multimap has no value more than were inserted.
THEOREM InsertionsAreDelivered == Spec => []Delivered
BY PromisesAll, PromisesAreKept, PTL
=============================================================================
