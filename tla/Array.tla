-------------------------------- MODULE Array --------------------------------
(***************************************************************************)
(* The operations of shad::Array on its elements.  Where they are and how  *)
(* a range is cut into pieces is in Distribution.tla.                      *)
(***************************************************************************)
EXTENDS Elements

CONSTANT MaxChunkSize   \* kMaxChunkSize: elements of one message

D == INSTANCE Distribution

L == NumLocalities
Elsewhere == L   \* a locality that is nobody's home

\* data_: without elements of the array, a locality still has one in memory
DataSize(n, l) == 
  IF l < D!Pivot("Array", n, L) /\ n \div L > 0 THEN n \div L ELSE n \div L + 1

\* the element at position p is p + 1, as if it had been inserted
Data(n, l) == 
  LET first == D!DataDistribution(n, L, l)[1]
  IN  [i \in 1..DataSize(n, l) |-> 
         IF l >= D!Begin("Array", n, L).loc THEN first + i ELSE 0]

InitArray(n) == 
  InitElements([l \in Localities |-> Data(n, l)], n, n, 
               [p \in Positions |-> IF p < n THEN p + 1 ELSE Unwritten])

PlaceInArray(p) == D!Target(size, L, p)

Whole(l) == 
  Piece(l, 0, D!DataDistribution(size, L, l)[1], DataSize(size, l))
Single(p) == <<Piece(PlaceInArray(p).loc, PlaceInArray(p).off, p, 1)>>
Cut(p, n) == D!Pieces(size, L, Elsewhere, size, p, n)
\* what comes from this locality's own memory is copied in one piece
Messages(t, p, n) == D!Pieces(size, L, Home[t], MaxChunkSize, p, n)

InArray(p, n) == p + n <= size

-----------------------------------------------------------------------------
InsertOneAt(t, p) == Synchronous(t, "InsertOneAt", "write", Single(p))
AsyncInsertOneAt(t, p) == 
  Asynchronous(t, "AsyncInsertOneAt", "write", Single(p), {Home[t]})
InsertRangeAt(t, p, n) == 
  Synchronous(t, "InsertRangeAt", "write", Messages(t, p, n))
AsyncInsertRangeAt(t, p, n) == 
  Asynchronous(t, "AsyncInsertRangeAt", "write", Messages(t, p, n), {Home[t]})

At(t, p) == Synchronous(t, "At", "read", Single(p))
AsyncAt(t, p) == Asynchronous(t, "AsyncAt", "read", Single(p), {Home[t]})

Apply(t, p) == Synchronous(t, "Apply", "apply", Single(p))
AsyncApply(t, p) == Asynchronous(t, "AsyncApply", "apply", Single(p), {})
AsyncApplyWithRetBuff(t, p) == 
  Asynchronous(t, "AsyncApplyWithRetBuff", "fetch", Single(p), {})

ForEachInRange(t, p, n) == 
  Synchronous(t, "ForEachInRange", "apply", Cut(p, n))
AsyncForEachInRange(t, p, n) == 
  Asynchronous(t, "AsyncForEachInRange", "apply", Cut(p, n), {})

\* all elements at once, each locality its own, if every locality has some
ForEach(t) == 
  \/ size < L /\ Synchronous(t, "ForEach", "apply", Cut(0, size))
  \/ size >= L /\ Together(t, "ForEach", "apply", 
                     [i \in 1..L |-> Whole(i - 1)])

Spread(l) == [op |-> "spread", job |-> Job("apply", Whole(l), calls)]

AsyncForEach(t) == 
  \/ size < L /\ Asynchronous(t, "AsyncForEach", "apply", Cut(0, size), {})
  \/ /\ size >= L /\ Calling(t, "AsyncForEach")
     /\ Claim(t, "handle", "apply", 0..size - 1)
     /\ Leaving(t, {Activity(t, TRUE, l, Spread(l)) : l \in Localities})
     /\ UNCHANGED <<storage, answers>>

RunSpread(a) == 
  /\ a.work.op = "spread" /\ Running(a, {[a EXCEPT !.work = a.work.job]})
  /\ NoClaim /\ UNCHANGED <<storage, answers>>

\* by direct memory access; with fewer elements than localities, the loop
\* ends at n, so that a program can only read from position 0
AsyncGetElements(t, p, n) == 
  /\ size < L => p = 0
  /\ Asynchronous(t, "AsyncGetElements", "read", Cut(p, n), 
                  IF size < L THEN {Home[t]} ELSE {})
AsyncPutElements(t, p, n) == 
  Asynchronous(t, "AsyncPutElements", "write", Cut(p, n), 
               IF size < L THEN {Home[t]} ELSE {})

-----------------------------------------------------------------------------
(* exclusiveScan: each locality computes its sums; then the first adds the *)
(* sum before it to its own, and hands the next one the sum so far.        *)
Sum(s) == FoldLeft(LAMBDA x, y : x + y, 0, s)
Before(p) == MapThenSumSet(LAMBDA q : wanted[q], 0..p - 1)

exclusiveScan(t) == 
  /\ Calling(t, "exclusiveScan") /\ InUse = {}
  /\ using' = [using EXCEPT ![t].call = 0..size - 1]
  /\ wanted' = [p \in Positions |-> 
                  IF p < size THEN Before(p) ELSE wanted[p]]
  /\ Waiting(t, OnAll(t, FALSE, [op |-> "localInclusiveScan"]), "summing")
  /\ UNCHANGED <<storage, asked, answers>>

localInclusiveScan(a) == 
  /\ a.work.op = "localInclusiveScan" /\ Running(a, {})
  /\ mem' = [mem EXCEPT ![a.at] = 
              [i \in DOMAIN @ |-> Sum(SubSeq(mem[a.at], 1, i))]]
  /\ NoClaim /\ UNCHANGED <<size, capacity, lock, answers>>

Shift(a, p, delta) == 
  [a EXCEPT !.at = PlaceInArray(p).loc, 
            !.work = [op |-> "shift", pos |-> p, delta |-> delta]]

StartShift(t) == 
  /\ doing[t].op = "summing" /\ Mine(t, FALSE) = {}
  /\ acts' = acts \cup {Shift(Activity(t, FALSE, 0, <<>>), 0, 0)}
  /\ Become(t, [op |-> "called"])
  /\ NoClaim /\ UNCHANGED <<calls, handle, storage, answers>>

\* mutant: the next locality is handed this one's sum alone
exclusiveScanForgets(a) == 
  LET data == mem[a.at]
      next == a.work.pos + Len(data)
  IN  /\ a.work.op = "shift"
      /\ Running(a, IF next < size THEN {Shift(a, next, Last(data))} ELSE {})
      /\ mem' = [mem EXCEPT ![a.at] = [i \in DOMAIN data |-> 
                  a.work.delta + IF i = 1 THEN 0 ELSE data[i - 1]]]
      /\ NoClaim /\ UNCHANGED <<size, capacity, lock, answers>>

exclusiveScanRecursive(a) == 
  LET data == mem[a.at]
      next == a.work.pos + Len(data)
  IN  /\ a.work.op = "shift"
      /\ Running(a, IF next < size 
                      THEN {Shift(a, next, a.work.delta + Last(data))} ELSE {})
      /\ mem' = [mem EXCEPT ![a.at] = [i \in DOMAIN data |-> 
                  a.work.delta + IF i = 1 THEN 0 ELSE data[i - 1]]]
      /\ NoClaim /\ UNCHANGED <<size, capacity, lock, answers>>

-----------------------------------------------------------------------------
OnPosition(t, p) == 
  \/ InsertOneAt(t, p) \/ AsyncInsertOneAt(t, p) \/ At(t, p) \/ AsyncAt(t, p)
  \/ Apply(t, p) \/ AsyncApply(t, p) \/ AsyncApplyWithRetBuff(t, p)

OnRange(t, p, n) == 
  \/ InsertRangeAt(t, p, n) \/ AsyncInsertRangeAt(t, p, n)
  \/ ForEachInRange(t, p, n) \/ AsyncForEachInRange(t, p, n)
  \/ AsyncGetElements(t, p, n) \/ AsyncPutElements(t, p, n)

Next == 
  \/ \E t \in Tasks : 
       \/ \E r \in {r \in program.ranges : InArray(r[1], r[2])} : 
            OnPosition(t, r[1]) \/ OnRange(t, r[1], r[2])
       \/ ForEach(t) \/ AsyncForEach(t) \/ exclusiveScan(t) \/ StartShift(t)
  \/ \E a \in acts : 
       RunSpread(a) \/ localInclusiveScan(a) \/ exclusiveScanRecursive(a)
=============================================================================
