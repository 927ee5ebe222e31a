--------------------------- MODULE Runtime_proofs ----------------------------
(***************************************************************************)
(* Proofs about Runtime, for any number of tasks and localities, any       *)
(* lengths of the loops and any mapping: the chunks of a loop are its      *)
(* indices, each in one chunk, and the calls, handles and waits keep what  *)
(* Completion promises: everything runs once, a synchronous call returns   *)
(* after all it started, and a wait after all that was started with the    *)
(* handle.  That both do return is liveness, and left to TLC.              *)
(***************************************************************************)
EXTENDS Runtime, TLAPS

-----------------------------------------------------------------------------
(* The inductive invariant.                                                *)
Job == [task : Tasks, number : Nat, call : Calls, group : Tasks \X Nat, 
        at : Int, from : Nat, count : Nat \ {0}, spawned : BOOLEAN]
Statuses == {"idle", "called", "inline", "waiting"}

TypeInv == 
  /\ mapping \in Mappings
  /\ handle \in [Tasks -> Nat] /\ handles \in [Tasks -> Nat]
  /\ status \in [Tasks -> Statuses]
  /\ made \in [Tasks -> Nat]
  /\ jobs \subseteq Job

\* a job belongs to a call that was made, and an asynchronous one to the 
\* handle that its task has; in cpp_simple its call has not returned
Grouped(j) == 
  /\ j.number < made[j.task]
  /\ ~j.call.async => j.group = <<j.task, 0>>
  /\ j.call.async => handle[j.task] # 0 /\ j.group = <<j.task, handle[j.task]>>
  /\ mapping = "cpp" /\ j.call.async => status[j.task] = "inline"

\* the indices of two jobs are different, and so are the functions they start
Apart(j, k) == 
  \/ j.task # k.task \/ j.number # k.number \/ j.at # k.at
  \/ j.from + j.count <= k.from \/ k.from + k.count <= j.from

\* what has run belongs to no job but as the function that started it
Item == {0, 1} \X Int \X Nat
Past(x, j) == 
  \/ x.task # j.task \/ x.number # j.number \/ x.item[2] # j.at
  \/ x.item[3] < j.from \/ j.from + j.count <= x.item[3]
  \/ j.spawned /\ x.item[1] = 0

RuntimeInv == 
  /\ TypeInv
  /\ \A j \in jobs : Grouped(j)
  /\ \A j, k \in jobs : j = k \/ Apart(j, k)
  /\ ran \subseteq [task : Tasks, number : Nat, call : Calls, item : Item]
  /\ \A x \in ran : x.number < made[x.task] /\ \A j \in jobs : Past(x, j)

-----------------------------------------------------------------------------
(* The pieces of a call are its indices, each once.                        *)

IsPieces(pieces) == 
  /\ pieces \subseteq [at : Int, from : Nat, count : Nat \ {0}]
  /\ \A p, q \in pieces : 
       \/ p = q \/ p.at # q.at 
       \/ p.from + p.count <= q.from \/ q.from + q.count <= p.from

Indices(pieces) == 
  UNION {{<<0, p.at, i>> : i \in p.from..p.from + p.count - 1} : p \in pieces}

LEMMA TimesIsMonotone == 
  ASSUME NEW a \in Nat, NEW b \in Nat, NEW w \in Nat, a <= b
  PROVE  a * w <= b * w
<1>1. PICK c \in Nat : b = a + c
  BY b - a \in Nat, b = a + (b - a)
<1>2. b * w = a * w + c * w /\ a * w \in Nat /\ c * w \in Nat
  BY <1>1
<1> QED BY <1>2

LEMMA Quotient == 
  ASSUME NEW a \in Nat, NEW w \in Nat \ {0}
  PROVE  /\ a \div w \in Nat /\ (a \div w) * w <= a 
         /\ a < (a \div w) * w + w
OBVIOUS

LEMMA TimesOneMore == 
  ASSUME NEW a \in Nat, NEW w \in Nat
  PROVE  (a + 1) * w = a * w + w /\ a * w \in Nat
OBVIOUS

\* a GMT loop cuts its indices in chunks, without a gap or an overlap
LEMMA ChunksOfLoop == 
  ASSUME NEW at \in Int, NEW n \in Nat \ {0}, NEW w \in Nat \ {0}
  PROVE  /\ IsPieces(gmt_for_loop(at, n, w))
         /\ Indices(gmt_for_loop(at, n, w)) = {0} \X {at} \X (0..n - 1)
<1> DEFINE M == (n - 1) \div w
           Count(i) == IF (i + 1) * w <= n THEN w ELSE n - i * w
           P(i) == Piece(at, i * w, Count(i))
           L == gmt_for_loop(at, n, w)
<1>1. L = {P(i) : i \in 0..M}
  BY DEF gmt_for_loop
<1>2. M \in Nat /\ M * w <= n - 1 /\ n - 1 < M * w + w
  BY n - 1 \in Nat, Quotient
<1> HIDE DEF M
<1>3. ASSUME NEW i \in 0..M
      PROVE  /\ i * w \in Nat /\ i * w + w = (i + 1) * w /\ i * w <= n - 1
             /\ Count(i) \in Nat \ {0} 
             /\ i * w + Count(i) <= n /\ Count(i) <= w
             /\ (i * w + w <= n => Count(i) = w) 
             /\ (n < i * w + w => i * w + Count(i) = n)
  <2>1. i \in Nat /\ i * w <= M * w
    BY <1>2, TimesIsMonotone
  <2>2. i * w \in Nat /\ (i + 1) * w = i * w + w
    BY <2>1, TimesOneMore
  <2> DEFINE iw == i * w
             mw == M * w
             iw1 == (i + 1) * w
  <2>3. iw \in Nat /\ iw1 = iw + w /\ iw <= mw /\ mw <= n - 1 /\ mw \in Nat
    BY <1>2, <2>1, <2>2, TimesOneMore
  <2>4. Count(i) = IF iw1 <= n THEN w ELSE n - iw
    OBVIOUS
  <2> HIDE DEF iw, mw, iw1, Count
  <2>5. /\ iw \in Nat /\ iw + w = iw1 /\ iw <= n - 1 /\ Count(i) \in Nat \ {0} 
        /\ iw + Count(i) <= n /\ Count(i) <= w
        /\ (iw + w <= n => Count(i) = w) /\ (n < iw + w => iw + Count(i) = n)
    BY <2>3, <2>4
  <2> QED BY <2>5 DEF iw, iw1
<1> HIDE DEF Count
<1>4. \A i \in 0..M : P(i) \in [at : Int, from : Nat, count : Nat \ {0}]
                      /\ P(i).at = at /\ P(i).from = i * w /\ P(i).count = Count(i)
  BY <1>3 DEF Piece
<1>5. ASSUME NEW i \in 0..M, NEW j \in 0..M, i < j
      PROVE  i * w + Count(i) <= j * w
  <2>1. (i + 1) * w <= j * w
    BY <1>2, <1>5, TimesIsMonotone
  <2> DEFINE iw == i * w
             jw == j * w
  <2>2. iw + w <= jw /\ iw \in Nat /\ jw \in Nat /\ Count(i) <= w /\ Count(i) \in Nat
    BY <2>1, <1>3
  <2> HIDE DEF iw, jw
  <2>3. iw + Count(i) <= jw
    BY <2>2
  <2> QED BY <2>3 DEF iw, jw
<1>6. IsPieces(L)
  <2>1. ASSUME NEW i \in 0..M, NEW j \in 0..M
        PROVE  \/ P(i) = P(j) 
               \/ P(i).from + P(i).count <= P(j).from 
               \/ P(j).from + P(j).count <= P(i).from
    <3>1. i = j \/ i < j \/ j < i
      BY <1>2
    <3> QED BY <3>1, <1>4, <1>5
  <2> HIDE DEF P
  <2> QED BY <1>1, <1>4, <2>1 DEF IsPieces
<1>7. Indices(L) \subseteq {0} \X {at} \X (0..n - 1)
  <2>1. ASSUME NEW i \in 0..M, NEW x \in P(i).from..P(i).from + P(i).count - 1
        PROVE  <<0, P(i).at, x>> \in {0} \X {at} \X (0..n - 1)
    <3> DEFINE iw == i * w
    <3>1. /\ iw \in Nat /\ Count(i) \in Nat /\ iw + Count(i) <= n 
          /\ x \in iw..iw + Count(i) - 1 /\ P(i).at = at
      BY <1>3, <1>4
    <3> HIDE DEF iw, P
    <3>2. x \in 0..n - 1
      BY <3>1
    <3> QED BY <3>1, <3>2
  <2> HIDE DEF P
  <2> QED BY <1>1, <2>1 DEF Indices
<1>8. ASSUME NEW x \in 0..n - 1 PROVE <<0, at, x>> \in Indices(L)
  <2> DEFINE i == x \div w
             iw == i * w
             mw == M * w
  <2>1. i \in Nat /\ iw <= x /\ x < iw + w /\ iw \in Nat /\ mw \in Nat
    BY <1>2, Quotient, TimesOneMore
  <2>2. i <= M
    <3>1. CASE M < i
      <4>1. (M + 1) * w <= iw /\ (M + 1) * w = mw + w
        BY <1>2, <2>1, <3>1, TimesIsMonotone, TimesOneMore
      <4>2. mw + w <= iw /\ n - 1 < mw + w
        BY <4>1, <1>2
      <4> HIDE DEF i, iw, mw
      <4> QED BY <2>1, <4>2
    <3> HIDE DEF i
    <3> QED BY <3>1, <1>2, <2>1
  <2>3. i \in 0..M
    BY <1>2, <2>1, <2>2
  <2>4. x \in P(i).from..P(i).from + P(i).count - 1 /\ P(i).at = at
    <3>1. /\ P(i).from = iw /\ P(i).count = Count(i) /\ P(i).at = at
          /\ Count(i) \in Nat
          /\ (iw + w <= n => Count(i) = w) /\ (n < iw + w => iw + Count(i) = n)
      BY <1>3, <1>4, <2>3
    <3> HIDE DEF i, iw, P
    <3> QED BY <3>1, <2>1
  <2> HIDE DEF P, i
  <2> QED BY <1>1, <2>3, <2>4 DEF Indices
<1> QED BY <1>6, <1>7, <1>8

LEMMA PieceParts == 
  ASSUME NEW at \in Int, NEW from \in Nat, NEW count \in Nat \ {0}
  PROVE  /\ Piece(at, from, count) \in [at : Int, from : Nat, count : Nat \ {0}]
         /\ Piece(at, from, count).at = at /\ Piece(at, from, count).from = from
         /\ Piece(at, from, count).count = count
BY DEF Piece

\* one piece for all indices, or none if there are none
LEMMA OnePiece == 
  ASSUME NEW at \in Int, NEW n \in Nat \ {0}
  PROVE  /\ IsPieces({Piece(at, 0, n)})
         /\ Indices({Piece(at, 0, n)}) = {0} \X {at} \X (0..n - 1)
<1> DEFINE p == Piece(at, 0, n)
<1>1. /\ p \in [at : Int, from : Nat, count : Nat \ {0}]
      /\ p.at = at /\ p.from = 0 /\ p.count = n
  BY PieceParts
<1> HIDE DEF p
<1>2. IsPieces({p})
  BY <1>1 DEF IsPieces
<1>3. Indices({p}) = {<<0, p.at, i>> : i \in p.from..p.from + p.count - 1}
  BY DEF Indices
<1>4. p.from..p.from + p.count - 1 = 0..n - 1
  BY <1>1
<1>5. Indices({p}) = {<<0, at, i>> : i \in 0..n - 1}
  BY <1>1, <1>3, <1>4
<1>6. {<<0, at, i>> : i \in 0..n - 1} = {0} \X {at} \X (0..n - 1)
  OBVIOUS
<1> QED BY <1>2, <1>5, <1>6 DEF p

LEMMA NoPiece == 
  ASSUME NEW at 
  PROVE  IsPieces({}) /\ Indices({}) = {0} \X {at} \X (0..0 - 1)
BY DEF IsPieces, Indices

\* one piece for each index
LEMMA EveryPiece == 
  ASSUME NEW at \in Int, NEW n \in Nat
  PROVE  /\ IsPieces(EachIndex(at, n))
         /\ Indices(EachIndex(at, n)) = {0} \X {at} \X (0..n - 1)
<1>1. \A i \in 0..n - 1 : 
        /\ Piece(at, i, 1) \in [at : Int, from : Nat, count : Nat \ {0}]
        /\ Piece(at, i, 1).at = at /\ Piece(at, i, 1).from = i
        /\ Piece(at, i, 1).count = 1
  BY PieceParts
<1>2. IsPieces(EachIndex(at, n))
  BY <1>1 DEF IsPieces, EachIndex
<1>3. ASSUME NEW i \in 0..n - 1 
      PROVE  {<<0, Piece(at, i, 1).at, x>> : 
                x \in Piece(at, i, 1).from..Piece(at, i, 1).from + Piece(at, i, 1).count - 1} 
             = {<<0, at, i>>}
  <2>1. i..i + 1 - 1 = {i}
    OBVIOUS
  <2> QED BY <1>1, <2>1
<1>4. Indices(EachIndex(at, n)) = UNION {{<<0, at, i>>} : i \in 0..n - 1}
  BY <1>3 DEF Indices, EachIndex
<1> QED BY <1>2, <1>4

\* one piece at each locality
LEMMA PieceOnAll == 
  ASSUME NEW n \in Nat
  PROVE  /\ IsPieces({Piece(l, 0, 1) : l \in 0..n - 1})
         /\ Indices({Piece(l, 0, 1) : l \in 0..n - 1}) = {0} \X (0..n - 1) \X {0}
<1>1. \A l \in 0..n - 1 : 
        /\ Piece(l, 0, 1) \in [at : Int, from : Nat, count : Nat \ {0}]
        /\ Piece(l, 0, 1).at = l /\ Piece(l, 0, 1).from = 0
        /\ Piece(l, 0, 1).count = 1
  BY PieceParts
<1>2. IsPieces({Piece(l, 0, 1) : l \in 0..n - 1})
  BY <1>1 DEF IsPieces
<1>3. ASSUME NEW l \in 0..n - 1 
      PROVE  {<<0, Piece(l, 0, 1).at, x>> : 
                x \in Piece(l, 0, 1).from..Piece(l, 0, 1).from + Piece(l, 0, 1).count - 1} 
             = {<<0, l, 0>>}
  <2>1. 0..0 + 1 - 1 = {0}
    OBVIOUS
  <2> QED BY <1>1, <2>1
<1>4. Indices({Piece(l, 0, 1) : l \in 0..n - 1}) = UNION {{<<0, l, 0>>} : l \in 0..n - 1}
  BY <1>3 DEF Indices
<1> QED BY <1>2, <1>4

LEMMA WorkloadIsPositive == 
  ASSUME NEW a \in Nat, NEW b \in Nat \ {0} 
  PROVE  Larger(a \div b, 1) \in Nat \ {0}
BY Quotient DEF Larger

\* What a call asks for is what its pieces run.
Asks(pieces, c) == IsPieces(pieces) /\ Indices(pieces) = Promise!Items(c)

LEMMA CallFacts == 
  ASSUME NEW c \in Calls, mapping \in Mappings
  PROVE  /\ c.f \in {"executeAt", "dma", "executeOnAll", "forEachAt", "forEachOnAll"}
         /\ c.async \in BOOLEAN /\ c.spawns \in BOOLEAN /\ c.loc \in Nat /\ c.n \in Nat
         /\ NumLocalities \in Nat \ {0} /\ At(c) \in Int /\ Promise!At(c) = At(c)
         /\ mapping # "gmt" => allLocalities = {0}
<1>1. /\ c.f \in {"executeAt", "dma", "executeOnAll", "forEachAt", "forEachOnAll"}
      /\ c.async \in BOOLEAN /\ c.spawns \in BOOLEAN /\ c.loc \in Nat /\ c.n \in Nat
  BY CallsAssumption
<1>2. NumLocalities \in Nat \ {0} /\ (mapping # "gmt" => NumLocalities = 1)
  BY SizesAssumption DEF NumLocalities
<1> QED BY <1>1, <1>2 DEF At, Promise!At, allLocalities

LEMMA OnceAsks == 
  ASSUME NEW c \in Calls, mapping \in Mappings, c.f \in {"executeAt", "dma"}
  PROVE  Asks(Once(At(c)), c)
<1>1. Promise!Items(c) = {0} \X {At(c)} \X {0}
  BY CallFacts DEF Promise!Items
<1>2. IsPieces(Once(At(c))) /\ Indices(Once(At(c))) = {0} \X {At(c)} \X (0..1 - 1)
  <2>1. At(c) \in Int /\ 1 \in Nat \ {0}
    BY CallFacts
  <2>2. \A n \in Nat \ {0} : 
          /\ IsPieces({Piece(At(c), 0, n)})
          /\ Indices({Piece(At(c), 0, n)}) = {0} \X {At(c)} \X (0..n - 1)
    BY <2>1, OnePiece
  <2> QED BY <2>1, <2>2 DEF Once
<1>3. 0..1 - 1 = {0}
  OBVIOUS
<1>4. Indices(Once(At(c))) = Promise!Items(c)
  BY <1>1, <1>2, <1>3
<1> QED BY <1>2, <1>4 DEF Asks

LEMMA OnAllAsks == 
  ASSUME NEW c \in Calls, mapping \in Mappings, c.f = "executeOnAll"
  PROVE  /\ Asks({Piece(l, 0, 1) : l \in allLocalities}, c)
         /\ mapping # "gmt" => Asks(Once(0), c)
<1>1. Promise!Items(c) = {0} \X (0..NumLocalities - 1) \X {0}
  BY DEF Promise!Items
<1>2. Asks({Piece(l, 0, 1) : l \in allLocalities}, c)
  BY <1>1, CallFacts, PieceOnAll DEF Asks, allLocalities
<1>3. mapping # "gmt" => {Piece(l, 0, 1) : l \in allLocalities} = Once(0)
  BY CallFacts DEF Once
<1> QED BY <1>2, <1>3

\* a loop at the place at, in one piece, in single indices or in chunks
LEMMA LoopAsks == 
  ASSUME NEW c \in Calls, mapping \in Mappings, 
         NEW at, \/ c.f = "forEachAt" /\ at = At(c)
                 \/ c.f = "forEachOnAll" /\ at = AnyWhere
  PROVE  /\ c.n = 0 => Asks({}, c)
         /\ c.n # 0 => Asks({Piece(at, 0, c.n)}, c)
         /\ Asks(EachIndex(at, c.n), c)
         /\ c.n # 0 => \A w \in Nat \ {0} : Asks(gmt_for_loop(at, c.n, w), c)
<1>1. at \in Int /\ c.n \in Nat /\ Promise!Items(c) = {0} \X {at} \X (0..c.n - 1)
  BY CallFacts DEF Promise!Items, AnyWhere, Promise!AnyWhere
<1> DEFINE n == c.n
<1>2. n = 0 => Asks({}, c)
  BY <1>1, NoPiece DEF Asks
<1>3. n # 0 => Asks({Piece(at, 0, n)}, c)
  BY <1>1, OnePiece DEF Asks
<1>4. Asks(EachIndex(at, n), c)
  BY <1>1, EveryPiece DEF Asks
<1>5. ASSUME n # 0, NEW w \in Nat \ {0} PROVE Asks(gmt_for_loop(at, n, w), c)
  <2>1. IsPieces(gmt_for_loop(at, n, w))
        /\ Indices(gmt_for_loop(at, n, w)) = {0} \X {at} \X (0..n - 1)
    BY <1>1, <1>5, ChunksOfLoop
  <2> QED BY <1>1, <2>1 DEF Asks
<1> QED BY <1>2, <1>3, <1>4, <1>5

LEMMA GmtLoopAsks == 
  ASSUME NEW c \in Calls, mapping \in Mappings, c.n # 0
  PROVE  /\ c.f = "forEachAt" => Asks(LoopAt(c), c)
         /\ c.f = "forEachOnAll" => \A m \in Nat \ {0} : Asks(LoopOnAll(c, m), c)
<1>1. /\ Workers * OverSubscription \in Nat \ {0} /\ NumNodes \in Nat \ {0}
      /\ c.n \in Nat
  BY SizesAssumption, CallFacts
<1>2. Larger(c.n \div (Workers * OverSubscription), 1) \in Nat \ {0}
  BY <1>1, WorkloadIsPositive
<1>3. ASSUME NEW m \in Nat \ {0} PROVE Larger((c.n \div NumNodes) \div m, 1) \in Nat \ {0}
  <2>1. c.n \div NumNodes \in Nat
    BY <1>1, Quotient
  <2> QED BY <2>1, WorkloadIsPositive
<1> QED BY <1>2, <1>3, LoopAsks DEF LoopAt, LoopOnAll

LEMMA CallsAsk == 
  ASSUME NEW c \in Calls, mapping \in Mappings
  PROVE  Asks(Synchronous(c)[mapping], c) /\ Asks(Asynchronous(c)[mapping], c)
<1>0. Workers \in Nat \ {0} /\ Workers * OverSubscription \in Nat \ {0}
  BY SizesAssumption
<1> USE CallFacts
<1>1. CASE c.f \in {"executeAt", "dma"}
  <2>1. Synchronous(c)[mapping] = Once(At(c)) /\ Asynchronous(c)[mapping] = Once(At(c))
    BY <1>1 DEF Mappings, Synchronous, Asynchronous, cpp_executeAt, tbb_executeAt, 
       gmt_executeAt, cpp_asyncExecuteAt, tbb_asyncExecuteAt, gmt_asyncExecuteAt
  <2> QED BY <1>1, <2>1, OnceAsks
<1>2. CASE c.f = "executeOnAll"
  <2>1. /\ Synchronous(c)[mapping] = Asynchronous(c)[mapping] 
        /\ Synchronous(c)[mapping] = 
             IF mapping = "gmt" THEN {Piece(l, 0, 1) : l \in allLocalities} ELSE Once(0)
    BY <1>2 DEF Mappings, Synchronous, Asynchronous, cpp_executeOnAll, tbb_executeOnAll, 
       gmt_executeOnAll, cpp_asyncExecuteOnAll, tbb_asyncExecuteOnAll, 
       gmt_asyncExecuteOnAll
  <2> QED BY <1>2, <2>1, OnAllAsks
<1>3. CASE c.f = "forEachAt"
  <2>1. /\ Synchronous(c)[mapping] = Asynchronous(c)[mapping] 
        /\ mapping = "tbb" => Synchronous(c)[mapping] = EachIndex(At(c), c.n)
        /\ mapping # "tbb" /\ c.n = 0 => Synchronous(c)[mapping] = {}
        /\ mapping = "cpp" /\ c.n # 0 => Synchronous(c)[mapping] = {Piece(At(c), 0, c.n)}
        /\ mapping = "gmt" /\ c.n # 0 => Synchronous(c)[mapping] = LoopAt(c)
    BY <1>3 DEF Mappings, Synchronous, Asynchronous, cpp_forEachAt, tbb_forEachAt, 
       gmt_forEachAt, cpp_asyncForEachAt, tbb_asyncForEachAt, gmt_asyncForEachAt
  <2>2. /\ c.n = 0 => Asks({}, c)
        /\ c.n # 0 => Asks({Piece(At(c), 0, c.n)}, c) /\ Asks(LoopAt(c), c)
        /\ Asks(EachIndex(At(c), c.n), c)
    BY <1>3, LoopAsks, GmtLoopAsks
  <2>3. mapping = "cpp" \/ mapping = "tbb" \/ mapping = "gmt"
    BY DEF Mappings
  <2> QED BY <2>1, <2>2, <2>3
<1>4. CASE c.f = "forEachOnAll"
  <2>1. /\ mapping = "tbb" => /\ Synchronous(c)[mapping] = EachIndex(AnyWhere, c.n)
                              /\ Asynchronous(c)[mapping] = EachIndex(AnyWhere, c.n)
        /\ mapping # "tbb" /\ c.n = 0 
             => Synchronous(c)[mapping] = {} /\ Asynchronous(c)[mapping] = {}
        /\ mapping = "cpp" /\ c.n # 0 
             => /\ Synchronous(c)[mapping] = {Piece(AnyWhere, 0, c.n)}
                /\ Asynchronous(c)[mapping] = {Piece(AnyWhere, 0, c.n)}
        /\ mapping = "gmt" /\ c.n # 0 
             => /\ Synchronous(c)[mapping] = LoopOnAll(c, Workers)
                /\ Asynchronous(c)[mapping] = LoopOnAll(c, Workers * OverSubscription)
    BY <1>4 DEF Mappings, Synchronous, Asynchronous, cpp_forEachOnAll, tbb_forEachOnAll, 
       gmt_forEachOnAll, cpp_asyncForEachOnAll, tbb_asyncForEachOnAll, 
       gmt_asyncForEachOnAll
  <2>2. /\ c.n = 0 => Asks({}, c)
        /\ c.n # 0 => /\ Asks({Piece(AnyWhere, 0, c.n)}, c) 
                      /\ Asks(LoopOnAll(c, Workers), c)
                      /\ Asks(LoopOnAll(c, Workers * OverSubscription), c)
        /\ Asks(EachIndex(AnyWhere, c.n), c)
    BY <1>0, <1>4, LoopAsks, GmtLoopAsks
  <2>3. mapping = "cpp" \/ mapping = "tbb" \/ mapping = "gmt"
    BY DEF Mappings
  <2> QED BY <2>1, <2>2, <2>3
<1> QED BY <1>1, <1>2, <1>3, <1>4

-----------------------------------------------------------------------------
(* What the jobs have to run, and what a step does to them.                *)

\* what job j runs for index i
Due(j, i) == [task |-> j.task, number |-> j.number, call |-> j.call, 
              item |-> <<IF j.spawned THEN 1 ELSE 0, j.at, i>>]

LEMMA DoneIsDue == 
  ASSUME NEW j \in Job
  PROVE  Done(j) = Due(j, j.from) /\ \A i \in Nat : Done([j EXCEPT !.from = i]) = Due(j, i)
BY DEF Done, Due, Job

\* what job j has still to run
OwedBy(j) == {Due(j, i) : i \in j.from..j.from + j.count - 1}

LEMMA OwedByIs == 
  ASSUME NEW j \in Job
  PROVE  {Done([j EXCEPT !.from = i]) : i \in j.from..j.from + j.count - 1} = OwedBy(j)
<1> DEFINE D(i) == Done([j EXCEPT !.from = i])
<1>1. \A i \in j.from..j.from + j.count - 1 : i \in Nat
  BY DEF Job
<1>2. \A i \in j.from..j.from + j.count - 1 : D(i) = Due(j, i)
  BY <1>1, DoneIsDue
<1> HIDE DEF D
<1>3. {D(i) : i \in j.from..j.from + j.count - 1} = OwedBy(j)
  BY <1>2 DEF OwedBy
<1> QED BY <1>3 DEF D

LEMMA OwedIs == 
  /\ jobs \subseteq Job => Owed = UNION {OwedBy(j) : j \in jobs}
  /\ jobs' \subseteq Job => Owed' = UNION {OwedBy(j) : j \in jobs'}
<1> DEFINE D(j) == {Done([j EXCEPT !.from = i]) : i \in j.from..j.from + j.count - 1}
<1>1. \A j \in Job : D(j) = OwedBy(j)
  BY OwedByIs
<1>2. Owed = UNION {D(j) : j \in jobs} /\ Owed' = UNION {D(j) : j \in jobs'}
  BY DEF Owed
<1> HIDE DEF D
<1> QED BY <1>1, <1>2

LEMMA RestParts == 
  ASSUME NEW j \in Job
  PROVE  /\ j.count = 1 => Rest(j) = {}
         /\ j.count # 1 => 
              \E k \in Job : 
                /\ Rest(j) = {k} /\ k.from = j.from + 1 /\ k.count = j.count - 1
                /\ k.task = j.task /\ k.number = j.number /\ k.call = j.call
                /\ k.group = j.group /\ k.at = j.at /\ k.spawned = j.spawned
<1>1. j.count = 1 => Rest(j) = {}
  BY DEF Rest
<1>2. CASE j.count # 1
  <2> DEFINE k == [j EXCEPT !.from = @ + 1, !.count = @ - 1]
  <2>1. Rest(j) = {k}
    BY <1>2 DEF Rest
  <2>2. j.from + 1 \in Nat /\ j.count - 1 \in Nat \ {0}
    BY <1>2 DEF Job
  <2>3. /\ k \in Job /\ k.from = j.from + 1 /\ k.count = j.count - 1
        /\ k.task = j.task /\ k.number = j.number /\ k.call = j.call
        /\ k.group = j.group /\ k.at = j.at /\ k.spawned = j.spawned
    BY <2>2 DEF Job
  <2> HIDE DEF k
  <2> QED BY <1>2, <2>1, <2>3
<1> QED BY <1>1, <1>2

LEMMA StartedParts == 
  ASSUME NEW j \in Job
  PROVE  /\ ~(j.call.spawns /\ ~j.spawned) => StartedBy(j) = {}
         /\ j.call.spawns /\ ~j.spawned => 
              \E k \in Job : 
                /\ StartedBy(j) = {k} /\ k.from = j.from /\ k.count = 1
                /\ k.task = j.task /\ k.number = j.number /\ k.call = j.call
                /\ k.group = j.group /\ k.at = j.at /\ k.spawned
<1>1. ~(j.call.spawns /\ ~j.spawned) => StartedBy(j) = {}
  BY DEF StartedBy
<1>2. CASE j.call.spawns /\ ~j.spawned
  <2> DEFINE k == [j EXCEPT !.count = 1, !.spawned = TRUE]
  <2>1. StartedBy(j) = {k}
    BY <1>2 DEF StartedBy
  <2>2. 1 \in Nat \ {0}
    OBVIOUS
  <2>3. /\ k \in Job /\ k.from = j.from /\ k.count = 1
        /\ k.task = j.task /\ k.number = j.number /\ k.call = j.call
        /\ k.group = j.group /\ k.at = j.at /\ k.spawned
    BY <2>2 DEF Job
  <2> HIDE DEF k
  <2> QED BY <1>2, <2>1, <2>3
<1> QED BY <1>1, <1>2

\* what a job leaves behind when it runs: its call's, among its own indices
Behind(j, k) == 
  /\ k \in Job /\ k.task = j.task /\ k.number = j.number /\ k.call = j.call
  /\ k.group = j.group /\ k.at = j.at
  /\ \/ k.from = j.from + 1 /\ k.count = j.count - 1 /\ k.spawned = j.spawned
     \/ /\ k.from = j.from /\ k.count = 1 /\ k.spawned 
        /\ ~j.spawned /\ j.call.spawns

LEMMA LeftBehind == 
  ASSUME NEW j \in Job, NEW k \in Rest(j) \cup StartedBy(j)
  PROVE  Behind(j, k)
<1>1. CASE k \in Rest(j)
  BY <1>1, RestParts DEF Behind
<1>2. CASE k \in StartedBy(j)
  BY <1>2, StartedParts DEF Behind
<1> QED BY <1>1, <1>2

LEMMA BehindIsApart == 
  ASSUME NEW j \in Job, NEW k, Behind(j, k)
  PROVE  /\ \A l \in Job : Apart(j, l) => Apart(k, l) /\ Apart(l, k)
         /\ \A l : Behind(j, l) => k = l \/ Apart(k, l)
<1>1. ASSUME NEW l \in Job, Apart(j, l) PROVE Apart(k, l) /\ Apart(l, k)
  BY <1>1 DEF Apart, Behind, Job
<1>2. ASSUME NEW l, Behind(j, l), k.from = l.from PROVE k = l
  <2>1. k.count = l.count /\ k.spawned = l.spawned
    BY <1>2 DEF Behind, Job
  <2>2. k \in Job /\ l \in Job
    BY <1>2 DEF Behind
  <2>3. /\ k.task = l.task /\ k.number = l.number /\ k.call = l.call
        /\ k.group = l.group /\ k.at = l.at /\ k.from = l.from
    BY <1>2 DEF Behind
  <2> QED BY <2>1, <2>2, <2>3 DEF Job
<1>3. ASSUME NEW l, Behind(j, l), k.from # l.from PROVE Apart(k, l)
  BY <1>3 DEF Apart, Behind, Job
<1> QED BY <1>1, <1>2, <1>3

-----------------------------------------------------------------------------
(* The steps keep the invariant.                                           *)

\* the jobs of a call
JobOf(p, t, c, group) == 
  [task |-> t, number |-> made[t], call |-> c, group |-> group, 
   at |-> p.at, from |-> p.from, count |-> p.count, spawned |-> FALSE]

LEMMA JobsOfCall == 
  ASSUME TypeInv, NEW t \in Tasks, NEW c \in Calls, NEW g \in Tasks \X Nat, 
         NEW pieces, IsPieces(pieces)
  PROVE  \A j \in Jobs(pieces, t, c, g) : 
           /\ j \in Job /\ j.task = t /\ j.number = made[t] /\ j.call = c
           /\ j.group = g /\ ~j.spawned
           /\ \A k \in Jobs(pieces, t, c, g) : j = k \/ Apart(j, k)
<1>1. Jobs(pieces, t, c, g) = {JobOf(p, t, c, g) : p \in pieces}
  BY DEF Jobs, JobOf
<1>2. made[t] \in Nat
  BY DEF TypeInv
<1>3. ASSUME NEW p \in pieces
      PROVE  /\ JobOf(p, t, c, g) \in Job /\ JobOf(p, t, c, g).task = t 
             /\ JobOf(p, t, c, g).number = made[t] /\ JobOf(p, t, c, g).call = c
             /\ JobOf(p, t, c, g).group = g /\ ~JobOf(p, t, c, g).spawned
             /\ JobOf(p, t, c, g).at = p.at /\ JobOf(p, t, c, g).from = p.from
             /\ JobOf(p, t, c, g).count = p.count
  BY <1>2, <1>3 DEF JobOf, Job, IsPieces
<1>4. ASSUME NEW p \in pieces, NEW q \in pieces
      PROVE  JobOf(p, t, c, g) = JobOf(q, t, c, g) \/ Apart(JobOf(p, t, c, g), JobOf(q, t, c, g))
  <2>1. CASE p = q
    BY <2>1
  <2>2. CASE p # q
    BY <2>2, <1>3 DEF IsPieces, Apart
  <2> QED BY <2>1, <2>2
<1> QED BY <1>1, <1>3, <1>4

LEMMA CallKeeps == 
  ASSUME RuntimeInv, NEW t \in Tasks, NEW c \in Calls, NEW g \in Tasks \X Nat, 
         NEW pieces, IsPieces(pieces), made' = [made EXCEPT ![t] = @ + 1],
         jobs' = jobs \cup Jobs(pieces, t, c, g), ran' = ran,
         TypeInv', \A j \in jobs \cup Jobs(pieces, t, c, g) : Grouped(j)'
  PROVE  RuntimeInv'
<1> DEFINE New == Jobs(pieces, t, c, g)
<1>1. /\ TypeInv /\ jobs \subseteq Job /\ made[t] \in Nat
      /\ \A j \in jobs : j.number < made[j.task]
      /\ \A j, k \in jobs : j = k \/ Apart(j, k)
  BY DEF RuntimeInv, TypeInv, Grouped
<1>2. \A j \in New : 
        /\ j \in Job /\ j.task = t /\ j.number = made[t]
        /\ \A k \in New : j = k \/ Apart(j, k)
  BY <1>1, JobsOfCall
<1>3. \A j \in New, k \in jobs : Apart(j, k) /\ Apart(k, j)
  <2>1. ASSUME NEW j \in New, NEW k \in jobs, j.task = k.task PROVE j.number # k.number
    BY <1>1, <1>2, <2>1
  <2> QED BY <2>1 DEF Apart
<1>4. \A x \in ran : x.number < made[x.task] /\ x.task \in Tasks /\ x.number \in Nat
  BY DEF RuntimeInv
<1>5. \A x \in ran, j \in New : Past(x, j)
  <2>1. ASSUME NEW x \in ran, NEW j \in New, x.task = j.task PROVE x.number # j.number
    BY <1>1, <1>2, <1>4, <2>1
  <2> QED BY <2>1 DEF Past
<1>6. \A x \in ran : x.number < made'[x.task]
  BY <1>1, <1>4 DEF TypeInv
<1> HIDE DEF New
<1>7. \A j, k \in jobs \cup New : j = k \/ Apart(j, k)
  BY <1>1, <1>2, <1>3
<1>8. \A x \in ran, j \in jobs \cup New : Past(x, j)
  BY <1>5 DEF RuntimeInv
<1>9. jobs' = jobs \cup New
  BY DEF New
<1> QED BY <1>6, <1>7, <1>8, <1>9 DEF RuntimeInv, New

LEMMA CallSyncKeeps == 
  ASSUME RuntimeInv, NEW t \in Tasks, NEW c \in Calls, CallSync(t, c)
  PROVE  RuntimeInv'
<1> DEFINE pieces == Synchronous(c)[mapping]
           g == <<t, 0>>
<1>1. TypeInv /\ IsPieces(pieces) /\ g \in Tasks \X Nat
  BY CallsAsk DEF RuntimeInv, TypeInv, Asks
<1>2. /\ status[t] = "idle" /\ ~c.async /\ made' = [made EXCEPT ![t] = @ + 1]
      /\ status' = [status EXCEPT ![t] = "called"]
      /\ UNCHANGED <<mapping, handle, handles, ran>>
      /\ jobs' = jobs \cup Jobs(pieces, t, c, g)
  BY DEF CallSync, Become
<1> HIDE DEF pieces
<1>3. \A j \in Jobs(pieces, t, c, g) : 
        /\ j \in Job /\ j.task = t /\ j.number = made[t] /\ j.call = c /\ j.group = g
  BY <1>1, JobsOfCall
<1>4. TypeInv'
  BY <1>1, <1>2, <1>3 DEF TypeInv, Statuses
<1>5. ASSUME NEW j \in jobs PROVE Grouped(j)'
  <2>1. Grouped(j) /\ j \in Job
    BY DEF RuntimeInv, TypeInv
  <2>2. j.number < made'[j.task]
    BY <1>1, <1>2, <2>1 DEF Grouped, TypeInv, Job
  <2>3. mapping = "cpp" /\ j.call.async => status'[j.task] = "inline"
    BY <1>1, <1>2, <2>1 DEF Grouped, TypeInv, Job
  <2> QED BY <1>2, <2>1, <2>2, <2>3 DEF Grouped
<1>6. ASSUME NEW j \in Jobs(pieces, t, c, g) PROVE Grouped(j)'
  BY <1>1, <1>2, <1>3 DEF Grouped, TypeInv
<1> QED BY <1>1, <1>2, <1>4, <1>5, <1>6, CallKeeps

LEMMA CallAsyncKeeps == 
  ASSUME RuntimeInv, NEW t \in Tasks, NEW c \in Calls, CallAsync(t, c)
  PROVE  RuntimeInv'
<1> DEFINE pieces == Asynchronous(c)[mapping]
           g == <<t, handle'[t]>>
<1>1. TypeInv /\ IsPieces(pieces) /\ Asks(pieces, c) /\ handle[t] \in Nat /\ handles[t] \in Nat
  BY CallsAsk DEF RuntimeInv, TypeInv, Asks
<1>2. /\ status[t] = "idle" /\ c.async /\ made' = [made EXCEPT ![t] = @ + 1]
      /\ IF NeedsHandle(t, c) 
           THEN /\ handles' = [handles EXCEPT ![t] = @ + 1]
                /\ handle' = [handle EXCEPT ![t] = handles[t] + 1]
           ELSE UNCHANGED <<handle, handles>>
      /\ status' = IF mapping = "cpp" THEN [status EXCEPT ![t] = "inline"] ELSE status
      /\ UNCHANGED <<mapping, ran>>
      /\ jobs' = jobs \cup Jobs(pieces, t, c, g)
  BY DEF CallAsync, Become
<1>3. /\ handle' \in [Tasks -> Nat] /\ handles' \in [Tasks -> Nat]
      /\ \A u \in Tasks \ {t} : handle'[u] = handle[u]
      /\ handle[t] # 0 => handle'[t] = handle[t]
      /\ NeedsHandle(t, c) => handle'[t] # 0
  BY <1>1, <1>2 DEF TypeInv, NeedsHandle
<1>4. g \in Tasks \X Nat
  BY <1>3
<1>5. pieces # {} => handle'[t] # 0
  <2>1. CASE mapping = "gmt" /\ c.f \in {"forEachAt", "forEachOnAll"} /\ c.n = 0
    <3>1. pieces = {}
      BY <2>1 DEF Asynchronous, gmt_asyncForEachAt, gmt_asyncForEachOnAll
    <3> QED BY <3>1
  <2>2. CASE ~(mapping = "gmt" /\ c.f \in {"forEachAt", "forEachOnAll"} /\ c.n = 0)
    BY <1>1, <1>2, <1>3, <2>2 DEF NeedsHandle
  <2> QED BY <2>1, <2>2
<1> HIDE DEF pieces
<1>6. \A j \in Jobs(pieces, t, c, g) : 
        /\ j \in Job /\ j.task = t /\ j.number = made[t] /\ j.call = c /\ j.group = g
        /\ handle'[t] # 0
  <2>1. Jobs(pieces, t, c, g) # {} => pieces # {}
    BY DEF Jobs
  <2> QED BY <1>1, <1>4, <1>5, <2>1, JobsOfCall
<1>7. TypeInv'
  <2>1. jobs' \subseteq Job
    BY <1>1, <1>2, <1>6 DEF TypeInv
  <2>2. status' \in [Tasks -> Statuses]
    BY <1>1, <1>2 DEF TypeInv, Statuses
  <2>3. made' \in [Tasks -> Nat] /\ mapping' \in Mappings
    BY <1>1, <1>2 DEF TypeInv
  <2> QED BY <1>3, <2>1, <2>2, <2>3 DEF TypeInv
<1>8. ASSUME NEW j \in jobs PROVE Grouped(j)'
  <2>1. Grouped(j) /\ j \in Job /\ j.task \in Tasks
    BY DEF RuntimeInv, TypeInv, Job
  <2>2. j.number < made'[j.task]
    BY <1>1, <1>2, <2>1 DEF Grouped, TypeInv, Job
  <2>3. mapping = "cpp" /\ j.call.async => status'[j.task] = "inline"
    BY <1>1, <1>2, <2>1 DEF Grouped, TypeInv
  <2>4. j.call.async => handle'[j.task] = handle[j.task]
    BY <1>3, <2>1 DEF Grouped
  <2> QED BY <1>2, <2>1, <2>2, <2>3, <2>4 DEF Grouped
<1>9. ASSUME NEW j \in Jobs(pieces, t, c, g) PROVE Grouped(j)'
  BY <1>1, <1>2, <1>6 DEF Grouped, TypeInv
<1> QED BY <1>1, <1>2, <1>4, <1>7, <1>8, <1>9, CallKeeps

LEMMA RunKeeps == 
  ASSUME RuntimeInv, NEW j \in jobs, RunIndex(j)
  PROVE  RuntimeInv'
<1>1. /\ TypeInv /\ j \in Job /\ jobs \subseteq Job /\ Grouped(j)
      /\ \A k, l \in jobs : k = l \/ Apart(k, l)
      /\ ran \subseteq [task : Tasks, number : Nat, call : Calls, item : Item]
  BY DEF RuntimeInv, TypeInv
<1> DEFINE New == Rest(j) \cup StartedBy(j)
<1>2. /\ ran' = ran \cup {Done(j)} /\ jobs' = (jobs \ {j}) \cup New
      /\ UNCHANGED <<mapping, handle, handles, status, made>>
  BY DEF RunIndex
<1>3. \A k \in New : Behind(j, k)
  BY <1>1, LeftBehind
<1> HIDE DEF New
<1>4. TypeInv'
  BY <1>1, <1>2, <1>3 DEF TypeInv, Behind
<1>5. ASSUME NEW k \in jobs' PROVE Grouped(k)'
  <2>1. CASE k \in jobs
    <3>1. Grouped(k)
      BY <2>1 DEF RuntimeInv
    <3> QED BY <3>1, <1>2 DEF Grouped
  <2>2. CASE k \in New
    <3>1. Behind(j, k)
      BY <1>3, <2>2
    <3> QED BY <3>1, <1>1, <1>2 DEF Grouped, Behind
  <2> QED BY <1>2, <1>5, <2>1, <2>2
<1>6. \A k, l \in jobs' : k = l \/ Apart(k, l)
  <2>1. \A k \in New, l \in jobs \ {j} : Apart(k, l) /\ Apart(l, k)
    BY <1>1, <1>3, BehindIsApart
  <2>2. \A k, l \in New : k = l \/ Apart(k, l)
    BY <1>1, <1>3, BehindIsApart
  <2> QED BY <1>1, <1>2, <2>1, <2>2
<1>7. /\ Done(j) \in [task : Tasks, number : Nat, call : Calls, item : Item]
      /\ Done(j).task = j.task /\ Done(j).number = j.number 
      /\ Done(j).item[1] = (IF j.spawned THEN 1 ELSE 0) 
      /\ Done(j).item[2] = j.at /\ Done(j).item[3] = j.from
  BY <1>1 DEF Done, Job, Item
<1>8. ASSUME NEW x \in ran', NEW k \in jobs' PROVE Past(x, k)
  <2>1. CASE x \in ran /\ k \in jobs
    BY <2>1 DEF RuntimeInv
  <2>2. CASE x \in ran /\ k \in New
    <3>1. Past(x, j) /\ Behind(j, k) /\ x.item[3] \in Nat
      BY <1>1, <1>3, <2>2 DEF RuntimeInv, Item
    <3> QED BY <3>1, <1>1 DEF Past, Behind, Job
  <2>3. CASE x = Done(j) /\ k \in jobs \ {j}
    <3>1. Apart(j, k) /\ k \in Job
      BY <1>1, <2>3
    <3> QED BY <3>1, <1>1, <1>7, <2>3 DEF Past, Apart, Job
  <2>4. CASE x = Done(j) /\ k \in New
    <3>1. Behind(j, k)
      BY <1>3, <2>4
    <3> QED BY <3>1, <1>1, <1>7, <2>4 DEF Past, Behind, Job
  <2> QED BY <1>2, <1>8, <2>1, <2>2, <2>3, <2>4
<1>9. \A x \in ran' : x.number < made'[x.task]
  BY <1>1, <1>2, <1>7 DEF RuntimeInv, Grouped
<1> QED BY <1>1, <1>2, <1>4, <1>5, <1>6, <1>7, <1>8, <1>9 DEF RuntimeInv

LEMMA NextKeeps == RuntimeInv /\ [Next]_runtimeVars => RuntimeInv'
<1> SUFFICES ASSUME RuntimeInv, [Next]_runtimeVars PROVE RuntimeInv'
  OBVIOUS
<1>0. TypeInv /\ \A j \in jobs : Grouped(j) /\ j \in Job
  BY DEF RuntimeInv, TypeInv
<1>1. CASE UNCHANGED runtimeVars
  BY <1>1 DEF runtimeVars, RuntimeInv, TypeInv, Grouped
<1>2. CASE Run
  BY <1>2, RunKeeps DEF Run
<1>3. ASSUME NEW t \in Tasks, NEW c \in Calls, CallSync(t, c) \/ CallAsync(t, c)
      PROVE  RuntimeInv'
  BY <1>3, CallSyncKeeps, CallAsyncKeeps
<1>4. ASSUME NEW t \in Tasks, Return(t) \/ Wait(t) \/ waitForCompletion(t)
      PROVE  RuntimeInv'
  <2>1. /\ UNCHANGED <<mapping, handles, made, jobs, ran>>
        /\ handle' \in [Tasks -> Nat] /\ status' \in [Tasks -> Statuses]
        /\ \A u \in Tasks \ {t} : handle'[u] = handle[u] /\ status'[u] = status[u]
    BY <1>0, <1>4 DEF Return, Wait, waitForCompletion, WaitFor_cpp, WaitFor_tbb, 
       WaitFor_gmt, Become, TypeInv, Statuses
  <2>2. ASSUME NEW j \in jobs, j.task = t, j.call.async
        PROVE  handle'[t] = handle[t] /\ (mapping = "cpp" => status'[t] = "inline")
    <3>1. j \in Group(<<t, handle[t]>>) /\ (mapping = "cpp" => status[t] = "inline")
      BY <1>0, <2>2 DEF Grouped, Group
    <3> QED BY <1>0, <1>4, <3>1 DEF Return, Wait, waitForCompletion, WaitFor_cpp, 
            WaitFor_tbb, WaitFor_gmt, Become, TypeInv, Statuses
  <2>3. ASSUME NEW j \in jobs PROVE Grouped(j)'
    <3>1. j.task \in Tasks
      BY <1>0 DEF Job
    <3> QED BY <1>0, <2>1, <2>2, <3>1 DEF Grouped
  <2>4. TypeInv'
    BY <1>0, <2>1 DEF TypeInv
  <2> QED BY <2>1, <2>3, <2>4 DEF RuntimeInv
<1> QED BY <1>1, <1>2, <1>3, <1>4 DEF Next

LEMMA InitEstablishes == Init => RuntimeInv
BY DEF Init, RuntimeInv, TypeInv, Statuses, Mappings

(* RuntimeInv is an inductive invariant of the runtime.                    *)
THEOREM RuntimeInvariant == Spec => []RuntimeInv
BY InitEstablishes, NextKeeps, PTL DEF Spec

(* No function runs twice for an index, a locality or a call: the chunks   *)
(* of a loop do not overlap, and a function that a call starts with its    *)
(* handle is started by one index, once.                                   *)
THEOREM EverythingRunsOnce == Spec => []RunsOnce
<1>1. RuntimeInv => RunsOnce
  <2> SUFFICES ASSUME RuntimeInv, NEW x \in Owed, x \in ran PROVE FALSE
    BY DEF RunsOnce
  <2>0. PICK j \in jobs : x \in OwedBy(j)
    BY OwedIs DEF RuntimeInv, TypeInv
  <2>1. PICK i \in j.from..j.from + j.count - 1 : x = Due(j, i)
    BY <2>0 DEF OwedBy
  <2>2. j \in Job /\ Past(x, j)
    BY DEF RuntimeInv, TypeInv
  <2>3. /\ x.task = j.task /\ x.number = j.number /\ x.item[2] = j.at 
        /\ x.item[3] = i /\ (j.spawned => x.item[1] = 1)
    BY <2>1 DEF Due
  <2> QED BY <2>2, <2>3 DEF Past, Job
<1> QED BY <1>1, RuntimeInvariant, PTL

-----------------------------------------------------------------------------
(* The runtime keeps the promise of Completion.                            *)

\* a call in place is not seen to be made
shown == [t \in Tasks |-> IF status[t] = "inline" THEN "idle" ELSE status[t]]

Simulates == Promise!Next \/ UNCHANGED Promise!vars

\* a call owes what its pieces run
LEMMA NewJobsOwe == 
  ASSUME TypeInv, NEW t \in Tasks, NEW c \in Calls, NEW g \in Tasks \X Nat, 
         NEW pieces, Asks(pieces, c)
  PROVE  UNION {OwedBy(j) : j \in Jobs(pieces, t, c, g)} = Promise!Obligations(t, c)
<1> DEFINE Ob(i) == [task |-> t, number |-> made[t], call |-> c, item |-> i]
           R(p) == p.from..p.from + p.count - 1
           J(p) == JobOf(p, t, c, g)
<1>1. Jobs(pieces, t, c, g) = {J(p) : p \in pieces}
  BY DEF Jobs, JobOf
<1>2. ASSUME NEW p \in pieces PROVE OwedBy(J(p)) = {Ob(<<0, p.at, i>>) : i \in R(p)}
  <2>1. \A i : Due(J(p), i) = Ob(<<0, p.at, i>>)
    BY DEF Due, JobOf
  <2>2. J(p).from = p.from /\ J(p).count = p.count
    BY DEF JobOf
  <2> HIDE DEF J, Ob
  <2> QED BY <2>1, <2>2 DEF OwedBy
<1>3. Promise!Obligations(t, c) = {Ob(x) : x \in Indices(pieces)}
  BY DEF Promise!Obligations, Asks
<1> HIDE DEF J, Ob, R
<1>4. UNION {OwedBy(J(p)) : p \in pieces} = UNION {{Ob(<<0, p.at, i>>) : i \in R(p)} : p \in pieces}
  BY <1>2
<1>5. Indices(pieces) = UNION {{<<0, p.at, i>> : i \in R(p)} : p \in pieces}
  BY DEF Indices, R
<1>6. {Ob(x) : x \in Indices(pieces)} 
      = UNION {{Ob(<<0, p.at, i>>) : i \in R(p)} : p \in pieces}
  <2>1. \A x : x \in Indices(pieces) <=> \E p \in pieces : \E i \in R(p) : x = <<0, p.at, i>>
    BY <1>5
  <2>2. \A y : y \in UNION {{Ob(<<0, p.at, i>>) : i \in R(p)} : p \in pieces}
              <=> \E p \in pieces : \E i \in R(p) : y = Ob(<<0, p.at, i>>)
    OBVIOUS
  <2>3. \A y : y \in {Ob(x) : x \in Indices(pieces)} 
              <=> \E x \in Indices(pieces) : y = Ob(x)
    OBVIOUS
  <2>4. ASSUME NEW y 
        PROVE  (\E x \in Indices(pieces) : y = Ob(x)) 
               <=> \E p \in pieces : \E i \in R(p) : y = Ob(<<0, p.at, i>>)
    <3>1. ASSUME NEW x \in Indices(pieces), y = Ob(x)
          PROVE  \E p \in pieces : \E i \in R(p) : y = Ob(<<0, p.at, i>>)
      <4>1. PICK p \in pieces : \E i \in R(p) : x = <<0, p.at, i>>
        BY <2>1
      <4>2. PICK i \in R(p) : x = <<0, p.at, i>>
        BY <4>1
      <4>3. Ob(x) = Ob(<<0, p.at, i>>)
        BY <4>2
      <4> QED BY <3>1, <4>3
    <3>2. ASSUME NEW p \in pieces, NEW i \in R(p), y = Ob(<<0, p.at, i>>)
          PROVE  \E x \in Indices(pieces) : y = Ob(x)
      <4>1. <<0, p.at, i>> \in Indices(pieces)
        BY <2>1
      <4> QED BY <3>2, <4>1
    <3> QED BY <3>1, <3>2
  <2>5. ASSUME NEW y 
        PROVE  y \in {Ob(x) : x \in Indices(pieces)} 
               <=> y \in UNION {{Ob(<<0, p.at, i>>) : i \in R(p)} : p \in pieces}
    <3> DEFINE Some == \E p \in pieces : \E i \in R(p) : y = Ob(<<0, p.at, i>>)
    <3>1. y \in UNION {{Ob(<<0, p.at, i>>) : i \in R(p)} : p \in pieces} <=> Some
      BY <2>2
    <3>2. y \in {Ob(x) : x \in Indices(pieces)} <=> Some
      BY <2>4
    <3> HIDE DEF Some
    <3> QED BY <3>1, <3>2
  <2> DEFINE A == {Ob(x) : x \in Indices(pieces)}
             B == UNION {{Ob(<<0, p.at, i>>) : i \in R(p)} : p \in pieces}
  <2>6. \A y : y \in A <=> y \in B
    BY <2>5
  <2> HIDE DEF A, B
  <2>7. A = B
    BY <2>6
  <2> QED BY <2>7 DEF A, B
<1>7. UNION {OwedBy(j) : j \in {J(p) : p \in pieces}} = UNION {OwedBy(J(p)) : p \in pieces}
  OBVIOUS
<1> QED BY <1>1, <1>3, <1>4, <1>6, <1>7

LEMMA AskSimulates == 
  ASSUME RuntimeInv, RuntimeInv', NEW t \in Tasks, NEW c \in Calls, 
         CallSync(t, c) \/ CallAsync(t, c)
  PROVE  Promise!Ask(t, c)
<1>1. TypeInv /\ TypeInv' /\ jobs \subseteq Job /\ jobs' \subseteq Job /\ c.async \in BOOLEAN
      /\ mapping \in Mappings
  BY CallsAssumption DEF RuntimeInv, TypeInv
<1>2. \E pieces : \E g \in Tasks \X Nat : 
        Asks(pieces, c) /\ jobs' = jobs \cup Jobs(pieces, t, c, g)
  <2>1. CASE CallSync(t, c)
    <3> DEFINE ps == Synchronous(c)[mapping]
    <3>1. <<t, 0>> \in Tasks \X Nat
      OBVIOUS
    <3>2. Asks(ps, c) /\ jobs' = jobs \cup Jobs(ps, t, c, <<t, 0>>)
      BY <1>1, <2>1, CallsAsk DEF CallSync
    <3> HIDE DEF ps
    <3> QED BY <3>1, <3>2
  <2>2. CASE CallAsync(t, c)
    <3> DEFINE ps == Asynchronous(c)[mapping]
    <3>1. <<t, handle'[t]>> \in Tasks \X Nat
      BY <1>1 DEF TypeInv
    <3>2. Asks(ps, c) /\ jobs' = jobs \cup Jobs(ps, t, c, <<t, handle'[t]>>)
      BY <1>1, <2>2, CallsAsk DEF CallAsync
    <3> HIDE DEF ps
    <3> QED BY <3>1, <3>2
  <2> QED BY <2>1, <2>2
<1>3. /\ status[t] = "idle" /\ made[t] < MaxCalls /\ made' = [made EXCEPT ![t] = @ + 1]
      /\ UNCHANGED <<mapping, ran>>
  BY DEF CallSync, CallAsync
<1>4. Owed' = Owed \cup Promise!Obligations(t, c)
  <2>0. PICK pieces : \E g \in Tasks \X Nat : 
          Asks(pieces, c) /\ jobs' = jobs \cup Jobs(pieces, t, c, g)
    BY <1>2
  <2> PICK g \in Tasks \X Nat : 
        Asks(pieces, c) /\ jobs' = jobs \cup Jobs(pieces, t, c, g)
    BY <2>0
  <2> DEFINE New == Jobs(pieces, t, c, g)
  <2>1. UNION {OwedBy(j) : j \in New} = Promise!Obligations(t, c)
    BY <1>1, NewJobsOwe
  <2>2. jobs' = jobs \cup New
    OBVIOUS
  <2> HIDE DEF New
  <2>3. UNION {OwedBy(j) : j \in jobs \cup New} 
        = (UNION {OwedBy(j) : j \in jobs}) \cup (UNION {OwedBy(j) : j \in New})
    OBVIOUS
  <2> QED BY <1>1, <2>1, <2>2, <2>3, OwedIs
<1>5. shown' = [shown EXCEPT ![t] = IF c.async THEN "idle" ELSE "called"]
  <2>1. CASE CallSync(t, c)
    <3>1. status' = [status EXCEPT ![t] = "called"] /\ ~c.async
      BY <2>1 DEF CallSync, Become
    <3> QED BY <1>1, <3>1 DEF shown, TypeInv
  <2>2. CASE CallAsync(t, c)
    <3>1. c.async /\ status' \in {status, [status EXCEPT ![t] = "inline"]}
      BY <2>2 DEF CallAsync, Become
    <3>2. \A u \in Tasks \ {t} : status'[u] = status[u]
      BY <1>1, <3>1 DEF TypeInv
    <3>3. shown'[t] = "idle" /\ shown[t] = "idle"
      BY <1>1, <1>3, <3>1 DEF shown, TypeInv
    <3>4. \A u \in Tasks : shown'[u] = shown[u]
      BY <3>2, <3>3 DEF shown
    <3> QED BY <3>1, <3>3, <3>4 DEF shown
  <2> QED BY <2>1, <2>2
<1>6. NumLocalities' = NumLocalities
  BY <1>3 DEF NumLocalities
<1>7. shown[t] = "idle"
  BY <1>3 DEF shown
<1> QED BY <1>3, <1>4, <1>5, <1>6, <1>7 DEF Promise!Ask, shown

\* what is left of a job is what it owed before, but for what has run
LEMMA RestOwes == 
  ASSUME NEW j \in Job
  PROVE  /\ Done(j) \in OwedBy(j)
         /\ UNION {OwedBy(k) : k \in Rest(j)} = OwedBy(j) \ {Done(j)}
<1>1. j.from \in Nat /\ j.count \in Nat \ {0}
  BY DEF Job
<1>2. Done(j) = Due(j, j.from) /\ j.from \in j.from..j.from + j.count - 1
  BY <1>1, DoneIsDue
<1>3. \A i \in Nat : Due(j, i) = Done(j) => i = j.from
  BY <1>2 DEF Due
<1>4. OwedBy(j) \ {Done(j)} = {Due(j, i) : i \in j.from + 1..j.from + j.count - 1}
  <2>1. j.from..j.from + j.count - 1 = {j.from} \cup (j.from + 1..j.from + j.count - 1)
    BY <1>1
  <2>2. \A i \in j.from + 1..j.from + j.count - 1 : i \in Nat /\ i # j.from
    BY <1>1
  <2> QED BY <1>2, <1>3, <2>1, <2>2 DEF OwedBy
<1>5. CASE j.count = 1
  <2>1. Rest(j) = {} 
    BY <1>5, RestParts
  <2>2. j.from + 1..j.from + j.count - 1 = {}
    BY <1>1, <1>5
  <2> QED BY <1>2, <1>4, <2>1, <2>2 DEF OwedBy
<1>6. CASE j.count # 1
  <2>1. PICK k \in Job : 
          /\ Rest(j) = {k} /\ k.from = j.from + 1 /\ k.count = j.count - 1
          /\ k.task = j.task /\ k.number = j.number /\ k.call = j.call
          /\ k.at = j.at /\ k.spawned = j.spawned
    BY <1>6, RestParts
  <2>2. \A i : Due(k, i) = Due(j, i)
    BY <2>1 DEF Due
  <2>3. k.from + k.count - 1 = j.from + j.count - 1
    BY <1>1, <2>1
  <2>4. OwedBy(k) = {Due(j, i) : i \in j.from + 1..j.from + j.count - 1}
    BY <2>1, <2>2, <2>3 DEF OwedBy
  <2>5. UNION {OwedBy(l) : l \in Rest(j)} = OwedBy(k)
    BY <2>1
  <2> QED BY <1>2, <1>4, <2>4, <2>5 DEF OwedBy
<1> QED BY <1>5, <1>6

LEMMA StartedOwes == 
  ASSUME NEW j \in Job
  PROVE  UNION {OwedBy(k) : k \in StartedBy(j)} = Promise!Spawned(Done(j))
<1>1. /\ Done(j).call = j.call /\ Done(j).item = <<IF j.spawned THEN 1 ELSE 0, j.at, j.from>>
      /\ Done(j).item[1] = 0 <=> ~j.spawned
  BY DEF Done, Job
<1>2. CASE ~(j.call.spawns /\ ~j.spawned)
  BY <1>1, <1>2, StartedParts DEF Promise!Spawned
<1>3. CASE j.call.spawns /\ ~j.spawned
  <2>1. PICK k \in Job : 
          /\ StartedBy(j) = {k} /\ k.from = j.from /\ k.count = 1
          /\ k.task = j.task /\ k.number = j.number /\ k.call = j.call
          /\ k.at = j.at /\ k.spawned
    BY <1>3, StartedParts
  <2>2. k.from..k.from + k.count - 1 = {j.from}
    BY <2>1 DEF Job
  <2>3. OwedBy(k) = {Due(k, j.from)}
    BY <2>2 DEF OwedBy
  <2>4. Due(k, j.from) = [Done(j) EXCEPT !.item[1] = 1]
    BY <1>3, <2>1 DEF Due, Done
  <2>5. Promise!Spawned(Done(j)) = {[Done(j) EXCEPT !.item[1] = 1]}
    BY <1>1, <1>3 DEF Promise!Spawned
  <2> QED BY <2>1, <2>3, <2>4, <2>5
<1> QED BY <1>2, <1>3

LEMMA RunSimulates == 
  ASSUME RuntimeInv, RuntimeInv', NEW j \in jobs, RunIndex(j)
  PROVE  Done(j) \in Owed /\ Promise!Do(Done(j))
<1>1. /\ j \in Job /\ jobs \subseteq Job /\ jobs' \subseteq Job
      /\ \A k, l \in jobs : k = l \/ Apart(k, l)
  BY DEF RuntimeInv, TypeInv
<1>2. /\ ran' = ran \cup {Done(j)} /\ jobs' = (jobs \ {j}) \cup Rest(j) \cup StartedBy(j)
      /\ UNCHANGED <<mapping, handle, handles, status, made>>
  BY DEF RunIndex
<1>3. ASSUME NEW k \in jobs, k # j PROVE Done(j) \notin OwedBy(k)
  <2>1. Apart(j, k) /\ k \in Job
    BY <1>1, <1>3
  <2>2. ASSUME NEW i \in k.from..k.from + k.count - 1, Due(k, i) = Done(j) PROVE FALSE
    <3>1. Done(j) = Due(j, j.from)
      BY <1>1, DoneIsDue
    <3>2. k.task = j.task /\ k.number = j.number /\ k.at = j.at /\ i = j.from
      BY <2>2, <3>1 DEF Due
    <3> QED BY <2>1, <3>2, <1>1 DEF Apart, Job
  <2> QED BY <2>2 DEF OwedBy
<1> DEFINE Others == UNION {OwedBy(k) : k \in jobs \ {j}}
           Left == UNION {OwedBy(k) : k \in Rest(j)}
           Started == UNION {OwedBy(k) : k \in StartedBy(j)}
<1>4. Owed = Others \cup OwedBy(j) /\ Owed' = Others \cup Left \cup Started
  <2>1. Owed = UNION {OwedBy(k) : k \in jobs} /\ Owed' = UNION {OwedBy(k) : k \in jobs'}
    BY <1>1, OwedIs
  <2> QED BY <1>2, <2>1
<1>5. Done(j) \notin Others
  BY <1>3
<1>6. Done(j) \in OwedBy(j) /\ Left = OwedBy(j) \ {Done(j)} /\ Started = Promise!Spawned(Done(j))
  BY <1>1, RestOwes, StartedOwes
<1> HIDE DEF Others, Left, Started
<1>7. Done(j) \in Owed /\ Owed' = (Owed \ {Done(j)}) \cup Promise!Spawned(Done(j))
  BY <1>4, <1>5, <1>6
<1>8. NumLocalities' = NumLocalities /\ shown' = shown
  BY <1>2 DEF NumLocalities, shown
<1> QED BY <1>2, <1>7, <1>8 DEF Promise!Do, shown

\* nothing is pending when the group is empty that a task waits for
LEMMA NothingPending == 
  ASSUME RuntimeInv, NEW t \in Tasks
  PROVE  /\ Group(<<t, 0>>) = {} => Promise!Pending(t, FALSE) = {}
         /\ \/ Group(<<t, handle[t]>>) = {}
            \/ handle[t] = 0
            \/ mapping = "cpp" /\ status[t] # "inline"
            => Promise!Pending(t, TRUE) = {}
<1>1. jobs \subseteq Job /\ Owed = UNION {OwedBy(j) : j \in jobs}
  BY OwedIs DEF RuntimeInv, TypeInv
<1>2. ASSUME NEW async \in BOOLEAN, NEW x \in Promise!Pending(t, async)
      PROVE  \E j \in jobs : j.task = t /\ j.call.async = async /\ Grouped(j)
  <2>1. x \in Owed /\ x.task = t /\ x.call.async = async
    BY DEF Promise!Pending
  <2>2. PICK j \in jobs : x \in OwedBy(j)
    BY <1>1, <2>1
  <2>3. PICK i \in j.from..j.from + j.count - 1 : x = Due(j, i)
    BY <2>2 DEF OwedBy
  <2>4. x.task = j.task /\ x.call = j.call
    BY <2>3 DEF Due
  <2> QED BY <2>1, <2>4 DEF RuntimeInv
<1>3. ASSUME Group(<<t, 0>>) = {}, NEW x \in Promise!Pending(t, FALSE)
      PROVE  FALSE
  <2>1. PICK j \in jobs : j.task = t /\ j.call.async = FALSE /\ Grouped(j)
    BY <1>2, <1>3
  <2> QED BY <1>3, <2>1 DEF Grouped, Group
<1>4. ASSUME \/ Group(<<t, handle[t]>>) = {}
             \/ handle[t] = 0
             \/ mapping = "cpp" /\ status[t] # "inline",
             NEW x \in Promise!Pending(t, TRUE)
      PROVE  FALSE
  <2>1. PICK j \in jobs : j.task = t /\ j.call.async = TRUE /\ Grouped(j)
    BY <1>2, <1>4
  <2> QED BY <1>4, <2>1 DEF Grouped, Group
<1> QED BY <1>3, <1>4

LEMMA ReturnSimulates == 
  ASSUME RuntimeInv, NEW t \in Tasks, Return(t)
  PROVE  Promise!GoOn(t) \/ UNCHANGED Promise!vars
<1>1. /\ status \in [Tasks -> Statuses] /\ status' = [status EXCEPT ![t] = "idle"]
      /\ UNCHANGED <<mapping, made, jobs, ran>>
  BY DEF RuntimeInv, TypeInv, Return, Become
<1>2. NumLocalities' = NumLocalities /\ Owed' = Owed
  BY <1>1 DEF NumLocalities, Owed
<1>3. shown' = [shown EXCEPT ![t] = "idle"]
  BY <1>1 DEF shown
<1>4. CASE status[t] = "called" /\ Group(<<t, 0>>) = {}
  <2>1. shown[t] = "called" /\ Promise!Pending(t, FALSE) = {}
    BY <1>4, NothingPending DEF shown
  <2> QED BY <1>1, <1>2, <1>3, <2>1 DEF Promise!GoOn, shown
<1>5. CASE status[t] = "inline"
  <2>1. shown[t] = "idle"
    BY <1>5 DEF shown
  <2>2. shown' = shown
    BY <1>3, <2>1 DEF shown
  <2> QED BY <1>1, <1>2, <2>2 DEF Promise!vars, shown
<1> QED BY <1>4, <1>5 DEF Return

LEMMA WaitSimulates == 
  ASSUME RuntimeInv, NEW t \in Tasks, Wait(t)
  PROVE  Promise!Wait(t)
<1>1. /\ status \in [Tasks -> Statuses] /\ status[t] = "idle" 
      /\ status' = [status EXCEPT ![t] = "waiting"]
      /\ UNCHANGED <<mapping, made, jobs, ran>>
  BY DEF RuntimeInv, TypeInv, Wait, Become
<1>2. NumLocalities' = NumLocalities /\ Owed' = Owed
  BY <1>1 DEF NumLocalities, Owed
<1>3. shown[t] = "idle" /\ shown' = [shown EXCEPT ![t] = "waiting"]
  BY <1>1 DEF shown
<1> QED BY <1>1, <1>2, <1>3 DEF Promise!Wait, shown

LEMMA WaitForSimulates == 
  ASSUME RuntimeInv, NEW t \in Tasks, waitForCompletion(t)
  PROVE  Promise!GoOn(t)
<1>1. /\ status \in [Tasks -> Statuses] /\ status[t] = "waiting" 
      /\ status' = [status EXCEPT ![t] = "idle"]
      /\ UNCHANGED <<mapping, made, jobs, ran>>
  BY DEF RuntimeInv, TypeInv, waitForCompletion, Become
<1>2. NumLocalities' = NumLocalities /\ Owed' = Owed
  BY <1>1 DEF NumLocalities, Owed
<1>3. shown[t] = "waiting" /\ shown' = [shown EXCEPT ![t] = "idle"]
  BY <1>1 DEF shown
<1>4. \/ Group(<<t, handle[t]>>) = {}
      \/ handle[t] = 0
      \/ mapping = "cpp" /\ status[t] # "inline"
  BY <1>1 DEF waitForCompletion, WaitFor_tbb, WaitFor_gmt
<1>5. Promise!Pending(t, TRUE) = {}
  BY <1>4, NothingPending
<1> QED BY <1>1, <1>2, <1>3, <1>5 DEF Promise!GoOn, shown

LEMMA NextSimulates == 
  ASSUME RuntimeInv, RuntimeInv', [Next]_runtimeVars
  PROVE  Simulates
<1>1. ASSUME NEW j \in jobs, RunIndex(j) PROVE Simulates
  BY <1>1, RunSimulates DEF Simulates, Promise!Next, Promise!DoOne
<1>2. ASSUME NEW t \in Tasks, NEW c \in Calls, CallSync(t, c) \/ CallAsync(t, c)
      PROVE  Simulates
  BY <1>2, AskSimulates DEF Simulates, Promise!Next
<1>3. ASSUME NEW t \in Tasks, Return(t) PROVE Simulates
  BY <1>3, ReturnSimulates DEF Simulates, Promise!Next
<1>4. ASSUME NEW t \in Tasks, Wait(t) PROVE Simulates
  BY <1>4, WaitSimulates DEF Simulates, Promise!Next
<1>5. ASSUME NEW t \in Tasks, waitForCompletion(t) PROVE Simulates
  BY <1>5, WaitForSimulates DEF Simulates, Promise!Next
<1>6. CASE UNCHANGED runtimeVars
  BY <1>6 DEF runtimeVars, Simulates, Promise!vars, NumLocalities, Owed
<1> QED BY <1>1, <1>2, <1>3, <1>4, <1>5, <1>6 DEF Next, Run

LEMMA InitSimulates == Init => Promise!Init
<1> SUFFICES ASSUME Init PROVE Promise!Init
  OBVIOUS
<1>1. NumLocalities \in Nat \ {0}
  BY SizesAssumption DEF NumLocalities
<1>2. Owed = {} 
  BY DEF Init, Owed
<1>3. shown = [t \in Tasks |-> "idle"]
  BY DEF Init, shown
<1> QED BY <1>1, <1>2, <1>3 DEF Init, Promise!Init, shown

(* The three mappings keep the promise of Completion: a call asks for the  *)
(* indices of its loop and its localities and no others, each is done      *)
(* once, a synchronous call returns when nothing is left that it asked     *)
(* for, and a wait when nothing is left of the handle, the functions that  *)
(* were started with it included.                                          *)
THEOREM RuntimeKeepsPromise == Spec => Promise!Init /\ [][Promise!Next]_(Promise!vars)
<1>1. RuntimeInv /\ RuntimeInv' /\ [Next]_runtimeVars => [Promise!Next]_(Promise!vars)
  BY NextSimulates DEF Simulates
<1> QED BY <1>1, InitSimulates, RuntimeInvariant, PTL DEF Spec
=============================================================================
