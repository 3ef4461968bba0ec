-------------------------- MODULE MatMulMPI_proofs --------------------------
(***************************************************************************)
(* mm_mpi.cpp delivers the product for every number of tasks, every matrix *)
(* size and every eager limit; and MatMult_MPI.cpp, where rank 0 alone     *)
(* reads the size (MatMulEnteredSize), never prints a wrong one.           *)
(***************************************************************************)
EXTENDS MatMulMPI_inv, MatMulEnteredSize, SequenceTheorems, TLAPS

\* Division with remainder.
LEMMA DivMod ==
    ASSUME NEW n \in Nat, NEW w \in Nat \ {0}
    PROVE  /\ AvgRow(n, w) \in Nat
           /\ ReRow(n, w) \in 0..(w - 1)
           /\ n = w * AvgRow(n, w) + ReRow(n, w)
  BY Z3 DEF AvgRow, ReRow

\* The blocks follow each other without a gap and end with the last row.
LEMMA RowsType ==
    ASSUME NEW n \in Nat, NEW w \in Nat \ {0}, NEW d \in 1..w
    PROVE  /\ RowsFor(n, w, d) \in Nat
           /\ OffsetOf(n, w, d) \in Nat
           /\ OffsetOf(n, w, 1) = 0
           /\ OffsetOf(n, w, d + 1) = OffsetOf(n, w, d) + RowsFor(n, w, d)
           /\ OffsetOf(n, w, w + 1) = n
<1> DEFINE a == AvgRow(n, w)
           r == ReRow(n, w)
<1>1. a \in Nat /\ r \in 0..(w - 1) /\ n = w * a + r  BY DivMod
<1>2. (d - 1) * a \in Nat /\ d * a = (d - 1) * a + a
  <2> HIDE DEF a
  <2> QED BY <1>1
<1> QED BY <1>1, <1>2 DEF RowsFor, OffsetOf

\* Every block begins in the matrix or at its end.
LEMMA OffsetBound ==
    ASSUME NEW n \in Nat, NEW w \in Nat \ {0}, NEW d \in 1..(w + 1)
    PROVE  OffsetOf(n, w, d) \in 0..n
<1> DEFINE a == AvgRow(n, w)
           r == ReRow(n, w)
<1>1. a \in Nat /\ r \in 0..(w - 1) /\ n = w * a + r  BY DivMod
<1>2. (d - 1) * a \in Nat /\ (d - 1) * a <= w * a
  <2> HIDE DEF a
  <2> QED BY <1>1
<1> QED BY <1>1, <1>2 DEF OffsetOf

-----------------------------------------------------------------------------
USE MaxTasksAssumption, EagerLimitsAssumption, MatrixSizesAssumption

LEMMA BlockFacts ==
    ASSUME TypeInv, NEW w \in Worker
    PROVE  /\ numworkers \in Nat \ {0}
           /\ First(w) \in Nat
           /\ Count(w) \in Nat
           /\ First(1) = 0
           /\ First(w + 1) = First(w) + Count(w)
           /\ First(w + 1) \in 0 .. matrixSize
           /\ First(numworkers + 1) = matrixSize
           /\ matrixSize \in Nat \ {0}
<1>1. /\ matrixSize \in Nat \ {0}
      /\ numworkers \in Nat \ {0}
      /\ w \in 1 .. numworkers
  BY DEF TypeInv, Worker, numworkers
<1>2. w + 1 \in 1 .. numworkers + 1
  BY <1>1
<1> QED BY <1>1, <1>2, RowsType, OffsetBound DEF First, Count

LEMMA MessageFacts ==
    ASSUME TypeInv, NEW w \in Worker
    PROVE  /\ Len(ToWorker(w)) = 4
           /\ \A i \in 1 .. 4 : /\ ToWorker(w)[i] \in Message
                                /\ ToWorker(w)[i].tag = FROM_MASTER
           /\ Len(ToMaster(w)) = 3
           /\ \A i \in 1 .. 3 : /\ ToMaster(w)[i] \in Message
                                /\ ToMaster(w)[i].tag = FROM_WORKER
<1>1. /\ First(w) \in Nat
      /\ Count(w) \in Nat
      /\ matrixSize \in Nat \ {0}
  BY BlockFacts
<1>2. /\ Block(w) \in Seq(Int)
      /\ Len(Block(w)) = Count(w)
      /\ [i \in 1 .. matrixSize |-> i - 1] \in Seq(Int)
      /\ Len([i \in 1 .. matrixSize |-> i - 1]) = matrixSize
  BY <1>1 DEF Block
<1>3. ASSUME NEW tag \in Nat, NEW i \in Int
      PROVE  IntMsg(tag, i) \in Message /\ IntMsg(tag, i).tag = tag
  BY DEF IntMsg, Message, Garbage
<1>4. ASSUME NEW tag \in Nat, NEW n \in Nat, NEW b \in Seq(Int)
      PROVE  RowsMsg(tag, n, b) \in Message /\ RowsMsg(tag, n, b).tag = tag
  BY DEF RowsMsg, Message, Garbage
<1> QED BY <1>1, <1>2, <1>3, <1>4 DEF ToWorker, ToMaster, FROM_MASTER, FROM_WORKER

\* A message sent joins the messages in flight.
LEMMA AppendInFlight ==
    ASSUME NEW q, NEW e, NEW a \in Nat, NEW b \in Nat, a <= b,
           InFlight(q, e, a, b), e[b + 1] \in Message
    PROVE  InFlight(Append(q, e[b + 1]), e, a, b + 1)
  BY DEF InFlight

LEMMA SizeFacts ==
    ASSUME NEW tag \in Nat, NEW n \in Nat, NEW b \in Seq(Int), NEW i \in Int
    PROVE  /\ IntMsg(tag, i).bytes = 4
           /\ IntMsg(tag, i).int = i
           /\ RowsMsg(tag, n, b).bytes = 8 * n * Len(b)
           /\ RowsMsg(tag, n, b).block = b
  BY DEF IntMsg, RowsMsg

\* A receive with the tag of everything in flight takes the oldest message,
\* number k.
LEMMA TakeInFlight ==
    ASSUME NEW s \in Rank, NEW d \in Rank, NEW tag, NEW e,
           NEW k \in Nat \ {0}, NEW b \in Nat, k - 1 <= b,
           InFlight(chan[s][d], e, k - 1, b),
           \A i \in 1 .. b : e[i].tag = tag,
           CanRecv(s, d, tag)
    PROVE  /\ k <= b
           /\ Incoming(s, d, tag) = e[k]
           /\ InFlight(RemoveAt(chan[s][d], FirstMatch(s, d, tag)), e, k, b)
<1> DEFINE q == chan[s][d]
           a == k - 1
<1>0. a \in Nat /\ a + 1 = k
  OBVIOUS
<1>1. q \in Seq(Message) /\ Len(q) = b - a
      /\ \A i \in 1 .. (b - a) : q[i] = e[a + i]
  BY DEF InFlight
<1> HIDE DEF a
<1>2. DOMAIN q = 1 .. (b - a)
  BY <1>1
<1>3. PICK j \in DOMAIN q : TRUE
  BY DEF CanRecv, Matching
<1>4. a < b
  BY <1>0, <1>2, <1>3
<1>5. Matching(s, d, tag) = 1 .. (b - a)
  <2>1. ASSUME NEW i \in 1 .. (b - a) PROVE q[i].tag = tag
    BY <1>0, <1>1, a + i \in 1 .. b
  <2> QED BY <1>2, <2>1 DEF Matching
<1>6. FirstMatch(s, d, tag) = 1
  BY <1>0, <1>4, <1>5 DEF FirstMatch
<1>7. RemoveAt(q, 1) = Tail(q)
  <2>1. SubSeq(q, 1, 1 - 1) = <<>>
    BY <1>1
  <2>2. SubSeq(q, 1 + 1, Len(q)) = Tail(q) /\ Tail(q) \in Seq(Message)
    BY <1>0, <1>1, <1>4, HeadTailProperties, SubSeqProperties
  <2>3. <<>> \o Tail(q) = Tail(q)
    BY <2>2, ConcatEmptySeq
  <2> HIDE DEF q
  <2> QED BY ONLY <2>1, <2>2, <2>3 DEF RemoveAt
<1>8. /\ Tail(q) \in Seq(Message) /\ Len(Tail(q)) = b - k
      /\ \A i \in 1 .. (b - k) : Tail(q)[i] = q[i + 1]
  <2>1. q \in Seq(Message) /\ q # <<>> /\ Len(q) - 1 = b - k
    BY <1>0, <1>1, <1>4
  <2> HIDE DEF q
  <2> QED BY ONLY <2>1, HeadTailProperties
<1>9. InFlight(Tail(q), e, k, b)
  BY <1>0, <1>1, <1>4, <1>8 DEF InFlight
<1> QED BY <1>0, <1>1, <1>4, <1>6, <1>7, <1>9 DEF Incoming
-----------------------------------------------------------------------------
\* What stays fixed while the program runs.
LEMMA Rigid ==
    ASSUME UNCHANGED <<numtasks, matrixSize>>
    PROVE  /\ numworkers' = numworkers
           /\ Worker' = Worker
           /\ Row' = Row
           /\ Matrix' = Matrix
           /\ Identity' = Identity
           /\ Uninitialised' = Uninitialised
           /\ \A w : /\ First(w)' = First(w)
                     /\ Count(w)' = Count(w)
                     /\ ToWorker(w)' = ToWorker(w)
                     /\ ToMaster(w)' = ToMaster(w)
  BY DEF numworkers, Worker, Row, Matrix, Identity, Uninitialised, First, Count, Block,
         ToWorker, ToMaster, RowsMsg, IntMsg

LEMMA WorkerRank ==
    ASSUME TypeInv
    PROVE  Worker \subseteq Rank \ {0} /\ 0 \in Rank
  BY DEF TypeInv, Worker, Rank

LEMMA CounterTypes ==
    ASSUME NEW w
    PROVE  /\ SentTo(w) \in 0 .. 4 /\ TakenBy(w) \in 0 .. 4
           /\ SentBy(w) \in 0 .. 3 /\ TakenFrom(w) \in 0 .. 3
  BY DEF SentTo, TakenBy, SentBy, TakenFrom

\* Rank 0 sends message number k to worker w.
LEMMA MasterSends ==
    ASSUME IInv, UNCHANGED <<numtasks, matrixSize>>,
           NEW w \in Worker, NEW k \in 1 .. 4,
           SentTo(w) = k - 1,
           MPI_Send(0, w, ToWorker(w)[k]),
           \A v \in Worker :
               /\ SentTo(v)' = IF v = w THEN k ELSE SentTo(v)
               /\ TakenBy(v)' = TakenBy(v)
               /\ SentBy(v)' = SentBy(v)
               /\ TakenFrom(v)' = TakenFrom(v)
    PROVE  ChannelInv' /\ chan' \in [Rank -> [Rank -> Seq(Message)]]
<1> USE DEF IInv
<1>1. w \in Rank \ {0} /\ 0 \in Rank
  BY WorkerRank
<1>2. /\ chan \in [Rank -> [Rank -> Seq(Message)]]
      /\ ToWorker(w)[k] \in Message
  BY MessageFacts DEF TypeInv
<1>3. /\ chan' \in [Rank -> [Rank -> Seq(Message)]]
      /\ \A s, d \in Rank :
            chan'[s][d] = IF s = 0 /\ d = w
                          THEN Append(chan[s][d], ToWorker(w)[k]) ELSE chan[s][d]
  BY <1>1, <1>2 DEF MPI_Send
<1>4. InFlight(chan'[0][w], ToWorker(w), TakenBy(w), k)
  <2>1. /\ TakenBy(w) \in Nat /\ k - 1 \in Nat /\ TakenBy(w) <= k - 1
        /\ InFlight(chan[0][w], ToWorker(w), TakenBy(w), k - 1)
    BY CounterTypes DEF ChannelInv
  <2> QED BY <1>1, <1>2, <1>3, <2>1, AppendInFlight
<1>5. TakenBy(w) <= k
  BY CounterTypes DEF ChannelInv
<1>6. ASSUME NEW v \in Worker
      PROVE  /\ TakenBy(v)' <= SentTo(v)'
             /\ InFlight(chan'[0][v], ToWorker(v), TakenBy(v)', SentTo(v)')
             /\ TakenFrom(v)' <= SentBy(v)'
             /\ InFlight(chan'[v][0], ToMaster(v), TakenFrom(v)', SentBy(v)')
  <2>1. v \in Rank \ {0}
    BY WorkerRank
  <2>2. chan'[v][0] = chan[v][0] /\ (v # w => chan'[0][v] = chan[0][v])
    BY <1>1, <1>3, <2>1
  <2>3. CASE v = w
    BY <1>4, <1>5, <2>2, <2>3 DEF ChannelInv
  <2>4. CASE v # w
    BY <2>2, <2>4 DEF ChannelInv
  <2> QED BY <2>3, <2>4
<1>7. ASSUME NEW s \in Rank, NEW d \in Rank,
             ~ (s = 0 /\ d \in Worker), ~ (s \in Worker /\ d = 0)
      PROVE  chan'[s][d] = <<>>
  BY <1>3, <1>7 DEF ChannelInv
<1> QED BY <1>3, <1>6, <1>7, Rigid DEF ChannelInv

\* Worker w sends message number k to rank 0.
LEMMA WorkerSends ==
    ASSUME IInv, UNCHANGED <<numtasks, matrixSize>>,
           NEW w \in Worker, NEW k \in 1 .. 3,
           SentBy(w) = k - 1,
           MPI_Send(w, 0, ToMaster(w)[k]),
           \A v \in Worker :
               /\ SentTo(v)' = SentTo(v)
               /\ TakenBy(v)' = TakenBy(v)
               /\ SentBy(v)' = IF v = w THEN k ELSE SentBy(v)
               /\ TakenFrom(v)' = TakenFrom(v)
    PROVE  ChannelInv' /\ chan' \in [Rank -> [Rank -> Seq(Message)]]
<1> USE DEF IInv
<1>1. w \in Rank \ {0} /\ 0 \in Rank
  BY WorkerRank
<1>2. /\ chan \in [Rank -> [Rank -> Seq(Message)]]
      /\ ToMaster(w)[k] \in Message
  BY MessageFacts DEF TypeInv
<1>3. /\ chan' \in [Rank -> [Rank -> Seq(Message)]]
      /\ \A s, d \in Rank :
            chan'[s][d] = IF s = w /\ d = 0
                          THEN Append(chan[s][d], ToMaster(w)[k]) ELSE chan[s][d]
  BY <1>1, <1>2 DEF MPI_Send
<1>4. InFlight(chan'[w][0], ToMaster(w), TakenFrom(w), k)
  <2>1. /\ TakenFrom(w) \in Nat /\ k - 1 \in Nat /\ TakenFrom(w) <= k - 1
        /\ InFlight(chan[w][0], ToMaster(w), TakenFrom(w), k - 1)
    BY CounterTypes DEF ChannelInv
  <2> QED BY <1>1, <1>2, <1>3, <2>1, AppendInFlight
<1>5. TakenFrom(w) <= k
  BY CounterTypes DEF ChannelInv
<1>6. ASSUME NEW v \in Worker
      PROVE  /\ TakenBy(v)' <= SentTo(v)'
             /\ InFlight(chan'[0][v], ToWorker(v), TakenBy(v)', SentTo(v)')
             /\ TakenFrom(v)' <= SentBy(v)'
             /\ InFlight(chan'[v][0], ToMaster(v), TakenFrom(v)', SentBy(v)')
  <2>1. v \in Rank \ {0}
    BY WorkerRank
  <2>2. chan'[0][v] = chan[0][v] /\ (v # w => chan'[v][0] = chan[v][0])
    BY <1>1, <1>3, <2>1
  <2>3. CASE v = w
    BY <1>4, <1>5, <2>2, <2>3 DEF ChannelInv
  <2>4. CASE v # w
    BY <2>2, <2>4 DEF ChannelInv
  <2> QED BY <2>3, <2>4
<1>7. ASSUME NEW s \in Rank, NEW d \in Rank,
             ~ (s = 0 /\ d \in Worker), ~ (s \in Worker /\ d = 0)
      PROVE  chan'[s][d] = <<>>
  BY <1>3, <1>7 DEF ChannelInv
<1> QED BY <1>3, <1>6, <1>7, Rigid DEF ChannelInv

\* Worker w receives message number k from rank 0.
LEMMA WorkerTakes ==
    ASSUME IInv, UNCHANGED <<numtasks, matrixSize>>,
           NEW w \in Worker, NEW k \in 1 .. 4,
           TakenBy(w) = k - 1,
           CanRecv(0, w, FROM_MASTER),
           TakeIncoming(0, w, FROM_MASTER),
           \A v \in Worker :
               /\ SentTo(v)' = SentTo(v)
               /\ TakenBy(v)' = IF v = w THEN k ELSE TakenBy(v)
               /\ SentBy(v)' = SentBy(v)
               /\ TakenFrom(v)' = TakenFrom(v)
    PROVE  /\ ChannelInv' /\ chan' \in [Rank -> [Rank -> Seq(Message)]]
               /\ Incoming(0, w, FROM_MASTER) = ToWorker(w)[k]
<1> USE DEF IInv
<1>1. w \in Rank \ {0} /\ 0 \in Rank
  BY WorkerRank
<1>2. /\ chan \in [Rank -> [Rank -> Seq(Message)]]
      /\ SentTo(w) \in 0 .. 4
      /\ \A i \in 1 .. 4 : ToWorker(w)[i].tag = FROM_MASTER
  BY MessageFacts, CounterTypes DEF TypeInv
<1> DEFINE q == RemoveAt(chan[0][w], FirstMatch(0, w, FROM_MASTER))
<1>taken. /\ k <= SentTo(w)
          /\ Incoming(0, w, FROM_MASTER) = ToWorker(w)[k]
          /\ InFlight(q, ToWorker(w), k, SentTo(w))
  <2>1. /\ k \in Nat \ {0} /\ SentTo(w) \in Nat /\ k - 1 <= SentTo(w)
        /\ InFlight(chan[0][w], ToWorker(w), k - 1, SentTo(w))
        /\ \A i \in 1 .. SentTo(w) : ToWorker(w)[i].tag = FROM_MASTER
    BY <1>2 DEF ChannelInv
  <2> HIDE DEF IInv
  <2> QED BY <1>1, <2>1, TakeInFlight
<1>3. /\ chan' \in [Rank -> [Rank -> Seq(Message)]]
      /\ \A s, d \in Rank :
            chan'[s][d] = IF s = 0 /\ d = w THEN q ELSE chan[s][d]
  <2>1. q \in Seq(Message)
    BY <1>taken DEF InFlight
  <2>2. chan' = [chan EXCEPT ![0][w] = q]
    BY DEF TakeIncoming
  <2> QED BY <1>1, <1>2, <2>1, <2>2
<1>4. InFlight(chan'[0][w], ToWorker(w), k, SentTo(w))
  BY <1>1, <1>3, <1>taken
<1>5. k <= SentTo(w)
  BY <1>2, <1>taken
<1> HIDE DEF q
<1>6. ASSUME NEW v \in Worker
      PROVE  /\ TakenBy(v)' <= SentTo(v)'
             /\ InFlight(chan'[0][v], ToWorker(v), TakenBy(v)', SentTo(v)')
             /\ TakenFrom(v)' <= SentBy(v)'
             /\ InFlight(chan'[v][0], ToMaster(v), TakenFrom(v)', SentBy(v)')
  <2>1. v \in Rank \ {0}
    BY WorkerRank
  <2>2. chan'[v][0] = chan[v][0] /\ (v # w => chan'[0][v] = chan[0][v])
    BY <1>1, <1>3, <2>1
  <2>3. CASE v = w
    BY <1>4, <1>5, <2>2, <2>3 DEF ChannelInv
  <2>4. CASE v # w
    BY <2>2, <2>4 DEF ChannelInv
  <2> QED BY <2>3, <2>4
<1>7. ASSUME NEW s \in Rank, NEW d \in Rank,
             ~ (s = 0 /\ d \in Worker), ~ (s \in Worker /\ d = 0)
      PROVE  chan'[s][d] = <<>>
  BY <1>3, <1>7 DEF ChannelInv
<1> QED BY <1>3, <1>taken, <1>6, <1>7, Rigid DEF ChannelInv

\* Rank 0 receives message number k of worker w.
LEMMA MasterTakes ==
    ASSUME IInv, UNCHANGED <<numtasks, matrixSize>>,
           NEW w \in Worker, NEW k \in 1 .. 3,
           TakenFrom(w) = k - 1,
           CanRecv(w, 0, FROM_WORKER),
           TakeIncoming(w, 0, FROM_WORKER),
           \A v \in Worker :
               /\ SentTo(v)' = SentTo(v)
               /\ TakenBy(v)' = TakenBy(v)
               /\ SentBy(v)' = SentBy(v)
               /\ TakenFrom(v)' = IF v = w THEN k ELSE TakenFrom(v)
    PROVE  /\ ChannelInv' /\ chan' \in [Rank -> [Rank -> Seq(Message)]]
               /\ Incoming(w, 0, FROM_WORKER) = ToMaster(w)[k]
<1> USE DEF IInv
<1>1. w \in Rank \ {0} /\ 0 \in Rank
  BY WorkerRank
<1>2. /\ chan \in [Rank -> [Rank -> Seq(Message)]]
      /\ SentBy(w) \in 0 .. 3
      /\ \A i \in 1 .. 3 : ToMaster(w)[i].tag = FROM_WORKER
  BY MessageFacts, CounterTypes DEF TypeInv
<1> DEFINE q == RemoveAt(chan[w][0], FirstMatch(w, 0, FROM_WORKER))
<1>taken. /\ k <= SentBy(w)
          /\ Incoming(w, 0, FROM_WORKER) = ToMaster(w)[k]
          /\ InFlight(q, ToMaster(w), k, SentBy(w))
  <2>1. /\ k \in Nat \ {0} /\ SentBy(w) \in Nat /\ k - 1 <= SentBy(w)
        /\ InFlight(chan[w][0], ToMaster(w), k - 1, SentBy(w))
        /\ \A i \in 1 .. SentBy(w) : ToMaster(w)[i].tag = FROM_WORKER
    BY <1>2 DEF ChannelInv
  <2> HIDE DEF IInv
  <2> QED BY <1>1, <2>1, TakeInFlight
<1>3. /\ chan' \in [Rank -> [Rank -> Seq(Message)]]
      /\ \A s, d \in Rank :
            chan'[s][d] = IF s = w /\ d = 0 THEN q ELSE chan[s][d]
  <2>1. q \in Seq(Message)
    BY <1>taken DEF InFlight
  <2>2. chan' = [chan EXCEPT ![w][0] = q]
    BY DEF TakeIncoming
  <2> QED BY <1>1, <1>2, <2>1, <2>2
<1>4. InFlight(chan'[w][0], ToMaster(w), k, SentBy(w))
  BY <1>1, <1>3, <1>taken
<1>5. k <= SentBy(w)
  BY <1>2, <1>taken
<1> HIDE DEF q
<1>6. ASSUME NEW v \in Worker
      PROVE  /\ TakenBy(v)' <= SentTo(v)'
             /\ InFlight(chan'[0][v], ToWorker(v), TakenBy(v)', SentTo(v)')
             /\ TakenFrom(v)' <= SentBy(v)'
             /\ InFlight(chan'[v][0], ToMaster(v), TakenFrom(v)', SentBy(v)')
  <2>1. v \in Rank \ {0}
    BY WorkerRank
  <2>2. chan'[0][v] = chan[0][v] /\ (v # w => chan'[v][0] = chan[v][0])
    BY <1>1, <1>3, <2>1
  <2>3. CASE v = w
    BY <1>4, <1>5, <2>2, <2>3 DEF ChannelInv
  <2>4. CASE v # w
    BY <2>2, <2>4 DEF ChannelInv
  <2> QED BY <2>3, <2>4
<1>7. ASSUME NEW s \in Rank, NEW d \in Rank,
             ~ (s = 0 /\ d \in Worker), ~ (s \in Worker /\ d = 0)
      PROVE  chan'[s][d] = <<>>
  BY <1>3, <1>7 DEF ChannelInv
<1> QED BY <1>3, <1>taken, <1>6, <1>7, Rigid DEF ChannelInv
-----------------------------------------------------------------------------
\* The variables of the ranks have their types, and only those of w change.
LocalsTyped ==
    /\ offset \in [Rank -> Int] /\ rows \in [Rank -> Int]
    /\ matrixA \in [Rank -> Matrix]
    /\ matrixB \in [Rank -> Matrix]
    /\ matrixC \in [Rank -> Matrix]

OnlyLocalsOf(w) ==
    \A v \in Rank \ {w} :
        /\ offset'[v] = offset[v] /\ rows'[v] = rows[v]
        /\ matrixA'[v] = matrixA[v] /\ matrixB'[v] = matrixB[v]
        /\ matrixC'[v] = matrixC[v]

\* What a statement of worker w leaves alone.
LEMMA WorkerFrame ==
    ASSUME IInv, NEW w \in Worker, NEW from, NEW to, Step(w, from, to),
           OnlyLocalsOf(w), peer' = peer
    PROVE  /\ UNCHANGED <<numtasks, matrixSize>>
           /\ MasterInv' /\ ResultInv'
           /\ \A v \in Worker : v # w =>
                /\ WorkerOK(v)'
                /\ TakenBy(v)' = TakenBy(v)
                /\ SentBy(v)' = SentBy(v)
           /\ \A v \in Worker :
                /\ SentTo(v)' = SentTo(v)
                /\ TakenFrom(v)' = TakenFrom(v)
<1>1. w \in Rank \ {0} /\ 0 \in Rank
  BY WorkerRank DEF IInv
<1>2. /\ UNCHANGED <<numtasks, matrixSize>>
      /\ \A v \in Rank : v # w => pc'[v] = pc[v]
  BY DEF Step, IInv, TypeInv
<1>3. /\ pc'[0] = pc[0]
      /\ offset'[0] = offset[0] /\ rows'[0] = rows[0]
      /\ matrixA'[0] = matrixA[0] /\ matrixB'[0] = matrixB[0]
      /\ matrixC'[0] = matrixC[0]
  BY <1>1, <1>2 DEF OnlyLocalsOf
<1>4. MasterInv'
  BY <1>2, <1>3, Rigid DEF IInv, MasterInv
<1>5. ResultInv'
  BY <1>2, <1>3, Rigid DEF IInv, ResultInv, Delivered
<1>6. ASSUME NEW v \in Worker, v # w
      PROVE  /\ WorkerOK(v)'
             /\ TakenBy(v)' = TakenBy(v)
             /\ SentBy(v)' = SentBy(v)
  <2>1. v \in Rank \ {w}
    BY <1>6, WorkerRank DEF IInv
  <2>2. /\ pc'[v] = pc[v]
        /\ offset'[v] = offset[v] /\ rows'[v] = rows[v]
        /\ matrixA'[v] = matrixA[v] /\ matrixB'[v] = matrixB[v]
        /\ matrixC'[v] = matrixC[v]
    BY <1>2, <2>1 DEF OnlyLocalsOf
  <2>3. TakenBy(v)' = TakenBy(v) /\ SentBy(v)' = SentBy(v)
    BY <2>2 DEF TakenBy, SentBy
  <2> QED BY <1>2, <2>2, <2>3, Rigid DEF IInv, WorkerInv, WorkerOK
<1>7. ASSUME NEW v \in Worker
      PROVE  SentTo(v)' = SentTo(v) /\ TakenFrom(v)' = TakenFrom(v)
  BY <1>3 DEF SentTo, TakenFrom
<1> QED BY <1>2, <1>4, <1>5, <1>6, <1>7
-----------------------------------------------------------------------------
\* Every statement of a worker preserves the invariant.
LEMMA WorkerPreserves ==
    ASSUME IInv, NEW w \in Worker, WorkerStep(w)
    PROVE  IInv'
<1> USE DEF mem
<1>1. /\ w \in Rank \ {0} /\ 0 \in Rank
      /\ TypeInv
      /\ ~ aborted
      /\ WorkerOK(w)
  BY WorkerRank DEF IInv, WorkerInv, WorkerStep, StartWorker, WorkerRecvOffset,
     WorkerRecvRows, WorkerRecvA, WorkerRecvB, Compute, WorkerSendOffset,
     WorkerSendRows, WorkerSendC, Finalize, Step
<1>2. /\ First(w) \in Nat /\ Count(w) \in Nat
      /\ First(w) + Count(w) \in 0 .. matrixSize
      /\ matrixSize \in Nat \ {0}
      /\ numtasks \in Nat /\ numtasks >= 2 /\ w < numtasks
  <2>1. numtasks \in Nat /\ numtasks >= 2 /\ w < numtasks
    BY <1>1 DEF TypeInv, Worker
  <2> QED BY <1>1, <2>1, BlockFacts
\* What is left to prove once a statement's effect on the worker is known.
<1>3. ASSUME NEW from, NEW to, Step(w, from, to),
             to \in Statement \ {"sendA", "sendB", "recvC"},
             OnlyLocalsOf(w), LocalsTyped', peer' = peer, aborted' = FALSE,
             ChannelInv', chan' \in [Rank -> [Rank -> Seq(Message)]],
             WorkerOK(w)'
      PROVE  IInv'
  <2>1. /\ UNCHANGED <<numtasks, matrixSize, eager_max_msg_sz>>
        /\ pc' = [pc EXCEPT ![w] = to]
    BY <1>3 DEF Step
  <2>2. MasterInv' /\ ResultInv' /\ WorkerInv'
    BY <1>3, WorkerFrame, Rigid DEF WorkerInv
  <2>3. TypeInv'
    <3>1. /\ pc' \in [Rank -> Statement]
          /\ pc'[0] = pc[0] /\ pc'[w] = to
          /\ \A v \in Rank : v # w => pc'[v] = pc[v]
      BY <1>1, <1>3, <2>1 DEF TypeInv
    <3>2. ASSUME NEW v \in Rank \ {0}
          PROVE  pc'[v] \notin {"sendA", "sendB", "recvC"}
      BY <1>1, <1>3, <3>1 DEF TypeInv
    <3>3. ASSUME NEW v \in Rank, v >= numtasks
          PROVE  pc'[v] = "start"
      <4>1. v # w
        BY <1>2, <3>3 DEF Rank, Worker
      <4> QED BY <1>1, <3>1, <3>3, <4>1 DEF TypeInv
    <3> QED BY <1>1, <1>3, <2>1, <3>1, <3>2, <3>3, Rigid DEF TypeInv, LocalsTyped
  <2>4. LaunchInv'
    BY <1>2, <1>3, <2>1 DEF LaunchInv
  <2> QED BY <1>3, <2>2, <2>3, <2>4 DEF IInv
<1>4. CASE StartWorker(w)
  <2>1. /\ Step(w, "start", "recvOffset")
        /\ pc[w] = "start" /\ pc'[w] = "recvOffset"
        /\ UNCHANGED <<numtasks, matrixSize, chan, aborted, mem>>
    BY <1>1, <1>4 DEF StartWorker, Step, TypeInv
  <2>2. OnlyLocalsOf(w) /\ LocalsTyped'
    BY <1>1, <2>1, Rigid DEF OnlyLocalsOf, LocalsTyped, TypeInv
  <2>3. TakenBy(w)' = TakenBy(w) /\ SentBy(w)' = SentBy(w)
    BY <2>1 DEF TakenBy, SentBy, Collected
  <2>4. \A v \in Worker : /\ TakenBy(v)' = TakenBy(v)
                          /\ SentBy(v)' = SentBy(v)
                          /\ SentTo(v)' = SentTo(v)
                          /\ TakenFrom(v)' = TakenFrom(v)
    BY <2>1, <2>2, <2>3, WorkerFrame
  <2>5. ChannelInv'
    BY <2>1, <2>4, Rigid DEF IInv, ChannelInv
  <2>6. WorkerOK(w)'
    BY <2>1 DEF WorkerOK, TakenBy
  <2> QED BY <1>1, <1>3, <2>1, <2>2, <2>5, <2>6 DEF Statement, TypeInv
<1>5. CASE WorkerRecvOffset(w)
  <2>1. /\ Step(w, "recvOffset", "recvRows")
        /\ pc[w] = "recvOffset" /\ pc'[w] = "recvRows"
        /\ UNCHANGED <<numtasks, matrixSize>>
    BY <1>1, <1>5 DEF WorkerRecvOffset, Step, TypeInv
  <2>2. /\ TakenBy(w) = 0 /\ TakenBy(w)' = 1
        /\ SentBy(w) = 0 /\ SentBy(w)' = 0
    BY <2>1 DEF TakenBy, SentBy, Collected
  <2>3. /\ CanRecv(0, w, FROM_MASTER) /\ TakeIncoming(0, w, FROM_MASTER)
        /\ aborted' = Truncates(Incoming(0, w, FROM_MASTER), INT)
        /\ offset' = [offset EXCEPT ![w] = Incoming(0, w, FROM_MASTER).int]
        /\ UNCHANGED <<rows, matrixA, matrixB, matrixC, peer>>
    BY <1>5 DEF WorkerRecvOffset, Recv
  <2>4. OnlyLocalsOf(w)
    BY <1>1, <2>3 DEF OnlyLocalsOf, TypeInv
  <2>5. /\ ChannelInv' /\ chan' \in [Rank -> [Rank -> Seq(Message)]]
        /\ Incoming(0, w, FROM_MASTER) = ToWorker(w)[1]
    <3>1. \A v \in Worker :
              /\ SentTo(v)' = SentTo(v)
              /\ TakenBy(v)' = IF v = w THEN 1 ELSE TakenBy(v)
              /\ SentBy(v)' = SentBy(v)
              /\ TakenFrom(v)' = TakenFrom(v)
      BY <2>1, <2>2, <2>3, <2>4, WorkerFrame
    <3> QED BY <2>1, <2>2, <2>3, <3>1, WorkerTakes
  <2>6. offset'[w] = First(w) /\ aborted' = FALSE
    BY <1>1, <2>3, <2>5 DEF ToWorker, IntMsg, Truncates, INT, TypeInv
  <2>7. LocalsTyped'
    BY <1>1, <1>2, <2>1, <2>3, <2>6, Rigid DEF LocalsTyped, TypeInv
  <2>8. WorkerOK(w)'
    BY <1>1, <1>2, <2>1, <2>2, <2>3, <2>6, Rigid DEF WorkerOK, TypeInv
  <2> QED BY <1>3, <2>1, <2>3, <2>4, <2>5, <2>6, <2>7, <2>8 DEF Statement
<1>6. CASE WorkerRecvRows(w)
  <2>1. /\ Step(w, "recvRows", "recvA")
        /\ pc[w] = "recvRows" /\ pc'[w] = "recvA"
        /\ UNCHANGED <<numtasks, matrixSize>>
    BY <1>1, <1>6 DEF WorkerRecvRows, Step, TypeInv
  <2>2. /\ TakenBy(w) = 1 /\ TakenBy(w)' = 2
        /\ SentBy(w) = 0 /\ SentBy(w)' = 0
    BY <2>1 DEF TakenBy, SentBy, Collected
  <2>3. /\ CanRecv(0, w, FROM_MASTER) /\ TakeIncoming(0, w, FROM_MASTER)
        /\ aborted' = Truncates(Incoming(0, w, FROM_MASTER), INT)
        /\ rows' = [rows EXCEPT ![w] = Incoming(0, w, FROM_MASTER).int]
        /\ UNCHANGED <<offset, matrixA, matrixB, matrixC, peer>>
    BY <1>6 DEF WorkerRecvRows, Recv
  <2>4. OnlyLocalsOf(w)
    BY <1>1, <2>3 DEF OnlyLocalsOf, TypeInv
  <2>5. /\ ChannelInv' /\ chan' \in [Rank -> [Rank -> Seq(Message)]]
        /\ Incoming(0, w, FROM_MASTER) = ToWorker(w)[2]
    <3>1. \A v \in Worker :
              /\ SentTo(v)' = SentTo(v)
              /\ TakenBy(v)' = IF v = w THEN 2 ELSE TakenBy(v)
              /\ SentBy(v)' = SentBy(v)
              /\ TakenFrom(v)' = TakenFrom(v)
      BY <2>1, <2>2, <2>3, <2>4, WorkerFrame
    <3> QED BY <2>1, <2>2, <2>3, <3>1, WorkerTakes
  <2>6. rows'[w] = Count(w) /\ aborted' = FALSE
    BY <1>1, <2>3, <2>5 DEF ToWorker, IntMsg, Truncates, INT, TypeInv
  <2>7. LocalsTyped'
    BY <1>1, <1>2, <2>1, <2>3, <2>6, Rigid DEF LocalsTyped, TypeInv
  <2>8. WorkerOK(w)'
    BY <1>1, <1>2, <2>1, <2>2, <2>3, <2>6, Rigid DEF WorkerOK, TypeInv
  <2> QED BY <1>3, <2>1, <2>3, <2>4, <2>5, <2>6, <2>7, <2>8 DEF Statement
<1>7. CASE WorkerRecvA(w)
  <2>1. /\ Step(w, "recvA", "recvB")
        /\ pc[w] = "recvA" /\ pc'[w] = "recvB"
        /\ UNCHANGED <<numtasks, matrixSize>>
    BY <1>1, <1>7 DEF WorkerRecvA, Step, TypeInv
  <2>2. /\ TakenBy(w) = 2 /\ TakenBy(w)' = 3
        /\ SentBy(w) = 0 /\ SentBy(w)' = 0
    BY <2>1 DEF TakenBy, SentBy, Collected
  <2>3. /\ CanRecv(0, w, FROM_MASTER) /\ TakeIncoming(0, w, FROM_MASTER)
        /\ aborted' = Truncates(Incoming(0, w, FROM_MASTER), ROWS(rows[w]))
        /\ matrixA' = [matrixA EXCEPT ![w] = Stored(@, 0, Incoming(0, w, FROM_MASTER))]
        /\ UNCHANGED <<offset, rows, matrixB, matrixC, peer>>
    BY <1>7 DEF WorkerRecvA, Recv
  <2>4. OnlyLocalsOf(w)
    BY <1>1, <2>3 DEF OnlyLocalsOf, TypeInv
  <2>5. /\ ChannelInv' /\ chan' \in [Rank -> [Rank -> Seq(Message)]]
        /\ Incoming(0, w, FROM_MASTER) = ToWorker(w)[3]
    <3>1. \A v \in Worker :
              /\ SentTo(v)' = SentTo(v)
              /\ TakenBy(v)' = IF v = w THEN 3 ELSE TakenBy(v)
              /\ SentBy(v)' = SentBy(v)
              /\ TakenFrom(v)' = TakenFrom(v)
      BY <2>1, <2>2, <2>3, <2>4, WorkerFrame
    <3> QED BY <2>1, <2>2, <2>3, <3>1, WorkerTakes
  <2>6. /\ aborted' = FALSE
        /\ matrixA'[w] = [i \in Row |-> IF i \in 0 .. Count(w) - 1
                                     THEN First(w) + i ELSE matrixA[w][i]]
    <3> DEFINE b == Block(w)
               m == Incoming(0, w, FROM_MASTER)
    <3>1. /\ b \in Seq(Int) /\ Len(b) = Count(w) /\ DOMAIN b = 1 .. Count(w)
          /\ \A j \in 1 .. Count(w) : b[j] = First(w) + j - 1
      BY <1>2 DEF Block
    <3>2. m.block = b /\ m.bytes = 8 * matrixSize * Len(b)
      <4>1. m = RowsMsg(FROM_MASTER, matrixSize, b)
        BY <2>5 DEF ToWorker
      <4> HIDE DEF b, m
      <4> QED BY <4>1 DEF RowsMsg
    <3>3. aborted' = FALSE
      <4>1. m.bytes = ROWS(rows[w])
        BY <1>1, <1>2, <2>2, <3>1, <3>2 DEF WorkerOK, ROWS
      <4>2. m.bytes \in Int
        BY <1>2, <3>1, <3>2
      <4>3. ~ Truncates(m, ROWS(rows[w]))
        <5> HIDE DEF b, m
        <5> QED BY <4>1, <4>2 DEF Truncates
      <4> QED BY <2>3, <4>3
    <3>4. matrixA'[w] = Stored(matrixA[w], 0, m)
      BY <1>1, <2>3 DEF TypeInv
    <3>5. matrixA[w] \in [Row -> Row \cup {Garbage}]
      BY <1>1 DEF TypeInv, Matrix
    <3>6. ASSUME NEW i \in Row
          PROVE  (IF i - 0 + 1 \in DOMAIN b THEN b[i - 0 + 1] ELSE matrixA[w][i])
                 = (IF i \in 0 .. Count(w) - 1 THEN First(w) + i ELSE matrixA[w][i])
      <4>1. i \in Int /\ i >= 0 /\ i - 0 + 1 = i + 1 /\ (i + 1) - 1 = i
        BY <1>2 DEF Row
      <4>2. CASE i < Count(w)
        <5>1. i + 1 \in 1 .. Count(w) /\ i \in 0 .. Count(w) - 1
          BY <1>2, <4>1, <4>2
        <5>2. b[i + 1] = First(w) + (i + 1) - 1
          BY <3>1, <5>1
        <5> QED BY <1>2, <3>1, <4>1, <5>1, <5>2
      <4>3. CASE ~ (i < Count(w))
        BY <1>2, <3>1, <4>1, <4>3
      <4> QED BY <4>2, <4>3
    <3> HIDE DEF b, m
    <3> QED BY <3>2, <3>3, <3>4, <3>5, <3>6 DEF Stored
  <2>7. LocalsTyped'
    <3>1. matrixA'[w] \in Matrix
      <4>1. ASSUME NEW i \in Row PROVE matrixA'[w][i] \in Row \cup {Garbage}
        <5>1. matrixA'[w][i] = IF i \in 0 .. Count(w) - 1
                             THEN First(w) + i ELSE matrixA[w][i]
          BY <2>6
        <5>2. matrixA[w][i] \in Row \cup {Garbage}
          BY <1>1 DEF TypeInv, Matrix
        <5> QED BY <1>2, <5>1, <5>2 DEF Row
      <4> QED BY <2>6, <4>1 DEF Matrix
    <3> QED BY <1>1, <2>1, <2>3, <3>1, Rigid DEF LocalsTyped, TypeInv
  <2>8. WorkerOK(w)'
    <3>1. ASSUME NEW i \in 0 .. Count(w) - 1
          PROVE  matrixA'[w][i] = First(w) + i
      <4>1. i \in Row
        BY <1>2 DEF Row
      <4> QED BY <2>6, <4>1
    <3> QED BY <1>1, <2>1, <2>2, <2>3, <3>1, Rigid DEF WorkerOK
  <2> QED BY <1>3, <2>1, <2>3, <2>4, <2>5, <2>6, <2>7, <2>8 DEF Statement
<1>8. CASE WorkerRecvB(w)
  <2>1. /\ Step(w, "recvB", "compute")
        /\ pc[w] = "recvB" /\ pc'[w] = "compute"
        /\ UNCHANGED <<numtasks, matrixSize>>
    BY <1>1, <1>8 DEF WorkerRecvB, Step, TypeInv
  <2>2. /\ TakenBy(w) = 3 /\ TakenBy(w)' = 4
        /\ SentBy(w) = 0 /\ SentBy(w)' = 0
    BY <2>1 DEF TakenBy, SentBy, Collected
  <2>3. /\ CanRecv(0, w, FROM_MASTER) /\ TakeIncoming(0, w, FROM_MASTER)
        /\ aborted' = Truncates(Incoming(0, w, FROM_MASTER), ROWS(matrixSize))
        /\ matrixB' = [matrixB EXCEPT ![w] = Stored(@, 0, Incoming(0, w, FROM_MASTER))]
        /\ UNCHANGED <<offset, rows, matrixA, matrixC, peer>>
    BY <1>8 DEF WorkerRecvB, Recv
  <2>4. OnlyLocalsOf(w)
    BY <1>1, <2>3 DEF OnlyLocalsOf, TypeInv
  <2>5. /\ ChannelInv' /\ chan' \in [Rank -> [Rank -> Seq(Message)]]
        /\ Incoming(0, w, FROM_MASTER) = ToWorker(w)[4]
    <3>1. \A v \in Worker :
              /\ SentTo(v)' = SentTo(v)
              /\ TakenBy(v)' = IF v = w THEN 4 ELSE TakenBy(v)
              /\ SentBy(v)' = SentBy(v)
              /\ TakenFrom(v)' = TakenFrom(v)
      BY <2>1, <2>2, <2>3, <2>4, WorkerFrame
    <3> QED BY <2>1, <2>2, <2>3, <3>1, WorkerTakes
  <2>6. /\ aborted' = FALSE
        /\ matrixB'[w] = [i \in Row |-> IF i \in 0 .. matrixSize - 1
                                     THEN i ELSE matrixB[w][i]]
    <3> DEFINE b == [i \in 1 .. matrixSize |-> i - 1]
               m == Incoming(0, w, FROM_MASTER)
    <3>1. /\ b \in Seq(Int) /\ Len(b) = matrixSize /\ DOMAIN b = 1 .. matrixSize
          /\ \A j \in 1 .. matrixSize : b[j] = j - 1
      BY <1>2 DEF Block
    <3>2. m.block = b /\ m.bytes = 8 * matrixSize * Len(b)
      <4>1. m = RowsMsg(FROM_MASTER, matrixSize, b)
        BY <2>5 DEF ToWorker
      <4> HIDE DEF b, m
      <4> QED BY <4>1 DEF RowsMsg
    <3>3. aborted' = FALSE
      <4>1. m.bytes = ROWS(matrixSize)
        BY <1>1, <1>2, <2>2, <3>1, <3>2 DEF WorkerOK, ROWS
      <4>2. m.bytes \in Int
        BY <1>2, <3>1, <3>2
      <4>3. ~ Truncates(m, ROWS(matrixSize))
        <5> HIDE DEF b, m
        <5> QED BY <4>1, <4>2 DEF Truncates
      <4> QED BY <2>3, <4>3
    <3>4. matrixB'[w] = Stored(matrixB[w], 0, m)
      BY <1>1, <2>3 DEF TypeInv
    <3>5. matrixB[w] \in [Row -> Row \cup {Garbage}]
      BY <1>1 DEF TypeInv, Matrix
    <3>6. ASSUME NEW i \in Row
          PROVE  (IF i - 0 + 1 \in DOMAIN b THEN b[i - 0 + 1] ELSE matrixB[w][i])
                 = (IF i \in 0 .. matrixSize - 1 THEN i ELSE matrixB[w][i])
      <4>1. i \in Int /\ i >= 0 /\ i - 0 + 1 = i + 1 /\ (i + 1) - 1 = i
        BY <1>2 DEF Row
      <4>2. CASE i < matrixSize
        <5>1. i + 1 \in 1 .. matrixSize /\ i \in 0 .. matrixSize - 1
          BY <1>2, <4>1, <4>2
        <5>2. b[i + 1] = (i + 1) - 1
          BY <3>1, <5>1
        <5> QED BY <1>2, <3>1, <4>1, <5>1, <5>2
      <4>3. CASE ~ (i < matrixSize)
        BY <1>2, <3>1, <4>1, <4>3
      <4> QED BY <4>2, <4>3
    <3> HIDE DEF b, m
    <3> QED BY <3>2, <3>3, <3>4, <3>5, <3>6 DEF Stored
  <2>7. LocalsTyped'
    <3>1. matrixB'[w] \in Matrix
      <4>1. ASSUME NEW i \in Row PROVE matrixB'[w][i] \in Row \cup {Garbage}
        <5>1. matrixB'[w][i] = IF i \in 0 .. matrixSize - 1
                             THEN i ELSE matrixB[w][i]
          BY <2>6
        <5>2. matrixB[w][i] \in Row \cup {Garbage}
          BY <1>1 DEF TypeInv, Matrix
        <5> QED BY <1>2, <5>1, <5>2 DEF Row
      <4> QED BY <2>6, <4>1 DEF Matrix
    <3> QED BY <1>1, <2>1, <2>3, <3>1, Rigid DEF LocalsTyped, TypeInv
  <2>8. WorkerOK(w)'
    <3>1. matrixB'[w] = Identity
      <4>1. ASSUME NEW i \in Row
            PROVE  (IF i \in 0 .. matrixSize - 1 THEN i ELSE matrixB[w][i]) = i
        BY DEF Row
      <4> QED BY <2>6, <4>1 DEF Identity
    <3> QED BY <1>1, <2>1, <2>2, <2>3, <3>1, Rigid DEF WorkerOK
  <2> QED BY <1>3, <2>1, <2>3, <2>4, <2>5, <2>6, <2>7, <2>8 DEF Statement
<1>9. CASE Compute(w)
  <2>1. /\ Step(w, "compute", "sendOffset")
        /\ pc[w] = "compute" /\ pc'[w] = "sendOffset"
        /\ UNCHANGED <<numtasks, matrixSize>>
    BY <1>1, <1>9 DEF Compute, Step, TypeInv
  <2>2. /\ TakenBy(w) = 4 /\ TakenBy(w)' = 4
        /\ SentBy(w) = 0 /\ SentBy(w)' = 0
    BY <2>1 DEF TakenBy, SentBy, Collected
  <2>3. /\ matrixC' = [matrixC EXCEPT ![w] = matrixA[w]]
        /\ UNCHANGED <<chan, aborted, offset, rows, peer, matrixA, matrixB>>
    <3>1. matrixB[w] = Identity
      BY <1>1, <2>2 DEF WorkerOK
    <3>2. matrixA[w] = [i \in Row |-> matrixA[w][i]]
      BY <1>1 DEF TypeInv, Matrix
    <3> QED BY <1>9, <3>1, <3>2 DEF Compute
  <2>4. OnlyLocalsOf(w) /\ LocalsTyped' /\ matrixC'[w] = matrixA[w]
    BY <1>1, <2>1, <2>3, Rigid DEF OnlyLocalsOf, LocalsTyped, TypeInv
  <2>5. ChannelInv'
    <3>1. \A v \in Worker : /\ TakenBy(v)' = TakenBy(v)
                            /\ SentBy(v)' = SentBy(v)
                            /\ SentTo(v)' = SentTo(v)
                            /\ TakenFrom(v)' = TakenFrom(v)
      BY <2>1, <2>2, <2>3, <2>4, WorkerFrame
    <3> QED BY <2>1, <2>3, <3>1, Rigid DEF IInv, ChannelInv
  <2>6. WorkerOK(w)'
    BY <1>1, <2>1, <2>2, <2>3, <2>4, Rigid DEF WorkerOK
  <2> QED BY <1>1, <1>3, <2>1, <2>3, <2>4, <2>5, <2>6 DEF Statement, TypeInv
<1>10. CASE WorkerSendOffset(w)
  <2>1. /\ Step(w, "sendOffset", "sendRows")
        /\ pc[w] = "sendOffset" /\ pc'[w] = "sendRows"
        /\ UNCHANGED <<numtasks, matrixSize>>
    BY <1>1, <1>10 DEF WorkerSendOffset, Step, TypeInv
  <2>2. /\ TakenBy(w) = 4 /\ TakenBy(w)' = 4
        /\ SentBy(w) = 0 /\ SentBy(w)' = 1
    BY <2>1 DEF TakenBy, SentBy, Collected
  <2>3. UNCHANGED mem /\ aborted' = FALSE
    BY <1>1, <1>10 DEF WorkerSendOffset, Send
  <2>4. MPI_Send(w, 0, ToMaster(w)[1])
    BY <1>1, <1>10, <2>2 DEF WorkerSendOffset, Send, ToMaster, WorkerOK
  <2>5. OnlyLocalsOf(w) /\ LocalsTyped'
    BY <1>1, <2>1, <2>3, Rigid DEF OnlyLocalsOf, LocalsTyped, TypeInv
  <2>6. ChannelInv' /\ chan' \in [Rank -> [Rank -> Seq(Message)]]
    <3>1. \A v \in Worker :
              /\ SentTo(v)' = SentTo(v)
              /\ TakenBy(v)' = TakenBy(v)
              /\ SentBy(v)' = IF v = w THEN 1 ELSE SentBy(v)
              /\ TakenFrom(v)' = TakenFrom(v)
      BY <2>1, <2>2, <2>3, <2>5, WorkerFrame
    <3> QED BY <2>1, <2>2, <2>4, <3>1, WorkerSends
  <2>7. WorkerOK(w)'
    BY <1>1, <2>1, <2>2, <2>3, Rigid DEF WorkerOK
  <2> QED BY <1>3, <2>1, <2>3, <2>5, <2>6, <2>7 DEF Statement
<1>11. CASE WorkerSendRows(w)
  <2>1. /\ Step(w, "sendRows", "sendC")
        /\ pc[w] = "sendRows" /\ pc'[w] = "sendC"
        /\ UNCHANGED <<numtasks, matrixSize>>
    BY <1>1, <1>11 DEF WorkerSendRows, Step, TypeInv
  <2>2. /\ TakenBy(w) = 4 /\ TakenBy(w)' = 4
        /\ SentBy(w) = 1 /\ SentBy(w)' = 2
    BY <2>1 DEF TakenBy, SentBy, Collected
  <2>3. UNCHANGED mem /\ aborted' = FALSE
    BY <1>1, <1>11 DEF WorkerSendRows, Send
  <2>4. MPI_Send(w, 0, ToMaster(w)[2])
    BY <1>1, <1>11, <2>2 DEF WorkerSendRows, Send, ToMaster, WorkerOK
  <2>5. OnlyLocalsOf(w) /\ LocalsTyped'
    BY <1>1, <2>1, <2>3, Rigid DEF OnlyLocalsOf, LocalsTyped, TypeInv
  <2>6. ChannelInv' /\ chan' \in [Rank -> [Rank -> Seq(Message)]]
    <3>1. \A v \in Worker :
              /\ SentTo(v)' = SentTo(v)
              /\ TakenBy(v)' = TakenBy(v)
              /\ SentBy(v)' = IF v = w THEN 2 ELSE SentBy(v)
              /\ TakenFrom(v)' = TakenFrom(v)
      BY <2>1, <2>2, <2>3, <2>5, WorkerFrame
    <3> QED BY <2>1, <2>2, <2>4, <3>1, WorkerSends
  <2>7. WorkerOK(w)'
    BY <1>1, <2>1, <2>2, <2>3, Rigid DEF WorkerOK
  <2> QED BY <1>3, <2>1, <2>3, <2>5, <2>6, <2>7 DEF Statement
<1>12. CASE WorkerSendC(w)
  <2>1. /\ Step(w, "sendC", "finalize")
        /\ pc[w] = "sendC" /\ pc'[w] = "finalize"
        /\ UNCHANGED <<numtasks, matrixSize>>
    BY <1>1, <1>12 DEF WorkerSendC, Step, TypeInv
  <2>2. /\ TakenBy(w) = 4 /\ TakenBy(w)' = 4
        /\ SentBy(w) = 2 /\ SentBy(w)' = 3
    BY <2>1 DEF TakenBy, SentBy, Collected
  <2>3. UNCHANGED mem /\ aborted' = FALSE
    BY <1>1, <1>12 DEF WorkerSendC, Send
  <2>4. MPI_Send(w, 0, ToMaster(w)[3])
    <3>1. RowsOf(matrixC[w], 0, rows[w]) = Block(w)
      <4>1. rows[w] = Count(w)
        BY <1>1, <2>2 DEF WorkerOK
      <4>2. ASSUME NEW i \in 1 .. Count(w)
            PROVE  matrixC[w][0 + i - 1] = First(w) + i - 1
        <5>1. i - 1 \in 0 .. Count(w) - 1 /\ 0 + i - 1 = i - 1
          BY <1>2
        <5>2. matrixC[w][i - 1] = First(w) + (i - 1)
          BY <1>1, <2>1, <5>1 DEF WorkerOK
        <5> QED BY <1>2, <5>1, <5>2
      <4> QED BY <4>1, <4>2 DEF RowsOf, Block
    <3> QED BY <1>12, <3>1 DEF WorkerSendC, Send, ToMaster
  <2>5. OnlyLocalsOf(w) /\ LocalsTyped'
    BY <1>1, <2>1, <2>3, Rigid DEF OnlyLocalsOf, LocalsTyped, TypeInv
  <2>6. ChannelInv' /\ chan' \in [Rank -> [Rank -> Seq(Message)]]
    <3>1. \A v \in Worker :
              /\ SentTo(v)' = SentTo(v)
              /\ TakenBy(v)' = TakenBy(v)
              /\ SentBy(v)' = IF v = w THEN 3 ELSE SentBy(v)
              /\ TakenFrom(v)' = TakenFrom(v)
      BY <2>1, <2>2, <2>3, <2>5, WorkerFrame
    <3> QED BY <2>1, <2>2, <2>4, <3>1, WorkerSends
  <2>7. WorkerOK(w)'
    BY <1>1, <2>1, <2>2, <2>3, Rigid DEF WorkerOK
  <2> QED BY <1>3, <2>1, <2>3, <2>5, <2>6, <2>7 DEF Statement
<1>13. CASE Finalize(w)
  <2>1. /\ Step(w, "finalize", "done")
        /\ pc[w] = "finalize" /\ pc'[w] = "done"
        /\ UNCHANGED <<numtasks, matrixSize>>
    BY <1>1, <1>13 DEF Finalize, Step, TypeInv
  <2>2. /\ TakenBy(w) = 4 /\ TakenBy(w)' = 4
        /\ SentBy(w) = 3 /\ SentBy(w)' = 3
    BY <2>1 DEF TakenBy, SentBy, Collected
  <2>3. UNCHANGED <<chan, aborted, mem>>
    BY <1>13 DEF Finalize
  <2>4. OnlyLocalsOf(w) /\ LocalsTyped'
    BY <1>1, <2>1, <2>3, Rigid DEF OnlyLocalsOf, LocalsTyped, TypeInv
  <2>5. ChannelInv'
    <3>1. \A v \in Worker : /\ TakenBy(v)' = TakenBy(v)
                            /\ SentBy(v)' = SentBy(v)
                            /\ SentTo(v)' = SentTo(v)
                            /\ TakenFrom(v)' = TakenFrom(v)
      BY <2>1, <2>2, <2>3, <2>4, WorkerFrame
    <3> QED BY <2>1, <2>3, <3>1, Rigid DEF IInv, ChannelInv
  <2>6. WorkerOK(w)'
    BY <1>1, <2>1, <2>2, <2>3, Rigid DEF WorkerOK
  <2> QED BY <1>1, <1>3, <2>1, <2>3, <2>4, <2>5, <2>6 DEF Statement, TypeInv
<1> QED BY <1>4, <1>5, <1>6, <1>7, <1>8, <1>9, <1>10, <1>11, <1>12, <1>13 DEF WorkerStep
-----------------------------------------------------------------------------
\* What a statement of rank 0 leaves alone.
LEMMA MasterFrame ==
    ASSUME IInv, NEW from, NEW to, Step(0, from, to), OnlyLocalsOf(0)
    PROVE  /\ UNCHANGED <<numtasks, matrixSize>>
           /\ pc[0] = from /\ pc'[0] = to
           /\ WorkerInv'
           /\ \A v \in Worker : TakenBy(v)' = TakenBy(v) /\ SentBy(v)' = SentBy(v)
<1>1. /\ UNCHANGED <<numtasks, matrixSize>>
      /\ pc[0] = from /\ pc'[0] = to
      /\ \A v \in Rank : v # 0 => pc'[v] = pc[v]
  BY WorkerRank DEF Step, IInv, TypeInv
<1>2. ASSUME NEW v \in Worker
      PROVE  /\ WorkerOK(v)'
             /\ TakenBy(v)' = TakenBy(v)
             /\ SentBy(v)' = SentBy(v)
  <2>1. v \in Rank \ {0}
    BY WorkerRank DEF IInv
  <2>2. /\ pc'[v] = pc[v]
        /\ offset'[v] = offset[v] /\ rows'[v] = rows[v]
        /\ matrixA'[v] = matrixA[v] /\ matrixB'[v] = matrixB[v]
        /\ matrixC'[v] = matrixC[v]
    BY <1>1, <2>1 DEF OnlyLocalsOf
  <2>3. TakenBy(v)' = TakenBy(v) /\ SentBy(v)' = SentBy(v)
    BY <2>2 DEF TakenBy, SentBy
  <2> QED BY <1>1, <2>2, <2>3, Rigid DEF IInv, WorkerInv, WorkerOK
<1> QED BY <1>1, <1>2, Rigid DEF WorkerInv

\* Rank 0 has its own rows of A and B where it sends them from.
LEMMA RowsSent ==
    ASSUME IInv, NEW w \in Worker
    PROVE  /\ RowsOf(Identity, First(w), Count(w)) = Block(w)
           /\ RowsOf(Identity, 0, matrixSize) = [i \in 1 .. matrixSize |-> i - 1]
<1>1. /\ First(w) \in Nat /\ Count(w) \in Nat
      /\ First(w) + Count(w) \in 0 .. matrixSize
      /\ matrixSize \in Nat
  BY BlockFacts DEF IInv
<1>2. ASSUME NEW i \in 1 .. Count(w)
      PROVE  Identity[First(w) + i - 1] = First(w) + i - 1
  BY <1>1 DEF Identity, Row
<1>3. ASSUME NEW i \in 1 .. matrixSize
      PROVE  Identity[0 + i - 1] = i - 1
  BY <1>1 DEF Identity, Row
<1> QED BY <1>2, <1>3 DEF RowsOf, Block

\* Every statement of rank 0 preserves the invariant.
LEMMA MasterPreserves ==
    ASSUME IInv, Master
    PROVE  IInv'
<1> USE DEF mem
<1>1. /\ TypeInv /\ LaunchInv /\ MasterInv /\ ResultInv
      /\ ~ aborted
      /\ 0 \in Rank
      /\ numtasks \in Nat
  BY WorkerRank DEF IInv, TypeInv, Master, Quit, StartMaster, MasterSendOffset,
     MasterSendRows, MasterSendA, MasterSendB, MasterRecvOffset, MasterRecvRows,
     MasterRecvC, Finalize, Step
\* What is left to prove once a statement's effect on rank 0 is known.
<1>2. ASSUME numtasks >= 2, NEW from, NEW to, Step(0, from, to),
             to \in Sending \cup Receiving \cup Collected,
             OnlyLocalsOf(0), LocalsTyped', peer' \in Int, aborted' = FALSE,
             ChannelInv', chan' \in [Rank -> [Rank -> Seq(Message)]],
             MasterInv', ResultInv'
      PROVE  IInv'
  <2>1. /\ UNCHANGED <<numtasks, matrixSize, eager_max_msg_sz>>
        /\ pc' = [pc EXCEPT ![0] = to]
    BY <1>2 DEF Step
  <2>2. WorkerInv'
    BY <1>2, MasterFrame
  <2>3. TypeInv'
    <3>1. /\ pc' \in [Rank -> Statement]
          /\ pc'[0] = to
          /\ \A v \in Rank : v # 0 => pc'[v] = pc[v]
      BY <1>1, <1>2, <2>1 DEF TypeInv, Statement, Sending, Receiving, Collected
    <3>2. ASSUME NEW v \in Rank \ {0}
          PROVE  pc'[v] \notin {"sendA", "sendB", "recvC"}
      BY <1>1, <3>1 DEF TypeInv
    <3>3. ASSUME NEW v \in Rank, v >= numtasks
          PROVE  pc'[v] = "start"
      <4>1. v # 0
        BY <1>1, <1>2, <3>3
      <4> QED BY <1>1, <3>1, <3>3, <4>1 DEF TypeInv
    <3>4. pc'[0] \in {"start"} \cup Sending \cup Receiving \cup Collected
      BY <1>2, <3>1
    <3> QED BY <1>1, <1>2, <2>1, <3>1, <3>2, <3>3, <3>4, Rigid DEF TypeInv, LocalsTyped
  <2>4. LaunchInv'
    BY <1>1, <1>2, <2>1 DEF LaunchInv
  <2> QED BY <1>2, <2>2, <2>3, <2>4 DEF IInv
<1>3. CASE Quit(0)
  <2>1. /\ UNCHANGED <<numtasks, matrixSize, eager_max_msg_sz, chan, pc, mem>>
        /\ aborted' = TRUE /\ numtasks < 2
    BY <1>1, <1>3 DEF Quit, Step, MPI_Abort, TypeInv
  <2>2. UNCHANGED <<Sending, Receiving, Collected>>
    BY DEF Sending, Receiving, Collected
  <2>3. TypeInv' /\ LaunchInv'
    BY <1>1, <2>1, Rigid DEF TypeInv, LaunchInv
  <2>4. Worker = {}
    BY <1>1, <2>1 DEF Worker
  <2>5. MasterInv' /\ WorkerInv' /\ ChannelInv' /\ ResultInv'
    BY <1>1, <2>1, <2>4, Rigid DEF IInv, MasterInv, WorkerInv, ChannelInv,
       ResultInv, Sending, Receiving, LaunchInv
  <2> QED BY <2>3, <2>5 DEF IInv
<1>4. CASE StartMaster
  <2>1. /\ Step(0, "start", "sendOffset") /\ numtasks >= 2
        /\ matrixA' = [matrixA EXCEPT ![0] = Identity]
        /\ matrixB' = [matrixB EXCEPT ![0] = Identity]
        /\ offset' = [offset EXCEPT ![0] = 0]
        /\ peer' = 1
        /\ UNCHANGED <<chan, rows, matrixC, numtasks, matrixSize>>
        /\ aborted' = FALSE
    BY <1>1, <1>4 DEF StartMaster, Step, TypeInv
  <2>2. OnlyLocalsOf(0) /\ LocalsTyped'
    <3>1. Identity \in Matrix
      BY DEF Identity, Matrix
    <3> QED BY <1>1, <2>1, <3>1, Rigid DEF OnlyLocalsOf, LocalsTyped, TypeInv
  <2>3. pc[0] = "start" /\ pc'[0] = "sendOffset" /\ WorkerInv'
        /\ \A v \in Worker : TakenBy(v)' = TakenBy(v) /\ SentBy(v)' = SentBy(v)
    BY <2>1, <2>2, MasterFrame
  <2>4. 1 \in Worker
    BY <1>1, <2>1 DEF Worker
  <2>5. ASSUME NEW v \in Worker
        PROVE  SentTo(v)' = SentTo(v) /\ TakenFrom(v)' = TakenFrom(v)
    <3>1. v \in Nat /\ v >= 1
      BY <1>1 DEF Worker
    <3> QED BY <2>1, <2>3, <3>1 DEF SentTo, TakenFrom, Sending, Receiving, Collected
  <2>6. ChannelInv'
    BY <2>1, <2>3, <2>5, Rigid DEF IInv, ChannelInv
  <2>7. MasterInv'
    <3>1. First(1) = 0
      BY <1>1, <2>4, BlockFacts
    <3> QED BY <1>1, <2>1, <2>3, <2>4, <3>1, Rigid
            DEF MasterInv, Sending, Receiving, TypeInv
  <2>8. ResultInv'
    BY <1>1, <2>1, <2>3, Rigid DEF ResultInv, Delivered, Sending, Receiving, Collected
  <2>9. chan' \in [Rank -> [Rank -> Seq(Message)]] /\ peer' \in Int
    BY <1>1, <2>1 DEF TypeInv
  <2>10. "sendOffset" \in Sending \cup Receiving \cup Collected
    BY DEF Sending
  <2> QED BY <1>2, <2>1, <2>2, <2>6, <2>7, <2>8, <2>9, <2>10
<1>5. CASE MasterSendOffset
  <2>1. /\ Step(0, "sendOffset", "sendRows")
        /\ pc[0] = "sendOffset" /\ pc'[0] = "sendRows"
        /\ UNCHANGED <<numtasks, matrixSize>>
    BY <1>1, <1>5 DEF MasterSendOffset, Step, TypeInv
  <2>2. /\ numtasks >= 2 /\ peer \in Worker
        /\ peer \in Nat \ {0} /\ numworkers \in Nat /\ peer <= numworkers
        /\ First(peer) \in Nat /\ Count(peer) \in Nat
        /\ First(peer + 1) = First(peer) + Count(peer)
        /\ First(peer + 1) \in 0 .. matrixSize
        /\ matrixSize \in Nat \ {0}
    <3>1. numtasks >= 2 /\ peer \in Worker
      BY <1>1, <2>1 DEF LaunchInv, MasterInv, Sending, Receiving
    <3>2. peer \in Nat \ {0} /\ numworkers \in Nat /\ peer <= numworkers
      BY <1>1, <3>1 DEF Worker, numworkers
    <3> QED BY <1>1, <3>1, <3>2, BlockFacts
  <2>3. /\ rows' = [rows EXCEPT ![0] = Count(peer)]
        /\ UNCHANGED <<offset, peer, matrixA, matrixB, matrixC>>
        /\ aborted' = FALSE
        /\ MPI_Send(0, peer, ToWorker(peer)[1])
    BY <1>1, <1>5, <2>1 DEF MasterSendOffset, Send, Count, ToWorker, MasterInv, Sending, TypeInv
  <2>4. OnlyLocalsOf(0) /\ LocalsTyped'
    BY <1>1, <2>1, <2>2, <2>3, Rigid DEF OnlyLocalsOf, LocalsTyped, TypeInv
  <2>5. /\ WorkerInv'
        /\ \A v \in Worker : TakenBy(v)' = TakenBy(v) /\ SentBy(v)' = SentBy(v)
    BY <2>1, <2>4, MasterFrame
  <2>6. SentTo(peer) = 0
    BY <2>1, <2>2 DEF SentTo, Sending
  <2>7. ASSUME NEW v \in Worker
        PROVE  /\ SentTo(v)' = IF v = peer THEN 1 ELSE SentTo(v)
               /\ TakenFrom(v)' = TakenFrom(v)
    <3>1. v \in Nat
      BY <1>1 DEF Worker
    <3> QED BY <2>1, <2>2, <2>3, <3>1 DEF SentTo, TakenFrom, Sending, Receiving, Collected
  <2>8. ChannelInv' /\ chan' \in [Rank -> [Rank -> Seq(Message)]]
    BY <2>1, <2>2, <2>3, <2>5, <2>6, <2>7, MasterSends
  <2>9. MasterInv'
    BY <1>1, <2>1, <2>2, <2>3, Rigid DEF MasterInv, Sending, Receiving, TypeInv
  <2>10. ResultInv'
    BY <1>1, <2>1, <2>3, Rigid DEF ResultInv, Delivered, Sending, Receiving, Collected
  <2>11. "sendRows" \in Sending \cup Receiving \cup Collected /\ peer' \in Int
    BY <1>1, <2>2, <2>3 DEF Sending
  <2> QED BY <1>2, <2>1, <2>2, <2>3, <2>4, <2>8, <2>9, <2>10, <2>11
<1>6. CASE MasterSendRows
  <2>1. /\ Step(0, "sendRows", "sendA")
        /\ pc[0] = "sendRows" /\ pc'[0] = "sendA"
        /\ UNCHANGED <<numtasks, matrixSize>>
    BY <1>1, <1>6 DEF MasterSendRows, Step, TypeInv
  <2>2. /\ numtasks >= 2 /\ peer \in Worker
        /\ peer \in Nat \ {0} /\ numworkers \in Nat /\ peer <= numworkers
        /\ First(peer) \in Nat /\ Count(peer) \in Nat
        /\ First(peer + 1) = First(peer) + Count(peer)
        /\ First(peer + 1) \in 0 .. matrixSize
        /\ matrixSize \in Nat \ {0}
    <3>1. numtasks >= 2 /\ peer \in Worker
      BY <1>1, <2>1 DEF LaunchInv, MasterInv, Sending, Receiving
    <3>2. peer \in Nat \ {0} /\ numworkers \in Nat /\ peer <= numworkers
      BY <1>1, <3>1 DEF Worker, numworkers
    <3> QED BY <1>1, <3>1, <3>2, BlockFacts
  <2>3. /\ UNCHANGED mem
        /\ aborted' = FALSE
        /\ MPI_Send(0, peer, ToWorker(peer)[2])
    BY <1>1, <1>6, <2>1 DEF MasterSendRows, Send, ToWorker, MasterInv, Sending, TypeInv
  <2>4. OnlyLocalsOf(0) /\ LocalsTyped'
    BY <1>1, <2>1, <2>2, <2>3, Rigid DEF OnlyLocalsOf, LocalsTyped, TypeInv
  <2>5. /\ WorkerInv'
        /\ \A v \in Worker : TakenBy(v)' = TakenBy(v) /\ SentBy(v)' = SentBy(v)
    BY <2>1, <2>4, MasterFrame
  <2>6. SentTo(peer) = 1
    BY <2>1, <2>2 DEF SentTo, Sending
  <2>7. ASSUME NEW v \in Worker
        PROVE  /\ SentTo(v)' = IF v = peer THEN 2 ELSE SentTo(v)
               /\ TakenFrom(v)' = TakenFrom(v)
    <3>1. v \in Nat
      BY <1>1 DEF Worker
    <3> QED BY <2>1, <2>2, <2>3, <3>1 DEF SentTo, TakenFrom, Sending, Receiving, Collected
  <2>8. ChannelInv' /\ chan' \in [Rank -> [Rank -> Seq(Message)]]
    BY <2>1, <2>2, <2>3, <2>5, <2>6, <2>7, MasterSends
  <2>9. MasterInv'
    BY <1>1, <2>1, <2>2, <2>3, Rigid DEF MasterInv, Sending, Receiving, TypeInv
  <2>10. ResultInv'
    BY <1>1, <2>1, <2>3, Rigid DEF ResultInv, Delivered, Sending, Receiving, Collected
  <2>11. "sendA" \in Sending \cup Receiving \cup Collected /\ peer' \in Int
    BY <1>1, <2>2, <2>3 DEF Sending
  <2> QED BY <1>2, <2>1, <2>2, <2>3, <2>4, <2>8, <2>9, <2>10, <2>11
<1>7. CASE MasterSendA
  <2>1. /\ Step(0, "sendA", "sendB")
        /\ pc[0] = "sendA" /\ pc'[0] = "sendB"
        /\ UNCHANGED <<numtasks, matrixSize>>
    BY <1>1, <1>7 DEF MasterSendA, Step, TypeInv
  <2>2. /\ numtasks >= 2 /\ peer \in Worker
        /\ peer \in Nat \ {0} /\ numworkers \in Nat /\ peer <= numworkers
        /\ First(peer) \in Nat /\ Count(peer) \in Nat
        /\ First(peer + 1) = First(peer) + Count(peer)
        /\ First(peer + 1) \in 0 .. matrixSize
        /\ matrixSize \in Nat \ {0}
    <3>1. numtasks >= 2 /\ peer \in Worker
      BY <1>1, <2>1 DEF LaunchInv, MasterInv, Sending, Receiving
    <3>2. peer \in Nat \ {0} /\ numworkers \in Nat /\ peer <= numworkers
      BY <1>1, <3>1 DEF Worker, numworkers
    <3> QED BY <1>1, <3>1, <3>2, BlockFacts
  <2>3. /\ UNCHANGED mem
        /\ aborted' = FALSE
        /\ MPI_Send(0, peer, ToWorker(peer)[3])
    <3>1. RowsOf(matrixA[0], offset[0], rows[0]) = Block(peer)
      BY <1>1, <2>1, <2>2, RowsSent DEF MasterInv, Sending
    <3> QED BY <1>1, <1>7, <3>1 DEF MasterSendA, Send, ToWorker, TypeInv
  <2>4. OnlyLocalsOf(0) /\ LocalsTyped'
    BY <1>1, <2>1, <2>2, <2>3, Rigid DEF OnlyLocalsOf, LocalsTyped, TypeInv
  <2>5. /\ WorkerInv'
        /\ \A v \in Worker : TakenBy(v)' = TakenBy(v) /\ SentBy(v)' = SentBy(v)
    BY <2>1, <2>4, MasterFrame
  <2>6. SentTo(peer) = 2
    BY <2>1, <2>2 DEF SentTo, Sending
  <2>7. ASSUME NEW v \in Worker
        PROVE  /\ SentTo(v)' = IF v = peer THEN 3 ELSE SentTo(v)
               /\ TakenFrom(v)' = TakenFrom(v)
    <3>1. v \in Nat
      BY <1>1 DEF Worker
    <3> QED BY <2>1, <2>2, <2>3, <3>1 DEF SentTo, TakenFrom, Sending, Receiving, Collected
  <2>8. ChannelInv' /\ chan' \in [Rank -> [Rank -> Seq(Message)]]
    BY <2>1, <2>2, <2>3, <2>5, <2>6, <2>7, MasterSends
  <2>9. MasterInv'
    BY <1>1, <2>1, <2>2, <2>3, Rigid DEF MasterInv, Sending, Receiving, TypeInv
  <2>10. ResultInv'
    BY <1>1, <2>1, <2>3, Rigid DEF ResultInv, Delivered, Sending, Receiving, Collected
  <2>11. "sendB" \in Sending \cup Receiving \cup Collected /\ peer' \in Int
    BY <1>1, <2>2, <2>3 DEF Sending
  <2> QED BY <1>2, <2>1, <2>2, <2>3, <2>4, <2>8, <2>9, <2>10, <2>11
<1>8. CASE MasterSendB
  <2>1. /\ Step(0, "sendB", IF peer < numworkers THEN "sendOffset" ELSE "recvOffset")
        /\ pc[0] = "sendB" /\ pc'[0] = IF peer < numworkers THEN "sendOffset" ELSE "recvOffset"
        /\ UNCHANGED <<numtasks, matrixSize>>
    BY <1>1, <1>8 DEF MasterSendB, Step, TypeInv
  <2>2. /\ numtasks >= 2 /\ peer \in Worker
        /\ peer \in Nat \ {0} /\ numworkers \in Nat /\ peer <= numworkers
        /\ First(peer) \in Nat /\ Count(peer) \in Nat
        /\ First(peer + 1) = First(peer) + Count(peer)
        /\ First(peer + 1) \in 0 .. matrixSize
        /\ matrixSize \in Nat \ {0}
    <3>1. numtasks >= 2 /\ peer \in Worker
      BY <1>1, <2>1 DEF LaunchInv, MasterInv, Sending, Receiving
    <3>2. peer \in Nat \ {0} /\ numworkers \in Nat /\ peer <= numworkers
      BY <1>1, <3>1 DEF Worker, numworkers
    <3> QED BY <1>1, <3>1, <3>2, BlockFacts
  <2>3. /\ offset' = [offset EXCEPT ![0] = First(peer + 1)]
        /\ peer' = IF peer < numworkers THEN peer + 1 ELSE 1
        /\ UNCHANGED <<rows, matrixA, matrixB, matrixC>>
        /\ aborted' = FALSE
        /\ MPI_Send(0, peer, ToWorker(peer)[4])
    <3>1. RowsOf(matrixB[0], 0, matrixSize) = [i \in 1 .. matrixSize |-> i - 1]
      BY <1>1, <2>1, <2>2, RowsSent DEF MasterInv, Sending
    <3>2. offset[0] + rows[0] = First(peer + 1)
      BY <1>1, <2>1, <2>2 DEF MasterInv, Sending
    <3> QED BY <1>1, <1>8, <3>1, <3>2 DEF MasterSendB, Send, ToWorker, TypeInv
  <2>4. OnlyLocalsOf(0) /\ LocalsTyped'
    BY <1>1, <2>1, <2>2, <2>3, Rigid DEF OnlyLocalsOf, LocalsTyped, TypeInv
  <2>5. /\ WorkerInv'
        /\ \A v \in Worker : TakenBy(v)' = TakenBy(v) /\ SentBy(v)' = SentBy(v)
    BY <2>1, <2>4, MasterFrame
  <2>6. SentTo(peer) = 3
    BY <2>1, <2>2 DEF SentTo, Sending
  <2>7. ASSUME NEW v \in Worker
        PROVE  /\ SentTo(v)' = IF v = peer THEN 4 ELSE SentTo(v)
               /\ TakenFrom(v)' = TakenFrom(v)
    <3>1. v \in Nat /\ 1 <= v /\ v <= numworkers
      BY <1>1 DEF Worker, numworkers
    <3>2. CASE peer < numworkers
      BY <2>1, <2>2, <2>3, <3>1, <3>2 DEF SentTo, TakenFrom, Sending, Receiving, Collected
    <3>3. CASE ~ (peer < numworkers)
      BY <2>1, <2>2, <2>3, <3>1, <3>3 DEF SentTo, TakenFrom, Sending, Receiving, Collected
    <3> QED BY <3>2, <3>3
  <2>8. ChannelInv' /\ chan' \in [Rank -> [Rank -> Seq(Message)]]
    BY <2>1, <2>2, <2>3, <2>5, <2>6, <2>7, MasterSends
  <2>9. peer' \in Worker
    BY <1>1, <2>2, <2>3 DEF Worker, numworkers
  <2>10. MasterInv'
    <3>1. matrixA'[0] = Identity /\ matrixB'[0] = Identity
      BY <1>1, <2>1, <2>3 DEF MasterInv, Sending
    <3>2. CASE peer < numworkers
      BY <1>1, <2>1, <2>3, <2>9, <3>1, <3>2, Rigid DEF MasterInv, Sending, Receiving, TypeInv
    <3>3. CASE ~ (peer < numworkers)
      BY <1>1, <2>1, <2>3, <2>9, <3>3, Rigid DEF MasterInv, Sending, Receiving, TypeInv
    <3> QED BY <3>2, <3>3
  <2>11. ResultInv'
    <3>1. Delivered = 0 /\ Delivered' = 0
      <4>1. CASE peer < numworkers
        BY <2>1, <2>3, <4>1 DEF Delivered, Sending, Receiving, Collected
      <4>2. CASE ~ (peer < numworkers)
        BY <2>1, <2>3, <4>2 DEF Delivered, Sending, Receiving, Collected
      <4> QED BY <4>1, <4>2
    <3> QED BY <1>1, <2>1, <2>3, <3>1, Rigid DEF ResultInv
  <2>12. /\ peer' \in Int
         /\ (IF peer < numworkers THEN "sendOffset" ELSE "recvOffset")
               \in Sending \cup Receiving \cup Collected
    BY <2>2, <2>3 DEF Sending, Receiving
  <2> QED BY <1>2, <2>1, <2>2, <2>3, <2>4, <2>8, <2>10, <2>11, <2>12
<1>9. CASE MasterRecvOffset
  <2>1. /\ Step(0, "recvOffset", "recvRows")
        /\ pc[0] = "recvOffset" /\ pc'[0] = "recvRows"
        /\ UNCHANGED <<numtasks, matrixSize>>
    BY <1>1, <1>9 DEF MasterRecvOffset, Step, TypeInv
  <2>2. /\ numtasks >= 2 /\ peer \in Worker
        /\ peer \in Nat \ {0} /\ numworkers \in Nat /\ peer <= numworkers
        /\ First(peer) \in Nat /\ Count(peer) \in Nat
        /\ First(peer + 1) = First(peer) + Count(peer)
        /\ First(peer + 1) \in 0 .. matrixSize
        /\ matrixSize \in Nat \ {0}
    <3>1. numtasks >= 2 /\ peer \in Worker
      BY <1>1, <2>1 DEF LaunchInv, MasterInv, Sending, Receiving
    <3>2. peer \in Nat \ {0} /\ numworkers \in Nat /\ peer <= numworkers
      BY <1>1, <3>1 DEF Worker, numworkers
    <3> QED BY <1>1, <3>1, <3>2, BlockFacts
  <2>3. /\ CanRecv(peer, 0, FROM_WORKER) /\ TakeIncoming(peer, 0, FROM_WORKER)
        /\ aborted' = Truncates(Incoming(peer, 0, FROM_WORKER), INT)
        /\ offset' = [offset EXCEPT ![0] = Incoming(peer, 0, FROM_WORKER).int]
        /\ UNCHANGED <<rows, peer, matrixA, matrixB, matrixC>>
    BY <1>9 DEF MasterRecvOffset, Recv
  <2>4. OnlyLocalsOf(0)
    BY <1>1, <2>3 DEF OnlyLocalsOf, TypeInv
  <2>5. /\ WorkerInv'
        /\ \A v \in Worker : TakenBy(v)' = TakenBy(v) /\ SentBy(v)' = SentBy(v)
    BY <2>1, <2>4, MasterFrame
  <2>6. TakenFrom(peer) = 0
    BY <2>1, <2>2 DEF TakenFrom, Receiving, Collected
  <2>7. ASSUME NEW v \in Worker
        PROVE  /\ TakenFrom(v)' = IF v = peer THEN 1 ELSE TakenFrom(v)
               /\ SentTo(v)' = SentTo(v)
    <3>1. v \in Nat
      BY <1>1 DEF Worker
    <3> QED BY <2>1, <2>2, <2>3, <3>1 DEF SentTo, TakenFrom, Sending, Receiving, Collected
  <2>8. /\ ChannelInv' /\ chan' \in [Rank -> [Rank -> Seq(Message)]]
        /\ Incoming(peer, 0, FROM_WORKER) = ToMaster(peer)[1]
    BY <2>1, <2>2, <2>3, <2>5, <2>6, <2>7, MasterTakes
  <2>9. offset'[0] = First(peer) /\ aborted' = FALSE
    BY <1>1, <2>3, <2>8 DEF ToMaster, IntMsg, Truncates, INT, TypeInv
  <2>10. LocalsTyped'
    BY <1>1, <2>1, <2>2, <2>3, <2>9, Rigid DEF LocalsTyped, TypeInv
  <2>11. MasterInv'
    BY <1>1, <2>1, <2>2, <2>3, <2>9, Rigid DEF MasterInv, Sending, Receiving
  <2>12. ResultInv'
    BY <1>1, <2>1, <2>3, Rigid DEF ResultInv, Delivered, Sending, Receiving, Collected
  <2>13. "recvRows" \in Sending \cup Receiving \cup Collected /\ peer' \in Int
    BY <1>1, <2>2, <2>3 DEF Receiving
  <2> QED BY <1>2, <2>1, <2>2, <2>3, <2>4, <2>8, <2>9, <2>10, <2>11, <2>12, <2>13
<1>10. CASE MasterRecvRows
  <2>1. /\ Step(0, "recvRows", "recvC")
        /\ pc[0] = "recvRows" /\ pc'[0] = "recvC"
        /\ UNCHANGED <<numtasks, matrixSize>>
    BY <1>1, <1>10 DEF MasterRecvRows, Step, TypeInv
  <2>2. /\ numtasks >= 2 /\ peer \in Worker
        /\ peer \in Nat \ {0} /\ numworkers \in Nat /\ peer <= numworkers
        /\ First(peer) \in Nat /\ Count(peer) \in Nat
        /\ First(peer + 1) = First(peer) + Count(peer)
        /\ First(peer + 1) \in 0 .. matrixSize
        /\ matrixSize \in Nat \ {0}
    <3>1. numtasks >= 2 /\ peer \in Worker
      BY <1>1, <2>1 DEF LaunchInv, MasterInv, Sending, Receiving
    <3>2. peer \in Nat \ {0} /\ numworkers \in Nat /\ peer <= numworkers
      BY <1>1, <3>1 DEF Worker, numworkers
    <3> QED BY <1>1, <3>1, <3>2, BlockFacts
  <2>3. /\ CanRecv(peer, 0, FROM_WORKER) /\ TakeIncoming(peer, 0, FROM_WORKER)
        /\ aborted' = Truncates(Incoming(peer, 0, FROM_WORKER), INT)
        /\ rows' = [rows EXCEPT ![0] = Incoming(peer, 0, FROM_WORKER).int]
        /\ UNCHANGED <<offset, peer, matrixA, matrixB, matrixC>>
    BY <1>10 DEF MasterRecvRows, Recv
  <2>4. OnlyLocalsOf(0)
    BY <1>1, <2>3 DEF OnlyLocalsOf, TypeInv
  <2>5. /\ WorkerInv'
        /\ \A v \in Worker : TakenBy(v)' = TakenBy(v) /\ SentBy(v)' = SentBy(v)
    BY <2>1, <2>4, MasterFrame
  <2>6. TakenFrom(peer) = 1
    BY <2>1, <2>2 DEF TakenFrom, Receiving, Collected
  <2>7. ASSUME NEW v \in Worker
        PROVE  /\ TakenFrom(v)' = IF v = peer THEN 2 ELSE TakenFrom(v)
               /\ SentTo(v)' = SentTo(v)
    <3>1. v \in Nat
      BY <1>1 DEF Worker
    <3> QED BY <2>1, <2>2, <2>3, <3>1 DEF SentTo, TakenFrom, Sending, Receiving, Collected
  <2>8. /\ ChannelInv' /\ chan' \in [Rank -> [Rank -> Seq(Message)]]
        /\ Incoming(peer, 0, FROM_WORKER) = ToMaster(peer)[2]
    BY <2>1, <2>2, <2>3, <2>5, <2>6, <2>7, MasterTakes
  <2>9. rows'[0] = Count(peer) /\ aborted' = FALSE
    BY <1>1, <2>3, <2>8 DEF ToMaster, IntMsg, Truncates, INT, TypeInv
  <2>10. LocalsTyped'
    BY <1>1, <2>1, <2>2, <2>3, <2>9, Rigid DEF LocalsTyped, TypeInv
  <2>11. MasterInv'
    BY <1>1, <2>1, <2>2, <2>3, <2>9, Rigid DEF MasterInv, Sending, Receiving
  <2>12. ResultInv'
    BY <1>1, <2>1, <2>3, Rigid DEF ResultInv, Delivered, Sending, Receiving, Collected
  <2>13. "recvC" \in Sending \cup Receiving \cup Collected /\ peer' \in Int
    BY <1>1, <2>2, <2>3 DEF Receiving
  <2> QED BY <1>2, <2>1, <2>2, <2>3, <2>4, <2>8, <2>9, <2>10, <2>11, <2>12, <2>13
<1>11. CASE MasterRecvC
  <2>1. /\ Step(0, "recvC", IF peer < numworkers THEN "recvOffset" ELSE "finalize")
        /\ pc[0] = "recvC" /\ pc'[0] = IF peer < numworkers THEN "recvOffset" ELSE "finalize"
        /\ UNCHANGED <<numtasks, matrixSize>>
    BY <1>1, <1>11 DEF MasterRecvC, Step, TypeInv
  <2>2. /\ numtasks >= 2 /\ peer \in Worker
        /\ peer \in Nat \ {0} /\ numworkers \in Nat /\ peer <= numworkers
        /\ First(peer) \in Nat /\ Count(peer) \in Nat
        /\ First(peer + 1) = First(peer) + Count(peer)
        /\ First(peer + 1) \in 0 .. matrixSize
        /\ matrixSize \in Nat \ {0}
    <3>1. numtasks >= 2 /\ peer \in Worker
      BY <1>1, <2>1 DEF LaunchInv, MasterInv, Sending, Receiving
    <3>2. peer \in Nat \ {0} /\ numworkers \in Nat /\ peer <= numworkers
      BY <1>1, <3>1 DEF Worker, numworkers
    <3> QED BY <1>1, <3>1, <3>2, BlockFacts
  <2> DEFINE m == Incoming(peer, 0, FROM_WORKER)
  <2>3. /\ CanRecv(peer, 0, FROM_WORKER) /\ TakeIncoming(peer, 0, FROM_WORKER)
        /\ aborted' = Truncates(m, ROWS(rows[0]))
        /\ matrixC' = [matrixC EXCEPT ![0] = Stored(matrixC[0], offset[0], m)]
        /\ peer' = peer + 1
        /\ UNCHANGED <<offset, rows, matrixA, matrixB>>
    BY <1>11 DEF MasterRecvC, Recv
  <2>4. OnlyLocalsOf(0)
    BY <1>1, <2>3 DEF OnlyLocalsOf, TypeInv
  <2>5. /\ WorkerInv'
        /\ \A v \in Worker : TakenBy(v)' = TakenBy(v) /\ SentBy(v)' = SentBy(v)
    BY <2>1, <2>4, MasterFrame
  <2>6. TakenFrom(peer) = 2
    BY <2>1, <2>2 DEF TakenFrom, Receiving, Collected
  <2>7. ASSUME NEW v \in Worker
        PROVE  /\ TakenFrom(v)' = IF v = peer THEN 3 ELSE TakenFrom(v)
               /\ SentTo(v)' = SentTo(v)
    <3>1. v \in Nat /\ 1 <= v /\ v <= numworkers
      BY <1>1 DEF Worker, numworkers
    <3>2. CASE peer < numworkers
      BY <2>1, <2>2, <2>3, <3>1, <3>2 DEF SentTo, TakenFrom, Sending, Receiving, Collected
    <3>3. CASE ~ (peer < numworkers)
      BY <2>1, <2>2, <2>3, <3>1, <3>3 DEF SentTo, TakenFrom, Sending, Receiving, Collected
    <3> QED BY <3>2, <3>3
  <2>8. /\ ChannelInv' /\ chan' \in [Rank -> [Rank -> Seq(Message)]]
        /\ m = ToMaster(peer)[3]
    BY <2>1, <2>2, <2>3, <2>5, <2>6, <2>7, MasterTakes
  <2>9. /\ aborted' = FALSE
        /\ \A i \in Row : matrixC'[0][i] =
              IF First(peer) <= i /\ i < First(peer + 1) THEN i ELSE matrixC[0][i]
        /\ matrixC'[0] \in Matrix
    <3> DEFINE b == Block(peer)
    <3>1. /\ b \in Seq(Int) /\ Len(b) = Count(peer) /\ DOMAIN b = 1 .. Count(peer)
          /\ \A j \in 1 .. Count(peer) : b[j] = First(peer) + j - 1
      BY <2>2 DEF Block
    <3>2. m.block = b /\ m.bytes = 8 * matrixSize * Len(b)
      <4>1. m = RowsMsg(FROM_WORKER, matrixSize, b)
        BY <2>8 DEF ToMaster
      <4> HIDE DEF b, m
      <4> QED BY <4>1 DEF RowsMsg
    <3>3. offset[0] = First(peer) /\ rows[0] = Count(peer)
      BY <1>1, <2>1 DEF MasterInv
    <3>4. aborted' = FALSE
      <4>1. m.bytes = ROWS(rows[0]) /\ m.bytes \in Int
        BY <2>2, <3>1, <3>2, <3>3 DEF ROWS
      <4>2. ~ Truncates(m, ROWS(rows[0]))
        <5> HIDE DEF b, m
        <5> QED BY <4>1 DEF Truncates
      <4> QED BY <2>3, <4>2
    <3>5. matrixC'[0] = Stored(matrixC[0], First(peer), m)
      BY <1>1, <2>3, <3>3 DEF TypeInv
    <3>6. matrixC[0] \in [Row -> Row \cup {Garbage}]
      BY <1>1 DEF TypeInv, Matrix
    <3>7. matrixC'[0] = [i \in Row |->
                IF i - First(peer) + 1 \in DOMAIN b
                THEN b[i - First(peer) + 1] ELSE matrixC[0][i]]
      <4> HIDE DEF b, m
      <4> QED BY <3>2, <3>5, <3>6 DEF Stored
    <3>8. ASSUME NEW i \in Row
          PROVE  matrixC'[0][i] =
              IF First(peer) <= i /\ i < First(peer + 1) THEN i ELSE matrixC[0][i]
      <4> DEFINE j == i - First(peer) + 1
      <4>1. i \in Int /\ j \in Int /\ First(peer) + j - 1 = i
        BY <2>2 DEF Row
      <4>2. j \in 1 .. Count(peer) <=> First(peer) <= i /\ i < First(peer + 1)
        BY <2>2, <4>1
      <4>3. matrixC'[0][i] = IF j \in DOMAIN b THEN b[j] ELSE matrixC[0][i]
        BY <3>7
      <4> HIDE DEF b, j
      <4>4. CASE j \in 1 .. Count(peer)
        BY <3>1, <4>1, <4>2, <4>3, <4>4
      <4>5. CASE j \notin 1 .. Count(peer)
        BY <3>1, <4>2, <4>3, <4>5
      <4> QED BY <4>4, <4>5
    <3>9. matrixC'[0] \in Matrix
      <4>1. ASSUME NEW i \in Row PROVE matrixC'[0][i] \in Row \cup {Garbage}
        BY <3>6, <3>8
      <4> HIDE DEF b
      <4> QED BY <3>7, <4>1 DEF Matrix
    <3> QED BY <3>4, <3>8, <3>9
  <2> HIDE DEF m
  <2>10. LocalsTyped'
    BY <1>1, <2>1, <2>3, <2>9, Rigid DEF LocalsTyped, TypeInv
  <2>11. MasterInv'
    <3>1. CASE peer < numworkers
      <4>1. peer' \in Worker
        BY <1>1, <2>2, <2>3, <3>1 DEF Worker, numworkers
      <4> QED BY <2>1, <3>1, <4>1, Rigid DEF MasterInv, Sending, Receiving
    <3>2. CASE ~ (peer < numworkers)
      BY <2>1, <3>2, Rigid DEF MasterInv, Sending, Receiving
    <3> QED BY <3>1, <3>2
  <2>12. ResultInv'
    <3>1. Delivered = peer - 1 /\ Delivered' = peer
      <4>1. CASE peer < numworkers
        BY <2>1, <2>2, <2>3, <4>1 DEF Delivered, Receiving, Collected
      <4>2. CASE ~ (peer < numworkers)
        BY <2>1, <2>2, <2>3, <4>2, Rigid DEF Delivered, Receiving, Collected
      <4> QED BY <4>1, <4>2
    <3>2. ASSUME NEW i \in Row
          PROVE  matrixC'[0][i] = IF i < First(peer + 1) THEN i ELSE Garbage
      <4>1. matrixC[0][i] = IF i < First(peer) THEN i ELSE Garbage
        BY <1>1, <2>2, <3>1, (peer - 1) + 1 = peer DEF ResultInv
      <4>2. i \in Int
        BY <2>2 DEF Row
      <4> QED BY <2>2, <2>9, <4>1, <4>2
    <3>3. ~ (numtasks < 2)
      BY <1>1, <2>2
    <3> QED BY <2>1, <3>1, <3>2, <3>3, Rigid DEF ResultInv
  <2>13. peer' \in Int /\ (IF peer < numworkers THEN "recvOffset" ELSE "finalize") \in Sending \cup Receiving \cup Collected
    BY <2>2, <2>3 DEF Receiving, Collected
  <2> QED BY <1>2, <2>1, <2>2, <2>4, <2>8, <2>9, <2>10, <2>11, <2>12, <2>13
<1>12. CASE Finalize(0)
  <2>1. /\ Step(0, "finalize", "done")
        /\ pc[0] = "finalize" /\ pc'[0] = "done"
        /\ UNCHANGED <<numtasks, matrixSize, chan, mem>>
        /\ aborted' = FALSE
    BY <1>1, <1>12 DEF Finalize, Step, TypeInv
  <2>2. numtasks >= 2
    BY <1>1, <2>1 DEF LaunchInv
  <2>3. OnlyLocalsOf(0) /\ LocalsTyped'
    BY <1>1, <2>1, Rigid DEF OnlyLocalsOf, LocalsTyped, TypeInv
  <2>4. /\ WorkerInv'
        /\ \A v \in Worker : TakenBy(v)' = TakenBy(v) /\ SentBy(v)' = SentBy(v)
    BY <2>1, <2>3, MasterFrame
  <2>5. ASSUME NEW v \in Worker
        PROVE  SentTo(v)' = SentTo(v) /\ TakenFrom(v)' = TakenFrom(v)
    BY <2>1 DEF SentTo, TakenFrom, Sending, Collected
  <2>6. ChannelInv'
    BY <2>1, <2>4, <2>5, Rigid DEF IInv, ChannelInv
  <2>7. MasterInv'
    BY <2>1 DEF MasterInv, Sending, Receiving
  <2>8. ResultInv'
    BY <1>1, <2>1, Rigid DEF ResultInv, Delivered, Collected
  <2>9. /\ chan' \in [Rank -> [Rank -> Seq(Message)]] /\ peer' \in Int
        /\ "done" \in Sending \cup Receiving \cup Collected
    BY <1>1, <2>1 DEF TypeInv, Collected
  <2> QED BY <1>2, <2>1, <2>2, <2>3, <2>6, <2>7, <2>8, <2>9
<1> QED BY <1>3, <1>4, <1>5, <1>6, <1>7, <1>8, <1>9, <1>10, <1>11, <1>12 DEF Master
-----------------------------------------------------------------------------
LEMMA InitInv == Init => IInv
<1> SUFFICES ASSUME Init PROVE IInv
  OBVIOUS
<1> USE DEF Init, MPI_Init
<1>1. /\ numtasks \in 1 .. MaxTasks
      /\ 0 \in Rank
      /\ matrixSize \in Nat \ {0}
      /\ Worker \subseteq Rank \ {0}
  BY DEF Rank, Worker
<1>2. \A p \in Rank : pc[p] = "start"
  OBVIOUS
<1>3. TypeInv
  <2>1. /\ Uninitialised \in Matrix
        /\ [p \in Rank |-> Uninitialised] \in [Rank -> Matrix]
        /\ [p \in Rank |-> Garbage] \in [Rank -> Int]
        /\ Garbage \in Int
    BY DEF Uninitialised, Matrix, Garbage
  <2>2. chan \in [Rank -> [Rank -> Seq(Message)]]
    <3>1. <<>> \in Seq(Message)
      OBVIOUS
    <3> QED BY <3>1
  <2>3. "start" \in Statement /\ pc \in [Rank -> Statement]
    BY DEF Statement
  <2> QED BY <1>1, <1>2, <2>1, <2>2, <2>3 DEF TypeInv
<1>4. LaunchInv
  BY <1>1, <1>2 DEF LaunchInv
<1>5. MasterInv
  BY <1>1, <1>2 DEF MasterInv, Sending, Receiving
<1>6. WorkerInv
  <2>1. ASSUME NEW w \in Worker PROVE pc[w] = "start"
    BY <1>1, <1>2
  <2> QED BY <2>1 DEF WorkerInv, WorkerOK, TakenBy
<1>7. ChannelInv
  <2>1. \A s, d \in Rank : chan[s][d] = <<>>
    OBVIOUS
  <2>2. ASSUME NEW w \in Worker
        PROVE  /\ SentTo(w) = 0 /\ TakenBy(w) = 0
               /\ SentBy(w) = 0 /\ TakenFrom(w) = 0
    BY <1>1, <1>2 DEF SentTo, TakenBy, SentBy, TakenFrom, Receiving, Collected
  <2>3. ASSUME NEW e PROVE InFlight(<<>>, e, 0, 0)
    BY DEF InFlight
  <2> QED BY <1>1, <2>1, <2>2, <2>3 DEF ChannelInv
<1>8. ResultInv
  <2>1. Delivered = 0 /\ matrixC[0] = Uninitialised
    BY <1>1, <1>2 DEF Delivered, Receiving, Collected
  <2>2. ASSUME numtasks >= 2 PROVE First(1) = 0
    <3>1. 1 \in Worker
      BY <1>1, <2>2 DEF Worker
    <3> QED BY <1>3, <3>1, BlockFacts
  <2> QED BY <1>1, <2>1, <2>2 DEF ResultInv, Uninitialised, Row
<1> QED BY <1>3, <1>4, <1>5, <1>6, <1>7, <1>8 DEF IInv

LEMMA StutterInv ==
    ASSUME IInv, UNCHANGED vars
    PROVE  IInv'
<1>1. /\ UNCHANGED <<numtasks, matrixSize, eager_max_msg_sz, chan, pc>>
      /\ UNCHANGED <<offset, rows, peer, matrixA, matrixB, matrixC>>
      /\ aborted' = aborted
  BY DEF vars, mpiVars, mem
<1>2. TypeInv'
  BY <1>1, Rigid DEF IInv, TypeInv
<1>3. LaunchInv' /\ MasterInv' /\ ResultInv'
  BY <1>1, Rigid DEF IInv, LaunchInv, MasterInv, ResultInv, Delivered
<1>4. \A w : /\ TakenBy(w)' = TakenBy(w) /\ SentTo(w)' = SentTo(w)
             /\ TakenFrom(w)' = TakenFrom(w) /\ SentBy(w)' = SentBy(w)
  BY <1>1 DEF TakenBy, SentTo, TakenFrom, SentBy
<1>5. WorkerInv'
  BY <1>1, <1>4, Rigid DEF IInv, WorkerInv, WorkerOK
<1>6. ChannelInv'
  BY <1>1, <1>4, Rigid DEF IInv, ChannelInv
<1> QED BY <1>2, <1>3, <1>5, <1>6 DEF IInv

\* The inductive invariant holds in every reachable state: at any moment the
\* messages between rank 0 and a worker are the unreceived part of the seven
\* the protocol of mm_mpi.cpp exchanges, and C holds the delivered blocks.
THEOREM Inductive == Spec => []IInv
<1>1. IInv /\ [Next]_vars => IInv'
  BY WorkerPreserves, MasterPreserves, StutterInv DEF Next, Terminated
<1> QED BY InitInv, <1>1, PTL DEF Spec
-----------------------------------------------------------------------------
\* The variables of mm_mpi.cpp keep their types.
THEOREM TypeCorrect == Spec => []TypeOK
<1>1. IInv => TypeOK
  BY DEF IInv, TypeInv, TypeOK
<1> QED BY <1>1, Inductive, PTL

\* No MPI_Recv of mm_mpi.cpp meets a message larger than its buffer.
THEOREM NeverTruncates == Spec => []NoTruncation
<1>1. IInv => NoTruncation
  BY DEF IInv, LaunchInv, NoTruncation
<1> QED BY <1>1, Inductive, PTL

\* The rows rank 0 sends from A and receives into C are rows of the matrix,
\* for any number of workers and any number of rows.
THEOREM BlocksStayInBounds == Spec => []BlocksInBounds
<1>1. IInv => BlocksInBounds
  <2> SUFFICES ASSUME IInv PROVE BlocksInBounds
    OBVIOUS
  <2>1. ASSUME pc[0] \in Sending \cup Receiving
        PROVE  /\ First(peer) \in Nat /\ Count(peer) \in Nat
               /\ First(peer) + Count(peer) \in 0 .. matrixSize
               /\ matrixSize \in Nat
    <3>1. peer \in Worker
      BY <2>1 DEF IInv, MasterInv
    <3> QED BY <3>1, BlockFacts DEF IInv
  <2>2. CASE pc[0] \in {"sendA", "sendB"}
    BY <2>1, <2>2 DEF IInv, MasterInv, BlocksInBounds, Sending
  <2>3. CASE pc[0] = "recvC"
    BY <2>1, <2>3 DEF IInv, MasterInv, BlocksInBounds, Receiving
  <2> QED BY <2>2, <2>3 DEF BlocksInBounds
<1> QED BY <1>1, Inductive, PTL

LEMMA CollectedIsWhole ==
    ASSUME IInv
    PROVE  ProductComplete
<1>1. IInv => ProductComplete
  <2> SUFFICES ASSUME IInv, pc[0] \in {"finalize", "done"}
               PROVE  matrixC[0] = Identity
    BY DEF ProductComplete
  <2>1. numtasks >= 2 /\ numtasks \in Nat
    BY DEF IInv, LaunchInv, TypeInv
  <2>2. Delivered = numworkers
    BY DEF Delivered, Collected
  <2>3. First(numworkers + 1) = matrixSize
    <3>1. 1 \in Worker
      BY <2>1 DEF Worker
    <3> QED BY <3>1, BlockFacts DEF IInv
  <2>4. ASSUME NEW i \in Row PROVE matrixC[0][i] = i
    <3>1. matrixSize \in Nat
      BY DEF IInv, TypeInv
    <3> QED BY <2>1, <2>2, <2>3, <3>1 DEF IInv, ResultInv, Row
  <2>5. matrixC[0] \in [Row -> Row \cup {Garbage}]
    BY WorkerRank DEF IInv, TypeInv, Matrix
  <2> QED BY <2>4, <2>5 DEF Identity
<1> QED BY <1>1

\* When rank 0 stops collecting, every row of C is there and right.
THEOREM ProductIsComplete == Spec => []ProductComplete
<1>1. IInv => ProductComplete
  BY CollectedIsWhole
<1> QED BY <1>1, Inductive, PTL

\* Every message sent has been received when all ranks have finished.
THEOREM NetworkDrains == Spec => []Drained
<1>1. IInv => Drained
  <2> SUFFICES ASSUME IInv, AllDone, NEW s \in Rank, NEW d \in Rank
               PROVE  chan[s][d] = <<>>
    BY DEF Drained
  <2>1. ASSUME NEW w \in Worker
        PROVE  chan[0][w] = <<>> /\ chan[w][0] = <<>>
    <3>1. pc[0] = "done" /\ pc[w] = "done"
      BY WorkerRank DEF AllDone, Task, Worker, IInv, TypeInv
    <3>2. SentTo(w) = 4 /\ TakenBy(w) = 4 /\ SentBy(w) = 3 /\ TakenFrom(w) = 3
      BY <3>1 DEF SentTo, TakenBy, SentBy, TakenFrom, Sending, Collected
    <3>3. /\ InFlight(chan[0][w], ToWorker(w), 4, 4)
          /\ InFlight(chan[w][0], ToMaster(w), 3, 3)
      BY <3>2 DEF IInv, ChannelInv
    <3> QED BY <3>3 DEF InFlight
  <2> QED BY <2>1 DEF IInv, ChannelInv
<1> QED BY <1>1, Inductive, PTL

\* Every row on its way to a worker or back is a computed one.
THEOREM NoGarbageTravelling == Spec => []NoGarbageTravels
<1>1. IInv => NoGarbageTravels
  <2> SUFFICES ASSUME IInv, NEW s \in Rank, NEW d \in Rank,
                      NEW i \in DOMAIN chan[s][d],
                      chan[s][d][i].bytes > 4
               PROVE  Garbage \notin ToSet(chan[s][d][i].block)
    BY DEF NoGarbageTravels
  <2>1. ASSUME NEW w \in Worker, NEW e, NEW n \in {3, 4},
               \/ n = 4 /\ e = ToWorker(w)
               \/ n = 3 /\ e = ToMaster(w),
               NEW k \in 1 .. n, e[k].bytes > 4
        PROVE  Garbage \notin ToSet(e[k].block)
    <3>1. First(w) \in Nat /\ Count(w) \in Nat /\ matrixSize \in Nat
      BY BlockFacts DEF IInv
    <3>2. e[k].block \in {Block(w), [j \in 1 .. matrixSize |-> j - 1]}
      BY <2>1 DEF ToWorker, ToMaster, IntMsg, RowsMsg
    <3>3. Garbage \notin ToSet(Block(w))
      BY <3>1 DEF ToSet, Block, Garbage
    <3>4. Garbage \notin ToSet([j \in 1 .. matrixSize |-> j - 1])
      BY <3>1 DEF ToSet, Garbage
    <3> QED BY <3>2, <3>3, <3>4
  <2>2. ASSUME NEW e, NEW n \in {3, 4}, NEW a \in 0 .. n, NEW b \in 0 .. n,
               InFlight(chan[s][d], e, a, b), a <= b
        PROVE  \E k \in 1 .. n : chan[s][d][i] = e[k]
    <3>1. Len(chan[s][d]) = b - a /\ chan[s][d] \in Seq(Message)
      BY <2>2 DEF InFlight
    <3>2. i \in 1 .. (b - a)
      BY <3>1, <2>2
    <3> QED BY <2>2, <3>2, a + i \in 1 .. n DEF InFlight
  <2>3. CASE s = 0 /\ d \in Worker
    <3>1. InFlight(chan[0][d], ToWorker(d), TakenBy(d), SentTo(d))
          /\ TakenBy(d) <= SentTo(d)
      BY <2>3 DEF IInv, ChannelInv
    <3>2. PICK k \in 1 .. 4 : chan[s][d][i] = ToWorker(d)[k]
      BY <2>2, <2>3, <3>1, CounterTypes
    <3> QED BY <2>1, <2>3, <3>2
  <2>4. CASE s \in Worker /\ d = 0
    <3>1. InFlight(chan[s][0], ToMaster(s), TakenFrom(s), SentBy(s))
          /\ TakenFrom(s) <= SentBy(s)
      BY <2>4 DEF IInv, ChannelInv
    <3>2. PICK k \in 1 .. 3 : chan[s][d][i] = ToMaster(s)[k]
      BY <2>2, <2>4, <3>1, CounterTypes
    <3> QED BY <2>1, <2>4, <3>2
  <2>5. CASE ~ (s = 0 /\ d \in Worker) /\ ~ (s \in Worker /\ d = 0)
    BY <2>5 DEF IInv, ChannelInv
  <2> QED BY <2>3, <2>4, <2>5
<1> QED BY <1>1, Inductive, PTL
-----------------------------------------------------------------------------
\* What a step does to what the user of the program sees.
Outcome == IF aborted THEN "refused"
           ELSE IF pc[0] = "done" THEN "complete" ELSE "running"

LEMMA StepEffect ==
    ASSUME IInv, IInv', [Next]_vars
    PROVE  /\ matrixSize' = matrixSize
           /\ \/ matrixC'[0] = matrixC[0] /\ Outcome' = Outcome
              \/ /\ matrixC'[0] = matrixC[0] /\ Outcome = "running"
                 /\ numtasks < 2 /\ Outcome' = "refused"
              \/ /\ matrixC'[0] = matrixC[0] /\ Outcome = "running"
                 /\ pc[0] = "finalize" /\ Outcome' = "complete"
              \/ /\ numtasks >= 2 /\ Outcome = "running" /\ Outcome' = "running"
                 /\ numtasks' = numtasks
                 /\ Delivered \in 0 .. numworkers - 1
                 /\ Delivered' = Delivered + 1
<1>1. 0 \in Rank /\ TypeInv /\ numtasks \in Nat
  <2>1. TypeInv
    BY DEF IInv
  <2>2. numtasks \in Nat
    BY <2>1 DEF TypeInv
  <2> QED BY <2>1, <2>2, WorkerRank
<1>2. CASE UNCHANGED vars
  <2>1. /\ matrixSize' = matrixSize /\ matrixC' = matrixC /\ pc' = pc
        /\ aborted' = aborted
    BY <1>2 DEF vars, mem, mpiVars
  <2> QED BY <2>1 DEF Outcome
<1>3. ASSUME NEW w \in Worker, WorkerStep(w)
      PROVE  /\ matrixSize' = matrixSize
             /\ matrixC'[0] = matrixC[0] /\ Outcome' = Outcome
  <2>1. w \in Rank \ {0}
    BY <1>1, WorkerRank
  <2>2. /\ ~ aborted /\ matrixSize' = matrixSize
        /\ \E to : pc' = [pc EXCEPT ![w] = to]
        /\ \/ matrixC' = matrixC
           \/ \E c : matrixC' = [matrixC EXCEPT ![w] = c]
    BY <1>3 DEF WorkerStep, StartWorker, WorkerRecvOffset, WorkerRecvRows,
       WorkerRecvA, WorkerRecvB, Compute, WorkerSendOffset, WorkerSendRows,
       WorkerSendC, Finalize, Step, mem
  <2>3. matrixC'[0] = matrixC[0] /\ pc'[0] = pc[0]
    BY <1>1, <2>1, <2>2 DEF TypeInv
  <2>4. numtasks' = numtasks /\ numtasks >= 2
    BY <1>1, <1>3 DEF Worker, WorkerStep, StartWorker, WorkerRecvOffset, WorkerRecvRows,
       WorkerRecvA, WorkerRecvB, Compute, WorkerSendOffset, WorkerSendRows,
       WorkerSendC, Finalize, Step
  <2>5. ~ aborted'
    BY <1>1, <2>4 DEF IInv, LaunchInv
  <2> QED BY <2>2, <2>3, <2>5 DEF Outcome
<1>4. CASE Quit(0)
  BY <1>1, <1>4 DEF Quit, Step, mem, MPI_Abort, Outcome
<1>5. CASE Finalize(0)
  BY <1>1, <1>5 DEF Finalize, Step, mem, Outcome, TypeInv
<1>6. CASE StartMaster \/ MasterSendOffset \/ MasterSendRows \/ MasterSendA
           \/ MasterSendB \/ MasterRecvOffset \/ MasterRecvRows
  <2>1. /\ ~ aborted /\ matrixSize' = matrixSize /\ matrixC' = matrixC
        /\ numtasks' = numtasks
        /\ \E from, to : pc[0] = from /\ from # "done" /\ to # "done"
                         /\ pc' = [pc EXCEPT ![0] = to]
    BY <1>6 DEF StartMaster, MasterSendOffset, MasterSendRows, MasterSendA,
       MasterSendB, MasterRecvOffset, MasterRecvRows, Step, mem
  <2>2. pc[0] # "done" /\ pc'[0] # "done"
    BY <1>1, <2>1 DEF TypeInv
  <2>3. numtasks >= 2
    BY <1>1, <1>6 DEF StartMaster, MasterSendOffset, MasterSendRows, MasterSendA,
       MasterSendB, MasterRecvOffset, MasterRecvRows, Step, IInv, LaunchInv
  <2>4. ~ aborted'
    BY <1>1, <2>1, <2>3 DEF IInv, LaunchInv
  <2> QED BY <2>1, <2>2, <2>4 DEF Outcome
<1>7. CASE MasterRecvC
  <2>1. /\ ~ aborted /\ matrixSize' = matrixSize /\ numtasks' = numtasks
        /\ pc[0] = "recvC" /\ peer' = peer + 1
        /\ pc' = [pc EXCEPT ![0] = IF peer < numworkers THEN "recvOffset"
                                                        ELSE "finalize"]
    BY <1>7 DEF MasterRecvC, Step
  <2>2. pc'[0] = IF peer < numworkers THEN "recvOffset" ELSE "finalize"
    BY <1>1, <2>1 DEF TypeInv
  <2>3. numtasks >= 2 /\ peer \in 1 .. numworkers
    BY <1>1, <2>1 DEF IInv, LaunchInv, MasterInv, Receiving, Worker, numworkers
  <2>4. ~ aborted'
    BY <1>1, <2>1, <2>3 DEF IInv, LaunchInv
  <2>5. Outcome = "running" /\ Outcome' = "running"
    BY <2>1, <2>2, <2>4 DEF Outcome
  <2>6. numworkers' = numworkers
    BY <2>1 DEF numworkers
  <2>7. Delivered = peer - 1
    BY <2>1 DEF Delivered, Receiving, Collected
  <2>8. Delivered' = peer
    <3>1. CASE peer < numworkers
      BY <2>1, <2>2, <2>3, <3>1 DEF Delivered, Receiving, Collected
    <3>2. CASE ~ (peer < numworkers)
      <4>1. peer = numworkers
        BY <1>1, <2>3, <3>2 DEF numworkers
      <4> QED BY <2>2, <2>6, <3>2, <4>1 DEF Delivered, Collected
    <3> QED BY <3>1, <3>2
  <2>9. Delivered \in 0 .. numworkers - 1 /\ Delivered' = Delivered + 1
    BY <1>1, <2>3, <2>7, <2>8 DEF numworkers
  <2> QED BY <2>1, <2>3, <2>5, <2>9
<1> QED BY <1>2, <1>3, <1>4, <1>5, <1>6, <1>7 DEF Next, Master, Terminated

\* Where the next block of C starts.
LEMMA NextBlock ==
    ASSUME IInv, numtasks >= 2, Delivered \in 0 .. numworkers - 1
    PROVE  /\ First(Delivered + 1) \in Nat
           /\ Count(Delivered + 1) \in Nat
           /\ First(Delivered + 2) = First(Delivered + 1) + Count(Delivered + 1)
           /\ First(Delivered + 2) \in 0 .. matrixSize
           /\ matrixSize \in Nat
<1>1. TypeInv
  BY DEF IInv
<1>2. Delivered + 1 \in Worker /\ Delivered + 2 = (Delivered + 1) + 1
  BY <1>1 DEF TypeInv, Worker, numworkers
<1> HIDE DEF Delivered
<1> QED BY <1>1, <1>2, BlockFacts

\* A delivery leaves C with the next block in place.
LEMMA DeliveryEffect ==
    ASSUME IInv, IInv', numtasks >= 2, numtasks' = numtasks,
           matrixSize' = matrixSize,
           Delivered \in 0 .. numworkers - 1, Delivered' = Delivered + 1,
           NEW i \in Row
    PROVE  /\ matrixC[0][i] = IF i < First(Delivered + 1) THEN i ELSE Garbage
           /\ matrixC'[0][i] = IF i < First(Delivered + 2) THEN i ELSE Garbage
<1>1. matrixC[0][i] = IF i < First(Delivered + 1) THEN i ELSE Garbage
  BY DEF IInv, ResultInv
<1>2. matrixC'[0][i] = IF i < First(Delivered + 1)' THEN i ELSE Garbage
  <2>1. numtasks' >= 2 /\ i \in Row'
    BY Rigid
  <2>2. ResultInv'
    BY DEF IInv
  <2> QED BY <2>1, <2>2 DEF ResultInv, Garbage
<1>3. First(Delivered + 1)' = First(Delivered + 2)
  <2>1. numworkers' = numworkers
    BY Rigid
  <2>2. numworkers \in Int
    BY DEF numworkers, IInv, TypeInv
  <2>3. (Delivered + 1)' = Delivered + 2
    BY <2>2
  <2> QED BY <2>1, <2>3 DEF First
<1> QED BY <1>1, <1>2, <1>3

\* A row of C that has been delivered is never written again with another
\* value: the blocks of different workers do not overlap.
THEOREM NoRowOverwritten == Spec => RowsWrittenOnce
<1> DEFINE Kept == \A i \in Row : matrixC[0][i] # Garbage
                                     => matrixC'[0][i] = matrixC[0][i]
<1>1. IInv /\ IInv' /\ [Next]_vars => Kept
  <2> SUFFICES ASSUME IInv, IInv', [Next]_vars, NEW i \in Row,
                      matrixC[0][i] # Garbage
               PROVE  matrixC'[0][i] = matrixC[0][i]
    OBVIOUS
  <2>1. CASE matrixC'[0] = matrixC[0]
    BY <2>1
  <2>2. CASE /\ numtasks >= 2 /\ numtasks' = numtasks
             /\ Delivered \in 0 .. numworkers - 1
             /\ Delivered' = Delivered + 1
    <3>1. matrixSize' = matrixSize
      BY StepEffect
    <3>2. /\ matrixC[0][i] = IF i < First(Delivered + 1) THEN i ELSE Garbage
          /\ matrixC'[0][i] = IF i < First(Delivered + 2) THEN i ELSE Garbage
      BY <2>2, <3>1, DeliveryEffect
    <3>3. i \in Int
      BY DEF Row, IInv, TypeInv
    <3> QED BY <2>2, <3>2, <3>3, NextBlock
  <2> QED BY <2>1, <2>2, StepEffect
<1> QED BY <1>1, Inductive, PTL DEF Spec, RowsWrittenOnce
-----------------------------------------------------------------------------
\* Every run of mm_mpi.cpp is, to the user, a run of the abstract product: the
\* rows arrive block by block, none is lost or wrong, and the program reports
\* the end only then, or refuses a launch without workers before any row.
THEOREM Implements == Spec => Abstract!Init /\ [][Abstract!Next]_(Abstract!vars)
<1>1. Init => Abstract!Init
  <2> SUFFICES ASSUME Init PROVE Abstract!Init
    OBVIOUS
  <2>1. 0 \in Rank /\ matrixSize \in Nat \ {0}
    BY DEF Init, Rank
  <2>2. matrixC[0] = Uninitialised /\ pc[0] = "start" /\ ~ aborted
    BY <2>1 DEF Init, MPI_Init
  <2> QED BY <2>1, <2>2 DEF Abstract!Init, Uninitialised, Row
<1>2. IInv /\ IInv' /\ [Next]_vars => [Abstract!Next]_(Abstract!vars)
  <2> SUFFICES ASSUME IInv, IInv', [Next]_vars
               PROVE  [Abstract!Next]_(Abstract!vars)
    OBVIOUS
  <2>1. /\ matrixSize' = matrixSize /\ matrixSize \in Nat \ {0}
        /\ matrixC[0] \in [Row -> Row \cup {Garbage}]
        /\ matrixC'[0] \in [Row -> Row \cup {Garbage}]
    <3>1. matrixC[0] \in Matrix /\ matrixSize \in Nat \ {0}
      BY WorkerRank DEF IInv, TypeInv
    <3>2. matrixSize' = matrixSize
      BY StepEffect
    <3>3. matrixC'[0] \in Matrix'
      <4>1. 0 \in Rank
        BY WorkerRank DEF IInv
      <4> QED BY <4>1 DEF IInv, TypeInv
    <3> QED BY <3>1, <3>2, <3>3 DEF Matrix, Row, Garbage
  <2>2. CASE matrixC'[0] = matrixC[0] /\ Outcome' = Outcome
    BY <2>1, <2>2 DEF Abstract!vars, Outcome
  <2>3. CASE /\ matrixC'[0] = matrixC[0] /\ Outcome = "running"
             /\ numtasks < 2 /\ Outcome' = "refused"
    <3>1. matrixC[0] = Uninitialised
      BY <2>3 DEF IInv, ResultInv
    <3>2. Abstract!Missing = 0 .. matrixSize - 1
      BY <2>1, <3>1 DEF Abstract!Missing, Uninitialised, Row
    <3>3. Abstract!Refuse
      BY <2>1, <2>3, <3>2 DEF Abstract!Refuse, Outcome
    <3> QED BY <3>3 DEF Abstract!Next
  <2>4. CASE /\ matrixC'[0] = matrixC[0] /\ Outcome = "running"
             /\ pc[0] = "finalize" /\ Outcome' = "complete"
    <3>1. matrixC[0] = Identity
      BY <2>4, CollectedIsWhole DEF ProductComplete
    <3>2. Abstract!Missing = {}
      BY <2>1, <3>1 DEF Abstract!Missing, Identity, Row, Garbage
    <3>3. Abstract!Complete
      BY <2>1, <2>4, <3>2 DEF Abstract!Complete, Outcome
    <3> QED BY <3>3 DEF Abstract!Next
  <2>5. CASE /\ numtasks >= 2 /\ Outcome = "running" /\ Outcome' = "running"
             /\ numtasks' = numtasks
             /\ Delivered \in 0 .. numworkers - 1
             /\ Delivered' = Delivered + 1
    <3> DEFINE first == First(Delivered + 1)
               next == First(Delivered + 2)
    <3>1. /\ first \in Nat /\ next \in 0 .. matrixSize /\ first <= next
      BY <2>5, NextBlock
    <3>2. ASSUME NEW i \in Row
          PROVE  /\ matrixC[0][i] = IF i < first THEN i ELSE Garbage
                 /\ matrixC'[0][i] = IF i < next THEN i ELSE Garbage
      BY <2>1, <2>5, DeliveryEffect
    <3> HIDE DEF first, next
    <3>3. CASE first = next
      <4>1. \A i \in Row : matrixC'[0][i] = matrixC[0][i]
        BY <3>2, <3>3
      <4>2. matrixC'[0] = matrixC[0]
        BY <2>1, <4>1
      <4> QED BY <2>1, <2>5, <4>2 DEF Abstract!vars, Outcome
    <3>4. CASE first < next
      <4>1. Abstract!Missing = first .. matrixSize - 1
        <5>1. /\ Row = 0 .. matrixSize - 1
              /\ matrixSize \in Nat
          BY <2>1 DEF Row
        <5>2. ASSUME NEW i \in Row
              PROVE  (matrixC[0][i] = Garbage) <=> (first <= i)
          BY <3>1, <3>2, <5>1 DEF Garbage
        <5>3. Abstract!Missing = {i \in Row : first <= i}
          BY <5>1, <5>2 DEF Abstract!Missing
        <5> QED BY <3>1, <5>1, <5>3
      <4>2. /\ first \in Abstract!Missing
            /\ next - 1 \in first .. matrixSize - 1
            /\ first .. next - 1 \subseteq Abstract!Missing
        <5>1. /\ first \in first .. matrixSize - 1
              /\ next - 1 \in first .. matrixSize - 1
              /\ first .. next - 1 \subseteq first .. matrixSize - 1
          BY <2>1, <3>1, <3>4
        <5> QED BY <4>1, <5>1
      <4>3. matrixC'[0] = [i \in 0 .. matrixSize - 1 |->
                             IF i \in first .. next - 1 THEN i ELSE matrixC[0][i]]
        <5>1. ASSUME NEW i \in Row
              PROVE  matrixC'[0][i] = IF i \in first .. next - 1
                                      THEN i ELSE matrixC[0][i]
          BY <2>1, <3>1, <3>2 DEF Row
        <5> QED BY <2>1, <5>1 DEF Row
      <4>4. Abstract!Deliver
        BY <2>1, <2>5, <4>2, <4>3 DEF Abstract!Deliver, Outcome
      <4> QED BY <4>4 DEF Abstract!Next
    <3> QED BY <3>1, <3>3, <3>4
  <2> QED BY <2>2, <2>3, <2>4, <2>5, StepEffect
<1> QED BY <1>1, <1>2, Inductive, PTL DEF Spec
-----------------------------------------------------------------------------
\* MatMult_MPI.cpp.  Where rank 0 has read another size than the workers', it does
\* not get past the block of worker 1, which is longer than its buffer: all that
\* matters is the number of rows of that block, on its way to the worker and back.
IsQueue(q) == q \in Seq({q[i] : i \in DOMAIN q})

\* q holds n messages with this tag.
Holds(q, tag, n) ==
    /\ IsQueue(q) /\ Len(q) = n
    /\ \A i \in 1 .. n : q[i].tag = tag

\* What a step of the other workers may not touch.
EnteredType ==
    /\ numtasks \in 1 .. MaxTasks /\ aborted \in BOOLEAN
    /\ matrixSize \in EnteredSizes /\ workerSize = DefaultSize
    /\ chan = [s \in Rank |-> [d \in Rank |-> chan[s][d]]]
    /\ pc = [p \in Rank |-> pc[p]]
    /\ rows = [p \in Rank |-> rows[p]]
    /\ numtasks < 2 => pc[0] = "start"

ToWorkerApart ==
    /\ TakenBy(1) <= SentTo(1)
    /\ Holds(chan[0][1], FROM_MASTER, SentTo(1) - TakenBy(1))
    /\ TakenBy(1) <= 1 /\ SentTo(1) >= 2 => chan[0][1][2 - TakenBy(1)].int = Count(1)
    /\ TakenBy(1) >= 2 => rows[1] = Count(1)

ToMasterApart ==
    /\ TakenFrom(1) <= SentBy(1)
    /\ Holds(chan[1][0], FROM_WORKER, SentBy(1) - TakenFrom(1))
    /\ TakenFrom(1) <= 1 /\ SentBy(1) >= 2 => chan[1][0][2 - TakenFrom(1)].int = Count(1)
    /\ SentBy(1) = 3 => chan[1][0][3 - TakenFrom(1)].bytes = 8 * workerSize * Count(1)

MasterApart ==
    /\ pc[0] \in {"start"} \cup Sending \cup Receiving
    /\ pc[0] \in Sending => peer \in Worker
    /\ pc[0] \in Sending \ {"sendOffset"} /\ peer = 1 => rows[0] = Count(1)
    /\ pc[0] \in Receiving => peer = 1
    /\ pc[0] = "recvC" => rows[0] = Count(1)

ApartInv == MasterApart /\ ToWorkerApart /\ ToMasterApart

EnteredInv ==
    /\ EnteredType
    /\ matrixSize = workerSize => IInv
    /\ matrixSize # workerSize /\ numtasks >= 2 /\ ~ aborted => ApartInv

\* The same operators, for the same size.
LEMMA SameOperators ==
    ASSUME NEW s, NEW d, NEW tag
    PROVE  /\ W!CanRecv(s, d, tag) <=> CanRecv(s, d, tag)
           /\ W!Incoming(s, d, tag) = Incoming(s, d, tag)
           /\ W!TakeIncoming(s, d, tag) <=> TakeIncoming(s, d, tag)
           /\ W!SendReturned(s) <=> SendReturned(s)
<1>1. W!Matching(s, d, tag) = Matching(s, d, tag)
  BY DEF W!Matching, Matching
<1>2. W!FirstMatch(s, d, tag) = FirstMatch(s, d, tag)
  BY <1>1 DEF W!FirstMatch, FirstMatch
<1>3. W!SendReturned(s) <=> SendReturned(s)
  BY DEF W!SendReturned, SendReturned, W!IsRendezvous, IsRendezvous, W!Rank, Rank
<1> QED  BY <1>1, <1>2, <1>3 DEF W!CanRecv, CanRecv, W!Incoming, Incoming, W!TakeIncoming, TakeIncoming,
         W!RemoveAt, RemoveAt

\* With the same size at every rank the program is that of mm_mpi.cpp.
LEMMA SameSizeMaster ==
    ASSUME matrixSize = workerSize, EnteredMaster
    PROVE  Master
  BY DEF EnteredMaster, Master, StartEntered, StartMaster

LEMMA SameSizeWorker ==
    ASSUME matrixSize = workerSize, NEW w, EnteredWorker(w)
    PROVE  WorkerStep(w)
<1>1. /\ W!Row = Row /\ W!Identity = Identity
      /\ \A n : W!ROWS(n) = ROWS(n)
      /\ \A tag, i : W!IntMsg(tag, i) = IntMsg(tag, i)
      /\ \A tag, b : W!RowsMsg(tag, workerSize, b) = RowsMsg(tag, matrixSize, b)
      /\ \A a, f, c : W!RowsOf(a, f, c) = RowsOf(a, f, c)
      /\ \A a, f, m : W!Stored(a, f, m) = Stored(a, f, m)
      /\ W!INT = INT /\ W!FROM_MASTER = FROM_MASTER /\ W!FROM_WORKER = FROM_WORKER
      /\ W!Garbage = Garbage
  BY DEF W!Row, Row, W!Identity, Identity, W!ROWS, ROWS, W!IntMsg, IntMsg, W!RowsMsg, RowsMsg,
         W!RowsOf, RowsOf, W!Stored, Stored, W!INT, INT, W!FROM_MASTER, FROM_MASTER,
         W!FROM_WORKER, FROM_WORKER, W!Garbage, Garbage
<1>2. \A from, to : W!Step(w, from, to) /\ UNCHANGED matrixSize => Step(w, from, to)
  BY SameOperators DEF W!Step, Step, W!Task, Task
<1>3. \A d, m : W!Send(w, d, m) => Send(w, d, m)
  BY DEF W!Send, Send, W!MPI_Send, MPI_Send
<1>4. \A s, tag, c : W!Recv(w, s, tag, c) => Recv(w, s, tag, c)
  BY SameOperators DEF W!Recv, Recv, W!Truncates, Truncates
<1>6. W!StartWorker(w) /\ UNCHANGED matrixSize => StartWorker(w)
  BY <1>2 DEF W!StartWorker, StartWorker, W!mem, mem
<1>7. W!WorkerRecvOffset(w) /\ UNCHANGED matrixSize => WorkerRecvOffset(w)
  BY <1>1, <1>2, <1>4, SameOperators DEF W!WorkerRecvOffset, WorkerRecvOffset
<1>8. W!WorkerRecvRows(w) /\ UNCHANGED matrixSize => WorkerRecvRows(w)
  BY <1>1, <1>2, <1>4, SameOperators DEF W!WorkerRecvRows, WorkerRecvRows
<1>9. W!WorkerRecvA(w) /\ UNCHANGED matrixSize => WorkerRecvA(w)
  BY <1>1, <1>2, <1>4, SameOperators DEF W!WorkerRecvA, WorkerRecvA
<1>10. W!WorkerRecvB(w) /\ UNCHANGED matrixSize => WorkerRecvB(w)
  BY <1>1, <1>2, <1>4, SameOperators DEF W!WorkerRecvB, WorkerRecvB
<1>11. W!Compute(w) /\ UNCHANGED matrixSize => Compute(w)
  BY <1>1, <1>2 DEF W!Compute, Compute
<1>12. W!WorkerSendOffset(w) /\ UNCHANGED matrixSize => WorkerSendOffset(w)
  BY <1>1, <1>2, <1>3 DEF W!WorkerSendOffset, WorkerSendOffset, W!mem, mem
<1>13. W!WorkerSendRows(w) /\ UNCHANGED matrixSize => WorkerSendRows(w)
  BY <1>1, <1>2, <1>3 DEF W!WorkerSendRows, WorkerSendRows, W!mem, mem
<1>14. W!WorkerSendC(w) /\ UNCHANGED matrixSize => WorkerSendC(w)
  BY <1>1, <1>2, <1>3 DEF W!WorkerSendC, WorkerSendC, W!mem, mem
<1>15. W!Finalize(w) /\ UNCHANGED matrixSize => Finalize(w)
  BY <1>2 DEF W!Finalize, Finalize, W!mem, mem
<1> QED  BY <1>6, <1>7, <1>8, <1>9, <1>10, <1>11, <1>12, <1>13, <1>14, <1>15
         DEF EnteredWorker, W!WorkerStep, WorkerStep

\* The first block has a row at least.
LEMMA FirstBlock ==
    ASSUME EnteredType, numtasks >= 2
    PROVE  /\ Count(1) \in Nat \ {0} /\ numworkers \in Nat \ {0} /\ 1 \in Worker
           /\ matrixSize \in Nat \ {0} /\ workerSize \in Nat /\ matrixSize <= workerSize
           /\ 0 \in Rank /\ 1 \in Rank
<1>1. /\ numworkers \in Nat \ {0} /\ 1 \in Worker /\ 0 \in Rank /\ 1 \in Rank
      /\ matrixSize \in Nat \ {0} /\ workerSize \in Nat /\ matrixSize <= workerSize
  BY MaxTasksAssumption, MatrixSizesAssumption, DefaultSizeAssumption
     DEF EnteredType, EnteredSizes, numworkers, Worker, Rank
<1>2. PICK n : n = matrixSize
  OBVIOUS
<1>3. PICK k : k = numworkers
  OBVIOUS
<1>4. AvgRow(n, k) \in Nat /\ ReRow(n, k) \in 0 .. (k - 1) /\ n = k * AvgRow(n, k) + ReRow(n, k)
  BY <1>1, <1>2, <1>3, DivMod
<1>5. PICK a : a = AvgRow(n, k)
  OBVIOUS
<1>6. ASSUME ReRow(n, k) = 0, a = 0 PROVE FALSE
  <2>1. k * 0 = 0
    BY <1>1, <1>3
  <2> QED  BY <1>1, <1>2, <1>4, <1>5, <1>6, <2>1
<1>7. Count(1) = IF 1 <= ReRow(n, k) THEN a + 1 ELSE a
  BY <1>2, <1>3, <1>5 DEF Count, RowsFor
<1> QED  BY <1>1, <1>4, <1>5, <1>6, <1>7

\* A sequence is a sequence of its own elements.
LEMMA QueueOf ==
    ASSUME NEW S, NEW q \in Seq(S)
    PROVE  IsQueue(q)
<1> DEFINE T == {q[i] : i \in DOMAIN q}
<1>1. Len(q) \in Nat /\ DOMAIN q = 1 .. Len(q) /\ q = [i \in 1 .. Len(q) |-> q[i]]
  OBVIOUS
<1>2. \A i \in 1 .. Len(q) : q[i] \in T
  BY <1>1
<1> HIDE DEF T
<1>3. q \in [1 .. Len(q) -> T]
  BY <1>1, <1>2
<1>4. q \in Seq(T)
  BY <1>1, <1>3
<1> QED  BY <1>4 DEF IsQueue, T

Added(a, q, m) == a = Append(q, m)

\* The queue after a message was added, and after the oldest was taken.
LEMMA AddedTo ==
    ASSUME NEW q, NEW tag, NEW n \in Nat, Holds(q, tag, n), NEW m, m.tag = tag,
           NEW a, Added(a, q, m)
    PROVE  /\ Holds(a, tag, n + 1) /\ a[n + 1] = m
           /\ \A i \in 1 .. n : a[i] = q[i]
<1> DEFINE S == {q[i] : i \in DOMAIN q} \union {m}
<1>1. q \in Seq(S) /\ m \in S /\ Len(q) = n /\ \A i \in 1 .. n : q[i].tag = tag
  <2>1. q \in Seq({q[i] : i \in DOMAIN q}) /\ {q[i] : i \in DOMAIN q} \subseteq S
    BY DEF Holds, IsQueue
  <2>2. q \in Seq(S)
    <3> HIDE DEF S
    <3> QED  BY <2>1
  <2> QED  BY <2>2 DEF Holds
<1> HIDE DEF S
<1>2. a \in Seq(S) /\ Len(a) = n + 1 /\ a[n + 1] = m /\ \A i \in 1 .. n : a[i] = q[i]
  BY <1>1, AppendProperties DEF Added
<1>3. IsQueue(a)
  BY <1>2, QueueOf
<1>4. \A i \in 1 .. n + 1 : a[i].tag = tag
  BY <1>1, <1>2
<1> QED  BY <1>2, <1>3, <1>4 DEF Holds

LEMMA TakenOldest ==
    ASSUME NEW s, NEW d, NEW tag, NEW n \in Nat, Holds(chan[s][d], tag, n), CanRecv(s, d, tag),
           NEW t, t = RemoveAt(chan[s][d], FirstMatch(s, d, tag))
    PROVE  /\ n > 0 /\ Incoming(s, d, tag) = chan[s][d][1]
           /\ Holds(t, tag, n - 1) /\ \A i \in 1 .. n - 1 : t[i] = chan[s][d][i + 1]
<1> DEFINE q == chan[s][d]
           S == {q[i] : i \in DOMAIN q}
<1>1. q \in Seq(S) /\ Len(q) = n /\ DOMAIN q = 1 .. n /\ \A i \in 1 .. n : q[i].tag = tag
  <2>1. q \in Seq(S) /\ Len(q) = n /\ \A i \in 1 .. n : q[i].tag = tag
    BY DEF Holds, IsQueue
  <2> QED  BY <2>1
<1> HIDE DEF S
<1>2. PICK j \in DOMAIN q : TRUE
  BY DEF CanRecv, Matching
<1>3. n > 0
  BY <1>1, <1>2
<1>4. Matching(s, d, tag) = 1 .. n
  BY <1>1 DEF Matching
<1>5. FirstMatch(s, d, tag) = 1
  BY <1>3, <1>4 DEF FirstMatch
<1>6. q # <<>> /\ Tail(q) \in Seq(S) /\ Len(Tail(q)) = n - 1
      /\ \A i \in 1 .. n - 1 : Tail(q)[i] = q[i + 1]
  <2> HIDE DEF q
  <2>1. q # <<>>
    BY <1>1, <1>3
  <2> QED  BY <1>1, <2>1, HeadTailProperties
<1>7. t = Tail(q)
  <2>1. SubSeq(q, 1, 1 - 1) = <<>>
    BY <1>1
  <2>2. SubSeq(q, 1 + 1, Len(q)) = Tail(q)
    BY <1>1, <1>6, HeadTailProperties, SubSeqProperties
  <2>3. <<>> \o Tail(q) = Tail(q)
    BY <1>6, ConcatEmptySeq
  <2>4. t = RemoveAt(q, 1)
    BY <1>5
  <2> HIDE DEF q
  <2> QED  BY ONLY <2>1, <2>2, <2>3, <2>4 DEF RemoveAt
<1>8. t \in Seq(S) /\ Len(t) = n - 1 /\ \A i \in 1 .. n - 1 : t[i] = q[i + 1]
  BY <1>6, <1>7
<1>9. IsQueue(t)
  BY <1>8, QueueOf
<1>10. ASSUME NEW i \in 1 .. n - 1 PROVE t[i].tag = tag
  <2>1. i + 1 \in 1 .. n /\ t[i] = q[i + 1]
    BY <1>8, <1>3
  <2> QED  BY <1>1, <2>1
<1> QED  BY <1>3, <1>5, <1>8, <1>9, <1>10 DEF Holds, Incoming

\* What a step that sends, or receives, does to the channels.
Becomes(s, d, x) == chan' = [chan EXCEPT ![s][d] = x]

LEMMA ChannelSet ==
    ASSUME EnteredType, NEW s \in Rank, NEW d \in Rank, NEW x, Becomes(s, d, x)
    PROVE  /\ chan' = [a \in Rank |-> [b \in Rank |-> chan'[a][b]]]
           /\ \A a, b \in Rank : chan'[a][b] = IF a = s /\ b = d THEN x ELSE chan[a][b]
<1> DEFINE row == [b \in Rank |-> IF b = d THEN x ELSE chan[s][b]]
<1>1. chan = [a \in Rank |-> [b \in Rank |-> chan[a][b]]]
  BY DEF EnteredType
<1>2. DOMAIN chan = Rank /\ \A a \in Rank : chan[a] = [b \in Rank |-> chan[a][b]]
  BY <1>1
<1>3. DOMAIN chan[s] = Rank
  BY <1>2
<1>4. [chan[s] EXCEPT ![d] = x] = row
  BY <1>3
<1>5. chan' = [a \in Rank |-> IF a = s THEN row ELSE chan[a]]
  <2>1. chan' = [chan EXCEPT ![s] = row]
    BY <1>4 DEF Becomes
  <2> HIDE DEF row
  <2> QED  BY <1>2, <2>1
<1>6. \A a \in Rank : chan'[a] = IF a = s THEN row ELSE chan[a]
  BY <1>5
<1>7. ASSUME NEW a \in Rank, NEW b \in Rank
      PROVE  chan'[a][b] = IF a = s /\ b = d THEN x ELSE chan[a][b]
  <2>1. row[b] = IF b = d THEN x ELSE chan[s][b]
    OBVIOUS
  <2> HIDE DEF row
  <2> QED  BY <1>6, <2>1
<1>8. ASSUME NEW a \in Rank PROVE chan'[a] = [b \in Rank |-> chan'[a][b]]
  <2>1. row = [b \in Rank |-> row[b]] /\ chan[a] = [b \in Rank |-> chan[a][b]]
    BY <1>2
  <2> HIDE DEF row
  <2>2. PICK r : r = chan'[a]
    OBVIOUS
  <2>3. r = row \/ r = chan[a]
    BY <1>6, <2>2
  <2>4. r = [b \in Rank |-> r[b]]
    BY <2>1, <2>3
  <2> QED  BY <2>2, <2>4
<1>9. chan' = [a \in Rank |-> chan'[a]]
  BY <1>5
<1> QED  BY <1>7, <1>8, <1>9

LEMMA ApartCounters ==
    /\ SentTo(1) \in 0 .. 4 /\ TakenBy(1) \in 0 .. 4
    /\ SentBy(1) \in 0 .. 3 /\ TakenFrom(1) \in 0 .. 3
  BY CounterTypes

\* Nothing happens between rank 0 and worker 1.
LEMMA ApartSame ==
    ASSUME EnteredType, numtasks >= 2, UNCHANGED <<numtasks, matrixSize, workerSize>>
    PROVE  /\ ToWorkerApart /\ SentTo(1)' = SentTo(1) /\ TakenBy(1)' = TakenBy(1)
              /\ chan'[0][1] = chan[0][1] /\ rows'[1] = rows[1]
              => ToWorkerApart'
           /\ ToMasterApart /\ SentBy(1)' = SentBy(1) /\ TakenFrom(1)' = TakenFrom(1)
              /\ chan'[1][0] = chan[1][0]
              => ToMasterApart'
<1>1. Count(1)' = Count(1)
  BY Rigid
<1>2. ASSUME ToWorkerApart, SentTo(1)' = SentTo(1), TakenBy(1)' = TakenBy(1),
             chan'[0][1] = chan[0][1], rows'[1] = rows[1]
      PROVE  ToWorkerApart'
  BY <1>1, <1>2 DEF ToWorkerApart, FROM_MASTER
<1>3. ASSUME ToMasterApart, SentBy(1)' = SentBy(1), TakenFrom(1)' = TakenFrom(1),
             chan'[1][0] = chan[1][0]
      PROVE  ToMasterApart'
  BY <1>1, <1>3 DEF ToMasterApart, FROM_WORKER
<1> QED  BY <1>2, <1>3

\* Rank 0 sends m to worker 1.
LEMMA ApartMasterSends ==
    ASSUME EnteredType, numtasks >= 2, UNCHANGED <<numtasks, matrixSize, workerSize>>,
           ToWorkerApart, NEW m, m.tag = FROM_MASTER, MPI_Send(0, 1, m),
           SentTo(1) < 4, SentTo(1)' = SentTo(1) + 1, TakenBy(1)' = TakenBy(1),
           SentTo(1) = 1 => m.int = Count(1), rows'[1] = rows[1]
    PROVE  ToWorkerApart'
<1> DEFINE q == chan[0][1]
           n == SentTo(1) - TakenBy(1)
<1>1. SentTo(1) \in 0 .. 4 /\ TakenBy(1) \in 0 .. 4 /\ TakenBy(1) <= SentTo(1)
  BY ApartCounters DEF ToWorkerApart
<1>2. chan'[0][1] = Append(q, m)
  <2>1. 0 \in Rank /\ 1 \in Rank
    BY FirstBlock
  <2>2. Becomes(0, 1, Append(q, m))
    BY DEF MPI_Send, Becomes
  <2>3. PICK x : x = Append(q, m)
    OBVIOUS
  <2> HIDE DEF q
  <2>4. Becomes(0, 1, x)
    BY <2>2, <2>3
  <2>5. chan'[0][1] = x
    BY <2>1, <2>4, ChannelSet
  <2> QED  BY <2>3, <2>5
<1>3. /\ Holds(chan'[0][1], FROM_MASTER, n + 1) /\ chan'[0][1][n + 1] = m
      /\ \A i \in 1 .. n : chan'[0][1][i] = q[i]
  <2>1. n \in Nat /\ Holds(q, FROM_MASTER, n) /\ m.tag = FROM_MASTER
    BY <1>1 DEF ToWorkerApart
  <2> HIDE DEF q, n
  <2>2. PICK tag : tag = FROM_MASTER
    OBVIOUS
  <2>3. Holds(q, tag, n) /\ m.tag = tag
    BY <2>1, <2>2
  <2>4. PICK a : a = chan'[0][1]
    OBVIOUS
  <2>5. Added(a, q, m)
    BY <1>2, <2>4 DEF Added
  <2> QED  BY <2>5, <2>1, <2>2, <2>3, <2>4, AddedTo
<1>4. Count(1)' = Count(1)
  BY Rigid
<1>5. Holds(chan[0][1], FROM_MASTER, SentTo(1) - TakenBy(1))'
  <2>1. n + 1 = SentTo(1)' - TakenBy(1)'
    BY <1>1
  <2> QED  BY <1>2, <1>3, <2>1 DEF FROM_MASTER
<1>6. ASSUME TakenBy(1)' <= 1, SentTo(1)' >= 2 PROVE chan'[0][1][2 - TakenBy(1)'].int = Count(1)
  <2>1. CASE SentTo(1) = 1
    <3>1. n + 1 = 2 - TakenBy(1)'
      BY <1>1, <2>1
    <3> QED  BY <1>2, <1>3, <2>1, <3>1
  <2>2. CASE SentTo(1) # 1
    <3>1. SentTo(1) >= 2 /\ 2 - TakenBy(1) \in 1 .. n
      BY <1>1, <1>6, <2>2
    <3>2. q[2 - TakenBy(1)].int = Count(1)
      BY <1>6, <3>1 DEF ToWorkerApart
    <3> QED  BY <1>2, <1>3, <3>1, <3>2
  <2> QED  BY <2>1, <2>2
<1> QED  BY <1>1, <1>4, <1>5, <1>6 DEF ToWorkerApart

\* Worker 1 takes its next message.
LEMMA ApartWorkerTakes ==
    ASSUME EnteredType, numtasks >= 2, UNCHANGED <<numtasks, matrixSize, workerSize>>,
           ToWorkerApart, CanRecv(0, 1, FROM_MASTER), TakeIncoming(0, 1, FROM_MASTER),
           SentTo(1)' = SentTo(1), TakenBy(1)' = TakenBy(1) + 1,
           rows'[1] = IF TakenBy(1) = 1 THEN Incoming(0, 1, FROM_MASTER).int ELSE rows[1]
    PROVE  ToWorkerApart'
<1> DEFINE q == chan[0][1]
           n == SentTo(1) - TakenBy(1)
<1>1. SentTo(1) \in 0 .. 4 /\ TakenBy(1) \in 0 .. 4 /\ TakenBy(1) <= SentTo(1) /\ n \in Nat
  BY ApartCounters DEF ToWorkerApart
<1>2. PICK t : t = RemoveAt(q, FirstMatch(0, 1, FROM_MASTER))
  OBVIOUS
<1>3. chan'[0][1] = t
  <2>1. 0 \in Rank /\ 1 \in Rank
    BY FirstBlock
  <2>2. Becomes(0, 1, t)
    BY <1>2 DEF TakeIncoming, Becomes
  <2> QED  BY <2>1, <2>2, ChannelSet
<1>4. /\ n > 0 /\ Incoming(0, 1, FROM_MASTER) = q[1]
      /\ Holds(t, FROM_MASTER, n - 1) /\ \A i \in 1 .. n - 1 : t[i] = q[i + 1]
  <2>1. Holds(q, FROM_MASTER, n)
    BY DEF ToWorkerApart
  <2> HIDE DEF n
  <2> QED  BY <1>1, <1>2, <2>1, TakenOldest
<1>5. Count(1)' = Count(1)
  BY Rigid
<1>6. Holds(chan[0][1], FROM_MASTER, SentTo(1) - TakenBy(1))'
  <2>1. n - 1 = SentTo(1)' - TakenBy(1)'
    BY <1>1
  <2> QED  BY <1>3, <1>4, <2>1 DEF FROM_MASTER
<1>7. ASSUME TakenBy(1)' <= 1, SentTo(1)' >= 2 PROVE chan'[0][1][2 - TakenBy(1)'].int = Count(1)
  <2>1. TakenBy(1) = 0 /\ 1 \in 1 .. n - 1 /\ 2 - TakenBy(1)' = 1
    BY <1>1, <1>7
  <2>2. q[2].int = Count(1)
    BY <1>7, <2>1 DEF ToWorkerApart
  <2>3. t[1] = q[2]
    BY <1>4, <2>1
  <2> QED  BY <1>3, <2>1, <2>2, <2>3
<1>8. ASSUME TakenBy(1)' >= 2 PROVE rows'[1] = Count(1)
  <2>1. CASE TakenBy(1) = 1
    <3>1. SentTo(1) >= 2
      BY <1>1, <1>4, <2>1
    <3>2. q[1].int = Count(1)
      BY <2>1, <3>1 DEF ToWorkerApart
    <3> QED  BY <1>4, <2>1, <3>2
  <2>2. CASE TakenBy(1) # 1
    BY <1>1, <1>8, <2>2 DEF ToWorkerApart
  <2> QED  BY <2>1, <2>2
<1> QED  BY <1>1, <1>4, <1>5, <1>6, <1>7, <1>8 DEF ToWorkerApart

\* Worker 1 sends m to rank 0.
LEMMA ApartWorkerSends ==
    ASSUME EnteredType, numtasks >= 2, UNCHANGED <<numtasks, matrixSize, workerSize>>,
           ToMasterApart, NEW m, m.tag = FROM_WORKER, MPI_Send(1, 0, m),
           SentBy(1) < 3, SentBy(1)' = SentBy(1) + 1, TakenFrom(1)' = TakenFrom(1),
           SentBy(1) = 1 => m.int = Count(1),
           SentBy(1) = 2 => m.bytes = 8 * workerSize * Count(1)
    PROVE  ToMasterApart'
<1> DEFINE q == chan[1][0]
           n == SentBy(1) - TakenFrom(1)
<1>1. SentBy(1) \in 0 .. 3 /\ TakenFrom(1) \in 0 .. 3 /\ TakenFrom(1) <= SentBy(1) /\ n \in Nat
  BY ApartCounters DEF ToMasterApart
<1>2. PICK a : a = Append(q, m)
  OBVIOUS
<1>3. chan'[1][0] = a
  <2>1. 0 \in Rank /\ 1 \in Rank
    BY FirstBlock
  <2>2. Becomes(1, 0, a)
    BY <1>2 DEF MPI_Send, Becomes
  <2> QED  BY <2>1, <2>2, ChannelSet
<1>4. /\ Holds(a, FROM_WORKER, n + 1) /\ a[n + 1] = m
      /\ \A i \in 1 .. n : a[i] = q[i]
  <2>1. Holds(q, FROM_WORKER, n) /\ Added(a, q, m)
    BY <1>2 DEF ToMasterApart, Added
  <2> HIDE DEF q, n
  <2> QED  BY <1>1, <2>1, AddedTo
<1>5. Count(1)' = Count(1)
  BY Rigid
<1>6. Holds(chan[1][0], FROM_WORKER, SentBy(1) - TakenFrom(1))'
  <2>1. n + 1 = SentBy(1)' - TakenFrom(1)'
    BY <1>1
  <2> QED  BY <1>3, <1>4, <2>1 DEF FROM_WORKER
<1>7. ASSUME TakenFrom(1)' <= 1, SentBy(1)' >= 2
      PROVE  chan'[1][0][2 - TakenFrom(1)'].int = Count(1)
  <2>1. CASE SentBy(1) = 1
    <3>1. n + 1 = 2 - TakenFrom(1)'
      BY <1>1, <2>1
    <3> QED  BY <1>3, <1>4, <2>1, <3>1
  <2>2. CASE SentBy(1) # 1
    <3>1. SentBy(1) >= 2 /\ 2 - TakenFrom(1) \in 1 .. n
      BY <1>1, <1>7, <2>2
    <3>2. q[2 - TakenFrom(1)].int = Count(1)
      BY <1>7, <3>1 DEF ToMasterApart
    <3> QED  BY <1>3, <1>4, <3>1, <3>2
  <2> QED  BY <2>1, <2>2
<1>8. ASSUME SentBy(1)' = 3 PROVE chan'[1][0][3 - TakenFrom(1)'].bytes = 8 * workerSize * Count(1)
  <2>1. SentBy(1) = 2 /\ n + 1 = 3 - TakenFrom(1)'
    BY <1>1, <1>8
  <2> QED  BY <1>3, <1>4, <2>1
<1> QED  BY <1>1, <1>5, <1>6, <1>7, <1>8 DEF ToMasterApart

\* Rank 0 takes the next message of worker 1, which is what worker 1 sent.
LEMMA ApartMasterTakes ==
    ASSUME EnteredType, numtasks >= 2, UNCHANGED <<numtasks, matrixSize, workerSize>>,
           ToMasterApart, CanRecv(1, 0, FROM_WORKER), TakeIncoming(1, 0, FROM_WORKER),
           SentBy(1)' = SentBy(1), TakenFrom(1) < 2, TakenFrom(1)' = TakenFrom(1) + 1
    PROVE  /\ ToMasterApart'
           /\ TakenFrom(1) = 1 => Incoming(1, 0, FROM_WORKER).int = Count(1)
<1> DEFINE q == chan[1][0]
           n == SentBy(1) - TakenFrom(1)
<1>1. SentBy(1) \in 0 .. 3 /\ TakenFrom(1) \in 0 .. 3 /\ TakenFrom(1) <= SentBy(1) /\ n \in Nat
  BY ApartCounters DEF ToMasterApart
<1>2. PICK t : t = RemoveAt(q, FirstMatch(1, 0, FROM_WORKER))
  OBVIOUS
<1>3. chan'[1][0] = t
  <2>1. 0 \in Rank /\ 1 \in Rank
    BY FirstBlock
  <2>2. Becomes(1, 0, t)
    BY <1>2 DEF TakeIncoming, Becomes
  <2> QED  BY <2>1, <2>2, ChannelSet
<1>4. /\ n > 0 /\ Incoming(1, 0, FROM_WORKER) = q[1]
      /\ Holds(t, FROM_WORKER, n - 1) /\ \A i \in 1 .. n - 1 : t[i] = q[i + 1]
  <2>1. Holds(q, FROM_WORKER, n)
    BY DEF ToMasterApart
  <2> HIDE DEF n
  <2> QED  BY <1>1, <1>2, <2>1, TakenOldest
<1>5. Count(1)' = Count(1)
  BY Rigid
<1>6. Holds(chan[1][0], FROM_WORKER, SentBy(1) - TakenFrom(1))'
  <2>1. n - 1 = SentBy(1)' - TakenFrom(1)'
    BY <1>1
  <2> QED  BY <1>3, <1>4, <2>1 DEF FROM_WORKER
<1>7. ASSUME TakenFrom(1)' <= 1, SentBy(1)' >= 2
      PROVE  chan'[1][0][2 - TakenFrom(1)'].int = Count(1)
  <2>1. TakenFrom(1) = 0 /\ 1 \in 1 .. n - 1 /\ 2 - TakenFrom(1)' = 1
    BY <1>1, <1>7
  <2>2. q[2].int = Count(1)
    BY <1>7, <2>1 DEF ToMasterApart
  <2>3. t[1] = q[2]
    BY <1>4, <2>1
  <2> QED  BY <1>3, <2>1, <2>2, <2>3
<1>8. ASSUME SentBy(1)' = 3 PROVE chan'[1][0][3 - TakenFrom(1)'].bytes = 8 * workerSize * Count(1)
  <2>1. 2 - TakenFrom(1) \in 1 .. n - 1 /\ 3 - TakenFrom(1)' = 2 - TakenFrom(1)
        /\ (2 - TakenFrom(1)) + 1 = 3 - TakenFrom(1)
    BY <1>1, <1>4, <1>8
  <2>2. q[3 - TakenFrom(1)].bytes = 8 * workerSize * Count(1)
    BY <1>8 DEF ToMasterApart
  <2> QED  BY <1>3, <1>4, <2>1, <2>2
<1>9. ASSUME TakenFrom(1) = 1 PROVE Incoming(1, 0, FROM_WORKER).int = Count(1)
  <2>1. SentBy(1) >= 2
    BY <1>1, <1>4, <1>9
  <2>2. q[1].int = Count(1)
    BY <1>9, <2>1 DEF ToMasterApart
  <2> QED  BY <1>4, <2>2
<1> QED  BY <1>1, <1>4, <1>5, <1>6, <1>7, <1>8, <1>9 DEF ToMasterApart

\* The third of them does not fit into the buffer of rank 0.
LEMMA ApartAborts ==
    ASSUME EnteredType, numtasks >= 2, matrixSize # workerSize,
           ToMasterApart, CanRecv(1, 0, FROM_WORKER), TakenFrom(1) = 2
    PROVE  Truncates(Incoming(1, 0, FROM_WORKER), ROWS(Count(1)))
<1> DEFINE q == chan[1][0]
           n == SentBy(1) - TakenFrom(1)
<1>1. SentBy(1) \in 0 .. 3 /\ n \in Nat
  BY ApartCounters DEF ToMasterApart
<1>2. PICK t : t = RemoveAt(q, FirstMatch(1, 0, FROM_WORKER))
  OBVIOUS
<1>3. n > 0 /\ Incoming(1, 0, FROM_WORKER) = q[1]
  <2>1. Holds(q, FROM_WORKER, n)
    BY DEF ToMasterApart
  <2> HIDE DEF n
  <2> QED  BY <1>1, <1>2, <2>1, TakenOldest
<1>4. q[1].bytes = 8 * workerSize * Count(1)
  <2>1. SentBy(1) = 3 /\ 3 - TakenFrom(1) = 1
    BY <1>1, <1>3
  <2> QED  BY <2>1 DEF ToMasterApart
<1>5. PICK c \in Nat \ {0} : c = Count(1)
  BY FirstBlock
<1>6. PICK k \in Nat : k = matrixSize
  BY FirstBlock
<1>7. PICK v \in Nat : v = workerSize
  BY FirstBlock
<1>8. k < v
  BY FirstBlock, <1>6, <1>7
<1>9. 8 * v * c > 8 * k * c
  <2>1. v = k + (v - k) /\ v - k \in Nat \ {0}
    BY <1>8
  <2>2. PICK e \in Nat \ {0} : e = v - k
    BY <2>1
  <2>3. 8 * v * c = 8 * k * c + 8 * (e * c)
    BY <2>1, <2>2, SMT
  <2>4. e * c >= 1 /\ 8 * k * c \in Nat
    BY SMT
  <2>5. PICK x \in Nat : x = 8 * k * c
    BY <2>4
  <2>6. PICK y \in Nat : y = e * c
    BY <2>4
  <2> QED  BY <2>3, <2>4, <2>5, <2>6
<1> QED  BY <1>3, <1>4, <1>5, <1>6, <1>7, <1>9 DEF Truncates, ROWS

\* A message sent from s to d, or taken there, leaves the other channels alone.
Moves(s, d) == (\E m : MPI_Send(s, d, m)) \/ (\E tag : TakeIncoming(s, d, tag))

LEMMA OtherChannels ==
    ASSUME EnteredType, NEW s \in Rank, NEW d \in Rank, Moves(s, d)
    PROVE  /\ chan' = [a \in Rank |-> [b \in Rank |-> chan'[a][b]]]
           /\ \A a, b \in Rank : a # s \/ b # d => chan'[a][b] = chan[a][b]
<1>1. PICK x : Becomes(s, d, x)
  BY DEF Moves, MPI_Send, TakeIncoming, Becomes
<1>2. /\ chan' = [a \in Rank |-> [b \in Rank |-> chan'[a][b]]]
      /\ \A a, b \in Rank : chan'[a][b] = IF a = s /\ b = d THEN x ELSE chan[a][b]
  BY <1>1, ChannelSet
<1> QED  BY <1>2

\* Nothing, or one channel, changes.
ChannelStep == chan' = chan \/ \E s, d \in Rank : Moves(s, d)

LEMMA EnteredTypeStep ==
    ASSUME EnteredType, NEW p \in Rank, NEW to, pc' = [pc EXCEPT ![p] = to],
           UNCHANGED <<numtasks, matrixSize, workerSize>>,
           aborted' \in BOOLEAN, ChannelStep,
           rows' = rows \/ \E x : rows' = [rows EXCEPT ![p] = x],
           numtasks < 2 => p = 0 /\ to = "start"
    PROVE  EnteredType'
<1>1. chan' = [a \in Rank |-> [b \in Rank |-> chan'[a][b]]]
  <2>1. CASE chan' = chan
    BY <2>1 DEF EnteredType
  <2>2. CASE \E s, d \in Rank : Moves(s, d)
    BY <2>2, OtherChannels
  <2> QED  BY <2>1, <2>2 DEF ChannelStep
<1>2. DOMAIN pc = Rank /\ DOMAIN rows = Rank
  <2>1. pc = [a \in Rank |-> pc[a]] /\ rows = [a \in Rank |-> rows[a]]
    BY DEF EnteredType
  <2> QED  BY <2>1
<1>3. pc' = [a \in Rank |-> pc'[a]]
  <2>1. pc' = [a \in Rank |-> IF a = p THEN to ELSE pc[a]]
    BY <1>2
  <2> QED  BY <2>1
<1>4. rows' = [a \in Rank |-> rows'[a]]
  <2>1. CASE rows' = rows
    BY <2>1 DEF EnteredType
  <2>2. ASSUME NEW x, rows' = [rows EXCEPT ![p] = x]
        PROVE  rows' = [a \in Rank |-> rows'[a]]
    <3>1. rows' = [a \in Rank |-> IF a = p THEN x ELSE rows[a]]
      BY <1>2, <2>2
    <3> QED  BY <3>1
  <2> QED  BY <2>1, <2>2
<1>5. numtasks' < 2 => pc'[0] = "start"
  BY <1>2
<1>6. EnteredSizes' = EnteredSizes
  BY DEF EnteredSizes
<1> QED  BY <1>1, <1>3, <1>4, <1>5, <1>6 DEF EnteredType, Rank

\* The steps of the workers, in the names of rank 0's module.
LEMMA WorkerNames ==
    /\ W!INT = INT /\ W!FROM_MASTER = FROM_MASTER /\ W!FROM_WORKER = FROM_WORKER
    /\ W!Rank = Rank /\ W!Task = Task
    /\ \A tag, i : W!IntMsg(tag, i) = IntMsg(tag, i)
    /\ \A s, d, m : W!MPI_Send(s, d, m) <=> MPI_Send(s, d, m)
<1>1. W!INT = INT /\ W!FROM_MASTER = FROM_MASTER /\ W!FROM_WORKER = FROM_WORKER
  BY DEF W!INT, INT, W!FROM_MASTER, FROM_MASTER, W!FROM_WORKER, FROM_WORKER
<1>2. W!Rank = Rank /\ W!Task = Task
  BY DEF W!Rank, Rank, W!Task, Task
<1>3. \A tag, i : W!IntMsg(tag, i) = IntMsg(tag, i)
  BY DEF W!IntMsg, IntMsg, W!Garbage, Garbage
<1>4. \A s, d, m : W!MPI_Send(s, d, m) <=> MPI_Send(s, d, m)
  BY DEF W!MPI_Send, MPI_Send
<1> QED  BY <1>1, <1>2, <1>3, <1>4

\* What worker w's step does to the program counters.
LEMMA WorkerStepped ==
    ASSUME EnteredType, NEW w \in Worker, NEW from, NEW to, W!Step(w, from, to)
    PROVE  /\ ~ aborted /\ w \in Rank /\ w # 0 /\ numtasks >= 2
           /\ pc[w] = from /\ pc'[w] = to /\ pc' = [pc EXCEPT ![w] = to]
           /\ \A p \in Rank : p # w => pc'[p] = pc[p]
           /\ UNCHANGED <<numtasks, workerSize>>
<1>1. /\ ~ aborted /\ pc[w] = from /\ pc' = [pc EXCEPT ![w] = to]
      /\ UNCHANGED <<numtasks, workerSize>>
  BY DEF W!Step
<1>2. w \in Rank /\ w # 0 /\ numtasks >= 2
  BY MaxTasksAssumption DEF Worker, Rank, EnteredType
<1>3. pc = [a \in Rank |-> pc[a]]
  BY DEF EnteredType
<1>4. DOMAIN pc = Rank
  BY <1>3
<1> QED  BY <1>1, <1>2, <1>4

\* What any step of worker w leaves alone.
OtherRankFrame(w) ==
    /\ UNCHANGED <<matrixSize, peer>>
    /\ rows' = rows \/ \E x : rows' = [rows EXCEPT ![w] = x]
    /\ chan' = chan \/ Moves(0, w) \/ Moves(w, 0)
    /\ aborted' = aborted \/ \E m, c : aborted' = Truncates(m, c)
    /\ \E from, to : W!Step(w, from, to)

LEMMA OtherRankFrames ==
    ASSUME NEW w, EnteredWorker(w)
    PROVE  OtherRankFrame(w)
<1>1. \A s, d, m : W!Send(s, d, m) => Moves(s, d) /\ aborted' = aborted
  BY WorkerNames DEF W!Send, Moves
<1>2. \A p, s, tag, c : W!Recv(p, s, tag, c) =>
        Moves(s, p) /\ \E m, k : aborted' = Truncates(m, k)
  <2> SUFFICES ASSUME NEW p, NEW s, NEW tag, NEW c, W!Recv(p, s, tag, c)
               PROVE  Moves(s, p) /\ \E m, k : aborted' = Truncates(m, k)
    OBVIOUS
  <2>1. W!TakeIncoming(s, p, tag) /\ aborted' = W!Truncates(W!Incoming(s, p, tag), c)
    BY DEF W!Recv
  <2>2. TakeIncoming(s, p, tag)
    BY <2>1, SameOperators
  <2>3. \A m, k : W!Truncates(m, k) = Truncates(m, k)
    BY DEF W!Truncates, Truncates
  <2> QED  BY <2>1, <2>2, <2>3 DEF Moves
<1>3. UNCHANGED matrixSize
  BY DEF EnteredWorker
<1>4. ASSUME W!StartWorker(w) PROVE OtherRankFrame(w)
  <2>1. UNCHANGED <<chan, aborted, peer, rows>> /\ W!Step(w, "start", "recvOffset")
    BY <1>4 DEF W!StartWorker, W!mem
  <2> QED  BY <1>3, <2>1 DEF OtherRankFrame
<1>5. ASSUME W!WorkerRecvOffset(w) PROVE OtherRankFrame(w)
  <2>1. Moves(0, w) /\ \E m, k : aborted' = Truncates(m, k)
    BY <1>2, <1>5 DEF W!WorkerRecvOffset
  <2>2. UNCHANGED peer /\ W!Step(w, "recvOffset", "recvRows")
    BY <1>5 DEF W!WorkerRecvOffset
  <2>3. rows' = rows
    BY <1>5 DEF W!WorkerRecvOffset
  <2> QED  BY <1>3, <2>1, <2>2, <2>3 DEF OtherRankFrame
<1>6. ASSUME W!WorkerRecvRows(w) PROVE OtherRankFrame(w)
  <2>1. Moves(0, w) /\ \E m, k : aborted' = Truncates(m, k)
    BY <1>2, <1>6 DEF W!WorkerRecvRows
  <2>2. UNCHANGED peer /\ W!Step(w, "recvRows", "recvA")
    BY <1>6 DEF W!WorkerRecvRows
  <2>3. \E x : rows' = [rows EXCEPT ![w] = x]
    BY <1>6 DEF W!WorkerRecvRows
  <2> QED  BY <1>3, <2>1, <2>2, <2>3 DEF OtherRankFrame
<1>7. ASSUME W!WorkerRecvA(w) PROVE OtherRankFrame(w)
  <2>1. Moves(0, w) /\ \E m, k : aborted' = Truncates(m, k)
    BY <1>2, <1>7 DEF W!WorkerRecvA
  <2>2. UNCHANGED peer /\ W!Step(w, "recvA", "recvB")
    BY <1>7 DEF W!WorkerRecvA
  <2>3. rows' = rows
    BY <1>7 DEF W!WorkerRecvA
  <2> QED  BY <1>3, <2>1, <2>2, <2>3 DEF OtherRankFrame
<1>8. ASSUME W!WorkerRecvB(w) PROVE OtherRankFrame(w)
  <2>1. Moves(0, w) /\ \E m, k : aborted' = Truncates(m, k)
    BY <1>2, <1>8 DEF W!WorkerRecvB
  <2>2. UNCHANGED peer /\ W!Step(w, "recvB", "compute")
    BY <1>8 DEF W!WorkerRecvB
  <2>3. rows' = rows
    BY <1>8 DEF W!WorkerRecvB
  <2> QED  BY <1>3, <2>1, <2>2, <2>3 DEF OtherRankFrame
<1>9. ASSUME W!Compute(w) PROVE OtherRankFrame(w)
  <2>1. UNCHANGED <<chan, aborted, peer, rows>> /\ W!Step(w, "compute", "sendOffset")
    BY <1>9 DEF W!Compute, W!mem
  <2> QED  BY <1>3, <2>1 DEF OtherRankFrame
<1>10. ASSUME W!WorkerSendOffset(w) PROVE OtherRankFrame(w)
  <2>1. Moves(w, 0) /\ aborted' = aborted
    BY <1>1, <1>10 DEF W!WorkerSendOffset
  <2>2. UNCHANGED <<peer, rows>> /\ W!Step(w, "sendOffset", "sendRows")
    BY <1>10 DEF W!WorkerSendOffset, W!mem
  <2> QED  BY <1>3, <2>1, <2>2 DEF OtherRankFrame
<1>11. ASSUME W!WorkerSendRows(w) PROVE OtherRankFrame(w)
  <2>1. Moves(w, 0) /\ aborted' = aborted
    BY <1>1, <1>11 DEF W!WorkerSendRows
  <2>2. UNCHANGED <<peer, rows>> /\ W!Step(w, "sendRows", "sendC")
    BY <1>11 DEF W!WorkerSendRows, W!mem
  <2> QED  BY <1>3, <2>1, <2>2 DEF OtherRankFrame
<1>12. ASSUME W!WorkerSendC(w) PROVE OtherRankFrame(w)
  <2>1. Moves(w, 0) /\ aborted' = aborted
    BY <1>1, <1>12 DEF W!WorkerSendC
  <2>2. UNCHANGED <<peer, rows>> /\ W!Step(w, "sendC", "finalize")
    BY <1>12 DEF W!WorkerSendC, W!mem
  <2> QED  BY <1>3, <2>1, <2>2 DEF OtherRankFrame
<1>13. ASSUME W!Finalize(w) PROVE OtherRankFrame(w)
  <2>1. UNCHANGED <<chan, aborted, peer, rows>> /\ W!Step(w, "finalize", "done")
    BY <1>13 DEF W!Finalize, W!mem
  <2> QED  BY <1>3, <2>1 DEF OtherRankFrame
<1> QED  BY <1>4, <1>5, <1>6, <1>7, <1>8, <1>9, <1>10, <1>11, <1>12, <1>13 DEF EnteredWorker, W!WorkerStep

LEMMA EnteredWorkerKeeps ==
    ASSUME EnteredType, NEW w \in Worker, EnteredWorker(w)
    PROVE  /\ ~ aborted /\ numtasks >= 2 /\ w \in Rank /\ w # 0 /\ 0 \in Rank
           /\ UNCHANGED <<numtasks, matrixSize, workerSize, peer>>
           /\ \A p \in Rank : p # w => pc'[p] = pc[p] /\ rows'[p] = rows[p]
           /\ \A a, b \in Rank :
                ~ (a = 0 /\ b = w) /\ ~ (a = w /\ b = 0) => chan'[a][b] = chan[a][b]
           /\ EnteredType'
<1>1. OtherRankFrame(w)
  BY OtherRankFrames
<1>2. PICK from, to : W!Step(w, from, to)
  BY <1>1 DEF OtherRankFrame
<1>3. /\ ~ aborted /\ w \in Rank /\ w # 0 /\ numtasks >= 2
      /\ pc' = [pc EXCEPT ![w] = to]
      /\ \A p \in Rank : p # w => pc'[p] = pc[p]
      /\ UNCHANGED <<numtasks, workerSize, matrixSize, peer>>
  BY <1>1, <1>2, WorkerStepped DEF OtherRankFrame
<1>4. 0 \in Rank
  BY MaxTasksAssumption DEF Rank
<1>5. ChannelStep
  BY <1>1, <1>3, <1>4 DEF OtherRankFrame, ChannelStep
<1>6. \A a, b \in Rank :
        ~ (a = 0 /\ b = w) /\ ~ (a = w /\ b = 0) => chan'[a][b] = chan[a][b]
  <2>1. CASE chan' = chan
    BY <2>1
  <2>2. CASE Moves(0, w)
    BY <1>3, <1>4, <2>2, OtherChannels
  <2>3. CASE Moves(w, 0)
    BY <1>3, <1>4, <2>3, OtherChannels
  <2> QED  BY <1>1, <2>1, <2>2, <2>3 DEF OtherRankFrame
<1>7. \A p \in Rank : p # w => rows'[p] = rows[p]
  <2>1. rows = [a \in Rank |-> rows[a]]
    BY DEF EnteredType
  <2>2. DOMAIN rows = Rank
    BY <2>1
  <2> QED  BY <1>1, <2>2 DEF OtherRankFrame
<1>8. aborted' \in BOOLEAN
  <2>1. \A m, c : Truncates(m, c) \in BOOLEAN
    BY DEF Truncates
  <2>2. aborted \in BOOLEAN
    BY DEF EnteredType
  <2>3. aborted' = aborted \/ \E m, c : aborted' = Truncates(m, c)
    BY <1>1 DEF OtherRankFrame
  <2> QED  BY <2>1, <2>2, <2>3, Zenon
<1>9. EnteredType'
  <2>1. rows' = rows \/ \E x : rows' = [rows EXCEPT ![w] = x]
    BY <1>1 DEF OtherRankFrame
  <2>2. ~ numtasks < 2
    BY <1>3 DEF EnteredType
  <2> QED  BY <1>3, <1>5, <1>8, <2>1, <2>2, EnteredTypeStep
<1> QED  BY <1>3, <1>4, <1>6, <1>7, <1>9

\* The program counters of rank 0 and of worker 1 tell what is in flight.
LEMMA CountersSame ==
    ASSUME pc'[0] = pc[0], peer' = peer, NEW w
    PROVE  /\ SentTo(w)' = SentTo(w) /\ TakenFrom(w)' = TakenFrom(w)
           /\ MasterApart /\ rows'[0] = rows[0]
              /\ UNCHANGED <<numtasks, matrixSize>> => MasterApart'
<1>1. SentTo(w)' = SentTo(w)
  BY DEF SentTo, Sending
<1>2. TakenFrom(w)' = TakenFrom(w)
  BY DEF TakenFrom, Collected, Receiving
<1>3. ASSUME MasterApart, rows'[0] = rows[0], UNCHANGED <<numtasks, matrixSize>>
      PROVE  MasterApart'
  <2>1. Count(1)' = Count(1) /\ Worker' = Worker
    BY <1>3, Rigid
  <2> QED  BY <1>3, <2>1 DEF MasterApart, Sending, Receiving
<1> QED  BY <1>1, <1>2, <1>3

\* A step of a worker other than 1 has no part in it.
LEMMA ApartOthers ==
    ASSUME EnteredType, ApartInv, NEW w \in Worker, w # 1, EnteredWorker(w)
    PROVE  ApartInv'
<1>1. /\ numtasks >= 2 /\ w # 0
      /\ UNCHANGED <<numtasks, matrixSize, workerSize, peer>>
      /\ \A p \in Rank : p # w => pc'[p] = pc[p] /\ rows'[p] = rows[p]
      /\ \A a, b \in Rank :
           ~ (a = 0 /\ b = w) /\ ~ (a = w /\ b = 0) => chan'[a][b] = chan[a][b]
  BY EnteredWorkerKeeps
<1>2. /\ pc'[0] = pc[0] /\ pc'[1] = pc[1] /\ rows'[0] = rows[0] /\ rows'[1] = rows[1]
      /\ chan'[0][1] = chan[0][1] /\ chan'[1][0] = chan[1][0]
  BY <1>1, FirstBlock
<1>3. TakenBy(1)' = TakenBy(1) /\ SentBy(1)' = SentBy(1)
  BY <1>2 DEF TakenBy, SentBy, Collected
<1> QED  BY <1>1, <1>2, <1>3, CountersSame, ApartSame DEF ApartInv

\* The steps of worker 1.
LEMMA ApartFirst ==
    ASSUME EnteredType, ApartInv, EnteredWorker(1)
    PROVE  ApartInv'
<1>1. 1 \in Worker /\ numtasks >= 2
  <2>1. OtherRankFrame(1)
    BY OtherRankFrames
  <2>2. PICK from, to : W!Step(1, from, to)
    BY <2>1 DEF OtherRankFrame
  <2>3. 1 \in Task
    BY <2>2, WorkerNames DEF W!Step
  <2> QED  BY <2>3 DEF Task, Worker, EnteredType
<1>2. /\ UNCHANGED <<numtasks, matrixSize, workerSize, peer>>
      /\ pc'[0] = pc[0] /\ rows'[0] = rows[0] /\ 0 \in Rank /\ 1 \in Rank
      /\ DOMAIN rows = Rank
  <2>1. rows = [a \in Rank |-> rows[a]]
    BY DEF EnteredType
  <2>2. DOMAIN rows = Rank
    BY <2>1
  <2> QED  BY <1>1, <2>2, EnteredWorkerKeeps
<1>3. SentTo(1)' = SentTo(1) /\ TakenFrom(1)' = TakenFrom(1) /\ MasterApart'
  BY <1>2, CountersSame DEF ApartInv
<1>4. ASSUME NEW from, NEW to, W!Step(1, from, to)
      PROVE  pc[1] = from /\ pc'[1] = to
  BY <1>1, <1>4, WorkerStepped
<1>5. ToWorkerApart /\ ToMasterApart
  BY DEF ApartInv
<1>6. ASSUME chan'[0][1] = chan[0][1], TakenBy(1)' = TakenBy(1), rows'[1] = rows[1]
      PROVE  ToWorkerApart'
  BY <1>1, <1>2, <1>3, <1>5, <1>6, ApartSame
<1>7. ASSUME chan'[1][0] = chan[1][0], SentBy(1)' = SentBy(1)
      PROVE  ToMasterApart'
  BY <1>1, <1>2, <1>3, <1>5, <1>7, ApartSame
<1>8. ASSUME Moves(0, 1) PROVE chan'[1][0] = chan[1][0]
  BY <1>2, <1>8, OtherChannels
<1>9. ASSUME Moves(1, 0) PROVE chan'[0][1] = chan[0][1]
  BY <1>2, <1>9, OtherChannels
<1>10. ASSUME NEW from, NEW to, W!Step(1, from, to), NEW c, W!Recv(1, 0, FROM_MASTER, c),
              TakenBy(1)' = TakenBy(1) + 1, SentBy(1)' = SentBy(1),
              rows'[1] = IF TakenBy(1) = 1 THEN Incoming(0, 1, FROM_MASTER).int ELSE rows[1]
       PROVE  ToWorkerApart' /\ ToMasterApart'
  <2>1. CanRecv(0, 1, FROM_MASTER) /\ TakeIncoming(0, 1, FROM_MASTER)
    BY <1>10, SameOperators DEF W!Recv
  <2>2. ToWorkerApart'
    BY <1>1, <1>2, <1>3, <1>5, <1>10, <2>1, ApartWorkerTakes
  <2>3. Moves(0, 1)
    BY <2>1 DEF Moves
  <2> QED  BY <1>7, <1>8, <1>10, <2>2, <2>3
<1>11. ASSUME NEW from, NEW to, W!Step(1, from, to), NEW m, W!Send(1, 0, m),
              m.tag = FROM_WORKER, UNCHANGED rows,
              TakenBy(1)' = TakenBy(1), SentBy(1) < 3, SentBy(1)' = SentBy(1) + 1,
              SentBy(1) = 1 => m.int = Count(1),
              SentBy(1) = 2 => m.bytes = 8 * workerSize * Count(1)
       PROVE  ToWorkerApart' /\ ToMasterApart'
  <2>1. MPI_Send(1, 0, m)
    BY <1>11, WorkerNames DEF W!Send
  <2>2. ToMasterApart'
    BY <1>1, <1>2, <1>3, <1>5, <1>11, <2>1, ApartWorkerSends
  <2>3. Moves(1, 0)
    BY <2>1 DEF Moves
  <2> QED  BY <1>6, <1>9, <1>11, <2>2, <2>3
<1>12. ASSUME UNCHANGED <<chan, rows>>, TakenBy(1)' = TakenBy(1), SentBy(1)' = SentBy(1)
       PROVE  ToWorkerApart' /\ ToMasterApart'
  BY <1>6, <1>7, <1>12
<1>13. ASSUME W!StartWorker(1) PROVE ToWorkerApart' /\ ToMasterApart'
  <2>1. W!Step(1, "start", "recvOffset") /\ UNCHANGED <<chan, rows>>
    BY <1>13 DEF W!StartWorker, W!mem
  <2>2. pc[1] = "start" /\ pc'[1] = "recvOffset"
    BY <1>4, <2>1
  <2> QED  BY <1>12, <2>1, <2>2 DEF TakenBy, SentBy, Collected
<1>14. ASSUME W!WorkerRecvOffset(1) PROVE ToWorkerApart' /\ ToMasterApart'
  <2>1. /\ W!Step(1, "recvOffset", "recvRows") /\ UNCHANGED rows
        /\ W!Recv(1, 0, FROM_MASTER, INT)
    BY <1>14, WorkerNames DEF W!WorkerRecvOffset
  <2>2. pc[1] = "recvOffset" /\ pc'[1] = "recvRows"
    BY <1>4, <2>1
  <2>3. TakenBy(1) = 0 /\ TakenBy(1)' = 1 /\ SentBy(1)' = SentBy(1)
    BY <2>2 DEF TakenBy, SentBy, Collected
  <2> QED  BY <1>10, <2>1, <2>3
<1>15. ASSUME W!WorkerRecvRows(1) PROVE ToWorkerApart' /\ ToMasterApart'
  <2>1. /\ W!Step(1, "recvRows", "recvA") /\ W!Recv(1, 0, FROM_MASTER, INT)
        /\ rows' = [rows EXCEPT ![1] = Incoming(0, 1, FROM_MASTER).int]
    BY <1>15, WorkerNames, SameOperators DEF W!WorkerRecvRows
  <2>2. pc[1] = "recvRows" /\ pc'[1] = "recvA"
    BY <1>4, <2>1
  <2>3. TakenBy(1) = 1 /\ TakenBy(1)' = 2 /\ SentBy(1)' = SentBy(1)
    BY <2>2 DEF TakenBy, SentBy, Collected
  <2>4. rows'[1] = Incoming(0, 1, FROM_MASTER).int
    BY <1>2, <2>1
  <2> QED  BY <1>10, <2>1, <2>3, <2>4
<1>16. ASSUME W!WorkerRecvA(1) PROVE ToWorkerApart' /\ ToMasterApart'
  <2>1. PICK c : /\ W!Step(1, "recvA", "recvB") /\ UNCHANGED rows
                 /\ W!Recv(1, 0, FROM_MASTER, c)
    BY <1>16, WorkerNames DEF W!WorkerRecvA
  <2>2. pc[1] = "recvA" /\ pc'[1] = "recvB"
    BY <1>4, <2>1
  <2>3. TakenBy(1) = 2 /\ TakenBy(1)' = 3 /\ SentBy(1)' = SentBy(1)
    BY <2>2 DEF TakenBy, SentBy, Collected
  <2> QED  BY <1>10, <2>1, <2>3
<1>17. ASSUME W!WorkerRecvB(1) PROVE ToWorkerApart' /\ ToMasterApart'
  <2>1. PICK c : /\ W!Step(1, "recvB", "compute") /\ UNCHANGED rows
                 /\ W!Recv(1, 0, FROM_MASTER, c)
    BY <1>17, WorkerNames DEF W!WorkerRecvB
  <2>2. pc[1] = "recvB" /\ pc'[1] = "compute"
    BY <1>4, <2>1
  <2>3. TakenBy(1) = 3 /\ TakenBy(1)' = 4 /\ SentBy(1)' = SentBy(1)
    BY <2>2 DEF TakenBy, SentBy, Collected
  <2> QED  BY <1>10, <2>1, <2>3
<1>18. ASSUME W!Compute(1) PROVE ToWorkerApart' /\ ToMasterApart'
  <2>1. W!Step(1, "compute", "sendOffset") /\ UNCHANGED <<chan, rows>>
    BY <1>18 DEF W!Compute
  <2>2. pc[1] = "compute" /\ pc'[1] = "sendOffset"
    BY <1>4, <2>1
  <2> QED  BY <1>12, <2>1, <2>2 DEF TakenBy, SentBy, Collected
<1>19. ASSUME W!WorkerSendOffset(1) PROVE ToWorkerApart' /\ ToMasterApart'
  <2>1. /\ W!Step(1, "sendOffset", "sendRows") /\ UNCHANGED rows
        /\ W!Send(1, 0, IntMsg(FROM_WORKER, offset[1]))
    BY <1>19, WorkerNames DEF W!WorkerSendOffset, W!mem
  <2>2. pc[1] = "sendOffset" /\ pc'[1] = "sendRows"
    BY <1>4, <2>1
  <2>3. TakenBy(1)' = TakenBy(1) /\ SentBy(1) = 0 /\ SentBy(1)' = 1
    BY <2>2 DEF TakenBy, SentBy, Collected
  <2>4. PICK m : m = IntMsg(FROM_WORKER, offset[1])
    OBVIOUS
  <2>5. m.tag = FROM_WORKER
    BY <2>4 DEF IntMsg
  <2> QED  BY <1>11, <2>1, <2>3, <2>4, <2>5
<1>20. ASSUME W!WorkerSendRows(1) PROVE ToWorkerApart' /\ ToMasterApart'
  <2>1. /\ W!Step(1, "sendRows", "sendC") /\ UNCHANGED rows
        /\ W!Send(1, 0, IntMsg(FROM_WORKER, rows[1]))
    BY <1>20, WorkerNames DEF W!WorkerSendRows, W!mem
  <2>2. pc[1] = "sendRows" /\ pc'[1] = "sendC"
    BY <1>4, <2>1
  <2>3. TakenBy(1)' = TakenBy(1) /\ TakenBy(1) = 4 /\ SentBy(1) = 1 /\ SentBy(1)' = 2
    BY <2>2 DEF TakenBy, SentBy, Collected
  <2>4. PICK m : m = IntMsg(FROM_WORKER, rows[1])
    OBVIOUS
  <2>5. m.tag = FROM_WORKER /\ m.int = Count(1)
    BY <1>5, <2>3, <2>4 DEF IntMsg, ToWorkerApart
  <2> QED  BY <1>11, <2>1, <2>3, <2>4, <2>5
<1>21. ASSUME W!WorkerSendC(1) PROVE ToWorkerApart' /\ ToMasterApart'
  <2>1. PICK m : m = W!RowsMsg(FROM_WORKER, workerSize, W!RowsOf(matrixC[1], 0, rows[1]))
    OBVIOUS
  <2>2. W!Step(1, "sendC", "finalize") /\ UNCHANGED rows /\ W!Send(1, 0, m)
    BY <1>21, <2>1, WorkerNames DEF W!WorkerSendC, W!mem
  <2>3. pc[1] = "sendC" /\ pc'[1] = "finalize"
    BY <1>4, <2>2
  <2>4. TakenBy(1)' = TakenBy(1) /\ TakenBy(1) = 4 /\ SentBy(1) = 2 /\ SentBy(1)' = 3
    BY <2>3 DEF TakenBy, SentBy, Collected
  <2>5. PICK n \in Nat : n = Count(1)
    BY <1>1, FirstBlock
  <2>6. rows[1] = n
    BY <1>5, <2>4, <2>5 DEF ToWorkerApart
  <2>7. PICK b : b = W!RowsOf(matrixC[1], 0, rows[1])
    OBVIOUS
  <2>8. Len(b) = n
    BY <2>6, <2>7 DEF W!RowsOf
  <2>9. m.tag = FROM_WORKER /\ m.bytes = 8 * workerSize * Count(1)
    BY <2>1, <2>5, <2>7, <2>8 DEF W!RowsMsg
  <2> QED  BY <1>11, <2>2, <2>4, <2>9
<1>22. ASSUME W!Finalize(1) PROVE ToWorkerApart' /\ ToMasterApart'
  <2>1. W!Step(1, "finalize", "done") /\ UNCHANGED <<chan, rows>>
    BY <1>22 DEF W!Finalize, W!mem
  <2>2. pc[1] = "finalize" /\ pc'[1] = "done"
    BY <1>4, <2>1
  <2> QED  BY <1>12, <2>1, <2>2 DEF TakenBy, SentBy, Collected
<1> QED  BY <1>3, <1>13, <1>14, <1>15, <1>16, <1>17, <1>18, <1>19, <1>20, <1>21, <1>22
         DEF EnteredWorker, W!WorkerStep, ApartInv

OwnRows == rows' = rows \/ \E x : rows' = [rows EXCEPT ![0] = x]

\* What any step of rank 0 leaves alone.
RankZeroFrame ==
    /\ UNCHANGED <<matrixSize, workerSize>>
    /\ OwnRows
    /\ \/ chan' = chan
       \/ pc[0] \in Sending /\ Moves(0, peer)
       \/ pc[0] \in Receiving /\ Moves(peer, 0)
    /\ aborted' = aborted \/ aborted' = TRUE \/ \E m, c : aborted' = Truncates(m, c)
    /\ \E from, to : Step(0, from, to) /\ (from = "start" => to = "start" \/ numtasks >= 2)

LEMMA RankZeroFrames ==
    ASSUME EnteredMaster
    PROVE  RankZeroFrame
<1>1. \A s, d, m : Send(s, d, m) => Moves(s, d) /\ aborted' = aborted
  BY DEF Send, Moves
<1>2. \A p, s, tag, c : Recv(p, s, tag, c) =>
        Moves(s, p) /\ \E m, k : aborted' = Truncates(m, k)
  BY DEF Recv, Moves
<1>3. \A from, to : Step(0, from, to) => UNCHANGED matrixSize /\ pc[0] = from
  BY DEF Step
<1>4. UNCHANGED workerSize
  BY DEF EnteredMaster
<1>5. ASSUME Quit(0) PROVE RankZeroFrame
  <2>1. Step(0, "start", "start") /\ UNCHANGED <<chan, rows>> /\ aborted' = TRUE
    BY <1>5 DEF Quit, mem, MPI_Abort
  <2> QED  BY <1>3, <1>4, <2>1 DEF RankZeroFrame, OwnRows
<1>6. ASSUME StartEntered PROVE RankZeroFrame
  <2>1. Step(0, "start", "sendOffset") /\ UNCHANGED <<chan, rows, aborted>> /\ numtasks >= 2
    BY <1>6 DEF StartEntered
  <2> QED  BY <1>3, <1>4, <2>1 DEF RankZeroFrame, OwnRows
<1>7. ASSUME MasterSendOffset PROVE RankZeroFrame
  <2>1. Moves(0, peer) /\ aborted' = aborted
    BY <1>1, <1>7 DEF MasterSendOffset
  <2>2. OwnRows
    BY <1>7 DEF MasterSendOffset, OwnRows, mem
  <2>3. PICK to : Step(0, "sendOffset", to)
    BY <1>7 DEF MasterSendOffset
  <2> QED  BY <1>3, <1>4, <2>1, <2>2, <2>3 DEF RankZeroFrame, Sending
<1>8. ASSUME MasterSendRows PROVE RankZeroFrame
  <2>1. Moves(0, peer) /\ aborted' = aborted
    BY <1>1, <1>8 DEF MasterSendRows
  <2>2. OwnRows
    BY <1>8 DEF MasterSendRows, mem, OwnRows
  <2>3. PICK to : Step(0, "sendRows", to)
    BY <1>8 DEF MasterSendRows
  <2> QED  BY <1>3, <1>4, <2>1, <2>2, <2>3 DEF RankZeroFrame, Sending
<1>9. ASSUME MasterSendA PROVE RankZeroFrame
  <2>1. Moves(0, peer) /\ aborted' = aborted
    BY <1>1, <1>9 DEF MasterSendA
  <2>2. OwnRows
    BY <1>9 DEF MasterSendA, mem, OwnRows
  <2>3. PICK to : Step(0, "sendA", to)
    BY <1>9 DEF MasterSendA
  <2> QED  BY <1>3, <1>4, <2>1, <2>2, <2>3 DEF RankZeroFrame, Sending
<1>10. ASSUME MasterSendB PROVE RankZeroFrame
  <2>1. Moves(0, peer) /\ aborted' = aborted
    BY <1>1, <1>10 DEF MasterSendB
  <2>2. OwnRows
    BY <1>10 DEF MasterSendB, mem, OwnRows
  <2>3. PICK to : Step(0, "sendB", to)
    BY <1>10 DEF MasterSendB
  <2> QED  BY <1>3, <1>4, <2>1, <2>2, <2>3 DEF RankZeroFrame, Sending
<1>11. ASSUME MasterRecvOffset PROVE RankZeroFrame
  <2>1. Moves(peer, 0) /\ \E m, k : aborted' = Truncates(m, k)
    BY <1>2, <1>11 DEF MasterRecvOffset
  <2>2. OwnRows
    BY <1>11 DEF MasterRecvOffset, OwnRows
  <2>3. PICK to : Step(0, "recvOffset", to)
    BY <1>11 DEF MasterRecvOffset
  <2> QED  BY <1>3, <1>4, <2>1, <2>2, <2>3 DEF RankZeroFrame, Receiving
<1>12. ASSUME MasterRecvRows PROVE RankZeroFrame
  <2>1. Moves(peer, 0) /\ \E m, k : aborted' = Truncates(m, k)
    BY <1>2, <1>12 DEF MasterRecvRows
  <2>2. OwnRows
    BY <1>12 DEF MasterRecvRows, OwnRows
  <2>3. PICK to : Step(0, "recvRows", to)
    BY <1>12 DEF MasterRecvRows
  <2> QED  BY <1>3, <1>4, <2>1, <2>2, <2>3 DEF RankZeroFrame, Receiving
<1>13. ASSUME MasterRecvC PROVE RankZeroFrame
  <2>1. Moves(peer, 0) /\ \E m, k : aborted' = Truncates(m, k)
    BY <1>2, <1>13 DEF MasterRecvC
  <2>2. OwnRows
    BY <1>13 DEF MasterRecvC, OwnRows
  <2>3. PICK to : Step(0, "recvC", to)
    BY <1>13 DEF MasterRecvC
  <2> QED  BY <1>3, <1>4, <2>1, <2>2, <2>3 DEF RankZeroFrame, Receiving
<1>14. ASSUME Finalize(0) PROVE RankZeroFrame
  <2>1. Step(0, "finalize", "done") /\ UNCHANGED <<chan, rows, aborted>>
    BY <1>14 DEF Finalize, mem
  <2> QED  BY <1>3, <1>4, <2>1 DEF RankZeroFrame, OwnRows
<1> QED  BY <1>5, <1>6, <1>7, <1>8, <1>9, <1>10, <1>11, <1>12, <1>13, <1>14 DEF EnteredMaster

LEMMA EnteredMasterKeeps ==
    ASSUME EnteredType, EnteredMaster, pc[0] \in Sending \cup Receiving => peer \in Worker
    PROVE  /\ ~ aborted /\ 0 \in Rank
           /\ UNCHANGED <<numtasks, matrixSize, workerSize>>
           /\ \A p \in Rank : p # 0 => pc'[p] = pc[p] /\ rows'[p] = rows[p]
           /\ \A from, to : Step(0, from, to) => pc[0] = from /\ pc'[0] = to
           /\ pc[0] \in Receiving \/ chan' = chan => \A b \in Rank : chan'[0][b] = chan[0][b]
           /\ pc[0] \in Sending \/ chan' = chan => \A a \in Rank \ {0} : chan'[a][0] = chan[a][0]
           /\ pc[0] \in Sending =>
                \A b \in Rank : b # peer => chan'[0][b] = chan[0][b]
           /\ EnteredType'
<1>1. RankZeroFrame
  BY RankZeroFrames
<1>2. PICK from, to : Step(0, from, to) /\ (from = "start" => to = "start" \/ numtasks >= 2)
  BY <1>1 DEF RankZeroFrame
<1>3. 0 \in Rank
  BY MaxTasksAssumption DEF Rank
<1>4. DOMAIN pc = Rank /\ DOMAIN rows = Rank
  <2>1. pc = [a \in Rank |-> pc[a]] /\ rows = [a \in Rank |-> rows[a]]
    BY DEF EnteredType
  <2> QED  BY <2>1
<1>5. \A f, t : Step(0, f, t) => pc[0] = f /\ pc'[0] = t
  BY <1>3, <1>4 DEF Step
<1>6. /\ ~ aborted /\ pc[0] = from /\ pc' = [pc EXCEPT ![0] = to]
      /\ UNCHANGED <<numtasks, matrixSize, workerSize>>
  BY <1>1, <1>2 DEF Step, RankZeroFrame
<1>7. \A p \in Rank : p # 0 => pc'[p] = pc[p] /\ rows'[p] = rows[p]
  BY <1>1, <1>4, <1>6 DEF RankZeroFrame, OwnRows
<1>8. pc[0] \in Sending \cup Receiving => peer \in Rank /\ peer # 0
  BY MaxTasksAssumption DEF Worker, Rank, EnteredType
<1>9. Sending \cap Receiving = {}
  BY DEF Sending, Receiving
<1>10. pc[0] \in Receiving \/ chan' = chan => \A b \in Rank : chan'[0][b] = chan[0][b]
  BY <1>1, <1>3, <1>8, <1>9, OtherChannels DEF RankZeroFrame
<1>11. pc[0] \in Sending \/ chan' = chan => \A a \in Rank \ {0} : chan'[a][0] = chan[a][0]
  BY <1>1, <1>3, <1>8, <1>9, OtherChannels DEF RankZeroFrame
<1>12. pc[0] \in Sending => \A b \in Rank : b # peer => chan'[0][b] = chan[0][b]
  BY <1>1, <1>3, <1>8, <1>9, OtherChannels DEF RankZeroFrame
<1>13. ChannelStep
  BY <1>1, <1>3, <1>8 DEF RankZeroFrame, ChannelStep
<1>14. aborted' \in BOOLEAN
  <2>1. \A m, c : Truncates(m, c) \in BOOLEAN
    BY DEF Truncates
  <2>2. aborted \in BOOLEAN
    BY DEF EnteredType
  <2>3. aborted' = aborted \/ aborted' = TRUE \/ \E m, c : aborted' = Truncates(m, c)
    BY <1>1 DEF RankZeroFrame
  <2> QED  BY <2>1, <2>2, <2>3, Zenon
<1>15. EnteredType'
  <2>1. rows' = rows \/ \E x : rows' = [rows EXCEPT ![0] = x]
    BY <1>1 DEF RankZeroFrame, OwnRows
  <2>2. numtasks < 2 => to = "start"
    BY <1>2, <1>6 DEF EnteredType
  <2> QED  BY <1>3, <1>6, <1>13, <1>14, <2>1, <2>2, EnteredTypeStep
<1> QED  BY <1>3, <1>5, <1>6, <1>7, <1>10, <1>11, <1>12, <1>15

\* The steps of rank 0.  The last receive of worker 1's result ends the job.
LEMMA ApartMaster ==
    ASSUME EnteredType, numtasks >= 2, matrixSize # workerSize, ApartInv, EnteredMaster
    PROVE  aborted' \/ ApartInv'
<1>1. pc[0] \in Sending \cup Receiving => peer \in Worker
  BY FirstBlock DEF ApartInv, MasterApart
<1>2. /\ UNCHANGED <<numtasks, matrixSize, workerSize>>
      /\ 0 \in Rank /\ 1 \in Rank
      /\ pc'[1] = pc[1] /\ rows'[1] = rows[1]
      /\ \A from, to : Step(0, from, to) => pc[0] = from /\ pc'[0] = to
      /\ pc[0] \in Receiving \/ chan' = chan => chan'[0][1] = chan[0][1]
      /\ pc[0] \in Sending \/ chan' = chan => chan'[1][0] = chan[1][0]
      /\ pc[0] \in Sending /\ peer # 1 => chan'[0][1] = chan[0][1]
  BY <1>1, EnteredMasterKeeps, FirstBlock
<1>3. MasterApart /\ ToWorkerApart /\ ToMasterApart
  BY DEF ApartInv
<1>4. TakenBy(1)' = TakenBy(1) /\ SentBy(1)' = SentBy(1)
  BY <1>2 DEF TakenBy, SentBy, Collected
<1>5. Count(1)' = Count(1) /\ Worker' = Worker /\ numworkers' = numworkers
  BY <1>2, Rigid
<1>6. DOMAIN rows = Rank
  <2>1. rows = [a \in Rank |-> rows[a]]
    BY DEF EnteredType
  <2> QED  BY <2>1
<1>7. numworkers \in Nat \ {0} /\ Worker = 1 .. numworkers
  BY FirstBlock DEF Worker, numworkers
<1>8. ASSUME chan'[0][1] = chan[0][1], SentTo(1)' = SentTo(1) PROVE ToWorkerApart'
  BY <1>2, <1>3, <1>4, <1>8, ApartSame
<1>9. ASSUME chan'[1][0] = chan[1][0], TakenFrom(1)' = TakenFrom(1) PROVE ToMasterApart'
  BY <1>2, <1>3, <1>4, <1>9, ApartSame
<1>10. ASSUME NEW m, Send(0, peer, m), m.tag = FROM_MASTER, pc[0] \in Sending,
              peer = 1 => SentTo(1) < 4 /\ SentTo(1)' = SentTo(1) + 1,
              peer # 1 => SentTo(1)' = SentTo(1),
              peer = 1 /\ SentTo(1) = 1 => m.int = Count(1),
              TakenFrom(1)' = TakenFrom(1)
       PROVE  ToWorkerApart' /\ ToMasterApart'
  <2>1. CASE peer = 1
    <3>1. MPI_Send(0, 1, m)
      BY <1>10, <2>1 DEF Send
    <3>2. ToWorkerApart'
      BY <1>2, <1>3, <1>4, <1>10, <2>1, <3>1, ApartMasterSends
    <3> QED  BY <1>2, <1>9, <1>10, <3>2
  <2>2. CASE peer # 1
    BY <1>2, <1>8, <1>9, <1>10, <2>2
  <2> QED  BY <2>1, <2>2
<1>11. ASSUME NEW c, Recv(0, peer, FROM_WORKER, c), pc[0] \in Receiving, TakenFrom(1) < 2,
              SentTo(1)' = SentTo(1), TakenFrom(1)' = TakenFrom(1) + 1
       PROVE  /\ ToWorkerApart' /\ ToMasterApart' /\ peer = 1
              /\ TakenFrom(1) = 1 => Incoming(peer, 0, FROM_WORKER).int = Count(1)
  <2>1. peer = 1
    BY <1>3, <1>11 DEF MasterApart
  <2>2. CanRecv(1, 0, FROM_WORKER) /\ TakeIncoming(1, 0, FROM_WORKER)
    BY <1>11, <2>1 DEF Recv
  <2> QED  BY <1>2, <1>3, <1>4, <1>8, <1>11, <2>1, <2>2, ApartMasterTakes
<1>12. ASSUME Quit(0) PROVE FALSE
  BY <1>12 DEF Quit, EnteredType
<1>13. ASSUME Finalize(0) PROVE FALSE
  <2>1. pc[0] = "finalize"
    BY <1>2, <1>13 DEF Finalize
  <2> QED  BY <1>3, <2>1 DEF MasterApart, Sending, Receiving
<1>14. ASSUME StartEntered PROVE ApartInv'
  <2>1. Step(0, "start", "sendOffset") /\ UNCHANGED chan /\ peer' = 1
    BY <1>14 DEF StartEntered
  <2>2. pc[0] = "start" /\ pc'[0] = "sendOffset"
    BY <1>2, <2>1
  <2>3. SentTo(1)' = SentTo(1) /\ TakenFrom(1)' = TakenFrom(1)
    BY <2>1, <2>2 DEF SentTo, TakenFrom, Sending, Receiving, Collected
  <2>4. MasterApart'
    BY <1>5, <1>7, <2>1, <2>2 DEF MasterApart, Sending, Receiving
  <2> QED  BY <1>2, <1>8, <1>9, <2>1, <2>3, <2>4 DEF ApartInv
<1>15. ASSUME MasterSendOffset PROVE ApartInv'
  <2>1. PICK m : m = IntMsg(FROM_MASTER, offset[0])
    OBVIOUS
  <2>2. Step(0, "sendOffset", "sendRows") /\ Send(0, peer, m) /\ UNCHANGED peer
    BY <1>15, <2>1 DEF MasterSendOffset
  <2>3. pc[0] = "sendOffset" /\ pc'[0] = "sendRows" /\ pc[0] \in Sending
    BY <1>2, <2>2 DEF Sending
  <2>4. peer \in Worker
    BY <1>1, <2>3
  <2>5. /\ peer = 1 => SentTo(1) = 0 /\ SentTo(1)' = 1
        /\ peer # 1 => SentTo(1)' = SentTo(1)
        /\ TakenFrom(1)' = TakenFrom(1)
    BY <1>7, <2>2, <2>3, <2>4 DEF SentTo, TakenFrom, Sending, Receiving, Collected
  <2>6. m.tag = FROM_MASTER
    BY <2>1 DEF IntMsg
  <2>7. ToWorkerApart' /\ ToMasterApart'
    BY <1>10, <2>2, <2>3, <2>5, <2>6
  <2>8. peer = 1 => rows'[0] = Count(1)
    BY <1>2, <1>6, <1>15 DEF MasterSendOffset, Count
  <2>9. MasterApart'
    BY <1>5, <2>2, <2>3, <2>4, <2>8 DEF MasterApart, Sending, Receiving
  <2> QED  BY <2>7, <2>9 DEF ApartInv
<1>16. ASSUME MasterSendRows PROVE ApartInv'
  <2>1. PICK m : m = IntMsg(FROM_MASTER, rows[0])
    OBVIOUS
  <2>2. Step(0, "sendRows", "sendA") /\ Send(0, peer, m) /\ UNCHANGED <<peer, rows>>
    BY <1>16, <2>1 DEF MasterSendRows, mem
  <2>3. pc[0] = "sendRows" /\ pc'[0] = "sendA" /\ pc[0] \in Sending
    BY <1>2, <2>2 DEF Sending
  <2>4. peer \in Worker /\ (peer = 1 => rows[0] = Count(1))
    BY <1>1, <1>3, <2>3 DEF MasterApart, Sending
  <2>5. /\ peer = 1 => SentTo(1) = 1 /\ SentTo(1)' = 2
        /\ peer # 1 => SentTo(1)' = SentTo(1)
        /\ TakenFrom(1)' = TakenFrom(1)
    BY <1>7, <2>2, <2>3, <2>4 DEF SentTo, TakenFrom, Sending, Receiving, Collected
  <2>6. m.tag = FROM_MASTER /\ m.int = rows[0]
    BY <2>1 DEF IntMsg
  <2>7. ToWorkerApart' /\ ToMasterApart'
    BY <1>10, <2>2, <2>3, <2>4, <2>5, <2>6
  <2>8. MasterApart'
    BY <1>5, <2>2, <2>3, <2>4 DEF MasterApart, Sending, Receiving
  <2> QED  BY <2>7, <2>8 DEF ApartInv
<1>17. ASSUME MasterSendA PROVE ApartInv'
  <2>1. PICK m : m = RowsMsg(FROM_MASTER, matrixSize, RowsOf(matrixA[0], offset[0], rows[0]))
    OBVIOUS
  <2>2. Step(0, "sendA", "sendB") /\ Send(0, peer, m) /\ UNCHANGED <<peer, rows>>
    BY <1>17, <2>1 DEF MasterSendA, mem
  <2>3. pc[0] = "sendA" /\ pc'[0] = "sendB" /\ pc[0] \in Sending
    BY <1>2, <2>2 DEF Sending
  <2>4. peer \in Worker /\ (peer = 1 => rows[0] = Count(1))
    BY <1>1, <1>3, <2>3 DEF MasterApart, Sending
  <2>5. /\ peer = 1 => SentTo(1) = 2 /\ SentTo(1)' = 3
        /\ peer # 1 => SentTo(1)' = SentTo(1)
        /\ TakenFrom(1)' = TakenFrom(1)
    BY <1>7, <2>2, <2>3, <2>4 DEF SentTo, TakenFrom, Sending, Receiving, Collected
  <2>6. m.tag = FROM_MASTER
    BY <2>1 DEF RowsMsg
  <2>7. ToWorkerApart' /\ ToMasterApart'
    BY <1>10, <2>2, <2>3, <2>4, <2>5, <2>6
  <2>8. MasterApart'
    BY <1>5, <2>2, <2>3, <2>4 DEF MasterApart, Sending, Receiving
  <2> QED  BY <2>7, <2>8 DEF ApartInv
<1>18. ASSUME MasterSendB PROVE ApartInv'
  <2>1. PICK m : m = RowsMsg(FROM_MASTER, matrixSize, RowsOf(matrixB[0], 0, matrixSize))
    OBVIOUS
  <2>2. PICK to : to = IF peer < numworkers THEN "sendOffset" ELSE "recvOffset"
    OBVIOUS
  <2>3. /\ Step(0, "sendB", to) /\ Send(0, peer, m) /\ UNCHANGED rows
        /\ peer' = IF peer < numworkers THEN peer + 1 ELSE 1
    BY <1>18, <2>1, <2>2 DEF MasterSendB
  <2>4. pc[0] = "sendB" /\ pc'[0] = to /\ pc[0] \in Sending
    BY <1>2, <2>3 DEF Sending
  <2>5. peer \in 1 .. numworkers
    BY <1>1, <1>7, <2>4
  <2>6. /\ peer = 1 => SentTo(1) = 3
        /\ peer # 1 => SentTo(1) = 4
        /\ TakenFrom(1) = 0
    BY <2>4, <2>5 DEF SentTo, TakenFrom, Sending, Receiving, Collected
  <2>7. SentTo(1)' = 4 /\ TakenFrom(1)' = 0
    <3>1. CASE peer < numworkers
      BY <2>2, <2>3, <2>4, <2>5, <3>1 DEF SentTo, TakenFrom, Sending, Receiving, Collected
    <3>2. CASE ~ (peer < numworkers)
      BY <2>2, <2>3, <2>4, <2>5, <3>2 DEF SentTo, TakenFrom, Sending, Receiving, Collected
    <3> QED  BY <3>1, <3>2
  <2>8. m.tag = FROM_MASTER
    BY <2>1 DEF RowsMsg
  <2>9. ToWorkerApart' /\ ToMasterApart'
    BY <1>10, <2>3, <2>4, <2>6, <2>7, <2>8
  <2>10. MasterApart'
    <3>1. CASE peer < numworkers
      <4>1. peer' \in Worker
        BY <1>7, <2>3, <2>5, <3>1
      <4> QED  BY <1>5, <2>2, <2>4, <3>1, <4>1 DEF MasterApart, Sending, Receiving
    <3>2. CASE ~ (peer < numworkers)
      BY <1>5, <2>2, <2>3, <2>4, <3>2 DEF MasterApart, Sending, Receiving
    <3> QED  BY <3>1, <3>2
  <2> QED  BY <2>9, <2>10 DEF ApartInv
<1>19. ASSUME MasterRecvOffset PROVE ApartInv'
  <2>1. /\ Step(0, "recvOffset", "recvRows") /\ Recv(0, peer, FROM_WORKER, INT)
        /\ UNCHANGED peer
    BY <1>19 DEF MasterRecvOffset
  <2>2. pc[0] = "recvOffset" /\ pc'[0] = "recvRows" /\ pc[0] \in Receiving
    BY <1>2, <2>1 DEF Receiving
  <2>3. peer = 1
    BY <1>3, <2>2 DEF MasterApart
  <2>4. SentTo(1)' = SentTo(1) /\ TakenFrom(1) = 0 /\ TakenFrom(1)' = 1
    BY <2>1, <2>2, <2>3 DEF SentTo, TakenFrom, Sending, Receiving, Collected
  <2>5. ToWorkerApart' /\ ToMasterApart'
    BY <1>11, <2>1, <2>2, <2>4
  <2>6. MasterApart'
    BY <2>1, <2>2, <2>3 DEF MasterApart, Sending, Receiving
  <2> QED  BY <2>5, <2>6 DEF ApartInv
<1>20. ASSUME MasterRecvRows PROVE ApartInv'
  <2>1. /\ Step(0, "recvRows", "recvC") /\ Recv(0, peer, FROM_WORKER, INT)
        /\ rows' = [rows EXCEPT ![0] = Incoming(peer, 0, FROM_WORKER).int]
        /\ UNCHANGED peer
    BY <1>20 DEF MasterRecvRows
  <2>2. pc[0] = "recvRows" /\ pc'[0] = "recvC" /\ pc[0] \in Receiving
    BY <1>2, <2>1 DEF Receiving
  <2>3. peer = 1
    BY <1>3, <2>2 DEF MasterApart
  <2>4. SentTo(1)' = SentTo(1) /\ TakenFrom(1) = 1 /\ TakenFrom(1)' = 2
    BY <2>1, <2>2, <2>3 DEF SentTo, TakenFrom, Sending, Receiving, Collected
  <2>5. /\ ToWorkerApart' /\ ToMasterApart'
        /\ Incoming(peer, 0, FROM_WORKER).int = Count(1)
    BY <1>11, <2>1, <2>2, <2>4
  <2>6. rows'[0] = Count(1)
    BY <1>2, <1>6, <2>1, <2>5
  <2>7. MasterApart'
    BY <1>5, <2>1, <2>2, <2>3, <2>6 DEF MasterApart, Sending, Receiving
  <2> QED  BY <2>5, <2>7 DEF ApartInv
<1>21. ASSUME MasterRecvC PROVE aborted'
  <2>1. PICK to : Step(0, "recvC", to)
    BY <1>21 DEF MasterRecvC
  <2>2. /\ CanRecv(peer, 0, FROM_WORKER)
        /\ aborted' = Truncates(Incoming(peer, 0, FROM_WORKER), ROWS(rows[0]))
    BY <1>21 DEF MasterRecvC, Recv
  <2>3. pc[0] = "recvC"
    BY <1>2, <2>1
  <2>4. peer = 1 /\ rows[0] = Count(1)
    BY <1>3, <2>3 DEF MasterApart, Receiving
  <2>5. TakenFrom(1) = 2
    BY <2>3, <2>4 DEF TakenFrom, Receiving, Collected
  <2>6. CanRecv(1, 0, FROM_WORKER)
    BY <2>2, <2>4
  <2>7. Truncates(Incoming(1, 0, FROM_WORKER), ROWS(Count(1)))
    BY <1>3, <2>5, <2>6, ApartAborts
  <2>8. aborted' = Truncates(Incoming(1, 0, FROM_WORKER), ROWS(Count(1)))
    BY <2>2, <2>4
  <2> QED  BY <2>7, <2>8, Zenon
<1> QED  BY <1>12, <1>13, <1>14, <1>15, <1>16, <1>17, <1>18, <1>19, <1>20, <1>21 DEF EnteredMaster

-----------------------------------------------------------------------------
\* Where the sizes are equal, peer is a worker too.
LEMMA EnteredPeer ==
    ASSUME EnteredInv, ~ aborted, pc[0] \in Sending \cup Receiving
    PROVE  peer \in Worker
<1>1. numtasks >= 2
  <2>1. pc[0] # "start"
    BY DEF Sending, Receiving
  <2> QED  BY <2>1 DEF EnteredInv, EnteredType
<1>2. CASE matrixSize = workerSize
  BY <1>2 DEF EnteredInv, IInv, MasterInv
<1>3. CASE matrixSize # workerSize
  BY <1>1, <1>3, FirstBlock DEF EnteredInv, ApartInv, MasterApart
<1> QED  BY <1>2, <1>3

LEMMA EnteredMasterStep ==
    ASSUME EnteredInv, EnteredMaster
    PROVE  EnteredInv'
<1>1. EnteredType
  BY DEF EnteredInv
<1>2. ~ aborted
  <2>1. RankZeroFrame
    BY RankZeroFrames
  <2> QED  BY <2>1 DEF RankZeroFrame, Step
<1>3. EnteredType' /\ UNCHANGED <<numtasks, matrixSize, workerSize>>
  BY <1>1, <1>2, EnteredPeer, EnteredMasterKeeps
<1>4. ASSUME matrixSize = workerSize PROVE IInv'
  BY <1>4, SameSizeMaster, MasterPreserves DEF EnteredInv
<1>5. ASSUME matrixSize # workerSize, numtasks >= 2 PROVE aborted' \/ ApartInv'
  BY <1>1, <1>2, <1>5, ApartMaster DEF EnteredInv
<1> QED  BY <1>3, <1>4, <1>5 DEF EnteredInv

LEMMA EnteredWorkerStep ==
    ASSUME EnteredInv, NEW w \in Worker, EnteredWorker(w)
    PROVE  EnteredInv'
<1>1. EnteredType
  BY DEF EnteredInv
<1>2. ~ aborted /\ numtasks >= 2 /\ EnteredType' /\ UNCHANGED <<numtasks, matrixSize, workerSize>>
  BY <1>1, EnteredWorkerKeeps
<1>3. ASSUME matrixSize = workerSize PROVE IInv'
  BY <1>3, SameSizeWorker, WorkerPreserves DEF EnteredInv
<1>4. ASSUME matrixSize # workerSize PROVE ApartInv'
  <2>1. ApartInv
    BY <1>2, <1>4 DEF EnteredInv
  <2> QED  BY <1>1, <2>1, ApartFirst, ApartOthers
<1> QED  BY <1>2, <1>3, <1>4 DEF EnteredInv

LEMMA EnteredStutter ==
    ASSUME EnteredInv, UNCHANGED enteredVars
    PROVE  EnteredInv'
<1>1. /\ UNCHANGED vars /\ UNCHANGED workerSize
      /\ UNCHANGED <<numtasks, matrixSize, chan, pc, rows, peer, aborted>>
  BY DEF enteredVars, vars, mpiVars, mem
<1>2. EnteredType
  BY DEF EnteredInv
<1>3. EnteredType'
  BY <1>1, <1>2 DEF EnteredType, EnteredSizes, Rank
<1>4. ASSUME matrixSize = workerSize PROVE IInv'
  BY <1>1, <1>4, StutterInv DEF EnteredInv
<1>5. ASSUME matrixSize # workerSize, numtasks >= 2, ~ aborted PROVE ApartInv'
  <2>1. ApartInv
    BY <1>5 DEF EnteredInv
  <2>2. SentTo(1)' = SentTo(1) /\ TakenFrom(1)' = TakenFrom(1) /\ MasterApart'
    BY <1>1, <2>1, CountersSame DEF ApartInv
  <2>3. TakenBy(1)' = TakenBy(1) /\ SentBy(1)' = SentBy(1)
    BY <1>1 DEF TakenBy, SentBy, Collected
  <2> QED  BY <1>1, <1>2, <1>5, <2>1, <2>2, <2>3, ApartSame DEF ApartInv
<1> QED  BY <1>1, <1>3, <1>4, <1>5 DEF EnteredInv

LEMMA EnteredInitInv == EnteredInit => EnteredInv
<1> SUFFICES ASSUME EnteredInit PROVE EnteredInv
  OBVIOUS
<1>1. /\ numtasks \in 1 .. MaxTasks /\ aborted = FALSE /\ workerSize = DefaultSize
      /\ matrixSize \in EnteredSizes
      /\ chan = [s \in Rank |-> [d \in Rank |-> <<>>]]
      /\ pc = [p \in Rank |-> "start"] /\ rows = [p \in Rank |-> Garbage]
  BY DEF EnteredInit, MPI_Init
<1>2. 0 \in Rank /\ pc[0] = "start"
  BY <1>1, MaxTasksAssumption DEF Rank
<1>3. EnteredType
  <2>1. \A s \in Rank : chan[s] = [d \in Rank |-> chan[s][d]]
    BY <1>1
  <2>2. chan = [s \in Rank |-> chan[s]]
    BY <1>1
  <2>3. chan = [s \in Rank |-> [d \in Rank |-> chan[s][d]]]
    BY <2>1, <2>2
  <2>4. pc = [p \in Rank |-> pc[p]]
    BY <1>1
  <2>5. rows = [p \in Rank |-> rows[p]]
    BY <1>1
  <2> QED  BY <1>1, <1>2, <2>3, <2>4, <2>5 DEF EnteredType
<1>4. ASSUME matrixSize = workerSize PROVE IInv
  <2>1. W!Uninitialised = Uninitialised
    BY <1>4 DEF W!Uninitialised, Uninitialised, W!Row, Row, W!Garbage, Garbage
  <2>2. Unset = [p \in Rank |-> Uninitialised]
    BY <2>1 DEF Unset
  <2>3. Init
    BY <2>2 DEF EnteredInit, Init, EnteredSizes
  <2> QED  BY <2>3, InitInv
<1>5. ASSUME numtasks >= 2 PROVE ApartInv
  <2>1. 1 \in Rank
    BY <1>1, <1>5, MaxTasksAssumption DEF Rank
  <2>2. /\ pc[1] = "start" /\ chan[0][1] = <<>> /\ chan[1][0] = <<>>
    BY <1>1, <1>2, <2>1
  <2>3. SentTo(1) = 0 /\ TakenBy(1) = 0 /\ SentBy(1) = 0 /\ TakenFrom(1) = 0
    BY <1>2, <2>2 DEF SentTo, TakenBy, SentBy, TakenFrom, Sending, Receiving, Collected
  <2>4. \A tag : Holds(<<>>, tag, 0)
    <3>1. PICK e : e = <<>>
      OBVIOUS
    <3>2. e \in Seq({}) /\ Len(e) = 0
      BY <3>1
    <3>3. IsQueue(e)
      BY <3>2, QueueOf
    <3>4. \A tag : Holds(e, tag, 0)
      BY <3>2, <3>3 DEF Holds
    <3> QED  BY <3>1, <3>4
  <2>5. Holds(chan[0][1], FROM_MASTER, SentTo(1) - TakenBy(1))
    BY <2>2, <2>3, <2>4
  <2>6. Holds(chan[1][0], FROM_WORKER, SentBy(1) - TakenFrom(1))
    BY <2>2, <2>3, <2>4
  <2>7. MasterApart
    BY <1>2 DEF MasterApart, Sending, Receiving
  <2> QED  BY <2>3, <2>5, <2>6, <2>7 DEF ApartInv, ToWorkerApart, ToMasterApart
<1> QED  BY <1>3, <1>4, <1>5 DEF EnteredInv

\* MatMult_MPI.cpp: whatever size is entered, for any number of ranks and any
\* eager limit, rank 0 never prints a wrong product.
THEOREM EnteredSizeRight == EnteredSpec => []NoWrongResult
<1>1. EnteredInv /\ [EnteredNext]_enteredVars => EnteredInv'
  <2> SUFFICES ASSUME EnteredInv, [EnteredNext]_enteredVars PROVE EnteredInv'
    OBVIOUS
  <2>1. ASSUME Terminated, UNCHANGED workerSize PROVE UNCHANGED enteredVars
    BY <2>1 DEF Terminated, enteredVars
  <2> QED  BY <2>1, EnteredMasterStep, EnteredWorkerStep, EnteredStutter DEF EnteredNext
<1>2. EnteredInv => NoWrongResult
  <2> SUFFICES ASSUME EnteredInv, pc[0] \in {"finalize", "done"}, ~ aborted
               PROVE  matrixSize = workerSize /\ matrixC[0] = Identity
    BY DEF NoWrongResult
  <2>1. numtasks >= 2
    BY DEF EnteredInv, EnteredType
  <2>2. matrixSize = workerSize
    BY <2>1 DEF EnteredInv, ApartInv, MasterApart, Sending, Receiving
  <2>3. ProductComplete
    BY <2>2, CollectedIsWhole DEF EnteredInv
  <2> QED  BY <2>2, <2>3 DEF ProductComplete
<1> QED  BY EnteredInitInv, <1>1, <1>2, PTL DEF EnteredSpec
=============================================================================
