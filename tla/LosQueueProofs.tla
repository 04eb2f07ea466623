--------------------------- MODULE LosQueueProofs ---------------------------
(***************************************************************************)
(* Proofs about the message queues of LosQueue and the mail queues of       *)
(* LosMail.  The invariant of the message queues goes on to hold beside the *)
(* mail queues: mail waiters are on lists of their own and hold no node of  *)
(* a queue.                                                                 *)
(***************************************************************************)
EXTENDS LosMail, LosTaskProofs, FiniteSetTheorems, SequenceTheorems

\* The lists of the readers and the writers.
SideLists == UNION {{ReadWriteList[side][q] : q \in Queue} : side \in Side}

\* Who waits: on the list of the queue and the side it called for, and TIMEOUT is set
\* inside a call only.  Other calls than those of QueueCall may wait on other lists, so
\* that what follows holds beside the mail queues of LosMail as well.
Waiters ==
  /\ DOMAIN call = Task
  /\ \A t \in Task : /\ "PEND" \notin os.status[t]
                     /\ "TIMEOUT" \in os.status[t] => call[t] # NoCall
  /\ \A t \in Task, h \in SideLists : h \in On(os, t) =>
       call[t] \in QueueCall /\ h = ReadWriteList[SideOf(call[t].type)][call[t].queue]

\* The control blocks: a free one is not in use.
Blocks ==
  /\ queue \in [Queue -> QueueCb]
  /\ freeQueue \in Seq(Queue) /\ NoDup(freeQueue)
  /\ \A q \in Elems(freeQueue) : ~queue[q].used

\* The nodes of a queue in use, counted and reserved, and its head within its length.
Sums(q) ==
  /\ Stored(q) + Free(q) = queue[q].len
  /\ queue[q].tail = (queue[q].head + Stored(q)) % queue[q].len
  /\ queue[q].head < queue[q].len

\* The inductive invariant of the queues.
QueueInv ==
  /\ Core(os) /\ Waiters /\ Blocks
  /\ \A q \in Queue : queue[q].used => Sums(q)
  /\ NobodyWaitsInVain /\ WokenOnLiveQueue

----------------------------------------------------------------------------
\* Constants.

LEMMA MaxLenFacts ==
  /\ MaxLen \in QueueLens /\ MaxLen \in Nat \ {0}
  /\ \A n \in QueueLens : n \in Nat \ {0} /\ n <= MaxLen
<1> DEFINE P(m) == \A k \in QueueLens : k <= m
<1>1. \E m \in QueueLens : P(m)
  BY QueueAssumption
<1>2. MaxLen = CHOOSE m \in QueueLens : P(m)
  BY DEF MaxLen
<1>3. MaxLen \in QueueLens /\ P(MaxLen)
  BY <1>1, <1>2
<1> QED BY <1>3, QueueAssumption

LEMMA SideFacts ==
  /\ Side = {"READ", "WRITE"} /\ \A side \in Side : Other(side) \in Side \ {side}
  /\ \A type \in OpType : SideOf(type) \in Side
  /\ \A c \in QueueCall : c.queue \in Queue /\ c.type \in OpType /\ SideOf(c.type) \in Side
                          /\ c.msg \in Msg \cup {NoMsg} /\ c # NoCall
BY CallAssumption DEF Side, Other, OpType, SideOf, QueueCall

LEMMA WriteFacts == \A c \in QueueCall : SideOf(c.type) = "WRITE" => c.msg \in Msg
BY DEF SideOf, QueueCall

LEMMA ListFacts ==
  ASSUME NEW side \in Side, NEW q \in Queue
  PROVE  /\ ReadWriteList[side][q] \in WaitList /\ ReadWriteList[side][q] \in Heads
         /\ ReadWriteList[side][q] \in SideLists /\ SideLists \subseteq WaitList
         /\ \A other \in Side, r \in Queue :
              ReadWriteList[other][r] = ReadWriteList[side][q] => other = side /\ r = q
<1>1. ReadWriteList[side][q] \in SideLists
  BY DEF SideLists
<1>2. SideLists \subseteq WaitList
  BY QueueAssumption DEF SideLists
<1> QED BY <1>1, <1>2, QueueAssumption, HeadsFacts

LEMMA SideListsFacts == SideLists \subseteq WaitList
BY QueueAssumption DEF SideLists

LEMMA UserFinite == IsFiniteSet(User)
<1>1. /\ TcbArray \in Seq(User) /\ DOMAIN TcbArray = 1 .. Len(TcbArray)
      /\ Len(TcbArray) \in Nat /\ User = {TcbArray[i] : i \in DOMAIN TcbArray}
  BY TcbAssumption DEF User, Elems
<1>2. TcbArray \in Surjection(1 .. Len(TcbArray), User)
  BY <1>1 DEF Surjection
<1> QED BY <1>1, <1>2, FS_NatSurjection DEF ExistsSurjection

----------------------------------------------------------------------------
\* The tasks a node is reserved for, in terms of their status.

\* Task t has been woken in a call on the side of queue q.
Claims(s, c, q, side, t) ==
  /\ c[t] \in QueueCall /\ c[t].queue = q /\ SideOf(c[t].type) = side
  /\ s.status[t] \cap Waits = {}

LEMMA WaitsStatus ==
  ASSUME NEW s, Consistent(s), NEW t \in Task
  PROVE  (\E h \in WaitList : t \in Elems(s.list[h]))
           <=> s.status[t] \cap {"PEND", "PEND_QUEUE"} # {}
<1>1. TaskAgrees(s, t) /\ WaitList \subseteq Heads
  BY HeadsFacts DEF Consistent
<1> QED BY <1>1 DEF TaskAgrees, On

LEMMA ReservedClaims ==
  ASSUME Consistent(os), NEW q \in Queue, NEW side \in Side
  PROVE  Reserved(q, side) = {t \in User : Claims(os, call, q, side, t)}
<1>1. \A t \in User : /\ t \in Task
                      /\ Waiting(t) <=> os.status[t] \cap {"PEND", "PEND_QUEUE"} # {}
  BY WaitsStatus DEF Waiting, Task
<1>2. \A t \in User : call[t] \in QueueCall =>
        (Woken(t) <=> os.status[t] \cap Waits = {})
  BY <1>1, SideFacts DEF Woken, Waits
<1> QED BY <1>2 DEF Reserved, Claims

LEMMA ReservedClaimsNext ==
  ASSUME Consistent(os'), NEW q \in Queue, NEW side \in Side
  PROVE  Reserved(q, side)' = {t \in User : Claims(os', call', q, side, t)}
<1>1. \A t \in User : /\ t \in Task
                      /\ Waiting(t)' <=> os'.status[t] \cap {"PEND", "PEND_QUEUE"} # {}
  BY WaitsStatus DEF Waiting, Task
<1>2. \A t \in User : call'[t] \in QueueCall =>
        (Woken(t)' <=> os'.status[t] \cap Waits = {})
  BY <1>1, SideFacts DEF Woken, Waits
<1> QED BY <1>2 DEF Reserved, Claims

LEMMA ReservedFinite ==
  ASSUME NEW q, NEW side
  PROVE  /\ IsFiniteSet(Reserved(q, side)) /\ Cardinality(Reserved(q, side)) \in Nat
         /\ Cardinality(Reserved(q, side)) = 0 <=> Reserved(q, side) = {}
<1>1. Reserved(q, side) \in SUBSET User
  BY DEF Reserved
<1>2. IsFiniteSet(Reserved(q, side))
  BY <1>1, UserFinite, FS_Subset
<1>3. Cardinality(Reserved(q, side)) \in Nat
  BY <1>2, FS_CardinalityType
<1>4. Cardinality(Reserved(q, side)) = 0 <=> Reserved(q, side) = {}
  BY <1>2, FS_EmptySet, SMTT(30)
<1> QED BY <1>2, <1>3, <1>4

\* A task that waits on a list of a queue is no owner of a node, nor the idle task.
LEMMA FirstWaiter ==
  ASSUME Core(os), Waiters, NEW side \in Side, NEW q \in Queue,
         os.list[ReadWriteList[side][q]] # <<>>
  PROVE  LET t == Head(os.list[ReadWriteList[side][q]])
         IN  /\ t \in Task /\ t \in User /\ "PEND_QUEUE" \in os.status[t]
             /\ call[t] \in QueueCall /\ call[t].queue = q /\ SideOf(call[t].type) = side
             /\ ReadWriteList[side][q] \in On(os, t)
<1> DEFINE h == ReadWriteList[side][q]
           l == os.list[h]
           t == Head(l)
<1>1. h \in WaitList /\ h \in Heads /\ h \in SideLists
  BY ListFacts
<1> HIDE DEF h
<1>2. l \in Seq(Task) /\ NoDup(l) /\ l # <<>>
  BY <1>1 DEF h, Core, Consistent, KernelState, WellLinked
<1> HIDE DEF l
<1>3. t \in Task /\ t \in Elems(l)
  BY <1>2, HeadTailElems
<1> HIDE DEF t
<1>4. h \in On(os, t)
  BY <1>1, <1>3 DEF On, l
<1>5. os.status[t] \cap {"PEND", "PEND_QUEUE"} # {} /\ "PEND" \notin os.status[t]
  BY <1>1, <1>3, <1>4 DEF Core, Consistent, TaskAgrees, Waiters
<1>6. t # Idle
  BY <1>5 DEF Core, Consistent, IdleStays
<1>7. call[t] \in QueueCall /\ h = ReadWriteList[SideOf(call[t].type)][call[t].queue]
  BY <1>1, <1>3, <1>4 DEF Waiters
<1>8. call[t].queue = q /\ SideOf(call[t].type) = side
  BY <1>7, SideFacts, ListFacts DEF h
<1> QED BY <1>3, <1>4, <1>5, <1>6, <1>7, <1>8 DEF h, l, t, Task

----------------------------------------------------------------------------
\* The ring of nodes: a message more or less keeps tail and head apart by their number.

LEMMA RingRead ==
  ASSUME NEW n \in Nat \ {0}, NEW h \in 0 .. n - 1, NEW k \in 1 .. n
  PROVE  (h + k) % n = (((h + 1) % n) + (k - 1)) % n
<1>1. CASE h + 1 < n
  <2>1. (h + 1) % n = h + 1
    BY <1>1
  <2> QED BY <2>1
<1>2. CASE h + 1 = n
  <2>1. (h + 1) % n = 0
    BY <1>2
  <2>2. CASE k = n
    <3>1. (h + k) % n = n - 1 /\ (k - 1) % n = n - 1
      BY <1>2, <2>2
    <3> QED BY <2>1, <3>1
  <2>3. CASE k < n
    <3>1. (h + k) % n = k - 1 /\ (k - 1) % n = k - 1
      BY <1>2, <2>3
    <3> QED BY <2>1, <3>1
  <2> QED BY <2>2, <2>3
<1> QED BY <1>1, <1>2

LEMMA RingWriteTail ==
  ASSUME NEW n \in Nat \ {0}, NEW h \in 0 .. n - 1, NEW k \in 0 .. n - 1
  PROVE  (((h + k) % n) + 1) % n = (h + (k + 1)) % n
<1>1. CASE h + k < n
  <2>1. (h + k) % n = h + k
    BY <1>1
  <2> QED BY <2>1
<1>2. CASE h + k >= n
  <2>1. (h + k) % n = h + k - n /\ (h + k - n) + 1 \in 0 .. n - 1
    BY <1>2
  <2>2. ((h + k - n) + 1) % n = (h + k - n) + 1 /\ (h + (k + 1)) % n = (h + (k + 1)) - n
    BY <1>2, <2>1
  <2> QED BY <2>1, <2>2
<1> QED BY <1>1, <1>2

LEMMA RingWriteHead ==
  ASSUME NEW n \in Nat \ {0}, NEW h \in 0 .. n - 1, NEW k \in 0 .. n - 1
  PROVE  (h + k) % n = (((h + n - 1) % n) + (k + 1)) % n
<1>1. CASE h = 0
  <2>1. (h + n - 1) % n = n - 1
    BY <1>1
  <2>2. (h + k) % n = k /\ ((n - 1) + (k + 1)) % n = k
    BY <1>1
  <2> QED BY <2>1, <2>2
<1>2. CASE h > 0
  <2>1. (h + n - 1) % n = h - 1
    BY <1>2
  <2>2. (h - 1) + (k + 1) = h + k
    OBVIOUS
  <2> QED BY <2>1, <2>2
<1> QED BY <1>1, <1>2

LEMMA BufferFacts ==
  ASSUME NEW c \in QueueCb, c.head < c.len, NEW type \in OpType, NEW m \in Msg \cup {NoMsg}
  PROVE  LET d == osQueueBufferOperate(c, type, m)
         IN  /\ d \in QueueCb /\ d.used = c.used /\ d.len = c.len /\ d.cnt = c.cnt
             /\ d.head < d.len
             /\ \A k \in 0 .. c.len : c.tail = (c.head + k) % c.len =>
                  /\ SideOf(type) = "READ" /\ k > 0 => d.tail = (d.head + (k - 1)) % d.len
                  /\ SideOf(type) = "WRITE" /\ k < c.len => d.tail = (d.head + (k + 1)) % d.len
<1> DEFINE n == c.len
           d == osQueueBufferOperate(c, type, m)
           h == (c.head + n - 1) % n
<1>1. /\ n \in Nat \ {0} /\ n <= MaxLen /\ c.head \in 0 .. n - 1 /\ MaxLen \in Nat
      /\ c.tail \in 0 .. MaxLen - 1 /\ n \in QueueLens
      /\ c.node \in [0 .. MaxLen - 1 -> Msg \cup {NoMsg}]
  <2>1. /\ c.len \in QueueLens /\ c.head \in 0 .. MaxLen - 1 /\ c.tail \in 0 .. MaxLen - 1
        /\ c.node \in [0 .. MaxLen - 1 -> Msg \cup {NoMsg}]
    BY DEF QueueCb
  <2>2. c.len \in Nat \ {0} /\ c.len <= MaxLen /\ MaxLen \in Nat
    BY <2>1, MaxLenFacts
  <2>3. c.head \in 0 .. c.len - 1
    BY <2>1, <2>2
  <2> QED BY <2>1, <2>2, <2>3
<1> HIDE DEF n
<1>2. /\ (c.head + 1) % n \in 0 .. n - 1 /\ h \in 0 .. n - 1 /\ (c.tail + 1) % n \in 0 .. n - 1
      /\ 0 .. n - 1 \subseteq 0 .. MaxLen - 1
  <2>1. (c.head + 1) % n \in 0 .. n - 1 /\ h \in 0 .. n - 1
    BY <1>1, SMTT(30)
  <2>2. (c.tail + 1) % n \in 0 .. n - 1
    BY <1>1
  <2>3. 0 .. n - 1 \subseteq 0 .. MaxLen - 1
    BY <1>1
  <2> QED BY <2>1, <2>2, <2>3
<1> HIDE DEF h
<1>3. CASE type = "READ_HEAD"
  <2>1. d = [c EXCEPT !.node[c.head] = NoMsg, !.head = (c.head + 1) % n]
    BY <1>3 DEF osQueueBufferOperate, ReadHead, n, QueueCb
  <2> HIDE DEF d
  <2>2. /\ d.used = c.used /\ d.len = n /\ d.cnt = c.cnt /\ d.tail = c.tail
        /\ d.head = (c.head + 1) % n /\ d.node = [c.node EXCEPT ![c.head] = NoMsg]
        /\ d = [c EXCEPT !.node = d.node, !.head = d.head]
    BY <2>1 DEF QueueCb, n
  <2>3. d.node \in [0 .. MaxLen - 1 -> Msg \cup {NoMsg}]
    BY <1>1, <2>2
  <2>4. d \in QueueCb
    BY <1>2, <2>2, <2>3 DEF QueueCb
  <2>5. \A k \in 1 .. n : c.tail = (c.head + k) % n => d.tail = (d.head + (k - 1)) % n
    BY <1>1, <2>2, RingRead, SMTT(30)
  <2>6. SideOf(type) = "READ"
    BY <1>3 DEF SideOf
  <2> QED BY <1>1, <1>2, <2>2, <2>4, <2>5, <2>6, SMTT(30) DEF n, d
<1>4. CASE type = "WRITE_HEAD"
  <2>1. d = [c EXCEPT !.head = h, !.node[h] = m]
    BY <1>4 DEF osQueueBufferOperate, WriteHead, n, h
  <2> HIDE DEF d
  <2>2. /\ d.used = c.used /\ d.len = n /\ d.cnt = c.cnt /\ d.tail = c.tail
        /\ d.head = h /\ d.node = [c.node EXCEPT ![h] = m]
        /\ d = [c EXCEPT !.node = d.node, !.head = d.head]
    BY <2>1 DEF QueueCb, n
  <2>3. d.node \in [0 .. MaxLen - 1 -> Msg \cup {NoMsg}]
    BY <1>1, <2>2
  <2>4. d \in QueueCb
    BY <1>2, <2>2, <2>3 DEF QueueCb
  <2>5. \A k \in 0 .. n - 1 : c.tail = (c.head + k) % n => d.tail = (d.head + (k + 1)) % n
    BY <1>1, <2>2, RingWriteHead, SMTT(30) DEF h
  <2>6. SideOf(type) = "WRITE"
    BY <1>4 DEF SideOf
  <2> QED BY <1>1, <1>2, <2>2, <2>4, <2>5, <2>6, SMTT(30) DEF n, d
<1>5. CASE type = "WRITE_TAIL"
  <2>1. d = [c EXCEPT !.node[c.tail] = m, !.tail = (c.tail + 1) % n]
    BY <1>5 DEF osQueueBufferOperate, WriteTail, n, QueueCb
  <2> HIDE DEF d
  <2>2. /\ d.used = c.used /\ d.len = n /\ d.cnt = c.cnt /\ d.head = c.head
        /\ d.tail = (c.tail + 1) % n /\ d.node = [c.node EXCEPT ![c.tail] = m]
        /\ d = [c EXCEPT !.node = d.node, !.tail = d.tail]
    BY <2>1 DEF QueueCb, n
  <2>3. d.node \in [0 .. MaxLen - 1 -> Msg \cup {NoMsg}]
    BY <1>1, <2>2
  <2>4. d \in QueueCb
    BY <1>2, <2>2, <2>3 DEF QueueCb
  <2>5. \A k \in 0 .. n - 1 : c.tail = (c.head + k) % n => d.tail = (d.head + (k + 1)) % n
    BY <1>1, <2>2, RingWriteTail, SMTT(30)
  <2>6. SideOf(type) = "WRITE"
    BY <1>5 DEF SideOf
  <2> QED BY <1>1, <1>2, <2>2, <2>4, <2>5, <2>6 DEF n, d
<1> QED BY <1>3, <1>4, <1>5 DEF OpType

----------------------------------------------------------------------------
\* The messages in the ring: n of them, from the head on.
Ring(c, n) == [i \in 1 .. n |-> c.node[(c.head + i - 1) % c.len]]

LEMMA RingMod ==
  ASSUME NEW n \in Nat \ {0}, NEW h \in 0 .. n - 1, NEW a \in 0 .. n
  PROVE  (h + a) % n = IF h + a < n THEN h + a ELSE h + a - n
<1>1. CASE h + a < n
  BY <1>1
<1>2. CASE h + a >= n
  <2>1. h + a - n \in 0 .. n - 1
    BY <1>2
  <2> QED BY <1>2, <2>1
<1> QED BY <1>1, <1>2

LEMMA RingNotHead ==
  ASSUME NEW n \in Nat \ {0}, NEW h \in 0 .. n - 1, NEW i \in 1 .. n - 1
  PROVE  (h + i) % n # h /\ (h + i) % n \in 0 .. n - 1 /\ h % n = h
<1>1. i \in 0 .. n
  OBVIOUS
<1>2. (h + i) % n = IF h + i < n THEN h + i ELSE h + i - n
  BY <1>1, RingMod
<1> QED BY <1>2

LEMMA CbFacts ==
  ASSUME NEW c \in QueueCb, c.head < c.len
  PROVE  /\ c.len \in Nat \ {0} /\ c.head \in 0 .. c.len - 1
         /\ c.len <= MaxLen /\ MaxLen \in Nat /\ c.tail \in 0 .. MaxLen - 1
         /\ c.node \in [0 .. MaxLen - 1 -> Msg \cup {NoMsg}]
         /\ 0 .. c.len - 1 \subseteq 0 .. MaxLen - 1
<1>1. c.len \in Nat \ {0} /\ c.len <= MaxLen /\ MaxLen \in Nat
  BY MaxLenFacts DEF QueueCb
<1>2. /\ c.head \in 0 .. MaxLen - 1 /\ c.node \in [0 .. MaxLen - 1 -> Msg \cup {NoMsg}]
      /\ c.tail \in 0 .. MaxLen - 1
  BY DEF QueueCb
<1>3. c.head \in 0 .. c.len - 1 /\ 0 .. c.len - 1 \subseteq 0 .. MaxLen - 1
  BY <1>1, <1>2
<1> QED BY <1>1, <1>2, <1>3

LEMMA RingSeq ==
  ASSUME NEW c \in QueueCb, c.head < c.len, NEW n \in 0 .. c.len
  PROVE  /\ Ring(c, n) \in Seq(Msg \cup {NoMsg}) /\ Len(Ring(c, n)) = n
         /\ \A i \in 1 .. n : Ring(c, n)[i] = c.node[(c.head + i - 1) % c.len]
<1>1. /\ c.len \in Nat \ {0} /\ c.len <= MaxLen /\ MaxLen \in Nat /\ c.head \in 0 .. c.len - 1
      /\ c.node \in [0 .. MaxLen - 1 -> Msg \cup {NoMsg}]
  BY CbFacts
<1> DEFINE M == Msg \cup {NoMsg}
           r == Ring(c, n)
<1>2. \A i \in 1 .. n : (c.head + i - 1) % c.len \in 0 .. MaxLen - 1
  BY <1>1
<1>3. r \in [1 .. n -> M] /\ n \in Nat
  BY <1>1, <1>2 DEF Ring
<1>4. \A i \in 1 .. n : r[i] = c.node[(c.head + i - 1) % c.len]
  BY DEF Ring
<1> HIDE DEF r, M
<1>5. r \in Seq(M) /\ Len(r) = n
  BY <1>3
<1> QED BY <1>4, <1>5 DEF r, M

LEMMA RingEmpty ==
  ASSUME NEW c \in QueueCb, c.head < c.len
  PROVE  Ring(c, 0) = <<>>
<1>1. 0 \in 0 .. c.len
  <2>1. c.len \in Nat
    BY CbFacts
  <2> QED BY <2>1
<1>2. Ring(c, 0) \in Seq(Msg \cup {NoMsg}) /\ Len(Ring(c, 0)) = 0
  BY <1>1, RingSeq
<1> QED BY <1>2, EmptySeq

\* Which node is which: two of the first len nodes from the head on are the same one
\* only when they stand in the same place.
LEMMA RingPlaces ==
  ASSUME NEW n \in Nat \ {0}, NEW h \in 0 .. n - 1, NEW a \in 0 .. n - 1, NEW b \in 0 .. n - 1,
         (h + a) % n = (h + b) % n
  PROVE  a = b
<1>1. /\ (h + a) % n = IF h + a < n THEN h + a ELSE h + a - n
      /\ (h + b) % n = IF h + b < n THEN h + b ELSE h + b - n
  <2>1. a \in 0 .. n /\ b \in 0 .. n
    OBVIOUS
  <2> QED BY <2>1, RingMod
<1> QED BY <1>1

LEMMA ReadTakesFirst ==
  ASSUME NEW c \in QueueCb, c.head < c.len, NEW n \in 1 .. c.len
  PROVE  Ring(ReadHead(c), n - 1) = Tail(Ring(c, n)) /\ Ring(c, n) # <<>>
<1> DEFINE d == ReadHead(c)
           r == Ring(c, n)
           s == Ring(d, n - 1)
           M == Msg \cup {NoMsg}
           L == c.len
<1>1. /\ L \in Nat \ {0} /\ c.head \in 0 .. L - 1 /\ n \in 0 .. L /\ n - 1 \in 0 .. L
      /\ c.node \in [0 .. MaxLen - 1 -> M] /\ L <= MaxLen /\ MaxLen \in Nat
  BY CbFacts
<1>2. d.head = (c.head + 1) % L /\ d.node = [c.node EXCEPT ![c.head] = NoMsg] /\ d.len = L
  BY DEF ReadHead, QueueCb
<1>3. d \in QueueCb /\ d.head < d.len
  <2>1. d = osQueueBufferOperate(c, "READ_HEAD", NoMsg) /\ "READ_HEAD" \in OpType
    BY DEF osQueueBufferOperate, OpType
  <2> HIDE DEF d
  <2> QED BY <2>1, BufferFacts
<1> HIDE DEF d
<1>4. /\ r \in Seq(M) /\ Len(r) = n
      /\ \A i \in 1 .. n : r[i] = c.node[(c.head + i - 1) % L]
  BY <1>1, RingSeq
<1>5. /\ s \in Seq(M) /\ Len(s) = n - 1
      /\ \A i \in 1 .. n - 1 : s[i] = d.node[(d.head + i - 1) % L]
  <2>1. n - 1 \in 0 .. d.len
    BY <1>1, <1>2
  <2>2. /\ s \in Seq(M) /\ Len(s) = n - 1
        /\ \A i \in 1 .. n - 1 : s[i] = d.node[(d.head + i - 1) % d.len]
    BY <1>3, <2>1, RingSeq
  <2> HIDE DEF s, L
  <2> QED BY <1>2, <2>2
<1> HIDE DEF r, s, L
<1>6. r # <<>>
  BY <1>1, <1>4, EmptySeq
<1>7. /\ Tail(r) \in Seq(M) /\ Len(Tail(r)) = n - 1
      /\ \A i \in 1 .. n - 1 : Tail(r)[i] = r[i + 1]
  BY <1>4, <1>6, HeadTailProperties
<1>8. \A i \in 1 .. n - 1 : s[i] = Tail(r)[i]
  <2> SUFFICES ASSUME NEW i \in 1 .. n - 1 PROVE s[i] = Tail(r)[i]
    OBVIOUS
  <2>1. r[i + 1] = c.node[(c.head + i) % L]
    <3>1. i + 1 \in 1 .. n /\ c.head + (i + 1) - 1 = c.head + i
      BY <1>1
    <3> QED BY <1>4, <3>1
  <2>2. (d.head + i - 1) % L = (c.head + i) % L
    <3>1. i \in 1 .. L
      BY <1>1
    <3>2. (c.head + i) % L = (((c.head + 1) % L) + (i - 1)) % L
      BY <1>1, <3>1, RingRead
    <3>3. d.head \in Nat
      BY <1>1, <1>2
    <3>4. d.head + (i - 1) = d.head + i - 1
      BY <3>3
    <3> QED BY <1>2, <3>2, <3>4
  <2>3. (c.head + i) % L # c.head /\ (c.head + i) % L \in 0 .. MaxLen - 1
    <3>1. i \in 1 .. L - 1
      BY <1>1
    <3>2. (c.head + i) % L # c.head /\ (c.head + i) % L \in 0 .. L - 1
      BY <1>1, <3>1, RingNotHead
    <3> QED BY <1>1, <3>2
  <2>4. d.node[(c.head + i) % L] = c.node[(c.head + i) % L]
    BY <1>1, <1>2, <2>3
  <2> QED BY <1>5, <1>7, <2>1, <2>2, <2>4
<1> QED BY <1>5, <1>6, <1>7, <1>8, SeqEqual DEF r, s, d

LEMMA WriteTailAppends ==
  ASSUME NEW c \in QueueCb, c.head < c.len, NEW n \in 0 .. c.len - 1, NEW m \in Msg,
         c.tail = (c.head + n) % c.len
  PROVE  Ring(WriteTail(c, m), n + 1) = Append(Ring(c, n), m) /\ Len(Ring(c, n)) = n
<1> DEFINE d == WriteTail(c, m)
           r == Ring(c, n)
           s == Ring(d, n + 1)
           M == Msg \cup {NoMsg}
           L == c.len
<1>1. /\ L \in Nat \ {0} /\ c.head \in 0 .. L - 1 /\ n \in 0 .. L /\ n + 1 \in 0 .. L
      /\ c.node \in [0 .. MaxLen - 1 -> M] /\ L <= MaxLen /\ MaxLen \in Nat /\ m \in M
  BY CbFacts
<1>2. d.head = c.head /\ d.node = [c.node EXCEPT ![c.tail] = m] /\ d.len = L
  BY DEF WriteTail, QueueCb
<1>3. d \in QueueCb /\ d.head < d.len
  <2>1. d = osQueueBufferOperate(c, "WRITE_TAIL", m) /\ "WRITE_TAIL" \in OpType /\ m \in M
    BY DEF osQueueBufferOperate, OpType
  <2> HIDE DEF d
  <2> QED BY <2>1, BufferFacts
<1> HIDE DEF d
<1>4. /\ r \in Seq(M) /\ Len(r) = n
      /\ \A i \in 1 .. n : r[i] = c.node[(c.head + i - 1) % L]
  BY <1>1, RingSeq
<1>5. /\ s \in Seq(M) /\ Len(s) = n + 1
      /\ \A i \in 1 .. n + 1 : s[i] = d.node[(c.head + i - 1) % L]
  <2>1. n + 1 \in 0 .. d.len
    BY <1>1, <1>2
  <2>2. /\ s \in Seq(M) /\ Len(s) = n + 1
        /\ \A i \in 1 .. n + 1 : s[i] = d.node[(d.head + i - 1) % d.len]
    BY <1>3, <2>1, RingSeq
  <2> HIDE DEF s, L
  <2> QED BY <1>2, <2>2
<1> HIDE DEF r, s
<1>7. /\ Append(r, m) \in Seq(M) /\ Len(Append(r, m)) = n + 1
      /\ \A i \in 1 .. n : Append(r, m)[i] = r[i]
      /\ Append(r, m)[n + 1] = m
  BY <1>1, <1>4
<1>8. \A i \in 1 .. n + 1 : s[i] = Append(r, m)[i]
  <2> SUFFICES ASSUME NEW i \in 1 .. n + 1 PROVE s[i] = Append(r, m)[i]
    OBVIOUS
  <2>1. CASE i = n + 1
    <3>1. c.head + i - 1 = c.head + n /\ c.tail \in 0 .. MaxLen - 1
      <4>1. c.tail \in 0 .. MaxLen - 1
        BY CbFacts
      <4>2. c.head \in Nat /\ n \in Nat
        BY <1>1
      <4> QED BY <2>1, <4>1, <4>2
    <3>2. s[i] = d.node[c.tail] /\ d.node[c.tail] = m
      BY <1>1, <1>2, <1>5, <3>1
    <3> QED BY <1>7, <2>1, <3>2
  <2>2. CASE i \in 1 .. n
    <3>1. i - 1 \in 0 .. L - 1 /\ n \in 0 .. L - 1 /\ i - 1 # n /\ c.head + i - 1 = c.head + (i - 1)
      BY <1>1, <2>2, SMTT(30)
    <3> DEFINE p == (c.head + (i - 1)) % L
    <3>2. p # c.tail
      BY <1>1, <3>1, RingPlaces
    <3>3. p \in 0 .. MaxLen - 1
      BY <1>1, <3>1, SMTT(30)
    <3>4. d.node[p] = c.node[p]
      <4> HIDE DEF p
      <4> QED BY <1>1, <1>2, <3>2, <3>3
    <3> QED BY <1>4, <1>5, <1>7, <2>2, <3>1, <3>4
  <2>3. i = n + 1 \/ i \in 1 .. n
    BY <1>1
  <2> QED BY <2>1, <2>2, <2>3
<1> QED BY <1>4, <1>5, <1>7, <1>8, SeqEqual DEF r, s, d

LEMMA WriteHeadPrepends ==
  ASSUME NEW c \in QueueCb, c.head < c.len, NEW n \in 0 .. c.len - 1, NEW m \in Msg
  PROVE  Ring(WriteHead(c, m), n + 1) = <<m>> \o Ring(c, n) /\ Len(Ring(c, n)) = n
<1> DEFINE d == WriteHead(c, m)
           r == Ring(c, n)
           s == Ring(d, n + 1)
           M == Msg \cup {NoMsg}
           L == c.len
           h == (c.head + L - 1) % L
           one == <<m>>
<1>1. /\ L \in Nat \ {0} /\ c.head \in 0 .. L - 1 /\ n \in 0 .. L /\ n + 1 \in 0 .. L
      /\ c.node \in [0 .. MaxLen - 1 -> M] /\ L <= MaxLen /\ MaxLen \in Nat /\ m \in M
  BY CbFacts
<1>2. d.head = h /\ d.node = [c.node EXCEPT ![h] = m] /\ d.len = L
  BY DEF WriteHead, QueueCb
<1>3. d \in QueueCb /\ d.head < d.len
  <2>1. d = osQueueBufferOperate(c, "WRITE_HEAD", m) /\ "WRITE_HEAD" \in OpType /\ m \in M
    BY DEF osQueueBufferOperate, OpType
  <2> HIDE DEF d
  <2> QED BY <2>1, BufferFacts
<1> HIDE DEF d
<1>4. /\ r \in Seq(M) /\ Len(r) = n
      /\ \A i \in 1 .. n : r[i] = c.node[(c.head + i - 1) % L]
  BY <1>1, RingSeq
<1>5. /\ s \in Seq(M) /\ Len(s) = n + 1
      /\ \A i \in 1 .. n + 1 : s[i] = d.node[(h + i - 1) % L]
  <2>1. n + 1 \in 0 .. d.len
    BY <1>1, <1>2
  <2>2. /\ s \in Seq(M) /\ Len(s) = n + 1
        /\ \A i \in 1 .. n + 1 : s[i] = d.node[(d.head + i - 1) % d.len]
    BY <1>3, <2>1, RingSeq
  <2> HIDE DEF s, L
  <2> QED BY <1>2, <2>2
<1>6. h \in 0 .. L - 1 /\ h \in 0 .. MaxLen - 1
  <2> HIDE DEF L
  <2> QED BY <1>1, SMTT(30)
<1> HIDE DEF r, s, L
<1>7. /\ one \o r \in Seq(M) /\ Len(one \o r) = n + 1
      /\ (one \o r)[1] = m /\ \A i \in 2 .. n + 1 : (one \o r)[i] = r[i - 1]
  <2>1. one \in Seq(M) /\ Len(one) = 1 /\ one[1] = m
    BY <1>1
  <2> HIDE DEF one
  <2> HIDE DEF M
  <2>2. /\ one \o r \in Seq(M) /\ Len(one \o r) = Len(one) + Len(r)
        /\ \A i \in 1 .. Len(one) + Len(r) :
             (one \o r)[i] = IF i <= Len(one) THEN one[i] ELSE r[i - Len(one)]
    BY <1>4, <2>1, ConcatProperties
  <2>3. /\ Len(one \o r) = 1 + n
        /\ \A i \in 1 .. 1 + n : (one \o r)[i] = IF i <= 1 THEN one[i] ELSE r[i - 1]
    BY <1>4, <2>1, <2>2
  <2>4. 1 + n = n + 1 /\ n \in Nat /\ 1 \in 1 .. 1 + n
    BY <1>1
  <2>5. \A i \in 2 .. n + 1 : i \in 1 .. 1 + n /\ ~(i <= 1)
    BY <2>4
  <2> QED BY <2>1, <2>2, <2>3, <2>4, <2>5
<1> HIDE DEF one
<1>8. \A i \in 1 .. n + 1 : s[i] = (one \o r)[i]
  <2> SUFFICES ASSUME NEW i \in 1 .. n + 1 PROVE s[i] = (one \o r)[i]
    OBVIOUS
  <2>1. CASE i = 1
    <3> HIDE DEF h
    <3>1. h + i - 1 = h /\ h % L = h
      BY <1>1, <1>6, <2>1
    <3>2. d.node[h] = m
      BY <1>1, <1>2, <1>6
    <3>3. s[i] = d.node[h]
      BY <1>5, <3>1
    <3> QED BY <1>7, <2>1, <3>2, <3>3
  <2>2. CASE i \in 2 .. n + 1
    <3>1. i - 1 \in 1 .. n /\ i - 1 \in 1 .. L - 1 /\ i - 2 \in 0 .. L - 1 /\ (i - 2) + 1 = i - 1
      BY <1>1, <2>2
    <3>2. (c.head + (i - 2)) % L = (h + (i - 1)) % L
      BY <1>1, <3>1, RingWriteHead
    <3> HIDE DEF h
    <3>3. /\ h + i - 1 = h + (i - 1) /\ c.head + (i - 1) - 1 = c.head + (i - 2)
      BY <1>1, <1>6, <3>1
    <3>4. (h + (i - 1)) % L # h /\ (h + (i - 1)) % L \in 0 .. MaxLen - 1
      <4>1. (h + (i - 1)) % L # h /\ (h + (i - 1)) % L \in 0 .. L - 1
        BY <1>1, <1>6, <3>1, RingNotHead
      <4> QED BY <1>1, <4>1
    <3>5. d.node[(h + (i - 1)) % L] = c.node[(h + (i - 1)) % L]
      BY <1>1, <1>2, <1>6, <3>4
    <3>6. r[i - 1] = c.node[(c.head + (i - 2)) % L]
      BY <1>4, <3>1, <3>3
    <3>7. s[i] = d.node[(h + (i - 1)) % L]
      BY <1>5, <3>3
    <3> QED BY <1>7, <2>2, <3>2, <3>5, <3>6, <3>7
  <2>3. i = 1 \/ i \in 2 .. n + 1
    BY <1>1
  <2> QED BY <2>1, <2>2, <2>3
<1>9. s = one \o r
  BY <1>5, <1>7, <1>8, SeqEqual
<1> QED BY <1>4, <1>9 DEF r, s, d, one

----------------------------------------------------------------------------
\* The abstract queue.

\* A step of the abstract queue, or none.
AbstractStep == [Abstract!Next]_(Abstract!bvars)

LEMMA ReadMaps ==
  ASSUME NEW q \in Queue, \A p \in Queue \ {q} : Content(p)' = Content(p),
         \A p \in Queue : (queue'[p].used <=> queue[p].used) /\ queue'[p].len = queue[p].len,
         Content(q) # <<>>, Content(q)' = Tail(Content(q))
  PROVE  AbstractStep
<1> DEFINE now == [p \in Queue |-> Content(p)]
           then == [p \in Queue |-> Content(p)']
           cap == [p \in Queue |-> IF queue[p].used THEN queue[p].len ELSE 0]
           cap1 == [p \in Queue |-> IF queue'[p].used THEN queue'[p].len ELSE 0]
<1>1. cap1 = cap /\ now[q] = Content(q)
  OBVIOUS
<1>2. then = [now EXCEPT ![q] = Content(q)']
  OBVIOUS
<1>3. then = [now EXCEPT ![q] = Tail(@)] /\ now[q] # <<>>
  <2> HIDE DEF now, then
  <2> QED BY <1>1, <1>2
<1>4. Abstract!Read(q)
  BY <1>1, <1>3 DEF Abstract!Read
<1> QED BY <1>4 DEF AbstractStep, Abstract!Next

LEMMA WriteMaps ==
  ASSUME NEW q \in Queue, \A p \in Queue \ {q} : Content(p)' = Content(p),
         \A p \in Queue : (queue'[p].used <=> queue[p].used) /\ queue'[p].len = queue[p].len,
         queue[q].used, Len(Content(q)) < queue[q].len,
         NEW m \in Msg, Content(q)' \in {Append(Content(q), m), <<m>> \o Content(q)}
  PROVE  AbstractStep
<1> DEFINE now == [p \in Queue |-> Content(p)]
           then == [p \in Queue |-> Content(p)']
           cap == [p \in Queue |-> IF queue[p].used THEN queue[p].len ELSE 0]
           cap1 == [p \in Queue |-> IF queue'[p].used THEN queue'[p].len ELSE 0]
<1>1. cap1 = cap /\ now[q] = Content(q)
  OBVIOUS
<1>2. then = [now EXCEPT ![q] = Content(q)']
  OBVIOUS
<1>3. then \in {[now EXCEPT ![q] = Append(@, m)], [now EXCEPT ![q] = <<m>> \o @]}
  <2> HIDE DEF now, then
  <2> QED BY <1>1, <1>2
<1>4. Len(now[q]) < cap[q]
  BY <1>1
<1>5. Abstract!Write(q, m)
  BY <1>1, <1>3, <1>4 DEF Abstract!Write
<1> QED BY <1>5 DEF AbstractStep, Abstract!Next

LEMMA CreationMaps ==
  ASSUME NEW q \in Queue, NEW n \in QueueLens, n \in Nat \ {0},
         \A p \in Queue : Content(p)' = Content(p),
         \A p \in Queue \ {q} : (queue'[p].used <=> queue[p].used) /\ queue'[p].len = queue[p].len,
         ~queue[q].used, queue'[q].used, queue'[q].len = n
  PROVE  AbstractStep
<1> DEFINE now == [p \in Queue |-> Content(p)]
           then == [p \in Queue |-> Content(p)']
           cap == [p \in Queue |-> IF queue[p].used THEN queue[p].len ELSE 0]
           cap1 == [p \in Queue |-> IF queue'[p].used THEN queue'[p].len ELSE 0]
<1>1. then = now /\ cap[q] = 0 /\ cap1 = [cap EXCEPT ![q] = n]
  OBVIOUS
<1>2. Abstract!Create(q)
  BY <1>1 DEF Abstract!Create
<1> QED BY <1>2 DEF AbstractStep, Abstract!Next

LEMMA DeletionMaps ==
  ASSUME NEW q \in Queue, \A p \in Queue \ {q} : Content(p)' = Content(p),
         \A p \in Queue \ {q} : (queue'[p].used <=> queue[p].used) /\ queue'[p].len = queue[p].len,
         queue[q].used, queue[q].len \in Nat \ {0}, ~queue'[q].used, Content(q)' = <<>>
  PROVE  AbstractStep
<1> DEFINE now == [p \in Queue |-> Content(p)]
           then == [p \in Queue |-> Content(p)']
           cap == [p \in Queue |-> IF queue[p].used THEN queue[p].len ELSE 0]
           cap1 == [p \in Queue |-> IF queue'[p].used THEN queue'[p].len ELSE 0]
<1>1. cap[q] > 0
  OBVIOUS
<1>2. cap1 = [cap EXCEPT ![q] = 0]
  OBVIOUS
<1>3. then = [now EXCEPT ![q] = <<>>]
  OBVIOUS
<1>4. Abstract!Delete(q)
  BY <1>1, <1>2, <1>3 DEF Abstract!Delete
<1> QED BY <1>4 DEF AbstractStep, Abstract!Next

LEMMA CalmMaps ==
  ASSUME queue' = queue, \A p \in Queue : Stored(p)' = Stored(p)
  PROVE  AbstractStep
<1>1. \A p \in Queue : Content(p)' = Content(p)
  BY DEF Content
<1> QED BY <1>1 DEF AbstractStep, Abstract!bvars

----------------------------------------------------------------------------
\* The steps.

LEMMA NobodyOn ==
  ASSUME NEW s \in KernelState, NEW h \in WaitList
  PROVE  s.list[h] = <<>> <=> \A t \in Task : h \notin On(s, t)
<1>1. s.list[h] \in Seq(Task) /\ h \in Heads
  BY HeadsFacts DEF KernelState
<1>2. s.list[h] = <<>> <=> Elems(s.list[h]) = {}
  BY <1>1, ElemsEmpty
<1>3. Elems(s.list[h]) \subseteq Task
  BY <1>1, ElemsType
<1> QED BY <1>1, <1>2, <1>3 DEF On

\* A step in which nobody starts to wait, and a task leaves its call only when it waits
\* no longer.
LEMMA SteadyWaiters ==
  ASSUME Core(os), Waiters, Steady(os, os'), DOMAIN call' = Task,
         \A t \in Task : \/ call'[t] = call[t]
                         \/ "TIMEOUT" \notin os'.status[t] /\ On(os', t) \cap WaitList = {}
  PROVE  Core(os') /\ Waiters' /\ \A h \in WaitList : os.list[h] = <<>> => os'.list[h] = <<>>
<1>1. os \in KernelState /\ os' \in KernelState /\ Core(os')
  BY DEF Steady, Core, Consistent
<1>2. \A t \in Task, h \in WaitList : h \in On(os', t) => h \in On(os, t)
  BY HeadsFacts DEF Steady, Eases, Drains, On
<1>3. \A t \in Task : /\ "PEND" \notin os'.status[t]
                      /\ "TIMEOUT" \in os'.status[t] => call'[t] # NoCall
  BY DEF Steady, Eases, Waits, Waiters
<1>4. \A t \in Task, h \in SideLists : h \in On(os', t) => h \in On(os, t) /\ call'[t] = call[t]
  <2>1. SideLists \subseteq WaitList
    BY QueueAssumption DEF SideLists
  <2> QED BY <1>2, <2>1
<1>5. \A h \in WaitList : os.list[h] = <<>> => os'.list[h] = <<>>
  BY <1>1, <1>2, NobodyOn
<1> QED BY <1>1, <1>3, <1>4, <1>5 DEF Waiters

\* A step that leaves the queues as they are and wakes nobody.
LEMMA CalmStep ==
  ASSUME QueueInv, Core(os'), Waiters', UNCHANGED <<queue, freeQueue>>,
         \A q \in Queue, side \in Side :
           /\ Reserved(q, side)' = Reserved(q, side)
           /\ \/ os.list[ReadWriteList[side][q]] = <<>> => os'.list[ReadWriteList[side][q]] = <<>>
              \/ queue[q].used /\ queue[q].cnt[side] = 0
  PROVE  QueueInv' /\ AbstractStep
<1>1. Blocks'
  BY DEF QueueInv, Blocks
<1>2. \A q \in Queue : Stored(q)' = Stored(q) /\ Free(q)' = Free(q)
  BY SideFacts DEF Stored, Free
<1>3. \A q \in Queue : queue'[q].used => Sums(q)'
  BY <1>2 DEF QueueInv, Sums
<1>4. NobodyWaitsInVain'
  BY DEF QueueInv, NobodyWaitsInVain
<1>5. WokenOnLiveQueue'
  BY DEF QueueInv, WokenOnLiveQueue
<1>6. AbstractStep
  BY <1>2, CalmMaps
<1> QED BY <1>1, <1>3, <1>4, <1>5, <1>6 DEF QueueInv

\* A task takes a node on one side of q: k are the counts then, and the tasks of done
\* leave their calls with the nodes that were reserved for them.
Takes(q, side, done, k) ==
  /\ done \subseteq Reserved(q, side)
  /\ k[Other(side)] = queue[q].cnt[Other(side)]
  /\ k[side] + Cardinality(Reserved(q, side) \ done) + 1
       = queue[q].cnt[side] + Cardinality(Reserved(q, side))
  /\ os.list[ReadWriteList[side][q]] # <<>> => k[side] = 0
  /\ DOMAIN call' = Task
  /\ \A t \in Task : call'[t] = IF t \in done THEN NoCall ELSE call[t]

LEMMA OperateStep ==
  ASSUME QueueInv, TaskContext \/ IrqContext, freeQueue' = freeQueue,
         NEW q \in Queue, queue[q].used, NEW type \in OpType, NEW m \in Msg \cup {NoMsg},
         NEW side, side = SideOf(type), NEW other, other = Other(side),
         side = "WRITE" => m \in Msg,
         NEW done, NEW k \in [Side -> 0 .. MaxLen], Takes(q, side, done, k),
         Operate(os, [queue[q] EXCEPT !.cnt = k], q, type, m)
  PROVE  QueueInv' /\ AbstractStep
<1>0. ASSUME os.list[ReadWriteList[other][q]] # <<>>
      PROVE  LET u == Head(os.list[ReadWriteList[other][q]])
             IN  /\ u \in Task /\ u \in User /\ "PEND_QUEUE" \in os.status[u]
                 /\ call[u] \in QueueCall /\ call[u].queue = q
                 /\ SideOf(call[u].type) = other
  <2>1. Core(os) /\ Waiters
    BY DEF QueueInv
  <2>2. other \in Side
    BY SideFacts
  <2> QED BY <1>0, <2>1, <2>2, FirstWaiter
<1> DEFINE l == ReadWriteList[other][q]
           c == [queue[q] EXCEPT !.cnt = k]
           d == osQueueBufferOperate(c, type, m)
           t == Head(os.list[l])
           woken == IF os.list[l] # <<>> THEN {t} ELSE {}
           e == IF os.list[l] # <<>> THEN d ELSE [d EXCEPT !.cnt[other] = @ + 1]
<1>1. /\ side \in Side /\ other \in Side /\ side # other /\ Side = {side, other}
      /\ l \in WaitList /\ l \in Heads
  BY SideFacts, ListFacts
<1>2. /\ queue[q] \in QueueCb /\ c \in QueueCb /\ c.cnt = k /\ c.used
      /\ c.len = queue[q].len /\ c.head = queue[q].head /\ c.tail = queue[q].tail
      /\ c.head < c.len /\ c.len \in Nat \ {0} /\ c.len <= MaxLen /\ c.node = queue[q].node
  BY MaxLenFacts DEF QueueInv, Blocks, QueueCb, Sums
<1>3. /\ d \in QueueCb /\ d.used /\ d.len = c.len /\ d.cnt = k /\ d.head < d.len
      /\ \A n \in 0 .. c.len : c.tail = (c.head + n) % c.len =>
           /\ side = "READ" /\ n > 0 => d.tail = (d.head + (n - 1)) % d.len
           /\ side = "WRITE" /\ n < c.len => d.tail = (d.head + (n + 1)) % d.len
  <2> HIDE DEF c
  <2> QED BY <1>2, BufferFacts
<1>4. /\ queue' = [queue EXCEPT ![q] = e]
      /\ os.list[l] = <<>> => os' = os
      /\ os.list[l] # <<>> => os' = Reschedule(osTaskWake(os, t, "PEND_QUEUE"))
  <2>1. Operate(os, c, q, type, m) /\ l = ReadWriteList[Other(SideOf(type))][q]
    OBVIOUS
  <2> HIDE DEF c, l
  <2> QED BY <2>1 DEF Operate
<1> HIDE DEF c, d
<1>5. /\ \A u \in woken : /\ u \in User /\ u \in Task /\ "PEND_QUEUE" \in os.status[u]
                          /\ call[u] \in QueueCall /\ call[u].queue = q
                          /\ SideOf(call[u].type) = other
  <2>1. ASSUME os.list[l] # <<>>
        PROVE  /\ t \in User /\ t \in Task /\ "PEND_QUEUE" \in os.status[t]
               /\ call[t] \in QueueCall /\ call[t].queue = q /\ SideOf(call[t].type) = other
    BY <1>0, <2>1
  <2> HIDE DEF t, l
  <2> QED BY <2>1, SMTT(30) DEF woken
<1>6. /\ Steady(os, os') /\ \A u \in Task \ woken : os'.status[u] = os.status[u]
      /\ \A u \in woken : os'.status[u] \cap Waits = {}
  <2>1. CASE os.list[l] = <<>>
    BY <1>4, <2>1, SteadySame DEF QueueInv
  <2>2. CASE os.list[l] # <<>>
    <3>1. t \in Task /\ "PEND_QUEUE" \in os.status[t] /\ "PEND" \notin os.status[t]
      BY <1>5, <2>2 DEF QueueInv, Waiters
    <3> HIDE DEF t
    <3>2. /\ Steady(os, os') /\ \A u \in Task \ {t} : os'.status[u] = os.status[u]
          /\ os'.status[t] \ {"READY"} = os.status[t] \ {"PEND_QUEUE", "TIMEOUT"}
      BY <1>4, <2>2, <3>1, WakeStep DEF QueueInv
    <3> QED BY <2>2, <3>1, <3>2 DEF Waits
  <2> QED BY <2>1, <2>2
<1>7. Consistent(os) /\ Consistent(os')
  BY <1>6 DEF Steady, Core, QueueInv
<1>8. \A u \in done : /\ u \in User /\ u \in Task /\ Claims(os, call, q, side, u)
                      /\ u \notin woken
  <2>1. \A u \in done : u \in User /\ Claims(os, call, q, side, u)
    BY <1>1, <1>7, ReservedClaims DEF Takes
  <2>2. User \subseteq Task
    BY DEF Task
  <2> QED BY <1>5, <2>1, <2>2 DEF Claims, Waits
<1> HIDE DEF woken
<1>9. DOMAIN call' = Task
  BY DEF Takes
<1>10. /\ Core(os') /\ Waiters'
       /\ \A h \in WaitList : os.list[h] = <<>> => os'.list[h] = <<>>
  <2> SUFFICES ASSUME NEW u \in Task, call'[u] # call[u]
               PROVE  "TIMEOUT" \notin os'.status[u] /\ On(os', u) \cap WaitList = {}
    BY <1>6, <1>9, SteadyWaiters DEF QueueInv
  <2>1. u \in done
    BY DEF Takes
  <2>2. os'.status[u] \cap Waits = {}
    BY <1>6, <1>8, <2>1 DEF Claims
  <2> QED BY <1>7, <2>2 DEF Consistent, TaskAgrees, Waits
<1>11. \A p \in Queue, sd \in Side :
         Reserved(p, sd)' = IF p # q THEN Reserved(p, sd)
                            ELSE IF sd = side THEN Reserved(p, sd) \ done
                            ELSE Reserved(p, sd) \cup woken
  <2> SUFFICES ASSUME NEW p \in Queue, NEW sd \in Side
               PROVE  Reserved(p, sd)' = IF p # q THEN Reserved(p, sd)
                                         ELSE IF sd = side THEN Reserved(p, sd) \ done
                                         ELSE Reserved(p, sd) \cup woken
    OBVIOUS
  <2>1. /\ Reserved(p, sd) = {u \in User : Claims(os, call, p, sd, u)}
        /\ Reserved(p, sd)' = {u \in User : Claims(os', call', p, sd, u)}
    BY <1>7, ReservedClaims, ReservedClaimsNext
  <2>2. \A u \in User : u \in Task
    BY DEF Task
  <2>3. \A u \in done : ~Claims(os', call', p, sd, u)
    BY <1>8, SideFacts DEF Claims, Takes
  <2>4. \A u \in woken : /\ Claims(os', call', p, sd, u) <=> p = q /\ sd = other
                         /\ ~Claims(os, call, p, sd, u)
    BY <1>5, <1>6, <1>8 DEF Claims, Waits, Takes
  <2>5. \A u \in User \ (done \cup woken) :
          Claims(os', call', p, sd, u) <=> Claims(os, call, p, sd, u)
    BY <1>6, <2>2 DEF Claims, Takes
  <2>6. \A u \in done : Claims(os, call, p, sd, u) <=> p = q /\ sd = side
    BY <1>8 DEF Claims
  <2> QED BY <1>1, <1>5, <1>8, <2>1, <2>3, <2>4, <2>5, <2>6
<1>12. /\ e.cnt[side] = k[side] /\ e.len = c.len /\ e.used /\ e.head = d.head
       /\ e.tail = d.tail /\ e.node = d.node /\ e.cnt \in [Side -> Nat] /\ e = [d EXCEPT !.cnt = e.cnt]
       /\ e.cnt[other] = IF os.list[l] # <<>> THEN k[other] ELSE k[other] + 1
  BY <1>1, <1>3 DEF QueueCb
<1> HIDE DEF e
<1>13. e.cnt[other] + Cardinality(Reserved(q, other) \cup woken)
         = k[other] + Cardinality(Reserved(q, other)) + 1
  <2>1. Cardinality(Reserved(q, other)) \in Nat /\ IsFiniteSet(Reserved(q, other))
        /\ k[other] \in Nat
    BY <1>1, ReservedFinite, MaxLenFacts
  <2>2. CASE os.list[l] = <<>>
    <3>1. woken = {}
      BY <2>2 DEF woken
    <3>2. Reserved(q, other) \cup woken = Reserved(q, other)
      BY <3>1
    <3>3. e.cnt[other] = k[other] + 1
      BY <1>12, <2>2
    <3>4. Cardinality(Reserved(q, other) \cup woken) = Cardinality(Reserved(q, other))
      BY <3>2
    <3> HIDE DEF woken
    <3> QED BY <2>1, <3>3, <3>4
  <2>3. CASE os.list[l] # <<>>
    <3>1. woken = {t} /\ t \notin Reserved(q, other)
      <4> HIDE DEF l, t
      <4>1. woken = {t}
        BY <2>3 DEF woken
      <4>2. ~Claims(os, call, q, other, t)
        BY <1>5, <4>1 DEF Claims, Waits
      <4> QED BY <1>1, <1>7, <4>1, <4>2, ReservedClaims
    <3> HIDE DEF t
    <3>2. Cardinality(Reserved(q, other) \cup {t}) = Cardinality(Reserved(q, other)) + 1
      BY <2>1, <3>1, FS_AddElement
    <3>3. e.cnt[other] = k[other]
      BY <1>12, <2>3
    <3>4. Cardinality(Reserved(q, other) \cup woken) = Cardinality(Reserved(q, other)) + 1
      BY <3>1, <3>2
    <3> QED BY <2>1, <3>3, <3>4
  <2> QED BY <2>2, <2>3
<1>14. /\ e.cnt[side] + Cardinality(Reserved(q, side) \ done) + 1
            = queue[q].cnt[side] + Cardinality(Reserved(q, side))
       /\ k[other] = queue[q].cnt[other]
       /\ Cardinality(Reserved(q, side) \ done) \in Nat
       /\ Cardinality(Reserved(q, other) \cup woken) \in Nat
  <2>1. /\ Reserved(q, side) \ done \in SUBSET User
        /\ Reserved(q, other) \cup woken \in SUBSET User
    BY <1>5 DEF Reserved
  <2>2. \A S \in SUBSET User : Cardinality(S) \in Nat
    BY UserFinite, FS_Subset, FS_CardinalityType
  <2> QED BY <1>12, <2>1, <2>2 DEF Takes
<1>15. /\ queue' = [queue EXCEPT ![q] = e] /\ queue'[q] = e
       /\ \A p \in Queue \ {q} : queue'[p] = queue[p]
  BY <1>4 DEF QueueInv, Blocks
\* The numbers of nodes on both sides, before and after.
<1> DEFINE P == queue[q].cnt[side] + Cardinality(Reserved(q, side))
           O == queue[q].cnt[other] + Cardinality(Reserved(q, other))
           P1 == e.cnt[side] + Cardinality(Reserved(q, side) \ done)
           O1 == e.cnt[other] + Cardinality(Reserved(q, other) \cup woken)
<1>16. /\ P \in Nat /\ O \in Nat /\ P1 \in Nat /\ O1 \in Nat
       /\ e.cnt[side] <= P1 /\ e.cnt[other] <= O1
  <2>1. /\ queue[q].cnt[side] \in Nat /\ queue[q].cnt[other] \in Nat
        /\ e.cnt[side] \in Nat /\ e.cnt[other] \in Nat
    BY <1>1, <1>2, <1>12, MaxLenFacts DEF QueueCb
  <2>2. /\ Cardinality(Reserved(q, side)) \in Nat /\ Cardinality(Reserved(q, other)) \in Nat
        /\ Cardinality(Reserved(q, side) \ done) \in Nat
        /\ Cardinality(Reserved(q, other) \cup woken) \in Nat
    BY <1>14, ReservedFinite
  <2> QED BY <2>1, <2>2
<1>17. P1 + 1 = P /\ O1 = O + 1
  <2>1. P1 + 1 = P
    BY <1>12, <1>14, <1>16, MaxLenFacts
  <2>2. O1 = O + 1
    BY <1>12, <1>13, <1>14, <1>16, MaxLenFacts
  <2> QED BY <2>1, <2>2
<1>18. P + O = c.len
  <2>1. CASE side = "READ"
    <3>1. P = Stored(q) /\ O = Free(q)
      BY <2>1 DEF Stored, Free, Other
    <3> QED BY <1>2, <3>1 DEF QueueInv, Sums
  <2>2. CASE side = "WRITE"
    <3>1. P = Free(q) /\ O = Stored(q)
      BY <2>2 DEF Stored, Free, Other
    <3>2. P + O = O + P
      BY <1>16
    <3> QED BY <1>2, <3>1, <3>2 DEF QueueInv, Sums
  <2> QED BY <1>1, <2>1, <2>2 DEF Side
<1>19. queue'[q] = e /\ Reserved(q, side)' = Reserved(q, side) \ done
       /\ Reserved(q, other)' = Reserved(q, other) \cup woken
  BY <1>1, <1>11, <1>15
<1>20. Sums(q)'
  <2>1. CASE side = "READ"
    <3>1. /\ P = Stored(q) /\ O = Free(q) /\ P1 = Stored(q)' /\ O1 = Free(q)'
      BY <1>19, <2>1 DEF Stored, Free, Other
    <3> HIDE DEF P, O, P1, O1
    <3>2. d.tail = (d.head + (P - 1)) % d.len
      <4>1. P \in 0 .. c.len /\ P > 0
        BY <1>2, <1>16, <1>17, <1>18
      <4>2. c.tail = (c.head + P) % c.len
        BY <1>2, <3>1 DEF QueueInv, Sums
      <4> QED BY <1>3, <2>1, <4>1, <4>2
    <3>3. P1 + O1 = c.len /\ P - 1 = P1
      BY <1>2, <1>16, <1>17, <1>18
    <3> QED BY <1>3, <1>12, <1>19, <3>1, <3>2, <3>3 DEF Sums
  <2>2. CASE side = "WRITE"
    <3>1. /\ P = Free(q) /\ O = Stored(q) /\ P1 = Free(q)' /\ O1 = Stored(q)'
      BY <1>19, <2>2 DEF Stored, Free, Other
    <3> HIDE DEF P, O, P1, O1
    <3>2. d.tail = (d.head + (O + 1)) % d.len
      <4>1. O \in 0 .. c.len /\ O < c.len
        BY <1>2, <1>16, <1>17, <1>18
      <4>2. c.tail = (c.head + O) % c.len
        BY <1>2, <3>1 DEF QueueInv, Sums
      <4> QED BY <1>3, <2>2, <4>1, <4>2
    <3>3. O1 + P1 = c.len /\ O + 1 = O1
      BY <1>2, <1>16, <1>17, <1>18
    <3> QED BY <1>3, <1>12, <1>19, <3>1, <3>2, <3>3 DEF Sums
  <2> QED BY <1>1, <2>1, <2>2 DEF Side
<1>21. e \in QueueCb
  <2> HIDE DEF P, O, P1, O1
  <2>1. e.cnt[side] <= MaxLen /\ e.cnt[other] <= MaxLen
    BY <1>1, <1>2, <1>12, <1>16, <1>17, <1>18, MaxLenFacts
  <2>2. e.cnt \in [Side -> 0 .. MaxLen]
    BY <1>1, <1>12, <2>1, MaxLenFacts
  <2> QED BY <1>3, <1>12, <2>2 DEF QueueCb
<1>22. Blocks'
  <2>1. queue' \in [Queue -> QueueCb]
    BY <1>15, <1>21 DEF QueueInv, Blocks
  <2>2. q \notin Elems(freeQueue)
    BY DEF QueueInv, Blocks
  <2>3. Elems(freeQueue) \subseteq Queue
    BY ElemsType DEF QueueInv, Blocks
  <2> QED BY <1>15, <2>1, <2>2, <2>3 DEF QueueInv, Blocks
<1>23. \A p \in Queue : queue'[p].used => Sums(p)'
  <2> SUFFICES ASSUME NEW p \in Queue, p # q, queue'[p].used
               PROVE  Sums(p)'
    BY <1>20
  <2>1. queue'[p] = queue[p] /\ \A sd \in Side : Reserved(p, sd)' = Reserved(p, sd)
    BY <1>11, <1>15
  <2>2. Stored(p)' = Stored(p) /\ Free(p)' = Free(p)
    BY <2>1, SideFacts DEF Stored, Free
  <2> QED BY <2>1, <2>2 DEF QueueInv, Sums
<1>24. NobodyWaitsInVain'
  <2> SUFFICES ASSUME NEW p \in Queue, NEW sd \in Side, os'.list[ReadWriteList[sd][p]] # <<>>
               PROVE  queue'[p].used /\ queue'[p].cnt[sd] = 0
    BY DEF NobodyWaitsInVain
  <2>1. os.list[ReadWriteList[sd][p]] # <<>>
    BY <1>10, ListFacts
  <2>2. queue[p].used /\ queue[p].cnt[sd] = 0
    BY <2>1 DEF QueueInv, NobodyWaitsInVain
  <2>3. CASE p # q
    BY <1>15, <2>2, <2>3
  <2>4. CASE p = q /\ sd = side
    BY <1>12, <1>15, <2>1, <2>4 DEF Takes
  <2>5. CASE p = q /\ sd = other
    BY <1>12, <1>14, <1>15, <2>1, <2>2, <2>5
  <2> QED BY <1>1, <2>3, <2>4, <2>5
<1>25. WokenOnLiveQueue'
  BY <1>11, <1>12, <1>15 DEF QueueInv, WokenOnLiveQueue
<1>26. \A p \in Queue \ {q} : Content(p)' = Content(p)
  <2> SUFFICES ASSUME NEW p \in Queue \ {q} PROVE Content(p)' = Content(p)
    OBVIOUS
  <2>1. queue'[p] = queue[p] /\ \A sd \in Side : Reserved(p, sd)' = Reserved(p, sd)
    BY <1>11, <1>15
  <2>2. Stored(p)' = Stored(p)
    BY <2>1, SideFacts DEF Stored
  <2> QED BY <2>1, <2>2 DEF Content
<1>27. \A p \in Queue : (queue'[p].used <=> queue[p].used) /\ queue'[p].len = queue[p].len
  BY <1>2, <1>12, <1>15
<1>28. Content(q) = Ring(c, Stored(q)) /\ Content(q)' = Ring(d, Stored(q)')
  <2>1. Content(q) = Ring(c, Stored(q))
    BY <1>2 DEF Content, Ring
  <2>2. queue'[q].node = d.node /\ queue'[q].head = d.head /\ queue'[q].len = d.len /\ queue'[q].used
    BY <1>3, <1>12, <1>15
  <2>3. Content(q)' = Ring(d, Stored(q)')
    BY <2>2 DEF Content, Ring
  <2> QED BY <2>1, <2>3
<1>29. ASSUME side = "READ" PROVE AbstractStep
  <2>1. P = Stored(q) /\ P1 = Stored(q)'
    BY <1>19, <1>29 DEF Stored, Other
  <2> HIDE DEF P, O, P1, O1
  <2>2. P \in 1 .. c.len /\ P1 = P - 1
    BY <1>2, <1>16, <1>17, <1>18
  <2>3. d = ReadHead(c)
    BY <1>29 DEF d, osQueueBufferOperate, SideOf
  <2>4. Content(q) # <<>> /\ Content(q)' = Tail(Content(q))
    BY <1>2, <1>28, <2>1, <2>2, <2>3, ReadTakesFirst
  <2> QED BY <1>26, <1>27, <2>4, ReadMaps
<1>30. ASSUME side = "WRITE" PROVE AbstractStep
  <2>1. O = Stored(q) /\ O1 = Stored(q)' /\ m \in Msg
    BY <1>19, <1>30 DEF Stored, Other
  <2> HIDE DEF P, O, P1, O1
  <2>2. O \in 0 .. c.len - 1 /\ O1 = O + 1
    BY <1>2, <1>16, <1>17, <1>18
  <2>3. c.tail = (c.head + O) % c.len
    BY <1>2, <2>1 DEF QueueInv, Sums
  <2>4. d = WriteHead(c, m) \/ d = WriteTail(c, m)
    BY <1>30 DEF d, osQueueBufferOperate, SideOf, OpType
  <2>5. /\ Content(q)' \in {Append(Content(q), m), <<m>> \o Content(q)}
        /\ Len(Content(q)) = O
    <3>1. CASE d = WriteHead(c, m)
      BY <1>2, <1>28, <2>1, <2>2, <3>1, WriteHeadPrepends
    <3>2. CASE d = WriteTail(c, m)
      BY <1>2, <1>28, <2>1, <2>2, <2>3, <3>2, WriteTailAppends
    <3> QED BY <2>4, <3>1, <3>2
  <2>6. Len(Content(q)) < queue[q].len
    BY <1>2, <2>2, <2>5
  <2> QED BY <1>26, <1>27, <2>1, <2>5, <2>6, WriteMaps
<1>31. AbstractStep
  BY <1>1, <1>29, <1>30 DEF Side
<1> QED BY <1>10, <1>22, <1>23, <1>24, <1>25, <1>31, SMTT(30) DEF QueueInv

LEMMA ReservedSame ==
  ASSUME Consistent(os), Consistent(os'),
         \A p \in Queue, sd \in Side, u \in User :
           Claims(os', call', p, sd, u) <=> Claims(os, call, p, sd, u)
  PROVE  \A p \in Queue, sd \in Side : Reserved(p, sd)' = Reserved(p, sd)
<1> TAKE p \in Queue, sd \in Side
<1>1. /\ Reserved(p, sd) = {u \in User : Claims(os, call, p, sd, u)}
      /\ Reserved(p, sd)' = {u \in User : Claims(os', call', p, sd, u)}
  BY ReservedClaims, ReservedClaimsNext
<1> QED BY <1>1

LEMMA FreshFacts ==
  ASSUME NEW n \in QueueLens, NEW used \in BOOLEAN
  PROVE  /\ Fresh(n, used) \in QueueCb /\ Fresh(n, used).used = used
         /\ Fresh(n, used).len = n /\ n \in Nat \ {0}
         /\ Fresh(n, used).head = 0 /\ Fresh(n, used).tail = 0
         /\ Fresh(n, used).cnt["READ"] = 0 /\ Fresh(n, used).cnt["WRITE"] = n
<1> DEFINE c == [side \in Side |-> IF side = "READ" THEN 0 ELSE n]
           f == Fresh(n, used)
<1>1. n \in Nat \ {0} /\ n <= MaxLen /\ MaxLen \in Nat \ {0}
  BY MaxLenFacts
<1>2. c \in [Side -> 0 .. MaxLen] /\ c["READ"] = 0 /\ c["WRITE"] = n
  BY <1>1 DEF Side
<1>3. NoNodes \in [0 .. MaxLen - 1 -> Msg \cup {NoMsg}] /\ 0 \in 0 .. MaxLen - 1
  BY <1>1 DEF NoNodes
<1>4. f = [used |-> used, len |-> n, head |-> 0, tail |-> 0, cnt |-> c, node |-> NoNodes]
  BY DEF Fresh
<1> HIDE DEF c, f
<1>5. f \in QueueCb
  BY <1>2, <1>3, <1>4 DEF QueueCb
<1> QED BY <1>1, <1>2, <1>4, <1>5 DEF f

LEMMA QueueInitInv == QueueInit => QueueInv
<1> SUFFICES ASSUME QueueInit PROVE QueueInv
  OBVIOUS
<1>1. Core(os) /\ Quiet(os) /\ os \in KernelState /\ Consistent(os)
  BY InitInv DEF QueueInit, InitIpc, Inv, Core, Consistent
<1>2. call = [t \in Task |-> NoCall]
  BY DEF QueueInit, InitIpc
<1>3. \A t \in Task : On(os, t) \cap WaitList = {}
  BY <1>1 DEF Consistent, TaskAgrees, Quiet, Waits
<1>4. Waiters
  <2>1. DOMAIN call = Task
    BY <1>2
  <2>2. SideLists \subseteq WaitList
    BY QueueAssumption DEF SideLists
  <2> QED BY <1>1, <1>3, <2>1, <2>2 DEF Waiters, Quiet, Waits
<1>5. /\ \A q \in Queue : queue[q] \in QueueCb /\ ~queue[q].used
      /\ queue \in [Queue -> QueueCb]
  BY MaxLenFacts, FreshFacts DEF QueueInit, osQueueInit
<1>6. Blocks
  <2>1. freeQueue \in Seq(Queue) /\ NoDup(freeQueue)
    BY QueueAssumption DEF QueueInit, osQueueInit, NoDup, Queue
  <2>2. Elems(freeQueue) \subseteq Queue
    BY DEF QueueInit, osQueueInit, Queue
  <2> QED BY <1>5, <2>1, <2>2 DEF Blocks
<1>7. NobodyWaitsInVain
  <2> SUFFICES ASSUME NEW q \in Queue, NEW side \in Side
               PROVE  os.list[ReadWriteList[side][q]] = <<>>
    BY DEF NobodyWaitsInVain
  <2> DEFINE h == ReadWriteList[side][q]
  <2>1. h \in WaitList
    BY ListFacts
  <2> HIDE DEF h
  <2>2. os.list[h] = <<>>
    BY <1>1, <1>3, <2>1, NobodyOn
  <2> QED BY <2>2 DEF h
<1>8. WokenOnLiveQueue
  <2> SUFFICES ASSUME NEW q \in Queue, NEW side \in Side PROVE Reserved(q, side) = {}
    BY DEF WokenOnLiveQueue
  <2>1. \A t \in User : call[t] \notin QueueCall
    BY <1>2, CallAssumption DEF Task
  <2> QED BY <2>1 DEF Reserved
<1> QED BY <1>1, <1>4, <1>5, <1>6, <1>7, <1>8 DEF QueueInv

LEMMA QueueCreateStep ==
  ASSUME QueueInv, NEW n \in QueueLens, LOS_QueueCreate(n)
  PROVE  QueueInv' /\ AbstractStep
<1> DEFINE f == Fresh(n, TRUE)
<1>0. Head(freeQueue) \in Queue
  BY HeadTailElems DEF LOS_QueueCreate, QueueInv, Blocks
<1> PICK h \in Queue : h = Head(freeQueue)
  BY <1>0
<1>1. /\ freeQueue # <<>> /\ queue' = [queue EXCEPT ![h] = f]
      /\ freeQueue' = Tail(freeQueue) /\ os' = os /\ call' = call
  BY DEF LOS_QueueCreate
<1>2. /\ h \in Queue /\ h \in Elems(freeQueue) /\ Tail(freeQueue) \in Seq(Queue)
      /\ NoDup(Tail(freeQueue)) /\ Elems(Tail(freeQueue)) = Elems(freeQueue) \ {h}
  BY <1>1, HeadTailElems DEF QueueInv, Blocks
<1>3. /\ f \in QueueCb /\ f.used /\ f.len = n /\ n \in Nat \ {0} /\ f.head = 0 /\ f.tail = 0
      /\ f.cnt["READ"] = 0 /\ f.cnt["WRITE"] = n
  BY FreshFacts
<1> HIDE DEF f
<1>4. ~queue[h].used /\ \A side \in Side : /\ os.list[ReadWriteList[side][h]] = <<>>
                                           /\ Reserved(h, side) = {}
  BY <1>2 DEF QueueInv, Blocks, NobodyWaitsInVain, WokenOnLiveQueue
<1>5. /\ queue' \in [Queue -> QueueCb] /\ queue'[h] = f
      /\ \A q \in Queue \ {h} : queue'[q] = queue[q]
  BY <1>1, <1>2, <1>3 DEF QueueInv, Blocks
<1>6. Blocks'
  <2>1. \A q \in Elems(freeQueue') : ~queue'[q].used
    BY <1>1, <1>2, <1>5, ElemsType DEF QueueInv, Blocks
  <2> QED BY <1>1, <1>2, <1>5, <2>1 DEF Blocks
<1>7. \A q \in Queue, side \in Side : Reserved(q, side)' = Reserved(q, side)
  BY <1>1 DEF Reserved, Woken, Waiting
<1>13. Stored(h)' = 0 /\ Free(h)' = n
  <2>1. Cardinality({}) = 0
    BY FS_EmptySet
  <2>2. Stored(h)' = 0 /\ Free(h)' = n
    <3>1. Reserved(h, "READ")' = {} /\ Reserved(h, "WRITE")' = {}
      BY <1>4, <1>7, SideFacts
    <3>2. Stored(h)' = 0 + 0 /\ Free(h)' = n + 0
      BY <1>3, <1>5, <2>1, <3>1 DEF Stored, Free
    <3>3. n \in Nat
      BY <1>3
    <3> QED BY <3>2, <3>3
  <2> QED BY <2>2
<1>8. Sums(h)'
  <2>3. (0 + 0) % n = 0 /\ 0 + n = n /\ 0 < n
    <3>1. n \in Nat \ {0}
      BY <1>3
    <3>2. 0 + 0 = 0 /\ 0 % n = 0
      BY <3>1
    <3> QED BY <3>1, <3>2
  <2> QED BY <1>3, <1>5, <1>13, <2>3 DEF Sums
<1>9. \A q \in Queue : queue'[q].used => Sums(q)'
  <2> SUFFICES ASSUME NEW q \in Queue, q # h, queue'[q].used
               PROVE  Sums(q)'
    BY <1>8
  <2>1. queue'[q] = queue[q] /\ Stored(q)' = Stored(q) /\ Free(q)' = Free(q)
    BY <1>5, <1>7, SideFacts DEF Stored, Free
  <2> QED BY <2>1 DEF QueueInv, Sums
<1>10. NobodyWaitsInVain'
  BY <1>1, <1>4, <1>5 DEF QueueInv, NobodyWaitsInVain
<1>11. WokenOnLiveQueue'
  BY <1>4, <1>5, <1>7 DEF QueueInv, WokenOnLiveQueue
<1>12. Core(os') /\ Waiters'
  BY <1>1 DEF QueueInv, Waiters, On
<1>14. \A q \in Queue : Content(q)' = Content(q)
  <2>1. Content(h) = <<>>
    BY <1>4 DEF Content
  <2>2. Content(h)' = Ring(f, 0)
    BY <1>3, <1>5, <1>13 DEF Content, Ring
  <2>3. Ring(f, 0) = <<>>
    BY <1>3, RingEmpty
  <2>4. \A q \in Queue \ {h} : Content(q)' = Content(q)
    <3> SUFFICES ASSUME NEW q \in Queue \ {h} PROVE Content(q)' = Content(q)
      OBVIOUS
    <3>1. queue'[q] = queue[q] /\ Stored(q)' = Stored(q)
      BY <1>5, <1>7, SideFacts DEF Stored
    <3> QED BY <3>1 DEF Content
  <2> QED BY <2>1, <2>2, <2>3, <2>4
<1>15. AbstractStep
  BY <1>3, <1>4, <1>5, <1>14, CreationMaps
<1> QED BY <1>6, <1>9, <1>10, <1>11, <1>12, <1>15 DEF QueueInv

LEMMA QueueDeleteStep ==
  ASSUME QueueInv, NEW q \in Queue, LOS_QueueDelete(q)
  PROVE  QueueInv' /\ AbstractStep
<1> DEFINE c == [queue[q] EXCEPT !.used = FALSE, !.node = NoNodes]
           one == <<q>>
<1>1. /\ queue[q].used /\ \A side \in Side : os.list[ReadWriteList[side][q]] = <<>>
      /\ queue[q].cnt["READ"] + queue[q].cnt["WRITE"] = queue[q].len
      /\ queue' = [queue EXCEPT ![q] = c] /\ freeQueue' = one \o freeQueue
      /\ os' = os /\ call' = call
  BY DEF LOS_QueueDelete, QueueInv, Blocks
<1>2. c \in QueueCb /\ ~c.used
  <2>1. NoNodes \in [0 .. MaxLen - 1 -> Msg \cup {NoMsg}]
    BY DEF NoNodes
  <2> QED BY <2>1 DEF QueueInv, Blocks, QueueCb
<1> HIDE DEF c
<1>3. /\ queue' \in [Queue -> QueueCb] /\ ~queue'[q].used
      /\ \A p \in Queue \ {q} : queue'[p] = queue[p]
  BY <1>1, <1>2 DEF QueueInv, Blocks
<1>4. \A side \in Side : Reserved(q, side) = {}
  <2> DEFINE a == queue[q].cnt["READ"]
             b == queue[q].cnt["WRITE"]
             x == Cardinality(Reserved(q, "READ"))
             y == Cardinality(Reserved(q, "WRITE"))
  <2>1. (a + x) + (b + y) = queue[q].len /\ a + b = queue[q].len
    BY <1>1 DEF QueueInv, Sums, Stored, Free
  <2>2. a \in Nat /\ b \in Nat /\ x \in Nat /\ y \in Nat
    BY ReservedFinite, MaxLenFacts, SideFacts DEF QueueInv, Blocks, QueueCb
  <2>3. x = 0 /\ y = 0
    <3> HIDE DEF a, b, x, y
    <3> QED BY <2>1, <2>2
  <2> QED BY <2>3, ReservedFinite DEF Side
<1>5. \A p \in Queue, side \in Side : Reserved(p, side)' = Reserved(p, side)
  BY <1>1 DEF Reserved, Woken, Waiting
<1>6. Blocks'
  <2>1. q \notin Elems(freeQueue) /\ freeQueue \in Seq(Queue)
    BY <1>1 DEF QueueInv, Blocks
  <2>2. /\ freeQueue' \in Seq(Queue) /\ NoDup(freeQueue')
        /\ Elems(freeQueue') = {q} \cup Elems(freeQueue)
    <3>1. one \in Seq(Queue) /\ NoDup(one) /\ Elems(one) = {q}
      BY DEF NoDup, Elems
    <3>2. Elems(one) \cap Elems(freeQueue) = {}
      BY <2>1, <3>1
    <3> HIDE DEF one
    <3> QED BY <1>1, <3>1, <3>2, ConcatElems DEF QueueInv, Blocks
  <2>3. Elems(freeQueue) \subseteq Queue
    BY <2>1, ElemsType
  <2>4. \A p \in Elems(freeQueue') : ~queue'[p].used
    BY <1>3, <2>1, <2>2, <2>3 DEF QueueInv, Blocks
  <2> QED BY <1>3, <2>2, <2>4 DEF Blocks
<1>7. \A p \in Queue : queue'[p].used => Sums(p)'
  <2> SUFFICES ASSUME NEW p \in Queue, p # q, queue'[p].used
               PROVE  Sums(p)'
    BY <1>3
  <2>1. queue'[p] = queue[p] /\ Stored(p)' = Stored(p) /\ Free(p)' = Free(p)
    BY <1>3, <1>5, SideFacts DEF Stored, Free
  <2> QED BY <2>1 DEF QueueInv, Sums
<1>8. NobodyWaitsInVain'
  BY <1>1, <1>3 DEF QueueInv, NobodyWaitsInVain
<1>9. WokenOnLiveQueue'
  BY <1>3, <1>4, <1>5 DEF QueueInv, WokenOnLiveQueue
<1>10. Core(os') /\ Waiters'
  BY <1>1 DEF QueueInv, Waiters, On
<1>11. Content(q)' = <<>> /\ \A p \in Queue \ {q} : Content(p)' = Content(p)
  <2>1. Content(q)' = <<>>
    BY <1>3 DEF Content
  <2>2. \A p \in Queue \ {q} : Content(p)' = Content(p)
    <3> SUFFICES ASSUME NEW p \in Queue \ {q} PROVE Content(p)' = Content(p)
      OBVIOUS
    <3>1. queue'[p] = queue[p] /\ Stored(p)' = Stored(p)
      BY <1>3, <1>5, SideFacts DEF Stored
    <3> QED BY <3>1 DEF Content
  <2> QED BY <2>1, <2>2
<1>12. queue[q].len \in Nat \ {0}
  BY MaxLenFacts DEF QueueInv, Blocks, QueueCb
<1>13. AbstractStep
  BY <1>1, <1>3, <1>11, <1>12, DeletionMaps
<1> QED BY <1>6, <1>7, <1>8, <1>9, <1>10, <1>13 DEF QueueInv

LEMMA QueueTakeStep ==
  ASSUME QueueInv, NEW q \in Queue, NEW type \in OpType, NEW m \in Msg \cup {NoMsg},
         SideOf(type) = "WRITE" => m \in Msg, QueueTake(q, type, m)
  PROVE  QueueInv' /\ AbstractStep
<1> DEFINE side == SideOf(type)
           k == [queue[q].cnt EXCEPT ![side] = @ - 1]
<1>1. /\ TaskContext \/ IrqContext
      /\ queue[q].used /\ queue[q].cnt[side] > 0
      /\ Operate(os, [queue[q] EXCEPT !.cnt[side] = @ - 1], q, type, m)
      /\ call' = call /\ freeQueue' = freeQueue
  BY DEF QueueTake, FreeTaskContext
<1>2. side \in Side /\ Other(side) \in Side /\ Other(side) # side
  BY SideFacts
<1> HIDE DEF side
<1>3. /\ queue[q] \in QueueCb /\ queue[q].cnt \in [Side -> 0 .. MaxLen]
      /\ [queue[q] EXCEPT !.cnt[side] = @ - 1] = [queue[q] EXCEPT !.cnt = k]
  BY <1>2 DEF QueueInv, Blocks, QueueCb
<1>4. /\ k \in [Side -> 0 .. MaxLen] /\ k[side] + 1 = queue[q].cnt[side] /\ k[side] \in Nat
      /\ k[Other(side)] = queue[q].cnt[Other(side)]
  BY <1>1, <1>2, <1>3, MaxLenFacts
<1>5. os.list[ReadWriteList[side][q]] = <<>>
  <2>1. queue[q].cnt[side] # 0
    BY <1>1
  <2> QED BY <1>2, <2>1 DEF QueueInv, NobodyWaitsInVain
<1> HIDE DEF k
<1>6. k[side] + Cardinality(Reserved(q, side) \ {}) + 1
        = queue[q].cnt[side] + Cardinality(Reserved(q, side))
  <2>1. Reserved(q, side) \ {} = Reserved(q, side) /\ Cardinality(Reserved(q, side)) \in Nat
    BY ReservedFinite
  <2> QED BY <1>4, <2>1
<1>7. Takes(q, side, {}, k)
  <2>1. DOMAIN call' = Task /\ \A t \in Task : call'[t] = IF t \in {} THEN NoCall ELSE call[t]
    BY <1>1 DEF QueueInv, Waiters
  <2> QED BY <1>4, <1>5, <1>6, <2>1 DEF Takes
<1> QED BY <1>1, <1>3, <1>4, <1>7, OperateStep DEF side

LEMMA QueueWaitStep ==
  ASSUME QueueInv, NEW q \in Queue, NEW type \in OpType, NEW m \in Msg \cup {NoMsg},
         NEW n \in QueueTimeouts, QueueWait(q, type, m, n),
         [queue |-> q, type |-> type, msg |-> m] \in QueueCall
  PROVE  QueueInv' /\ AbstractStep
<1> PICK t : t = os.run
  OBVIOUS
<1> DEFINE c == [queue |-> q, type |-> type, msg |-> m]
           side == SideOf(type)
           h == ReadWriteList[side][q]
<1>1. /\ TaskContext /\ os.lock = 0 /\ queue[q].used /\ queue[q].cnt[side] = 0
      /\ Block(h, "PEND_QUEUE", n, c) /\ queue' = queue /\ freeQueue' = freeQueue
      /\ t \in Task => call[t] = NoCall
  BY DEF QueueWait, FreeTaskContext, Ready2Call, qvars
<1>2. /\ side \in Side /\ h \in WaitList /\ n \in Ticks \cup {LOS_WAIT_FOREVER}
      /\ "PEND_QUEUE" \in {"PEND", "PEND_QUEUE"}
      /\ c \in QueueCall /\ c.queue = q /\ c.type = type /\ c # NoCall
  BY QueueAssumption, SideFacts, ListFacts
<1>3. t \in Task /\ "TIMEOUT" \notin os.status[t] /\ call[t] = NoCall
  BY <1>1, CallerReady DEF QueueInv, Waiters
<1>4. /\ Core(os') /\ \A u \in Task : On(os', u) = IF u = t THEN {h} ELSE On(os, u)
      /\ \A u \in Task \ {t} : os'.status[u] = os.status[u]
      /\ os'.status[t] \subseteq os.status[t] \cup {"PEND_QUEUE", "TIMEOUT"}
  <2> HIDE DEF c, side, h
  <2> QED BY <1>1, <1>2, <1>3, BlockStep DEF QueueInv
<1>5. call' = [call EXCEPT ![t] = c]
  BY <1>1 DEF Block
<1> HIDE DEF c, h
<1>6. /\ os \in KernelState /\ os' \in KernelState /\ Consistent(os) /\ Consistent(os')
  BY <1>4 DEF QueueInv, Core, Consistent
<1>7. Waiters'
  <2>1. DOMAIN call' = Task /\ call'[t] = c /\ \A u \in Task \ {t} : call'[u] = call[u]
    BY <1>3, <1>5 DEF QueueInv, Waiters
  <2>2. \A u \in Task : /\ "PEND" \notin os'.status[u]
                        /\ "TIMEOUT" \in os'.status[u] => call'[u] # NoCall
    BY <1>2, <1>3, <1>4, <2>1 DEF QueueInv, Waiters
  <2>3. SideLists \subseteq WaitList
    BY SideListsFacts
  <2>4. \A u \in Task, g \in SideLists : g \in On(os', u) =>
          call'[u] \in QueueCall /\ g = ReadWriteList[SideOf(call'[u].type)][call'[u].queue]
    <3> SUFFICES ASSUME NEW u \in Task, NEW g \in SideLists, g \in On(os', u)
                 PROVE  /\ call'[u] \in QueueCall
                        /\ g = ReadWriteList[SideOf(call'[u].type)][call'[u].queue]
      OBVIOUS
    <3>1. CASE u = t
      BY <1>2, <1>4, <2>1, <3>1 DEF h
    <3>2. CASE u # t
      BY <1>4, <2>1, <3>2 DEF QueueInv, Waiters
    <3> QED BY <3>1, <3>2
  <2> QED BY <2>1, <2>2, <2>4 DEF Waiters
<1>8. \A p \in Queue, sd \in Side : Reserved(p, sd)' = Reserved(p, sd)
  <2> SUFFICES ASSUME NEW p \in Queue, NEW sd \in Side, NEW u \in User
               PROVE  Claims(os', call', p, sd, u) <=> Claims(os, call, p, sd, u)
    BY <1>6, ReservedSame
  <2>0. \A v \in Task \ {t} : call'[v] = call[v]
    BY <1>3, <1>5 DEF QueueInv, Waiters
  <2>1. CASE u = t
    <3>1. ~Claims(os, call, p, sd, u)
      BY <1>3, <2>1, CallAssumption DEF Claims
    <3>2. os'.status[t] \cap {"PEND", "PEND_QUEUE"} # {}
      <4>1. h \in On(os', t) /\ h \in Heads
        BY <1>2, <1>3, <1>4, HeadsFacts
      <4>2. t \in Elems(os'.list[h])
        BY <4>1 DEF On
      <4> QED BY <1>2, <1>3, <1>6, <4>2, WaitsStatus
    <3> QED BY <2>1, <3>1, <3>2 DEF Claims, Waits
  <2>2. CASE u # t
    BY <1>4, <2>0, <2>2 DEF Claims, Task
  <2> QED BY <2>1, <2>2
<1>9. \A p \in Queue, sd \in Side :
        \/ os.list[ReadWriteList[sd][p]] = <<>> => os'.list[ReadWriteList[sd][p]] = <<>>
        \/ queue[p].used /\ queue[p].cnt[sd] = 0
  <2> SUFFICES ASSUME NEW p \in Queue, NEW sd \in Side, ~(p = q /\ sd = side)
               PROVE  os.list[ReadWriteList[sd][p]] = <<>>
                        => os'.list[ReadWriteList[sd][p]] = <<>>
    BY <1>1
  <2> DEFINE g == ReadWriteList[sd][p]
  <2>1. g \in WaitList /\ g # h
    BY <1>2, ListFacts DEF h
  <2> HIDE DEF g
  <2>2. \A u \in Task : g \in On(os', u) => g \in On(os, u)
    BY <1>4, <2>1
  <2>3. os.list[g] = <<>> => os'.list[g] = <<>>
    BY <1>6, <2>1, <2>2, NobodyOn
  <2> QED BY <2>3 DEF g
<1> QED BY <1>1, <1>4, <1>7, <1>8, <1>9, CalmStep

LEMMA QueueReturnStep ==
  ASSUME QueueInv, NEW c \in QueueCall, QueueReturn(c)
  PROVE  QueueInv' /\ AbstractStep
<1> PICK t : t = os.run
  OBVIOUS
<1>1. /\ TaskContext /\ call[t] = c /\ call' = [call EXCEPT ![t] = NoCall]
      /\ freeQueue' = freeQueue /\ t \in Task \ {Idle} /\ t \in User
      /\ "READY" \in os.status[t] /\ Consistent(os)
  BY CallerReady DEF QueueReturn, InCall, Return, QueueInv, Core, Task
<1>2. CASE TimedOut
  <2>1. /\ os' = ClearTimeout(os) /\ queue' = queue /\ "TIMEOUT" \in os.status[t]
    BY <1>2 DEF QueueReturn, TimedOut
  <2>2. /\ Steady(os, os') /\ "TIMEOUT" \notin os'.status[t] /\ On(os, t) \cap WaitList = {}
        /\ \A u \in Task : On(os', u) = On(os, u)
        /\ \A u \in Task \ {t} : os'.status[u] = os.status[u]
    BY <1>1, <2>1, ClearTimeoutStep DEF QueueInv
  <2>3. DOMAIN call' = Task /\ call'[t] = NoCall /\ \A u \in Task \ {t} : call'[u] = call[u]
    BY <1>1 DEF QueueInv, Waiters
  <2>4. /\ Core(os') /\ Waiters' /\ \A h \in WaitList : os.list[h] = <<>> => os'.list[h] = <<>>
    BY <1>1, <2>2, <2>3, SteadyWaiters DEF QueueInv
  <2>5. \A p \in Queue, sd \in Side : Reserved(p, sd)' = Reserved(p, sd)
    <3> SUFFICES ASSUME NEW p \in Queue, NEW sd \in Side, NEW u \in User
                 PROVE  Claims(os', call', p, sd, u) <=> Claims(os, call, p, sd, u)
      BY <1>1, <2>4, ReservedSame DEF Core
    <3>1. CASE u = t
      <4>1. ~Claims(os, call, p, sd, u)
        BY <2>1, <3>1 DEF Claims, Waits
      <4>2. call'[t] = NoCall
        BY <2>3
      <4> QED BY <3>1, <4>1, <4>2, CallAssumption DEF Claims
    <3>2. CASE u # t
      BY <2>2, <2>3, <3>2 DEF Claims, Task
    <3> QED BY <3>1, <3>2
  <2>6. \A p \in Queue, sd \in Side :
          os.list[ReadWriteList[sd][p]] = <<>> => os'.list[ReadWriteList[sd][p]] = <<>>
    BY <2>4, ListFacts
  <2> QED BY <1>1, <2>1, <2>4, <2>5, <2>6, CalmStep
<1>3. CASE ~TimedOut
  <2> PICK q : q = c.queue
    OBVIOUS
  <2> PICK type : type = c.type
    OBVIOUS
  <2> DEFINE side == SideOf(type)
             k == queue[q].cnt
  <2>1. /\ Operate(os, queue[q], q, type, c.msg) /\ "TIMEOUT" \notin os.status[t]
        /\ q \in Queue /\ type \in OpType /\ side \in Side /\ c.msg \in Msg \cup {NoMsg}
        /\ side = "WRITE" => c.msg \in Msg
    BY <1>3, SideFacts, WriteFacts DEF QueueReturn, TimedOut
  <2>2. t \in Reserved(q, side)
    <3>1. os.status[t] \cap {"PEND", "PEND_QUEUE"} = {}
      BY <1>1 DEF Consistent, TaskAgrees, Blocked
    <3>2. Claims(os, call, q, side, t)
      BY <1>1, <2>1, <3>1 DEF Claims, Waits
    <3> QED BY <1>1, <2>1, <3>2, ReservedClaims
  <2>3. queue[q].used
    BY <2>1, <2>2 DEF QueueInv, WokenOnLiveQueue
  <2>4. /\ queue[q] \in QueueCb /\ k \in [Side -> 0 .. MaxLen]
        /\ queue[q] = [queue[q] EXCEPT !.cnt = k]
    BY <2>1 DEF QueueInv, Blocks, QueueCb
  <2> HIDE DEF side
  <2>5. Cardinality(Reserved(q, side) \ {t}) + 1 = Cardinality(Reserved(q, side))
    <3>1. /\ IsFiniteSet(Reserved(q, side)) /\ Cardinality(Reserved(q, side)) \in Nat
      BY ReservedFinite
    <3>2. Cardinality(Reserved(q, side) \ {t}) = Cardinality(Reserved(q, side)) - 1
      BY <2>2, <3>1, FS_RemoveElement
    <3> QED BY <3>1, <3>2
  <2>6. k[side] + Cardinality(Reserved(q, side) \ {t}) + 1
          = queue[q].cnt[side] + Cardinality(Reserved(q, side))
    <3>1. k[side] \in Nat /\ Cardinality(Reserved(q, side) \ {t}) \in Nat
      <4>1. Reserved(q, side) \ {t} \in SUBSET User
        BY DEF Reserved
      <4>2. \A S \in SUBSET User : Cardinality(S) \in Nat
        BY UserFinite, FS_Subset, FS_CardinalityType
      <4> QED BY <2>1, <2>4, <4>1, <4>2, MaxLenFacts
    <3> HIDE DEF k
    <3>2. (k[side] + Cardinality(Reserved(q, side) \ {t})) + 1
            = k[side] + (Cardinality(Reserved(q, side) \ {t}) + 1)
      BY <3>1
    <3> QED BY <2>5, <3>2 DEF k
  <2>7. DOMAIN call' = Task /\ \A u \in Task : call'[u] = IF u \in {t} THEN NoCall ELSE call[u]
    BY <1>1 DEF QueueInv, Waiters
  <2>8. os.list[ReadWriteList[side][q]] # <<>> => k[side] = 0
    BY <2>1 DEF QueueInv, NobodyWaitsInVain
  <2>9. Takes(q, side, {t}, k)
    BY <2>2, <2>6, <2>7, <2>8 DEF Takes
  <2> QED BY <1>1, <2>1, <2>3, <2>4, <2>9, OperateStep DEF side
<1> QED BY <1>2, <1>3

LEMMA QueueKernelStep ==
  ASSUME ~IsrSuspends, QueueInv, KernelStep, UNCHANGED qvars
  PROVE  QueueInv' /\ AbstractStep
<1>1. /\ Steady(os, os') /\ call' = call /\ queue' = queue /\ freeQueue' = freeQueue
  BY KernelStepSteady DEF QueueInv, qvars
<1>2. /\ Core(os') /\ Waiters' /\ \A h \in WaitList : os.list[h] = <<>> => os'.list[h] = <<>>
  BY <1>1, SteadyWaiters DEF QueueInv, Waiters
<1>3. \A p \in Queue, sd \in Side : Reserved(p, sd)' = Reserved(p, sd)
  <2> SUFFICES ASSUME NEW p \in Queue, NEW sd \in Side, NEW u \in User
               PROVE  Claims(os', call', p, sd, u) <=> Claims(os, call, p, sd, u)
    BY <1>2, ReservedSame DEF QueueInv, Core
  <2>1. u \in Task
    BY DEF Task
  <2>2. \/ os'.status[u] \cap Waits = os.status[u] \cap Waits
        \/ "TIMEOUT" \in os.status[u] /\ "TIMEOUT" \in os'.status[u]
    BY <2>1, KernelStepWaits DEF QueueInv, WaitsStay, ExpiresOnly
  <2> QED BY <1>1, <2>2 DEF Claims, Waits
<1>4. \A p \in Queue, sd \in Side :
        os.list[ReadWriteList[sd][p]] = <<>> => os'.list[ReadWriteList[sd][p]] = <<>>
  BY <1>2, ListFacts
<1> QED BY <1>1, <1>2, <1>3, <1>4, CalmStep

LEMMA QueueTaskDeleteStep ==
  ASSUME QueueInv, NEW t \in Task, MayDelete(t), DeleteStep(t), UNCHANGED qvars
  PROVE  QueueInv' /\ AbstractStep
<1>1. /\ Steady(os, os') /\ os'.status[t] = {"UNUSED"}
      /\ \A u \in Task \ {t} : os'.status[u] = os.status[u]
      /\ call' = [call EXCEPT ![t] = NoCall] /\ queue' = queue /\ freeQueue' = freeQueue
  BY DeleteStepSteady DEF QueueInv, qvars
<1>2. "TIMEOUT" \notin os'.status[t] /\ On(os', t) \cap WaitList = {}
  BY <1>1 DEF Steady, Core, Consistent, TaskAgrees
<1>3. DOMAIN call' = Task /\ call'[t] = NoCall /\ \A u \in Task \ {t} : call'[u] = call[u]
  BY <1>1 DEF QueueInv, Waiters
<1>4. /\ Core(os') /\ Waiters' /\ \A h \in WaitList : os.list[h] = <<>> => os'.list[h] = <<>>
  BY <1>1, <1>2, <1>3, SteadyWaiters DEF QueueInv
<1>5. \A p \in Queue, sd \in Side : Reserved(p, sd)' = Reserved(p, sd)
  <2> SUFFICES ASSUME NEW p \in Queue, NEW sd \in Side, NEW u \in User
               PROVE  Claims(os', call', p, sd, u) <=> Claims(os, call, p, sd, u)
    BY <1>4, ReservedSame DEF QueueInv, Core
  <2>1. CASE u = t
    <3>1. ~Claims(os, call, p, sd, t)
      <4> SUFFICES ASSUME Claims(os, call, p, sd, t) PROVE FALSE
        OBVIOUS
      <4>1. Waiting(t) <=> os.status[t] \cap {"PEND", "PEND_QUEUE"} # {}
        BY WaitsStatus DEF Waiting, QueueInv, Core
      <4>2. Woken(t)
        BY <4>1, CallAssumption DEF Claims, Waits, Woken
      <4> QED BY <4>2 DEF MayDelete
    <3> QED BY <1>3, <2>1, <3>1, CallAssumption DEF Claims
  <2>2. CASE u # t
    BY <1>1, <1>3, <2>2 DEF Claims, Task
  <2> QED BY <2>1, <2>2
<1>6. \A p \in Queue, sd \in Side :
        os.list[ReadWriteList[sd][p]] = <<>> => os'.list[ReadWriteList[sd][p]] = <<>>
  BY <1>4, ListFacts
<1> QED BY <1>1, <1>4, <1>5, <1>6, CalmStep

LEMMA QueueNextStep ==
  ASSUME ~IsrSuspends, QueueInv, [QueueNext]_queueVars
  PROVE  QueueInv' /\ AbstractStep
<1>0. \A i \in Input : /\ i.type \in OpType /\ i.msg \in Msg \cup {NoMsg}
                       /\ SideOf(i.type) = "WRITE" => i.msg \in Msg
                       /\ \A q \in Queue : [queue |-> q, type |-> i.type, msg |-> i.msg] \in QueueCall
  BY DEF Input, OpType, QueueCall, SideOf
<1>1. CASE QueueStep
  <2>1. CASE \E n \in QueueLens : LOS_QueueCreate(n)
    BY <2>1, QueueCreateStep
  <2>2. CASE \E q \in Queue : LOS_QueueDelete(q)
    BY <2>2, QueueDeleteStep
  <2>3. CASE \E q \in Queue, i \in Input : QueueTake(q, i.type, i.msg)
    BY <1>0, <2>3, QueueTakeStep
  <2>4. CASE \E q \in Queue, i \in Input, n \in QueueTimeouts : QueueWait(q, i.type, i.msg, n)
    BY <1>0, <2>4, QueueWaitStep
  <2>5. CASE \E c \in QueueCall : QueueReturn(c)
    BY <2>5, QueueReturnStep
  <2> QED BY <1>1, <2>1, <2>2, <2>3, <2>4, <2>5 DEF QueueStep
<1>2. CASE KernelStep /\ UNCHANGED qvars
  BY <1>2, QueueKernelStep
<1>3. CASE \E t \in Task : MayDelete(t) /\ DeleteStep(t) /\ UNCHANGED qvars
  BY <1>3, QueueTaskDeleteStep
<1>4. CASE UNCHANGED queueVars
  <2>1. /\ os' = os /\ call' = call /\ queue' = queue /\ freeQueue' = freeQueue
    BY <1>4 DEF queueVars
  <2>2. \A p, sd : Reserved(p, sd)' = Reserved(p, sd)
    BY <2>1 DEF Reserved, Woken, Waiting
  <2>3. Core(os') /\ Waiters'
    BY <2>1 DEF QueueInv, Waiters, On
  <2> QED BY <2>1, <2>2, <2>3, CalmStep
<1> QED BY <1>1, <1>2, <1>3, <1>4 DEF QueueNext

----------------------------------------------------------------------------
\* The invariant of the queues holds whatever the tasks, the handlers and the tick do to
\* the tasks that wait.
THEOREM QueueInvariance ==
  ASSUME ~IsrSuspends
  PROVE  QueueSpec => []QueueInv
<1>1. QueueInit => QueueInv
  BY QueueInitInv
<1>2. QueueInv /\ [QueueNext]_queueVars => QueueInv'
  BY QueueNextStep
<1> QED BY <1>1, <1>2, PTL DEF QueueSpec

\* The calls are those of los_queue.c.
LEMMA QueueCallType ==
  QueueSpec => [](call \in [Task -> QueueCall \cup {NoCall}])
<1> DEFINE P == call \in [Task -> QueueCall \cup {NoCall}]
<1>1. QueueInit => P
  BY DEF QueueInit, InitIpc
<1>2. P /\ [QueueNext]_queueVars => P'
  <2> SUFFICES ASSUME P, [QueueNext]_queueVars PROVE P'
    OBVIOUS
  <2>1. CASE QueueStep
    <3>1. CASE \E n \in QueueLens : LOS_QueueCreate(n)
      BY <3>1 DEF LOS_QueueCreate
    <3>2. CASE \E q \in Queue : LOS_QueueDelete(q)
      BY <3>2 DEF LOS_QueueDelete
    <3>3. CASE \E q \in Queue, i \in Input : QueueTake(q, i.type, i.msg)
      BY <3>3 DEF QueueTake
    <3>4. CASE \E q \in Queue, i \in Input, n \in QueueTimeouts : QueueWait(q, i.type, i.msg, n)
      <4>1. \A q \in Queue, i \in Input :
              [queue |-> q, type |-> i.type, msg |-> i.msg] \in QueueCall
        BY DEF Input, QueueCall
      <4> PICK c \in QueueCall : call' = [call EXCEPT ![os.run] = c]
        BY <3>4, <4>1 DEF QueueWait, Block
      <4> QED OBVIOUS
    <3>5. CASE \E c \in QueueCall : QueueReturn(c)
      BY <3>5 DEF QueueReturn, Return
    <3> QED BY <2>1, <3>1, <3>2, <3>3, <3>4, <3>5 DEF QueueStep
  <2>2. CASE KernelStep
    BY <2>2 DEF KernelStep
  <2>3. CASE \E t \in Task : DeleteStep(t)
    BY <2>3 DEF DeleteStep
  <2>4. CASE UNCHANGED queueVars
    BY <2>4 DEF queueVars
  <2> QED BY <2>1, <2>2, <2>3, <2>4 DEF QueueNext
<1> QED BY <1>1, <1>2, PTL DEF QueueSpec

\* A queue implements BoundedQueue: messages come out in the order they went in, or first
\* when they were written to the head; none is lost, doubled or overwritten, whoever waits
\* and whatever is handed over between two tasks.
THEOREM QueueImplements ==
  ASSUME ~IsrSuspends
  PROVE  QueueSpec => ImplementsQueue
<1>1. QueueInit => Abstract!Init
  BY DEF QueueInit, osQueueInit, Fresh, Content, Abstract!Init
<1>2. QueueInv /\ [QueueNext]_queueVars => [Abstract!Next]_(Abstract!bvars)
  BY QueueNextStep DEF AbstractStep
<1> QED BY <1>1, <1>2, QueueInvariance, PTL DEF QueueSpec, ImplementsQueue, Abstract!Spec

\* The state keeps its types, and every node is filled or free and is counted or
\* reserved for one woken task, with head and tail as far apart as there are messages.
THEOREM QueueNodesAddUp ==
  ASSUME ~IsrSuspends
  PROVE  QueueSpec => []NodesAddUp
<1>1. QueueInv /\ call \in [Task -> QueueCall \cup {NoCall}] => NodesAddUp
  BY DEF QueueInv, Core, Consistent, TypeOK, QueueTypeOK, Blocks, NodesAddUp, Sums
<1> QED BY <1>1, QueueInvariance, QueueCallType, PTL

\* No reader waits while a message is there for it, no writer while a node is free, and
\* nobody on a queue that was deleted.
THEOREM QueueNobodyWaitsInVain ==
  ASSUME ~IsrSuspends
  PROVE  QueueSpec => []NobodyWaitsInVain
<1>1. QueueInv => NobodyWaitsInVain
  BY DEF QueueInv
<1> QED BY <1>1, QueueInvariance, PTL

\* A task that was handed a node finds its queue still in use when it runs, although
\* osQueueOperate does not look again.
THEOREM QueueWokenOnLive ==
  ASSUME ~IsrSuspends
  PROVE  QueueSpec => []WokenOnLiveQueue
<1>1. QueueInv => WokenOnLiveQueue
  BY DEF QueueInv
<1> QED BY <1>1, QueueInvariance, PTL

\* With tasks blocking on both sides of the queues, timing out and being deleted, every
\* task control block is on exactly the lists its status says.
THEOREM QueueListsAgree ==
  ASSUME ~IsrSuspends
  PROVE  QueueSpec => []ListsAgree
<1>1. QueueInv => ListsAgree
  BY ConsistentLists DEF QueueInv, Core, ListsAgree
<1> QED BY <1>1, QueueInvariance, PTL

----------------------------------------------------------------------------
\* The mail queues.

\* Task t was given its block of queue q and has not fetched it yet.
Got(s, c, q, t) == c[t] = [mail |-> q] /\ s.status[t] \cap Waits = {}

\* Who is on a mail list is inside osQueueMailAlloc of that queue.
MailWaiters ==
  /\ \A t \in Task, q \in Queue : MemList[q] \in On(os, t) => call[t] = [mail |-> q]
  /\ \A t \in Task : "UNUSED" \in os.status[t] => call[t] = NoCall

\* The blocks: free ones are promised to nobody, and no block to two tasks.
MailBlocks ==
  /\ pool \subseteq MailBlock
  /\ puwMsg \in [Task -> MailBlock \cup {NoMail}]
  /\ \A t \in Task : puwMsg[t] \notin pool
  /\ \A t, u \in Task : puwMsg[t] = puwMsg[u] => t = u \/ puwMsg[t] = NoMail

\* A task waits only while the pool of its queue is empty and the queue in use.
PoolEmpty ==
  \A q \in Queue : os.list[MemList[q]] # <<>> =>
    pool \cap MailPool[q] = {} /\ queue[q].used

\* A task that waits no longer was given a block of the pool it asked.
Handed == \A t \in Task, q \in Queue : Got(os, call, q, t) => puwMsg[t] \in MailPool[q]

\* The inductive invariant of the mail queues.
MailInv ==
  /\ QueueInv
  /\ call \in [Task -> QueueCall \cup MailCall \cup {NoCall}]
  /\ MailWaiters /\ MailBlocks /\ PoolEmpty /\ Handed

----------------------------------------------------------------------------
\* Constants.

LEMMA MailLists ==
  ASSUME NEW q \in Queue
  PROVE  /\ MemList[q] \in WaitList /\ MemList[q] \in Heads /\ MemList[q] \notin SideLists
         /\ \A r \in Queue : MemList[r] = MemList[q] => r = q
         /\ MailPool[q] \subseteq MailBlock /\ NoMail \notin MailPool[q]
         /\ \A r \in Queue : r # q => MailPool[r] \cap MailPool[q] = {}
<1>1. MemList[q] \in WaitList /\ MemList[q] \in Heads
  BY QueueAssumption, HeadsFacts
<1>2. MemList[q] \notin SideLists
  BY MailAssumption DEF SideLists
<1>3. MailPool[q] \subseteq MailBlock
  BY DEF MailBlock
<1> QED BY <1>1, <1>2, <1>3, MailAssumption

LEMMA MailCalls ==
  ASSUME NEW q \in Queue
  PROVE  /\ [mail |-> q] \in MailCall /\ [mail |-> q] # NoCall /\ [mail |-> q] \notin QueueCall
         /\ \A r \in Queue : [mail |-> r] = [mail |-> q] => r = q
<1>1. [mail |-> q] \in MailCall /\ [mail |-> q] # NoCall
  BY MailCallAssumption DEF MailCall
<1>2. \A r \in Queue : [mail |-> r] = [mail |-> q] => r = q
  <2>1. \A r : [mail |-> r].mail = r
    OBVIOUS
  <2> QED BY <2>1
<1>3. [mail |-> q] \notin QueueCall
  <2> SUFFICES ASSUME [mail |-> q] \in QueueCall PROVE FALSE
    OBVIOUS
  <2>1. DOMAIN [mail |-> q] = {"mail"}
    OBVIOUS
  <2>2. \A c \in QueueCall : "queue" \in DOMAIN c
    BY DEF QueueCall
  <2> QED BY <2>1, <2>2
<1> QED BY <1>1, <1>2, <1>3

LEMMA CallsApart == MailCall \cap QueueCall = {} /\ NoCall \notin MailCall
<1>1. \A c \in MailCall : \E q \in Queue : c = [mail |-> q]
  BY DEF MailCall
<1> QED BY <1>1, MailCalls, MailCallAssumption

\* What the first task on a mail list is like.
LEMMA FirstAllocator ==
  ASSUME MailInv, NEW q \in Queue, os.list[MemList[q]] # <<>>
  PROVE  LET t == Head(os.list[MemList[q]])
         IN  /\ t \in Task /\ t \in User /\ call[t] = [mail |-> q]
             /\ "PEND_QUEUE" \in os.status[t] /\ "PEND" \notin os.status[t]
<1> DEFINE h == MemList[q]
           l == os.list[h]
           t == Head(l)
<1>1. h \in WaitList /\ h \in Heads
  BY MailLists
<1> HIDE DEF h
<1>2. l \in Seq(Task) /\ NoDup(l) /\ l # <<>>
  BY <1>1 DEF h, MailInv, QueueInv, Core, Consistent, KernelState, WellLinked
<1> HIDE DEF l
<1>3. t \in Task /\ t \in Elems(l)
  BY <1>2, HeadTailElems
<1> HIDE DEF t
<1>4. h \in On(os, t)
  BY <1>1, <1>3 DEF On, l
<1>5. os.status[t] \cap {"PEND", "PEND_QUEUE"} # {} /\ "PEND" \notin os.status[t]
  BY <1>1, <1>3, <1>4 DEF MailInv, QueueInv, Core, Consistent, TaskAgrees, Waiters
<1>6. t # Idle
  BY <1>5 DEF MailInv, QueueInv, Core, Consistent, IdleStays
<1>7. call[t] = [mail |-> q]
  BY <1>3, <1>4 DEF h, MailInv, MailWaiters
<1> QED BY <1>3, <1>5, <1>6, <1>7 DEF h, l, t, Task

----------------------------------------------------------------------------
\* The steps.

\* A step that hands out no block and lets nobody start to wait for one.
LEMMA MailCalm ==
  ASSUME MailInv, QueueInv', call' \in [Task -> QueueCall \cup MailCall \cup {NoCall}],
         \A t \in Task, q \in Queue :
           /\ MemList[q] \in On(os', t) => MemList[q] \in On(os, t) /\ call'[t] = call[t]
           /\ Got(os', call', q, t) => Got(os, call, q, t) /\ puwMsg'[t] = puwMsg[t],
         \A t \in Task : "UNUSED" \in os'.status[t] => call'[t] = NoCall,
         \A q \in Queue : queue[q].used /\ os.list[MemList[q]] # <<>> => queue'[q].used,
         pool' \subseteq pool, puwMsg' \in [Task -> MailBlock \cup {NoMail}],
         \A t \in Task : puwMsg'[t] \in {puwMsg[t], NoMail}
  PROVE  MailInv'
<1>1. os \in KernelState /\ os' \in KernelState
  BY DEF MailInv, QueueInv, Core, Consistent
<1>2. MailWaiters'
  BY DEF MailInv, MailWaiters
<1>3. MailBlocks'
  BY MailAssumption DEF MailInv, MailBlocks
<1>4. PoolEmpty'
  <2> SUFFICES ASSUME NEW q \in Queue, os'.list[MemList[q]] # <<>>
               PROVE  pool' \cap MailPool[q] = {} /\ queue'[q].used
    BY DEF PoolEmpty
  <2>1. os.list[MemList[q]] # <<>>
    BY <1>1, MailLists, NobodyOn
  <2> QED BY <2>1 DEF MailInv, PoolEmpty
<1>5. Handed'
  BY DEF MailInv, Handed
<1> QED BY <1>2, <1>3, <1>4, <1>5 DEF MailInv

\* Passing a message to the other side of a queue is nothing to the mail queues.
LEMMA OperateMail ==
  ASSUME MailInv, TaskContext \/ IrqContext, NEW q \in Queue, NEW type \in OpType,
         NEW m \in Msg \cup {NoMsg}, NEW c \in QueueCb, c.used = queue[q].used, c.head < c.len,
         Operate(os, c, q, type, m)
  PROVE  /\ \A t \in Task : On(os', t) \cap WaitList \subseteq On(os, t)
         /\ \A t \in Task : call[t] \notin QueueCall => os'.status[t] = os.status[t]
         /\ \A t \in Task : "UNUSED" \in os'.status[t] => "UNUSED" \in os.status[t]
         /\ \A p \in Queue : queue'[p].used = queue[p].used
<1> DEFINE l == ReadWriteList[Other(SideOf(type))][q]
           d == osQueueBufferOperate(c, type, m)
           t == Head(os.list[l])
<1>1. Other(SideOf(type)) \in Side
  BY SideFacts
<1>2. d \in QueueCb /\ d.used = c.used
  BY BufferFacts
<1>3. /\ os.list[l] = <<>> => os' = os
      /\ os.list[l] # <<>> => os' = Reschedule(osTaskWake(os, t, "PEND_QUEUE"))
      /\ \E e : queue' = [queue EXCEPT ![q] = e] /\ e.used = d.used
  <2>1. /\ os.list[l] = <<>> => os' = os
        /\ os.list[l] # <<>> => os' = Reschedule(osTaskWake(os, t, "PEND_QUEUE"))
        /\ queue' = [queue EXCEPT ![q] =
             IF os.list[l] # <<>> THEN d ELSE [d EXCEPT !.cnt[Other(SideOf(type))] = @ + 1]]
    BY DEF Operate
  <2> DEFINE e == IF os.list[l] # <<>> THEN d
                  ELSE [d EXCEPT !.cnt[Other(SideOf(type))] = @ + 1]
  <2>2. e.used = d.used
    BY <1>2 DEF QueueCb
  <2>3. queue' = [queue EXCEPT ![q] = e]
    BY <2>1
  <2> HIDE DEF e
  <2> QED BY <2>1, <2>2, <2>3
<1> HIDE DEF d
<1>4. \A p \in Queue : queue'[p].used = queue[p].used
  BY <1>2, <1>3 DEF MailInv, QueueInv, Blocks
<1>5. CASE os.list[l] = <<>>
  BY <1>3, <1>4, <1>5
<1>6. CASE os.list[l] # <<>>
  <2>1. t \in Task /\ "PEND_QUEUE" \in os.status[t] /\ call[t] \in QueueCall
    BY <1>1, <1>6, FirstWaiter DEF MailInv, QueueInv
  <2> HIDE DEF t
  <2>2. /\ \A u \in Task : On(os', u) \cap WaitList
                             = IF u = t THEN {} ELSE On(os, u) \cap WaitList
        /\ \A u \in Task \ {t} : os'.status[u] = os.status[u]
        /\ os'.status[t] \ {"READY"} = os.status[t] \ {"PEND_QUEUE", "TIMEOUT"}
    BY <1>3, <1>6, <2>1, WakeStep DEF MailInv, QueueInv
  <2>3. \A u \in Task : "UNUSED" \in os'.status[u] => "UNUSED" \in os.status[u]
    BY <2>2
  <2> QED BY <1>4, <2>1, <2>2, <2>3, SMTT(30)
<1> QED BY <1>5, <1>6

\* A step that leaves the blocks alone and the tasks that are in no call of QueueCall, but
\* for one that enters such a call.
Beside ==
  /\ UNCHANGED <<pool, puwMsg>>
  /\ call' \in [Task -> QueueCall \cup MailCall \cup {NoCall}]
  /\ \A t \in Task :
       /\ \A h \in WaitList \ SideLists : h \in On(os', t) => h \in On(os, t)
       /\ call'[t] \in MailCall => call'[t] = call[t] /\ os'.status[t] = os.status[t]
       /\ call[t] \in MailCall => call'[t] = call[t]
       /\ "UNUSED" \in os'.status[t] => "UNUSED" \in os.status[t] /\ call'[t] = call[t]
  /\ \A q \in Queue : queue[q].used /\ os.list[MemList[q]] # <<>> => queue'[q].used

LEMMA MailBeside ==
  ASSUME MailInv, QueueInv', Beside
  PROVE  MailInv'
<1>1. \A t \in Task, q \in Queue :
        MemList[q] \in On(os', t) => MemList[q] \in On(os, t) /\ call'[t] = call[t]
  <2> SUFFICES ASSUME NEW t \in Task, NEW q \in Queue, MemList[q] \in On(os', t)
               PROVE  MemList[q] \in On(os, t) /\ call'[t] = call[t]
    OBVIOUS
  <2>1. MemList[q] \in On(os, t)
    BY MailLists DEF Beside
  <2>2. call[t] = [mail |-> q]
    BY <2>1 DEF MailInv, MailWaiters
  <2> QED BY <2>1, <2>2, MailCalls DEF Beside
<1>2. \A t \in Task, q \in Queue : Got(os', call', q, t) => Got(os, call, q, t)
  <2> SUFFICES ASSUME NEW t \in Task, NEW q \in Queue, Got(os', call', q, t)
               PROVE  Got(os, call, q, t)
    OBVIOUS
  <2>1. call'[t] = [mail |-> q] /\ call'[t] \in MailCall
    BY MailCalls DEF Got
  <2>2. call[t] = call'[t] /\ os'.status[t] = os.status[t]
    BY <2>1 DEF Beside
  <2> QED BY <2>1, <2>2 DEF Got
<1>3. \A t \in Task : "UNUSED" \in os'.status[t] => call'[t] = NoCall
  BY DEF MailInv, MailWaiters, Beside
<1>4. /\ puwMsg' \in [Task -> MailBlock \cup {NoMail}] /\ puwMsg' = puwMsg /\ pool' = pool
      /\ call' \in [Task -> QueueCall \cup MailCall \cup {NoCall}]
      /\ \A q \in Queue : queue[q].used /\ os.list[MemList[q]] # <<>> => queue'[q].used
  BY DEF MailInv, MailBlocks, Beside
<1> QED BY <1>1, <1>2, <1>3, <1>4, MailCalm

\* The steps of the message queues.
LEMMA MailQueueStep ==
  ASSUME ~IsrSuspends, MailInv, QueueStep, UNCHANGED <<pool, puwMsg>>
  PROVE  MailInv' /\ AbstractStep
<1> DEFINE T == QueueCall \cup MailCall \cup {NoCall}
<1>0. \A i \in Input : /\ i.type \in OpType /\ i.msg \in Msg \cup {NoMsg}
                       /\ SideOf(i.type) = "WRITE" => i.msg \in Msg
                       /\ \A q \in Queue : [queue |-> q, type |-> i.type, msg |-> i.msg] \in QueueCall
  BY DEF Input, OpType, QueueCall, SideOf
<1>1. QueueInv' /\ AbstractStep
  BY QueueNextStep DEF QueueNext, MailInv
<1>2. /\ call \in [Task -> T] /\ Core(os) /\ pool' = pool /\ puwMsg' = puwMsg
      /\ \A q \in Queue : queue[q] \in QueueCb
  BY DEF MailInv, QueueInv, Blocks
<1>a. /\ MailCall \cap QueueCall = {} /\ NoCall \notin MailCall
  BY CallsApart
<1>3. CASE \E n \in QueueLens : LOS_QueueCreate(n)
  <2>1. os' = os /\ call' = call
    BY <1>3 DEF LOS_QueueCreate
  <2>2. \A q \in Queue : queue[q].used => queue'[q].used
    <3> PICK n \in QueueLens : LOS_QueueCreate(n)
      BY <1>3
    <3>1. queue' = [queue EXCEPT ![Head(freeQueue)] = Fresh(n, TRUE)]
      BY DEF LOS_QueueCreate
    <3>2. Fresh(n, TRUE).used
      BY FreshFacts
    <3> QED BY <3>1, <3>2 DEF MailInv, QueueInv, Blocks
  <2>3. Beside
    BY <1>2, <2>1, <2>2 DEF Beside, On
  <2> QED BY <1>1, <2>3, MailBeside
<1>4. CASE \E q \in Queue : LOS_QueueDelete(q)
  <2>1. os' = os /\ call' = call
    BY <1>4 DEF LOS_QueueDelete
  <2>2. \A q \in Queue : queue[q].used /\ os.list[MemList[q]] # <<>> => queue'[q].used
    BY <1>4 DEF LOS_QueueDelete, MailInv, QueueInv, Blocks
  <2>3. Beside
    BY <1>2, <2>1, <2>2 DEF Beside, On
  <2> QED BY <1>1, <2>3, MailBeside
<1>5. CASE \E q \in Queue, i \in Input : QueueTake(q, i.type, i.msg)
  <2> PICK q \in Queue, i \in Input : QueueTake(q, i.type, i.msg)
    BY <1>5
  <2> DEFINE side == SideOf(i.type)
             k == [queue[q].cnt EXCEPT ![side] = @ - 1]
             c == [queue[q] EXCEPT !.cnt = k]
  <2>1. /\ TaskContext \/ IrqContext
        /\ queue[q].used /\ queue[q].cnt[side] > 0 /\ call' = call
        /\ Operate(os, [queue[q] EXCEPT !.cnt[side] = @ - 1], q, i.type, i.msg)
    BY DEF QueueTake, FreeTaskContext
  <2>2. side \in Side /\ queue[q].head < queue[q].len
    BY <1>0, <2>1, SideFacts DEF MailInv, QueueInv, Sums
  <2> HIDE DEF side
  <2>3. /\ [queue[q] EXCEPT !.cnt[side] = @ - 1] = c /\ c.used = queue[q].used
        /\ c.head = queue[q].head /\ c.len = queue[q].len /\ c.cnt = k
    BY <1>2 DEF QueueCb
  <2>4. c \in QueueCb
    <3>1. k \in [Side -> 0 .. MaxLen]
      BY <1>2, <2>1, <2>2, MaxLenFacts DEF QueueCb
    <3> HIDE DEF k
    <3> QED BY <1>2, <3>1 DEF QueueCb
  <2> HIDE DEF c
  <2>5. /\ \A t \in Task : On(os', t) \cap WaitList \subseteq On(os, t)
        /\ \A t \in Task : call[t] \notin QueueCall => os'.status[t] = os.status[t]
        /\ \A t \in Task : "UNUSED" \in os'.status[t] => "UNUSED" \in os.status[t]
        /\ \A p \in Queue : queue'[p].used = queue[p].used
    BY <1>0, <2>1, <2>2, <2>3, <2>4, OperateMail
  <2>6. Beside
    BY <1>2, <1>a, <2>1, <2>5 DEF Beside
  <2> QED BY <1>1, <2>6, MailBeside
<1>6. CASE \E q \in Queue, i \in Input, n \in QueueTimeouts : QueueWait(q, i.type, i.msg, n)
  <2> PICK q \in Queue, i \in Input, n \in QueueTimeouts : QueueWait(q, i.type, i.msg, n)
    BY <1>6
  <2> PICK t : t = os.run
    OBVIOUS
  <2> DEFINE c == [queue |-> q, type |-> i.type, msg |-> i.msg]
             h == ReadWriteList[SideOf(i.type)][q]
  <2>1. /\ TaskContext /\ os.lock = 0 /\ Block(h, "PEND_QUEUE", n, c) /\ queue' = queue
        /\ t \in Task => call[t] = NoCall
    BY DEF QueueWait, FreeTaskContext, Ready2Call, qvars
  <2>2. /\ h \in WaitList /\ h \in SideLists /\ n \in Ticks \cup {LOS_WAIT_FOREVER}
        /\ "PEND_QUEUE" \in {"PEND", "PEND_QUEUE"} /\ c \in QueueCall /\ c # NoCall
    BY <1>0, QueueAssumption, SideFacts, ListFacts
  <2>3. /\ t \in Task \ {Idle} /\ "TIMEOUT" \notin os.status[t] /\ call[t] = NoCall
        /\ "READY" \in os.status[t] /\ Consistent(os)
    BY <2>1, CallerReady DEF Core, MailInv, QueueInv, Waiters
  <2> HIDE DEF c, h
  <2>4. /\ \A u \in Task : On(os', u) = IF u = t THEN {h} ELSE On(os, u)
        /\ \A u \in Task \ {t} : os'.status[u] = os.status[u]
        /\ os'.status[t] \subseteq os.status[t] \cup {"PEND_QUEUE", "TIMEOUT"}
    BY <1>2, <2>1, <2>2, <2>3, BlockStep
  <2>5. call' = [call EXCEPT ![t] = c]
    BY <2>1 DEF Block
  <2>6. call' \in [Task -> T] /\ call'[t] = c /\ \A u \in Task \ {t} : call'[u] = call[u]
    BY <1>2, <2>2, <2>3, <2>5
  <2>7. On(os, t) \cap WaitList = {} /\ "UNUSED" \notin os.status[t]
    BY <2>3 DEF Consistent, TaskAgrees, Blocked
  <2> HIDE DEF T
  <2>8. \A u \in Task : "UNUSED" \in os'.status[u] => "UNUSED" \in os.status[u] /\ u # t
    BY <2>4, <2>7
  <2>9. \A u \in Task, g \in WaitList \ SideLists : g \in On(os', u) => g \in On(os, u)
    BY <2>2, <2>4
  <2>10. \A u \in Task : u # t => call'[u] = call[u] /\ os'.status[u] = os.status[u]
    BY <2>4, <2>6
  <2>11. call[t] \notin MailCall /\ call'[t] \notin MailCall
    BY <1>a, <2>2, <2>3, <2>6
  <2>12. Beside
    BY <1>2, <2>1, <2>6, <2>8, <2>9, <2>10, <2>11 DEF Beside, T
  <2> QED BY <1>1, <2>12, MailBeside
<1>7. CASE \E c \in QueueCall : QueueReturn(c)
  <2> PICK c \in QueueCall : QueueReturn(c)
    BY <1>7
  <2> PICK t : t = os.run
    OBVIOUS
  <2>1. /\ TaskContext /\ call[t] = c /\ call' = [call EXCEPT ![t] = NoCall]
        /\ t \in Task \ {Idle} /\ "READY" \in os.status[t] /\ Consistent(os)
    BY <1>2, CallerReady DEF QueueReturn, InCall, Return, Core
  <2>2. call' \in [Task -> T] /\ call'[t] = NoCall /\ \A u \in Task \ {t} : call'[u] = call[u]
    BY <1>2, <2>1
  <2>3. "UNUSED" \notin os.status[t] /\ On(os, t) \cap WaitList = {}
    BY <2>1 DEF Consistent, TaskAgrees, Blocked
  <2>4. /\ \A u \in Task : On(os', u) \cap WaitList \subseteq On(os, u)
        /\ \A u \in Task : call[u] \notin QueueCall => os'.status[u] = os.status[u]
        /\ \A u \in Task : "UNUSED" \in os'.status[u] => "UNUSED" \in os.status[u]
        /\ \A p \in Queue : queue'[p].used = queue[p].used
    <3>1. CASE TimedOut
      <4>1. os' = ClearTimeout(os) /\ queue' = queue
        BY <3>1 DEF QueueReturn
      <4>2. os'.status = [os.status EXCEPT ![t] = @ \ {"TIMEOUT"}]
        BY <1>2, <4>1 DEF ClearTimeout, Core, Consistent, KernelState
      <4>3. \A u \in Task : On(os', u) = On(os, u)
        BY <1>2, <2>1, <4>1, ClearTimeoutStep
      <4>4. \A u \in Task \ {t} : os'.status[u] = os.status[u]
        BY <1>2, <2>1, <4>1, ClearTimeoutStep
      <4>5. "UNUSED" \notin os'.status[t]
        BY <1>2, <2>1, <2>3, <4>2, DummyTask DEF Core, Consistent, KernelState
      <4> QED BY <2>1, <2>3, <4>1, <4>3, <4>4, <4>5
    <3>2. CASE ~TimedOut
      <4>1. Operate(os, queue[c.queue], c.queue, c.type, c.msg)
        BY <3>2 DEF QueueReturn
      <4>2. /\ c.queue \in Queue /\ c.type \in OpType /\ c.msg \in Msg \cup {NoMsg}
            /\ SideOf(c.type) \in Side
        BY SideFacts
      <4>3. t \in Reserved(c.queue, SideOf(c.type))
        <5>1. os.status[t] \cap {"PEND", "PEND_QUEUE"} = {} /\ "TIMEOUT" \notin os.status[t]
          BY <2>1, <3>2 DEF Consistent, TaskAgrees, Blocked, TimedOut
        <5>2. Claims(os, call, c.queue, SideOf(c.type), t)
          BY <2>1, <5>1 DEF Claims, Waits
        <5> QED BY <2>1, <4>2, <5>2, ReservedClaims DEF Task
      <4>4. queue[c.queue].used /\ queue[c.queue].head < queue[c.queue].len
        BY <4>2, <4>3 DEF MailInv, QueueInv, WokenOnLiveQueue, Sums
      <4> QED BY <1>2, <2>1, <4>1, <4>2, <4>4, OperateMail
    <3> QED BY <3>1, <3>2
  <2>5. \A u \in Task : "UNUSED" \in os'.status[u] => u # t
    BY <2>3, <2>4
  <2> HIDE DEF T
  <2>6. \A u \in Task : call[u] \in MailCall \/ call'[u] \in MailCall =>
          u # t /\ call'[u] = call[u] /\ os'.status[u] = os.status[u]
    BY <1>a, <2>1, <2>2, <2>4
  <2>7. Beside
    BY <1>2, <2>2, <2>4, <2>5, <2>6 DEF Beside, T
  <2> QED BY <1>1, <2>7, MailBeside
<1> QED BY <1>1, <1>3, <1>4, <1>5, <1>6, <1>7 DEF QueueStep

\* A step without a change to the queues, in which nobody comes on a list of theirs.
LEMMA QueuesCalm ==
  ASSUME MailInv, Core(os'), Waiters', UNCHANGED <<queue, freeQueue>>,
         \A t \in Task :
           /\ \A h \in SideLists : h \in On(os', t) => h \in On(os, t)
           /\ call[t] \in QueueCall \/ call'[t] \in QueueCall =>
                call'[t] = call[t] /\ os'.status[t] = os.status[t]
  PROVE  QueueInv' /\ AbstractStep
<1>1. /\ os \in KernelState /\ os' \in KernelState /\ Consistent(os) /\ Consistent(os')
  BY DEF MailInv, QueueInv, Core, Consistent
<1>2. \A p \in Queue, sd \in Side : Reserved(p, sd)' = Reserved(p, sd)
  <2> SUFFICES ASSUME NEW p \in Queue, NEW sd \in Side, NEW u \in User
               PROVE  Claims(os', call', p, sd, u) <=> Claims(os, call, p, sd, u)
    BY <1>1, ReservedSame
  <2>1. u \in Task
    BY DEF Task
  <2>2. CASE call[u] \in QueueCall \/ call'[u] \in QueueCall
    <3>1. call'[u] = call[u] /\ os'.status[u] = os.status[u]
      BY <2>1, <2>2
    <3> QED BY <3>1 DEF Claims
  <2>3. CASE ~(call[u] \in QueueCall \/ call'[u] \in QueueCall)
    BY <2>3 DEF Claims
  <2> QED BY <2>2, <2>3
<1>3. \A p \in Queue, sd \in Side :
        os.list[ReadWriteList[sd][p]] = <<>> => os'.list[ReadWriteList[sd][p]] = <<>>
  <2> SUFFICES ASSUME NEW h \in SideLists PROVE os.list[h] = <<>> => os'.list[h] = <<>>
    BY ListFacts
  <2>1. \A t \in Task : h \in On(os', t) => h \in On(os, t)
    OBVIOUS
  <2> QED BY <1>1, <2>1, SideListsFacts, NobodyOn
<1> QED BY <1>2, <1>3, CalmStep DEF MailInv

LEMMA MailTakeStep ==
  ASSUME MailInv, NEW q \in Queue, NEW b \in MailPool[q], MailTake(q, b)
  PROVE  MailInv' /\ AbstractStep
<1>1. /\ os' = os /\ call' = call /\ queue' = queue /\ freeQueue' = freeQueue
      /\ puwMsg' = puwMsg /\ pool' = pool \ {b}
  BY DEF MailTake
<1>2. QueueInv' /\ AbstractStep
  BY <1>1, QueuesCalm DEF MailInv, QueueInv, Waiters, On
<1>3. /\ call' \in [Task -> QueueCall \cup MailCall \cup {NoCall}]
      /\ puwMsg' \in [Task -> MailBlock \cup {NoMail}] /\ pool' \subseteq pool
      /\ \A t \in Task : "UNUSED" \in os'.status[t] => call'[t] = NoCall
  BY <1>1 DEF MailInv, MailBlocks, MailWaiters
<1>4. \A t \in Task, p \in Queue :
        /\ MemList[p] \in On(os', t) => MemList[p] \in On(os, t) /\ call'[t] = call[t]
        /\ Got(os', call', p, t) => Got(os, call, p, t) /\ puwMsg'[t] = puwMsg[t]
  BY <1>1
<1> QED BY <1>1, <1>2, <1>3, <1>4, MailCalm

LEMMA MailWaitStep ==
  ASSUME ~LockedAllocs, MailInv, NEW q \in Queue, NEW n \in MailTimeouts, MailWait(q, n)
  PROVE  MailInv' /\ AbstractStep
<1> PICK t : t = os.run
  OBVIOUS
<1> DEFINE c == [mail |-> q]
           h == MemList[q]
<1>1. /\ TaskContext /\ os.lock = 0 /\ Block(h, "PEND_QUEUE", n, c)
      /\ queue[q].used /\ pool \cap MailPool[q] = {}
      /\ queue' = queue /\ freeQueue' = freeQueue /\ pool' = pool /\ puwMsg' = puwMsg
      /\ t \in Task => call[t] = NoCall
  BY DEF MailWait, FreeTaskContext, Ready2Call
<1>2. /\ h \in WaitList /\ h \in Heads /\ h \notin SideLists /\ n \in Ticks \cup {LOS_WAIT_FOREVER}
      /\ "PEND_QUEUE" \in {"PEND", "PEND_QUEUE"}
      /\ c \in MailCall /\ c # NoCall /\ c \notin QueueCall
  BY MailAssumption, MailLists, MailCalls
<1>3. /\ t \in Task \ {Idle} /\ "TIMEOUT" \notin os.status[t] /\ call[t] = NoCall
      /\ "READY" \in os.status[t] /\ Core(os) /\ Consistent(os)
  BY <1>1, CallerReady DEF Core, MailInv, QueueInv, Waiters
<1> HIDE DEF c, h
<1>4. /\ Core(os') /\ \A u \in Task : On(os', u) = IF u = t THEN {h} ELSE On(os, u)
      /\ \A u \in Task \ {t} : os'.status[u] = os.status[u]
      /\ os'.status[t] \subseteq os.status[t] \cup {"PEND_QUEUE", "TIMEOUT"}
  BY <1>1, <1>2, <1>3, BlockStep
<1>5. call' = [call EXCEPT ![t] = c]
  BY <1>1 DEF Block
<1>6. /\ call' \in [Task -> QueueCall \cup MailCall \cup {NoCall}]
      /\ call'[t] = c /\ \A u \in Task \ {t} : call'[u] = call[u]
  BY <1>2, <1>3, <1>5 DEF MailInv
<1>7. "UNUSED" \notin os'.status[t] /\ os'.status[t] \cap {"PEND", "PEND_QUEUE"} # {}
  <2>1. "UNUSED" \notin os.status[t]
    BY <1>3 DEF Consistent, TaskAgrees, Blocked
  <2>2. h \in On(os', t) /\ Consistent(os')
    BY <1>3, <1>4 DEF Core
  <2> QED BY <1>2, <1>3, <1>4, <2>1, <2>2, WaitsStatus DEF On
<1>8. Waiters'
  <2>1. \A u \in Task : /\ "PEND" \notin os'.status[u]
                        /\ "TIMEOUT" \in os'.status[u] => call'[u] # NoCall
    BY <1>2, <1>3, <1>4, <1>6 DEF MailInv, QueueInv, Waiters
  <2>2. \A u \in Task, g \in SideLists : g \in On(os', u) => g \in On(os, u) /\ call'[u] = call[u]
    BY <1>2, <1>4, <1>6
  <2> QED BY <1>6, <2>1, <2>2 DEF MailInv, QueueInv, Waiters
<1>9. QueueInv' /\ AbstractStep
  <2>1. \A u \in Task : /\ \A g \in SideLists : g \in On(os', u) => g \in On(os, u)
                        /\ call[u] \in QueueCall \/ call'[u] \in QueueCall =>
                             call'[u] = call[u] /\ os'.status[u] = os.status[u]
    BY <1>2, <1>3, <1>4, <1>6, CallAssumption
  <2> QED BY <1>1, <1>4, <1>8, <2>1, QueuesCalm
<1>10. MailWaiters'
  <2>1. \A u \in Task, p \in Queue : MemList[p] \in On(os', u) => call'[u] = [mail |-> p]
    <3> SUFFICES ASSUME NEW u \in Task, NEW p \in Queue, MemList[p] \in On(os', u)
                 PROVE  call'[u] = [mail |-> p]
      OBVIOUS
    <3>1. CASE u = t
      <4>1. MemList[p] = h
        BY <1>4, <3>1
      <4>2. p = q
        BY <4>1, MailLists DEF h
      <4> QED BY <1>6, <3>1, <4>2 DEF c
    <3>2. CASE u # t
      BY <1>4, <1>6, <3>2 DEF MailInv, MailWaiters
    <3> QED BY <3>1, <3>2
  <2>2. \A u \in Task : "UNUSED" \in os'.status[u] => call'[u] = NoCall
    BY <1>4, <1>6, <1>7 DEF MailInv, MailWaiters
  <2> QED BY <2>1, <2>2 DEF MailWaiters
<1>11. PoolEmpty'
  <2> SUFFICES ASSUME NEW p \in Queue, os'.list[MemList[p]] # <<>>, p # q
               PROVE  pool \cap MailPool[p] = {} /\ queue[p].used
    BY <1>1 DEF PoolEmpty
  <2>1. os \in KernelState /\ os' \in KernelState
    BY <1>3, <1>4 DEF Core, Consistent
  <2>2. MemList[p] # h /\ MemList[p] \in WaitList
    BY MailLists DEF h
  <2>3. \A u \in Task : MemList[p] \in On(os', u) => MemList[p] \in On(os, u)
    BY <1>4, <2>2
  <2>4. os.list[MemList[p]] # <<>>
    BY <2>1, <2>2, <2>3, NobodyOn
  <2> QED BY <2>4 DEF MailInv, PoolEmpty
<1>12. Handed'
  <2> SUFFICES ASSUME NEW u \in Task, NEW p \in Queue, Got(os', call', p, u)
               PROVE  puwMsg[u] \in MailPool[p]
    BY <1>1 DEF Handed
  <2>1. u # t
    BY <1>7 DEF Got, Waits
  <2>2. Got(os, call, p, u)
    BY <1>4, <1>6, <2>1 DEF Got
  <2> QED BY <2>2 DEF MailInv, Handed
<1>13. MailBlocks'
  BY <1>1 DEF MailInv, MailBlocks
<1> QED BY <1>6, <1>9, <1>10, <1>11, <1>12, <1>13 DEF MailInv

LEMMA MailReturnStep ==
  ASSUME MailInv, NEW q \in Queue, MailReturn(q)
  PROVE  MailInv' /\ AbstractStep
<1> PICK t : t = os.run
  OBVIOUS
<1>1. /\ TaskContext /\ call[t] = [mail |-> q] /\ call' = [call EXCEPT ![t] = NoCall]
      /\ os' = ClearTimeout(os) /\ queue' = queue /\ freeQueue' = freeQueue /\ pool' = pool
      /\ puwMsg' = puwMsg \/ puwMsg' = [puwMsg EXCEPT ![t] = NoMail]
  BY DEF MailReturn, InCall, Return
<1>2. /\ Steady(os, os') /\ t \in Task \ {Idle} /\ "TIMEOUT" \notin os'.status[t]
      /\ On(os, t) \cap WaitList = {} /\ \A u \in Task : On(os', u) = On(os, u)
      /\ \A u \in Task \ {t} : os'.status[u] = os.status[u]
  BY <1>1, ClearTimeoutStep DEF MailInv, QueueInv
<1>3. /\ call' \in [Task -> QueueCall \cup MailCall \cup {NoCall}]
      /\ call'[t] = NoCall /\ \A u \in Task \ {t} : call'[u] = call[u]
  BY <1>1, <1>2 DEF MailInv
<1>4. Core(os') /\ Waiters'
  <2>1. \A u \in Task : \/ call'[u] = call[u]
                        \/ "TIMEOUT" \notin os'.status[u] /\ On(os', u) \cap WaitList = {}
    BY <1>2, <1>3
  <2> QED BY <1>2, <1>3, <2>1, SteadyWaiters DEF MailInv, QueueInv
<1>5. QueueInv' /\ AbstractStep
  <2>1. \A u \in Task : /\ \A g \in SideLists : g \in On(os', u) => g \in On(os, u)
                        /\ call[u] \in QueueCall \/ call'[u] \in QueueCall =>
                             call'[u] = call[u] /\ os'.status[u] = os.status[u]
    <3>1. call[t] \notin QueueCall /\ call'[t] \notin QueueCall
      BY <1>1, <1>3, MailCalls, CallAssumption
    <3> QED BY <1>2, <1>3, <3>1
  <2> QED BY <1>1, <1>4, <2>1, QueuesCalm
<1>6. \A u \in Task : "UNUSED" \in os'.status[u] => call'[u] = NoCall
  BY <1>2, <1>3 DEF MailInv, MailWaiters
<1>7. /\ puwMsg' \in [Task -> MailBlock \cup {NoMail}]
      /\ \A u \in Task : puwMsg'[u] \in {puwMsg[u], NoMail}
      /\ \A u \in Task \ {t} : puwMsg'[u] = puwMsg[u]
  BY <1>1, <1>2 DEF MailInv, MailBlocks
<1>8. \A u \in Task, p \in Queue :
        /\ MemList[p] \in On(os', u) => MemList[p] \in On(os, u) /\ call'[u] = call[u]
        /\ Got(os', call', p, u) => Got(os, call, p, u) /\ puwMsg'[u] = puwMsg[u]
  <2>1. \A p \in Queue : MemList[p] \notin On(os', t) /\ ~Got(os', call', p, t)
    BY <1>2, <1>3, MailLists, MailCalls DEF Got
  <2> QED BY <1>2, <1>3, <1>7, <2>1 DEF Got
<1> QED BY <1>1, <1>3, <1>5, <1>6, <1>7, <1>8, MailCalm

\* Nobody waits for the block: it goes back to its pool.
LEMMA MailFreeStep ==
  ASSUME MailInv, NEW q \in Queue, NEW b \in MailPool[q], osQueueMailFree(q, b),
         ~(queue[q].used /\ os.list[MemList[q]] # <<>>)
  PROVE  MailInv' /\ AbstractStep
<1>1. /\ os' = os /\ call' = call /\ queue' = queue /\ freeQueue' = freeQueue
      /\ puwMsg' = puwMsg /\ pool' = pool \cup {b} /\ \A t \in Task : puwMsg[t] # b
  BY DEF osQueueMailFree
<1>2. QueueInv' /\ AbstractStep
  BY <1>1, QueuesCalm DEF MailInv, QueueInv, Waiters, On
<1>3. MailBlocks'
  BY <1>1, MailLists DEF MailInv, MailBlocks
<1>4. PoolEmpty'
  <2> SUFFICES ASSUME NEW p \in Queue, os.list[MemList[p]] # <<>>
               PROVE  pool' \cap MailPool[p] = {} /\ queue[p].used
    BY <1>1 DEF PoolEmpty
  <2>1. pool \cap MailPool[p] = {} /\ queue[p].used
    BY DEF MailInv, PoolEmpty
  <2>2. b \notin MailPool[p]
    BY <2>1, MailLists
  <2> QED BY <1>1, <2>1, <2>2
<1>5. MailWaiters' /\ Handed' /\ call' \in [Task -> QueueCall \cup MailCall \cup {NoCall}]
  BY <1>1 DEF MailInv, MailWaiters, Handed, Got, On
<1> QED BY <1>2, <1>3, <1>4, <1>5 DEF MailInv

\* The first waiting task gets a block of its pool.
LEMMA MailHandStep ==
  ASSUME MailInv, NEW q \in Queue, NEW b \in MailPool[q], osQueueMailFree(q, b),
         queue[q].used, os.list[MemList[q]] # <<>>
  PROVE  MailInv' /\ AbstractStep
<1>0. LET u == Head(os.list[MemList[q]])
      IN  /\ u \in Task /\ u \in User /\ call[u] = [mail |-> q]
          /\ "PEND_QUEUE" \in os.status[u] /\ "PEND" \notin os.status[u]
  BY FirstAllocator
<1> PICK t : t = Head(os.list[MemList[q]])
  OBVIOUS
<1>1. /\ t \in Task /\ call[t] = [mail |-> q]
      /\ "PEND_QUEUE" \in os.status[t] /\ "PEND" \notin os.status[t]
  BY <1>0
<1>2. /\ TaskContext \/ IrqContext
      /\ os' = Reschedule(osTaskWake(os, t, "PEND_QUEUE"))
      /\ b \notin pool /\ \A u \in Task : puwMsg[u] # b
      /\ call' = call /\ queue' = queue /\ freeQueue' = freeQueue
      /\ \E a \in (pool \cup {b}) \cap MailPool[q] :
           puwMsg' = [puwMsg EXCEPT ![t] = a] /\ pool' = (pool \cup {b}) \ {a}
  BY DEF osQueueMailFree, FreeTaskContext
<1>3. PICK a \in (pool \cup {b}) \cap MailPool[q] :
        puwMsg' = [puwMsg EXCEPT ![t] = a] /\ pool' = (pool \cup {b}) \ {a}
  BY <1>2, Zenon
<1>4. /\ Steady(os, os')
      /\ \A u \in Task : On(os', u) \cap WaitList = IF u = t THEN {} ELSE On(os, u) \cap WaitList
      /\ \A u \in Task \ {t} : os'.status[u] = os.status[u]
      /\ os'.status[t] \ {"READY"} = os.status[t] \ {"PEND_QUEUE", "TIMEOUT"}
  BY <1>1, <1>2, WakeStep, ZenonT(60) DEF MailInv, QueueInv
<1>5. Core(os') /\ Waiters'
  BY <1>2, <1>4, SteadyWaiters, ZenonT(60) DEF MailInv, QueueInv, Waiters
<1>6. QueueInv' /\ AbstractStep
  <2>1. \A u \in Task : /\ \A g \in SideLists : g \in On(os', u) => g \in On(os, u)
                        /\ call[u] \in QueueCall \/ call'[u] \in QueueCall =>
                             call'[u] = call[u] /\ os'.status[u] = os.status[u]
    <3>1. call[t] \notin QueueCall
      BY <1>1, MailCalls
    <3> QED BY <1>2, <1>4, <3>1, SideListsFacts
  <2> QED BY <1>2, <1>5, <2>1, QueuesCalm, SMTT(30)
<1>7. /\ pool \cap MailPool[q] = {} /\ a = b
  BY <1>3 DEF MailInv, PoolEmpty
<1>8. /\ pool' = pool /\ puwMsg' \in [Task -> MailBlock \cup {NoMail}] /\ puwMsg'[t] = b
      /\ \A u \in Task \ {t} : puwMsg'[u] = puwMsg[u]
  BY <1>1, <1>2, <1>3, <1>7, MailLists DEF MailInv, MailBlocks
<1>9. MailBlocks'
  BY <1>2, <1>8 DEF MailInv, MailBlocks
<1>10. MailWaiters'
  <2>1. \A u \in Task : "UNUSED" \in os'.status[u] => "UNUSED" \in os.status[u]
    BY <1>4
  <2>2. \A u \in Task, p \in Queue : MemList[p] \in On(os', u) => MemList[p] \in On(os, u)
    BY <1>4, MailLists
  <2> QED BY <1>2, <2>1, <2>2 DEF MailInv, MailWaiters
<1>11. PoolEmpty'
  <2> SUFFICES ASSUME NEW p \in Queue, os'.list[MemList[p]] # <<>>
               PROVE  pool \cap MailPool[p] = {} /\ queue[p].used
    BY <1>2, <1>8 DEF PoolEmpty
  <2>1. os \in KernelState /\ os' \in KernelState
    BY <1>5 DEF MailInv, QueueInv, Core, Consistent
  <2>2. \A u \in Task : MemList[p] \in On(os', u) => MemList[p] \in On(os, u)
    BY <1>4, MailLists
  <2>3. os.list[MemList[p]] # <<>>
    BY <2>1, <2>2, MailLists, NobodyOn
  <2> QED BY <2>3 DEF MailInv, PoolEmpty
<1>12. Handed'
  <2> SUFFICES ASSUME NEW u \in Task, NEW p \in Queue, Got(os', call', p, u)
               PROVE  puwMsg'[u] \in MailPool[p]
    BY DEF Handed
  <2>1. CASE u = t
    <3>1. p = q
      BY <1>1, <1>2, <2>1, MailCalls DEF Got
    <3> QED BY <1>8, <2>1, <3>1, SMTT(30)
  <2>2. CASE u # t
    <3>1. Got(os, call, p, u)
      BY <1>2, <1>4, <2>2 DEF Got
    <3> QED BY <1>8, <2>2, <3>1, SMTT(30) DEF MailInv, Handed
  <2> QED BY <2>1, <2>2
<1> QED BY <1>2, <1>6, <1>9, <1>10, <1>11, <1>12 DEF MailInv

LEMMA MailKernelStep ==
  ASSUME ~IsrSuspends, MailInv, KernelStep, ResetCreated, UNCHANGED <<queue, freeQueue, pool>>
  PROVE  MailInv' /\ AbstractStep
<1>1. /\ Steady(os, os') /\ call' = call /\ queue' = queue /\ pool' = pool
      /\ WaitsStay \/ \E t \in Task : ExpiresOnly(t)
      /\ \A u \in Task : "UNUSED" \in os'.status[u] => "UNUSED" \in os.status[u]
  BY KernelStepSteady, KernelStepWaits DEF MailInv, QueueInv
<1>2. QueueInv' /\ AbstractStep
  BY QueueKernelStep DEF MailInv, qvars
<1>3. /\ puwMsg' \in [Task -> MailBlock \cup {NoMail}]
      /\ \A t \in Task : /\ puwMsg'[t] \in {puwMsg[t], NoMail}
                         /\ "UNUSED" \notin os.status[t] => puwMsg'[t] = puwMsg[t]
  BY DEF ResetCreated, MailInv, MailBlocks
<1>4. \A t \in Task, q \in Queue : MemList[q] \in On(os', t) => MemList[q] \in On(os, t)
  <2>1. \A t \in Task, h \in WaitList : h \in On(os', t) => h \in On(os, t)
    BY <1>1, HeadsFacts DEF Steady, Eases, Drains, On
  <2> QED BY <2>1, MailLists
<1>5. \A t \in Task, q \in Queue :
        Got(os', call', q, t) => Got(os, call, q, t) /\ puwMsg'[t] = puwMsg[t]
  <2> SUFFICES ASSUME NEW t \in Task, NEW q \in Queue, Got(os', call', q, t)
               PROVE  Got(os, call, q, t) /\ puwMsg'[t] = puwMsg[t]
    OBVIOUS
  <2>1. os'.status[t] \cap Waits = os.status[t] \cap Waits
    BY <1>1 DEF WaitsStay, ExpiresOnly, Got, Waits
  <2>2. "UNUSED" \notin os.status[t]
    BY <1>1, MailCalls DEF Got, MailInv, MailWaiters
  <2> QED BY <1>1, <1>3, <2>1, <2>2 DEF Got
<1>6. /\ call' \in [Task -> QueueCall \cup MailCall \cup {NoCall}]
      /\ \A t \in Task : "UNUSED" \in os'.status[t] => call'[t] = NoCall
  BY <1>1 DEF MailInv, MailWaiters
<1> QED BY <1>1, <1>2, <1>3, <1>4, <1>5, <1>6, MailCalm

LEMMA MailTaskDeleteStep ==
  ASSUME MailInv, NEW t \in Task, MayDelete(t), DeleteStep(t),
         UNCHANGED <<queue, freeQueue, pool, puwMsg>>
  PROVE  MailInv' /\ AbstractStep
<1>1. /\ Steady(os, os') /\ os'.status[t] = {"UNUSED"}
      /\ \A u \in Task \ {t} : os'.status[u] = os.status[u]
      /\ call' = [call EXCEPT ![t] = NoCall]
      /\ queue' = queue /\ pool' = pool /\ puwMsg' = puwMsg
  BY DeleteStepSteady DEF MailInv, QueueInv
<1>2. QueueInv' /\ AbstractStep
  BY QueueTaskDeleteStep DEF MailInv, qvars
<1>3. /\ call' \in [Task -> QueueCall \cup MailCall \cup {NoCall}]
      /\ call'[t] = NoCall /\ \A u \in Task \ {t} : call'[u] = call[u]
  BY <1>1 DEF MailInv
<1>4. \A u \in Task, q \in Queue :
        /\ MemList[q] \in On(os', u) => MemList[q] \in On(os, u) /\ call'[u] = call[u]
        /\ Got(os', call', q, u) => Got(os, call, q, u) /\ puwMsg'[u] = puwMsg[u]
  <2>1. \A u \in Task, h \in WaitList : h \in On(os', u) => h \in On(os, u)
    BY <1>1, HeadsFacts DEF Steady, Eases, Drains, On
  <2>2. \A q \in Queue : MemList[q] \notin On(os', t) /\ ~Got(os', call', q, t)
    <3>1. On(os', t) \cap WaitList = {}
      BY <1>1 DEF Steady, Core, Consistent, TaskAgrees
    <3> QED BY <1>3, <3>1, MailLists, MailCalls DEF Got
  <2> QED BY <1>1, <1>3, <2>1, <2>2, MailLists DEF Got
<1>5. /\ puwMsg' \in [Task -> MailBlock \cup {NoMail}]
      /\ \A u \in Task : "UNUSED" \in os'.status[u] => call'[u] = NoCall
  BY <1>1, <1>3 DEF MailInv, MailBlocks, MailWaiters
<1> QED BY <1>1, <1>2, <1>3, <1>4, <1>5, MailCalm

LEMMA MailNextStep ==
  ASSUME ~IsrSuspends, ~LockedAllocs, MailInv, [MailNext]_mailVars
  PROVE  MailInv' /\ AbstractStep
<1>1. CASE QueueStep /\ UNCHANGED <<pool, puwMsg>>
  BY <1>1, MailQueueStep
<1>2. CASE MailStep
  <2>1. CASE \E q \in Queue : \E b \in MailPool[q] : MailTake(q, b)
    BY <2>1, MailTakeStep
  <2>2. CASE \E q \in Queue, n \in MailTimeouts : MailWait(q, n)
    BY <2>2, MailWaitStep
  <2>3. CASE \E q \in Queue : MailReturn(q)
    BY <2>3, MailReturnStep
  <2>4. CASE \E q \in Queue : \E b \in MailPool[q] : osQueueMailFree(q, b)
    BY <2>4, MailFreeStep, MailHandStep
  <2> QED BY <1>2, <2>1, <2>2, <2>3, <2>4 DEF MailStep
<1>3. CASE KernelStep /\ ResetCreated /\ UNCHANGED <<queue, freeQueue, pool>>
  BY <1>3, MailKernelStep
<1>4. CASE \E t \in Task :
             MayDelete(t) /\ DeleteStep(t) /\ UNCHANGED <<queue, freeQueue, pool, puwMsg>>
  BY <1>4, MailTaskDeleteStep
<1>5. CASE UNCHANGED mailVars
  <2>1. /\ os' = os /\ call' = call /\ queue' = queue /\ freeQueue' = freeQueue
        /\ pool' = pool /\ puwMsg' = puwMsg
    BY <1>5 DEF mailVars
  <2>2. QueueInv' /\ AbstractStep
    BY <2>1, QueuesCalm DEF MailInv, QueueInv, Waiters, On
  <2>3. MailWaiters' /\ MailBlocks' /\ PoolEmpty' /\ Handed'
    BY <2>1 DEF MailInv, MailWaiters, MailBlocks, PoolEmpty, Handed, Got, On
  <2> QED BY <2>1, <2>2, <2>3 DEF MailInv
<1> QED BY <1>1, <1>2, <1>3, <1>4, <1>5 DEF MailNext

LEMMA MailInitInv == MailInit => MailInv
<1> SUFFICES ASSUME MailInit PROVE MailInv
  OBVIOUS
<1>1. /\ QueueInv /\ call = [t \in Task |-> NoCall] /\ pool = MailBlock
      /\ puwMsg = [t \in Task |-> NoMail]
  BY QueueInitInv DEF MailInit, QueueInit, InitIpc
<1>2. Quiet(os) /\ Consistent(os)
  BY InitInv DEF MailInit, QueueInit, InitIpc, Inv, Core
<1>3. \A t \in Task : On(os, t) \cap WaitList = {}
  BY <1>2 DEF Consistent, TaskAgrees, Quiet, Waits
<1>4. MailWaiters
  BY <1>1, <1>3, MailLists DEF MailWaiters
<1>5. MailBlocks
  BY <1>1, MailAssumption DEF MailBlocks
<1>6. PoolEmpty
  BY <1>2, <1>3, MailLists, NobodyOn DEF PoolEmpty, Consistent
<1>7. Handed
  BY <1>1, MailCalls DEF Handed, Got
<1> QED BY <1>1, <1>4, <1>5, <1>6, <1>7 DEF MailInv

----------------------------------------------------------------------------
\* The invariant of the mail queues holds when no handler suspends a task and nobody asks
\* for mail with a timeout under LOS_TaskLock (MCLosMailLocked shows what happens then).
THEOREM MailInvariance ==
  ASSUME ~IsrSuspends, ~LockedAllocs
  PROVE  MailSpec => []MailInv
<1>1. MailInit => MailInv
  BY MailInitInv
<1>2. MailInv /\ [MailNext]_mailVars => MailInv'
  BY MailNextStep
<1> QED BY <1>1, <1>2, PTL DEF MailSpec

\* A block lies in its pool, is promised to one waiting task or is with the application,
\* and nobody waits while a block of the pool it asked lies there, whatever times out,
\* is woken, deleted or created meanwhile.
THEOREM MailBlocksInOnePlace ==
  ASSUME ~IsrSuspends, ~LockedAllocs
  PROVE  MailSpec => []BlocksInOnePlace
<1>1. MailInv => BlocksInOnePlace
  <2> SUFFICES ASSUME MailInv PROVE BlocksInOnePlace
    OBVIOUS
  <2>1. MailTypeOK
    BY DEF MailInv, QueueInv, Core, Consistent, TypeOK, Blocks, MailBlocks, MailTypeOK
  <2> QED BY <2>1 DEF MailInv, MailBlocks, PoolEmpty, BlocksInOnePlace
<1> QED BY <1>1, MailInvariance, PTL

\* What a comment in los_queue.c relies on: a task back from its wait without TIMEOUT finds
\* a block of the pool it asked in puwMsg.
THEOREM MailIsThere ==
  ASSUME ~IsrSuspends, ~LockedAllocs
  PROVE  MailSpec => []MailNeverNull
<1>1. MailInv => MailNeverNull
  <2> SUFFICES ASSUME MailInv, NEW q \in Queue, InCall([mail |-> q]), ~TimedOut
               PROVE  puwMsg[os.run] \in MailPool[q]
    BY DEF MailNeverNull
  <2> PICK t : t = os.run
    OBVIOUS
  <2>1. /\ t \in Task /\ "READY" \in os.status[t] /\ Consistent(os)
        /\ call[t] = [mail |-> q] /\ "TIMEOUT" \notin os.status[t]
    BY CallerReady DEF MailInv, QueueInv, Core, InCall, TimedOut
  <2>2. os.status[t] \cap Waits = {}
    BY <2>1 DEF Consistent, TaskAgrees, Blocked, Waits
  <2> QED BY <2>1, <2>2 DEF Got, MailInv, Handed
<1> QED BY <1>1, MailInvariance, PTL

\* The mail queues do not disturb the messages: a queue goes on to implement BoundedQueue
\* while tasks wait for its mail blocks, get them, time out or are deleted.
THEOREM MailImplementsQueue ==
  ASSUME ~IsrSuspends, ~LockedAllocs
  PROVE  MailSpec => ImplementsQueue
<1>1. MailInit => Abstract!Init
  BY DEF MailInit, QueueInit, osQueueInit, Fresh, Content, Abstract!Init
<1>2. MailInv /\ [MailNext]_mailVars => [Abstract!Next]_(Abstract!bvars)
  BY MailNextStep DEF AbstractStep
<1> QED BY <1>1, <1>2, MailInvariance, PTL DEF MailSpec, ImplementsQueue, Abstract!Spec
=============================================================================
