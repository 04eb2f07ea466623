--------------------------- MODULE LosTaskProofs ---------------------------
(***************************************************************************)
(* Proofs about the task manager and the scheduler of LosTask and, in the  *)
(* last part, about what the blocking services (LosIpc) do to the kernel:  *)
(* waiting, waking and the kernel's own steps keep the lists consistent    *)
(* and the scheduler's choice fresh, and only the caller of a pend         *)
(* function comes on a list.                                               *)
(***************************************************************************)
EXTENDS LosIpc, WellFoundedInduction, TLAPS

----------------------------------------------------------------------------
\* The lists as sets: the sequence operations of the list functions described by
\* what they do to the elements, for lists without duplicates.

NoDup(q) == \A i, j \in DOMAIN q : q[i] = q[j] => i = j

LEMMA ElemsType ==
  ASSUME NEW S, NEW q \in Seq(S)
  PROVE  Elems(q) \subseteq S
BY DEF Elems

LEMMA UnlinkElems ==
  ASSUME NEW S, NEW q \in Seq(S), NEW t, NoDup(q)
  PROVE  /\ Unlink(q, t) \in Seq(S)
         /\ NoDup(Unlink(q, t))
         /\ Elems(Unlink(q, t)) = Elems(q) \ {t}
<1>1. CASE t \notin Elems(q)
  BY <1>1 DEF Unlink
<1>2. CASE t \in Elems(q)
  <2> DEFINE i == CHOOSE i \in DOMAIN q : q[i] = t
             u == [j \in 1 .. Len(q) - 1 |-> IF j < i THEN q[j] ELSE q[j + 1]]
  <2>1. i \in 1 .. Len(q) /\ q[i] = t
    BY <1>2 DEF Elems
  <2>2. Unlink(q, t) = u
    BY <1>2 DEF Unlink
  <2> HIDE DEF i
  <2>3. Len(q) - 1 \in Nat
    BY <2>1
  <2>4. \A j \in 1 .. Len(q) - 1 : u[j] \in S
    BY <2>1
  <2>5. u \in Seq(S)
    BY <2>3, <2>4
  <2>6. DOMAIN u = 1 .. Len(q) - 1 /\ DOMAIN q = 1 .. Len(q)
    OBVIOUS
  <2>7. NoDup(u)
    BY <2>1, <2>6 DEF NoDup
  <2>8. Elems(u) \subseteq Elems(q) \ {t}
    BY <2>1, <2>6 DEF Elems, NoDup
  <2>9. Elems(q) \ {t} \subseteq Elems(u)
    <3> SUFFICES ASSUME NEW k \in 1 .. Len(q), k # i
                 PROVE  \E j \in 1 .. Len(q) - 1 : u[j] = q[k]
      BY <2>1, <2>6 DEF Elems
    <3>1. CASE k < i
      BY <3>1, <2>1
    <3>2. CASE k > i
      <4>1. k - 1 \in 1 .. Len(q) - 1 /\ u[k - 1] = q[k]
        BY <3>2, <2>1
      <4> QED BY <4>1
    <3> QED BY <3>1, <3>2, <2>1
  <2> QED BY <2>2, <2>5, <2>7, <2>8, <2>9
<1> QED BY <1>1, <1>2

LEMMA AppendElems ==
  ASSUME NEW S, NEW q \in Seq(S), NEW t \in S
  PROVE  /\ Append(q, t) \in Seq(S)
         /\ Elems(Append(q, t)) = Elems(q) \cup {t}
         /\ NoDup(q) /\ t \notin Elems(q) => NoDup(Append(q, t))
         /\ q # <<>> => Head(Append(q, t)) = Head(q)
<1> DEFINE a == Append(q, t)
<1>1. /\ a \in Seq(S) /\ DOMAIN a = 1 .. Len(q) + 1 /\ DOMAIN q = 1 .. Len(q)
      /\ \A j \in 1 .. Len(q) : a[j] = q[j]
      /\ a[Len(q) + 1] = t
  OBVIOUS
<1> HIDE DEF a
<1>2. Elems(a) = Elems(q) \cup {t}
  BY <1>1 DEF Elems
<1>3. NoDup(q) /\ t \notin Elems(q) => NoDup(a)
  BY <1>1 DEF Elems, NoDup
<1>4. q # <<>> => Head(a) = Head(q)
  BY <1>1
<1> QED BY <1>1, <1>2, <1>3, <1>4 DEF a

LEMMA ConcatElems ==
  ASSUME NEW S, NEW q \in Seq(S), NEW r \in Seq(S)
  PROVE  /\ q \o r \in Seq(S)
         /\ Elems(q \o r) = Elems(q) \cup Elems(r)
         /\ NoDup(q) /\ NoDup(r) /\ Elems(q) \cap Elems(r) = {} => NoDup(q \o r)
<1> DEFINE c == q \o r
<1>1. /\ c \in Seq(S) /\ DOMAIN c = 1 .. Len(q) + Len(r)
      /\ DOMAIN q = 1 .. Len(q) /\ DOMAIN r = 1 .. Len(r)
      /\ \A j \in 1 .. Len(q) : c[j] = q[j]
      /\ \A j \in 1 .. Len(r) : c[Len(q) + j] = r[j]
      /\ \A j \in Len(q) + 1 .. Len(q) + Len(r) : c[j] = r[j - Len(q)]
  OBVIOUS
<1> HIDE DEF c
<1>2. Elems(c) \subseteq Elems(q) \cup Elems(r)
  <2> SUFFICES ASSUME NEW k \in DOMAIN c
               PROVE  c[k] \in Elems(q) \cup Elems(r)
    BY DEF Elems
  <2>1. CASE k <= Len(q)
    BY <2>1, <1>1 DEF Elems
  <2>2. CASE k > Len(q)
    <3>1. k - Len(q) \in DOMAIN r /\ c[k] = r[k - Len(q)]
      BY <2>2, <1>1
    <3> QED BY <3>1 DEF Elems
  <2> QED BY <2>1, <2>2, <1>1
<1>3. Elems(q) \subseteq Elems(c)
  BY <1>1 DEF Elems
<1>4. Elems(r) \subseteq Elems(c)
  <2> SUFFICES ASSUME NEW j \in 1 .. Len(r)
               PROVE  \E k \in DOMAIN c : c[k] = r[j]
    BY <1>1 DEF Elems
  <2>1. Len(q) + j \in DOMAIN c /\ c[Len(q) + j] = r[j]
    BY <1>1
  <2> QED BY <2>1
<1>5. NoDup(q) /\ NoDup(r) /\ Elems(q) \cap Elems(r) = {} => NoDup(c)
  <2> SUFFICES ASSUME NoDup(q), NoDup(r), Elems(q) \cap Elems(r) = {},
                      NEW i \in DOMAIN c, NEW j \in DOMAIN c, c[i] = c[j]
               PROVE  i = j
    BY DEF NoDup
  <2>1. \A k \in 1 .. Len(q), l \in 1 .. Len(r) : q[k] # r[l]
    BY <1>1 DEF Elems
  <2>2. CASE i <= Len(q) /\ j <= Len(q)
    BY <2>2, <1>1 DEF NoDup
  <2>3. CASE i > Len(q) /\ j > Len(q)
    <3>1. i - Len(q) \in DOMAIN r /\ j - Len(q) \in DOMAIN r
      BY <2>3, <1>1
    <3>2. r[i - Len(q)] = r[j - Len(q)]
      BY <2>3, <1>1
    <3>3. i - Len(q) = j - Len(q)
      BY <3>1, <3>2 DEF NoDup
    <3> QED BY <3>3, <1>1
  <2>4. CASE (i <= Len(q) /\ j > Len(q)) \/ (i > Len(q) /\ j <= Len(q))
    BY <2>1, <2>4, <1>1
  <2> QED BY <2>2, <2>3, <2>4, <1>1
<1> QED BY <1>1, <1>2, <1>3, <1>4, <1>5 DEF c

LEMMA ReverseElems ==
  ASSUME NEW S, NEW q \in Seq(S)
  PROVE  LET r == [i \in 1 .. Len(q) |-> q[Len(q) + 1 - i]]
         IN  r \in Seq(S) /\ Elems(r) = Elems(q) /\ (NoDup(q) => NoDup(r))
<1> DEFINE r == [i \in 1 .. Len(q) |-> q[Len(q) + 1 - i]]
<1>1. DOMAIN q = 1 .. Len(q) /\ DOMAIN r = 1 .. Len(q) /\ Len(q) \in Nat
  OBVIOUS
<1>2. \A i \in 1 .. Len(q) : Len(q) + 1 - i \in 1 .. Len(q) /\ r[i] = q[Len(q) + 1 - i]
  OBVIOUS
<1>3. \A i \in 1 .. Len(q) : q[i] = r[Len(q) + 1 - i]
  OBVIOUS
<1>4. r \in Seq(S)
  BY <1>1, <1>2
<1> HIDE DEF r
<1>5. Elems(r) = Elems(q)
  BY <1>1, <1>2, <1>3 DEF Elems
<1>6. NoDup(q) => NoDup(r)
  <2> SUFFICES ASSUME NoDup(q), NEW i \in 1 .. Len(q), NEW j \in 1 .. Len(q), r[i] = r[j]
               PROVE  i = j
    BY <1>1 DEF NoDup
  <2>1. Len(q) + 1 - i = Len(q) + 1 - j
    BY <1>1, <1>2 DEF NoDup
  <2> QED BY <2>1, <1>1
<1> QED BY <1>4, <1>5, <1>6 DEF r

LEMMA HeadTailElems ==
  ASSUME NEW S, NEW q \in Seq(S), q # <<>>, NoDup(q)
  PROVE  /\ Head(q) \in S /\ Head(q) \in Elems(q)
         /\ Tail(q) \in Seq(S) /\ NoDup(Tail(q))
         /\ Elems(Tail(q)) = Elems(q) \ {Head(q)}
<1> DEFINE r == Tail(q)
<1>1. /\ Len(q) \in Nat \ {0} /\ DOMAIN q = 1 .. Len(q) /\ Head(q) = q[1] /\ q[1] \in S
      /\ r \in Seq(S) /\ DOMAIN r = 1 .. Len(q) - 1
      /\ \A j \in 1 .. Len(q) - 1 : r[j] = q[j + 1]
  OBVIOUS
<1> HIDE DEF r
<1>2. NoDup(r)
  <2> SUFFICES ASSUME NEW i \in DOMAIN r, NEW j \in DOMAIN r, r[i] = r[j]
               PROVE  i = j
    BY DEF NoDup
  <2>1. i + 1 \in DOMAIN q /\ j + 1 \in DOMAIN q /\ q[i + 1] = q[j + 1]
    BY <1>1
  <2>2. i + 1 = j + 1
    BY <2>1 DEF NoDup
  <2> QED BY <2>2, <1>1
<1>3. Elems(r) \subseteq Elems(q) \ {Head(q)}
  <2> SUFFICES ASSUME NEW j \in DOMAIN r
               PROVE  r[j] \in Elems(q) /\ r[j] # Head(q)
    BY DEF Elems
  <2>1. j + 1 \in DOMAIN q /\ 1 \in DOMAIN q /\ j + 1 # 1 /\ r[j] = q[j + 1]
    BY <1>1
  <2> QED BY <2>1, <1>1 DEF Elems, NoDup
<1>4. Elems(q) \ {Head(q)} \subseteq Elems(r)
  <2> SUFFICES ASSUME NEW k \in DOMAIN q, q[k] # Head(q)
               PROVE  q[k] \in Elems(r)
    BY DEF Elems
  <2>1. k - 1 \in DOMAIN r /\ (k - 1) + 1 = k
    BY <1>1
  <2>2. r[k - 1] = q[k]
    BY <1>1, <2>1
  <2> QED BY <2>1, <2>2 DEF Elems
<1>5. Head(q) \in Elems(q)
  BY <1>1 DEF Elems
<1> QED BY <1>1, <1>2, <1>3, <1>4, <1>5 DEF r

LEMMA ElemsEmpty ==
  ASSUME NEW S, NEW q \in Seq(S)
  PROVE  q = <<>> <=> Elems(q) = {}
BY DEF Elems

\* A non-empty set of numbers has a least one.
LEMMA LeastNumber ==
  ASSUME NEW T, T \subseteq Nat, T # {}
  PROVE  \E p \in T : \A q \in T : p <= q
<1>1. PICK p \in T : \A q \in T : <<q, p>> \notin OpToRel(<, Nat)
  BY WFMin, NatLessThanWellFounded, Zenon
<1>2. \A q \in T : ~ (q < p)
  BY <1>1, Zenon DEF OpToRel
<1> QED BY <1>2

----------------------------------------------------------------------------
\* The consistency of the lists and the statuses, task by task.

WellLinked(s) ==
  /\ \A h \in Heads : NoDup(s.list[h])
  /\ \A h1, h2 \in Heads : h1 # h2 => Elems(s.list[h1]) \cap Elems(s.list[h2]) = {}

On(s, t) == {h \in Heads : t \in Elems(s.list[h])}

\* Task t is on the lists its status says: ListsAgree for one task.
TaskAgrees(s, t) ==
  /\ \A p \in Prio : p \in On(s, t) <=> "READY" \in s.status[t] /\ s.prio[t] = p
  /\ s.status[t] \cap {"PEND", "PEND_QUEUE"} # {} <=> On(s, t) \cap WaitList # {}
  /\ "UNUSED" \in s.status[t] <=> On(s, t) \cap {FreeTask, RecycleList} # {}
  /\ \A f, g \in s.status[t] \cap {"DELAY", "PEND", "PEND_QUEUE"} : f = g
  /\ "READY" \in s.status[t] => s.status[t] \cap (Blocked \cup {"UNUSED"}) = {}
  /\ "UNUSED" \in s.status[t] => s.status[t] = {"UNUSED"}
  /\ s.timer[t] > 0 <=>
       \/ "DELAY" \in s.status[t]
       \/ "TIMEOUT" \in s.status[t] /\ s.status[t] \cap {"PEND", "PEND_QUEUE"} # {}
  /\ t \in s.due => s.timer[t] = 1

\* The idle task is always ready, the block that stands for a deleted task never.
IdleStays(s) ==
  /\ "READY" \notin s.status[Dummy]
  /\ "READY" \in s.status[Idle] /\ s.status[Idle] \subseteq {"READY", "RUNNING"}
  /\ s.prio[Idle] = Lowest

\* The invariant of the kernel lists.
Consistent(s) ==
  /\ s \in KernelState
  /\ WellLinked(s)
  /\ \A t \in Task : TaskAgrees(s, t)
  /\ IdleStays(s)

LEMMA WellLinkedEq ==
  ASSUME NEW s \in KernelState
  PROVE  WellLinked(s) <=> NodeLinkedOnce(s)
<1>1. ASSUME WellLinked(s) PROVE NodeLinkedOnce(s)
  <2> SUFFICES ASSUME NEW h1 \in Heads, NEW h2 \in Heads,
                      NEW i \in DOMAIN s.list[h1], NEW j \in DOMAIN s.list[h2],
                      s.list[h1][i] = s.list[h2][j]
               PROVE  h1 = h2 /\ i = j
    BY DEF NodeLinkedOnce
  <2>1. h1 = h2
    BY <1>1 DEF WellLinked, Elems
  <2> QED BY <2>1, <1>1 DEF WellLinked, NoDup
<1>2. ASSUME NodeLinkedOnce(s) PROVE WellLinked(s)
  <2>1. \A h \in Heads : NoDup(s.list[h])
    BY <1>2 DEF NodeLinkedOnce, NoDup
  <2>2. ASSUME NEW h1 \in Heads, NEW h2 \in Heads, h1 # h2
        PROVE  Elems(s.list[h1]) \cap Elems(s.list[h2]) = {}
    BY <1>2, <2>2 DEF NodeLinkedOnce, Elems
  <2> QED BY <2>1, <2>2 DEF WellLinked
<1> QED BY <1>1, <1>2

LEMMA ConsistentLists ==
  ASSUME NEW s, Consistent(s)
  PROVE  /\ NodeLinkedOnce(s) /\ ReadyListAgrees(s) /\ WaitListAgrees(s)
         /\ StatusExclusive(s) /\ TimerAgrees(s)
<1> USE DEF Consistent
<1>1. NodeLinkedOnce(s)
  BY WellLinkedEq
<1>2. ReadyListAgrees(s)
  BY DEF ReadyListAgrees, TaskAgrees, On, Heads
<1>3. WaitListAgrees(s)
  BY DEF WaitListAgrees, TaskAgrees, On, Heads
<1>4. StatusExclusive(s) /\ TimerAgrees(s)
  BY DEF StatusExclusive, TimerAgrees, TaskAgrees
<1> QED BY <1>1, <1>2, <1>3, <1>4

\* r differs from s in what concerns task t only.
SameBut(s, r, t) ==
  /\ \A u \in Task \ {t} :
       /\ r.status[u] = s.status[u] /\ r.prio[u] = s.prio[u] /\ r.timer[u] = s.timer[u]
       /\ u \in r.due <=> u \in s.due
       /\ On(r, u) = On(s, u)
  /\ "READY" \in r.status[Dummy] <=> "READY" \in s.status[Dummy]

LEMMA SameButOthers ==
  ASSUME NEW s, NEW r, NEW t, SameBut(s, r, t), NEW u \in Task \ {t}, TaskAgrees(s, u)
  PROVE  TaskAgrees(r, u)
BY DEF SameBut, TaskAgrees

LEMMA SameButTrans ==
  ASSUME NEW s, NEW r, NEW q, NEW t, SameBut(s, r, t), SameBut(r, q, t)
  PROVE  SameBut(s, q, t)
BY DEF SameBut

LEMMA DummyTask == Dummy \in Tcb /\ Dummy \notin Task /\ Idle \in Task /\ Task \subseteq Tcb
BY TcbAssumption DEF Tcb, Task

\* To prove that a step about t alone keeps the lists consistent, look at t alone.
LEMMA ConsistentStep ==
  ASSUME NEW s, NEW r, NEW t, Consistent(s), SameBut(s, r, t),
         r \in KernelState, WellLinked(r), t \in Task => TaskAgrees(r, t),
         t # Idle \/ IdleStays(r)
  PROVE  Consistent(r)
<1>1. \A u \in Task : TaskAgrees(r, u)
  BY SameButOthers DEF Consistent
<1>2. IdleStays(r)
  BY DEF IdleStays, Consistent, SameBut, Task
<1> QED BY <1>1, <1>2 DEF Consistent

\* No task comes on a wait list.
Drains(s, r) == \A h \in WaitList : Elems(r.list[h]) \subseteq Elems(s.list[h])

LEMMA DrainsBut ==
  ASSUME NEW s, NEW r \in KernelState, NEW t, SameBut(s, r, t),
         On(r, t) \cap WaitList \subseteq On(s, t)
  PROVE  Drains(s, r)
<1>1. \A h \in WaitList : h \in Heads /\ Elems(r.list[h]) \subseteq Task
  BY ElemsType DEF KernelState, Heads
<1>2. ASSUME NEW h \in WaitList, NEW u \in Elems(r.list[h])
      PROVE  u \in Elems(s.list[h])
  <2>1. CASE u = t
    BY <1>1, <1>2, <2>1 DEF On
  <2>2. CASE u # t
    BY <1>1, <1>2, <2>2 DEF SameBut, On
  <2> QED BY <2>1, <2>2
<1> QED BY <1>2 DEF Drains

LEMMA DrainsTrans ==
  ASSUME NEW s, NEW r, NEW q, Drains(s, r), Drains(r, q)
  PROVE  Drains(s, q)
BY DEF Drains

----------------------------------------------------------------------------
\* The list primitives.

\* The fields that are about no particular task are the same.
SameControl(s, r) ==
  /\ r.run = s.run /\ r.new = s.new /\ r.lock = s.lock /\ r.scheduled = s.scheduled
  /\ r.resched = s.resched /\ r.pendSV = s.pendSV /\ r.irq = s.irq /\ r.scan = s.scan
  /\ r.needSchedule = s.needSchedule
  /\ r.sliceTask = s.sliceTask /\ r.sliceLeft = s.sliceLeft

\* r differs from s in the lists only.
SameData(s, r) ==
  /\ SameControl(s, r)
  /\ r.status = s.status /\ r.prio = s.prio /\ r.timer = s.timer /\ r.due = s.due

LEMMA ListDeleteFacts ==
  ASSUME NEW s \in KernelState, WellLinked(s), NEW t \in Task
  PROVE  LET r == LOS_ListDelete(s, t)
         IN  /\ r \in KernelState /\ WellLinked(r) /\ SameData(s, r)
             /\ SameBut(s, r, t)
             /\ On(r, t) = {}
             /\ r.wild = (s.wild \/ On(s, t) = {})
<1> DEFINE r == LOS_ListDelete(s, t)
<1>1. \A h \in Heads : s.list[h] \in Seq(Task) /\ NoDup(s.list[h])
  BY DEF KernelState, WellLinked
<1>2. \A h \in Heads : /\ r.list[h] = Unlink(s.list[h], t)
                       /\ r.list[h] \in Seq(Task) /\ NoDup(r.list[h])
                       /\ Elems(r.list[h]) = Elems(s.list[h]) \ {t}
  BY <1>1, UnlinkElems DEF LOS_ListDelete, KernelState
<1>3. r.list = [h \in Heads |-> Unlink(s.list[h], t)]
  BY DEF LOS_ListDelete, KernelState
<1>4. r.list \in [Heads -> Seq(Task)]
  BY <1>2, <1>3
<1>5. r.wild = (s.wild \/ ~Linked(s, t)) /\ r.wild \in BOOLEAN
  BY DEF LOS_ListDelete, KernelState
<1>6. r = [s EXCEPT !.list = r.list, !.wild = r.wild]
  BY DEF LOS_ListDelete, KernelState
<1>7. SameData(s, r)
  BY DEF LOS_ListDelete, KernelState, SameData, SameControl
<1>8. r \in KernelState
  BY <1>4, <1>5, <1>6 DEF KernelState
<1> HIDE DEF r
<1>9. WellLinked(r)
  BY <1>2 DEF WellLinked
<1>10. SameBut(s, r, t)
  BY <1>2, <1>7 DEF SameBut, SameData, On
<1>11. On(r, t) = {}
  BY <1>2 DEF On
<1>12. r.wild = (s.wild \/ On(s, t) = {})
  BY <1>5 DEF Linked, On
<1> QED BY <1>7, <1>8, <1>9, <1>10, <1>11, <1>12 DEF r

\* Both insertions, at the tail and at the head.
LEMMA InsertFacts ==
  ASSUME NEW s \in KernelState, WellLinked(s), NEW t \in Task, On(s, t) = {}, NEW h \in Heads,
         NEW r, r = LOS_ListTailInsert(s, h, t) \/ r = LOS_ListAdd(s, h, t)
  PROVE  /\ r \in KernelState /\ WellLinked(r) /\ SameData(s, r)
         /\ SameBut(s, r, t)
         /\ On(r, t) = {h}
         /\ r.wild = s.wild
<1>0. PICK q : /\ q = Append(s.list[h], t) \/ q = <<t>> \o s.list[h]
               /\ r = [s EXCEPT !.list[h] = q]
  <2>1. CASE r = LOS_ListTailInsert(s, h, t)
    BY <2>1 DEF LOS_ListTailInsert
  <2>2. CASE r = LOS_ListAdd(s, h, t)
    BY <2>2 DEF LOS_ListAdd
  <2> QED BY <2>1, <2>2
<1>1. /\ s.list \in [Heads -> Seq(Task)]
      /\ t \notin Elems(s.list[h]) /\ NoDup(s.list[h]) /\ s.list[h] \in Seq(Task)
  BY DEF KernelState, WellLinked, On
<1>2. <<t>> \in Seq(Task) /\ NoDup(<<t>>) /\ Elems(<<t>>) = {t}
  BY DEF NoDup, Elems
<1>3. q \in Seq(Task) /\ NoDup(q) /\ Elems(q) = Elems(s.list[h]) \cup {t}
  <2>1. CASE q = Append(s.list[h], t)
    BY <1>1, <2>1, AppendElems
  <2>2. CASE q = <<t>> \o s.list[h]
    <3> DEFINE one == <<t>>
               l == s.list[h]
    <3>1. /\ one \in Seq(Task) /\ NoDup(one) /\ Elems(one) = {t}
          /\ l \in Seq(Task) /\ NoDup(l) /\ Elems(one) \cap Elems(l) = {}
      BY <1>1, <1>2
    <3> HIDE DEF one, l
    <3>2. /\ one \o l \in Seq(Task)
          /\ Elems(one \o l) = Elems(one) \cup Elems(l)
          /\ NoDup(one \o l)
      BY <3>1, ConcatElems
    <3> QED BY <2>2, <3>1, <3>2 DEF one, l
  <2> QED BY <1>0, <2>1, <2>2
<1>4. r.list = [s.list EXCEPT ![h] = q] /\ r.wild = s.wild
  BY <1>0 DEF KernelState
<1>5. r.list \in [Heads -> Seq(Task)]
  BY <1>1, <1>3, <1>4
<1>6. SameData(s, r)
  BY <1>0 DEF KernelState, SameData, SameControl
<1>7. r \in KernelState
  BY <1>0, <1>5 DEF KernelState
<1>13. r.list[h] = q /\ \A g \in Heads : g # h => r.list[g] = s.list[g]
  BY <1>1, <1>4
<1>8. /\ Elems(r.list[h]) = Elems(s.list[h]) \cup {t}
      /\ \A g \in Heads : g # h => Elems(r.list[g]) = Elems(s.list[g])
  BY <1>13, <1>3
<1>9. \A g \in Heads : NoDup(r.list[g])
  BY <1>13, <1>3 DEF WellLinked
<1>10. WellLinked(r)
  <2>1. \A g \in Heads : t \notin Elems(s.list[g])
    BY DEF On
  <2>2. \A g1, g2 \in Heads : g1 # g2 => Elems(r.list[g1]) \cap Elems(r.list[g2]) = {}
    <3> SUFFICES ASSUME NEW g1 \in Heads, NEW g2 \in Heads, g1 # g2
                 PROVE  Elems(r.list[g1]) \cap Elems(r.list[g2]) = {}
      OBVIOUS
    <3>1. Elems(s.list[g1]) \cap Elems(s.list[g2]) = {}
      BY DEF WellLinked
    <3>2. CASE g1 = h
      BY <1>8, <2>1, <3>1, <3>2
    <3>3. CASE g2 = h
      BY <1>8, <2>1, <3>1, <3>3
    <3>4. CASE g1 # h /\ g2 # h
      BY <1>8, <3>1, <3>4
    <3> QED BY <3>2, <3>3, <3>4
  <2> QED BY <1>9, <2>2 DEF WellLinked
<1>11. SameBut(s, r, t)
  BY <1>6, <1>8 DEF SameBut, SameData, On
<1>12. On(r, t) = {h}
  BY <1>8 DEF On
<1> QED BY <1>4, <1>6, <1>7, <1>10, <1>11, <1>12

LEMMA HeadsFacts == /\ Prio \subseteq Heads /\ WaitList \subseteq Heads
                    /\ FreeTask \in Heads /\ RecycleList \in Heads /\ Lowest \in Prio
BY HeadAssumption DEF Heads, Prio

LEMMA EnqueueFacts ==
  ASSUME NEW s \in KernelState, WellLinked(s), NEW t \in Task, On(s, t) = {}
  PROVE  LET r == Enqueue(s, t)
         IN  /\ r \in KernelState /\ WellLinked(r) /\ SameControl(s, r)
             /\ SameBut(s, r, t)
             /\ On(r, t) = {s.prio[t]}
             /\ r.status = [s.status EXCEPT ![t] = @ \cup {"READY"}]
             /\ r.prio = s.prio /\ r.timer = s.timer /\ r.due = s.due /\ r.wild = s.wild
<1> DEFINE a == [s EXCEPT !.status[t] = @ \cup {"READY"}]
           r == LOS_ListTailInsert(a, s.prio[t], t)
<1>1. Enqueue(s, t) = r
  BY DEF Enqueue
<1>2. t \in Tcb /\ "READY" \in Flag
  BY DEF Tcb, Flag
<1>3. /\ a \in KernelState /\ a.list = s.list /\ SameControl(s, a)
      /\ a.status = [s.status EXCEPT ![t] = @ \cup {"READY"}]
      /\ a.prio = s.prio /\ a.timer = s.timer /\ a.due = s.due /\ a.wild = s.wild
  BY <1>2 DEF KernelState, SameControl
<1>4. s.prio[t] \in Heads
  BY <1>3, HeadsFacts DEF KernelState
<1> HIDE DEF a
<1>5. WellLinked(a) /\ On(a, t) = {}
  BY <1>3 DEF WellLinked, On
<1>6. SameBut(s, a, t)
  BY <1>3, DummyTask DEF SameBut, On, KernelState, Tcb
<1>7. /\ r \in KernelState /\ WellLinked(r) /\ SameData(a, r)
      /\ SameBut(a, r, t)
      /\ On(r, t) = {s.prio[t]}
      /\ r.wild = a.wild
  BY <1>3, <1>4, <1>5, InsertFacts
<1> HIDE DEF r
<1>8. SameBut(s, r, t)
  BY <1>6, <1>7, SameButTrans
<1>9. SameControl(s, r)
  BY <1>3, <1>7 DEF SameData, SameControl
<1> QED BY <1>1, <1>3, <1>4, <1>7, <1>8, <1>9 DEF SameData

LEMMA DequeueFacts ==
  ASSUME NEW s \in KernelState, WellLinked(s), NEW t \in Task
  PROVE  LET r == Dequeue(s, t)
         IN  /\ r \in KernelState /\ WellLinked(r) /\ SameControl(s, r)
             /\ SameBut(s, r, t)
             /\ On(r, t) = {}
             /\ r.status = [s.status EXCEPT ![t] = @ \ {"READY"}]
             /\ r.prio = s.prio /\ r.timer = s.timer /\ r.due = s.due
             /\ r.wild = (s.wild \/ On(s, t) = {})
<1> DEFINE a == [s EXCEPT !.status[t] = @ \ {"READY"}]
           r == LOS_ListDelete(a, t)
<1>1. Dequeue(s, t) = r
  BY DEF Dequeue
<1>2. t \in Tcb
  BY DEF Tcb
<1>3. /\ a \in KernelState /\ a.list = s.list /\ SameControl(s, a)
      /\ a.status = [s.status EXCEPT ![t] = @ \ {"READY"}]
      /\ a.prio = s.prio /\ a.timer = s.timer /\ a.due = s.due /\ a.wild = s.wild
  BY <1>2 DEF KernelState, SameControl
<1> HIDE DEF a
<1>5. WellLinked(a) /\ On(a, t) = On(s, t)
  BY <1>3 DEF WellLinked, On
<1>6. SameBut(s, a, t)
  BY <1>3, DummyTask DEF SameBut, On, KernelState, Tcb
<1>7. /\ r \in KernelState /\ WellLinked(r) /\ SameData(a, r)
      /\ SameBut(a, r, t)
      /\ On(r, t) = {}
      /\ r.wild = (a.wild \/ On(a, t) = {})
  BY <1>3, <1>5, ListDeleteFacts
<1> HIDE DEF r
<1>8. SameBut(s, r, t)
  BY <1>6, <1>7, SameButTrans
<1>9. SameControl(s, r)
  BY <1>3, <1>7 DEF SameData, SameControl
<1> QED BY <1>1, <1>3, <1>5, <1>7, <1>8, <1>9 DEF SameData

----------------------------------------------------------------------------
\* The scheduler's choice.

LEMMA TopFacts ==
  ASSUME NEW s \in KernelState, NEW p \in Prio, s.list[p] # <<>>
  PROVE  /\ osPriqueueTop(s) \in Task
         /\ \E q \in Prio : /\ q \in On(s, osPriqueueTop(s))
                            /\ osPriqueueTop(s) = Head(s.list[q])
                            /\ \A r \in Prio : s.list[r] # <<>> => q <= r
<1> DEFINE T == {q \in Prio : s.list[q] # <<>>}
           P(q) == s.list[q] # <<>> /\ \A r \in Prio : s.list[r] # <<>> => q <= r
           c == CHOOSE q \in Prio : P(q)
<1>1. T \subseteq Nat /\ T # {}
  BY DEF Prio
<1>2. \E q \in Prio : P(q)
  BY <1>1, LeastNumber
<1>3. c \in Prio /\ P(c)
  BY <1>2
<1>4. osPriqueueTop(s) = Head(s.list[c])
  BY DEF osPriqueueTop
<1> HIDE DEF c
<1>5. c \in Heads /\ s.list[c] \in Seq(Task)
  BY <1>3, HeadsFacts DEF KernelState
<1>6. Head(s.list[c]) \in Task /\ Head(s.list[c]) \in Elems(s.list[c])
  <2> DEFINE l == s.list[c]
  <2>1. l \in Seq(Task) /\ l # <<>>
    BY <1>3, <1>5
  <2> HIDE DEF l
  <2>2. Head(l) = l[1] /\ 1 \in DOMAIN l /\ l[1] \in Task
    BY <2>1
  <2>3. Head(l) \in Task /\ Head(l) \in Elems(l)
    BY <2>2 DEF Elems
  <2> QED BY <2>3 DEF l
<1> QED BY <1>3, <1>4, <1>5, <1>6 DEF On

LEMMA TopUnique ==
  ASSUME NEW s, NEW p \in Prio, s.list[p] # <<>>,
         \A q \in Prio : s.list[q] # <<>> => p <= q
  PROVE  osPriqueueTop(s) = Head(s.list[p])
<1> DEFINE P(q) == s.list[q] # <<>> /\ \A r \in Prio : s.list[r] # <<>> => q <= r
           c == CHOOSE q \in Prio : P(q)
<1>1. P(p)
  OBVIOUS
<1>2. c \in Prio /\ P(c)
  BY <1>1
<1> HIDE DEF c
<1>3. c = p
  BY <1>1, <1>2 DEF Prio
<1>4. osPriqueueTop(s) = Head(s.list[c])
  BY DEF osPriqueueTop, c
<1> QED BY <1>3, <1>4

\* The choice depends on the ready lists only.
LEMMA TopSame ==
  ASSUME NEW s \in KernelState, NEW r \in KernelState, NEW p \in Prio, s.list[p] # <<>>,
         \A q \in Prio : r.list[q] = s.list[q]
  PROVE  osPriqueueTop(r) = osPriqueueTop(s)
<1>1. PICK q \in Prio : /\ osPriqueueTop(s) = Head(s.list[q]) /\ q \in On(s, osPriqueueTop(s))
                        /\ \A k \in Prio : s.list[k] # <<>> => q <= k
  BY TopFacts
<1>2. s.list[q] # <<>>
  BY <1>1 DEF On, Elems
<1>3. r.list[q] # <<>> /\ \A k \in Prio : r.list[k] # <<>> => q <= k
  BY <1>1, <1>2
<1> QED BY <1>1, <1>3, TopUnique

\* In a consistent state there is a ready task, the idle task at least, and the first one
\* of the highest priority is ready.
LEMMA TopReady ==
  ASSUME NEW s, Consistent(s)
  PROVE  osPriqueueTop(s) \in Task /\ "READY" \in s.status[osPriqueueTop(s)]
<1>1. Idle \in Task /\ Lowest \in Prio /\ Lowest \in Heads
  BY HeadsFacts DEF Task
<1>2. Lowest \in On(s, Idle)
  BY <1>1 DEF Consistent, TaskAgrees, IdleStays
<1>3. s.list[Lowest] # <<>>
  BY <1>2 DEF On, Elems
<1>4. PICK q \in Prio : q \in On(s, osPriqueueTop(s))
  BY <1>1, <1>3, TopFacts DEF Consistent
<1>5. osPriqueueTop(s) \in Task
  BY <1>1, <1>3, TopFacts DEF Consistent
<1> QED BY <1>4, <1>5 DEF Consistent, TaskAgrees

\* What a task has on lists and sort link does not depend on the control fields.
LEMMA ControlStep ==
  ASSUME NEW s, Consistent(s), NEW r \in KernelState,
         r.list = s.list, r.prio = s.prio, r.timer = s.timer, r.due = s.due,
         \A t \in Tcb : r.status[t] \ {"RUNNING"} = s.status[t] \ {"RUNNING"},
         \A t \in Task : "UNUSED" \in s.status[t] => r.status[t] = s.status[t]
  PROVE  Consistent(r)
<1>1. WellLinked(r) /\ \A t \in Task : On(r, t) = On(s, t)
  BY DEF WellLinked, On, Consistent
<1>2. \A t \in Task : TaskAgrees(r, t)
  <2> SUFFICES ASSUME NEW t \in Task PROVE TaskAgrees(r, t)
    OBVIOUS
  <2>1. \A f \in Flag \ {"RUNNING"} : f \in r.status[t] <=> f \in s.status[t]
    BY DEF Tcb
  <2>2. TaskAgrees(s, t)
    BY DEF Consistent
  <2> QED BY <1>1, <2>1, <2>2 DEF TaskAgrees, Flag, Blocked
<1>3. IdleStays(r)
  BY DEF IdleStays, Consistent, Task, Tcb
<1> QED BY <1>1, <1>2, <1>3 DEF Consistent

LEMMA ScheduleFacts ==
  ASSUME NEW s, Consistent(s)
  PROVE  LET r == LOS_Schedule(s)
         IN  /\ Consistent(r)
             /\ r.new = osPriqueueTop(s)
             /\ r.pendSV = (s.pendSV \/ (s.run # osPriqueueTop(s) /\ s.lock = 0))
             /\ r.list = s.list /\ r.status = s.status /\ r.prio = s.prio
             /\ r.run = s.run /\ r.lock = s.lock /\ r.scheduled = s.scheduled
             /\ r.resched = s.resched /\ r.needSchedule = s.needSchedule /\ r.wild = s.wild
             /\ r.irq = s.irq /\ r.scan = s.scan /\ r.due = s.due
<1> DEFINE r == LOS_Schedule(s)
<1>1. /\ r.new = osPriqueueTop(s)
      /\ r.pendSV = (s.pendSV \/ (s.run # osPriqueueTop(s) /\ s.lock = 0))
  BY DEF LOS_Schedule, Consistent, KernelState
<1>2. r \in KernelState
  BY TopReady DEF LOS_Schedule, Consistent, KernelState
<1>3. /\ r.list = s.list /\ r.status = s.status /\ r.prio = s.prio /\ r.timer = s.timer
      /\ r.run = s.run /\ r.lock = s.lock /\ r.scheduled = s.scheduled
      /\ r.resched = s.resched /\ r.needSchedule = s.needSchedule /\ r.wild = s.wild
      /\ r.irq = s.irq /\ r.scan = s.scan /\ r.due = s.due
  BY DEF LOS_Schedule, Consistent, KernelState
<1> HIDE DEF r
<1>4. Consistent(r)
  BY <1>2, <1>3, ControlStep
<1> QED BY <1>1, <1>3, <1>4 DEF r

LEMMA RescheduleFacts ==
  ASSUME NEW s, Consistent(s), s.irq \/ s.scan \/ s.run \in Task
  PROVE  LET r == Reschedule(s)
         IN  /\ Consistent(r)
             /\ r.list = s.list /\ r.status = s.status /\ r.prio = s.prio
             /\ r.run = s.run /\ r.lock = s.lock /\ r.scheduled = s.scheduled
             /\ r.needSchedule = s.needSchedule /\ r.wild = s.wild
             /\ r.irq = s.irq /\ r.scan = s.scan
<1> DEFINE r == [s EXCEPT !.resched = @ \cup {s.run}]
<1>1. CASE s.irq \/ s.scan
  BY <1>1, ScheduleFacts DEF Reschedule
<1>2. CASE ~ (s.irq \/ s.scan)
  <2>1. /\ r \in KernelState /\ r.list = s.list /\ r.status = s.status
        /\ r.prio = s.prio /\ r.timer = s.timer /\ r.due = s.due
        /\ r.run = s.run /\ r.lock = s.lock /\ r.scheduled = s.scheduled
        /\ r.needSchedule = s.needSchedule /\ r.wild = s.wild
        /\ r.irq = s.irq /\ r.scan = s.scan
    BY <1>2 DEF Consistent, KernelState
  <2>2. Reschedule(s) = r
    BY <1>2 DEF Reschedule
  <2> HIDE DEF r
  <2>3. Consistent(r)
    BY <2>1, ControlStep
  <2> QED BY <2>1, <2>2, <2>3
<1> QED BY <1>1, <1>2

----------------------------------------------------------------------------
\* Every kernel operation on one task keeps the lists consistent.

LEMMA PriModifyFacts ==
  ASSUME NEW s, Consistent(s), NEW t \in Task \ {Idle}, NEW p \in Prio
  PROVE  LET r == osTaskPriModify(s, t, p)
         IN  /\ Consistent(r) /\ SameControl(s, r) /\ r.wild = s.wild
             /\ r.status = s.status /\ Drains(s, r)
             /\ "READY" \notin s.status[t] => r.list = s.list
<1> DEFINE a == Dequeue(s, t)
           b == [a EXCEPT !.prio[t] = p]
           c == Enqueue(b, t)
           d == [s EXCEPT !.prio[t] = p]
<1>0. s \in KernelState /\ WellLinked(s) /\ TaskAgrees(s, t)
  BY DEF Consistent
<1>1. CASE "READY" \in s.status[t]
  <2>1. /\ a \in KernelState /\ WellLinked(a) /\ SameControl(s, a)
        /\ SameBut(s, a, t)
        /\ On(a, t) = {}
        /\ a.status = [s.status EXCEPT ![t] = @ \ {"READY"}]
        /\ a.prio = s.prio /\ a.timer = s.timer /\ a.due = s.due
        /\ a.wild = (s.wild \/ On(s, t) = {})
    BY <1>0, DequeueFacts
  <2>2. a.wild = s.wild
    <3>1. s.prio[t] \in Prio
      BY <1>0 DEF KernelState
    <3>2. s.prio[t] \in On(s, t)
      BY <1>0, <1>1, <3>1 DEF TaskAgrees
    <3> QED BY <2>1, <3>2, <1>0 DEF KernelState
  <2> HIDE DEF a
  <2>3. /\ b \in KernelState /\ b.list = a.list /\ b.status = a.status
        /\ b.prio = [a.prio EXCEPT ![t] = p] /\ b.timer = a.timer /\ b.due = a.due
        /\ b.wild = a.wild /\ SameControl(a, b)
    BY <2>1 DEF KernelState, SameControl
  <2> HIDE DEF b
  <2>4. WellLinked(b) /\ On(b, t) = {} /\ SameBut(a, b, t)
    BY <2>1, <2>3 DEF WellLinked, On, SameBut, KernelState
  <2>5. /\ c \in KernelState /\ WellLinked(c) /\ SameControl(b, c)
        /\ SameBut(b, c, t)
        /\ On(c, t) = {b.prio[t]}
        /\ c.status = [b.status EXCEPT ![t] = @ \cup {"READY"}]
        /\ c.prio = b.prio /\ c.timer = b.timer /\ c.due = b.due /\ c.wild = b.wild
    BY <2>3, <2>4, EnqueueFacts
  <2> HIDE DEF c
  <2>6. SameBut(s, c, t)
    BY <2>1, <2>4, <2>5, SameButTrans
  <2>7. c.status = s.status /\ c.prio[t] = p /\ c.timer = s.timer /\ c.due = s.due
    <3>1. s.status \in [Tcb -> SUBSET Flag] /\ s.prio \in [Task -> Prio]
      BY <1>0 DEF KernelState
    <3>2. c.status = [[s.status EXCEPT ![t] = @ \ {"READY"}] EXCEPT ![t] = @ \cup {"READY"}]
      BY <2>1, <2>3, <2>5
    <3>3. (s.status[t] \ {"READY"}) \cup {"READY"} = s.status[t]
      BY <1>1
    <3> QED BY <2>1, <2>3, <2>5, <3>1, <3>2, <3>3, DummyTask
  <2>8. On(c, t) = {p}
    BY <1>0, <2>1, <2>3, <2>5 DEF KernelState
  <2>9. TaskAgrees(c, t)
    BY <1>0, <1>1, <2>7, <2>8, HeadAssumption DEF TaskAgrees, Blocked
  <2>10. Consistent(c)
    BY <2>5, <2>6, <2>9, ConsistentStep
  <2>11. SameControl(s, c)
    BY <2>1, <2>3, <2>5 DEF SameControl
  <2>12. Drains(s, c)
    BY <2>5, <2>6, <2>8, HeadAssumption, DrainsBut
  <2> QED BY <1>1, <2>2, <2>3, <2>5, <2>7, <2>10, <2>11, <2>12 DEF osTaskPriModify, a, b, c
<1>2. CASE "READY" \notin s.status[t]
  <2>1. /\ d \in KernelState /\ d.list = s.list /\ d.status = s.status
        /\ d.prio = [s.prio EXCEPT ![t] = p] /\ d.timer = s.timer /\ d.due = s.due
        /\ d.wild = s.wild /\ SameControl(s, d)
    BY <1>0 DEF KernelState, SameControl
  <2>2. osTaskPriModify(s, t, p) = d
    BY <1>2 DEF osTaskPriModify
  <2> HIDE DEF d
  <2>3. WellLinked(d) /\ On(d, t) = On(s, t) /\ SameBut(s, d, t)
    BY <1>0, <2>1 DEF WellLinked, On, SameBut, KernelState
  <2>4. TaskAgrees(d, t)
    BY <1>0, <1>2, <2>1, <2>3 DEF TaskAgrees
  <2>5. Consistent(d)
    BY <2>1, <2>3, <2>4, ConsistentStep
  <2>6. Drains(s, d)
    BY <2>1 DEF Drains
  <2> QED BY <2>1, <2>2, <2>5, <2>6
<1> QED BY <1>1, <1>2


\* A task that is neither ready nor pending nor unused is on no list.
LEMMA OnNothing ==
  ASSUME NEW s, NEW t, TaskAgrees(s, t),
         s.status[t] \cap {"READY", "PEND", "PEND_QUEUE", "UNUSED"} = {}
  PROVE  On(s, t) = {}
BY DEF TaskAgrees, On, Heads

LEMMA TimerExpireFacts ==
  ASSUME NEW s, Consistent(s), NEW t \in s.due
  PROVE  LET r == TimerExpire(s, t)
         IN  /\ Consistent(r)
             /\ r.run = s.run /\ r.new = s.new /\ r.lock = s.lock
             /\ r.scheduled = s.scheduled /\ r.resched = s.resched
             /\ r.pendSV = s.pendSV /\ r.irq = s.irq /\ r.scan = s.scan
             /\ r.wild = s.wild /\ r.due = s.due \ {t} /\ Drains(s, r)
             /\ t \in Task /\ "READY" \notin s.status[t]
             /\ \A u \in Task \ {t} : r.status[u] = s.status[u]
             /\ r.status[t] \subseteq s.status[t] \cup {"READY"}
             /\ "RUNNING" \in s.status[t] => "RUNNING" \in r.status[t]
             /\ \/ r.needSchedule
                \/ /\ r.needSchedule = s.needSchedule
                   /\ \A p \in Prio : r.list[p] = s.list[p]
<1> DEFINE pend == s.status[t] \cap {"PEND", "PEND_QUEUE"} # {}
           gone == IF "PEND" \in s.status[t] THEN {"PEND"}
                   ELSE IF "PEND_QUEUE" \in s.status[t] THEN {"PEND_QUEUE"} ELSE {"DELAY"}
           e == [s EXCEPT !.timer[t] = 0, !.due = @ \ {t}]
           w == IF pend THEN LOS_ListDelete(e, t) ELSE e
           c == [w EXCEPT !.status[t] = @ \ (IF "PEND" \in @ THEN {"PEND"}
                                             ELSE IF "PEND_QUEUE" \in @ THEN {"PEND_QUEUE"}
                                             ELSE {"DELAY"})]
           d == Enqueue(c, t)
           r == [d EXCEPT !.needSchedule = TRUE]
<1>0. s \in KernelState /\ WellLinked(s) /\ t \in Task /\ TaskAgrees(s, t)
  BY DEF Consistent, KernelState
<1>1. /\ "READY" \notin s.status[t] /\ "UNUSED" \notin s.status[t] /\ t # Idle
      /\ pend \/ "DELAY" \in s.status[t]
  <2>1. s.timer[t] = 1
    BY <1>0 DEF TaskAgrees
  <2>2. pend \/ "DELAY" \in s.status[t]
    BY <1>0, <2>1 DEF TaskAgrees
  <2>3. "READY" \notin s.status[t] /\ "UNUSED" \notin s.status[t]
    BY <1>0, <2>2 DEF TaskAgrees, Blocked
  <2> QED BY <2>2, <2>3 DEF Consistent, IdleStays
<1>2. /\ e \in KernelState /\ e.list = s.list /\ e.status = s.status /\ e.prio = s.prio
      /\ e.timer = [s.timer EXCEPT ![t] = 0] /\ e.due = s.due \ {t}
      /\ e.wild = s.wild /\ SameControl(s, e)
  <2>1. /\ e.list = s.list /\ e.status = s.status /\ e.prio = s.prio
        /\ e.timer = [s.timer EXCEPT ![t] = 0] /\ e.due = s.due \ {t}
        /\ e.wild = s.wild /\ SameControl(s, e)
    BY <1>0 DEF KernelState, SameControl
  <2>2. e = [s EXCEPT !.timer = e.timer, !.due = e.due]
    BY <1>0 DEF KernelState
  <2>3. e.timer \in [Task -> 0 .. MaxTicks] /\ e.due \in SUBSET Task
    BY <1>0, <2>1, BoundAssumption DEF KernelState
  <2>4. e \in KernelState
    BY <1>0, <2>2, <2>3 DEF KernelState
  <2> QED BY <2>1, <2>4
<1> HIDE DEF e
<1>3. WellLinked(e) /\ On(e, t) = On(s, t) /\ SameBut(s, e, t)
  BY <1>0, <1>2 DEF WellLinked, On, SameBut, KernelState
<1>4. /\ w \in KernelState /\ WellLinked(w) /\ SameData(e, w) /\ SameBut(e, w, t)
      /\ On(w, t) = {} /\ w.wild = s.wild
  <2>1. CASE pend
    <3>1. On(e, t) # {}
      BY <1>0, <1>3, <2>1 DEF TaskAgrees
    <3> QED BY <1>0, <1>2, <1>3, <2>1, <3>1, ListDeleteFacts DEF KernelState
  <2>2. CASE ~pend
    <3>1. On(s, t) = {}
      BY <1>0, <1>1, <2>2, OnNothing
    <3> QED BY <1>2, <1>3, <2>2, <3>1 DEF SameBut, SameData, SameControl
  <2> QED BY <2>1, <2>2
<1>14. \A p \in Prio : w.list[p] = s.list[p]
  <2>1. \A p \in Prio : p \in Heads /\ t \notin Elems(s.list[p])
    BY <1>0, <1>1, HeadsFacts DEF TaskAgrees, On
  <2>2. \A p \in Prio : Unlink(s.list[p], t) = s.list[p]
    BY <2>1 DEF Unlink
  <2>3. pend => w.list = [h \in Heads |-> Unlink(s.list[h], t)]
    BY <1>2 DEF LOS_ListDelete, KernelState
  <2>4. ~pend => w.list = s.list
    BY <1>2
  <2> QED BY <2>1, <2>2, <2>3, <2>4
<1> HIDE DEF w
<1>5. /\ c \in KernelState /\ c.list = w.list /\ c.prio = w.prio /\ c.timer = w.timer
      /\ c.due = w.due /\ c.wild = w.wild /\ SameControl(w, c)
      /\ c.status = [w.status EXCEPT ![t] = @ \ gone]
  <2>1. w.status[t] = s.status[t]
    BY <1>2, <1>4 DEF SameData
  <2> QED BY <1>0, <1>4, <2>1 DEF KernelState, SameControl, Tcb
<1> HIDE DEF c
<1>6. WellLinked(c) /\ On(c, t) = {} /\ SameBut(w, c, t)
  BY <1>0, <1>4, <1>5, DummyTask DEF WellLinked, On, SameBut, KernelState
<1>7. SameBut(s, c, t)
  BY <1>3, <1>4, <1>6, SameButTrans
<1>8. /\ c.status[t] = s.status[t] \ gone
      /\ c.timer[t] = 0 /\ t \notin c.due /\ c.due = s.due \ {t}
  <2> HIDE DEF gone
  <2>1. w.status = s.status /\ w.timer = [s.timer EXCEPT ![t] = 0] /\ w.due = s.due \ {t}
    BY <1>2, <1>4 DEF SameData
  <2> QED BY <1>0, <1>5, <2>1 DEF KernelState, Tcb
<1>9. c.status[t] \cap {"READY", "UNUSED", "DELAY", "PEND", "PEND_QUEUE"} = {}
  BY <1>0, <1>1, <1>8 DEF TaskAgrees
<1>10. SameControl(s, c) /\ c.wild = s.wild
  BY <1>2, <1>4, <1>5 DEF SameData, SameControl
<1> USE DEF c, w, e
<1>13. TimerExpire(s, t) = IF "SUSPEND" \in s.status[t] THEN c ELSE r
  BY DEF TimerExpire
<1> HIDE DEF c, w, e
<1>11. CASE "SUSPEND" \in s.status[t]
  <2>1. TaskAgrees(c, t)
    BY <1>6, <1>8, <1>9 DEF TaskAgrees
  <2>2. Consistent(c)
    BY <1>1, <1>5, <1>6, <1>7, <2>1, ConsistentStep
  <2>3. /\ \A u \in Task \ {t} : c.status[u] = s.status[u]
        /\ c.status[t] \subseteq s.status[t] \cup {"READY"}
        /\ "RUNNING" \in s.status[t] => "RUNNING" \in c.status[t]
        /\ \A p \in Prio : c.list[p] = s.list[p]
    BY <1>5, <1>7, <1>8, <1>14 DEF SameBut
  <2>4. Drains(s, c)
    BY <1>5, <1>6, <1>7, DrainsBut
  <2> QED BY <1>0, <1>1, <1>8, <1>10, <1>11, <1>13, <2>2, <2>3, <2>4 DEF SameControl
<1>12. CASE "SUSPEND" \notin s.status[t]
  <2>1. /\ d \in KernelState /\ WellLinked(d) /\ SameControl(c, d)
        /\ SameBut(c, d, t)
        /\ On(d, t) = {c.prio[t]}
        /\ d.status = [c.status EXCEPT ![t] = @ \cup {"READY"}]
        /\ d.prio = c.prio /\ d.timer = c.timer /\ d.due = c.due /\ d.wild = c.wild
    BY <1>0, <1>5, <1>6, EnqueueFacts
  <2> HIDE DEF d
  <2>2. /\ d.status[t] = c.status[t] \cup {"READY"} /\ c.prio[t] \in Prio
    BY <1>0, <1>5, <2>1 DEF KernelState, Tcb
  <2>3. TaskAgrees(d, t)
    BY <1>8, <1>9, <1>12, <2>1, <2>2, HeadAssumption DEF TaskAgrees, Blocked
  <2>4. SameBut(s, d, t)
    BY <1>7, <2>1, SameButTrans
  <2>5. Consistent(d)
    BY <1>1, <2>1, <2>3, <2>4, ConsistentStep
  <2>6. /\ r \in KernelState /\ r.list = d.list /\ r.status = d.status /\ r.prio = d.prio
        /\ r.timer = d.timer /\ r.due = d.due /\ r.wild = d.wild
        /\ r.run = d.run /\ r.new = d.new /\ r.lock = d.lock
        /\ r.scheduled = d.scheduled /\ r.resched = d.resched
        /\ r.pendSV = d.pendSV /\ r.irq = d.irq /\ r.scan = d.scan
        /\ r.needSchedule
    BY <2>1 DEF KernelState
  <2>9. /\ \A u \in Task \ {t} : d.status[u] = s.status[u]
        /\ d.status[t] \subseteq s.status[t] \cup {"READY"}
        /\ "RUNNING" \in s.status[t] => "RUNNING" \in d.status[t]
    BY <1>8, <2>2, <2>4 DEF SameBut
  <2>7. TimerExpire(s, t) = r
    BY <1>12, <1>13 DEF d
  <2> HIDE DEF r
  <2>8. Consistent(r)
    BY <2>5, <2>6, ControlStep
  <2>10. /\ r.run = s.run /\ r.new = s.new /\ r.lock = s.lock
         /\ r.scheduled = s.scheduled /\ r.resched = s.resched
         /\ r.pendSV = s.pendSV /\ r.irq = s.irq /\ r.scan = s.scan
         /\ r.wild = s.wild /\ r.due = s.due \ {t} /\ r.needSchedule
    BY <1>8, <1>10, <2>1, <2>6 DEF SameControl
  <2>11. /\ \A u \in Task \ {t} : r.status[u] = s.status[u]
         /\ r.status[t] \subseteq s.status[t] \cup {"READY"}
         /\ "RUNNING" \in s.status[t] => "RUNNING" \in r.status[t]
    BY <2>6, <2>9
  <2>12. Drains(s, r)
    <3>1. Drains(s, d)
      BY <2>1, <2>2, <2>4, HeadAssumption, DrainsBut
    <3> QED BY <2>6, <3>1 DEF Drains
  <2> QED BY <1>0, <1>1, <2>7, <2>8, <2>10, <2>11, <2>12
<1> QED BY <1>11, <1>12

\* A ready task moves to the tail of its list.
LEMMA RequeueFacts ==
  ASSUME NEW s, Consistent(s), NEW t \in Task, "READY" \in s.status[t]
  PROVE  LET r == Enqueue(LOS_ListDelete(s, t), t)
         IN  /\ Consistent(r) /\ SameControl(s, r) /\ r.wild = s.wild
             /\ r.status = s.status /\ Drains(s, r)
<1> DEFINE a == LOS_ListDelete(s, t)
           r == Enqueue(a, t)
<1>0. s \in KernelState /\ WellLinked(s) /\ TaskAgrees(s, t) /\ s.prio[t] \in Prio
  BY DEF Consistent, KernelState
<1>1. s.prio[t] \in On(s, t)
  BY <1>0 DEF TaskAgrees
<1>2. /\ a \in KernelState /\ WellLinked(a) /\ SameData(s, a) /\ SameBut(s, a, t)
      /\ On(a, t) = {} /\ a.wild = s.wild
  BY <1>0, <1>1, ListDeleteFacts DEF KernelState
<1> HIDE DEF a
<1>3. /\ r \in KernelState /\ WellLinked(r) /\ SameControl(a, r)
      /\ SameBut(a, r, t) /\ On(r, t) = {a.prio[t]}
      /\ r.status = [a.status EXCEPT ![t] = @ \cup {"READY"}]
      /\ r.prio = a.prio /\ r.timer = a.timer /\ r.due = a.due /\ r.wild = a.wild
  BY <1>2, EnqueueFacts
<1> HIDE DEF r
<1>4. /\ r.status = s.status /\ r.prio = s.prio /\ r.timer = s.timer /\ r.due = s.due
      /\ On(r, t) = {s.prio[t]}
  <2>1. s.status[t] \cup {"READY"} = s.status[t] /\ s.status \in [Tcb -> SUBSET Flag]
    BY <1>0 DEF KernelState
  <2>2. r.status = s.status
    <3>1. r.status = [s.status EXCEPT ![t] = s.status[t]]
      BY <1>2, <1>3, <2>1 DEF SameData
    <3> QED BY <2>1, <3>1, DummyTask
  <2> QED BY <1>2, <1>3, <2>2 DEF SameData
<1>5. TaskAgrees(r, t)
  BY <1>0, <1>4, HeadAssumption DEF TaskAgrees, Blocked
<1>6. SameBut(s, r, t)
  BY <1>2, <1>3, SameButTrans
<1>7. t # Idle \/ IdleStays(r)
  BY <1>4, <1>6 DEF IdleStays, Consistent, SameBut
<1>8. Consistent(r)
  BY <1>3, <1>5, <1>6, <1>7, ConsistentStep
<1>9. SameControl(s, r) /\ r.wild = s.wild
  BY <1>2, <1>3 DEF SameControl, SameData
<1>10. Drains(s, r)
  BY <1>0, <1>3, <1>4, <1>6, HeadAssumption, DrainsBut
<1> QED BY <1>4, <1>8, <1>9, <1>10 DEF r, a

\* r is in the same mode as s: nothing that decides who runs, and when, has changed.
Alike(s, r) ==
  /\ r.run = s.run /\ r.new = s.new /\ r.lock = s.lock /\ r.scheduled = s.scheduled
  /\ r.resched = s.resched /\ r.pendSV = s.pendSV /\ r.irq = s.irq /\ r.scan = s.scan
  /\ r.needSchedule = s.needSchedule /\ r.wild = s.wild

LEMMA YieldFacts ==
  ASSUME NEW s, Consistent(s)
  PROVE  \/ Yield(s) = s
         \/ \E m : /\ Consistent(m) /\ Alike(s, m) /\ m.status = s.status
                  /\ Drains(s, m) /\ s.run \in Task /\ Yield(s) = Reschedule(m)
<1> DEFINE m == Enqueue(LOS_ListDelete(s, s.run), s.run)
<1>1. CASE "READY" \in s.status[s.run] /\ Len(s.list[s.prio[s.run]]) > 1
  <2>1. s.run \in Task
    BY <1>1 DEF Consistent, KernelState, IdleStays, Tcb
  <2>2. Consistent(m) /\ Alike(s, m) /\ m.status = s.status /\ Drains(s, m)
    BY <1>1, <2>1, RequeueFacts DEF SameControl, Alike
  <2>3. Yield(s) = Reschedule(m)
    BY <1>1 DEF Yield
  <2> HIDE DEF m
  <2> QED BY <2>1, <2>2, <2>3
<1>2. CASE ~ ("READY" \in s.status[s.run] /\ Len(s.list[s.prio[s.run]]) > 1)
  BY <1>2 DEF Yield
<1> QED BY <1>1, <1>2

LEMMA TimesliceFacts ==
  ASSUME NEW s, Consistent(s)
  PROVE  \E m : /\ Consistent(m) /\ Alike(s, m) /\ m.status = s.status /\ Drains(s, m)
               /\ \/ osTimesliceCheck(s) = m /\ m.list = s.list
                  \/ s.run \in Task /\ osTimesliceCheck(s) = Reschedule(m)
<1> DEFINE left == IF s.sliceTask # s.run \/ s.sliceLeft = 0 THEN TimeSlice - 1
                   ELSE s.sliceLeft - 1
           z == [s EXCEPT !.sliceTask = Dummy, !.sliceLeft = 0]
           k == [s EXCEPT !.sliceTask = s.run, !.sliceLeft = left]
<1>1. left \in 0 .. TimeSlice - 1 /\ 0 \in 0 .. TimeSlice - 1
  BY BoundAssumption DEF Consistent, KernelState
<1> HIDE DEF left
<1>2. /\ z \in KernelState /\ z.list = s.list /\ z.status = s.status /\ z.prio = s.prio
      /\ z.timer = s.timer /\ z.due = s.due /\ Alike(s, z)
  BY <1>1, DummyTask DEF Consistent, KernelState, Alike
<1>3. /\ k \in KernelState /\ k.list = s.list /\ k.status = s.status /\ k.prio = s.prio
      /\ k.timer = s.timer /\ k.due = s.due /\ Alike(s, k)
  BY <1>1 DEF Consistent, KernelState, Alike
<1>4. osTimesliceCheck(s) = IF left = 0 THEN Yield(z) ELSE k
  BY DEF osTimesliceCheck, left
<1> HIDE DEF z, k
<1>5. Consistent(z) /\ Consistent(k)
  BY <1>2, <1>3, ControlStep
<1>6. CASE left # 0
  BY <1>3, <1>4, <1>5, <1>6 DEF Drains
<1>7. CASE left = 0
  <2>1. CASE Yield(z) = z
    BY <1>2, <1>4, <1>5, <1>7, <2>1 DEF Drains
  <2>2. CASE Yield(z) # z
    <3>1. PICK m : /\ Consistent(m) /\ Alike(z, m) /\ m.status = z.status
                   /\ Drains(z, m) /\ z.run \in Task /\ Yield(z) = Reschedule(m)
      BY <1>5, <2>2, YieldFacts
    <3>2. Alike(s, m) /\ s.run \in Task /\ Drains(s, m)
      BY <1>2, <3>1 DEF Alike, Drains
    <3> QED BY <1>2, <1>4, <1>7, <3>1, <3>2
  <2> QED BY <2>1, <2>2
<1> QED BY <1>6, <1>7

LEMMA NextSlotFacts ==
  ASSUME NEW s, Consistent(s)
  PROVE  LET r == NextSlot(s)
         IN  /\ Consistent(r)
             /\ r.run = s.run /\ r.lock = s.lock /\ r.scheduled = s.scheduled
             /\ r.needSchedule = s.needSchedule /\ r.wild = s.wild
             /\ r.irq = s.irq /\ r.scan = s.scan
             /\ r.list = s.list /\ r.status = s.status /\ r.prio = s.prio
             /\ r.pendSV = s.pendSV /\ r.new = s.new /\ r.resched = s.resched
<1> DEFINE r == NextSlot(s)
           tm == [t \in Task |-> IF s.timer[t] > 1 THEN s.timer[t] - 1 ELSE s.timer[t]]
           du == {t \in Task : s.timer[t] = 1}
<1>0. s \in KernelState /\ s.timer \in [Task -> 0 .. MaxTicks] /\ MaxTicks \in Nat
  BY BoundAssumption DEF Consistent, KernelState
<1>1. r = [s EXCEPT !.due = du, !.timer = tm]
  BY <1>0 DEF NextSlot, KernelState
<1>2. tm \in [Task -> 0 .. MaxTicks] /\ du \in SUBSET Task
  BY <1>0
<1>3. \A t \in Task : /\ tm[t] > 0 <=> s.timer[t] > 0
                      /\ t \in du => tm[t] = 1
  BY <1>0
<1> HIDE DEF tm, du
<1>4. /\ r \in KernelState /\ r.timer = tm /\ r.due = du
      /\ r.run = s.run /\ r.lock = s.lock /\ r.scheduled = s.scheduled
      /\ r.needSchedule = s.needSchedule /\ r.wild = s.wild
      /\ r.irq = s.irq /\ r.scan = s.scan
      /\ r.list = s.list /\ r.status = s.status /\ r.prio = s.prio
      /\ r.pendSV = s.pendSV /\ r.new = s.new /\ r.resched = s.resched
  BY <1>0, <1>1, <1>2 DEF KernelState
<1> HIDE DEF r
<1>5. WellLinked(r) /\ IdleStays(r) /\ \A t \in Task : On(r, t) = On(s, t)
  BY <1>4 DEF WellLinked, On, IdleStays, Consistent
<1>6. \A t \in Task : TaskAgrees(r, t)
  BY <1>3, <1>4, <1>5 DEF TaskAgrees, Consistent
<1> QED BY <1>4, <1>5, <1>6 DEF Consistent, r

LEMMA RecycleFacts ==
  ASSUME NEW s, Consistent(s)
  PROVE  LET r == RecycleTcbs(s)
         IN  /\ Consistent(r) /\ SameControl(s, r)
             /\ r.status = s.status /\ r.prio = s.prio /\ r.wild = s.wild
             /\ \A p \in Prio \cup WaitList : r.list[p] = s.list[p]
<1> DEFINE l == s.list[RecycleList]
           v == [i \in 1 .. Len(l) |-> l[Len(l) + 1 - i]]
           q == v \o s.list[FreeTask]
           r == RecycleTcbs(s)
<1>0. /\ s \in KernelState /\ WellLinked(s) /\ FreeTask \in Heads /\ RecycleList \in Heads
      /\ s.list \in [Heads -> Seq(Task)] /\ FreeTask # RecycleList
  BY HeadsFacts, HeadAssumption DEF Consistent, KernelState
<1>1. v \in Seq(Task) /\ Elems(v) = Elems(l) /\ NoDup(v)
  <2>1. l \in Seq(Task) /\ NoDup(l)
    BY <1>0 DEF WellLinked
  <2> HIDE DEF l
  <2> QED BY <2>1, ReverseElems
<1>2. q \in Seq(Task) /\ NoDup(q) /\ Elems(q) = Elems(l) \cup Elems(s.list[FreeTask])
  <2> DEFINE f == s.list[FreeTask]
  <2>1. f \in Seq(Task) /\ NoDup(f) /\ Elems(v) \cap Elems(f) = {}
    BY <1>0, <1>1 DEF WellLinked
  <2> HIDE DEF f, v
  <2>2. v \o f \in Seq(Task) /\ NoDup(v \o f) /\ Elems(v \o f) = Elems(v) \cup Elems(f)
    BY <1>1, <2>1, ConcatElems
  <2> QED BY <1>1, <2>2 DEF f
<1>3. r.list = [s.list EXCEPT ![RecycleList] = <<>>, ![FreeTask] = q]
  BY <1>0 DEF RecycleTcbs, KernelState
<1>4. /\ SameControl(s, r) /\ r.status = s.status /\ r.prio = s.prio /\ r.wild = s.wild
      /\ r.timer = s.timer /\ r.due = s.due
      /\ r = [s EXCEPT !.list = r.list]
  BY <1>0 DEF RecycleTcbs, KernelState, SameControl
<1> HIDE DEF q, l, r
<1>5. /\ r.list[RecycleList] = <<>> /\ r.list[FreeTask] = q
      /\ \A h \in Heads \ {FreeTask, RecycleList} : r.list[h] = s.list[h]
      /\ r.list \in [Heads -> Seq(Task)]
  <2> DEFINE none == <<>>
  <2>1. none \in Seq(Task)
    OBVIOUS
  <2>2. r.list = [s.list EXCEPT ![RecycleList] = none, ![FreeTask] = q]
    BY <1>3
  <2>3. none = <<>>
    OBVIOUS
  <2> HIDE DEF none
  <2> QED BY <1>0, <1>2, <2>1, <2>2, <2>3
<1>6. r \in KernelState
  BY <1>0, <1>4, <1>5 DEF KernelState
<1>7. /\ Elems(r.list[RecycleList]) = {}
      /\ Elems(r.list[FreeTask]) = Elems(s.list[RecycleList]) \cup Elems(s.list[FreeTask])
      /\ \A h \in Heads \ {FreeTask, RecycleList} : Elems(r.list[h]) = Elems(s.list[h])
  <2>1. Elems(<<>>) = {}
    BY DEF Elems
  <2> QED BY <1>2, <1>5, <2>1 DEF l
<1>8. \A h \in Heads : NoDup(r.list[h])
  <2>1. NoDup(r.list[RecycleList])
    BY <1>5 DEF NoDup
  <2> QED BY <1>0, <1>2, <1>5, <2>1 DEF WellLinked
<1>9. ASSUME NEW h1 \in Heads, NEW h2 \in Heads, h1 # h2
      PROVE  Elems(r.list[h1]) \cap Elems(r.list[h2]) = {}
  <2>1. \A g1, g2 \in Heads : g1 # g2 => Elems(s.list[g1]) \cap Elems(s.list[g2]) = {}
    BY <1>0 DEF WellLinked
  <2>2. CASE h1 = RecycleList \/ h2 = RecycleList
    BY <1>7, <2>2
  <2>3. CASE h1 = FreeTask /\ h2 # RecycleList
    <3>1. h2 \in Heads \ {FreeTask, RecycleList}
      BY <1>9, <2>3
    <3>2. /\ Elems(s.list[FreeTask]) \cap Elems(s.list[h2]) = {}
          /\ Elems(s.list[RecycleList]) \cap Elems(s.list[h2]) = {}
      BY <1>0, <2>1, <3>1
    <3> QED BY <1>7, <2>3, <3>1, <3>2
  <2>4. CASE h2 = FreeTask /\ h1 # RecycleList
    <3>1. h1 \in Heads \ {FreeTask, RecycleList}
      BY <1>9, <2>4
    <3>2. /\ Elems(s.list[FreeTask]) \cap Elems(s.list[h1]) = {}
          /\ Elems(s.list[RecycleList]) \cap Elems(s.list[h1]) = {}
      BY <1>0, <2>1, <3>1
    <3> QED BY <1>7, <2>4, <3>1, <3>2
  <2>5. CASE h1 \notin {FreeTask, RecycleList} /\ h2 \notin {FreeTask, RecycleList}
    BY <1>7, <1>9, <2>1, <2>5
  <2> QED BY <2>2, <2>3, <2>4, <2>5
<1>10. WellLinked(r)
  BY <1>8, <1>9 DEF WellLinked
<1>11. \A h \in Prio \cup WaitList : h \in Heads \ {FreeTask, RecycleList}
  BY HeadsFacts, HeadAssumption
<1>12. \A t \in Task : /\ \A p \in Prio : p \in On(r, t) <=> p \in On(s, t)
                       /\ On(r, t) \cap WaitList = On(s, t) \cap WaitList
                       /\ On(r, t) \cap {FreeTask, RecycleList} # {}
                            <=> On(s, t) \cap {FreeTask, RecycleList} # {}
  BY <1>0, <1>7, <1>11 DEF On
<1>13. \A t \in Task : TaskAgrees(r, t)
  BY <1>4, <1>12 DEF TaskAgrees, Consistent
<1>14. Consistent(r)
  BY <1>4, <1>6, <1>10, <1>13 DEF Consistent, IdleStays
<1> QED BY <1>4, <1>5, <1>11, <1>14 DEF r

LEMMA InitTcbFacts ==
  ASSUME NEW s, Consistent(s), s.list[FreeTask] # <<>>, NEW p \in Prio
  PROVE  LET r == InitTcb(s, p)
             t == Head(s.list[FreeTask])
         IN  /\ Consistent(r) /\ SameControl(s, r) /\ r.wild = s.wild
             /\ t \in Task /\ t # Idle
             /\ SameBut(s, r, t) /\ On(r, t) = {}
             /\ r.status = [s.status EXCEPT ![t] = {"SUSPEND"}]
             /\ r.timer[t] = 0 /\ t \notin r.due
             /\ \A q \in Prio \cup WaitList : r.list[q] = s.list[q]
<1> DEFINE f == s.list[FreeTask]
           t == Head(f)
           r == InitTcb(s, p)
<1>0. /\ s \in KernelState /\ WellLinked(s) /\ FreeTask \in Heads
      /\ s.list \in [Heads -> Seq(Task)]
  BY HeadsFacts DEF Consistent, KernelState
<1>1. /\ t \in Task /\ t \in Elems(f) /\ Tail(f) \in Seq(Task) /\ NoDup(Tail(f))
      /\ Elems(Tail(f)) = Elems(f) \ {t}
  <2>1. f \in Seq(Task) /\ NoDup(f) /\ f # <<>>
    BY <1>0 DEF WellLinked
  <2> HIDE DEF f
  <2> QED BY <2>1, HeadTailElems
<1>2. FreeTask \in On(s, t) /\ \A h \in Heads : h # FreeTask => h \notin On(s, t)
  BY <1>0, <1>1 DEF On, WellLinked
<1>3. TaskAgrees(s, t) /\ s.status[t] = {"UNUSED"} /\ t # Idle
  BY <1>1, <1>2 DEF TaskAgrees, Consistent, IdleStays
<1>4. s.timer[t] = 0 /\ t \notin s.due
  BY <1>0, <1>1, <1>3 DEF TaskAgrees, KernelState
<1> HIDE DEF t
<1>5. /\ r.list = [s.list EXCEPT ![FreeTask] = Tail(f)]
      /\ r.status = [s.status EXCEPT ![t] = {"SUSPEND"}]
      /\ r.prio = [s.prio EXCEPT ![t] = p]
      /\ r.timer = s.timer /\ r.due = s.due /\ r.wild = s.wild /\ SameControl(s, r)
      /\ r = [s EXCEPT !.list = r.list, !.status = r.status, !.prio = r.prio]
  BY <1>0 DEF InitTcb, KernelState, SameControl, t
<1> HIDE DEF r
<1>6. /\ r.list \in [Heads -> Seq(Task)] /\ r.status \in [Tcb -> SUBSET Flag]
      /\ r.prio \in [Task -> Prio]
  BY <1>0, <1>1, <1>5, DummyTask DEF KernelState, Flag
<1>7. r \in KernelState
  BY <1>0, <1>5, <1>6 DEF KernelState
<1>8. /\ Elems(r.list[FreeTask]) = Elems(s.list[FreeTask]) \ {t}
      /\ NoDup(r.list[FreeTask])
      /\ \A h \in Heads : h # FreeTask => r.list[h] = s.list[h]
  BY <1>0, <1>1, <1>5
<1>9. WellLinked(r)
  BY <1>0, <1>8 DEF WellLinked
<1>10. On(r, t) = {}
  BY <1>2, <1>8 DEF On
<1>11. \A u \in Task \ {t} : On(r, u) = On(s, u)
  BY <1>8 DEF On
<1>12. SameBut(s, r, t)
  BY <1>0, <1>1, <1>5, <1>11, DummyTask DEF SameBut, KernelState
<1>13. r.status[t] = {"SUSPEND"} /\ r.timer[t] = 0 /\ t \notin r.due
  BY <1>0, <1>1, <1>4, <1>5, DummyTask DEF KernelState
<1>14. TaskAgrees(r, t)
  BY <1>10, <1>13 DEF TaskAgrees
<1>15. Consistent(r)
  BY <1>3, <1>7, <1>9, <1>12, <1>14, ConsistentStep
<1>16. \A q \in Prio \cup WaitList : r.list[q] = s.list[q]
  BY <1>8, HeadsFacts, HeadAssumption
<1> QED BY <1>1, <1>3, <1>5, <1>10, <1>12, <1>13, <1>15, <1>16 DEF r, t

\* The first free block is an unused one.
LEMMA FreeHead ==
  ASSUME NEW s, Consistent(s), s.list[FreeTask] # <<>>
  PROVE  LET t == Head(s.list[FreeTask])
         IN  t \in Task /\ t # Idle /\ s.status[t] = {"UNUSED"}
<1> DEFINE f == s.list[FreeTask]
           t == Head(f)
<1>1. FreeTask \in Heads /\ f \in Seq(Task) /\ NoDup(f)
  BY HeadsFacts DEF Consistent, KernelState, WellLinked
<1>2. t \in Task /\ t \in Elems(f)
  <2>1. f # <<>>
    OBVIOUS
  <2> HIDE DEF f
  <2> QED BY <1>1, <2>1, HeadTailElems
<1>3. FreeTask \in On(s, t)
  BY <1>1, <1>2 DEF On
<1> QED BY <1>2, <1>3 DEF TaskAgrees, Consistent, IdleStays

\* A task taken off its list and free of reasons to wait becomes ready.
LEMMA ReadyAgain ==
  ASSUME NEW s, Consistent(s), NEW d \in KernelState, NEW t \in Task \ {Idle},
         WellLinked(d), SameBut(s, d, t), On(d, t) = {},
         d.status[t] \cap (Blocked \cup {"UNUSED"}) = {}, d.timer[t] = 0, t \notin d.due
  PROVE  LET r == Enqueue(d, t)
         IN  Consistent(r) /\ SameControl(d, r) /\ r.wild = d.wild
<1> DEFINE r == Enqueue(d, t)
<1>1. /\ r \in KernelState /\ WellLinked(r) /\ SameControl(d, r)
      /\ SameBut(d, r, t)
      /\ On(r, t) = {d.prio[t]}
      /\ r.status = [d.status EXCEPT ![t] = @ \cup {"READY"}]
      /\ r.prio = d.prio /\ r.timer = d.timer /\ r.due = d.due /\ r.wild = d.wild
  BY EnqueueFacts
<1> HIDE DEF r
<1>2. r.status[t] = d.status[t] \cup {"READY"} /\ d.prio[t] \in Prio
  BY <1>1, DummyTask DEF KernelState
<1>3. TaskAgrees(r, t)
  BY <1>1, <1>2, HeadAssumption DEF TaskAgrees, Blocked
<1>4. SameBut(s, r, t)
  BY <1>1, SameButTrans
<1>5. Consistent(r)
  BY <1>1, <1>3, <1>4, ConsistentStep
<1> QED BY <1>1, <1>5 DEF r

\* The idle task stays on its list while another task is moved.
LEMMA TopType ==
  ASSUME NEW s, Consistent(s), NEW d \in KernelState, NEW t \in Task \ {Idle}, SameBut(s, d, t)
  PROVE  osPriqueueTop(d) \in Task
<1>1. Lowest \in Prio /\ Lowest \in Heads
  BY HeadsFacts
<1>2. Lowest \in On(d, Idle)
  BY <1>1, DummyTask DEF Consistent, TaskAgrees, IdleStays, SameBut
<1>3. d.list[Lowest] # <<>>
  BY <1>2 DEF On, Elems
<1> QED BY <1>1, <1>3, TopFacts

LEMMA UnpendFacts ==
  ASSUME NEW s, Consistent(s), NEW t \in Task, "UNUSED" \notin s.status[t]
  PROVE  LET u == Unpend(s, t)
         IN  /\ u \in KernelState /\ WellLinked(u) /\ SameControl(s, u) /\ SameBut(s, u, t)
             /\ On(u, t) = {} /\ u.status[t] = s.status[t] \ {"READY"}
             /\ u.timer = s.timer /\ u.due = s.due /\ u.wild = s.wild
             /\ u.status[Dummy] = s.status[Dummy]
<1>0. s \in KernelState /\ WellLinked(s) /\ TaskAgrees(s, t) /\ s.prio[t] \in Prio
  BY DEF Consistent, KernelState
<1>1. CASE "READY" \in s.status[t]
  <2> DEFINE u == Dequeue(s, t)
  <2>1. On(s, t) # {}
    BY <1>0, <1>1 DEF TaskAgrees
  <2>2. /\ u \in KernelState /\ WellLinked(u) /\ SameControl(s, u) /\ SameBut(s, u, t)
        /\ On(u, t) = {} /\ u.status = [s.status EXCEPT ![t] = @ \ {"READY"}]
        /\ u.timer = s.timer /\ u.due = s.due /\ u.wild = s.wild
    BY <1>0, <2>1, DequeueFacts DEF KernelState
  <2>3. Unpend(s, t) = u
    BY <1>1 DEF Unpend
  <2> HIDE DEF u
  <2>4. u.status[t] = s.status[t] \ {"READY"} /\ u.status[Dummy] = s.status[Dummy]
    BY <1>0, <2>2, DummyTask DEF KernelState
  <2> QED BY <2>2, <2>3, <2>4
<1>2. CASE "READY" \notin s.status[t] /\ s.status[t] \cap {"PEND", "PEND_QUEUE"} # {}
  <2> DEFINE u == LOS_ListDelete(s, t)
  <2>1. On(s, t) # {}
    BY <1>0, <1>2 DEF TaskAgrees
  <2>2. /\ u \in KernelState /\ WellLinked(u) /\ SameData(s, u) /\ SameBut(s, u, t)
        /\ On(u, t) = {} /\ u.wild = s.wild
    BY <1>0, <2>1, ListDeleteFacts DEF KernelState
  <2>3. Unpend(s, t) = u
    BY <1>2 DEF Unpend
  <2> HIDE DEF u
  <2>4. s.status[t] \ {"READY"} = s.status[t]
    BY <1>2
  <2> QED BY <2>2, <2>3, <2>4 DEF SameData
<1>3. CASE "READY" \notin s.status[t] /\ s.status[t] \cap {"PEND", "PEND_QUEUE"} = {}
  <2>1. Unpend(s, t) = s
    BY <1>3 DEF Unpend
  <2>2. On(s, t) = {}
    BY <1>0, <1>3, OnNothing
  <2>3. s.status[t] \ {"READY"} = s.status[t]
    BY <1>3
  <2> QED BY <1>0, <2>1, <2>2, <2>3 DEF SameControl, SameBut
<1> QED BY <1>1, <1>2, <1>3

LEMMA TimerListDeleteFacts ==
  ASSUME NEW s \in KernelState, NEW t \in Task
  PROVE  LET r == osTimerListDelete(s, t)
         IN  /\ r \in KernelState /\ SameControl(s, r) /\ SameBut(s, r, t)
             /\ r.list = s.list /\ r.status = s.status /\ r.prio = s.prio
             /\ r.timer[t] = 0 /\ t \notin r.due
             /\ r.wild = (s.wild \/ s.timer[t] = 0)
             /\ \A h : On(r, h) = On(s, h)
<1> DEFINE r == osTimerListDelete(s, t)
<1>1. /\ r.list = s.list /\ r.status = s.status /\ r.prio = s.prio
      /\ r.timer = [s.timer EXCEPT ![t] = 0] /\ r.due = s.due \ {t}
      /\ r.wild = (s.wild \/ s.timer[t] = 0)
      /\ SameControl(s, r)
      /\ r = [s EXCEPT !.timer = r.timer, !.due = r.due, !.wild = r.wild]
  BY DEF osTimerListDelete, KernelState, SameControl
<1> HIDE DEF r
<1>2. /\ r.timer \in [Task -> 0 .. MaxTicks] /\ r.due \in SUBSET Task /\ r.wild \in BOOLEAN
      /\ r.timer[t] = 0 /\ \A u \in Task \ {t} : r.timer[u] = s.timer[u]
  BY <1>1, BoundAssumption DEF KernelState
<1>3. r \in KernelState
  BY <1>1, <1>2 DEF KernelState
<1>4. \A h : On(r, h) = On(s, h)
  BY <1>1 DEF On
<1>5. SameBut(s, r, t)
  BY <1>1, <1>2, <1>4 DEF SameBut
<1> QED BY <1>1, <1>2, <1>3, <1>4, <1>5 DEF r

\* The block of a deleted task goes to the free or to the recycle list.
LEMMA UnusedAgain ==
  ASSUME NEW s, Consistent(s), NEW d \in KernelState, NEW t \in Task \ {Idle},
         WellLinked(d), SameBut(s, d, t), On(d, t) = {},
         d.timer[t] = 0, t \notin d.due, d.status[t] = {"UNUSED"},
         NEW h \in {FreeTask, RecycleList},
         NEW r, r = LOS_ListTailInsert(d, h, t) \/ r = LOS_ListAdd(d, h, t)
  PROVE  Consistent(r) /\ SameControl(d, r) /\ r.wild = d.wild
<1>1. h \in Heads /\ t \in Task /\ h \notin Prio /\ h \notin WaitList
  BY HeadsFacts, HeadAssumption
<1>2. /\ r \in KernelState /\ WellLinked(r) /\ SameData(d, r)
      /\ SameBut(d, r, t) /\ On(r, t) = {h} /\ r.wild = d.wild
  BY <1>1, InsertFacts
<1>5. /\ r.status[t] = {"UNUSED"} /\ r.timer[t] = 0 /\ t \notin r.due
  BY <1>2 DEF SameData
<1>3. TaskAgrees(r, t)
  <2>1. /\ \A p \in Prio : p \notin On(r, t)
        /\ On(r, t) \cap WaitList = {}
        /\ On(r, t) \cap {FreeTask, RecycleList} # {}
    BY <1>1, <1>2
  <2> QED BY <1>5, <2>1 DEF TaskAgrees
<1>4. SameBut(s, r, t)
  BY <1>2, SameButTrans
<1> QED BY <1>2, <1>3, <1>4, ConsistentStep DEF SameData

LEMMA RetireFacts ==
  ASSUME NEW s, Consistent(s), NEW d \in KernelState, NEW t \in Task \ {Idle},
         WellLinked(d), SameBut(s, d, t), On(d, t) = {},
         d.timer[t] = 0, t \notin d.due, "READY" \notin d.status[t]
  PROVE  LET r == RetireRunning(d, t)
         IN  /\ Consistent(r) /\ r.run = Dummy /\ r.pendSV
             /\ r.new = osPriqueueTop(d) /\ r.lock = d.lock /\ r.wild = d.wild
             /\ r.scheduled = d.scheduled /\ r.irq = d.irq /\ r.scan = d.scan
             /\ r.needSchedule = d.needSchedule /\ r.resched = d.resched
             /\ \A p \in Prio \cup WaitList : r.list[p] = d.list[p]
<1> DEFINE a == [d EXCEPT !.status[Dummy] = (d.status[t] \ {"SUSPEND"}) \cup {"UNUSED"},
                          !.status[t] = {"UNUSED"},
                          !.run = Dummy, !.new = osPriqueueTop(d), !.pendSV = TRUE]
           r == LOS_ListTailInsert(a, RecycleList, t)
<1>1. osPriqueueTop(d) \in Task
  BY TopType
<1>2. /\ a.status = [d.status EXCEPT ![Dummy] = (d.status[t] \ {"SUSPEND"}) \cup {"UNUSED"},
                                     ![t] = {"UNUSED"}]
      /\ a.list = d.list /\ a.prio = d.prio /\ a.timer = d.timer /\ a.due = d.due
      /\ a.run = Dummy /\ a.new = osPriqueueTop(d) /\ a.pendSV = TRUE
      /\ a.lock = d.lock /\ a.wild = d.wild
      /\ a.scheduled = d.scheduled /\ a.irq = d.irq /\ a.scan = d.scan
      /\ a.needSchedule = d.needSchedule /\ a.resched = d.resched
      /\ a = [d EXCEPT !.status = a.status, !.run = a.run, !.new = a.new, !.pendSV = a.pendSV]
  BY DEF KernelState
<1>3. RetireRunning(d, t) = r
  BY DEF RetireRunning
<1> HIDE DEF a
<1>4. a.status \in [Tcb -> SUBSET Flag] /\ a.status[t] = {"UNUSED"}
      /\ "READY" \notin a.status[Dummy]
      /\ \A u \in Task \ {t} : a.status[u] = d.status[u]
  BY <1>2, DummyTask DEF KernelState, Flag
<1>5. a \in KernelState
  BY <1>1, <1>2, <1>4, DummyTask DEF KernelState
<1>6. WellLinked(a) /\ \A u \in Task : On(a, u) = On(d, u)
  BY <1>2 DEF WellLinked, On
<1>7. SameBut(s, a, t)
  <2>1. "READY" \notin s.status[Dummy]
    BY DEF Consistent, IdleStays
  <2>2. SameBut(d, a, t)
    BY <1>2, <1>4, <1>6, <2>1 DEF SameBut
  <2> QED BY <2>2, SameButTrans
<1>8. Consistent(r) /\ SameControl(a, r) /\ r.wild = a.wild
  <2>1. /\ WellLinked(a) /\ On(a, t) = {} /\ a.timer[t] = 0 /\ t \notin a.due
        /\ RecycleList \in {FreeTask, RecycleList}
    BY <1>2, <1>6
  <2> QED BY <1>4, <1>5, <1>7, <2>1, UnusedAgain
<1>9. \A p \in Prio \cup WaitList : r.list[p] = d.list[p]
  BY <1>2, <1>5, HeadsFacts, HeadAssumption DEF KernelState, LOS_ListTailInsert, LOS_ListAdd
<1> HIDE DEF r
<1> QED BY <1>2, <1>3, <1>8, <1>9 DEF SameControl

LEMMA ReleaseFacts ==
  ASSUME NEW s, Consistent(s), NEW d \in KernelState, NEW t \in Task \ {Idle},
         WellLinked(d), SameBut(s, d, t), On(d, t) = {},
         d.timer[t] = 0, t \notin d.due, "READY" \notin d.status[t]
  PROVE  LET r == ReleaseTcb(d, t)
         IN  /\ Consistent(r) /\ r.run = d.run /\ r.pendSV = d.pendSV
             /\ r.new = osPriqueueTop(d) /\ r.lock = d.lock /\ r.wild = d.wild
             /\ r.scheduled = d.scheduled /\ r.irq = d.irq /\ r.scan = d.scan
             /\ r.needSchedule = d.needSchedule /\ r.resched = d.resched
             /\ \A p \in Prio \cup WaitList : r.list[p] = d.list[p]
<1> DEFINE a == [d EXCEPT !.status[t] = {"UNUSED"}, !.new = osPriqueueTop(d)]
           r == LOS_ListAdd(a, FreeTask, t)
<1>1. osPriqueueTop(d) \in Task
  BY TopType
<1>2. /\ a.status = [d.status EXCEPT ![t] = {"UNUSED"}]
      /\ a.list = d.list /\ a.prio = d.prio /\ a.timer = d.timer /\ a.due = d.due
      /\ a.run = d.run /\ a.new = osPriqueueTop(d) /\ a.pendSV = d.pendSV
      /\ a.lock = d.lock /\ a.wild = d.wild
      /\ a.scheduled = d.scheduled /\ a.irq = d.irq /\ a.scan = d.scan
      /\ a.needSchedule = d.needSchedule /\ a.resched = d.resched
      /\ a = [d EXCEPT !.status = a.status, !.new = a.new]
  BY DEF KernelState
<1>3. ReleaseTcb(d, t) = r
  BY DEF ReleaseTcb
<1> HIDE DEF a
<1>4. a.status \in [Tcb -> SUBSET Flag] /\ a.status[t] = {"UNUSED"}
      /\ a.status[Dummy] = d.status[Dummy]
      /\ \A u \in Task \ {t} : a.status[u] = d.status[u]
  BY <1>2, DummyTask DEF KernelState, Flag
<1>5. a \in KernelState
  BY <1>1, <1>2, <1>4 DEF KernelState
<1>6. WellLinked(a) /\ \A u \in Task : On(a, u) = On(d, u)
  BY <1>2 DEF WellLinked, On
<1>7. SameBut(s, a, t)
  <2>1. SameBut(d, a, t)
    BY <1>2, <1>4, <1>6 DEF SameBut
  <2> QED BY <2>1, SameButTrans
<1>8. Consistent(r) /\ SameControl(a, r) /\ r.wild = a.wild
  <2>1. /\ WellLinked(a) /\ On(a, t) = {} /\ a.timer[t] = 0 /\ t \notin a.due
        /\ FreeTask \in {FreeTask, RecycleList}
    BY <1>2, <1>6
  <2> QED BY <1>4, <1>5, <1>7, <2>1, UnusedAgain
<1>9. \A p \in Prio \cup WaitList : r.list[p] = d.list[p]
  BY <1>2, <1>5, HeadsFacts, HeadAssumption DEF KernelState, LOS_ListTailInsert, LOS_ListAdd
<1> HIDE DEF r
<1> QED BY <1>2, <1>3, <1>8, <1>9 DEF SameControl

LEMMA UnlinkHead ==
  ASSUME NEW S, NEW q \in Seq(S), q # <<>>, NEW t, Head(q) # t
  PROVE  Unlink(q, t) # <<>> /\ Head(Unlink(q, t)) = Head(q)
<1>1. CASE t \notin Elems(q)
  BY <1>1 DEF Unlink
<1>2. CASE t \in Elems(q)
  <2> DEFINE i == CHOOSE i \in DOMAIN q : q[i] = t
             u == [j \in 1 .. Len(q) - 1 |-> IF j < i THEN q[j] ELSE q[j + 1]]
  <2>1. i \in 1 .. Len(q) /\ q[i] = t
    BY <1>2 DEF Elems
  <2>2. Unlink(q, t) = u
    BY <1>2 DEF Unlink
  <2> HIDE DEF i
  <2>3. i # 1 /\ Len(q) > 1 /\ Len(q) - 1 \in Nat /\ 1 \in 1 .. Len(q) - 1
    BY <2>1
  <2>4. \A j \in 1 .. Len(q) - 1 : u[j] \in S
    BY <2>1
  <2>5. u \in Seq(S) /\ Len(u) = Len(q) - 1
    BY <2>3, <2>4
  <2>6. u[1] = q[1]
    BY <2>1, <2>3
  <2> HIDE DEF u
  <2> QED BY <2>2, <2>3, <2>5, <2>6
<1> QED BY <1>1, <1>2

LEMMA LowestNotEmpty ==
  ASSUME NEW s, Consistent(s)
  PROVE  Lowest \in Prio /\ s.list[Lowest] # <<>>
<1>1. Lowest \in Prio /\ Lowest \in On(s, Idle)
  BY HeadsFacts, DummyTask DEF Consistent, TaskAgrees, IdleStays
<1> QED BY <1>1 DEF On, Elems

\* The choice does not change when another task is taken off its list.
LEMMA TopOther ==
  ASSUME NEW s, Consistent(s), NEW r, NEW t, t # osPriqueueTop(s),
         \A q \in Prio : r.list[q] = Unlink(s.list[q], t)
  PROVE  osPriqueueTop(r) = osPriqueueTop(s)
<1>0. /\ s \in KernelState
      /\ \A q \in Prio : s.list[q] \in Seq(Task)
  BY HeadsFacts DEF Consistent, KernelState
<1>1. PICK p \in Prio : /\ osPriqueueTop(s) = Head(s.list[p]) /\ p \in On(s, osPriqueueTop(s))
                        /\ \A k \in Prio : s.list[k] # <<>> => p <= k
  BY <1>0, LowestNotEmpty, TopFacts
<1>2. s.list[p] # <<>>
  BY <1>1 DEF On, Elems
<1>3. r.list[p] # <<>> /\ Head(r.list[p]) = osPriqueueTop(s)
  BY <1>0, <1>1, <1>2, UnlinkHead
<1>4. ASSUME NEW k \in Prio, r.list[k] # <<>> PROVE p <= k
  <2>1. s.list[k] # <<>>
    <3>1. s.list[k] = <<>> => Elems(s.list[k]) = {}
      BY <1>0, ElemsEmpty
    <3> QED BY <1>4, <3>1 DEF Unlink
  <2> QED BY <1>1, <2>1
<1> QED BY <1>3, <1>4, TopUnique

LEMMA DetachTop ==
  ASSUME NEW s, Consistent(s), NEW t, NEW r, t # osPriqueueTop(s),
         r.list = [h \in Heads |-> Unlink(s.list[h], t)]
  PROVE  osPriqueueTop(r) = osPriqueueTop(s)
BY TopOther, HeadsFacts

LEMMA DequeueTop ==
  ASSUME NEW s, Consistent(s), NEW t \in Task, t # osPriqueueTop(s)
  PROVE  osPriqueueTop(Dequeue(s, t)) = osPriqueueTop(s)
<1>1. Dequeue(s, t).list = [h \in Heads |-> Unlink(s.list[h], t)]
  BY DEF Dequeue, LOS_ListDelete, Consistent, KernelState
<1> QED BY <1>1, DetachTop

LEMMA UnpendTop ==
  ASSUME NEW s, Consistent(s), NEW t \in Task, t # osPriqueueTop(s)
  PROVE  osPriqueueTop(Unpend(s, t)) = osPriqueueTop(s)
<1>1. LOS_ListDelete(s, t).list = [h \in Heads |-> Unlink(s.list[h], t)]
  BY DEF LOS_ListDelete, Consistent, KernelState
<1>2. osPriqueueTop(LOS_ListDelete(s, t)) = osPriqueueTop(s)
  BY <1>1, DetachTop
<1> QED BY <1>2, DequeueTop DEF Unpend

LEMMA DeleteTaskFacts ==
  ASSUME NEW s, Consistent(s), NEW t \in Task \ {Idle}, "UNUSED" \notin s.status[t]
  PROVE  LET r == DeleteTask(s, t)
         IN  /\ Consistent(r)
             /\ s.timer[t] > 0 \/ s.status[t] \cap {"DELAY", "TIMEOUT"} = {} => r.wild = s.wild
             /\ r.lock = s.lock /\ r.scheduled = s.scheduled /\ r.irq = s.irq
             /\ r.scan = s.scan /\ r.needSchedule = s.needSchedule
             /\ r.resched = s.resched \ {t}
             /\ r.new = osPriqueueTop(r) /\ Drains(s, r)
             /\ "RUNNING" \notin s.status[t] => r.run = s.run /\ r.pendSV = s.pendSV
             /\ "RUNNING" \in s.status[t] => r.run = Dummy /\ r.pendSV
             /\ \A u \in Task \ {t} : r.status[u] = s.status[u]
             /\ r.status[t] = {"UNUSED"}
             /\ t # osPriqueueTop(s) => osPriqueueTop(r) = osPriqueueTop(s)
<1> DEFINE a == [s EXCEPT !.resched = @ \ {t}]
           u == Unpend(a, t)
           off == s.status[t] \cap {"DELAY", "TIMEOUT"} # {}
           d == IF off THEN osTimerListDelete(u, t) ELSE u
           r == IF "RUNNING" \in s.status[t] THEN RetireRunning(d, t) ELSE ReleaseTcb(d, t)
<1>1. DeleteTask(s, t) = r
  BY DEF DeleteTask
<1>2. /\ a \in KernelState /\ a.list = s.list /\ a.prio = s.prio /\ a.timer = s.timer
      /\ a.due = s.due /\ a.status = s.status /\ a.wild = s.wild
      /\ a.lock = s.lock /\ a.scheduled = s.scheduled /\ a.irq = s.irq /\ a.run = s.run
      /\ a.scan = s.scan /\ a.needSchedule = s.needSchedule /\ a.pendSV = s.pendSV
      /\ a.resched = s.resched \ {t}
  BY DEF Consistent, KernelState
<1> HIDE DEF a
<1>3. Consistent(a)
  BY <1>2, ControlStep
<1>4. /\ u \in KernelState /\ WellLinked(u) /\ SameControl(a, u) /\ SameBut(a, u, t)
      /\ On(u, t) = {} /\ u.status[t] = a.status[t] \ {"READY"}
      /\ u.timer = a.timer /\ u.due = a.due /\ u.wild = a.wild
  BY <1>2, <1>3, UnpendFacts
<1>5. t # osPriqueueTop(s) => osPriqueueTop(u) = osPriqueueTop(s)
  <2>1. osPriqueueTop(a) = osPriqueueTop(s)
    BY <1>2, LowestNotEmpty, TopSame DEF Consistent
  <2> QED BY <1>3, <2>1, UnpendTop
<1> HIDE DEF u
<1>6. /\ d \in KernelState /\ WellLinked(d) /\ SameControl(a, d) /\ SameBut(a, d, t)
      /\ On(d, t) = {} /\ d.status[t] = a.status[t] \ {"READY"}
      /\ d.timer[t] = 0 /\ t \notin d.due /\ d.list = u.list
      /\ s.timer[t] > 0 \/ ~off => d.wild = s.wild
  <2>1. CASE off
    <3>1. /\ d \in KernelState /\ SameControl(u, d) /\ SameBut(u, d, t)
          /\ d.list = u.list /\ d.status = u.status
          /\ d.timer[t] = 0 /\ t \notin d.due
          /\ d.wild = (u.wild \/ u.timer[t] = 0)
          /\ \A h : On(d, h) = On(u, h)
      BY <1>4, <2>1, TimerListDeleteFacts
    <3>2. WellLinked(d)
      BY <1>4, <3>1 DEF WellLinked
    <3>3. SameBut(a, d, t) /\ SameControl(a, d)
      BY <1>4, <3>1, SameButTrans DEF SameControl
    <3>4. s.timer[t] > 0 => d.wild = s.wild
      <4>1. u.wild = s.wild /\ u.wild \in BOOLEAN /\ u.timer[t] = s.timer[t]
        BY <1>2, <1>4 DEF KernelState
      <4>2. s.timer[t] > 0 => s.timer[t] # 0
        OBVIOUS
      <4> QED BY <3>1, <4>1, <4>2
    <3> QED BY <1>4, <2>1, <3>1, <3>2, <3>3, <3>4
  <2>2. CASE ~off
    <3>1. TaskAgrees(s, t) /\ s.timer[t] \in 0 .. MaxTicks
      BY DEF Consistent, KernelState
    <3>2. s.timer[t] = 0 /\ t \notin s.due
      BY <2>2, <3>1, BoundAssumption DEF TaskAgrees
    <3> QED BY <1>2, <1>4, <2>2, <3>2
  <2> QED BY <2>1, <2>2
<1>7. osPriqueueTop(d) = osPriqueueTop(u)
  BY <1>6 DEF osPriqueueTop
<1> HIDE DEF d
<1>8. "READY" \notin d.status[t]
  BY <1>6
<1>9. /\ Consistent(r) /\ r.new = osPriqueueTop(d) /\ r.lock = d.lock /\ r.wild = d.wild
      /\ r.scheduled = d.scheduled /\ r.irq = d.irq /\ r.scan = d.scan
      /\ r.needSchedule = d.needSchedule /\ r.resched = d.resched
      /\ \A p \in Prio \cup WaitList : r.list[p] = d.list[p]
      /\ "RUNNING" \notin s.status[t] => r.run = d.run /\ r.pendSV = d.pendSV
      /\ "RUNNING" \in s.status[t] => r.run = Dummy /\ r.pendSV
  <2>1. CASE "RUNNING" \in s.status[t]
    <3>1. r = RetireRunning(d, t)
      BY <2>1
    <3> HIDE DEF r
    <3>2. /\ Consistent(r) /\ r.new = osPriqueueTop(d) /\ r.lock = d.lock /\ r.wild = d.wild
          /\ r.scheduled = d.scheduled /\ r.irq = d.irq /\ r.scan = d.scan
          /\ r.needSchedule = d.needSchedule /\ r.resched = d.resched
          /\ \A p \in Prio \cup WaitList : r.list[p] = d.list[p]
          /\ r.run = Dummy /\ r.pendSV
      BY <1>3, <1>6, <1>8, <3>1, RetireFacts
    <3> QED BY <2>1, <3>2, Zenon
  <2>2. CASE "RUNNING" \notin s.status[t]
    <3>1. r = ReleaseTcb(d, t)
      BY <2>2
    <3> HIDE DEF r
    <3> QED BY <1>3, <1>6, <1>8, <2>2, <3>1, ReleaseFacts
  <2> QED BY <2>1, <2>2
<1>10. /\ \A v \in Task \ {t} : r.status[v] = s.status[v]
       /\ r.status[t] = {"UNUSED"}
  <2>1. \A v \in Task \ {t} : d.status[v] = s.status[v]
    BY <1>2, <1>6 DEF SameBut
  <2> QED BY <1>6, <2>1, DummyTask
          DEF RetireRunning, ReleaseTcb, LOS_ListTailInsert, LOS_ListAdd, KernelState
<1>11. osPriqueueTop(r) = osPriqueueTop(d)
  <2>1. /\ d \in KernelState /\ r \in KernelState
        /\ Lowest \in Prio /\ r.list[Lowest] # <<>>
    BY <1>6, <1>9, LowestNotEmpty DEF Consistent
  <2> QED BY <1>9, <2>1, TopSame
<1>12. Drains(s, r)
  <2>1. Drains(a, d)
    BY <1>6, DrainsBut
  <2> QED BY <1>2, <1>9, <2>1 DEF Drains
<1> HIDE DEF r
<1> QED BY <1>1, <1>2, <1>5, <1>6, <1>7, <1>9, <1>10, <1>11, <1>12 DEF SameControl
----------------------------------------------------------------------------
\* Who runs.  The scheduler's control state, the freshness of its choice, and the absence
\* of waiting tasks: without the IPC modules nobody blocks on a wait list.

Control(s) ==
  /\ s.needSchedule => s.scan
  /\ ~s.scheduled => ~s.pendSV /\ ~s.irq /\ ~s.scan /\ s.lock = 0
  /\ s.scheduled /\ s.run = Dummy => s.pendSV
  /\ \A t \in Task : "RUNNING" \in s.status[t] <=> s.scheduled /\ t = s.run
  /\ s.scheduled /\ s.lock > 0 => ~s.pendSV /\ "READY" \in s.status[s.run]

\* Nobody is about to switch.
Settled(s) ==
  s.scheduled /\ s.lock = 0 /\ ~s.pendSV /\ ~s.needSchedule /\ s.run \notin s.resched

Current(s) ==
  /\ (s.pendSV \/ ~s.scheduled) /\ ~s.needSchedule => s.new = osPriqueueTop(s)
  /\ Settled(s) => "READY" \in s.status[s.run]

\* The running task is the first one.  The release of a mutex need not keep this.
Highest(s) == Settled(s) => s.run = osPriqueueTop(s)

Waits == {"PEND", "PEND_QUEUE", "TIMEOUT"}

Quiet(s) == ~s.wild /\ \A t \in Task : s.status[t] \cap Waits = {}

Core(s) == Consistent(s) /\ Control(s) /\ Current(s)

Inv(s) == Core(s) /\ Highest(s) /\ Quiet(s)

\* No task starts to wait.
Eases(s, r) ==
  /\ Drains(s, r)
  /\ \A u \in Task : r.status[u] \cap Waits \subseteq s.status[u]

LEMMA EasesTrans ==
  ASSUME NEW s, NEW r, NEW q, Eases(s, r), Eases(r, q)
  PROVE  Eases(s, q)
<1>1. Drains(s, q)
  BY DrainsTrans DEF Eases
<1>2. \A u \in Task : q.status[u] \cap Waits \subseteq s.status[u]
  BY DEF Eases
<1> QED BY <1>1, <1>2 DEF Eases

\* A step from s to r lets no task start to wait and keeps the invariant.
Steady(s, r) ==
  Core(r) /\ Eases(s, r) /\ (Highest(s) => Highest(r)) /\ (Quiet(s) => Quiet(r))

LEMMA SteadyTrans ==
  ASSUME NEW s, NEW r, NEW q, Steady(s, r), Steady(r, q)
  PROVE  Steady(s, q)
BY EasesTrans DEF Steady

LEMMA SteadySame ==
  ASSUME NEW s, Core(s)
  PROVE  Steady(s, s)
BY DEF Steady, Eases, Drains

\* What a step that moves no task on or off the CPU keeps of the statuses.
Kept(s, r) ==
  /\ \A u \in Task : "RUNNING" \in r.status[u] <=> "RUNNING" \in s.status[u]
  /\ Eases(s, r)
  /\ s.scheduled /\ s.lock > 0 => "READY" \in r.status[s.run]

LEMMA ConsistentTop ==
  ASSUME NEW s, Consistent(s), NEW r \in KernelState, \A p \in Prio : r.list[p] = s.list[p]
  PROVE  osPriqueueTop(r) = osPriqueueTop(s)
BY LowestNotEmpty, TopSame DEF Consistent

\* Nobody's place on the ready lists changes.
LEMMA StillInv ==
  ASSUME NEW s, Core(s), NEW r, Consistent(r), Alike(s, r), Kept(s, r),
         \A p \in Prio : r.list[p] = s.list[p]
  PROVE  Steady(s, r)
<1>1. osPriqueueTop(r) = osPriqueueTop(s)
  BY ConsistentTop DEF Core, Consistent
<1>2. Control(r)
  BY DEF Core, Control, Alike, Kept, Eases
<1>3. Current(r) /\ (Highest(s) => Highest(r))
  <2>1. \A u \in Task : "READY" \in s.status[u] => "READY" \in r.status[u]
    <3>1. \A u \in Task, p \in Prio : p \in On(s, u) => p \in On(r, u)
      BY HeadsFacts DEF On
    <3> QED BY <3>1 DEF Core, Consistent, KernelState, TaskAgrees
  <2>2. Settled(s) => s.run \in Task
    BY DEF Core, Control, Consistent, KernelState, Tcb, Settled
  <2> QED BY <1>1, <2>1, <2>2 DEF Core, Current, Highest, Settled, Alike
<1>4. Quiet(s) => Quiet(r)
  BY DEF Quiet, Alike, Kept, Eases
<1> QED BY <1>2, <1>3, <1>4 DEF Steady, Core, Kept, Eases

\* What such a step keeps whether or not a task starts to wait.
StaysOn(s, r) ==
  /\ \A u \in Task : "RUNNING" \in r.status[u] <=> "RUNNING" \in s.status[u]
  /\ s.scheduled /\ s.lock > 0 => "READY" \in r.status[s.run]

\* A task changes the ready lists and has yet to call LOS_Schedule.
LEMMA CallCore ==
  ASSUME NEW s, Core(s), s.scheduled, s.run \in Task, ~s.pendSV, ~s.irq, ~s.scan,
         NEW m, Consistent(m), Alike(s, m), StaysOn(s, m)
  PROVE  LET r == Reschedule(m)
         IN  /\ Core(r) /\ Highest(r)
             /\ r.list = m.list /\ r.status = m.status /\ r.wild = s.wild
<1> DEFINE r == [m EXCEPT !.resched = @ \cup {m.run}]
<1>1. Reschedule(m) = r
  BY DEF Reschedule, Alike
<1>2. /\ r \in KernelState /\ r.list = m.list /\ r.status = m.status /\ r.prio = m.prio
      /\ r.timer = m.timer /\ r.due = m.due
      /\ r.run = s.run /\ r.new = s.new /\ r.lock = s.lock /\ r.scheduled = s.scheduled
      /\ r.resched = s.resched \cup {s.run} /\ r.pendSV = s.pendSV /\ r.irq = s.irq
      /\ r.scan = s.scan /\ r.needSchedule = s.needSchedule /\ r.wild = s.wild
  BY DEF Consistent, KernelState, Alike
<1> HIDE DEF r
<1>3. Consistent(r)
  BY <1>2, ControlStep
<1>4. Control(r)
  BY <1>2 DEF Core, Control, StaysOn
<1>5. Current(r) /\ Highest(r)
  BY <1>2 DEF Current, Highest, Settled
<1> QED BY <1>1, <1>2, <1>3, <1>4, <1>5 DEF Core

LEMMA CallInv ==
  ASSUME NEW s, Core(s), s.scheduled, s.run \in Task, ~s.pendSV, ~s.irq, ~s.scan,
         NEW m, Consistent(m), Alike(s, m), Kept(s, m)
  PROVE  Steady(s, Reschedule(m))
<1> DEFINE r == Reschedule(m)
<1>1. /\ Core(r) /\ Highest(r)
      /\ r.list = m.list /\ r.status = m.status /\ r.wild = s.wild
  <2>1. StaysOn(s, m)
    BY DEF Kept, StaysOn
  <2> QED BY <2>1, CallCore
<1> HIDE DEF r
<1>2. (Quiet(s) => Quiet(r)) /\ Eases(s, r)
  BY <1>1 DEF Quiet, Kept, Eases, Drains
<1> QED BY <1>1, <1>2 DEF Steady, r

\* LOS_Schedule chooses the first ready task, whatever changed before it.
LEMMA ScheduleInv ==
  ASSUME NEW s, Core(s), s.scheduled,
         NEW m, Consistent(m), Kept(s, m), m.needSchedule => m.scan,
         m.run = s.run, m.lock = s.lock, m.scheduled = s.scheduled,
         m.pendSV = s.pendSV, m.wild = s.wild
  PROVE  Steady(s, LOS_Schedule(m))
<1> DEFINE r == LOS_Schedule(m)
<1>1. /\ Consistent(r)
      /\ r.new = osPriqueueTop(m)
      /\ r.pendSV <=> (m.pendSV \/ (m.run # osPriqueueTop(m) /\ m.lock = 0))
      /\ r.list = m.list /\ r.status = m.status
      /\ r.run = m.run /\ r.lock = m.lock /\ r.scheduled = m.scheduled
      /\ r.needSchedule = m.needSchedule /\ r.wild = m.wild /\ r.scan = m.scan
  BY ScheduleFacts
<1> HIDE DEF r
<1>2. osPriqueueTop(r) = osPriqueueTop(m)
  BY <1>1, ConsistentTop DEF Consistent
<1>3. osPriqueueTop(m) \in Task /\ osPriqueueTop(m) # Dummy
  BY TopReady, DummyTask
<1>4. m.lock \in Nat
  BY BoundAssumption DEF Consistent, KernelState
<1>5. Control(r)
  <2>1. r.scheduled /\ r.run = Dummy => r.pendSV
    <3>1. s.run = Dummy => s.pendSV
      BY DEF Core, Control
    <3> QED BY <1>1, <3>1
  <2>2. \A t \in Task : "RUNNING" \in r.status[t] <=> r.scheduled /\ t = r.run
    BY <1>1 DEF Core, Control, Kept, Eases
  <2>3. r.lock > 0 => ~r.pendSV /\ "READY" \in r.status[r.run]
    <3>1. s.lock > 0 => ~s.pendSV /\ "READY" \in m.status[s.run]
      BY DEF Core, Control, Kept, Eases
    <3>2. m.lock > 0 => m.lock # 0
      BY <1>4
    <3> QED BY <1>1, <3>1, <3>2
  <2> QED BY <1>1, <2>1, <2>2, <2>3 DEF Control
<1>6. Current(r) /\ Highest(r)
  <2>1. "READY" \in m.status[osPriqueueTop(m)]
    BY TopReady
  <2>2. Highest(r)
    BY <1>1, <1>2 DEF Highest, Settled
  <2> QED BY <1>1, <1>2, <2>1, <2>2 DEF Current, Highest
<1>7. (Quiet(s) => Quiet(r)) /\ Eases(s, r)
  BY <1>1 DEF Quiet, Kept, Eases, Drains
<1> QED BY <1>1, <1>5, <1>6, <1>7 DEF Steady, Core, r

----------------------------------------------------------------------------
\* One lemma per action: the invariant is inductive, when no handler suspends a task.

\* A task that may call is ready: its status is what the scheduler believes.
LEMMA CallerReady ==
  ASSUME Core(os), TaskContext
  PROVE  /\ os.run \in Task \ {Idle} /\ "READY" \in os.status[os.run]
         /\ os.scheduled /\ ~os.pendSV /\ ~os.irq /\ ~os.scan /\ ~os.needSchedule
         /\ os.status[os.run] \cap (Blocked \cup {"UNUSED"}) = {}
<1>1. os.run \in Task \ {Idle} /\ os.scheduled /\ ~os.pendSV /\ ~os.irq /\ ~os.scan
  BY TcbAssumption DEF TaskContext, ThreadMode, Task
<1>2. ~os.needSchedule
  BY <1>1 DEF Core, Control
<1>3. "READY" \in os.status[os.run]
  <2>1. CASE os.lock = 0
    BY <1>1, <1>2, <2>1 DEF Core, Current, Settled, TaskContext
  <2>2. CASE os.lock > 0
    BY <1>1, <2>2 DEF Core, Control
  <2> QED BY <2>1, <2>2, BoundAssumption DEF Core, Consistent, KernelState
<1>4. TaskAgrees(os, os.run)
  BY <1>1 DEF Core, Consistent
<1> QED BY <1>1, <1>2, <1>3, <1>4 DEF TaskAgrees

LEMMA BootInv ==
  ASSUME Core(os), BootContext
  PROVE  /\ ~os.pendSV /\ ~os.irq /\ ~os.scan /\ ~os.needSchedule /\ os.lock = 0
         /\ os.new = osPriqueueTop(os)
BY DEF Core, Control, Current, BootContext

\* Before LOS_Start there is no switch, but the first task is chosen.
LEMMA BootChoice ==
  ASSUME NEW s, Core(s), ~s.scheduled,
         NEW m, Consistent(m), Kept(s, m), m.scheduled = s.scheduled, m.lock = s.lock,
         m.irq = s.irq, m.scan = s.scan, m.run = s.run,
         m.pendSV = s.pendSV, m.needSchedule = s.needSchedule, m.wild = s.wild
  PROVE  Steady(s, [m EXCEPT !.new = osPriqueueTop(m)])
<1> DEFINE r == [m EXCEPT !.new = osPriqueueTop(m)]
<1>1. /\ r \in KernelState /\ r.list = m.list /\ r.status = m.status /\ r.prio = m.prio
      /\ r.timer = m.timer /\ r.due = m.due /\ r.new = osPriqueueTop(m)
      /\ r.run = s.run /\ r.lock = s.lock /\ r.scheduled = s.scheduled
      /\ r.pendSV = s.pendSV /\ r.irq = s.irq
      /\ r.scan = s.scan /\ r.needSchedule = s.needSchedule /\ r.wild = s.wild
  BY TopReady DEF Consistent, KernelState
<1> HIDE DEF r
<1>2. Consistent(r)
  BY <1>1, ControlStep
<1>3. Control(r)
  BY <1>1 DEF Core, Control, Kept, Eases
<1>4. Current(r) /\ Highest(r)
  BY <1>1, ConsistentTop DEF Current, Highest, Settled
<1>5. (Quiet(s) => Quiet(r)) /\ Eases(s, r)
  BY <1>1 DEF Quiet, Kept, Eases, Drains
<1> QED BY <1>2, <1>3, <1>4, <1>5 DEF Steady, Core, r

LEMMA CreatePrioType ==
  ASSUME NEW t \in Task, NEW p \in CreatePrio[t]
  PROVE  p \in Prio
<1>1. CreatePrio[t] \subseteq 0 .. Lowest - 1
  BY BoundAssumption
<1> QED BY <1>1, HeadAssumption DEF Prio

LEMMA StartStep ==
  ASSUME Core(os), LOS_StartToRun
  PROVE  Steady(os, os')
<1> DEFINE s == os
           r == [s EXCEPT !.scheduled = TRUE, !.run = s.new,
                          !.status[s.new] = @ \cup {"RUNNING"}]
<1>1. os' = r
  BY DEF LOS_StartToRun
<1>2. /\ s \in KernelState /\ Consistent(s) /\ ~s.scheduled /\ ~s.pendSV /\ ~s.irq /\ ~s.scan
      /\ ~s.needSchedule /\ s.lock = 0 /\ s.new = osPriqueueTop(s)
  BY BootInv DEF LOS_StartToRun, BootContext, Core, Consistent
<1>3. s.new \in Task /\ "READY" \in s.status[s.new] /\ s.new # Dummy /\ s.new \in Tcb
  BY <1>2, TopReady, DummyTask
<1>4. TaskAgrees(s, s.new)
  BY <1>2, <1>3 DEF Consistent
<1>5. Core(s)
  OBVIOUS
<1> HIDE DEF s
<1>6. /\ r \in KernelState /\ r.list = s.list /\ r.prio = s.prio /\ r.timer = s.timer
      /\ r.due = s.due /\ r.status = [s.status EXCEPT ![s.new] = @ \cup {"RUNNING"}]
      /\ r.scheduled /\ r.run = s.new /\ r.new = s.new
      /\ ~r.pendSV /\ ~r.scan /\ ~r.needSchedule /\ r.lock = 0 /\ r.wild = s.wild
  BY <1>2, <1>3 DEF KernelState, Flag
<1> HIDE DEF r
<1>7. \A t \in Tcb : r.status[t] = IF t = s.new THEN s.status[t] \cup {"RUNNING"}
                                   ELSE s.status[t]
  BY <1>2, <1>6 DEF KernelState
<1>8. Consistent(r)
  <2>1. \A t \in Tcb : r.status[t] \ {"RUNNING"} = s.status[t] \ {"RUNNING"}
    BY <1>7
  <2>2. \A t \in Task : "UNUSED" \in s.status[t] => r.status[t] = s.status[t]
    BY <1>3, <1>4, <1>7, DummyTask DEF TaskAgrees
  <2> QED BY <1>2, <1>6, <2>1, <2>2, ControlStep
<1>9. Control(r)
  <2>1. \A t \in Task : "RUNNING" \in r.status[t] <=> t = s.new
    BY <1>2, <1>5, <1>7, DummyTask DEF Core, Control
  <2> QED BY <1>3, <1>6, <2>1 DEF Control
<1>10. Current(r) /\ Highest(r)
  <2>1. osPriqueueTop(r) = osPriqueueTop(s)
    BY <1>2, <1>6, ConsistentTop
  <2>2. "READY" \in r.status[s.new]
    BY <1>3, <1>7
  <2> QED BY <1>2, <1>6, <2>1, <2>2 DEF Current, Highest, Settled
<1>11. (Quiet(s) => Quiet(r)) /\ Eases(s, r)
  BY <1>6, <1>7, DummyTask DEF Eases, Quiet, Waits, Drains
<1> QED BY <1>1, <1>8, <1>9, <1>10, <1>11 DEF Steady, Core, s

LEMMA CreateOnlyStep ==
  ASSUME Core(os), LOS_TaskCreateOnly
  PROVE  Steady(os, os')
<1> DEFINE s == RecycleTcbs(os)
           t == Head(s.list[FreeTask])
<1>1. Consistent(os)
  BY DEF Core
<1>2. /\ Consistent(s) /\ SameControl(os, s) /\ s.status = os.status /\ s.wild = os.wild
      /\ \A p \in Prio \cup WaitList : s.list[p] = os.list[p]
  BY <1>1, RecycleFacts
<1>3. Steady(os, s)
  <2>1. Alike(os, s)
    BY <1>2 DEF SameControl, Alike
  <2>2. Kept(os, s)
    BY <1>2 DEF Kept, Eases, Core, Control, Drains
  <2> QED BY <1>2, <2>1, <2>2, StillInv
<1>4. ASSUME s.list[FreeTask] # <<>>, NEW p \in CreatePrio[t]
      PROVE  Steady(os, InitTcb(s, p))
  <2> DEFINE r == InitTcb(s, p)
  <2>1. t \in Task
    BY <1>2, <1>4, FreeHead
  <2>2. p \in Prio
    BY <2>1, CreatePrioType
  <2>3. /\ Consistent(r) /\ SameControl(s, r) /\ r.wild = s.wild
        /\ t \in Task /\ t # Idle /\ SameBut(s, r, t)
        /\ r.status = [s.status EXCEPT ![t] = {"SUSPEND"}]
        /\ \A q \in Prio \cup WaitList : r.list[q] = s.list[q]
    BY <1>2, <1>4, <2>2, InitTcbFacts
  <2>4. s.status[t] = {"UNUSED"}
    BY <1>2, <1>4, FreeHead
  <2> HIDE DEF r, s, t
  <2>5. /\ \A u \in Task : r.status[u] = IF u = t THEN {"SUSPEND"} ELSE s.status[u]
    BY <1>2, <2>3, DummyTask DEF Consistent, KernelState
  <2>6. Alike(s, r)
    BY <2>3 DEF SameControl, Alike
  <2>7. Kept(s, r)
    <3>1. s.scheduled /\ s.lock > 0 => s.run \in Task /\ s.run # t
      BY <1>2, <1>3, <2>4, DummyTask DEF Steady, Core, Control, Consistent, IdleStays, KernelState, Tcb
    <3>2. Drains(s, r)
      BY <2>3 DEF Drains
    <3> QED BY <1>3, <2>4, <2>5, <3>1, <3>2 DEF Kept, Eases, Waits, Steady, Core, Control
  <2>8. Steady(s, r)
    BY <1>3, <2>3, <2>6, <2>7, StillInv DEF Steady
  <2> QED BY <1>3, <2>8, SteadyTrans DEF r, s
<1> QED BY <1>3, <1>4 DEF LOS_TaskCreateOnly

LEMMA CreateStep ==
  ASSUME Core(os), LOS_TaskCreate
  PROVE  Steady(os, os')
<1> DEFINE s == RecycleTcbs(os)
           t == Head(s.list[FreeTask])
<1>1. Consistent(os)
  BY DEF Core
<1>2. /\ Consistent(s) /\ SameControl(os, s) /\ s.status = os.status /\ s.wild = os.wild
      /\ \A p \in Prio \cup WaitList : s.list[p] = os.list[p]
  BY <1>1, RecycleFacts
<1>3. s.list[FreeTask] # <<>>
  BY DEF LOS_TaskCreate
<1>4. PICK p \in CreatePrio[t] :
        LET c == Enqueue([InitTcb(s, p) EXCEPT !.status[t] = {}], t)
            top == osPriqueueTop(c)
        IN  os' = [c EXCEPT !.new = top,
                            !.pendSV = @ \/ (s.scheduled /\ s.lock = 0 /\ s.run # top)]
  BY DEF LOS_TaskCreate
<1> DEFINE a == InitTcb(s, p)
           b == [a EXCEPT !.status[t] = {}]
           c == Enqueue(b, t)
           top == osPriqueueTop(c)
           e == c.pendSV \/ (s.scheduled /\ s.lock = 0 /\ s.run # top)
           r == [c EXCEPT !.new = top, !.pendSV = e]
<1>5. os' = r
  BY <1>4
<1>6. t \in Task \ {Idle} /\ s.status[t] = {"UNUSED"} /\ p \in Prio
  <2> HIDE DEF s
  <2>1. t \in Task \ {Idle} /\ s.status[t] = {"UNUSED"}
    BY <1>2, <1>3, FreeHead
  <2> QED BY <2>1, CreatePrioType
<1> HIDE DEF s
<1>7. /\ Consistent(a) /\ SameControl(s, a) /\ a.wild = s.wild
      /\ SameBut(s, a, t) /\ On(a, t) = {}
      /\ a.status = [s.status EXCEPT ![t] = {"SUSPEND"}]
      /\ a.timer[t] = 0 /\ t \notin a.due
      /\ \A q \in Prio \cup WaitList : a.list[q] = s.list[q]
  BY <1>2, <1>3, <1>6, InitTcbFacts
<1> HIDE DEF a, t
<1>8. /\ b \in KernelState /\ b.list = a.list /\ b.prio = a.prio /\ b.timer = a.timer
      /\ b.due = a.due /\ b.wild = a.wild /\ SameControl(a, b)
      /\ b.status = [a.status EXCEPT ![t] = {}]
  BY <1>6, <1>7, DummyTask DEF Consistent, KernelState, SameControl
<1> HIDE DEF b
<1>9. b.status[t] = {} /\ \A u \in Tcb \ {t} : b.status[u] = a.status[u]
  BY <1>6, <1>7, <1>8, DummyTask DEF Consistent, KernelState
<1>10. WellLinked(b) /\ On(b, t) = {} /\ SameBut(a, b, t)
  <2>1. WellLinked(b) /\ \A u : On(b, u) = On(a, u)
    BY <1>7, <1>8 DEF Consistent, WellLinked, On
  <2>2. \A u \in Task \ {t} : b.status[u] = a.status[u]
    BY <1>9, DummyTask
  <2>3. b.status[Dummy] = a.status[Dummy]
    BY <1>6, <1>9, DummyTask
  <2> QED BY <1>7, <1>8, <2>1, <2>2, <2>3 DEF SameBut
<1>11. Consistent(c) /\ SameControl(b, c) /\ c.wild = b.wild
  BY <1>6, <1>7, <1>8, <1>9, <1>10, ReadyAgain
<1>12. c.status = [b.status EXCEPT ![t] = @ \cup {"READY"}]
  BY <1>6, <1>8, <1>10, EnqueueFacts
<1> HIDE DEF c
<1>13. /\ c.status[t] = {"READY"} /\ \A u \in Task \ {t} : c.status[u] = os.status[u]
  <2>1. s.status \in [Tcb -> SUBSET Flag] /\ b.status \in [Tcb -> SUBSET Flag]
    BY <1>2, <1>8 DEF Consistent, KernelState
  <2>2. \A u \in Tcb \ {t} : c.status[u] = b.status[u] /\ a.status[u] = s.status[u]
    BY <1>7, <1>12, <2>1
  <2>3. c.status[t] = {"READY"}
    BY <1>6, <1>9, <1>12, <2>1, DummyTask
  <2> QED BY <1>2, <1>9, <2>2, <2>3, DummyTask
<1>14. SameControl(os, c) /\ c.wild = os.wild
  BY <1>2, <1>7, <1>8, <1>11 DEF SameControl
<1>15. Kept(os, c)
  <2>1. os.scheduled /\ os.lock > 0 => os.run \in Task /\ os.run # t
    BY <1>1, <1>2, <1>6, DummyTask DEF Core, Control, Consistent, IdleStays, KernelState, Tcb
  <2>2. Drains(os, c)
    <3>1. c \in KernelState /\ SameBut(b, c, t) /\ On(c, t) = {b.prio[t]} /\ b.prio[t] \in Prio
      BY <1>6, <1>8, <1>10, EnqueueFacts DEF KernelState, c
    <3>2. Drains(b, c)
      BY <3>1, HeadAssumption, DrainsBut
    <3> QED BY <1>2, <1>7, <1>8, <3>2 DEF Drains
  <2> QED BY <1>2, <1>6, <1>13, <2>1, <2>2 DEF Kept, Eases, Waits, Core, Control
<1>16. CASE os.scheduled
  <2>1. r = LOS_Schedule(c)
    BY <1>2, <1>14, <1>16 DEF LOS_Schedule, SameControl
  <2>2. c.needSchedule => c.scan
    BY <1>14 DEF SameControl, Core, Control
  <2>3. /\ c.run = os.run /\ c.lock = os.lock /\ c.scheduled = os.scheduled
        /\ c.pendSV = os.pendSV /\ c.wild = os.wild
    BY <1>14 DEF SameControl
  <2> HIDE DEF r
  <2> QED BY <1>5, <1>11, <1>15, <1>16, <2>1, <2>2, <2>3, ScheduleInv
<1>17. CASE ~os.scheduled
  <2>1. r = [c EXCEPT !.new = osPriqueueTop(c)]
    <3>1. e = c.pendSV
      BY <1>2, <1>11, <1>17 DEF SameControl, Consistent, KernelState
    <3> HIDE DEF e
    <3> QED BY <1>11, <3>1 DEF Consistent, KernelState
  <2>2. /\ c.scheduled = os.scheduled /\ c.lock = os.lock /\ c.irq = os.irq
        /\ c.scan = os.scan /\ c.run = os.run /\ c.pendSV = os.pendSV
        /\ c.needSchedule = os.needSchedule /\ c.wild = os.wild
    BY <1>14 DEF SameControl
  <2> HIDE DEF r
  <2> QED BY <1>5, <1>11, <1>15, <1>17, <2>1, <2>2, BootChoice
<1> QED BY <1>16, <1>17

\* A status flag that puts a task on no list comes or goes.
LEMMA StatusFacts ==
  ASSUME NEW s \in KernelState, WellLinked(s), NEW t \in Task, NEW f, f \subseteq Flag,
         NEW r, r = [s EXCEPT !.status[t] = f]
  PROVE  /\ r \in KernelState /\ WellLinked(r) /\ SameControl(s, r) /\ SameBut(s, r, t)
         /\ r.list = s.list /\ r.prio = s.prio /\ r.timer = s.timer /\ r.due = s.due
         /\ r.wild = s.wild /\ \A h : On(r, h) = On(s, h)
         /\ \A u \in Task \ {t} : r.status[u] = s.status[u]
<1>1. /\ r.list = s.list /\ r.prio = s.prio /\ r.timer = s.timer /\ r.due = s.due
      /\ r.wild = s.wild /\ SameControl(s, r)
      /\ r.status = [s.status EXCEPT ![t] = f]
      /\ r = [s EXCEPT !.status = r.status]
  BY DEF KernelState, SameControl
<1>2. /\ r.status \in [Tcb -> SUBSET Flag] /\ r.status[t] = f
      /\ \A u \in Tcb \ {t} : r.status[u] = s.status[u]
  BY <1>1, DummyTask DEF KernelState
<1>3. r \in KernelState
  BY <1>1, <1>2 DEF KernelState
<1>4. WellLinked(r) /\ \A h : On(r, h) = On(s, h)
  BY <1>1 DEF WellLinked, On
<1>5. SameBut(s, r, t)
  BY <1>1, <1>2, <1>4, DummyTask DEF SameBut
<1> QED BY <1>1, <1>2, <1>3, <1>4, <1>5, DummyTask

LEMMA ResumeStep ==
  ASSUME Core(os), NEW t \in Task, LOS_TaskResume(t)
  PROVE  Steady(os, os')
<1> DEFINE s == [os EXCEPT !.status[t] = @ \ {"SUSPEND"}]
           e == Enqueue(s, t)
<1>1. /\ Consistent(os) /\ os \in KernelState /\ WellLinked(os) /\ TaskAgrees(os, t)
      /\ os.status[t] \in SUBSET Flag
  BY DummyTask DEF Core, Consistent, KernelState
<1>2. /\ "SUSPEND" \in os.status[t] /\ "READY" \notin os.status[t]
      /\ "UNUSED" \notin os.status[t] /\ t # Idle
  BY <1>1 DEF LOS_TaskResume, TaskAgrees, Blocked, Consistent, IdleStays
<1>3. os' = IF s.status[t] \cap Blocked # {} THEN s
            ELSE IF os.scheduled THEN Reschedule(e)
            ELSE [e EXCEPT !.new = osPriqueueTop(e)]
  BY DEF LOS_TaskResume
<1>4. s = [os EXCEPT !.status[t] = os.status[t] \ {"SUSPEND"}]
  BY <1>1 DEF KernelState
<1> HIDE DEF s
<1>5. /\ s \in KernelState /\ WellLinked(s) /\ SameControl(os, s) /\ SameBut(os, s, t)
      /\ s.list = os.list /\ s.prio = os.prio /\ s.timer = os.timer /\ s.due = os.due
      /\ s.wild = os.wild /\ s.status[t] = os.status[t] \ {"SUSPEND"}
      /\ \A h : On(s, h) = On(os, h)
      /\ \A u \in Task \ {t} : s.status[u] = os.status[u]
  <2> DEFINE f == os.status[t] \ {"SUSPEND"}
  <2>1. f \subseteq Flag
    BY <1>1
  <2>2. s = [os EXCEPT !.status[t] = f]
    BY <1>4
  <2> HIDE DEF f
  <2>3. s \in KernelState /\ WellLinked(s) /\ SameControl(os, s) /\ SameBut(os, s, t)
    BY <1>1, <2>1, <2>2, StatusFacts
  <2>4. /\ s.list = os.list /\ s.prio = os.prio /\ s.timer = os.timer /\ s.due = os.due
        /\ s.wild = os.wild
    BY <1>1, <2>1, <2>2, StatusFacts
  <2>5. /\ \A h : On(s, h) = On(os, h)
        /\ \A u \in Task \ {t} : s.status[u] = os.status[u]
    BY <1>1, <2>1, <2>2, StatusFacts
  <2>6. s.status[t] = f
    BY <1>1, <2>2, DummyTask DEF KernelState
  <2> QED BY <2>3, <2>4, <2>5, <2>6 DEF f
<1>6. Alike(os, s)
  BY <1>5 DEF SameControl, Alike
<1>7. \A u \in Task : /\ "RUNNING" \in s.status[u] <=> "RUNNING" \in os.status[u]
                      /\ "READY" \in s.status[u] <=> "READY" \in os.status[u]
                      /\ s.status[u] \subseteq os.status[u]
  BY <1>5
<1>8. os.scheduled /\ os.lock > 0 => os.run \in Task /\ "READY" \in os.status[os.run]
  BY <1>1, DummyTask DEF Core, Control, Consistent, IdleStays, KernelState, Tcb
<1>9. CASE s.status[t] \cap Blocked # {}
  <2>1. TaskAgrees(s, t)
    BY <1>1, <1>2, <1>5 DEF TaskAgrees
  <2>2. Consistent(s)
    BY <1>1, <1>2, <1>5, <2>1, ConsistentStep
  <2>3. Kept(os, s)
    BY <1>5, <1>7, <1>8 DEF Kept, Eases, Drains
  <2> QED BY <1>3, <1>5, <1>6, <1>9, <2>2, <2>3, StillInv
<1>10. CASE s.status[t] \cap Blocked = {}
  <2>1. s.timer[t] = 0 /\ t \notin s.due /\ On(s, t) = {}
    <3>1. os.timer[t] \in 0 .. MaxTicks
      BY <1>1 DEF KernelState
    <3>2. os.timer[t] = 0 /\ t \notin os.due
      BY <1>1, <1>5, <1>10, <3>1, BoundAssumption DEF TaskAgrees, Blocked
    <3>3. On(os, t) = {}
      BY <1>1, <1>2, <1>5, <1>10, OnNothing DEF Blocked
    <3> QED BY <1>5, <3>2, <3>3
  <2>2. s.status[t] \cap (Blocked \cup {"UNUSED"}) = {}
    BY <1>2, <1>5, <1>10
  <2>3. Consistent(e) /\ SameControl(s, e) /\ e.wild = s.wild
    BY <1>1, <1>2, <1>5, <2>1, <2>2, ReadyAgain
  <2>4. /\ e.status = [s.status EXCEPT ![t] = @ \cup {"READY"}]
        /\ SameBut(s, e, t) /\ On(e, t) = {s.prio[t]}
    BY <1>5, <2>1, EnqueueFacts
  <2> HIDE DEF e
  <2>5. \A u \in Task : /\ s.status[u] \subseteq e.status[u]
                        /\ e.status[u] \subseteq s.status[u] \cup {"READY"}
    BY <1>5, <2>4, DummyTask DEF KernelState
  <2>6. Kept(os, e)
    <3>1. \A u \in Task : "RUNNING" \in e.status[u] <=> "RUNNING" \in os.status[u]
      BY <1>7, <2>5
    <3>2. \A u \in Task : e.status[u] \cap Waits \subseteq os.status[u]
      BY <1>7, <2>5 DEF Waits
    <3>3. os.scheduled /\ os.lock > 0 => "READY" \in e.status[os.run]
      BY <1>7, <1>8, <2>5
    <3>4. Drains(os, e)
      <4>1. s.prio[t] \in Prio
        BY <1>5 DEF KernelState
      <4>2. Drains(s, e)
        BY <2>3, <2>4, <4>1, HeadAssumption, DrainsBut DEF Consistent
      <4> QED BY <1>5, <4>2 DEF Drains
    <3> QED BY <3>1, <3>2, <3>3, <3>4 DEF Kept, Eases
  <2>7. Alike(os, e)
    BY <1>5, <2>3 DEF Alike, SameControl
  <2>8. CASE ~os.scheduled
    <3>1. os' = [e EXCEPT !.new = osPriqueueTop(e)]
      BY <1>3, <1>10, <2>8
    <3> QED BY <2>3, <2>6, <2>7, <2>8, <3>1, BootChoice DEF Alike
  <2>9. CASE os.scheduled
    <3>1. os' = Reschedule(e)
      BY <1>3, <1>10, <2>9
    <3>2. CASE os.irq
      <4>1. os' = LOS_Schedule(e)
        BY <2>7, <3>1, <3>2 DEF Reschedule, Alike
      <4>2. e.needSchedule => e.scan
        BY <2>7 DEF Alike, Core, Control
      <4> QED BY <2>3, <2>6, <2>7, <2>9, <4>1, <4>2, ScheduleInv DEF Alike
    <3>3. CASE ~os.irq
      <4>1. TaskContext
        BY <2>9, <3>3 DEF LOS_TaskResume, BootContext, IrqContext
      <4>2. os.run \in Task /\ ~os.pendSV /\ ~os.irq /\ ~os.scan
        BY <4>1, CallerReady
      <4> QED BY <2>3, <2>6, <2>7, <2>9, <3>1, <4>2, CallInv
    <3> QED BY <3>2, <3>3
  <2> QED BY <2>8, <2>9
<1> QED BY <1>9, <1>10

LEMMA SuspendFacts ==
  ASSUME NEW s, Consistent(s), NEW t \in Task \ {Idle}, "UNUSED" \notin s.status[t]
  PROVE  LET d == IF "READY" \in s.status[t] THEN Dequeue(s, t) ELSE s
             r == [d EXCEPT !.status[t] = @ \cup {"SUSPEND"}]
         IN  /\ Consistent(r) /\ Alike(s, r) /\ SameBut(s, r, t) /\ Drains(s, r)
             /\ r.status[t] = (s.status[t] \ {"READY"}) \cup {"SUSPEND"}
             /\ t # osPriqueueTop(s) => osPriqueueTop(r) = osPriqueueTop(s)
<1> DEFINE d == IF "READY" \in s.status[t] THEN Dequeue(s, t) ELSE s
           f == (s.status[t] \ {"READY"}) \cup {"SUSPEND"}
           r == [d EXCEPT !.status[t] = @ \cup {"SUSPEND"}]
<1>1. /\ s \in KernelState /\ WellLinked(s) /\ TaskAgrees(s, t) /\ s.prio[t] \in Prio
      /\ s.status \in [Tcb -> SUBSET Flag] /\ s.wild \in BOOLEAN
  BY DEF Consistent, KernelState
<1>2. /\ d \in KernelState /\ WellLinked(d) /\ SameControl(s, d) /\ SameBut(s, d, t)
      /\ d.timer = s.timer /\ d.due = s.due /\ d.wild = s.wild
      /\ d.status = [s.status EXCEPT ![t] = @ \ {"READY"}]
      /\ t # osPriqueueTop(s) => osPriqueueTop(d) = osPriqueueTop(s)
  <2>1. CASE "READY" \in s.status[t]
    <3>1. On(s, t) # {}
      BY <1>1, <2>1 DEF TaskAgrees
    <3> QED BY <1>1, <2>1, <3>1, DequeueFacts, DequeueTop
  <2>2. CASE "READY" \notin s.status[t]
    <3>1. [s.status EXCEPT ![t] = @ \ {"READY"}] = s.status
      BY <1>1, <2>2, DummyTask
    <3> QED BY <1>1, <2>2, <3>1 DEF SameControl, SameBut
  <2> QED BY <2>1, <2>2
<1>3. On(d, t) = IF "READY" \in s.status[t] THEN {} ELSE On(s, t)
  BY <1>1, DequeueFacts
<1> HIDE DEF d
<1>4. d.status[t] = s.status[t] \ {"READY"} /\ f \subseteq Flag
  BY <1>1, <1>2, DummyTask DEF Flag
<1>5. r = [d EXCEPT !.status[t] = f]
  BY <1>2, <1>4 DEF KernelState
<1> HIDE DEF r, f
<1>6. r \in KernelState /\ WellLinked(r) /\ SameControl(d, r) /\ SameBut(d, r, t)
  BY <1>2, <1>4, <1>5, StatusFacts
<1>7. r.list = d.list /\ r.timer = d.timer /\ r.due = d.due /\ r.wild = d.wild
  BY <1>2, <1>4, <1>5, StatusFacts
<1>8. \A h : On(r, h) = On(d, h)
  BY <1>7 DEF On
<1>9. r.status[t] = f
  BY <1>2, <1>5, DummyTask DEF KernelState
<1>10. SameBut(s, r, t)
  BY <1>2, <1>6, SameButTrans
<1>11. TaskAgrees(r, t)
  <2>1. r.status[t] = (s.status[t] \ {"READY"}) \cup {"SUSPEND"}
    BY <1>9 DEF f
  <2>2. "READY" \in s.status[t] => s.status[t] \cap {"PEND", "PEND_QUEUE"} = {}
    BY <1>1 DEF TaskAgrees, Blocked
  <2>3. \A p \in Prio : p \notin On(r, t)
    BY <1>1, <1>3, <1>8 DEF TaskAgrees
  <2>4. /\ On(r, t) \cap WaitList # {} <=> On(s, t) \cap WaitList # {}
        /\ On(r, t) \cap {FreeTask, RecycleList} = {}
    BY <1>1, <1>3, <1>8, <2>2 DEF TaskAgrees
  <2> QED BY <1>1, <1>2, <1>7, <2>1, <2>3, <2>4 DEF TaskAgrees, Blocked
<1>12. Consistent(r)
  BY <1>6, <1>10, <1>11, ConsistentStep
<1>13. Alike(s, r)
  BY <1>2, <1>6, <1>7 DEF SameControl, Alike
<1>14. osPriqueueTop(r) = osPriqueueTop(d)
  BY <1>7 DEF osPriqueueTop
<1>15. Drains(s, r)
  BY <1>3, <1>6, <1>8, <1>10, DrainsBut
<1> QED BY <1>2, <1>9, <1>10, <1>12, <1>13, <1>14, <1>15 DEF r, d, f

LEMMA SuspendStep ==
  ASSUME ~IsrSuspends, Core(os), NEW t \in Task, LOS_TaskSuspend(t)
  PROVE  Steady(os, os')
<1> DEFINE d == IF "READY" \in os.status[t] THEN Dequeue(os, t) ELSE os
           s == [d EXCEPT !.status[t] = @ \cup {"SUSPEND"}]
<1>1. /\ TaskContext /\ t # Idle /\ "UNUSED" \notin os.status[t]
      /\ ~("RUNNING" \in os.status[t] /\ os.lock # 0)
  BY TcbAssumption DEF LOS_TaskSuspend, CHECK_TASKID
<1>2. Consistent(os)
  BY DEF Core
<1>3. os' = IF t = os.run THEN Reschedule(s) ELSE s
  BY DEF LOS_TaskSuspend
<1>4. /\ Consistent(s) /\ Alike(os, s) /\ SameBut(os, s, t) /\ Drains(os, s)
      /\ s.status[t] = (os.status[t] \ {"READY"}) \cup {"SUSPEND"}
      /\ t # osPriqueueTop(os) => osPriqueueTop(s) = osPriqueueTop(os)
  BY <1>1, <1>2, SuspendFacts
<1> HIDE DEF s
<1>5. /\ os.run \in Task /\ os.scheduled /\ ~os.pendSV /\ ~os.irq /\ ~os.scan
      /\ ~os.needSchedule /\ "READY" \in os.status[os.run] /\ os.run \notin os.resched
  BY <1>1, CallerReady DEF TaskContext
<1>6. /\ \A u \in Task : "RUNNING" \in s.status[u] <=> "RUNNING" \in os.status[u]
      /\ \A u \in Task : s.status[u] \cap Waits \subseteq os.status[u]
  BY <1>4 DEF SameBut, Waits
<1>7. CASE t = os.run
  <2>1. "RUNNING" \in os.status[t]
    BY <1>5, <1>7 DEF Core, Control
  <2>2. ~(os.lock > 0)
    BY <1>1, <2>1
  <2>3. Kept(os, s)
    BY <1>4, <1>6, <2>2 DEF Kept, Eases
  <2> QED BY <1>3, <1>4, <1>5, <1>7, <2>3, CallInv
<1>8. CASE t # os.run
  <2>1. "READY" \in s.status[os.run]
    BY <1>4, <1>5, <1>8 DEF SameBut
  <2>2. Control(s)
    BY <1>4, <1>5, <1>6, <2>1 DEF Core, Control, Alike
  <2>3. Current(s) /\ (Highest(os) => Highest(s))
    BY <1>4, <1>5, <1>8, <2>1 DEF Core, Current, Highest, Settled, Alike
  <2>4. Quiet(os) => Quiet(s)
    BY <1>4, <1>6 DEF Quiet, Alike
  <2> QED BY <1>3, <1>4, <1>8, <2>2, <2>3, <1>6, <2>4 DEF Steady, Core, Eases
<1> QED BY <1>7, <1>8

LEMMA DeleteInv ==
  ASSUME NEW s, Consistent(s), Control(s), s.scheduled,
         NEW t \in Task \ {Idle}, "UNUSED" \notin s.status[t],
         "RUNNING" \in s.status[t] => s.lock = 0, "RUNNING" \notin s.status[t] => Current(s)
  PROVE  /\ Steady(s, DeleteTask(s, t))
         /\ "RUNNING" \in s.status[t] => Highest(DeleteTask(s, t))
<1> DEFINE r == DeleteTask(s, t)
<1>1. /\ Consistent(r)
      /\ s.timer[t] > 0 \/ s.status[t] \cap {"DELAY", "TIMEOUT"} = {} => r.wild = s.wild
      /\ r.lock = s.lock /\ r.scheduled = s.scheduled /\ r.irq = s.irq
      /\ r.scan = s.scan /\ r.needSchedule = s.needSchedule
      /\ r.resched = s.resched \ {t}
      /\ r.new = osPriqueueTop(r) /\ Drains(s, r)
      /\ "RUNNING" \notin s.status[t] => r.run = s.run /\ r.pendSV = s.pendSV
      /\ "RUNNING" \in s.status[t] => r.run = Dummy /\ r.pendSV
      /\ \A u \in Task \ {t} : r.status[u] = s.status[u]
      /\ r.status[t] = {"UNUSED"}
      /\ t # osPriqueueTop(s) => osPriqueueTop(r) = osPriqueueTop(s)
  BY DeleteTaskFacts
<1> HIDE DEF r
<1>2. Quiet(s) => r.wild = s.wild
  <2>1. Quiet(s) => s.status[t] \cap Waits = {}
    BY DEF Quiet
  <2>2. TaskAgrees(s, t)
    BY DEF Consistent
  <2> QED BY <1>1, <2>1, <2>2 DEF TaskAgrees, Waits
<1>3. (Quiet(s) => Quiet(r)) /\ Eases(s, r)
  <2>1. r.status[t] \cap Waits = {}
    BY <1>1 DEF Waits
  <2> QED BY <1>1, <1>2, <2>1 DEF Quiet, Eases
<1>4. s.lock \in Nat
  BY BoundAssumption DEF Consistent, KernelState
<1>5. CASE "RUNNING" \in s.status[t]
  <2>1. t = s.run /\ s.lock = 0
    BY <1>5 DEF Control
  <2>2. \A u \in Task : "RUNNING" \in r.status[u] <=> r.scheduled /\ u = r.run
    BY <1>1, <1>5, <2>1, DummyTask DEF Control
  <2>3. Control(r)
    BY <1>1, <1>5, <2>1, <2>2 DEF Control
  <2>4. Current(r) /\ Highest(r)
    BY <1>1, <1>5 DEF Current, Highest, Settled
  <2> QED BY <1>1, <1>3, <2>3, <2>4 DEF Steady, Core, r
<1>6. CASE "RUNNING" \notin s.status[t]
  <2>1. t # s.run
    BY <1>6 DEF Control
  <2>2. \A u \in Task : "RUNNING" \in r.status[u] <=> r.scheduled /\ u = r.run
    BY <1>1, <1>6, <2>1 DEF Control
  <2>3. s.lock > 0 => ~s.pendSV /\ "READY" \in r.status[s.run]
    <3>1. s.lock > 0 => ~s.pendSV /\ "READY" \in s.status[s.run]
      BY DEF Control
    <3>2. "READY" \in s.status[s.run] => s.run \in Task \ {t}
      BY <2>1 DEF Consistent, KernelState, IdleStays, Tcb
    <3> QED BY <1>1, <3>1, <3>2
  <2>4. Control(r)
    BY <1>1, <1>6, <2>2, <2>3 DEF Control
  <2>5. Current(r) /\ (Highest(s) => Highest(r))
    <3>1. s.run \notin r.resched => s.run \notin s.resched
      BY <1>1, <2>1
    <3>2. Settled(r) => Settled(s)
      BY <1>1, <1>6, <3>1 DEF Settled
    <3>3. Settled(r) => "READY" \in s.status[s.run]
      BY <1>6, <3>2 DEF Current
    <3>4. "READY" \in s.status[s.run] => s.run \in Task \ {t}
      BY <2>1 DEF Consistent, KernelState, IdleStays, Tcb
    <3>5. Settled(r) => "READY" \in r.status[r.run]
      BY <1>1, <1>6, <3>3, <3>4
    <3>6. Highest(s) => Highest(r)
      BY <1>1, <1>6, <2>1, <3>2 DEF Highest
    <3> QED BY <1>1, <3>5, <3>6 DEF Current
  <2> QED BY <1>1, <1>3, <1>6, <2>4, <2>5 DEF Steady, Core, r
<1> QED BY <1>5, <1>6

LEMMA TaskDeleteStep ==
  ASSUME Core(os), NEW t \in Task, LOS_TaskDelete(t)
  PROVE  Steady(os, os')
<1>1. /\ TaskContext \/ IrqContext
      /\ t # Idle /\ "UNUSED" \notin os.status[t]
      /\ ~("RUNNING" \in os.status[t] /\ os.lock # 0)
      /\ os' = DeleteTask(os, t)
  BY TcbAssumption DEF LOS_TaskDelete, CHECK_TASKID
<1>2. os.scheduled
  BY <1>1 DEF TaskContext, ThreadMode, IrqContext, Core, Control
<1> QED BY <1>1, <1>2, DeleteInv DEF Core

\* The kernel without the task lock.
LEMMA UnlockedFacts ==
  ASSUME NEW s, Core(s), NEW n \in 0 .. MaxLock, NEW r, r = [s EXCEPT !.lock = n]
  PROVE  /\ Consistent(r) /\ r.lock = n /\ r.list = s.list /\ r.status = s.status
         /\ r.run = s.run /\ r.new = s.new /\ r.scheduled = s.scheduled
         /\ r.resched = s.resched /\ r.pendSV = s.pendSV /\ r.irq = s.irq
         /\ r.scan = s.scan /\ r.needSchedule = s.needSchedule /\ r.wild = s.wild
<1>1. /\ r \in KernelState /\ r.lock = n /\ r.list = s.list /\ r.status = s.status
      /\ r.prio = s.prio /\ r.timer = s.timer /\ r.due = s.due
      /\ r.run = s.run /\ r.new = s.new /\ r.scheduled = s.scheduled
      /\ r.resched = s.resched /\ r.pendSV = s.pendSV /\ r.irq = s.irq
      /\ r.scan = s.scan /\ r.needSchedule = s.needSchedule /\ r.wild = s.wild
  BY DEF Core, Consistent, KernelState
<1>2. Consistent(r)
  BY <1>1, ControlStep DEF Core
<1> QED BY <1>1, <1>2

LEMMA EntryReturnStep ==
  ASSUME Core(os), Quiet(os), osTaskEntryReturn
  PROVE  Steady(os, os')
<1> DEFINE s == [os EXCEPT !.lock = 0]
           t == os.run
           u == Unpend(s, t)
           z == [s EXCEPT !.resched = @ \ {t}]
<1>1. /\ t \in Task \ {Idle} /\ "READY" \in os.status[t]
      /\ os.scheduled /\ ~os.needSchedule /\ t \notin os.resched
      /\ os.status[t] \cap (Blocked \cup {"UNUSED"}) = {}
  BY CallerReady DEF osTaskEntryReturn, TaskContext
<1>2. "RUNNING" \in os.status[t] /\ os.status[t] \cap Waits = {}
  BY <1>1 DEF Core, Control, Quiet
<1>3. /\ Consistent(s) /\ s.lock = 0 /\ s.list = os.list /\ s.status = os.status
      /\ s.run = os.run /\ s.new = os.new /\ s.scheduled = os.scheduled
      /\ s.resched = os.resched /\ s.pendSV = os.pendSV /\ s.irq = os.irq
      /\ s.scan = os.scan /\ s.needSchedule = os.needSchedule /\ s.wild = os.wild
  <2>1. 0 \in 0 .. MaxLock
    BY BoundAssumption
  <2> HIDE DEF s
  <2> QED BY <2>1, UnlockedFacts DEF s
<1>4. os' = RetireRunning(u, t)
  BY <1>1, <1>2, <1>3 DEF osTaskEntryReturn, Waits
<1> HIDE DEF s
<1>5. DeleteTask(s, t) = RetireRunning(u, t)
  <2>1. z = s
    BY <1>1, <1>3 DEF Consistent, KernelState
  <2>2. s.status[t] \cap {"DELAY", "TIMEOUT"} = {} /\ "RUNNING" \in s.status[t]
    BY <1>1, <1>2, <1>3 DEF Waits, Blocked
  <2> HIDE DEF u
  <2>3. DeleteTask(s, t) = RetireRunning(Unpend(z, t), t)
    BY <2>2 DEF DeleteTask
  <2> QED BY <2>1, <2>3 DEF u
<1>6. Control(s)
  BY <1>1, <1>3 DEF Core, Control
<1>7. Eases(os, s) /\ (Quiet(os) => Quiet(s))
  BY <1>3 DEF Quiet, Eases, Drains
<1>8. Steady(s, os') /\ Highest(os')
  BY <1>1, <1>2, <1>3, <1>4, <1>5, <1>6, DeleteInv
<1> QED BY <1>7, <1>8, EasesTrans DEF Steady

LEMMA DelayStep ==
  ASSUME Core(os), NEW n \in Ticks, LOS_TaskDelay(n)
  PROVE  Steady(os, os')
<1> DEFINE t == os.run
           d == Dequeue(os, t)
           r == [d EXCEPT !.timer[t] = n, !.status[t] = @ \cup {"DELAY"}]
<1>1. /\ t \in Task \ {Idle} /\ "READY" \in os.status[t]
      /\ os.scheduled /\ ~os.pendSV /\ ~os.irq /\ ~os.scan
      /\ os.status[t] \cap (Blocked \cup {"UNUSED"}) = {}
  BY CallerReady DEF LOS_TaskDelay
<1>2. /\ Consistent(os) /\ os \in KernelState /\ WellLinked(os) /\ TaskAgrees(os, t)
      /\ os.prio[t] \in Prio /\ os.status \in [Tcb -> SUBSET Flag] /\ os.wild \in BOOLEAN
      /\ os.timer \in [Task -> 0 .. MaxTicks]
  BY <1>1 DEF Core, Consistent, KernelState
<1>3. On(os, t) # {}
  BY <1>1, <1>2 DEF TaskAgrees
<1>4. /\ d \in KernelState /\ WellLinked(d) /\ SameControl(os, d) /\ SameBut(os, d, t)
      /\ On(d, t) = {} /\ d.status = [os.status EXCEPT ![t] = @ \ {"READY"}]
      /\ d.prio = os.prio /\ d.timer = os.timer /\ d.due = os.due /\ d.wild = os.wild
  BY <1>1, <1>2, <1>3, DequeueFacts
<1>5. os' = Reschedule(r)
  BY DEF LOS_TaskDelay
<1> HIDE DEF d
<1>6. /\ r.list = d.list /\ r.prio = d.prio /\ r.due = d.due /\ r.wild = d.wild
      /\ r.timer = [d.timer EXCEPT ![t] = n]
      /\ r.status = [d.status EXCEPT ![t] = @ \cup {"DELAY"}]
      /\ SameControl(d, r)
      /\ r = [d EXCEPT !.timer = r.timer, !.status = r.status]
  BY <1>4 DEF KernelState, SameControl
<1> HIDE DEF r
<1>7. n \in 0 .. MaxTicks /\ n > 0
  BY BoundAssumption DEF Ticks
<1>8. /\ r.timer \in [Task -> 0 .. MaxTicks] /\ r.status \in [Tcb -> SUBSET Flag]
      /\ r.timer[t] = n /\ r.status[t] = (os.status[t] \ {"READY"}) \cup {"DELAY"}
      /\ \A u \in Task \ {t} : r.timer[u] = os.timer[u] /\ r.status[u] = os.status[u]
      /\ r.status[Dummy] = d.status[Dummy]
  <2>1. r.timer = [os.timer EXCEPT ![t] = n]
    BY <1>4, <1>6
  <2>2. t \in Tcb /\ t # Dummy /\ "DELAY" \in Flag
    BY <1>1, DummyTask DEF Flag
  <2>3. d.status \in [Tcb -> SUBSET Flag] /\ d.status[t] = os.status[t] \ {"READY"}
    BY <1>2, <1>4, <2>2
  <2>4. r.status \in [Tcb -> SUBSET Flag] /\ r.status[t] = (os.status[t] \ {"READY"}) \cup {"DELAY"}
    BY <1>6, <2>2, <2>3
  <2>5. \A u \in Tcb \ {t} : r.status[u] = d.status[u] /\ d.status[u] = os.status[u]
    BY <1>2, <1>4, <1>6, <2>3
  <2>6. /\ r.timer \in [Task -> 0 .. MaxTicks] /\ r.timer[t] = n
        /\ \A u \in Task \ {t} : r.timer[u] = os.timer[u]
    BY <1>1, <1>2, <1>7, <2>1
  <2> QED BY <2>2, <2>4, <2>5, <2>6, DummyTask
<1>9. r \in KernelState
  BY <1>4, <1>6, <1>8 DEF KernelState
<1>10. WellLinked(r) /\ \A h : On(r, h) = On(d, h)
  BY <1>4, <1>6 DEF WellLinked, On
<1>11. SameBut(os, r, t)
  BY <1>4, <1>6, <1>8, <1>10 DEF SameBut
<1>12. TaskAgrees(r, t)
  <2>1. On(r, t) = {} /\ t \notin r.due
    <3>1. os.timer[t] = 0 => t \notin os.due
      BY <1>2 DEF TaskAgrees
    <3>2. os.timer[t] = 0
      BY <1>1, <1>2, BoundAssumption DEF TaskAgrees, Blocked
    <3> QED BY <1>4, <1>6, <1>10, <3>1, <3>2
  <2> QED BY <1>1, <1>2, <1>7, <1>8, <2>1 DEF TaskAgrees, Blocked
<1>13. Consistent(r)
  BY <1>1, <1>2, <1>9, <1>10, <1>11, <1>12, ConsistentStep
<1>14. Alike(os, r)
  BY <1>4, <1>6 DEF SameControl, Alike
<1>15. Kept(os, r)
  <2>1. ~(os.lock > 0)
    BY DEF LOS_TaskDelay
  <2>2. \A u \in Task : /\ "RUNNING" \in r.status[u] <=> "RUNNING" \in os.status[u]
                        /\ r.status[u] \cap Waits \subseteq os.status[u]
    BY <1>8 DEF Waits
  <2>3. Drains(os, r)
    BY <1>4, <1>9, <1>10, <1>11, DrainsBut
  <2> QED BY <2>1, <2>2, <2>3 DEF Kept, Eases
<1> QED BY <1>1, <1>5, <1>13, <1>14, <1>15, CallInv

LEMMA KeptSame ==
  ASSUME NEW s, Core(s), NEW m, m.status = s.status, Drains(s, m)
  PROVE  Kept(s, m)
BY DEF Kept, Eases, Core, Control

LEMMA YieldStep ==
  ASSUME Core(os), LOS_TaskYield
  PROVE  Steady(os, os')
<1>1. /\ os.run \in Task /\ os.scheduled /\ ~os.pendSV /\ ~os.irq /\ ~os.scan
      /\ os' = Yield(os) /\ Consistent(os)
  BY CallerReady DEF LOS_TaskYield, Core
<1>2. CASE os' = os
  BY <1>2, SteadySame
<1>3. CASE os' # os
  <2>1. PICK m : /\ Consistent(m) /\ Alike(os, m) /\ m.status = os.status /\ Drains(os, m)
                 /\ Yield(os) = Reschedule(m)
    BY <1>1, <1>3, YieldFacts
  <2> QED BY <1>1, <2>1, KeptSame, CallInv
<1> QED BY <1>2, <1>3

LEMMA PriSetStep ==
  ASSUME Core(os), NEW t \in Task, NEW p \in PriSetArg, LOS_TaskPriSet(t, p)
  PROVE  Steady(os, os')
<1> DEFINE s == osTaskPriModify(os, t, p)
<1>1. /\ os.run \in Task /\ os.scheduled /\ ~os.pendSV /\ ~os.irq /\ ~os.scan
      /\ t # Idle /\ Consistent(os) /\ p \in Prio
      /\ os' = IF "READY" \in os.status[t] THEN Reschedule(s) ELSE s
  BY CallerReady, BoundAssumption DEF LOS_TaskPriSet, Core
<1>2. /\ Consistent(s) /\ SameControl(os, s) /\ s.wild = os.wild /\ s.status = os.status
      /\ Drains(os, s)
      /\ "READY" \notin os.status[t] => s.list = os.list
  BY <1>1, PriModifyFacts
<1> HIDE DEF s
<1>3. Alike(os, s) /\ Kept(os, s)
  BY <1>2, KeptSame DEF Alike, SameControl
<1>4. CASE "READY" \in os.status[t]
  BY <1>1, <1>2, <1>3, <1>4, CallInv
<1>5. CASE "READY" \notin os.status[t]
  BY <1>1, <1>2, <1>3, <1>5, StillInv
<1> QED BY <1>4, <1>5

LEMMA LockStep ==
  ASSUME Core(os), LOS_TaskLock
  PROVE  Steady(os, os')
<1> DEFINE n == os.lock + 1
           r == [os EXCEPT !.lock = n]
<1>1. /\ os.run \in Task /\ "READY" \in os.status[os.run]
      /\ os.scheduled /\ ~os.pendSV /\ ~os.irq /\ ~os.scan /\ ~os.needSchedule
  BY CallerReady DEF LOS_TaskLock
<1>2. n \in 0 .. MaxLock /\ n > 0 /\ n # 0
  BY BoundAssumption DEF LOS_TaskLock, Core, Consistent, KernelState
<1>3. os' = r
  BY DEF LOS_TaskLock, Core, Consistent, KernelState
<1> HIDE DEF n
<1>4. /\ Consistent(r) /\ r.lock = n /\ r.list = os.list /\ r.status = os.status
      /\ r.run = os.run /\ r.new = os.new /\ r.scheduled = os.scheduled
      /\ r.resched = os.resched /\ r.pendSV = os.pendSV /\ r.irq = os.irq
      /\ r.scan = os.scan /\ r.needSchedule = os.needSchedule /\ r.wild = os.wild
  <2> HIDE DEF r
  <2> QED BY <1>2, UnlockedFacts DEF r
<1> HIDE DEF r
<1>5. Control(r)
  BY <1>1, <1>2, <1>4 DEF Core, Control
<1>6. Current(r) /\ Highest(r)
  BY <1>1, <1>2, <1>4 DEF Current, Highest, Settled
<1>7. (Quiet(os) => Quiet(r)) /\ Eases(os, r)
  BY <1>4 DEF Eases, Quiet, Drains
<1> QED BY <1>3, <1>4, <1>5, <1>6, <1>7 DEF Steady, Core

LEMMA UnlockStep ==
  ASSUME Core(os), LOS_TaskUnlock
  PROVE  Steady(os, os')
<1> DEFINE n == os.lock - 1
           r == [os EXCEPT !.lock = n]
           z == [r EXCEPT !.resched = @ \cup {r.run}]
<1>1. /\ os.run \in Task /\ "READY" \in os.status[os.run]
      /\ os.scheduled /\ ~os.pendSV /\ ~os.irq /\ ~os.scan /\ ~os.needSchedule
  BY CallerReady DEF LOS_TaskUnlock
<1>2. n \in 0 .. MaxLock /\ os.lock > 0
  BY BoundAssumption DEF LOS_TaskUnlock, Core, Consistent, KernelState
<1>3. os' = IF r.lock = 0 THEN Reschedule(r) ELSE r
  BY DEF LOS_TaskUnlock, Core, Consistent, KernelState
<1> HIDE DEF n
<1>4. /\ Consistent(r) /\ r.lock = n /\ r.list = os.list /\ r.status = os.status
      /\ r.run = os.run /\ r.new = os.new /\ r.scheduled = os.scheduled
      /\ r.resched = os.resched /\ r.pendSV = os.pendSV /\ r.irq = os.irq
      /\ r.scan = os.scan /\ r.needSchedule = os.needSchedule /\ r.wild = os.wild
  <2> HIDE DEF r
  <2> QED BY <1>2, UnlockedFacts DEF r
<1> HIDE DEF r
<1>5. Control(r)
  BY <1>1, <1>2, <1>4 DEF Core, Control
<1>6. (Quiet(os) => Quiet(r)) /\ Eases(os, r)
  BY <1>4 DEF Eases, Quiet, Drains
<1>7. CASE n # 0
  <2>1. Current(r) /\ Highest(r)
    BY <1>1, <1>4, <1>7 DEF Current, Highest, Settled
  <2> QED BY <1>3, <1>4, <1>5, <1>6, <1>7, <2>1 DEF Steady, Core
<1>8. CASE n = 0
  <2>1. os' = z
    BY <1>1, <1>3, <1>4, <1>8 DEF Reschedule
  <2>2. /\ z \in KernelState /\ z.list = r.list /\ z.status = r.status /\ z.prio = r.prio
        /\ z.timer = r.timer /\ z.due = r.due
        /\ z.run = r.run /\ z.new = r.new /\ z.lock = r.lock /\ z.scheduled = r.scheduled
        /\ z.resched = r.resched \cup {r.run} /\ z.pendSV = r.pendSV /\ z.irq = r.irq
        /\ z.scan = r.scan /\ z.needSchedule = r.needSchedule /\ z.wild = r.wild
    BY <1>1, <1>4 DEF Consistent, KernelState
  <2> HIDE DEF z
  <2>3. Consistent(z)
    BY <1>4, <2>2, ControlStep
  <2>4. Control(z)
    BY <1>5, <2>2 DEF Control
  <2>5. Current(z) /\ Highest(z)
    BY <1>1, <1>4, <2>2 DEF Current, Highest, Settled
  <2>6. (Quiet(os) => Quiet(z)) /\ Eases(os, z)
    BY <1>6, <2>2 DEF Eases, Quiet, Drains
  <2> QED BY <2>1, <2>3, <2>4, <2>5, <2>6 DEF Steady, Core
<1> QED BY <1>7, <1>8

LEMMA TaskRescheduleStep ==
  ASSUME Core(os), TaskReschedule
  PROVE  Steady(os, os')
<1> DEFINE m == [os EXCEPT !.resched = @ \ {os.run}]
<1>1. os' = LOS_Schedule(m) /\ os.scheduled /\ Consistent(os)
  BY DEF TaskReschedule, ThreadMode, Core
<1>2. /\ m \in KernelState /\ m.list = os.list /\ m.status = os.status /\ m.prio = os.prio
      /\ m.timer = os.timer /\ m.due = os.due /\ m.run = os.run /\ m.lock = os.lock
      /\ m.scheduled = os.scheduled /\ m.pendSV = os.pendSV /\ m.wild = os.wild
      /\ m.needSchedule = os.needSchedule /\ m.scan = os.scan
  BY <1>1 DEF Consistent, KernelState
<1> HIDE DEF m
<1>3. Consistent(m)
  BY <1>1, <1>2, ControlStep
<1>4. Kept(os, m) /\ (m.needSchedule => m.scan)
  BY <1>2, KeptSame DEF Core, Control, Drains
<1> QED BY <1>1, <1>2, <1>3, <1>4, ScheduleInv

LEMMA PendSVStep ==
  ASSUME Core(os), osPendSV
  PROVE  Steady(os, os')
<1> DEFINE s == os
           st == [t \in Tcb |-> IF t = s.new THEN s.status[t] \cup {"RUNNING"}
                                ELSE IF t = s.run THEN s.status[t] \ {"RUNNING"}
                                ELSE s.status[t]]
           r == [s EXCEPT !.pendSV = FALSE, !.run = s.new, !.status = st]
<1>1. /\ Core(s) /\ Consistent(s) /\ s \in KernelState
      /\ s.pendSV /\ ~s.scan
  BY DEF osPendSV, Core, Consistent
<1>2. os' = r
  BY <1>1 DEF osPendSV, KernelState
<1> HIDE DEF s
<1>3. s.scheduled /\ ~s.needSchedule /\ ~(s.lock > 0) /\ s.new = osPriqueueTop(s)
  BY <1>1 DEF Core, Control, Current
<1>4. s.new \in Task /\ "READY" \in s.status[s.new] /\ s.new # Dummy /\ TaskAgrees(s, s.new)
  BY <1>1, <1>3, TopReady, DummyTask DEF Consistent
<1>5. s.status \in [Tcb -> SUBSET Flag] /\ "RUNNING" \in Flag
  BY <1>1 DEF KernelState, Flag
<1>6. st \in [Tcb -> SUBSET Flag]
  BY <1>5
<1>7. /\ r \in KernelState /\ r.list = s.list /\ r.prio = s.prio /\ r.timer = s.timer
      /\ r.due = s.due /\ r.status = st /\ r.run = s.new /\ r.new = s.new
      /\ r.lock = s.lock /\ r.scheduled = s.scheduled /\ ~r.pendSV
      /\ r.needSchedule = s.needSchedule /\ r.scan = s.scan /\ r.wild = s.wild
  BY <1>1, <1>4, <1>6, DummyTask DEF KernelState
<1> HIDE DEF r
<1>8. \A t \in Tcb : /\ st[t] \ {"RUNNING"} = s.status[t] \ {"RUNNING"}
                     /\ t = s.new => "RUNNING" \in st[t]
                     /\ t # s.new /\ t = s.run => "RUNNING" \notin st[t]
                     /\ t # s.new /\ t # s.run => st[t] = s.status[t]
  BY DEF st
<1> HIDE DEF st
<1>9. Consistent(r)
  <2>1. \A t \in Task : "UNUSED" \in s.status[t] => st[t] = s.status[t]
    <3> SUFFICES ASSUME NEW t \in Task, "UNUSED" \in s.status[t]
                 PROVE  st[t] = s.status[t]
      OBVIOUS
    <3>1. s.status[t] = {"UNUSED"} /\ t \in Tcb
      BY <1>1, DummyTask DEF Consistent, TaskAgrees
    <3>2. t # s.new
      BY <1>4, <3>1
    <3>3. t # s.run
      BY <1>1, <1>3, <3>1 DEF Core, Control
    <3> QED BY <1>8, <3>1, <3>2, <3>3
  <2> QED BY <1>1, <1>7, <1>8, <2>1, ControlStep
<1>10. Control(r)
  <2>1. \A t \in Task : "RUNNING" \in st[t] <=> t = s.new
    BY <1>1, <1>3, <1>8, DummyTask DEF Core, Control
  <2> QED BY <1>1, <1>3, <1>4, <1>7, <2>1 DEF Control
<1>11. Current(r) /\ Highest(r)
  <2>1. osPriqueueTop(r) = osPriqueueTop(s)
    BY <1>1, <1>7, ConsistentTop
  <2>2. "READY" \in r.status[r.run]
    BY <1>4, <1>7, <1>8, DummyTask
  <2> QED BY <1>3, <1>7, <2>1, <2>2 DEF Current, Highest, Settled
<1>12. (Quiet(s) => Quiet(r)) /\ Eases(s, r)
  <2>1. \A t \in Task : st[t] \cap Waits = s.status[t] \cap Waits
    BY <1>8, DummyTask DEF Waits
  <2> QED BY <1>7, <2>1 DEF Quiet, Eases, Drains
<1> QED BY <1>2, <1>9, <1>10, <1>11, <1>12 DEF Steady, Core, s

LEMMA InterruptStep ==
  ASSUME Core(os), osInterruptEnter \/ osInterruptExit
  PROVE  Steady(os, os')
<1>1. PICK b \in BOOLEAN : os.scheduled /\ os' = [os EXCEPT !.irq = b]
  BY DEF osInterruptEnter, osInterruptExit, IrqContext, Core, Control
<1> DEFINE r == [os EXCEPT !.irq = b]
<1>2. /\ r \in KernelState /\ r.list = os.list /\ r.prio = os.prio /\ r.timer = os.timer
      /\ r.due = os.due /\ r.status = os.status /\ r.run = os.run /\ r.new = os.new
      /\ r.lock = os.lock /\ r.scheduled = os.scheduled /\ r.pendSV = os.pendSV
      /\ r.resched = os.resched
      /\ r.needSchedule = os.needSchedule /\ r.scan = os.scan /\ r.wild = os.wild
  BY DEF Core, Consistent, KernelState
<1> HIDE DEF r
<1>3. Consistent(r)
  BY <1>2, ControlStep DEF Core
<1>4. Control(r)
  BY <1>1, <1>2 DEF Core, Control
<1>5. Current(r) /\ (Highest(os) => Highest(r))
  BY <1>2, ConsistentTop DEF Core, Current, Highest, Settled
<1>6. (Quiet(os) => Quiet(r)) /\ Eases(os, r)
  BY <1>2 DEF Eases, Quiet, Drains
<1> QED BY <1>1, <1>3, <1>4, <1>5, <1>6 DEF Steady, Core, r

LEMMA TickStep ==
  ASSUME Core(os), osTickHandler
  PROVE  Steady(os, os')
<1> DEFINE s == [os EXCEPT !.scan = TRUE, !.needSchedule = FALSE]
           c == osTimesliceCheck(s)
<1>1. os.scheduled /\ ~os.needSchedule /\ os' = NextSlot(c) /\ Consistent(os)
  BY DEF osTickHandler, Core, Control
<1>2. /\ s \in KernelState /\ s.list = os.list /\ s.prio = os.prio /\ s.timer = os.timer
      /\ s.due = os.due /\ s.status = os.status /\ s.run = os.run /\ s.new = os.new
      /\ s.lock = os.lock /\ s.scheduled = os.scheduled /\ s.pendSV = os.pendSV
      /\ s.resched = os.resched /\ s.irq = os.irq
      /\ ~s.needSchedule /\ s.scan /\ s.wild = os.wild
  BY <1>1 DEF Consistent, KernelState
<1> HIDE DEF s
<1>3. Steady(os, s)
  <2>1. Consistent(s)
    BY <1>1, <1>2, ControlStep
  <2>2. Control(s)
    BY <1>1, <1>2 DEF Core, Control
  <2>3. Current(s) /\ (Highest(os) => Highest(s))
    BY <1>1, <1>2, ConsistentTop DEF Core, Current, Highest, Settled
  <2>4. (Quiet(os) => Quiet(s)) /\ Eases(os, s)
    BY <1>2 DEF Eases, Quiet, Drains
  <2> QED BY <2>1, <2>2, <2>3, <2>4 DEF Steady, Core
<1>4. PICK m : /\ Consistent(m) /\ Alike(s, m) /\ m.status = s.status /\ Drains(s, m)
               /\ \/ c = m /\ m.list = s.list
                  \/ c = Reschedule(m)
  <2>1. Consistent(s)
    BY <1>3 DEF Steady, Core
  <2> QED BY <2>1, TimesliceFacts
<1>5. Kept(s, m)
  BY <1>3, <1>4, KeptSame DEF Steady
<1>6. Steady(s, c)
  <2>1. CASE c = m /\ m.list = s.list
    BY <1>3, <1>4, <1>5, <2>1, StillInv DEF Steady
  <2>2. CASE c = Reschedule(m)
    <3>1. c = LOS_Schedule(m)
      BY <1>2, <1>4, <2>2 DEF Reschedule, Alike
    <3>2. Core(s) /\ s.scheduled
      BY <1>1, <1>2, <1>3 DEF Steady
    <3>3. /\ m.needSchedule => m.scan
          /\ m.run = s.run /\ m.lock = s.lock /\ m.scheduled = s.scheduled
          /\ m.pendSV = s.pendSV /\ m.wild = s.wild
      BY <1>2, <1>4 DEF Alike
    <3> HIDE DEF c
    <3> QED BY <1>4, <1>5, <3>1, <3>2, <3>3, ScheduleInv
  <2> QED BY <1>4, <2>1, <2>2
<1> HIDE DEF c
<1>7. Steady(c, NextSlot(c))
  <2> DEFINE r == NextSlot(c)
  <2>1. /\ Consistent(r)
        /\ r.run = c.run /\ r.lock = c.lock /\ r.scheduled = c.scheduled
        /\ r.needSchedule = c.needSchedule /\ r.wild = c.wild
        /\ r.irq = c.irq /\ r.scan = c.scan
        /\ r.list = c.list /\ r.status = c.status
        /\ r.pendSV = c.pendSV /\ r.new = c.new /\ r.resched = c.resched
    BY <1>6, NextSlotFacts DEF Steady, Core
  <2> HIDE DEF r
  <2>2. Kept(c, r) /\ Alike(c, r)
    BY <1>6, <2>1, KeptSame DEF Alike, Steady, Drains
  <2>3. Steady(c, r)
    BY <1>6, <2>1, <2>2, StillInv DEF Steady
  <2> QED BY <2>3 DEF r
<1>8. Steady(os, c)
  BY <1>3, <1>6, SteadyTrans
<1> QED BY <1>1, <1>7, <1>8, SteadyTrans

LEMMA ScanNextStep ==
  ASSUME Core(os), NEW t \in Task, osTaskScanNext(t)
  PROVE  Steady(os, os')
<1> DEFINE r == TimerExpire(os, t)
<1>1. os' = r /\ t \in os.due /\ os.scan /\ Consistent(os)
  BY DEF osTaskScanNext, Core
<1>2. /\ Consistent(r)
      /\ r.run = os.run /\ r.new = os.new /\ r.lock = os.lock
      /\ r.scheduled = os.scheduled /\ r.resched = os.resched
      /\ r.pendSV = os.pendSV /\ r.irq = os.irq /\ r.scan = os.scan
      /\ r.wild = os.wild /\ Drains(os, r)
      /\ "READY" \notin os.status[t]
      /\ \A u \in Task \ {t} : r.status[u] = os.status[u]
      /\ r.status[t] \subseteq os.status[t] \cup {"READY"}
      /\ "RUNNING" \in os.status[t] => "RUNNING" \in r.status[t]
      /\ \/ r.needSchedule
         \/ /\ r.needSchedule = os.needSchedule
            /\ \A p \in Prio : r.list[p] = os.list[p]
  <2>1. /\ Consistent(r)
        /\ r.run = os.run /\ r.new = os.new /\ r.lock = os.lock
        /\ r.resched = os.resched /\ Drains(os, r)
    BY <1>1, TimerExpireFacts
  <2>4. /\ r.scheduled = os.scheduled
        /\ r.pendSV = os.pendSV /\ r.irq = os.irq /\ r.scan = os.scan
        /\ r.wild = os.wild
    <3>1. t \in os.due /\ Consistent(os)
      BY <1>1
    <3> HIDE DEF r
    <3>2. r.scheduled = os.scheduled /\ r.pendSV = os.pendSV
      BY <3>1, TimerExpireFacts DEF r
    <3>3. r.irq = os.irq /\ r.scan = os.scan /\ r.wild = os.wild
      BY <3>1, TimerExpireFacts DEF r
    <3> QED BY <3>2, <3>3
  <2>2. /\ "READY" \notin os.status[t]
        /\ \A u \in Task \ {t} : r.status[u] = os.status[u]
        /\ r.status[t] \subseteq os.status[t] \cup {"READY"}
        /\ "RUNNING" \in os.status[t] => "RUNNING" \in r.status[t]
    BY <1>1, TimerExpireFacts
  <2>3. \/ r.needSchedule
        \/ /\ r.needSchedule = os.needSchedule
           /\ \A p \in Prio : r.list[p] = os.list[p]
    BY <1>1, TimerExpireFacts
  <2> HIDE DEF r
  <2> QED BY <2>1, <2>2, <2>3, <2>4
<1> HIDE DEF r
<1>3. Kept(os, r)
  <2>1. \A u \in Task : "RUNNING" \in r.status[u] <=> "RUNNING" \in os.status[u]
    BY <1>2
  <2>2. \A u \in Task : r.status[u] \cap Waits \subseteq os.status[u]
    BY <1>2 DEF Waits
  <2>3. os.scheduled /\ os.lock > 0 => "READY" \in r.status[os.run]
    <3>1. os.scheduled /\ os.lock > 0 => "READY" \in os.status[os.run]
      BY DEF Core, Control
    <3>2. "READY" \in os.status[os.run] => os.run \in Task \ {t}
      BY <1>1, <1>2 DEF Consistent, KernelState, IdleStays, Tcb
    <3> QED BY <1>2, <3>1, <3>2
  <2> QED BY <1>2, <2>1, <2>2, <2>3 DEF Kept, Eases
<1>4. CASE r.needSchedule
  <2>1. Control(r)
    BY <1>1, <1>2, <1>3, <1>4 DEF Core, Control, Kept, Eases
  <2>2. Current(r) /\ Highest(r)
    BY <1>4 DEF Current, Highest, Settled
  <2>3. (Quiet(os) => Quiet(r)) /\ Eases(os, r)
    BY <1>2, <1>3 DEF Quiet, Kept, Eases
  <2> QED BY <1>1, <1>2, <2>1, <2>2, <2>3 DEF Steady, Core
<1>5. CASE ~r.needSchedule
  <2>1. Alike(os, r)
    BY <1>2, <1>5 DEF Alike
  <2> QED BY <1>1, <1>2, <1>3, <1>5, <2>1, StillInv
<1> QED BY <1>4, <1>5

LEMMA ScanEndStep ==
  ASSUME Core(os), osTaskScanEnd
  PROVE  Steady(os, os')
<1> DEFINE s == [os EXCEPT !.scan = FALSE, !.needSchedule = FALSE]
<1>1. /\ os' = IF os.needSchedule THEN LOS_Schedule(s) ELSE s
      /\ os.scan /\ os.scheduled /\ Consistent(os)
  BY DEF osTaskScanEnd, Core, Control
<1>2. /\ s \in KernelState /\ s.list = os.list /\ s.prio = os.prio /\ s.timer = os.timer
      /\ s.due = os.due /\ s.status = os.status /\ s.run = os.run /\ s.new = os.new
      /\ s.lock = os.lock /\ s.scheduled = os.scheduled /\ s.pendSV = os.pendSV
      /\ s.resched = os.resched /\ s.irq = os.irq
      /\ ~s.needSchedule /\ ~s.scan /\ s.wild = os.wild
  BY <1>1 DEF Consistent, KernelState
<1> HIDE DEF s
<1>3. Consistent(s) /\ Kept(os, s)
  BY <1>1, <1>2, ControlStep, KeptSame DEF Drains
<1>4. CASE os.needSchedule
  BY <1>1, <1>2, <1>3, <1>4, ScheduleInv
<1>5. CASE ~os.needSchedule
  <2>1. Control(s)
    BY <1>1, <1>2 DEF Core, Control
  <2>2. Current(s) /\ (Highest(os) => Highest(s))
    BY <1>1, <1>2, <1>5, ConsistentTop DEF Core, Current, Highest, Settled
  <2>3. (Quiet(os) => Quiet(s)) /\ Eases(os, s)
    BY <1>2 DEF Eases, Quiet, Drains
  <2> QED BY <1>1, <1>3, <1>5, <2>1, <2>2, <2>3 DEF Steady, Core
<1> QED BY <1>4, <1>5

LEMMA InitInv == Init => Inv(os)
<1> DEFINE s == InitOs
<1>1. SUFFICES Inv(s)
  BY DEF Init
<1>2. /\ TcbArray \in Seq(Task) /\ NoDup(TcbArray) /\ Elems(TcbArray) = User
      /\ Idle \in Task /\ Idle \notin User /\ Dummy \notin Task
  BY TcbAssumption DEF Task, User, NoDup
<1>3. /\ s.status = [t \in Tcb |-> IF t = Idle THEN {"READY"}
                                   ELSE IF t = Dummy THEN {"UNUSED", "RUNNING"} ELSE {"UNUSED"}]
      /\ s.prio = [t \in Task |-> Lowest]
      /\ s.list = [h \in Heads |-> IF h = Lowest THEN <<Idle>>
                                   ELSE IF h = FreeTask THEN TcbArray ELSE <<>>]
      /\ s.timer = [t \in Task |-> 0] /\ s.due = {}
      /\ s.run = Dummy /\ s.new = Idle /\ s.lock = 0 /\ ~s.scheduled /\ ~s.pendSV
      /\ ~s.irq /\ ~s.scan /\ ~s.needSchedule /\ ~s.wild /\ s.resched = {}
  BY DEF InitOs
<1>4. /\ Lowest \in Heads /\ FreeTask \in Heads /\ RecycleList \in Heads
      /\ FreeTask # Lowest /\ RecycleList # FreeTask /\ RecycleList # Lowest
      /\ Lowest \in Prio /\ FreeTask \notin Prio /\ RecycleList \notin Prio
      /\ FreeTask \notin WaitList /\ Lowest \notin WaitList
  BY HeadsFacts, HeadAssumption
<1>5. s \in KernelState
  <2>1. <<Idle>> \in Seq(Task) /\ <<>> \in Seq(Task)
    BY <1>2
  <2>2. s.list \in [Heads -> Seq(Task)]
    BY <1>2, <1>3, <2>1
  <2>3. s.status \in [Tcb -> SUBSET Flag]
    BY <1>3 DEF Flag
  <2>4. s.prio \in [Task -> Prio] /\ s.timer \in [Task -> 0 .. MaxTicks]
    BY <1>3, <1>4, BoundAssumption
  <2>5. 0 \in 0 .. MaxLock /\ 0 \in 0 .. TimeSlice - 1
    BY BoundAssumption
  <2> DEFINE st == s.status
             pr == s.prio
             li == s.list
             ti == s.timer
  <2>6. s = [status |-> st, prio |-> pr, list |-> li, timer |-> ti,
             run |-> Dummy, new |-> Idle, lock |-> 0, scheduled |-> FALSE, pendSV |-> FALSE,
             resched |-> {}, irq |-> FALSE, scan |-> FALSE, due |-> {}, needSchedule |-> FALSE,
             sliceTask |-> Dummy, sliceLeft |-> 0, wild |-> FALSE]
    BY DEF InitOs
  <2>7. /\ st \in [Tcb -> SUBSET Flag] /\ pr \in [Task -> Prio]
        /\ li \in [Heads -> Seq(Task)] /\ ti \in [Task -> 0 .. MaxTicks]
    BY <2>2, <2>3, <2>4
  <2> HIDE DEF s, st, pr, li, ti
  <2> QED BY <1>2, <2>5, <2>6, <2>7, DummyTask DEF KernelState
<1> HIDE DEF s
<1>6. /\ s.list[Lowest] = <<Idle>> /\ s.list[FreeTask] = TcbArray
      /\ \A h \in Heads : h # Lowest /\ h # FreeTask => s.list[h] = <<>>
  BY <1>3, <1>4
<1>7. /\ Elems(s.list[Lowest]) = {Idle} /\ Elems(s.list[FreeTask]) = User
      /\ \A h \in Heads : h # Lowest /\ h # FreeTask => Elems(s.list[h]) = {}
  <2>1. Elems(<<Idle>>) = {Idle} /\ Elems(<<>>) = {}
    BY DEF Elems
  <2> QED BY <1>2, <1>6, <2>1
<1>8. WellLinked(s)
  <2>1. NoDup(<<Idle>>) /\ NoDup(<<>>)
    BY DEF NoDup
  <2>2. \A h \in Heads : NoDup(s.list[h])
    BY <1>2, <1>6, <2>1
  <2>3. \A h1, h2 \in Heads : h1 # h2 => Elems(s.list[h1]) \cap Elems(s.list[h2]) = {}
    <3> SUFFICES ASSUME NEW h1 \in Heads, NEW h2 \in Heads, h1 # h2
                 PROVE  Elems(s.list[h1]) \cap Elems(s.list[h2]) = {}
      OBVIOUS
    <3>1. CASE h1 \notin {Lowest, FreeTask} \/ h2 \notin {Lowest, FreeTask}
      BY <1>7, <3>1
    <3>2. CASE h1 \in {Lowest, FreeTask} /\ h2 \in {Lowest, FreeTask}
      BY <1>2, <1>7, <3>2
    <3> QED BY <3>1, <3>2
  <2> QED BY <2>2, <2>3 DEF WellLinked
<1>9. On(s, Idle) = {Lowest} /\ \A t \in User : On(s, t) = {FreeTask}
  <2>1. \A h \in Heads : Idle \in Elems(s.list[h]) <=> h = Lowest
    BY <1>2, <1>4, <1>7
  <2>2. \A t \in User, h \in Heads : t \in Elems(s.list[h]) <=> h = FreeTask
    <3> SUFFICES ASSUME NEW t \in User, NEW h \in Heads
                 PROVE  t \in Elems(s.list[h]) <=> h = FreeTask
      OBVIOUS
    <3>1. t # Idle
      BY <1>2
    <3>2. CASE h = FreeTask
      BY <1>7, <3>2
    <3>3. CASE h = Lowest
      BY <1>4, <1>7, <3>1, <3>3
    <3>4. CASE h # FreeTask /\ h # Lowest
      BY <1>7, <3>4
    <3> QED BY <3>2, <3>3, <3>4
  <2> QED BY <1>4, <2>1, <2>2 DEF On
<1>10. /\ s.status[Idle] = {"READY"} /\ \A t \in User : s.status[t] = {"UNUSED"}
       /\ s.status[Dummy] = {"UNUSED", "RUNNING"} /\ s.prio[Idle] = Lowest
       /\ \A t \in Task : s.timer[t] = 0
  BY <1>2, <1>3, DummyTask DEF Task
<1>11. IdleStays(s)
  BY <1>10 DEF IdleStays
<1>12. \A t \in Task : TaskAgrees(s, t)
  <2>1. TaskAgrees(s, Idle)
    BY <1>2, <1>3, <1>4, <1>9, <1>10 DEF TaskAgrees, Blocked
  <2>2. \A t \in User : TaskAgrees(s, t)
    <3> SUFFICES ASSUME NEW t \in User PROVE TaskAgrees(s, t)
      OBVIOUS
    <3>1. s.status[t] = {"UNUSED"} /\ s.timer[t] = 0 /\ On(s, t) = {FreeTask}
      BY <1>9, <1>10 DEF Task
    <3>2. /\ \A p \in Prio : p \notin On(s, t)
          /\ On(s, t) \cap WaitList = {}
          /\ On(s, t) \cap {FreeTask, RecycleList} # {}
          /\ t \notin s.due
      BY <1>3, <1>4, <3>1
    <3> QED BY <3>1, <3>2 DEF TaskAgrees
  <2> QED BY <2>1, <2>2 DEF Task
<1>13. Consistent(s)
  BY <1>5, <1>8, <1>11, <1>12 DEF Consistent
<1>14. osPriqueueTop(s) = Idle
  <2>1. \A q \in Prio : s.list[q] # <<>> => q = Lowest
    BY <1>4, <1>6, HeadsFacts
  <2>2. s.list[Lowest] # <<>> /\ Head(s.list[Lowest]) = Idle
    BY <1>6
  <2>3. \A q \in Prio : s.list[q] # <<>> => Lowest <= q
    BY <2>1, HeadAssumption
  <2> QED BY <1>4, <2>2, <2>3, TopUnique
<1>15. Control(s)
  <2>1. \A t \in Task : "RUNNING" \notin s.status[t]
    BY <1>10 DEF Task
  <2> QED BY <1>3, <2>1 DEF Control
<1>16. Current(s) /\ Highest(s)
  BY <1>3, <1>14 DEF Current, Highest, Settled
<1>17. Quiet(s)
  BY <1>3, <1>10 DEF Quiet, Waits, Task
<1> QED BY <1>13, <1>15, <1>16, <1>17 DEF Inv, Core

\* The interrupts and the exception handlers keep the invariant.
LEMMA ExceptionSteady ==
  ASSUME Core(os), Exception
  PROVE  Steady(os, os')
<1>1. CASE LOS_StartToRun
  BY <1>1, StartStep
<1>2. CASE TaskReschedule
  BY <1>2, TaskRescheduleStep
<1>3. CASE osPendSV
  BY <1>3, PendSVStep
<1>4. CASE osInterruptEnter \/ osInterruptExit
  BY <1>4, InterruptStep
<1>5. CASE osTickHandler
  BY <1>5, TickStep
<1>6. CASE \E t \in Task : osTaskScanNext(t)
  BY <1>6, ScanNextStep
<1>7. CASE osTaskScanEnd
  BY <1>7, ScanEndStep
<1> QED BY <1>1, <1>2, <1>3, <1>4, <1>5, <1>6, <1>7 DEF Exception

LEMMA NextInv ==
  ASSUME ~IsrSuspends
  PROVE  Inv(os) /\ [Next]_os => Inv(os')
<1> SUFFICES ASSUME Core(os), Highest(os), Quiet(os), [Next]_os PROVE Steady(os, os')
  BY DEF Inv, Steady
<1>1. CASE Call
  <2>1. CASE LOS_TaskCreateOnly
    BY <2>1, CreateOnlyStep
  <2>2. CASE LOS_TaskCreate
    BY <2>2, CreateStep
  <2>3. CASE \E t \in Task : LOS_TaskResume(t)
    BY <2>3, ResumeStep
  <2>4. CASE \E t \in Task : LOS_TaskSuspend(t)
    BY <2>4, SuspendStep
  <2>5. CASE \E t \in Task : LOS_TaskDelete(t)
    BY <2>5, TaskDeleteStep
  <2>6. CASE \E t \in Task, p \in PriSetArg : LOS_TaskPriSet(t, p)
    BY <2>6, PriSetStep
  <2>7. CASE osTaskEntryReturn
    BY <2>7, EntryReturnStep
  <2>8. CASE \E n \in Ticks : LOS_TaskDelay(n)
    BY <2>8, DelayStep
  <2>9. CASE LOS_TaskYield
    BY <2>9, YieldStep
  <2>10. CASE LOS_TaskLock
    BY <2>10, LockStep
  <2>11. CASE LOS_TaskUnlock
    BY <2>11, UnlockStep
  <2> QED BY <1>1, <2>1, <2>2, <2>3, <2>4, <2>5, <2>6, <2>7, <2>8, <2>9, <2>10, <2>11 DEF Call
<1>2. CASE Exception
  BY <1>2, ExceptionSteady
<1>3. CASE UNCHANGED os
  BY <1>3, SteadySame
<1> QED BY <1>1, <1>2, <1>3 DEF Next

----------------------------------------------------------------------------
\* The operations that leave the running task alone.

KeepsRun(s, r) == "run" \in DOMAIN s => "run" \in DOMAIN r /\ r.run = s.run

LEMMA KeepsRunLists ==
  ASSUME NEW s, NEW t, NEW h
  PROVE  /\ KeepsRun(s, LOS_ListDelete(s, t)) /\ KeepsRun(s, LOS_ListTailInsert(s, h, t))
         /\ KeepsRun(s, LOS_ListAdd(s, h, t))
         /\ KeepsRun(s, Enqueue(s, t)) /\ KeepsRun(s, Dequeue(s, t))
<1>1. KeepsRun(s, LOS_ListDelete(s, t))
  BY DEF KeepsRun, LOS_ListDelete
<1>2. KeepsRun(s, LOS_ListTailInsert(s, h, t)) /\ KeepsRun(s, LOS_ListAdd(s, h, t))
  BY DEF KeepsRun, LOS_ListTailInsert, LOS_ListAdd
<1>3. KeepsRun(s, Enqueue(s, t))
  BY DEF KeepsRun, Enqueue, LOS_ListTailInsert
<1>4. KeepsRun(s, Dequeue(s, t))
  BY DEF KeepsRun, Dequeue, LOS_ListDelete
<1> QED BY <1>1, <1>2, <1>3, <1>4

LEMMA KeepsRunSchedule ==
  ASSUME NEW s
  PROVE  KeepsRun(s, LOS_Schedule(s)) /\ KeepsRun(s, Reschedule(s))
<1>1. KeepsRun(s, LOS_Schedule(s))
  BY DEF KeepsRun, LOS_Schedule
<1>2. KeepsRun(s, [s EXCEPT !.resched = @ \cup {s.run}])
  BY DEF KeepsRun
<1> QED BY <1>1, <1>2 DEF Reschedule

LEMMA KeepsRunTrans ==
  ASSUME NEW s, NEW r, NEW q, KeepsRun(s, r), KeepsRun(r, q)
  PROVE  KeepsRun(s, q)
BY DEF KeepsRun

LEMMA KeepsRunTasks ==
  ASSUME NEW s, NEW t, NEW p
  PROVE  /\ KeepsRun(s, osTaskPriModify(s, t, p)) /\ KeepsRun(s, Yield(s))
         /\ KeepsRun(s, osTimesliceCheck(s)) /\ KeepsRun(s, NextSlot(s))
         /\ KeepsRun(s, TimerExpire(s, t)) /\ KeepsRun(s, RecycleTcbs(s))
         /\ KeepsRun(s, InitTcb(s, p)) /\ KeepsRun(s, Unpend(s, t))
<1>1. KeepsRun(s, osTaskPriModify(s, t, p))
  <2> DEFINE a == Dequeue(s, t)
             b == [a EXCEPT !.prio[t] = p]
             c == [s EXCEPT !.prio[t] = p]
  <2>1. KeepsRun(s, a) /\ KeepsRun(a, b) /\ KeepsRun(b, Enqueue(b, t)) /\ KeepsRun(s, c)
    BY KeepsRunLists DEF KeepsRun
  <2>2. KeepsRun(s, Enqueue(b, t))
    BY <2>1 DEF KeepsRun
  <2> QED BY <2>1, <2>2 DEF osTaskPriModify
<1>2. \A z : KeepsRun(z, Yield(z))
  <2> SUFFICES ASSUME NEW z PROVE KeepsRun(z, Yield(z))
    OBVIOUS
  <2> DEFINE a == LOS_ListDelete(z, z.run)
             b == Enqueue(a, z.run)
  <2>1. KeepsRun(z, a) /\ KeepsRun(a, b) /\ KeepsRun(b, Reschedule(b)) /\ KeepsRun(z, z)
    BY KeepsRunLists, KeepsRunSchedule DEF KeepsRun
  <2>2. KeepsRun(z, Reschedule(b))
    BY <2>1 DEF KeepsRun
  <2> QED BY <2>1, <2>2 DEF Yield
<1>3. KeepsRun(s, osTimesliceCheck(s))
  <2> DEFINE left == IF s.sliceTask # s.run \/ s.sliceLeft = 0 THEN TimeSlice - 1
                     ELSE s.sliceLeft - 1
             z == [s EXCEPT !.sliceTask = Dummy, !.sliceLeft = 0]
             k == [s EXCEPT !.sliceTask = s.run, !.sliceLeft = left]
  <2>1. KeepsRun(s, z) /\ KeepsRun(s, k)
    BY DEF KeepsRun
  <2>2. osTimesliceCheck(s) = IF left = 0 THEN Yield(z) ELSE k
    BY DEF osTimesliceCheck
  <2> HIDE DEF left, z, k
  <2>3. KeepsRun(s, Yield(z))
    BY <1>2, <2>1, KeepsRunTrans
  <2> QED BY <2>1, <2>2, <2>3
<1>4. KeepsRun(s, NextSlot(s)) /\ KeepsRun(s, RecycleTcbs(s)) /\ KeepsRun(s, InitTcb(s, p))
  BY DEF KeepsRun, NextSlot, RecycleTcbs, InitTcb
<1>5. KeepsRun(s, TimerExpire(s, t))
  <2> DEFINE e == [s EXCEPT !.timer[t] = 0, !.due = @ \ {t}]
             w == IF s.status[t] \cap {"PEND", "PEND_QUEUE"} # {} THEN LOS_ListDelete(e, t) ELSE e
             c == [w EXCEPT !.status[t] = @ \ (IF "PEND" \in @ THEN {"PEND"}
                                               ELSE IF "PEND_QUEUE" \in @ THEN {"PEND_QUEUE"}
                                               ELSE {"DELAY"})]
             d == Enqueue(c, t)
             r == [d EXCEPT !.needSchedule = TRUE]
  <2>1. TimerExpire(s, t) = IF "SUSPEND" \in s.status[t] THEN c ELSE r
    BY DEF TimerExpire
  <2>2. KeepsRun(s, e)
    BY DEF KeepsRun
  <2> HIDE DEF e
  <2>3. KeepsRun(e, w)
    BY KeepsRunLists DEF KeepsRun
  <2> HIDE DEF w
  <2>4. KeepsRun(w, c)
    BY DEF KeepsRun
  <2> HIDE DEF c
  <2>5. KeepsRun(c, d)
    BY KeepsRunLists
  <2> HIDE DEF d
  <2>6. KeepsRun(d, r)
    BY DEF KeepsRun
  <2> HIDE DEF r
  <2>7. KeepsRun(s, c) /\ KeepsRun(s, r)
    BY <2>2, <2>3, <2>4, <2>5, <2>6 DEF KeepsRun
  <2> QED BY <2>1, <2>7
<1>6. KeepsRun(s, Unpend(s, t))
  BY KeepsRunLists DEF Unpend, KeepsRun
<1> QED BY <1>1, <1>2, <1>3, <1>4, <1>5, <1>6

LEMMA KeepsRunCalls ==
  ASSUME Inv(os), Call, os.lock > 0
  PROVE  os'.run = os.run \/ os'.lock = 0
<1>1. os \in KernelState /\ "run" \in DOMAIN os /\ os.lock # 0
  BY DEF Inv, Core, Consistent, KernelState
<1> SUFFICES ASSUME ~osTaskEntryReturn PROVE KeepsRun(os, os')
  <2>1. CASE osTaskEntryReturn
    <3> DEFINE s == [os EXCEPT !.lock = 0]
               t == os.run
               u == Unpend(s, t)
    <3>1. /\ t \in Task \ {Idle} /\ "READY" \in os.status[t] /\ os.scheduled
          /\ "UNUSED" \notin os.status[t]
      BY <2>1, CallerReady DEF osTaskEntryReturn, Inv
    <3>2. os.status[t] \cap Waits = {}
      BY <3>1 DEF Inv, Core, Quiet
    <3>3. 0 \in 0 .. MaxLock /\ s.run = os.run /\ s.status = os.status
      BY <1>1, BoundAssumption DEF KernelState
    <3>4. os' = RetireRunning(u, t)
      BY <2>1, <3>2, <3>3 DEF osTaskEntryReturn, Waits
    <3>5. Consistent(s) /\ s.lock = 0
      <4> HIDE DEF s
      <4> QED BY <3>3, UnlockedFacts DEF s, Inv
    <3> HIDE DEF s
    <3>6. /\ u \in KernelState /\ WellLinked(u) /\ SameControl(s, u) /\ SameBut(s, u, t)
          /\ On(u, t) = {} /\ u.status[t] = s.status[t] \ {"READY"}
          /\ u.timer = s.timer /\ u.due = s.due
      BY <3>1, <3>3, <3>5, UnpendFacts
    <3> HIDE DEF u
    <3>7. u.timer[t] = 0 /\ t \notin u.due
      <4>1. TaskAgrees(s, t) /\ s.timer[t] \in 0 .. MaxTicks
        BY <3>1, <3>5 DEF Consistent, KernelState
      <4> QED BY <3>1, <3>2, <3>3, <3>6, <4>1, BoundAssumption DEF TaskAgrees, Blocked, Waits
    <3>8. os'.lock = u.lock
      BY <3>1, <3>4, <3>5, <3>6, <3>7, RetireFacts
    <3> QED BY <3>5, <3>6, <3>8 DEF SameControl
  <2>2. CASE ~osTaskEntryReturn
    BY <1>1, <2>2 DEF KeepsRun
  <2> QED BY <2>1, <2>2
<1>2. CASE LOS_TaskCreateOnly
  BY <1>2, KeepsRunTasks DEF LOS_TaskCreateOnly, KeepsRun
<1>3. CASE LOS_TaskCreate
  <2> DEFINE s == RecycleTcbs(os)
             t == Head(s.list[FreeTask])
             b(p) == [InitTcb(s, p) EXCEPT !.status[t] = {}]
             c(p) == Enqueue(b(p), t)
  <2>1. PICK p, n, e : os' = [c(p) EXCEPT !.new = n, !.pendSV = e]
    BY <1>3 DEF LOS_TaskCreate
  <2>2. KeepsRun(os, s) /\ KeepsRun(s, InitTcb(s, p)) /\ KeepsRun(b(p), c(p))
    BY KeepsRunTasks, KeepsRunLists
  <2>3. KeepsRun(InitTcb(s, p), b(p)) /\ KeepsRun(c(p), os')
    BY <2>1 DEF KeepsRun
  <2> HIDE DEF s, b, c
  <2> QED BY <2>2, <2>3 DEF KeepsRun
<1>4. CASE \E t \in Task : LOS_TaskResume(t)
  <2> PICK t \in Task : LOS_TaskResume(t)
    BY <1>4
  <2> DEFINE s == [os EXCEPT !.status[t] = @ \ {"SUSPEND"}]
             e == Enqueue(s, t)
             r == [e EXCEPT !.new = osPriqueueTop(e)]
  <2>1. os' = s \/ os' = Reschedule(e) \/ os' = r
    BY DEF LOS_TaskResume
  <2>2. KeepsRun(os, s) /\ KeepsRun(s, e) /\ KeepsRun(e, Reschedule(e)) /\ KeepsRun(e, r)
    BY KeepsRunLists, KeepsRunSchedule DEF KeepsRun
  <2> HIDE DEF s, e, r
  <2> QED BY <2>1, <2>2 DEF KeepsRun
<1>5. CASE \E t \in Task : LOS_TaskSuspend(t)
  <2> PICK t \in Task : LOS_TaskSuspend(t)
    BY <1>5
  <2> DEFINE d == IF "READY" \in os.status[t] THEN Dequeue(os, t) ELSE os
             s == [d EXCEPT !.status[t] = @ \cup {"SUSPEND"}]
  <2>1. os' = s \/ os' = Reschedule(s)
    BY DEF LOS_TaskSuspend
  <2>2. KeepsRun(os, d)
    BY KeepsRunLists DEF KeepsRun
  <2> HIDE DEF d
  <2>3. KeepsRun(d, s) /\ KeepsRun(s, Reschedule(s))
    BY KeepsRunSchedule DEF KeepsRun
  <2> HIDE DEF s
  <2> QED BY <2>1, <2>2, <2>3 DEF KeepsRun
<1>6. CASE \E t \in Task : LOS_TaskDelete(t)
  <2> PICK t \in Task : LOS_TaskDelete(t)
    BY <1>6
  <2>1. /\ t \in Task \ {Idle} /\ "UNUSED" \notin os.status[t]
        /\ "RUNNING" \notin os.status[t] /\ os' = DeleteTask(os, t) /\ Consistent(os)
    BY <1>1, TcbAssumption DEF LOS_TaskDelete, CHECK_TASKID, Inv, Core
  <2>2. os'.run = os.run
    BY <2>1, DeleteTaskFacts
  <2>3. os' \in KernelState
    BY <2>1, DeleteTaskFacts DEF Consistent
  <2> QED BY <2>2, <2>3 DEF KeepsRun, KernelState
<1>7. CASE \E t \in Task, p \in PriSetArg : LOS_TaskPriSet(t, p)
  <2> PICK t \in Task, p \in PriSetArg : LOS_TaskPriSet(t, p)
    BY <1>7
  <2> DEFINE s == osTaskPriModify(os, t, p)
  <2>1. os' = s \/ os' = Reschedule(s)
    BY DEF LOS_TaskPriSet
  <2>2. KeepsRun(os, s) /\ KeepsRun(s, Reschedule(s))
    BY KeepsRunTasks, KeepsRunSchedule
  <2> HIDE DEF s
  <2> QED BY <2>1, <2>2 DEF KeepsRun
<1>8. CASE \E n \in Ticks : LOS_TaskDelay(n)
  BY <1>1, <1>8 DEF LOS_TaskDelay
<1>9. CASE LOS_TaskYield
  BY <1>9, KeepsRunTasks DEF LOS_TaskYield
<1>10. CASE LOS_TaskLock
  BY <1>10 DEF LOS_TaskLock, KeepsRun
<1>11. CASE LOS_TaskUnlock
  <2> DEFINE s == [os EXCEPT !.lock = @ - 1]
  <2>1. os' = s \/ os' = Reschedule(s)
    BY <1>11 DEF LOS_TaskUnlock
  <2>2. KeepsRun(os, s) /\ KeepsRun(s, Reschedule(s))
    BY KeepsRunSchedule DEF KeepsRun
  <2> HIDE DEF s
  <2> QED BY <2>1, <2>2 DEF KeepsRun
<1> QED BY <1>2, <1>3, <1>4, <1>5, <1>6, <1>7, <1>8, <1>9, <1>10, <1>11 DEF Call

LEMMA KeepsRunExceptions ==
  ASSUME Inv(os), Exception, os.scheduled, os.lock > 0
  PROVE  os'.run = os.run
<1>1. /\ os \in KernelState /\ "run" \in DOMAIN os /\ ~os.pendSV
  BY DEF Inv, Core, Consistent, KernelState, Control
<1> SUFFICES KeepsRun(os, os')
  BY <1>1 DEF KeepsRun
<1>2. CASE LOS_StartToRun
  BY <1>2 DEF LOS_StartToRun, BootContext
<1>3. CASE TaskReschedule
  <2> DEFINE m == [os EXCEPT !.resched = @ \ {os.run}]
  <2>1. KeepsRun(os, m) /\ KeepsRun(m, LOS_Schedule(m)) /\ os' = LOS_Schedule(m)
    BY <1>3, KeepsRunSchedule DEF KeepsRun, TaskReschedule
  <2> HIDE DEF m
  <2> QED BY <2>1 DEF KeepsRun
<1>4. CASE osPendSV
  BY <1>1, <1>4 DEF osPendSV
<1>5. CASE osInterruptEnter \/ osInterruptExit
  BY <1>5 DEF osInterruptEnter, osInterruptExit, KeepsRun
<1>6. CASE osTickHandler
  <2> DEFINE s == [os EXCEPT !.scan = TRUE, !.needSchedule = FALSE]
             c == osTimesliceCheck(s)
  <2>1. KeepsRun(os, s) /\ KeepsRun(s, c) /\ KeepsRun(c, NextSlot(c)) /\ os' = NextSlot(c)
    BY <1>6, KeepsRunTasks DEF KeepsRun, osTickHandler
  <2> HIDE DEF s, c
  <2> QED BY <2>1 DEF KeepsRun
<1>7. CASE \E t \in Task : osTaskScanNext(t)
  BY <1>7, KeepsRunTasks DEF osTaskScanNext
<1>8. CASE osTaskScanEnd
  <2> DEFINE s == [os EXCEPT !.scan = FALSE, !.needSchedule = FALSE]
  <2>1. os' = s \/ os' = LOS_Schedule(s)
    BY <1>8 DEF osTaskScanEnd
  <2>2. KeepsRun(os, s) /\ KeepsRun(s, LOS_Schedule(s))
    BY KeepsRunSchedule DEF KeepsRun
  <2> HIDE DEF s
  <2> QED BY <2>1, <2>2 DEF KeepsRun
<1> QED BY <1>2, <1>3, <1>4, <1>5, <1>6, <1>7, <1>8 DEF Exception

----------------------------------------------------------------------------
\* The results, for any number of tasks, any priorities, any delays and any nesting of the
\* task lock, as long as no interrupt handler suspends a task (with one that does, a pending
\* switch may go to a task that is suspended).

\* The invariant of the scheduler holds in every reachable state: the induction behind the
\* theorems below.
THEOREM Invariance ==
  ASSUME ~IsrSuspends
  PROVE  Spec => []Inv(os)
<1>1. Init => Inv(os)
  BY InitInv
<1>2. Inv(os) /\ [Next]_os => Inv(os)'
  BY NextInv
<1> QED BY <1>1, <1>2, PTL DEF Spec

\* Every field of the kernel state keeps its type and its bounds.
THEOREM TypeCorrect ==
  ASSUME ~IsrSuspends
  PROVE  Spec => []TypeOK
<1>1. Inv(os) => TypeOK
  BY DEF Inv, Core, Consistent, TypeOK
<1> QED BY <1>1, Invariance, PTL

\* Every task control block is on exactly the lists its status says, whatever calls,
\* expiries and interrupts interleave.
THEOREM ListsAlwaysAgree ==
  ASSUME ~IsrSuspends
  PROVE  Spec => []ListsAgree
<1>1. Inv(os) => ListsAgree
  BY ConsistentLists DEF Inv, Core, ListsAgree
<1> QED BY <1>1, Invariance, PTL

\* No list operation follows a NULL link.
THEOREM ListsNeverWild ==
  ASSUME ~IsrSuspends
  PROVE  Spec => []NoWildList
<1>1. Inv(os) => NoWildList
  BY DEF Inv, Core, Quiet, NoWildList
<1> QED BY <1>1, Invariance, PTL

\* With no switch pending, the scheduler unlocked and no call on its way to reschedule, the
\* first ready task of the highest priority runs: no operation forgets to reschedule.
THEOREM HighestAlwaysRuns ==
  ASSUME ~IsrSuspends
  PROVE  Spec => []HighestReadyRuns
<1>1. Inv(os) => HighestReadyRuns
  BY DEF Inv, Highest, Settled, HighestReadyRuns
<1> QED BY <1>1, Invariance, PTL

\* A pending switch goes to the task that is first when it is taken.
THEOREM SwitchTargetAlwaysFresh ==
  ASSUME ~IsrSuspends
  PROVE  Spec => []SwitchTargetFresh
<1>1. Inv(os) => SwitchTargetFresh
  BY DEF Inv, Core, Current, SwitchTargetFresh
<1> QED BY <1>1, Invariance, PTL

\* While a task holds the task lock the CPU stays with it: no call, tick, interrupt or
\* pending switch takes it away, only the end of the task itself, which drops the lock.
THEOREM LockKeepsCpu ==
  ASSUME ~IsrSuspends
  PROVE  Spec => NoSwitchWhileLocked
<1> DEFINE A == os.scheduled /\ os.lock > 0 => os'.run = os.run \/ os'.lock = 0
<1>1. Inv(os) /\ [Next]_os => [A]_os
  BY KeepsRunCalls, KeepsRunExceptions DEF Next
<1> QED BY <1>1, Invariance, PTL DEF Spec, NoSwitchWhileLocked

----------------------------------------------------------------------------
\* The kernel under the blocking services: osTaskWait, osTaskWake and the steps of
\* the kernel itself.

\* The running task moves from its ready list to the wait list h.
LEMMA WaitFacts ==
  ASSUME NEW s, Consistent(s), NEW t \in Task \ {Idle}, t = s.run,
         "READY" \in s.status[t], "TIMEOUT" \notin s.status[t],
         NEW h \in WaitList, NEW flag \in {"PEND", "PEND_QUEUE"},
         NEW timeout \in Ticks \cup {LOS_WAIT_FOREVER}
  PROVE  LET r == osTaskWait(s, h, flag, timeout)
         IN  /\ Consistent(r) /\ Alike(s, r) /\ SameBut(s, r, t) /\ On(r, t) = {h}
             /\ r.status[t] \ {"READY", flag, "TIMEOUT"} = s.status[t] \ {"READY"}
<1> DEFINE d == Dequeue(s, t)
           w == LOS_ListTailInsert(d, h, t)
           fs == IF timeout = LOS_WAIT_FOREVER THEN {flag} ELSE {flag, "TIMEOUT"}
           tm == IF timeout = LOS_WAIT_FOREVER THEN s.timer ELSE [s.timer EXCEPT ![t] = timeout]
           r == osTaskWait(s, h, flag, timeout)
<1>1. /\ s \in KernelState /\ WellLinked(s) /\ TaskAgrees(s, t) /\ s.prio[t] \in Prio
      /\ s.status \in [Tcb -> SUBSET Flag] /\ s.wild \in BOOLEAN
      /\ s.timer \in [Task -> 0 .. MaxTicks] /\ t \in Tcb /\ t # Dummy
  BY DummyTask DEF Consistent, KernelState
<1>2. s.status[t] \cap (Blocked \cup {"UNUSED"}) = {} /\ On(s, t) # {}
  BY <1>1 DEF TaskAgrees
<1>3. s.timer[t] = 0 /\ t \notin s.due
  <2>1. s.timer[t] = 0
    BY <1>1, <1>2, BoundAssumption DEF TaskAgrees, Blocked
  <2> QED BY <1>1, <2>1 DEF TaskAgrees
<1>4. /\ d \in KernelState /\ WellLinked(d) /\ SameControl(s, d) /\ SameBut(s, d, t)
      /\ On(d, t) = {} /\ d.status = [s.status EXCEPT ![t] = @ \ {"READY"}]
      /\ d.prio = s.prio /\ d.timer = s.timer /\ d.due = s.due /\ d.wild = s.wild
  BY <1>1, <1>2, DequeueFacts
<1> HIDE DEF d
<1>5. h \in Heads /\ h \notin Prio /\ h \notin {FreeTask, RecycleList}
  BY HeadsFacts, HeadAssumption
<1>6. /\ w \in KernelState /\ WellLinked(w) /\ SameData(d, w) /\ SameBut(d, w, t)
      /\ On(w, t) = {h} /\ w.wild = d.wild
  BY <1>4, <1>5, InsertFacts
<1> USE DEF d
<1>7. r = IF timeout = LOS_WAIT_FOREVER
          THEN [w EXCEPT !.status[t] = @ \cup {flag}]
          ELSE [w EXCEPT !.status[t] = @ \cup {flag, "TIMEOUT"}, !.timer[t] = timeout]
  BY DEF osTaskWait
<1> HIDE DEF d, w, r
<1>8. /\ r.list = w.list /\ r.prio = w.prio /\ r.due = w.due /\ r.wild = w.wild
      /\ r.timer = tm /\ r.status = [w.status EXCEPT ![t] = @ \cup fs] /\ SameControl(w, r)
      /\ r = [w EXCEPT !.timer = r.timer, !.status = r.status]
  <2>1. CASE timeout = LOS_WAIT_FOREVER
    BY <1>4, <1>6, <1>7, <2>1 DEF KernelState, SameControl, SameData
  <2>2. CASE timeout # LOS_WAIT_FOREVER
    BY <1>4, <1>6, <1>7, <2>2 DEF KernelState, SameControl, SameData
  <2> QED BY <2>1, <2>2
<1>9. /\ tm \in [Task -> 0 .. MaxTicks] /\ \A u \in Task \ {t} : tm[u] = s.timer[u]
      /\ tm[t] > 0 <=> "TIMEOUT" \in fs
  <2>1. timeout # LOS_WAIT_FOREVER => timeout \in 0 .. MaxTicks /\ timeout > 0
    BY BoundAssumption DEF Ticks
  <2> QED BY <1>1, <1>3, <2>1
<1>10. fs \subseteq Flag /\ flag \in fs /\ fs \subseteq {flag, "TIMEOUT"}
  BY DEF Flag
<1> HIDE DEF tm, fs
<1>11. /\ r.status \in [Tcb -> SUBSET Flag]
       /\ r.status[t] = (s.status[t] \ {"READY"}) \cup fs
       /\ \A u \in Tcb \ {t} : r.status[u] = s.status[u]
  <2>1. w.status = [s.status EXCEPT ![t] = @ \ {"READY"}]
    BY <1>4, <1>6 DEF SameData
  <2> QED BY <1>1, <1>8, <1>10, <2>1
<1>12. r \in KernelState
  BY <1>6, <1>8, <1>9, <1>11 DEF KernelState
<1>13. WellLinked(r) /\ \A u : On(r, u) = On(w, u)
  BY <1>6, <1>8 DEF WellLinked, On
<1>14. SameBut(s, r, t)
  BY <1>1, <1>4, <1>6, <1>8, <1>9, <1>11, <1>13, DummyTask DEF SameBut, SameData
<1>15. TaskAgrees(r, t)
  <2>1. On(r, t) = {h} /\ t \notin r.due /\ r.timer = tm
    BY <1>3, <1>4, <1>6, <1>8, <1>13 DEF SameData
  <2>2. fs \cap {"PEND", "PEND_QUEUE"} = {flag}
    BY <1>10
  <2>3. \A p \in Prio : p \notin On(r, t)
    BY <1>5, <2>1
  <2>4. /\ "READY" \notin r.status[t] /\ "UNUSED" \notin r.status[t]
        /\ "DELAY" \notin r.status[t]
        /\ r.status[t] \cap {"PEND", "PEND_QUEUE"} = {flag}
        /\ "TIMEOUT" \in r.status[t] <=> "TIMEOUT" \in fs
    BY <1>2, <1>10, <1>11, <2>2 DEF Blocked
  <2> QED BY <1>5, <1>9, <2>1, <2>3, <2>4 DEF TaskAgrees
<1>16. Consistent(r)
  BY <1>12, <1>13, <1>14, <1>15, ConsistentStep
<1>17. Alike(s, r)
  BY <1>4, <1>6, <1>8 DEF SameData, SameControl, Alike
<1>18. r.status[t] \ {"READY", flag, "TIMEOUT"} = s.status[t] \ {"READY"}
  BY <1>2, <1>10, <1>11 DEF Blocked
<1> QED BY <1>6, <1>13, <1>14, <1>16, <1>17, <1>18 DEF r

\* A task blocks in a pend function.
LEMMA BlockStep ==
  ASSUME Core(os), TaskContext, os.lock = 0, "TIMEOUT" \notin os.status[os.run],
         NEW h \in WaitList, NEW flag \in {"PEND", "PEND_QUEUE"},
         NEW timeout \in Ticks \cup {LOS_WAIT_FOREVER}, NEW c, Block(h, flag, timeout, c)
  PROVE  /\ Core(os') /\ Highest(os') /\ os.run \in Task \ {Idle}
         /\ \A u \in Task : On(os', u) = IF u = os.run THEN {h} ELSE On(os, u)
         /\ \A u \in Task \ {os.run} : os'.status[u] = os.status[u]
         /\ os'.status[os.run] \subseteq os.status[os.run] \cup {flag, "TIMEOUT"}
<1> DEFINE t == os.run
           m == osTaskWait(os, h, flag, timeout)
<1>1. /\ t \in Task \ {Idle} /\ "READY" \in os.status[t]
      /\ os.scheduled /\ ~os.pendSV /\ ~os.irq /\ ~os.scan /\ Consistent(os)
  BY CallerReady DEF Core
<1>2. os' = Reschedule(m)
  BY DEF Block
<1>3. /\ Consistent(m) /\ Alike(os, m) /\ SameBut(os, m, t) /\ On(m, t) = {h}
      /\ m.status[t] \ {"READY", flag, "TIMEOUT"} = os.status[t] \ {"READY"}
  <2>1. t = os.run /\ "TIMEOUT" \notin os.status[t] /\ m = osTaskWait(os, h, flag, timeout)
    OBVIOUS
  <2> HIDE DEF t, m
  <2> QED BY <1>1, <2>1, WaitFacts, SMTT(60)
<1> HIDE DEF m
<1>4. StaysOn(os, m)
  <2>1. \A u \in Task : "RUNNING" \in m.status[u] <=> "RUNNING" \in os.status[u]
    BY <1>3 DEF SameBut
  <2> QED BY <2>1, BoundAssumption DEF StaysOn
<1>5. Core(os') /\ Highest(os') /\ os'.list = m.list /\ os'.status = m.status
  BY <1>1, <1>2, <1>3, <1>4, CallCore
<1>6. \A u \in Task : On(os', u) = IF u = t THEN {h} ELSE On(os, u)
  <2>1. \A u : On(os', u) = On(m, u)
    BY <1>5 DEF On
  <2> QED BY <1>3, <2>1 DEF SameBut
<1>7. /\ \A u \in Task \ {t} : os'.status[u] = os.status[u]
      /\ os'.status[t] \subseteq os.status[t] \cup {flag, "TIMEOUT"}
  BY <1>1, <1>3, <1>5 DEF SameBut
<1> QED BY <1>1, <1>5, <1>6, <1>7

\* A waiting task leaves its list, and becomes ready unless it is suspended as well.
LEMMA WakeFacts ==
  ASSUME NEW s, Consistent(s), NEW t \in Task, NEW flag \in {"PEND", "PEND_QUEUE"},
         flag \in s.status[t]
  PROVE  LET r == osTaskWake(s, t, flag)
         IN  /\ Consistent(r) /\ Alike(s, r) /\ SameBut(s, r, t) /\ Drains(s, r)
             /\ r.status[t] \ {"READY"} = s.status[t] \ {flag, "TIMEOUT"}
             /\ On(r, t) \cap WaitList = {}
<1> DEFINE f == s.status[t] \ {flag, "TIMEOUT"}
           a == [s EXCEPT !.status[t] = f]
           w == LOS_ListDelete(a, t)
           c == IF "TIMEOUT" \in s.status[t] THEN osTimerListDelete(w, t) ELSE w
           e == Enqueue(c, t)
           r == osTaskWake(s, t, flag)
<1>1. /\ s \in KernelState /\ WellLinked(s) /\ TaskAgrees(s, t) /\ t # Idle
      /\ s.wild \in BOOLEAN /\ f \subseteq Flag /\ s.timer[t] \in Nat
      /\ a = [s EXCEPT !.status[t] = @ \ {flag, "TIMEOUT"}]
  <2>1. t # Idle
    BY DEF Consistent, IdleStays
  <2>2. s.status[t] \subseteq Flag /\ s.timer[t] \in 0 .. MaxTicks
    BY DummyTask DEF Consistent, KernelState
  <2> QED BY <2>1, <2>2, BoundAssumption DEF Consistent, KernelState
<1>2. /\ s.status[t] \cap ({"READY", "UNUSED", "DELAY", "PEND", "PEND_QUEUE"} \ {flag}) = {}
      /\ On(s, t) # {}
      /\ s.timer[t] > 0 <=> "TIMEOUT" \in s.status[t]
  BY <1>1 DEF TaskAgrees, Blocked
<1>3. r = IF "SUSPEND" \in s.status[t] THEN c ELSE e
  BY <1>1 DEF osTaskWake
<1> HIDE DEF r
<1>4. /\ a \in KernelState /\ WellLinked(a) /\ SameControl(s, a) /\ SameBut(s, a, t)
      /\ a.prio = s.prio /\ a.timer = s.timer /\ a.due = s.due /\ a.wild = s.wild
      /\ On(a, t) = On(s, t) /\ a.status[t] = f
  <2> HIDE DEF f
  <2>1. /\ a \in KernelState /\ WellLinked(a) /\ SameControl(s, a) /\ SameBut(s, a, t)
        /\ a.prio = s.prio /\ a.timer = s.timer /\ a.due = s.due /\ a.wild = s.wild
        /\ On(a, t) = On(s, t)
    BY <1>1, StatusFacts
  <2>2. a.status[t] = f
    BY <1>1, DummyTask DEF KernelState
  <2> QED BY <2>1, <2>2
<1> HIDE DEF a, f
<1>5. /\ w \in KernelState /\ WellLinked(w) /\ SameData(a, w) /\ SameBut(a, w, t)
      /\ On(w, t) = {} /\ w.wild = s.wild
  BY <1>1, <1>2, <1>4, ListDeleteFacts
<1> HIDE DEF w
<1>6. /\ c \in KernelState /\ WellLinked(c) /\ SameControl(w, c) /\ SameBut(w, c, t)
      /\ On(c, t) = {} /\ c.wild = s.wild /\ c.timer[t] = 0 /\ t \notin c.due
      /\ c.status = w.status
  <2>1. w.timer = s.timer /\ w.due = s.due
    BY <1>4, <1>5 DEF SameData
  <2>2. CASE "TIMEOUT" \in s.status[t]
    <3>1. c = osTimerListDelete(w, t)
      BY <2>2
    <3> HIDE DEF c
    <3>2. /\ c \in KernelState /\ SameControl(w, c) /\ SameBut(w, c, t)
          /\ c.list = w.list /\ c.status = w.status
          /\ c.timer[t] = 0 /\ t \notin c.due
          /\ c.wild = (w.wild \/ w.timer[t] = 0) /\ \A h : On(c, h) = On(w, h)
      BY <1>5, <3>1, TimerListDeleteFacts
    <3>3. c.wild = s.wild
      BY <1>1, <1>2, <1>5, <2>1, <2>2, <3>2
    <3>4. WellLinked(c)
      BY <1>5, <3>2 DEF WellLinked
    <3> QED BY <1>5, <3>2, <3>3, <3>4
  <2>3. CASE "TIMEOUT" \notin s.status[t]
    <3>1. c = w
      BY <2>3
    <3>2. s.timer[t] = 0 /\ t \notin s.due
      BY <1>1, <1>2, <2>3 DEF TaskAgrees
    <3> QED BY <1>5, <2>1, <3>1, <3>2 DEF SameControl, SameBut
  <2> QED BY <2>2, <2>3
<1> HIDE DEF c
<1>7. c.status[t] = f /\ f = s.status[t] \ {flag, "TIMEOUT"}
  BY <1>4, <1>5, <1>6 DEF SameData, f
<1>8. SameBut(s, c, t)
  BY <1>4, <1>5, <1>6, SameButTrans
<1>9. Alike(s, c)
  BY <1>4, <1>5, <1>6 DEF SameControl, SameData, Alike
<1>10. CASE "SUSPEND" \in s.status[t]
  <2>1. TaskAgrees(c, t)
    BY <1>2, <1>6, <1>7 DEF TaskAgrees
  <2>2. Consistent(c)
    BY <1>1, <1>6, <1>8, <2>1, ConsistentStep
  <2>3. Drains(s, c)
    BY <1>6, <1>8, DrainsBut
  <2>4. c.status[t] \ {"READY"} = s.status[t] \ {flag, "TIMEOUT"}
    BY <1>2, <1>7
  <2> QED BY <1>3, <1>6, <1>8, <1>9, <1>10, <2>2, <2>3, <2>4 DEF r
<1>11. CASE "SUSPEND" \notin s.status[t]
  <2>1. c.status[t] \cap (Blocked \cup {"UNUSED"}) = {}
    BY <1>2, <1>7, <1>11 DEF Blocked
  <2>2. Consistent(e) /\ SameControl(c, e) /\ e.wild = c.wild
    BY <1>1, <1>6, <1>8, <2>1, ReadyAgain
  <2>3. /\ e \in KernelState /\ SameBut(c, e, t) /\ On(e, t) = {c.prio[t]}
        /\ e.status = [c.status EXCEPT ![t] = @ \cup {"READY"}]
    BY <1>6, EnqueueFacts
  <2> HIDE DEF e
  <2>4. c.prio[t] \in Prio /\ e.status[t] = c.status[t] \cup {"READY"}
    BY <1>6, <2>3, DummyTask DEF KernelState
  <2>5. SameBut(s, e, t)
    BY <1>8, <2>3, SameButTrans
  <2>6. On(e, t) \cap WaitList = {}
    BY <2>3, <2>4, HeadAssumption
  <2>7. Drains(s, e)
    BY <2>3, <2>5, <2>6, DrainsBut
  <2>8. e.status[t] \ {"READY"} = s.status[t] \ {flag, "TIMEOUT"}
    BY <1>2, <1>7, <2>4
  <2>9. Alike(s, e)
    BY <1>6, <1>9, <2>2 DEF SameControl, Alike
  <2> QED BY <1>3, <1>11, <2>2, <2>5, <2>6, <2>7, <2>8, <2>9 DEF r
<1> QED BY <1>10, <1>11

\* A service wakes a waiting task and reschedules.
LEMMA WakeStep ==
  ASSUME Core(os), TaskContext \/ IrqContext,
         NEW t \in Task, NEW flag \in {"PEND", "PEND_QUEUE"}, flag \in os.status[t],
         os' = Reschedule(osTaskWake(os, t, flag))
  PROVE  /\ Steady(os, os')
         /\ \A u \in Task : On(os', u) \cap WaitList = IF u = t THEN {} ELSE On(os, u) \cap WaitList
         /\ \A u \in Task \ {t} : os'.status[u] = os.status[u]
         /\ os'.status[t] \ {"READY"} = os.status[t] \ {flag, "TIMEOUT"}
<1> DEFINE m == osTaskWake(os, t, flag)
<1>1. Consistent(os) /\ os.scheduled
  BY DEF Core, Control, TaskContext, ThreadMode, IrqContext
<1>2. /\ Consistent(m) /\ Alike(os, m) /\ SameBut(os, m, t) /\ Drains(os, m)
      /\ m.status[t] \ {"READY"} = os.status[t] \ {flag, "TIMEOUT"}
      /\ On(m, t) \cap WaitList = {}
  BY <1>1, WakeFacts
<1>3. os' = Reschedule(m)
  OBVIOUS
<1> HIDE DEF m
<1>4. Kept(os, m)
  <2>1. \A u \in Task : /\ "RUNNING" \in m.status[u] <=> "RUNNING" \in os.status[u]
                        /\ m.status[u] \cap Waits \subseteq os.status[u]
    BY <1>2 DEF SameBut, Waits
  <2>2. os.lock > 0 => "READY" \in m.status[os.run]
    <3> SUFFICES ASSUME os.lock > 0 PROVE "READY" \in m.status[os.run]
      OBVIOUS
    <3>1. "READY" \in os.status[os.run]
      BY <1>1 DEF Core, Control
    <3>2. os.run \in Task
      BY <1>1, <3>1 DEF Consistent, KernelState, IdleStays, Tcb
    <3>3. os.run # t
      BY <1>1, <3>1, <3>2 DEF Consistent, TaskAgrees, Blocked
    <3> QED BY <1>2, <3>1, <3>2, <3>3 DEF SameBut
  <2> QED BY <1>2, <2>1, <2>2 DEF Kept, Eases
<1>5. Steady(os, os')
  <2>1. CASE os.irq
    <3>1. os' = LOS_Schedule(m)
      BY <1>2, <1>3, <2>1 DEF Reschedule, Alike
    <3>2. m.needSchedule => m.scan
      BY <1>2 DEF Alike, Core, Control
    <3>3. /\ m.run = os.run /\ m.lock = os.lock /\ m.scheduled = os.scheduled
          /\ m.pendSV = os.pendSV /\ m.wild = os.wild
      BY <1>2 DEF Alike
    <3>4. Consistent(m)
      BY <1>2
    <3>5. Steady(os, LOS_Schedule(m))
      BY <1>1, <1>4, <3>2, <3>3, <3>4, ScheduleInv, Zenon
    <3> QED BY <3>1, <3>5
  <2>2. CASE ~os.irq
    <3>1. os.run \in Task /\ ~os.pendSV /\ ~os.irq /\ ~os.scan
      BY <2>2, CallerReady DEF IrqContext
    <3> QED BY <1>1, <1>2, <1>3, <1>4, <3>1, CallInv
  <2> QED BY <2>1, <2>2
<1>6. os'.status = m.status /\ \A u \in Task : On(os', u) = On(m, u)
  <2>1. os.irq \/ os.scan \/ os.run \in Task
    BY CallerReady DEF IrqContext
  <2>2. os'.list = m.list /\ os'.status = m.status
    BY <1>2, <1>3, <2>1, RescheduleFacts DEF Alike
  <2> QED BY <2>2 DEF On
<1> QED BY <1>2, <1>5, <1>6 DEF SameBut

\* The pend function clears TIMEOUT before it returns.
LEMMA ClearTimeoutStep ==
  ASSUME Core(os), TaskContext, os' = ClearTimeout(os)
  PROVE  /\ Steady(os, os') /\ os.run \in Task \ {Idle}
         /\ \A u \in Task : On(os', u) = On(os, u)
         /\ "TIMEOUT" \notin os'.status[os.run] /\ On(os, os.run) \cap WaitList = {}
         /\ \A u \in Task \ {os.run} : os'.status[u] = os.status[u]
<1> DEFINE t == os.run
           f == os.status[t] \ {"TIMEOUT"}
           r == [os EXCEPT !.status[t] = f]
<1>1. /\ t \in Task \ {Idle} /\ "READY" \in os.status[t] /\ Consistent(os)
      /\ os \in KernelState /\ WellLinked(os) /\ TaskAgrees(os, t) /\ t \in Tcb
  BY CallerReady, DummyTask DEF Core, Consistent
<1>2. os' = r /\ f \subseteq Flag
  BY <1>1 DEF ClearTimeout, KernelState
<1>3. r.status[t] = f
  BY <1>1 DEF KernelState
<1>4. /\ r \in KernelState /\ WellLinked(r) /\ SameControl(os, r) /\ SameBut(os, r, t)
      /\ r.list = os.list /\ r.prio = os.prio /\ r.timer = os.timer /\ r.due = os.due
      /\ r.wild = os.wild /\ \A u : On(r, u) = On(os, u)
      /\ \A u \in Task \ {t} : r.status[u] = os.status[u]
  <2>1. r = [os EXCEPT !.status[t] = f]
    OBVIOUS
  <2> HIDE DEF f, r
  <2>2. r \in KernelState /\ WellLinked(r) /\ SameControl(os, r) /\ SameBut(os, r, t)
    BY <1>1, <1>2, <2>1, StatusFacts
  <2>3. /\ r.list = os.list /\ r.prio = os.prio /\ r.timer = os.timer /\ r.due = os.due
        /\ r.wild = os.wild
    BY <1>1, <1>2, <2>1, StatusFacts
  <2>4. \A u \in Task \ {t} : r.status[u] = os.status[u]
    BY <1>1, <1>2, <2>1, StatusFacts
  <2>5. \A u : On(r, u) = On(os, u)
    BY <2>3 DEF On
  <2> QED BY <2>2, <2>3, <2>4, <2>5
<1> HIDE DEF r
<1>5. os.status[t] \cap {"PEND", "PEND_QUEUE"} = {}
  BY <1>1 DEF TaskAgrees, Blocked
<1>6. TaskAgrees(r, t)
  BY <1>1, <1>3, <1>4, <1>5 DEF TaskAgrees, Blocked
<1>7. Consistent(r)
  BY <1>1, <1>4, <1>6, ConsistentStep
<1>8. Alike(os, r)
  BY <1>4 DEF SameControl, Alike
<1>9. Kept(os, r)
  <2>1. \A u \in Task : /\ "RUNNING" \in r.status[u] <=> "RUNNING" \in os.status[u]
                        /\ r.status[u] \cap Waits \subseteq os.status[u]
    BY <1>3, <1>4 DEF Waits
  <2> QED BY <1>1, <1>3, <1>4, <2>1 DEF Kept, Eases, Drains
<1>10. Steady(os, r)
  BY <1>4, <1>7, <1>8, <1>9, StillInv
<1>11. On(os, t) \cap WaitList = {}
  BY <1>1, <1>5 DEF TaskAgrees
<1> QED BY <1>1, <1>2, <1>3, <1>4, <1>10, <1>11

\* The task services and the exceptions let nobody start to wait.
LEMMA KernelStepSteady ==
  ASSUME ~IsrSuspends, Core(os), KernelStep
  PROVE  Steady(os, os') /\ call' = call
<1>1. call' = call
  BY DEF KernelStep
<1>2. CASE TaskCall
  <2>1. CASE LOS_TaskCreate
    BY <1>1, <2>1, CreateStep
  <2>2. CASE \E t \in Task : LOS_TaskResume(t)
    BY <1>1, <2>2, ResumeStep
  <2>3. CASE \E t \in Task : LOS_TaskSuspend(t)
    BY <1>1, <2>3, SuspendStep
  <2>4. CASE \E t \in Task, p \in PriSetArg : LOS_TaskPriSet(t, p)
    BY <1>1, <2>4, PriSetStep
  <2>5. CASE \E n \in Ticks : LOS_TaskDelay(n)
    BY <1>1, <2>5, DelayStep
  <2>6. CASE LOS_TaskLock
    BY <1>1, <2>6, LockStep
  <2>7. CASE LOS_TaskUnlock
    BY <1>1, <2>7, UnlockStep
  <2> QED BY <1>1, <1>2, <2>1, <2>2, <2>3, <2>4, <2>5, <2>6, <2>7 DEF TaskCall
<1>3. CASE Exception
  BY <1>1, <1>3, ExceptionSteady
<1> QED BY <1>2, <1>3 DEF KernelStep

\* A deleted task waits nowhere.
LEMMA DeleteStepSteady ==
  ASSUME Core(os), NEW t \in Task, DeleteStep(t)
  PROVE  /\ Steady(os, os') /\ os'.status[t] = {"UNUSED"}
         /\ \A u \in Task \ {t} : os'.status[u] = os.status[u]
         /\ call' = [call EXCEPT ![t] = NoCall]
<1>1. LOS_TaskDelete(t) /\ call' = [call EXCEPT ![t] = NoCall]
  BY DEF DeleteStep
<1>2. Steady(os, os')
  BY <1>1, TaskDeleteStep
<1>3. t # Idle /\ "UNUSED" \notin os.status[t] /\ os' = DeleteTask(os, t)
  BY <1>1, TcbAssumption DEF LOS_TaskDelete, CHECK_TASKID
<1>4. os'.status[t] = {"UNUSED"} /\ \A u \in Task \ {t} : os'.status[u] = os.status[u]
  BY <1>3, DeleteTaskFacts DEF Core
<1> QED BY <1>1, <1>2, <1>4

----------------------------------------------------------------------------
\* A step of the kernel ends no wait but by expiry, and then TIMEOUT tells.

\* A state that has the fields the steps below change.
Plain(s) ==
  /\ {"status", "list", "prio"} \subseteq DOMAIN s
  /\ DOMAIN s.status = Tcb /\ DOMAIN s.list = Heads /\ s.prio \in [Task -> Prio]

\* The wait lists stay as they are, what s.status says of waiting r.status says as well,
\* and no task control block becomes unused.
KeepsWaits(s, r) ==
  Plain(s) =>
    /\ Plain(r) /\ \A h \in WaitList : r.list[h] = s.list[h]
    /\ \A u \in Task : /\ s.status[u] \cap Waits \subseteq r.status[u]
                       /\ "UNUSED" \in r.status[u] => "UNUSED" \in s.status[u]

LEMMA PlainKernel ==
  ASSUME NEW s \in KernelState
  PROVE  Plain(s)
BY DEF Plain, KernelState

LEMMA WaitListFacts ==
  /\ WaitList \subseteq Heads /\ Prio \subseteq Heads /\ WaitList \cap Prio = {}
  /\ FreeTask \notin WaitList /\ RecycleList \notin WaitList
BY HeadsFacts, HeadAssumption

\* Unlinking a task that is not on the list.
LEMMA UnlinkOther ==
  ASSUME NEW q, NEW t, t \notin Elems(q)
  PROVE  Unlink(q, t) = q
BY DEF Unlink

\* The task t is on no wait list of s.
Off(s, t) == \A h \in WaitList : t \notin Elems(s.list[h])

LEMMA ReadyOff ==
  ASSUME NEW s, Consistent(s), NEW t \in Task, s.status[t] \cap {"PEND", "PEND_QUEUE"} = {}
  PROVE  Off(s, t)
BY WaitListFacts DEF Consistent, TaskAgrees, On, Off

LEMMA KeepsWaitsTrans ==
  ASSUME NEW s, NEW r, NEW q, KeepsWaits(s, r), KeepsWaits(r, q)
  PROVE  KeepsWaits(s, q)
BY DEF KeepsWaits

LEMMA KeepsWaitsFlag ==
  ASSUME NEW s, NEW t, NEW f, f \notin Waits, f # "UNUSED"
  PROVE  /\ KeepsWaits(s, [s EXCEPT !.status[t] = @ \cup {f}])
         /\ KeepsWaits(s, [s EXCEPT !.status[t] = @ \ {f}])
<1>1. KeepsWaits(s, [s EXCEPT !.status[t] = @ \cup {f}])
  BY DummyTask DEF KeepsWaits, Plain
<1>2. KeepsWaits(s, [s EXCEPT !.status[t] = @ \ {f}])
  BY DummyTask DEF KeepsWaits, Plain
<1> QED BY <1>1, <1>2

LEMMA KeepsWaitsLists ==
  ASSUME NEW s, NEW t \in Task
  PROVE  /\ Off(s, t) => KeepsWaits(s, LOS_ListDelete(s, t)) /\ KeepsWaits(s, Dequeue(s, t))
         /\ KeepsWaits(s, Enqueue(s, t))
<1>1. "READY" \notin Waits
  BY DEF Waits
<1>2. \A z : Off(z, t) => KeepsWaits(z, LOS_ListDelete(z, t))
  <2> SUFFICES ASSUME NEW z, Off(z, t), Plain(z)
               PROVE  KeepsWaits(z, LOS_ListDelete(z, t))
    BY DEF KeepsWaits
  <2>1. \A h \in WaitList : Unlink(z.list[h], t) = z.list[h]
    BY UnlinkOther DEF Off
  <2> QED BY <2>1, WaitListFacts DEF KeepsWaits, Plain, LOS_ListDelete
<1>3. KeepsWaits(s, Enqueue(s, t))
  <2> DEFINE a == [s EXCEPT !.status[t] = @ \cup {"READY"}]
             p == s.prio[t]
  <2>1. KeepsWaits(s, a)
    BY <1>1, KeepsWaitsFlag
  <2>2. Enqueue(s, t) = [a EXCEPT !.list[p] = Append(@, t)]
    BY DEF Enqueue, LOS_ListTailInsert
  <2>3. Plain(s) => p \in Prio
    BY DEF Plain
  <2> HIDE DEF a, p
  <2>4. Plain(s) => KeepsWaits(a, Enqueue(s, t))
    BY <2>1, <2>2, <2>3, WaitListFacts DEF KeepsWaits, Plain
  <2> QED BY <2>1, <2>4, KeepsWaitsTrans DEF KeepsWaits
<1>4. ASSUME Off(s, t) PROVE KeepsWaits(s, Dequeue(s, t))
  <2> DEFINE a == [s EXCEPT !.status[t] = @ \ {"READY"}]
  <2>1. KeepsWaits(s, a)
    BY <1>1, KeepsWaitsFlag
  <2>2. Dequeue(s, t) = LOS_ListDelete(a, t)
    BY DEF Dequeue
  <2>3. Plain(s) => Off(a, t)
    BY <1>4 DEF Off, Plain
  <2> HIDE DEF a
  <2> QED BY <1>2, <2>1, <2>2, <2>3, KeepsWaitsTrans DEF KeepsWaits
<1> QED BY <1>2, <1>3, <1>4

LEMMA KeepsWaitsSchedule ==
  ASSUME NEW s
  PROVE  KeepsWaits(s, LOS_Schedule(s)) /\ KeepsWaits(s, Reschedule(s))
<1>1. KeepsWaits(s, LOS_Schedule(s))
  BY DEF KeepsWaits, Plain, LOS_Schedule
<1>2. KeepsWaits(s, [s EXCEPT !.resched = @ \cup {s.run}])
  BY DEF KeepsWaits, Plain
<1> QED BY <1>1, <1>2 DEF Reschedule

LEMMA KeepsWaitsYield ==
  ASSUME NEW s, Consistent(s)
  PROVE  KeepsWaits(s, osTimesliceCheck(s))
<1>1. \A z : Consistent(z) => KeepsWaits(z, Yield(z))
  <2> SUFFICES ASSUME NEW z, Consistent(z), Yield(z) # z PROVE KeepsWaits(z, Yield(z))
    BY DEF KeepsWaits
  <2> DEFINE a == LOS_ListDelete(z, z.run)
             b == Enqueue(a, z.run)
  <2>1. "READY" \in z.status[z.run] /\ Yield(z) = Reschedule(b)
    BY DEF Yield
  <2>2. z.run \in Task /\ Off(z, z.run)
    <3>1. z.run \in Task
      BY <2>1 DEF Consistent, KernelState, IdleStays, Tcb
    <3> QED BY <2>1, <3>1, ReadyOff DEF Consistent, TaskAgrees, Blocked
  <2>3. KeepsWaits(z, a) /\ KeepsWaits(a, b) /\ KeepsWaits(b, Reschedule(b))
    BY <2>2, KeepsWaitsLists, KeepsWaitsSchedule
  <2> HIDE DEF a, b
  <2> QED BY <2>1, <2>3, KeepsWaitsTrans
<1> DEFINE left == IF s.sliceTask # s.run \/ s.sliceLeft = 0 THEN TimeSlice - 1
                   ELSE s.sliceLeft - 1
           z == [s EXCEPT !.sliceTask = Dummy, !.sliceLeft = 0]
           k == [s EXCEPT !.sliceTask = s.run, !.sliceLeft = left]
<1>2. KeepsWaits(s, z) /\ KeepsWaits(s, k)
  BY DEF KeepsWaits, Plain
<1>3. osTimesliceCheck(s) = IF left = 0 THEN Yield(z) ELSE k
  BY DEF osTimesliceCheck
<1>4. Consistent(z)
  <2>1. /\ z \in KernelState /\ z.list = s.list /\ z.prio = s.prio /\ z.timer = s.timer
        /\ z.due = s.due /\ z.status = s.status
    <3> DEFINE none == 0
    <3>1. none \in 0 .. TimeSlice - 1 /\ z = [s EXCEPT !.sliceTask = Dummy, !.sliceLeft = none]
      BY BoundAssumption
    <3> HIDE DEF none, z
    <3> QED BY <3>1, DummyTask DEF Consistent, KernelState
  <2> HIDE DEF z
  <2> QED BY <2>1, ControlStep
<1> HIDE DEF left, z, k
<1>5. KeepsWaits(s, Yield(z))
  BY <1>1, <1>2, <1>4, KeepsWaitsTrans
<1> QED BY <1>2, <1>3, <1>5

\* A ready task changes its place on the ready lists only.
LEMMA KeepsWaitsPri ==
  ASSUME NEW s, Consistent(s), NEW t \in Task, NEW p \in Prio
  PROVE  KeepsWaits(s, osTaskPriModify(s, t, p))
<1> DEFINE d == Dequeue(s, t)
           a == [d EXCEPT !.prio[t] = p]
           c == [s EXCEPT !.prio[t] = p]
<1>1. CASE "READY" \in s.status[t]
  <2>1. osTaskPriModify(s, t, p) = Enqueue(a, t)
    BY <1>1 DEF osTaskPriModify
  <2>2. Off(s, t)
    BY <1>1, ReadyOff DEF Consistent, TaskAgrees, Blocked
  <2>3. KeepsWaits(s, d)
    BY <2>2, KeepsWaitsLists
  <2> HIDE DEF d
  <2>4. KeepsWaits(d, a)
    BY DEF KeepsWaits, Plain
  <2> HIDE DEF a
  <2>5. KeepsWaits(a, Enqueue(a, t))
    BY KeepsWaitsLists
  <2> QED BY <2>1, <2>3, <2>4, <2>5, KeepsWaitsTrans
<1>2. CASE "READY" \notin s.status[t]
  <2>1. osTaskPriModify(s, t, p) = c
    BY <1>2 DEF osTaskPriModify
  <2>2. KeepsWaits(s, c)
    BY DEF KeepsWaits, Plain
  <2> QED BY <2>1, <2>2
<1> QED BY <1>1, <1>2

LEMMA KeepsWaitsCalls ==
  ASSUME Core(os), TaskCall
  PROVE  KeepsWaits(os, os')
<1>1. Consistent(os) /\ os \in KernelState /\ Plain(os)
  BY PlainKernel DEF Core, Consistent
<1>2. \A f \in {"SUSPEND", "DELAY", "READY"} : f \notin Waits /\ f # "UNUSED"
  BY DEF Waits
<1>3. CASE LOS_TaskCreate
  <2> DEFINE s == RecycleTcbs(os)
             t == Head(s.list[FreeTask])
             a(p) == InitTcb(s, p)
             b(p) == [a(p) EXCEPT !.status[t] = {}]
             c(p) == Enqueue(b(p), t)
  <2>1. /\ Consistent(s) /\ s.status = os.status /\ s.list[FreeTask] # <<>>
        /\ \A h \in WaitList : s.list[h] = os.list[h]
    BY <1>1, <1>3, RecycleFacts DEF LOS_TaskCreate
  <2>2. t \in Task /\ s.status[t] = {"UNUSED"}
    <3> HIDE DEF s
    <3> QED BY <2>1, FreeHead
  <2>3. PICK p, n, e : /\ p \in CreatePrio[t]
                       /\ os' = [c(p) EXCEPT !.new = n, !.pendSV = e]
    BY <1>3 DEF LOS_TaskCreate
  <2>4. /\ a(p) \in KernelState /\ a(p).status = [s.status EXCEPT ![t] = {"SUSPEND"}]
        /\ \A h \in WaitList : a(p).list[h] = s.list[h]
    <3>1. p \in Prio
      BY <2>2, <2>3, CreatePrioType
    <3> HIDE DEF s
    <3> QED BY <2>1, <3>1, InitTcbFacts DEF Consistent
  <2> HIDE DEF a, s, t
  <2>5. KeepsWaits(os, b(p))
    <3>1. /\ b(p).status = [s.status EXCEPT ![t] = {}] /\ Plain(b(p))
          /\ b(p).list = a(p).list
      BY <2>1, <2>4, <1>1, DummyTask DEF KernelState, Plain
    <3>2. \A u \in Task : /\ os.status[u] \cap Waits \subseteq b(p).status[u]
                          /\ "UNUSED" \in b(p).status[u] => "UNUSED" \in os.status[u]
      BY <1>1, <2>1, <2>2, <3>1, DummyTask DEF Waits, KernelState
    <3> QED BY <1>1, <2>1, <2>4, <3>1, <3>2 DEF KeepsWaits
  <2> HIDE DEF b
  <2>6. KeepsWaits(b(p), c(p))
    BY <2>2, KeepsWaitsLists
  <2> HIDE DEF c
  <2>7. KeepsWaits(c(p), os')
    BY <2>3 DEF KeepsWaits, Plain
  <2> QED BY <2>5, <2>6, <2>7, KeepsWaitsTrans
<1>4. CASE \E t \in Task : LOS_TaskResume(t)
  <2> PICK t \in Task : LOS_TaskResume(t)
    BY <1>4
  <2> DEFINE s == [os EXCEPT !.status[t] = @ \ {"SUSPEND"}]
             e == Enqueue(s, t)
             r == [e EXCEPT !.new = osPriqueueTop(e)]
  <2>1. os' = s \/ os' = Reschedule(e) \/ os' = r
    BY DEF LOS_TaskResume
  <2>2. KeepsWaits(os, s) /\ KeepsWaits(s, e)
    BY <1>2, KeepsWaitsFlag, KeepsWaitsLists
  <2> HIDE DEF s, e
  <2>3. KeepsWaits(e, Reschedule(e)) /\ KeepsWaits(e, r)
    BY KeepsWaitsSchedule DEF KeepsWaits, Plain
  <2> HIDE DEF r
  <2> QED BY <2>1, <2>2, <2>3, KeepsWaitsTrans
<1>5. CASE \E t \in Task : LOS_TaskSuspend(t)
  <2> PICK t \in Task : LOS_TaskSuspend(t)
    BY <1>5
  <2> DEFINE d == IF "READY" \in os.status[t] THEN Dequeue(os, t) ELSE os
             s == [d EXCEPT !.status[t] = @ \cup {"SUSPEND"}]
  <2>1. os' = s \/ os' = Reschedule(s)
    BY DEF LOS_TaskSuspend
  <2>2. KeepsWaits(os, d)
    <3>1. "READY" \in os.status[t] => Off(os, t)
      BY <1>1, ReadyOff DEF Consistent, TaskAgrees, Blocked
    <3>2. "READY" \notin os.status[t] => KeepsWaits(os, d)
      BY DEF KeepsWaits
    <3> QED BY <3>1, <3>2, KeepsWaitsLists
  <2> HIDE DEF d
  <2>3. KeepsWaits(d, s)
    BY <1>2, KeepsWaitsFlag
  <2> HIDE DEF s
  <2>4. KeepsWaits(s, Reschedule(s))
    BY KeepsWaitsSchedule
  <2> QED BY <2>1, <2>2, <2>3, <2>4, KeepsWaitsTrans
<1>6. CASE \E t \in Task, p \in PriSetArg : LOS_TaskPriSet(t, p)
  <2> PICK t \in Task, p \in PriSetArg : LOS_TaskPriSet(t, p)
    BY <1>6
  <2> DEFINE s == osTaskPriModify(os, t, p)
  <2>1. os' = s \/ os' = Reschedule(s)
    BY DEF LOS_TaskPriSet
  <2>2. KeepsWaits(os, s)
    BY <1>1, BoundAssumption, KeepsWaitsPri
  <2> HIDE DEF s
  <2>3. KeepsWaits(s, Reschedule(s))
    BY KeepsWaitsSchedule
  <2> QED BY <2>1, <2>2, <2>3, KeepsWaitsTrans
<1>7. CASE \E n \in Ticks : LOS_TaskDelay(n)
  <2> PICK n \in Ticks : LOS_TaskDelay(n)
    BY <1>7
  <2> DEFINE d == Dequeue(os, os.run)
             a == [d EXCEPT !.timer[os.run] = n]
             b == [a EXCEPT !.status[os.run] = @ \cup {"DELAY"}]
  <2>1. os' = Reschedule(b)
    BY DEF LOS_TaskDelay
  <2>2. KeepsWaits(os, d)
    <3>1. os.run \in Task /\ "READY" \in os.status[os.run]
      BY CallerReady DEF LOS_TaskDelay
    <3>2. Off(os, os.run)
      BY <1>1, <3>1, ReadyOff DEF Consistent, TaskAgrees, Blocked
    <3> QED BY <3>1, <3>2, KeepsWaitsLists
  <2> HIDE DEF d
  <2>3. KeepsWaits(d, a)
    BY DEF KeepsWaits, Plain
  <2> HIDE DEF a
  <2>4. KeepsWaits(a, b)
    BY <1>2, KeepsWaitsFlag
  <2> HIDE DEF b
  <2>5. KeepsWaits(b, Reschedule(b))
    BY KeepsWaitsSchedule
  <2> QED BY <2>1, <2>2, <2>3, <2>4, <2>5, KeepsWaitsTrans
<1>8. CASE LOS_TaskLock
  BY <1>8 DEF LOS_TaskLock, KeepsWaits, Plain
<1>9. CASE LOS_TaskUnlock
  <2> DEFINE s == [os EXCEPT !.lock = @ - 1]
  <2>1. os' = s \/ os' = Reschedule(s)
    BY <1>9 DEF LOS_TaskUnlock
  <2>2. KeepsWaits(os, s)
    BY DEF KeepsWaits, Plain
  <2> HIDE DEF s
  <2>3. KeepsWaits(s, Reschedule(s))
    BY KeepsWaitsSchedule
  <2> QED BY <2>1, <2>2, <2>3, KeepsWaitsTrans
<1> QED BY <1>3, <1>4, <1>5, <1>6, <1>7, <1>8, <1>9 DEF TaskCall

\* The expiry of a wait takes the task off its wait list and leaves TIMEOUT, that of a
\* delay has no wait to end.
LEMMA ExpiryTells ==
  ASSUME Core(os), NEW t \in Task, osTaskScanNext(t)
  PROVE  /\ \A u \in Task \ {t} : os'.status[u] = os.status[u]
         /\ "UNUSED" \in os'.status[t] => "UNUSED" \in os.status[t]
         /\ \/ /\ "TIMEOUT" \in os.status[t] /\ "TIMEOUT" \in os'.status[t]
               /\ \A h \in WaitList : os'.list[h] = Unlink(os.list[h], t)
            \/ /\ os.status[t] \cap Waits = {} /\ os'.status[t] \cap Waits = {}
               /\ \A h \in WaitList : os'.list[h] = os.list[h]
<1> DEFINE r == TimerExpire(os, t)
           e == [os EXCEPT !.timer[t] = 0, !.due = @ \ {t}]
           w == IF os.status[t] \cap {"PEND", "PEND_QUEUE"} # {} THEN LOS_ListDelete(e, t) ELSE e
           c == [w EXCEPT !.status[t] = @ \ (IF "PEND" \in @ THEN {"PEND"}
                                             ELSE IF "PEND_QUEUE" \in @ THEN {"PEND_QUEUE"}
                                             ELSE {"DELAY"})]
           d == Enqueue(c, t)
           q == [d EXCEPT !.needSchedule = TRUE]
<1>1. os' = r /\ t \in os.due /\ Consistent(os) /\ TaskAgrees(os, t) /\ os \in KernelState
  BY DEF osTaskScanNext, Core, Consistent
<1>2. /\ \A u \in Task \ {t} : os'.status[u] = os.status[u]
      /\ os'.status[t] \subseteq os.status[t] \cup {"READY"}
  BY <1>1, TimerExpireFacts
<1>3. \A h \in WaitList : os'.list[h] = Unlink(os.list[h], t)
  <2>1. r = c \/ r = q
    BY DEF TimerExpire
  <2>2. Plain(e) /\ e.list = os.list /\ e.status = os.status
    BY <1>1 DEF KernelState, Plain
  <2>3. os.status[t] \cap {"PEND", "PEND_QUEUE"} = {} => Off(os, t)
    BY <1>1, ReadyOff
  <2> HIDE DEF e
  <2>4. Plain(w) /\ \A h \in WaitList : w.list[h] = Unlink(os.list[h], t)
    <3>1. CASE os.status[t] \cap {"PEND", "PEND_QUEUE"} # {}
      BY <2>2, <3>1, WaitListFacts DEF Plain, LOS_ListDelete
    <3>2. CASE os.status[t] \cap {"PEND", "PEND_QUEUE"} = {}
      BY <2>2, <2>3, <3>2, UnlinkOther DEF Off
    <3> QED BY <3>1, <3>2
  <2> HIDE DEF w
  <2>5. Plain(c) /\ c.list = w.list
    BY <2>4 DEF Plain
  <2> HIDE DEF c
  <2>6. Plain(d) /\ \A h \in WaitList : d.list[h] = c.list[h]
    BY <2>5, KeepsWaitsLists DEF KeepsWaits
  <2> HIDE DEF d
  <2>7. q.list = d.list
    BY <2>6 DEF Plain
  <2> HIDE DEF q, r
  <2> QED BY <1>1, <2>1, <2>4, <2>5, <2>6, <2>7
<1>4. CASE "TIMEOUT" \notin os.status[t]
  <2>1. os.timer[t] = 1 /\ "DELAY" \in os.status[t]
    BY <1>1, <1>4 DEF TaskAgrees
  <2>2. os.status[t] \cap Waits = {}
    BY <1>1, <1>4, <2>1 DEF TaskAgrees, Waits
  <2>3. Off(os, t)
    BY <1>1, <2>2, ReadyOff DEF Waits
  <2>4. \A h \in WaitList : os'.list[h] = os.list[h]
    BY <1>3, <2>3, UnlinkOther DEF Off
  <2> QED BY <1>2, <2>2, <2>4 DEF Waits
<1>5. CASE "TIMEOUT" \in os.status[t]
  <2>1. r = c \/ r = q
    BY DEF TimerExpire
  <2>2. "status" \in DOMAIN os /\ DOMAIN os.status = Tcb
    BY <1>1 DEF KernelState
  <2>3. Plain(e) /\ e.status = os.status
    BY <1>1 DEF KernelState, Plain
  <2> HIDE DEF e
  <2>4. Plain(w) /\ w.status = os.status
    BY <2>3 DEF LOS_ListDelete, Plain
  <2> HIDE DEF w
  <2>5. Plain(c) /\ "TIMEOUT" \in c.status[t]
    BY <1>5, <2>2, <2>4, DummyTask DEF Plain
  <2> HIDE DEF c
  <2>6. Plain(d) /\ "TIMEOUT" \in d.status[t]
    BY <2>5, KeepsWaitsLists DEF KeepsWaits, Waits
  <2> HIDE DEF d
  <2>7. "TIMEOUT" \in q.status[t]
    BY <2>6 DEF Plain
  <2> HIDE DEF q, r
  <2> QED BY <1>1, <1>2, <1>3, <1>5, <2>1, <2>5, <2>7
<1> QED BY <1>4, <1>5

LEMMA KeepsWaitsExceptions ==
  ASSUME Core(os), Exception, \A t \in Task : ~osTaskScanNext(t)
  PROVE  KeepsWaits(os, os')
<1>0. Consistent(os)
  BY DEF Core
<1>1. CASE LOS_StartToRun
  <2>1. "RUNNING" \notin Waits /\ "RUNNING" # "UNUSED"
    BY DEF Waits
  <2> DEFINE m == [os EXCEPT !.scheduled = TRUE, !.run = os.new]
             r == [m EXCEPT !.status[os.new] = @ \cup {"RUNNING"}]
  <2>2. os' = r /\ KeepsWaits(os, m)
    BY <1>1 DEF LOS_StartToRun, KeepsWaits, Plain
  <2> HIDE DEF m
  <2>3. KeepsWaits(m, r)
    BY <2>1, KeepsWaitsFlag
  <2> HIDE DEF r
  <2> QED BY <2>2, <2>3, KeepsWaitsTrans
<1>2. CASE TaskReschedule
  <2> DEFINE m == [os EXCEPT !.resched = @ \ {os.run}]
  <2>1. os' = LOS_Schedule(m)
    BY <1>2 DEF TaskReschedule
  <2>2. KeepsWaits(os, m)
    BY DEF KeepsWaits, Plain
  <2> HIDE DEF m
  <2>3. KeepsWaits(m, LOS_Schedule(m))
    BY KeepsWaitsSchedule
  <2> QED BY <2>1, <2>2, <2>3, KeepsWaitsTrans
<1>3. CASE osPendSV
  <2>1. os' = [os EXCEPT !.pendSV = FALSE, !.run = os.new,
                 !.status = [t \in Tcb |-> IF t = os.new THEN @[t] \cup {"RUNNING"}
                                           ELSE IF t = os.run THEN @[t] \ {"RUNNING"}
                                           ELSE @[t]]]
    BY <1>3 DEF osPendSV
  <2> QED BY <2>1, DummyTask DEF KeepsWaits, Waits, Plain
<1>4. CASE osInterruptEnter \/ osInterruptExit
  BY <1>4 DEF osInterruptEnter, osInterruptExit, KeepsWaits, Plain
<1>5. CASE osTickHandler
  <2> DEFINE s == [os EXCEPT !.scan = TRUE, !.needSchedule = FALSE]
             c == osTimesliceCheck(s)
  <2>1. os' = NextSlot(c)
    BY <1>5 DEF osTickHandler
  <2>2. KeepsWaits(os, s)
    BY DEF KeepsWaits, Plain
  <2>3. Consistent(s)
    <3>1. /\ s \in KernelState /\ s.list = os.list /\ s.prio = os.prio /\ s.timer = os.timer
          /\ s.due = os.due /\ s.status = os.status
      BY <1>0 DEF Consistent, KernelState
    <3> HIDE DEF s
    <3> QED BY <1>0, <3>1, ControlStep
  <2> HIDE DEF s
  <2>4. KeepsWaits(s, c)
    BY <2>3, KeepsWaitsYield
  <2> HIDE DEF c
  <2>5. KeepsWaits(c, NextSlot(c))
    BY DEF KeepsWaits, NextSlot, Plain
  <2> QED BY <2>1, <2>2, <2>4, <2>5, KeepsWaitsTrans
<1>6. CASE osTaskScanEnd
  <2> DEFINE s == [os EXCEPT !.scan = FALSE, !.needSchedule = FALSE]
  <2>1. os' = s \/ os' = LOS_Schedule(s)
    BY <1>6 DEF osTaskScanEnd
  <2>2. KeepsWaits(os, s)
    BY DEF KeepsWaits, Plain
  <2> HIDE DEF s
  <2>3. KeepsWaits(s, LOS_Schedule(s))
    BY KeepsWaitsSchedule
  <2> QED BY <2>1, <2>2, <2>3, KeepsWaitsTrans
<1> QED BY <1>1, <1>2, <1>3, <1>4, <1>5, <1>6 DEF Exception

\* The wait of t expires, and nothing else changes about waiting.
ExpiresOnly(t) ==
  /\ "TIMEOUT" \in os.status[t] /\ "TIMEOUT" \in os'.status[t]
  /\ \A h \in WaitList : os'.list[h] = Unlink(os.list[h], t)
  /\ \A u \in Task \ {t} : os'.status[u] \cap Waits = os.status[u] \cap Waits

\* Nothing changes about waiting.
WaitsStay ==
  /\ \A h \in WaitList : os'.list[h] = os.list[h]
  /\ \A u \in Task : os'.status[u] \cap Waits = os.status[u] \cap Waits

\* In a step of the kernel one wait expires or none, and no task becomes unused.
LEMMA KernelStepWaits ==
  ASSUME ~IsrSuspends, Core(os), KernelStep
  PROVE  /\ WaitsStay \/ \E t \in Task : ExpiresOnly(t)
         /\ \A u \in Task : "UNUSED" \in os'.status[u] => "UNUSED" \in os.status[u]
<1>1. /\ \A u \in Task : os'.status[u] \cap Waits \subseteq os.status[u]
      /\ Plain(os)
  BY KernelStepSteady, PlainKernel DEF Steady, Eases, Core, Consistent
<1>2. ASSUME NEW t \in Task, osTaskScanNext(t)
      PROVE  /\ WaitsStay \/ ExpiresOnly(t)
             /\ \A u \in Task : "UNUSED" \in os'.status[u] => "UNUSED" \in os.status[u]
  <2>1. \A u \in Task : "UNUSED" \in os'.status[u] => "UNUSED" \in os.status[u]
    BY <1>2, ExpiryTells
  <2>2. WaitsStay \/ ExpiresOnly(t)
    BY <1>2, ExpiryTells DEF WaitsStay, ExpiresOnly
  <2> QED BY <2>1, <2>2
<1>3. CASE TaskCall \/ (Exception /\ \A t \in Task : ~osTaskScanNext(t))
  <2>1. KeepsWaits(os, os')
    BY <1>3, KeepsWaitsCalls, KeepsWaitsExceptions
  <2>2. /\ \A h \in WaitList : os'.list[h] = os.list[h]
        /\ \A u \in Task : /\ os.status[u] \cap Waits \subseteq os'.status[u]
                           /\ "UNUSED" \in os'.status[u] => "UNUSED" \in os.status[u]
    BY <1>1, <2>1 DEF KeepsWaits
  <2> QED BY <1>1, <2>2 DEF WaitsStay
<1> QED BY <1>2, <1>3 DEF KernelStep

----------------------------------------------------------------------------
\* The order in which the tasks wait: who blocks comes last, and a woken or deleted task
\* leaves its place without changing the order of the others.

\* The task t is taken off its wait list.
Leaves(s, r, t) == \A h \in WaitList : r.list[h] = Unlink(s.list[h], t)

LEMMA LeavesOff ==
  ASSUME NEW s, NEW r, NEW t, Off(s, t), \A h \in WaitList : r.list[h] = s.list[h]
  PROVE  Leaves(s, r, t)
BY UnlinkOther DEF Leaves, Off

LEMMA ListDeleteLeaves ==
  ASSUME NEW s, Plain(s), NEW t
  PROVE  /\ Plain(LOS_ListDelete(s, t)) /\ Leaves(s, LOS_ListDelete(s, t), t)
         /\ Plain(Dequeue(s, t)) /\ Leaves(s, Dequeue(s, t), t)
<1> DEFINE a == [s EXCEPT !.status[t] = @ \ {"READY"}]
<1>1. \A z : Plain(z) => /\ Plain(LOS_ListDelete(z, t)) /\ Leaves(z, LOS_ListDelete(z, t), t)
  BY WaitListFacts DEF LOS_ListDelete, Plain, Leaves
<1>2. Plain(a) /\ a.list = s.list /\ Dequeue(s, t) = LOS_ListDelete(a, t)
  BY DEF Plain, Dequeue
<1> HIDE DEF a
<1> QED BY <1>1, <1>2 DEF Leaves

\* The caller of a pend function comes last on its wait list.
LEMMA BlockOrder ==
  ASSUME NEW s, Consistent(s), NEW t \in Task, t = s.run, "READY" \in s.status[t],
         NEW h \in WaitList, NEW flag, NEW timeout
  PROVE  LET r == osTaskWait(s, h, flag, timeout)
         IN  \A g \in WaitList : r.list[g] = IF g = h THEN Append(s.list[h], t) ELSE s.list[g]
<1> DEFINE d == Dequeue(s, t)
           w == LOS_ListTailInsert(d, h, t)
           k == [w EXCEPT !.status[t] = @ \cup {flag}]
           e == [w EXCEPT !.status[t] = @ \cup {flag, "TIMEOUT"}, !.timer[t] = timeout]
           r == osTaskWait(s, h, flag, timeout)
<1>1. r = k \/ r = e
  BY DEF osTaskWait
<1>2. Plain(s) /\ Off(s, t)
  BY PlainKernel, ReadyOff DEF Consistent, TaskAgrees, Blocked
<1>3. Plain(d) /\ \A g \in WaitList : d.list[g] = s.list[g]
  BY <1>2, ListDeleteLeaves, UnlinkOther DEF Leaves, Off
<1> HIDE DEF d
<1>4. /\ Plain(w)
      /\ \A g \in WaitList : w.list[g] = IF g = h THEN Append(d.list[h], t) ELSE d.list[g]
  BY <1>3, WaitListFacts DEF LOS_ListTailInsert, Plain
<1> HIDE DEF w
<1>5. k.list = w.list /\ e.list = w.list
  BY <1>4 DEF Plain
<1> HIDE DEF k, e, r
<1> QED BY <1>1, <1>3, <1>4, <1>5 DEF r

LEMMA WakeOrder ==
  ASSUME NEW s, Plain(s), NEW t \in Task, NEW flag
  PROVE  Leaves(s, osTaskWake(s, t, flag), t)
<1> DEFINE a == [s EXCEPT !.status[t] = @ \ {flag, "TIMEOUT"}]
           w == LOS_ListDelete(a, t)
           c == IF "TIMEOUT" \in s.status[t] THEN osTimerListDelete(w, t) ELSE w
           e == Enqueue(c, t)
           r == osTaskWake(s, t, flag)
<1>1. r = c \/ r = e
  BY DEF osTaskWake
<1>2. Plain(a) /\ a.list = s.list
  BY DEF Plain
<1> HIDE DEF a, r
<1>3. Plain(w) /\ Leaves(a, w, t)
  BY <1>2, ListDeleteLeaves
<1> HIDE DEF w
<1>4. Plain(c) /\ c.list = w.list
  BY <1>3 DEF osTimerListDelete, Plain
<1> HIDE DEF c
<1>5. \A h \in WaitList : e.list[h] = c.list[h]
  BY <1>4, KeepsWaitsLists DEF KeepsWaits
<1> HIDE DEF e
<1> QED BY <1>1, <1>2, <1>3, <1>4, <1>5 DEF Leaves, r

LEMMA DeleteOrder ==
  ASSUME NEW s, Consistent(s), NEW t \in Task
  PROVE  Leaves(s, DeleteTask(s, t), t)
<1> DEFINE b == [s EXCEPT !.resched = @ \ {t}]
           u == Unpend(b, t)
           d == IF s.status[t] \cap {"DELAY", "TIMEOUT"} # {} THEN osTimerListDelete(u, t) ELSE u
           r == DeleteTask(s, t)
<1>1. r = RetireRunning(d, t) \/ r = ReleaseTcb(d, t)
  BY DEF DeleteTask
<1>2. Plain(b) /\ b.list = s.list /\ b.status = s.status
  BY PlainKernel DEF Consistent, Plain
<1>3. s.status[t] \cap {"PEND", "PEND_QUEUE"} = {} => Off(s, t)
  BY ReadyOff
<1> HIDE DEF b, r
<1>4. Plain(u) /\ Leaves(s, u, t)
  <2>1. CASE u = Dequeue(b, t) \/ u = LOS_ListDelete(b, t)
    BY <1>2, <2>1, ListDeleteLeaves DEF Leaves
  <2>2. CASE u = b /\ s.status[t] \cap {"PEND", "PEND_QUEUE"} = {}
    BY <1>2, <1>3, <2>2, LeavesOff
  <2> QED BY <1>2, <2>1, <2>2 DEF Unpend
<1> HIDE DEF u
<1>5. Plain(d) /\ d.list = u.list
  BY <1>4 DEF osTimerListDelete, Plain
<1> HIDE DEF d
<1>6. \A h \in WaitList : RetireRunning(d, t).list[h] = d.list[h]
  BY <1>5, WaitListFacts DEF Plain, RetireRunning, LOS_ListTailInsert
<1>7. \A h \in WaitList : ReleaseTcb(d, t).list[h] = d.list[h]
  BY <1>5, WaitListFacts DEF Plain, ReleaseTcb, LOS_ListAdd
<1> QED BY <1>1, <1>4, <1>5, <1>6, <1>7 DEF Leaves, r

LEMMA RescheduleLists ==
  ASSUME NEW s, Plain(s)
  PROVE  \A h \in WaitList : Reschedule(s).list[h] = s.list[h]
BY KeepsWaitsSchedule DEF KeepsWaits

LEMMA BlockStepOrder ==
  ASSUME Core(os), TaskContext, "TIMEOUT" \notin os.status[os.run], NEW h \in WaitList,
         NEW flag \in {"PEND", "PEND_QUEUE"}, NEW timeout \in Ticks \cup {LOS_WAIT_FOREVER},
         NEW c, Block(h, flag, timeout, c)
  PROVE  \A g \in WaitList :
           os'.list[g] = IF g = h THEN Append(os.list[h], os.run) ELSE os.list[g]
<1> DEFINE t == os.run
           m == osTaskWait(os, h, flag, timeout)
<1>1. t \in Task \ {Idle} /\ "READY" \in os.status[t] /\ Consistent(os) /\ os' = Reschedule(m)
  BY CallerReady DEF Core, Block
<1>2. Consistent(m)
  <2>1. t = os.run /\ "TIMEOUT" \notin os.status[t] /\ m = osTaskWait(os, h, flag, timeout)
    OBVIOUS
  <2> HIDE DEF t, m
  <2> QED BY <1>1, <2>1, WaitFacts, SMTT(60)
<1>3. \A g \in WaitList : m.list[g] = IF g = h THEN Append(os.list[h], t) ELSE os.list[g]
  BY <1>1, BlockOrder
<1>4. Plain(m)
  BY <1>2, PlainKernel DEF Consistent
<1> HIDE DEF m
<1> QED BY <1>1, <1>3, <1>4, RescheduleLists

LEMMA WakeStepOrder ==
  ASSUME NEW s, Consistent(s), NEW t \in Task, NEW flag \in {"PEND", "PEND_QUEUE"},
         flag \in s.status[t]
  PROVE  Leaves(s, Reschedule(osTaskWake(s, t, flag)), t)
<1> DEFINE m == osTaskWake(s, t, flag)
<1>1. Plain(m) /\ Leaves(s, m, t)
  BY WakeFacts, WakeOrder, PlainKernel DEF Consistent
<1> HIDE DEF m
<1>2. Leaves(s, Reschedule(m), t)
  BY <1>1, RescheduleLists DEF Leaves
<1> QED BY <1>2 DEF m

LEMMA DeleteStepOrder ==
  ASSUME Core(os), NEW t \in Task, DeleteStep(t)
  PROVE  Leaves(os, os', t)
BY DeleteOrder DEF Core, DeleteStep, LOS_TaskDelete

LEMMA UnlinkSubSeq ==
  ASSUME NEW S, NEW q \in Seq(S), NoDup(q), NEW i \in DOMAIN q
  PROVE  Unlink(q, q[i]) = SubSeq(q, 1, i - 1) \o SubSeq(q, i + 1, Len(q))
<1> DEFINE a == SubSeq(q, 1, i - 1)
           b == SubSeq(q, i + 1, Len(q))
           n == Len(q) - 1
           u == [j \in 1 .. n |-> IF j < i THEN q[j] ELSE q[j + 1]]
<1>1. i \in 1 .. Len(q) /\ Len(q) \in Nat /\ n \in Nat
  OBVIOUS
<1>2. Unlink(q, q[i]) = u
  <2> DEFINE c == CHOOSE k \in DOMAIN q : q[k] = q[i]
  <2>1. c \in DOMAIN q /\ q[c] = q[i]
    OBVIOUS
  <2>2. c = i
    BY <2>1 DEF NoDup
  <2> QED BY <2>2 DEF Unlink, Elems
<1>3. a \in Seq(S) /\ Len(a) = i - 1 /\ \A j \in 1 .. i - 1 : a[j] = q[j]
  BY <1>1
<1>4. b \in Seq(S) /\ Len(b) = Len(q) - i /\ \A j \in 1 .. Len(q) - i : b[j] = q[i + j]
  BY <1>1
<1> HIDE DEF a, b
<1>5. a \o b \in Seq(S) /\ Len(a \o b) = n
  BY <1>1, <1>3, <1>4
<1>6. \A j \in 1 .. n : (a \o b)[j] = u[j]
  <2> SUFFICES ASSUME NEW j \in 1 .. n PROVE (a \o b)[j] = u[j]
    OBVIOUS
  <2>1. CASE j < i
    BY <1>1, <1>3, <1>4, <2>1
  <2>2. CASE ~ (j < i)
    <3>1. j - (i - 1) \in 1 .. Len(q) - i /\ i + (j - (i - 1)) = j + 1
      BY <1>1, <2>2
    <3>2. (a \o b)[j] = b[j - (i - 1)]
      BY <1>1, <1>3, <1>4, <2>2
    <3> QED BY <1>4, <2>2, <3>1, <3>2
  <2> QED BY <2>1, <2>2
<1>7. \A j \in 1 .. n : u[j] \in S
  BY <1>1
<1>8. u \in Seq(S) /\ Len(u) = n
  BY <1>1, <1>7
<1> HIDE DEF u, n
<1>9. a \o b = u
  BY <1>5, <1>6, <1>8
<1> QED BY <1>2, <1>9 DEF a, b

LEMMA UnlinkFirst ==
  ASSUME NEW S, NEW q \in Seq(S), NoDup(q), q # <<>>
  PROVE  Unlink(q, Head(q)) = Tail(q)
<1>1. 1 \in DOMAIN q /\ Head(q) = q[1] /\ Len(q) \in Nat \ {0}
  OBVIOUS
<1>2. Unlink(q, Head(q)) = SubSeq(q, 1, 0) \o SubSeq(q, 2, Len(q))
  <2>1. Unlink(q, q[1]) = SubSeq(q, 1, 1 - 1) \o SubSeq(q, 1 + 1, Len(q))
    BY <1>1, UnlinkSubSeq
  <2> QED BY <1>1, <2>1
<1>3. SubSeq(q, 1, 0) = <<>> /\ SubSeq(q, 2, Len(q)) = Tail(q)
  BY <1>1
<1>4. Tail(q) \in Seq(S)
  BY <1>1
<1> QED BY <1>2, <1>3, <1>4

----------------------------------------------------------------------------
\* Where the abstract services have a task.  LosSem and LosMux map their state so.

View(t) ==
  IF call[t] = NoCall THEN "out"
  ELSE IF Waiting(t) THEN "waits"
  ELSE IF Expired(t) THEN "expired" ELSE "granted"

\* A task waits on the list of the call it is in.
WaitsInCall == \A t \in Task, h \in WaitList : t \in Elems(os.list[h]) => call[t] = h

\* Task t is in the eyes of the service where it was.
SameView(t) == View(t)' = View(t)

\* t leaves the list h from wherever it stands.
Quits(S, t, h) ==
  /\ View(t) = "waits"
  /\ \E i \in DOMAIN os.list[h] :
       /\ os.list[h][i] = t
       /\ os'.list[h] = SubSeq(os.list[h], 1, i - 1) \o SubSeq(os.list[h], i + 1, Len(os.list[h]))
  /\ \A g \in S \ {h} : os'.list[g] = os.list[g]
  /\ \A u \in Task \ {t} : SameView(u)

LEMMA ViewKept ==
  ASSUME NEW t, call'[t] = call[t],
         "TIMEOUT" \in os'.status[t] <=> "TIMEOUT" \in os.status[t],
         \A h \in WaitList : t \in Elems(os'.list[h]) <=> t \in Elems(os.list[h])
  PROVE  SameView(t)
<1>1. Waiting(t)' <=> Waiting(t)
  BY DEF Waiting
<1>2. Expired(t)' <=> Expired(t)
  BY <1>1 DEF Expired
<1> QED BY <1>1, <1>2 DEF SameView, View

LEMMA ListTypes ==
  ASSUME NEW s, Consistent(s)
  PROVE  \A h \in WaitList : /\ s.list[h] \in Seq(Task) /\ NoDup(s.list[h])
                             /\ Elems(s.list[h]) \subseteq Task
BY WaitListFacts, ElemsType DEF Consistent, KernelState, WellLinked

LEMMA LeavesElems ==
  ASSUME NEW s, Consistent(s), NEW r, NEW t, Leaves(s, r, t)
  PROVE  \A h \in WaitList : Elems(r.list[h]) = Elems(s.list[h]) \ {t}
BY ListTypes, UnlinkElems DEF Leaves

\* The effect of leaving a list, by a wakeup, an expiry or a deletion.
LEMMA LeavesViews ==
  ASSUME Consistent(os), NEW t \in Task, Leaves(os, os', t),
         \A u \in Task \ {t} : /\ "TIMEOUT" \in os'.status[u] <=> "TIMEOUT" \in os.status[u]
                               /\ call'[u] = call[u]
  PROVE  /\ \A u \in Task \ {t} : SameView(u)
         /\ View(t)' = IF call'[t] = NoCall THEN "out"
                       ELSE IF "TIMEOUT" \in os'.status[t] THEN "expired" ELSE "granted"
<1>1. \A h \in WaitList : Elems(os'.list[h]) = Elems(os.list[h]) \ {t}
  BY LeavesElems
<1>2. \A u \in Task \ {t} : SameView(u)
  BY <1>1, ViewKept
<1>3. ~Waiting(t)'
  BY <1>1 DEF Waiting
<1> QED BY <1>2, <1>3 DEF View, Expired

\* Who waits on a list of the service leaves that list, and no other.
LEMMA LeavesQuits ==
  ASSUME Consistent(os), NEW t \in Task, Leaves(os, os', t), WaitsInCall,
         \A u \in Task \ {t} : /\ "TIMEOUT" \in os'.status[u] <=> "TIMEOUT" \in os.status[u]
                               /\ call'[u] = call[u],
         NEW S, S \subseteq WaitList, NEW h \in S, t \in Elems(os.list[h]), NoCall \notin WaitList
  PROVE  Quits(S, t, h)
<1>1. View(t) = "waits"
  BY DEF View, Waiting, WaitsInCall
<1>2. \E i \in DOMAIN os.list[h] :
         /\ os.list[h][i] = t
         /\ os'.list[h] = SubSeq(os.list[h], 1, i - 1) \o SubSeq(os.list[h], i + 1, Len(os.list[h]))
  <2>1. PICK i \in DOMAIN os.list[h] : os.list[h][i] = t
    BY DEF Elems
  <2>2. os'.list[h] = Unlink(os.list[h], os.list[h][i])
    BY <2>1 DEF Leaves
  <2> QED BY <2>1, <2>2, ListTypes, UnlinkSubSeq
<1>3. \A g \in S \ {h} : os'.list[g] = os.list[g]
  BY UnlinkOther DEF Leaves, WaitsInCall
<1> QED BY <1>1, <1>2, <1>3, LeavesViews DEF Quits

\* Who is on no list leaves the lists as they are.
LEMMA LeavesNothing ==
  ASSUME NEW t, Leaves(os, os', t), ~Waiting(t)
  PROVE  \A h \in WaitList : os'.list[h] = os.list[h]
BY UnlinkOther DEF Leaves, Waiting

\* The kernel ends waits by expiry only.
LEMMA KernelStepViews ==
  ASSUME ~IsrSuspends, Core(os), KernelStep, WaitsInCall, NoCall \notin WaitList,
         NEW S, S \subseteq WaitList, call \in [Task -> S \cup {NoCall}]
  PROVE  \/ /\ \A h \in S : os'.list[h] = os.list[h]
            /\ \A t \in Task : SameView(t)
         \/ \E t \in Task, h \in S : Quits(S, t, h) /\ View(t)' = "expired"
<1>1. call' = call /\ Consistent(os)
  BY DEF KernelStep, Core
<1>2. CASE WaitsStay
  <2>1. \A t \in Task : "TIMEOUT" \in os'.status[t] <=> "TIMEOUT" \in os.status[t]
    BY <1>2 DEF WaitsStay, Waits
  <2> QED BY <1>1, <1>2, <2>1, ViewKept DEF WaitsStay
<1>3. ASSUME NEW t \in Task, ExpiresOnly(t)
      PROVE  \/ /\ \A h \in S : os'.list[h] = os.list[h]
                /\ \A u \in Task : SameView(u)
             \/ \E h \in S : Quits(S, t, h) /\ View(t)' = "expired"
  <2>1. /\ Leaves(os, os', t) /\ "TIMEOUT" \in os.status[t] /\ "TIMEOUT" \in os'.status[t]
        /\ \A u \in Task \ {t} : /\ "TIMEOUT" \in os'.status[u] <=> "TIMEOUT" \in os.status[u]
                                 /\ call'[u] = call[u]
    BY <1>1, <1>3 DEF ExpiresOnly, Leaves, Waits
  <2>2. CASE Waiting(t)
    <3>1. PICK h \in WaitList : t \in Elems(os.list[h])
      BY <2>2 DEF Waiting
    <3>2. call[t] = h /\ h \in S
      BY <3>1 DEF WaitsInCall
    <3>3. View(t)' = "expired"
      BY <1>1, <2>1, <3>2, LeavesViews
    <3>4. Quits(S, t, h)
      BY <1>1, <2>1, <3>1, <3>2, LeavesQuits
    <3> QED BY <3>2, <3>3, <3>4
  <2>3. CASE ~Waiting(t)
    <3>1. \A h \in WaitList : os'.list[h] = os.list[h]
      BY <2>1, <2>3, LeavesNothing
    <3> QED BY <1>1, <2>1, <3>1, ViewKept
  <2> QED BY <2>2, <2>3
<1> QED BY <1>2, <1>3, KernelStepWaits

\* A deleted task quits its list, leaves its call, or was in none.
LEMMA DeleteStepViews ==
  ASSUME Core(os), NEW t \in Task, DeleteStep(t), WaitsInCall, NoCall \notin WaitList,
         NEW S, S \subseteq WaitList, call \in [Task -> S \cup {NoCall}]
  PROVE  /\ View(t)' = "out"
         /\ \/ \E h \in S : Quits(S, t, h)
            \/ /\ View(t) \in {"out", "granted", "expired"}
               /\ \A h \in S : os'.list[h] = os.list[h]
               /\ \A u \in Task \ {t} : SameView(u)
<1>1. /\ call' = [call EXCEPT ![t] = NoCall] /\ Consistent(os) /\ Leaves(os, os', t)
      /\ \A u \in Task \ {t} : os'.status[u] = os.status[u]
  BY DeleteStepSteady, DeleteStepOrder DEF Core
<1>2. call'[t] = NoCall /\ \A u \in Task \ {t} : call'[u] = call[u]
  BY <1>1
<1>3. View(t)' = "out" /\ \A u \in Task \ {t} : SameView(u)
  BY <1>1, <1>2, LeavesViews
<1>4. CASE Waiting(t)
  <2>1. PICK h \in WaitList : t \in Elems(os.list[h])
    BY <1>4 DEF Waiting
  <2>2. h \in S
    BY <2>1 DEF WaitsInCall
  <2>3. Quits(S, t, h)
    BY <1>1, <1>2, <2>1, <2>2, LeavesQuits
  <2> QED BY <1>3, <2>2, <2>3
<1>5. CASE ~Waiting(t)
  <2>1. \A h \in S : os'.list[h] = os.list[h]
    BY <1>1, <1>5, LeavesNothing
  <2>2. View(t) = "out" \/ View(t) = "expired" \/ View(t) = "granted"
    BY <1>5 DEF View
  <2> QED BY <1>3, <2>1, <2>2
<1> QED BY <1>4, <1>5

\* Back from its wait the caller leaves its call.
LEMMA ReturnViews ==
  ASSUME Core(os), TaskContext, os' = ClearTimeout(os), Return, DOMAIN call = Task,
         NEW t, t = os.run, call[t] # NoCall
  PROVE  /\ t \in Task /\ View(t) \in {"granted", "expired"} /\ View(t)' = "out"
         /\ \A h \in WaitList : os'.list[h] = os.list[h]
         /\ \A u \in Task \ {t} : SameView(u)
<1>1. /\ t \in Task /\ On(os, t) \cap WaitList = {}
      /\ \A u \in Task \ {t} : os'.status[u] = os.status[u]
  BY ClearTimeoutStep
<1>2. os'.list = os.list
  BY DEF ClearTimeout, Core, Consistent, KernelState
<1>3. call'[t] = NoCall /\ \A u \in Task \ {t} : call'[u] = call[u]
  BY <1>1 DEF Return
<1>4. \A u \in Task \ {t} : SameView(u)
  BY <1>1, <1>2, <1>3, ViewKept
<1>5. ~Waiting(t)
  BY <1>1, WaitListFacts DEF Waiting, On
<1>6. View(t) = "granted" \/ View(t) = "expired"
  BY <1>5 DEF View
<1>7. View(t)' = "out"
  BY <1>3 DEF View
<1> QED BY <1>1, <1>2, <1>4, <1>6, <1>7

\* The caller of a pend function comes last on the list.
LEMMA WaitViews ==
  ASSUME Consistent(os), NEW t \in Task, call[t] = NoCall, NEW h \in WaitList,
         NoCall \notin WaitList, call' = [call EXCEPT ![t] = h], DOMAIN call = Task,
         \A g \in WaitList : os'.list[g] = IF g = h THEN Append(os.list[h], t) ELSE os.list[g],
         \A u \in Task \ {t} : "TIMEOUT" \in os'.status[u] <=> "TIMEOUT" \in os.status[u]
  PROVE  View(t) = "out" /\ View(t)' = "waits" /\ \A u \in Task \ {t} : SameView(u)
<1>1. \A g \in WaitList : /\ os.list[g] \in Seq(Task)
                          /\ g = h => Elems(os'.list[g]) = Elems(os.list[g]) \cup {t}
  BY ListTypes, AppendElems
<1>2. call'[t] = h /\ \A u \in Task \ {t} : call'[u] = call[u]
  OBVIOUS
<1>3. \A u \in Task \ {t} : SameView(u)
  BY <1>1, <1>2, ViewKept
<1>4. Waiting(t)'
  BY <1>1 DEF Waiting
<1> QED BY <1>2, <1>3, <1>4 DEF View

=============================================================================
