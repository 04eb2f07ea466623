---------------------------- MODULE LosSemProofs ----------------------------
(***************************************************************************)
(* Proofs about the semaphores of LosSem.                                  *)
(***************************************************************************)
EXTENDS LosSem, LosTaskProofs

\* Who waits: on semaphores only, where it called, and TIMEOUT is set inside a call only.
Waiters ==
  /\ call \in [Task -> Sem \cup {NoCall}]
  /\ \A t \in Task : /\ "PEND_QUEUE" \notin os.status[t]
                     /\ "TIMEOUT" \in os.status[t] => call[t] # NoCall
  /\ WaitsInCall

\* The control blocks: a free one is not in use, and no count exceeds its maximum.
Blocks ==
  /\ sem \in [Sem -> SemCb]
  /\ unusedSem \in Seq(Sem) /\ NoDup(unusedSem)
  /\ \A h \in Elems(unusedSem) : ~sem[h].used
  /\ \A h \in Sem : sem[h].used => sem[h].count <= sem[h].max
  /\ taken \in [Sem -> Int]

\* The inductive invariant of the semaphores.
SemInv == Core(os) /\ Highest(os) /\ Waiters /\ Blocks /\ NoIdlePermit

LEMMA SemHeads ==
  /\ Sem \subseteq WaitList /\ Sem \subseteq Heads /\ NoCall \notin Sem
  /\ MaxCounts \subseteq Counts \ {0} /\ 0 \in Counts /\ Counts \subseteq Nat
  /\ \E n \in Nat : Counts = 0 .. n
<1> DEFINE P(m) == \A n \in MaxCounts : n <= m
           top == CHOOSE m \in MaxCounts : P(m)
<1>1. \E m \in MaxCounts : P(m)
  BY SemAssumption
<1>2. top \in MaxCounts /\ P(top)
  BY <1>1
<1>3. Counts = 0 .. top
  BY DEF Counts
<1> HIDE DEF top
<1> QED BY <1>2, <1>3, SemAssumption, HeadsFacts

LEMMA WaitingIsOn ==
  ASSUME NEW s \in KernelState, NEW t, NEW h \in WaitList
  PROVE  t \in Elems(s.list[h]) <=> h \in On(s, t)
BY WaitListFacts DEF On

LEMMA NobodyOn ==
  ASSUME NEW s \in KernelState, NEW h \in Sem
  PROVE  s.list[h] = <<>> <=> \A t \in Task : h \notin On(s, t)
<1>1. s.list[h] \in Seq(Task) /\ h \in Heads
  BY SemHeads DEF KernelState
<1>2. s.list[h] = <<>> <=> Elems(s.list[h]) = {}
  BY <1>1, ElemsEmpty
<1>3. Elems(s.list[h]) \subseteq Task
  BY <1>1, ElemsType
<1> QED BY <1>1, <1>2, <1>3 DEF On

\* A step in which nobody starts to wait, and a task leaves its call only when it waits
\* no longer.
LEMMA SteadyWaiters ==
  ASSUME Core(os), Waiters, Steady(os, os'), call' \in [Task -> Sem \cup {NoCall}],
         \A t \in Task : \/ call'[t] = call[t]
                         \/ "TIMEOUT" \notin os'.status[t] /\ On(os', t) \cap WaitList = {}
  PROVE  Core(os') /\ Waiters' /\ \A h \in Sem : os.list[h] = <<>> => os'.list[h] = <<>>
<1>1. os \in KernelState /\ os' \in KernelState /\ Core(os')
  BY DEF Steady, Core, Consistent
<1>2. \A t \in Task, h \in WaitList : h \in On(os', t) => h \in On(os, t)
  BY DEF Steady, Eases, Drains, On
<1>3. \A t \in Task : "PEND_QUEUE" \notin os'.status[t]
  BY DEF Steady, Eases, Waits, Waiters
<1>4. \A t \in Task : "TIMEOUT" \in os'.status[t] => call'[t] # NoCall
  BY DEF Steady, Eases, Waits, Waiters
<1>5. WaitsInCall'
  <2> SUFFICES ASSUME NEW t \in Task, NEW h \in WaitList, t \in Elems(os'.list[h])
               PROVE  call'[t] = h
    BY DEF WaitsInCall
  <2>1. h \in On(os', t) /\ h \in On(os, t)
    BY <1>1, <1>2, WaitingIsOn
  <2>2. call[t] = h
    BY <1>1, <2>1, WaitingIsOn DEF Waiters, WaitsInCall
  <2> QED BY <2>1, <2>2
<1>6. \A h \in Sem : os.list[h] = <<>> => os'.list[h] = <<>>
  BY <1>1, <1>2, NobodyOn, SemHeads
<1> QED BY <1>1, <1>3, <1>4, <1>5, <1>6 DEF Waiters

LEMMA SemInitInv == SemInit => SemInv
<1> SUFFICES ASSUME SemInit PROVE SemInv
  OBVIOUS
<1>1. Core(os) /\ Highest(os) /\ Quiet(os) /\ os \in KernelState
  BY InitInv DEF SemInit, InitIpc, Inv, Core, Consistent
<1>2. call = [t \in Task |-> NoCall]
  BY DEF SemInit, InitIpc
<1>3. /\ \A t \in Task, h \in WaitList : t \notin Elems(os.list[h])
      /\ \A h \in Sem : os.list[h] = <<>>
  <2>1. \A t \in Task : On(os, t) \cap WaitList = {}
    BY <1>1 DEF Core, Consistent, TaskAgrees, Quiet, Waits
  <2> QED BY <1>1, <2>1, NobodyOn, WaitingIsOn, SemHeads
<1>4. Waiters
  BY <1>1, <1>2, <1>3 DEF Waiters, Quiet, Waits, WaitsInCall
<1>5. Blocks
  <2>1. PICK m \in MaxCounts : sem = [h \in Sem |-> [used |-> FALSE, count |-> 0, max |-> m]]
    <3> DEFINE m == CHOOSE m \in MaxCounts : TRUE
    <3>1. m \in MaxCounts
      BY SemAssumption
    <3> QED BY <3>1 DEF SemInit, osSemInit
  <2>2. unusedSem \in Seq(Sem) /\ NoDup(unusedSem)
    BY SemAssumption DEF SemInit, osSemInit, NoDup, Sem
  <2>3. Elems(unusedSem) \subseteq Sem
    BY DEF SemInit, osSemInit, Sem
  <2>4. taken \in [Sem -> Int]
    BY DEF SemInit, osSemInit
  <2> QED BY <2>1, <2>2, <2>3, <2>4, SemHeads DEF Blocks, SemCb
<1>6. NoIdlePermit
  BY <1>3 DEF NoIdlePermit
<1> QED BY <1>1, <1>4, <1>5, <1>6 DEF SemInv

LEMMA SemCreateInv ==
  ASSUME SemInv, NEW m \in MaxCounts, NEW c \in Counts, osSemCreate(c, m)
  PROVE  SemInv'
<1> DEFINE h == Head(unusedSem)
           cb == [used |-> TRUE, count |-> c, max |-> m]
<1>1. /\ c <= m /\ unusedSem # <<>> /\ sem' = [sem EXCEPT ![h] = cb]
      /\ unusedSem' = Tail(unusedSem) /\ os' = os /\ call' = call /\ taken' = taken
  BY DEF osSemCreate
<1>2. /\ h \in Sem /\ h \in Elems(unusedSem) /\ Tail(unusedSem) \in Seq(Sem)
      /\ NoDup(Tail(unusedSem)) /\ Elems(Tail(unusedSem)) = Elems(unusedSem) \ {h}
  BY <1>1, HeadTailElems DEF SemInv, Blocks
<1>3. cb \in SemCb /\ cb.used /\ cb.count = c /\ cb.max = m
  BY DEF SemCb
<1> HIDE DEF h, cb
<1>4. ~sem[h].used /\ os.list[h] = <<>>
  BY <1>2 DEF SemInv, Blocks, NoIdlePermit
<1>5. sem' \in [Sem -> SemCb] /\ sem'[h] = cb /\ \A g \in Sem \ {h} : sem'[g] = sem[g]
  BY <1>1, <1>2, <1>3 DEF SemInv, Blocks
<1>6. Blocks'
  <2>1. \A g \in Elems(unusedSem') : ~sem'[g].used
    BY <1>1, <1>2, <1>5, ElemsType DEF SemInv, Blocks
  <2>2. \A g \in Sem : sem'[g].used => sem'[g].count <= sem'[g].max
    BY <1>1, <1>3, <1>5 DEF SemInv, Blocks
  <2> QED BY <1>1, <1>2, <1>5, <2>1, <2>2 DEF SemInv, Blocks
<1>7. NoIdlePermit'
  BY <1>1, <1>4, <1>5 DEF SemInv, NoIdlePermit
<1>8. Core(os') /\ Highest(os') /\ Waiters'
  BY <1>1 DEF SemInv, Waiters, WaitsInCall
<1> QED BY <1>6, <1>7, <1>8 DEF SemInv

LEMMA SemDeleteInv ==
  ASSUME SemInv, NEW h \in Sem, LOS_SemDelete(h)
  PROVE  SemInv'
<1> DEFINE one == <<h>>
<1>1. /\ sem[h].used /\ os.list[h] = <<>> /\ sem' = [sem EXCEPT ![h].used = FALSE]
      /\ unusedSem' = one \o unusedSem /\ os' = os /\ call' = call
      /\ taken' = [taken EXCEPT ![h] = 0]
  BY DEF LOS_SemDelete
<1>2. one \in Seq(Sem) /\ NoDup(one) /\ Elems(one) = {h}
  BY DEF NoDup, Elems
<1>3. Elems(one) \cap Elems(unusedSem) = {}
  BY <1>1, <1>2 DEF SemInv, Blocks
<1> HIDE DEF one
<1>4. /\ unusedSem' \in Seq(Sem) /\ NoDup(unusedSem')
      /\ Elems(unusedSem') = {h} \cup Elems(unusedSem)
  BY <1>1, <1>2, <1>3, ConcatElems DEF SemInv, Blocks
<1>5. sem' \in [Sem -> SemCb] /\ ~sem'[h].used /\ \A g \in Sem \ {h} : sem'[g] = sem[g]
  BY <1>1 DEF SemInv, Blocks, SemCb
<1>6. Blocks'
  <2>1. taken' \in [Sem -> Int]
    BY <1>1 DEF SemInv, Blocks
  <2> QED BY <1>4, <1>5, <2>1, ElemsType DEF SemInv, Blocks
<1>7. NoIdlePermit'
  BY <1>1, <1>5 DEF SemInv, NoIdlePermit
<1>8. Core(os') /\ Highest(os') /\ Waiters'
  BY <1>1 DEF SemInv, Waiters, WaitsInCall
<1> QED BY <1>6, <1>7, <1>8 DEF SemInv

\* The count of a semaphore nobody waits for goes up or down.
LEMMA CountInv ==
  ASSUME SemInv, NEW h \in Sem, os.list[h] = <<>>, NEW c \in Counts, c <= sem[h].max,
         sem' = [sem EXCEPT ![h].count = c], UNCHANGED <<os, call, unusedSem>>,
         NEW d \in Int, taken' = [taken EXCEPT ![h] = d]
  PROVE  SemInv'
<1>1. /\ sem' \in [Sem -> SemCb] /\ sem'[h].used = sem[h].used
      /\ sem'[h].count = c /\ sem'[h].max = sem[h].max
      /\ \A g \in Sem \ {h} : sem'[g] = sem[g]
  BY DEF SemInv, Blocks, SemCb
<1>2. Blocks'
  <2>1. taken' \in [Sem -> Int]
    BY DEF SemInv, Blocks
  <2> QED BY <1>1, <2>1, ElemsType DEF SemInv, Blocks
<1>3. NoIdlePermit'
  BY <1>1 DEF SemInv, NoIdlePermit
<1>4. Core(os') /\ Highest(os') /\ Waiters'
  BY DEF SemInv, Waiters, WaitsInCall
<1> QED BY <1>2, <1>3, <1>4 DEF SemInv

\* A step in which nobody starts to wait and the control blocks stay as they are.
LEMMA SteadyInv ==
  ASSUME SemInv, Steady(os, os'), call' \in [Task -> Sem \cup {NoCall}],
         \A t \in Task : \/ call'[t] = call[t]
                         \/ "TIMEOUT" \notin os'.status[t] /\ On(os', t) \cap WaitList = {},
         UNCHANGED <<sem, unusedSem, taken>>
  PROVE  SemInv'
<1>1. Core(os') /\ Waiters' /\ \A h \in Sem : os.list[h] = <<>> => os'.list[h] = <<>>
  BY SteadyWaiters DEF SemInv
<1>2. Blocks' /\ NoIdlePermit' /\ Highest(os')
  BY <1>1 DEF SemInv, Blocks, NoIdlePermit, Steady
<1> QED BY <1>1, <1>2 DEF SemInv

LEMMA SemTakeInv ==
  ASSUME SemInv, NEW h \in Sem, SemTake(h)
  PROVE  SemInv'
<1>1. /\ sem[h].used /\ sem[h].count > 0 /\ sem' = [sem EXCEPT ![h].count = sem[h].count - 1]
      /\ taken' = [taken EXCEPT ![h] = taken[h] + 1] /\ taken[h] + 1 \in Int
      /\ UNCHANGED <<os, call, unusedSem>>
  BY DEF SemTake, SemInv, Blocks
<1>2. sem[h].count \in Counts /\ sem[h].count <= sem[h].max /\ sem[h].max \in Nat
  BY <1>1, SemHeads DEF SemInv, Blocks, SemCb
<1>3. sem[h].count - 1 \in Counts /\ sem[h].count - 1 <= sem[h].max
  <2>1. \A n \in Counts : n > 0 => n - 1 \in Counts
    BY SemHeads
  <2> QED BY <1>1, <1>2, <2>1, SemHeads
<1>4. os.list[h] = <<>>
  BY <1>1 DEF SemInv, NoIdlePermit
<1> QED BY <1>1, <1>3, <1>4, CountInv

LEMMA SemWaitInv ==
  ASSUME SemInv, NEW h \in Sem, NEW n \in SemTimeouts, SemWait(h, n)
  PROVE  SemInv'
<1> DEFINE t == os.run
<1>1. /\ TaskContext /\ os.lock = 0 /\ sem[h].used /\ sem[h].count = 0
      /\ Block(h, "PEND", n, h) /\ UNCHANGED <<sem, unusedSem, taken>>
      /\ t \in Task => call[t] = NoCall
  BY DEF SemWait, FreeTaskContext, Ready2Call
<1>2. h \in WaitList /\ n \in Ticks \cup {LOS_WAIT_FOREVER} /\ "PEND" \in {"PEND", "PEND_QUEUE"}
  BY SemAssumption
<1>3. t \in Task /\ "TIMEOUT" \notin os.status[t]
  BY <1>1, CallerReady DEF SemInv, Waiters
<1>4. /\ Core(os') /\ Highest(os')
      /\ \A u \in Task : On(os', u) = IF u = t THEN {h} ELSE On(os, u)
      /\ \A u \in Task \ {t} : os'.status[u] = os.status[u]
      /\ os'.status[t] \subseteq os.status[t] \cup {"PEND", "TIMEOUT"}
  BY <1>1, <1>2, <1>3, BlockStep DEF SemInv
<1>5. call' = [call EXCEPT ![t] = h]
  BY <1>1 DEF Block
<1>6. os \in KernelState /\ os' \in KernelState
  BY <1>4 DEF SemInv, Core, Consistent
<1> HIDE DEF t
<1>7. Waiters'
  <2>1. call' \in [Task -> Sem \cup {NoCall}]
    BY <1>5 DEF SemInv, Waiters
  <2>2. \A u \in Task : /\ "PEND_QUEUE" \notin os'.status[u]
                        /\ "TIMEOUT" \in os'.status[u] => call'[u] # NoCall
    BY <1>3, <1>4, <1>5, SemHeads DEF SemInv, Waiters
  <2>3. WaitsInCall'
    <3> SUFFICES ASSUME NEW u \in Task, NEW g \in WaitList, u \in Elems(os'.list[g])
                 PROVE  call'[u] = g
      BY DEF WaitsInCall
    <3>1. g \in On(os', u)
      BY <1>6, WaitingIsOn
    <3>2. CASE u = t
      BY <1>3, <1>4, <1>5, <3>1, <3>2 DEF SemInv, Waiters
    <3>3. CASE u # t
      <4>1. u \in Elems(os.list[g])
        BY <1>4, <1>6, <3>1, <3>3, WaitingIsOn
      <4> QED BY <1>5, <3>3, <4>1 DEF SemInv, Waiters, WaitsInCall
    <3> QED BY <3>2, <3>3
  <2> QED BY <2>1, <2>2, <2>3 DEF Waiters
<1>8. NoIdlePermit'
  <2> SUFFICES ASSUME NEW g \in Sem, os'.list[g] # <<>>, g # h
               PROVE  os.list[g] # <<>>
    BY <1>1 DEF SemInv, NoIdlePermit
  <2>1. PICK u \in Task : g \in On(os', u)
    BY <1>6, NobodyOn
  <2>2. g \in On(os, u)
    BY <1>4, <2>1
  <2> QED BY <1>6, <2>2, NobodyOn
<1>9. Blocks'
  BY <1>1 DEF SemInv, Blocks
<1> QED BY <1>4, <1>7, <1>8, <1>9 DEF SemInv

LEMMA SemPendReturnInv ==
  ASSUME SemInv, NEW h \in Sem, SemPendReturn(h)
  PROVE  SemInv'
<1> DEFINE t == os.run
<1>1. /\ TaskContext /\ os' = ClearTimeout(os) /\ call' = [call EXCEPT ![t] = NoCall]
      /\ UNCHANGED <<sem, unusedSem, taken>>
  BY DEF SemPendReturn, InCall, Return
<1>2. /\ Steady(os, os') /\ t \in Task /\ \A u \in Task : On(os', u) = On(os, u)
      /\ "TIMEOUT" \notin os'.status[t] /\ On(os, t) \cap WaitList = {}
  BY <1>1, ClearTimeoutStep DEF SemInv
<1> HIDE DEF t
<1>3. call' \in [Task -> Sem \cup {NoCall}] /\ \A u \in Task \ {t} : call'[u] = call[u]
  BY <1>1 DEF SemInv, Waiters
<1> QED BY <1>1, <1>2, <1>3, SteadyInv

LEMMA SemPostInv ==
  ASSUME SemInv, NEW h \in Sem, LOS_SemPost(h)
  PROVE  SemInv'
<1>1. /\ TaskContext \/ IrqContext
      /\ sem[h].used /\ sem[h].count # sem[h].max /\ call' = call /\ unusedSem' = unusedSem
  BY DEF LOS_SemPost, FreeTaskContext
<1>2. CASE os.list[h] # <<>>
  <2> DEFINE t == Head(os.list[h])
  <2>1. os' = Reschedule(osTaskWake(os, t, "PEND")) /\ sem' = sem /\ taken' = taken
    BY <1>2 DEF LOS_SemPost
  <2>2. t \in Task /\ h \in On(os, t)
    <3> DEFINE l == os.list[h]
    <3>1. h \in Heads /\ l \in Seq(Task) /\ NoDup(l) /\ l # <<>>
      BY <1>2, SemHeads DEF SemInv, Core, Consistent, KernelState, WellLinked
    <3> HIDE DEF l
    <3>2. Head(l) \in Task /\ Head(l) \in Elems(l)
      BY <3>1, HeadTailElems
    <3> QED BY <3>1, <3>2 DEF On, l
  <2> HIDE DEF t
  <2>3. "PEND" \in os.status[t]
    <3>1. os.status[t] \cap {"PEND", "PEND_QUEUE"} # {}
      BY <2>2, SemHeads DEF SemInv, Core, Consistent, TaskAgrees
    <3> QED BY <2>2, <3>1 DEF SemInv, Waiters
  <2>4. Steady(os, os')
    BY <1>1, <2>1, <2>2, <2>3, WakeStep DEF SemInv
  <2> QED BY <1>1, <2>1, <2>4, SteadyInv DEF SemInv, Waiters
<1>3. CASE os.list[h] = <<>>
  <2>1. /\ sem' = [sem EXCEPT ![h].count = sem[h].count + 1] /\ os' = os
        /\ taken' = [taken EXCEPT ![h] = taken[h] - 1] /\ taken[h] - 1 \in Int
    BY <1>3 DEF LOS_SemPost, SemInv, Blocks
  <2>2. /\ sem[h].count \in Counts /\ sem[h].count <= sem[h].max
        /\ sem[h].max \in Counts /\ sem[h].max \in Nat /\ sem[h].count \in Nat
    BY <1>1, SemHeads DEF SemInv, Blocks, SemCb
  <2>3. \A m \in Counts, c \in Counts : c <= m /\ c # m => c + 1 \in Counts /\ c + 1 <= m
    BY SemHeads
  <2> QED BY <1>1, <1>3, <2>1, <2>2, <2>3, CountInv
<1> QED BY <1>2, <1>3

LEMMA SemNextInv ==
  ASSUME ~IsrSuspends, SemInv, [SemNext]_vars
  PROVE  SemInv'
<1>1. CASE SemCall
  BY <1>1, SemCreateInv, SemDeleteInv, SemTakeInv, SemWaitInv, SemPendReturnInv, SemPostInv
     DEF SemCall
<1>2. CASE KernelStep /\ UNCHANGED <<sem, unusedSem, taken>>
  <2>1. Steady(os, os') /\ call' = call
    BY <1>2, KernelStepSteady DEF SemInv
  <2> QED BY <1>2, <2>1, SteadyInv DEF SemInv, Waiters
<1>3. CASE \E t \in Task : DeleteStep(t) /\ UNCHANGED <<sem, unusedSem, taken>>
  <2>1. PICK t \in Task : DeleteStep(t) /\ UNCHANGED <<sem, unusedSem, taken>>
    BY <1>3
  <2>2. /\ Steady(os, os') /\ os'.status[t] = {"UNUSED"}
        /\ call' = [call EXCEPT ![t] = NoCall]
    BY <2>1, DeleteStepSteady DEF SemInv
  <2>3. "TIMEOUT" \notin os'.status[t] /\ On(os', t) \cap WaitList = {}
    BY <2>2 DEF Steady, Core, Consistent, TaskAgrees
  <2>4. call' \in [Task -> Sem \cup {NoCall}] /\ \A u \in Task \ {t} : call'[u] = call[u]
    BY <2>2 DEF SemInv, Waiters
  <2> QED BY <2>1, <2>2, <2>3, <2>4, SteadyInv
<1>4. CASE UNCHANGED vars
  BY <1>4 DEF vars, SemInv, Waiters, Blocks, NoIdlePermit, WaitsInCall
<1> QED BY <1>1, <1>2, <1>3, <1>4 DEF SemNext

----------------------------------------------------------------------------
\* What each step is for the abstract semaphore.

Limit(h) == IF sem[h].used THEN sem[h].max ELSE 0
Limits == [h \in Sem |-> Limit(h)]
Avail == [h \in Sem |-> sem[h].count]
Lines == [h \in Sem |-> os.list[h]]
Views == [t \in Task |-> SemView(t)]

AbstractStep == [Abstract!Next]_(Abstract!svars)

LEMMA PermitsSame ==
  sem' = sem /\ taken' = taken => Limits' = Limits /\ Avail' = Avail /\ taken' = taken
BY DEF Limits, Limit, Avail

\* The maximum and the use of a semaphore stay while its count moves.
LEMMA CountMoves ==
  ASSUME SemInv, NEW h \in Sem, NEW c, sem' = [sem EXCEPT ![h].count = c]
  PROVE  Limits' = Limits /\ Avail' = [Avail EXCEPT ![h] = c]
BY DEF Limits, Limit, Avail, SemInv, Blocks, SemCb

LEMMA LinesSame == (\A h \in Sem : os'.list[h] = os.list[h]) => Lines' = Lines
BY DEF Lines

LEMMA ViewsAre == Views = [t \in Task |-> View(t)] /\ Views' = [t \in Task |-> View(t)']
BY DEF Views, SemView, View

LEMMA ViewsSame == (\A t \in Task : SameView(t)) => Views' = Views
BY ViewsAre DEF SameView

LEMMA ViewsOne ==
  ASSUME NEW t \in Task, \A u \in Task \ {t} : SameView(u)
  PROVE  Views' = [Views EXCEPT ![t] = View(t)']
BY ViewsAre DEF SameView

LEMMA StutterStep ==
  ASSUME Limits' = Limits, Avail' = Avail, taken' = taken, Lines' = Lines, Views' = Views
  PROVE  AbstractStep
BY DEF AbstractStep, Abstract!svars, Limits, Limit, Avail, Lines, Views

\* The calls of the kernel that touch neither lists nor calls.
LEMMA CalmViews ==
  ASSUME os' = os, call' = call
  PROVE  Lines' = Lines /\ Views' = Views
BY LinesSame, ViewsSame, ViewKept DEF SameView

LEMMA OpenStep ==
  ASSUME NEW h \in Sem, Limit(h) = 0, NEW m \in MaxCounts, NEW n \in 0 .. m,
         Limits' = [Limits EXCEPT ![h] = m], Avail' = [Avail EXCEPT ![h] = n],
         taken' = taken, Lines' = Lines, Views' = Views
  PROVE  AbstractStep
<1>1. Abstract!Open(h)
  BY DEF Abstract!Open, Limits, Limit, Avail, Lines, Views
<1> QED BY <1>1 DEF AbstractStep, Abstract!Next

LEMMA CloseStep ==
  ASSUME NEW h \in Sem, Limit(h) > 0, os.list[h] = <<>>,
         Limits' = [Limits EXCEPT ![h] = 0], Avail' = Avail,
         taken' = [taken EXCEPT ![h] = 0], Lines' = Lines, Views' = Views
  PROVE  AbstractStep
<1>1. Abstract!Close(h)
  BY DEF Abstract!Close, Limits, Limit, Avail, Lines, Views
<1> QED BY <1>1 DEF AbstractStep, Abstract!Next

LEMMA TakeStep ==
  ASSUME NEW h \in Sem, Limit(h) > 0, sem[h].count > 0, Limits' = Limits,
         Avail' = [Avail EXCEPT ![h] = @ - 1], taken' = [taken EXCEPT ![h] = @ + 1],
         Lines' = Lines, Views' = Views
  PROVE  AbstractStep
<1>1. Abstract!Take(h)
  BY DEF Abstract!Take, Limits, Limit, Avail, Lines, Views
<1> QED BY <1>1 DEF AbstractStep, Abstract!Next

LEMMA CountStep ==
  ASSUME NEW h \in Sem, sem[h].count < Limit(h), os.list[h] = <<>>, Limits' = Limits,
         Avail' = [Avail EXCEPT ![h] = @ + 1], taken' = [taken EXCEPT ![h] = @ - 1],
         Lines' = Lines, Views' = Views
  PROVE  AbstractStep
<1>1. Abstract!Post(h)
  BY DEF Abstract!Post, Limits, Limit, Avail, Lines, Views
<1> QED BY <1>1 DEF AbstractStep, Abstract!Next

LEMMA HandStep ==
  ASSUME NEW h \in Sem, sem[h].count < Limit(h), os.list[h] # <<>>,
         Limits' = Limits, Avail' = Avail, taken' = taken,
         Lines' = [Lines EXCEPT ![h] = Tail(@)],
         Views' = [Views EXCEPT ![Head(os.list[h])] = "granted"]
  PROVE  AbstractStep
<1>1. Abstract!Post(h)
  BY DEF Abstract!Post, Limits, Limit, Avail, Lines, Views
<1> QED BY <1>1 DEF AbstractStep, Abstract!Next

LEMMA JoinStep ==
  ASSUME NEW h \in Sem, NEW t \in Task, Limit(h) > 0, sem[h].count = 0, Views[t] = "out",
         Limits' = Limits, Avail' = Avail, taken' = taken,
         Lines' = [Lines EXCEPT ![h] = Append(@, t)], Views' = [Views EXCEPT ![t] = "waits"]
  PROVE  AbstractStep
<1>1. Abstract!Wait(t, h)
  BY DEF Abstract!Wait, Limits, Limit, Avail, Lines, Views
<1> QED BY <1>1 DEF AbstractStep, Abstract!Next

LEMMA LeaveStep ==
  ASSUME NEW t \in Task, Views[t] \in {"granted", "expired"},
         Limits' = Limits, Avail' = Avail, taken' = taken, Lines' = Lines,
         Views' = [Views EXCEPT ![t] = "out"]
  PROVE  AbstractStep
<1>1. Abstract!Leave(t)
  BY DEF Abstract!Leave, Limits, Limit, Avail, Lines, Views
<1> QED BY <1>1 DEF AbstractStep, Abstract!Next

LEMMA QuitStep ==
  ASSUME NEW t \in Task, NEW h \in Sem, Quits(Sem, t, h), sem' = sem, taken' = taken,
         NEW w, w = "expired" \/ w = "out", View(t)' = w
  PROVE  AbstractStep
<1> DEFINE left(i) == SubSeq(os.list[h], 1, i - 1) \o SubSeq(os.list[h], i + 1, Len(os.list[h]))
<1>1. PICK i \in DOMAIN os.list[h] : os.list[h][i] = t /\ os'.list[h] = left(i)
  BY DEF Quits
<1>2. Lines' = [Lines EXCEPT ![h] = left(i)]
  BY <1>1 DEF Quits, Lines
<1>3. /\ Limits' = Limits /\ Avail' = Avail /\ Views[t] = "waits"
      /\ Views' = [Views EXCEPT ![t] = w]
  BY PermitsSame, ViewsOne, ViewsAre DEF Quits
<1>4. Abstract!Quit(t, h, w)
  <2>1. /\ Lines[h] = os.list[h] /\ i \in DOMAIN Lines[h] /\ Lines[h][i] = t
        /\ Lines' = [Lines EXCEPT ![h] = SubSeq(@, 1, i - 1) \o SubSeq(@, i + 1, Len(@))]
    BY <1>1, <1>2 DEF Lines
  <2> HIDE DEF left
  <2> QED BY <1>3, <2>1 DEF Abstract!Quit, Limits, Limit, Avail, Lines, Views
<1>5. Abstract!Expire(t, h) \/ Abstract!Vanish(t, h)
  BY <1>4 DEF Abstract!Expire, Abstract!Vanish
<1> QED BY <1>5 DEF AbstractStep, Abstract!Next

\* A semaphore in use has room for a permit.
LEMMA InUse ==
  ASSUME SemInv, NEW h \in Sem, sem[h].used
  PROVE  Limit(h) > 0 /\ (sem[h].count # sem[h].max => sem[h].count < Limit(h))
<1>1. /\ Limit(h) = sem[h].max /\ sem[h].max \in MaxCounts /\ sem[h].count \in Counts
      /\ sem[h].count <= sem[h].max
  BY DEF SemInv, Blocks, SemCb, Limit
<1>2. sem[h].max \in Nat \ {0} /\ sem[h].count \in Nat
  BY <1>1, SemHeads
<1> QED BY <1>1, <1>2

LEMMA SemCreateAbstract ==
  ASSUME SemInv, NEW m \in MaxCounts, NEW c \in Counts, osSemCreate(c, m)
  PROVE  AbstractStep
<1> DEFINE h == Head(unusedSem)
           cb == [used |-> TRUE, count |-> c, max |-> m]
<1>1. /\ c <= m /\ unusedSem # <<>> /\ sem' = [sem EXCEPT ![h] = cb]
      /\ os' = os /\ call' = call /\ taken' = taken
  BY DEF osSemCreate
<1>2. h \in Sem /\ h \in Elems(unusedSem)
  BY <1>1, HeadTailElems DEF SemInv, Blocks
<1>3. Limit(h) = 0
  BY <1>2 DEF SemInv, Blocks, Limit
<1>4. c \in 0 .. m
  BY <1>1, SemHeads
<1>5. Limits' = [Limits EXCEPT ![h] = m] /\ Avail' = [Avail EXCEPT ![h] = c]
  <2>1. cb.count = c /\ cb.max = m /\ cb.used
    OBVIOUS
  <2> HIDE DEF h, cb
  <2> QED BY <1>1, <1>2, <2>1 DEF Limits, Limit, Avail, SemInv, Blocks
<1> HIDE DEF h
<1> QED BY <1>1, <1>2, <1>3, <1>4, <1>5, CalmViews, OpenStep

LEMMA SemDeleteAbstract ==
  ASSUME SemInv, NEW h \in Sem, LOS_SemDelete(h)
  PROVE  AbstractStep
<1>1. /\ sem' = [sem EXCEPT ![h].used = FALSE] /\ os' = os /\ call' = call
      /\ taken' = [taken EXCEPT ![h] = 0] /\ os.list[h] = <<>> /\ sem[h].used
  BY DEF LOS_SemDelete
<1>2. Limits' = [Limits EXCEPT ![h] = 0] /\ Avail' = Avail
  BY <1>1 DEF Limits, Limit, Avail, SemInv, Blocks, SemCb
<1>3. Limit(h) > 0
  BY <1>1, InUse
<1> QED BY <1>1, <1>2, <1>3, CalmViews, CloseStep

LEMMA SemTakeAbstract ==
  ASSUME SemInv, NEW h \in Sem, SemTake(h)
  PROVE  AbstractStep
<1>1. /\ sem' = [sem EXCEPT ![h].count = sem[h].count - 1] /\ os' = os /\ call' = call
      /\ taken' = [taken EXCEPT ![h] = @ + 1] /\ sem[h].used /\ sem[h].count > 0
  BY DEF SemTake, SemInv, Blocks
<1>2. Limits' = Limits /\ Avail' = [Avail EXCEPT ![h] = sem[h].count - 1]
  BY <1>1, CountMoves
<1>3. Avail' = [Avail EXCEPT ![h] = @ - 1]
  BY <1>2 DEF Avail
<1>4. Limit(h) > 0
  BY <1>1, InUse
<1> QED BY <1>1, <1>2, <1>3, <1>4, CalmViews, TakeStep

LEMMA SemWaitAbstract ==
  ASSUME SemInv, NEW h \in Sem, NEW n \in SemTimeouts, SemWait(h, n)
  PROVE  AbstractStep
<1> DEFINE t == os.run
<1>1. /\ TaskContext /\ os.lock = 0 /\ sem[h].used /\ sem[h].count = 0
      /\ Block(h, "PEND", n, h) /\ sem' = sem /\ taken' = taken
      /\ t \in Task => call[t] = NoCall
  BY DEF SemWait, FreeTaskContext, Ready2Call
<1>2. h \in WaitList /\ n \in Ticks \cup {LOS_WAIT_FOREVER} /\ "PEND" \in {"PEND", "PEND_QUEUE"}
  BY SemAssumption
<1>3. t \in Task /\ "TIMEOUT" \notin os.status[t] /\ call[t] = NoCall /\ DOMAIN call = Task
  BY <1>1, CallerReady DEF SemInv, Waiters
<1>4. \A u \in Task \ {t} : os'.status[u] = os.status[u]
  BY <1>1, <1>2, <1>3, BlockStep DEF SemInv
<1>5. \A g \in WaitList : os'.list[g] = IF g = h THEN Append(os.list[h], t) ELSE os.list[g]
  BY <1>1, <1>2, <1>3, BlockStepOrder DEF SemInv
<1>6. call' = [call EXCEPT ![t] = h] /\ Consistent(os)
  BY <1>1 DEF Block, SemInv, Core
<1>7. PICK u \in Task : u = t
  BY <1>3
<1> HIDE DEF t
<1>8. View(u) = "out" /\ View(u)' = "waits" /\ \A v \in Task \ {u} : SameView(v)
  BY <1>2, <1>3, <1>4, <1>5, <1>6, <1>7, SemAssumption, WaitViews, ZenonT(30)
<1>9. Lines' = [Lines EXCEPT ![h] = Append(@, u)]
  BY <1>5, <1>7, SemHeads DEF Lines
<1>10. Views[u] = "out" /\ Views' = [Views EXCEPT ![u] = "waits"]
  BY <1>8, ViewsAre, ViewsOne
<1> QED BY <1>1, <1>9, <1>10, InUse, PermitsSame, JoinStep

LEMMA SemPendReturnAbstract ==
  ASSUME SemInv, NEW h \in Sem, SemPendReturn(h)
  PROVE  AbstractStep
<1>1. /\ TaskContext /\ call[os.run] = h /\ os' = ClearTimeout(os) /\ Return
      /\ sem' = sem /\ taken' = taken
  BY DEF SemPendReturn, InCall
<1>2. PICK t : t = os.run
  OBVIOUS
<1>3. /\ t \in Task /\ View(t) \in {"granted", "expired"} /\ View(t)' = "out"
      /\ \A g \in WaitList : os'.list[g] = os.list[g]
      /\ \A u \in Task \ {t} : SameView(u)
  BY <1>1, <1>2, SemHeads, ReturnViews DEF SemInv, Waiters
<1>4. /\ Views[t] \in {"granted", "expired"} /\ Views' = [Views EXCEPT ![t] = "out"]
      /\ Lines' = Lines
  BY <1>3, ViewsAre, ViewsOne, LinesSame, SemHeads
<1> QED BY <1>1, <1>3, <1>4, PermitsSame, LeaveStep

LEMMA SemPostAbstract ==
  ASSUME SemInv, NEW h \in Sem, LOS_SemPost(h)
  PROVE  AbstractStep
<1>1. TaskContext \/ IrqContext
  BY DEF LOS_SemPost, FreeTaskContext
<1>2. /\ call' = call /\ Consistent(os) /\ h \in WaitList
      /\ sem[h].used /\ sem[h].count # sem[h].max
  BY SemHeads DEF LOS_SemPost, SemInv, Core
<1>0. sem[h].count < Limit(h)
  BY <1>2, InUse
<1>3. CASE os.list[h] # <<>>
  <2>1. PICK t : t = Head(os.list[h])
    OBVIOUS
  <2>2. os' = Reschedule(osTaskWake(os, t, "PEND")) /\ sem' = sem /\ taken' = taken
    BY <1>3, <2>1 DEF LOS_SemPost
  <2>3. t \in Task /\ t \in Elems(os.list[h])
    <3> DEFINE l == os.list[h]
    <3>1. l \in Seq(Task) /\ NoDup(l)
      BY <1>2, ListTypes
    <3> HIDE DEF l
    <3> QED BY <1>3, <2>1, <3>1, HeadTailElems DEF l
  <2>4. "PEND" \in os.status[t] /\ call[t] = h
    <3>1. os.status[t] \cap {"PEND", "PEND_QUEUE"} # {}
      BY <1>2, <2>3, WaitListFacts DEF Consistent, TaskAgrees, On
    <3> QED BY <1>2, <2>3, <3>1 DEF SemInv, Waiters, WaitsInCall
  <2>5. /\ \A u \in Task \ {t} : os'.status[u] = os.status[u]
        /\ os'.status[t] \ {"READY"} = os.status[t] \ {"PEND", "TIMEOUT"}
    BY <1>1, <2>2, <2>3, <2>4, WakeStep DEF SemInv
  <2>6. Leaves(os, os', t)
    BY <1>2, <2>2, <2>3, <2>4, WakeStepOrder
  <2>7. View(t)' = "granted" /\ \A u \in Task \ {t} : SameView(u)
    <3>1. "TIMEOUT" \notin os'.status[t] /\ call'[t] # NoCall
      BY <1>2, <2>4, <2>5, SemHeads
    <3> QED BY <1>2, <2>3, <2>5, <2>6, <3>1, LeavesViews
  <2>8. os'.list[h] = Tail(os.list[h])
    BY <1>2, <1>3, <2>1, <2>6, ListTypes, UnlinkFirst DEF Leaves
  <2>9. \A g \in Sem \ {h} : os'.list[g] = os.list[g]
    BY <2>3, <2>4, <2>6, UnlinkOther, SemHeads DEF Leaves, SemInv, Waiters, WaitsInCall
  <2>10. Lines' = [Lines EXCEPT ![h] = Tail(@)] /\ Views' = [Views EXCEPT ![t] = "granted"]
    BY <2>3, <2>7, <2>8, <2>9, ViewsOne DEF Lines
  <2> QED BY <1>0, <1>3, <2>1, <2>2, <2>10, PermitsSame, HandStep
<1>4. CASE os.list[h] = <<>>
  <2>1. /\ sem' = [sem EXCEPT ![h].count = sem[h].count + 1] /\ os' = os
        /\ taken' = [taken EXCEPT ![h] = @ - 1]
    BY <1>4 DEF LOS_SemPost, SemInv, Blocks
  <2>2. Limits' = Limits /\ Avail' = [Avail EXCEPT ![h] = sem[h].count + 1]
    BY <2>1, CountMoves
  <2>3. Avail' = [Avail EXCEPT ![h] = @ + 1]
    BY <2>2 DEF Avail
  <2> QED BY <1>0, <1>2, <1>4, <2>1, <2>2, <2>3, CalmViews, CountStep
<1> QED BY <1>3, <1>4

LEMMA SemNextAbstract ==
  ASSUME ~IsrSuspends, SemInv, [SemNext]_vars
  PROVE  AbstractStep
<1>0. /\ WaitsInCall /\ Core(os) /\ NoCall \notin WaitList /\ Sem \subseteq WaitList
      /\ call \in [Task -> Sem \cup {NoCall}]
  BY SemAssumption DEF SemInv, Waiters
<1>1. CASE SemCall
  BY <1>1, SemCreateAbstract, SemDeleteAbstract, SemTakeAbstract, SemWaitAbstract,
     SemPendReturnAbstract, SemPostAbstract DEF SemCall
<1>2. CASE KernelStep /\ UNCHANGED <<sem, unusedSem, taken>>
  <2>1. \/ /\ \A h \in Sem : os'.list[h] = os.list[h]
           /\ \A t \in Task : SameView(t)
        \/ \E t \in Task, h \in Sem : Quits(Sem, t, h) /\ View(t)' = "expired"
    BY <1>0, <1>2, KernelStepViews
  <2>2. sem' = sem /\ taken' = taken
    BY <1>2
  <2> QED BY <2>1, <2>2, PermitsSame, LinesSame, ViewsSame, StutterStep, QuitStep
<1>3. CASE \E t \in Task : DeleteStep(t) /\ UNCHANGED <<sem, unusedSem, taken>>
  <2>1. PICK t \in Task : DeleteStep(t) /\ sem' = sem /\ taken' = taken
    BY <1>3
  <2>2. /\ View(t)' = "out"
        /\ \/ \E h \in Sem : Quits(Sem, t, h)
           \/ /\ View(t) \in {"out", "granted", "expired"}
              /\ \A h \in Sem : os'.list[h] = os.list[h]
              /\ \A u \in Task \ {t} : SameView(u)
    BY <1>0, <2>1, DeleteStepViews
  <2>3. CASE \E h \in Sem : Quits(Sem, t, h)
    BY <2>1, <2>2, <2>3, QuitStep
  <2>4. CASE ~ \E h \in Sem : Quits(Sem, t, h)
    <3>1. /\ Limits' = Limits /\ Avail' = Avail /\ taken' = taken
          /\ Lines' = Lines /\ Views' = [Views EXCEPT ![t] = "out"]
      BY <2>1, <2>2, <2>4, PermitsSame, LinesSame, ViewsOne
    <3>2. CASE View(t) = "out"
      <4>1. Views' = Views
        BY <2>2, <2>4, <3>2, ViewsSame DEF SameView
      <4> QED BY <3>1, <4>1, StutterStep
    <3>3. CASE View(t) # "out"
      <4>1. Views[t] \in {"granted", "expired"}
        BY <2>2, <2>4, <3>3, ViewsAre
      <4> QED BY <3>1, <4>1, LeaveStep
    <3> QED BY <3>2, <3>3
  <2> QED BY <2>3, <2>4
<1>4. CASE UNCHANGED vars
  BY <1>4, CalmViews, PermitsSame, StutterStep DEF vars
<1> QED BY <1>1, <1>2, <1>3, <1>4 DEF SemNext

LEMMA SemInitAbstract == SemInit => Abstract!Init
<1> SUFFICES ASSUME SemInit PROVE Abstract!Init
  OBVIOUS
<1>1. SemInv /\ call = [t \in Task |-> NoCall]
  BY SemInitInv DEF SemInit, InitIpc
<1>2. (\A h \in Sem : sem[h].count = 0 /\ ~sem[h].used) /\ taken = [h \in Sem |-> 0]
  BY DEF SemInit, osSemInit
<1>3. \A h \in Sem : os.list[h] = <<>>
  <2>1. \A t \in Task, h \in WaitList : t \notin Elems(os.list[h])
    BY <1>1, SemAssumption DEF SemInv, Waiters, WaitsInCall
  <2> QED BY <1>1, <2>1, NobodyOn, WaitingIsOn, SemHeads DEF SemInv, Core, Consistent
<1>4. \A t \in Task : SemView(t) = "out"
  BY <1>1 DEF SemView
<1> QED BY <1>2, <1>3, <1>4 DEF Abstract!Init

----------------------------------------------------------------------------

THEOREM SemInvariance ==
  ASSUME ~IsrSuspends
  PROVE  SemSpec => []SemInv
<1>1. SemInit => SemInv
  BY SemInitInv
<1>2. SemInv /\ [SemNext]_vars => SemInv'
  BY SemNextInv
<1> QED BY <1>1, <1>2, PTL DEF SemSpec

\* The kernel semaphore (los_sem.c) implements the abstract one: from its creation to its
\* deletion the count is what it was created with, less the permits taken at once, plus
\* those posted while nobody waited; a permit posted while tasks wait goes to the first of
\* them; and a task returns from its wait with such a permit or with an error.
THEOREM SemImplements ==
  ASSUME ~IsrSuspends
  PROVE  SemSpec => ImplementsSemaphore
<1>1. SemInit => Abstract!Init
  BY SemInitAbstract
<1>2. SemInv /\ [SemNext]_vars => [Abstract!Next]_(Abstract!svars)
  BY SemNextAbstract DEF AbstractStep
<1> QED BY <1>1, <1>2, SemInvariance, PTL DEF SemSpec, ImplementsSemaphore, Abstract!Spec

\* Every field of the kernel and of the control blocks keeps its type and its bounds: no
\* count leaves its range.
THEOREM SemTypeCorrect ==
  ASSUME ~IsrSuspends
  PROVE  SemSpec => []SemTypeOK
<1>1. SemInv => SemTypeOK
  BY DEF SemInv, Core, Consistent, TypeOK, SemTypeOK, Waiters, Blocks
<1> QED BY <1>1, SemInvariance, PTL

\* With tasks blocking, timing out and being deleted while they wait, every task control
\* block is on exactly the lists its status says.
THEOREM SemListsAgree ==
  ASSUME ~IsrSuspends
  PROVE  SemSpec => []ListsAgree
<1>1. SemInv => ListsAgree
  BY ConsistentLists DEF SemInv, Core, ListsAgree
<1> QED BY <1>1, SemInvariance, PTL

\* A task waits on the semaphore it is inside LOS_SemPend for, whatever ended other waits.
THEOREM SemWaitsWhereItCalled ==
  ASSUME ~IsrSuspends
  PROVE  SemSpec => []WaitsWhereItCalled
<1>1. SemInv => WaitsWhereItCalled
  BY SemHeads DEF SemInv, Waiters, WaitsInCall, WaitsWhereItCalled
<1> QED BY <1>1, SemInvariance, PTL

\* No permit lies idle while a task waits for one, and a semaphore somebody waits for is
\* never deleted.
THEOREM SemNoIdlePermit ==
  ASSUME ~IsrSuspends
  PROVE  SemSpec => []NoIdlePermit
<1>1. SemInv => NoIdlePermit
  BY DEF SemInv
<1> QED BY <1>1, SemInvariance, PTL

\* No post, expiry or delete forgets to reschedule: a woken task of higher priority runs.
THEOREM SemHighestRuns ==
  ASSUME ~IsrSuspends
  PROVE  SemSpec => []HighestReadyRuns
<1>1. SemInv => HighestReadyRuns
  BY DEF SemInv, Highest, Settled, HighestReadyRuns
<1> QED BY <1>1, SemInvariance, PTL

=============================================================================
