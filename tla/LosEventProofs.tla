--------------------------- MODULE LosEventProofs ---------------------------
(***************************************************************************)
(* Proofs about the events of LosEvent.                                    *)
(***************************************************************************)
EXTENDS LosEvent, LosTaskProofs

\* Who waits: for an event, in the list of the event of its call, and TIMEOUT is set inside
\* a call only.
Waiters ==
  /\ call \in [Task -> EventCall \cup {NoCall}]
  /\ \A t \in Task : /\ "PEND_QUEUE" \notin os.status[t]
                     /\ "TIMEOUT" \in os.status[t] => call[t] # NoCall
  /\ \A t \in Task, h \in WaitList :
       t \in Elems(os.list[h]) => call[t] \in EventCall /\ call[t].event = h

\* Nobody waits for flags that are set.
Patient ==
  \A t \in Task : Waiting(t) => Polled(call[t]) = {}

\* The inductive invariant of the events.
EventInv ==
  Core(os) /\ Highest(os) /\ Waiters /\ Patient /\ uwEventID \in [Event -> SUBSET EventBit]

LEMMA EventFacts ==
  /\ Event \subseteq WaitList /\ NoCall \notin EventCall
  /\ \A c \in EventCall : /\ c.event \in Event /\ c.mask \subseteq EventBit /\ c.mask # {}
                          /\ c.mode = "OR" \/ c.mode = "AND"
  /\ \A m \in Masks : m \subseteq EventBit
  /\ EventTimeouts \subseteq Ticks \cup {LOS_WAIT_FOREVER}
<1>1. \A c \in EventCall : /\ c.event \in Event /\ c.mask \in (SUBSET EventBit) \ {{}}
                           /\ c.mode \in {"OR", "AND"}
  BY EventAssumption
<1> QED BY <1>1, EventAssumption

LEMMA WaitingIsOn ==
  ASSUME NEW s \in KernelState, NEW t, NEW h \in WaitList
  PROVE  t \in Elems(s.list[h]) <=> h \in On(s, t)
BY WaitListFacts DEF On

LEMMA WaitingOn ==
  ASSUME NEW t
  PROVE  /\ os \in KernelState => (Waiting(t) <=> On(os, t) \cap WaitList # {})
         /\ os' \in KernelState => (Waiting(t)' <=> On(os', t) \cap WaitList # {})
BY WaitingIsOn DEF Waiting

----------------------------------------------------------------------------
\* The walk of LOS_EventWrite.

\* The tasks of W have been woken, and nothing else has changed about tasks.
Wakes(s, r, W) ==
  /\ Consistent(r) /\ Alike(s, r)
  /\ \A u \in Task : On(r, u) \cap WaitList = IF u \in W THEN {} ELSE On(s, u) \cap WaitList
  /\ \A u \in Task \ W : r.status[u] = s.status[u]
  /\ \A u \in W : r.status[u] \ {"READY"} = s.status[u] \ {"PEND", "TIMEOUT"}

\* Induction up to n, on a set.
LEMMA UpTo ==
  ASSUME NEW n \in Nat, NEW S, 0 \in S, \A j \in 0 .. n : j < n /\ j \in S => j + 1 \in S
  PROVE  \A j \in 0 .. n : j \in S
<1> SUFFICES ASSUME NEW i \in 0 .. n, i \notin S PROVE FALSE
  OBVIOUS
<1> DEFINE T == {j \in 0 .. n : j \notin S}
<1>1. T \subseteq Nat /\ T # {}
  OBVIOUS
<1>2. PICK p \in T : \A q \in T : p <= q
  BY <1>1, LeastNumber
<1>3. p \in Nat /\ p # 0 /\ p <= n
  BY <1>2
<1>4. p - 1 \in 0 .. n /\ p - 1 < n /\ ~(p <= p - 1) /\ (p - 1) + 1 = p
  BY <1>3
<1>5. p - 1 \in S
  BY <1>2, <1>4
<1> QED BY <1>2, <1>4, <1>5

\* What the walk makes of the state r at the task t.
Visit(r, t, W) == IF t \in W THEN osTaskWake(r, t, "PEND") ELSE r

Walk(s, q, W, n, f) == f = [k \in 0 .. n |-> IF k = 0 THEN s ELSE Visit(f[k - 1], q[k], W)]

\* The walk has a result after every number of tasks.
LEMMA WalkExists ==
  ASSUME NEW n \in Nat, NEW s, NEW q, NEW W
  PROVE  \E f : Walk(s, q, W, n, f)
<1> DEFINE S == {m \in 0 .. n :
                   \E f : f = [k \in 0 .. m |-> IF k = 0 THEN s ELSE Visit(f[k - 1], q[k], W)]}
<1>1. 0 \in S
  <2> DEFINE f == [k \in 0 .. 0 |-> s]
  <2>0. \A k \in 0 .. 0 : k = 0
    OBVIOUS
  <2>1. f = [k \in 0 .. 0 |-> IF k = 0 THEN s ELSE Visit(f[k - 1], q[k], W)]
    BY <2>0, Zenon
  <2>2. 0 \in 0 .. n
    OBVIOUS
  <2> QED BY <2>1, <2>2, Zenon
<1>2. ASSUME NEW m \in 0 .. n, m < n, m \in S PROVE m + 1 \in S
  <2>1. PICK f : f = [k \in 0 .. m |-> IF k = 0 THEN s ELSE Visit(f[k - 1], q[k], W)]
    BY <1>2, Zenon
  <2> DEFINE g == [k \in 0 .. m + 1 |-> IF k <= m THEN f[k] ELSE Visit(f[m], q[k], W)]
  <2>2. \A k \in 0 .. m : f[k] = IF k = 0 THEN s ELSE Visit(f[k - 1], q[k], W)
    BY <2>1, Zenon
  <2>3. ASSUME NEW k \in 0 .. m + 1
        PROVE  g[k] = IF k = 0 THEN s ELSE Visit(g[k - 1], q[k], W)
    <3>1. CASE k <= m
      <4>1. k \in 0 .. m /\ (k # 0 => k - 1 \in 0 .. m + 1 /\ k - 1 <= m)
        BY <3>1
      <4>2. g[k] = f[k] /\ (k # 0 => g[k - 1] = f[k - 1])
        BY <3>1, <4>1, Zenon
      <4> QED BY <2>2, <4>1, <4>2, Zenon
    <3>2. CASE ~(k <= m)
      <4>1. k = m + 1 /\ k # 0 /\ k - 1 = m /\ m \in 0 .. m + 1 /\ m <= m
        BY <3>2
      <4>2. g[k] = Visit(f[m], q[k], W) /\ g[m] = f[m]
        BY <3>2, <4>1, Zenon
      <4> QED BY <4>1, <4>2, Zenon
    <3> QED BY <3>1, <3>2, Zenon
  <2>4. g = [k \in 0 .. m + 1 |-> IF k = 0 THEN s ELSE Visit(g[k - 1], q[k], W)]
    BY <2>3, Zenon
  <2> HIDE DEF g
  <2>5. \E h : h = [k \in 0 .. m + 1 |-> IF k = 0 THEN s ELSE Visit(h[k - 1], q[k], W)]
    BY <2>4, Zenon
  <2>6. m + 1 \in 0 .. n
    BY <1>2
  <2> QED BY <2>5, <2>6, Zenon
<1> HIDE DEF S
<1>3. n \in S
  BY <1>1, <1>2, UpTo
<1> QED BY <1>3, Zenon DEF S, Walk

\* The states along the walk.
Visits(s, q, W, f) ==
  /\ f[0] = s /\ WakeAll(s, q, W) = f[Len(q)]
  /\ \A k \in 1 .. Len(q) : f[k] = Visit(f[k - 1], q[k], W)

LEMMA WalkIs ==
  ASSUME NEW s, NEW q, Len(q) \in Nat, NEW W
  PROVE  \E f : Visits(s, q, W, f)
<1> DEFINE F == CHOOSE f : f = [k \in 0 .. Len(q) |->
                                  IF k = 0 THEN s ELSE Visit(f[k - 1], q[k], W)]
<1>1. \E f : f = [k \in 0 .. Len(q) |-> IF k = 0 THEN s ELSE Visit(f[k - 1], q[k], W)]
  <2>1. \E f : Walk(s, q, W, Len(q), f)
    BY WalkExists, Zenon
  <2> QED BY <2>1, Zenon DEF Walk
<1>2. F = [k \in 0 .. Len(q) |-> IF k = 0 THEN s ELSE Visit(F[k - 1], q[k], W)]
  BY <1>1, Zenon
<1>3. WakeAll(s, q, W) = F[Len(q)]
  BY DEF WakeAll, Visit
<1> HIDE DEF F
<1>4. \A k \in 0 .. Len(q) : F[k] = IF k = 0 THEN s ELSE Visit(F[k - 1], q[k], W)
  BY <1>2, Zenon
<1>5. F[0] = s
  BY <1>4, 0 \in 0 .. Len(q), Zenon
<1>6. ASSUME NEW k \in 1 .. Len(q) PROVE F[k] = Visit(F[k - 1], q[k], W)
  <2>1. k \in 0 .. Len(q) /\ k # 0
    OBVIOUS
  <2> QED BY <1>4, <2>1, Zenon
<1> QED BY <1>3, <1>5, <1>6, Zenon DEF Visits

LEMMA WakesMore ==
  ASSUME NEW s, NEW r, NEW V \in SUBSET Task, Wakes(s, r, V), NEW t \in Task \ V, "PEND" \in s.status[t]
  PROVE  Wakes(s, osTaskWake(r, t, "PEND"), V \cup {t})
<1> DEFINE m == osTaskWake(r, t, "PEND")
<1>1. Consistent(r) /\ Alike(s, r) /\ r.status[t] = s.status[t]
  BY DEF Wakes
<1>2. /\ Consistent(m) /\ Alike(r, m) /\ SameBut(r, m, t)
      /\ m.status[t] \ {"READY"} = r.status[t] \ {"PEND", "TIMEOUT"}
      /\ On(m, t) \cap WaitList = {}
  BY <1>1, WakeFacts
<1> HIDE DEF m
<1>3. Alike(s, m)
  BY <1>1, <1>2 DEF Alike
<1>4. \A u \in Task : On(m, u) \cap WaitList = IF u \in V \cup {t} THEN {} ELSE On(s, u) \cap WaitList
  BY <1>2 DEF Wakes, SameBut
<1>5. \A u \in Task \ (V \cup {t}) : m.status[u] = s.status[u]
  BY <1>2 DEF Wakes, SameBut
<1>6. \A u \in V \cup {t} : m.status[u] \ {"READY"} = s.status[u] \ {"PEND", "TIMEOUT"}
  BY <1>1, <1>2 DEF Wakes, SameBut
<1> QED BY <1>2, <1>3, <1>4, <1>5, <1>6 DEF Wakes, m

\* The walk wakes the tasks of the set, each once, and no others.
LEMMA WakeAllFacts ==
  ASSUME NEW s, Consistent(s), NEW q \in Seq(Task), NoDup(q), NEW W, W \subseteq Elems(q),
         \A t \in W : "PEND" \in s.status[t]
  PROVE  Wakes(s, WakeAll(s, q, W), W)
<1>1. Len(q) \in Nat /\ DOMAIN q = 1 .. Len(q) /\ \A j \in 1 .. Len(q) : q[j] \in Task
  OBVIOUS
<1>2. PICK f : Visits(s, q, W, f)
  BY <1>1, WalkIs
<1> DEFINE Seen(k) == {t \in W : \E j \in 1 .. k : q[j] = t}
           S == {k \in 0 .. Len(q) : Wakes(s, f[k], Seen(k))}
<1>3. Seen(0) = {} /\ Seen(Len(q)) = W
  BY <1>1 DEF Elems
<1>4. \A k \in 0 .. Len(q) : k < Len(q) =>
        /\ k + 1 \in 1 .. Len(q) /\ (k + 1) - 1 = k /\ q[k + 1] \in Task
        /\ q[k + 1] \notin Seen(k)
        /\ Seen(k + 1) = IF q[k + 1] \in W THEN Seen(k) \cup {q[k + 1]} ELSE Seen(k)
  <2> SUFFICES ASSUME NEW k \in 0 .. Len(q), k < Len(q)
               PROVE  /\ k + 1 \in 1 .. Len(q) /\ (k + 1) - 1 = k /\ q[k + 1] \in Task
                      /\ q[k + 1] \notin Seen(k)
                      /\ Seen(k + 1) = IF q[k + 1] \in W THEN Seen(k) \cup {q[k + 1]} ELSE Seen(k)
    OBVIOUS
  <2>1. k + 1 \in 1 .. Len(q) /\ (k + 1) - 1 = k /\ q[k + 1] \in Task
    BY <1>1
  <2>2. \A j \in 1 .. k : j \in 1 .. Len(q) /\ j # k + 1
    BY <1>1
  <2>3. q[k + 1] \notin Seen(k)
    BY <1>1, <2>1, <2>2 DEF NoDup
  <2>4. \A j : j \in 1 .. k + 1 <=> j \in 1 .. k \/ j = k + 1
    BY <1>1
  <2> QED BY <2>1, <2>3, <2>4
<1>5. Wakes(s, s, {}) /\ \A k : Seen(k) \in SUBSET Task
  <2>1. Elems(q) \subseteq Task
    BY ElemsType
  <2> QED BY <2>1 DEF Wakes, Alike
<1> HIDE DEF Seen
<1>6. \A k : k \in S <=> k \in 0 .. Len(q) /\ Wakes(s, f[k], Seen(k))
  OBVIOUS
<1> HIDE DEF S
<1>7. 0 \in S
  <2>1. Wakes(s, f[0], Seen(0))
    BY <1>2, <1>3, <1>5 DEF Visits
  <2> QED BY <1>1, <1>6, <2>1
<1>8. ASSUME NEW k \in 0 .. Len(q), k < Len(q), k \in S PROVE k + 1 \in S
  <2>1. /\ k + 1 \in 1 .. Len(q) /\ k + 1 \in 0 .. Len(q)
        /\ q[k + 1] \in Task \ Seen(k) /\ f[k + 1] = Visit(f[k], q[k + 1], W)
        /\ Wakes(s, f[k], Seen(k))
    BY <1>1, <1>2, <1>4, <1>6, <1>8 DEF Visits
  <2>2. Wakes(s, f[k + 1], Seen(k + 1))
    <3>1. CASE q[k + 1] \in W
      <4>1. "PEND" \in s.status[q[k + 1]] /\ f[k + 1] = osTaskWake(f[k], q[k + 1], "PEND")
        BY <2>1, <3>1 DEF Visit
      <4>2. Wakes(s, f[k + 1], Seen(k) \cup {q[k + 1]})
        BY <1>5, <2>1, <4>1, WakesMore
      <4> QED BY <1>4, <1>8, <3>1, <4>2
    <3>2. CASE q[k + 1] \notin W
      <4>1. f[k + 1] = f[k] /\ Seen(k + 1) = Seen(k)
        BY <1>4, <1>8, <2>1, <3>2 DEF Visit
      <4> QED BY <2>1, <4>1
    <3> QED BY <3>1, <3>2
  <2> QED BY <1>6, <2>1, <2>2
<1>9. Len(q) \in S
  <2>1. \A j \in 0 .. Len(q) : j \in S
    BY <1>1, <1>7, <1>8, UpTo
  <2> QED BY <1>1, <2>1
<1> QED BY <1>2, <1>3, <1>6, <1>9 DEF Visits

\* With nobody to wake the walk changes nothing.
LEMMA WalkSame ==
  ASSUME NEW s, NEW q \in Seq(Task)
  PROVE  WakeAll(s, q, {}) = s
<1>1. Len(q) \in Nat
  OBVIOUS
<1>2. PICK f : Visits(s, q, {}, f)
  BY <1>1, WalkIs
<1> DEFINE S == {k \in 0 .. Len(q) : f[k] = s}
<1>3. 0 \in S
  BY <1>1, <1>2 DEF Visits
<1>4. ASSUME NEW k \in 0 .. Len(q), k < Len(q), k \in S PROVE k + 1 \in S
  <2>1. k + 1 \in 1 .. Len(q) /\ (k + 1) - 1 = k
    BY <1>4
  <2>2. f[k + 1] = f[k]
    BY <1>2, <2>1 DEF Visits, Visit
  <2> QED BY <1>4, <2>1, <2>2
<1>5. Len(q) \in S
  <2>1. \A j \in 0 .. Len(q) : j \in S
    BY <1>1, <1>3, <1>4, UpTo
  <2> QED BY <1>1, <2>1
<1> QED BY <1>2, <1>5 DEF Visits

\* Waking any number of tasks before one reschedule.
LEMMA WakesSteady ==
  ASSUME Core(os), TaskContext \/ IrqContext, NEW W \in SUBSET Task, NEW m, Wakes(os, m, W),
         \A t \in W : "PEND" \in os.status[t], os' = Reschedule(m)
  PROVE  /\ Steady(os, os')
         /\ \A u \in Task : On(os', u) \cap WaitList = IF u \in W THEN {} ELSE On(os, u) \cap WaitList
         /\ \A u \in Task \ W : os'.status[u] = os.status[u]
         /\ \A u \in W : os'.status[u] \ {"READY"} = os.status[u] \ {"PEND", "TIMEOUT"}
<1>1. Consistent(os) /\ os.scheduled
  BY DEF Core, Control, TaskContext, ThreadMode, IrqContext
<1>2. Consistent(m) /\ Alike(os, m)
  BY DEF Wakes
<1>3. Drains(os, m)
  <2>1. os \in KernelState /\ m \in KernelState
    BY <1>1, <1>2 DEF Consistent
  <2> SUFFICES ASSUME NEW h \in WaitList, NEW u \in Elems(m.list[h]) PROVE u \in Elems(os.list[h])
    BY DEF Drains
  <2>2. u \in Task /\ h \in On(m, u)
    BY <1>2, <2>1, ListTypes, WaitingIsOn
  <2>3. h \in On(os, u)
    BY <2>2 DEF Wakes
  <2> QED BY <2>1, <2>3, WaitingIsOn
<1>4. Kept(os, m)
  <2>1. \A u \in Task : /\ "RUNNING" \in m.status[u] <=> "RUNNING" \in os.status[u]
                        /\ m.status[u] \cap Waits \subseteq os.status[u]
    <3> SUFFICES ASSUME NEW u \in Task
                 PROVE  /\ "RUNNING" \in m.status[u] <=> "RUNNING" \in os.status[u]
                        /\ m.status[u] \cap Waits \subseteq os.status[u]
      OBVIOUS
    <3>1. CASE u \in W
      <4>1. m.status[u] \ {"READY"} = os.status[u] \ {"PEND", "TIMEOUT"}
        BY <3>1 DEF Wakes
      <4> QED BY <4>1 DEF Waits
    <3>2. CASE u \notin W
      BY <3>2 DEF Wakes
    <3> QED BY <3>1, <3>2
  <2>2. os.lock > 0 => "READY" \in m.status[os.run]
    <3> SUFFICES ASSUME os.lock > 0 PROVE "READY" \in m.status[os.run]
      OBVIOUS
    <3>1. "READY" \in os.status[os.run]
      BY <1>1 DEF Core, Control
    <3>2. os.run \in Task
      BY <1>1, <3>1 DEF Consistent, KernelState, IdleStays, Tcb
    <3>3. os.run \notin W
      BY <1>1, <3>1, <3>2 DEF Consistent, TaskAgrees, Blocked
    <3> QED BY <3>1, <3>2, <3>3 DEF Wakes
  <2> QED BY <1>2, <1>3, <2>1, <2>2 DEF Kept, Eases
<1>5. Steady(os, os')
  <2>1. CASE os.irq
    <3>1. os' = LOS_Schedule(m)
      BY <1>2, <2>1 DEF Reschedule, Alike
    <3>2. m.needSchedule => m.scan
      BY <1>2 DEF Alike, Core, Control
    <3>3. /\ m.run = os.run /\ m.lock = os.lock /\ m.scheduled = os.scheduled
          /\ m.pendSV = os.pendSV /\ m.wild = os.wild
      BY <1>2 DEF Alike
    <3>4. Steady(os, LOS_Schedule(m))
      BY <1>1, <1>2, <1>4, <3>2, <3>3, ScheduleInv, Zenon
    <3> QED BY <3>1, <3>4
  <2>2. CASE ~os.irq
    <3>1. os.run \in Task /\ ~os.pendSV /\ ~os.irq /\ ~os.scan
      BY <2>2, CallerReady DEF IrqContext
    <3> QED BY <1>1, <1>2, <1>3, <1>4, <3>1, CallInv
  <2> QED BY <2>1, <2>2
<1>6. os'.status = m.status /\ \A u \in Task : On(os', u) = On(m, u)
  <2>1. os.irq \/ os.scan \/ os.run \in Task
    BY CallerReady DEF IrqContext
  <2>2. os'.list = m.list /\ os'.status = m.status
    BY <1>2, <2>1, RescheduleFacts DEF Alike
  <2> QED BY <2>2 DEF On
<1> QED BY <1>5, <1>6 DEF Wakes


----------------------------------------------------------------------------
\* The parts of the invariant.

\* What a poll finds only shrinks with the flags.
LEMMA FewerFlags ==
  ASSUME NEW c \in EventCall, uwEventID'[c.event] \subseteq uwEventID[c.event], Polled(c) = {}
  PROVE  Polled(c)' = {}
<1>1. c.mask # {} /\ (c.mode = "OR" \/ c.mode = "AND")
  BY EventFacts
<1>2. /\ Polled(c) = IF c.mode = "OR" \/ c.mask \subseteq uwEventID[c.event]
                     THEN c.mask \cap uwEventID[c.event] ELSE {}
      /\ Polled(c)' = IF c.mode = "OR" \/ c.mask \subseteq uwEventID'[c.event]
                      THEN c.mask \cap uwEventID'[c.event] ELSE {}
  BY DEF Polled
<1> QED BY <1>1, <1>2

LEMMA PollFacts ==
  ASSUME EventInv, NEW c \in EventCall
  PROVE  /\ PollLeaves(c) \in [Event -> SUBSET EventBit]
         /\ \A e \in Event : PollLeaves(c)[e] \subseteq uwEventID[e]
<1>1. c.event \in Event /\ uwEventID \in [Event -> SUBSET EventBit]
  BY EventFacts DEF EventInv
<1> QED BY <1>1 DEF PollLeaves

\* A step in which nobody starts to wait and a task leaves its call only when it waits no
\* longer, and whoever goes on waiting does it for flags that are not set.
LEMMA SteadyInv ==
  ASSUME EventInv, Steady(os, os'), call' \in [Task -> EventCall \cup {NoCall}],
         \A t \in Task : \/ call'[t] = call[t]
                         \/ "TIMEOUT" \notin os'.status[t] /\ On(os', t) \cap WaitList = {},
         uwEventID' \in [Event -> SUBSET EventBit],
         \A t \in Task, c \in EventCall :
           On(os', t) \cap WaitList # {} /\ call[t] = c /\ Polled(c) = {} => Polled(c)' = {}
  PROVE  EventInv'
<1>1. os \in KernelState /\ os' \in KernelState /\ Core(os') /\ Highest(os')
  BY DEF Steady, EventInv, Core, Consistent
<1>2. \A t \in Task, h \in WaitList : h \in On(os', t) => h \in On(os, t)
  BY DEF Steady, Eases, Drains, On
<1>3. \A t \in Task : "PEND_QUEUE" \notin os'.status[t]
  BY DEF Steady, Eases, Waits, EventInv, Waiters
<1>4. \A t \in Task : "TIMEOUT" \in os'.status[t] => call'[t] # NoCall
  BY DEF Steady, Eases, Waits, EventInv, Waiters
<1>5. ASSUME NEW t \in Task, NEW h \in WaitList, h \in On(os', t)
      PROVE  call'[t] = call[t] /\ call[t] \in EventCall /\ call[t].event = h
  <2>1. t \in Elems(os.list[h])
    BY <1>1, <1>2, <1>5, WaitingIsOn
  <2>2. call'[t] = call[t]
    BY <1>5
  <2> QED BY <2>1, <2>2 DEF EventInv, Waiters
<1>6. Waiters'
  <2>1. \A t \in Task, h \in WaitList :
          t \in Elems(os'.list[h]) => call'[t] \in EventCall /\ call'[t].event = h
    BY <1>1, <1>5, WaitingIsOn
  <2> QED BY <1>3, <1>4, <2>1 DEF Waiters
<1>7. Patient'
  <2> SUFFICES ASSUME NEW t \in Task, Waiting(t)' PROVE Polled(call[t])' = {}
    BY DEF Patient
  <2>1. PICK h \in WaitList : h \in On(os', t)
    BY <1>1, WaitingOn
  <2>2. Waiting(t)
    BY <1>1, <1>2, <2>1, WaitingOn
  <2>3. PICK c \in EventCall : c = call[t] /\ call'[t] = c
    BY <1>5, <2>1
  <2>4. Polled(c) = {}
    BY <2>2, <2>3 DEF EventInv, Patient
  <2>5. Polled(c)' = {}
    BY <2>1, <2>3, <2>4
  <2>6. Polled(call[t])' = Polled(c)'
    BY <2>3 DEF Polled
  <2> QED BY <2>5, <2>6
<1> QED BY <1>1, <1>6, <1>7 DEF EventInv

\* The same when flags are only taken or cleared.
LEMMA FewerInv ==
  ASSUME EventInv, Steady(os, os'), call' \in [Task -> EventCall \cup {NoCall}],
         \A t \in Task : \/ call'[t] = call[t]
                         \/ "TIMEOUT" \notin os'.status[t] /\ On(os', t) \cap WaitList = {},
         uwEventID' \in [Event -> SUBSET EventBit],
         \A e \in Event : uwEventID'[e] \subseteq uwEventID[e]
  PROVE  EventInv'
<1>1. \A c \in EventCall : Polled(c) = {} => Polled(c)' = {}
  BY FewerFlags, EventFacts
<1> QED BY <1>1, SteadyInv

LEMMA EventTakeInv ==
  ASSUME EventInv, NEW c \in EventCall, EventTake(c)
  PROVE  EventInv'
<1>1. uwEventID' = PollLeaves(c) /\ os' = os /\ call' = call
  BY DEF EventTake
<1>2. Steady(os, os') /\ call' \in [Task -> EventCall \cup {NoCall}]
  BY <1>1, SteadySame DEF EventInv, Waiters
<1> QED BY <1>1, <1>2, PollFacts, FewerInv

LEMMA EventClearInv ==
  ASSUME EventInv, NEW e \in Event, NEW m \in Masks, LOS_EventClear(e, EventBit \ m)
  PROVE  EventInv'
<1>1. uwEventID' = [uwEventID EXCEPT ![e] = @ \cap (EventBit \ m)] /\ os' = os /\ call' = call
  BY DEF LOS_EventClear
<1>2. Steady(os, os') /\ call' \in [Task -> EventCall \cup {NoCall}]
  BY <1>1, SteadySame DEF EventInv, Waiters
<1>3. /\ uwEventID' \in [Event -> SUBSET EventBit]
      /\ \A g \in Event : uwEventID'[g] \subseteq uwEventID[g]
  BY <1>1 DEF EventInv
<1> QED BY <1>1, <1>2, <1>3, FewerInv

LEMMA EventReadReturnInv ==
  ASSUME EventInv, NEW c \in EventCall, EventReadReturn(c)
  PROVE  EventInv'
<1> DEFINE t == os.run
<1>1. /\ TaskContext /\ os' = ClearTimeout(os) /\ call' = [call EXCEPT ![t] = NoCall]
      /\ uwEventID' = uwEventID \/ uwEventID' = PollLeaves(c)
  BY DEF EventReadReturn, InCall, Return
<1>2. /\ Steady(os, os') /\ t \in Task /\ \A u \in Task : On(os', u) = On(os, u)
      /\ "TIMEOUT" \notin os'.status[t] /\ On(os, t) \cap WaitList = {}
  BY <1>1, ClearTimeoutStep DEF EventInv
<1> HIDE DEF t
<1>3. /\ call' \in [Task -> EventCall \cup {NoCall}]
      /\ \A u \in Task \ {t} : call'[u] = call[u]
  BY <1>1 DEF EventInv, Waiters
<1>4. /\ uwEventID' \in [Event -> SUBSET EventBit]
      /\ \A e \in Event : uwEventID'[e] \subseteq uwEventID[e]
  BY <1>1, PollFacts DEF EventInv
<1> QED BY <1>2, <1>3, <1>4, FewerInv

LEMMA EventWaitInv ==
  ASSUME EventInv, NEW c \in EventCall, NEW n \in EventTimeouts, EventWait(c, n)
  PROVE  EventInv'
<1> DEFINE t == os.run
           h == c.event
<1>1. /\ TaskContext /\ os.lock = 0 /\ Polled(c) = {} /\ uwEventID' = uwEventID
      /\ Block(h, "PEND", n, c) /\ call' = [call EXCEPT ![t] = c]
      /\ t \in Task => call[t] = NoCall
  BY DEF EventWait, FreeTaskContext, Ready2Call, Block
<1>2. /\ h \in WaitList /\ n \in Ticks \cup {LOS_WAIT_FOREVER} /\ c # NoCall
      /\ "PEND" \in {"PEND", "PEND_QUEUE"}
  BY EventFacts
<1>3. t \in Task /\ "TIMEOUT" \notin os.status[t] /\ call[t] = NoCall
  BY <1>1, CallerReady DEF EventInv, Waiters
<1>4. /\ Core(os') /\ Highest(os')
      /\ \A u \in Task : On(os', u) = IF u = t THEN {h} ELSE On(os, u)
      /\ \A u \in Task \ {t} : os'.status[u] = os.status[u]
      /\ os'.status[t] \subseteq os.status[t] \cup {"PEND", "TIMEOUT"}
  BY <1>1, <1>2, <1>3, BlockStep DEF EventInv
<1>5. os \in KernelState /\ os' \in KernelState
  BY <1>4 DEF EventInv, Core, Consistent
<1> HIDE DEF t, h
<1>7. /\ call' \in [Task -> EventCall \cup {NoCall}] /\ call'[t] = c
      /\ \A u \in Task \ {t} : call'[u] = call[u]
  BY <1>1, <1>3 DEF EventInv, Waiters
<1>8. \A u \in Task, f \in WaitList :
        u \in Elems(os'.list[f]) => call'[u] \in EventCall /\ call'[u].event = f
  <2> SUFFICES ASSUME NEW u \in Task, NEW f \in WaitList, f \in On(os', u)
               PROVE  call'[u] \in EventCall /\ call'[u].event = f
    BY <1>5, WaitingIsOn
  <2>1. CASE u = t
    BY <1>4, <1>7, <2>1 DEF h
  <2>2. CASE u # t
    <3>1. u \in Elems(os.list[f])
      BY <1>4, <1>5, <2>2, WaitingIsOn
    <3> QED BY <1>7, <2>2, <3>1 DEF EventInv, Waiters
  <2> QED BY <2>1, <2>2
<1>9. Waiters'
  <2>1. \A u \in Task : /\ "PEND_QUEUE" \notin os'.status[u]
                        /\ "TIMEOUT" \in os'.status[u] => call'[u] # NoCall
    BY <1>2, <1>3, <1>4, <1>7 DEF EventInv, Waiters
  <2> QED BY <1>7, <1>8, <2>1 DEF Waiters
<1>10. Patient'
  <2> SUFFICES ASSUME NEW u \in Task, Waiting(u)' PROVE Polled(call[u])' = {}
    BY DEF Patient
  <2>1. CASE u = t
    <3>1. Polled(call[u])' = Polled(c)
      BY <1>1, <1>7, <2>1 DEF Polled
    <3> QED BY <1>1, <3>1
  <2>2. CASE u # t
    <3>1. Waiting(u)
      BY <1>4, <1>5, <2>2, WaitingOn
    <3>2. Polled(call[u])' = Polled(call[u])
      BY <1>1, <1>7, <2>2 DEF Polled
    <3> QED BY <3>1, <3>2 DEF EventInv, Patient
  <2> QED BY <2>1, <2>2
<1> QED BY <1>1, <1>4, <1>9, <1>10 DEF EventInv


\* The tasks a write satisfies are those that would now find what they wait for.
LEMMA SatisfiedIs ==
  ASSUME NEW t, NEW c \in EventCall, call[t] = c, Polled(c) = {}, NEW m,
         uwEventID \in [Event -> SUBSET EventBit],
         uwEventID' = [uwEventID EXCEPT ![c.event] = @ \cup m]
  PROVE  Satisfied(t, m, uwEventID'[c.event]) <=> Polled(c)' # {}
<1>1. c.event \in Event /\ c.mask # {} /\ (c.mode = "OR" \/ c.mode = "AND")
  BY EventFacts
<1> DEFINE id == uwEventID[c.event]
           new == uwEventID'[c.event]
<1>2. new = id \cup m
  BY <1>1
<1>3. /\ Polled(c) = IF c.mode = "OR" \/ c.mask \subseteq id THEN c.mask \cap id ELSE {}
      /\ Polled(c)' = IF c.mode = "OR" \/ c.mask \subseteq new THEN c.mask \cap new ELSE {}
      /\ Satisfied(t, m, new) <=> IF c.mode = "OR" THEN c.mask \cap m # {} ELSE c.mask \subseteq new
  BY DEF Polled, Satisfied
<1> HIDE DEF id, new
<1>4. Satisfied(t, m, new) <=> Polled(c)' # {}
  BY <1>1, <1>2, <1>3
<1> QED BY <1>4 DEF new

\* A write ends the waits it satisfies and nothing else.
LEMMA WriteFacts ==
  ASSUME EventInv, NEW e \in Event, NEW m \in Masks, LOS_EventWrite(e, m)
  PROVE  \E W \in SUBSET Task :
           /\ Steady(os, os')
           /\ \A u \in Task :
                On(os', u) \cap WaitList = IF u \in W THEN {} ELSE On(os, u) \cap WaitList
           /\ \A u \in Task \ W : os'.status[u] = os.status[u]
           /\ \A u \in W : "TIMEOUT" \notin os'.status[u]
           /\ \A u \in Task, c \in EventCall : Waiting(u) /\ call[u] = c =>
                (u \in W <=> c.event = e /\ Polled(c)' # {})
           /\ \A u \in W : Waiting(u)
<1> DEFINE W == {t \in Elems(os.list[e]) : Satisfied(t, m, uwEventID'[e])}
           s == WakeAll(os, os.list[e], W)
<1>1. /\ TaskContext \/ IrqContext
      /\ uwEventID' = [uwEventID EXCEPT ![e] = @ \cup m]
      /\ os' = IF W # {} THEN Reschedule(s) ELSE s
  BY DEF LOS_EventWrite, FreeTaskContext
<1>2. /\ Core(os) /\ Consistent(os) /\ os \in KernelState /\ e \in WaitList
      /\ os.list[e] \in Seq(Task) /\ NoDup(os.list[e]) /\ Elems(os.list[e]) \subseteq Task
  BY EventFacts, ListTypes DEF EventInv, Core, Consistent
<1>3. W \subseteq Elems(os.list[e]) /\ W \in SUBSET Task
  BY <1>2
<1>4. \A t \in W : "PEND" \in os.status[t] /\ Waiting(t)
  <2> SUFFICES ASSUME NEW t \in W PROVE "PEND" \in os.status[t] /\ Waiting(t)
    OBVIOUS
  <2>1. t \in Task /\ t \in Elems(os.list[e])
    BY <1>3
  <2>2. e \in On(os, t)
    BY <1>2, <2>1, WaitingIsOn
  <2>3. os.status[t] \cap {"PEND", "PEND_QUEUE"} # {}
    BY <1>2, <2>1, <2>2 DEF Consistent, TaskAgrees
  <2> QED BY <1>2, <2>1, <2>3 DEF EventInv, Waiters, Waiting
<1>5. \A u \in Task, c \in EventCall : Waiting(u) /\ call[u] = c =>
        (u \in W <=> c.event = e /\ Polled(c)' # {})
  <2> SUFFICES ASSUME NEW u \in Task, NEW c \in EventCall, Waiting(u), call[u] = c
               PROVE  u \in W <=> c.event = e /\ Polled(c)' # {}
    OBVIOUS
  <2>1. PICK h \in WaitList : u \in Elems(os.list[h])
    BY DEF Waiting
  <2>2. c.event = h /\ Polled(c) = {}
    BY <2>1 DEF EventInv, Waiters, Patient
  <2>3. CASE h = e
    <3>1. Satisfied(u, m, uwEventID'[c.event]) <=> Polled(c)' # {}
      BY <1>1, <2>2, <2>3, SatisfiedIs DEF EventInv
    <3> QED BY <2>1, <2>2, <2>3, <3>1
  <2>4. CASE h # e
    <3>1. u \notin Elems(os.list[e])
      BY <1>2, <2>2, <2>4 DEF EventInv, Waiters
    <3> QED BY <2>2, <2>4, <3>1
  <2> QED BY <2>3, <2>4
<1> HIDE DEF W
<1>6. Wakes(os, s, W)
  BY <1>2, <1>3, <1>4, WakeAllFacts
<1> HIDE DEF s
<1>7. /\ Steady(os, os')
      /\ \A u \in Task : On(os', u) \cap WaitList = IF u \in W THEN {} ELSE On(os, u) \cap WaitList
      /\ \A u \in Task \ W : os'.status[u] = os.status[u]
      /\ \A u \in W : "TIMEOUT" \notin os'.status[u]
  <2>1. CASE W # {}
    <3>1. /\ Steady(os, os')
          /\ \A u \in Task :
               On(os', u) \cap WaitList = IF u \in W THEN {} ELSE On(os, u) \cap WaitList
          /\ \A u \in Task \ W : os'.status[u] = os.status[u]
          /\ \A u \in W : os'.status[u] \ {"READY"} = os.status[u] \ {"PEND", "TIMEOUT"}
      BY <1>1, <1>2, <1>3, <1>4, <1>6, <2>1, WakesSteady
    <3>2. \A u \in W : "TIMEOUT" \notin os'.status[u] \ {"READY"}
      BY <3>1
    <3> QED BY <3>1, <3>2
  <2>2. CASE W = {}
    <3>1. s = os
      BY <1>2, <2>2, WalkSame DEF s
    <3> QED BY <1>1, <1>2, <2>2, <3>1, SteadySame
  <2> QED BY <2>1, <2>2
<1> QED BY <1>3, <1>4, <1>5, <1>7

LEMMA EventWriteInv ==
  ASSUME EventInv, NEW e \in Event, NEW m \in Masks, LOS_EventWrite(e, m)
  PROVE  EventInv'
<1>1. PICK W \in SUBSET Task :
        /\ Steady(os, os')
        /\ \A u \in Task : On(os', u) \cap WaitList = IF u \in W THEN {} ELSE On(os, u) \cap WaitList
        /\ \A u \in Task, c \in EventCall : Waiting(u) /\ call[u] = c =>
             (u \in W <=> c.event = e /\ Polled(c)' # {})
  BY WriteFacts
<1>2. call' = call /\ uwEventID' = [uwEventID EXCEPT ![e] = @ \cup m]
  BY DEF LOS_EventWrite
<1>3. uwEventID' \in [Event -> SUBSET EventBit] /\ call' \in [Task -> EventCall \cup {NoCall}]
  BY <1>2, EventFacts DEF EventInv, Waiters
<1>4. ASSUME NEW t \in Task, NEW c \in EventCall, On(os', t) \cap WaitList # {}, call[t] = c,
             Polled(c) = {}
      PROVE  Polled(c)' = {}
  <2>1. t \notin W /\ On(os, t) \cap WaitList # {}
    BY <1>1, <1>4
  <2>2. Waiting(t)
    BY <2>1, WaitingOn DEF EventInv, Core, Consistent
  <2>3. CASE c.event = e
    BY <1>1, <1>4, <2>1, <2>2, <2>3
  <2>4. CASE c.event # e
    BY <1>2, <1>4, <2>4, FewerFlags, EventFacts DEF EventInv
  <2> QED BY <2>3, <2>4
<1> QED BY <1>1, <1>2, <1>3, <1>4, SteadyInv

LEMMA EventNextInv ==
  ASSUME ~IsrSuspends, EventInv, [EventNext]_eventVars
  PROVE  EventInv'
<1>1. CASE EventStep
  BY <1>1, EventTakeInv, EventReadReturnInv, EventWaitInv, EventWriteInv, EventClearInv
     DEF EventStep
<1>2. CASE KernelStep /\ UNCHANGED uwEventID
  <2>1. Steady(os, os') /\ call' = call
    BY <1>2, KernelStepSteady DEF EventInv
  <2> QED BY <1>2, <2>1, FewerInv DEF EventInv, Waiters
<1>3. CASE \E t \in Task : DeleteStep(t) /\ UNCHANGED uwEventID
  <2>1. PICK t \in Task : DeleteStep(t) /\ UNCHANGED uwEventID
    BY <1>3
  <2>2. /\ Steady(os, os') /\ os'.status[t] = {"UNUSED"}
        /\ call' = [call EXCEPT ![t] = NoCall]
    BY <2>1, DeleteStepSteady DEF EventInv
  <2>3. "TIMEOUT" \notin os'.status[t] /\ On(os', t) \cap WaitList = {}
    BY <2>2 DEF Steady, Core, Consistent, TaskAgrees
  <2>4. /\ call' \in [Task -> EventCall \cup {NoCall}]
        /\ \A u \in Task \ {t} : call'[u] = call[u]
    BY <2>2 DEF EventInv, Waiters
  <2> QED BY <2>1, <2>2, <2>3, <2>4, FewerInv DEF EventInv
<1>4. CASE UNCHANGED eventVars
  <2>1. Steady(os, os') /\ call' = call /\ uwEventID' = uwEventID
    BY <1>4, SteadySame DEF eventVars, EventInv
  <2> QED BY <2>1, FewerInv DEF EventInv, Waiters
<1> QED BY <1>1, <1>2, <1>3, <1>4 DEF EventNext

LEMMA EventInitInv == EventInit => EventInv
<1> SUFFICES ASSUME EventInit PROVE EventInv
  OBVIOUS
<1>1. Core(os) /\ Highest(os) /\ Quiet(os) /\ os \in KernelState
  BY InitInv DEF EventInit, InitIpc, Inv, Core, Consistent
<1>2. call = [t \in Task |-> NoCall] /\ uwEventID = [e \in Event |-> {}]
  BY DEF EventInit, InitIpc, LOS_EventInit
<1>3. \A t \in Task, h \in WaitList : t \notin Elems(os.list[h])
  <2>1. \A t \in Task : On(os, t) \cap WaitList = {}
    BY <1>1 DEF Core, Consistent, TaskAgrees, Quiet, Waits
  <2> QED BY <1>1, <2>1, WaitingIsOn
<1>4. Waiters /\ Patient
  BY <1>1, <1>2, <1>3 DEF Waiters, Patient, Waiting, Quiet, Waits
<1> QED BY <1>1, <1>2, <1>4 DEF EventInv


----------------------------------------------------------------------------
\* What each step is for the abstract event flags.

Where(t) ==
  IF ~Reads(t) THEN "out"
  ELSE IF Waiting(t) THEN "waits" ELSE IF Expired(t) THEN "expired" ELSE "free"
WishOf(t) == IF Reads(t) THEN call[t] ELSE NoCall

At == [t \in Task |-> Where(t)]
Wish == [t \in Task |-> WishOf(t)]

AbstractStep == [Flags!Next]_(Flags!evars)

\* Task t is in the eyes of the flags where it was.
SameWhere(t) == Where(t)' = Where(t) /\ WishOf(t)' = WishOf(t)

LEMMA WhereSame ==
  ASSUME NEW t, call'[t] = call[t], "TIMEOUT" \in os'.status[t] <=> "TIMEOUT" \in os.status[t],
         Waiting(t)' <=> Waiting(t)
  PROVE  SameWhere(t)
<1>1. (Reads(t)' <=> Reads(t)) /\ (Expired(t)' <=> Expired(t))
  BY DEF Reads, Expired
<1> QED BY <1>1 DEF SameWhere, Where, WishOf

LEMMA AllSame ==
  ASSUME \A t \in Task : SameWhere(t)
  PROVE  At' = At /\ Wish' = Wish
BY DEF SameWhere, At, Wish

LEMMA OneMoves ==
  ASSUME NEW t \in Task, \A u \in Task \ {t} : SameWhere(u)
  PROVE  At' = [At EXCEPT ![t] = Where(t)'] /\ Wish' = [Wish EXCEPT ![t] = WishOf(t)']
BY DEF SameWhere, At, Wish

\* A poll of the code is one of the abstract flags.
LEMMA GrantedIs ==
  ASSUME NEW c \in EventCall, uwEventID \in [Event -> SUBSET EventBit]
  PROVE  /\ Flags!Granted(c, uwEventID[c.event]) = Polled(c)
         /\ PollLeaves(c) = [uwEventID EXCEPT ![c.event] = Flags!Left(c, @)]
<1>1. c.event \in Event
  BY EventFacts
<1>2. Flags!Granted(c, uwEventID[c.event]) = Polled(c)
  BY DEF Flags!Granted, Polled
<1>3. Flags!Left(c, uwEventID[c.event]) =
        IF c.clr THEN uwEventID[c.event] \ Polled(c) ELSE uwEventID[c.event]
  BY <1>2 DEF Flags!Left
<1> QED BY <1>1, <1>2, <1>3 DEF PollLeaves

LEMMA StutterStep ==
  ASSUME uwEventID' = uwEventID, At' = At, Wish' = Wish
  PROVE  AbstractStep
BY DEF AbstractStep, Flags!evars, At, Wish, Where, WishOf

LEMMA TakeStep ==
  ASSUME NEW c \in EventCall, Flags!Granted(c, uwEventID[c.event]) # {},
         uwEventID' = [uwEventID EXCEPT ![c.event] = Flags!Left(c, @)], At' = At, Wish' = Wish
  PROVE  AbstractStep
<1>1. Flags!Take(c)
  BY DEF Flags!Take, At, Wish, Where, WishOf
<1> QED BY <1>1 DEF AbstractStep, Flags!Next

LEMMA JoinStep ==
  ASSUME NEW t \in Task, NEW c \in EventCall, At[t] = "out",
         Flags!Granted(c, uwEventID[c.event]) = {}, uwEventID' = uwEventID,
         At' = [At EXCEPT ![t] = "waits"], Wish' = [Wish EXCEPT ![t] = c]
  PROVE  AbstractStep
<1>1. Flags!Wait(t, c)
  BY DEF Flags!Wait, At, Wish, Where, WishOf
<1> QED BY <1>1 DEF AbstractStep, Flags!Next

LEMMA SetStep ==
  ASSUME NEW e \in Event, NEW m \in SUBSET EventBit,
         uwEventID' = [uwEventID EXCEPT ![e] = @ \cup m], Wish' = Wish,
         At' = [t \in Task |->
                  IF At[t] = "waits" /\ Wish[t].event = e /\ Flags!Granted(Wish[t], uwEventID'[e]) # {}
                  THEN "free" ELSE At[t]]
  PROVE  AbstractStep
<1>1. Flags!Set(e, m)
  BY DEF Flags!Set, At, Wish, Where, WishOf
<1> QED BY <1>1 DEF AbstractStep, Flags!Next

LEMMA ClearStep ==
  ASSUME NEW e \in Event, NEW m \in SUBSET EventBit,
         uwEventID' = [uwEventID EXCEPT ![e] = @ \cap m], At' = At, Wish' = Wish
  PROVE  AbstractStep
<1>1. Flags!Clear(e, m)
  BY DEF Flags!Clear, At, Wish, Where, WishOf
<1> QED BY <1>1 DEF AbstractStep, Flags!Next

LEMMA ExpireStep ==
  ASSUME NEW t \in Task, At[t] = "waits", uwEventID' = uwEventID,
         At' = [At EXCEPT ![t] = "expired"], Wish' = Wish
  PROVE  AbstractStep
<1>1. Flags!Expire(t)
  BY DEF Flags!Expire, At, Wish, Where, WishOf
<1> QED BY <1>1 DEF AbstractStep, Flags!Next

LEMMA LeaveStep ==
  ASSUME NEW t \in Task, At[t] \in {"free", "expired"}, NEW c, Wish[t] = c,
         uwEventID' = IF At[t] = "expired" THEN uwEventID
                      ELSE [uwEventID EXCEPT ![c.event] = Flags!Left(c, @)],
         At' = [At EXCEPT ![t] = "out"], Wish' = [Wish EXCEPT ![t] = NoCall]
  PROVE  AbstractStep
<1>1. Flags!Leave(t)
  BY DEF Flags!Leave, At, Wish, Where, WishOf
<1> QED BY <1>1 DEF AbstractStep, Flags!Next

LEMMA VanishStep ==
  ASSUME NEW t \in Task, At[t] # "out", uwEventID' = uwEventID,
         At' = [At EXCEPT ![t] = "out"], Wish' = [Wish EXCEPT ![t] = NoCall]
  PROVE  AbstractStep
<1>1. Flags!Vanish(t)
  BY DEF Flags!Vanish, At, Wish, Where, WishOf
<1> QED BY <1>1 DEF AbstractStep, Flags!Next


\* What the invariant says of the views.
LEMMA ViewFacts ==
  ASSUME EventInv, NEW t \in Task
  PROVE  /\ Reads(t) <=> call[t] # NoCall
         /\ Waiting(t) => Reads(t)
         /\ At[t] = Where(t) /\ Wish[t] = WishOf(t)
         /\ Waiting(t) <=> On(os, t) \cap WaitList # {}
<1>1. call[t] \in EventCall \cup {NoCall} /\ NoCall \notin EventCall
  BY EventFacts DEF EventInv, Waiters
<1>2. Waiting(t) => call[t] \in EventCall
  BY DEF EventInv, Waiters, Waiting
<1>3. Waiting(t) <=> On(os, t) \cap WaitList # {}
  BY WaitingOn DEF EventInv, Core, Consistent
<1> QED BY <1>1, <1>2, <1>3 DEF Reads, At, Wish

LEMMA CalmSame ==
  ASSUME os' = os, call' = call
  PROVE  At' = At /\ Wish' = Wish
<1>1. \A t \in Task : SameWhere(t)
  BY WhereSame DEF Waiting
<1> QED BY <1>1, AllSame

LEMMA EventTakeAbstract ==
  ASSUME EventInv, NEW c \in EventCall, EventTake(c)
  PROVE  AbstractStep
<1>1. Polled(c) # {} /\ uwEventID' = PollLeaves(c) /\ os' = os /\ call' = call
  BY DEF EventTake
<1>2. At' = At /\ Wish' = Wish
  BY <1>1, CalmSame
<1>3. /\ Flags!Granted(c, uwEventID[c.event]) = Polled(c)
      /\ PollLeaves(c) = [uwEventID EXCEPT ![c.event] = Flags!Left(c, @)]
  BY GrantedIs DEF EventInv
<1> QED BY <1>1, <1>2, <1>3, TakeStep

LEMMA EventClearAbstract ==
  ASSUME EventInv, NEW e \in Event, NEW m \in Masks, LOS_EventClear(e, EventBit \ m)
  PROVE  AbstractStep
<1>1. uwEventID' = [uwEventID EXCEPT ![e] = @ \cap (EventBit \ m)] /\ os' = os /\ call' = call
  BY DEF LOS_EventClear
<1>2. At' = At /\ Wish' = Wish
  BY <1>1, CalmSame
<1>3. EventBit \ m \in SUBSET EventBit
  OBVIOUS
<1> QED BY <1>1, <1>2, <1>3, ClearStep

LEMMA EventWaitAbstract ==
  ASSUME EventInv, NEW c \in EventCall, NEW n \in EventTimeouts, EventWait(c, n)
  PROVE  AbstractStep
<1>0. PICK t : t = os.run
  OBVIOUS
<1> DEFINE h == c.event
<1>1. /\ TaskContext /\ os.lock = 0 /\ Polled(c) = {} /\ uwEventID' = uwEventID
      /\ Block(h, "PEND", n, c) /\ call' = [call EXCEPT ![t] = c]
      /\ t \in Task => call[t] = NoCall
  BY <1>0 DEF EventWait, FreeTaskContext, Ready2Call, Block
<1>2. /\ h \in WaitList /\ n \in Ticks \cup {LOS_WAIT_FOREVER} /\ c # NoCall
      /\ "PEND" \in {"PEND", "PEND_QUEUE"}
  BY EventFacts
<1>3. t \in Task /\ "TIMEOUT" \notin os.status[t] /\ call[t] = NoCall
  BY <1>0, <1>1, CallerReady DEF EventInv, Waiters
<1>4. /\ Core(os')
      /\ \A u \in Task : On(os', u) = IF u = t THEN {h} ELSE On(os, u)
      /\ \A u \in Task \ {t} : os'.status[u] = os.status[u]
  BY <1>0, <1>1, <1>2, <1>3, BlockStep DEF EventInv
<1>5. os \in KernelState /\ os' \in KernelState
  BY <1>4 DEF EventInv, Core, Consistent
<1> HIDE DEF h
<1>6. call'[t] = c /\ \A u \in Task \ {t} : call'[u] = call[u]
  BY <1>1, <1>3 DEF EventInv, Waiters
<1>7. \A u \in Task \ {t} : SameWhere(u)
  BY <1>4, <1>5, <1>6, WaitingOn, WhereSame
<1>8. Where(t) = "out" /\ Where(t)' = "waits" /\ WishOf(t)' = c
  <2>1. Waiting(t)' /\ Reads(t)' /\ ~Reads(t)
    BY <1>2, <1>3, <1>4, <1>5, <1>6, WaitingOn, EventFacts DEF Reads
  <2> QED BY <1>6, <2>1 DEF Where, WishOf
<1>9. /\ At' = [At EXCEPT ![t] = "waits"] /\ Wish' = [Wish EXCEPT ![t] = c]
      /\ At[t] = "out"
  BY <1>3, <1>7, <1>8, OneMoves, ViewFacts
<1>10. Flags!Granted(c, uwEventID[c.event]) = {}
  BY <1>1, GrantedIs DEF EventInv
<1> QED BY <1>1, <1>3, <1>9, <1>10, JoinStep

LEMMA EventReadReturnAbstract ==
  ASSUME EventInv, NEW c \in EventCall, EventReadReturn(c)
  PROVE  AbstractStep
<1>0. PICK t : t = os.run
  OBVIOUS
<1>1. /\ TaskContext /\ os' = ClearTimeout(os) /\ call' = [call EXCEPT ![t] = NoCall]
      /\ call[t] = c
      /\ uwEventID' = IF "TIMEOUT" \in os.status[t] THEN uwEventID ELSE PollLeaves(c)
  BY <1>0 DEF EventReadReturn, InCall, Return, TimedOut
<1>2. /\ Steady(os, os') /\ t \in Task /\ \A u \in Task : On(os', u) = On(os, u)
      /\ "TIMEOUT" \notin os'.status[t] /\ On(os, t) \cap WaitList = {}
      /\ \A u \in Task \ {t} : os'.status[u] = os.status[u]
  BY <1>0, <1>1, ClearTimeoutStep DEF EventInv
<1>3. os \in KernelState /\ os' \in KernelState
  BY <1>2 DEF Steady, EventInv, Core, Consistent
<1>4. call'[t] = NoCall /\ \A u \in Task \ {t} : call'[u] = call[u]
  BY <1>1, <1>2 DEF EventInv, Waiters
<1>5. \A u \in Task \ {t} : SameWhere(u)
  BY <1>2, <1>3, <1>4, WaitingOn, WhereSame
<1>6. /\ Where(t) = IF "TIMEOUT" \in os.status[t] THEN "expired" ELSE "free"
      /\ Where(t)' = "out" /\ WishOf(t) = c /\ WishOf(t)' = NoCall
  <2>1. Reads(t) /\ ~Waiting(t) /\ ~Reads(t)' /\ call[t] # NoCall
    BY <1>1, <1>2, <1>3, <1>4, WaitingOn, EventFacts DEF Reads
  <2> QED BY <1>1, <2>1 DEF Where, WishOf, Expired
<1>7. /\ At' = [At EXCEPT ![t] = "out"] /\ Wish' = [Wish EXCEPT ![t] = NoCall]
      /\ At[t] = Where(t) /\ Wish[t] = c
  BY <1>2, <1>5, <1>6, OneMoves, ViewFacts
<1>8. PollLeaves(c) = [uwEventID EXCEPT ![c.event] = Flags!Left(c, @)]
  BY GrantedIs DEF EventInv
<1>9. /\ At[t] \in {"free", "expired"}
      /\ uwEventID' = IF At[t] = "expired" THEN uwEventID
                      ELSE [uwEventID EXCEPT ![c.event] = Flags!Left(c, @)]
  BY <1>1, <1>6, <1>7, <1>8
<1> QED BY <1>2, <1>7, <1>9, LeaveStep

LEMMA EventWriteAbstract ==
  ASSUME EventInv, NEW e \in Event, NEW m \in Masks, LOS_EventWrite(e, m)
  PROVE  AbstractStep
<1>1. PICK W \in SUBSET Task :
        /\ Steady(os, os')
        /\ \A u \in Task : On(os', u) \cap WaitList = IF u \in W THEN {} ELSE On(os, u) \cap WaitList
        /\ \A u \in Task \ W : os'.status[u] = os.status[u]
        /\ \A u \in W : "TIMEOUT" \notin os'.status[u]
        /\ \A u \in Task, c \in EventCall : Waiting(u) /\ call[u] = c =>
             (u \in W <=> c.event = e /\ Polled(c)' # {})
        /\ \A u \in W : Waiting(u)
  BY WriteFacts
<1>2. call' = call /\ uwEventID' = [uwEventID EXCEPT ![e] = @ \cup m]
  BY DEF LOS_EventWrite
<1>3. /\ uwEventID' \in [Event -> SUBSET EventBit] /\ m \in SUBSET EventBit
      /\ os \in KernelState /\ os' \in KernelState
  BY <1>1, <1>2, EventFacts DEF EventInv, Steady, Core, Consistent
<1>4. \A u \in Task \ W : SameWhere(u)
  BY <1>1, <1>2, <1>3, WaitingOn, WhereSame
<1>5. \A u \in W : Where(u) = "waits" /\ Where(u)' = "free" /\ WishOf(u)' = WishOf(u)
  <2> SUFFICES ASSUME NEW u \in W
               PROVE  Where(u) = "waits" /\ Where(u)' = "free" /\ WishOf(u)' = WishOf(u)
    OBVIOUS
  <2>1. Waiting(u) /\ Reads(u) /\ u \in Task
    BY <1>1, ViewFacts
  <2>2. ~Waiting(u)' /\ Reads(u)' /\ ~Expired(u)'
    BY <1>1, <1>2, <1>3, <2>1, WaitingOn DEF Reads, Expired
  <2> QED BY <1>2, <2>1, <2>2 DEF Where, WishOf
<1>6. Wish' = Wish
  BY <1>4, <1>5 DEF Wish, SameWhere
<1>7. \A u \in Task : At'[u] = IF u \in W THEN "free" ELSE At[u]
  BY <1>4, <1>5 DEF At, SameWhere
<1>8. ASSUME NEW u \in Task
      PROVE  u \in W <=> /\ At[u] = "waits" /\ Wish[u].event = e
                         /\ Flags!Granted(Wish[u], uwEventID'[e]) # {}
  <2>1. CASE Waiting(u)
    <3>1. Reads(u) /\ At[u] = "waits" /\ Wish[u] = call[u]
      BY <2>1, ViewFacts DEF Where, WishOf
    <3>2. PICK c \in EventCall : c = call[u]
      BY <3>1 DEF Reads
    <3>3. c.event = e => Flags!Granted(c, uwEventID'[e]) = Polled(c)'
      BY DEF Flags!Granted, Polled
    <3> QED BY <1>1, <2>1, <3>1, <3>2, <3>3
  <2>2. CASE ~Waiting(u)
    <3>1. u \notin W /\ At[u] # "waits"
      BY <1>1, <2>2, ViewFacts DEF Where
    <3> QED BY <3>1
  <2> QED BY <2>1, <2>2
<1>9. At' = [t \in Task |->
               IF At[t] = "waits" /\ Wish[t].event = e /\ Flags!Granted(Wish[t], uwEventID'[e]) # {}
               THEN "free" ELSE At[t]]
  <2>1. At' = [t \in Task |-> At'[t]]
    BY DEF At
  <2> QED BY <1>7, <1>8, <2>1
<1> QED BY <1>2, <1>3, <1>6, <1>9, SetStep


\* The kernel ends waits by expiry only.
LEMMA KernelStepAbstract ==
  ASSUME ~IsrSuspends, EventInv, KernelStep, uwEventID' = uwEventID
  PROVE  AbstractStep
<1>1. /\ call' = call /\ Steady(os, os') /\ Core(os) /\ Consistent(os)
      /\ WaitsStay \/ \E t \in Task : ExpiresOnly(t)
  BY KernelStepSteady, KernelStepWaits DEF EventInv, Core
<1>2. CASE WaitsStay
  <2>1. \A t \in Task : SameWhere(t)
    <3>1. \A t \in Task : /\ Waiting(t)' <=> Waiting(t)
                          /\ "TIMEOUT" \in os'.status[t] <=> "TIMEOUT" \in os.status[t]
      BY <1>2 DEF WaitsStay, Waiting, Waits
    <3> QED BY <1>1, <3>1, WhereSame
  <2> QED BY <2>1, AllSame, StutterStep
<1>3. CASE \E t \in Task : ExpiresOnly(t)
  <2>1. PICK t \in Task : ExpiresOnly(t)
    BY <1>3
  <2>2. Leaves(os, os', t)
    BY <2>1 DEF ExpiresOnly, Leaves
  <2>3. \A h \in WaitList : Elems(os'.list[h]) = Elems(os.list[h]) \ {t}
    BY <1>1, <2>2, LeavesElems
  <2>4. \A u \in Task \ {t} : SameWhere(u)
    <3>1. \A u \in Task \ {t} : /\ Waiting(u)' <=> Waiting(u)
                                /\ "TIMEOUT" \in os'.status[u] <=> "TIMEOUT" \in os.status[u]
      BY <2>1, <2>3 DEF ExpiresOnly, Waiting, Waits
    <3> QED BY <1>1, <3>1, WhereSame
  <2>5. ~Waiting(t)' /\ "TIMEOUT" \in os'.status[t] /\ "TIMEOUT" \in os.status[t]
    BY <2>1, <2>3 DEF ExpiresOnly, Waiting
  <2>6. CASE Waiting(t)
    <3>1. Reads(t) /\ At[t] = "waits" /\ call[t] # NoCall
      BY <2>6, ViewFacts DEF Where
    <3>2. Where(t)' = "expired" /\ WishOf(t)' = WishOf(t)
      BY <1>1, <2>5, <3>1 DEF Where, WishOf, Reads, Expired
    <3>3. At' = [At EXCEPT ![t] = "expired"] /\ Wish' = Wish
      <4>1. /\ At' = [At EXCEPT ![t] = Where(t)']
            /\ Wish' = [Wish EXCEPT ![t] = WishOf(t)']
        BY <2>4, OneMoves
      <4>2. Wish[t] = WishOf(t) /\ Wish = [u \in Task |-> Wish[u]]
        BY DEF Wish
      <4> QED BY <3>2, <4>1, <4>2
    <3> QED BY <3>1, <3>3, ExpireStep
  <2>7. CASE ~Waiting(t)
    <3>1. SameWhere(t)
      BY <1>1, <2>5, <2>7, WhereSame
    <3> QED BY <2>4, <3>1, AllSame, StutterStep
  <2> QED BY <2>6, <2>7
<1> QED BY <1>1, <1>2, <1>3

\* A deleted task reads no longer.
LEMMA DeleteStepAbstract ==
  ASSUME EventInv, NEW t \in Task, DeleteStep(t), uwEventID' = uwEventID
  PROVE  AbstractStep
<1>1. /\ Core(os) /\ Consistent(os)
      /\ \A u \in Task \ {t} : os'.status[u] = os.status[u]
      /\ call' = [call EXCEPT ![t] = NoCall]
  BY DeleteStepSteady DEF EventInv, Core
<1>2. \A h \in WaitList : Elems(os'.list[h]) = Elems(os.list[h]) \ {t}
  BY <1>1, DeleteStepOrder, LeavesElems
<1>3. call'[t] = NoCall /\ \A u \in Task \ {t} : call'[u] = call[u]
  BY <1>1 DEF EventInv, Waiters
<1>4. \A u \in Task \ {t} : SameWhere(u)
  <2>1. \A u \in Task \ {t} : Waiting(u)' <=> Waiting(u)
    BY <1>2 DEF Waiting
  <2> QED BY <1>1, <1>3, <2>1, WhereSame
<1>5. Where(t)' = "out" /\ WishOf(t)' = NoCall
  BY <1>3, EventFacts DEF Where, WishOf, Reads
<1>6. At' = [At EXCEPT ![t] = "out"] /\ Wish' = [Wish EXCEPT ![t] = NoCall]
  BY <1>4, <1>5, OneMoves
<1>7. CASE At[t] = "out"
  <2>1. Wish[t] = NoCall
    BY <1>7, ViewFacts DEF Where, WishOf
  <2>2. At' = At /\ Wish' = Wish
    BY <1>6, <1>7, <2>1 DEF At, Wish
  <2> QED BY <2>2, StutterStep
<1>8. CASE At[t] # "out"
  BY <1>6, <1>8, VanishStep
<1> QED BY <1>7, <1>8

LEMMA EventNextAbstract ==
  ASSUME ~IsrSuspends, EventInv, [EventNext]_eventVars
  PROVE  AbstractStep
<1>1. CASE EventStep
  BY <1>1, EventTakeAbstract, EventReadReturnAbstract, EventWaitAbstract, EventWriteAbstract,
     EventClearAbstract DEF EventStep
<1>2. CASE KernelStep /\ UNCHANGED uwEventID
  BY <1>2, KernelStepAbstract
<1>3. CASE \E t \in Task : DeleteStep(t) /\ UNCHANGED uwEventID
  BY <1>3, DeleteStepAbstract
<1>4. CASE UNCHANGED eventVars
  BY <1>4, CalmSame, StutterStep DEF eventVars
<1> QED BY <1>1, <1>2, <1>3, <1>4 DEF EventNext

LEMMA EventInitAbstract == EventInit => Flags!Init
<1> SUFFICES ASSUME EventInit PROVE Flags!Init
  OBVIOUS
<1>1. call = [t \in Task |-> NoCall] /\ uwEventID = [e \in Event |-> {}]
  BY DEF EventInit, InitIpc, LOS_EventInit
<1>2. \A t \in Task : ~Reads(t)
  BY <1>1, EventFacts DEF Reads
<1> QED BY <1>1, <1>2 DEF Flags!Init

----------------------------------------------------------------------------

\* The inductive invariant of the events holds in every reachable state.
THEOREM EventInvariance ==
  ASSUME ~IsrSuspends
  PROVE  EventSpec => []EventInv
<1>1. EventInit => EventInv
  BY EventInitInv
<1>2. EventInv /\ [EventNext]_eventVars => EventInv'
  BY EventNextInv
<1> QED BY <1>1, <1>2, PTL DEF EventSpec

\* No task waits for flags that are set, whichever write set them and whatever other tasks
\* and interrupt handlers cleared, took or waited for meanwhile.
THEOREM EventNobodyMisses ==
  ASSUME ~IsrSuspends
  PROVE  EventSpec => []NobodyMissesEvents
<1>1. EventInv => NobodyMissesEvents
  <2> SUFFICES ASSUME EventInv PROVE NobodyMissesEvents
    OBVIOUS
  <2>1. EventTypeOK
    BY DEF EventInv, Core, Consistent, TypeOK, EventTypeOK, Waiters
  <2>2. \A e \in Event, t \in Task :
          t \in Elems(os.list[e]) => call[t] \in EventCall /\ Polled(call[t]) = {}
    BY EventFacts DEF EventInv, Waiters, Patient, Waiting
  <2> QED BY <2>1, <2>2 DEF NobodyMissesEvents
<1> QED BY <1>1, EventInvariance, PTL

\* The kernel's events implement the abstract ones: one write lets exactly the readers go
\* whose flags it completes, whatever their number, and flags go to a reader once when it
\* clears them.
THEOREM EventsImplement ==
  ASSUME ~IsrSuspends
  PROVE  EventSpec => ImplementsEvents
<1>1. EventInit => Flags!Init
  BY EventInitAbstract
<1>2. EventInv /\ [EventNext]_eventVars => [Flags!Next]_(Flags!evars)
  BY EventNextAbstract DEF AbstractStep
<1> QED BY <1>1, <1>2, EventInvariance, PTL DEF EventSpec, ImplementsEvents, Flags!Spec

\* When one write wakes any number of readers, every control block is on exactly the lists
\* its status says.
THEOREM EventListsAgree ==
  ASSUME ~IsrSuspends
  PROVE  EventSpec => []ListsAgree
<1>1. EventInv => ListsAgree
  BY ConsistentLists DEF EventInv, Core, ListsAgree
<1> QED BY <1>1, EventInvariance, PTL

\* One reschedule after the walk is enough: the first of the readers it woke runs when it
\* is of higher priority than the writer.
THEOREM EventHighestRuns ==
  ASSUME ~IsrSuspends
  PROVE  EventSpec => []HighestReadyRuns
<1>1. EventInv => HighestReadyRuns
  BY DEF EventInv, Highest, Settled, HighestReadyRuns
<1> QED BY <1>1, EventInvariance, PTL


=============================================================================
