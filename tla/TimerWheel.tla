----------------------------- MODULE TimerWheel -----------------------------
(***************************************************************************)
(* The sort link of the task timers, los_task.c: a wheel of list heads, one *)
(* of which the cursor points to.  A task that has to wait n ticks is in    *)
(* the slot n places ahead of the cursor, with the number of whole turns    *)
(* that remain.  In a slot the turns are kept as differences: a node counts *)
(* from the expiry of the node before it.                                   *)
(***************************************************************************)
EXTENDS Naturals, Sequences, DeltaList

CONSTANTS
  Task,
  SortLinkLen,  \* OS_TSK_SORTLINK_LEN
  MaxTicks      \* bound: the longest timeout

ASSUME WheelAssumption == SortLinkLen \in Nat \ {0} /\ MaxTicks \in Nat

VARIABLES
  cursor,  \* g_stTskSortLink.usCursor
  slots,   \* the lists of stTimerList nodes of g_stTskSortLink.pstSortLink
  index,   \* UWSORTINDEX of a task's uwIdxRollNum
  rolls,   \* UWROLLNUM of a task's uwIdxRollNum
  scan     \* osTaskScan is in its loop

vars == <<cursor, slots, index, rolls, scan>>

Slot == 0 .. SortLinkLen - 1
MaxRolls == MaxTicks \div SortLinkLen
Linked(t) == \E i \in Slot : t \in ToSet(slots[i])

WheelTypeOK ==
  /\ cursor \in Slot
  /\ slots \in [Slot -> Seq(Task)]
  /\ index \in [Task -> Slot]
  /\ rolls \in [Task -> 0 .. MaxRolls]
  /\ scan \in BOOLEAN

Init ==
  /\ cursor = 0
  /\ slots = [i \in Slot |-> <<>>]
  /\ index = [t \in Task |-> 0]
  /\ rolls = [t \in Task |-> 0]
  /\ scan = FALSE

\* A timeout that ends in the cursor's own slot takes one turn less.
TurnsOf(n) == IF n % SortLinkLen = 0 THEN n \div SortLinkLen - 1 ELSE n \div SortLinkLen

\* Seeded fault: the index of the slot is taken before the cursor is added.
TimerListAddOldIndex(t, n) ==
  LET i == (cursor + (n % SortLinkLen)) % SortLinkLen
  IN  /\ ~scan /\ ~Linked(t)
      /\ slots' = [slots EXCEPT ![i] = Append(@, t)]
      /\ index' = [index EXCEPT ![t] = n % SortLinkLen]
      /\ rolls' = [rolls EXCEPT ![t] = TurnsOf(n)]
      /\ UNCHANGED <<cursor, scan>>

\* The walk passes the nodes that expire no later, and what is left of the turns counts
\* from the last of them; the node it stops at counts from the new one.
osTaskAdd2TimerList(t, n) ==
  LET i == (cursor + (n % SortLinkLen)) % SortLinkLen
      r == TurnsOf(n)
      k == PlaceFor(slots[i], rolls, r)
  IN  /\ ~scan /\ ~Linked(t)
      /\ slots' = [slots EXCEPT ![i] = InsertAt(@, k, t)]
      /\ index' = [index EXCEPT ![t] = i]
      /\ rolls' = [u \in Task |->
                     IF u = t THEN r - Until(slots[i], rolls, k - 1)
                     ELSE IF k <= Len(slots[i]) /\ u = slots[i][k]
                          THEN Until(slots[i], rolls, k) - r
                     ELSE rolls[u]]
      /\ UNCHANGED <<cursor, scan>>

\* Seeded fault: the next node does not take over the turns of the deleted one.
TimerListUnlink(t) ==
  /\ Linked(t)
  /\ slots' = [slots EXCEPT ![index[t]] = RemoveAt(@, PlaceOf(@, t))]
  /\ UNCHANGED <<cursor, index, rolls, scan>>

\* Tasks do this, and interrupt handlers between two iterations of the scan.
osTimerListDelete(t) ==
  LET q == slots[index[t]]
      k == PlaceOf(q, t)
  IN  /\ Linked(t)
      /\ slots' = [slots EXCEPT ![index[t]] = RemoveAt(@, k)]
      /\ rolls' = IF k < Len(q) THEN [rolls EXCEPT ![q[k + 1]] = @ + rolls[t]] ELSE rolls
      /\ UNCHANGED <<cursor, index, scan>>

\* osTaskScan: the cursor moves on, and the loop starts if the slot has nodes.
ScanStart ==
  /\ ~scan
  /\ cursor' = (cursor + 1) % SortLinkLen
  /\ scan' = TRUE
  /\ UNCHANGED <<slots, index, rolls>>

\* The first node of the slot has no turns left: the task's wait or delay expires.
ScanExpire(t) ==
  /\ scan
  /\ slots[cursor] # <<>> /\ t = Head(slots[cursor]) /\ rolls[t] = 0
  /\ slots' = [slots EXCEPT ![cursor] = Tail(@)]
  /\ UNCHANGED <<cursor, index, rolls, scan>>

\* The loop ends with the first node that has turns left, or with the list.
ScanEnd ==
  /\ scan
  /\ \/ slots[cursor] = <<>> /\ UNCHANGED rolls
     \/ /\ slots[cursor] # <<>> /\ rolls[Head(slots[cursor])] > 0
        /\ rolls' = [rolls EXCEPT ![Head(slots[cursor])] = @ - 1]
  /\ scan' = FALSE
  /\ UNCHANGED <<cursor, slots, index>>

Next ==
  \/ \E t \in Task, n \in 1 .. MaxTicks : osTaskAdd2TimerList(t, n)
  \/ \E t \in Task : osTimerListDelete(t)
  \/ ScanStart
  \/ \E t \in Task : ScanExpire(t)
  \/ ScanEnd

Spec == Init /\ [][Next]_vars
----------------------------------------------------------------------------
\* A node is in one place, and in the slot its index says: osTimerListDelete looks for
\* the end of the list there.
IndexAgrees ==
  WheelTypeOK /\ \A i \in Slot :
    IsInjective(slots[i]) /\ \A t \in ToSet(slots[i]) : index[t] = i

TurnsLeft(t) == TimeOf(slots[index[t]], rolls, t)

\* The ticks until the node of t expires: the way from the cursor to its slot and the
\* turns before that.  In the loop of the scan the slot of the cursor is the present one.
TicksLeft(t) ==
  IF ~Linked(t) THEN 0
  ELSE LET ahead == (index[t] + SortLinkLen - cursor) % SortLinkLen
           turns == TurnsLeft(t)
       IN  IF ahead > 0 THEN ahead + turns * SortLinkLen
           ELSE IF ~scan THEN (turns + 1) * SortLinkLen
           ELSE IF turns = 0 THEN 1 ELSE turns * SortLinkLen

Due == {t \in Task : scan /\ Linked(t) /\ index[t] = cursor /\ TurnsLeft(t) = 0}

Abstract == INSTANCE Countdown
  WITH timer <- [t \in Task |-> TicksLeft(t)], due <- Due

\* The wheel implements the countdown: every timer expires in exactly the tick it was set
\* for, however timers are added to and deleted from its slot, also during the scan.
ImplementsCountdown == Abstract!Spec
=============================================================================
