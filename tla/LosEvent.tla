------------------------------ MODULE LosEvent ------------------------------
(***************************************************************************)
(* Events, los_event.c: a word of flags and the list of the tasks that wait *)
(* for some of them.  The mask and the mode that LOS_EventRead leaves in    *)
(* the control block of the task are those of its call.  An event is set up *)
(* once: LOS_EventDestory does not look at the tasks that wait.             *)
(***************************************************************************)
EXTENDS LosIpc

CONSTANTS
  Event,        \* the event control blocks, each with the wait list of the same name
  EventBit,     \* the flags of an event: bits of uwEventID
  Masks,        \* the sets of events the application writes, and clears
  EventCall,    \* the calls of LOS_EventRead and LOS_EventPoll: event, mask, mode, clear or not
  EventTimeouts \* the timeouts the application passes to LOS_EventRead but 0

ASSUME EventAssumption ==
  /\ Event \subseteq WaitList /\ Masks \subseteq SUBSET EventBit /\ NoCall \notin EventCall
  /\ EventCall \subseteq
       [event : Event, mask : (SUBSET EventBit) \ {{}}, mode : {"OR", "AND"}, clr : BOOLEAN]
  /\ EventTimeouts \subseteq Ticks \cup {LOS_WAIT_FOREVER}

VARIABLE uwEventID  \* the flags set in each event

eventVars == <<os, call, uwEventID>>

EventTypeOK ==
  /\ TypeOK
  /\ call \in [Task -> EventCall \cup {NoCall}]
  /\ uwEventID \in [Event -> SUBSET EventBit]

LOS_EventInit == uwEventID = [e \in Event |-> {}]

\* What LOS_EventPoll returns to call c, and what it leaves.
Polled(c) ==
  LET id == uwEventID[c.event]
  IN  IF c.mode = "OR" \/ c.mask \subseteq id THEN c.mask \cap id ELSE {}

PollLeaves(c) ==
  IF c.clr THEN [uwEventID EXCEPT ![c.event] = @ \ Polled(c)] ELSE uwEventID

\* LOS_EventRead in a task and LOS_EventPoll anywhere, when the flags are there.
EventTake(c) ==
  /\ FreeTaskContext \/ IrqContext
  /\ Polled(c) # {}
  /\ uwEventID' = PollLeaves(c)
  /\ UNCHANGED <<os, call>>

EventWait(c, timeout) ==
  /\ FreeTaskContext
  /\ Polled(c) = {} /\ os.lock = 0
  /\ Block(c.event, "PEND", timeout, c)
  /\ UNCHANGED uwEventID

\* Back in LOS_EventRead: a second poll, which may find nothing, unless the wait expired.
EventReadReturn(c) ==
  /\ InCall(c)
  /\ os' = ClearTimeout(os)
  /\ uwEventID' = IF TimedOut THEN uwEventID ELSE PollLeaves(c)
  /\ Return

\* Seeded fault: a task that waits for all its flags is woken by new flags only.
SatisfiedByNew(t, events, id) ==
  IF call[t].mode = "OR" THEN call[t].mask \cap events # {} ELSE call[t].mask \subseteq events

\* Seeded fault: a task that waits for all its flags is woken by one of them.
SatisfiedByAny(t, events, id) == call[t].mask \cap events # {}

\* Is waiting task t woken by a write of the given events that makes the word id?
Satisfied(t, events, id) ==
  IF call[t].mode = "OR" THEN call[t].mask \cap events # {} ELSE call[t].mask \subseteq id

\* The walk along the waiting tasks, which wakes those of a set.
WakeAll(s, waiting, woken) ==
  LET walk[k \in 0 .. Len(waiting)] ==
        IF k = 0 THEN s
        ELSE IF waiting[k] \in woken THEN osTaskWake(walk[k - 1], waiting[k], "PEND")
        ELSE walk[k - 1]
  IN  walk[Len(waiting)]

\* All the tasks the write satisfies are woken, in the order they wait, before one reschedule.
LOS_EventWrite(e, events) ==
  /\ FreeTaskContext \/ IrqContext
  /\ uwEventID' = [uwEventID EXCEPT ![e] = @ \cup events]
  /\ LET woken == {t \in Elems(os.list[e]) : Satisfied(t, events, uwEventID'[e])}
         s == WakeAll(os, os.list[e], woken)
     IN  os' = IF woken # {} THEN Reschedule(s) ELSE s
  /\ UNCHANGED call

LOS_EventClear(e, uwEvents) ==
  /\ FreeTaskContext \/ IrqContext
  /\ uwEventID' = [uwEventID EXCEPT ![e] = @ \cap uwEvents]
  /\ UNCHANGED <<os, call>>

EventStep ==
  \/ \E c \in EventCall : EventTake(c) \/ EventReadReturn(c)
  \/ \E c \in EventCall, n \in EventTimeouts : EventWait(c, n)
  \/ \E e \in Event, m \in Masks : LOS_EventWrite(e, m) \/ LOS_EventClear(e, EventBit \ m)

EventNext ==
  \/ EventStep
  \/ KernelStep /\ UNCHANGED uwEventID
  \/ \E t \in Task : DeleteStep(t) /\ UNCHANGED uwEventID

EventInit == InitIpc /\ LOS_EventInit

EventSpec == EventInit /\ [][EventNext]_eventVars
----------------------------------------------------------------------------
\* No task waits for flags that are set: neither a write in an interrupt handler before the
\* reader has blocked nor one of several writes for a reader of several flags is missed.
NobodyMissesEvents ==
  EventTypeOK /\ \A e \in Event, t \in Task :
    t \in Elems(os.list[e]) => call[t] \in EventCall /\ Polled(call[t]) = {}

Reads(t) == call[t] \in EventCall

Flags ==
  INSTANCE EventFlags WITH
    NoWish <- NoCall, Flag <- EventBit, Wishes <- EventCall, flags <- uwEventID,
    wish <- [t \in Task |-> IF Reads(t) THEN call[t] ELSE NoCall],
    at <- [t \in Task |-> IF ~Reads(t) THEN "out" ELSE IF Waiting(t) THEN "waits"
                          ELSE IF Expired(t) THEN "expired" ELSE "free"]

\* The kernel's events implement the abstract ones: one write lets all the tasks go whose
\* flags it completes and no others, and flags go to a reader once when it clears them.
ImplementsEvents == Flags!Spec
=============================================================================
