---------------------------- MODULE BoundedQueue ----------------------------
(***************************************************************************)
(* What a LiteOS message queue promises: a sequence of at most so many      *)
(* messages, read from the front and written at the back or the front.      *)
(***************************************************************************)
EXTENDS Naturals, Sequences

CONSTANTS Queue, Msg, QueueLens

VARIABLES
  content,  \* the messages of each queue, the next one to be read first
  capacity  \* the length of each queue, 0 when it does not exist

bvars == <<content, capacity>>

Init ==
  /\ content = [q \in Queue |-> <<>>]
  /\ capacity = [q \in Queue |-> 0]

Create(q) ==
  /\ capacity[q] = 0
  /\ \E n \in QueueLens : capacity' = [capacity EXCEPT ![q] = n]
  /\ UNCHANGED content

\* Deleting a queue drops the messages nobody reads any more.
Delete(q) ==
  /\ capacity[q] > 0
  /\ capacity' = [capacity EXCEPT ![q] = 0]
  /\ content' = [content EXCEPT ![q] = <<>>]

Write(q, m) ==
  /\ Len(content[q]) < capacity[q]
  /\ content' \in {[content EXCEPT ![q] = Append(@, m)], [content EXCEPT ![q] = <<m>> \o @]}
  /\ UNCHANGED capacity

Read(q) ==
  /\ content[q] # <<>>
  /\ content' = [content EXCEPT ![q] = Tail(@)]
  /\ UNCHANGED capacity

Next ==
  \E q \in Queue : Create(q) \/ Delete(q) \/ Read(q) \/ \E m \in Msg : Write(q, m)

Spec == Init /\ [][Next]_bvars
=============================================================================
