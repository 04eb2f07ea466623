----------------------------- MODULE Semaphore ------------------------------
(***************************************************************************)
(* What LOS_SemPend and LOS_SemPost promise between the creation and the   *)
(* deletion of a semaphore: permits that are taken at once, or waited for  *)
(* in arrival order.  A task that waited leaves with a permit that was     *)
(* posted for it, or without one when its wait expired.                    *)
(***************************************************************************)
EXTENDS Integers, Sequences

CONSTANTS Task, Sem, MaxPermits

VARIABLES
  limit,  \* the most permits it holds; 0 while the semaphore is not in use
  avail,  \* permits that can be taken at once
  taken,  \* permits taken at once less permits put back, since it was created
  queue,  \* the waiting tasks in arrival order
  state   \* "out", "waits", "granted" or "expired"

svars == <<limit, avail, taken, queue, state>>

Init ==
  /\ limit = [h \in Sem |-> 0]
  /\ avail = [h \in Sem |-> 0]
  /\ taken = [h \in Sem |-> 0]
  /\ queue = [h \in Sem |-> <<>>]
  /\ state = [t \in Task |-> "out"]

\* Only here is the number of permits chosen.
Open(h) ==
  /\ limit[h] = 0
  /\ \E m \in MaxPermits : \E n \in 0 .. m :
       limit' = [limit EXCEPT ![h] = m] /\ avail' = [avail EXCEPT ![h] = n]
  /\ UNCHANGED <<taken, queue, state>>

Close(h) ==
  /\ limit[h] > 0 /\ queue[h] = <<>>
  /\ limit' = [limit EXCEPT ![h] = 0]
  /\ taken' = [taken EXCEPT ![h] = 0]
  /\ UNCHANGED <<avail, queue, state>>

Take(h) ==
  /\ limit[h] > 0 /\ avail[h] > 0
  /\ avail' = [avail EXCEPT ![h] = @ - 1]
  /\ taken' = [taken EXCEPT ![h] = @ + 1]
  /\ UNCHANGED <<limit, queue, state>>

Wait(t, h) ==
  /\ limit[h] > 0 /\ avail[h] = 0 /\ state[t] = "out"
  /\ queue' = [queue EXCEPT ![h] = Append(@, t)]
  /\ state' = [state EXCEPT ![t] = "waits"]
  /\ UNCHANGED <<limit, avail, taken>>

Post(h) ==
  /\ avail[h] < limit[h]
  /\ \/ /\ queue[h] = <<>>
        /\ avail' = [avail EXCEPT ![h] = @ + 1]
        /\ taken' = [taken EXCEPT ![h] = @ - 1]
        /\ UNCHANGED <<limit, queue, state>>
     \/ /\ queue[h] # <<>>
        /\ queue' = [queue EXCEPT ![h] = Tail(@)]
        /\ state' = [state EXCEPT ![Head(queue[h])] = "granted"]
        /\ UNCHANGED <<limit, avail, taken>>

\* t leaves the queue of h from wherever it stands, and the others keep their order.
Quit(t, h, where) ==
  /\ state[t] = "waits"
  /\ \E i \in DOMAIN queue[h] :
       /\ queue[h][i] = t
       /\ queue' = [queue EXCEPT ![h] = SubSeq(@, 1, i - 1) \o SubSeq(@, i + 1, Len(@))]
  /\ state' = [state EXCEPT ![t] = where]
  /\ UNCHANGED <<limit, avail, taken>>

Expire(t, h) == Quit(t, h, "expired")

Leave(t) ==
  /\ state[t] \in {"granted", "expired"}
  /\ state' = [state EXCEPT ![t] = "out"]
  /\ UNCHANGED <<limit, avail, taken, queue>>

\* A waiting task is deleted.
Vanish(t, h) == Quit(t, h, "out")

Next ==
  \/ \E h \in Sem : Open(h) \/ Close(h) \/ Take(h) \/ Post(h)
  \/ \E t \in Task : Leave(t) \/ \E h \in Sem : Wait(t, h) \/ Expire(t, h) \/ Vanish(t, h)

Spec == Init /\ [][Next]_svars
=============================================================================
