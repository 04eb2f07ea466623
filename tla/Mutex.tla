------------------------------- MODULE Mutex --------------------------------
(***************************************************************************)
(* What LOS_MuxPend and LOS_MuxPost promise: one owner at a time, who has   *)
(* to unlock as often as it locked, and who hands the mutex to the first of *)
(* the tasks that wait.                                                     *)
(***************************************************************************)
EXTENDS Naturals, Sequences

CONSTANTS Task, Mux, NoOwner, MaxNest

VARIABLES
  owner,  \* the task in possession of the mutex, or NoOwner
  depth,  \* how often the owner has locked it
  queue,  \* the waiting tasks in arrival order
  state   \* "out", "waits", "granted" or "expired"

mvars == <<owner, depth, queue, state>>

Init ==
  /\ owner = [m \in Mux |-> NoOwner]
  /\ depth = [m \in Mux |-> 0]
  /\ queue = [m \in Mux |-> <<>>]
  /\ state = [t \in Task |-> "out"]

Lock(t, m) ==
  /\ state[t] = "out"
  /\ owner[m] \in {NoOwner, t} /\ depth[m] < MaxNest
  /\ owner' = [owner EXCEPT ![m] = t]
  /\ depth' = [depth EXCEPT ![m] = @ + 1]
  /\ UNCHANGED <<queue, state>>

Wait(t, m) ==
  /\ state[t] = "out"
  /\ owner[m] \notin {NoOwner, t}
  /\ queue' = [queue EXCEPT ![m] = Append(@, t)]
  /\ state' = [state EXCEPT ![t] = "waits"]
  /\ UNCHANGED <<owner, depth>>

Unnest(t, m) ==
  /\ state[t] = "out"
  /\ owner[m] = t /\ depth[m] > 1
  /\ depth' = [depth EXCEPT ![m] = @ - 1]
  /\ UNCHANGED <<owner, queue, state>>

Release(t, m) ==
  /\ state[t] = "out"
  /\ owner[m] = t /\ depth[m] = 1 /\ queue[m] = <<>>
  /\ owner' = [owner EXCEPT ![m] = NoOwner]
  /\ depth' = [depth EXCEPT ![m] = 0]
  /\ UNCHANGED <<queue, state>>

HandOver(t, m) ==
  /\ state[t] = "out"
  /\ owner[m] = t /\ depth[m] = 1 /\ queue[m] # <<>>
  /\ owner' = [owner EXCEPT ![m] = Head(queue[m])]
  /\ queue' = [queue EXCEPT ![m] = Tail(@)]
  /\ state' = [state EXCEPT ![Head(queue[m])] = "granted"]
  /\ UNCHANGED depth

\* t leaves the queue of m from wherever it stands: its wait expires or it is deleted.
Quit(t, m) ==
  /\ state[t] = "waits"
  /\ \E i \in DOMAIN queue[m] :
       /\ queue[m][i] = t
       /\ queue' = [queue EXCEPT ![m] = SubSeq(@, 1, i - 1) \o SubSeq(@, i + 1, Len(@))]
  /\ \E where \in {"expired", "out"} : state' = [state EXCEPT ![t] = where]
  /\ UNCHANGED <<owner, depth>>

Leave(t) ==
  /\ \/ state[t] = "expired"
     \/ state[t] = "granted" /\ \E m \in Mux : owner[m] = t
  /\ state' = [state EXCEPT ![t] = "out"]
  /\ UNCHANGED <<owner, depth, queue>>

Next ==
  \E t \in Task :
    \/ Leave(t)
    \/ \E m \in Mux : \/ Lock(t, m) \/ Wait(t, m) \/ Unnest(t, m)
                      \/ Release(t, m) \/ HandOver(t, m) \/ Quit(t, m)

Spec == Init /\ [][Next]_mvars
=============================================================================
