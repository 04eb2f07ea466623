----------------------------- MODULE EventFlags -----------------------------
(***************************************************************************)
(* What LOS_EventRead and LOS_EventWrite promise: a reader waits until all  *)
(* the flags it asks for, or one of them, are set, and the write that sets  *)
(* them lets every such reader go.  The reader takes the flags it then      *)
(* finds, which may be none when an earlier one took them; a wait that      *)
(* expires takes none.                                                      *)
(***************************************************************************)
EXTENDS FiniteSets

CONSTANTS
  Task, Event, Flag,
  Wishes, \* what tasks ask for: event, mask, mode ("OR", "AND"), and do they clear what they take
  NoWish

VARIABLES
  flags, \* the flags set in each event
  at,    \* "out", "waits", "free" or "expired"
  wish   \* what a task inside of a read asks for

evars == <<flags, at, wish>>

\* The flags wish w gets out of the set s.
Granted(w, s) ==
  IF w.mode = "OR" \/ w.mask \subseteq s THEN w.mask \cap s ELSE {}

Left(w, s) == IF w.clr THEN s \ Granted(w, s) ELSE s

Init ==
  /\ flags = [e \in Event |-> {}]
  /\ at = [t \in Task |-> "out"] /\ wish = [t \in Task |-> NoWish]

Take(w) ==
  /\ Granted(w, flags[w.event]) # {}
  /\ flags' = [flags EXCEPT ![w.event] = Left(w, @)]
  /\ UNCHANGED <<at, wish>>

Wait(t, w) ==
  /\ at[t] = "out" /\ Granted(w, flags[w.event]) = {}
  /\ at' = [at EXCEPT ![t] = "waits"] /\ wish' = [wish EXCEPT ![t] = w]
  /\ UNCHANGED flags

Set(e, new) ==
  /\ flags' = [flags EXCEPT ![e] = @ \cup new]
  /\ at' = [t \in Task |->
              IF at[t] = "waits" /\ wish[t].event = e /\ Granted(wish[t], flags'[e]) # {}
              THEN "free" ELSE at[t]]
  /\ UNCHANGED wish

Clear(e, keep) ==
  /\ flags' = [flags EXCEPT ![e] = @ \cap keep]
  /\ UNCHANGED <<at, wish>>

Expire(t) ==
  /\ at[t] = "waits" /\ at' = [at EXCEPT ![t] = "expired"]
  /\ UNCHANGED <<flags, wish>>

Leave(t) ==
  /\ at[t] \in {"free", "expired"}
  /\ flags' = IF at[t] = "expired" THEN flags
              ELSE [flags EXCEPT ![wish[t].event] = Left(wish[t], @)]
  /\ at' = [at EXCEPT ![t] = "out"] /\ wish' = [wish EXCEPT ![t] = NoWish]

\* A reader is deleted.
Vanish(t) ==
  /\ at[t] # "out"
  /\ at' = [at EXCEPT ![t] = "out"] /\ wish' = [wish EXCEPT ![t] = NoWish]
  /\ UNCHANGED flags

Next ==
  \/ \E w \in Wishes : Take(w) \/ \E t \in Task : Wait(t, w)
  \/ \E e \in Event, s \in SUBSET Flag : Set(e, s) \/ Clear(e, s)
  \/ \E t \in Task : Expire(t) \/ Leave(t) \/ Vanish(t)

Spec == Init /\ [][Next]_evars
=============================================================================
