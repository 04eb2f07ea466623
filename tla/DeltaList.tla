------------------------------ MODULE DeltaList ------------------------------
(***************************************************************************)
(* A list of timers in the order of their expiry, in which each counts from *)
(* the expiry of the one before it.  The slots of the task timers in        *)
(* los_task.c and the list of running timers in los_swtmr.c have this form. *)
(***************************************************************************)
EXTENDS Naturals, Sequences, FiniteSets, SequencesExt

\* The time to the expiry of the k-th timer of list q, whose counts are d.
Until(q, d, k) ==
  LET sum[j \in 0 .. Len(q)] == IF j = 0 THEN 0 ELSE sum[j - 1] + d[q[j]]
  IN  sum[k]

\* The place for a timer of n: the walk passes those that expire no later.
PlaceFor(q, d, n) == Cardinality({j \in DOMAIN q : Until(q, d, j) <= n}) + 1

PlaceOf(q, t) == CHOOSE k \in DOMAIN q : q[k] = t

\* The time to the expiry of timer t of the list.
TimeOf(q, d, t) == Until(q, d, PlaceOf(q, t))
=============================================================================
