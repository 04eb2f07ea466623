---------------------------- MODULE ReportService ---------------------------
(***************************************************************************)
(* What atiny_data_report promises the application: a report that was taken *)
(* waits in line behind the earlier ones, is sent, and its callback is told *)
(* the outcome once.  A report that waits may end with an outcome before it *)
(* is sent, the oldest first, or be forgotten at the head of the line.  When *)
(* the service stops, what waits gets its outcome and what was sent does not. *)
(***************************************************************************)
EXTENDS Naturals, Sequences

CONSTANTS Report, MaxPending

VARIABLES
  pending,     \* the reports that wait, in the order they came
  outstanding, \* the reports sent and not yet concluded
  told,        \* the outcome the callback of a report was told, "none" before
  running      \* TRUE until the service stops

rvars == <<pending, outstanding, told, running>>

SentOutcome == {"SENT_SUCCESS", "SENT_TIME_OUT", "OBSERVE_CANCEL"}
WaitOutcome == {"NOT_SENT", "OBSERVE_CANCEL"}

FirstPending(k) == {pending[i] : i \in 1 .. k}

Init ==
  /\ pending = <<>> /\ outstanding = {}
  /\ told = [r \in Report |-> "none"] /\ running = TRUE

Take(r) ==
  /\ running /\ Len(pending) < MaxPending
  /\ r \notin FirstPending(Len(pending)) \cup outstanding
  /\ pending' = Append(pending, r)
  /\ told' = [told EXCEPT ![r] = "none"]
  /\ UNCHANGED <<outstanding, running>>

Send ==
  /\ running /\ pending # <<>>
  /\ outstanding' = outstanding \cup {Head(pending)} /\ pending' = Tail(pending)
  /\ UNCHANGED <<told, running>>

Forget ==
  /\ running /\ pending # <<>>
  /\ pending' = Tail(pending)
  /\ UNCHANGED <<outstanding, told, running>>

\* Some of the sent reports end, and the first k of the waiting ones.
Conclude(k, sent) ==
  /\ running
  /\ \E o \in [sent -> SentOutcome], w \in WaitOutcome :
       told' = [r \in Report |->
                  IF r \in sent THEN o[r] ELSE IF r \in FirstPending(k) THEN w ELSE told[r]]
  /\ pending' = SubSeq(pending, k + 1, Len(pending))
  /\ outstanding' = outstanding \ sent
  /\ UNCHANGED running

Stop ==
  /\ running' = FALSE /\ running
  /\ told' = [r \in Report |-> IF r \in FirstPending(Len(pending)) THEN "NOT_SENT" ELSE told[r]]
  /\ pending' = <<>> /\ outstanding' = {}

Next ==
  \/ \E r \in Report : Take(r)
  \/ Send \/ Forget \/ Stop
  \/ \E k \in 0 .. Len(pending), sent \in SUBSET outstanding : Conclude(k, sent)

Spec == Init /\ [][Next]_rvars
=============================================================================
