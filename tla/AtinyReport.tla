----------------------------- MODULE AtinyReport ----------------------------
(***************************************************************************)
(* The reports of AgentTiny: application tasks put them into a list         *)
(* (atiny_rpt.c), the agent task takes them out for the server that observes *)
(* the resource (observe_app_step in core/observe.c), sends each as a       *)
(* confirmable notification (CoapTransaction) and tells the callback of the *)
(* report what became of it.  The network loses, duplicates and reorders.   *)
(* The resource is /19/0/0, "App"; "Other" is any other observed resource.   *)
(* The server observes, cancels, and creates and deletes the instance as it  *)
(* likes: it is outside the repository.                                     *)
(***************************************************************************)
EXTENDS CoapTransaction, FiniteSets, Sequences, SequencesExt, Functions

CONSTANTS
  Report,                \* the reports of the application, each the mID of its notification:
                         \* one is used again when nothing in the system refers to it
  MAX_BUFFER_REPORT_CNT, \* reports that wait at a time
  MaxLag,                \* seconds by which the agent task may be late
  MaxUnderWay,           \* messages under way at a time, in both directions
  Followed               \* the reports the liveness properties follow: the reports are
                         \* compared for equality only, so one stands for all of them

ASSUME ReportAssumption ==
  /\ NoMid \notin Report /\ Followed \subseteq Report
  /\ MAX_BUFFER_REPORT_CNT \in Nat \ {0} /\ {MaxLag, MaxUnderWay} \subseteq Nat

VARIABLES
  atiny,   \* the client: pc of the agent task, rpt_list and its rpt_node_cnt, the observed
           \* resources, transactionList, does the instance exist, outcomes told
  wire,    \* the notifications on their way to the server
  replies  \* the acknowledgements and resets on their way back

vars == <<atiny, wire, replies>>

Outcome == {"none", "NOT_SENT", "SENT_SUCCESS", "SENT_TIME_OUT", "OBSERVE_CANCEL"}

Init ==
  /\ atiny = [pc |-> "observe", rpt_list |-> <<>>, rpt_node_cnt |-> 0, observed |-> <<>>,
              list |-> {}, exists |-> TRUE, told |-> [r \in Report |-> "none"]]
  /\ wire = {} /\ replies = {}

Queued == Range(atiny.rpt_list)
Outstanding == Mids(atiny.list)

FreeReports == Report \ (Queued \cup Outstanding \cup wire \cup {m.mid : m \in replies})

\* prv_findObserved: the place of a resource among the observed ones, 0 when it is not.
prv_findObserved(a, uri) == SelectInSeq(a.observed, LAMBDA o : o.uri = uri)

\* The network takes notifications, and loses what it likes or cannot hold.
Wired(reports) ==
  wire' \in {w \in SUBSET (wire \cup reports) :
               Cardinality(w) + Cardinality(replies) <= MaxUnderWay}

Tell(a, reports, outcome) ==
  [a EXCEPT !.told = [r \in Report |-> IF r \in reports THEN outcome ELSE @[r]]]
----------------------------------------------------------------------------
\* Seeded fault: the line takes one report more than its limit.
atiny_data_reportOver(r) ==
  /\ atiny.pc \notin {"stuck", "ended"} /\ atiny.exists
  /\ atiny.rpt_node_cnt <= MAX_BUFFER_REPORT_CNT
  /\ atiny' = [atiny EXCEPT !.rpt_list = Append(@, r), !.rpt_node_cnt = @ + 1,
                            !.told[r] = "none"]
  /\ UNCHANGED <<wire, replies>>

\* atiny_data_report and atiny_queue_rpt_data, in any task, when nobody holds the list.
atiny_data_report(r) ==
  /\ atiny.pc \notin {"stuck", "ended"} /\ atiny.exists
  /\ atiny.rpt_node_cnt < MAX_BUFFER_REPORT_CNT
  /\ atiny' = [atiny EXCEPT !.rpt_list = Append(@, r), !.rpt_node_cnt = @ + 1,
                            !.told[r] = "none"]
  /\ UNCHANGED <<wire, replies>>

\* Seeded fault: a notification that times out is dropped without its callback.
transaction_sendMute(a, due) ==
  LET ended == {t \in due : EndsUnanswered(t)}
  IN  [a EXCEPT !.list = (@ \ due) \cup {Sent(t) : t \in due \ ended}]

\* transaction_send of each transaction of due: the callback, observe_handleAck, tells the
\* application the outcome.
transaction_send(a, due) ==
  LET ended == {t \in due : EndsUnanswered(t)}
  IN  [Tell(a, Mids(ended), "SENT_TIME_OUT") EXCEPT
         !.list = (@ \ due) \cup {Sent(t) : t \in due \ ended}]

\* Seeded fault: without an active watcher nothing is read.
observe_app_stepIdle ==
  /\ atiny.pc = "observe" /\ atiny.exists /\ atiny.rpt_list # <<>>
  /\ \E i \in DOMAIN atiny.observed :
       LET r == Head(atiny.rpt_list)
           t == transaction_new(r, FALSE, r)
           rest == [atiny EXCEPT !.rpt_list = Tail(@), !.rpt_node_cnt = @ - 1]
       IN  /\ atiny.observed[i].uri = "App" /\ atiny.observed[i].active
           /\ atiny' = transaction_send(
                [rest EXCEPT !.observed[i].lastMid = r], {t})
           /\ Wired({r})
  /\ UNCHANGED replies

\* One turn of the loop of observe_app_step.  Without an active watcher the report is
\* read and dropped.
observe_app_step ==
  /\ atiny.pc = "observe" /\ atiny.exists /\ atiny.rpt_list # <<>>
  /\ prv_findObserved(atiny, "App") # 0
  /\ LET r == Head(atiny.rpt_list)
         i == prv_findObserved(atiny, "App")
         t == transaction_new(r, FALSE, r)
         rest == [atiny EXCEPT !.rpt_list = Tail(@), !.rpt_node_cnt = @ - 1]
     IN  IF atiny.observed[i].active
         THEN /\ atiny' = transaction_send(
                   [rest EXCEPT !.observed[i].lastMid = r], {t})
              /\ Wired({r})
         ELSE atiny' = rest /\ UNCHANGED wire
  /\ UNCHANGED replies

\* object_readData finds no report, or no instance: the loop ends, and lwm2m_step goes on
\* to transaction_step.
transaction_step ==
  /\ atiny.pc = "observe"
  /\ prv_findObserved(atiny, "App") = 0 \/ atiny.rpt_list = <<>> \/ ~atiny.exists
  /\ LET due == {t \in atiny.list : t.retrans <= 0}
     IN  /\ atiny' = [transaction_send(atiny, due) EXCEPT !.pc = "poll"]
         /\ Wired(Mids({t \in due : Transmits(t)}))
  /\ UNCHANGED replies
----------------------------------------------------------------------------
\* atiny_clear_rpt_data, atiny_rm_rpt_uri: every callback is called while the list is
\* locked.  The lock is a binary semaphore: a callback that reports again waits for its
\* own task.
ClearOutcomes(a, outcome) ==
  {[Tell(a, Range(a.rpt_list), outcome) EXCEPT !.rpt_list = <<>>, !.rpt_node_cnt = 0]} \cup
  {[Tell(a, Range(SubSeq(a.rpt_list, 1, k)), outcome)
      EXCEPT !.rpt_list = SubSeq(@, k + 1, Len(@)), !.pc = "stuck"] : k \in DOMAIN a.rpt_list}

\* observe_cancel of the i-th observed resource and atiny_observe_cancel_notify.
observe_cancel(a, i) ==
  LET rest == [a EXCEPT !.observed = RemoveAt(@, i)]
  IN  IF a.observed[i].uri = "App" THEN ClearOutcomes(rest, "OBSERVE_CANCEL") ELSE {rest}

transaction_handleResponse(a, m) ==
  IF a.pc = "stuck" \/ Taking(a.list, m) = {} THEN a
  ELSE LET t == CHOOSE t \in Taking(a.list, m) : TRUE
       IN  IF Finishes(t, m)
           THEN [Tell(a, {t.mid}, IF Resets(t, m) THEN "OBSERVE_CANCEL" ELSE "SENT_SUCCESS")
                   EXCEPT !.list = Without(@, t)]
           ELSE [a EXCEPT !.list = ListPut(@, Received(t, m))]

\* The place of the observed resource whose latest notification was this one, or 0.
LatestOf(a, mid) == SelectInSeq(a.observed, LAMBDA o : o.lastMid = mid)

\* What lwm2m_handle_packet makes of an acknowledgement or a reset: handle_reset cancels
\* the observation whose latest notification is reset, whatever becomes of the transaction.
lwm2m_handle_packet(a, m) ==
  LET i == LatestOf(a, m.mid)
      cancelled == IF m.type = "RST" /\ i # 0 THEN observe_cancel(a, i) ELSE {a}
  IN  {transaction_handleResponse(b, m) : b \in cancelled}

Polled(a) == [a EXCEPT !.pc = IF @ = "stuck" THEN @ ELSE "observe"]

HandleReply(m) ==
  /\ atiny.pc = "poll"
  /\ \E a \in lwm2m_handle_packet(atiny, m) : atiny' = Polled(a)
  /\ replies' \in {replies, replies \ {m}}
  /\ UNCHANGED wire

\* prv_getWatcher: a new observed resource goes to the head of the list.
prv_getWatcher(a, uri) ==
  IF prv_findObserved(a, uri) # 0 THEN a
  ELSE [a EXCEPT !.observed = <<[uri |-> uri, active |-> FALSE, lastMid |-> NoMid]>> \o @]

Readable(uri) == uri = "Other" \/ atiny.exists

observe_handleRequest(uri) ==
  /\ Readable(uri)
  /\ LET a == prv_getWatcher(atiny, uri)
     IN  atiny' = Polled([a EXCEPT !.observed[prv_findObserved(a, uri)].active = TRUE])

\* Write-Attributes to the application's resource.
observe_setParameters ==
  Readable("App") /\ atiny' = Polled(prv_getWatcher(atiny, "App"))

\* Seeded fault: the application is not told that the observation ended.
CancelObserveSilently ==
  /\ atiny.observed # <<>>
  /\ atiny' = Polled([atiny EXCEPT !.observed = Tail(@)])

\* Observe with count 1: observe_cancel with LWM2M_MAX_ID takes the first observed resource,
\* whatever the request names.
CancelObserve ==
  /\ atiny.observed # <<>>
  /\ \E a \in observe_cancel(atiny, 1) : atiny' = Polled(a)

\* prv_delete, then observe_clear.
prv_delete ==
  /\ atiny.exists
  /\ \E a \in ClearOutcomes([atiny EXCEPT !.exists = FALSE], "NOT_SENT") :
       atiny' = IF a.pc = "stuck" THEN a
                ELSE Polled([a EXCEPT !.observed = RemoveFirstMatch(@, LAMBDA o : o.uri = "App")])

prv_create == ~atiny.exists /\ atiny' = Polled([atiny EXCEPT !.exists = TRUE])

\* The agent polls: a request of the server, or nothing.
HandleRequest ==
  /\ atiny.pc = "poll"
  /\ \/ \E uri \in {"App", "Other"} : observe_handleRequest(uri)
     \/ observe_setParameters \/ CancelObserve \/ prv_delete \/ prv_create
  /\ UNCHANGED <<wire, replies>>

NoPacket ==
  /\ atiny.pc = "poll" /\ atiny' = Polled(atiny)
  /\ UNCHANGED <<wire, replies>>

\* The loop of atiny_bind ends, when the application no longer reports: atiny_destory_rpt,
\* and lwm2m_close, which frees the transactions without their callbacks.
atiny_detroy ==
  /\ atiny.pc = "observe"
  /\ atiny' = [Tell(atiny, Queued, "NOT_SENT") EXCEPT
                 !.pc = "ended", !.rpt_list = <<>>, !.observed = <<>>, !.list = {}]
  /\ UNCHANGED <<wire, replies>>

Tick ==
  /\ atiny.pc # "ended"
  /\ \A t \in atiny.list : Retries(t) => t.retrans > -MaxLag
  /\ atiny' = [atiny EXCEPT !.list = {Elapse(t) : t \in @}]
  /\ UNCHANGED <<wire, replies>>

\* The server answers a notification, and the network loses what it likes.
ServerReplies(r) ==
  /\ \E type \in {"ACK", "RST"} :
       replies' = replies \cup {[type |-> type, mid |-> r, token |-> NoMid, code |-> "0.00"]}
  /\ wire' \in {wire, wire \ {r}} /\ Cardinality(wire') + Cardinality(replies') <= MaxUnderWay
  /\ UNCHANGED atiny

Lose ==
  /\ <<wire, replies>> # <<{}, {}>> /\ wire' = {} /\ replies' = {}
  /\ UNCHANGED atiny

AgentStep ==
  \/ observe_app_step \/ transaction_step \/ HandleRequest \/ NoPacket
  \/ \E m \in replies : HandleReply(m)

Next ==
  \/ \E r \in FreeReports : atiny_data_report(r)
  \/ AgentStep \/ atiny_detroy \/ Tick
  \/ \E r \in wire : ServerReplies(r)
  \/ Lose

Spec == Init /\ [][Next]_vars

\* The agent task runs and time passes.
FairSpec == Spec /\ WF_vars(AgentStep) /\ WF_vars(Tick)
----------------------------------------------------------------------------
\* The agent is in a callback that waits for the agent's own lock, or has stopped.
Over == atiny.pc \in {"stuck", "ended"}

\* The line is as long as its counter says and never longer than its limit, and a report
\* is in it or with a transaction, once and not both.
EachInOnePlace ==
  /\ ~Over => atiny.rpt_node_cnt = Len(atiny.rpt_list)
  /\ Len(atiny.rpt_list) <= MAX_BUFFER_REPORT_CNT
  /\ IsInjective(atiny.rpt_list) /\ \A t, u \in atiny.list : t.mid = u.mid => t = u
  /\ Queued \cap Outstanding = {}

Service ==
  INSTANCE ReportService WITH
    MaxPending <- MAX_BUFFER_REPORT_CNT, pending <- atiny.rpt_list,
    outstanding <- Outstanding, told <- atiny.told, running <- (atiny.pc # "ended")

ImplementsReports == Service!Spec

\* However the observation of the application's resource ends, no report goes on waiting:
\* every one is concluded, unless a callback locked up the agent.
CancelConcludesReports ==
  [][prv_findObserved(atiny, "App") # 0 /\ prv_findObserved(atiny', "App") = 0
       => atiny'.rpt_list = <<>> \/ atiny'.pc = "stuck"]_vars

\* A report counts as delivered only when the server acknowledged that very report.
SuccessIsAcknowledged ==
  [][\A r \in Report :
       atiny.told[r] = "none" /\ atiny'.told[r] = "SENT_SUCCESS"
         => \E m \in replies : m.mid = r /\ m.type = "ACK"]_vars

\* The application reports slowly enough for the loop of observe_app_step to end.
Paced == []<>(atiny.pc # "observe")

\* The callback of a report that was sent is called, whatever the network does.
SentConcluded ==
  Paced => \A r \in Followed : r \in Outstanding ~> (r \notin Outstanding \/ Over)

\* A report of an observed resource does not wait for ever.
ObservedDrains ==
  \A r \in Followed :
    r \in Queued /\ prv_findObserved(atiny, "App") # 0
      ~> r \notin Queued \/ prv_findObserved(atiny, "App") = 0 \/ Over
=============================================================================
