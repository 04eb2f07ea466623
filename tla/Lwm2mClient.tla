----------------------------- MODULE Lwm2mClient ----------------------------
(***************************************************************************)
(* The registration of the LwM2M client with its server: lwm2m_step         *)
(* (core/liblwm2m.c), the registration and its updates (registration.c) and *)
(* the transactions that carry them (CoapTransaction), over a network that  *)
(* loses, duplicates and reorders messages.  AgentTiny has one server.      *)
(* The server is outside the repository: what it does is what registration.c *)
(* expects of an LwM2M server.                                              *)
(***************************************************************************)
EXTENDS CoapTransaction, FiniteSets, FiniteSetsExt

CONSTANTS
  MidPool,     \* the mIDs: bounds the exchanges in progress or still on the wire
  LocPool,     \* the locations the server gives to its registrations
  NoLoc,       \* no location
  UpdateAfter, \* seconds from a registration to its next update
  MaxLag,      \* seconds by which the agent task may be late
  MaxLife,     \* seconds a request is under way before it arrives or is lost
  MaxAnswers,  \* answers under way at a time
  MaxTrouble   \* mishaps in a behaviour: messages lost, duplicated or a second late, breaks
               \* of the link, refusals, restarts and changes of the objects, in any mixture

ASSUME ClientAssumption ==
  /\ MidPool \subseteq Nat /\ NoMid \notin MidPool /\ NoLoc \notin LocPool
  /\ {UpdateAfter, MaxLag, MaxLife, MaxAnswers, MaxTrouble} \subseteq Nat

VARIABLES
  client,   \* lwm2m_context_t and its server entry: state, status, location,
            \* seconds to the next update, transactionList, messages just sent
  requests, \* messages on their way to the server, each with its age in seconds
  answers,  \* messages on their way to the client
  server,   \* the server: its registration of this client, the mID that made
            \* it, the registration mIDs it has decided on, its refusals
  linkUp,   \* do messages get through at all?
  trouble   \* the mishaps left

vars == <<client, requests, answers, server, linkUp, trouble>>

RegisteredStatus ==
  {"REGISTERED", "REG_UPDATE_PENDING", "REG_FULL_UPDATE_NEEDED"}

Kind == {"register", "update", "deregister"}

\* The type of the client: what its transactions are for, and the state machines of
\* lwm2m_step and of the registration.
ClientTypeOK ==
  /\ client.state \in {"INITIAL", "REGISTER_REQUIRED", "REGISTERING", "READY"}
  /\ client.status \in RegisteredStatus \cup {"DEREGISTERED", "REG_PENDING", "REG_FAILED"}
  /\ client.location \in LocPool \cup {NoLoc} /\ client.sent = {}
  /\ client.renew \in 0 .. UpdateAfter /\ trouble \in 0 .. MaxTrouble
  /\ \A t \in client.list :
       /\ t.mid \in MidPool /\ t.request /\ t.status \in Status
       /\ t.body.kind \in Kind /\ t.counter \in 1 .. COAP_MAX_RETRANSMIT + 2

\* A message of the client; retransmissions are told apart by their copy number.
Message(t) ==
  [mid |-> t.mid, kind |-> t.body.kind, loc |-> t.body.loc, copy |-> t.counter, age |-> 0]

ClientInit ==
  [state |-> "INITIAL", status |-> "DEREGISTERED", location |-> NoLoc, renew |-> 0,
   list |-> {}, sent |-> {}]

NewServer == [binding |-> NoLoc, by |-> NoMid, seen |-> {}, refused |-> {}]

Init ==
  /\ client = ClientInit
  /\ requests = {} /\ answers = {}
  /\ server = NewServer
  /\ linkUp = TRUE /\ trouble = MaxTrouble

TravellingMids ==
  {q.mid : q \in requests} \cup {a.mid : a \in answers} \cup {a.token : a \in answers}

FreeMids == MidPool \ (Mids(client.list) \cup TravellingMids)

FreeLocs ==
  LocPool \ ({server.binding, client.location} \cup {q.loc : q \in requests}
               \cup {a.loc : a \in answers}
               \cup {t.body.loc : t \in client.list})
----------------------------------------------------------------------------
\* The callbacks of the transactions; code "none" is the NULL message.
prv_handleRegistrationReply(c, m) ==
  IF c.status # "REG_PENDING" THEN c
  ELSE IF m.code = "2.01"
  THEN [c EXCEPT !.status = "REGISTERED", !.location = m.loc, !.renew = UpdateAfter]
  ELSE [c EXCEPT !.status = "REG_FAILED", !.renew = UpdateAfter]

\* Seeded fault: the code of the answer to an update is not looked at.
prv_handleRegistrationUpdateReplyBlind(c, m) ==
  IF c.status # "REG_UPDATE_PENDING" THEN c
  ELSE [c EXCEPT !.status = "REGISTERED", !.renew = UpdateAfter]

prv_handleRegistrationUpdateReply(c, m) ==
  IF c.status # "REG_UPDATE_PENDING" THEN c
  ELSE [c EXCEPT !.status = IF m.code = "2.04" THEN "REGISTERED" ELSE "REG_FAILED",
                 !.renew = UpdateAfter]

Callback(c, t, m) ==
  IF t.body.kind = "register" THEN prv_handleRegistrationReply(c, m)
  ELSE prv_handleRegistrationUpdateReply(c, m)

NoMessage ==
  [type |-> "none", mid |-> NoMid, token |-> NoMid, code |-> "none", loc |-> NoLoc, copy |-> 0]

\* The callbacks of the transactions that end without an answer: the first of them that
\* changes the status leaves nothing to do for the others.
Unanswered(c, ended) ==
  LET served == {t \in ended : Callback(c, t, NoMessage) # c}
  IN  IF served = {} THEN c ELSE Callback(c, CHOOSE t \in served : TRUE, NoMessage)

\* Seeded fault: an overdue transaction is dropped without its callback.
transaction_sendMute(c, due) ==
  LET ended == {t \in due : EndsUnanswered(t)}
  IN  [c EXCEPT !.list = (@ \ due) \cup {Sent(t) : t \in due \ ended},
                !.sent = @ \cup {Message(t) : t \in {u \in due : Transmits(u)}}]

\* transaction_send of each transaction of due.
transaction_send(c, due) ==
  LET ended == {t \in due : EndsUnanswered(t)}
  IN  [Unanswered(c, ended) EXCEPT
         !.list = (@ \ due) \cup {Sent(t) : t \in due \ ended},
         !.sent = @ \cup {Message(t) : t \in {u \in due : Transmits(u)}}]

transaction_step(c) == transaction_send(c, {t \in c.list : t.retrans <= 0})

\* The transaction that takes message m, and what becomes of it.
transaction_handleResponse(c, m) ==
  IF Taking(c.list, m) = {} THEN c
  ELSE LET t == CHOOSE t \in Taking(c.list, m) : TRUE
       IN  IF Denied(t, m) THEN [c EXCEPT !.list = ListPut(@, AfterDenial(t))]
           ELSE IF Finishes(t, m)
           THEN [Callback(c, t, m) EXCEPT !.list = Without(@, t)]
           ELSE [c EXCEPT !.list = ListPut(@, Received(t, m))]
----------------------------------------------------------------------------
\* transaction_new, LWM2M_LIST_ADD and transaction_send of a request.
Request(c, mid, body) ==
  transaction_send(c, {transaction_new(mid, TRUE, body)})

prv_register(c, mid) ==
  [Request(c, mid, [kind |-> "register", loc |-> NoLoc]) EXCEPT !.status = "REG_PENDING"]

prv_updateRegistration(c, mid) ==
  [Request(c, mid, [kind |-> "update", loc |-> c.location])
     EXCEPT !.status = "REG_UPDATE_PENDING"]

\* registration_getStatus for the one server.
registration_getStatus(c) ==
  CASE c.status \in RegisteredStatus -> "REGISTERED"
    [] c.status = "REG_PENDING" -> "REG_PENDING"
    [] OTHER -> "REG_FAILED"

\* Does lwm2m_step pass through REGISTER_REQUIRED?
RegisterRequired(c) ==
  \/ c.state \in {"INITIAL", "REGISTER_REQUIRED"}
  \/ c.state \in {"REGISTERING", "READY"} /\ registration_getStatus(c) = "REG_FAILED"

registration_start(c, mid) ==
  IF c.status \in {"DEREGISTERED", "REG_FAILED"} THEN prv_register(c, mid) ELSE c

AdvanceState(c, mid) ==
  IF RegisterRequired(c) THEN [registration_start(c, mid) EXCEPT !.state = "REGISTERING"]
  ELSE IF c.state = "REGISTERING" /\ registration_getStatus(c) = "REGISTERED"
  THEN [c EXCEPT !.state = "READY"] ELSE c

registration_step(c, mid) ==
  IF \/ c.status = "REGISTERED" /\ c.renew <= 0
     \/ c.status = "REG_FULL_UPDATE_NEEDED"
  THEN prv_updateRegistration(c, mid) ELSE c

\* Takes what the client sent to the wire.
Wire(c) ==
  /\ client' = [c EXCEPT !.sent = {}]
  /\ requests' = IF linkUp THEN requests \cup c.sent ELSE {}
  /\ UNCHANGED linkUp

\* The server remembers a mID as long as a message with it may arrive.
Remembered(srv) ==
  LET live == Mids(client'.list) \cup {q.mid : q \in requests'}
  IN  [srv EXCEPT !.seen = @ \cap live, !.refused = {r \in @ : r.mid \in live},
                  !.by = IF @ \in live THEN @ ELSE NoMid]

\* Does this step send a request, and so need a mID?
NeedsMid ==
  \/ RegisterRequired(client)
  \/ client.status = "REGISTERED" /\ client.renew <= 0
  \/ client.status = "REG_FULL_UPDATE_NEEDED"

lwm2m_step ==
  /\ NeedsMid => FreeMids # {}
  /\ LET mid == IF NeedsMid THEN Min(FreeMids) ELSE NoMid
         c == transaction_step(registration_step(AdvanceState(client, mid), mid))
     IN  Wire(c)
  /\ server' = Remembered(server)
  /\ UNCHANGED <<answers, trouble>>

\* prv_register fails for want of memory or of a connection: lwm2m_step returns at once.
lwm2m_stepFails ==
  /\ RegisterRequired(client)
  /\ client' = [client EXCEPT !.state = "REGISTER_REQUIRED"]
  /\ UNCHANGED <<requests, answers, server, linkUp, trouble>>

Mishap == trouble > 0 /\ trouble' = trouble - 1

\* Message m arrives; before is what was under way, after what then is.
Delivered(m, before, after) ==
  \/ after = before \ {m} /\ UNCHANGED trouble
  \/ after = before /\ Mishap

\* lwm2m_handle_packet for an answer.
HandleAnswer(m) ==
  /\ Wire(transaction_handleResponse(client, m))
  /\ Delivered(m, answers, answers')
  /\ server' = Remembered(server)

\* Device management: the server creates or deletes an object instance of a client it
\* knows, and the client tells it about its objects again (lwm2m_update_registration).
ObjectsChange ==
  /\ Mishap
  /\ server.binding # NoLoc /\ client.status \in RegisteredStatus
  /\ client' = [client EXCEPT !.status = "REG_FULL_UPDATE_NEEDED"]
  /\ UNCHANGED <<requests, answers, server, linkUp>>

\* A restart, which takes longer than a request lives.
Reboot ==
  /\ Mishap /\ requests = {} /\ client # ClientInit
  /\ client' = ClientInit
  /\ UNCHANGED <<requests, answers, linkUp>>
  /\ server' = Remembered(server)

\* registration_deregister for the one server.
registration_deregister(c, mid) ==
  IF c.status \in {"DEREGISTERED", "REG_PENDING", "REG_FAILED"} \/ c.location = NoLoc THEN c
  ELSE Request(c, mid, [kind |-> "deregister", loc |-> c.location])

\* The agent is stopped: what it asked last goes out once and its answer finds nobody.
\* It is started again when no older request is on its way.
lwm2m_close ==
  /\ Mishap /\ requests = {} /\ client # ClientInit /\ FreeMids # {}
  /\ Wire([ClientInit EXCEPT !.sent = registration_deregister(client, Min(FreeMids)).sent])
  /\ server' = Remembered(server)
  /\ UNCHANGED answers

Older(q) == [q EXCEPT !.age = @ + 1]

\* A second passes; the agent task is at most MaxLag seconds late, and a request at most
\* MaxLife seconds under way.  An answer may take any time.
Tick ==
  /\ \A t \in client.list : Retries(t) => t.retrans > -MaxLag
  /\ \A q \in requests : q.age < MaxLife
  /\ requests' = {Older(q) : q \in requests}
  /\ client' = [client EXCEPT
                  !.renew = IF @ > 0 THEN @ - 1 ELSE @,
                  !.list = {Elapse(t) : t \in @}]
  /\ IF requests \cup answers = {} THEN UNCHANGED trouble ELSE Mishap
  /\ UNCHANGED <<answers, server, linkUp>>
----------------------------------------------------------------------------
\* The server: an answer comes with the acknowledgement or apart from it.
Reply(q, type, mid, token, code, loc) ==
  [type |-> type, mid |-> mid, token |-> token, code |-> code, loc |-> loc, copy |-> q.copy]

Acknowledgement(q) == Reply(q, "ACK", q.mid, NoMid, "0.00", NoLoc)

Answer(q, code, loc) ==
  /\ IF code = "RST" THEN answers' = answers \cup {Reply(q, "RST", q.mid, NoMid, "0.00", NoLoc)}
     ELSE \/ answers' = answers \cup {Reply(q, "ACK", q.mid, q.mid, code, loc)}
          \/ answers' = answers \cup {Acknowledgement(q), Reply(q, "CON", NoMid, q.mid, code, loc)}
  /\ Cardinality(answers') <= MaxAnswers

Arrives(q) == Delivered(q, requests, requests')

\* The server decides on a message once, but takes up one it denied (4.01) when the client
\* has no registration.
Undecided(q) ==
  /\ q.kind = "register"
  /\ \/ q.mid \notin server.seen
     \/ [mid |-> q.mid, code |-> "4.01"] \in server.refused /\ server.binding = NoLoc

ServerAccepts(q) ==
  /\ Undecided(q) /\ Arrives(q) /\ FreeLocs # {}
  /\ LET loc == CHOOSE l \in FreeLocs : TRUE
     IN  /\ Answer(q, "2.01", loc)
         /\ UNCHANGED <<client, linkUp>>
         /\ server' = Remembered([server EXCEPT !.binding = loc, !.by = q.mid,
                                                !.seen = @ \cup {q.mid}])

ServerRefuses(q) ==
  /\ Undecided(q) /\ q \in requests /\ requests' = requests \ {q} /\ Mishap
  /\ UNCHANGED <<client, linkUp>>
  /\ \E code \in {"4.00", "4.01", "RST"} :
       /\ Answer(q, code, NoLoc)
       /\ server' = Remembered(
            [server EXCEPT !.seen = @ \cup {q.mid},
                           !.refused = @ \cup {[mid |-> q.mid, code |-> code]}])

\* A repeated message gets the answer it had, unless another registration came since.
ServerRepeats(q) ==
  /\ q.kind = "register" /\ ~Undecided(q) /\ Arrives(q)
  /\ \/ q.mid = server.by /\ Answer(q, "2.01", server.binding)
     \/ \E r \in server.refused : r.mid = q.mid /\ Answer(q, r.code, NoLoc)
     \/ /\ q.mid # server.by /\ \A r \in server.refused : r.mid # q.mid
        /\ UNCHANGED answers
  /\ UNCHANGED <<client, linkUp>>
  /\ server' = Remembered(server)

ServerUpdates(q) ==
  /\ q.kind = "update" /\ Arrives(q)
  /\ Answer(q, IF q.loc = server.binding THEN "2.04" ELSE "4.04", NoLoc)
  /\ UNCHANGED <<client, server, linkUp>>

ServerDeregisters(q) ==
  /\ q.kind = "deregister" /\ Arrives(q)
  /\ UNCHANGED <<client, linkUp>>
  /\ IF q.loc = server.binding
     THEN /\ Answer(q, "2.02", NoLoc)
          /\ server' = Remembered([server EXCEPT !.binding = NoLoc, !.by = NoMid])
     ELSE Answer(q, "4.04", NoLoc) /\ UNCHANGED server

\* The registration expires, or the server restarts, while nothing is under way.
ServerForgets ==
  /\ server.binding # NoLoc /\ requests = {} /\ answers = {}
  /\ server' = NewServer
  /\ UNCHANGED <<client, requests, answers, linkUp, trouble>>

Lose ==
  /\ Mishap
  /\ \/ \E q \in requests : requests' = requests \ {q} /\ UNCHANGED answers
     \/ \E m \in answers : answers' = answers \ {m} /\ UNCHANGED requests
  /\ UNCHANGED <<client, linkUp>>
  /\ server' = Remembered(server)

\* The link fails with all that is under way, and comes back.
LinkBreaks ==
  /\ Mishap /\ linkUp
  /\ linkUp' = FALSE /\ requests' = {} /\ answers' = {}
  /\ UNCHANGED client
  /\ server' = Remembered(server)

LinkReturns ==
  /\ ~linkUp /\ linkUp' = TRUE
  /\ UNCHANGED <<client, requests, answers, server, trouble>>

Next ==
  \/ lwm2m_step \/ lwm2m_stepFails \/ lwm2m_close \/ ObjectsChange \/ Reboot \/ Tick
  \/ \E m \in answers : HandleAnswer(m)
  \/ \E q \in requests :
       ServerAccepts(q) \/ ServerRefuses(q) \/ ServerRepeats(q) \/ ServerUpdates(q)
       \/ ServerDeregisters(q)
  \/ ServerForgets \/ Lose \/ LinkBreaks \/ LinkReturns

Spec == Init /\ [][Next]_vars

Arrival ==
  \/ \E m \in answers : HandleAnswer(m)
  \/ \E q \in requests :
       ServerAccepts(q) \/ ServerRepeats(q) \/ ServerUpdates(q) \/ ServerDeregisters(q)

\* The agent task runs, time passes, and a message that is not lost arrives.
FairSpec == Spec /\ WF_vars(lwm2m_step \/ Tick \/ Arrival)
----------------------------------------------------------------------------
OfKind(kind) == {t \in client.list : t.body.kind = kind}

\* A status that waits for an answer has the transaction that will bring it.
PendingIsServed ==
  /\ ClientTypeOK
  /\ Cardinality(OfKind("register")) = IF client.status = "REG_PENDING" THEN 1 ELSE 0
  /\ client.status = "REG_UPDATE_PENDING" => OfKind("update") # {}

\* A client that takes itself for registered uses the registration the server has, if any.
SameRegistration ==
  client.status \in RegisteredStatus => server.binding \in {client.location, NoLoc}

\* The server has the registration the client uses.
InTouch ==
  client.status \in RegisteredStatus /\ server.binding = client.location

\* A transaction whose retransmissions are used up before its response is overdue: it
\* is sent no more and never ends.
Abandoned == \E t \in client.list : t.status = "TIME_OUT"

\* A client the server does not know gets registered, unless a transaction was abandoned.
Recovers == server.binding = NoLoc ~> (InTouch \/ Abandoned)

\* transaction.c: the callback is called "when either the result is received or a
\* timeout occurs", so every transaction ends.
TransactionEnds == \A m \in MidPool : m \in Mids(client.list) ~> m \notin Mids(client.list)
=============================================================================
