---------------------------- MODULE Lwm2mProofs ----------------------------
(***************************************************************************)
(* Proofs about the registration of Lwm2mClient, for any number of          *)
(* mishaps, any timing and any retransmission limit.                        *)
(***************************************************************************)
EXTENDS Lwm2mClient, WellFoundedInduction, FiniteSetTheorems, TLAPS

Loc == LocPool \cup {NoLoc}

AnyBody == [kind : Kind, loc : Loc]

Body == [kind : {"register", "update"}, loc : Loc]

Transaction ==
  [mid : MidPool, request : {TRUE}, body : Body,
   status : {"WAIT_RESPONSE", "TIME_OUT", "RECV_ACK", "UNAUTHORIZED"},
   counter : 1 .. COAP_MAX_RETRANSMIT + 2, retrans : Int, wait : Int]

Request_ == [mid : MidPool, kind : Kind, loc : Loc, copy : Nat, age : 0 .. MaxLife]

Reply_ ==
  [type : {"ACK", "RST", "CON"}, mid : MidPool \cup {NoMid}, token : MidPool \cup {NoMid},
   code : {"0.00", "2.01", "2.02", "2.04", "4.00", "4.01", "4.04"}, loc : Loc, copy : Nat]

ClientStatus == RegisteredStatus \cup {"DEREGISTERED", "REG_PENDING", "REG_FAILED"}

Client ==
  [state : {"INITIAL", "REGISTER_REQUIRED", "REGISTERING", "READY"}, status : ClientStatus,
   location : Loc, renew : 0 .. UpdateAfter, list : SUBSET Transaction,
   sent : SUBSET Request_]

UniqueMids(list) == \A t, u \in list : t.mid = u.mid => t = u

Of(list, kind) == {t \in list : t.body.kind = kind}

Served(c) ==
  /\ \A t, u \in Of(c.list, "register") : t = u
  /\ c.status = "REG_PENDING" <=> Of(c.list, "register") # {}
  /\ c.status = "REG_UPDATE_PENDING" => Of(c.list, "update") # {}

\* The agent task is never later than MaxLag.
Punctual(list) == \A t \in list : t.retrans >= -MaxLag

ClientInv(c) ==
  c \in Client /\ UniqueMids(c.list) /\ Served(c) /\ Punctual(c.list)

Refusal == {"4.00", "4.01", "RST"}

ServerRec ==
  [binding : Loc, by : MidPool \cup {NoMid}, seen : SUBSET MidPool,
   refused : SUBSET [mid : MidPool, code : Refusal]]

Network(rq, an, srv, tr) ==
  /\ rq \subseteq Request_ /\ an \subseteq Reply_ /\ srv \in ServerRec
  /\ tr \in 0 .. MaxTrouble
  /\ \A a \in an : a.code = "2.01" => a.type # "RST" /\ a.loc # NoLoc
  /\ srv.by # NoMid => srv.binding # NoLoc

TypeInv ==
  ClientInv(client) /\ client.sent = {} /\ Network(requests, answers, server, trouble)

\* What the transactions and the requests on their way use a mID for.
Tagged(list, rq, m, kind) ==
  \/ \E t \in list : t.mid = m /\ t.body.kind = kind
  \/ \E q \in rq : q.mid = m /\ q.kind = kind

OneKind(list, rq) ==
  \A m \in MidPool, k, l \in Kind :
    Tagged(list, rq, m, k) /\ Tagged(list, rq, m, l) => k = l

\* The server remembers only the registrations that may still be repeated.
Recalls(list, rq, srv) ==
  \A m \in MidPool : m \in srv.seen \/ m = srv.by => Tagged(list, rq, m, "register")

Active(list, m) == \E t \in list : t.mid = m /\ t.body.kind = "register"

\* The wait after the last copy of a message.
Silence == COAP_RESPONSE_TIMEOUT * 2 ^ COAP_MAX_RETRANSMIT

\* No request is under way for as long as that, less what the agent task may be late.
Timely == MaxLife + MaxLag < Silence

\* How long a transaction still waits after the last copy, against the age of its copies.
InTime(list, rq) ==
  \A t \in list, q \in rq :
    q.mid = t.mid /\ t.counter = COAP_MAX_RETRANSMIT + 2
      => t.retrans >= Silence - MaxLag - q.age

\* A registration under way is one the client still waits for or the server has decided.
Decided(list, rq, srv) ==
  \A q \in rq : q.kind = "register" => q.mid \in srv.seen \/ Active(list, q.mid)

Answered(list, an, srv) ==
  \A a \in an : \A m \in {a.mid, a.token} : Active(list, m) => m \in srv.seen

Accepted(list, an, srv) ==
  \A a \in an :
    a.code = "2.01" /\ Active(list, a.token) => srv.binding = a.loc /\ srv.by = a.token

\* Is the registration the server has of use to the client?
Mine(c, srv) == c.status \in RegisteredStatus \/ Active(c.list, srv.by)

Leaving(c, rq, srv) ==
  \A q \in rq : q.kind = "deregister" /\ Mine(c, srv) => q.loc # srv.binding

Same(c, rq, srv) ==
  c.status \in RegisteredStatus
    => \/ srv.binding = c.location /\ c.location # NoLoc
       \/ srv.binding = NoLoc /\ \A q \in rq : q.kind # "register"

Reg(c, rq, an, srv, tr) ==
  /\ ClientInv(c) /\ Network(rq, an, srv, tr)
  /\ OneKind(c.list, rq) /\ Recalls(c.list, rq, srv) /\ InTime(c.list, rq)
  /\ Decided(c.list, rq, srv) /\ Answered(c.list, an, srv) /\ Accepted(c.list, an, srv)
  /\ Leaving(c, rq, srv) /\ Same(c, rq, srv)

RegInv == Reg(client, requests, answers, server, trouble) /\ client.sent = {}

----------------------------------------------------------------------------
\* Numbers: the least of a set, and the powers of two, which the provers know nothing of
\* but that they count the subsets of a set.
LEMMA LeastNumber ==
  ASSUME NEW S, S \subseteq Nat, S # {}
  PROVE  Min(S) \in S
<1>1. PICK p \in S : \A q \in S : <<q, p>> \notin OpToRel(<, Nat)
  BY WFMin, NatLessThanWellFounded, Zenon
<1>2. \A q \in S : ~ (q < p)
  BY <1>1, Zenon DEF OpToRel
<1>3. \A q \in S : p <= q
  BY <1>2
<1> QED BY <1>3 DEF Min

LEMMA PowerOfTwo ==
  ASSUME NEW n \in Nat
  PROVE  2 ^ n \in Nat
<1>1. IsFiniteSet(1 .. n) /\ Cardinality(1 .. n) = n
  BY FS_Interval
<1>2. IsFiniteSet(SUBSET (1 .. n)) /\ Cardinality(SUBSET (1 .. n)) = 2 ^ n
  BY <1>1, FS_SUBSET
<1> QED BY <1>2, FS_CardinalityType

----------------------------------------------------------------------------
\* What a transaction becomes.
LEMMA BackoffFacts ==
  ASSUME NEW t \in Transaction
  PROVE  /\ Backoff(t) \in Nat /\ Silence \in Nat
         /\ t.counter = COAP_MAX_RETRANSMIT + 1 => Backoff(t) = Silence
<1>1. t.counter \in Nat /\ t.counter >= 1 /\ t.counter - 1 \in Nat
  BY CoapAssumption DEF Transaction
<1>2. 2 ^ (t.counter - 1) \in Nat /\ 2 ^ COAP_MAX_RETRANSMIT \in Nat
  BY <1>1, PowerOfTwo, CoapAssumption
<1>3. Backoff(t) = COAP_RESPONSE_TIMEOUT * 2 ^ (t.counter - 1)
  BY <1>1 DEF Backoff
<1>4. t.counter = COAP_MAX_RETRANSMIT + 1 => t.counter - 1 = COAP_MAX_RETRANSMIT
  BY <1>1, CoapAssumption
<1>5. ASSUME NEW a \in Nat, NEW b \in Nat PROVE a * b \in Nat
  BY <1>5
<1>6. COAP_RESPONSE_TIMEOUT \in Nat
  BY CoapAssumption
<1> QED BY <1>2, <1>3, <1>4, <1>5, <1>6 DEF Silence

\* Its transmission.
LEMMA TransmitFacts ==
  ASSUME NEW t \in Transaction, Transmits(t)
  PROVE  LET s == Sent(t)
         IN  /\ s \in Transaction /\ s.mid = t.mid /\ s.body = t.body
             /\ s.retrans = t.retrans + Backoff(t) /\ s.counter = t.counter + 1
             /\ t.counter <= COAP_MAX_RETRANSMIT + 1 /\ ~EndsUnanswered(t) /\ Retries(t)
<1>1. First(t) = t
  BY CoapAssumption DEF First, Transaction
<1>2. t.counter <= COAP_MAX_RETRANSMIT + 1 /\ Retries(t) /\ ~Exhausted(t)
  BY <1>1 DEF Transmits, Exhausted
<1> DEFINE r == t.retrans + Backoff(t)
           k == t.counter + 1
           s == [t EXCEPT !.status = "WAIT_RESPONSE", !.retrans = r, !.counter = k]
<1>3. Sent(t) = s
  BY <1>1 DEF Sent
<1>4. r \in Int /\ k \in 1 .. COAP_MAX_RETRANSMIT + 2
  <2>1. Backoff(t) \in Nat
    BY BackoffFacts
  <2>2. t.retrans \in Int /\ t.counter \in 1 .. COAP_MAX_RETRANSMIT + 2
    BY DEF Transaction
  <2> QED BY <1>2, <2>1, <2>2, CoapAssumption
<1> HIDE DEF r, k
<1>5. s \in Transaction /\ s.mid = t.mid /\ s.body = t.body /\ s.retrans = r /\ s.counter = k
      /\ s.status = "WAIT_RESPONSE"
  BY <1>4 DEF Transaction
<1>6. ~EndsUnanswered(t)
  BY <1>2, <1>3, <1>5 DEF EndsUnanswered
<1> QED BY <1>2, <1>3, <1>5, <1>6 DEF r, k

\* transaction_send of one that is not transmitted: it ends, or is abandoned.
LEMMA SilentFacts ==
  ASSUME NEW t \in Transaction, ~Transmits(t)
  PROVE  LET s == Sent(t)
         IN  /\ s \in Transaction /\ s.mid = t.mid /\ s.body = t.body
             /\ s.retrans = t.retrans /\ s.counter = t.counter /\ ~Retries(s)
             /\ EndsUnanswered(t) => t.counter = COAP_MAX_RETRANSMIT + 2 /\ Retries(t)
<1>1. First(t) = t
  BY CoapAssumption DEF First, Transaction
<1>2. CASE Exhausted(t)
  <2>1. Sent(t) = [t EXCEPT !.status = "TIME_OUT"]
    BY <1>2 DEF Sent
  <2>2. t.counter = COAP_MAX_RETRANSMIT + 2 /\ Retries(t)
    BY <1>1, <1>2, CoapAssumption DEF Exhausted, Transmits, Transaction
  <2> QED BY <2>1, <2>2 DEF Transaction, Retries
<1>3. CASE ~Exhausted(t)
  <2>1. Sent(t) = t /\ ~Retries(t)
    BY <1>3 DEF Sent, Exhausted
  <2>2. ~EndsUnanswered(t)
    BY <1>3, <2>1 DEF EndsUnanswered, Transaction, Retries
  <2> QED BY <2>1, <2>2
<1> QED BY <1>2, <1>3

\* The first transmission of a new one.
Fresh ==
  [mid : MidPool, request : {TRUE}, body : AnyBody, status : {"NOT_SENT"},
   counter : {0}, retrans : Int, wait : Int]

LEMMA FirstFacts ==
  ASSUME NEW t \in Fresh
  PROVE  LET f == First(t)
         IN  /\ f \in [mid : MidPool, request : {TRUE}, body : AnyBody,
                       status : {"NOT_SENT"}, counter : {1}, retrans : Int, wait : Int]
             /\ f.mid = t.mid /\ f.body = t.body /\ f.retrans = COAP_RESPONSE_TIMEOUT
<1> DEFINE w == IF t.request THEN COAP_MAX_TRANSMIT_WAIT ELSE 0
           c == COAP_RESPONSE_TIMEOUT
           k == 1
           f == [t EXCEPT !.counter = k, !.retrans = c, !.wait = w]
<1>1. w \in Int /\ c \in Int /\ k \in {1}
  <2>1. 2 ^ (COAP_MAX_RETRANSMIT + 1) \in Nat
    BY PowerOfTwo, CoapAssumption
  <2>2. ASSUME NEW a \in Int, NEW b \in Nat PROVE (a * (b - 1) * 3) \div 2 \in Int
    BY <2>2
  <2> QED BY <2>1, <2>2, CoapAssumption DEF COAP_MAX_TRANSMIT_WAIT
<1>2. First(t) = f
  BY DEF First, Fresh
<1> HIDE DEF w, c, k
<1>3. /\ f \in [mid : MidPool, request : {TRUE}, body : AnyBody,
                status : {"NOT_SENT"}, counter : {1}, retrans : Int, wait : Int]
      /\ f.mid = t.mid /\ f.body = t.body /\ f.retrans = c
  BY <1>1 DEF Fresh
<1> QED BY <1>2, <1>3 DEF c

LEMMA StartFacts ==
  ASSUME NEW t \in Fresh
  PROVE  LET s == Sent(t)
         IN  /\ Transmits(t) /\ ~EndsUnanswered(t)
             /\ s.mid = t.mid /\ s.body = t.body /\ s.retrans = COAP_RESPONSE_TIMEOUT
             /\ s.counter = 2 /\ s.status = "WAIT_RESPONSE"
             /\ t.body \in Body => s \in Transaction
<1> DEFINE f == First(t)
           r == f.retrans + Backoff(t)
           k == f.counter + 1
           s == [f EXCEPT !.status = "WAIT_RESPONSE", !.retrans = r, !.counter = k]
<1>1. /\ f \in [mid : MidPool, request : {TRUE}, body : AnyBody,
                status : {"NOT_SENT"}, counter : {1}, retrans : Int, wait : Int]
      /\ f.mid = t.mid /\ f.body = t.body /\ f.retrans = COAP_RESPONSE_TIMEOUT
  BY FirstFacts
<1>2. Retries(t) /\ Transmits(t)
  <2>1. f.counter = 1
    BY <1>1
  <2> QED BY <2>1, CoapAssumption DEF Retries, Transmits, Fresh
<1>3. Sent(t) = s
  BY <1>2 DEF Sent
<1>4. r = COAP_RESPONSE_TIMEOUT /\ r \in Int /\ k = 2 /\ k \in 1 .. COAP_MAX_RETRANSMIT + 2
  <2>1. Backoff(t) = 0
    BY DEF Backoff, Fresh
  <2> QED BY <1>1, <2>1, CoapAssumption
<1> HIDE DEF f, r, k
<1>5. /\ s.mid = t.mid /\ s.body = t.body /\ s.retrans = r /\ s.counter = k
      /\ s.status = "WAIT_RESPONSE"
      /\ t.body \in Body => s \in Transaction
  BY <1>1, <1>4 DEF Transaction
<1>6. ~EndsUnanswered(t)
  BY <1>2, <1>3, <1>5 DEF EndsUnanswered, Exhausted
<1> QED BY <1>2, <1>3, <1>4, <1>5, <1>6

New(m, body) == transaction_new(m, TRUE, body)

LEMMA NewFacts ==
  ASSUME NEW m \in MidPool, NEW body \in AnyBody
  PROVE  LET t == New(m, body)
         IN  /\ t \in Fresh /\ t.mid = m /\ t.body = body
             /\ Message(t) \in Request_ /\ Message(t).mid = m
             /\ Message(t).kind = body.kind /\ Message(t).loc = body.loc
BY ClientAssumption DEF New, transaction_new, Message, Fresh, Request_, AnyBody

LEMMA ElapseFacts ==
  ASSUME NEW t \in Transaction
  PROVE  LET e == Elapse(t)
         IN  /\ e \in Transaction /\ e.mid = t.mid /\ e.body = t.body /\ e.counter = t.counter
             /\ e.retrans >= t.retrans - 1 /\ (Retries(e) <=> Retries(t))
             /\ Retries(t) => e.retrans = t.retrans - 1
<1> DEFINE r == IF Retries(t) THEN t.retrans - 1 ELSE t.retrans
           w == IF t.wait > 0 THEN t.wait - 1 ELSE t.wait
           e == [t EXCEPT !.retrans = r, !.wait = w]
<1>1. Elapse(t) = e
  BY DEF Elapse
<1>2. r \in Int /\ w \in Int /\ r >= t.retrans - 1 /\ (Retries(t) => r = t.retrans - 1)
  BY DEF Transaction
<1> HIDE DEF r, w
<1>3. /\ e \in Transaction /\ e.mid = t.mid /\ e.body = t.body /\ e.counter = t.counter
      /\ e.retrans = r /\ e.status = t.status
  BY <1>2 DEF Transaction
<1> QED BY <1>1, <1>2, <1>3 DEF Retries

\* A request that is acknowledged or denied stays.
LEMMA HeldFacts ==
  ASSUME NEW t \in Transaction, NEW m
  PROVE  /\ Received(t, m).mid = t.mid /\ Received(t, m).request
         /\ \A s : \/ s = Received(t, m) /\ ~Finishes(t, m)
                  \/ s = AfterDenial(t)
                  => /\ s \in Transaction /\ s.mid = t.mid /\ s.body = t.body
                     /\ s.counter = t.counter /\ s.retrans >= t.retrans
<1>1. /\ Received(t, m).mid = t.mid /\ Received(t, m).request
      /\ ~Finishes(t, m) => Received(t, m) \in {t, [t EXCEPT !.status = "RECV_ACK"]}
  BY DEF Received, Finishes, Resets, MidMatches, Transaction
<1>2. [t EXCEPT !.status = "RECV_ACK"] \in Transaction
  BY DEF Transaction
<1>3. AfterDenial(t) \in Transaction /\ AfterDenial(t).retrans >= t.retrans
      /\ AfterDenial(t).mid = t.mid /\ AfterDenial(t).body = t.body
      /\ AfterDenial(t).counter = t.counter
  <2> DEFINE r == t.retrans + COAP_RESPONSE_TIMEOUT
             w == 0
             s == [t EXCEPT !.status = "UNAUTHORIZED", !.retrans = r, !.wait = w]
  <2>1. AfterDenial(t) = s
    BY DEF AfterDenial
  <2>2. r \in Int /\ w \in Int /\ r >= t.retrans
    BY CoapAssumption DEF Transaction
  <2> HIDE DEF r, w
  <2>3. s \in Transaction /\ s.retrans = r /\ s.mid = t.mid /\ s.body = t.body
        /\ s.counter = t.counter
    BY <2>2 DEF Transaction
  <2> QED BY <2>1, <2>2, <2>3
<1>4. t.retrans >= t.retrans
  BY DEF Transaction
<1>5. \A s \in {t, [t EXCEPT !.status = "RECV_ACK"]} :
        /\ s \in Transaction /\ s.mid = t.mid /\ s.body = t.body
        /\ s.counter = t.counter /\ s.retrans >= t.retrans
  BY <1>2, <1>4 DEF Transaction
<1> QED BY <1>1, <1>3, <1>5

----------------------------------------------------------------------------
\* What the client becomes.

\* Does the callback of t change the registration?
Concerns(c, t) ==
  \/ t.body.kind = "register" /\ c.status = "REG_PENDING"
  \/ t.body.kind = "update" /\ c.status = "REG_UPDATE_PENDING"

LEMMA CallbackFacts ==
  ASSUME NEW c \in Client, NEW t \in Transaction, NEW m, m.code = "2.01" => m.loc \in Loc
  PROVE  LET d == Callback(c, t, m)
         IN  /\ d \in Client /\ d.list = c.list /\ d.sent = c.sent /\ d.state = c.state
             /\ ~Concerns(c, t) => d = c
             /\ Concerns(c, t) /\ m.code \notin {"2.01", "2.04"} =>
                  d.status = "REG_FAILED" /\ d.location = c.location
             /\ Concerns(c, t) =>
                  \/ d.status = "REG_FAILED" /\ d.location = c.location
                  \/ d.status = "REGISTERED" /\ IF c.status = "REG_PENDING"
                                                THEN m.code = "2.01" /\ d.location = m.loc
                                                ELSE d.location = c.location
<1> DEFINE d == Callback(c, t, m)
<1>1. t.body.kind \in {"register", "update"} /\ UpdateAfter \in 0 .. UpdateAfter
  BY ClientAssumption DEF Transaction, Body
<1>2. CASE ~Concerns(c, t)
  BY <1>1, <1>2 DEF Callback, Concerns, prv_handleRegistrationReply,
                    prv_handleRegistrationUpdateReply
<1>3. CASE t.body.kind = "register" /\ c.status = "REG_PENDING"
  <2>1. CASE m.code = "2.01"
    <3>1. d = [c EXCEPT !.status = "REGISTERED", !.location = m.loc, !.renew = UpdateAfter]
      BY <1>3, <2>1 DEF Callback, prv_handleRegistrationReply
    <3>2. "REGISTERED" \in ClientStatus /\ m.loc \in Loc
      BY <2>1 DEF ClientStatus, RegisteredStatus
    <3> HIDE DEF d
    <3>3. /\ d \in Client /\ d.list = c.list /\ d.sent = c.sent /\ d.state = c.state
          /\ d.status = "REGISTERED" /\ d.location = m.loc
      BY <1>1, <3>1, <3>2 DEF Client
    <3> QED BY <1>3, <2>1, <3>3 DEF Concerns, d
  <2>2. CASE m.code # "2.01"
    <3>1. d = [c EXCEPT !.status = "REG_FAILED", !.renew = UpdateAfter]
      BY <1>3, <2>2 DEF Callback, prv_handleRegistrationReply
    <3>2. "REG_FAILED" \in ClientStatus
      BY DEF ClientStatus
    <3> HIDE DEF d
    <3>3. /\ d \in Client /\ d.list = c.list /\ d.sent = c.sent /\ d.state = c.state
          /\ d.status = "REG_FAILED" /\ d.location = c.location
      BY <1>1, <3>1, <3>2 DEF Client
    <3> QED BY <1>3, <2>2, <3>3 DEF Concerns, d
  <2> QED BY <2>1, <2>2
<1>4. CASE t.body.kind = "update" /\ c.status = "REG_UPDATE_PENDING"
  <2> DEFINE s == IF m.code = "2.04" THEN "REGISTERED" ELSE "REG_FAILED"
  <2>1. d = [c EXCEPT !.status = s, !.renew = UpdateAfter]
    BY <1>4 DEF Callback, prv_handleRegistrationUpdateReply
  <2>2. s \in ClientStatus /\ s \in {"REGISTERED", "REG_FAILED"}
        /\ (m.code # "2.04" => s = "REG_FAILED")
    BY DEF ClientStatus, RegisteredStatus
  <2> HIDE DEF d, s
  <2>3. /\ d \in Client /\ d.list = c.list /\ d.sent = c.sent /\ d.state = c.state
        /\ d.status = s /\ d.location = c.location
    BY <1>1, <2>1, <2>2 DEF Client
  <2> QED BY <1>4, <2>2, <2>3 DEF Concerns, d
<1> QED BY <1>2, <1>3, <1>4 DEF Concerns

\* The callbacks of the transactions that end without an answer.
LEMMA UnansweredFacts ==
  ASSUME NEW c \in Client, NEW ended, ended \subseteq Transaction
  PROVE  LET d == Unanswered(c, ended)
         IN  /\ d \in Client /\ d.list = c.list /\ d.sent = c.sent /\ d.state = c.state
             /\ d.location = c.location
             /\ IF \E t \in ended : Concerns(c, t) THEN d.status = "REG_FAILED"
                ELSE d = c
<1> DEFINE served == {t \in ended : Callback(c, t, NoMessage) # c}
           d == Unanswered(c, ended)
<1>1. NoMessage.code = "none"
  BY DEF NoMessage
<1>2. \A t \in ended : t \in served <=> Concerns(c, t)
  <2> TAKE t \in ended
  <2>1. ~Concerns(c, t) => Callback(c, t, NoMessage) = c
    BY <1>1, CallbackFacts
  <2>2. Concerns(c, t) => Callback(c, t, NoMessage).status = "REG_FAILED"
    BY <1>1, CallbackFacts
  <2>3. Concerns(c, t) => c.status # "REG_FAILED"
    BY DEF Concerns
  <2> QED BY <2>1, <2>2, <2>3
<1>3. CASE served = {}
  BY <1>2, <1>3 DEF Unanswered
<1>4. CASE served # {}
  <2> DEFINE t == CHOOSE t \in served : TRUE
  <2>1. t \in served
    BY <1>4
  <2>2. d = Callback(c, t, NoMessage)
    BY <1>4 DEF Unanswered
  <2> HIDE DEF t, d
  <2>3. t \in Transaction /\ t \in ended /\ Concerns(c, t)
    BY <1>2, <2>1
  <2>4. /\ d \in Client /\ d.list = c.list /\ d.sent = c.sent /\ d.state = c.state
        /\ d.status = "REG_FAILED" /\ d.location = c.location
    BY <1>1, <2>2, <2>3, CallbackFacts
  <2> QED BY <2>3, <2>4 DEF d
<1> QED BY <1>3, <1>4

Overdue(c) == {t \in c.list : t.retrans <= 0}

Copies(due) == {Message(t) : t \in {u \in due : Transmits(u)}}

\* The list after transaction_send of the transactions of due.
Sending(list, due) ==
  (list \ due) \cup {Sent(t) : t \in due \ {u \in due : EndsUnanswered(u)}}

LEMMA StepIs ==
  ASSUME NEW c \in Client
  PROVE  LET due == Overdue(c)
             e == Unanswered(c, {t \in due : EndsUnanswered(t)})
             d == transaction_step(c)
         IN  /\ d \in Client /\ d.list = Sending(c.list, due) /\ d.sent = c.sent \cup Copies(due)
             /\ d.status = e.status /\ d.location = c.location /\ d.state = c.state
<1> DEFINE due == Overdue(c)
           ended == {t \in due : EndsUnanswered(t)}
           e == Unanswered(c, ended)
           d == transaction_step(c)
           list == Sending(c.list, due)
           sent == c.sent \cup Copies(due)
<1>1. due \subseteq c.list /\ c.list \subseteq Transaction /\ c.sent \subseteq Request_
  BY DEF Overdue, Client
<1>2. e \in Client /\ e.list = c.list /\ e.sent = c.sent /\ e.location = c.location /\ e.state = c.state
  BY <1>1, UnansweredFacts
<1>3. d = [e EXCEPT !.list = list, !.sent = sent]
  BY <1>2 DEF transaction_step, transaction_send, Sending, Copies, Overdue
<1>4. list \subseteq Transaction
  BY <1>1, TransmitFacts, SilentFacts DEF Sending
<1>5. sent \subseteq Request_
  <2>1. ASSUME NEW t \in due PROVE Message(t) \in Request_
    <3>1. t \in Transaction
      BY <1>1
    <3>2. t.mid \in MidPool /\ t.counter \in Nat /\ t.body.loc \in Loc
          /\ t.body.kind \in {"register", "update"}
      BY <3>1, CoapAssumption DEF Transaction, Body
    <3>3. t.body.kind \in Kind
      BY <3>2 DEF Kind
    <3> QED BY <3>2, <3>3, ClientAssumption DEF Message, Request_
  <2> QED BY <1>1, <2>1 DEF Copies
<1> HIDE DEF d, e, list, sent
<1>6. /\ d \in Client /\ d.list = list /\ d.sent = sent /\ d.status = e.status
      /\ d.location = e.location /\ d.state = e.state
  BY <1>2, <1>3, <1>4, <1>5 DEF Client
<1> QED BY <1>2, <1>6 DEF d, e, list, sent

LEMMA SendingFacts ==
  ASSUME NEW list, list \subseteq Transaction, UniqueMids(list), NEW due, due \subseteq list
  PROVE  LET new == Sending(list, due)
         IN  /\ \A u \in new : \E t \in list :
                  /\ u.mid = t.mid /\ u.body = t.body
                  /\ (u = t /\ t \notin due) \/ (u = Sent(t) /\ t \in due /\ ~EndsUnanswered(t))
             /\ \A t \in list : (t \in due /\ EndsUnanswered(t))
                               \/ \E u \in new : u.mid = t.mid /\ u.body = t.body
             /\ \A t \in due : Transmits(t) => Sent(t) \in new
             /\ \A t \in due : EndsUnanswered(t) => \A u \in new : u.mid # t.mid
             /\ UniqueMids(new)
<1> DEFINE new == Sending(list, due)
<1>1. \A t \in list : Sent(t).mid = t.mid /\ Sent(t).body = t.body
  BY TransmitFacts, SilentFacts
<1>2. \A u \in new : \E t \in list :
        /\ u.mid = t.mid /\ u.body = t.body
        /\ (u = t /\ t \notin due) \/ (u = Sent(t) /\ t \in due /\ ~EndsUnanswered(t))
  BY <1>1 DEF Sending
<1>3. \A t \in due : ~EndsUnanswered(t) => Sent(t) \in new
  BY DEF Sending
<1>4. \A t \in list : t \notin due => t \in new
  BY DEF Sending
<1>5. \A t \in due : Transmits(t) => ~EndsUnanswered(t)
  BY TransmitFacts
<1> HIDE DEF new
<1>6. \A t \in list : (t \in due /\ EndsUnanswered(t))
                     \/ \E u \in new : u.mid = t.mid /\ u.body = t.body
  BY <1>1, <1>3, <1>4
<1>7. \A t \in due : EndsUnanswered(t) => \A u \in new : u.mid # t.mid
  BY <1>2 DEF UniqueMids
<1>8. UniqueMids(new)
  BY <1>2 DEF UniqueMids
<1> QED BY <1>2, <1>3, <1>5, <1>6, <1>7, <1>8 DEF new

\* One run of transaction_step.
LEMMA StepInv ==
  ASSUME NEW c, ClientInv(c)
  PROVE  LET d == transaction_step(c)
         IN  /\ ClientInv(d) /\ d.status \in {c.status, "REG_FAILED"} /\ d.location = c.location
<1> DEFINE due == Overdue(c)
           ended == {t \in due : EndsUnanswered(t)}
           e == Unanswered(c, ended)
           d == transaction_step(c)
<1>1. /\ c \in Client /\ c.list \subseteq Transaction /\ due \subseteq c.list
      /\ UniqueMids(c.list) /\ Served(c) /\ Punctual(c.list)
  BY DEF ClientInv, Overdue, Client
<1>2. IF \E t \in ended : Concerns(c, t) THEN e.status = "REG_FAILED" ELSE e.status = c.status
  BY <1>1, UnansweredFacts
<1>3. /\ d \in Client /\ d.list = Sending(c.list, due) /\ d.status = e.status
      /\ d.location = c.location
  BY <1>1, StepIs
<1>4. /\ \A u \in d.list : \E t \in c.list :
           /\ u.mid = t.mid /\ u.body = t.body
           /\ (u = t /\ t \notin due) \/ (u = Sent(t) /\ t \in due /\ ~EndsUnanswered(t))
      /\ \A t \in c.list : (t \in due /\ EndsUnanswered(t))
                        \/ \E u \in d.list : u.mid = t.mid /\ u.body = t.body
      /\ \A t \in due : EndsUnanswered(t) => \A u \in d.list : u.mid # t.mid
      /\ UniqueMids(d.list)
  BY <1>1, <1>3, SendingFacts
<1> HIDE DEF due, d, e
<1>5. Punctual(d.list)
  <2> SUFFICES ASSUME NEW u \in d.list PROVE u.retrans >= -MaxLag
    BY DEF Punctual
  <2>1. PICK t \in c.list : u = t \/ u = Sent(t)
    BY <1>4
  <2>2. t \in Transaction /\ t.retrans >= -MaxLag /\ t.retrans \in Int
    BY <1>1 DEF Punctual, Transaction
  <2>3. Backoff(t) \in Nat /\ MaxLag \in Nat
    BY <2>2, BackoffFacts, ClientAssumption
  <2>4. Sent(t).retrans = t.retrans \/ Sent(t).retrans = t.retrans + Backoff(t)
    BY <2>2, TransmitFacts, SilentFacts
  <2> QED BY <2>1, <2>2, <2>3, <2>4
<1>6. \A u \in Of(d.list, "register") : \E t \in Of(c.list, "register") :
        u.mid = t.mid /\ ~(t \in due /\ EndsUnanswered(t))
  BY <1>4 DEF Of
<1>7. \A t, u \in Of(d.list, "register") : t = u
  <2>1. \A u \in Of(d.list, "register") : u \in d.list
    BY DEF Of
  <2> QED BY <1>1, <1>4, <1>6, <2>1 DEF UniqueMids, Served
<1>8. \A k : \A t \in Of(c.list, k) : t \in ended \/ Of(d.list, k) # {}
  BY <1>4 DEF Of
<1>9. Served(d)
  <2>1. CASE \E t \in ended : Concerns(c, t)
    <3>1. d.status = "REG_FAILED"
      BY <1>2, <1>3, <2>1
    <3>2. PICK t \in ended : Concerns(c, t)
      BY <2>1
    <3>3. Of(d.list, "register") = {}
      <4> SUFFICES ASSUME NEW u \in Of(d.list, "register") PROVE FALSE
        OBVIOUS
      <4>1. PICK s \in Of(c.list, "register") : ~(s \in due /\ EndsUnanswered(s))
        BY <1>6
      <4>2. c.status = "REG_PENDING"
        BY <1>1, <4>1 DEF Served
      <4>3. t \in Of(c.list, "register")
        BY <1>1, <3>2, <4>2 DEF Concerns, Of
      <4> QED BY <1>1, <4>1, <4>3 DEF Served
    <3> QED BY <1>7, <3>1, <3>3 DEF Served
  <2>2. CASE \A t \in ended : ~Concerns(c, t)
    <3>1. d.status = c.status
      BY <1>2, <1>3, <2>2
    <3>2. Of(d.list, "register") # {} => c.status = "REG_PENDING"
      BY <1>1, <1>6 DEF Served
    <3>3. c.status = "REG_PENDING" => Of(d.list, "register") # {}
      <4> SUFFICES ASSUME c.status = "REG_PENDING" PROVE Of(d.list, "register") # {}
        OBVIOUS
      <4>1. PICK t \in Of(c.list, "register") : TRUE
        BY <1>1 DEF Served
      <4>2. t \notin ended
        BY <2>2, <4>1 DEF Concerns, Of
      <4> QED BY <1>8, <4>1, <4>2
    <3>4. c.status = "REG_UPDATE_PENDING" => Of(d.list, "update") # {}
      <4> SUFFICES ASSUME c.status = "REG_UPDATE_PENDING" PROVE Of(d.list, "update") # {}
        OBVIOUS
      <4>1. PICK t \in Of(c.list, "update") : TRUE
        BY <1>1 DEF Served
      <4>2. t \notin ended
        BY <2>2, <4>1 DEF Concerns, Of
      <4> QED BY <1>8, <4>1, <4>2
    <3> QED BY <1>7, <3>1, <3>2, <3>3, <3>4 DEF Served
  <2> QED BY <2>1, <2>2
<1>10. ClientInv(d) /\ d.status \in {c.status, "REG_FAILED"} /\ d.location = c.location
  BY <1>2, <1>3, <1>4, <1>5, <1>9 DEF ClientInv
<1> QED BY <1>10 DEF d

----------------------------------------------------------------------------
\* A new request: its transaction s and its message q.
Grown(c, s, q) == [c EXCEPT !.list = @ \cup {s}, !.sent = @ \cup {q}]

LEMMA RequestFacts ==
  ASSUME NEW c \in Client, NEW m \in MidPool, m \notin Mids(c.list),
         NEW body \in AnyBody
  PROVE  LET d == Request(c, m, body)
             n == New(m, body)
         IN  /\ d = Grown(c, Sent(n), Message(n))
             /\ d.sent = c.sent \cup {Message(n)} /\ d.list = c.list \cup {Sent(n)}
<1> DEFINE n == New(m, body)
           d == Request(c, m, body)
<1>1. n \in Fresh /\ n.mid = m /\ n.body = body
  BY NewFacts
<1>2. Transmits(n) /\ ~EndsUnanswered(n)
  BY <1>1, StartFacts
<1>3. n \notin c.list
  BY <1>1 DEF Mids
<1>4. d = transaction_send(c, {n})
  BY DEF Request, New
<1> HIDE DEF n, d
<1> DEFINE ended == {t \in {n} : EndsUnanswered(t)}
<1>5. ended = {} /\ Unanswered(c, ended) = c
  <2>1. ended = {}
    BY <1>2
  <2> HIDE DEF ended
  <2>2. {} \subseteq Transaction
    OBVIOUS
  <2>3. ~ \E t \in {} : Concerns(c, t)
    OBVIOUS
  <2> QED BY <2>1, <2>2, <2>3, UnansweredFacts
<1>6. /\ (c.list \ {n}) \cup {Sent(t) : t \in {n} \ ended} = c.list \cup {Sent(n)}
      /\ {Message(t) : t \in {u \in {n} : Transmits(u)}} = {Message(n)}
  BY <1>2, <1>3, <1>5
<1>7. d = [c EXCEPT !.list = c.list \cup {Sent(n)}, !.sent = c.sent \cup {Message(n)}]
  <2>1. d = [Unanswered(c, ended) EXCEPT
               !.list = (@ \ {n}) \cup {Sent(t) : t \in {n} \ ended},
               !.sent = @ \cup {Message(t) : t \in {u \in {n} : Transmits(u)}}]
    BY <1>4 DEF transaction_send
  <2> HIDE DEF ended
  <2> QED BY <1>5, <1>6, <2>1
<1> QED BY <1>7 DEF n, d, Client, Grown

States == {"INITIAL", "REGISTER_REQUIRED", "REGISTERING", "READY"}

LEMMA StateFacts ==
  ASSUME NEW c, ClientInv(c), NEW s \in States, NEW d, d = [c EXCEPT !.state = s]
  PROVE  ClientInv(d) /\ d.list = c.list /\ d.sent = c.sent /\ d.status = c.status
         /\ d.location = c.location /\ d.renew = c.renew
<1>1. c \in Client
  BY DEF ClientInv
<1>2. d \in Client /\ d.list = c.list /\ d.sent = c.sent /\ d.status = c.status
      /\ d.location = c.location /\ d.renew = c.renew
  BY <1>1 DEF Client, States
<1> QED BY <1>2 DEF ClientInv, Served

\* What a client asks for: a registration it lacks or an update of the one it has.
Suits(c, kind, status) ==
  \/ kind = "register" /\ status = "REG_PENDING" /\ c.status \in {"DEREGISTERED", "REG_FAILED"}
  \/ kind = "update" /\ status = "REG_UPDATE_PENDING" /\ c.status \in RegisteredStatus

\* The client d is c with a request that has just been sent.
Asks(c, d, m) ==
  \E s \in Transaction, q \in Request_ :
    /\ d.list = c.list \cup {s} /\ d.sent = c.sent \cup {q} /\ d.location = c.location
    /\ s.mid = m /\ q.mid = m /\ s.body.kind = q.kind
    /\ s.counter = 2 /\ s.retrans = COAP_RESPONSE_TIMEOUT
    /\ Suits(c, q.kind, d.status)

LEMMA AskFacts ==
  ASSUME NEW c, ClientInv(c), NEW m \in MidPool, m \notin Mids(c.list),
         NEW body \in Body, NEW status, Suits(c, body.kind, status),
         NEW d, d = [Request(c, m, body) EXCEPT !.status = status]
  PROVE  ClientInv(d) /\ Asks(c, d, m)
<1> DEFINE n == New(m, body)
           s == Sent(n)
           q == Message(n)
           e == Request(c, m, body)
<1>1. /\ c \in Client /\ c.list \subseteq Transaction /\ c.sent \subseteq Request_
      /\ UniqueMids(c.list) /\ Served(c) /\ Punctual(c.list)
      /\ body \in AnyBody /\ body.kind \in {"register", "update"}
  BY DEF ClientInv, Client, Body, AnyBody, Kind
<1>2. /\ n \in Fresh /\ n.mid = m /\ n.body = body
      /\ q \in Request_ /\ q.mid = m /\ q.kind = body.kind
  BY <1>1, NewFacts
<1>3. e = Grown(c, s, q)
  <2>1. c \in Client /\ body \in AnyBody
    BY <1>1
  <2> QED BY <2>1, RequestFacts
<1> HIDE DEF n, q, e
<1>4. /\ s \in Transaction /\ s.mid = m /\ s.body = body /\ s.counter = 2
      /\ s.retrans = COAP_RESPONSE_TIMEOUT
  BY <1>2, StartFacts
<1> HIDE DEF s
<1>5. status \in ClientStatus
  BY DEF Suits, ClientStatus, RegisteredStatus
<1> DEFINE list == c.list \cup {s}
           sent == c.sent \cup {q}
<1>6. list \subseteq Transaction /\ sent \subseteq Request_
  BY <1>1, <1>2, <1>4
<1>7. d = [c EXCEPT !.list = list, !.sent = sent, !.status = status]
  <2>1. d = [e EXCEPT !.status = status]
    BY DEF e
  <2> QED BY <1>3, <2>1 DEF Grown
<1> HIDE DEF list, sent
<1>8. /\ d \in Client /\ d.list = list /\ d.sent = sent /\ d.status = status
      /\ d.location = c.location
  BY <1>1, <1>5, <1>6, <1>7 DEF Client
<1> USE DEF list, sent
<1>9. \A t \in c.list : t.mid # m
  BY DEF Mids
<1>10. UniqueMids(list)
  BY <1>1, <1>4, <1>9 DEF UniqueMids
<1>11. Punctual(list)
  BY <1>1, <1>4, CoapAssumption, ClientAssumption DEF Punctual
<1>12. Served(d)
  <2>1. CASE body.kind = "register"
    <3>1. Of(c.list, "register") = {} /\ status = "REG_PENDING"
      BY <1>1, <2>1 DEF Served, Suits
    <3>2. Of(d.list, "register") = {s}
      BY <1>4, <1>8, <2>1, <3>1 DEF Of
    <3> QED BY <1>8, <3>1, <3>2 DEF Served
  <2>2. CASE body.kind = "update"
    <3>1. Of(c.list, "register") = {} /\ status = "REG_UPDATE_PENDING"
      BY <1>1, <2>2 DEF Served, Suits, RegisteredStatus
    <3>2. Of(d.list, "register") = {} /\ s \in Of(d.list, "update")
      BY <1>4, <1>8, <2>2, <3>1 DEF Of
    <3> QED BY <1>8, <3>1, <3>2 DEF Served
  <2> QED BY <1>1, <2>1, <2>2
<1>13. ClientInv(d)
  BY <1>8, <1>10, <1>11, <1>12 DEF ClientInv
<1>14. Asks(c, d, m)
  BY <1>2, <1>4, <1>8 DEF Asks
<1> QED BY <1>13, <1>14

\* The client when lwm2m_step has come to its transactions.
Prepared(c, m) == registration_step(AdvanceState(c, m), m)

Needs(c) ==
  \/ RegisterRequired(c)
  \/ c.status = "REGISTERED" /\ c.renew <= 0
  \/ c.status = "REG_FULL_UPDATE_NEEDED"

Unmoved(c, d) ==
  /\ d.list = c.list /\ d.sent = c.sent /\ d.status = c.status /\ d.location = c.location
  /\ d.renew = c.renew

LEMMA PreparedFacts ==
  ASSUME NEW c, ClientInv(c), NEW m, Needs(c) => m \in MidPool /\ m \notin Mids(c.list)
  PROVE  LET d == Prepared(c, m)
         IN  /\ ClientInv(d)
             /\ Unmoved(c, d) \/ (Needs(c) /\ Asks(c, d, m))
<1> DEFINE b == registration_start(c, m)
           a == AdvanceState(c, m)
           d == Prepared(c, m)
<1>1. c \in Client
  BY DEF ClientInv
<1>2. /\ ClientInv(a)
      /\ Unmoved(c, a) \/ (Needs(c) /\ Asks(c, a, m) /\ a.status = "REG_PENDING")
  <2>1. CASE RegisterRequired(c) /\ c.status \in {"DEREGISTERED", "REG_FAILED"}
    <3> DEFINE body == [kind |-> "register", loc |-> NoLoc]
    <3>1. body \in Body /\ body.kind = "register"
      BY DEF Body, Loc
    <3>2. b = [Request(c, m, body) EXCEPT !.status = "REG_PENDING"]
      BY <2>1 DEF registration_start, prv_register
    <3>3. Needs(c) /\ m \in MidPool /\ m \notin Mids(c.list)
      BY <2>1 DEF Needs
    <3>4. Suits(c, "register", "REG_PENDING")
      BY <2>1 DEF Suits
    <3> HIDE DEF body, b
    <3>5. ClientInv(b) /\ Asks(c, b, m)
      BY <3>1, <3>2, <3>3, <3>4, AskFacts
    <3>6. b.status = "REG_PENDING"
      <4>1. PICK k : Suits(c, k, b.status)
        BY <3>5 DEF Asks
      <4> QED BY <2>1, <4>1 DEF Suits, RegisteredStatus
    <3>7. a = [b EXCEPT !.state = "REGISTERING"]
      BY <2>1 DEF AdvanceState, b
    <3>8. /\ ClientInv(a) /\ a.list = b.list /\ a.sent = b.sent /\ a.status = b.status
          /\ a.location = b.location
      BY <3>5, <3>7, StateFacts DEF States
    <3> HIDE DEF a
    <3>9. Asks(c, a, m)
      BY <3>5, <3>8 DEF Asks
    <3> QED BY <3>3, <3>6, <3>8, <3>9
  <2>2. CASE ~(RegisterRequired(c) /\ c.status \in {"DEREGISTERED", "REG_FAILED"})
    <3>1. \E s \in States : a = [c EXCEPT !.state = s]
      <4>1. CASE RegisterRequired(c)
        <5>1. b = c
          BY <2>2, <4>1 DEF registration_start
        <5>2. a = [b EXCEPT !.state = "REGISTERING"]
          BY <4>1 DEF AdvanceState
        <5> HIDE DEF a, b
        <5> QED BY <5>1, <5>2 DEF States
      <4>2. CASE ~RegisterRequired(c) /\ c.state = "REGISTERING" /\ registration_getStatus(c) = "REGISTERED"
        BY <4>2 DEF AdvanceState, States
      <4>3. CASE ~RegisterRequired(c) /\ ~(c.state = "REGISTERING" /\ registration_getStatus(c) = "REGISTERED")
        <5>1. a = c
          BY <4>3 DEF AdvanceState
        <5>2. c = [c EXCEPT !.state = c.state] /\ c.state \in States
          BY <1>1 DEF Client, States
        <5> HIDE DEF a
        <5> QED BY <5>1, <5>2
      <4> QED BY <4>1, <4>2, <4>3
    <3> HIDE DEF a
    <3> QED BY <3>1, StateFacts DEF Unmoved
  <2> QED BY <2>1, <2>2
<1>3. d = registration_step(a, m)
  BY DEF Prepared
<1> HIDE DEF a
<1>4. CASE ~Unmoved(c, a)
  <2>1. d = a
    BY <1>2, <1>3, <1>4 DEF registration_step
  <2> HIDE DEF d
  <2> QED BY <1>2, <1>4, <2>1 DEF d
<1>5. CASE Unmoved(c, a) /\ a.status \in {"REGISTERED", "REG_FULL_UPDATE_NEEDED"} /\ d # a
  <2> DEFINE body == [kind |-> "update", loc |-> a.location]
  <2>1. body \in Body /\ body.kind = "update"
    BY <1>2 DEF Body, ClientInv, Client
  <2>2. d = [Request(a, m, body) EXCEPT !.status = "REG_UPDATE_PENDING"] /\ Needs(c)
    BY <1>3, <1>5 DEF registration_step, prv_updateRegistration, Needs, Unmoved
  <2> HIDE DEF body, d
  <2>3. m \in MidPool /\ m \notin Mids(a.list) /\ Suits(a, "update", "REG_UPDATE_PENDING")
    BY <1>5, <2>2 DEF Unmoved, Suits, RegisteredStatus
  <2>4. ClientInv(d) /\ Asks(a, d, m)
    BY <1>2, <2>1, <2>2, <2>3, AskFacts
  <2>5. Asks(c, d, m)
    BY <1>5, <2>4 DEF Asks, Unmoved, Suits
  <2> QED BY <2>2, <2>4, <2>5 DEF d
<1>6. CASE Unmoved(c, a) /\ d = a
  <2> HIDE DEF d
  <2> QED BY <1>2, <1>6 DEF d
<1>7. d # a => a.status \in {"REGISTERED", "REG_FULL_UPDATE_NEEDED"}
  BY <1>3 DEF registration_step
<1> QED BY <1>4, <1>5, <1>6, <1>7

----------------------------------------------------------------------------
\* A message from the server.
LEMMA FinishFacts ==
  ASSUME NEW t \in Transaction, NEW m, Finishes(t, m)
  PROVE  t.mid = m.token \/ (t.mid = m.mid /\ m.type = "RST")
BY HeldFacts DEF Finishes, Resets, MidMatches, prv_checkFinished

\* The client d is c after message m: a transaction may have been answered by it.
Hears(c, d, m) ==
  /\ \A u \in d.list : \E t \in c.list :
       u.mid = t.mid /\ u.body = t.body /\ u.counter = t.counter /\ u.retrans >= t.retrans
  /\ \A t \in c.list :
       Finishes(t, m) \/ \E u \in d.list : u.mid = t.mid /\ u.body = t.body
  /\ \/ d.status \in {c.status, "REG_FAILED"} /\ d.location = c.location
     \/ c.status = "REG_UPDATE_PENDING" /\ d.status = "REGISTERED" /\ d.location = c.location
     \/ /\ c.status = "REG_PENDING" /\ d.status = "REGISTERED" /\ d.location = m.loc
        /\ m.code = "2.01" /\ \E t \in Of(c.list, "register") : Finishes(t, m)

\* Only one transaction becomes another, s.
LEMMA PutFacts ==
  ASSUME NEW c, ClientInv(c), NEW t \in c.list, NEW s \in Transaction,
         s.mid = t.mid, s.body = t.body, s.counter = t.counter, s.retrans >= t.retrans,
         NEW d, d = [c EXCEPT !.list = ListPut(c.list, s)], NEW m
  PROVE  ClientInv(d) /\ d.sent = c.sent /\ Hears(c, d, m)
<1> DEFINE list == ListPut(c.list, s)
<1>1. /\ c \in Client /\ c.list \subseteq Transaction
      /\ UniqueMids(c.list) /\ Served(c) /\ Punctual(c.list)
  BY DEF ClientInv, Client
<1>2. \A u \in list : u = s \/ (u \in c.list /\ u.mid # t.mid)
  BY DEF ListPut, Without
<1>3. s \in list /\ \A u \in c.list : u = t \/ u \in list
  BY <1>1 DEF ListPut, Without, UniqueMids
<1>4. list \subseteq Transaction
  BY <1>1, <1>2
<1> HIDE DEF list
<1>5. d = [c EXCEPT !.list = list]
  BY DEF list
<1>6. /\ d \in Client /\ d.list = list /\ d.status = c.status /\ d.location = c.location
      /\ d.sent = c.sent
  BY <1>1, <1>4, <1>5 DEF Client
<1>7. UniqueMids(list)
  BY <1>1, <1>2 DEF UniqueMids
<1>8. t.retrans \in Int /\ s.retrans \in Int /\ MaxLag \in Nat /\ t.retrans >= -MaxLag
  BY <1>1, ClientAssumption DEF Transaction, Punctual
<1>9. s.retrans >= -MaxLag
  BY <1>8
<1>10. Punctual(list)
  BY <1>1, <1>2, <1>9 DEF Punctual
<1>11. /\ \A k : \A u \in Of(list, k) : u \in Of(c.list, k) \/ (u = s /\ t \in Of(c.list, k))
       /\ \A k : \A u \in Of(c.list, k) : u \in Of(list, k) \/ (u = t /\ s \in Of(list, k))
  BY <1>2, <1>3 DEF Of
<1>12. \A u, v \in Of(list, "register") : u = v
  <2>1. t \in Of(c.list, "register") => Of(list, "register") \subseteq {s}
    BY <1>1, <1>2 DEF Of, Served
  <2>2. t \notin Of(c.list, "register") => Of(list, "register") \subseteq Of(c.list, "register")
    BY <1>11
  <2> QED BY <1>1, <2>1, <2>2 DEF Served
<1>13. Served(d)
  BY <1>1, <1>6, <1>11, <1>12 DEF Served
<1>14. ClientInv(d)
  BY <1>6, <1>7, <1>10, <1>13 DEF ClientInv
<1>15. Hears(c, d, m)
  <2>1. \A u \in list : \E v \in c.list :
          u.mid = v.mid /\ u.body = v.body /\ u.counter = v.counter /\ u.retrans >= v.retrans
    <3>1. \A u \in c.list : u.retrans >= u.retrans
      <4>1. \A u \in Transaction : u.retrans \in Int
        BY DEF Transaction
      <4> QED BY <1>1, <4>1
    <3> QED BY <1>2, <3>1
  <2>2. \A v \in c.list : \E u \in list : u.mid = v.mid /\ u.body = v.body
    BY <1>3
  <2> QED BY <1>6, <2>1, <2>2 DEF Hears
<1> QED BY <1>6, <1>14, <1>15

\* A transaction is removed, and its callback told.
LEMMA FinishedFacts ==
  ASSUME NEW c, ClientInv(c), NEW t \in c.list, NEW m, Finishes(t, m),
         m.code = "2.01" => m.loc \in Loc,
         NEW d, d = [Callback(c, t, m) EXCEPT !.list = Without(c.list, t)]
  PROVE  ClientInv(d) /\ d.sent = c.sent /\ Hears(c, d, m)
<1> DEFINE b == Callback(c, t, m)
           list == Without(c.list, t)
<1>1. /\ c \in Client /\ c.list \subseteq Transaction /\ t \in Transaction
      /\ UniqueMids(c.list) /\ Served(c) /\ Punctual(c.list)
  BY DEF ClientInv, Client
<1>2. /\ b \in Client /\ b.sent = c.sent
      /\ ~Concerns(c, t) => b = c
      /\ Concerns(c, t) =>
           \/ b.status = "REG_FAILED" /\ b.location = c.location
           \/ b.status = "REGISTERED" /\ IF c.status = "REG_PENDING"
                                         THEN m.code = "2.01" /\ b.location = m.loc
                                         ELSE b.location = c.location
  BY <1>1, CallbackFacts
<1>3. list \subseteq c.list /\ t \notin list /\ \A u \in c.list : u = t \/ u \in list
  BY <1>1 DEF Without, UniqueMids
<1> HIDE DEF b, list
<1>4. d = [b EXCEPT !.list = list] /\ list \subseteq Transaction
  BY <1>1, <1>3 DEF b, list
<1>5. /\ d \in Client /\ d.list = list /\ d.status = b.status /\ d.location = b.location
      /\ d.sent = c.sent
  BY <1>2, <1>4 DEF Client
<1>6. UniqueMids(list) /\ Punctual(list)
  BY <1>1, <1>3 DEF UniqueMids, Punctual
<1>7. \A k : Of(list, k) \subseteq Of(c.list, k) /\ \A u \in Of(c.list, k) : u = t \/ u \in Of(list, k)
  BY <1>3 DEF Of
<1>8. t \in Of(c.list, "register") \/ t \in Of(c.list, "update")
  BY <1>1 DEF Of, Transaction, Body
<1>9. Served(d)
  <2>1. CASE Concerns(c, t)
    <3>1. d.status \notin {"REG_PENDING", "REG_UPDATE_PENDING"}
      BY <1>2, <1>5, <2>1
    <3>2. Of(list, "register") = {}
      <4>1. CASE c.status = "REG_PENDING"
        <5>1. t \in Of(c.list, "register")
          BY <2>1, <4>1 DEF Concerns, Of
        <5>2. t \notin Of(list, "register")
          BY <1>3 DEF Of
        <5> QED BY <1>1, <1>7, <5>1, <5>2 DEF Served
      <4>2. CASE c.status # "REG_PENDING"
        BY <1>1, <1>7, <4>2 DEF Served
      <4> QED BY <4>1, <4>2
    <3> QED BY <1>5, <3>1, <3>2 DEF Served
  <2>2. CASE ~Concerns(c, t)
    <3>1. d.status = c.status
      BY <1>2, <1>5, <2>2
    <3>2. t \notin Of(c.list, "register")
      BY <1>1, <2>2 DEF Served, Concerns, Of
    <3>3. Of(list, "register") = Of(c.list, "register")
      BY <1>7, <3>2
    <3>4. c.status = "REG_UPDATE_PENDING" => t \notin Of(c.list, "update")
      BY <2>2 DEF Concerns, Of
    <3>5. c.status = "REG_UPDATE_PENDING" => Of(list, "update") # {}
      BY <1>1, <1>7, <3>4 DEF Served
    <3> QED BY <1>1, <1>5, <3>1, <3>3, <3>5 DEF Served
  <2> QED BY <2>1, <2>2
<1>10. Hears(c, d, m)
  <2>1. \A u \in list : u.retrans >= u.retrans
    <3>1. \A u \in Transaction : u.retrans \in Int
      BY DEF Transaction
    <3> QED BY <1>1, <1>3, <3>1
  <2>2. /\ \A u \in list : \E v \in c.list :
             u.mid = v.mid /\ u.body = v.body /\ u.counter = v.counter /\ u.retrans >= v.retrans
        /\ \A v \in c.list : Finishes(v, m) \/ \E u \in list : u.mid = v.mid /\ u.body = v.body
    BY <1>3, <2>1
  <2>3. \/ d.status \in {c.status, "REG_FAILED"} /\ d.location = c.location
        \/ c.status = "REG_UPDATE_PENDING" /\ d.status = "REGISTERED" /\ d.location = c.location
        \/ /\ c.status = "REG_PENDING" /\ d.status = "REGISTERED" /\ d.location = m.loc
           /\ m.code = "2.01" /\ \E v \in Of(c.list, "register") : Finishes(v, m)
    <3>1. CASE ~Concerns(c, t)
      BY <1>2, <1>5, <3>1
    <3>2. CASE Concerns(c, t) /\ c.status # "REG_PENDING"
      BY <1>2, <1>5, <3>2 DEF Concerns
    <3>3. CASE Concerns(c, t) /\ c.status = "REG_PENDING"
      <4>1. t \in Of(c.list, "register")
        BY <3>3 DEF Concerns, Of
      <4> QED BY <1>2, <1>5, <3>3, <4>1
    <3> QED BY <3>1, <3>2, <3>3
  <2> QED BY <1>5, <2>2, <2>3 DEF Hears
<1> QED BY <1>5, <1>6, <1>9, <1>10 DEF ClientInv

LEMMA ResponseFacts ==
  ASSUME NEW c, ClientInv(c), NEW m, m.code = "2.01" => m.loc \in Loc
  PROVE  LET d == transaction_handleResponse(c, m)
         IN  ClientInv(d) /\ d.sent = c.sent /\ Hears(c, d, m)
<1> DEFINE d == transaction_handleResponse(c, m)
           t == CHOOSE t \in Taking(c.list, m) : TRUE
<1>1. c \in Client /\ c.list \subseteq Transaction
  BY DEF ClientInv, Client
<1>2. CASE Taking(c.list, m) = {}
  <2>1. d = c
    BY <1>2 DEF transaction_handleResponse
  <2>2. Hears(c, c, m)
    <3>1. \A u \in Transaction : u.retrans \in Int
      BY DEF Transaction
    <3>2. \A u \in c.list : u.retrans >= u.retrans
      BY <1>1, <3>1
    <3> QED BY <3>2 DEF Hears
  <2> HIDE DEF d
  <2> QED BY <2>1, <2>2 DEF d
<1>3. CASE Taking(c.list, m) # {}
  <2>1. t \in Taking(c.list, m)
    BY <1>3
  <2>2. d = IF Denied(t, m) THEN [c EXCEPT !.list = ListPut(c.list, AfterDenial(t))]
            ELSE IF Finishes(t, m) THEN [Callback(c, t, m) EXCEPT !.list = Without(@, t)]
            ELSE [c EXCEPT !.list = ListPut(c.list, Received(t, m))]
    BY <1>3 DEF transaction_handleResponse
  <2> HIDE DEF t, d
  <2>3. t \in c.list /\ t \in Transaction
    BY <1>1, <2>1 DEF Taking
  <2>4. CASE Denied(t, m)
    <3> DEFINE s == AfterDenial(t)
    <3>1. /\ s \in Transaction /\ s.mid = t.mid /\ s.body = t.body
          /\ s.counter = t.counter /\ s.retrans >= t.retrans
      BY <2>3, HeldFacts
    <3>2. d = [c EXCEPT !.list = ListPut(c.list, s)]
      BY <2>2, <2>4
    <3> HIDE DEF s
    <3> QED BY <2>3, <3>1, <3>2, PutFacts DEF d
  <2>5. CASE ~Denied(t, m) /\ Finishes(t, m)
    <3>1. Callback(c, t, m).list = c.list
      BY <1>1, <2>3, CallbackFacts
    <3>2. d = [Callback(c, t, m) EXCEPT !.list = Without(c.list, t)]
      BY <2>2, <2>5, <3>1
    <3> QED BY <2>3, <2>5, <3>2, FinishedFacts DEF d
  <2>6. CASE ~Denied(t, m) /\ ~Finishes(t, m)
    <3> DEFINE s == Received(t, m)
    <3>1. /\ s \in Transaction /\ s.mid = t.mid /\ s.body = t.body
          /\ s.counter = t.counter /\ s.retrans >= t.retrans
      BY <2>3, <2>6, HeldFacts
    <3>2. d = [c EXCEPT !.list = ListPut(c.list, s)]
      BY <2>2, <2>6
    <3> HIDE DEF s
    <3> QED BY <2>3, <3>1, <3>2, PutFacts DEF d
  <2> QED BY <2>4, <2>5, <2>6
<1> QED BY <1>2, <1>3

----------------------------------------------------------------------------
\* What goes to the wire, the end of the agent and the passing of time.
LEMMA QuietFacts ==
  ASSUME NEW c, ClientInv(c), NEW d, d = [c EXCEPT !.sent = {}]
  PROVE  /\ ClientInv(d) /\ d.sent = {} /\ d.list = c.list /\ d.status = c.status
         /\ d.location = c.location
<1> DEFINE none == {}
<1>1. c \in Client /\ none \subseteq Request_ /\ d = [c EXCEPT !.sent = none]
  BY DEF ClientInv
<1> HIDE DEF none
<1>2. /\ d \in Client /\ d.sent = none /\ d.list = c.list /\ d.status = c.status
      /\ d.location = c.location
  BY <1>1 DEF Client
<1> QED BY <1>2 DEF ClientInv, Served, none

LEMMA InitFacts ==
  ASSUME NEW d, d.state = "INITIAL", d.status = "DEREGISTERED", d.location = NoLoc, d.renew = 0,
         d.list = {}, d.sent = {},
         d = [state |-> d.state, status |-> d.status, location |-> d.location, renew |-> d.renew,
              list |-> d.list, sent |-> d.sent]
  PROVE  ClientInv(d)
<1>1. d \in Client
  <2>1. d.renew \in 0 .. UpdateAfter
    BY ClientAssumption
  <2>2. /\ d.state \in States /\ d.status \in ClientStatus /\ d.location \in Loc
        /\ d.list \in SUBSET Transaction /\ d.sent \in SUBSET Request_
    BY DEF ClientStatus, Loc, States
  <2>3. \A s \in States, v \in ClientStatus, l \in Loc, r \in 0 .. UpdateAfter,
           x \in SUBSET Transaction, y \in SUBSET Request_ :
          [state |-> s, status |-> v, location |-> l, renew |-> r, list |-> x, sent |-> y] \in Client
    BY DEF Client, States
  <2> QED BY <2>1, <2>2, <2>3
<1>2. UniqueMids(d.list) /\ Punctual(d.list) /\ Served(d)
  BY DEF UniqueMids, Punctual, Served, Of
<1> QED BY <1>1, <1>2 DEF ClientInv

LEMMA ClientInitFacts ==
  /\ ClientInv(ClientInit) /\ ClientInit.list = {} /\ ClientInit.sent = {}
  /\ ClientInit.status = "DEREGISTERED" /\ ClientInit.location = NoLoc
BY InitFacts DEF ClientInit

\* The last message of an agent that stops.
LEMMA DeregisterFacts ==
  ASSUME NEW c, ClientInv(c), c.sent = {}, NEW m \in MidPool, m \notin Mids(c.list)
  PROVE  LET sent == registration_deregister(c, m).sent
         IN  /\ sent \subseteq Request_
             /\ \A q \in sent : q.mid = m /\ q.kind = "deregister"
<1> DEFINE body == [kind |-> "deregister", loc |-> c.location]
           sent == registration_deregister(c, m).sent
<1>1. c \in Client
  BY DEF ClientInv
<1>2. body \in AnyBody /\ body.kind = "deregister"
  BY <1>1 DEF Client, AnyBody, Kind
<1>3. sent = c.sent \/ sent = Request(c, m, body).sent
  BY DEF registration_deregister
<1> HIDE DEF body, sent
<1> DEFINE n == New(m, body)
<1>4. Message(n) \in Request_ /\ Message(n).mid = m /\ Message(n).kind = body.kind
  BY <1>2, NewFacts
<1>5. Request(c, m, body).sent = c.sent \cup {Message(n)}
  BY <1>1, <1>2, RequestFacts
<1> HIDE DEF n
<1>6. sent \subseteq {Message(n)}
  BY <1>3, <1>5
<1> QED BY <1>2, <1>4, <1>6 DEF sent

\* One second.
Elapsed(list) == {Elapse(t) : t \in list}

Aged(c) ==
  [c EXCEPT !.renew = IF @ > 0 THEN @ - 1 ELSE @, !.list = {Elapse(t) : t \in @}]

LEMMA ElapsedFacts ==
  ASSUME NEW c, ClientInv(c), \A t \in c.list : Retries(t) => t.retrans > -MaxLag,
         NEW d, d = Aged(c)
  PROVE  /\ ClientInv(d) /\ d.sent = c.sent /\ d.status = c.status /\ d.location = c.location
         /\ \A u \in d.list : \E t \in c.list :
              u.mid = t.mid /\ u.body = t.body /\ u.counter = t.counter
              /\ u.retrans >= t.retrans - 1
         /\ \A t \in c.list : \E u \in d.list : u.mid = t.mid /\ u.body = t.body
<1> DEFINE r == IF c.renew > 0 THEN c.renew - 1 ELSE c.renew
           list == Elapsed(c.list)
<1>1. /\ c \in Client /\ c.list \subseteq Transaction
      /\ UniqueMids(c.list) /\ Served(c) /\ Punctual(c.list)
  BY DEF ClientInv, Client
<1>2. d = [c EXCEPT !.renew = r, !.list = list]
  BY DEF Elapsed, Aged
<1>3. r \in 0 .. UpdateAfter
  BY <1>1, ClientAssumption DEF Client
<1>4. /\ \A u \in list : \E t \in c.list : u = Elapse(t)
      /\ \A t \in c.list : Elapse(t) \in list
  BY DEF Elapsed
<1>5. list \subseteq Transaction
  BY <1>1, <1>4, ElapseFacts
<1> HIDE DEF r, list
<1>6. /\ d \in Client /\ d.list = list /\ d.status = c.status /\ d.location = c.location
      /\ d.sent = c.sent
  BY <1>1, <1>2, <1>3, <1>5 DEF Client
<1>7. /\ \A u \in list : \E t \in c.list :
           u = Elapse(t) /\ u.mid = t.mid /\ u.body = t.body /\ u.counter = t.counter
           /\ u.retrans >= t.retrans - 1
      /\ \A t \in c.list : \E u \in list : u.mid = t.mid /\ u.body = t.body
  BY <1>1, <1>4, ElapseFacts
<1>8. UniqueMids(list)
  BY <1>1, <1>7 DEF UniqueMids
<1>9. Punctual(list)
  <2> SUFFICES ASSUME NEW u \in list PROVE u.retrans >= -MaxLag
    BY DEF Punctual
  <2>1. PICK t \in c.list : u = Elapse(t)
    BY <1>4
  <2>2. t \in Transaction /\ t.retrans \in Int /\ t.retrans >= -MaxLag /\ MaxLag \in Nat
    BY <1>1, ClientAssumption DEF Punctual, Transaction
  <2>3. CASE Retries(t)
    <3>1. u.retrans = t.retrans - 1 /\ t.retrans > -MaxLag
      BY <2>1, <2>2, <2>3, ElapseFacts
    <3> QED BY <2>2, <3>1
  <2>4. CASE ~Retries(t)
    <3>1. u.retrans = t.retrans
      BY <2>1, <2>2, <2>4 DEF Elapse, Transaction
    <3> QED BY <2>2, <3>1
  <2> QED BY <2>3, <2>4
<1>10. /\ \A k : \A u \in Of(list, k) : \E t \in Of(c.list, k) : u = Elapse(t)
       /\ \A k : Of(c.list, k) # {} => Of(list, k) # {}
  <2>1. \A t \in c.list : Elapse(t).body = t.body
    BY <1>1, ElapseFacts
  <2> QED BY <1>4, <2>1 DEF Of
<1>11. Served(d)
  <2>1. \A u, v \in Of(list, "register") : u = v
    BY <1>1, <1>10 DEF Served
  <2>2. Of(list, "register") # {} <=> Of(c.list, "register") # {}
    BY <1>10
  <2> QED BY <1>1, <1>6, <1>10, <2>1, <2>2 DEF Served
<1> QED BY <1>6, <1>7, <1>8, <1>9, <1>11 DEF ClientInv

----------------------------------------------------------------------------
\* The server's memory.
Live(list, rq, m) == (\E t \in list : t.mid = m) \/ (\E q \in rq : q.mid = m)

Remember(srv, list, rq) ==
  LET live == Mids(list) \cup {q.mid : q \in rq}
  IN  [srv EXCEPT !.seen = @ \cap live, !.refused = {r \in @ : r.mid \in live},
                  !.by = IF @ \in live THEN @ ELSE NoMid]

\* The server now, next, has forgotten nothing of srv that may be repeated.
Forgets(srv, next, list, rq) ==
  /\ next.binding = srv.binding /\ next.seen \subseteq srv.seen /\ next.by \in {srv.by, NoMid}
  /\ \A m : Live(list, rq, m) =>
       /\ m \in srv.seen => m \in next.seen
       /\ m = srv.by => m = next.by

LEMMA RememberFacts ==
  ASSUME NEW srv \in ServerRec, NEW list, NEW rq
  PROVE  LET r == Remember(srv, list, rq)
         IN  /\ r \in ServerRec /\ Forgets(srv, r, list, rq)
             /\ \A m : m \in r.seen \/ (m = r.by /\ m # NoMid) => Live(list, rq, m)
<1> DEFINE live == Mids(list) \cup {q.mid : q \in rq}
           s == srv.seen \cap live
           f == {r \in srv.refused : r.mid \in live}
           b == IF srv.by \in live THEN srv.by ELSE NoMid
           r == Remember(srv, list, rq)
<1>1. \A m : m \in live <=> Live(list, rq, m)
  BY DEF Live, Mids
<1>2. r = [srv EXCEPT !.seen = s, !.refused = f, !.by = b]
  BY Zenon DEF Remember
<1>3. /\ s \subseteq MidPool /\ b \in MidPool \cup {NoMid}
      /\ f \subseteq [mid : MidPool, code : Refusal]
  BY DEF ServerRec
<1>4. /\ \A m : m \in s <=> m \in srv.seen /\ Live(list, rq, m)
      /\ b = IF Live(list, rq, srv.by) THEN srv.by ELSE NoMid
  BY <1>1
<1> HIDE DEF s, f, b, r
<1>5. r \in ServerRec /\ r.binding = srv.binding /\ r.seen = s /\ r.by = b
  BY <1>2, <1>3 DEF ServerRec
<1>6. Forgets(srv, r, list, rq)
  BY <1>4, <1>5 DEF Forgets
<1>7. \A m : m \in r.seen \/ (m = r.by /\ m # NoMid) => Live(list, rq, m)
  BY <1>4, <1>5
<1> QED BY <1>5, <1>6, <1>7 DEF r

----------------------------------------------------------------------------
\* The types of the network, action by action.

LEMMA RememberedIs ==
  ASSUME NEW srv
  PROVE  Remembered(srv) = Remember(srv, client'.list, requests')
BY Zenon DEF Remembered, Remember

LEMMA FreeFacts ==
  /\ FreeMids # {} => Min(FreeMids) \in FreeMids
  /\ \A m \in FreeMids : m \in MidPool /\ m \notin Mids(client.list)
  /\ FreeLocs # {} => (CHOOSE l \in FreeLocs : TRUE) \in FreeLocs
<1>1. FreeMids \subseteq Nat
  BY ClientAssumption DEF FreeMids
<1>2. FreeMids # {} => Min(FreeMids) \in FreeMids
  BY <1>1, LeastNumber
<1>3. \A m \in FreeMids : m \in MidPool /\ m \notin Mids(client.list)
  BY DEF FreeMids
<1> QED BY <1>2, <1>3

LEMMA TroubleFacts ==
  ASSUME trouble \in 0 .. MaxTrouble, UNCHANGED trouble \/ Mishap
  PROVE  trouble' \in 0 .. trouble /\ trouble' \in 0 .. MaxTrouble
<1>1. MaxTrouble \in Nat /\ (trouble' = trouble \/ (trouble > 0 /\ trouble' = trouble - 1))
  BY ClientAssumption DEF Mishap
<1> QED BY <1>1

\* What an answer to q says.
Says(a, q, code, loc) ==
  /\ a \in Reply_ /\ a.mid \in {q.mid, NoMid} /\ a.token \in {q.mid, NoMid}
  /\ a.code = "2.01" => code = "2.01" /\ a.type # "RST" /\ a.token = q.mid /\ a.loc = loc

Codes == {"2.01", "2.02", "2.04", "4.00", "4.01", "4.04", "RST"}

LEMMA AnswerFacts ==
  ASSUME NEW q \in Request_, NEW code \in Codes, NEW loc \in Loc, Answer(q, code, loc)
  PROVE  \A a \in answers' : a \in answers \/ Says(a, q, code, loc)
<1>0. q.mid \in MidPool /\ q.copy \in Nat /\ NoLoc \in Loc
  BY DEF Request_, Loc
<1>1. Says(Reply(q, "RST", q.mid, NoMid, "0.00", NoLoc), q, code, loc)
  BY <1>0 DEF Says, Reply, Reply_
<1>2. Says(Acknowledgement(q), q, code, loc)
  BY <1>0 DEF Says, Acknowledgement, Reply, Reply_
<1>3. code # "RST" => /\ Says(Reply(q, "ACK", q.mid, q.mid, code, loc), q, code, loc)
                      /\ Says(Reply(q, "CON", NoMid, q.mid, code, loc), q, code, loc)
  BY <1>0 DEF Says, Reply, Reply_, Codes
<1> QED BY <1>1, <1>2, <1>3 DEF Answer

LEMMA NetworkFacts ==
  ASSUME NEW rq, NEW an, NEW srv, NEW tr, Network(rq, an, srv, tr),
         NEW rq2, rq2 \subseteq rq,
         NEW q, NEW code, NEW loc, code = "2.01" => loc # NoLoc,
         NEW an2, \A a \in an2 : a \in an \/ Says(a, q, code, loc),
         NEW srv2 \in ServerRec, srv2.by # NoMid => srv2.binding # NoLoc,
         NEW tr2 \in 0 .. MaxTrouble
  PROVE  Network(rq2, an2, srv2, tr2)
BY DEF Network, Says

\* An action after which the server has only forgotten.
LEMMA RememberedType ==
  ASSUME TypeInv, requests' \subseteq Request_, answers' \subseteq answers,
         server' = Remembered(server), UNCHANGED trouble \/ Mishap,
         ClientInv(client') /\ client'.sent = {}
  PROVE  TypeInv'
<1>1. server' = Remember(server, client'.list, requests')
  BY RememberedIs
<1>2. server' \in ServerRec /\ server'.binding = server.binding /\ server'.by \in {server.by, NoMid}
  BY <1>1, RememberFacts DEF TypeInv, Network, Forgets
<1>3. trouble' \in 0 .. MaxTrouble
  BY TroubleFacts DEF TypeInv, Network
<1>4. Network(requests', answers', server', trouble')
  BY <1>2, <1>3 DEF TypeInv, Network
<1> QED BY <1>4 DEF TypeInv

\* lwm2m_step: b is the client that has sent its new request, if any, and
\* transaction_step(b) the one that has sent its retransmissions too.
Steps(b, m) ==
  LET d == transaction_step(b)
  IN  /\ ClientInv(b)
      /\ Unmoved(client, b) \/ (m \in FreeMids /\ Asks(client, b, m))
      /\ client' = [d EXCEPT !.sent = {}] /\ requests' \in {requests \cup d.sent, {}}
      /\ answers' = answers /\ trouble' = trouble
      /\ server' = Remembered(server)

LEMMA lwm2m_stepFacts ==
  ASSUME TypeInv, lwm2m_step
  PROVE  \E b, m : Steps(b, m)
<1> DEFINE m == IF NeedsMid THEN Min(FreeMids) ELSE NoMid
           b == Prepared(client, m)
           d == transaction_step(b)
<1>1. Needs(client) => m \in FreeMids
  BY FreeFacts DEF lwm2m_step, NeedsMid, Needs
<1>2. Wire(d) /\ server' = Remembered(server) /\ answers' = answers /\ trouble' = trouble
  BY DEF lwm2m_step, Prepared
<1> HIDE DEF m
<1>3. ClientInv(b) /\ (Unmoved(client, b) \/ (Needs(client) /\ Asks(client, b, m)))
  BY <1>1, FreeFacts, PreparedFacts DEF TypeInv
<1> HIDE DEF b
<1>4. client' = [d EXCEPT !.sent = {}] /\ requests' \in {requests \cup d.sent, {}}
  BY <1>2 DEF Wire
<1> QED BY <1>1, <1>2, <1>3, <1>4 DEF Steps

LEMMA lwm2m_stepType ==
  ASSUME TypeInv, lwm2m_step
  PROVE  TypeInv'
<1>1. PICK b, m : Steps(b, m)
  BY lwm2m_stepFacts
<1> DEFINE d == transaction_step(b)
<1>2. ClientInv(b) /\ client' = [d EXCEPT !.sent = {}] /\ requests' \in {requests \cup d.sent, {}}
      /\ answers' = answers /\ trouble' = trouble /\ server' = Remembered(server)
  BY <1>1 DEF Steps
<1>3. ClientInv(d)
  BY <1>2, StepInv
<1> HIDE DEF d
<1>4. ClientInv(client') /\ client'.sent = {}
  BY <1>2, <1>3, QuietFacts
<1>5. requests' \subseteq Request_
  BY <1>2, <1>3 DEF TypeInv, Network, ClientInv, Client
<1> QED BY <1>2, <1>4, <1>5, RememberedType

\* lwm2m_stepFails and ObjectsChange: a field of the client.
LEMMA FieldsType ==
  ASSUME TypeInv, lwm2m_stepFails \/ ObjectsChange
  PROVE  /\ TypeInv' /\ client'.list = client.list /\ client'.location = client.location
         /\ client'.status \in {client.status, "REG_FULL_UPDATE_NEEDED"}
         /\ client'.status # client.status => client.status \in RegisteredStatus
         /\ UNCHANGED <<requests, answers, server>> /\ trouble' \in 0 .. trouble
<1>1. CASE lwm2m_stepFails
  <2>1. client' = [client EXCEPT !.state = "REGISTER_REQUIRED"]
        /\ UNCHANGED <<requests, answers, server, trouble>>
    BY <1>1 DEF lwm2m_stepFails
  <2>2. /\ ClientInv(client') /\ client'.sent = {} /\ client'.list = client.list
        /\ client'.status = client.status /\ client'.location = client.location
    BY <2>1, StateFacts DEF TypeInv, States
  <2>3. trouble' \in 0 .. trouble
    BY <2>1, TroubleFacts DEF TypeInv, Network
  <2> QED BY <2>1, <2>2, <2>3 DEF TypeInv
<1>2. CASE ObjectsChange
  <2> DEFINE s == "REG_FULL_UPDATE_NEEDED"
  <2>1. client' = [client EXCEPT !.status = s] /\ client.status \in RegisteredStatus /\ Mishap
        /\ UNCHANGED <<requests, answers, server>>
    BY <1>2 DEF ObjectsChange
  <2>2. client \in Client /\ Served(client) /\ client.sent = {}
    BY DEF TypeInv, ClientInv
  <2>3. s \in ClientStatus
    BY DEF ClientStatus, RegisteredStatus
  <2> HIDE DEF s
  <2>4. /\ client' \in Client /\ client'.sent = {} /\ client'.list = client.list
        /\ client'.status = s /\ client'.location = client.location
    BY <2>1, <2>2, <2>3 DEF Client
  <2> USE DEF s
  <2>5. Served(client')
    BY <2>1, <2>2, <2>4 DEF Served, RegisteredStatus
  <2>6. trouble' \in 0 .. trouble /\ trouble' \in 0 .. MaxTrouble
    BY <2>1, TroubleFacts DEF TypeInv, Network
  <2>7. ClientInv(client') /\ Network(requests', answers', server', trouble')
    BY <2>1, <2>4, <2>5, <2>6 DEF TypeInv, ClientInv, Network
  <2> QED BY <2>1, <2>4, <2>6, <2>7 DEF TypeInv
<1> QED BY <1>1, <1>2

\* Of what was under way, a message m that has arrived may arrive again.
LEMMA HandleAnswerType ==
  ASSUME TypeInv, NEW m \in answers, HandleAnswer(m)
  PROVE  /\ TypeInv' /\ Hears(client, client', m)
         /\ requests' \subseteq requests /\ answers' \subseteq answers
         /\ trouble' \in 0 .. trouble /\ server' = Remembered(server)
<1> DEFINE d == transaction_handleResponse(client, m)
<1>1. Wire(d) /\ server' = Remembered(server) /\ answers' \subseteq answers
      /\ (UNCHANGED trouble \/ Mishap)
  BY DEF HandleAnswer, Delivered
<1>2. m.code = "2.01" => m.loc \in Loc
  BY DEF TypeInv, Network, Reply_
<1>3. ClientInv(d) /\ d.sent = {} /\ Hears(client, d, m)
  BY <1>2, ResponseFacts DEF TypeInv
<1> HIDE DEF d
<1>4. client' = [d EXCEPT !.sent = {}] /\ requests' \subseteq requests
  BY <1>1, <1>3 DEF Wire
<1>5. ClientInv(client') /\ client'.sent = {} /\ Hears(client, client', m)
  <2>1. /\ ClientInv(client') /\ client'.sent = {} /\ client'.list = d.list
        /\ client'.status = d.status /\ client'.location = d.location
    BY <1>3, <1>4, QuietFacts
  <2> QED BY <1>3, <2>1 DEF Hears
<1>6. requests' \subseteq Request_
  BY <1>4 DEF TypeInv, Network
<1>7. trouble' \in 0 .. trouble
  BY <1>1, TroubleFacts DEF TypeInv, Network
<1> QED BY <1>1, <1>4, <1>5, <1>6, <1>7, RememberedType

LEMMA RebootType ==
  ASSUME TypeInv, Reboot
  PROVE  /\ TypeInv' /\ client' = ClientInit /\ requests' = {} /\ answers' = answers
         /\ trouble' \in 0 .. trouble /\ server' = Remembered(server)
<1>1. client' = ClientInit /\ requests' = {} /\ answers' = answers /\ Mishap
      /\ server' = Remembered(server)
  BY DEF Reboot
<1>2. ClientInv(client') /\ client'.sent = {}
  BY <1>1, ClientInitFacts
<1>3. TypeInv'
  BY <1>1, <1>2, RememberedType
<1> QED BY <1>1, <1>3, TroubleFacts DEF TypeInv, Network

LEMMA lwm2m_closeType ==
  ASSUME TypeInv, lwm2m_close
  PROVE  /\ TypeInv' /\ client'.list = {} /\ client'.status = "DEREGISTERED"
         /\ answers' = answers /\ trouble' \in 0 .. trouble /\ server' = Remembered(server)
         /\ \E m \in FreeMids : \A q \in requests' : q.mid = m /\ q.kind = "deregister"
<1> DEFINE m == Min(FreeMids)
           sent == registration_deregister(client, m).sent
           d == [ClientInit EXCEPT !.sent = sent]
<1>1. /\ Mishap /\ requests = {} /\ Wire(d) /\ server' = Remembered(server)
      /\ answers' = answers
  BY DEF lwm2m_close
<1>2. m \in FreeMids /\ m \in MidPool /\ m \notin Mids(client.list)
  BY FreeFacts DEF lwm2m_close
<1> HIDE DEF m
<1>3. sent \subseteq Request_ /\ \A q \in sent : q.mid = m /\ q.kind = "deregister"
  BY <1>2, DeregisterFacts DEF TypeInv
<1> HIDE DEF sent
<1>4. /\ d.sent = sent /\ d.state = "INITIAL" /\ d.status = "DEREGISTERED" /\ d.location = NoLoc
      /\ d.renew = 0 /\ d.list = {}
  BY DEF ClientInit
<1>5. requests' \subseteq sent /\ client' = [d EXCEPT !.sent = {}]
  BY <1>1, <1>4 DEF Wire
<1>6. client' = ClientInit
  BY <1>5 DEF ClientInit
<1>7. requests' \subseteq Request_ /\ ClientInv(client') /\ client'.sent = {}
      /\ client'.list = {} /\ client'.status = "DEREGISTERED"
  BY <1>3, <1>5, <1>6, ClientInitFacts
<1>8. TypeInv'
  BY <1>1, <1>7, RememberedType
<1>9. trouble' \in 0 .. trouble
  BY <1>1, TroubleFacts DEF TypeInv, Network
<1> QED BY <1>1, <1>2, <1>3, <1>5, <1>7, <1>8, <1>9

\* The same message but for its age, and what a second makes of the messages under way.
Like(r, q) == r.mid = q.mid /\ r.kind = q.kind /\ r.loc = q.loc

Ages(rq, rq2) ==
  /\ \A r \in rq2 : \E q \in rq : Like(r, q) /\ r.age = q.age + 1
  /\ \A q \in rq : \E r \in rq2 : Like(r, q)

LEMMA OlderFacts ==
  ASSUME NEW q \in Request_, q.age < MaxLife
  PROVE  Older(q) \in Request_ /\ Older(q).age = q.age + 1 /\ Like(Older(q), q)
<1> DEFINE a == q.age + 1
<1>1. a \in 0 .. MaxLife
  BY ClientAssumption DEF Request_
<1>2. Older(q) = [q EXCEPT !.age = a]
  BY DEF Older, Request_
<1> HIDE DEF a
<1>3. /\ [q EXCEPT !.age = a] \in Request_ /\ [q EXCEPT !.age = a].age = a
      /\ Like([q EXCEPT !.age = a], q)
  BY <1>1 DEF Request_, Like
<1> QED BY <1>2, <1>3 DEF a

LEMMA TickType ==
  ASSUME TypeInv, Tick
  PROVE  /\ TypeInv' /\ client'.status = client.status /\ client'.location = client.location
         /\ \A u \in client'.list : \E t \in client.list :
              u.mid = t.mid /\ u.body = t.body /\ u.counter = t.counter
              /\ u.retrans >= t.retrans - 1
         /\ \A t \in client.list : \E u \in client'.list : u.mid = t.mid /\ u.body = t.body
         /\ Ages(requests, requests') /\ UNCHANGED <<answers, server>>
<1>1. /\ \A t \in client.list : Retries(t) => t.retrans > -MaxLag
      /\ client' = Aged(client)
      /\ \A q \in requests : q.age < MaxLife
      /\ requests' = {Older(q) : q \in requests}
      /\ UNCHANGED <<answers, server>>
      /\ UNCHANGED trouble \/ Mishap
  BY DEF Tick, Aged
<1>2. /\ ClientInv(client') /\ client'.sent = client.sent /\ client'.status = client.status
      /\ client'.location = client.location
      /\ \A u \in client'.list : \E t \in client.list :
           u.mid = t.mid /\ u.body = t.body /\ u.counter = t.counter
           /\ u.retrans >= t.retrans - 1
      /\ \A t \in client.list : \E u \in client'.list : u.mid = t.mid /\ u.body = t.body
  BY <1>1, ElapsedFacts DEF TypeInv
<1>3. trouble' \in 0 .. MaxTrouble
  BY <1>1, TroubleFacts DEF TypeInv, Network
<1>4. requests' \subseteq Request_ /\ Ages(requests, requests')
  <2>1. \A q \in requests : /\ Older(q) \in Request_ /\ Older(q).age = q.age + 1
                            /\ Like(Older(q), q)
    BY <1>1, OlderFacts DEF TypeInv, Network
  <2> QED BY <1>1, <2>1 DEF Ages
<1>5. TypeInv'
  BY <1>1, <1>2, <1>3, <1>4 DEF TypeInv, Network
<1> QED BY <1>1, <1>2, <1>4, <1>5

\* What the server decides, before it forgets.
Accepts(srv, q, loc) == [srv EXCEPT !.binding = loc, !.by = q.mid, !.seen = @ \cup {q.mid}]

Refuses(srv, q, code) ==
  [srv EXCEPT !.seen = @ \cup {q.mid},
              !.refused = @ \cup {[mid |-> q.mid, code |-> code]}]

LEMMA AcceptsFacts ==
  ASSUME NEW srv \in ServerRec, NEW q \in Request_, NEW loc \in Loc
  PROVE  LET s == Accepts(srv, q, loc)
         IN  /\ s \in ServerRec /\ s.binding = loc /\ s.by = q.mid
             /\ s.seen = srv.seen \cup {q.mid}
<1> DEFINE seen == srv.seen \cup {q.mid}
           m == q.mid
           s == [srv EXCEPT !.binding = loc, !.by = m, !.seen = seen]
<1>1. Accepts(srv, q, loc) = s
  BY DEF Accepts
<1>2. seen \subseteq MidPool /\ m \in MidPool
  BY DEF ServerRec, Request_
<1> HIDE DEF seen, m
<1>3. s \in ServerRec /\ s.binding = loc /\ s.by = m /\ s.seen = seen
  BY <1>2 DEF ServerRec
<1> QED BY <1>1, <1>3 DEF seen, m

LEMMA RefusesFacts ==
  ASSUME NEW srv \in ServerRec, NEW q \in Request_, NEW code \in Refusal
  PROVE  LET s == Refuses(srv, q, code)
         IN  /\ s \in ServerRec /\ s.binding = srv.binding /\ s.by = srv.by
             /\ s.seen = srv.seen \cup {q.mid}
<1> DEFINE seen == srv.seen \cup {q.mid}
           refused == srv.refused \cup {[mid |-> q.mid, code |-> code]}
           s == [srv EXCEPT !.seen = seen, !.refused = refused]
<1>1. Refuses(srv, q, code) = s
  BY DEF Refuses
<1>2. seen \subseteq MidPool /\ refused \subseteq [mid : MidPool, code : Refusal]
  BY DEF ServerRec, Request_
<1> HIDE DEF seen, refused
<1>3. s \in ServerRec /\ s.binding = srv.binding /\ s.by = srv.by /\ s.seen = seen
  BY <1>2 DEF ServerRec
<1> QED BY <1>1, <1>3 DEF seen

\* The server is srv when it has dealt with a message q, and answers with code and loc.
Deals(q, srv, code, loc) ==
  /\ srv \in ServerRec /\ code \in Codes /\ loc \in Loc /\ (code = "2.01" => loc # NoLoc)
  /\ srv.by # NoMid => srv.binding # NoLoc
  /\ requests' \subseteq requests /\ (UNCHANGED trouble \/ Mishap) /\ UNCHANGED client
  /\ \A a \in answers' : a \in answers \/ Says(a, q, code, loc)

LEMMA DealsType ==
  ASSUME TypeInv, NEW q, NEW srv, NEW code, NEW loc, Deals(q, srv, code, loc),
         server' \in {srv, Remembered(srv)}
  PROVE  TypeInv' /\ trouble' \in 0 .. trouble
<1>1. /\ srv \in ServerRec /\ (code = "2.01" => loc # NoLoc)
      /\ srv.by # NoMid => srv.binding # NoLoc
      /\ requests' \subseteq requests /\ (UNCHANGED trouble \/ Mishap) /\ client' = client
      /\ \A a \in answers' : a \in answers \/ Says(a, q, code, loc)
  BY DEF Deals
<1>2. trouble' \in 0 .. MaxTrouble /\ trouble' \in 0 .. trouble
  BY <1>1, TroubleFacts DEF TypeInv, Network
<1>3. server' \in ServerRec /\ server'.binding = srv.binding /\ server'.by \in {srv.by, NoMid}
  <2>1. Remember(srv, client'.list, requests') \in ServerRec
        /\ Forgets(srv, Remember(srv, client'.list, requests'), client'.list, requests')
    BY <1>1, RememberFacts
  <2> QED BY <1>1, <2>1, RememberedIs DEF Forgets
<1>4. Network(requests, answers, server, trouble)
  BY DEF TypeInv
<1>5. Network(requests', answers', server', trouble')
  BY <1>1, <1>2, <1>3, <1>4, NetworkFacts
<1> QED BY <1>1, <1>2, <1>5 DEF TypeInv

LEMMA DeliveredFacts ==
  ASSUME NEW q, Arrives(q)
  PROVE  requests' \subseteq requests /\ (UNCHANGED trouble \/ Mishap)
BY DEF Arrives, Delivered

LEMMA AcceptsDeals ==
  ASSUME TypeInv, NEW q \in requests, ServerAccepts(q)
  PROVE  \E loc \in FreeLocs :
           /\ Deals(q, Accepts(server, q, loc), "2.01", loc)
           /\ server' = Remembered(Accepts(server, q, loc))
<1> DEFINE loc == CHOOSE l \in FreeLocs : TRUE
<1>1. Arrives(q) /\ Answer(q, "2.01", loc) /\ UNCHANGED client
      /\ server' = Remembered(Accepts(server, q, loc)) /\ FreeLocs # {}
  BY Zenon DEF ServerAccepts, Accepts
<1>2. loc \in FreeLocs
  BY <1>1, FreeFacts
<1> HIDE DEF loc
<1>3. loc \in Loc /\ loc # NoLoc /\ q \in Request_ /\ "2.01" \in Codes /\ server \in ServerRec
  BY <1>2, ClientAssumption DEF FreeLocs, Loc, Codes, TypeInv, Network
<1>4. /\ Accepts(server, q, loc) \in ServerRec /\ Accepts(server, q, loc).binding = loc
  BY <1>3, AcceptsFacts
<1>5. \A a \in answers' : a \in answers \/ Says(a, q, "2.01", loc)
  BY <1>1, <1>3, AnswerFacts
<1>6. Deals(q, Accepts(server, q, loc), "2.01", loc)
  BY <1>1, <1>3, <1>4, <1>5, DeliveredFacts DEF Deals
<1> QED BY <1>1, <1>2, <1>6

LEMMA RefusesDeals ==
  ASSUME TypeInv, NEW q \in requests, ServerRefuses(q)
  PROVE  \E code \in Refusal :
           /\ Deals(q, Refuses(server, q, code), code, NoLoc)
           /\ server' = Remembered(Refuses(server, q, code))
<1>1. PICK code \in Refusal :
        Answer(q, code, NoLoc) /\ server' = Remembered(Refuses(server, q, code))
  BY Zenon DEF ServerRefuses, Refuses, Refusal
<1>2. requests' \subseteq requests /\ Mishap /\ UNCHANGED client
  BY DEF ServerRefuses
<1>3. /\ q \in Request_ /\ code \in Codes /\ NoLoc \in Loc /\ code # "2.01" /\ server \in ServerRec
      /\ server.by # NoMid => server.binding # NoLoc
  BY DEF Codes, Loc, TypeInv, Network, Refusal
<1>4. \A a \in answers' : a \in answers \/ Says(a, q, code, NoLoc)
  BY <1>1, <1>3, AnswerFacts
<1>5. /\ Refuses(server, q, code) \in ServerRec
      /\ Refuses(server, q, code).binding = server.binding /\ Refuses(server, q, code).by = server.by
  BY <1>3, RefusesFacts
<1>6. Deals(q, Refuses(server, q, code), code, NoLoc)
  BY <1>2, <1>3, <1>4, <1>5 DEF Deals
<1> QED BY <1>1, <1>6

LEMMA RepeatsDeals ==
  ASSUME TypeInv, NEW q \in requests, ServerRepeats(q)
  PROVE  /\ server' = Remembered(server)
         /\ \E code, loc :
              /\ Deals(q, server, code, loc)
              /\ code = "2.01" => q.mid = server.by /\ loc = server.binding
<1>1. /\ Arrives(q) /\ server' = Remembered(server) /\ UNCHANGED client
      /\ \/ q.mid = server.by /\ Answer(q, "2.01", server.binding)
         \/ \E r \in server.refused : Answer(q, r.code, NoLoc)
         \/ UNCHANGED answers
  BY DEF ServerRepeats
<1>2. /\ q \in Request_ /\ q.mid # NoMid /\ server \in ServerRec /\ NoLoc \in Loc
      /\ server.binding \in Loc /\ "2.01" \in Codes /\ "4.00" \in Codes
      /\ server.by # NoMid => server.binding # NoLoc
  BY ClientAssumption DEF TypeInv, Network, Request_, ServerRec, Codes, Loc
<1>3. CASE q.mid = server.by /\ Answer(q, "2.01", server.binding)
  <2>1. \A a \in answers' : a \in answers \/ Says(a, q, "2.01", server.binding)
    BY <1>2, <1>3, AnswerFacts
  <2>2. Deals(q, server, "2.01", server.binding)
    BY <1>1, <1>2, <1>3, <2>1, DeliveredFacts DEF Deals
  <2> QED BY <1>1, <1>3, <2>2
<1>4. CASE \E r \in server.refused : Answer(q, r.code, NoLoc)
  <2>1. PICK r \in server.refused : Answer(q, r.code, NoLoc)
    BY <1>4
  <2>2. r.code \in Codes /\ r.code # "2.01"
    BY <1>2 DEF ServerRec, Refusal, Codes
  <2>3. \A a \in answers' : a \in answers \/ Says(a, q, r.code, NoLoc)
    BY <1>2, <2>1, <2>2, AnswerFacts
  <2>4. Deals(q, server, r.code, NoLoc)
    BY <1>1, <1>2, <2>2, <2>3, DeliveredFacts DEF Deals
  <2> QED BY <1>1, <2>2, <2>4
<1>5. CASE UNCHANGED answers
  <2>1. Deals(q, server, "4.00", NoLoc)
    BY <1>1, <1>2, <1>5, DeliveredFacts DEF Deals
  <2> QED BY <1>1, <2>1
<1> QED BY <1>1, <1>3, <1>4, <1>5

LEMMA UpdatesDeals ==
  ASSUME TypeInv, NEW q \in requests, ServerUpdates(q)
  PROVE  server' = server /\ \E code : Deals(q, server, code, NoLoc) /\ code # "2.01"
<1> DEFINE code == IF q.loc = server.binding THEN "2.04" ELSE "4.04"
<1>1. Arrives(q) /\ Answer(q, code, NoLoc) /\ UNCHANGED <<client, server>>
  BY DEF ServerUpdates
<1>2. /\ q \in Request_ /\ server \in ServerRec /\ NoLoc \in Loc /\ code \in Codes /\ code # "2.01"
      /\ server.by # NoMid => server.binding # NoLoc
  BY DEF TypeInv, Network, Codes, Loc
<1> HIDE DEF code
<1>3. \A a \in answers' : a \in answers \/ Says(a, q, code, NoLoc)
  BY <1>1, <1>2, AnswerFacts
<1>4. Deals(q, server, code, NoLoc)
  BY <1>1, <1>2, <1>3, DeliveredFacts DEF Deals
<1> QED BY <1>1, <1>2, <1>4

Drops(srv) == [srv EXCEPT !.binding = NoLoc, !.by = NoMid]

LEMMA DeregistersDeals ==
  ASSUME TypeInv, NEW q \in requests, ServerDeregisters(q)
  PROVE  /\ q.kind = "deregister"
         /\ \E srv, code :
              /\ Deals(q, srv, code, NoLoc) /\ code # "2.01" /\ server' \in {srv, Remembered(srv)}
              /\ \/ srv = server /\ server' = server
                 \/ /\ q.loc = server.binding /\ server' = Remembered(srv)
                    /\ srv.binding = NoLoc /\ srv.by = NoMid /\ srv.seen = server.seen
<1> DEFINE s == Drops(server)
<1>1. /\ q.kind = "deregister" /\ Arrives(q) /\ UNCHANGED client
      /\ \/ q.loc = server.binding /\ Answer(q, "2.02", NoLoc) /\ server' = Remembered(s)
         \/ Answer(q, "4.04", NoLoc) /\ server' = server
  BY Zenon DEF ServerDeregisters, Drops
<1>2. /\ q \in Request_ /\ server \in ServerRec /\ NoLoc \in Loc
      /\ "2.02" \in Codes /\ "4.04" \in Codes
  BY DEF TypeInv, Network, Codes, Loc
<1>3. s \in ServerRec /\ s.binding = NoLoc /\ s.by = NoMid /\ s.seen = server.seen
  BY <1>2 DEF ServerRec, Drops
<1>4. /\ Answer(q, "2.02", NoLoc) => \A a \in answers' : a \in answers \/ Says(a, q, "2.02", NoLoc)
      /\ Answer(q, "4.04", NoLoc) => \A a \in answers' : a \in answers \/ Says(a, q, "4.04", NoLoc)
  BY <1>2, AnswerFacts
<1>5. /\ Answer(q, "2.02", NoLoc) => Deals(q, s, "2.02", NoLoc)
      /\ Answer(q, "4.04", NoLoc) /\ server' = server => Deals(q, server, "4.04", NoLoc)
  <2> HIDE DEF s
  <2>1. requests' \subseteq requests /\ (UNCHANGED trouble \/ Mishap) /\ UNCHANGED client
    BY <1>1, DeliveredFacts
  <2>2. server.by # NoMid => server.binding # NoLoc
    BY DEF TypeInv, Network
  <2> QED BY <1>2, <1>3, <1>4, <2>1, <2>2 DEF Deals
<1> HIDE DEF s
<1> QED BY <1>1, <1>3, <1>5

LEMMA ForgetsType ==
  ASSUME TypeInv, ServerForgets
  PROVE  TypeInv'
<1>1. /\ server' = NewServer /\ UNCHANGED <<client, requests, answers, trouble>>
      /\ requests = {} /\ answers = {}
  BY DEF ServerForgets
<1>2. NewServer \in ServerRec /\ NewServer.by = NoMid
  BY DEF NewServer, ServerRec, Loc
<1> QED BY <1>1, <1>2 DEF TypeInv, Network

\* Lose and LinkBreaks.
LEMMA LossType ==
  ASSUME TypeInv, Lose \/ LinkBreaks
  PROVE  /\ TypeInv' /\ UNCHANGED client /\ requests' \subseteq requests /\ answers' \subseteq answers
         /\ trouble' \in 0 .. trouble /\ server' = Remembered(server)
<1>1. /\ Mishap /\ UNCHANGED client /\ server' = Remembered(server)
      /\ requests' \subseteq requests /\ answers' \subseteq answers
  <2>1. CASE Lose
    BY <2>1 DEF Lose
  <2>2. CASE LinkBreaks
    BY <2>2 DEF LinkBreaks
  <2> QED BY <2>1, <2>2
<1>2. requests' \subseteq Request_ /\ ClientInv(client') /\ client'.sent = {}
  BY <1>1 DEF TypeInv, Network
<1> QED BY <1>1, <1>2, RememberedType, TroubleFacts DEF TypeInv, Network

LEMMA DealsTypes ==
  ASSUME TypeInv, NEW q \in requests,
         ServerAccepts(q) \/ ServerRefuses(q) \/ ServerRepeats(q) \/ ServerUpdates(q)
           \/ ServerDeregisters(q)
  PROVE  TypeInv'
<1>1. \E srv, code, loc : Deals(q, srv, code, loc) /\ server' \in {srv, Remembered(srv)}
  <2>1. CASE ServerAccepts(q)
    BY <2>1, AcceptsDeals
  <2>2. CASE ServerRefuses(q)
    BY <2>2, RefusesDeals
  <2>3. CASE ServerRepeats(q)
    BY <2>3, RepeatsDeals
  <2>4. CASE ServerUpdates(q)
    BY <2>4, UpdatesDeals
  <2>5. CASE ServerDeregisters(q)
    BY <2>5, DeregistersDeals
  <2> QED BY <2>1, <2>2, <2>3, <2>4, <2>5
<1> QED BY <1>1, DealsType

LEMMA InitType == Init => TypeInv
<1> SUFFICES ASSUME Init PROVE TypeInv
  OBVIOUS
<1>1. NewServer \in ServerRec /\ NewServer.by = NoMid
  BY DEF NewServer, ServerRec, Loc
<1>2. Network(requests, answers, server, trouble)
  BY <1>1, ClientAssumption DEF Init, Network
<1> QED BY <1>2, ClientInitFacts DEF Init, TypeInv

LEMMA NextType == TypeInv /\ [Next]_vars => TypeInv'
<1> SUFFICES ASSUME TypeInv, [Next]_vars PROVE TypeInv'
  OBVIOUS
<1>1. CASE lwm2m_step
  BY <1>1, lwm2m_stepType
<1>2. CASE lwm2m_stepFails \/ ObjectsChange
  BY <1>2, FieldsType
<1>3. CASE lwm2m_close
  BY <1>3, lwm2m_closeType
<1>4. CASE Reboot
  BY <1>4, RebootType
<1>5. CASE Tick
  BY <1>5, TickType
<1>6. CASE \E m \in answers : HandleAnswer(m)
  BY <1>6, HandleAnswerType
<1>7. CASE \E q \in requests :
             ServerAccepts(q) \/ ServerRefuses(q) \/ ServerRepeats(q) \/ ServerUpdates(q)
             \/ ServerDeregisters(q)
  BY <1>7, DealsTypes
<1>8. CASE ServerForgets
  BY <1>8, ForgetsType
<1>9. CASE Lose \/ LinkBreaks
  BY <1>9, LossType
<1>10. CASE LinkReturns \/ UNCHANGED vars
  BY <1>10 DEF LinkReturns, vars, TypeInv
<1> QED BY <1>1, <1>2, <1>3, <1>4, <1>5, <1>6, <1>7, <1>8, <1>9, <1>10 DEF Next

LEMMA TypeImplies == TypeInv => PendingIsServed
<1> SUFFICES ASSUME TypeInv PROVE PendingIsServed
  OBVIOUS
<1>1. /\ client \in Client /\ client.sent = {} /\ Served(client) /\ trouble \in 0 .. MaxTrouble
  BY DEF TypeInv, ClientInv, Network
<1>2. ClientTypeOK
  <2>1. \A t \in Transaction :
          /\ t.mid \in MidPool /\ t.request /\ t.status \in Status
          /\ t.body.kind \in Kind /\ t.counter \in 1 .. COAP_MAX_RETRANSMIT + 2
    BY DEF Transaction, Status, Body, Kind
  <2>2. client.list \subseteq Transaction /\ client.status \in ClientStatus
    BY <1>1 DEF Client
  <2> QED BY <1>1, <2>1, <2>2 DEF ClientTypeOK, Client, ClientStatus, Loc
<1>3. OfKind("register") = Of(client.list, "register") /\ OfKind("update") = Of(client.list, "update")
  BY DEF OfKind, Of
<1>4. CASE client.status = "REG_PENDING"
  <2>1. PICK t : t \in Of(client.list, "register")
    BY <1>1, <1>4 DEF Served
  <2>2. OfKind("register") = {t}
    BY <1>1, <1>3, <2>1 DEF Served
  <2>3. Cardinality({t}) = 1
    BY FS_Singleton
  <2> QED BY <1>2, <1>4, <2>2, <2>3 DEF PendingIsServed
<1>5. CASE client.status # "REG_PENDING"
  <2>1. OfKind("register") = {}
    BY <1>1, <1>3, <1>5 DEF Served
  <2>2. Cardinality({}) = 0
    BY FS_EmptySet
  <2>3. client.status = "REG_UPDATE_PENDING" => OfKind("update") # {}
    BY <1>1, <1>3 DEF Served
  <2> QED BY <1>2, <1>5, <2>1, <2>2, <2>3 DEF PendingIsServed
<1> QED BY <1>4, <1>5

\* A status of the registration that waits for an answer (registration.c) has the
\* transaction that will bring it, and at most one registration is in progress, whatever
\* the network, the server and the clock do.
THEOREM PendingServed == Spec => []PendingIsServed
<1>1. Spec => []TypeInv
  BY InitType, NextType, PTL DEF Spec
<1> QED BY <1>1, TypeImplies, PTL

----------------------------------------------------------------------------
\* The registration: what a step keeps.

\* A mID is used for one kind of request, if a step uses only one that is unused.
LEMMA TagFacts ==
  ASSUME NEW list, list \subseteq Transaction, NEW rq, rq \subseteq Request_,
         NEW srv, OneKind(list, rq), Recalls(list, rq, srv),
         NEW list2, list2 \subseteq Transaction, NEW rq2, rq2 \subseteq Request_,
         \A m \in MidPool, k, l \in Kind : Tagged(list2, rq2, m, k) /\ Tagged(list2, rq2, m, l) =>
           Tagged(list, rq, m, k) \/ (k = l /\ \A i \in Kind : ~Tagged(list, rq, m, i)),
         NEW srv2, srv2.seen \subseteq srv.seen, srv2.by \in {srv.by, NoMid},
         \A m \in MidPool : m \in srv2.seen \/ m = srv2.by => Live(list2, rq2, m)
  PROVE  OneKind(list2, rq2) /\ Recalls(list2, rq2, srv2)
<1>1. OneKind(list2, rq2)
  BY DEF OneKind
<1>2. ASSUME NEW m \in MidPool, m \in srv2.seen \/ m = srv2.by
      PROVE  Tagged(list2, rq2, m, "register")
  <2>1. m # NoMid /\ (m \in srv.seen \/ m = srv.by) /\ "register" \in Kind
    BY <1>2, ClientAssumption DEF Kind
  <2>2. Tagged(list, rq, m, "register")
    BY <2>1 DEF Recalls
  <2>3. PICK k \in Kind : Tagged(list2, rq2, m, k)
    <3>1. \A t \in Transaction : t.body.kind \in Kind
      BY DEF Transaction, Body, Kind
    <3>2. \A q \in Request_ : q.kind \in Kind
      BY DEF Request_
    <3> QED BY <1>2, <3>1, <3>2 DEF Live, Tagged
  <2>4. Tagged(list, rq, m, k)
    BY <2>1, <2>2, <2>3
  <2>5. k = "register"
    BY <2>1, <2>2, <2>4 DEF OneKind
  <2> QED BY <2>3, <2>5
<1> QED BY <1>1, <1>2 DEF Recalls

\* A mID no message of the client and no answer has.
Unused(m, list, rq, an) ==
  /\ m \in MidPool /\ ~Live(list, rq, m)
  /\ \A a \in an : a.mid # m /\ a.token # m

\* The registration is kept: c becomes d and the server forgets; nothing arrives at it.
LEMMA KeepFacts ==
  ASSUME NEW c, NEW rq, NEW an, NEW srv, NEW tr, Reg(c, rq, an, srv, tr),
         NEW d, NEW rq2, NEW an2, NEW srv2, NEW tr2, ClientInv(d), Network(rq2, an2, srv2, tr2),
         OneKind(d.list, rq2), Recalls(d.list, rq2, srv2), InTime(d.list, rq2),
         Forgets(srv, srv2, d.list, rq2), an2 \subseteq an,
         Decided(d.list, rq2, srv),
         \A m \in MidPool : Active(d.list, m) => Active(c.list, m) \/ Unused(m, c.list, rq, an),
         Mine(d, srv) => Mine(c, srv),
         \A q \in rq2 : q.kind = "deregister" /\ Mine(d, srv) => \E r \in rq : Like(q, r),
         Same(d, rq2, srv)
  PROVE  Reg(d, rq2, an2, srv2, tr2)
<1>1. /\ Answered(c.list, an, srv) /\ Accepted(c.list, an, srv) /\ Leaving(c, rq, srv)
      /\ Recalls(c.list, rq, srv)
  BY DEF Reg
<1>2. /\ srv2.binding = srv.binding /\ srv2.seen \subseteq srv.seen /\ srv2.by \in {srv.by, NoMid}
      /\ \A m : Live(d.list, rq2, m) /\ m \in srv.seen => m \in srv2.seen
      /\ \A m : Live(d.list, rq2, m) /\ m = srv.by => m = srv2.by
  BY DEF Forgets
<1>3. /\ \A m : Active(d.list, m) => m \in MidPool /\ m # NoMid /\ Live(d.list, rq2, m)
      /\ \A q \in rq2 : Live(d.list, rq2, q.mid)
  <2>1. \A t \in Transaction : t.mid \in MidPool
    BY DEF Transaction
  <2>2. d.list \subseteq Transaction
    BY DEF ClientInv, Client
  <2> QED BY <2>1, <2>2, ClientAssumption DEF Active, Live
<1>4. Decided(d.list, rq2, srv2)
  BY <1>2, <1>3 DEF Decided
<1>5. ASSUME NEW a \in an2, NEW m \in {a.mid, a.token}, Active(d.list, m)
      PROVE  Active(c.list, m)
  BY <1>3, <1>5 DEF Unused
<1>6. Answered(d.list, an2, srv2)
  BY <1>1, <1>2, <1>3, <1>5 DEF Answered
<1>7. Accepted(d.list, an2, srv2)
  BY <1>1, <1>2, <1>3, <1>5 DEF Accepted
<1>8. Mine(d, srv2) => Mine(d, srv)
  BY <1>2, <1>3 DEF Mine
<1>9. Leaving(d, rq2, srv2)
  BY <1>1, <1>2, <1>8 DEF Leaving, Like
<1>10. Same(d, rq2, srv2)
  BY <1>2 DEF Same
<1> QED BY <1>4, <1>6, <1>7, <1>9, <1>10 DEF Reg

\* The times under which a transaction is told from its messages.
LEMMA TimeFacts ==
  /\ Silence \in Nat /\ MaxLag \in Nat /\ MaxLife \in Nat /\ COAP_MAX_RETRANSMIT \in Nat
  /\ COAP_RESPONSE_TIMEOUT \in Nat
  /\ COAP_MAX_RETRANSMIT = 0 => Silence = COAP_RESPONSE_TIMEOUT
<1>1. 2 ^ 0 = 1
  <2>1. IsFiniteSet({}) /\ Cardinality({}) = 0
    BY FS_EmptySet
  <2>2. Cardinality(SUBSET {}) = 2 ^ 0
    BY <2>1, FS_SUBSET
  <2>3. SUBSET {} = {{}}
    OBVIOUS
  <2>4. Cardinality({{}}) = 1
    BY FS_Singleton
  <2> QED BY <2>2, <2>3, <2>4
<1>2. 2 ^ COAP_MAX_RETRANSMIT \in Nat
  BY PowerOfTwo, CoapAssumption
<1>3. ASSUME NEW a \in Nat, NEW b \in Nat PROVE a * b \in Nat /\ (b = 1 => a * b = a)
  OBVIOUS
<1>4. COAP_MAX_RETRANSMIT = 0 => 2 ^ COAP_MAX_RETRANSMIT = 1
  BY <1>1
<1> QED BY <1>2, <1>3, <1>4, CoapAssumption, ClientAssumption DEF Silence

\* A request is sent for the first time.
LEMMA AskKeeps ==
  ASSUME NEW c, NEW rq, NEW an, NEW srv, NEW tr, Reg(c, rq, an, srv, tr), c.sent = {},
         NEW b, ClientInv(b), NEW m, Unused(m, c.list, rq, an), Asks(c, b, m)
  PROVE  Reg(b, rq \cup b.sent, an, srv, tr)
<1>1. PICK s \in Transaction, q \in Request_ :
        /\ b.list = c.list \cup {s} /\ b.sent = {q} /\ b.location = c.location
        /\ s.mid = m /\ q.mid = m /\ s.body.kind = q.kind
        /\ s.counter = 2 /\ s.retrans = COAP_RESPONSE_TIMEOUT
        /\ Suits(c, q.kind, b.status)
  BY DEF Asks
<1> DEFINE rq2 == rq \cup {q}
<1>2. /\ c.list \subseteq Transaction /\ b.list \subseteq Transaction
      /\ rq \subseteq Request_ /\ rq2 \subseteq Request_ /\ tr \in 0 .. MaxTrouble
      /\ Network(rq, an, srv, tr)
  BY DEF Reg, ClientInv, Client, Network
<1>3. Network(rq2, an, srv, tr)
  BY <1>2 DEF Network
<1>4. /\ OneKind(c.list, rq) /\ Recalls(c.list, rq, srv) /\ InTime(c.list, rq)
      /\ Decided(c.list, rq, srv) /\ Same(c, rq, srv) /\ Served(c)
  BY DEF Reg, ClientInv
<1>5. \A n \in MidPool, k, l \in Kind : Tagged(b.list, rq2, n, k) /\ Tagged(b.list, rq2, n, l) =>
        Tagged(c.list, rq, n, k) \/ (k = l /\ \A i \in Kind : ~Tagged(c.list, rq, n, i))
  BY <1>1 DEF Tagged, Unused, Live
<1>6. \A n \in MidPool : n \in srv.seen \/ n = srv.by => Live(b.list, rq2, n)
  <2>1. \A n \in MidPool : n \in srv.seen \/ n = srv.by => Tagged(c.list, rq, n, "register")
    BY <1>4 DEF Recalls
  <2> QED BY <1>1, <2>1 DEF Tagged, Live
<1>7. OneKind(b.list, rq2) /\ Recalls(b.list, rq2, srv)
  <2> HIDE DEF rq2
  <2> QED BY <1>2, <1>4, <1>5, <1>6, TagFacts
<1>8. InTime(b.list, rq2)
  <2> SUFFICES ASSUME NEW t \in b.list, NEW r \in rq2, r.mid = t.mid,
                      t.counter = COAP_MAX_RETRANSMIT + 2
               PROVE  t.retrans >= Silence - MaxLag - r.age
    BY DEF InTime
  <2>1. CASE t.mid = m
    <3>1. t = s
      BY <1>1, <2>1 DEF Unused, Live
    <3>2. COAP_MAX_RETRANSMIT = 0
      BY <1>1, <3>1, TimeFacts
    <3>3. r.age \in Nat
      BY <1>2 DEF Request_
    <3> QED BY <1>1, <3>1, <3>2, <3>3, TimeFacts
  <2>2. CASE t.mid # m
    <3>1. t \in c.list /\ r \in rq
      BY <1>1, <2>2
    <3> QED BY <1>4, <3>1 DEF InTime
  <2> QED BY <2>1, <2>2
<1>9. Decided(b.list, rq2, srv)
  <2> SUFFICES ASSUME NEW r \in rq2, r.kind = "register"
               PROVE  r.mid \in srv.seen \/ Active(b.list, r.mid)
    BY DEF Decided
  <2>1. r = q => Active(b.list, r.mid)
    BY <1>1 DEF Active
  <2>2. Active(c.list, r.mid) => Active(b.list, r.mid)
    BY <1>1 DEF Active
  <2> QED BY <1>4, <2>1, <2>2 DEF Decided
<1>10. \A n \in MidPool : Active(b.list, n) => Active(c.list, n) \/ Unused(n, c.list, rq, an)
  BY <1>1 DEF Active
<1>11. b.status \in RegisteredStatus => c.status \in RegisteredStatus /\ q.kind = "update"
  BY <1>1 DEF Suits, RegisteredStatus
<1>12. Mine(b, srv) => Mine(c, srv)
  <2>1. ASSUME Active(b.list, srv.by) PROVE Active(c.list, srv.by)
    <3>1. srv.by # m
      <4>1. srv.by = m => Tagged(c.list, rq, m, "register")
        BY <1>4 DEF Recalls, Unused
      <4> QED BY <4>1 DEF Tagged, Unused, Live
    <3> QED BY <1>1, <2>1, <3>1 DEF Active
  <2> QED BY <1>11, <2>1 DEF Mine
<1>13. q.kind # "deregister"
  BY <1>1 DEF Suits
<1>14. Same(b, rq2, srv)
  <2>1. \A r \in rq2 : r \in rq \/ r = q
    OBVIOUS
  <2> QED BY <1>1, <1>4, <1>11, <2>1 DEF Same
<1>15. Forgets(srv, srv, b.list, rq2)
  BY DEF Forgets
<1>16. \A r \in rq2 : r.kind = "deregister" /\ Mine(b, srv) => \E p \in rq : Like(r, p)
  BY <1>13 DEF Like
<1>17. Reg(b, rq2, an, srv, tr)
  <2> HIDE DEF rq2
  <2> QED BY <1>3, <1>7, <1>8, <1>9, <1>10, <1>12, <1>14, <1>15, <1>16, KeepFacts
<1> QED BY <1>1, <1>17

\* A transaction that ends unanswered has no message under way.
LEMMA EndedFacts ==
  ASSUME Timely, NEW c, NEW rq, NEW an, NEW srv, NEW tr, Reg(c, rq, an, srv, tr),
         NEW t \in Overdue(c), EndsUnanswered(t), NEW q \in rq, q.mid = t.mid
  PROVE  FALSE
<1>1. /\ c.list \subseteq Transaction /\ t \in c.list /\ t.retrans <= 0
      /\ InTime(c.list, rq) /\ q \in Request_
  BY DEF Reg, ClientInv, Client, Overdue, Network
<1>2. t \in Transaction /\ t.retrans \in Int /\ q.age \in 0 .. MaxLife
  BY <1>1 DEF Transaction, Request_
<1>3. t.counter = COAP_MAX_RETRANSMIT + 2
  BY <1>2, TransmitFacts, SilentFacts
<1>4. t.retrans >= Silence - MaxLag - q.age
  BY <1>1, <1>3 DEF InTime
<1> QED BY <1>1, <1>2, <1>4, TimeFacts DEF Timely

\* The transactions are gone through: rq is what was under way, rq2 what then is of it and
\* of the copies that are sent.
LEMMA StepKeeps ==
  ASSUME Timely, NEW c, NEW rq, NEW an, NEW srv, NEW tr, Reg(c, rq, an, srv, tr),
         NEW rq2, rq2 \subseteq rq \cup Copies(Overdue(c)),
         NEW d, d = transaction_step(c), NEW srv2, srv2 = Remember(srv, d.list, rq2),
         Network(rq2, an, srv2, tr)
  PROVE  Reg(d, rq2, an, srv2, tr)
<1> DEFINE due == Overdue(c)
<1>1. /\ ClientInv(c) /\ c \in Client /\ c.list \subseteq Transaction /\ due \subseteq c.list
      /\ UniqueMids(c.list) /\ Served(c) /\ Punctual(c.list)
      /\ rq \subseteq Request_ /\ rq2 \subseteq Request_ /\ srv \in ServerRec /\ tr \in 0 .. MaxTrouble
  BY DEF Reg, ClientInv, Client, Overdue, Network
<1>2. /\ OneKind(c.list, rq) /\ Recalls(c.list, rq, srv) /\ InTime(c.list, rq)
      /\ Decided(c.list, rq, srv) /\ Same(c, rq, srv)
  BY DEF Reg
<1>3. /\ ClientInv(d) /\ d.status \in {c.status, "REG_FAILED"} /\ d.location = c.location
      /\ d.list = Sending(c.list, due) /\ d.list \subseteq Transaction
  <2>1. ClientInv(d) /\ d.status \in {c.status, "REG_FAILED"} /\ d.location = c.location
    BY <1>1, StepInv
  <2>2. d.list = Sending(c.list, due)
    BY <1>1, StepIs
  <2> QED BY <2>1, <2>2 DEF ClientInv, Client
<1> HIDE DEF due
<1>4. /\ \A u \in d.list : \E t \in c.list :
           /\ u.mid = t.mid /\ u.body = t.body
           /\ (u = t /\ t \notin due) \/ (u = Sent(t) /\ t \in due /\ ~EndsUnanswered(t))
      /\ \A t \in c.list : (t \in due /\ EndsUnanswered(t))
                        \/ \E u \in d.list : u.mid = t.mid /\ u.body = t.body
      /\ \A t \in due : Transmits(t) => Sent(t) \in d.list
      /\ UniqueMids(d.list)
  BY <1>1, <1>3, SendingFacts
<1>5. \A r \in rq2 : r \in rq \/ \E t \in due : /\ Transmits(t) /\ r = Message(t)
                                           /\ r.mid = t.mid /\ r.kind = t.body.kind
  BY DEF Copies, Message, due
<1>6. ASSUME NEW t \in due, EndsUnanswered(t), NEW r \in rq, r.mid = t.mid
      PROVE  FALSE
  BY <1>6, EndedFacts DEF due
<1>7. OneKind(d.list, rq2) /\ Recalls(d.list, rq2, srv2)
  <2>1. \A m \in MidPool, k \in Kind : Tagged(d.list, rq2, m, k) => Tagged(c.list, rq, m, k)
    BY <1>1, <1>4, <1>5 DEF Tagged
  <2>2. OneKind(d.list, rq2)
    BY <1>2, <2>1 DEF OneKind
  <2>3. /\ srv2.seen \subseteq srv.seen /\ srv2.by \in {srv.by, NoMid}
        /\ \A m \in MidPool : m \in srv2.seen \/ m = srv2.by => Live(d.list, rq2, m)
    BY <1>1, RememberFacts, ClientAssumption DEF Forgets
  <2> QED BY <1>1, <1>2, <1>3, <2>1, <2>3, TagFacts
<1>8. InTime(d.list, rq2)
  <2> SUFFICES ASSUME NEW u \in d.list, NEW r \in rq2, r.mid = u.mid,
                      u.counter = COAP_MAX_RETRANSMIT + 2
               PROVE  u.retrans >= Silence - MaxLag - r.age
    BY DEF InTime
  <2>1. PICK t \in c.list :
          /\ u.mid = t.mid /\ u.body = t.body
          /\ (u = t /\ t \notin due) \/ (u = Sent(t) /\ t \in due /\ ~EndsUnanswered(t))
    BY <1>4
  <2>2. t \in Transaction /\ t.retrans \in Int /\ t.counter \in Int /\ t.retrans >= -MaxLag
    <3>1. t \in Transaction
      BY <1>1
    <3>2. t.retrans \in Int /\ t.counter \in Int
      BY <3>1, CoapAssumption DEF Transaction
    <3>3. t.retrans >= -MaxLag
      BY <1>1 DEF Punctual
    <3> QED BY <3>1, <3>2, <3>3
  <2>3. CASE t \in due /\ Transmits(t)
    <3>1. u = Sent(t) /\ u.retrans = t.retrans + Backoff(t) /\ u.counter = t.counter + 1
      BY <2>1, <2>2, <2>3, TransmitFacts
    <3>2. Backoff(t) = Silence
      <4>1. t.counter = COAP_MAX_RETRANSMIT + 1
        BY <2>2, <3>1, TimeFacts
      <4> QED BY <2>2, <4>1, BackoffFacts
    <3>3. r.age \in Nat
      BY <1>1 DEF Request_
    <3> QED BY <2>2, <3>1, <3>2, <3>3, TimeFacts
  <2>4. CASE ~(t \in due /\ Transmits(t))
    <3>1. u.retrans = t.retrans /\ u.counter = t.counter
      BY <2>1, <2>2, <2>4, SilentFacts
    <3>2. r \in rq
      <4> SUFFICES ASSUME r \notin rq PROVE FALSE
        OBVIOUS
      <4>1. PICK s \in due : Transmits(s) /\ r.mid = s.mid
        BY <1>5
      <4>2. s = t
        BY <1>1, <2>1, <4>1 DEF UniqueMids
      <4> QED BY <2>4, <4>1, <4>2
    <3> QED BY <1>2, <2>1, <3>1, <3>2 DEF InTime
  <2> QED BY <2>3, <2>4
<1>9. Decided(d.list, rq2, srv)
  <2> SUFFICES ASSUME NEW r \in rq2, r.kind = "register", r.mid \notin srv.seen
               PROVE  Active(d.list, r.mid)
    BY DEF Decided
  <2>1. CASE r \in rq
    <3>1. PICK t \in c.list : t.mid = r.mid /\ t.body.kind = "register"
      BY <1>2, <2>1 DEF Decided, Active
    <3>2. ~(t \in due /\ EndsUnanswered(t))
      BY <1>6, <2>1, <3>1
    <3> QED BY <1>4, <3>1, <3>2 DEF Active
  <2>2. CASE r \notin rq
    <3>1. PICK t \in due : Transmits(t) /\ r.mid = t.mid /\ r.kind = t.body.kind
      BY <1>5, <2>2
    <3>2. Sent(t) \in d.list /\ Sent(t).mid = t.mid /\ Sent(t).body = t.body
      BY <1>1, <1>4, <3>1, TransmitFacts
    <3> QED BY <3>1, <3>2 DEF Active
  <2> QED BY <2>1, <2>2
<1>10. \A m : Active(d.list, m) => Active(c.list, m)
  BY <1>4 DEF Active
<1>11. Mine(d, srv) => Mine(c, srv)
  BY <1>3, <1>10 DEF Mine, RegisteredStatus
<1>12. \A r \in rq2 : r.kind = "deregister" => \E p \in rq : Like(r, p)
  <2>1. \A t \in Transaction : t.body.kind # "deregister"
    BY DEF Transaction, Body
  <2> QED BY <1>1, <1>5, <2>1 DEF Like
<1>13. Same(d, rq2, srv)
  <2> SUFFICES ASSUME d.status \in RegisteredStatus
               PROVE  \/ srv.binding = d.location /\ d.location # NoLoc
                      \/ srv.binding = NoLoc /\ \A r \in rq2 : r.kind # "register"
    BY DEF Same
  <2>1. c.status \in RegisteredStatus /\ c.status # "REG_PENDING"
    BY <1>3 DEF RegisteredStatus
  <2>2. \A t \in c.list : t.body.kind # "register"
    BY <1>1, <2>1 DEF Served, Of
  <2> QED BY <1>1, <1>2, <1>3, <1>5, <2>1, <2>2 DEF Same
<1>14. Forgets(srv, srv2, d.list, rq2)
  BY <1>1, RememberFacts
<1> QED BY <1>3, <1>7, <1>8, <1>9, <1>10, <1>11, <1>12, <1>13, <1>14, KeepFacts

\* Transactions stay as long as they were to, and no message under way is younger.
LEMMA InTimeKeeps ==
  ASSUME NEW list, list \subseteq Transaction, NEW rq, rq \subseteq Request_,
         InTime(list, rq),
         NEW list2, list2 \subseteq Transaction,
         \A u \in list2 : \E t \in list :
           u.mid = t.mid /\ u.counter = t.counter /\ u.retrans >= t.retrans,
         NEW rq2, rq2 \subseteq rq
  PROVE  InTime(list2, rq2)
<1> SUFFICES ASSUME NEW u \in list2, NEW q \in rq2, q.mid = u.mid,
                    u.counter = COAP_MAX_RETRANSMIT + 2
             PROVE  u.retrans >= Silence - MaxLag - q.age
  BY DEF InTime
<1>1. PICK t \in list : u.mid = t.mid /\ u.counter = t.counter /\ u.retrans >= t.retrans
  OBVIOUS
<1>2. t.retrans \in Int /\ u.retrans \in Int
  BY DEF Transaction
<1>3. t.retrans >= Silence - MaxLag - q.age
  BY <1>1 DEF InTime
<1>4. q.age \in Nat
  BY DEF Request_
<1> QED BY <1>1, <1>2, <1>3, <1>4, TimeFacts

\* A second passes for the transactions and for the messages.
LEMMA InTimeTicks ==
  ASSUME NEW list, list \subseteq Transaction, NEW rq, rq \subseteq Request_,
         InTime(list, rq),
         NEW list2, list2 \subseteq Transaction,
         \A u \in list2 : \E t \in list :
           u.mid = t.mid /\ u.counter = t.counter /\ u.retrans >= t.retrans - 1,
         NEW rq2, Ages(rq, rq2)
  PROVE  InTime(list2, rq2)
<1> SUFFICES ASSUME NEW u \in list2, NEW r \in rq2, r.mid = u.mid,
                    u.counter = COAP_MAX_RETRANSMIT + 2
             PROVE  u.retrans >= Silence - MaxLag - r.age
  BY DEF InTime
<1>1. PICK t \in list : u.mid = t.mid /\ u.counter = t.counter /\ u.retrans >= t.retrans - 1
  OBVIOUS
<1>2. PICK q \in rq : q.mid = r.mid /\ r.age = q.age + 1
  BY DEF Ages, Like
<1>3. t.retrans \in Int /\ u.retrans \in Int
  BY DEF Transaction
<1>4. t.retrans >= Silence - MaxLag - q.age
  BY <1>1, <1>2 DEF InTime
<1>5. q.age \in Nat
  BY DEF Request_
<1> QED BY <1>1, <1>2, <1>3, <1>4, <1>5, TimeFacts

\* The messages of rq2 are some of rq, perhaps at another age.
Stems(rq2, rq) == \A q \in rq2 : \E r \in rq : Like(q, r)

\* The client goes on with some of its transactions, messages grow old, arrive or are lost,
\* and the server forgets what cannot be repeated.
LEMMA StemKeeps ==
  ASSUME NEW c, NEW rq, NEW an, NEW srv, NEW tr, Reg(c, rq, an, srv, tr),
         NEW d, ClientInv(d),
         \A u \in d.list : \E t \in c.list : u.mid = t.mid /\ u.body = t.body,
         NEW rq2, Stems(rq2, rq), NEW an2, an2 \subseteq an, NEW srv2, NEW tr2,
         Network(rq2, an2, srv2, tr2), InTime(d.list, rq2),
         Forgets(srv, srv2, d.list, rq2),
         \A m \in MidPool : m \in srv2.seen \/ m = srv2.by => Live(d.list, rq2, m),
         \A q \in rq2 : q.kind = "register" /\ Active(c.list, q.mid)
                          => q.mid \in srv.seen \/ Active(d.list, q.mid),
         d.status \in RegisteredStatus =>
           \/ c.status \in RegisteredStatus /\ d.location = c.location
           \/ srv.binding = d.location /\ d.location # NoLoc /\ Mine(c, srv)
  PROVE  Reg(d, rq2, an2, srv2, tr2)
<1>1. /\ ClientInv(c) /\ Network(rq, an, srv, tr) /\ OneKind(c.list, rq)
      /\ Recalls(c.list, rq, srv) /\ Decided(c.list, rq, srv) /\ Same(c, rq, srv)
  BY DEF Reg
<1>2. /\ c.list \subseteq Transaction /\ d.list \subseteq Transaction /\ rq \subseteq Request_
      /\ rq2 \subseteq Request_ /\ \A q \in rq2 : \E r \in rq : Like(q, r)
  BY <1>1 DEF Stems, ClientInv, Client, Network
<1>3. \A m : Active(d.list, m) => Active(c.list, m)
  BY DEF Active
<1>4. OneKind(d.list, rq2) /\ Recalls(d.list, rq2, srv2)
  <2>1. \A m \in MidPool, k \in Kind : Tagged(d.list, rq2, m, k) => Tagged(c.list, rq, m, k)
    BY <1>2 DEF Tagged, Like
  <2>2. srv2.seen \subseteq srv.seen /\ srv2.by \in {srv.by, NoMid}
    BY DEF Forgets
  <2> QED BY <1>1, <1>2, <2>1, <2>2, TagFacts
<1>5. Decided(d.list, rq2, srv)
  BY <1>1, <1>2 DEF Decided, Like
<1>6. Mine(d, srv) => Mine(c, srv)
  BY <1>3 DEF Mine
<1>7. Same(d, rq2, srv)
  BY <1>1, <1>2 DEF Same, Like
<1> QED BY <1>2, <1>3, <1>4, <1>5, <1>6, <1>7, KeepFacts

LEMMA ShrinkKeeps ==
  ASSUME NEW c, NEW rq, NEW an, NEW srv, NEW tr, Reg(c, rq, an, srv, tr),
         NEW d, ClientInv(d),
         \A u \in d.list : \E t \in c.list : u.mid = t.mid /\ u.body = t.body,
         NEW rq2, rq2 \subseteq rq, NEW an2, an2 \subseteq an, NEW srv2, NEW tr2,
         Network(rq2, an2, srv2, tr2), InTime(d.list, rq2),
         Forgets(srv, srv2, d.list, rq2),
         \A m \in MidPool : m \in srv2.seen \/ m = srv2.by => Live(d.list, rq2, m),
         \A q \in rq2 : q.kind = "register" /\ Active(c.list, q.mid)
                          => q.mid \in srv.seen \/ Active(d.list, q.mid),
         d.status \in RegisteredStatus =>
           \/ c.status \in RegisteredStatus /\ d.location = c.location
           \/ srv.binding = d.location /\ d.location # NoLoc /\ Mine(c, srv)
  PROVE  Reg(d, rq2, an2, srv2, tr2)
<1>1. Stems(rq2, rq)
  BY DEF Stems, Like
<1> QED BY <1>1, StemKeeps

----------------------------------------------------------------------------
\* The steps of the client.
LEMMA lwm2m_stepKeeps ==
  ASSUME Timely, RegInv, lwm2m_step
  PROVE  RegInv'
<1>1. /\ TypeInv /\ TypeInv' /\ Reg(client, requests, answers, server, trouble)
      /\ client.sent = {} /\ ClientInv(client)
  <2>1. TypeInv /\ Reg(client, requests, answers, server, trouble) /\ client.sent = {}
    BY DEF RegInv, Reg, TypeInv
  <2> QED BY <2>1, lwm2m_stepType DEF TypeInv
<1>2. PICK b, m : Steps(b, m)
  BY <1>1, lwm2m_stepFacts
<1> DEFINE d == transaction_step(b)
           rq == requests \cup b.sent
<1>3. /\ ClientInv(b)
      /\ Unmoved(client, b) \/ (m \in FreeMids /\ Asks(client, b, m))
      /\ client' = [d EXCEPT !.sent = {}] /\ requests' \in {requests \cup d.sent, {}}
      /\ answers' = answers /\ trouble' = trouble /\ server' = Remembered(server)
  BY <1>2 DEF Steps
<1>4. Reg(b, rq, answers, server, trouble)
  <2>1. CASE Unmoved(client, b)
    <3>1. b.sent = {} /\ rq = requests
      BY <1>1, <2>1 DEF Unmoved
    <3>2. Reg(b, requests, answers, server, trouble)
      BY <1>1, <1>3, <2>1 DEF Reg, Unmoved, Mine, Same, Leaving
    <3> QED BY <3>1, <3>2
  <2>2. CASE m \in FreeMids /\ Asks(client, b, m)
    <3>1. Unused(m, client.list, requests, answers)
      BY <2>2 DEF FreeMids, TravellingMids, Unused, Mids, Live
    <3> QED BY <1>1, <1>3, <2>2, <3>1, AskKeeps
  <2> QED BY <1>3, <2>1, <2>2
<1>5. /\ d.sent = b.sent \cup Copies(Overdue(b)) /\ ClientInv(d)
  <2>1. b \in Client
    BY <1>3 DEF ClientInv
  <2> QED BY <1>3, <2>1, StepIs, StepInv
<1> HIDE DEF d
<1>6. /\ ClientInv(client') /\ client'.sent = {} /\ client'.list = d.list
      /\ client'.status = d.status /\ client'.location = d.location
  BY <1>3, <1>5, QuietFacts
<1>7. requests' \subseteq rq \cup Copies(Overdue(b))
  BY <1>3, <1>5
<1>8. server' = Remember(server, d.list, requests') /\ Network(requests', answers, server', trouble)
  BY <1>1, <1>3, <1>6, RememberedIs DEF TypeInv
<1>9. Reg(d, requests', answers, server', trouble)
  <2> HIDE DEF rq
  <2> QED BY <1>4, <1>7, <1>8, StepKeeps DEF d
<1>10. Reg(client', requests', answers', server', trouble')
  BY <1>3, <1>6, <1>9 DEF Reg, Mine, Same, Leaving
<1> QED BY <1>6, <1>10 DEF RegInv

\* What all these steps of the client know of the state before them.
LEMMA RegFacts ==
  ASSUME RegInv
  PROVE  /\ TypeInv /\ Reg(client, requests, answers, server, trouble)
         /\ client.list \subseteq Transaction /\ InTime(client.list, requests)
         /\ trouble \in 0 .. MaxTrouble /\ server \in ServerRec
         /\ requests \subseteq Request_ /\ answers \subseteq Reply_
<1>1. TypeInv /\ Reg(client, requests, answers, server, trouble)
  BY DEF RegInv, Reg, TypeInv
<1>2. InTime(client.list, requests)
  BY <1>1 DEF Reg
<1> QED BY <1>1, <1>2 DEF TypeInv, ClientInv, Client, Network

LEMMA FieldsKeeps ==
  ASSUME RegInv, lwm2m_stepFails \/ ObjectsChange
  PROVE  RegInv'
<1>1. /\ TypeInv /\ Reg(client, requests, answers, server, trouble)
      /\ client.list \subseteq Transaction /\ InTime(client.list, requests)
      /\ trouble \in 0 .. MaxTrouble
  BY RegFacts
<1>2. /\ TypeInv' /\ client'.list = client.list /\ client'.location = client.location
      /\ client'.status \in {client.status, "REG_FULL_UPDATE_NEEDED"}
      /\ client'.status # client.status => client.status \in RegisteredStatus
      /\ UNCHANGED <<requests, answers, server>> /\ trouble' \in 0 .. trouble
  BY <1>1, FieldsType
<1>3. /\ ClientInv(client') /\ client'.sent = {}
      /\ Network(requests, answers, server, trouble') /\ trouble' \in 0 .. MaxTrouble
  BY <1>2 DEF TypeInv, Network
<1>4. InTime(client'.list, requests)
  BY <1>1, <1>2
<1>5. \A m \in MidPool : m \in server.seen \/ m = server.by => Live(client'.list, requests, m)
  BY <1>1, <1>2 DEF Reg, Recalls, Tagged, Live
<1>6. Forgets(server, server, client'.list, requests)
  BY DEF Forgets
<1>7. Reg(client', requests, answers, server, trouble')
  BY <1>1, <1>2, <1>3, <1>4, <1>5, <1>6, ShrinkKeeps
<1> QED BY <1>2, <1>3, <1>7 DEF RegInv

LEMMA TickKeeps ==
  ASSUME RegInv, Tick
  PROVE  RegInv'
<1>1. /\ TypeInv /\ Reg(client, requests, answers, server, trouble)
      /\ client.list \subseteq Transaction /\ InTime(client.list, requests)
      /\ requests \subseteq Request_
  BY RegFacts
<1>2. /\ TypeInv' /\ client'.status = client.status /\ client'.location = client.location
      /\ \A u \in client'.list : \E t \in client.list :
           u.mid = t.mid /\ u.body = t.body /\ u.counter = t.counter
           /\ u.retrans >= t.retrans - 1
      /\ \A t \in client.list : \E u \in client'.list : u.mid = t.mid /\ u.body = t.body
      /\ Ages(requests, requests') /\ UNCHANGED <<answers, server>>
  BY <1>1, TickType
<1>3. /\ ClientInv(client') /\ client'.sent = {} /\ client'.list \subseteq Transaction
      /\ Network(requests', answers, server, trouble')
  BY <1>2 DEF TypeInv, Network, ClientInv, Client
<1>4. InTime(client'.list, requests')
  BY <1>1, <1>2, <1>3, InTimeTicks
<1>5. \A m \in MidPool : m \in server.seen \/ m = server.by => Live(client'.list, requests', m)
  BY <1>1, <1>2 DEF Reg, Recalls, Tagged, Live, Ages, Like
<1>6. Forgets(server, server, client'.list, requests')
  BY DEF Forgets
<1>7. \A m : Active(client.list, m) => Active(client'.list, m)
  BY <1>2 DEF Active
<1>8. Stems(requests', requests)
  BY <1>2 DEF Stems, Ages
<1>9. Reg(client', requests', answers, server, trouble')
  BY <1>1, <1>2, <1>3, <1>4, <1>5, <1>6, <1>7, <1>8, StemKeeps
<1> QED BY <1>2, <1>3, <1>9 DEF RegInv

\* What the server has forgotten after a step in which nothing arrived at it.
LEMMA ForgetFacts ==
  ASSUME server \in ServerRec, server' = Remembered(server)
  PROVE  /\ Forgets(server, server', client'.list, requests')
         /\ \A m \in MidPool : m \in server'.seen \/ m = server'.by
                                 => Live(client'.list, requests', m)
<1>1. server' = Remember(server, client'.list, requests')
  BY RememberedIs
<1> QED BY <1>1, RememberFacts, ClientAssumption

LEMMA HandleAnswerKeeps ==
  ASSUME RegInv, NEW m \in answers, HandleAnswer(m)
  PROVE  RegInv'
<1>1. /\ TypeInv /\ Reg(client, requests, answers, server, trouble)
      /\ client.list \subseteq Transaction /\ InTime(client.list, requests)
      /\ requests \subseteq Request_ /\ server \in ServerRec
  BY RegFacts
<1>2. /\ TypeInv' /\ Hears(client, client', m)
      /\ requests' \subseteq requests /\ answers' \subseteq answers
      /\ trouble' \in 0 .. trouble /\ server' = Remembered(server)
  BY <1>1, HandleAnswerType
<1>3. /\ ClientInv(client') /\ client'.sent = {} /\ client'.list \subseteq Transaction
      /\ Network(requests', answers', server', trouble') /\ trouble' \in 0 .. MaxTrouble
  BY <1>2 DEF TypeInv, Network, ClientInv, Client
<1>4. \A u \in client'.list : \E t \in client.list :
        u.mid = t.mid /\ u.body = t.body /\ u.counter = t.counter /\ u.retrans >= t.retrans
  BY <1>2 DEF Hears
<1>5. InTime(client'.list, requests')
  BY <1>1, <1>2, <1>3, <1>4, InTimeKeeps
<1>6. /\ Forgets(server, server', client'.list, requests')
      /\ \A i \in MidPool : i \in server'.seen \/ i = server'.by
                              => Live(client'.list, requests', i)
  BY <1>1, <1>2, ForgetFacts
<1>7. ASSUME NEW t \in client.list, t.body.kind = "register", Finishes(t, m)
      PROVE  /\ t.mid \in {m.mid, m.token} /\ t.mid \in server.seen
             /\ m.code = "2.01" => /\ server.binding = m.loc /\ m.loc # NoLoc
                                   /\ server.by = t.mid
  <2>1. t.mid = m.token \/ (t.mid = m.mid /\ m.type = "RST")
    BY <1>1, <1>7, FinishFacts
  <2>2. Active(client.list, t.mid)
    BY <1>7 DEF Active
  <2>3. t.mid \in server.seen
    BY <1>1, <2>1, <2>2 DEF Reg, Answered
  <2>4. m.code = "2.01" => m.type # "RST" /\ m.loc # NoLoc
    BY <1>1 DEF Reg, Network
  <2> QED BY <1>1, <2>1, <2>2, <2>3, <2>4 DEF Reg, Accepted
<1>8. ASSUME NEW q \in requests', q.kind = "register", Active(client.list, q.mid)
      PROVE  q.mid \in server.seen \/ Active(client'.list, q.mid)
  <2>1. PICK t \in client.list : t.mid = q.mid /\ t.body.kind = "register"
    BY <1>8 DEF Active
  <2>2. CASE Finishes(t, m)
    BY <1>7, <2>1, <2>2
  <2>3. CASE ~Finishes(t, m)
    BY <1>2, <2>1, <2>3 DEF Hears, Active
  <2> QED BY <2>2, <2>3
<1>9. ASSUME client'.status \in RegisteredStatus
      PROVE  \/ client.status \in RegisteredStatus /\ client'.location = client.location
             \/ /\ server.binding = client'.location /\ client'.location # NoLoc
                /\ Mine(client, server)
  <2>1. CASE client'.status \in {client.status, "REG_FAILED"} /\ client'.location = client.location
    BY <1>9, <2>1 DEF RegisteredStatus
  <2>2. CASE client.status = "REG_UPDATE_PENDING" /\ client'.location = client.location
    BY <2>2 DEF RegisteredStatus
  <2>3. CASE /\ client'.location = m.loc /\ m.code = "2.01"
             /\ \E t \in Of(client.list, "register") : Finishes(t, m)
    <3>1. PICK t \in client.list : t.body.kind = "register" /\ Finishes(t, m)
      BY <2>3 DEF Of
    <3>2. server.binding = m.loc /\ m.loc # NoLoc /\ server.by = t.mid
      BY <1>7, <2>3, <3>1
    <3> QED BY <2>3, <3>1, <3>2 DEF Mine, Active
  <2> QED BY <1>2, <2>1, <2>2, <2>3 DEF Hears
<1>10. Reg(client', requests', answers', server', trouble')
  BY <1>1, <1>2, <1>3, <1>4, <1>5, <1>6, <1>8, <1>9, ShrinkKeeps
<1> QED BY <1>3, <1>10 DEF RegInv

LEMMA RebootKeeps ==
  ASSUME RegInv, Reboot
  PROVE  RegInv'
<1>1. TypeInv /\ Reg(client, requests, answers, server, trouble) /\ server \in ServerRec
  BY RegFacts
<1>2. /\ TypeInv' /\ client' = ClientInit /\ requests' = {} /\ answers' = answers
      /\ trouble' \in 0 .. trouble /\ server' = Remembered(server)
  BY <1>1, RebootType
<1>3. /\ ClientInv(client') /\ client'.sent = {}
      /\ Network(requests', answers', server', trouble')
      /\ client'.list = {} /\ client'.status \notin RegisteredStatus
  BY <1>2, ClientInitFacts DEF TypeInv, RegisteredStatus
<1>4. InTime(client'.list, requests')
  BY <1>2 DEF InTime
<1>5. /\ Forgets(server, server', client'.list, requests')
      /\ \A i \in MidPool : i \in server'.seen \/ i = server'.by
                              => Live(client'.list, requests', i)
  BY <1>1, <1>2, ForgetFacts
<1>6. /\ requests' \subseteq requests /\ answers' \subseteq answers
      /\ \A u \in client'.list : \E t \in client.list : u.mid = t.mid /\ u.body = t.body
      /\ \A q \in requests' : q.kind = "register" /\ Active(client.list, q.mid)
                                => q.mid \in server.seen \/ Active(client'.list, q.mid)
  BY <1>2, <1>3
<1>7. Reg(client', requests', answers', server', trouble')
  <2> SUFFICES ASSUME NEW d, d = client', NEW srv, srv = server', NEW rq, rq = requests',
                      NEW an, an = answers', NEW tr, tr = trouble'
               PROVE  Reg(d, rq, an, srv, tr)
    OBVIOUS
  <2>1. /\ ClientInv(d) /\ Network(rq, an, srv, tr) /\ InTime(d.list, rq)
        /\ Forgets(server, srv, d.list, rq) /\ rq \subseteq requests /\ an \subseteq answers
        /\ d.status \notin RegisteredStatus
        /\ \A u \in d.list : \E t \in client.list : u.mid = t.mid /\ u.body = t.body
    BY <1>3, <1>4, <1>5, <1>6
  <2>2. /\ \A i \in MidPool : i \in srv.seen \/ i = srv.by => Live(d.list, rq, i)
        /\ \A q \in rq : q.kind = "register" /\ Active(client.list, q.mid)
                           => q.mid \in server.seen \/ Active(d.list, q.mid)
    BY <1>5, <1>6
  <2>3. Reg(client, requests, answers, server, trouble)
    BY <1>1
  <2> QED BY <2>1, <2>2, <2>3, ShrinkKeeps
<1> QED BY <1>3, <1>7 DEF RegInv

LEMMA LossKeeps ==
  ASSUME RegInv, Lose \/ LinkBreaks
  PROVE  RegInv'
<1>1. /\ TypeInv /\ Reg(client, requests, answers, server, trouble)
      /\ client.list \subseteq Transaction /\ InTime(client.list, requests)
      /\ trouble \in 0 .. MaxTrouble /\ server \in ServerRec
  BY RegFacts
<1>2. /\ TypeInv' /\ UNCHANGED client /\ requests' \subseteq requests /\ answers' \subseteq answers
      /\ trouble' \in 0 .. trouble /\ server' = Remembered(server)
  BY <1>1, LossType
<1>3. /\ ClientInv(client') /\ client'.sent = {}
      /\ Network(requests', answers', server', trouble') /\ trouble' \in 0 .. MaxTrouble
  BY <1>2 DEF TypeInv, Network
<1>4. InTime(client'.list, requests')
  BY <1>1, <1>2 DEF InTime
<1>5. /\ Forgets(server, server', client'.list, requests')
      /\ \A i \in MidPool : i \in server'.seen \/ i = server'.by
                              => Live(client'.list, requests', i)
  BY <1>1, <1>2, ForgetFacts
<1>6. Reg(client', requests', answers', server', trouble')
  BY <1>1, <1>2, <1>3, <1>4, <1>5, ShrinkKeeps
<1> QED BY <1>3, <1>6 DEF RegInv

\* The requests of a client that is stopped are its deregistrations, with a new mID.
LEMMA lwm2m_closeKeeps ==
  ASSUME RegInv, lwm2m_close
  PROVE  RegInv'
<1>1. /\ TypeInv /\ Reg(client, requests, answers, server, trouble) /\ server \in ServerRec
      /\ client.list \subseteq Transaction /\ requests \subseteq Request_
  BY RegFacts
<1>2. /\ TypeInv' /\ client'.list = {} /\ client'.status = "DEREGISTERED"
      /\ answers' = answers /\ trouble' \in 0 .. trouble /\ server' = Remembered(server)
  BY <1>1, lwm2m_closeType
<1>3. PICK m \in FreeMids : \A q \in requests' : q.mid = m /\ q.kind = "deregister"
  BY <1>1, lwm2m_closeType
<1>4. /\ ClientInv(client') /\ client'.sent = {}
      /\ Network(requests', answers', server', trouble') /\ requests' \subseteq Request_
      /\ client'.status \notin RegisteredStatus
  BY <1>2 DEF TypeInv, Network, RegisteredStatus
<1>5. /\ Forgets(server, server', client'.list, requests')
      /\ \A i \in MidPool : i \in server'.seen \/ i = server'.by
                              => Live(client'.list, requests', i)
  BY <1>1, <1>2, ForgetFacts
<1>6. OneKind(client'.list, requests')
  BY <1>2, <1>3 DEF OneKind, Tagged
<1>7. Recalls(client'.list, requests', server')
  <2> SUFFICES ASSUME NEW i \in MidPool, i \in server'.seen \/ i = server'.by
               PROVE  FALSE
    BY DEF Recalls
  <2>1. i = m
    BY <1>2, <1>3, <1>5 DEF Live
  <2>2. i \in server.seen \/ i = server.by
    BY <1>5, ClientAssumption DEF Forgets
  <2>3. Live(client.list, requests, i)
    BY <1>1, <2>2 DEF Reg, Recalls, Tagged, Live
  <2> QED BY <1>3, <2>1, <2>3 DEF FreeMids, TravellingMids, Mids, Live
<1>8. /\ InTime(client'.list, requests') /\ Decided(client'.list, requests', server)
      /\ \A i : ~Active(client'.list, i)
  BY <1>2, <1>3 DEF InTime, Decided, Active
<1>9. ~Mine(client', server) /\ Same(client', requests', server)
  BY <1>4, <1>8 DEF Mine, Same
<1>10. \A q \in requests' : q.kind = "deregister" /\ Mine(client', server)
                              => \E r \in requests : Like(q, r)
  BY <1>9
<1>11. Reg(client', requests', answers', server', trouble')
  <2> SUFFICES ASSUME NEW d, d = client', NEW srv, srv = server', NEW rq, rq = requests',
                      NEW tr, tr = trouble'
               PROVE  Reg(d, rq, answers, srv, tr)
    BY <1>2
  <2>1. /\ ClientInv(d) /\ Network(rq, answers, srv, tr) /\ InTime(d.list, rq)
        /\ OneKind(d.list, rq) /\ Recalls(d.list, rq, srv) /\ Decided(d.list, rq, server)
        /\ Forgets(server, srv, d.list, rq) /\ Same(d, rq, server)
    BY <1>2, <1>4, <1>5, <1>6, <1>7, <1>8, <1>9
  <2>2. /\ ~Mine(d, server) /\ \A i \in MidPool : ~Active(d.list, i)
        /\ \A q \in rq : q.kind = "deregister" /\ Mine(d, server)
                           => \E r \in requests : Like(q, r)
    BY <1>8, <1>9, <1>10
  <2>3. Reg(client, requests, answers, server, trouble)
    BY <1>1
  <2> QED BY <2>1, <2>2, <2>3, KeepFacts
<1> QED BY <1>4, <1>11 DEF RegInv

----------------------------------------------------------------------------
\* The steps of the server: first what it decides and answers on a message that is still
\* under way, then what it forgets when the message is not.
LEMMA DealtKeeps ==
  ASSUME RegInv, NEW q \in requests, NEW srv, NEW code, NEW loc, Deals(q, srv, code, loc),
         server' \in {srv, Remembered(srv)},
         Forgets(srv, server', client.list, requests'),
         \A m \in MidPool : m \in server'.seen \/ m = server'.by
                              => Live(client.list, requests', m),
         server.seen \subseteq srv.seen, Recalls(client.list, requests, srv),
         Active(client.list, q.mid) => q.mid \in srv.seen,
         Accepted(client.list, answers', srv), Leaving(client, requests, srv),
         Same(client, requests, srv)
  PROVE  RegInv'
<1>1. /\ TypeInv /\ Reg(client, requests, answers, server, trouble)
      /\ client.list \subseteq Transaction /\ InTime(client.list, requests)
      /\ trouble \in 0 .. MaxTrouble
  BY RegFacts
<1>2. /\ TypeInv' /\ trouble' \in 0 .. trouble
  BY <1>1, DealsType
<1>3. /\ UNCHANGED client /\ requests' \subseteq requests
      /\ \A a \in answers' : a \in answers \/ Says(a, q, code, loc)
      /\ srv \in ServerRec /\ (code = "2.01" => loc # NoLoc)
      /\ srv.by # NoMid => srv.binding # NoLoc
  BY DEF Deals
<1>4. Network(requests, answers', srv, trouble)
  <2>1. Network(requests, answers, server, trouble)
    BY <1>1 DEF Reg
  <2> QED BY <1>1, <1>3, <2>1, NetworkFacts
<1>5. Answered(client.list, answers', srv)
  <2> SUFFICES ASSUME NEW a \in answers', NEW m \in {a.mid, a.token}, Active(client.list, m)
               PROVE  m \in srv.seen
    BY DEF Answered
  <2>1. CASE a \in answers
    BY <1>1, <2>1 DEF Reg, Answered
  <2>2. CASE Says(a, q, code, loc)
    <3>1. m \in MidPool
      BY <1>1 DEF Active, Transaction
    <3>2. m = q.mid
      BY <2>2, <3>1, ClientAssumption DEF Says
    <3> QED BY <3>2
  <2> QED BY <1>3, <2>1, <2>2
<1>6. Decided(client.list, requests, srv)
  BY <1>1 DEF Reg, Decided
<1>7. Reg(client, requests, answers', srv, trouble)
  BY <1>1, <1>4, <1>5, <1>6 DEF Reg
<1>8. /\ ClientInv(client) /\ client'.sent = {} /\ client' = client /\ client.sent = {}
      /\ Network(requests', answers', server', trouble') /\ trouble' \in 0 .. MaxTrouble
  BY <1>2, <1>3 DEF TypeInv, Network
<1>9. InTime(client.list, requests')
  BY <1>1, <1>3 DEF InTime
<1>10. Reg(client, requests', answers', server', trouble')
  BY <1>3, <1>7, <1>8, <1>9, ShrinkKeeps
<1> QED BY <1>8, <1>10 DEF RegInv

\* What the server has forgotten after it dealt with a message.
LEMMA DealtForgets ==
  ASSUME NEW srv \in ServerRec, server' = Remembered(srv), UNCHANGED client
  PROVE  /\ Forgets(srv, server', client.list, requests')
         /\ \A m \in MidPool : m \in server'.seen \/ m = server'.by
                                 => Live(client.list, requests', m)
<1>1. server' = Remember(srv, client.list, requests')
  BY RememberedIs
<1> QED BY <1>1, RememberFacts, ClientAssumption

\* A server that forgets nothing has nothing to forget when the message was no registration.
LEMMA NothingForgotten ==
  ASSUME RegInv, NEW q \in requests, q.kind # "register", Arrives(q), UNCHANGED server
  PROVE  /\ Forgets(server, server', client.list, requests')
         /\ \A m \in MidPool : m \in server'.seen \/ m = server'.by
                                 => Live(client.list, requests', m)
<1>1. Recalls(client.list, requests, server)
  BY RegFacts DEF Reg
<1>2. requests \ {q} \subseteq requests'
  BY DEF Arrives, Delivered
<1>3. ASSUME NEW m \in MidPool, m \in server.seen \/ m = server.by
      PROVE  Live(client.list, requests', m)
  BY <1>1, <1>2, <1>3 DEF Recalls, Tagged, Live
<1> QED BY <1>3 DEF Forgets

\* A client that has a registration the server has not decided on waits for it.
LEMMA UndecidedFacts ==
  ASSUME RegInv, NEW q \in requests, Undecided(q)
  PROVE  /\ server.binding = NoLoc
            \/ (q.mid \notin server.seen /\ Active(client.list, q.mid)
                  /\ client.status \notin RegisteredStatus)
         /\ q.kind = "register"
<1>1. /\ Reg(client, requests, answers, server, trouble)
  BY RegFacts
<1>2. q.kind = "register" /\ (q.mid \notin server.seen \/ server.binding = NoLoc)
  BY DEF Undecided
<1>3. ASSUME q.mid \notin server.seen
      PROVE  Active(client.list, q.mid) /\ client.status \notin RegisteredStatus
  <2>1. Active(client.list, q.mid)
    BY <1>1, <1>2, <1>3 DEF Reg, Decided
  <2>2. client.status = "REG_PENDING"
    BY <1>1, <2>1 DEF Reg, ClientInv, Served, Of, Active
  <2> QED BY <2>1, <2>2 DEF RegisteredStatus
<1> QED BY <1>2, <1>3

LEMMA AcceptsKeeps ==
  ASSUME RegInv, NEW q \in requests, ServerAccepts(q)
  PROVE  RegInv'
<1>1. /\ TypeInv /\ Reg(client, requests, answers, server, trouble)
      /\ client.list \subseteq Transaction /\ server \in ServerRec /\ q \in Request_
  BY RegFacts
<1>2. PICK loc \in FreeLocs :
        /\ Deals(q, Accepts(server, q, loc), "2.01", loc)
        /\ server' = Remembered(Accepts(server, q, loc))
  BY <1>1, AcceptsDeals
<1> DEFINE srv == Accepts(server, q, loc)
<1>3. /\ srv \in ServerRec /\ srv.binding = loc /\ srv.by = q.mid
      /\ srv.seen = server.seen \cup {q.mid}
  <2>1. loc \in Loc
    BY <1>2 DEF FreeLocs, Loc
  <2> QED BY <1>1, <2>1, AcceptsFacts
<1>4. /\ Deals(q, srv, "2.01", loc) /\ server' = Remembered(srv) /\ UNCHANGED client
      /\ \A a \in answers' : a \in answers \/ Says(a, q, "2.01", loc)
  BY <1>2 DEF Deals
<1> HIDE DEF srv
<1>5. /\ \/ server.binding = NoLoc
         \/ /\ q.mid \notin server.seen /\ Active(client.list, q.mid)
            /\ client.status \notin RegisteredStatus
      /\ q.kind = "register"
  BY UndecidedFacts DEF ServerAccepts
<1>6. Recalls(client.list, requests, srv)
  BY <1>1, <1>3, <1>5 DEF Reg, Recalls, Tagged
<1>7. Accepted(client.list, answers', srv)
  <2>1. ASSUME NEW a \in answers, a.code = "2.01", Active(client.list, a.token)
        PROVE  FALSE
    <3>1. server.binding = a.loc /\ a.token \in server.seen /\ a.loc # NoLoc
      BY <1>1, <2>1 DEF Reg, Accepted, Answered, Network
    <3>2. Active(client.list, q.mid) => a.token = q.mid
      BY <1>1, <2>1 DEF Reg, ClientInv, Served, Of, Active
    <3> QED BY <1>5, <3>1, <3>2
  <2>2. \A a : Says(a, q, "2.01", loc) /\ a.code = "2.01"
                 => srv.binding = a.loc /\ srv.by = a.token
    BY <1>3 DEF Says
  <2> QED BY <1>4, <2>1, <2>2 DEF Accepted
<1>8. Leaving(client, requests, srv)
  BY <1>2, <1>3 DEF Leaving, FreeLocs
<1>9. Same(client, requests, srv)
  BY <1>1, <1>5 DEF Reg, Same
<1> QED BY <1>3, <1>4, <1>6, <1>7, <1>8, <1>9, DealtKeeps, DealtForgets

LEMMA RefusesKeeps ==
  ASSUME RegInv, NEW q \in requests, ServerRefuses(q)
  PROVE  RegInv'
<1>1. /\ TypeInv /\ Reg(client, requests, answers, server, trouble)
      /\ client.list \subseteq Transaction /\ server \in ServerRec /\ q \in Request_
  BY RegFacts
<1>2. PICK code \in Refusal :
        /\ Deals(q, Refuses(server, q, code), code, NoLoc)
        /\ server' = Remembered(Refuses(server, q, code))
  BY <1>1, RefusesDeals
<1> DEFINE srv == Refuses(server, q, code)
<1>3. /\ srv \in ServerRec /\ srv.binding = server.binding /\ srv.by = server.by
      /\ srv.seen = server.seen \cup {q.mid}
  BY <1>1, RefusesFacts
<1>4. /\ Deals(q, srv, code, NoLoc) /\ server' = Remembered(srv) /\ UNCHANGED client
      /\ \A a \in answers' : a \in answers \/ Says(a, q, code, NoLoc)
      /\ code # "2.01"
  BY <1>2 DEF Deals, Refusal
<1> HIDE DEF srv
<1>5. q.kind = "register"
  BY DEF ServerRefuses, Undecided
<1>6. Recalls(client.list, requests, srv)
  BY <1>1, <1>3, <1>5 DEF Reg, Recalls, Tagged
<1>7. Accepted(client.list, answers', srv)
  BY <1>1, <1>3, <1>4 DEF Reg, Accepted, Says
<1>8. Leaving(client, requests, srv) /\ Same(client, requests, srv)
  BY <1>1, <1>3 DEF Reg, Leaving, Same, Mine
<1> QED BY <1>3, <1>4, <1>6, <1>7, <1>8, DealtKeeps, DealtForgets

LEMMA RepeatsKeeps ==
  ASSUME RegInv, NEW q \in requests, ServerRepeats(q)
  PROVE  RegInv'
<1>1. /\ TypeInv /\ Reg(client, requests, answers, server, trouble) /\ server \in ServerRec
  BY RegFacts
<1>2. server' = Remembered(server)
  BY <1>1, RepeatsDeals
<1>3. PICK code, loc :
        Deals(q, server, code, loc) /\ (code = "2.01" => q.mid = server.by /\ loc = server.binding)
  BY <1>1, RepeatsDeals
<1>4. UNCHANGED client /\ \A a \in answers' : a \in answers \/ Says(a, q, code, loc)
  BY <1>3 DEF Deals
<1>5. q.mid \in server.seen
  BY DEF ServerRepeats, Undecided
<1>6. Accepted(client.list, answers', server)
  BY <1>1, <1>3, <1>4 DEF Reg, Accepted, Says
<1>7. /\ Recalls(client.list, requests, server)
      /\ Leaving(client, requests, server) /\ Same(client, requests, server)
  BY <1>1 DEF Reg
<1> QED BY <1>1, <1>2, <1>3, <1>4, <1>5, <1>6, <1>7, DealtKeeps, DealtForgets

\* A mID that something else than a registration is under way with.
LEMMA OtherKind ==
  ASSUME RegInv, NEW q \in requests, q.kind # "register"
  PROVE  ~Active(client.list, q.mid)
<1>1. OneKind(client.list, requests) /\ requests \subseteq Request_
  BY RegFacts DEF Reg
<1>2. q.mid \in MidPool /\ q.kind \in Kind /\ "register" \in Kind
  BY <1>1 DEF Request_, Kind
<1>3. Tagged(client.list, requests, q.mid, q.kind)
  BY DEF Tagged
<1>4. Active(client.list, q.mid) => Tagged(client.list, requests, q.mid, "register")
  BY DEF Active, Tagged
<1> QED BY <1>1, <1>2, <1>3, <1>4 DEF OneKind

\* The server answers an update, or a deregistration it knows nothing of.
LEMMA AnswersOnly ==
  ASSUME RegInv, NEW q \in requests, q.kind # "register", Arrives(q), UNCHANGED server,
         NEW code, code # "2.01", Deals(q, server, code, NoLoc)
  PROVE  RegInv'
<1>1. Reg(client, requests, answers, server, trouble)
  BY RegFacts
<1>2. \A a \in answers' : a \in answers \/ Says(a, q, code, NoLoc)
  BY DEF Deals
<1>3. Accepted(client.list, answers', server)
  BY <1>1, <1>2 DEF Reg, Accepted, Says
<1>4. /\ Recalls(client.list, requests, server)
      /\ Leaving(client, requests, server) /\ Same(client, requests, server)
  BY <1>1 DEF Reg
<1> QED BY <1>3, <1>4, DealtKeeps, NothingForgotten, OtherKind

LEMMA UpdatesKeeps ==
  ASSUME RegInv, NEW q \in requests, ServerUpdates(q)
  PROVE  RegInv'
<1>1. q.kind # "register" /\ Arrives(q) /\ UNCHANGED server
  BY DEF ServerUpdates
<1>2. \E code : Deals(q, server, code, NoLoc) /\ code # "2.01"
  BY RegFacts, UpdatesDeals
<1> QED BY <1>1, <1>2, AnswersOnly

LEMMA DeregistersKeeps ==
  ASSUME RegInv, NEW q \in requests, ServerDeregisters(q)
  PROVE  RegInv'
<1>1. /\ TypeInv /\ Reg(client, requests, answers, server, trouble)
      /\ client.list \subseteq Transaction
  BY RegFacts
<1>2. q.kind = "deregister" /\ Arrives(q)
  BY DEF ServerDeregisters
<1>3. PICK srv, code :
        /\ Deals(q, srv, code, NoLoc) /\ code # "2.01" /\ server' \in {srv, Remembered(srv)}
        /\ \/ srv = server /\ server' = server
           \/ /\ q.loc = server.binding /\ server' = Remembered(srv)
              /\ srv.binding = NoLoc /\ srv.by = NoMid /\ srv.seen = server.seen
  BY <1>1, DeregistersDeals
<1>4. CASE srv = server /\ server' = server
  BY <1>2, <1>3, <1>4, AnswersOnly
<1>5. CASE /\ q.loc = server.binding /\ server' = Remembered(srv)
           /\ srv.binding = NoLoc /\ srv.by = NoMid /\ srv.seen = server.seen
  <2>1. ~Mine(client, server)
    BY <1>1, <1>2, <1>5 DEF Reg, Leaving
  <2>2. \A a \in answers : a.code = "2.01" => ~Active(client.list, a.token)
    BY <1>1, <2>1 DEF Reg, Accepted, Mine
  <2>3. /\ UNCHANGED client /\ srv \in ServerRec
        /\ \A a \in answers' : a \in answers \/ Says(a, q, code, NoLoc)
    BY <1>3 DEF Deals
  <2>4. Accepted(client.list, answers', srv)
    BY <1>3, <2>2, <2>3 DEF Accepted, Says
  <2>5. Recalls(client.list, requests, srv)
    BY <1>1, <1>5, ClientAssumption DEF Reg, Recalls
  <2>6. ~Active(client.list, NoMid)
    BY <1>1, ClientAssumption DEF Active, Transaction
  <2>7. Leaving(client, requests, srv) /\ Same(client, requests, srv)
    BY <1>5, <2>1, <2>6 DEF Leaving, Same, Mine
  <2>8. ~Active(client.list, q.mid)
    BY <1>2, OtherKind
  <2>9. /\ Forgets(srv, server', client.list, requests')
        /\ \A m \in MidPool : m \in server'.seen \/ m = server'.by
                                => Live(client.list, requests', m)
    BY <1>5, <2>3, DealtForgets
  <2> QED BY <1>3, <1>5, <2>4, <2>5, <2>7, <2>8, <2>9, DealtKeeps
<1> QED BY <1>3, <1>4, <1>5

\* The server forgets its registration while nothing is under way.
LEMMA ForgetsKeeps ==
  ASSUME RegInv, ServerForgets
  PROVE  RegInv'
<1>1. /\ TypeInv /\ Reg(client, requests, answers, server, trouble)
      /\ client.list \subseteq Transaction
  BY RegFacts
<1>2. /\ server' = NewServer /\ UNCHANGED <<client, requests, answers, trouble>>
      /\ requests = {} /\ answers = {}
  BY DEF ServerForgets
<1>3. TypeInv'
  BY <1>1, ForgetsType
<1>4. NewServer.binding = NoLoc /\ NewServer.by = NoMid /\ NewServer.seen = {}
  BY DEF NewServer
<1>5. Recalls(client.list, requests, NewServer)
  BY <1>4, ClientAssumption DEF Recalls
<1>6. /\ Decided(client.list, requests, NewServer) /\ Answered(client.list, answers, NewServer)
      /\ Accepted(client.list, answers, NewServer) /\ Leaving(client, requests, NewServer)
  BY <1>2 DEF Decided, Answered, Accepted, Leaving
<1>7. Same(client, requests, NewServer)
  BY <1>2, <1>4 DEF Same
<1>8. Network(requests, answers, NewServer, trouble) /\ client'.sent = {}
  BY <1>2, <1>3 DEF TypeInv
<1>9. Reg(client, requests, answers, NewServer, trouble)
  BY <1>1, <1>5, <1>6, <1>7, <1>8 DEF Reg
<1> QED BY <1>2, <1>8, <1>9 DEF RegInv

----------------------------------------------------------------------------
LEMMA InitReg == Init => RegInv
<1> SUFFICES ASSUME Init PROVE RegInv
  OBVIOUS
<1>1. TypeInv
  BY InitType
<1>2. /\ client = ClientInit /\ requests = {} /\ answers = {} /\ server = NewServer
  BY DEF Init
<1>3. /\ client.list = {} /\ client.sent = {} /\ client.status \notin RegisteredStatus
  BY <1>2, ClientInitFacts DEF RegisteredStatus
<1>4. server.by = NoMid /\ server.seen = {}
  BY <1>2 DEF NewServer
<1>5. /\ OneKind(client.list, requests) /\ InTime(client.list, requests)
      /\ Decided(client.list, requests, server) /\ Answered(client.list, answers, server)
      /\ Accepted(client.list, answers, server) /\ Leaving(client, requests, server)
  BY <1>2, <1>3 DEF OneKind, Tagged, InTime, Decided, Answered, Accepted, Leaving
<1>6. Recalls(client.list, requests, server) /\ Same(client, requests, server)
  BY <1>3, <1>4, ClientAssumption DEF Recalls, Same
<1> QED BY <1>1, <1>3, <1>5, <1>6 DEF RegInv, Reg, TypeInv

LEMMA NextReg ==
  ASSUME Timely, RegInv, [Next]_vars
  PROVE  RegInv'
<1>1. CASE lwm2m_step
  BY <1>1, lwm2m_stepKeeps
<1>2. CASE lwm2m_stepFails \/ ObjectsChange
  BY <1>2, FieldsKeeps
<1>3. CASE lwm2m_close
  BY <1>3, lwm2m_closeKeeps
<1>4. CASE Reboot
  BY <1>4, RebootKeeps
<1>5. CASE Tick
  BY <1>5, TickKeeps
<1>6. CASE \E m \in answers : HandleAnswer(m)
  BY <1>6, HandleAnswerKeeps
<1>7. CASE \E q \in requests : ServerAccepts(q)
  BY <1>7, AcceptsKeeps
<1>8. CASE \E q \in requests : ServerRefuses(q)
  BY <1>8, RefusesKeeps
<1>9. CASE \E q \in requests : ServerRepeats(q)
  BY <1>9, RepeatsKeeps
<1>10. CASE \E q \in requests : ServerUpdates(q)
  BY <1>10, UpdatesKeeps
<1>11. CASE \E q \in requests : ServerDeregisters(q)
  BY <1>11, DeregistersKeeps
<1>12. CASE ServerForgets
  BY <1>12, ForgetsKeeps
<1>13. CASE Lose \/ LinkBreaks
  BY <1>13, LossKeeps
<1>14. CASE LinkReturns \/ UNCHANGED vars
  <2>1. UNCHANGED <<client, requests, answers, server, trouble>>
    BY <1>14 DEF LinkReturns, vars
  <2>2. RegInv' <=> RegInv
    BY <2>1 DEF RegInv
  <2> QED BY <2>2
<1> QED BY <1>1, <1>2, <1>3, <1>4, <1>5, <1>6, <1>7, <1>8, <1>9, <1>10, <1>11, <1>12,
           <1>13, <1>14 DEF Next

\* The registration, when each request arrives or is lost within the wait that follows the
\* last copy, less the lag of the agent task (Timely): what the server has registered,
\* decided and answered agrees with what the client waits for and takes itself for
\* (registration.c, transaction.c), through losses, repetitions, restarts and refusals of any
\* number (MaxTrouble) and answers that take any time.
THEOREM RegistrationInvariance == Timely => (Spec => []RegInv)
<1> SUFFICES ASSUME Timely PROVE Spec => []RegInv
  OBVIOUS
<1>1. RegInv /\ [Next]_vars => RegInv'
  BY NextReg
<1> QED BY <1>1, InitReg, PTL DEF Spec

LEMMA RegImplies == RegInv => SameRegistration
<1> SUFFICES ASSUME RegInv, client.status \in RegisteredStatus
             PROVE  server.binding \in {client.location, NoLoc}
  BY DEF SameRegistration
<1> QED BY RegFacts DEF Reg, Same

\* A client that takes itself for registered uses the registration the server has, if the
\* server has any (registration.c), when each request arrives or is lost before the client
\* can have given it up (Timely).
THEOREM RegistrationShared == Timely => (Spec => []SameRegistration)
<1>1. RegInv => SameRegistration
  BY RegImplies
<1> QED BY <1>1, RegistrationInvariance, PTL
=============================================================================
