--------------------------- MODULE CoapTransaction --------------------------
(***************************************************************************)
(* The CoAP transactions of the LwM2M core (core/transaction.c): one record *)
(* for every confirmable message that waits for its acknowledgement or its  *)
(* response, and what a retransmission and a received message do to it.     *)
(* Times are seconds from now: retrans_time and response_timeout of the     *)
(* code less the current time.  A token names one transaction, as the mID   *)
(* does: transaction_new puts the mID into it.                              *)
(***************************************************************************)
EXTENDS Integers

CONSTANTS
  COAP_RESPONSE_TIMEOUT,  \* seconds before the first retransmission
  COAP_MAX_RETRANSMIT,    \* retransmissions of a message
  NoMid                   \* the mID or the token of a message that has none of ours

ASSUME CoapAssumption ==
  COAP_RESPONSE_TIMEOUT \in Nat \ {0} /\ COAP_MAX_RETRANSMIT \in Nat

COAP_MAX_TRANSMIT_WAIT ==
  (COAP_RESPONSE_TIMEOUT * (2 ^ (COAP_MAX_RETRANSMIT + 1) - 1) * 3) \div 2

Status == {"NOT_SENT", "WAIT_RESPONSE", "TIME_OUT", "RECV_ACK", "RECV_RST", "UNAUTHORIZED"}

\* A new transaction; body is what its message says and whom its callback serves.
transaction_new(mid, isRequest, body) ==
  [mid |-> mid, request |-> isRequest, body |-> body, status |-> "NOT_SENT",
   counter |-> 0, retrans |-> 0, wait |-> 0]

First(t) ==
  IF t.counter > 0 THEN t
  ELSE [t EXCEPT !.counter = 1, !.retrans = COAP_RESPONSE_TIMEOUT,
                 !.wait = IF t.request THEN COAP_MAX_TRANSMIT_WAIT ELSE 0]

Retries(t) == t.status \notin {"TIME_OUT", "RECV_RST"}

\* Does transaction_send put the message on the wire?
Transmits(t) == Retries(t) /\ First(t).counter <= COAP_MAX_RETRANSMIT + 1

Exhausted(t) == Retries(t) /\ ~Transmits(t)

\* The seconds by which a retransmission puts off the next one: they double.
Backoff(t) == IF t.counter = 0 THEN 0 ELSE COAP_RESPONSE_TIMEOUT * 2 ^ (t.counter - 1)

\* The transaction after transaction_send, when it is still there.
Sent(t) ==
  IF Transmits(t)
  THEN [First(t) EXCEPT !.status = "WAIT_RESPONSE", !.retrans = @ + Backoff(t),
                        !.counter = @ + 1]
  ELSE IF Exhausted(t) THEN [t EXCEPT !.status = "TIME_OUT"] ELSE t

\* Seeded fault: only a request is removed when its retransmissions are used up.
EndsUnansweredRequest(t) ==
  /\ Exhausted(t) \/ Sent(t).status \in {"RECV_ACK", "RECV_RST"}
  /\ t.request /\ t.wait <= 0

\* Does transaction_send remove it?  A request only when its response is overdue.
EndsUnanswered(t) ==
  /\ Exhausted(t) \/ Sent(t).status \in {"RECV_ACK", "RECV_RST"}
  /\ t.request => t.wait <= 0

\* One second later.
Elapse(t) ==
  [t EXCEPT !.retrans = IF Retries(t) THEN @ - 1 ELSE @,
            !.wait = IF @ > 0 THEN @ - 1 ELSE @]
----------------------------------------------------------------------------
\* transaction_handleResponse: the loop over the transactions for message m.
\* Seeded fault: an acknowledgement is taken for any transaction.
MidMatchesAny(t, m) == t.status \notin {"RECV_ACK", "RECV_RST"} /\ m.type \in {"ACK", "RST"}

MidMatches(t, m) ==
  /\ t.status \notin {"RECV_ACK", "RECV_RST"}
  /\ t.mid = m.mid /\ m.type \in {"ACK", "RST"}

Received(t, m) ==
  IF MidMatches(t, m)
  THEN [t EXCEPT !.status = IF m.type = "ACK" THEN "RECV_ACK" ELSE "RECV_RST"] ELSE t

\* Seeded fault: the token of a response is not compared.
prv_checkFinishedByAny(t, m) == IF t.request THEN m.token # NoMid ELSE t.status = "RECV_ACK"

prv_checkFinished(t, m) == IF t.request THEN t.mid = m.token ELSE t.status = "RECV_ACK"

Hits(t, m) == MidMatches(t, m) \/ prv_checkFinished(Received(t, m), m)

\* The transactions that take m: at most one, as the mIDs differ.
Taking(list, m) == {t \in list : Hits(t, m)}

Resets(t, m) == MidMatches(t, m) /\ m.type = "RST"

Finishes(t, m) == Resets(t, m) \/ prv_checkFinished(Received(t, m), m)

\* Denied for authentication: the transaction is kept and its message sent again.
Denied(t, m) ==
  /\ Finishes(t, m) /\ ~Resets(t, m)
  /\ m.code = "4.01" /\ COAP_MAX_RETRANSMIT > t.counter

AfterDenial(t) ==
  [t EXCEPT !.status = "UNAUTHORIZED", !.retrans = @ + COAP_RESPONSE_TIMEOUT, !.wait = 0]

----------------------------------------------------------------------------
\* transactionList as the set of its transactions: no two have the same mID, so that
\* nothing depends on the order in which the code walks the list.
Without(list, t) == {u \in list : u.mid # t.mid}

\* LWM2M_LIST_ADD of a transaction, or of what an old one has become.
ListPut(list, t) == Without(list, t) \cup {t}

Mids(list) == {t.mid : t \in list}
=============================================================================
