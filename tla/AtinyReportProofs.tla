------------------------- MODULE AtinyReportProofs -------------------------
(***************************************************************************)
(* Proofs about the reports of AtinyReport: where a report is, what its     *)
(* callback is told and when, for any number of reports, any length of the  *)
(* line, any timing and any network.                                        *)
(***************************************************************************)
EXTENDS AtinyReport, WellFoundedInduction, SequenceTheorems, TLAPS

----------------------------------------------------------------------------
\* The least element of a set of numbers, and the search in a list.

LEMMA LeastNumber ==
  ASSUME NEW S, S \subseteq Nat, S # {}
  PROVE  Min(S) \in S
<1>1. PICK p \in S : \A q \in S : <<q, p>> \notin OpToRel(<, Nat)
  BY WFMin, NatLessThanWellFounded, Zenon
<1>2. \A q \in S : ~ (q < p)
  BY <1>1, Zenon DEF OpToRel
<1>3. \A q \in S : p <= q
  BY <1>2
<1> QED BY <1>3 DEF Min

----------------------------------------------------------------------------
\* The types.

Transaction ==
  [mid : Report, request : {FALSE}, body : Report, status : Status,
   counter : Nat, retrans : Int, wait : Int]

Observation == [uri : {"App", "Other"}, active : BOOLEAN, lastMid : Report \cup {NoMid}]

Agent ==
  [pc : {"observe", "poll", "stuck", "ended"}, rpt_list : Seq(Report), rpt_node_cnt : Int,
   observed : Seq(Observation), list : SUBSET Transaction, exists : BOOLEAN,
   told : [Report -> Outcome]]

ServerReply == [type : {"ACK", "RST"}, mid : Report, token : {NoMid}, code : {"0.00"}]

\* A transaction that is still there waits for its acknowledgement.
Waits(list) == \A t \in list : t.status = "WAIT_RESPONSE"

UniqueMids(list) == \A t, u \in list : t.mid = u.mid => t = u

Line(a) ==
  /\ a.pc \notin {"stuck", "ended"} => a.rpt_node_cnt = Len(a.rpt_list)
  /\ Len(a.rpt_list) <= MAX_BUFFER_REPORT_CNT
  /\ IsInjective(a.rpt_list) /\ Range(a.rpt_list) \cap Mids(a.list) = {}

AgentInv(a) == a \in Agent /\ Waits(a.list) /\ UniqueMids(a.list) /\ Line(a)

\* The inductive invariant of the reports.
ReportInv == AgentInv(atiny) /\ wire \subseteq Report /\ replies \subseteq ServerReply

\* It says more than the property.
LEMMA InvImplies == ReportInv => EachInOnePlace
BY DEF ReportInv, AgentInv, Line, EachInOnePlace, Queued, Outstanding, Over, UniqueMids

LEMMA FindFacts ==
  ASSUME NEW a \in Agent, NEW uri
  PROVE  /\ prv_findObserved(a, uri) \in DOMAIN a.observed \cup {0}
         /\ prv_findObserved(a, uri) # 0 <=> \E i \in DOMAIN a.observed : a.observed[i].uri = uri
<1> DEFINE I == {i \in 1 .. Len(a.observed) : a.observed[i].uri = uri}
<1>1. DOMAIN a.observed = 1 .. Len(a.observed) /\ Len(a.observed) \in Nat
  BY DEF Agent
<1>2. prv_findObserved(a, uri) = IF I # {} THEN Min(I) ELSE 0
  BY DEF prv_findObserved, SelectInSeq
<1>3. I \subseteq Nat
  BY <1>1
<1>4. CASE I = {}
  BY <1>1, <1>2, <1>4
<1>5. CASE I # {}
  <2>1. Min(I) \in I
    BY <1>3, <1>5, LeastNumber
  <2> QED BY <1>1, <1>2, <1>5, <2>1
<1> QED BY <1>4, <1>5

LEMMA LatestFacts ==
  ASSUME NEW a \in Agent, NEW mid
  PROVE  LatestOf(a, mid) \in DOMAIN a.observed \cup {0}
<1> DEFINE I == {i \in 1 .. Len(a.observed) : a.observed[i].lastMid = mid}
<1>1. DOMAIN a.observed = 1 .. Len(a.observed) /\ Len(a.observed) \in Nat
  BY DEF Agent
<1>2. LatestOf(a, mid) = IF I # {} THEN Min(I) ELSE 0
  BY DEF LatestOf, SelectInSeq
<1>3. I \subseteq Nat
  BY <1>1
<1> HIDE DEF I
<1>4. I # {} => Min(I) \in I
  BY <1>3, LeastNumber
<1> USE DEF I
<1> QED BY <1>1, <1>2, <1>4

LEMMA RemoveFacts ==
  ASSUME NEW S, NEW q \in Seq(S), NEW i \in DOMAIN q
  PROVE  /\ RemoveAt(q, i) \in Seq(S) 
         /\ \A j \in DOMAIN q : j # i => \E k \in DOMAIN RemoveAt(q, i) : RemoveAt(q, i)[k] = q[j]
<1> DEFINE b == SubSeq(q, 1, i - 1)
           c == SubSeq(q, i + 1, Len(q))
<1>1. i \in 1 .. Len(q) /\ Len(q) \in Nat
  OBVIOUS
<1>2. b \in Seq(S) /\ Len(b) = i - 1 /\ \A k \in 1 .. i - 1 : b[k] = q[k]
  BY <1>1, SubSeqProperties
<1>3. c \in Seq(S) /\ Len(c) = Len(q) - i /\ \A k \in 1 .. Len(q) - i : c[k] = q[i + k]
  BY <1>1, SubSeqProperties
<1> HIDE DEF b, c
<1>4. RemoveAt(q, i) = b \o c
  BY DEF RemoveAt, b, c
<1> DEFINE d == b \o c
<1>5. /\ d \in Seq(S) /\ Len(d) = Len(q) - 1 /\ DOMAIN d = 1 .. Len(d)
      /\ \A k \in 1 .. i - 1 : d[k] = q[k]
      /\ \A k \in i .. Len(q) - 1 : d[k] = q[k + 1]
  <2>1. /\ d \in Seq(S) /\ Len(d) = Len(q) - 1 /\ DOMAIN d = 1 .. Len(d)
        /\ \A k \in 1 .. i - 1 : d[k] = b[k]
    BY <1>1, <1>2, <1>3
  <2>2. \A k \in i .. Len(q) - 1 : d[k] = c[k - (i - 1)]
    BY SMTT(30), <1>1, <1>2, <1>3
  <2>3. \A k \in i .. Len(q) - 1 : k - (i - 1) \in 1 .. Len(q) - i /\ i + (k - (i - 1)) = k + 1
    BY <1>1
  <2>4. \A k \in i .. Len(q) - 1 : c[k - (i - 1)] = q[k + 1]
    BY <1>3, <2>3
  <2> HIDE DEF d
  <2> QED BY <1>2, <2>1, <2>2, <2>4
<1> HIDE DEF d
<1>6. ASSUME NEW j \in DOMAIN q, j # i
      PROVE  \E k \in DOMAIN d : d[k] = q[j]
  <2>1. j \in 1 .. Len(q)
    OBVIOUS
  <2>2. CASE j < i
    <3>1. j \in 1 .. i - 1 /\ j \in DOMAIN d
      BY <1>1, <1>5, <2>1, <2>2
    <3> QED BY <1>5, <3>1
  <2>3. CASE j > i
    <3>1. j - 1 \in i .. Len(q) - 1 /\ j - 1 \in DOMAIN d /\ (j - 1) + 1 = j
      BY <1>1, <1>5, <2>1, <2>3
    <3>2. d[j - 1] = q[j]
      BY <1>5, <3>1
    <3> QED BY <3>1, <3>2
  <2> QED BY <1>1, <1>6, <2>1, <2>2, <2>3
<1> QED BY <1>4, <1>5, <1>6 DEF d

LEMMA RemoveAppFacts ==
  ASSUME NEW a \in Agent
  PROVE  RemoveFirstMatch(a.observed, LAMBDA o : o.uri = "App") \in Seq(Observation)
<1> DEFINE i == prv_findObserved(a, "App")
<1>0. a.observed \in Seq(Observation) /\ DOMAIN a.observed = 1 .. Len(a.observed)
  BY DEF Agent
<1>1. RemoveFirstMatch(a.observed, LAMBDA o : o.uri = "App") =
        IF \E j \in 1 .. Len(a.observed) : a.observed[j].uri = "App"
        THEN RemoveAt(a.observed, i) ELSE a.observed
  BY DEF RemoveFirstMatch, prv_findObserved
<1>2. (\E j \in 1 .. Len(a.observed) : a.observed[j].uri = "App") => i \in DOMAIN a.observed
  BY <1>0, FindFacts
<1> QED BY <1>0, <1>1, <1>2, RemoveFacts

----------------------------------------------------------------------------
\* What a transaction becomes.

LEMMA FirstFacts ==
  ASSUME NEW t \in Transaction
  PROVE  /\ First(t) \in Transaction /\ First(t).mid = t.mid /\ First(t).status = t.status
         /\ First(t).counter = IF t.counter > 0 THEN t.counter ELSE 1
<1>1. CASE t.counter > 0
  BY <1>1 DEF First
<1>2. CASE ~(t.counter > 0)
  <2> DEFINE w == IF t.request THEN COAP_MAX_TRANSMIT_WAIT ELSE 0
             c == COAP_RESPONSE_TIMEOUT
             f == [t EXCEPT !.counter = 1, !.retrans = c, !.wait = w]
  <2>1. w = 0
    BY DEF Transaction
  <2>2. First(t) = f
    BY <1>2 DEF First
  <2>3. w \in Int /\ c \in Int
    BY <2>1, CoapAssumption
  <2> HIDE DEF w, c
  <2>4. f \in Transaction
    BY <2>3 DEF Transaction
  <2>5. f.mid = t.mid /\ f.status = t.status /\ f.counter = 1
    BY <2>3 DEF Transaction
  <2> QED BY <1>2, <2>2, <2>4, <2>5
<1> QED BY <1>1, <1>2

LEMMA SentFacts ==
  ASSUME NEW t \in Transaction
  PROVE  /\ Sent(t) \in Transaction /\ Sent(t).mid = t.mid
         /\ t.status = "WAIT_RESPONSE" /\ ~EndsUnanswered(t) => Sent(t).status = "WAIT_RESPONSE"
         /\ Transmits(t) => Sent(t).status = "WAIT_RESPONSE"
<1>1. CASE Transmits(t)
  <2> DEFINE f == First(t)
             n == Backoff(t)
  <2>1. n \in Int
    <3>1. 2 ^ (t.counter - 1) \in Int
      BY DEF Transaction
    <3> QED BY <3>1, CoapAssumption DEF Backoff
  <2>2. Sent(t) = [f EXCEPT !.status = "WAIT_RESPONSE", !.retrans = @ + n, !.counter = @ + 1]
    BY <1>1 DEF Sent
  <2> HIDE DEF f, n
  <2>3. f \in Transaction /\ f.mid = t.mid
    BY FirstFacts DEF f
  <2> DEFINE r == f.retrans + n
             k == f.counter + 1
  <2>4. Sent(t) = [f EXCEPT !.status = "WAIT_RESPONSE", !.retrans = r, !.counter = k]
    BY <2>2
  <2>5. r \in Int /\ k \in Nat
    BY <2>1, <2>3 DEF Transaction
  <2> HIDE DEF r, k
  <2>6. "WAIT_RESPONSE" \in Status
    BY DEF Status
  <2> QED BY <2>3, <2>4, <2>5, <2>6 DEF Transaction
<1>2. CASE ~Transmits(t) /\ Exhausted(t)
  <2>1. Sent(t) = [t EXCEPT !.status = "TIME_OUT"] /\ EndsUnanswered(t)
    <3>1. ~t.request
      BY DEF Transaction
    <3> QED BY <1>2, <3>1 DEF Sent, EndsUnanswered
  <2> QED BY <1>2, <2>1 DEF Transaction, Status
<1>3. CASE ~Transmits(t) /\ ~Exhausted(t)
  BY <1>3 DEF Sent
<1> QED BY <1>1, <1>2, <1>3

LEMMA NewFacts ==
  ASSUME NEW r \in Report
  PROVE  LET t == transaction_new(r, FALSE, r)
         IN  /\ t \in Transaction /\ t.mid = r /\ Transmits(t) /\ ~EndsUnanswered(t)
             /\ Sent(t).status = "WAIT_RESPONSE"
<1>1. ASSUME NEW t \in Transaction, t.status = "NOT_SENT", t.counter = 0
      PROVE  Transmits(t) /\ ~EndsUnanswered(t) /\ Sent(t).status = "WAIT_RESPONSE"
  <2>1. ~(t.counter > 0)
    BY <1>1
  <2>2. First(t).counter = 1 /\ 1 <= COAP_MAX_RETRANSMIT + 1
    BY <2>1, FirstFacts, CoapAssumption
  <2>3. Retries(t)
    BY <1>1 DEF Retries
  <2>4. Transmits(t)
    BY <2>2, <2>3 DEF Transmits
  <2>5. Sent(t).status = "WAIT_RESPONSE" /\ ~Exhausted(t)
    BY <2>4, SentFacts DEF Exhausted
  <2> QED BY <2>4, <2>5 DEF EndsUnanswered
<1> DEFINE t == transaction_new(r, FALSE, r)
<1>2. t \in Transaction /\ t.mid = r /\ t.status = "NOT_SENT" /\ t.counter = 0
  BY DEF transaction_new, Transaction, Status
<1> HIDE DEF t
<1>3. /\ t \in Transaction /\ t.mid = r /\ Transmits(t) /\ ~EndsUnanswered(t)
      /\ Sent(t).status = "WAIT_RESPONSE"
  BY <1>1, <1>2
<1> QED BY <1>3 DEF t

LEMMA ElapseFacts ==
  ASSUME NEW t \in Transaction
  PROVE  Elapse(t) \in Transaction /\ Elapse(t).mid = t.mid /\ Elapse(t).status = t.status
<1> DEFINE r == IF Retries(t) THEN t.retrans - 1 ELSE t.retrans
           w == IF t.wait > 0 THEN t.wait - 1 ELSE t.wait
<1>1. Elapse(t) = [t EXCEPT !.retrans = r, !.wait = w]
  BY DEF Elapse
<1>2. r \in Int /\ w \in Int
  BY DEF Transaction
<1> HIDE DEF r, w
<1> QED BY <1>1, <1>2 DEF Transaction

----------------------------------------------------------------------------
\* The steps of the agent, as what they do to the fields of its record.

Telling(a, reports, outcome) == [r \in Report |-> IF r \in reports THEN outcome ELSE a.told[r]]

LEMMA TellFacts ==
  ASSUME NEW a \in Agent, NEW R, NEW o \in Outcome
  PROVE  /\ Tell(a, R, o) \in Agent /\ Tell(a, R, o).told = Telling(a, R, o)
         /\ Tell(a, R, o) = [a EXCEPT !.told = Telling(a, R, o)]
<1> DEFINE n == Telling(a, R, o)
<1>1. n \in [Report -> Outcome]
  BY DEF Telling, Agent
<1>2. Tell(a, R, o) = [a EXCEPT !.told = n]
  BY DEF Tell, Telling
<1> HIDE DEF n
<1>3. [a EXCEPT !.told = n] \in Agent /\ [a EXCEPT !.told = n].told = n
  BY <1>1 DEF Agent
<1> QED BY <1>2, <1>3 DEF n

Ended(due) == {t \in due : EndsUnanswered(t)}

\* transaction_send of some of the transactions: those that end leave, the others stay.
LEMMA SendFacts ==
  ASSUME NEW a \in Agent, NEW due, due \subseteq Transaction,
         UniqueMids(a.list \cup due), Waits(a.list),
         \A t \in due : t \in a.list \/ (Transmits(t) /\ ~EndsUnanswered(t))
  PROVE  LET b == transaction_send(a, due)
             ended == Ended(due)
         IN  /\ b \in Agent /\ Waits(b.list) /\ UniqueMids(b.list)
             /\ Mids(b.list) = Mids(a.list \cup due) \ Mids(ended)
             /\ Mids(ended) \subseteq Mids(a.list)
             /\ b = [a EXCEPT !.told = Telling(a, Mids(ended), "SENT_TIME_OUT"), !.list = b.list]
<1> USE DEF Ended
<1> DEFINE ended == Ended(due)
           b == transaction_send(a, due)
           new == (a.list \ due) \cup {Sent(t) : t \in due \ ended}
           told == Telling(a, Mids(ended), "SENT_TIME_OUT")
<1>1. \A t \in due : /\ Sent(t) \in Transaction /\ Sent(t).mid = t.mid
                     /\ ~EndsUnanswered(t) => Sent(t).status = "WAIT_RESPONSE"
  BY SentFacts DEF Waits
<1>2. a.list \subseteq Transaction
  BY DEF Agent
<1>3. new \subseteq Transaction /\ Waits(new)
  BY <1>1, <1>2 DEF Waits
<1>4. UniqueMids(new)
  BY <1>1 DEF UniqueMids
<1>5. Mids(new) = Mids(a.list \cup due) \ Mids(ended)
  <2>1. \A t \in a.list \cup due, u \in ended : t.mid = u.mid => t \in ended
    BY DEF UniqueMids
  <2>2. ASSUME NEW m \in Mids(new) PROVE m \in Mids(a.list \cup due) \ Mids(ended)
    <3>1. PICK t \in new : m = t.mid
      BY DEF Mids
    <3>2. PICK u \in a.list \cup due : u \notin ended /\ u.mid = m
      BY <1>1, <3>1
    <3> QED BY <2>1, <3>2 DEF Mids
  <2>3. ASSUME NEW m \in Mids(a.list \cup due) \ Mids(ended) PROVE m \in Mids(new)
    <3>1. PICK t \in a.list \cup due : m = t.mid
      BY DEF Mids
    <3>2. t \notin ended
      BY <3>1 DEF Mids
    <3> HIDE DEF ended
    <3>3. CASE t \in due
      <4>1. Sent(t) \in new /\ Sent(t).mid = m
        BY <1>1, <3>1, <3>2, <3>3
      <4> QED BY <4>1 DEF Mids
    <3>4. CASE t \notin due
      BY <3>1, <3>4 DEF Mids
    <3> QED BY <3>3, <3>4
  <2> QED BY <2>2, <2>3
<1>6. Mids(ended) \subseteq Mids(a.list)
  BY DEF Mids
<1>7. b = [Tell(a, Mids(ended), "SENT_TIME_OUT") EXCEPT !.list = new]
  <2>1. Tell(a, Mids(ended), "SENT_TIME_OUT").list = a.list
    <3>1. "SENT_TIME_OUT" \in Outcome
      BY DEF Outcome
    <3>2. Tell(a, Mids(ended), "SENT_TIME_OUT") = [a EXCEPT !.told = told]
      BY <3>1, TellFacts
    <3> HIDE DEF told
    <3> QED BY <3>2 DEF Agent
  <2> QED BY <2>1 DEF transaction_send
<1>8. told \in [Report -> Outcome] /\ b = [a EXCEPT !.told = told, !.list = new]
  <2>1. "SENT_TIME_OUT" \in Outcome
    BY DEF Outcome
  <2>2. Tell(a, Mids(ended), "SENT_TIME_OUT") = [a EXCEPT !.told = told]
    BY <2>1, TellFacts
  <2>3. told \in [Report -> Outcome]
    BY <2>1 DEF Telling, Agent
  <2> HIDE DEF told, new, b
  <2> QED BY <1>7, <2>2, <2>3
<1> HIDE DEF told, new, b, ended
<1>9. b \in Agent /\ b.list = new
  BY <1>3, <1>8 DEF Agent
<1>10. /\ b \in Agent /\ Waits(b.list) /\ UniqueMids(b.list)
       /\ Mids(b.list) = Mids(a.list \cup due) \ Mids(ended)
       /\ Mids(ended) \subseteq Mids(a.list)
       /\ b = [a EXCEPT !.told = told, !.list = b.list]
  BY <1>3, <1>4, <1>5, <1>6, <1>8, <1>9
<1> QED BY <1>10 DEF told, b, ended

\* The first k reports of the line.
Oldest(a, k) == {a.rpt_list[i] : i \in 1 .. k}

LEMMA OldestFacts ==
  ASSUME NEW a \in Agent, NEW k \in 0 .. Len(a.rpt_list)
  PROVE  /\ Range(SubSeq(a.rpt_list, 1, k)) = Oldest(a, k)
         /\ Range(a.rpt_list) = Oldest(a, Len(a.rpt_list))
         /\ SubSeq(a.rpt_list, k + 1, Len(a.rpt_list)) \in Seq(Report)
         /\ k = Len(a.rpt_list) => SubSeq(a.rpt_list, k + 1, Len(a.rpt_list)) = <<>>
<1> DEFINE q == a.rpt_list
<1>1. q \in Seq(Report) /\ Len(q) \in Nat /\ DOMAIN q = 1 .. Len(q)
  BY DEF Agent
<1> HIDE DEF q
<1>2. k \in 0 .. Len(q)
  BY DEF q
<1>3. /\ SubSeq(q, 1, k) \in Seq(Report) /\ Len(SubSeq(q, 1, k)) = k
      /\ \A i \in 1 .. k : SubSeq(q, 1, k)[i] = q[i]
  BY <1>1, <1>2
<1>4. Range(SubSeq(q, 1, k)) = {q[i] : i \in 1 .. k}
  BY <1>3 DEF Range
<1>5. SubSeq(q, k + 1, Len(q)) \in Seq(Report) /\ Len(SubSeq(q, k + 1, Len(q))) = Len(q) - k
  <2>1. \A i \in k + 1 .. Len(q) : q[i] \in Report
    BY <1>1, <1>2
  <2>2. k + 1 \in Int /\ Len(q) \in Int
    BY <1>1, <1>2
  <2>3. /\ SubSeq(q, k + 1, Len(q)) \in Seq(Report)
        /\ Len(SubSeq(q, k + 1, Len(q))) = IF k + 1 <= Len(q) THEN Len(q) - (k + 1) + 1 ELSE 0
    BY <2>1, <2>2, SubSeqProperties
  <2>4. (IF k + 1 <= Len(q) THEN Len(q) - (k + 1) + 1 ELSE 0) = Len(q) - k
    <3>1. k \in Int /\ Len(q) \in Int /\ k <= Len(q)
      BY <1>1, <1>2
    <3> HIDE DEF q
    <3>2. ASSUME NEW n \in Int, NEW i \in Int, i <= n
          PROVE  (IF i + 1 <= n THEN n - (i + 1) + 1 ELSE 0) = n - i
      BY <3>2
    <3> QED BY <3>1, <3>2
  <2> QED BY <2>3, <2>4
<1>6. Range(q) = {q[i] : i \in 1 .. Len(q)}
  BY <1>1 DEF Range
<1>7. k = Len(q) => SubSeq(q, k + 1, Len(q)) = <<>>
  BY <1>1, <1>5
<1> QED BY <1>4, <1>5, <1>6, <1>7 DEF q, Oldest

\* The line is emptied, or its first k reports are told and the agent is stuck.
LEMMA ClearFacts ==
  ASSUME NEW a \in Agent, NEW o \in {"NOT_SENT", "OBSERVE_CANCEL"}, NEW b \in ClearOutcomes(a, o)
  PROVE  /\ b \in Agent /\ b.list = a.list /\ b.observed = a.observed
         /\ \E k \in 0 .. Len(a.rpt_list) :
              /\ b.rpt_list = SubSeq(a.rpt_list, k + 1, Len(a.rpt_list))
              /\ b.told = Telling(a, Oldest(a, k), o)
         /\ b.pc = "stuck" \/ (b.pc = a.pc /\ b.rpt_list = <<>> /\ b.rpt_node_cnt = 0)
<1>0. o \in Outcome /\ Len(a.rpt_list) \in Nat /\ DOMAIN a.rpt_list = 1 .. Len(a.rpt_list)
  BY DEF Outcome, Agent
<1>1. ASSUME NEW R, NEW c, c = Tell(a, R, o)
      PROVE  c \in Agent /\ c.list = a.list /\ c.observed = a.observed /\ c.pc = a.pc
             /\ c.rpt_list = a.rpt_list /\ c.told = Telling(a, R, o)
  <2>1. c \in Agent /\ c.told = Telling(a, R, o) /\ c = [a EXCEPT !.told = Telling(a, R, o)]
    BY <1>0, <1>1, TellFacts
  <2> QED BY <2>1 DEF Agent
<1>2. CASE b = [Tell(a, Range(a.rpt_list), o) EXCEPT !.rpt_list = <<>>, !.rpt_node_cnt = 0]
  <2> DEFINE c == Tell(a, Range(a.rpt_list), o)
             k == Len(a.rpt_list)
  <2>1. c \in Agent /\ c.list = a.list /\ c.observed = a.observed /\ c.pc = a.pc
        /\ c.rpt_list = a.rpt_list /\ c.told = Telling(a, Range(a.rpt_list), o)
    BY <1>1
  <2>2. b = [c EXCEPT !.rpt_list = <<>>, !.rpt_node_cnt = 0]
    BY <1>2
  <2> DEFINE e == <<>>
             n == 0
  <2> HIDE DEF c
  <2>3. /\ b \in Agent /\ b.list = c.list /\ b.observed = c.observed /\ b.pc = c.pc
        /\ b.rpt_list = e /\ b.rpt_node_cnt = n /\ b.told = c.told
    <3>1. e \in Seq(Report) /\ n \in Int /\ b = [c EXCEPT !.rpt_list = e, !.rpt_node_cnt = n]
      BY <2>2
    <3> HIDE DEF e, n
    <3> QED BY <2>1, <3>1 DEF Agent
  <2>4. k \in 0 .. Len(a.rpt_list) /\ SubSeq(a.rpt_list, k + 1, Len(a.rpt_list)) = <<>>
        /\ Range(a.rpt_list) = Oldest(a, k)
    BY <1>0, OldestFacts
  <2> QED BY <2>1, <2>3, <2>4
<1>3. CASE \E k \in DOMAIN a.rpt_list :
             b = [Tell(a, Range(SubSeq(a.rpt_list, 1, k)), o)
                    EXCEPT !.rpt_list = SubSeq(@, k + 1, Len(@)), !.pc = "stuck"]
  <2>1. PICK k \in DOMAIN a.rpt_list :
               b = [Tell(a, Range(SubSeq(a.rpt_list, 1, k)), o)
                      EXCEPT !.rpt_list = SubSeq(@, k + 1, Len(@)), !.pc = "stuck"]
    BY <1>3
  <2> DEFINE c == Tell(a, Range(SubSeq(a.rpt_list, 1, k)), o)
             q == SubSeq(a.rpt_list, k + 1, Len(a.rpt_list))
  <2>2. c \in Agent /\ c.list = a.list /\ c.observed = a.observed /\ c.pc = a.pc
        /\ c.rpt_list = a.rpt_list /\ c.told = Telling(a, Range(SubSeq(a.rpt_list, 1, k)), o)
    BY <1>1
  <2>3. b = [c EXCEPT !.rpt_list = q, !.pc = "stuck"]
    BY <2>1, <2>2
  <2>4. k \in 0 .. Len(a.rpt_list) /\ Range(SubSeq(a.rpt_list, 1, k)) = Oldest(a, k)
        /\ q \in Seq(Report)
    <3>1. k \in 0 .. Len(a.rpt_list)
      BY <1>0
    <3> QED BY <3>1, OldestFacts
  <2> HIDE DEF c, q
  <2>5. /\ b \in Agent /\ b.list = c.list /\ b.observed = c.observed /\ b.pc = "stuck"
        /\ b.rpt_list = q /\ b.told = c.told
    BY <2>2, <2>3, <2>4 DEF Agent
  <2>6. b.told = Telling(a, Oldest(a, k), o)
    BY <2>2, <2>4, <2>5
  <2>7. b.rpt_list = SubSeq(a.rpt_list, k + 1, Len(a.rpt_list)) /\ b.list = a.list
        /\ b.observed = a.observed
    BY <2>2, <2>5 DEF q
  <2>8. \E n \in 0 .. Len(a.rpt_list) :
          /\ b.rpt_list = SubSeq(a.rpt_list, n + 1, Len(a.rpt_list))
          /\ b.told = Telling(a, Oldest(a, n), o)
    <3> WITNESS k \in 0 .. Len(a.rpt_list)
    <3> QED BY <2>6, <2>7
  <2> QED BY <2>5, <2>7, <2>8
<1> QED BY <1>2, <1>3 DEF ClearOutcomes

\* What the abstract service allows as one conclusion: the first k reports of the line
\* and some of those that were sent.
Outcomes(a, k, s, o, w) ==
  [r \in Report |-> IF r \in s THEN o[r] ELSE IF r \in Oldest(a, k) THEN w ELSE a.told[r]]

Concludes(a, b) ==
  \E k \in 0 .. Len(a.rpt_list), s \in SUBSET Mids(a.list) :
    /\ b.rpt_list = SubSeq(a.rpt_list, k + 1, Len(a.rpt_list))
    /\ Mids(b.list) = Mids(a.list) \ s
    /\ \E o \in [s -> Service!SentOutcome], w \in Service!WaitOutcome :
         b.told = Outcomes(a, k, s, o, w)

\* A conclusion keeps every report in its place.
LEMMA ConcludesInv ==
  ASSUME NEW a, AgentInv(a), NEW b \in Agent, Concludes(a, b),
         Waits(b.list), UniqueMids(b.list),
         \/ b.pc \in {"stuck", "ended"}
         \/ b.rpt_node_cnt = Len(b.rpt_list)
  PROVE  AgentInv(b)
<1>1. PICK k \in 0 .. Len(a.rpt_list), sent \in SUBSET Mids(a.list) :
             /\ b.rpt_list = SubSeq(a.rpt_list, k + 1, Len(a.rpt_list))
             /\ Mids(b.list) = Mids(a.list) \ sent
  BY DEF Concludes
<1> DEFINE q == a.rpt_list
<1>2. q \in Seq(Report) /\ Len(q) \in Nat /\ IsInjective(q) /\ Len(q) <= MAX_BUFFER_REPORT_CNT
      /\ Range(q) \cap Mids(a.list) = {}
  BY DEF AgentInv, Agent, Line
<1> HIDE DEF q
<1>3. k \in 0 .. Len(q) /\ b.rpt_list = SubSeq(q, k + 1, Len(q))
  BY <1>1 DEF q
<1> DEFINE p == b.rpt_list
<1>4. /\ Len(p) = Len(q) - k /\ DOMAIN p = 1 .. Len(q) - k
      /\ \A i \in 1 .. Len(q) - k : p[i] = q[k + i] /\ k + i \in DOMAIN q
  BY <1>2, <1>3
<1> HIDE DEF p
<1>5. IsInjective(p)
  <2> SUFFICES ASSUME NEW i \in 1 .. Len(q) - k, NEW j \in 1 .. Len(q) - k, p[i] = p[j]
               PROVE  i = j
    BY <1>4 DEF IsInjective
  <2>1. k + i \in DOMAIN q /\ k + j \in DOMAIN q /\ q[k + i] = q[k + j]
    BY <1>4
  <2>2. k + i = k + j
    BY <1>2, <2>1 DEF IsInjective
  <2> QED BY <1>2, <1>3, <2>2
<1>6. Range(p) \subseteq Range(q)
  BY <1>4 DEF Range
<1>7. Len(p) <= MAX_BUFFER_REPORT_CNT
  BY <1>2, <1>3, <1>4, ReportAssumption
<1> QED BY <1>1, <1>2, <1>5, <1>6, <1>7 DEF AgentInv, Line, p

\* No observation of the application's resource is lost without the line being emptied.
Cancels(a, b) ==
  prv_findObserved(a, "App") # 0 /\ prv_findObserved(b, "App") = 0
    => b.rpt_list = <<>> \/ b.pc = "stuck"

LEMMA CancelsNone ==
  ASSUME NEW a \in Agent, NEW b \in Agent,
         \A i \in DOMAIN a.observed :
           a.observed[i].uri = "App" => \E j \in DOMAIN b.observed : b.observed[j].uri = "App"
  PROVE  Cancels(a, b)
BY FindFacts DEF Cancels

\* The end of an observation: some of the oldest reports are told, and all, unless the
\* agent is stuck then.
Clears(a, c) ==
  /\ c \in Agent /\ c.list = a.list /\ Cancels(a, c)
  /\ c.pc = "stuck" \/ (c.pc = a.pc /\ c.rpt_node_cnt = Len(c.rpt_list))
  /\ \E k \in 0 .. Len(a.rpt_list), w \in Service!WaitOutcome :
       /\ c.rpt_list = SubSeq(a.rpt_list, k + 1, Len(a.rpt_list))
       /\ c.told = Telling(a, Oldest(a, k), w)

LEMMA NothingCleared ==
  ASSUME NEW a \in Agent, NEW w
  PROVE  /\ 0 \in 0 .. Len(a.rpt_list)
         /\ SubSeq(a.rpt_list, 0 + 1, Len(a.rpt_list)) = a.rpt_list
         /\ Oldest(a, 0) = {} /\ Telling(a, {}, w) = a.told
<1>1. a.rpt_list \in Seq(Report) /\ Len(a.rpt_list) \in Nat
  BY DEF Agent
<1>2. Oldest(a, 0) = {}
  BY DEF Oldest
<1>3. a.told \in [Report -> Outcome]
  BY DEF Agent
<1>4. Telling(a, {}, w) = a.told
  BY <1>3 DEF Telling
<1>5. SubSeq(a.rpt_list, 1, Len(a.rpt_list)) = a.rpt_list
  BY <1>1
<1> QED BY <1>1, <1>2, <1>4, <1>5

LEMMA ClearsNone ==
  ASSUME NEW a, AgentInv(a), a.pc \notin {"stuck", "ended"}, NEW c \in Agent,
         c.list = a.list, c.pc = a.pc, c.rpt_list = a.rpt_list,
         c.rpt_node_cnt = a.rpt_node_cnt, c.told = a.told, Cancels(a, c)
  PROVE  Clears(a, c)
<1>1. a \in Agent /\ a.rpt_node_cnt = Len(a.rpt_list)
  BY DEF AgentInv, Line
<1>2. "NOT_SENT" \in Service!WaitOutcome
  BY DEF Service!WaitOutcome
<1>3. /\ 0 \in 0 .. Len(a.rpt_list)
      /\ SubSeq(a.rpt_list, 0 + 1, Len(a.rpt_list)) = a.rpt_list
      /\ Telling(a, Oldest(a, 0), "NOT_SENT") = a.told
  BY <1>1, NothingCleared
<1> QED BY <1>1, <1>2, <1>3 DEF Clears

LEMMA CancelFacts ==
  ASSUME NEW a, AgentInv(a), a.pc \notin {"stuck", "ended"}, NEW i \in DOMAIN a.observed,
         NEW c \in observe_cancel(a, i)
  PROVE  Clears(a, c)
<1> DEFINE o == RemoveAt(a.observed, i)
           d == [a EXCEPT !.observed = o]
<1>1. /\ a \in Agent /\ a.observed \in Seq(Observation)
      /\ c \in IF a.observed[i].uri = "App" THEN ClearOutcomes(d, "OBSERVE_CANCEL") ELSE {d}
  BY DEF AgentInv, Agent, observe_cancel
<1>2. /\ o \in Seq(Observation)
      /\ \A j \in DOMAIN a.observed : j # i => \E k \in DOMAIN o : o[k] = a.observed[j]
  BY <1>1, RemoveFacts
<1> HIDE DEF o
<1>3. /\ d \in Agent /\ d.list = a.list /\ d.pc = a.pc /\ d.rpt_list = a.rpt_list
      /\ d.rpt_node_cnt = a.rpt_node_cnt /\ d.told = a.told /\ d.observed = o
  BY <1>1, <1>2 DEF Agent
<1> HIDE DEF d
<1>4. CASE a.observed[i].uri # "App"
  <2>1. Cancels(a, d)
    BY <1>1, <1>2, <1>3, <1>4, CancelsNone
  <2> QED BY <1>1, <1>3, <1>4, <2>1, ClearsNone
<1>5. CASE a.observed[i].uri = "App"
  <2>1. c \in ClearOutcomes(d, "OBSERVE_CANCEL")
    BY <1>1, <1>5
  <2>2. /\ c \in Agent /\ c.list = d.list
        /\ \E k \in 0 .. Len(d.rpt_list) :
             /\ c.rpt_list = SubSeq(d.rpt_list, k + 1, Len(d.rpt_list))
             /\ c.told = Telling(d, Oldest(d, k), "OBSERVE_CANCEL")
        /\ c.pc = "stuck" \/ (c.pc = d.pc /\ c.rpt_list = <<>> /\ c.rpt_node_cnt = 0)
    BY <1>3, <2>1, ClearFacts
  <2>3. Telling(d, Oldest(d, 0), "OBSERVE_CANCEL") = Telling(a, Oldest(a, 0), "OBSERVE_CANCEL")
        /\ \A k : Telling(d, Oldest(d, k), "OBSERVE_CANCEL") = Telling(a, Oldest(a, k), "OBSERVE_CANCEL")
    BY <1>3 DEF Telling, Oldest
  <2>4. "OBSERVE_CANCEL" \in Service!WaitOutcome
    BY DEF Service!WaitOutcome
  <2>5. Cancels(a, c) /\ (c.rpt_list = <<>> => Len(c.rpt_list) = 0)
    BY <2>2 DEF Cancels
  <2> QED BY <1>3, <2>2, <2>3, <2>4, <2>5 DEF Clears
<1> QED BY <1>4, <1>5

\* Transaction t is taken off and outcome o is told.
Responded(c, t, o) == [c EXCEPT !.told = Telling(c, {t.mid}, o), !.list = Without(c.list, t)]

LEMMA ResponseFacts ==
  ASSUME NEW c \in Agent, Waits(c.list), UniqueMids(c.list), NEW m \in ServerReply,
         NEW b, b = transaction_handleResponse(c, m)
  PROVE  \/ b = c
         \/ /\ c.pc # "stuck"
            /\ \E t \in c.list, o \in Service!SentOutcome :
                 /\ b = Responded(c, t, o)
                 /\ o = "SENT_SUCCESS" => m.mid = t.mid /\ m.type = "ACK"
<1> SUFFICES ASSUME b # c
             PROVE  /\ c.pc # "stuck"
                    /\ \E t \in c.list, o \in Service!SentOutcome :
                         /\ b = Responded(c, t, o)
                         /\ o = "SENT_SUCCESS" => m.mid = t.mid /\ m.type = "ACK"
  OBVIOUS
<1>1. c.pc # "stuck" /\ Taking(c.list, m) # {}
  BY DEF transaction_handleResponse
<1> DEFINE t == CHOOSE t \in Taking(c.list, m) : TRUE
           o == IF Resets(t, m) THEN "OBSERVE_CANCEL" ELSE "SENT_SUCCESS"
<1>2. t \in Taking(c.list, m)
  BY <1>1
<1>3. b = IF Finishes(t, m)
          THEN [Tell(c, {t.mid}, o) EXCEPT !.list = Without(@, t)]
          ELSE [c EXCEPT !.list = ListPut(@, Received(t, m))]
  BY <1>1 DEF transaction_handleResponse
<1> HIDE DEF t
<1>4. t \in c.list /\ Hits(t, m) /\ t \in Transaction /\ t.status = "WAIT_RESPONSE" /\ ~t.request
  BY <1>2 DEF Taking, Waits, Agent, Transaction
<1>5. MidMatches(t, m)
  <2> SUFFICES ASSUME ~MidMatches(t, m) PROVE FALSE
    OBVIOUS
  <2>1. Received(t, m) = t
    BY DEF Received
  <2> QED BY <1>4, <2>1 DEF Hits, prv_checkFinished
<1>6. t.mid = m.mid /\ m.type \in {"ACK", "RST"}
  BY <1>5 DEF MidMatches
<1>7. Finishes(t, m)
  <2>1. CASE m.type = "RST"
    BY <1>5, <2>1 DEF Finishes, Resets
  <2>2. CASE m.type = "ACK"
    <3>1. Received(t, m) = [t EXCEPT !.status = "RECV_ACK"]
      BY <1>5, <2>2 DEF Received
    <3>2. Received(t, m).status = "RECV_ACK" /\ Received(t, m).request = t.request
      BY <1>4, <3>1 DEF Transaction
    <3> QED BY <1>4, <3>2 DEF Finishes, prv_checkFinished
  <2> QED BY <1>6, <2>1, <2>2
<1>8. o \in Service!SentOutcome /\ o \in Outcome /\ (o = "SENT_SUCCESS" => m.type = "ACK")
  BY <1>5, <1>6 DEF Service!SentOutcome, Outcome, Resets
<1> HIDE DEF o
<1>9. b = Responded(c, t, o)
  <2> DEFINE n == Telling(c, {t.mid}, o)
  <2>1. Tell(c, {t.mid}, o) = [c EXCEPT !.told = n]
    BY <1>8, TellFacts
  <2> HIDE DEF n
  <2>2. Tell(c, {t.mid}, o).list = c.list
    BY <2>1 DEF Agent
  <2>3. b = [Tell(c, {t.mid}, o) EXCEPT !.list = Without(c.list, t)]
    BY <1>3, <1>7, <2>2
  <2>4. b = [c EXCEPT !.told = n, !.list = Without(c.list, t)]
    BY <2>1, <2>3
  <2> QED BY <2>4 DEF n, Responded
<1> QED BY <1>1, <1>4, <1>6, <1>8, <1>9

\* A delivery is told only by the acknowledgement of that report.
Delivers(a, b, ms) ==
  \A r \in Report : a.told[r] = "none" /\ b.told[r] = "SENT_SUCCESS"
                      => \E m \in ms : m.mid = r /\ m.type = "ACK"

\* What lwm2m_handle_packet makes of a reply: a conclusion.
Handles(a, b, m) ==
  /\ b \in Agent /\ Waits(b.list) /\ UniqueMids(b.list) /\ Concludes(a, b)
  /\ b.pc = "stuck" \/ (b.pc = a.pc /\ b.rpt_node_cnt = Len(b.rpt_list))
  /\ Cancels(a, b) /\ Delivers(a, b, {m})

LEMMA ClearsHandles ==
  ASSUME NEW a, AgentInv(a), NEW b, Clears(a, b), NEW m
  PROVE  Handles(a, b, m)
<1>1. PICK k \in 0 .. Len(a.rpt_list), w \in Service!WaitOutcome :
             /\ b.rpt_list = SubSeq(a.rpt_list, k + 1, Len(a.rpt_list))
             /\ b.told = Telling(a, Oldest(a, k), w)
  BY DEF Clears
<1>2. a \in Agent /\ b \in Agent /\ b.list = a.list /\ Waits(b.list) /\ UniqueMids(b.list)
  BY DEF Clears, AgentInv
<1>3. Delivers(a, b, {m})
  <2>1. "SENT_SUCCESS" \notin Service!WaitOutcome
    BY DEF Service!WaitOutcome
  <2> QED BY <1>1, <2>1 DEF Delivers, Telling
<1>4. Concludes(a, b)
  <2> DEFINE s == {}
             o == [r \in s |-> "SENT_SUCCESS"]
  <2>1. o \in [s -> Service!SentOutcome] /\ s \in SUBSET Mids(a.list)
    OBVIOUS
  <2>2. Mids(b.list) = Mids(a.list) \ s
    BY <1>2
  <2>3. b.told = Outcomes(a, k, s, o, w)
    BY <1>1 DEF Telling, Outcomes
  <2> HIDE DEF s, o
  <2> QED BY <1>1, <2>1, <2>2, <2>3 DEF Concludes
<1> QED BY <1>2, <1>3, <1>4 DEF Handles, Clears

LEMMA ResponseHandles ==
  ASSUME NEW a, AgentInv(a), NEW c, Clears(a, c), NEW m \in ServerReply,
         NEW b, b = transaction_handleResponse(c, m)
  PROVE  Handles(a, b, m)
<1>1. PICK k \in 0 .. Len(a.rpt_list), w \in Service!WaitOutcome :
             /\ c.rpt_list = SubSeq(a.rpt_list, k + 1, Len(a.rpt_list))
             /\ c.told = Telling(a, Oldest(a, k), w)
  BY DEF Clears
<1>2. /\ a \in Agent /\ c \in Agent /\ c.list = a.list /\ Waits(c.list) /\ UniqueMids(c.list)
      /\ c.list \subseteq Transaction
  BY DEF Clears, AgentInv, Agent
<1>3. CASE b = c
  BY <1>3, ClearsHandles
<1>4. CASE b # c
  <2>1. PICK t \in c.list, o \in Service!SentOutcome :
               /\ b = Responded(c, t, o)
               /\ o = "SENT_SUCCESS" => m.mid = t.mid /\ m.type = "ACK"
    BY <1>2, <1>4, ResponseFacts
  <2>2. c.pc # "stuck"
    BY <1>2, <1>4, ResponseFacts
  <2> DEFINE n == Telling(c, {t.mid}, o)
             l == Without(c.list, t)
  <2>3. o \in Outcome
    BY DEF Service!SentOutcome, Outcome
  <2>4. n \in [Report -> Outcome] /\ l \in SUBSET Transaction
    <3>1. c.told \in [Report -> Outcome]
      BY <1>2 DEF Agent
    <3>2. n \in [Report -> Outcome]
      BY <2>3, <3>1 DEF Telling
    <3> QED BY <1>2, <3>2 DEF Without
  <2>5. /\ Waits(l) /\ UniqueMids(l) /\ Mids(l) = Mids(a.list) \ {t.mid}
        /\ {t.mid} \in SUBSET Mids(a.list)
    BY <1>2 DEF Waits, UniqueMids, Without, Mids
  <2>6. /\ b \in Agent /\ b.told = n /\ b.list = l /\ b.pc = c.pc /\ b.rpt_list = c.rpt_list
        /\ b.rpt_node_cnt = c.rpt_node_cnt /\ b.observed = c.observed
    <3> HIDE DEF n, l
    <3>1. b = [c EXCEPT !.told = n, !.list = l]
      BY <2>1 DEF n, l, Responded
    <3> QED BY <1>2, <2>4, <3>1 DEF Agent
  <2>7. b.told = [r \in Report |-> IF r = t.mid THEN o
                                  ELSE IF r \in Oldest(a, k) THEN w ELSE a.told[r]]
    <3>1. b.told = [r \in Report |-> IF r \in {t.mid} THEN o ELSE c.told[r]]
      BY <2>6 DEF Telling
    <3>2. \A r \in Report : c.told[r] = IF r \in Oldest(a, k) THEN w ELSE a.told[r]
      BY <1>1 DEF Telling
    <3> QED BY <3>1, <3>2
  <2>8. Concludes(a, b)
    <3> DEFINE s == {t.mid}
               f == [r \in s |-> o]
    <3>1. /\ f \in [s -> Service!SentOutcome] /\ s \in SUBSET Mids(a.list)
          /\ Mids(b.list) = Mids(a.list) \ s
      BY <2>5, <2>6
    <3>2. b.told = Outcomes(a, k, s, f, w)
      BY <2>7 DEF Outcomes
    <3>3. b.rpt_list = SubSeq(a.rpt_list, k + 1, Len(a.rpt_list))
      BY <1>1, <2>6
    <3> HIDE DEF s, f
    <3> QED BY <3>1, <3>2, <3>3 DEF Concludes
  <2>9. Delivers(a, b, {m})
    <3>1. "SENT_SUCCESS" \notin Service!WaitOutcome
      BY DEF Service!WaitOutcome
    <3>2. ASSUME NEW r \in Report, a.told[r] = "none", b.told[r] = "SENT_SUCCESS"
          PROVE  r = t.mid /\ o = "SENT_SUCCESS"
      BY <2>7, <3>1, <3>2
    <3> QED BY <2>1, <3>2 DEF Delivers
  <2>10. Cancels(a, b)
    BY <2>6 DEF Clears, Cancels, prv_findObserved
  <2> QED BY <2>2, <2>5, <2>6, <2>8, <2>9, <2>10 DEF Handles, Clears
<1> QED BY <1>3, <1>4

LEMMA PacketFacts ==
  ASSUME NEW a, AgentInv(a), a.pc \notin {"stuck", "ended"}, NEW m \in ServerReply,
         NEW b \in lwm2m_handle_packet(a, m)
  PROVE  Handles(a, b, m)
<1> DEFINE i == LatestOf(a, m.mid)
<1>0. a \in Agent
  BY DEF AgentInv
<1>1. a \in Agent /\ i \in DOMAIN a.observed \cup {0}
  BY <1>0, LatestFacts
<1>2. PICK c \in IF m.type = "RST" /\ i # 0 THEN observe_cancel(a, i) ELSE {a} :
             b = transaction_handleResponse(c, m)
  BY DEF lwm2m_handle_packet
<1> HIDE DEF i
<1>3. Clears(a, c)
  <2>1. CASE c = a
    <3>1. Cancels(a, a)
      BY DEF Cancels
    <3> QED BY <1>1, <2>1, <3>1, ClearsNone
  <2>2. CASE c # a
    <3>1. c \in observe_cancel(a, i) /\ i \in DOMAIN a.observed
      BY <1>1, <1>2, <2>2
    <3> QED BY <3>1, CancelFacts
  <2> QED BY <2>1, <2>2
<1> QED BY <1>2, <1>3, ResponseHandles

\* The end of a turn of the agent's loop.
LEMMA PolledFacts ==
  ASSUME NEW a, AgentInv(a), a.pc = "poll", NEW b \in Agent, NEW m, Handles(a, b, m)
  PROVE  LET c == Polled(b)
         IN  /\ AgentInv(c) /\ Concludes(a, c) /\ c.pc \in {"stuck", "observe"}
             /\ Cancels(a, c) /\ Delivers(a, c, {m})
<1> DEFINE p == IF b.pc = "stuck" THEN b.pc ELSE "observe"
           c == Polled(b)
<1>1. p \in {"stuck", "observe"} /\ c = [b EXCEPT !.pc = p] /\ (p = "stuck" <=> b.pc = "stuck")
  BY DEF Polled
<1> HIDE DEF p, c
<1>2. /\ c \in Agent /\ c.pc = p /\ c.list = b.list /\ c.rpt_list = b.rpt_list
      /\ c.rpt_node_cnt = b.rpt_node_cnt /\ c.told = b.told /\ c.observed = b.observed
  BY <1>1 DEF Agent
<1>3. Concludes(a, c) /\ Cancels(a, c) /\ Delivers(a, c, {m})
  <2>1. Concludes(a, b) => Concludes(a, c)
    BY <1>2 DEF Concludes
  <2>2. Cancels(a, b) => Cancels(a, c)
    BY <1>1, <1>2 DEF Cancels, prv_findObserved
  <2>3. Delivers(a, b, {m}) => Delivers(a, c, {m})
    BY <1>2 DEF Delivers
  <2> QED BY <2>1, <2>2, <2>3 DEF Handles
<1>4. AgentInv(c)
  <2>1. Waits(c.list) /\ UniqueMids(c.list)
    BY <1>2 DEF Handles
  <2>2. c.pc \in {"stuck", "ended"} \/ c.rpt_node_cnt = Len(c.rpt_list)
    BY <1>1, <1>2 DEF Handles
  <2> QED BY <1>2, <1>3, <2>1, <2>2, ConcludesInv
<1> QED BY <1>1, <1>2, <1>3, <1>4 DEF c

----------------------------------------------------------------------------
\* The actions.

ServiceStep == [Service!Next]_(Service!rvars)

StepOK == ReportInv' /\ ServiceStep /\ Cancels(atiny, atiny') /\ Delivers(atiny, atiny', replies)

LEMMA ServiceConcludes ==
  ASSUME Concludes(atiny, atiny'), atiny.pc # "ended", atiny'.pc # "ended"
  PROVE  ServiceStep
<1>1. PICK k \in 0 .. Len(atiny.rpt_list), s \in SUBSET Outstanding :
             /\ atiny'.rpt_list = SubSeq(atiny.rpt_list, k + 1, Len(atiny.rpt_list))
             /\ Outstanding' = Outstanding \ s
             /\ \E o \in [s -> Service!SentOutcome], w \in Service!WaitOutcome :
                  atiny'.told = Outcomes(atiny, k, s, o, w)
  BY DEF Concludes, Outstanding
<1>2. Service!FirstPending(k) = Oldest(atiny, k)
  BY DEF Service!FirstPending, Oldest
<1>3. Service!Conclude(k, s)
  BY <1>1, <1>2 DEF Service!Conclude, Outcomes
<1> QED BY <1>3 DEF ServiceStep, Service!Next

LEMMA ServiceStutters ==
  ASSUME atiny'.rpt_list = atiny.rpt_list, Mids(atiny'.list) = Mids(atiny.list),
         atiny'.told = atiny.told, atiny'.pc = "ended" <=> atiny.pc = "ended"
  PROVE  ServiceStep
BY DEF ServiceStep, Service!rvars, Outstanding

\* A step that leaves the line, the transactions and what was told alone.
LEMMA QuietStep ==
  ASSUME ReportInv, atiny' \in Agent, wire' \subseteq Report, replies' \subseteq ServerReply,
         atiny'.rpt_list = atiny.rpt_list, atiny'.rpt_node_cnt = atiny.rpt_node_cnt,
         atiny'.list = atiny.list, atiny'.told = atiny.told,
         atiny'.pc = atiny.pc \/ {atiny.pc, atiny'.pc} \subseteq {"observe", "poll"},
         Cancels(atiny, atiny')
  PROVE  StepOK
<1>1. ReportInv'
  BY DEF ReportInv, AgentInv, Line
<1>2. ServiceStep
  BY ServiceStutters
<1>3. Delivers(atiny, atiny', replies)
  BY DEF Delivers
<1> QED BY <1>1, <1>2, <1>3 DEF StepOK

LEMMA IdleStep ==
  ASSUME ReportInv, UNCHANGED atiny, wire' \subseteq Report, replies' \subseteq ServerReply
  PROVE  StepOK
<1>1. Cancels(atiny, atiny')
  BY DEF Cancels
<1> QED BY <1>1, QuietStep DEF ReportInv, AgentInv

LEMMA TakeStep ==
  ASSUME ReportInv, NEW r \in FreeReports, atiny_data_report(r)
  PROVE  StepOK
<1> DEFINE q == Append(atiny.rpt_list, r)
           n == atiny.rpt_node_cnt + 1
           told == [atiny.told EXCEPT ![r] = "none"]
           l == atiny.rpt_list
<1>1. /\ atiny.pc \notin {"stuck", "ended"} /\ atiny.rpt_node_cnt < MAX_BUFFER_REPORT_CNT
      /\ atiny' = [atiny EXCEPT !.rpt_list = q, !.rpt_node_cnt = n, !.told = told]
      /\ UNCHANGED <<wire, replies>>
  BY DEF atiny_data_report
<1>2. /\ atiny \in Agent /\ l \in Seq(Report) /\ atiny.rpt_node_cnt = Len(l)
      /\ atiny.told \in [Report -> Outcome] /\ Len(l) \in Nat /\ DOMAIN l = 1 .. Len(l)
      /\ IsInjective(l) /\ Range(l) \cap Mids(atiny.list) = {}
  BY <1>1 DEF ReportInv, AgentInv, Agent, Line
<1>3. r \in Report /\ r \notin Range(l) /\ r \notin Mids(atiny.list)
  BY DEF FreeReports, Queued, Outstanding
<1>4. told \in [Report -> Outcome]
  BY <1>2 DEF Outcome
<1>5. /\ q \in Seq(Report) /\ Len(q) = Len(l) + 1 /\ DOMAIN q = 1 .. Len(l) + 1
      /\ q[Len(l) + 1] = r /\ \A i \in 1 .. Len(l) : q[i] = l[i]
  BY <1>2, <1>3
<1> HIDE DEF q, n, told
<1>6. n \in Int /\ n = Len(q) /\ Len(q) <= MAX_BUFFER_REPORT_CNT
  BY <1>1, <1>2, <1>5, ReportAssumption DEF n
<1>7. /\ atiny' \in Agent /\ atiny'.rpt_list = q /\ atiny'.rpt_node_cnt = n
      /\ atiny'.told = told /\ atiny'.list = atiny.list /\ atiny'.pc = atiny.pc
      /\ atiny'.observed = atiny.observed
  BY <1>1, <1>2, <1>4, <1>5, <1>6 DEF Agent
<1>8. IsInjective(q) /\ Range(q) = Range(l) \cup {r}
  <2> HIDE DEF l
  <2>1. \A i \in 1 .. Len(l) : l[i] # r
    BY <1>2, <1>3 DEF Range
  <2>2. IsInjective(q)
    BY <1>2, <1>5, <2>1 DEF IsInjective
  <2>3. Range(q) = Range(l) \cup {r}
    BY <1>2, <1>5 DEF Range
  <2> QED BY <2>2, <2>3
<1>9. ReportInv'
  BY <1>1, <1>2, <1>3, <1>6, <1>7, <1>8 DEF ReportInv, AgentInv, Line
<1>10. ServiceStep
  <2>1. Service!FirstPending(Len(l)) = Range(l)
    BY <1>2 DEF Service!FirstPending, Range
  <2>2. Service!Take(r)
    BY <1>1, <1>2, <1>3, <1>7, <2>1 DEF Service!Take, Outstanding, q, told
  <2> QED BY <1>3, <2>2 DEF ServiceStep, Service!Next
<1>11. Cancels(atiny, atiny')
  BY <1>7 DEF Cancels, prv_findObserved
<1>12. Delivers(atiny, atiny', replies)
  BY <1>2, <1>7 DEF Delivers, told
<1> QED BY <1>9, <1>10, <1>11, <1>12 DEF StepOK

\* The oldest report leaves the line.
LEMMA TailFacts ==
  ASSUME NEW q \in Seq(Report), q # <<>>
  PROVE  /\ Head(q) \in Report /\ Head(q) \in Range(q)
         /\ Tail(q) \in Seq(Report) /\ Len(Tail(q)) = Len(q) - 1
         /\ Range(Tail(q)) \subseteq Range(q)
         /\ IsInjective(q) => IsInjective(Tail(q)) /\ Head(q) \notin Range(Tail(q))
<1> DEFINE p == Tail(q)
<1>1. /\ Len(q) \in Nat /\ Len(q) > 0 /\ DOMAIN q = 1 .. Len(q) /\ Head(q) = q[1]
      /\ p \in Seq(Report) /\ Len(p) = Len(q) - 1 /\ DOMAIN p = 1 .. Len(q) - 1
      /\ \A i \in 1 .. Len(q) - 1 : p[i] = q[i + 1]
  OBVIOUS
<1> HIDE DEF p
<1>2. \A i \in 1 .. Len(q) - 1 : i + 1 \in DOMAIN q /\ i + 1 # 1
  BY <1>1
<1>3. Range(p) \subseteq Range(q)
  BY <1>1, <1>2 DEF Range
<1>4. 1 \in DOMAIN q /\ q[1] \in Range(q) /\ q[1] \in Report
  BY <1>1 DEF Range
<1>5. IsInjective(q) => IsInjective(p)
  <2> SUFFICES ASSUME IsInjective(q), NEW i \in 1 .. Len(q) - 1, NEW j \in 1 .. Len(q) - 1,
                      p[i] = p[j]
               PROVE  i = j
    BY <1>1 DEF IsInjective
  <2>1. i + 1 = j + 1
    BY <1>1, <1>2 DEF IsInjective
  <2> QED BY <2>1
<1>6. IsInjective(q) => q[1] \notin Range(p)
  BY SMTT(30), <1>1, <1>2, <1>4 DEF IsInjective, Range
<1> QED BY <1>1, <1>3, <1>4, <1>5, <1>6 DEF p

LEMMA AppStep ==
  ASSUME ReportInv, observe_app_step
  PROVE  StepOK
<1> DEFINE q == atiny.rpt_list
           r == Head(q)
           p == Tail(q)
           n == atiny.rpt_node_cnt - 1
           i == prv_findObserved(atiny, "App")
           t == transaction_new(r, FALSE, r)
           rest == [atiny EXCEPT !.rpt_list = p, !.rpt_node_cnt = n]
<1>1. /\ atiny.pc = "observe" /\ q # <<>> /\ i # 0 /\ UNCHANGED replies
      /\ IF atiny.observed[i].active
         THEN /\ atiny' = transaction_send([rest EXCEPT !.observed[i].lastMid = r], {t})
              /\ Wired({r})
         ELSE atiny' = rest /\ UNCHANGED wire
  BY DEF observe_app_step
<1>2. /\ atiny \in Agent /\ q \in Seq(Report) /\ atiny.rpt_node_cnt = Len(q) /\ Len(q) \in Nat
      /\ Len(q) <= MAX_BUFFER_REPORT_CNT /\ IsInjective(q) /\ Range(q) \cap Mids(atiny.list) = {}
      /\ Waits(atiny.list) /\ UniqueMids(atiny.list)
  BY <1>1 DEF ReportInv, AgentInv, Agent, Line
<1>3. /\ r \in Report /\ r \in Range(q) /\ p \in Seq(Report) /\ Len(p) = Len(q) - 1
      /\ Range(p) \subseteq Range(q) /\ IsInjective(p) /\ r \notin Range(p)
  BY <1>1, <1>2, TailFacts
<1>4. n \in Int /\ n = Len(p) /\ Len(p) <= MAX_BUFFER_REPORT_CNT
  BY <1>2, <1>3, ReportAssumption
<1>5. i \in DOMAIN atiny.observed
  BY <1>1, <1>2, FindFacts
<1> HIDE DEF q, r, p, n, i, t
<1>6. /\ rest \in Agent /\ rest.rpt_list = p /\ rest.rpt_node_cnt = n /\ rest.list = atiny.list
      /\ rest.told = atiny.told /\ rest.pc = atiny.pc /\ rest.observed = atiny.observed
  BY <1>2, <1>3, <1>4 DEF Agent
<1>7. CASE ~atiny.observed[i].active
  <2>1. atiny' = rest /\ wire' = wire
    BY <1>1, <1>7
  <2>2. ReportInv'
    BY <1>1, <1>2, <1>3, <1>4, <1>6, <2>1 DEF ReportInv, AgentInv, Line
  <2>3. Service!Forget
    BY <1>1, <1>6, <2>1 DEF Service!Forget, Outstanding, q, p
  <2>4. Cancels(atiny, atiny') /\ Delivers(atiny, atiny', replies)
    BY <1>6, <2>1 DEF Cancels, prv_findObserved, Delivers
  <2> QED BY <2>2, <2>3, <2>4 DEF StepOK, ServiceStep, Service!Next
<1>8. CASE atiny.observed[i].active
  <2> DEFINE o == [atiny.observed EXCEPT ![i].lastMid = r]
             a == [rest EXCEPT !.observed = o]
             b == transaction_send(a, {t})
  <2>1. o \in Seq(Observation) /\ DOMAIN o = DOMAIN atiny.observed
        /\ \A j \in DOMAIN o : o[j].uri = atiny.observed[j].uri
    <3> DEFINE s == atiny.observed
               v == [s[i] EXCEPT !.lastMid = r]
    <3>1. s \in Seq(Observation) /\ s[i] \in Observation
      BY <1>2, <1>5 DEF Agent
    <3>2. v \in Observation /\ v.uri = s[i].uri
      BY <1>3, <3>1 DEF Observation
    <3>3. o = [s EXCEPT ![i] = v]
      OBVIOUS
    <3> HIDE DEF s, v, o
    <3> QED BY <1>5, <3>1, <3>2, <3>3 DEF s
  <2> HIDE DEF o
  <2>2. /\ a \in Agent /\ a.rpt_list = p /\ a.rpt_node_cnt = n /\ a.list = atiny.list
        /\ a.told = atiny.told /\ a.pc = atiny.pc /\ a.observed = o
    BY <1>6, <2>1 DEF Agent
  <2>3. atiny' = b /\ Wired({r})
    BY <1>1, <1>6, <1>8 DEF o
  <2> HIDE DEF a, rest
  <2>4. /\ t \in Transaction /\ t.mid = r /\ Transmits(t) /\ ~EndsUnanswered(t)
    BY <1>3, NewFacts DEF t
  <2>5. r \notin Mids(atiny.list)
    BY <1>2, <1>3
  <2>6. UniqueMids(a.list \cup {t})
    BY <1>2, <2>2, <2>4, <2>5 DEF UniqueMids, Mids
  <2>7. Ended({t}) = {} /\ Mids({}) = {} /\ {t} \subseteq Transaction
    BY <2>4 DEF Mids, Ended
  <2>8. /\ b \in Agent /\ Waits(b.list) /\ UniqueMids(b.list)
        /\ Mids(b.list) = Mids(a.list \cup {t}) \ {}
        /\ b = [a EXCEPT !.told = Telling(a, {}, "SENT_TIME_OUT"), !.list = b.list]
    <3>1. Waits(a.list) /\ \A u \in {t} : u \in a.list \/ (Transmits(u) /\ ~EndsUnanswered(u))
      BY <1>2, <2>2, <2>4
    <3> DEFINE s == {t}
    <3> HIDE DEF s, b
    <3>2. /\ s \subseteq Transaction /\ UniqueMids(a.list \cup s)
          /\ \A u \in s : u \in a.list \/ (Transmits(u) /\ ~EndsUnanswered(u))
          /\ b = transaction_send(a, s) /\ Mids(Ended(s)) = {} /\ a.list \cup {t} = a.list \cup s
      BY <2>6, <2>7, <3>1 DEF s, b
    <3>3. /\ b \in Agent /\ Waits(b.list) /\ UniqueMids(b.list)
          /\ Mids(b.list) = Mids(a.list \cup s) \ Mids(Ended(s))
          /\ b = [a EXCEPT !.told = Telling(a, Mids(Ended(s)), "SENT_TIME_OUT"), !.list = b.list]
      BY <2>2, <3>1, <3>2, SendFacts
    <3> QED BY <3>2, <3>3
  <2> HIDE DEF b
  <2>9. Telling(a, {}, "SENT_TIME_OUT") = a.told
    BY <2>2, NothingCleared
  <2>10. /\ b.told = atiny.told /\ b.rpt_list = p /\ b.rpt_node_cnt = n /\ b.pc = atiny.pc
         /\ b.observed = o
    BY <2>2, <2>8, <2>9 DEF Agent
  <2>11. Mids(b.list) = Mids(atiny.list) \cup {r}
    BY <2>2, <2>4, <2>8 DEF Mids
  <2>12. ReportInv'
    <3>1. wire' \subseteq Report /\ replies' \subseteq ServerReply
      BY <1>1, <1>3, <2>3 DEF ReportInv, Wired
    <3> QED BY <1>2, <1>3, <1>4, <2>3, <2>8, <2>10, <2>11, <3>1 DEF ReportInv, AgentInv, Line
  <2>13. Service!Send
    BY <1>1, <2>3, <2>10, <2>11 DEF Service!Send, Outstanding, q, p, r
  <2>14. Cancels(atiny, atiny') /\ Delivers(atiny, atiny', replies)
    <3>1. Cancels(atiny, b)
      BY <1>2, <2>1, <2>8, <2>10, CancelsNone
    <3> QED BY <2>3, <2>10, <3>1 DEF Delivers
  <2> QED BY <2>12, <2>13, <2>14 DEF StepOK, ServiceStep, Service!Next
<1> QED BY <1>7, <1>8

LEMMA TransactionStep ==
  ASSUME ReportInv, transaction_step
  PROVE  StepOK
<1> DEFINE due == {t \in atiny.list : t.retrans <= 0}
           ended == Ended(due)
           b == transaction_send(atiny, due)
<1>1. /\ atiny.pc = "observe" /\ atiny' = [b EXCEPT !.pc = "poll"]
      /\ Wired(Mids({t \in due : Transmits(t)})) /\ UNCHANGED replies
  BY DEF transaction_step
<1>2. /\ atiny \in Agent /\ due \subseteq Transaction /\ due \subseteq atiny.list
      /\ UniqueMids(atiny.list) /\ Waits(atiny.list) /\ atiny.list \cup due = atiny.list
  BY DEF ReportInv, AgentInv, Agent
<1> HIDE DEF due
<1>3. /\ b \in Agent /\ Waits(b.list) /\ UniqueMids(b.list)
      /\ Mids(b.list) = Mids(atiny.list) \ Mids(ended) /\ Mids(ended) \subseteq Mids(atiny.list)
      /\ b = [atiny EXCEPT !.told = Telling(atiny, Mids(ended), "SENT_TIME_OUT"), !.list = b.list]
  BY <1>2, SendFacts
<1> DEFINE told == Telling(atiny, Mids(ended), "SENT_TIME_OUT")
<1> HIDE DEF b, told, ended
<1>4. /\ b.told = told /\ b.rpt_list = atiny.rpt_list /\ b.rpt_node_cnt = atiny.rpt_node_cnt
      /\ b.observed = atiny.observed
  <2>1. b = [atiny EXCEPT !.told = told, !.list = b.list]
    BY <1>3 DEF told
  <2> QED BY <1>2, <1>3, <2>1 DEF Agent
<1>5. /\ atiny' \in Agent /\ atiny'.pc = "poll" /\ atiny'.list = b.list /\ atiny'.told = told
      /\ atiny'.rpt_list = atiny.rpt_list /\ atiny'.rpt_node_cnt = atiny.rpt_node_cnt
      /\ atiny'.observed = atiny.observed
  BY <1>1, <1>3, <1>4 DEF Agent
<1>6. Concludes(atiny, atiny')
  <2> DEFINE s == Mids(ended)
             o == [r \in s |-> "SENT_TIME_OUT"]
  <2>1. o \in [s -> Service!SentOutcome] /\ "NOT_SENT" \in Service!WaitOutcome
    BY DEF Service!SentOutcome, Service!WaitOutcome
  <2>2. /\ 0 \in 0 .. Len(atiny.rpt_list) /\ Oldest(atiny, 0) = {}
        /\ SubSeq(atiny.rpt_list, 0 + 1, Len(atiny.rpt_list)) = atiny.rpt_list
    BY <1>2, NothingCleared
  <2>3. atiny'.told = Outcomes(atiny, 0, s, o, "NOT_SENT")
    BY <1>5, <2>2 DEF Outcomes, told, Telling
  <2>4. s \in SUBSET Mids(atiny.list) /\ Mids(atiny'.list) = Mids(atiny.list) \ s
    BY <1>3, <1>5
  <2> HIDE DEF s, o
  <2> QED BY <1>5, <2>1, <2>2, <2>3, <2>4 DEF Concludes
<1>7. AgentInv(atiny)
  BY DEF ReportInv
<1>8. AgentInv(atiny')
  <2>1. atiny'.rpt_node_cnt = Len(atiny'.rpt_list)
    BY <1>1, <1>5, <1>7 DEF AgentInv, Line
  <2> QED BY <1>3, <1>5, <1>6, <1>7, <2>1, ConcludesInv
<1>9. wire' \subseteq Report
  <2>1. Mids({t \in due : Transmits(t)}) \subseteq Report
    BY <1>2 DEF Mids, Transaction
  <2> QED BY <1>1, <2>1 DEF Wired, ReportInv
<1>10. ReportInv'
  BY <1>1, <1>8, <1>9 DEF ReportInv
<1>11. ServiceStep
  BY <1>1, <1>5, <1>6, ServiceConcludes
<1>12. Cancels(atiny, atiny') /\ Delivers(atiny, atiny', replies)
  BY <1>5 DEF Cancels, Delivers, prv_findObserved, told, Telling
<1> QED BY <1>10, <1>11, <1>12 DEF StepOK

\* The end of a turn of the loop, after reply m or without one of ours.
LEMMA PolledStep ==
  ASSUME ReportInv, atiny.pc = "poll", NEW b \in Agent, NEW m, Handles(atiny, b, m),
         atiny' = Polled(b), m \in replies \/ m.mid \notin Report,
         wire' \subseteq Report, replies' \subseteq ServerReply
  PROVE  StepOK
<1>1. /\ AgentInv(atiny') /\ Concludes(atiny, atiny') /\ atiny'.pc \in {"stuck", "observe"}
      /\ Cancels(atiny, atiny') /\ Delivers(atiny, atiny', {m})
  BY PolledFacts DEF ReportInv
<1>2. ServiceStep
  BY <1>1, ServiceConcludes
<1>3. Delivers(atiny, atiny', replies)
  BY <1>1 DEF Delivers
<1> QED BY <1>1, <1>2, <1>3 DEF StepOK, ReportInv

LEMMA ReplyStep ==
  ASSUME ReportInv, NEW m \in replies, HandleReply(m)
  PROVE  StepOK
<1>1. PICK b \in lwm2m_handle_packet(atiny, m) : atiny' = Polled(b)
  BY DEF HandleReply
<1>2. /\ atiny.pc = "poll" /\ AgentInv(atiny) /\ m \in ServerReply
      /\ wire' \subseteq Report /\ replies' \subseteq ServerReply
  BY DEF HandleReply, ReportInv
<1>3. Handles(atiny, b, m)
  BY <1>2, PacketFacts
<1>4. b \in Agent
  BY <1>3 DEF Handles
<1> QED BY <1>1, <1>2, <1>3, <1>4, PolledStep

LEMMA ClearedStep ==
  ASSUME ReportInv, atiny.pc = "poll", NEW b, Clears(atiny, b), atiny' = Polled(b),
         UNCHANGED <<wire, replies>>
  PROVE  StepOK
<1> DEFINE m == [mid |-> NoMid]
<1>1. m.mid \notin Report
  BY ReportAssumption
<1> HIDE DEF m
<1>2. AgentInv(atiny) /\ b \in Agent /\ wire' \subseteq Report /\ replies' \subseteq ServerReply
  BY DEF ReportInv, Clears
<1>3. Handles(atiny, b, m)
  BY <1>2, ClearsHandles
<1> QED BY <1>1, <1>2, <1>3, PolledStep

\* The server's requests change the observations, and only a cancellation and the
\* deletion of the instance touch the line.
LEMMA ObservedStep ==
  ASSUME ReportInv, atiny.pc = "poll", NEW o \in Seq(Observation), NEW x \in BOOLEAN,
         atiny' = Polled([atiny EXCEPT !.observed = o, !.exists = x]),
         \A i \in DOMAIN atiny.observed :
           atiny.observed[i].uri = "App" => \E j \in DOMAIN o : o[j].uri = "App",
         UNCHANGED <<wire, replies>>
  PROVE  StepOK
<1> DEFINE b == [atiny EXCEPT !.observed = o, !.exists = x]
<1>1. AgentInv(atiny) /\ atiny \in Agent
  BY DEF ReportInv, AgentInv
<1>2. /\ b \in Agent /\ b.list = atiny.list /\ b.pc = atiny.pc /\ b.rpt_list = atiny.rpt_list
      /\ b.rpt_node_cnt = atiny.rpt_node_cnt /\ b.told = atiny.told /\ b.observed = o
  BY <1>1 DEF Agent
<1>3. atiny' = Polled(b)
  OBVIOUS
<1> HIDE DEF b
<1>4. Cancels(atiny, b)
  BY <1>1, <1>2, CancelsNone
<1>5. Clears(atiny, b)
  BY <1>1, <1>2, <1>4, ClearsNone
<1> QED BY <1>3, <1>5, ClearedStep

LEMMA WatcherFacts ==
  ASSUME NEW a \in Agent, NEW uri \in {"App", "Other"}
  PROVE  LET o == prv_getWatcher(a, uri).observed
         IN  /\ prv_getWatcher(a, uri) = [a EXCEPT !.observed = o] /\ o \in Seq(Observation)
             /\ \A i \in DOMAIN a.observed : \E j \in DOMAIN o : o[j].uri = a.observed[i].uri
<1> DEFINE w == [uri |-> uri, active |-> FALSE, lastMid |-> NoMid]
           n == <<w>> \o a.observed
           s == a.observed
<1>1. s \in Seq(Observation) /\ w \in Observation
  BY DEF Agent, Observation
<1>2. CASE prv_findObserved(a, uri) # 0
  <2>1. prv_getWatcher(a, uri) = a
    BY <1>2 DEF prv_getWatcher
  <2>2. a = [a EXCEPT !.observed = s]
    BY DEF Agent
  <2> QED BY <1>1, <2>1, <2>2
<1>3. CASE prv_findObserved(a, uri) = 0
  <2>1. prv_getWatcher(a, uri) = [a EXCEPT !.observed = n]
    BY <1>3 DEF prv_getWatcher
  <2> HIDE DEF w, s
  <2>2. n \in Seq(Observation) /\ \A i \in DOMAIN s : i + 1 \in DOMAIN n /\ n[i + 1] = s[i]
    BY <1>1 DEF s
  <2> HIDE DEF n
  <2>3. [a EXCEPT !.observed = n].observed = n
    BY DEF Agent
  <2> QED BY <2>1, <2>2, <2>3 DEF s
<1> QED BY <1>2, <1>3

LEMMA RequestStep ==
  ASSUME ReportInv, HandleRequest
  PROVE  StepOK
<1>1. /\ atiny.pc = "poll" /\ UNCHANGED <<wire, replies>> /\ AgentInv(atiny) /\ atiny \in Agent
      /\ atiny.observed \in Seq(Observation) /\ atiny.exists \in BOOLEAN
  BY DEF HandleRequest, ReportInv, AgentInv, Agent
<1>2. ASSUME NEW uri \in {"App", "Other"}, observe_handleRequest(uri)
      PROVE  StepOK
  <2> DEFINE a == prv_getWatcher(atiny, uri)
             s == a.observed
             i == prv_findObserved(a, uri)
             o == [s EXCEPT ![i].active = TRUE]
             x == atiny.exists
  <2>1. atiny' = Polled([a EXCEPT !.observed[i].active = TRUE])
    BY <1>2 DEF observe_handleRequest
  <2>2. /\ a = [atiny EXCEPT !.observed = s] /\ s \in Seq(Observation)
        /\ \A k \in DOMAIN atiny.observed : \E j \in DOMAIN s : s[j].uri = atiny.observed[k].uri
    BY SMTT(30), <1>1, WatcherFacts
  <2> HIDE DEF a, i
  <2>3. o \in Seq(Observation) /\ DOMAIN o = DOMAIN s /\ \A j \in DOMAIN s : o[j].uri = s[j].uri
    <3> HIDE DEF s
    <3>1. CASE i \in DOMAIN s
      <4> DEFINE y == TRUE
                 v == [s[i] EXCEPT !.active = y]
      <4>0. s[i] \in Observation /\ y \in BOOLEAN
        BY <2>2, <3>1
      <4>1. v \in Observation /\ v.uri = s[i].uri
        <5> HIDE DEF y
        <5> QED BY <4>0 DEF Observation
      <4>2. o = [s EXCEPT ![i] = v]
        OBVIOUS
      <4> HIDE DEF v, o
      <4> QED BY <2>2, <3>1, <4>1, <4>2
    <3>2. CASE i \notin DOMAIN s
      <4>1. s = [j \in DOMAIN s |-> s[j]]
        BY <2>2
      <4>2. o = s
        BY <3>2, <4>1
      <4> QED BY <2>2, <4>2
    <3> QED BY <3>1, <3>2
  <2>4. [a EXCEPT !.observed[i].active = TRUE] = [atiny EXCEPT !.observed = o, !.exists = x]
    <3>1. [a EXCEPT !.observed[i].active = TRUE] = [a EXCEPT !.observed = o]
      OBVIOUS
    <3> HIDE DEF o, s
    <3>2. [a EXCEPT !.observed = o] = [atiny EXCEPT !.observed = o, !.exists = x]
      BY <1>1, <2>2 DEF Agent
    <3> QED BY <3>1, <3>2
  <2>5. \A k \in DOMAIN atiny.observed :
          atiny.observed[k].uri = "App" => \E j \in DOMAIN o : o[j].uri = "App"
    <3> HIDE DEF o, s
    <3> QED BY <2>2, <2>3
  <2> HIDE DEF o, s
  <2> QED BY <1>1, <2>1, <2>3, <2>4, <2>5, ObservedStep
<1>3. ASSUME observe_setParameters
      PROVE  StepOK
  <2> DEFINE a == prv_getWatcher(atiny, "App")
             o == a.observed
             x == atiny.exists
  <2>1. atiny' = Polled(a)
    BY <1>3 DEF observe_setParameters
  <2>2. /\ a = [atiny EXCEPT !.observed = o] /\ o \in Seq(Observation)
        /\ \A k \in DOMAIN atiny.observed : \E j \in DOMAIN o : o[j].uri = atiny.observed[k].uri
    BY <1>1, WatcherFacts
  <2> HIDE DEF o
  <2>3. [atiny EXCEPT !.observed = o] = [atiny EXCEPT !.observed = o, !.exists = x]
    BY <1>1, <2>2 DEF Agent
  <2> HIDE DEF a
  <2>4. \A k \in DOMAIN atiny.observed :
          atiny.observed[k].uri = "App" => \E j \in DOMAIN o : o[j].uri = "App"
    BY <2>2
  <2>5. atiny' = Polled([atiny EXCEPT !.observed = o, !.exists = x])
    BY <2>1, <2>2, <2>3
  <2> HIDE DEF x
  <2>6. x \in BOOLEAN /\ o \in Seq(Observation)
    BY <1>1, <2>2 DEF x
  <2> QED BY <1>1, <2>4, <2>5, <2>6, ObservedStep
<1>4. ASSUME CancelObserve
      PROVE  StepOK
  <2>1. 1 \in DOMAIN atiny.observed
    BY <1>1, <1>4 DEF CancelObserve
  <2>2. PICK b \in observe_cancel(atiny, 1) : atiny' = Polled(b)
    BY <1>4 DEF CancelObserve
  <2>3. Clears(atiny, b)
    BY <1>1, <2>1, CancelFacts
  <2> QED BY <1>1, <2>2, <2>3, ClearedStep
<1>5. ASSUME prv_delete
      PROVE  StepOK
  <2> DEFINE d == [atiny EXCEPT !.exists = FALSE]
  <2>1. PICK e \in ClearOutcomes(d, "NOT_SENT") :
               atiny' = IF e.pc = "stuck" THEN e
                        ELSE Polled([e EXCEPT !.observed =
                                       RemoveFirstMatch(@, LAMBDA o : o.uri = "App")])
    BY <1>5 DEF prv_delete
  <2>2. /\ d \in Agent /\ d.list = atiny.list /\ d.pc = atiny.pc /\ d.rpt_list = atiny.rpt_list
        /\ d.told = atiny.told
    BY <1>1 DEF Agent
  <2> HIDE DEF d
  <2>3. /\ e \in Agent /\ e.list = atiny.list
        /\ \E k \in 0 .. Len(d.rpt_list) :
             /\ e.rpt_list = SubSeq(d.rpt_list, k + 1, Len(d.rpt_list))
             /\ e.told = Telling(d, Oldest(d, k), "NOT_SENT")
        /\ e.pc = "stuck" \/ (e.pc = atiny.pc /\ e.rpt_list = <<>> /\ e.rpt_node_cnt = 0)
    BY <2>2, ClearFacts
  <2>4. \A k : Telling(d, Oldest(d, k), "NOT_SENT") = Telling(atiny, Oldest(atiny, k), "NOT_SENT")
    BY <2>2 DEF Telling, Oldest
  <2>5. "NOT_SENT" \in Service!WaitOutcome
    BY DEF Service!WaitOutcome
  <2> DEFINE o == RemoveFirstMatch(e.observed, LAMBDA v : v.uri = "App")
             b == IF e.pc = "stuck" THEN e ELSE [e EXCEPT !.observed = o]
  <2>6. o \in Seq(Observation)
    BY <2>3, RemoveAppFacts
  <2>7. atiny' = Polled(b)
    <3>1. e.pc = "stuck" => Polled(e) = e
      BY <2>3 DEF Polled, Agent
    <3> QED BY <2>1, <3>1
  <2> HIDE DEF o
  <2>8. /\ b \in Agent /\ b.list = e.list /\ b.rpt_list = e.rpt_list /\ b.told = e.told
        /\ b.pc = e.pc /\ b.rpt_node_cnt = e.rpt_node_cnt
    BY <2>3, <2>6 DEF Agent
  <2> HIDE DEF b
  <2>9. Cancels(atiny, b) /\ (e.rpt_list = <<>> => Len(e.rpt_list) = 0)
    BY <2>3, <2>8 DEF Cancels
  <2>10. Clears(atiny, b)
    BY <2>2, <2>3, <2>4, <2>5, <2>8, <2>9 DEF Clears
  <2> QED BY <1>1, <2>7, <2>10, ClearedStep
<1>6. ASSUME prv_create
      PROVE  StepOK
  <2> DEFINE o == atiny.observed
             x == TRUE
  <2>1. atiny' = Polled([atiny EXCEPT !.exists = x])
    BY <1>6 DEF prv_create
  <2>2. [atiny EXCEPT !.exists = x] = [atiny EXCEPT !.observed = o, !.exists = x] /\ x \in BOOLEAN
    BY <1>1 DEF Agent
  <2>3. \A i \in DOMAIN atiny.observed :
          atiny.observed[i].uri = "App" => \E j \in DOMAIN o : o[j].uri = "App"
    OBVIOUS
  <2> HIDE DEF x
  <2> QED BY <1>1, <2>1, <2>2, <2>3, ObservedStep
<1> QED BY <1>2, <1>3, <1>4, <1>5, <1>6 DEF HandleRequest

LEMMA NoPacketStep ==
  ASSUME ReportInv, NoPacket
  PROVE  StepOK
<1>1. /\ atiny.pc = "poll" /\ atiny' = Polled(atiny) /\ UNCHANGED <<wire, replies>>
      /\ AgentInv(atiny) /\ atiny \in Agent
  BY DEF NoPacket, ReportInv, AgentInv
<1>2. Cancels(atiny, atiny)
  BY DEF Cancels
<1>3. Clears(atiny, atiny)
  BY <1>1, <1>2, ClearsNone
<1> QED BY <1>1, <1>3, ClearedStep

LEMMA DestroyStep ==
  ASSUME ReportInv, atiny_detroy
  PROVE  StepOK
<1> DEFINE told == Telling(atiny, Queued, "NOT_SENT")
           p == "ended"
           e == <<>>
           l == {}
<1>1. /\ atiny.pc = "observe" /\ UNCHANGED <<wire, replies>>
      /\ atiny' = [Tell(atiny, Queued, "NOT_SENT") EXCEPT
                     !.pc = p, !.rpt_list = e, !.observed = e, !.list = l]
  BY DEF atiny_detroy
<1>2. atiny \in Agent /\ DOMAIN atiny.rpt_list = 1 .. Len(atiny.rpt_list)
  BY DEF ReportInv, AgentInv, Agent
<1>3. /\ told \in [Report -> Outcome]
      /\ Tell(atiny, Queued, "NOT_SENT") = [atiny EXCEPT !.told = told]
  <2>1. "NOT_SENT" \in Outcome
    BY DEF Outcome
  <2>2. told \in [Report -> Outcome]
    BY <1>2, <2>1 DEF Telling, Agent
  <2> QED BY <1>2, <2>1, <2>2, TellFacts
<1>4. /\ e \in Seq(Report) /\ e \in Seq(Observation) /\ l \in SUBSET Transaction
      /\ p \in {"observe", "poll", "stuck", "ended"}
  OBVIOUS
<1>5. /\ Len(e) <= MAX_BUFFER_REPORT_CNT /\ IsInjective(e) /\ Range(e) = {} /\ Mids(l) = {}
      /\ Waits(l) /\ UniqueMids(l)
  BY ReportAssumption DEF IsInjective, Range, Mids, Waits, UniqueMids
<1> HIDE DEF told, e, l
<1>6. /\ atiny' \in Agent /\ atiny'.pc = p /\ atiny'.rpt_list = e /\ atiny'.list = l
      /\ atiny'.told = told
  BY <1>1, <1>2, <1>3, <1>4 DEF Agent
<1>7. ReportInv'
  BY <1>1, <1>5, <1>6 DEF ReportInv, AgentInv, Line
<1>8. Service!Stop
  <2>1. Service!FirstPending(Len(atiny.rpt_list)) = Queued
    BY <1>2 DEF Service!FirstPending, Queued, Range
  <2> QED BY <1>1, <1>5, <1>6, <2>1 DEF Service!Stop, Outstanding, told, Telling, e
<1>9. Cancels(atiny, atiny')
  BY <1>6 DEF Cancels, e
<1>10. Delivers(atiny, atiny', replies)
  BY <1>6 DEF Delivers, told, Telling
<1> QED BY <1>7, <1>8, <1>9, <1>10 DEF StepOK, ServiceStep, Service!Next

LEMMA TickStep ==
  ASSUME ReportInv, Tick
  PROVE  StepOK
<1> DEFINE l == {Elapse(t) : t \in atiny.list}
<1>1. atiny' = [atiny EXCEPT !.list = l] /\ UNCHANGED <<wire, replies>>
  BY DEF Tick
<1>2. /\ atiny \in Agent /\ atiny.list \subseteq Transaction
      /\ Waits(atiny.list) /\ UniqueMids(atiny.list)
  BY DEF ReportInv, AgentInv, Agent
<1>3. \A t \in atiny.list :
        Elapse(t) \in Transaction /\ Elapse(t).mid = t.mid /\ Elapse(t).status = t.status
  BY <1>2, ElapseFacts
<1>4. l \in SUBSET Transaction /\ Waits(l) /\ UniqueMids(l)
  BY <1>2, <1>3 DEF Waits, UniqueMids
<1>5. Mids(l) = Mids(atiny.list)
  BY <1>3 DEF Mids
<1> HIDE DEF l
<1>6. /\ atiny' \in Agent /\ atiny'.pc = atiny.pc /\ atiny'.rpt_list = atiny.rpt_list
      /\ atiny'.rpt_node_cnt = atiny.rpt_node_cnt /\ atiny'.told = atiny.told
      /\ atiny'.observed = atiny.observed /\ atiny'.list = l
  BY <1>1, <1>2, <1>4 DEF Agent
<1>7. ReportInv'
  BY <1>1, <1>4, <1>5, <1>6 DEF ReportInv, AgentInv, Line
<1>8. ServiceStep
  BY <1>5, <1>6, ServiceStutters
<1>9. Cancels(atiny, atiny') /\ Delivers(atiny, atiny', replies)
  BY <1>6 DEF Cancels, Delivers, prv_findObserved
<1> QED BY <1>7, <1>8, <1>9 DEF StepOK

LEMMA ServerStep ==
  ASSUME ReportInv, NEW r \in wire, ServerReplies(r)
  PROVE  StepOK
<1>1. PICK type \in {"ACK", "RST"} :
             replies' = replies \cup {[type |-> type, mid |-> r, token |-> NoMid, code |-> "0.00"]}
  BY DEF ServerReplies
<1>2. wire' \subseteq Report /\ UNCHANGED atiny /\ r \in Report
  BY DEF ServerReplies, ReportInv
<1>3. replies' \subseteq ServerReply
  BY <1>1, <1>2 DEF ReportInv, ServerReply
<1> QED BY <1>2, <1>3, IdleStep

LEMMA NextStep ==
  ASSUME ReportInv, [Next]_vars
  PROVE  StepOK
<1>1. ASSUME NEW r \in FreeReports, atiny_data_report(r) PROVE StepOK
  BY <1>1, TakeStep
<1>2. ASSUME AgentStep PROVE StepOK
  BY <1>2, AppStep, TransactionStep, RequestStep, NoPacketStep, ReplyStep DEF AgentStep
<1>3. ASSUME Lose PROVE StepOK
  BY <1>3, IdleStep DEF Lose
<1>4. ASSUME UNCHANGED vars PROVE StepOK
  BY <1>4, IdleStep DEF vars, ReportInv
<1> QED BY <1>1, <1>2, <1>3, <1>4, DestroyStep, TickStep, ServerStep DEF Next

LEMMA InitInv == Init => ReportInv
<1> SUFFICES ASSUME Init PROVE ReportInv
  OBVIOUS
<1> DEFINE e == <<>>
           l == {}
           told == [r \in Report |-> "none"]
           n == 0
           x == TRUE
<1>1. /\ atiny = [pc |-> "observe", rpt_list |-> e, rpt_node_cnt |-> n, observed |-> e,
                  list |-> l, exists |-> x, told |-> told]
      /\ wire = {} /\ replies = {}
  BY DEF Init
<1>2. /\ e \in Seq(Report) /\ e \in Seq(Observation) /\ l \in SUBSET Transaction
      /\ told \in [Report -> Outcome] /\ n \in Int /\ x \in BOOLEAN /\ n = Len(e)
  BY DEF Outcome
<1>3. /\ Len(e) <= MAX_BUFFER_REPORT_CNT /\ IsInjective(e) /\ Range(e) = {} /\ Mids(l) = {}
      /\ Waits(l) /\ UniqueMids(l)
  BY ReportAssumption DEF IsInjective, Range, Mids, Waits, UniqueMids
<1> HIDE DEF e, l, told, n, x
<1>4. atiny \in Agent
  BY <1>1, <1>2 DEF Agent
<1> QED BY <1>1, <1>2, <1>3, <1>4 DEF ReportInv, AgentInv, Line

----------------------------------------------------------------------------
\* The invariant of the reports holds whatever the application, the server and the
\* network do, and however late the agent task runs.
THEOREM ReportInvariance == Spec => []ReportInv
<1>1. Init => ReportInv
  BY InitInv
<1>2. ReportInv /\ [Next]_vars => ReportInv'
  BY NextStep DEF StepOK
<1> QED BY <1>1, <1>2, PTL DEF Spec

\* The counter of the list says how long it is, the list never grows beyond its limit, and
\* a report is in the list or with one transaction, never twice and never in both.
THEOREM ReportsInOnePlace == Spec => []EachInOnePlace
<1>1. ReportInv => EachInOnePlace
  BY InvImplies
<1> QED BY <1>1, ReportInvariance, PTL

\* AgentTiny implements ReportService: what the callback of a report is told, and when, is
\* one of the outcomes atiny_data_report promises.
THEOREM ReportsImplement == Spec => ImplementsReports
<1>1. Init => Service!Init
  BY DEF Init, Service!Init, Outstanding, Mids
<1>2. ReportInv /\ [Next]_vars => [Service!Next]_(Service!rvars)
  BY NextStep DEF StepOK, ServiceStep
<1> QED BY <1>1, <1>2, ReportInvariance, PTL DEF Spec, ImplementsReports, Service!Spec

\* A cancellation by reset, by request or by the deletion of the instance leaves no report
\* of the resource waiting, unless a callback locked up the agent.
THEOREM CancellationConcludes == Spec => CancelConcludesReports
<1>1. ReportInv /\ [Next]_vars
        => [prv_findObserved(atiny, "App") # 0 /\ prv_findObserved(atiny', "App") = 0
              => atiny'.rpt_list = <<>> \/ atiny'.pc = "stuck"]_vars
  BY NextStep DEF StepOK, Cancels
<1> QED BY <1>1, ReportInvariance, PTL DEF Spec, CancelConcludesReports

\* A callback is told SENT_SUCCESS only when an acknowledgement with the report's own mID
\* arrives: lost, doubled and late messages never confirm another report.
THEOREM SuccessAcknowledged == Spec => SuccessIsAcknowledged
<1>1. ReportInv /\ [Next]_vars
        => [\A r \in Report :
              atiny.told[r] = "none" /\ atiny'.told[r] = "SENT_SUCCESS"
                => \E m \in replies : m.mid = r /\ m.type = "ACK"]_vars
  BY NextStep DEF StepOK, Delivers
<1> QED BY <1>1, ReportInvariance, PTL DEF Spec, SuccessIsAcknowledged
=============================================================================
