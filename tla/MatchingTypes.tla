--------------------------- MODULE MatchingTypes ---------------------------
(*****************************************************************************)
(* Where a message and a request of Matching may be, for any number of       *)
(* senders, messages, requests and crashes: the types of the variables and   *)
(* the place that the sequence number of a message gives it.                 *)
(*****************************************************************************)
EXTENDS Matching, TLAPS

Message == Srcs \X (Nat \ {0})
Sending == [tag : Int, kind : {"match", "rndv"}, done : BOOLEAN]
Requests ==
  [src : Srcs \cup {AnySource}, tag : Int, st : {"posted", "matched", "complete"},
   from : Message \cup {None}, err : {"none", "revoked", "pending", "failed"}]
Answerings == [msg : Message, req : Nat]

(* The types of the variables.                                             *)
Types ==
  /\ sent \in [Srcs -> Seq(Sending)]
  /\ crashed \in SUBSET Srcs
  /\ net \in SUBSET Message
  /\ acks \in SUBSET Answerings /\ data \in SUBSET Answerings
  /\ expected \in [Srcs -> Nat \ {0}]
  /\ cantMatch \in [Srcs -> SUBSET Message]
  /\ unexpected \in [Srcs -> SUBSET Message]
  /\ req \in Seq(Requests)
  /\ known \in SUBSET crashed

(* Where a message is follows from its sequence number: what is before the *)
(* expected one has been matched or waits for a request, and the others    *)
(* are on the way or came too early.                                       *)
Placed ==
  /\ \A s \in Srcs :
       /\ expected[s] <= Len(sent[s]) + 1
       /\ \A m \in cantMatch[s] :
            m \in Sent /\ m \notin net /\ m[1] = s /\ m[2] >= expected[s]
       /\ \A m \in unexpected[s] : m \in Sent /\ m[1] = s /\ m[2] < expected[s]
  /\ \A m \in net : m \in Sent /\ m[2] >= expected[m[1]]

(* Answers are about messages and requests that exist, and data follows    *)
(* only when a request was named.                                          *)
Answering ==
  /\ \A a \in acks \cup data : a.msg \in Sent /\ a.req \in 0..Len(req)
  /\ \A a \in data : a.req # 0

(* What a request has got was sent, and was in its turn.                   *)
Origins ==
  \A i \in Reqs :
    /\ req[i].st = "matched" => req[i].from # None
    /\ req[i].from # None =>
         req[i].from \in Sent /\ req[i].from[2] < expected[req[i].from[1]]

(* The messages that the sequences of sends f stand for.                   *)
LEMMA SentOf ==
  ASSUME NEW f \in [Srcs -> Seq(Sending)], NEW m
  PROVE  m \in UNION {{<<s, n>> : n \in 1..Len(f[s])} : s \in Srcs}
         <=> m \in Message /\ m[2] <= Len(f[m[1]])
  <1>1. \A s \in Srcs : Len(f[s]) \in Nat OBVIOUS
  <1>2. ASSUME m \in UNION {{<<s, n>> : n \in 1..Len(f[s])} : s \in Srcs}
        PROVE  m \in Message /\ m[2] <= Len(f[m[1]])
    <2>1. PICK s \in Srcs : m \in {<<s, n>> : n \in 1..Len(f[s])} BY <1>2
    <2>2. PICK n \in 1..Len(f[s]) : m = <<s, n>> BY <2>1
    <2> QED BY <1>1, <2>2 DEF Message
  <1>3. ASSUME m \in Message, m[2] <= Len(f[m[1]])
        PROVE  m \in UNION {{<<s, n>> : n \in 1..Len(f[s])} : s \in Srcs}
    <2>1. m[1] \in Srcs /\ m[2] \in 1..Len(f[m[1]]) /\ m = <<m[1], m[2]>>
      BY <1>1, <1>3 DEF Message
    <2> QED BY <2>1
  <1> QED BY <1>2, <1>3

(* A message is its sender and its place among those sent.                 *)
LEMMA SentIs ==
  ASSUME Types, NEW m \in Sent
  PROVE  /\ m \in Message /\ m[1] \in Srcs /\ m = <<m[1], m[2]>>
         /\ m[2] \in 1..Len(sent[m[1]]) /\ Len(sent[m[1]]) \in Nat
  <1>1. m \in Message /\ m[2] <= Len(sent[m[1]]) BY SentOf DEF Types, Sent
  <1> QED BY <1>1 DEF Types, Message

(* What was sent keeps its tag and its protocol.                           *)
LEMMA SentKept ==
  ASSUME Types, Answering, [Next]_vars, sent' \in [Srcs -> Seq(Sending)], NEW m \in Sent
  PROVE  m \in Sent' /\ Tag(m)' = Tag(m) /\ Kind(m)' = Kind(m)
  <1>1. m \in Message /\ m[1] \in Srcs /\ m[2] \in 1..Len(sent[m[1]])
    BY SentIs
  <1>2. m \in Sent' <=> m[2] <= Len(sent'[m[1]])
    BY <1>1, SentOf DEF Sent
  <1>3. CASE UNCHANGED sent
    BY <1>1, <1>2, <1>3 DEF Tag, Kind
  <1>4. ASSUME NEW x \in Sends, Send(x[1], x[2], x[3])
        PROVE  m \in Sent' /\ Tag(m)' = Tag(m) /\ Kind(m)' = Kind(m)
    <2>1. x[1] \in Srcs BY MatchingAssumption
    <2>2. sent[m[1]] \in Seq(Sending) BY <1>1 DEF Types
    <2>3. /\ Len(sent'[m[1]]) >= Len(sent[m[1]])
          /\ sent'[m[1]][m[2]] = sent[m[1]][m[2]]
      BY <1>1, <1>4, <2>1, <2>2 DEF Send, Types
    <2> QED BY <1>1, <1>2, <2>3, <2>2 DEF Tag, Kind
  <1>5. ASSUME NEW a \in acks, AckArrive(a)
        PROVE  m \in Sent' /\ Tag(m)' = Tag(m) /\ Kind(m)' = Kind(m)
    <2>1. a.msg \in Message /\ a.msg[1] \in Srcs /\ a.msg[2] \in 1..Len(sent[a.msg[1]])
      <3>1. a.msg \in Sent BY DEF Answering
      <3> QED BY <3>1, SentIs
    <2>2. /\ Len(sent'[m[1]]) = Len(sent[m[1]])
          /\ sent'[m[1]][m[2]].tag = sent[m[1]][m[2]].tag
          /\ sent'[m[1]][m[2]].kind = sent[m[1]][m[2]].kind
      <3> DEFINE q == sent[a.msg[1]]
      <3>1. q \in Seq(Sending) /\ q[a.msg[2]] \in Sending BY <2>1 DEF Types
      <3>2. sent' = [sent EXCEPT ![a.msg[1]] = [q EXCEPT ![a.msg[2]] = [@ EXCEPT !.done = TRUE]]]
        BY <1>5 DEF AckArrive
      <3>3. CASE m[1] # a.msg[1]
        BY <1>1, <2>1, <3>2, <3>3 DEF Types
      <3>4. CASE m[1] = a.msg[1]
        <4>1. sent'[m[1]] = [q EXCEPT ![a.msg[2]] = [@ EXCEPT !.done = TRUE]]
          BY <2>1, <3>2, <3>4, Zenon DEF Types
        <4>2. Len(sent'[m[1]]) = Len(q) BY <3>1, <4>1
        <4>3. CASE m[2] # a.msg[2]
          BY <1>1, <3>1, <3>4, <4>1, <4>2, <4>3
        <4>4. CASE m[2] = a.msg[2]
          BY <1>1, <2>1, <3>1, <3>4, <4>1, <4>2, <4>4 DEF Sending
        <4> QED BY <4>3, <4>4
      <3> QED BY <3>3, <3>4
    <2> QED BY <1>1, <1>2, <2>2 DEF Tag, Kind
  <1>6. \/ UNCHANGED sent
        \/ \E x \in Sends : Send(x[1], x[2], x[3])
        \/ \E a \in acks : AckArrive(a)
    BY Zenon DEF Next, Delivery, Post, Poll, Crash, Notify, Revoke, FailureAck, Arrive, Recheck,
           DataArrive, vars, senders
  <1> QED BY <1>3, <1>4, <1>5, <1>6

(* A request that is given a message keeps what it asked for.              *)
LEMMA GivenType ==
  ASSUME Types, NEW q \in Requests, NEW m \in Message
  PROVE  /\ Given(q, m) \in Requests
         /\ Given(q, m).src = q.src /\ Given(q, m).tag = q.tag
         /\ Given(q, m).from = m /\ Given(q, m).st \in {"matched", "complete"}
  BY Zenon DEF Given, Requests

(* What answers a message is an answer.                                    *)
LEMMA AnswerType ==
  ASSUME NEW m \in Message, NEW i \in Nat
  PROVE  Answer(m, i) \subseteq Answerings
  BY DEF Answer, Answerings

(* A request that ompi_request_state_ok looks at keeps what it asked for   *)
(* and what it got.                                                        *)
LEMMA StateOkType ==
  ASSUME NEW q \in Requests
  PROVE  /\ StateOk(q) \in Requests
         /\ StateOk(q).src = q.src /\ StateOk(q).tag = q.tag /\ StateOk(q).from = q.from
         /\ StateOk(q).st \in {q.st, "complete"}
  BY ZenonT(40) DEF StateOk, Requests, Verdict

(* Matching one message keeps the types, ...                               *)
LEMMA MatchOneType ==
  ASSUME Types, NEW m \in Message, MatchOne(m)
  PROVE  /\ unexpected' \in [Srcs -> SUBSET Message]
         /\ req' \in Seq(Requests)
         /\ acks' \in SUBSET Answerings
  <1>1. CASE MatchIncoming(m) = {} /\ unexpected' = [unexpected EXCEPT ![m[1]] = @ \cup {m}]
               /\ UNCHANGED <<req, acks>>
    BY <1>1 DEF Types, Message
  <1>2. ASSUME NEW i \in MatchIncoming(m), req' = [req EXCEPT ![i] = Given(@, m)],
               acks' = acks \cup Answer(m, i), UNCHANGED unexpected
        PROVE  /\ unexpected' \in [Srcs -> SUBSET Message]
               /\ req' \in Seq(Requests)
               /\ acks' \in SUBSET Answerings
    <2>1. i \in 1..Len(req) BY <1>2 DEF MatchIncoming, Posted, Reqs
    <2>2. req[i] \in Requests BY <2>1 DEF Types
    <2>3. Given(req[i], m) \in Requests BY <2>2, GivenType
    <2>4. req' \in Seq(Requests) BY <1>2, <2>1, <2>3 DEF Types
    <2>5. acks' \in SUBSET Answerings BY <1>2, <2>1, AnswerType DEF Types
    <2> QED BY <1>2, <2>4, <2>5 DEF Types
  <1> QED BY <1>1, <1>2 DEF MatchOne

(* ... matching it and the early ones behind it does, ...                  *)
LEMMA InOrderType ==
  ASSUME Types, NEW m \in Message, NEW early, InOrder(m, early)
  PROVE  /\ unexpected' \in [Srcs -> SUBSET Message]
         /\ req' \in Seq(Requests)
         /\ acks' \in SUBSET Answerings
         /\ expected' \in [Srcs -> Nat \ {0}]
  <1>1. MatchOne(m) BY DEF InOrder
  <1>2. expected' \in [Srcs -> Nat \ {0}] BY DEF InOrder, Types, Message
  <1> QED BY <1>1, <1>2, MatchOneType

(* ... and so does the purge of a revoked communicator.                    *)
LEMMA RevokeCommType ==
  ASSUME Types, NEW c \in BOOLEAN, RevokeComm(c)
  PROVE  /\ unexpected' \in [Srcs -> SUBSET Message]
         /\ cantMatch' \in [Srcs -> SUBSET Message]
         /\ acks' \in SUBSET Answerings
  <1> DEFINE rev == revoked \/ ~c
             Purged(m) == Refuses(rev, TRUE, Tag(m))
             gone == UNION {{m \in unexpected[s] \cup cantMatch[s] : Purged(m)} : s \in Srcs}
  <1>1. /\ unexpected' = [s \in Srcs |-> {m \in unexpected[s] : ~Purged(m)}]
        /\ cantMatch' = [s \in Srcs |-> {m \in cantMatch[s] : ~Purged(m)}]
        /\ acks' = acks \cup {[msg |-> m, req |-> 0] : m \in {x \in gone : Kind(x) = "rndv"}}
    BY DEF RevokeComm
  <1> HIDE DEF Purged
  <1>2. gone \subseteq Message BY DEF Types
  <1> HIDE DEF gone
  <1>3. acks' \in SUBSET Answerings BY <1>1, <1>2 DEF Types, Answerings
  <1> QED BY <1>1, <1>3 DEF Types

(* Every step keeps the variables in their types.                          *)
LEMMA TypesNext ==
  ASSUME Types, Answering, [Next]_vars
  PROVE  Types'
  <1>1. ASSUME NEW x \in Sends, Send(x[1], x[2], x[3]) PROVE Types'
    <2>1. x[1] \in Srcs /\ x[2] \in Int /\ x[3] \in {"match", "rndv"}
      BY MatchingAssumption
    <2>2. [tag |-> x[2], kind |-> x[3], done |-> x[3] = "match"] \in Sending
      BY <2>1 DEF Sending
    <2>3. sent' \in [Srcs -> Seq(Sending)]
      BY <1>1, <2>1, <2>2 DEF Send, Types
    <2>4. net' \in SUBSET Message
      BY <1>1, <2>1 DEF Send, Types, Message
    <2> QED BY <1>1, <2>3, <2>4 DEF Send, Types, lists, status
  <1>2. ASSUME NEW x \in Recvs, Post(x[1], x[2]) PROVE Types'
    <2> DEFINE q == Request(x[1], x[2])
    <2>1. q \in Requests
      BY MatchingAssumption DEF Request, Requests
    <2>2. CASE req' = Append(req, q) /\ UNCHANGED <<unexpected, lastProbed, acks>>
      BY <1>2, <2>1, <2>2 DEF Post, Types, senders, status
    <2>3. ASSUME NEW s \in Srcs, NEW m \in Fitting(q, s),
                 req' = Append(req, Given(q, m)),
                 acks' = acks \cup Answer(m, Len(req) + 1),
                 unexpected' = [unexpected EXCEPT ![s] = @ \ {m}]
          PROVE  Types'
      <3>1. m \in Message BY DEF Fitting, Types
      <3>2. Given(q, m) \in Requests BY <2>1, <3>1, GivenType
      <3>3. acks' \in SUBSET Answerings
        BY <2>3, <3>1, AnswerType DEF Types
      <3>4. req' \in Seq(Requests) BY <2>3, <3>2 DEF Types
      <3>5. unexpected' \in [Srcs -> SUBSET Message] BY <2>3 DEF Types
      <3> QED BY <1>2, <3>3, <3>4, <3>5 DEF Post, Types, senders, status
    <2> QED BY <1>2, <2>2, <2>3 DEF Post, RecvReqStart
  <1>3. ASSUME NEW i \in Reqs, Poll(i) PROVE Types'
    <2>1. req[i] \in Requests BY DEF Types, Reqs
    <2>2. StateOk(req[i]) \in Requests BY <2>1, StateOkType
    <2>3. req' \in Seq(Requests) BY <1>3, <2>2 DEF Poll, Types, Reqs
    <2> QED BY <1>3, <2>3 DEF Poll, Types, senders, lists, status
  <1>4. ASSUME NEW s \in Srcs, Crash(s) PROVE Types'
    BY <1>4 DEF Crash, Types, lists, status
  <1>5. ASSUME NEW s \in Srcs, Notify(s) PROVE Types'
    <2>1. RevokeComm(TRUE) BY <1>5, Zenon DEF Notify
    <2>2. known' \in SUBSET crashed BY <1>5 DEF Notify, Types
    <2> QED BY <1>5, <2>1, <2>2, RevokeCommType, Zenon DEF Notify, Types, senders
  <1>6. ASSUME NEW m \in net, Arrive(m) PROVE Types'
    <2>1. m \in Message BY DEF Types
    <2>2. CASE UNCHANGED <<lists, req>> /\ acks' = acks \cup Answer(m, 0)
      <3>1. acks' \in SUBSET Answerings BY <2>1, <2>2, AnswerType DEF Types
      <3> QED BY <1>6, <2>2, <3>1 DEF Arrive, Types, senders, lists, status
    <2>3. CASE /\ cantMatch' = [cantMatch EXCEPT ![m[1]] = @ \cup {m}]
               /\ UNCHANGED <<expected, unexpected, checking, acks, req>>
      <3>1. cantMatch' \in [Srcs -> SUBSET Message] BY <2>1, <2>3 DEF Types, Message
      <3> QED BY <1>6, <2>3, <3>1 DEF Arrive, Types, senders, status
    <2>4. CASE InOrder(m, cantMatch[m[1]]) /\ UNCHANGED cantMatch
      BY <1>6, <2>1, <2>4, InOrderType DEF Arrive, Types, senders, status
    <2> QED BY <1>6, <2>2, <2>3, <2>4 DEF Arrive, RecvFrag
  <1>7. ASSUME NEW s \in Srcs, Recheck(s) PROVE Types'
    <2>1. CASE UNCHANGED <<expected, cantMatch, unexpected, req, acks>>
      BY <1>7, <2>1 DEF Recheck, Types, senders, status
    <2>2. ASSUME NEW m \in cantMatch[s], InOrder(m, cantMatch[s] \ {m}),
                 cantMatch' = [cantMatch EXCEPT ![s] = @ \ {m}]
          PROVE  Types'
      <3>1. m \in Message BY DEF Types
      <3>2. cantMatch' \in [Srcs -> SUBSET Message] BY <2>2 DEF Types
      <3> QED BY <1>7, <2>2, <3>1, <3>2, InOrderType DEF Recheck, Types, senders, status
    <2> QED BY <1>7, <2>1, <2>2, Zenon DEF Recheck, CheckCantMatch
  <1>8. ASSUME NEW a \in acks, AckArrive(a) PROVE Types'
    <2>1. a.msg[1] \in Srcs /\ a.msg[2] \in 1..Len(sent[a.msg[1]])
      BY SentIs DEF Answering, Message, Types
    <2> DEFINE q == sent[a.msg[1]]
    <2>2. q \in Seq(Sending) /\ q[a.msg[2]] \in Sending BY <2>1 DEF Types
    <2>3. [q[a.msg[2]] EXCEPT !.done = TRUE] \in Sending BY <2>2, Zenon DEF Sending
    <2>4. [q EXCEPT ![a.msg[2]] = [@ EXCEPT !.done = TRUE]] \in Seq(Sending)
      BY <2>1, <2>2, <2>3
    <2>5. sent' \in [Srcs -> Seq(Sending)] BY <1>8, <2>1, <2>4 DEF AckArrive, Types
    <2> QED BY <1>8, <2>5 DEF AckArrive, Types, lists, status
  <1>9. ASSUME NEW a \in data, DataArrive(a) PROVE Types'
    <2>1. a.req \in 1..Len(req) BY DEF Answering, Types
    <2>2. req[a.req] \in Requests BY <2>1 DEF Types
    <2>3. [req[a.req] EXCEPT !.st = "complete"] \in Requests BY <2>2 DEF Requests
    <2>4. req' \in Seq(Requests) BY <1>9, <2>1, <2>3 DEF DataArrive, Types
    <2> QED BY <1>9, <2>4 DEF DataArrive, Types, senders, lists, status
  <1>10. CASE Revoke
    <2>1. RevokeComm(FALSE) BY <1>10, Zenon DEF Revoke
    <2> QED BY <1>10, <2>1, RevokeCommType, Zenon DEF Revoke, Types, senders
  <1>11. CASE FailureAck
    BY <1>11 DEF FailureAck, Types, senders, lists
  <1>12. CASE UNCHANGED vars
    BY <1>12 DEF vars, Types, senders, lists, status
  <1> QED
    BY <1>1, <1>2, <1>3, <1>4, <1>5, <1>6, <1>7, <1>8, <1>9, <1>10, <1>11, <1>12
    DEF Next, Delivery

-----------------------------------------------------------------------------
(* When the message that was expected is matched, with the early ones      *)
(* behind it, every message is still where its sequence number says.       *)
LEMMA PlacedInOrder ==
  ASSUME Types, Placed, NEW m \in Sent, NEW early, m[2] = expected[m[1]],
         InOrder(m, early), UNCHANGED sent,
         NEW N, N \subseteq net \ {m}, net' = N,
         NEW C, C \in [Srcs -> SUBSET Message], cantMatch' = C,
         \A s \in Srcs : C[s] \subseteq cantMatch[s] \ {m}
  PROVE  Placed'
  <1>1. /\ m \in Message /\ m[1] \in Srcs /\ m = <<m[1], m[2]>>
        /\ m[2] \in 1..Len(sent[m[1]]) /\ Len(sent[m[1]]) \in Nat
    BY SentIs
  <1>2. /\ expected' \in [Srcs -> Nat \ {0}]
        /\ \A s \in Srcs : expected'[s] = IF s = m[1] THEN m[2] + 1 ELSE expected[s]
    BY <1>1 DEF InOrder, Types
  <1>3. \A s \in Srcs : \A x \in unexpected'[s] : x \in unexpected[s] \/ (x = m /\ s = m[1])
    BY <1>1 DEF InOrder, MatchOne, Types
  <1>4. Sent' = Sent BY DEF Sent
  <1>5. ASSUME NEW x \in Sent, x # m, x[2] >= expected[x[1]]
        PROVE  x[2] >= expected'[x[1]]
    <2>1. x[1] \in Srcs /\ x = <<x[1], x[2]>> /\ x[2] \in Nat
      BY SentIs DEF Message
    <2>2. expected[x[1]] \in Nat BY <2>1 DEF Types
    <2>3. CASE x[1] = m[1]
      <3>1. x[2] # m[2] BY <1>1, <1>5, <2>1, <2>3
      <3>2. expected'[x[1]] = m[2] + 1 BY <1>2, <2>1, <2>3
      <3> QED BY <1>1, <1>5, <2>1, <2>2, <2>3, <3>1, <3>2
    <2>4. CASE x[1] # m[1]
      BY <1>2, <1>5, <2>1, <2>4
    <2> QED BY <2>3, <2>4
  <1>6. ASSUME NEW s \in Srcs PROVE expected'[s] <= Len(sent'[s]) + 1
    <2>1. expected[s] <= Len(sent[s]) + 1 /\ sent' = sent BY DEF Placed
    <2>2. expected'[s] = IF s = m[1] THEN m[2] + 1 ELSE expected[s] BY <1>2
    <2>3. CASE s = m[1] BY <1>1, <2>1, <2>2, <2>3
    <2>4. CASE s # m[1] BY <2>1, <2>2, <2>4
    <2> QED BY <2>3, <2>4
  <1>7. ASSUME NEW s \in Srcs, NEW x \in cantMatch'[s]
        PROVE  x \in Sent' /\ x \notin net' /\ x[1] = s /\ x[2] >= expected'[s]
    BY <1>4, <1>5 DEF Placed
  <1>8. ASSUME NEW s \in Srcs, NEW x \in unexpected'[s]
        PROVE  x \in Sent' /\ x[1] = s /\ x[2] < expected'[s]
    <2>1. CASE x = m /\ s = m[1] BY <1>1, <1>2, <1>4, <2>1
    <2>2. CASE x \in unexpected[s]
      <3>1. x \in Sent /\ x[1] = s /\ x[2] < expected[s] BY <2>2 DEF Placed
      <3>2. x[2] \in Nat BY <3>1, SentIs DEF Message
      <3>3. expected[s] \in Nat /\ expected'[s] \in Nat BY <1>2 DEF Types
      <3>4. expected[s] <= expected'[s] BY <1>1, <1>2, <3>3
      <3> QED BY <1>4, <3>1, <3>2, <3>3, <3>4
    <2> QED BY <1>3, <2>1, <2>2
  <1>9. ASSUME NEW x \in net' PROVE x \in Sent' /\ x[2] >= expected'[x[1]]
    BY <1>4, <1>5 DEF Placed
  <1> QED BY <1>6, <1>7, <1>8, <1>9 DEF Placed

(* The purge of a revoked communicator only takes messages away.           *)
LEMMA PlacedRevokeComm ==
  ASSUME Types, Placed, NEW c \in BOOLEAN, RevokeComm(c), UNCHANGED <<sent, expected>>,
         net' \subseteq net
  PROVE  Placed'
  <1>1. Sent' = Sent BY DEF Sent
  <1>2. \A s \in Srcs : cantMatch'[s] \subseteq cantMatch[s] /\ unexpected'[s] \subseteq unexpected[s]
    BY Zenon DEF RevokeComm
  <1> QED BY <1>1, <1>2 DEF Placed

(* Every step leaves the messages where their sequence numbers say.        *)
LEMMA PlacedNext ==
  ASSUME Types, Placed, Answering, [Next]_vars, Types'
  PROVE  Placed'
  <1>1. ASSUME NEW x \in Sends, Send(x[1], x[2], x[3]) PROVE Placed'
    <2> DEFINE s == x[1]
               m == <<s, Len(sent[s]) + 1>>
    <2>1. s \in Srcs /\ Len(sent[s]) \in Nat BY MatchingAssumption DEF Types
    <2>2. \A y \in Sent : y \in Sent' BY SentKept DEF Types
    <2>3. /\ UNCHANGED <<expected, cantMatch, unexpected>> /\ net' = net \cup {m}
          /\ \A r \in Srcs : Len(sent'[r]) = IF r = s THEN Len(sent[s]) + 1 ELSE Len(sent[r])
      BY <1>1, <2>1 DEF Send, Types, lists
    <2>4. m \in Sent' /\ m \notin Sent
      <3>1. m \in Message BY <2>1 DEF Message
      <3>2. m \in Sent' BY <2>1, <2>3, <3>1, SentOf DEF Sent, Types
      <3>3. m \notin Sent BY <2>1, SentIs
      <3> QED BY <3>2, <3>3
    <2>5. m[2] >= expected[m[1]] BY <2>1 DEF Placed, Types
    <2>6. \A r \in Srcs : expected'[r] <= Len(sent'[r]) + 1
      BY <2>1, <2>3 DEF Placed, Types
    <2> HIDE DEF m
    <2>7. \A y \in net' : y \in Sent' /\ y[2] >= expected'[y[1]]
      BY <2>2, <2>3, <2>4, <2>5 DEF Placed
    <2> QED BY <2>2, <2>3, <2>4, <2>6, <2>7 DEF Placed
  <1>2. ASSUME NEW x \in Recvs, Post(x[1], x[2]) PROVE Placed'
    <2>1. UNCHANGED <<sent, net, expected, cantMatch>>
      BY <1>2 DEF Post, senders
    <2>2. Sent' = Sent BY <2>1 DEF Sent
    <2>3. \A s \in Srcs : unexpected'[s] \subseteq unexpected[s]
      BY <1>2, ZenonT(40) DEF Post, RecvReqStart, Types
    <2> QED BY <2>1, <2>2, <2>3 DEF Placed
  <1>3. ASSUME NEW m \in net, Arrive(m) PROVE Placed'
    <2>1. m \in Sent /\ m[1] \in Srcs BY SentIs DEF Placed
    <2>2. UNCHANGED sent /\ net' = net \ {m} BY <1>3 DEF Arrive, senders
    <2>3. Sent' = Sent BY <2>2 DEF Sent
    <2>4. CASE UNCHANGED lists
      BY <2>2, <2>3, <2>4 DEF Placed, lists
    <2>5. CASE /\ cantMatch' = [cantMatch EXCEPT ![m[1]] = @ \cup {m}]
               /\ UNCHANGED <<expected, unexpected>>
      <3>1. \A s \in Srcs : \A y \in cantMatch'[s] : y \in cantMatch[s] \/ (y = m /\ s = m[1])
        BY <2>1, <2>5 DEF Types
      <3>2. \A s \in Srcs : \A y \in cantMatch'[s] :
              y \in Sent' /\ y \notin net' /\ y[1] = s /\ y[2] >= expected'[s]
        BY <2>1, <2>2, <2>3, <2>5, <3>1 DEF Placed
      <3> QED BY <2>2, <2>3, <2>5, <3>2 DEF Placed
    <2>6. CASE m[2] = expected[m[1]] /\ InOrder(m, cantMatch[m[1]]) /\ UNCHANGED cantMatch
      <3>1. \A s \in Srcs : cantMatch[s] \subseteq cantMatch[s] \ {m} BY DEF Placed
      <3> QED BY <2>1, <2>2, <2>6, <3>1, PlacedInOrder, Zenon DEF Types
    <2> QED BY <1>3, <2>4, <2>5, <2>6 DEF Arrive, RecvFrag, SeqNo
  <1>4. ASSUME NEW s \in Srcs, Recheck(s) PROVE Placed'
    <2>1. UNCHANGED <<sent, net>> BY <1>4 DEF Recheck, senders
    <2>2. Sent' = Sent BY <2>1 DEF Sent
    <2>3. CASE UNCHANGED <<expected, cantMatch, unexpected>>
      BY <2>1, <2>2, <2>3 DEF Placed
    <2>4. ASSUME NEW m \in cantMatch[s], m[2] = expected[s], InOrder(m, cantMatch[s] \ {m}),
                 cantMatch' = [cantMatch EXCEPT ![s] = @ \ {m}]
          PROVE  Placed'
      <3>1. m \in Sent /\ m[1] = s /\ m \notin net BY DEF Placed
      <3>2. \A r \in Srcs : cantMatch'[r] \subseteq cantMatch[r] \ {m}
        BY <2>4, <3>1 DEF Placed, Types
      <3>3. cantMatch' \in [Srcs -> SUBSET Message] BY DEF Types
      <3>4. net' \subseteq net \ {m} BY <2>1, <3>1
      <3> QED BY <2>1, <2>4, <3>1, <3>2, <3>3, <3>4, PlacedInOrder, Zenon
    <2> QED BY <1>4, <2>3, <2>4, Zenon DEF Recheck, CheckCantMatch, SeqNo
  <1>5. ASSUME NEW a \in acks, AckArrive(a) PROVE Placed'
    <2>1. UNCHANGED <<net, expected, cantMatch, unexpected>> BY <1>5 DEF AckArrive, lists
    <2>2. \A y \in Sent : y \in Sent' BY SentKept DEF Types
    <2>3. \A s \in Srcs : Len(sent'[s]) = Len(sent[s])
      <3>1. a.msg[1] \in Srcs /\ a.msg[2] \in 1..Len(sent[a.msg[1]])
        BY SentIs DEF Answering, Message, Types
      <3> DEFINE q == sent[a.msg[1]]
                 r == [q EXCEPT ![a.msg[2]] = [@ EXCEPT !.done = TRUE]]
      <3>2. q \in Seq(Sending) BY <3>1 DEF Types
      <3>3. Len(r) = Len(q) BY <3>1, <3>2
      <3>4. sent' = [sent EXCEPT ![a.msg[1]] = r] BY <1>5 DEF AckArrive
      <3> HIDE DEF r
      <3> QED BY <3>1, <3>3, <3>4 DEF Types
    <2> QED BY <2>1, <2>2, <2>3 DEF Placed
  <1>6. ASSUME NEW s \in Srcs, Notify(s) PROVE Placed'
    <2>1. RevokeComm(TRUE) /\ UNCHANGED <<sent, expected>> /\ net' \subseteq net
      BY <1>6, Zenon DEF Notify, senders
    <2> QED BY <2>1, PlacedRevokeComm, Zenon
  <1>7. CASE Revoke
    <2>1. RevokeComm(FALSE) /\ UNCHANGED <<sent, expected>> /\ net' \subseteq net
      BY <1>7, Zenon DEF Revoke, senders
    <2> QED BY <2>1, PlacedRevokeComm, Zenon
  <1>8. CASE UNCHANGED <<sent, net, lists>>
    <2>1. Sent' = Sent BY <1>8 DEF Sent
    <2> QED BY <1>8, <2>1 DEF Placed, lists
  <1>9. ASSUME NEW i \in Reqs, Poll(i) PROVE UNCHANGED <<sent, net, lists>>
    BY <1>9 DEF Poll, senders
  <1>10. ASSUME NEW s \in Srcs, Crash(s) PROVE UNCHANGED <<sent, net, lists>>
    BY <1>10 DEF Crash
  <1>11. ASSUME NEW a \in data, DataArrive(a) PROVE UNCHANGED <<sent, net, lists>>
    BY <1>11 DEF DataArrive, senders
  <1>12. ASSUME FailureAck \/ UNCHANGED vars PROVE UNCHANGED <<sent, net, lists>>
    BY <1>12 DEF FailureAck, senders, vars
  <1> QED
    BY <1>1, <1>2, <1>3, <1>4, <1>5, <1>6, <1>7, <1>8, <1>9, <1>10, <1>11, <1>12
    DEF Next, Delivery

-----------------------------------------------------------------------------
(* What happens to the requests.                                           *)
LEMMA MatchOneReqs ==
  ASSUME Types, NEW m \in Message, MatchOne(m)
  PROVE  /\ Len(req') = Len(req)
         /\ \A i \in Reqs :
              \/ req'[i] = req[i]
              \/ /\ i \in MatchIncoming(m) /\ \A j \in MatchIncoming(m) : i <= j
                 /\ req'[i] = Given(req[i], m)
         /\ \A a \in acks' : a \in acks \/ (a.msg = m /\ a.req \in Reqs)
  <1>1. CASE UNCHANGED <<req, acks>> BY <1>1
  <1>2. ASSUME NEW i \in MatchIncoming(m), \A j \in MatchIncoming(m) : i <= j,
               req' = [req EXCEPT ![i] = Given(@, m)],
               acks' = acks \cup Answer(m, i)
        PROVE  /\ Len(req') = Len(req)
               /\ \A k \in Reqs :
                    \/ req'[k] = req[k]
                    \/ /\ k \in MatchIncoming(m) /\ \A j \in MatchIncoming(m) : k <= j
                       /\ req'[k] = Given(req[k], m)
               /\ \A a \in acks' : a \in acks \/ (a.msg = m /\ a.req \in Reqs)
    <2>1. i \in Reqs BY DEF MatchIncoming, Posted
    <2>2. Len(req') = Len(req) BY <1>2, <2>1 DEF Types, Reqs
    <2>3. \A k \in Reqs : req'[k] = IF k = i THEN Given(req[k], m) ELSE req[k]
      BY <1>2, <2>1 DEF Types, Reqs
    <2>4. \A a \in acks' : a \in acks \/ (a.msg = m /\ a.req \in Reqs)
      BY <1>2, <2>1 DEF Answer
    <2> QED BY <1>2, <2>2, <2>3, <2>4
  <1> QED BY <1>1, <1>2 DEF MatchOne

(* A request keeps its source and its tag; it gets at most one message,    *)
(* while it is posted.                                                     *)
Keeps(q, r) ==
  /\ r.src = q.src /\ r.tag = q.tag
  /\ r.from = q.from \/ q.st = "posted"
  /\ r.st = "posted" => r = q \/ (q.st = "posted" /\ r.from = q.from)

(* Matching a message keeps the requests so, ...                           *)
LEMMA MatchOneKeeps ==
  ASSUME Types, NEW m \in Message, MatchOne(m)
  PROVE  Len(req') = Len(req) /\ \A i \in Reqs : Keeps(req[i], req'[i])
  <1>1. ASSUME NEW i \in Reqs PROVE Keeps(req[i], req'[i])
    <2>1. req[i] \in Requests BY DEF Types, Reqs
    <2>2. CASE req'[i] = req[i] BY <2>2 DEF Keeps
    <2>3. CASE i \in MatchIncoming(m) /\ req'[i] = Given(req[i], m)
      <3>1. req[i].st = "posted" BY <2>3 DEF MatchIncoming, Posted
      <3> QED BY <2>1, <2>3, <3>1, GivenType DEF Keeps
    <2> QED BY <2>2, <2>3, MatchOneReqs
  <1> QED BY <1>1, MatchOneReqs

(* ... and so does every step.                                             *)
LEMMA ReqKept ==
  ASSUME Types, Answering, [Next]_vars
  PROVE  /\ Len(req) \in Nat /\ Len(req') \in Nat /\ Len(req') >= Len(req)
         /\ \A i \in Reqs : Keeps(req[i], req'[i])
  <1> DEFINE Goal == /\ Len(req) \in Nat /\ Len(req') \in Nat /\ Len(req') >= Len(req)
                     /\ \A i \in Reqs : Keeps(req[i], req'[i])
  <1>0. Len(req) \in Nat BY DEF Types
  <1>1. CASE UNCHANGED req
    BY <1>0, <1>1 DEF Keeps
  <1>2. ASSUME NEW m \in Message, MatchOne(m) PROVE Goal
    BY <1>0, <1>2, MatchOneKeeps
  <1>3. ASSUME NEW q, req' = Append(req, q) PROVE Goal
    <2>1. Len(req') = Len(req) + 1 /\ \A i \in Reqs : req'[i] = req[i]
      BY <1>3 DEF Types, Reqs
    <2> QED BY <1>0, <2>1 DEF Keeps
  <1>4. ASSUME NEW i \in Reqs, Poll(i) PROVE Goal
    <2>1. Len(req') = Len(req) /\ \A k \in Reqs : req'[k] = IF k = i THEN StateOk(req[i]) ELSE req[k]
      BY <1>4 DEF Poll, Types, Reqs
    <2>2. req[i] \in Requests BY DEF Types, Reqs
    <2>3. Keeps(req[i], StateOk(req[i])) BY <2>2, StateOkType DEF Keeps
    <2> QED BY <1>0, <2>1, <2>3 DEF Keeps
  <1>5. ASSUME NEW a \in data, DataArrive(a) PROVE Goal
    <2>1. a.req \in Reqs BY DEF Answering, Types, Reqs
    <2> DEFINE q == [req[a.req] EXCEPT !.st = "complete"]
    <2>2. req' = [req EXCEPT ![a.req] = q] BY <1>5 DEF DataArrive
    <2>3. Keeps(req[a.req], q) BY <2>1 DEF Types, Reqs, Requests, Keeps
    <2> HIDE DEF q
    <2>4. Len(req') = Len(req) /\ \A k \in Reqs : req'[k] = IF k = a.req THEN q ELSE req[k]
      BY <2>1, <2>2 DEF Types, Reqs
    <2> QED BY <1>0, <2>3, <2>4 DEF Keeps
  <1>6. \/ UNCHANGED req
        \/ \E m \in net : Arrive(m)
        \/ \E s \in Srcs : Recheck(s)
        \/ \E x \in Recvs : Post(x[1], x[2])
        \/ \E i \in Reqs : Poll(i)
        \/ \E a \in data : DataArrive(a)
    BY Zenon DEF Next, Delivery, Send, Crash, Notify, Revoke, FailureAck, AckArrive, vars
  <1>7. ASSUME NEW m \in net, Arrive(m) PROVE UNCHANGED req \/ (m \in Message /\ MatchOne(m))
    BY <1>7 DEF Arrive, RecvFrag, InOrder, Types
  <1>8. ASSUME NEW s \in Srcs, Recheck(s)
        PROVE  UNCHANGED req \/ \E m \in Message : MatchOne(m)
    BY <1>8 DEF Recheck, CheckCantMatch, InOrder, Types
  <1>9. ASSUME NEW x \in Recvs, Post(x[1], x[2]) PROVE \E q : req' = Append(req, q)
    BY <1>9 DEF Post, RecvReqStart
  <1> QED BY <1>1, <1>2, <1>3, <1>4, <1>5, <1>6, <1>7, <1>8, <1>9

=============================================================================
