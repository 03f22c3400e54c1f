--------------------------- MODULE MatchingOrder ---------------------------
(*****************************************************************************)
(* How the requests of Matching change, and that the order of matching is    *)
(* kept by every step.                                                       *)
(*****************************************************************************)
EXTENDS MatchingTypes

(* What a revocation answers: messages that were in a list, with a refusal.*)
LEMMA RevokeCommAcks ==
  ASSUME Types, NEW c \in BOOLEAN, RevokeComm(c), NEW a \in acks'
  PROVE  \/ a \in acks
         \/ /\ a.req = 0 /\ Kind(a.msg) = "rndv" /\ a = [msg |-> a.msg, req |-> 0]
            /\ \E s \in Srcs : /\ a.msg \in unexpected[s] \cup cantMatch[s]
                                /\ a.msg \notin unexpected'[s] \cup cantMatch'[s]
  <1> DEFINE rev == revoked \/ ~c
             Purged(m) == Refuses(rev, TRUE, Tag(m))
             gone == UNION {{m \in unexpected[s] \cup cantMatch[s] : Purged(m)} : s \in Srcs}
  <1>1. /\ unexpected' = [s \in Srcs |-> {m \in unexpected[s] : ~Purged(m)}]
        /\ cantMatch' = [s \in Srcs |-> {m \in cantMatch[s] : ~Purged(m)}]
        /\ acks' = acks \cup {[msg |-> m, req |-> 0] : m \in {x \in gone : Kind(x) = "rndv"}}
    BY DEF RevokeComm
  <1> HIDE DEF Purged
  <1>2. CASE a \in acks BY <1>2
  <1>3. ASSUME NEW m \in gone, Kind(m) = "rndv", a = [msg |-> m, req |-> 0]
        PROVE  /\ a.req = 0 /\ Kind(a.msg) = "rndv" /\ a = [msg |-> a.msg, req |-> 0]
               /\ \E s \in Srcs : /\ a.msg \in unexpected[s] \cup cantMatch[s]
                                   /\ a.msg \notin unexpected'[s] \cup cantMatch'[s]
    <2>1. PICK s \in Srcs : m \in {x \in unexpected[s] \cup cantMatch[s] : Purged(x)}
      BY <1>3
    <2>2. a.msg = m /\ a.req = 0 BY <1>3
    <2>3. m \notin unexpected'[s] \cup cantMatch'[s] BY <1>1, <2>1
    <2> QED BY <1>3, <2>1, <2>2, <2>3
  <1> QED BY <1>1, <1>2, <1>3

(* Answers on their way stay about messages and requests that exist.       *)
LEMMA AnsweringNext ==
  ASSUME Types, Placed, Answering, [Next]_vars, Types'
  PROVE  Answering'
  <1>1. /\ Len(req) \in Nat /\ Len(req') \in Nat /\ Len(req') >= Len(req)
        /\ \A m \in Sent : m \in Sent'
    BY ReqKept, SentKept DEF Types
  <1>2. SUFFICES /\ \A a \in acks' : a.msg \in Sent /\ a.req \in 0..Len(req')
                 /\ \A a \in data' : a \in data \/ (a \in acks /\ a.req # 0)
    BY <1>1, <1>2 DEF Answering
  <1>3. ASSUME NEW m \in Sent, MatchOne(m)
        PROVE  \A a \in acks' : a.msg \in Sent /\ a.req \in 0..Len(req')
    <2>1. \A a \in acks' : a \in acks \/ (a.msg = m /\ a.req \in Reqs)
      BY <1>3, MatchOneReqs, SentIs
    <2> QED BY <1>1, <2>1 DEF Answering, Reqs
  <1>4. ASSUME NEW c \in BOOLEAN, RevokeComm(c)
        PROVE  \A a \in acks' : a.msg \in Sent /\ a.req \in 0..Len(req')
    <2>1. \A a \in acks' : a \in acks \/ (a.req = 0 /\ \E s \in Srcs : a.msg \in unexpected[s] \cup cantMatch[s])
      BY <1>4, RevokeCommAcks
    <2>2. \A a \in acks : a.msg \in Sent /\ a.req \in 0..Len(req') BY <1>1 DEF Answering
    <2> QED BY <1>1, <2>1, <2>2 DEF Placed
  <1>5. ASSUME NEW m \in Sent, NEW i \in 0..Len(req'), acks' = acks \cup Answer(m, i)
        PROVE  \A a \in acks' : a.msg \in Sent /\ a.req \in 0..Len(req')
    BY <1>1, <1>5 DEF Answering, Answer
  <1>6. ASSUME acks' \subseteq acks
        PROVE  \A a \in acks' : a.msg \in Sent /\ a.req \in 0..Len(req')
    BY <1>1, <1>6 DEF Answering
  <1>7. \A a \in data' : a \in data \/ (a \in acks /\ a.req # 0)
    BY Zenon DEF Next, Delivery, Send, Post, Poll, Crash, Notify, Revoke, FailureAck, Arrive, Recheck,
           AckArrive, DataArrive, vars
  <1>8. ASSUME NEW x \in Recvs, Post(x[1], x[2])
        PROVE  \A a \in acks' : a.msg \in Sent /\ a.req \in 0..Len(req')
    <2>1. CASE UNCHANGED acks BY <1>6, <2>1
    <2>2. ASSUME NEW q, NEW s \in Srcs, NEW m \in unexpected[s],
                 req' = Append(req, q), acks' = acks \cup Answer(m, Len(req) + 1)
          PROVE  \A a \in acks' : a.msg \in Sent /\ a.req \in 0..Len(req')
      <3>1. m \in Sent BY DEF Placed
      <3>2. Len(req') = Len(req) + 1 BY <2>2 DEF Types
      <3> QED BY <1>1, <1>5, <2>2, <3>1, <3>2
    <2> QED BY <1>8, <2>1, <2>2 DEF Post, RecvReqStart, Fitting
  <1>9. ASSUME NEW m \in net, Arrive(m)
        PROVE  \A a \in acks' : a.msg \in Sent /\ a.req \in 0..Len(req')
    <2>1. m \in Sent BY DEF Placed
    <2>2. UNCHANGED acks \/ acks' = acks \cup Answer(m, 0) \/ MatchOne(m)
      BY <1>9 DEF Arrive, RecvFrag, InOrder
    <2> QED BY <1>1, <1>3, <1>5, <1>6, <2>1, <2>2
  <1>10. ASSUME NEW s \in Srcs, Recheck(s)
         PROVE  \A a \in acks' : a.msg \in Sent /\ a.req \in 0..Len(req')
    <2>1. UNCHANGED acks \/ \E m \in cantMatch[s] : MatchOne(m)
      BY <1>10 DEF Recheck, CheckCantMatch, InOrder
    <2> QED BY <1>3, <1>6, <2>1 DEF Placed
  <1>11. ASSUME NEW s \in Srcs, Notify(s) PROVE RevokeComm(TRUE) BY <1>11, Zenon DEF Notify
  <1>12. CASE Revoke BY <1>4, <1>12, Zenon DEF Revoke
  <1>13. \/ acks' \subseteq acks
         \/ \E m \in net : Arrive(m)
         \/ \E s \in Srcs : Recheck(s)
         \/ \E x \in Recvs : Post(x[1], x[2])
         \/ \E s \in Srcs : Notify(s)
         \/ Revoke
    BY Zenon DEF Next, Delivery, Send, Poll, Crash, FailureAck, AckArrive, DataArrive, vars
  <1> QED BY <1>4, <1>6, <1>7, <1>8, <1>9, <1>10, <1>11, <1>12, <1>13, Zenon

-----------------------------------------------------------------------------
(* A request is as before, up to completion; or it gets the message that   *)
(* is expected next; or it is new.                                         *)
Same(q, r) ==
  /\ r.src = q.src /\ r.tag = q.tag /\ r.from = q.from
  /\ r.st \in {q.st, "complete"}

Gets(i, m) ==
  /\ i \in MatchIncoming(m) /\ \A j \in MatchIncoming(m) : i <= j
  /\ req'[i] = Given(req[i], m)
  /\ m \in Sent /\ m[2] = expected[m[1]]
  /\ expected' = [expected EXCEPT ![m[1]] = @ + 1]
  /\ UNCHANGED sent

New(i, q) ==
  /\ i = Len(req) + 1 /\ Len(req') = i
  /\ UNCHANGED <<sent, expected, net, cantMatch>>
  /\ \/ /\ req'[i] = q /\ UNCHANGED unexpected
        /\ \A s \in Srcs : Fitting(q, s) = {}
     \/ \E s \in Srcs : \E m \in Fitting(q, s) :
          /\ req'[i] = Given(q, m) /\ unexpected' = [unexpected EXCEPT ![s] = @ \ {m}]
          /\ \A x \in Fitting(q, s) : m[2] <= x[2]

(* An arrival leaves a request alone or gives it a message.                *)
LEMMA InOrderGets ==
  ASSUME Types, NEW m \in Sent, m[2] = expected[m[1]], NEW early, InOrder(m, early),
         UNCHANGED sent, NEW i \in 1..Len(req')
  PROVE  i \in Reqs /\ (Same(req[i], req'[i]) \/ Gets(i, m))
  <1>1. m \in Message BY SentIs
  <1>2. MatchOne(m) /\ expected' = [expected EXCEPT ![m[1]] = @ + 1] BY DEF InOrder
  <1>3. i \in Reqs BY <1>1, <1>2, MatchOneReqs DEF Reqs
  <1>4. CASE req'[i] = req[i] BY <1>3, <1>4 DEF Same
  <1> QED BY <1>1, <1>2, <1>3, <1>4, MatchOneReqs DEF Gets

(* A step leaves a request alone, gives it a message or posts it.          *)
LEMMA ReqStep ==
  ASSUME Types, Placed, Answering, [Next]_vars, NEW i \in 1..Len(req')
  PROVE  \/ i \in Reqs /\ Same(req[i], req'[i])
         \/ \E m \in Sent : Gets(i, m)
         \/ \E x \in Recvs : New(i, Request(x[1], x[2]))
  <1> DEFINE Goal == \/ i \in Reqs /\ Same(req[i], req'[i])
                     \/ \E m \in Sent : Gets(i, m)
                     \/ \E x \in Recvs : New(i, Request(x[1], x[2]))
  <1>1. CASE UNCHANGED req
    BY <1>1 DEF Same, Reqs
  <1>2. ASSUME NEW m \in net, Arrive(m) PROVE Goal
    <2>1. UNCHANGED req \/ (m[2] = expected[m[1]] /\ InOrder(m, cantMatch[m[1]]))
      BY <1>2 DEF Arrive, RecvFrag, SeqNo
    <2>2. m \in Sent /\ UNCHANGED sent BY <1>2 DEF Placed, Arrive, senders
    <2> QED BY <1>1, <2>1, <2>2, InOrderGets
  <1>3. ASSUME NEW s \in Srcs, Recheck(s) PROVE Goal
    <2>1. UNCHANGED req \/ \E m \in cantMatch[s] : m[2] = expected[s] /\ InOrder(m, cantMatch[s] \ {m})
      BY <1>3, Zenon DEF Recheck, CheckCantMatch, SeqNo
    <2>2. UNCHANGED sent /\ \A m \in cantMatch[s] : m \in Sent /\ m[1] = s
      BY <1>3 DEF Placed, Recheck, senders
    <2> QED BY <1>1, <2>1, <2>2, InOrderGets, Zenon
  <1>4. ASSUME NEW x \in Recvs, Post(x[1], x[2]) PROVE Goal
    <2> DEFINE q == Request(x[1], x[2])
    <2>1. UNCHANGED <<sent, expected, net, cantMatch>> BY <1>4 DEF Post, senders
    <2>2. ASSUME NEW r, req' = Append(req, r)
          PROVE  /\ Len(req') = Len(req) + 1 /\ req'[Len(req) + 1] = r
                 /\ i # Len(req) + 1 => i \in Reqs /\ req'[i] = req[i]
      BY <2>2 DEF Types, Reqs
    <2>3. CASE \E r : req' = Append(req, r) /\ i # Len(req) + 1
      BY <2>2, <2>3 DEF Same
    <2>4. CASE /\ i = Len(req) + 1 /\ req' = Append(req, q) /\ UNCHANGED unexpected
               /\ \A s \in Srcs : Fitting(q, s) = {}
      BY <2>1, <2>2, <2>4 DEF New
    <2>5. ASSUME NEW s \in Srcs, NEW m \in Fitting(q, s), i = Len(req) + 1,
                 req' = Append(req, Given(q, m)),
                 unexpected' = [unexpected EXCEPT ![s] = @ \ {m}],
                 \A y \in Fitting(q, s) : m[2] <= y[2]
          PROVE  Goal
      BY <2>1, <2>2, <2>5, Zenon DEF New
    <2> HIDE DEF q
    <2>6. \/ req' = Append(req, q) /\ UNCHANGED unexpected /\ \A s \in Srcs : Fitting(q, s) = {}
          \/ \E s \in Srcs : \E m \in Fitting(q, s) :
               /\ req' = Append(req, Given(q, m))
               /\ unexpected' = [unexpected EXCEPT ![s] = @ \ {m}]
               /\ \A y \in Fitting(q, s) : m[2] <= y[2]
      BY <1>4 DEF Post, RecvReqStart, q, SeqNo
    <2> QED BY <2>3, <2>4, <2>5, <2>6
  <1>5. ASSUME NEW k \in Reqs, Poll(k) PROVE Goal
    <2>1. Len(req') = Len(req) /\ \A j \in Reqs : req'[j] = IF j = k THEN StateOk(req[k]) ELSE req[j]
      BY <1>5 DEF Poll, Types, Reqs
    <2>2. req[k] \in Requests BY DEF Types, Reqs
    <2>3. Same(req[k], StateOk(req[k])) BY <2>2, StateOkType DEF Same
    <2> QED BY <2>1, <2>3 DEF Same, Reqs
  <1>6. ASSUME NEW a \in data, DataArrive(a) PROVE Goal
    <2>1. a.req \in Reqs BY DEF Answering, Types, Reqs
    <2> DEFINE q == [req[a.req] EXCEPT !.st = "complete"]
    <2>2. req' = [req EXCEPT ![a.req] = q] BY <1>6 DEF DataArrive
    <2>3. Same(req[a.req], q) BY <2>1 DEF Types, Reqs, Requests, Same
    <2> HIDE DEF q
    <2>4. Len(req') = Len(req) /\ \A j \in Reqs : req'[j] = IF j = a.req THEN q ELSE req[j]
      BY <2>1, <2>2 DEF Types, Reqs
    <2> QED BY <2>3, <2>4 DEF Same, Reqs
  <1>7. \/ UNCHANGED req
        \/ \E m \in net : Arrive(m)
        \/ \E s \in Srcs : Recheck(s)
        \/ \E x \in Recvs : Post(x[1], x[2])
        \/ \E k \in Reqs : Poll(k)
        \/ \E a \in data : DataArrive(a)
    BY Zenon DEF Next, Delivery, Send, Crash, Notify, Revoke, FailureAck, AckArrive, vars
  <1> QED BY <1>1, <1>2, <1>3, <1>4, <1>5, <1>6, <1>7

(* A message becomes unexpected when no posted request accepts it.         *)
LEMMA UnexpectedStep ==
  ASSUME Types, Placed, [Next]_vars, NEW s \in Srcs, NEW m \in unexpected'[s]
  PROVE  \/ m \in unexpected[s]
         \/ /\ m[1] = s /\ m \in Sent /\ MatchIncoming(m) = {} /\ UNCHANGED <<req, sent>>
            /\ m \in net \cup cantMatch[s]
  <1> DEFINE Goal == \/ m \in unexpected[s]
                     \/ /\ m[1] = s /\ m \in Sent /\ MatchIncoming(m) = {} /\ UNCHANGED <<req, sent>>
                        /\ m \in net \cup cantMatch[s]
  <1>1. CASE unexpected'[s] \subseteq unexpected[s] BY <1>1
  <1>2. ASSUME NEW x \in Sent, x \in net \cup cantMatch[x[1]], MatchOne(x), UNCHANGED sent PROVE Goal
    <2>1. x[1] \in Srcs BY SentIs
    <2>2. CASE UNCHANGED unexpected BY <2>2
    <2>3. CASE /\ MatchIncoming(x) = {} /\ UNCHANGED <<req, acks>>
               /\ unexpected' = [unexpected EXCEPT ![x[1]] = @ \cup {x}]
      <3>1. m \in unexpected[s] \/ (m = x /\ s = x[1]) BY <2>1, <2>3 DEF Types
      <3> QED BY <1>2, <2>3, <3>1
    <2> QED BY <1>2, <2>2, <2>3 DEF MatchOne
  <1>3. ASSUME NEW x \in net, Arrive(x) PROVE Goal
    <2>1. x \in Sent /\ UNCHANGED sent BY <1>3 DEF Placed, Arrive, senders
    <2>2. UNCHANGED unexpected \/ MatchOne(x) BY <1>3 DEF Arrive, RecvFrag, InOrder, lists
    <2> QED BY <1>1, <1>2, <2>1, <2>2
  <1>4. ASSUME NEW r \in Srcs, Recheck(r) PROVE Goal
    <2>1. UNCHANGED unexpected \/ \E x \in cantMatch[r] : MatchOne(x)
      BY <1>4 DEF Recheck, CheckCantMatch, InOrder
    <2>2. UNCHANGED sent /\ \A x \in cantMatch[r] : x \in Sent /\ x[1] = r
      BY <1>4 DEF Placed, Recheck, senders
    <2> QED BY <1>1, <1>2, <2>1, <2>2
  <1>5. ASSUME NEW x \in Recvs, Post(x[1], x[2]) PROVE unexpected'[s] \subseteq unexpected[s]
    BY <1>5, ZenonT(40) DEF Post, RecvReqStart, Types
  <1>6. ASSUME NEW c \in BOOLEAN, RevokeComm(c) PROVE unexpected'[s] \subseteq unexpected[s]
    BY <1>6, Zenon DEF RevokeComm
  <1>7. \/ UNCHANGED unexpected
        \/ \E x \in net : Arrive(x)
        \/ \E r \in Srcs : Recheck(r)
        \/ \E x \in Recvs : Post(x[1], x[2])
        \/ \E c \in BOOLEAN : RevokeComm(c)
    BY Zenon DEF Next, Delivery, Send, Crash, Notify, Revoke, FailureAck, AckArrive, DataArrive, Poll,
           vars, lists
  <1> QED BY <1>1, <1>3, <1>4, <1>5, <1>6, <1>7

-----------------------------------------------------------------------------
(* What is matched later has a higher sequence number.                     *)
LEMMA ExpectedGrows ==
  ASSUME Types, Placed, [Next]_vars, NEW s \in Srcs
  PROVE  expected[s] \in Nat /\ expected'[s] \in Nat /\ expected[s] <= expected'[s]
  <1> DEFINE Goal == expected[s] \in Nat /\ expected'[s] \in Nat /\ expected[s] <= expected'[s]
  <1>1. CASE UNCHANGED expected BY <1>1 DEF Types
  <1>2. ASSUME NEW m \in Sent, NEW early, InOrder(m, early) PROVE Goal
    <2>1. m[1] \in Srcs BY SentIs
    <2> QED BY <1>2, <2>1 DEF InOrder, Types
  <1>3. ASSUME NEW m \in net, Arrive(m)
        PROVE  UNCHANGED expected \/ (m \in Sent /\ InOrder(m, cantMatch[m[1]]))
    BY <1>3 DEF Arrive, RecvFrag, lists, Placed
  <1>4. ASSUME NEW r \in Srcs, Recheck(r)
        PROVE  UNCHANGED expected \/ \E m \in Sent : InOrder(m, cantMatch[r] \ {m})
    BY <1>4, Zenon DEF Recheck, CheckCantMatch, Placed
  <1>5. \/ UNCHANGED expected
        \/ \E m \in net : Arrive(m)
        \/ \E r \in Srcs : Recheck(r)
    BY Zenon DEF Next, Delivery, Send, Crash, Notify, Revoke, FailureAck, AckArrive, DataArrive, Poll,
           Post, vars, lists
  <1> QED BY <1>1, <1>2, <1>3, <1>4, <1>5, Zenon

(* Every step preserves what is known of the message a request got.        *)
LEMMA OriginsNext ==
  ASSUME Types, Placed, Answering, Origins, [Next]_vars, Types'
  PROVE  Origins'
  <1> SUFFICES ASSUME NEW i \in 1..Len(req')
               PROVE  /\ req'[i].st = "matched" => req'[i].from # None
                      /\ req'[i].from # None =>
                           /\ req'[i].from \in Sent'
                           /\ req'[i].from[2] < expected'[req'[i].from[1]]
    BY DEF Origins, Reqs
  <1>1. ASSUME NEW m \in Sent, m[2] < expected'[m[1]], req'[i].from = m
        PROVE  /\ req'[i].from # None
               /\ req'[i].from \in Sent' /\ req'[i].from[2] < expected'[req'[i].from[1]]
    <2>1. m \in Sent' BY SentKept DEF Types
    <2>2. m # None BY SentIs DEF Message, None
    <2> QED BY <1>1, <2>1, <2>2
  <1>2. CASE i \in Reqs /\ Same(req[i], req'[i])
    <2>1. CASE req[i].from = None BY <1>2, <2>1 DEF Same, Origins
    <2>2. CASE req[i].from # None
      <3> DEFINE m == req[i].from
      <3>1. m \in Sent /\ m[2] < expected[m[1]] /\ req'[i].from = m
        BY <1>2, <2>2 DEF Origins, Same
      <3>2. m[1] \in Srcs /\ m[2] \in Nat BY <3>1, SentIs DEF Message
      <3>3. m[2] < expected'[m[1]] BY <3>1, <3>2, ExpectedGrows
      <3> QED BY <1>1, <3>1, <3>3
    <2> QED BY <2>1, <2>2
  <1>3. ASSUME NEW m \in Sent, Gets(i, m)
        PROVE  /\ req'[i].from # None
               /\ req'[i].from \in Sent' /\ req'[i].from[2] < expected'[req'[i].from[1]]
    <2>1. m \in Message /\ m[1] \in Srcs /\ m[2] \in Nat BY SentIs DEF Message
    <2>2. i \in Reqs /\ req[i] \in Requests BY <1>3 DEF Gets, MatchIncoming, Posted, Reqs, Types
    <2>3. req'[i].from = m BY <1>3, <2>1, <2>2, GivenType DEF Gets
    <2>4. m[2] < expected'[m[1]] BY <1>3, <2>1 DEF Gets, Types
    <2> QED BY <1>1, <2>3, <2>4
  <1>4. ASSUME NEW x \in Recvs, New(i, Request(x[1], x[2]))
        PROVE  /\ req'[i].st = "matched" => req'[i].from # None
               /\ req'[i].from # None =>
                    /\ req'[i].from \in Sent'
                    /\ req'[i].from[2] < expected'[req'[i].from[1]]
    <2> DEFINE q == Request(x[1], x[2])
    <2>1. q \in Requests BY MatchingAssumption DEF Request, Requests
    <2>2. CASE req'[i] = q BY <2>2 DEF Request
    <2> HIDE DEF q
    <2>3. ASSUME NEW s \in Srcs, NEW m \in Fitting(q, s), req'[i] = Given(q, m)
          PROVE  /\ req'[i].from # None
                 /\ req'[i].from \in Sent' /\ req'[i].from[2] < expected'[req'[i].from[1]]
      <3>1. m \in Sent /\ m[1] = s /\ m[2] < expected[s] BY DEF Fitting, Placed
      <3>2. m \in Message BY <3>1, SentIs
      <3>3. req'[i].from = m BY <2>1, <2>3, <3>2, GivenType
      <3>4. m[2] < expected'[m[1]] BY <1>4, <3>1 DEF New
      <3> QED BY <1>1, <3>1, <3>3, <3>4
    <2> QED BY <1>4, <2>2, <2>3 DEF New, q
  <1> QED BY <1>2, <1>3, <1>4, ReqStep

(* How a posted request comes about.                                       *)
LEMMA PostedStep ==
  ASSUME Types, Placed, Answering, [Next]_vars, NEW j \in Posted'
  PROVE  \/ j \in Posted /\ req'[j].src = req[j].src /\ req'[j].tag = req[j].tag
         \/ /\ j = Len(req) + 1 /\ Len(req') = j /\ UNCHANGED <<sent, unexpected>>
            /\ \A s \in Srcs : Fitting(req'[j], s) = {}
  <1>1. j \in 1..Len(req') /\ req'[j].st = "posted" BY DEF Posted, Reqs
  <1>2. CASE j \in Reqs /\ Same(req[j], req'[j])
    BY <1>1, <1>2 DEF Same, Posted
  <1>3. ASSUME NEW m \in Sent, Gets(j, m) PROVE FALSE
    <2>1. m \in Message BY SentIs
    <2>2. req[j] \in Requests BY <1>3 DEF Gets, MatchIncoming, Posted, Reqs, Types
    <2> QED BY <1>1, <1>3, <2>1, <2>2, GivenType DEF Gets
  <1>4. ASSUME NEW x \in Recvs, New(j, Request(x[1], x[2]))
        PROVE  /\ j = Len(req) + 1 /\ Len(req') = j /\ UNCHANGED <<sent, unexpected>>
               /\ \A s \in Srcs : Fitting(req'[j], s) = {}
    <2> DEFINE q == Request(x[1], x[2])
    <2>1. q \in Requests BY MatchingAssumption DEF Request, Requests
    <2> HIDE DEF q
    <2>2. ASSUME NEW s \in Srcs, NEW m \in Fitting(q, s), req'[j] = Given(q, m) PROVE FALSE
      <3>1. m \in Message BY DEF Fitting, Types
      <3> QED BY <1>1, <2>1, <2>2, <3>1, GivenType
    <2>3. req'[j] = q /\ UNCHANGED unexpected /\ \A s \in Srcs : Fitting(q, s) = {}
      BY <1>4, <2>2 DEF New, q
    <2> QED BY <1>4, <2>3 DEF New
  <1> QED BY <1>1, <1>2, <1>3, <1>4, ReqStep

(* No step leaves a posted request and a message that matches it waiting   *)
(* for each other.                                                         *)
LEMMA NoMissedMatchNext ==
  ASSUME Types, Placed, Answering, NoMissedMatch, [Next]_vars, Types'
  PROVE  NoMissedMatch'
  <1> SUFFICES ASSUME NEW j \in Posted', NEW s \in Srcs, NEW m \in unexpected'[s]
               PROVE  ~Accepts(req'[j], s, Tag(m)')
    BY DEF NoMissedMatch
  <1>1. CASE j \in Posted /\ req'[j].src = req[j].src /\ req'[j].tag = req[j].tag
    <2>1. \A t : Accepts(req'[j], s, t) <=> Accepts(req[j], s, t)
      BY <1>1 DEF Accepts
    <2>2. CASE m \in unexpected[s]
      <3>1. m \in Sent BY <2>2 DEF Placed
      <3>2. Tag(m)' = Tag(m) BY <3>1, SentKept DEF Types
      <3> QED BY <1>1, <2>1, <2>2, <3>2 DEF NoMissedMatch
    <2>3. CASE m[1] = s /\ MatchIncoming(m) = {} /\ UNCHANGED <<req, sent>>
      <3>1. Tag(m)' = Tag(m) BY <2>3 DEF Tag
      <3> QED BY <1>1, <2>1, <2>3, <3>1 DEF MatchIncoming
    <2> QED BY <2>2, <2>3, UnexpectedStep
  <1>2. CASE UNCHANGED <<sent, unexpected>> /\ \A r \in Srcs : Fitting(req'[j], r) = {}
    <2>1. Tag(m)' = Tag(m) BY <1>2 DEF Tag
    <2> QED BY <1>2, <2>1 DEF Fitting
  <1> QED BY <1>1, <1>2, PostedStep

-----------------------------------------------------------------------------
(* No step gives a message to a request while an older one would have      *)
(* taken it.                                                               *)
LEMMA InPostedOrderNext ==
  ASSUME Types, Placed, Answering, Origins, NoMissedMatch, InPostedOrder, [Next]_vars, Types'
  PROVE  InPostedOrder'
  <1> SUFFICES ASSUME NEW i \in 1..Len(req'), NEW j \in Posted', j < i,
                      NEW m, m = req'[i].from, m # None
               PROVE  ~Accepts(req'[j], m[1], Tag(m)')
    BY DEF InPostedOrder, Reqs, Tag
  <1>1. j \in Posted /\ req'[j].src = req[j].src /\ req'[j].tag = req[j].tag
    <2>1. j # Len(req) + 1 \/ Len(req') # j BY DEF Posted, Reqs, Types
    <2> QED BY <2>1, PostedStep
  <1>2. \A s, t : Accepts(req'[j], s, t) <=> Accepts(req[j], s, t)
    BY <1>1 DEF Accepts
  <1>3. j \in Reqs /\ j \in Nat BY <1>1 DEF Posted, Reqs
  <1>4. SUFFICES m \in Sent /\ ~Accepts(req[j], m[1], Tag(m))
    <2>1. Tag(m)' = Tag(m) BY <1>4, SentKept DEF Types
    <2> QED BY <1>2, <1>4, <2>1
  <1>5. CASE i \in Reqs /\ Same(req[i], req'[i])
    BY <1>1, <1>5 DEF Same, Origins, InPostedOrder
  <1>6. ASSUME NEW x \in Sent, Gets(i, x) PROVE m \in Sent /\ ~Accepts(req[j], m[1], Tag(m))
    <2>1. x \in Message BY SentIs
    <2>2. req[i] \in Requests BY <1>6 DEF Gets, MatchIncoming, Posted, Reqs, Types
    <2>3. m = x BY <1>6, <2>1, <2>2, GivenType DEF Gets
    <2>4. j \notin MatchIncoming(x) BY <1>3, <1>6 DEF Gets, Types
    <2> QED BY <1>1, <2>3, <2>4 DEF MatchIncoming
  <1>7. ASSUME NEW x \in Recvs, New(i, Request(x[1], x[2]))
        PROVE  m \in Sent /\ ~Accepts(req[j], m[1], Tag(m))
    <2> DEFINE q == Request(x[1], x[2])
    <2>1. q \in Requests BY MatchingAssumption DEF Request, Requests
    <2>2. req'[i] # q BY DEF Request
    <2> HIDE DEF q
    <2>a. PICK s \in Srcs : \E y \in Fitting(q, s) : req'[i] = Given(q, y)
      BY <1>7, <2>2 DEF New, q
    <2>3. PICK y \in Fitting(q, s) : req'[i] = Given(q, y) BY <2>a
    <2>4. y \in unexpected[s] /\ y \in Message BY DEF Fitting, Types
    <2>5. m = y BY <2>1, <2>3, <2>4, GivenType
    <2>6. y \in Sent /\ y[1] = s BY <2>4 DEF Placed
    <2> QED BY <1>1, <2>4, <2>5, <2>6 DEF NoMissedMatch
  <1> QED BY <1>5, <1>6, <1>7, ReqStep

(* A message that was sent does not come back.                             *)
LEMMA WaitingStep ==
  ASSUME Types, Placed, [Next]_vars, NEW m \in Sent, Waiting(m)'
  PROVE  Waiting(m)
  <1>1. m[1] \in Srcs BY SentIs
  <1>2. ASSUME m \in unexpected'[m[1]] PROVE Waiting(m)
    BY <1>1, <1>2, UnexpectedStep DEF Waiting, Queued
  <1>3. ASSUME m \in net' PROVE m \in net
    <2>1. ASSUME NEW x \in Sends, Send(x[1], x[2], x[3]) PROVE m \in net
      <3>1. x[1] \in Srcs BY MatchingAssumption
      <3>2. <<x[1], Len(sent[x[1]]) + 1>> \notin Sent BY <3>1, SentIs DEF Types
      <3> QED BY <1>3, <2>1, <3>2 DEF Send
    <2>2. net' \subseteq net \/ \E x \in Sends : Send(x[1], x[2], x[3])
      BY Zenon DEF Next, Delivery, Crash, Notify, Revoke, FailureAck, Arrive, Recheck, AckArrive,
             DataArrive, Poll, Post, vars
    <2> QED BY <1>3, <2>1, <2>2
  <1>4. ASSUME m \in cantMatch'[m[1]] PROVE m \in net \cup cantMatch[m[1]]
    <2>1. ASSUME NEW x \in net, Arrive(x) PROVE m \in net \cup cantMatch[m[1]]
      <3>1. \/ UNCHANGED cantMatch
            \/ cantMatch' = [cantMatch EXCEPT ![x[1]] = @ \cup {x}]
        BY <2>1 DEF Arrive, RecvFrag, lists
      <3>2. x[1] \in Srcs BY DEF Types, Message
      <3>3. \A y \in cantMatch'[m[1]] : y \in cantMatch[m[1]] \/ y = x
        <4>1. CASE UNCHANGED cantMatch BY <4>1
        <4>2. CASE cantMatch' = [cantMatch EXCEPT ![x[1]] = @ \cup {x}]
          BY <1>1, <3>2, <4>2 DEF Types
        <4> QED BY <3>1, <4>1, <4>2
      <3> QED BY <1>4, <3>3
    <2>2. ASSUME NEW s \in Srcs, Recheck(s) PROVE m \in cantMatch[m[1]]
      BY <1>1, <1>4, <2>2, ZenonT(40) DEF Recheck, CheckCantMatch, Types
    <2>3. ASSUME NEW c \in BOOLEAN, RevokeComm(c) PROVE m \in cantMatch[m[1]]
      BY <1>1, <1>4, <2>3, Zenon DEF RevokeComm
    <2>4. \/ UNCHANGED cantMatch
          \/ \E x \in net : Arrive(x)
          \/ \E s \in Srcs : Recheck(s)
          \/ \E c \in BOOLEAN : RevokeComm(c)
      BY ZenonT(40) DEF Next, Delivery, Send, Crash, Notify, Revoke, FailureAck, AckArrive, DataArrive, Poll,
             Post, vars, lists
    <2> QED BY <1>4, <2>1, <2>2, <2>3, <2>4
  <1> QED BY <1>2, <1>3, <1>4 DEF Waiting, Queued

=============================================================================
