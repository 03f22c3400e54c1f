--------------------------- MODULE MatchingProofs ---------------------------
(*****************************************************************************)
(* The safety properties of Matching, for any number of senders, messages,   *)
(* requests and crashes.                                                     *)
(*****************************************************************************)
EXTENDS MatchingOrder

(* No step gives a request a message while an earlier one of the same      *)
(* sender that it would accept is waiting.                                 *)
LEMMA NonOvertakingNext ==
  ASSUME Types, Placed, Answering, Origins, NoMissedMatch, NonOvertaking, [Next]_vars, Types'
  PROVE  NonOvertaking'
  <1> SUFFICES ASSUME NEW i \in 1..Len(req'), NEW m, m = req'[i].from, m # None,
                      NEW n \in 1..(m[2] - 1), NEW x, x = <<m[1], n>>,
                      Accepts(req'[i], m[1], Tag(x)')
               PROVE  ~Waiting(x)'
    BY DEF NonOvertaking, Reqs, Tag, Waiting, Queued
  <1>1. ASSUME m \in Sent
        PROVE  /\ x \in Sent /\ m[1] \in Srcs /\ m[2] \in Nat /\ n \in Nat /\ n < m[2]
               /\ Tag(x)' = Tag(x) /\ (Waiting(x)' => Waiting(x))
    <2>1. m \in Message /\ m[1] \in Srcs /\ m[2] \in 1..Len(sent[m[1]]) /\ Len(sent[m[1]]) \in Nat
      BY <1>1, SentIs
    <2>2. n \in Nat /\ n < m[2] /\ n \in 1..Len(sent[m[1]]) BY <2>1
    <2>3. x \in Message /\ x[2] <= Len(sent[x[1]]) BY <2>1, <2>2 DEF Message
    <2>4. x \in Sent BY <2>3, SentOf, Zenon DEF Sent, Types
    <2>5. Tag(x)' = Tag(x) BY <2>4, SentKept DEF Types
    <2>6. Waiting(x)' => Waiting(x) BY <2>4, WaitingStep
    <2> QED BY <2>1, <2>2, <2>4, <2>5, <2>6
  <1>2. CASE i \in Reqs /\ Same(req[i], req'[i])
    <2>1. m = req[i].from /\ m \in Sent BY <1>2 DEF Same, Origins
    <2>2. Accepts(req[i], m[1], Tag(x)) BY <1>1, <1>2, <2>1 DEF Accepts, Same
    <2>3. ~Waiting(x) BY <1>2, <2>1, <2>2 DEF NonOvertaking
    <2> QED BY <1>1, <2>1, <2>3
  <1>3. ASSUME NEW y \in Sent, m = y, NEW q, Accepts(req'[i], m[1], Tag(x)) => Accepts(q, m[1], Tag(x)),
               Waiting(x), m[2] <= expected[m[1]]
        PROVE  x \in unexpected[m[1]] /\ Accepts(q, m[1], Tag(x))
    <2>1. /\ x \in Sent /\ m[1] \in Srcs /\ m[2] \in Nat /\ n \in Nat /\ n < m[2] /\ Tag(x)' = Tag(x)
      BY <1>1, <1>3
    <2>2. expected[m[1]] \in Nat /\ n < expected[m[1]] /\ x[1] = m[1] /\ x[2] = n
      BY <1>3, <2>1 DEF Types
    <2>3. x \notin net /\ x \notin cantMatch[m[1]] BY <2>1, <2>2 DEF Placed
    <2> QED BY <1>3, <2>1, <2>2, <2>3 DEF Waiting, Queued
  <1>4. ASSUME NEW y \in Sent, Gets(i, y) PROVE ~Waiting(x)'
    <2>1. y \in Message BY SentIs
    <2>2. i \in Posted /\ req[i] \in Requests BY <1>4 DEF Gets, MatchIncoming, Posted, Reqs, Types
    <2>3. m = y /\ req'[i].src = req[i].src /\ req'[i].tag = req[i].tag
      BY <1>4, <2>1, <2>2, GivenType DEF Gets
    <2>4. m[2] = expected[m[1]] /\ m[1] \in Srcs BY <1>1, <1>4, <2>3 DEF Gets
    <2>5. ASSUME Waiting(x) PROVE FALSE
      <3>1. m[2] <= expected[m[1]] BY <1>1, <2>3, <2>4
      <3>2. Accepts(req'[i], m[1], Tag(x)) => Accepts(req[i], m[1], Tag(x))
        BY <2>3 DEF Accepts
      <3>3. x \in unexpected[m[1]] /\ Accepts(req[i], m[1], Tag(x))
        BY <1>3, <2>3, <2>5, <3>1, <3>2
      <3> QED BY <2>2, <2>4, <3>3 DEF NoMissedMatch
    <2> QED BY <1>1, <2>3, <2>5
  <1>5. ASSUME NEW z \in Recvs, New(i, Request(z[1], z[2])) PROVE ~Waiting(x)'
    <2> DEFINE q == Request(z[1], z[2])
    <2>1. q \in Requests BY MatchingAssumption DEF Request, Requests
    <2>2. req'[i] # q BY DEF Request
    <2> HIDE DEF q
    <2>a. PICK s \in Srcs : \E y \in Fitting(q, s) :
            req'[i] = Given(q, y) /\ \A w \in Fitting(q, s) : y[2] <= w[2]
      BY <1>5, <2>2 DEF New, q
    <2>3. PICK y \in Fitting(q, s) :
            req'[i] = Given(q, y) /\ \A w \in Fitting(q, s) : y[2] <= w[2]
      BY <2>a
    <2>4. y \in unexpected[s] /\ y \in Message BY DEF Fitting, Types
    <2>5. m = y /\ req'[i].src = q.src /\ req'[i].tag = q.tag BY <2>1, <2>3, <2>4, GivenType
    <2>6. y \in Sent /\ y[1] = s /\ y[2] < expected[s] BY <2>4 DEF Placed
    <2>7. ASSUME Waiting(x) PROVE FALSE
      <3>1. m[2] <= expected[m[1]] BY <1>1, <2>5, <2>6 DEF Types
      <3>2. x \in unexpected[m[1]] /\ Accepts(q, m[1], Tag(x))
        BY <1>3, <2>5, <2>6, <2>7, <3>1 DEF Accepts
      <3>3. x \in Fitting(q, s) BY <2>5, <2>6, <3>2 DEF Fitting
      <3>4. m[2] <= n BY <2>3, <2>5, <3>3
      <3> QED BY <1>1, <2>5, <2>6, <3>4
    <2> QED BY <1>1, <2>5, <2>6, <2>7
  <1>6. \/ i \in Reqs /\ Same(req[i], req'[i])
        \/ \E y \in Sent : Gets(i, y)
        \/ \E z \in Recvs : New(i, Request(z[1], z[2]))
    BY ReqStep
  <1> QED BY <1>2, <1>4, <1>5, <1>6, Zenon

-----------------------------------------------------------------------------
(* Matching a message makes no other one unexpected.                       *)
LEMMA MatchOneUnexpected ==
  ASSUME Types, NEW x, x[1] \in Srcs, MatchOne(x), NEW s \in Srcs, NEW y \in unexpected'[s]
  PROVE  y \in unexpected[s] \/ (y = x /\ s = x[1])
  BY DEF MatchOne, Types

(* No step leaves a message that is refused in the lists.                  *)
LEMMA RevokeQuietNext ==
  ASSUME Types, Placed, Answering, RevokeQuiet, [Next]_vars, Types'
  PROVE  RevokeQuiet'
  <1> SUFFICES ASSUME NEW m \in Sent', Queued(m)'
               PROVE  ~Refused(m)'
    BY DEF RevokeQuiet
  <1>1. m \in Message /\ m[1] \in Srcs
    BY SentOf DEF Sent, Types, Message
  <1>2. ASSUME NEW c \in BOOLEAN, RevokeComm(c), UNCHANGED sent PROVE ~Refused(m)'
    <2>1. \A x : Refused(x)' <=> Refuses(revoked \/ ~c, TRUE, Tag(x))
      BY <1>2, Zenon DEF RevokeComm, Refused, Refuses, Tag
    <2> QED BY <1>1, <1>2, <2>1, Zenon DEF RevokeComm, Queued
  <1>3. ASSUME Queued(m), UNCHANGED <<revoked, collRevoked>> PROVE ~Refused(m)'
    <2>1. m \in Sent BY <1>1, <1>3 DEF Queued, Placed
    <2>2. Tag(m)' = Tag(m) BY <2>1, SentKept DEF Types
    <2>3. ~Refused(m) BY <1>3, <2>1 DEF RevokeQuiet
    <2> QED BY <1>3, <2>2, <2>3 DEF Refused, Refuses
  <1>4. ASSUME NEW x \in net, Arrive(x) PROVE ~Refused(m)'
    <2>1. UNCHANGED <<revoked, collRevoked, sent>> BY <1>4 DEF Arrive, status, senders
    <2>2. CASE m = x /\ ~Refused(x)
      BY <2>1, <2>2 DEF Refused, Refuses, Tag
    <2>3. x[1] \in Srcs BY DEF Types, Message
    <2>4. CASE UNCHANGED lists BY <1>3, <2>1, <2>4 DEF Queued, lists
    <2>5. CASE /\ ~Refused(x) /\ UNCHANGED unexpected
               /\ cantMatch' = [cantMatch EXCEPT ![x[1]] = @ \cup {x}]
      <3>1. m = x \/ Queued(m) BY <1>1, <2>3, <2>5 DEF Queued, Types
      <3> QED BY <1>3, <2>1, <2>2, <2>5, <3>1
    <2>6. CASE ~Refused(x) /\ MatchOne(x) /\ UNCHANGED cantMatch
      <3>1. m = x \/ Queued(m) BY <1>1, <2>3, <2>6, MatchOneUnexpected DEF Queued
      <3> QED BY <1>3, <2>1, <2>2, <2>6, <3>1
    <2> QED BY <1>4, <2>4, <2>5, <2>6 DEF Arrive, RecvFrag, InOrder
  <1>5. ASSUME NEW s \in Srcs, Recheck(s) PROVE ~Refused(m)'
    <2>1. UNCHANGED <<revoked, collRevoked>> BY <1>5 DEF Recheck, status
    <2>2. CASE UNCHANGED <<cantMatch, unexpected>> BY <1>3, <2>1, <2>2 DEF Queued
    <2>3. ASSUME NEW x \in cantMatch[s], MatchOne(x), cantMatch' = [cantMatch EXCEPT ![s] = @ \ {x}]
          PROVE  Queued(m)
      <3>1. x[1] = s BY DEF Placed
      <3>2. cantMatch'[m[1]] \subseteq cantMatch[m[1]] BY <1>1, <2>3 DEF Types
      <3>3. m \in unexpected'[m[1]] => m \in unexpected[m[1]] \/ (m = x /\ m[1] = s)
        BY <1>1, <2>3, <3>1, MatchOneUnexpected
      <3> QED BY <3>2, <3>3 DEF Queued
    <2> QED BY <1>3, <1>5, <2>1, <2>2, <2>3 DEF Recheck, CheckCantMatch, InOrder
  <1>6. ASSUME NEW x \in Recvs, Post(x[1], x[2]) PROVE ~Refused(m)'
    <2>1. UNCHANGED <<revoked, collRevoked, cantMatch>> BY <1>6 DEF Post, status
    <2>2. \A s \in Srcs : unexpected'[s] \subseteq unexpected[s]
      BY <1>6, ZenonT(40) DEF Post, RecvReqStart, Types
    <2> QED BY <1>1, <1>3, <2>1, <2>2 DEF Queued
  <1>7. ASSUME NEW s \in Srcs, Notify(s) PROVE ~Refused(m)'
    BY <1>2, <1>7, Zenon DEF Notify, senders
  <1>8. CASE Revoke BY <1>2, <1>8, ZenonT(40) DEF Revoke, senders
  <1>9. \/ UNCHANGED <<revoked, collRevoked, cantMatch, unexpected>>
        \/ \E x \in net : Arrive(x)
        \/ \E s \in Srcs : Recheck(s)
        \/ \E x \in Recvs : Post(x[1], x[2])
        \/ \E s \in Srcs : Notify(s)
        \/ Revoke
    BY Zenon DEF Next, Delivery, Send, Crash, FailureAck, AckArrive, DataArrive, Poll, vars, lists, status
  <1> QED BY <1>3, <1>4, <1>5, <1>6, <1>7, <1>8, <1>9 DEF Queued

-----------------------------------------------------------------------------
(* SendersAnswered is inductive once it says of the senders that crashed,  *)
(* too, that none gets an answer while its message waits.                  *)
Answered ==
  \A m \in Sent :
    /\ Waiting(m) /\ Kind(m) = "rndv" => Answers(m) = {} /\ Pending(m)
    /\ Pending(m) /\ m[1] \notin crashed /\ ~Waiting(m) => Answers(m) # {}
    /\ \A a, b \in Answers(m) : a = b
    /\ Answers(m) # {} => Pending(m)

(* The invariant implies that senders are answered.                        *)
LEMMA AnsweredImplies ==
  ASSUME Answered
  PROVE  SendersAnswered
  BY DEF Answered, SendersAnswered, Pending

(* A message that only moves between the lists is still to be answered.    *)
LEMMA Moved ==
  ASSUME Answered, UNCHANGED <<sent, acks>>, crashed \subseteq crashed',
         \A m \in Sent : Waiting(m)' <=> Waiting(m)
  PROVE  Answered'
  <1>1. Sent' = Sent BY DEF Sent
  <1>2. \A m : /\ Answers(m)' = Answers(m) /\ (Pending(m)' <=> Pending(m)) /\ Kind(m)' = Kind(m)
    BY DEF Answers, Pending, Kind
  <1> QED BY <1>1, <1>2 DEF Answered

(* A message that leaves the lists is answered.                            *)
LEMMA Consumed ==
  ASSUME Answered, UNCHANGED <<sent, crashed>>, NEW x \in Sent, Waiting(x), ~Waiting(x)',
         Kind(x) \in {"match", "rndv"}, NEW i, acks' = acks \cup Answer(x, i),
         \A m \in Sent \ {x} : Waiting(m)' <=> Waiting(m)
  PROVE  Answered'
  <1>1. Sent' = Sent BY DEF Sent
  <1>2. \A m : (Pending(m)' <=> Pending(m)) /\ Kind(m)' = Kind(m)
    BY DEF Pending, Kind
  <1>3. \A m \in Sent \ {x} : Answers(m)' = Answers(m) BY DEF Answers, Answer
  <1>4. CASE Kind(x) = "match"
    <2>1. acks' = acks BY <1>4 DEF Answer
    <2>2. Answers(x)' = Answers(x) BY <2>1 DEF Answers
    <2>3. ~Pending(x) BY <1>4 DEF Pending
    <2> QED BY <1>1, <1>2, <1>3, <2>2, <2>3 DEF Answered
  <1>5. CASE Kind(x) = "rndv"
    <2>1. Answers(x) = {} /\ Pending(x) BY <1>5 DEF Answered
    <2>2. acks' = acks \cup {[msg |-> x, req |-> i]} BY <1>5 DEF Answer
    <2>3. Answers(x)' = {[msg |-> x, req |-> i]} BY <2>1, <2>2 DEF Answers
    <2>4. ASSUME NEW m \in Sent \ {x}
          PROVE  /\ Waiting(m)' /\ Kind(m)' = "rndv" => Answers(m)' = {} /\ Pending(m)'
                 /\ Pending(m)' /\ m[1] \notin crashed' /\ ~Waiting(m)' => Answers(m)' # {}
                 /\ \A a, b \in Answers(m)' : a = b
                 /\ Answers(m)' # {} => Pending(m)'
      BY <1>2, <1>3 DEF Answered
    <2>5. \A a, b \in Answers(x)' : a = b BY <2>3
    <2>6. Answers(x)' # {} /\ Pending(x)' BY <1>2, <2>1, <2>3
    <2> QED BY <1>1, <2>4, <2>5, <2>6 DEF Answered
  <1> QED BY <1>4, <1>5

(* A message that waits is in one place.                                   *)
LEMMA OnePlace ==
  ASSUME Types, Placed, NEW m \in Sent
  PROVE  /\ m[1] \in Srcs /\ Kind(m) \in {"match", "rndv"}
         /\ m \in net => m \notin cantMatch[m[1]] /\ m \notin unexpected[m[1]]
         /\ m \in cantMatch[m[1]] => m \notin unexpected[m[1]]
  <1>1. m[1] \in Srcs /\ m[2] \in 1..Len(sent[m[1]]) /\ m[2] \in Nat
    BY SentIs DEF Message
  <1>2. sent[m[1]][m[2]] \in Sending BY <1>1 DEF Types
  <1>3. expected[m[1]] \in Nat BY <1>1 DEF Types
  <1> QED BY <1>1, <1>2, <1>3 DEF Placed, Kind, Sending

(* The message that is expected next leaves where it has waited, and is    *)
(* matched, or waits on as an unexpected one.                              *)
LEMMA AnsweredMatchOne ==
  ASSUME Types, Placed, Answered, UNCHANGED <<sent, crashed>>, NEW x \in Sent, MatchOne(x),
         \/ x \in net /\ net' = net \ {x} /\ UNCHANGED cantMatch
         \/ /\ x \in cantMatch[x[1]] /\ UNCHANGED net
            /\ cantMatch' = [cantMatch EXCEPT ![x[1]] = @ \ {x}]
  PROVE  Answered'
  <1>1. x[1] \in Srcs BY SentIs
  <1>2. Waiting(x) BY DEF Waiting, Queued
  <1>3. ASSUME NEW m \in Sent \ {x}
        PROVE  (m \in net' <=> m \in net) /\ (m \in cantMatch'[m[1]] <=> m \in cantMatch[m[1]])
    <2>1. m[1] \in Srcs BY SentIs
    <2> QED BY <1>1, <2>1, ZenonT(40) DEF Types
  <1>4. x \notin net' /\ x \notin cantMatch'[x[1]] BY <1>1, OnePlace DEF Types
  <1>5. CASE /\ unexpected' = [unexpected EXCEPT ![x[1]] = @ \cup {x}] /\ UNCHANGED acks
    <2>1. Waiting(x)' BY <1>1, <1>5 DEF Waiting, Queued, Types
    <2>2. ASSUME NEW m \in Sent \ {x} PROVE m \in unexpected'[m[1]] <=> m \in unexpected[m[1]]
      <3>1. m[1] \in Srcs BY SentIs
      <3> QED BY <1>1, <1>5, <3>1 DEF Types
    <2>3. \A m \in Sent : Waiting(m)' <=> Waiting(m)
      BY <1>2, <1>3, <2>1, <2>2 DEF Waiting, Queued
    <2> QED BY <1>5, <2>3, Moved
  <1>6. ASSUME NEW i, acks' = acks \cup Answer(x, i), UNCHANGED unexpected PROVE Answered'
    <2>1. x \notin unexpected'[x[1]] BY <1>6, OnePlace
    <2>2. ~Waiting(x)' BY <1>4, <2>1 DEF Waiting, Queued
    <2>3. \A m \in Sent \ {x} : Waiting(m)' <=> Waiting(m)
      BY <1>3, <1>6 DEF Waiting, Queued
    <2>4. Kind(x) \in {"match", "rndv"} BY OnePlace
    <2> QED BY <1>2, <1>6, <2>2, <2>3, <2>4, Consumed
  <1> QED BY <1>5, <1>6 DEF MatchOne

(* Those that the purge of a revoked communicator takes are refused.       *)
LEMMA AnsweredRevokeComm ==
  ASSUME Types, Placed, Answering, Answered, UNCHANGED <<sent, crashed>>,
         NEW c \in BOOLEAN, RevokeComm(c),
         net' \subseteq net, \A m \in net \ net' : m[1] \in crashed
  PROVE  Answered'
  <1> DEFINE Purged(m) == Refuses(revoked \/ ~c, TRUE, Tag(m))
             gone == UNION {{m \in unexpected[s] \cup cantMatch[s] : Purged(m)} : s \in Srcs}
             G == {x \in gone : Kind(x) = "rndv"}
  <1>1. /\ unexpected' = [s \in Srcs |-> {m \in unexpected[s] : ~Purged(m)}]
        /\ cantMatch' = [s \in Srcs |-> {m \in cantMatch[s] : ~Purged(m)}]
        /\ acks' = acks \cup {[msg |-> m, req |-> 0] : m \in G}
    BY DEF RevokeComm
  <1> HIDE DEF Purged
  <1>2. Sent' = Sent BY DEF Sent
  <1>3. \A m : (Pending(m)' <=> Pending(m)) /\ Kind(m)' = Kind(m)
    BY DEF Pending, Kind
  <1>4. ASSUME NEW m \in Sent PROVE m \in gone <=> Queued(m) /\ Purged(m)
    <2>1. m[1] \in Srcs BY SentIs
    <2>2. \A s \in Srcs : m \in unexpected[s] \cup cantMatch[s] => m[1] = s BY DEF Placed
    <2> QED BY <2>1, <2>2 DEF Queued
  <1> HIDE DEF gone
  <1> SUFFICES ASSUME NEW m \in Sent
               PROVE  /\ Waiting(m)' /\ Kind(m) = "rndv" => Answers(m)' = {} /\ Pending(m)
                      /\ Pending(m) /\ m[1] \notin crashed /\ ~Waiting(m)' => Answers(m)' # {}
                      /\ \A a, b \in Answers(m)' : a = b
                      /\ Answers(m)' # {} => Pending(m)
    BY <1>2, <1>3 DEF Answered
  <1>5. m[1] \in Srcs BY SentIs
  <1>6. Queued(m)' <=> Queued(m) /\ ~Purged(m) BY <1>1, <1>5 DEF Queued
  <1>7. CASE m \in G
    <2>1. Queued(m) /\ Purged(m) /\ Kind(m) = "rndv" BY <1>4, <1>7
    <2>2. m \notin net BY <2>1, OnePlace DEF Queued
    <2>3. ~Waiting(m)' BY <1>6, <2>1, <2>2 DEF Waiting
    <2>4. Answers(m) = {} /\ Pending(m) BY <2>1 DEF Answered, Waiting
    <2>5. Answers(m)' = {[msg |-> m, req |-> 0]}
      <3>1. \A a \in acks : a.msg # m BY <2>4 DEF Answers
      <3> HIDE DEF G
      <3> QED BY <1>1, <1>7, <3>1 DEF Answers
    <2> QED BY <2>3, <2>4, <2>5
  <1>8. CASE m \notin G
    <2>1. Answers(m)' = Answers(m)
      <3> HIDE DEF G
      <3> QED BY <1>1, <1>8 DEF Answers
    <2>2. Waiting(m)' => Waiting(m) BY <1>6 DEF Waiting
    <2>3. Pending(m) /\ m[1] \notin crashed /\ ~Waiting(m)' => ~Waiting(m)
      <3>1. Pending(m) => Kind(m) = "rndv" BY DEF Pending
      <3>2. Pending(m) /\ Queued(m) => Queued(m)' BY <1>4, <1>6, <1>8, <3>1
      <3>3. m[1] \notin crashed /\ m \in net => m \in net' OBVIOUS
      <3> QED BY <3>2, <3>3 DEF Waiting
    <2> QED BY <2>1, <2>2, <2>3 DEF Answered
  <1> QED BY <1>7, <1>8

(* Every step preserves the invariant.                                     *)
LEMMA AnsweredNext ==
  ASSUME Types, Placed, Answering, Answered, [Next]_vars, Types'
  PROVE  Answered'
  <1>1. ASSUME NEW z \in Sends, Send(z[1], z[2], z[3]) PROVE Answered'
    <2>0. PICK x : x = <<z[1], Len(sent[z[1]]) + 1>> BY Zenon
    <2>1. z[1] \in Srcs /\ Len(sent[z[1]]) \in Nat /\ z[3] \in {"match", "rndv"}
      BY MatchingAssumption DEF Types
    <2>2. /\ net' = net \cup {x} /\ UNCHANGED <<crashed, acks, cantMatch, unexpected>>
          /\ sent' = [sent EXCEPT ![z[1]] =
                        Append(@, [tag |-> z[2], kind |-> z[3], done |-> z[3] = "match"])]
      BY <1>1, <2>0 DEF Send, lists
    <2>3. x \notin Sent BY <2>0, <2>1, SentIs
    <2>4. ASSUME NEW m \in Sent
          PROVE  m \in Sent' /\ sent'[m[1]][m[2]] = sent[m[1]][m[2]]
      <3>1. m[1] \in Srcs /\ m[2] \in 1..Len(sent[m[1]]) BY SentIs
      <3>2. sent[m[1]] \in Seq(Sending) BY <3>1 DEF Types
      <3>3. m \in Sent' BY SentKept DEF Types
      <3> QED BY <2>1, <2>2, <3>1, <3>2, <3>3 DEF Types
    <2>5. ASSUME NEW m \in Sent' PROVE m \in Sent \/ m = x
      <3>1. m \in Message /\ m[2] <= Len(sent'[m[1]]) BY SentOf, Zenon DEF Sent, Types
      <3>2. m[1] \in Srcs /\ m[2] \in Nat \ {0} /\ m = <<m[1], m[2]>> BY <3>1 DEF Message
      <3>3. Len(sent'[m[1]]) = IF m[1] = z[1] THEN Len(sent[z[1]]) + 1 ELSE Len(sent[m[1]])
        BY <2>1, <2>2, <3>2 DEF Types
      <3>4. CASE m[2] <= Len(sent[m[1]]) BY <3>1, <3>4, SentOf DEF Sent, Types
      <3>5. CASE m[2] > Len(sent[m[1]])
        <4>1. m[1] = z[1] /\ m[2] = Len(sent[z[1]]) + 1 BY <2>1, <3>1, <3>2, <3>3, <3>5
        <4> QED BY <2>0, <3>2, <4>1
      <3>6. Len(sent[m[1]]) \in Nat BY <3>2 DEF Types
      <3> QED BY <3>2, <3>4, <3>5, <3>6
    <2>6. sent'[x[1]][x[2]] = [tag |-> z[2], kind |-> z[3], done |-> z[3] = "match"]
      BY <2>0, <2>1, <2>2 DEF Types
    <2>7. Answers(x) = {} BY <2>3 DEF Answers, Answering
    <2>8. \A m : Answers(m)' = Answers(m) BY <2>2 DEF Answers
    <2>9. ASSUME NEW m \in Sent
          PROVE  /\ (Waiting(m)' <=> Waiting(m)) /\ (Pending(m)' <=> Pending(m))
                 /\ Kind(m)' = Kind(m)
      <3>1. m # x BY <2>3
      <3> QED BY <2>2, <2>4, <3>1, Zenon DEF Waiting, Queued, Pending, Kind
    <2>10. Waiting(x)' BY <2>2 DEF Waiting
    <2>11. Kind(x)' = "rndv" => Pending(x)'
      <3>1. Kind(x)' = z[3] BY <2>6 DEF Kind
      <3>2. ASSUME z[3] = "rndv" PROVE sent'[x[1]][x[2]].done = FALSE
        <4>1. (z[3] = "match") = FALSE BY <3>2
        <4>2. sent'[x[1]][x[2]] = [tag |-> z[2], kind |-> z[3], done |-> FALSE] BY <2>6, <4>1, Zenon
        <4> QED BY <4>2
      <3> QED BY <3>1, <3>2, Zenon DEF Pending
    <2>12. ASSUME NEW m \in Sent'
           PROVE  /\ Waiting(m)' /\ Kind(m)' = "rndv" => Answers(m)' = {} /\ Pending(m)'
                  /\ Pending(m)' /\ m[1] \notin crashed' /\ ~Waiting(m)' => Answers(m)' # {}
                  /\ \A a, b \in Answers(m)' : a = b
                  /\ Answers(m)' # {} => Pending(m)'
      <3>1. CASE m = x BY <2>7, <2>8, <2>10, <2>11, <3>1
      <3>2. CASE m \in Sent BY <2>2, <2>8, <2>9, <3>2 DEF Answered
      <3> QED BY <2>5, <3>1, <3>2
    <2> QED BY <2>12 DEF Answered
  <1>2. ASSUME NEW a \in acks, AckArrive(a) PROVE Answered'
    <2> DEFINE x == a.msg
               q == sent[x[1]]
               e == [q[x[2]] EXCEPT !.done = TRUE]
    <2>1. x \in Sent /\ x[1] \in Srcs /\ x[2] \in 1..Len(sent[x[1]]) /\ x = <<x[1], x[2]>>
      <3>1. x \in Sent BY DEF Answering
      <3> QED BY <3>1, SentIs
    <2>2. q \in Seq(Sending) /\ q[x[2]] \in Sending BY <2>1 DEF Types
    <2>3. /\ acks' = acks \ {a} /\ UNCHANGED <<crashed, net, cantMatch, unexpected>>
          /\ sent' = [sent EXCEPT ![x[1]] = [q EXCEPT ![x[2]] = e]]
      BY <1>2 DEF AckArrive, lists
    <2>4. e.done /\ e.kind = q[x[2]].kind BY <2>2 DEF Sending
    <2> HIDE DEF e
    <2>5. sent'[x[1]][x[2]] = e BY <2>1, <2>2, <2>3 DEF Types
    <2>6. ASSUME NEW m \in Sent, m # x PROVE sent'[m[1]][m[2]] = sent[m[1]][m[2]]
      <3>1. m[1] \in Srcs /\ m[2] \in 1..Len(sent[m[1]]) /\ m = <<m[1], m[2]>> BY SentIs
      <3>2. CASE m[1] # x[1] BY <2>1, <2>3, <3>1, <3>2 DEF Types
      <3>3. CASE m[1] = x[1] /\ m[2] # x[2]
        BY <2>1, <2>2, <2>3, <3>1, <3>3 DEF Types
      <3> QED BY <2>1, <2>6, <3>1, <3>2, <3>3
    <2>7. \A s \in Srcs : Len(sent'[s]) = Len(sent[s])
      BY <2>1, <2>2, <2>3 DEF Types
    <2>8. ASSUME NEW m \in Sent' PROVE m \in Sent
      <3>1. m \in Message /\ m[2] <= Len(sent'[m[1]]) BY SentOf, Zenon DEF Sent, Types
      <3>2. m[2] <= Len(sent[m[1]]) BY <2>7, <3>1 DEF Message
      <3> QED BY <3>1, <3>2, SentOf DEF Sent, Types
    <2>9. a \in Answers(x) BY DEF Answers
    <2>10. Pending(x) /\ ~Waiting(x) /\ \A b \in Answers(x) : b = a
      BY <2>1, <2>9 DEF Answered, Pending
    <2>11. Answers(x)' = {} BY <2>3, <2>10 DEF Answers
    <2>12. ~Pending(x)' /\ ~Waiting(x)'
      BY <2>3, <2>4, <2>5, <2>10 DEF Pending, Kind, Waiting, Queued
    <2> HIDE DEF x
    <2>13. ASSUME NEW m \in Sent, m # x
           PROVE  /\ Answers(m)' = Answers(m) /\ (Waiting(m)' <=> Waiting(m))
                  /\ (Pending(m)' <=> Pending(m)) /\ Kind(m)' = Kind(m)
      <3>1. Answers(m)' = Answers(m) BY <2>3, <2>13 DEF Answers, x
      <3>2. Waiting(m)' <=> Waiting(m) BY <2>3 DEF Waiting, Queued
      <3>3. (Pending(m)' <=> Pending(m)) /\ Kind(m)' = Kind(m)
        BY <2>6, <2>13 DEF Pending, Kind
      <3> QED BY <3>1, <3>2, <3>3
    <2>14. ASSUME NEW m \in Sent'
           PROVE  /\ Waiting(m)' /\ Kind(m)' = "rndv" => Answers(m)' = {} /\ Pending(m)'
                  /\ Pending(m)' /\ m[1] \notin crashed' /\ ~Waiting(m)' => Answers(m)' # {}
                  /\ \A b, c \in Answers(m)' : b = c
                  /\ Answers(m)' # {} => Pending(m)'
      <3>1. CASE m = x BY <2>11, <2>12, <3>1
      <3>2. CASE m # x BY <2>3, <2>8, <2>13, <3>2 DEF Answered
      <3> QED BY <3>1, <3>2
    <2> QED BY <2>14 DEF Answered
  <1>3. ASSUME NEW x \in net, Arrive(x) PROVE Answered'
    <2>1. x \in Sent /\ x[1] \in Srcs BY SentIs DEF Placed
    <2>2. net' = net \ {x} /\ UNCHANGED <<sent, crashed>> BY <1>3 DEF Arrive, senders
    <2>3. CASE acks' = acks \cup Answer(x, 0) /\ UNCHANGED lists
      <3>1. Waiting(x) /\ Kind(x) \in {"match", "rndv"} BY <2>1, OnePlace DEF Waiting
      <3>2. ~Waiting(x)' BY <2>1, <2>2, <2>3, OnePlace DEF Waiting, Queued, lists
      <3>3. \A m \in Sent \ {x} : Waiting(m)' <=> Waiting(m)
        BY <2>2, <2>3 DEF Waiting, Queued, lists
      <3> QED BY <2>1, <2>2, <2>3, <3>1, <3>2, <3>3, Consumed
    <2>4. CASE /\ cantMatch' = [cantMatch EXCEPT ![x[1]] = @ \cup {x}]
               /\ UNCHANGED <<unexpected, acks>>
      <3>1. ASSUME NEW m \in Sent PROVE Waiting(m)' <=> Waiting(m)
        <4>1. m[1] \in Srcs BY SentIs
        <4>2. m \in cantMatch'[m[1]] <=> m \in cantMatch[m[1]] \/ m = x
          BY <2>1, <2>4, <4>1 DEF Types
        <4> QED BY <2>2, <2>4, <4>2 DEF Waiting, Queued
      <3> QED BY <2>2, <2>4, <3>1, Moved
    <2>5. CASE MatchOne(x) /\ UNCHANGED cantMatch
      BY <2>1, <2>2, <2>5, AnsweredMatchOne
    <2> QED BY <1>3, <2>3, <2>4, <2>5 DEF Arrive, RecvFrag, InOrder
  <1>4. ASSUME NEW s \in Srcs, Recheck(s) PROVE Answered'
    <2>1. UNCHANGED <<sent, crashed, net>> BY <1>4 DEF Recheck, senders
    <2>2. CASE UNCHANGED <<cantMatch, unexpected, acks>>
      <3>1. \A m \in Sent : Waiting(m)' <=> Waiting(m) BY <2>1, <2>2 DEF Waiting, Queued
      <3> QED BY <2>1, <2>2, <3>1, Moved
    <2>3. ASSUME NEW x \in cantMatch[s], MatchOne(x), cantMatch' = [cantMatch EXCEPT ![s] = @ \ {x}]
          PROVE  Answered'
      <3>1. x \in Sent /\ x[1] = s BY DEF Placed
      <3> QED BY <2>1, <2>3, <3>1, AnsweredMatchOne, Zenon
    <2> QED BY <1>4, <2>2, <2>3 DEF Recheck, CheckCantMatch, InOrder
  <1>5. ASSUME NEW z \in Recvs, Post(z[1], z[2]) PROVE Answered'
    <2>1. UNCHANGED <<sent, crashed, net, cantMatch>> BY <1>5 DEF Post, senders
    <2>2. CASE UNCHANGED <<unexpected, acks>>
      <3>1. \A m \in Sent : Waiting(m)' <=> Waiting(m) BY <2>1, <2>2 DEF Waiting, Queued
      <3> QED BY <2>1, <2>2, <3>1, Moved
    <2>3. ASSUME NEW s \in Srcs, NEW x \in unexpected[s], NEW i, acks' = acks \cup Answer(x, i),
                 unexpected' = [unexpected EXCEPT ![s] = @ \ {x}]
          PROVE  Answered'
      <3>1. x \in Sent /\ x[1] = s BY DEF Placed
      <3>2. Waiting(x) /\ Kind(x) \in {"match", "rndv"} BY <3>1, OnePlace DEF Waiting, Queued
      <3>3. x \notin unexpected'[s] BY <2>3 DEF Types
      <3>4. ~Waiting(x)' BY <2>1, <3>1, <3>3, OnePlace DEF Waiting, Queued
      <3>5. ASSUME NEW m \in Sent \ {x} PROVE Waiting(m)' <=> Waiting(m)
        <4>1. m[1] \in Srcs BY SentIs
        <4>2. m \in unexpected'[m[1]] <=> m \in unexpected[m[1]] BY <2>3, <4>1 DEF Types
        <4> QED BY <2>1, <4>2 DEF Waiting, Queued
      <3> QED BY <2>1, <2>3, <3>1, <3>2, <3>4, <3>5, Consumed
    <2> QED BY <1>5, <2>2, <2>3, Zenon DEF Post, RecvReqStart, Fitting
  <1>6. ASSUME NEW s \in Srcs, Notify(s) PROVE Answered'
    <2>1. /\ RevokeComm(TRUE) /\ UNCHANGED <<sent, crashed>> /\ net' \subseteq net
          /\ \A m \in net \ net' : m[1] \in crashed
      BY <1>6, Zenon DEF Notify, senders
    <2> QED BY <2>1, AnsweredRevokeComm, Zenon
  <1>7. CASE Revoke
    <2>1. RevokeComm(FALSE) /\ UNCHANGED <<sent, crashed, net>> BY <1>7, Zenon DEF Revoke, senders
    <2> QED BY <2>1, AnsweredRevokeComm, Zenon
  <1>8. CASE UNCHANGED <<sent, net, acks, lists>> /\ crashed \subseteq crashed'
    <2>1. \A m \in Sent : Waiting(m)' <=> Waiting(m) BY <1>8 DEF Waiting, Queued, lists
    <2> QED BY <1>8, <2>1, Moved
  <1>9. \/ UNCHANGED <<sent, net, acks, lists>> /\ crashed \subseteq crashed'
        \/ \E z \in Sends : Send(z[1], z[2], z[3])
        \/ \E a \in acks : AckArrive(a)
        \/ \E x \in net : Arrive(x)
        \/ \E s \in Srcs : Recheck(s)
        \/ \E z \in Recvs : Post(z[1], z[2])
        \/ \E s \in Srcs : Notify(s)
        \/ Revoke
    BY Zenon DEF Next, Delivery, Crash, FailureAck, DataArrive, Poll, vars, senders
  <1> QED BY <1>1, <1>2, <1>3, <1>4, <1>5, <1>6, <1>7, <1>8, <1>9

-----------------------------------------------------------------------------
(* The inductive invariant.                                                *)
IInv ==
  /\ Types /\ Placed /\ Answering /\ Origins
  /\ NoMissedMatch /\ InPostedOrder /\ NonOvertaking /\ RevokeQuiet /\ Answered

(* All of it holds in the beginning, ...                                   *)
LEMMA InitIInv ==
  ASSUME Init
  PROVE  IInv
  <1>1. Types BY DEF Init, Types
  <1>2. \A s \in Srcs : Len(sent[s]) = 0 /\ sent[s] = <<>> BY DEF Init
  <1>3. Sent = {} BY <1>1, <1>2, SentIs
  <1>4. Placed BY <1>2 DEF Init, Placed
  <1>5. Answering BY DEF Init, Answering
  <1>6. Reqs = {} BY DEF Init, Reqs
  <1>7. Origins /\ InPostedOrder /\ NonOvertaking BY <1>6, Zenon DEF Origins, InPostedOrder, NonOvertaking
  <1>8. NoMissedMatch BY <1>6, Zenon DEF NoMissedMatch, Posted
  <1>9. RevokeQuiet /\ Answered BY <1>3 DEF RevokeQuiet, Answered
  <1> QED BY <1>1, <1>4, <1>5, <1>7, <1>8, <1>9 DEF IInv

(* ... is preserved by every step, ...                                     *)
LEMMA IInvNext ==
  ASSUME IInv, [Next]_vars
  PROVE  IInv'
  <1>1. Types' BY TypesNext DEF IInv
  <1>2. Placed' BY <1>1, PlacedNext DEF IInv
  <1>3. Answering' BY <1>1, AnsweringNext DEF IInv
  <1>4. Origins' BY <1>1, OriginsNext DEF IInv
  <1>5. NoMissedMatch' BY <1>1, NoMissedMatchNext DEF IInv
  <1>6. InPostedOrder' BY <1>1, InPostedOrderNext DEF IInv
  <1>7. NonOvertaking' BY <1>1, NonOvertakingNext DEF IInv
  <1>8. RevokeQuiet' BY <1>1, RevokeQuietNext DEF IInv
  <1>9. Answered' BY <1>1, AnsweredNext DEF IInv
  <1> QED BY <1>1, <1>2, <1>3, <1>4, <1>5, <1>6, <1>7, <1>8, <1>9 DEF IInv

(* ... and so always holds.                                                *)
LEMMA Invariant == Spec => []IInv
  <1>1. Init => IInv BY InitIInv
  <1>2. IInv /\ [Next]_vars => IInv' BY IInvNext
  <1> QED BY <1>1, <1>2, PTL DEF Spec

(* It implies the type invariant.                                          *)
LEMMA IInvTypeOK ==
  ASSUME IInv
  PROVE  TypeOK
  <1>1. Types /\ Placed /\ Answering /\ Origins BY DEF IInv
  <1>2. ASSUME NEW i \in Reqs
        PROVE  /\ req[i].st \in {"posted", "matched", "complete"}
               /\ req[i].from \in Sent \cup {None}
               /\ req[i].st = "matched" => req[i].from # None
    <2>1. req[i] \in Requests BY <1>1 DEF Types, Reqs
    <2> QED BY <1>1, <2>1 DEF Origins, Requests
  <1>3. ASSUME NEW s \in Srcs
        PROVE  /\ expected[s] \in 1..(Len(sent[s]) + 1)
               /\ cantMatch[s] \cup unexpected[s] \subseteq Sent
    BY <1>1 DEF Placed, Types
  <1>4. net \subseteq Sent BY <1>1 DEF Placed
  <1> QED BY <1>1, <1>2, <1>3, <1>4 DEF TypeOK, Types, Answering

(* What is on its way, in a list or with a request was sent, whatever is   *)
(* revoked and whoever fails.                                              *)
THEOREM TypeCorrect == Spec => []TypeOK
  <1>1. IInv => TypeOK BY IInvTypeOK
  <1> QED BY <1>1, Invariant, PTL

(* mca_pml_ob1_recv_frag_match and recv_req_start keep MPI's order of the  *)
(* messages of a sender: none overtakes another that the request accepts.  *)
THEOREM Order == Spec => []NonOvertaking
  <1>1. IInv => NonOvertaking BY DEF IInv
  <1> QED BY <1>1, Invariant, PTL

(* ... and MPI's order of the receives: match_incomming gives a message to *)
(* the request posted first, specific or wildcard.                         *)
THEOREM PostedOrder == Spec => []InPostedOrder
  <1>1. IInv => InPostedOrder BY DEF IInv
  <1> QED BY <1>1, Invariant, PTL

(* No posted request and unexpected message that fit miss each other,      *)
(* though the matching lock is released between the fragments.             *)
THEOREM Met == Spec => []NoMissedMatch
  <1>1. IInv => NoMissedMatch BY DEF IInv
  <1> QED BY <1>1, Invariant, PTL

(* After mca_pml_ob1_revoke_comm neither list ever holds a message that    *)
(* the revocation refuses.                                                 *)
THEOREM Quiet == Spec => []RevokeQuiet
  <1>1. IInv => RevokeQuiet BY DEF IInv
  <1> QED BY <1>1, Invariant, PTL

(* A rendezvous sender gets one answer, and it gets it unless its message  *)
(* still waits: matched, purged or refused on arrival.                     *)
THEOREM OneAnswer == Spec => []SendersAnswered
  <1>1. IInv => SendersAnswered BY AnsweredImplies DEF IInv
  <1> QED BY <1>1, Invariant, PTL

=============================================================================
