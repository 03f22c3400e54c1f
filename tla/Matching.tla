------------------------------ MODULE Matching ------------------------------
(***************************************************************************)
(* Matching of the messages of one communicator at one receiver, by the    *)
(* point-to-point layer ob1 (ompi/mca/pml/ob1), and what happens to        *)
(* messages and requests when the communicator is revoked or a process     *)
(* fails (mca_pml_ob1_revoke_comm, ompi_request_state_ok).                 *)
(*                                                                         *)
(* A message is <<s, n>>, the n-th that s sends to the receiver.  Messages *)
(* may overtake each other in the network; the sequence number puts them   *)
(* in order again.  A step holds the matching lock once, so the steps of   *)
(* two threads interleave wherever the code releases the lock.             *)
(***************************************************************************)
EXTENDS Integers, Sequences, FiniteSets

CONSTANTS
  NS,          \* the senders have ranks 0 .. NS-1
  Sends,       \* what may be sent: <<sender, tag, protocol>>
  Recvs,       \* what may be posted: <<source, tag>>
  MaxSends,    \* messages sent at most (fewer than the 2^16 sequence numbers)
  MaxRecvs,    \* receive requests at most
  MaxCrashes   \* crashes of senders at most

Srcs == 0..(NS - 1)
AnySource == -1
AnyTag == -1             \* matches the user's tags, which are >= 0

ASSUME MatchingAssumption ==
  /\ NS \in Nat \ {0} /\ MaxSends \in Nat /\ MaxRecvs \in Nat
  /\ MaxSends < 2^16 /\ MaxCrashes \in Nat
  /\ Sends \subseteq Srcs \X Int \X {"match", "rndv"}
  /\ Recvs \subseteq (Srcs \cup {AnySource}) \X Int

None == <<>>             \* no message

TagIsFt(t) == t <= -26 /\ t >= -31
TagIsCollective(t) == t <= -10 /\ t >= -25

VARIABLES
  sent,         \* sent[s][n]: tag, protocol and completion of a send of s
  crashed,      \* the senders that have crashed
  net,          \* messages on their way to the receiver
  acks,         \* answers on their way back: message, and request (0: NULL)
  data,         \* answers whose remaining data is on its way
  expected,     \* expected[s]: the next sequence number from s
  cantMatch,    \* cantMatch[s]: fragments that came too early
  unexpected,   \* unexpected[s]: fragments that no request was posted for
  checking,     \* senders whose early fragments are to be looked at again
  lastProbed,   \* where the last search for a wildcard has ended
  req,          \* the receive requests, in the order they were posted
  collRevoked,  \* collectives are disabled on the communicator
  revoked,      \* the communicator is revoked
  anySource,    \* receives from any source are enabled
  known         \* the failures the receiver has been notified of

senders == <<sent, crashed>>
lists == <<expected, cantMatch, unexpected, checking>>
status == <<collRevoked, revoked, anySource, known>>
vars == <<senders, net, acks, data, lists, lastProbed, req, status>>

Sent == UNION {{<<s, n>> : n \in 1..Len(sent[s])} : s \in Srcs}
Tag(m) == sent[m[1]][m[2]].tag
Kind(m) == sent[m[1]][m[2]].kind
SeqNo(m) == m[2]

(* The requests are numbered as they are posted: req_sequence.             *)
Reqs == 1..Len(req)
Accepts(q, s, t) ==
  /\ q.src \in {s, AnySource}
  /\ IF q.tag = AnyTag THEN t >= 0 ELSE q.tag = t

(* What is thrown away once the flags rev and coll are set.                *)
Refuses(rev, coll, t) == (rev /\ ~TagIsFt(t)) \/ (coll /\ TagIsCollective(t))
Refused(m) == Refuses(revoked, collRevoked, Tag(m))

-----------------------------------------------------------------------------
(* The receiver's lists.  A request is in a list while it is "posted".     *)
(* The lists of fragments are sets: unexpected_frags is in the order of    *)
(* the sequence numbers, because only the expected fragment is appended to *)
(* it, and the order of frags_cant_match plays no role.                    *)
Posted == {i \in Reqs : req[i].st = "posted"}
Request(src, tag) ==
  [src |-> src, tag |-> tag, st |-> "posted", from |-> None, err |-> "none"]

(* Deliberate fault: the request does not learn which message it has got.  *)
GivenAnonymous(q, m) ==
  [q EXCEPT !.st = IF Kind(m) = "match" THEN "complete" ELSE "matched"]

(* The request q gets the message m: an eager message completes it ...     *)
Given(q, m) ==
  [q EXCEPT !.from = m, !.st = IF Kind(m) = "match" THEN "complete" ELSE "matched"]
(* ... and the sender of a rendezvous message is told to go on (request i) *)
(* or, when it is refused, to give up (0).                                 *)
Answer(m, i) == IF Kind(m) = "match" THEN {} ELSE {[msg |-> m, req |-> i]}

(* Deliberate fault: wildcards only get what no other request wants.       *)
MatchIncomingSpecific(m) ==
  LET C == {i \in Posted : Accepts(req[i], m[1], Tag(m))}
      D == {i \in C : req[i].src # AnySource}
  IN  IF D = {} THEN C ELSE D

(* match_incomming: the candidates in the two lists, of which the request  *)
(* posted first gets the message.                                          *)
MatchIncoming(m) == {i \in Posted : Accepts(req[i], m[1], Tag(m))}

MatchOne(m) ==
  \/ /\ MatchIncoming(m) = {}
     /\ unexpected' = [unexpected EXCEPT ![m[1]] = @ \cup {m}]
     /\ UNCHANGED <<req, acks>>
  \/ \E i \in MatchIncoming(m) :
       /\ \A j \in MatchIncoming(m) : i <= j
       /\ req' = [req EXCEPT ![i] = Given(@, m)]
       /\ acks' = acks \cup Answer(m, i)
       /\ UNCHANGED unexpected

(* The next message in sequence is matched; those that came too early,     *)
(* early, are then looked at again.                                        *)
InOrder(m, early) ==
  /\ MatchOne(m)
  /\ expected' = [expected EXCEPT ![m[1]] = @ + 1]
  /\ checking' = IF early = {} THEN checking \ {m[1]} ELSE checking \cup {m[1]}

(* Deliberate fault: the sequence number is not looked at.                 *)
RecvFragUnordered(m) ==
  \/ /\ Refused(m)
     /\ acks' = acks \cup Answer(m, 0)
     /\ UNCHANGED <<lists, req>>
  \/ /\ ~Refused(m)
     /\ InOrder(m, cantMatch[m[1]])
     /\ UNCHANGED cantMatch

(* Deliberate fault: the sender of a refused message is not told.          *)
RecvFragSilent(m) ==
  \/ /\ Refused(m)
     /\ UNCHANGED <<acks, lists, req>>
  \/ /\ ~Refused(m) /\ SeqNo(m) # expected[m[1]]
     /\ cantMatch' = [cantMatch EXCEPT ![m[1]] = @ \cup {m}]
     /\ UNCHANGED <<expected, unexpected, checking, acks, req>>
  \/ /\ ~Refused(m) /\ SeqNo(m) = expected[m[1]]
     /\ InOrder(m, cantMatch[m[1]])
     /\ UNCHANGED cantMatch

(* mca_pml_ob1_recv_frag_callback_match, _rndv and recv_frag_match.        *)
RecvFrag(m) ==
  \/ /\ Refused(m)
     /\ acks' = acks \cup Answer(m, 0)
     /\ UNCHANGED <<lists, req>>
  \/ /\ ~Refused(m) /\ SeqNo(m) # expected[m[1]]
     /\ cantMatch' = [cantMatch EXCEPT ![m[1]] = @ \cup {m}]
     /\ UNCHANGED <<expected, unexpected, checking, acks, req>>
  \/ /\ ~Refused(m) /\ SeqNo(m) = expected[m[1]]
     /\ InOrder(m, cantMatch[m[1]])
     /\ UNCHANGED cantMatch

(* check_cantmatch_for_match, after the lock was taken again.              *)
CheckCantMatch(s) ==
  \/ /\ \A m \in cantMatch[s] : SeqNo(m) # expected[s]
     /\ checking' = checking \ {s}
     /\ UNCHANGED <<expected, cantMatch, unexpected, req, acks>>
  \/ \E m \in cantMatch[s] :
       /\ SeqNo(m) = expected[s]
       /\ InOrder(m, cantMatch[s] \ {m})
       /\ cantMatch' = [cantMatch EXCEPT ![s] = @ \ {m}]

(* mca_pml_ob1_recv_req_start: the first unexpected message that fits, for *)
(* a wildcard from the next sender in turn; otherwise the request waits.   *)
Fitting(q, s) == {m \in unexpected[s] : Accepts(q, s, Tag(m))}
Turn(s) == (s - lastProbed - 1) % NS

(* Deliberate fault: the search for a wildcard does not wrap around.       *)
RecvReqStartHalf(q) ==
  LET S == {s \in Srcs : Fitting(q, s) # {} /\ (q.src = AnySource => s > lastProbed)} IN
  \/ /\ S = {}
     /\ req' = Append(req, q)
     /\ UNCHANGED <<unexpected, lastProbed, acks>>
  \/ \E s \in S : \E m \in Fitting(q, s) :
       /\ \A x \in S : Turn(s) <= Turn(x)
       /\ \A x \in Fitting(q, s) : SeqNo(m) <= SeqNo(x)
       /\ req' = Append(req, Given(q, m))
       /\ acks' = acks \cup Answer(m, Len(req) + 1)
       /\ unexpected' = [unexpected EXCEPT ![s] = @ \ {m}]
       /\ lastProbed' = IF q.src = AnySource THEN s ELSE lastProbed

RecvReqStart(q) ==
  LET S == {s \in Srcs : Fitting(q, s) # {}} IN
  \/ /\ S = {}
     /\ req' = Append(req, q)
     /\ UNCHANGED <<unexpected, lastProbed, acks>>
  \/ \E s \in S : \E m \in Fitting(q, s) :
       /\ \A x \in S : Turn(s) <= Turn(x)
       /\ \A x \in Fitting(q, s) : SeqNo(m) <= SeqNo(x)
       /\ req' = Append(req, Given(q, m))
       /\ acks' = acks \cup Answer(m, Len(req) + 1)
       /\ unexpected' = [unexpected EXCEPT ![s] = @ \ {m}]
       /\ lastProbed' = IF q.src = AnySource THEN s ELSE lastProbed

(* Deliberate fault: only the unexpected messages are looked through.      *)
RevokeCommHalf(collOnly) ==
  LET rev == revoked \/ ~collOnly
      Purged(m) == Refuses(rev, TRUE, Tag(m))
      gone == UNION {{m \in unexpected[s] : Purged(m)} : s \in Srcs}
  IN  /\ revoked' = rev /\ collRevoked' = TRUE
      /\ unexpected' = [s \in Srcs |-> {m \in unexpected[s] : ~Purged(m)}]
      /\ acks' = acks \cup {[msg |-> m, req |-> 0] : m \in {x \in gone : Kind(x) = "rndv"}}
      /\ UNCHANGED cantMatch

(* Deliberate fault: the senders of what is thrown away are not told.      *)
RevokeCommSilent(collOnly) ==
  LET rev == revoked \/ ~collOnly
      Purged(m) == Refuses(rev, TRUE, Tag(m))
  IN  /\ revoked' = rev /\ collRevoked' = TRUE
      /\ unexpected' = [s \in Srcs |-> {m \in unexpected[s] : ~Purged(m)}]
      /\ cantMatch' = [s \in Srcs |-> {m \in cantMatch[s] : ~Purged(m)}]
      /\ UNCHANGED acks

(* mca_pml_ob1_revoke_comm: what is refused is taken from both lists, and  *)
(* a sender in the middle of a rendezvous gets an answer with no request.  *)
RevokeComm(collOnly) ==
  LET rev == revoked \/ ~collOnly
      Purged(m) == Refuses(rev, TRUE, Tag(m))
      gone == UNION {{m \in unexpected[s] \cup cantMatch[s] : Purged(m)} : s \in Srcs}
  IN  /\ revoked' = rev /\ collRevoked' = TRUE
      /\ unexpected' = [s \in Srcs |-> {m \in unexpected[s] : ~Purged(m)}]
      /\ cantMatch' = [s \in Srcs |-> {m \in cantMatch[s] : ~Purged(m)}]
      /\ acks' = acks \cup {[msg |-> m, req |-> 0] : m \in {x \in gone : Kind(x) = "rndv"}}

-----------------------------------------------------------------------------
(* ompi_comm_is_proc_active.                                               *)
Active(src) == IF src = AnySource THEN anySource ELSE src \notin known

(* The verdict of ompi_request_state_ok on an incomplete request.          *)
Verdict(q) ==
  IF revoked /\ ~TagIsFt(q.tag) THEN "revoked"
  ELSE IF q.src = AnySource /\ ~anySource /\ ~TagIsFt(q.tag) THEN "pending"
  ELSE IF ~Active(q.src) THEN "failed"
  ELSE IF collRevoked /\ TagIsCollective(q.tag) THEN "failed"
  ELSE "none"

(* Deliberate fault: a request that has its message is never cancelled.    *)
StateOkMatched(q) ==
  IF Verdict(q) = "none" THEN q
  ELSE [q EXCEPT !.err = Verdict(q),
                 !.st = IF Verdict(q) # "pending" /\ q.st = "posted" THEN "complete" ELSE @]

(* ... and mca_pml_ob1_recv_request_cancel: a request that has its message *)
(* cannot be cancelled unless its peer is dead.                            *)
StateOk(q) ==
  IF Verdict(q) = "none" THEN q
  ELSE [q EXCEPT !.err = Verdict(q),
                 !.st = IF Verdict(q) # "pending" /\ (q.st = "posted" \/ ~Active(q.src))
                        THEN "complete" ELSE @]

-----------------------------------------------------------------------------
Init ==
  /\ sent = [s \in Srcs |-> <<>>]
  /\ crashed = {}
  /\ net = {} /\ acks = {} /\ data = {}
  /\ expected = [s \in Srcs |-> 1]
  /\ cantMatch = [s \in Srcs |-> {}] /\ unexpected = [s \in Srcs |-> {}]
  /\ checking = {} /\ lastProbed = 0 /\ req = <<>>
  /\ collRevoked = FALSE /\ revoked = FALSE /\ anySource = TRUE /\ known = {}

(* A sender that has not heard of the revocation may send anything.        *)
Send(s, t, k) ==
  /\ s \notin crashed /\ Cardinality(Sent) < MaxSends
  /\ sent' = [sent EXCEPT ![s] = Append(@, [tag |-> t, kind |-> k, done |-> k = "match"])]
  /\ net' = net \cup {<<s, Len(sent[s]) + 1>>}
  /\ UNCHANGED <<crashed, acks, data, lists, lastProbed, req, status>>

Arrive(m) ==
  /\ m \in net
  /\ net' = net \ {m}
  /\ RecvFrag(m)
  /\ UNCHANGED <<senders, data, lastProbed, status>>

Recheck(s) ==
  /\ s \in checking
  /\ CheckCantMatch(s)
  /\ UNCHANGED <<senders, net, data, lastProbed, status>>

(* MPI_Irecv and the collectives check nothing: completion calls do.       *)
Post(src, tag) ==
  /\ Len(req) < MaxRecvs
  /\ RecvReqStart(Request(src, tag))
  /\ UNCHANGED <<senders, net, data, expected, cantMatch, checking, status>>

(* Some wait or test call looks at the request.                            *)
Poll(i) ==
  /\ i \in Reqs /\ req[i].st # "complete" /\ StateOk(req[i]) # req[i]
  /\ req' = [req EXCEPT ![i] = StateOk(@)]
  /\ UNCHANGED <<senders, net, acks, data, lists, lastProbed, status>>

(* mca_pml_ob1_recv_frag_callback_ack at the sender: a NULL request means  *)
(* that the receiver refuses, and the send is complete.                    *)
AckArrive(a) ==
  /\ a \in acks /\ a.msg[1] \notin crashed
  /\ acks' = acks \ {a}
  /\ sent' = [sent EXCEPT ![a.msg[1]][a.msg[2]].done = TRUE]
  /\ data' = IF a.req = 0 THEN data ELSE data \cup {a}
  /\ UNCHANGED <<crashed, net, lists, lastProbed, req, status>>

(* The rest of a rendezvous message completes its request.                 *)
DataArrive(a) ==
  /\ a \in data
  /\ data' = data \ {a}
  /\ req' = [req EXCEPT ![a.req].st = "complete"]
  /\ UNCHANGED <<senders, net, acks, lists, lastProbed, status>>

Revoke ==
  /\ ~revoked
  /\ RevokeComm(FALSE)
  /\ UNCHANGED <<senders, net, data, expected, checking, lastProbed, req, anySource, known>>

Crash(s) ==
  /\ s \notin crashed /\ Cardinality(crashed) < MaxCrashes
  /\ crashed' = crashed \cup {s}
  /\ UNCHANGED <<sent, net, acks, data, lists, lastProbed, req, status>>

(* ompi_comm_set_rank_failed.  The transport delivers nothing any more     *)
(* from a process once its failure is notified.                            *)
Notify(s) ==
  /\ s \in crashed \ known
  /\ known' = known \cup {s} /\ anySource' = FALSE
  /\ RevokeComm(TRUE)
  /\ net' = {m \in net : m[1] # s}
  /\ data' = {a \in data : a.msg[1] # s}
  /\ UNCHANGED <<senders, expected, checking, lastProbed, req>>

(* MPIX_Comm_failure_ack.                                                  *)
FailureAck ==
  /\ ~anySource
  /\ anySource' = TRUE
  /\ UNCHANGED <<senders, net, acks, data, lists, lastProbed, req, collRevoked, revoked, known>>

Delivery ==
  \/ \E m \in net : Arrive(m)
  \/ \E s \in Srcs : Recheck(s)
  \/ \E a \in acks : AckArrive(a)
  \/ \E a \in data : DataArrive(a)

Next ==
  \/ \E m \in Sends : Send(m[1], m[2], m[3])
  \/ \E q \in Recvs : Post(q[1], q[2])
  \/ \E i \in Reqs : Poll(i)
  \/ \E s \in Srcs : Crash(s) \/ Notify(s)
  \/ Delivery \/ Revoke \/ FailureAck

Spec == Init /\ [][Next]_vars

-----------------------------------------------------------------------------
(* Where a message waits to be matched.                                    *)
Queued(m) == m \in cantMatch[m[1]] \cup unexpected[m[1]]
Waiting(m) == m \in net \/ Queued(m)

TypeOK ==
  /\ crashed \subseteq Srcs /\ known \subseteq crashed
  /\ net \subseteq Sent
  /\ \A a \in acks \cup data : a.msg \in Sent /\ a.req \in 0..Len(req)
  /\ \A s \in Srcs :
       /\ expected[s] \in 1..(Len(sent[s]) + 1)
       /\ cantMatch[s] \cup unexpected[s] \subseteq Sent
  /\ \A i \in Reqs :
       /\ req[i].st \in {"posted", "matched", "complete"}
       /\ req[i].from \in Sent \cup {None}
       /\ req[i].st = "matched" => req[i].from # None

(* No message overtakes another one from its sender: a request has got the *)
(* first of the messages it accepts that was not received or refused.      *)
NonOvertaking ==
  \A i \in Reqs : req[i].from # None =>
    LET m == req[i].from
    IN  \A n \in 1..(m[2] - 1) :
          Accepts(req[i], m[1], Tag(<<m[1], n>>)) => ~Waiting(<<m[1], n>>)

(* No request overtakes another one: a message goes to the first posted of *)
(* the requests that accept it, be it for one sender or for any.           *)
InPostedOrder ==
  \A i \in Reqs, j \in Posted : req[i].from # None /\ j < i =>
    LET m == req[i].from IN ~Accepts(req[j], m[1], Tag(m))

(* A posted request and an unexpected message that fit have found each     *)
(* other, whichever came first.                                            *)
NoMissedMatch ==
  \A j \in Posted, s \in Srcs : \A m \in unexpected[s] :
    ~Accepts(req[j], s, Tag(m))

(* Once the communicator is revoked, or its collectives are, no message    *)
(* that is refused waits in the lists, where a receive could still get it. *)
RevokeQuiet == \A m \in Sent : Queued(m) => ~Refused(m)

(* The sender of a rendezvous message that still waits is not forgotten:   *)
(* its message, or the answer to it, is on the way or in a list, and only  *)
(* in one place (it must not get two answers).                             *)
Answers(m) == {a \in acks : a.msg = m}
Pending(m) == Kind(m) = "rndv" /\ ~sent[m[1]][m[2]].done
SendersAnswered ==
  \A m \in Sent :
    /\ Pending(m) /\ m[1] \notin crashed => (Waiting(m) <=> Answers(m) = {})
    /\ \A a, b \in Answers(m) : a = b
    /\ ~Pending(m) => Answers(m) = {}

(* Deliveries happen, completion calls look at the requests and the        *)
(* failures are notified.  Nobody has to send, post, revoke or acknowledge.*)
Fairness ==
  /\ WF_vars(Delivery)
  /\ WF_vars(\E i \in Reqs : Poll(i))
  /\ WF_vars(\E s \in Srcs : Notify(s))

FairSpec == Spec /\ Fairness

(* Revoked sends are completed or remotely cancelled (NEWS): no sender     *)
(* waits for ever for a receiver that has given up the communicator.       *)
RevokedSendsEnd ==
  []<>(~revoked \/ \A m \in Sent : Pending(m) /\ m[1] \notin crashed => TagIsFt(Tag(m)))

(* A request on a revoked communicator or with a dead peer ends, except a  *)
(* wildcard that has matched a process that died: nobody knows its peer.   *)
Doomed(q) ==
  /\ q.st # "complete"
  /\ q.src # AnySource \/ q.st = "posted"
  /\ (revoked /\ ~TagIsFt(q.tag)) \/ q.src \in crashed
DoomedRequestsEnd == []<>(\A i \in Reqs : ~Doomed(req[i]))

(* The comment on frags_cant_match: a message ahead of its turn is saved   *)
(* for later, when those before it have come.                              *)
SavedForLater ==
  \A s \in Srcs \ (crashed \cup checking) :
    cantMatch[s] # {} =>
      \E m \in net : m[1] = s /\ SeqNo(m) = expected[s]

(* The comment in ompi_request_state_ok: a request completes in error only *)
(* when nothing can be written to its buffer any more.                     *)
BufferReleased ==
  \A a \in acks \cup data : a.req # 0 /\ a.msg[1] \notin crashed =>
    req[a.req].st # "complete"

=============================================================================
