----------------------------- MODULE EtaProofs -----------------------------
(***************************************************************************)
(* What Eta promises of the living, for any number of processes and        *)
(* crashes: nobody alive is left out, nobody waits for ever for a message, *)
(* and no message is left for the next agreement.                          *)
(*                                                                         *)
(* Between two living processes nothing is lost, so what is in a channel   *)
(* follows from the rounds its two ends are in: the messages that one has  *)
(* sent are those that the other has received and those on their way, and  *)
(* the one that says "I know" is the last.                                 *)
(***************************************************************************)
EXTENDS Eta, FiniteSetTheorems, WellFoundedInduction, TLAPS

Messages == [knows : BOOLEAN, pf : BOOLEAN, est : SUBSET Procs]
States ==
  [at : {"before", "wait", "left"}, round : Nat, est : SUBSET Procs,
   knows : BOOLEAN, pf : BOOLEAN, dead : SUBSET Procs, told : SUBSET Procs,
   iknow : SUBSET Procs, recvs : SUBSET Procs, unsent : SUBSET Procs]

Known ==
  /\ known \in [Procs -> SUBSET Procs] /\ crashed \subseteq Procs
  /\ \A p \in Procs : known[p] \subseteq crashed

(* A message carries the contribution of its sender.                       *)
SignedIn(ch) == \A i, p \in Procs : \A n \in 1..Len(ch[i][p]) : i \in ch[i][p][n].est

(* The local variables s of a process p that is alive, or has returned.    *)
Local(p, s) ==
  /\ p \in s.est /\ s.dead \cup s.unsent \subseteq crashed
  /\ s.told \cup s.recvs \subseteq Others(p) /\ s.told \cap s.recvs = {}
  /\ s.at = "before" => s = [Start(p, {}) EXCEPT !.at = "before"]
  /\ s.at = "wait" =>
       /\ s.round \in 1..(NP + 1)
       /\ Others(p) \subseteq s.est \cup s.dead \cup s.recvs
       /\ s.knows => Others(p) \ crashed \subseteq s.iknow
  /\ s.at = "left" =>
       /\ s.recvs = {} /\ Others(p) \subseteq s.est \cup s.dead
       /\ Others(p) \ crashed \subseteq s.told \cap s.iknow \/ s.round = NP + 2

(* The rounds whose messages a process has sent, and those in which it has *)
(* received from i.                                                        *)
SentIn(s) ==
  IF s.at = "before" THEN 0 ELSE IF s.round > NP + 1 THEN NP + 1 ELSE s.round
ReceivedIn(s, i) == IF i \in s.recvs THEN SentIn(s) - 1 ELSE SentIn(s)

(* The messages c between i, in state s, and p, in state t.                *)
Link(c, s, t, i, p) ==
  IF p \in s.iknow
  THEN \/ i \in t.told /\ c = <<>>
       \/ /\ i \notin t.told /\ c # <<>> /\ Len(c) + ReceivedIn(t, i) <= NP + 1
          /\ \A n \in 1..Len(c) : c[n].knows <=> n = Len(c)
  ELSE /\ i \notin t.told /\ Len(c) + ReceivedIn(t, i) = SentIn(s)
       /\ \A n \in 1..Len(c) : ~c[n].knows
LinksIn(f, ch) ==
  \A i, p \in Procs \ crashed : i # p => Link(ch[i][p], f[i], f[p], i, p)
NoneToSelf(ch) == \A p \in Procs : ch[p][p] = <<>>

(* The channels ch and the states f of the processes.                      *)
Channels == [Procs -> [Procs -> Seq(Messages)]]
Sound(f, ch) ==
  /\ f \in [Procs -> States] /\ ch \in Channels
  /\ SignedIn(ch) /\ LinksIn(f, ch) /\ NoneToSelf(ch)
  /\ \A p \in Procs : Here(p) \/ f[p].at = "left" => Local(p, f[p])

IInv == Known /\ Sound(st, chan)
-----------------------------------------------------------------------------
(* The members can be counted: their number bounds the rounds.             *)
LEMMA Size == NP \in Nat
BY FS_CardinalityType, EtaAssumption, Zenon DEF NP

(* NP - 1 of the others are all the others, as the exit test takes them.   *)
LEMMA AllOthers ==
  ASSUME NEW p \in Procs, NEW S, S \subseteq Others(p), Cardinality(S) >= NP - 1
  PROVE  S = Others(p)
<1>1. IsFiniteSet(Others(p)) /\ Cardinality(Others(p)) = NP - 1
  BY FS_RemoveElement, EtaAssumption, Zenon DEF Others, NP
<1>2. /\ Cardinality(S) <= Cardinality(Others(p))
      /\ Cardinality(Others(p)) = Cardinality(S) => Others(p) = S
      /\ Cardinality(S) \in Nat
  BY <1>1, FS_Subset, FS_CardinalityType, Zenon
<1> QED BY <1>1, <1>2, Size

-----------------------------------------------------------------------------
(* What becomes of a link when its receiver p, in state t, goes to u: it   *)
(* receives the next message, ...                                          *)
LEMMA LinkReceive ==
  ASSUME NEW i, NEW p, NEW s, NEW t \in States, NEW u \in States, NEW c \in Seq(Messages),
         Link(c, s, t, i, p), c # <<>>, i \in t.recvs, i \notin t.told,
         i \notin u.recvs, u.at = t.at, u.round = t.round,
         i \in u.told <=> Head(c).knows
  PROVE  Link(Tail(c), s, u, i, p)
<1> DEFINE d == Tail(c)
<1>1. /\ Len(c) \in Nat \ {0} /\ Len(d) = Len(c) - 1 /\ d \in Seq(Messages)
      /\ Head(c) = c[1] /\ \A n \in 1..Len(d) : d[n] = c[n + 1]
  OBVIOUS
<1>2. SentIn(u) = SentIn(t)
  BY Zenon DEF SentIn
<1>3. SentIn(t) \in Nat
  BY Size DEF SentIn, States
<1>4. ReceivedIn(u, i) = ReceivedIn(t, i) + 1 /\ ReceivedIn(t, i) \in Int
  BY <1>2, <1>3 DEF ReceivedIn
<1> HIDE DEF d
<1>5. CASE p \notin s.iknow
  <2>1. Len(c) + ReceivedIn(t, i) = SentIn(s) /\ \A n \in 1..Len(c) : ~c[n].knows
    BY <1>5 DEF Link
  <2>2. ~Head(c).knows /\ \A n \in 1..Len(d) : ~d[n].knows
    BY <1>1, <2>1
  <2>3. Len(d) + ReceivedIn(u, i) = SentIn(s)
    BY <1>1, <1>4, <2>1
  <2> QED BY <1>5, <2>2, <2>3, Zenon DEF Link, d
<1>6. CASE p \in s.iknow
  <2>1. /\ Len(c) + ReceivedIn(t, i) <= NP + 1
        /\ \A n \in 1..Len(c) : c[n].knows <=> n = Len(c)
    BY <1>6 DEF Link
  <2>2. Head(c).knows <=> Len(d) = 0
    BY <1>1, <2>1
  <2>3. Len(d) + ReceivedIn(u, i) <= NP + 1
    BY <1>1, <1>4, <2>1, Size
  <2>4. \A n \in 1..Len(d) : d[n].knows <=> n = Len(d)
    BY <1>1, <2>1
  <2>5. Len(d) = 0 <=> d = <<>>
    BY <1>1
  <2> QED BY <1>6, <2>2, <2>3, <2>4, <2>5, Zenon DEF Link, d
<1> QED BY <1>5, <1>6

(* ... nothing changes as far as i is concerned, ...                       *)
LEMMA LinkSame ==
  ASSUME NEW i, NEW p, NEW s, NEW t, NEW r, NEW u, NEW c, Link(c, s, t, i, p),
         i \in u.told <=> i \in t.told, i \in u.recvs <=> i \in t.recvs,
         SentIn(u) = SentIn(t),
         p \in r.iknow <=> p \in s.iknow, SentIn(r) = SentIn(s)
  PROVE  Link(c, r, u, i, p)
<1>1. ReceivedIn(u, i) = ReceivedIn(t, i)
  BY Zenon DEF ReceivedIn
<1> QED BY <1>1, Zenon DEF Link

(* ... or it goes to the next round.                                       *)
LEMMA LinkNext ==
  ASSUME NEW i, NEW p, NEW s, NEW t, NEW u, NEW c, Link(c, s, t, i, p),
         i \notin t.recvs, i \in u.told <=> i \in t.told, i \in u.recvs <=> i \notin t.told,
         SentIn(u) = SentIn(t) + 1, SentIn(t) \in Nat
  PROVE  Link(c, s, u, i, p)
<1>1. i \notin t.told => ReceivedIn(u, i) = ReceivedIn(t, i)
  BY DEF ReceivedIn
<1> QED BY <1>1, Zenon DEF Link

(* The sender i, in state s, goes to u and posts the message m to p.       *)
LEMMA LinkPost ==
  ASSUME NEW i, NEW p, NEW s, NEW t \in States, NEW u, NEW c \in Seq(Messages),
         NEW m \in Messages, Link(c, s, t, i, p), p \notin s.iknow,
         SentIn(s) \in Nat, SentIn(s) <= NP, SentIn(u) = SentIn(s) + 1,
         p \in u.iknow <=> m.knows
  PROVE  Link(Append(c, m), u, t, i, p)
<1> DEFINE d == Append(c, m)
<1>1. /\ Len(c) \in Nat /\ Len(d) = Len(c) + 1 /\ d # <<>> /\ d[Len(d)] = m
      /\ \A n \in 1..Len(c) : d[n] = c[n]
  OBVIOUS
<1>2. SentIn(t) \in Nat
  BY Size DEF SentIn, States
<1>3. ReceivedIn(t, i) \in Int
  BY <1>2 DEF ReceivedIn
<1>4. i \notin t.told /\ Len(c) + ReceivedIn(t, i) = SentIn(s) /\ \A n \in 1..Len(c) : ~c[n].knows
  BY Zenon DEF Link
<1> HIDE DEF d
<1>5. Len(d) + ReceivedIn(t, i) = SentIn(u) /\ Len(d) + ReceivedIn(t, i) <= NP + 1
  BY <1>1, <1>3, <1>4, Size
<1>6. \A n \in 1..Len(d) : n \in 1..Len(c) \/ n = Len(d)
  BY <1>1
<1>7. \A n \in 1..Len(c) : n # Len(d)
  BY <1>1
<1>8. CASE m.knows
  <2>1. \A n \in 1..Len(d) : d[n].knows <=> n = Len(d)
    BY <1>1, <1>4, <1>6, <1>7, <1>8, Zenon
  <2> QED BY <1>1, <1>4, <1>5, <1>8, <2>1, Zenon DEF Link, d
<1>9. CASE ~m.knows
  <2>1. \A n \in 1..Len(d) : ~d[n].knows
    BY <1>1, <1>4, <1>6, <1>9, Zenon
  <2> QED BY <1>4, <1>5, <1>9, <2>1, Zenon DEF Link, d
<1> QED BY <1>8, <1>9

-----------------------------------------------------------------------------
(* p is ready to post the requests of a round.                             *)
Ready(p, s) ==
  /\ s \in States /\ s.at = "wait" /\ s.round \in 1..(NP + 1)
  /\ p \in s.est /\ s.dead \subseteq crashed
  /\ s.told \subseteq Others(p) /\ s.told \subseteq s.est \cup s.dead

(* It posts them, goes from s to t, and sends m over the channels ch.      *)
Posts(p, s, ch, t, m) ==
  /\ t \in States /\ m \in Messages /\ Local(p, t)
  /\ t.at = "wait" /\ t.round = s.round /\ t.told = s.told /\ t.recvs = NeedToRecv(p, s)
  /\ p \in m.est /\ m.knows = s.knows
  /\ st' = [st EXCEPT ![p] = t] /\ chan' \in Channels
  /\ \A i \in Procs \ {p} : chan'[i] = ch[i]
  /\ \A i \in Procs : \/ chan'[p][i] = ch[p][i]
                      \/ i # p /\ chan'[p][i] = Append(ch[p][i], m)
  /\ \A i \in Others(p) \ crashed :
       IF i \in s.iknow THEN i \in t.iknow /\ chan'[p][i] = ch[p][i]
       ELSE (i \in t.iknow <=> m.knows) /\ chan'[p][i] = Append(ch[p][i], m)

(* PostRound does so: every living process that has not been told "I know" *)
(* is sent the estimate, and everyone alive that has not said so is posted *)
(* a receive.                                                              *)
LEMMA PostStep ==
  ASSUME Known, NEW p \in Procs, NEW s, Ready(p, s), NEW ch \in Channels, PostRound(p, s, ch)
  PROVE  \E t, m : Posts(p, s, ch, t, m)
<1>1. PICK unsent \in SUBSET (NeedToSend(p, s) \cap known[p]) :
        LET sent == NeedToSend(p, s) \ unsent IN
        /\ st' = [st EXCEPT ![p] =
             [s EXCEPT !.recvs = NeedToRecv(p, s), !.unsent = unsent,
                       !.iknow = IF s.knows THEN @ \cup sent ELSE @]]
        /\ chan' = [ch EXCEPT ![p] = [i \in Procs |->
             IF i \in sent \ crashed
             THEN Append(ch[p][i], [knows |-> s.knows, pf |-> s.pf, est |-> s.est])
             ELSE ch[p][i]]]
  BY Zenon DEF PostRound
<1>2. PICK sent, t, m :
        /\ sent = NeedToSend(p, s) \ unsent
        /\ t = [s EXCEPT !.recvs = NeedToRecv(p, s), !.unsent = unsent,
                         !.iknow = IF s.knows THEN @ \cup sent ELSE @]
        /\ m = [knows |-> s.knows, pf |-> s.pf, est |-> s.est]
  BY Zenon
<1>3. /\ st' = [st EXCEPT ![p] = t]
      /\ chan' = [ch EXCEPT ![p] = [i \in Procs |->
            IF i \in sent \ crashed THEN Append(ch[p][i], m) ELSE ch[p][i]]]
  BY <1>1, <1>2, Zenon
<1>4. s \in States /\ s.at = "wait" /\ s.round \in 1..(NP + 1)
  BY Zenon DEF Ready
<1>5. m \in Messages /\ m.knows = s.knows /\ m.est = s.est
  BY <1>2, <1>4 DEF States, Messages
<1>6. /\ NeedToRecv(p, s) = Others(p) \ (s.dead \cup s.told)
      /\ NeedToSend(p, s) = Others(p) \ (s.dead \cup s.iknow)
      /\ Others(p) = Procs \ {p} /\ unsent \subseteq crashed
  BY <1>1, Zenon DEF NeedToRecv, NeedToSend, Others, Known
<1>7. /\ t \in States /\ t.recvs = NeedToRecv(p, s) /\ t.unsent = unsent
      /\ t.at = s.at /\ t.round = s.round /\ t.told = s.told /\ t.est = s.est
      /\ t.dead = s.dead /\ t.knows = s.knows
      /\ t.iknow = IF s.knows THEN s.iknow \cup sent ELSE s.iknow
  <2>1. /\ NeedToRecv(p, s) \in SUBSET Procs /\ unsent \in SUBSET Procs
        /\ (IF s.knows THEN s.iknow \cup sent ELSE s.iknow) \in SUBSET Procs
    BY <1>1, <1>2, <1>4, <1>6 DEF States
  <2> HIDE DEF NeedToRecv
  <2> QED BY <1>2, <1>4, <2>1, Zenon DEF States
<1>8. \A i \in Others(p) \ crashed : i \notin s.dead /\ i \notin unsent
  BY <1>6 DEF Ready
<1>9. \A i \in Others(p) \ crashed : i \in sent <=> i \notin s.iknow
  BY <1>2, <1>6, <1>8, Zenon
<1>10. Local(p, t)
  <2>1. /\ p \in s.est /\ s.dead \subseteq crashed
        /\ s.told \subseteq Others(p) /\ s.told \subseteq s.est \cup s.dead
    BY Zenon DEF Ready
  <2>2. p \in t.est /\ t.dead \cup t.unsent \subseteq crashed
    BY <1>6, <1>7, <2>1
  <2>3. /\ t.told \cup t.recvs \subseteq Others(p) /\ t.told \cap t.recvs = {}
        /\ Others(p) \subseteq t.est \cup t.dead \cup t.recvs
    BY <1>6, <1>7, <2>1
  <2>4. t.knows => Others(p) \ crashed \subseteq t.iknow
    BY <1>7, <1>9
  <2>5. t.at = "wait" /\ t.round \in 1..(NP + 1)
    BY <1>4, <1>7
  <2> QED BY <2>2, <2>3, <2>4, <2>5 DEF Local
<1>11. /\ chan' \in Channels
       /\ \A i \in Procs \ {p} : chan'[i] = ch[i]
       /\ \A i \in Procs :
            chan'[p][i] = IF i \in sent \ crashed THEN Append(ch[p][i], m) ELSE ch[p][i]
  <2>1. \A i \in Procs :
          (IF i \in sent \ crashed THEN Append(ch[p][i], m) ELSE ch[p][i]) \in Seq(Messages)
    BY <1>5 DEF Channels
  <2> QED BY <1>3, <2>1 DEF Channels
<1>12. p \notin sent
  BY <1>2, <1>6
<1>13. \A i \in Procs : \/ chan'[p][i] = ch[p][i]
                        \/ i # p /\ chan'[p][i] = Append(ch[p][i], m)
  BY <1>11, <1>12, Zenon
<1>14. ASSUME NEW i \in Others(p) \ crashed
       PROVE  IF i \in s.iknow THEN i \in t.iknow /\ chan'[p][i] = ch[p][i]
              ELSE (i \in t.iknow <=> m.knows) /\ chan'[p][i] = Append(ch[p][i], m)
  <2>1. i \in Procs
    BY <1>6
  <2> QED BY <1>5, <1>7, <1>9, <1>11, <2>1, Zenon
<1>15. p \in m.est
  BY <1>5, Zenon DEF Ready
<1>16. Posts(p, s, ch, t, m)
  BY <1>3, <1>4, <1>5, <1>7, <1>10, <1>11, <1>13, <1>14, <1>15, Zenon DEF Posts
<1> QED BY <1>16, Zenon

(* Posting the requests of the round after that of f[p] keeps the channels *)
(* in step with the rounds.                                                *)
LEMMA PostSound ==
  ASSUME NEW p \in Procs, Here(p), NEW f, NEW ch, Sound(f, ch), st \in [Procs -> States],
         \A i \in Procs \ {p} : f[i] = st[i],
         NEW s, Ready(p, s), s.iknow = f[p].iknow, s.told = f[p].told, f[p].recvs = {},
         SentIn(f[p]) \in 0..NP, s.round = SentIn(f[p]) + 1,
         NEW t, NEW m, Posts(p, s, ch, t, m)
  PROVE  Sound(st', chan')
<1>1. PICK g, h : g = st' /\ h = chan'
  BY Zenon
<1>2. /\ f \in [Procs -> States] /\ ch \in Channels
      /\ SignedIn(ch) /\ LinksIn(f, ch) /\ NoneToSelf(ch)
      /\ \A i \in Procs : Here(i) \/ f[i].at = "left" => Local(i, f[i])
  BY Zenon DEF Sound
<1>3. /\ t \in States /\ m \in Messages /\ Local(p, t) /\ p \in m.est
      /\ t.at = "wait" /\ t.round = s.round /\ t.told = s.told /\ t.recvs = NeedToRecv(p, s)
  BY Zenon DEF Posts
<1>4. /\ h \in Channels /\ \A i \in Procs \ {p} : h[i] = ch[i]
      /\ \A i \in Procs : \/ h[p][i] = ch[p][i]
                          \/ i # p /\ h[p][i] = Append(ch[p][i], m)
      /\ \A i \in Others(p) \ crashed :
           IF i \in s.iknow THEN i \in t.iknow /\ h[p][i] = ch[p][i]
           ELSE (i \in t.iknow <=> m.knows) /\ h[p][i] = Append(ch[p][i], m)
  BY <1>1 DEF Posts
<1>5. g = [st EXCEPT ![p] = t]
  BY <1>1, Zenon DEF Posts
<1>6. g \in [Procs -> States] /\ g[p] = t /\ \A i \in Procs \ {p} : g[i] = f[i]
  BY <1>3, <1>5, Zenon
<1>7. \A i \in Procs : Here(i) \/ g[i].at = "left" => Local(i, g[i])
  BY <1>2, <1>3, <1>6, Zenon
<1>8. NoneToSelf(h)
  BY <1>2, <1>4, Zenon DEF NoneToSelf
<1>9. SignedIn(h)
  <2> SUFFICES ASSUME NEW i \in Procs, NEW j \in Procs, NEW n \in 1..Len(h[i][j])
               PROVE  i \in h[i][j][n].est
    BY Zenon DEF SignedIn
  <2>1. CASE h[i][j] = ch[i][j]
    BY <1>2, <2>1, Zenon DEF SignedIn
  <2>2. CASE i = p /\ h[p][j] = Append(ch[p][j], m)
    <3>1. PICK c \in Seq(Messages) : c = ch[p][j]
      BY <1>2, Zenon DEF Channels
    <3>2. \A k \in 1..Len(c) : p \in c[k].est
      BY <1>2, <3>1, Zenon DEF SignedIn
    <3>3. n \in 1..Len(Append(c, m))
      BY <2>2, <3>1, Zenon
    <3>4. p \in Append(c, m)[n].est
      BY <1>3, <3>2, <3>3
    <3> QED BY <2>2, <3>1, <3>4, Zenon
  <2> QED BY <1>4, <2>1, <2>2, Zenon
<1>10. SentIn(t) = SentIn(f[p]) + 1 /\ SentIn(f[p]) \in Nat /\ SentIn(f[p]) <= NP
  <2>1. t.at # "before" /\ t.round = SentIn(f[p]) + 1
    BY <1>3
  <2>2. SentIn(t) = IF t.round > NP + 1 THEN NP + 1 ELSE t.round
    BY <2>1, Zenon DEF SentIn
  <2> QED BY <2>1, <2>2, Size
<1>11. LinksIn(g, h)
  <2> SUFFICES ASSUME NEW i \in Procs \ crashed, NEW j \in Procs \ crashed, i # j
               PROVE  Link(h[i][j], g[i], g[j], i, j)
    BY Zenon DEF LinksIn
  <2>1. Link(ch[i][j], f[i], f[j], i, j)
    BY <1>2, Zenon DEF LinksIn
  <2>2. CASE i # p /\ j # p
    BY <1>4, <1>6, <2>1, <2>2, Zenon
  <2>3. CASE j = p
    <3>1. i \in t.told <=> i \in f[p].told
      BY <1>3, Zenon
    <3>2. i \in t.recvs <=> i \notin f[p].told
      BY <1>3, <2>3, Zenon DEF NeedToRecv, Others, Ready
    <3>3. i \notin f[p].recvs
      OBVIOUS
    <3>4. Link(ch[i][p], f[i], f[p], i, p)
      BY <2>1, <2>3, Zenon
    <3>5. Link(ch[i][p], f[i], t, i, p)
      BY <1>10, <3>1, <3>2, <3>3, <3>4, LinkNext, Zenon
    <3> QED BY <1>4, <1>6, <2>3, <3>5, Zenon
  <2>4. CASE i = p
    <3>1. j \in Others(p) \ crashed /\ j \in Procs /\ j # p
      BY <2>4, Zenon DEF Others
    <3>2. Link(ch[p][j], f[p], f[j], p, j) /\ f[j] \in States /\ ch[p][j] \in Seq(Messages)
      BY <1>2, <2>1, <2>4, Zenon DEF Channels
    <3>3. CASE j \in s.iknow
      <4>1. j \in t.iknow /\ j \in f[p].iknow /\ h[p][j] = ch[p][j]
        BY <1>4, <3>1, <3>3, Zenon
      <4>2. Link(ch[p][j], t, f[j], p, j)
        BY <3>2, <4>1, Zenon DEF Link
      <4> QED BY <1>6, <2>4, <3>1, <4>1, <4>2, Zenon
    <3>4. CASE j \notin s.iknow
      <4>1. (j \in t.iknow <=> m.knows) /\ j \notin f[p].iknow /\ h[p][j] = Append(ch[p][j], m)
        BY <1>4, <3>1, <3>4, Zenon
      <4>2. Link(Append(ch[p][j], m), t, f[j], p, j)
        BY <1>3, <1>10, <3>2, <4>1, LinkPost, Zenon
      <4> QED BY <1>6, <2>4, <3>1, <4>1, <4>2, Zenon
    <3> QED BY <3>3, <3>4, Zenon
  <2> QED BY <2>2, <2>3, <2>4, Zenon
<1> QED BY <1>1, <1>4, <1>6, <1>7, <1>8, <1>9, <1>11, Zenon DEF Sound

(* A step in which nobody crashes.                                         *)
LEMMA NoCrash ==
  ASSUME Known', crashed' = crashed, Sound(st', chan') PROVE IInv'
<1>1. /\ st' \in [Procs -> States] /\ chan' \in Channels
      /\ SignedIn(chan') /\ LinksIn(st', chan') /\ NoneToSelf(chan')
      /\ \A p \in Procs : Here(p) \/ st'[p].at = "left" => Local(p, st'[p])
  BY Zenon DEF Sound
<1>2. LinksIn(st, chan)'
  BY <1>1, Zenon DEF LinksIn
<1>3. ASSUME NEW p \in Procs, (Here(p) \/ st[p].at = "left")' PROVE Local(p, st[p])'
  <2>1. Local(p, st'[p])
    BY <1>1, <1>3, Zenon DEF Here
  <2> QED BY <2>1, Zenon DEF Local
<1> QED BY <1>1, <1>2, <1>3, Zenon DEF IInv, Sound, SignedIn, NoneToSelf

(* MPI_Comm_agree.                                                         *)
LEMMA EnterStep == ASSUME IInv, NEW p \in Procs, Enter(p) PROVE IInv'
<1>1. /\ Here(p) /\ st[p].at = "before" /\ UNCHANGED <<known, crashed>>
      /\ \E acked \in SUBSET known[p] : PostRound(p, Start(p, acked), chan)
  BY Zenon DEF Enter
<1>2. Known /\ Sound(st, chan)
  BY Zenon DEF IInv
<1>3. PICK acked \in SUBSET known[p] : PostRound(p, Start(p, acked), chan)
  BY <1>1, Zenon
<1>4. PICK s : s = Start(p, acked)
  BY Zenon
<1>5. st \in [Procs -> States] /\ chan \in Channels /\ Local(p, st[p])
  BY <1>1, <1>2, Zenon DEF Sound
<1>6. st[p] = [Start(p, {}) EXCEPT !.at = "before"]
  BY <1>1, <1>5, Zenon DEF Local
<1>7. st[p].iknow = {} /\ st[p].told = {} /\ st[p].recvs = {}
  BY <1>6 DEF Start
<1>8. SentIn(st[p]) = 0
  BY <1>1, Zenon DEF SentIn
<1>9. /\ s.at = "wait" /\ s.round = 1 /\ s.est = {p} /\ s.dead = acked /\ s.told = {}
      /\ s.iknow = {}
  BY <1>4 DEF Start
<1>10. acked \subseteq crashed /\ acked \subseteq Procs
  BY <1>2, Zenon DEF Known
<1>11. s \in States
  BY <1>4, <1>10 DEF Start, States
<1>12. 1 \in 1..(NP + 1) /\ 0 \in 0..NP /\ 1 = 0 + 1
  BY Size
<1>13. Ready(p, s)
  BY <1>9, <1>10, <1>11, <1>12, Zenon DEF Ready
<1>14. PICK t, m : Posts(p, s, chan, t, m)
  BY <1>2, <1>3, <1>4, <1>5, <1>13, PostStep, Zenon
<1>15. s.iknow = st[p].iknow /\ s.told = st[p].told /\ s.round = SentIn(st[p]) + 1
  BY <1>7, <1>8, <1>9, <1>12, Zenon
<1>16. SentIn(st[p]) \in 0..NP
  BY <1>8, <1>12, Zenon
<1>17. Sound(st', chan')
  BY <1>1, <1>2, <1>5, <1>7, <1>13, <1>14, <1>15, <1>16, PostSound, Zenon
<1>18. Known' /\ crashed' = crashed
  BY <1>1, <1>2, Zenon DEF Known
<1> QED BY <1>17, <1>18, NoCrash, Zenon

-----------------------------------------------------------------------------
(* What ompi_request_wait_all has completed: the messages in got are taken *)
(* from the channels, and p goes to now.                                   *)
Taken(p, got) ==
  [i \in Procs |-> IF i \in got THEN [chan[i] EXCEPT ![p] = Tail(@)] ELSE chan[i]]

Moved(p, got, s, now) ==
  /\ now \in States /\ now.at = "wait" /\ now.round = s.round
  /\ now.knows = s.knows /\ now.iknow = s.iknow /\ now.unsent = {}
  /\ now.est = s.est \cup UNION {Head(chan[i][p]).est : i \in got}
  /\ now.told = s.told \cup {i \in got : Head(chan[i][p]).knows}
  /\ now.dead = s.dead \cup Failed(p)
  /\ now.recvs = s.recvs \ (got \cup Failed(p))
Received(p, got, s, ch) ==
  /\ ch \in Channels /\ got \subseteq s.recvs /\ got \subseteq Others(p)
  /\ \A i \in got : /\ chan[i][p] # <<>> /\ ch[i][p] = Tail(chan[i][p])
                    /\ i \in Head(chan[i][p]).est
  /\ \A i, j \in Procs : i \notin got \/ j # p => ch[i][j] = chan[i][j]

(* The fields that one pass over the statuses changes, and those it keeps. *)
LEMMA AbsorbFields ==
  ASSUME IInv, NEW p \in Procs, Running(p), NEW got \in SUBSET Arrived(p),
         NEW s, s = st[p], NEW now, now = Absorb(p, s, got, Failed(p))
  PROVE  Moved(p, got, s, now)
<1>1. s \in States /\ s.at = "wait" /\ chan \in Channels
  BY Zenon DEF IInv, Sound, Running
<1>2. \A i \in got : i \in Procs /\ i \in s.recvs /\ chan[i][p] # <<>>
  <2>1. s.recvs \subseteq Procs
    BY <1>1 DEF States
  <2> QED BY <2>1, Zenon DEF Arrived
<1>3. \A i \in got : Head(chan[i][p]) \in Messages
  <2>1. \A c \in Seq(Messages) : c # <<>> => Head(c) \in Messages
    OBVIOUS
  <2> QED BY <1>1, <1>2, <2>1, Zenon DEF Channels
<1>4. PICK E, F, T, D, R :
        /\ E = s.est \cup UNION {Head(chan[i][p]).est : i \in got}
        /\ F = (s.pf \/ Failed(p) # {} \/ \E i \in got : Head(chan[i][p]).pf)
        /\ T = s.told \cup {i \in got : Head(chan[i][p]).knows}
        /\ D = s.dead \cup Failed(p) /\ R = s.recvs \ (got \cup Failed(p))
  BY Zenon
<1>5. Failed(p) \subseteq Procs
  BY <1>1 DEF Failed, States
<1>6. E \subseteq Procs
  BY <1>1, <1>3, <1>4 DEF States, Messages
<1>7. F \in BOOLEAN
  BY <1>4
<1>8. T \subseteq Procs /\ D \subseteq Procs /\ R \subseteq Procs
  BY <1>1, <1>2, <1>4, <1>5 DEF States
<1>9. now = [s EXCEPT !.est = E, !.pf = F, !.told = T, !.dead = D, !.recvs = R, !.unsent = {}]
  BY <1>4, Zenon DEF Absorb
<1>10. /\ now \in States /\ now.at = s.at /\ now.round = s.round /\ now.knows = s.knows
       /\ now.iknow = s.iknow /\ now.unsent = {} /\ now.est = E /\ now.told = T
       /\ now.dead = D /\ now.recvs = R
  <2>1. now = [at |-> s.at, round |-> s.round, est |-> E, knows |-> s.knows, pf |-> F,
               dead |-> D, told |-> T, iknow |-> s.iknow, recvs |-> R, unsent |-> {}]
    BY <1>1, <1>9, Zenon DEF States
  <2>2. /\ s.at \in {"before", "wait", "left"} /\ s.round \in Nat
        /\ s.knows \in BOOLEAN /\ s.iknow \in SUBSET Procs
    BY <1>1 DEF States
  <2>3. now \in States
    BY <1>6, <1>7, <1>8, <2>1, <2>2 DEF States
  <2> QED BY <2>1, <2>3
<1> QED BY <1>1, <1>4, <1>10, Zenon DEF Moved

(* A failed request is of a crashed process: the messages of the living    *)
(* are not given up.                                                       *)
LEMMA FailedCrashed ==
  ASSUME IInv, NEW p \in Procs, Running(p) PROVE Failed(p) \subseteq crashed
<1>1. Local(p, st[p]) /\ known[p] \subseteq crashed
  BY Zenon DEF IInv, Sound, Known, Running
<1> QED BY <1>1 DEF Local, Failed

(* The messages that are left, and those that are taken.                   *)
LEMMA TakenFields ==
  ASSUME IInv, NEW p \in Procs, Running(p), NEW got \in SUBSET Arrived(p),
         NEW s, s = st[p], NEW ch, ch = Taken(p, got)
  PROVE  Received(p, got, s, ch)
<1>1. /\ chan \in Channels /\ SignedIn(chan) /\ Local(p, s)
  BY Zenon DEF IInv, Sound, Running
<1>2. /\ got \subseteq s.recvs /\ got \subseteq Others(p) /\ got \subseteq Procs
      /\ \A i \in got : chan[i][p] # <<>>
  <2>1. s.recvs \subseteq Others(p) /\ Others(p) \subseteq Procs
    BY <1>1, Zenon DEF Local, Others
  <2> QED BY <2>1, Zenon DEF Arrived
<1>3. \A c \in Seq(Messages) :
        c # <<>> => Tail(c) \in Seq(Messages) /\ Head(c) = c[1] /\ 1 \in 1..Len(c)
  OBVIOUS
<1>4. \A i \in Procs : chan[i] \in [Procs -> Seq(Messages)]
  BY <1>1, Zenon DEF Channels
<1>5. \A i \in Procs : ch[i] = IF i \in got THEN [chan[i] EXCEPT ![p] = Tail(@)] ELSE chan[i]
  BY Zenon DEF Taken
<1>6. \A i \in got : /\ ch[i] \in [Procs -> Seq(Messages)]
                     /\ ch[i][p] = Tail(chan[i][p])
                     /\ \A j \in Procs : j # p => ch[i][j] = chan[i][j]
  <2> SUFFICES ASSUME NEW i \in got
               PROVE  /\ ch[i] \in [Procs -> Seq(Messages)]
                      /\ ch[i][p] = Tail(chan[i][p])
                      /\ \A j \in Procs : j # p => ch[i][j] = chan[i][j]
    BY Zenon
  <2>1. chan[i] \in [Procs -> Seq(Messages)] /\ ch[i] = [chan[i] EXCEPT ![p] = Tail(@)]
    BY <1>2, <1>4, <1>5, Zenon
  <2>2. Tail(chan[i][p]) \in Seq(Messages)
    BY <1>2, <1>3, <2>1, Zenon
  <2> QED BY <2>1, <2>2, Zenon
<1>7. ch \in Channels
  <2>1. \A i \in Procs : ch[i] \in [Procs -> Seq(Messages)]
    BY <1>4, <1>5, <1>6, Zenon
  <2>2. ch = [i \in Procs |-> ch[i]]
    BY Zenon DEF Taken
  <2> QED BY <2>1, <2>2, Zenon DEF Channels
<1>8. \A i \in got : i \in Head(chan[i][p]).est
  BY <1>1, <1>2, <1>3, <1>4, Zenon DEF SignedIn
<1>9. \A i, j \in Procs : i \notin got \/ j # p => ch[i][j] = chan[i][j]
  BY <1>5, <1>6, Zenon
<1> QED BY <1>2, <1>6, <1>7, <1>8, <1>9, Zenon DEF Received

(* The messages taken are those that the receives were posted for, so that *)
(* the channels stay in step with the rounds.                              *)
LEMMA AbsorbSound ==
  ASSUME IInv, NEW p \in Procs, Running(p), NEW got \in SUBSET Arrived(p),
         NEW s, s = st[p], NEW now, Moved(p, got, s, now), NEW ch, Received(p, got, s, ch)
  PROVE  Sound([st EXCEPT ![p] = now], ch)
<1>1. PICK f : f = [st EXCEPT ![p] = now]
  BY Zenon
<1>2. /\ st \in [Procs -> States] /\ chan \in Channels
      /\ SignedIn(chan) /\ LinksIn(st, chan) /\ NoneToSelf(chan) /\ Local(p, s)
      /\ \A i \in Procs : Here(i) \/ st[i].at = "left" => Local(i, st[i])
  BY <1>1, Zenon DEF IInv, Sound, Running
<1>3. Here(p) /\ s.at = "wait" /\ s \in States
  BY <1>1, <1>2, Zenon DEF Running
<1>4. /\ now \in States /\ now.at = "wait" /\ now.round = s.round
      /\ now.knows = s.knows /\ now.iknow = s.iknow /\ now.unsent = {}
      /\ now.est = s.est \cup UNION {Head(chan[i][p]).est : i \in got}
      /\ now.told = s.told \cup {i \in got : Head(chan[i][p]).knows}
      /\ now.dead = s.dead \cup Failed(p)
      /\ now.recvs = s.recvs \ (got \cup Failed(p))
  BY Zenon DEF Moved
<1>5. /\ ch \in Channels /\ got \subseteq s.recvs /\ got \subseteq Others(p)
      /\ \A i \in got : /\ chan[i][p] # <<>> /\ ch[i][p] = Tail(chan[i][p])
                        /\ i \in Head(chan[i][p]).est
      /\ \A i, j \in Procs : i \notin got \/ j # p => ch[i][j] = chan[i][j]
  BY Zenon DEF Received
<1>6. Failed(p) \subseteq crashed
  BY FailedCrashed, Zenon
<1>7. f \in [Procs -> States] /\ f[p] = now /\ \A i \in Procs \ {p} : f[i] = st[i]
  BY <1>1, <1>2, <1>4, Zenon
<1>8. Local(p, now)
  <2>1. got \subseteq now.est /\ s.est \subseteq now.est
    BY <1>4, <1>5
  <2>2. /\ p \in s.est /\ s.dead \subseteq crashed /\ s.told \cup s.recvs \subseteq Others(p)
        /\ s.told \cap s.recvs = {} /\ s.round \in 1..(NP + 1)
        /\ Others(p) \subseteq s.est \cup s.dead \cup s.recvs
        /\ s.knows => Others(p) \ crashed \subseteq s.iknow
    BY <1>2, <1>3 DEF Local
  <2>3. p \in now.est /\ now.dead \cup now.unsent \subseteq crashed
    BY <1>4, <1>6, <2>1, <2>2
  <2>4. now.told \cup now.recvs \subseteq Others(p) /\ now.told \cap now.recvs = {}
    BY <1>4, <1>5, <2>2
  <2>5. Others(p) \subseteq now.est \cup now.dead \cup now.recvs
    BY <1>4, <2>1, <2>2
  <2> QED BY <1>4, <2>2, <2>3, <2>4, <2>5, Zenon DEF Local
<1>9. \A i \in Procs : Here(i) \/ f[i].at = "left" => Local(i, f[i])
  BY <1>2, <1>7, <1>8, Zenon
<1>10. NoneToSelf(ch)
  BY <1>2, <1>5, Zenon DEF NoneToSelf, Others
<1>11. SignedIn(ch)
  <2> SUFFICES ASSUME NEW i \in Procs, NEW j \in Procs, NEW n \in 1..Len(ch[i][j])
               PROVE  i \in ch[i][j][n].est
    BY Zenon DEF SignedIn
  <2>1. CASE i \notin got \/ j # p
    <3>1. ch[i][j] = chan[i][j]
      BY <1>5, <2>1, Zenon
    <3> QED BY <1>2, <3>1, Zenon DEF SignedIn
  <2>2. CASE i \in got /\ j = p
    <3>1. PICK c \in Seq(Messages) : c = chan[i][p]
      BY <1>2, Zenon DEF Channels
    <3>2. \A k \in 1..Len(c) : i \in c[k].est
      BY <1>2, <3>1, Zenon DEF SignedIn
    <3>3. c # <<>> /\ ch[i][j] = Tail(c)
      BY <1>5, <2>2, <3>1, Zenon
    <3>4. n \in 1..Len(Tail(c))
      BY <3>3, Zenon
    <3>5. i \in Tail(c)[n].est
      BY <3>2, <3>3, <3>4
    <3> QED BY <3>3, <3>5, Zenon
  <2> QED BY <2>1, <2>2, Zenon
<1>12. SentIn(now) = SentIn(s)
  BY <1>3, <1>4, Zenon DEF SentIn
<1>13. LinksIn(f, ch)
  <2> SUFFICES ASSUME NEW i \in Procs \ crashed, NEW j \in Procs \ crashed, i # j
               PROVE  Link(ch[i][j], f[i], f[j], i, j)
    BY Zenon DEF LinksIn
  <2>1. Link(chan[i][j], st[i], st[j], i, j)
    BY <1>2, Zenon DEF LinksIn
  <2>2. CASE i # p /\ j # p
    BY <1>5, <1>7, <2>1, <2>2, Zenon
  <2>3. CASE i = p
    <3>1. Link(chan[i][j], now, st[j], i, j)
      <4>1. Link(chan[i][j], s, st[j], i, j) /\ (j \in now.iknow <=> j \in s.iknow)
        BY <1>1, <1>4, <2>1, <2>3, Zenon
      <4> QED BY <1>12, <4>1, LinkSame, Zenon
    <3> QED BY <1>5, <1>7, <2>3, <3>1, Zenon
  <2>4. CASE j = p
    <3>1. Link(chan[i][p], st[i], s, i, p) /\ i \in Procs /\ i # p /\ i \notin Failed(p)
      BY <1>1, <1>6, <2>1, <2>4, Zenon
    <3>2. CASE i \notin got
      <4>1. (i \in now.told <=> i \in s.told) /\ (i \in now.recvs <=> i \in s.recvs)
        BY <1>4, <3>1, <3>2, Zenon
      <4>2. Link(chan[i][p], st[i], now, i, p)
        BY <1>12, <3>1, <4>1, LinkSame, Zenon
      <4> QED BY <1>5, <1>7, <2>4, <3>1, <3>2, <4>2, Zenon
    <3>3. CASE i \in got
      <4>1. i \in s.recvs /\ i \notin s.told /\ i \notin now.recvs
        BY <1>2, <1>4, <1>5, <3>3, Zenon DEF Local
      <4>2. i \in now.told <=> Head(chan[i][p]).knows
        BY <1>4, <3>3, <4>1, Zenon
      <4>3. chan[i][p] \in Seq(Messages) /\ chan[i][p] # <<>> /\ ch[i][p] = Tail(chan[i][p])
        BY <1>2, <1>5, <3>1, <3>3, Zenon DEF Channels
      <4>4. Link(Tail(chan[i][p]), st[i], now, i, p)
        <5>1. now.at = s.at /\ now.round = s.round /\ now \in States
          BY <1>3, <1>4, Zenon
        <5> HIDE <1>4
        <5> QED BY <1>3, <3>1, <4>1, <4>2, <4>3, <5>1, LinkReceive, Zenon
      <4> QED BY <1>7, <2>4, <3>1, <4>3, <4>4, Zenon
    <3> QED BY <3>2, <3>3, Zenon
  <2> QED BY <2>2, <2>3, <2>4, Zenon
<1> QED BY <1>1, <1>5, <1>7, <1>9, <1>10, <1>11, <1>13, Zenon DEF Sound

(* p leaves: it has no more to receive, and either it has told everyone    *)
(* that it knows and has been told so, or the rounds are over.             *)
LEMMA LeaveSound ==
  ASSUME NEW p \in Procs, Here(p), NEW f, NEW ch, Sound(f, ch),
         f[p].at = "wait", f[p].recvs = {},
         NEW u \in States, u.at = "left", u.told = f[p].told, u.iknow = f[p].iknow,
         u.est = f[p].est, u.dead = f[p].dead, u.unsent = f[p].unsent, u.recvs = f[p].recvs,
         SentIn(u) = SentIn(f[p]),
         Others(p) \ crashed \subseteq u.told \cap u.iknow \/ u.round = NP + 2
  PROVE  Sound([f EXCEPT ![p] = u], ch)
<1>1. PICK g : g = [f EXCEPT ![p] = u]
  BY Zenon
<1>2. /\ f \in [Procs -> States] /\ ch \in Channels
      /\ SignedIn(ch) /\ LinksIn(f, ch) /\ NoneToSelf(ch) /\ Local(p, f[p])
      /\ \A i \in Procs : Here(i) \/ f[i].at = "left" => Local(i, f[i])
  BY Zenon DEF Sound
<1>3. g \in [Procs -> States] /\ g[p] = u /\ \A i \in Procs \ {p} : g[i] = f[i]
  BY <1>1, <1>2, Zenon
<1>4. Local(p, u)
  <2>1. /\ p \in u.est /\ u.dead \cup u.unsent \subseteq crashed
        /\ u.told \cup u.recvs \subseteq Others(p) /\ u.told \cap u.recvs = {}
        /\ Others(p) \subseteq u.est \cup u.dead \cup u.recvs
    BY <1>2, Zenon DEF Local
  <2>2. u.recvs = {} /\ Others(p) \subseteq u.est \cup u.dead
    BY <2>1
  <2> QED BY <2>1, <2>2, Zenon DEF Local
<1>5. \A i \in Procs : Here(i) \/ g[i].at = "left" => Local(i, g[i])
  BY <1>2, <1>3, <1>4, Zenon
<1>6. LinksIn(g, ch)
  <2> SUFFICES ASSUME NEW i \in Procs \ crashed, NEW j \in Procs \ crashed, i # j
               PROVE  Link(ch[i][j], g[i], g[j], i, j)
    BY Zenon DEF LinksIn
  <2>1. Link(ch[i][j], f[i], f[j], i, j)
    BY <1>2, Zenon DEF LinksIn
  <2>2. \A k \in Procs : /\ g[k].told = f[k].told /\ g[k].recvs = f[k].recvs
                         /\ g[k].iknow = f[k].iknow /\ SentIn(g[k]) = SentIn(f[k])
    BY <1>3, Zenon
  <2>3. /\ g[j].told = f[j].told /\ g[j].recvs = f[j].recvs
        /\ g[i].iknow = f[i].iknow /\ SentIn(g[i]) = SentIn(f[i]) /\ SentIn(g[j]) = SentIn(f[j])
    BY <2>2, Zenon
  <2> QED BY <2>1, <2>3, LinkSame, Zenon
<1> QED BY <1>1, <1>2, <1>3, <1>5, <1>6, Zenon DEF Sound

(* The end of a round: p leaves, or posts the requests of the next.        *)
LEMMA EndSound ==
  ASSUME Known, st \in [Procs -> States], NEW p \in Procs, Here(p),
         NEW now \in States, now.at = "wait", now.recvs = {}, NEW ch,
         Sound([st EXCEPT ![p] = now], ch), NEW n, EndOfRound(p, now, n, ch)
  PROVE  Sound(st', chan')
<1>1. PICK f : f = [st EXCEPT ![p] = now]
  BY Zenon
<1>2. /\ f \in [Procs -> States] /\ f[p] = now /\ \A i \in Procs \ {p} : f[i] = st[i]
      /\ Sound(f, ch) /\ \A u : [st EXCEPT ![p] = u] = [f EXCEPT ![p] = u]
  BY <1>1
<1>3. ch \in Channels /\ Local(p, now)
  BY <1>2, Zenon DEF Sound
<1>4. /\ p \in now.est /\ now.dead \subseteq crashed /\ now.told \subseteq Others(p)
      /\ now.round \in 1..(NP + 1) /\ Others(p) \subseteq now.est \cup now.dead
      /\ now.knows => Others(p) \ crashed \subseteq now.iknow
  BY <1>3 DEF Local
<1>5. PICK k, next : /\ k = Learns(now, n)
                     /\ next = [now EXCEPT !.knows = k, !.round = @ + 1]
  BY Zenon
<1>6. k \in BOOLEAN
  BY <1>5, Zenon DEF Learns
<1>7. /\ next \in States /\ next.at = "wait" /\ next.round = now.round + 1
      /\ next.est = now.est /\ next.dead = now.dead /\ next.told = now.told
      /\ next.iknow = now.iknow /\ next.recvs = now.recvs /\ next.unsent = now.unsent
  <2>1. now.round \in Nat /\ now.round + 1 \in Nat
    BY DEF States
  <2> QED BY <1>5, <1>6, <2>1, Zenon DEF States
<1>8. SentIn(now) = now.round
  <2>1. SentIn(now) = IF now.round > NP + 1 THEN NP + 1 ELSE now.round
    BY Zenon DEF SentIn
  <2> QED BY <1>4, <2>1, Size
<1>9. \/ /\ Satisfied(now) /\ chan' = ch
         /\ st' = [st EXCEPT ![p] = [now EXCEPT !.at = "left"]]
      \/ /\ now.round = NP + 1 /\ chan' = ch
         /\ st' = [st EXCEPT ![p] = [next EXCEPT !.at = "left"]]
      \/ now.round <= NP /\ PostRound(p, next, ch)
  BY <1>5, Zenon DEF EndOfRound
<1>10. CASE /\ Satisfied(now) /\ chan' = ch
            /\ st' = [st EXCEPT ![p] = [now EXCEPT !.at = "left"]]
  <2>1. PICK u : u = [now EXCEPT !.at = "left"]
    BY Zenon
  <2>2. /\ u \in States /\ u.at = "left" /\ u.round = now.round
        /\ u.est = now.est /\ u.dead = now.dead /\ u.told = now.told
        /\ u.iknow = now.iknow /\ u.recvs = now.recvs /\ u.unsent = now.unsent
    BY <2>1, Zenon DEF States
  <2>3. SentIn(u) = SentIn(now)
    BY <2>2, Zenon DEF SentIn
  <2>4. now.knows /\ Cardinality(now.told \cup now.dead) >= NP - 1
    BY <1>10, Zenon DEF Satisfied
  <2>5. now.told \cup now.dead \subseteq Others(p)
    <3>1. now.dead \subseteq Procs
      BY DEF States
    <3> QED BY <1>4, <3>1 DEF Here, Others
  <2>6. now.told \cup now.dead = Others(p)
    BY <2>4, <2>5, AllOthers, Zenon
  <2>7. Others(p) \ crashed \subseteq u.told \cap u.iknow
    BY <1>4, <2>2, <2>4, <2>6
  <2>8. Sound([f EXCEPT ![p] = u], ch)
    BY <1>2, <2>2, <2>3, <2>7, LeaveSound, Zenon
  <2> QED BY <1>2, <1>10, <2>1, <2>8, Zenon
<1>11. CASE /\ now.round = NP + 1 /\ chan' = ch
            /\ st' = [st EXCEPT ![p] = [next EXCEPT !.at = "left"]]
  <2>1. PICK u : u = [next EXCEPT !.at = "left"]
    BY Zenon
  <2>2. /\ u \in States /\ u.at = "left" /\ u.round = next.round
        /\ u.est = next.est /\ u.dead = next.dead /\ u.told = next.told
        /\ u.iknow = next.iknow /\ u.recvs = next.recvs /\ u.unsent = next.unsent
    BY <1>7, <2>1, Zenon DEF States
  <2>3. u.round = NP + 2
    BY <1>7, <1>11, <2>2, Size
  <2>4. SentIn(u) = IF u.round > NP + 1 THEN NP + 1 ELSE u.round
    BY <2>2, Zenon DEF SentIn
  <2>5. SentIn(u) = SentIn(now)
    BY <1>8, <1>11, <2>3, <2>4, Size
  <2>6. /\ u.est = now.est /\ u.dead = now.dead /\ u.told = now.told
        /\ u.iknow = now.iknow /\ u.recvs = now.recvs /\ u.unsent = now.unsent
    BY <1>7, <2>2, Zenon
  <2>7. Sound([f EXCEPT ![p] = u], ch)
    BY <1>2, <2>2, <2>3, <2>5, <2>6, LeaveSound, Zenon
  <2> QED BY <1>2, <1>11, <2>1, <2>7, Zenon
<1>12. CASE now.round <= NP /\ PostRound(p, next, ch)
  <2>1. SentIn(now) \in 0..NP /\ next.round = SentIn(now) + 1 /\ next.round \in 1..(NP + 1)
    BY <1>4, <1>7, <1>8, <1>12, Size
  <2>2. next.told \subseteq next.est \cup next.dead
    BY <1>4, <1>7
  <2>3. Ready(p, next)
    BY <1>4, <1>7, <2>1, <2>2, Zenon DEF Ready
  <2>4. PICK t, m : Posts(p, next, ch, t, m)
    BY <1>3, <1>12, <2>3, PostStep, Zenon
  <2> QED BY <1>2, <1>7, <2>1, <2>3, <2>4, PostSound, Zenon
<1> QED BY <1>9, <1>10, <1>11, <1>12, Zenon

(* A return of ompi_request_wait_all.                                      *)
LEMMA WaitStep == ASSUME IInv, NEW p \in Procs, Wait(p) PROVE IInv'
<1>1. /\ Running(p) /\ UNCHANGED <<known, crashed>>
      /\ \E got \in SUBSET Arrived(p) :
           LET now == Absorb(p, st[p], got, Failed(p)) IN
           IF now.recvs = {} THEN EndOfRound(p, now, Cardinality(got), Taken(p, got))
           ELSE st' = [st EXCEPT ![p] = now] /\ chan' = Taken(p, got)
  BY Zenon DEF Wait, Taken
<1>2. PICK s : s = st[p]
  BY Zenon
<1>3. PICK got \in SUBSET Arrived(p) :
        LET now == Absorb(p, s, got, Failed(p)) IN
        IF now.recvs = {} THEN EndOfRound(p, now, Cardinality(got), Taken(p, got))
        ELSE st' = [st EXCEPT ![p] = now] /\ chan' = Taken(p, got)
  BY <1>1, <1>2, Zenon
<1>4. PICK now, ch : now = Absorb(p, s, got, Failed(p)) /\ ch = Taken(p, got)
  BY Zenon
<1>5. IF now.recvs = {} THEN EndOfRound(p, now, Cardinality(got), ch)
      ELSE st' = [st EXCEPT ![p] = now] /\ chan' = ch
  BY <1>3, <1>4, Zenon
<1>6. Moved(p, got, s, now)
  BY <1>1, <1>2, <1>4, AbsorbFields, Zenon
<1>7. Received(p, got, s, ch)
  BY <1>1, <1>2, <1>4, TakenFields, Zenon
<1>8. Sound([st EXCEPT ![p] = now], ch)
  BY <1>1, <1>2, <1>6, <1>7, AbsorbSound, Zenon
<1>9. Known /\ st \in [Procs -> States] /\ Here(p) /\ now \in States /\ now.at = "wait"
  BY <1>1, <1>6, Zenon DEF IInv, Sound, Running, Moved
<1>10. Sound(st', chan')
  <2>1. CASE now.recvs = {}
    <3>1. EndOfRound(p, now, Cardinality(got), ch)
      BY <1>5, <2>1, Zenon
    <3> QED BY <1>8, <1>9, <2>1, <3>1, EndSound, Zenon
  <2>2. CASE now.recvs # {}
    BY <1>5, <1>8, <2>2, Zenon
  <2> QED BY <2>1, <2>2, Zenon
<1>11. Known' /\ crashed' = crashed
  BY <1>1, <1>9, Zenon DEF Known
<1> QED BY <1>10, <1>11, NoCrash, Zenon

-----------------------------------------------------------------------------
(* A crash: the links that are left are those of the living.               *)
LEMMA CrashStep == ASSUME IInv, NEW p \in Procs, Crash(p) PROVE IInv'
<1>1. /\ Here(p) /\ crashed' = crashed \cup {p}
      /\ st' = IF st[p].at = "left" THEN st ELSE [st EXCEPT ![p] = Start(p, {})]
      /\ chan' = [i \in Procs |-> [chan[i] EXCEPT ![p] = <<>>]]
      /\ known' = [known EXCEPT ![p] = {}]
  BY Zenon DEF Crash
<1>2. /\ known \in [Procs -> SUBSET Procs] /\ crashed \subseteq Procs
      /\ \A i \in Procs : known[i] \subseteq crashed
  BY Zenon DEF IInv, Known
<1>3. /\ st \in [Procs -> States] /\ chan \in Channels
      /\ SignedIn(chan) /\ LinksIn(st, chan) /\ NoneToSelf(chan)
      /\ \A i \in Procs : Here(i) \/ st[i].at = "left" => Local(i, st[i])
  BY Zenon DEF IInv, Sound
<1>4. Known'
  BY <1>1, <1>2 DEF Known
<1>5. Start(p, {}) \in States /\ Start(p, {}).at = "wait"
  BY DEF Start, States
<1>6. /\ st' \in [Procs -> States] /\ \A i \in Procs \ {p} : st'[i] = st[i]
      /\ st'[p].at = "left" => st[p].at = "left" /\ st'[p] = st[p]
  <2>1. CASE st[p].at = "left"
    BY <1>1, <1>3, <2>1, Zenon
  <2>2. CASE st[p].at # "left"
    <3>1. st' = [st EXCEPT ![p] = Start(p, {})]
      BY <1>1, <2>2, Zenon
    <3>2. st'[p] = Start(p, {})
      BY <1>3, <3>1, Zenon
    <3>3. st'[p].at # "left"
      BY <1>5, <3>2
    <3> QED BY <1>3, <1>5, <3>1, <3>3, Zenon
  <2> QED BY <2>1, <2>2, Zenon
<1>7. /\ \A i \in Procs : chan'[i] \in [Procs -> Seq(Messages)] /\ chan'[i][p] = <<>>
      /\ \A i, j \in Procs : j # p => chan'[i][j] = chan[i][j]
  <2>1. <<>> \in Seq(Messages)
    OBVIOUS
  <2>2. \A i \in Procs : /\ chan'[i] = [chan[i] EXCEPT ![p] = <<>>]
                         /\ chan[i] \in [Procs -> Seq(Messages)]
    BY <1>1, <1>3, Zenon DEF Channels
  <2>3. ASSUME NEW i \in Procs
        PROVE  /\ chan'[i] \in [Procs -> Seq(Messages)] /\ chan'[i][p] = <<>>
               /\ \A j \in Procs : j # p => chan'[i][j] = chan[i][j]
    <3>1. /\ chan'[i] = [chan[i] EXCEPT ![p] = <<>>]
          /\ chan[i] \in [Procs -> Seq(Messages)]
      BY <2>2, Zenon
    <3> HIDE <1>1
    <3> QED BY <2>1, <3>1
  <2> QED BY <2>3, Zenon
<1>8. chan' \in Channels
  <2>1. chan' = [i \in Procs |-> chan'[i]]
    BY <1>1, Zenon
  <2> QED BY <1>7, <2>1, Zenon DEF Channels
<1>9. SignedIn(chan)'
  <2> SUFFICES ASSUME NEW i \in Procs, NEW j \in Procs, NEW n \in 1..Len(chan'[i][j])
               PROVE  i \in chan'[i][j][n].est
    BY Zenon DEF SignedIn
  <2>1. CASE j # p
    <3>1. chan'[i][j] = chan[i][j]
      BY <1>7, <2>1, Zenon
    <3> QED BY <1>3, <3>1, Zenon DEF SignedIn
  <2>2. CASE j = p
    <3>1. chan'[i][j] = <<>>
      BY <1>7, <2>2, Zenon
    <3> QED BY <3>1
  <2> QED BY <2>1, <2>2, Zenon
<1>10. NoneToSelf(chan)'
  BY <1>3, <1>7, Zenon DEF NoneToSelf
<1>11. LinksIn(st, chan)'
  <2> SUFFICES ASSUME NEW i \in Procs \ crashed', NEW j \in Procs \ crashed', i # j
               PROVE  Link(chan'[i][j], st'[i], st'[j], i, j)
    BY Zenon DEF LinksIn
  <2>1. i \in Procs \ crashed /\ j \in Procs \ crashed /\ i # p /\ j # p
    BY <1>1
  <2>2. chan'[i][j] = chan[i][j] /\ st'[i] = st[i] /\ st'[j] = st[j]
    BY <1>6, <1>7, <2>1, Zenon
  <2> QED BY <1>3, <2>1, <2>2, Zenon DEF LinksIn
<1>12. ASSUME NEW q \in Procs, (Here(q) \/ st[q].at = "left")' PROVE Local(q, st[q])'
  <2>1. q = p => st'[q].at = "left"
    BY <1>1, <1>12 DEF Here
  <2>2. st'[q] = st[q] /\ (Here(q) \/ st[q].at = "left")
    <3>1. CASE q = p
      BY <1>6, <2>1, <3>1, Zenon
    <3>2. CASE q # p
      <4>1. st'[q] = st[q]
        BY <1>6, <3>2, Zenon
      <4>2. q \notin crashed' \/ st'[q].at = "left"
        BY <1>12, Zenon DEF Here
      <4>3. q \notin crashed \/ st'[q].at = "left"
        BY <1>1, <4>2
      <4> QED BY <4>1, <4>3, Zenon DEF Here
    <3> QED BY <3>1, <3>2, Zenon
  <2>3. PICK s : s = st[q]
    BY Zenon
  <2>4. Local(q, s) /\ crashed \subseteq crashed'
    BY <1>1, <1>3, <2>2, <2>3
  <2>5. /\ q \in s.est /\ s.dead \cup s.unsent \subseteq crashed'
        /\ s.told \cup s.recvs \subseteq Others(q) /\ s.told \cap s.recvs = {}
        /\ s.at = "before" => s = [Start(q, {}) EXCEPT !.at = "before"]
        /\ s.at = "wait" =>
             /\ s.round \in 1..(NP + 1)
             /\ Others(q) \subseteq s.est \cup s.dead \cup s.recvs
             /\ s.knows => Others(q) \ crashed' \subseteq s.iknow
        /\ s.at = "left" =>
             /\ s.recvs = {} /\ Others(q) \subseteq s.est \cup s.dead
             /\ Others(q) \ crashed' \subseteq s.told \cap s.iknow \/ s.round = NP + 2
    BY <2>4, Zenon DEF Local
  <2>6. st'[q] = s
    BY <2>2, <2>3, Zenon
  <2> QED BY <2>5, <2>6, Zenon DEF Local
<1> QED BY <1>4, <1>6, <1>8, <1>9, <1>10, <1>11, <1>12, Zenon DEF IInv, Sound

(* With the notification of a failure, only what the failed process has    *)
(* sent is lost.                                                           *)
LEMMA NotifyStep == ASSUME IInv, NEW p \in Procs, NEW q \in Procs, Notify(p, q) PROVE IInv'
<1>1. /\ q \in crashed /\ known' = [known EXCEPT ![p] = @ \cup {q}]
      /\ \E n \in 0..Len(chan[q][p]) : chan' = [chan EXCEPT ![q][p] = SubSeq(@, 1, n)]
      /\ st' = st /\ crashed' = crashed
  BY Zenon DEF Notify
<1>2. /\ known \in [Procs -> SUBSET Procs] /\ crashed \subseteq Procs
      /\ \A i \in Procs : known[i] \subseteq crashed
  BY Zenon DEF IInv, Known
<1>3. /\ st \in [Procs -> States] /\ chan \in Channels
      /\ SignedIn(chan) /\ LinksIn(st, chan) /\ NoneToSelf(chan)
      /\ \A i \in Procs : Here(i) \/ st[i].at = "left" => Local(i, st[i])
  BY Zenon DEF IInv, Sound
<1>4. Known'
  BY <1>1, <1>2 DEF Known
<1>5. PICK n \in 0..Len(chan[q][p]) : chan' = [chan EXCEPT ![q][p] = SubSeq(@, 1, n)]
  BY <1>1, Zenon
<1>6. PICK c \in Seq(Messages) : c = chan[q][p]
  BY <1>3, Zenon DEF Channels
<1>7. PICK d : d = SubSeq(c, 1, n)
  BY Zenon
<1>8. /\ n \in 0..Len(c) /\ d \in Seq(Messages) /\ Len(d) = n
      /\ \A k \in 1..n : d[k] = c[k] /\ k \in 1..Len(c)
      /\ c = <<>> => d = <<>>
  <2>1. n \in 0..Len(c)
    BY <1>5, <1>6, Zenon
  <2> QED BY <1>7, <2>1
<1>9. chan[q] \in [Procs -> Seq(Messages)] /\ chan' = [chan EXCEPT ![q] = [@ EXCEPT ![p] = d]]
  BY <1>3, <1>5, <1>6, <1>7, Zenon DEF Channels
<1>10. /\ chan' \in Channels /\ chan'[q][p] = d
       /\ \A i, j \in Procs : i # q \/ j # p => chan'[i][j] = chan[i][j]
  <2>1. PICK row : row = [chan[q] EXCEPT ![p] = d]
    BY Zenon
  <2>2. /\ row \in [Procs -> Seq(Messages)] /\ row[p] = d
        /\ \A j \in Procs : j # p => row[j] = chan[q][j]
    BY <1>8, <1>9, <2>1, Zenon
  <2>3. chan' = [chan EXCEPT ![q] = row]
    BY <1>9, <2>1, Zenon
  <2> QED BY <1>3, <2>2, <2>3, Zenon DEF Channels
<1>11. SignedIn(chan')
  <2> SUFFICES ASSUME NEW i \in Procs, NEW j \in Procs, NEW k \in 1..Len(chan'[i][j])
               PROVE  i \in chan'[i][j][k].est
    BY Zenon DEF SignedIn
  <2>1. CASE i # q \/ j # p
    <3>1. chan'[i][j] = chan[i][j]
      BY <1>10, <2>1, Zenon
    <3> QED BY <1>3, <3>1, Zenon DEF SignedIn
  <2>2. CASE i = q /\ j = p
    <3>1. \A l \in 1..Len(c) : q \in c[l].est
      BY <1>3, <1>6, Zenon DEF SignedIn
    <3>2. k \in 1..n
      BY <1>8, <1>10, <2>2, Zenon
    <3> QED BY <1>8, <1>10, <2>2, <3>1, <3>2, Zenon
  <2> QED BY <2>1, <2>2, Zenon
<1>12. NoneToSelf(chan')
  BY <1>3, <1>6, <1>8, <1>10, Zenon DEF NoneToSelf
<1>13. LinksIn(st', chan')
  BY <1>1, <1>3, <1>10, Zenon DEF LinksIn
<1>14. Sound(st', chan')
  BY <1>1, <1>3, <1>10, <1>11, <1>12, <1>13, Zenon DEF Sound
<1> QED BY <1>1, <1>4, <1>14, NoCrash, Zenon

-----------------------------------------------------------------------------
(* Nobody has called the agreement.                                        *)
LEMMA InitSound == ASSUME Init PROVE IInv
<1>1. /\ st = [p \in Procs |-> [Start(p, {}) EXCEPT !.at = "before"]]
      /\ chan = [i \in Procs |-> [p \in Procs |-> <<>>]]
      /\ known = [p \in Procs |-> {}] /\ crashed = {}
  BY Zenon DEF Init
<1>2. Known
  BY <1>1 DEF Known
<1>3. ASSUME NEW p \in Procs
      PROVE  /\ st[p] \in States /\ st[p].at = "before"
             /\ st[p] = [Start(p, {}) EXCEPT !.at = "before"]
             /\ st[p].est = {p} /\ st[p].dead = {} /\ st[p].unsent = {}
             /\ st[p].told = {} /\ st[p].recvs = {} /\ st[p].iknow = {}
  <2>1. st[p] = [Start(p, {}) EXCEPT !.at = "before"]
    BY <1>1, Zenon
  <2>2. st[p] = [at |-> "before", round |-> 1, est |-> {p}, knows |-> FALSE, pf |-> FALSE,
                 dead |-> {}, told |-> {}, iknow |-> {}, recvs |-> {}, unsent |-> {}]
    BY <2>1, Zenon DEF Start
  <2>3. st[p] \in States
    BY <2>2 DEF States
  <2> QED BY <2>1, <2>2, <2>3
<1>4. st \in [Procs -> States]
  <2>1. st = [p \in Procs |-> st[p]]
    BY <1>1, Zenon
  <2> QED BY <1>3, <2>1, Zenon
<1>5. chan \in Channels /\ \A i, p \in Procs : chan[i][p] = <<>>
  <2>1. <<>> \in Seq(Messages)
    OBVIOUS
  <2> QED BY <1>1, <2>1, Zenon DEF Channels
<1>6. NoneToSelf(chan)
  BY <1>5, Zenon DEF NoneToSelf
<1>7. SignedIn(chan)
  <2>1. \A n \in 1..Len(<<>>) : FALSE
    OBVIOUS
  <2> QED BY <1>5, <2>1, Zenon DEF SignedIn
<1>8. ASSUME NEW p \in Procs PROVE Local(p, st[p])
  <2>1. /\ p \in st[p].est /\ st[p].dead \cup st[p].unsent \subseteq crashed
        /\ st[p].told \cup st[p].recvs \subseteq Others(p) /\ st[p].told \cap st[p].recvs = {}
    BY <1>3, Zenon
  <2> QED BY <1>3, <2>1 DEF Local
<1>9. LinksIn(st, chan)
  <2> SUFFICES ASSUME NEW i \in Procs, NEW p \in Procs
               PROVE  Link(chan[i][p], st[i], st[p], i, p)
    BY Zenon DEF LinksIn
  <2>1. p \notin st[i].iknow /\ i \notin st[p].told /\ i \notin st[p].recvs
    BY <1>3, Zenon
  <2>2. SentIn(st[i]) = 0 /\ SentIn(st[p]) = 0
    BY <1>3, Zenon DEF SentIn
  <2>3. ReceivedIn(st[p], i) = 0
    BY <2>1, <2>2, Zenon DEF ReceivedIn
  <2>4. /\ Len(chan[i][p]) + ReceivedIn(st[p], i) = SentIn(st[i])
        /\ \A n \in 1..Len(chan[i][p]) : ~chan[i][p][n].knows
    BY <1>5, <2>2, <2>3
  <2> QED BY <2>1, <2>4, Zenon DEF Link
<1> QED BY <1>2, <1>4, <1>5, <1>6, <1>7, <1>8, <1>9, Zenon DEF IInv, Sound

(* The channels between the living stay in step with their rounds.         *)
LEMMA InStep == Spec => []IInv
<1>1. Init => IInv
  BY InitSound, Zenon
<1>2. ASSUME IInv, [Next]_vars PROVE IInv'
  <2>1. CASE UNCHANGED vars
    <3>1. st' = st /\ chan' = chan /\ known' = known /\ crashed' = crashed
      BY <2>1, Zenon DEF vars
    <3>2. Known' /\ Sound(st', chan')
      BY <1>2, <3>1, Zenon DEF IInv, Known
    <3> QED BY <3>1, <3>2, NoCrash, Zenon
  <2>2. CASE Next
    BY <1>2, <2>2, EnterStep, WaitStep, CrashStep, NotifyStep, Zenon DEF Next
  <2> QED BY <1>2, <2>1, <2>2, Zenon
<1> QED BY <1>1, <1>2, PTL DEF Spec

-----------------------------------------------------------------------------
(* Nobody alive is left out: mca_coll_ftbasic_agreement_eta_intra returns  *)
(* with an estimate that takes in the contribution of every process that   *)
(* is alive, as it gives up the receive of a crashed process only.         *)
THEOREM LivingCounted == Spec => []EveryoneCounted
<1>1. ASSUME IInv, NEW p \in Procs, Left(p) PROVE Procs \ crashed \subseteq st[p].est
  <2>1. Local(p, st[p])
    BY <1>1, Zenon DEF IInv, Sound, Left
  <2>2. /\ p \in st[p].est /\ st[p].dead \subseteq crashed
        /\ Others(p) \subseteq st[p].est \cup st[p].dead
    BY <1>1, <2>1 DEF Local, Left
  <2> QED BY <2>2 DEF Others
<1>2. IInv => EveryoneCounted
  BY <1>1, Zenon DEF EveryoneCounted
<1> QED BY <1>2, InStep, PTL

(* What a process that is alive and has returned knows.                    *)
LEMMA Returned ==
  ASSUME IInv, NEW p \in Procs \ crashed, Left(p)
  PROVE  /\ st[p].recvs = {}
         /\ \A i \in Procs \ crashed : i # p =>
              \/ i \in st[p].told /\ i \in st[p].iknow
              \/ SentIn(st[p]) = NP + 1
<1>1. Local(p, st[p]) /\ st[p].at = "left"
  BY Zenon DEF IInv, Sound, Left
<1>2. /\ st[p].recvs = {}
      /\ Others(p) \ crashed \subseteq st[p].told \cap st[p].iknow \/ st[p].round = NP + 2
  BY <1>1 DEF Local
<1>3. st[p].round = NP + 2 => SentIn(st[p]) = NP + 1
  BY <1>1, Size DEF SentIn
<1> QED BY <1>2, <1>3 DEF Others

(* Two processes that have returned from                                   *)
(* mca_coll_ftbasic_agreement_eta_intra leave no message between them for  *)
(* the next agreement on the communicator, which uses the same tag.        *)
THEOREM ChannelsDrained == Spec => []NothingLeftOver
<1>1. ASSUME IInv, NEW p \in Procs \ crashed, NEW i \in Procs \ crashed, Left(p), Left(i)
      PROVE  chan[i][p] = <<>>
  <2>1. CASE i = p
    BY <1>1, <2>1, Zenon DEF IInv, Sound, NoneToSelf
  <2>2. CASE i # p
    <3>1. PICK c \in Seq(Messages) : c = chan[i][p]
      BY <1>1, Zenon DEF IInv, Sound, Channels
    <3>2. Link(c, st[i], st[p], i, p)
      BY <1>1, <2>2, <3>1, Zenon DEF IInv, Sound, LinksIn
    <3>3. /\ st[p].recvs = {}
          /\ i \in st[p].told \/ SentIn(st[p]) = NP + 1
          /\ p \in st[i].iknow \/ SentIn(st[i]) = NP + 1
      BY <1>1, <2>2, Returned, Zenon
    <3>4. ReceivedIn(st[p], i) = SentIn(st[p])
      BY <3>3 DEF ReceivedIn
    <3>5. c # <<>> => Len(c) \in Nat /\ Len(c) > 0
      OBVIOUS
    <3>6. CASE p \in st[i].iknow
      <4>1. \/ i \in st[p].told /\ c = <<>>
            \/ i \notin st[p].told /\ c # <<>> /\ Len(c) + ReceivedIn(st[p], i) <= NP + 1
        BY <3>2, <3>6, Zenon DEF Link
      <4> QED BY <3>1, <3>3, <3>4, <3>5, <4>1, Size
    <3>7. CASE p \notin st[i].iknow
      <4>1. i \notin st[p].told /\ Len(c) + ReceivedIn(st[p], i) = SentIn(st[i])
        BY <3>2, <3>7, Zenon DEF Link
      <4> QED BY <3>1, <3>3, <3>4, <3>5, <3>7, <4>1, Size
    <3> QED BY <3>6, <3>7, Zenon
  <2> QED BY <2>1, <2>2, Zenon
<1>2. IInv => NothingLeftOver
  BY <1>1, Zenon DEF NothingLeftOver
<1> QED BY <1>2, InStep, PTL

(* Of the living that wait, one is in the earliest round.                  *)
LEMMA Earliest ==
  ASSUME IInv, NEW r \in Procs, Running(r)
  PROVE  \E p \in Procs : /\ Running(p)
                          /\ \A i \in Procs : Running(i) => ~(st[i].round < st[p].round)
<1>1. PICK S : S = {st[q].round : q \in {q \in Procs : Running(q)}}
  BY Zenon
<1>2. S \subseteq Nat /\ S # {}
  <2>1. \A q \in Procs : st[q].round \in Nat
    BY DEF IInv, Sound, States
  <2> QED BY <1>1, <2>1, Zenon
<1>3. PICK x \in S : \A y \in S : ~(<<y, x>> \in OpToRel(<, Nat))
  BY <1>2, NatLessThanWellFounded, WFMin, Zenon
<1>4. \A y \in S : ~(y < x)
  BY <1>2, <1>3, Zenon DEF OpToRel
<1> QED BY <1>1, <1>3, <1>4, Zenon

(* Nobody waits for ever for a message: as long as one that is alive has   *)
(* not returned, someone can take a step.  The one in the earliest round   *)
(* waits for none that the others have not yet sent, so that the calls of  *)
(* ompi_request_wait_all cannot all be blocked.                            *)
THEOREM NoDeadlock == Spec => []NobodyStuck
<1>1. ASSUME IInv, ~NobodyStuck PROVE FALSE
  <2>1. /\ \E p \in Procs \ crashed : ~Left(p)
        /\ \A p \in Procs \ crashed :
             /\ st[p].at # "before" /\ crashed = known[p]
             /\ Running(p) => Arrived(p) # st[p].recvs /\ Failed(p) = {}
    BY <1>1, Zenon DEF NobodyStuck
  <2>2. \A p \in Procs : st[p] \in States /\ st[p].at \in {"before", "wait", "left"}
    BY <1>1 DEF IInv, Sound, States
  <2>3. \A p \in Procs \ crashed : Running(p) \/ Left(p)
    BY <2>1, <2>2, Zenon DEF Running, Left, Here
  <2>4. PICK p \in Procs : /\ Running(p)
                           /\ \A i \in Procs : Running(i) => ~(st[i].round < st[p].round)
    BY <1>1, <2>1, <2>3, Earliest, Zenon
  <2>5. p \in Procs \ crashed /\ st[p].at = "wait" /\ Local(p, st[p])
    BY <1>1, <2>4, Zenon DEF Running, Here, IInv, Sound
  <2>6. PICK i \in st[p].recvs : chan[i][p] = <<>>
    BY <2>1, <2>4, <2>5, Zenon DEF Arrived
  <2>7. /\ st[p].recvs \subseteq Others(p) /\ i \notin st[p].told
        /\ st[p].round \in 1..(NP + 1)
    BY <2>5 DEF Local
  <2>8. i \in Procs /\ i # p
    BY <2>7, Zenon DEF Others
  <2>9. i \notin Arrived(p) /\ Failed(p) = {} /\ known[p] = crashed
    BY <2>1, <2>4, <2>5, <2>6, Zenon DEF Arrived
  <2>10. i \in Procs \ crashed
    BY <2>6, <2>8, <2>9, Zenon DEF Failed
  <2>11. Link(<<>>, st[i], st[p], i, p)
    <3>1. Link(chan[i][p], st[i], st[p], i, p)
      BY <1>1, <2>5, <2>8, <2>10, Zenon DEF IInv, Sound, LinksIn
    <3> QED BY <2>6, <3>1, Zenon
  <2>12. p \notin st[i].iknow /\ Len(<<>>) + ReceivedIn(st[p], i) = SentIn(st[i])
    BY <2>7, <2>11, Zenon DEF Link
  <2>13. SentIn(st[p]) = st[p].round
    <3>1. SentIn(st[p]) = IF st[p].round > NP + 1 THEN NP + 1 ELSE st[p].round
      BY <2>5, Zenon DEF SentIn
    <3> QED BY <2>7, <3>1, Size
  <2>14. ReceivedIn(st[p], i) = SentIn(st[p]) - 1
    BY <2>6, Zenon DEF ReceivedIn
  <2>15. SentIn(st[i]) = st[p].round - 1
    BY <2>7, <2>12, <2>13, <2>14
  <2>16. CASE Left(i)
    <3>1. SentIn(st[i]) = NP + 1
      BY <1>1, <2>5, <2>8, <2>10, <2>12, <2>16, Returned, Zenon
    <3> QED BY <2>7, <2>15, <3>1, Size
  <2>17. CASE Running(i)
    <3>1. st[i].at = "wait" /\ Local(i, st[i])
      BY <1>1, <2>8, <2>17, Zenon DEF Running, IInv, Sound
    <3>2. st[i].round \in 1..(NP + 1)
      BY <3>1 DEF Local
    <3>3. SentIn(st[i]) = IF st[i].round > NP + 1 THEN NP + 1 ELSE st[i].round
      BY <3>1, Zenon DEF SentIn
    <3>4. ~(st[i].round < st[p].round)
      BY <2>4, <2>8, <2>17, Zenon
    <3> QED BY <2>7, <2>15, <3>2, <3>3, <3>4, Size
  <2> QED BY <2>3, <2>10, <2>16, <2>17, Zenon
<1>2. IInv => NobodyStuck
  BY <1>1, Zenon
<1> QED BY <1>2, InStep, PTL

=============================================================================
