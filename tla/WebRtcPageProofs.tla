--------------------------- MODULE WebRtcPageProofs ---------------------------
(****************************************************************************)
(* Proofs about WebRtcPage for any number of users, sessions, peer          *)
(* connections and replies under way.                                       *)
(*                                                                          *)
(* The types say what a message must carry to be used (RequestOK, ReplyOK). *)
(* A page stops polling when a reply makes it read a session it does not    *)
(* have: it has heard of nothing but its own (ToldInv), and as long as      *)
(* nothing happens to it and it has no session, the only thing that can be  *)
(* brought to it is an offer, which brings the session along (PollingInv).  *)
(*                                                                          *)
(* While nobody has called or answered twice a user has one connection      *)
(* (ConnsInv), and so one session for which it can have done its part       *)
(* (Engaged).  Only who has, sends candidates and confirms (LinkInv): a     *)
(* session that both have confirmed (BothInv) has its connections described *)
(* to each other, the callee's to an offer it was shown (OffersInv).  A     *)
(* candidate is delivered to a user once, and confirmed once (OnceInv), so  *)
(* that a terminated session is brought back only by a confirmation that    *)
(* was begun before.                                                        *)
(****************************************************************************)
EXTENDS WebRtcPage, TLAPS

\* Removing the reply at i moves up those after it.
LEMMA WithoutSeq ==
  ASSUME NEW S, NEW q \in Seq(S), NEW i \in 1..Len(q)
  PROVE  /\ Without(q, i) \in Seq(S)
         /\ Len(Without(q, i)) = Len(q) - 1
         /\ \A j \in 1..(Len(q) - 1) : Without(q, i)[j] = IF j < i THEN q[j] ELSE q[j + 1]
<1> DEFINE a == SubSeq(q, 1, i - 1)
           b == SubSeq(q, i + 1, Len(q))
<1>1. a \in Seq(S) /\ Len(a) = i - 1 /\ \A j \in 1..(i - 1) : a[j] = q[j]
  OBVIOUS
<1>2. b \in Seq(S) /\ Len(b) = Len(q) - i /\ \A j \in 1..(Len(q) - i) : b[j] = q[i + j]
  <2>1. b \in Seq(S) /\ Len(b) = Len(q) - i
    OBVIOUS
  <2>2. ASSUME NEW j \in 1..(Len(q) - i) PROVE b[j] = q[i + j]
    <3>1. b[j] = q[(i + 1) + j - 1] /\ (i + 1) + j - 1 = i + j
      OBVIOUS
    <3> QED BY <3>1
  <2> HIDE DEF b
  <2> QED BY <2>1, <2>2
<1>3. Without(q, i) = a \o b
  BY DEF Without
<1> HIDE DEF a, b
<1>4. a \o b \in Seq(S) /\ Len(a \o b) = Len(a) + Len(b)
  <2>1. a \in Seq(S) /\ b \in Seq(S)
    BY <1>1, <1>2
  <2> QED BY <2>1
<1>5. ASSUME NEW j \in 1..(Len(q) - 1)
      PROVE  (a \o b)[j] = IF j < i THEN q[j] ELSE q[j + 1]
  <2>1. CASE j < i
    <3>1. (a \o b)[j] = a[j]
      BY <1>1, <1>2, <2>1
    <3> QED BY <1>1, <2>1, <3>1
  <2>2. CASE ~(j < i)
    <3>1. j - (i - 1) \in 1..(Len(q) - i)
      BY <2>2
    <3>2. (a \o b)[j] = b[j - (i - 1)]
      BY <1>1, <1>2, <2>2
    <3>3. b[j - (i - 1)] = q[i + (j - (i - 1))] /\ i + (j - (i - 1)) = j + 1
      BY <1>2, <3>1
    <3> QED BY <2>2, <3>2, <3>3
  <2> QED BY <2>1, <2>2
<1> QED BY <1>1, <1>2, <1>3, <1>4, <1>5

------------------------------------------------------------------------------
(* Types.                                                                   *)

\* A description of one connection.
Description(D) == \E k \in Conns : D = {k}

RequestOK(r) ==
  /\ r.method \in {"offer", "answer"} => Description(r.body)
  /\ r.method = "offer" => r.peer \in Users
  /\ r.method = "candidate" => r.body \subseteq {0}
ReplyOK(r) ==
  /\ r.brings \in {"offer", "answer"} => Description(r.body)
  /\ r.brings = "candidate" => r.body \subseteq {0}

DataOK ==
  /\ offer \in [Sessions -> Conns \cup {0}] /\ answer \in [Sessions -> Conns \cup {0}]
  /\ cands \in [Sessions -> [{"caller", "callee"} -> SUBSET {0}]]
  /\ \A s \in Sessions : /\ state[s] # "none" => offer[s] \in Conns
                         /\ state[s] = "ANSWERED" => answer[s] \in Conns
                         /\ state[s] = "none" => caller[s] = NoUser
PagesOK ==
  /\ current \in [Users -> [shows : States \cup {"null", "undefined"}, sess : Sessions \cup {0},
                            offer : Conns \cup {0}]]
  /\ conn \in [Users -> Conns \cup {0}] /\ \A u \in Users : conn[u] # 0 => owner[conn[u]] = u
  /\ ice \in [Users -> BOOLEAN]
  /\ poll \in [Users -> {"timer", "sent", "stopped"}]
  /\ owner \in [Conns -> Users \cup {NoUser}] /\ remote \in [Conns -> Conns \cup {0}]
MakingOK ==
  /\ making \in [Users -> SUBSET Requests]
  /\ \A u \in Users : \A r \in making[u] :
       RequestOK(r) /\ r.method \in {"offer", "answer"} /\ r.at = "sent"
AskedOK ==
  /\ asked \in [Users -> SUBSET Requests]
  /\ \A u \in Users : \A r \in asked[u] : RequestOK(r) /\ (r.method = "offer" \/ r.sess # 0)
RepliesOK ==
  /\ replies \in [Users -> Seq(Replies)]
  /\ \A u \in Users : \A i \in 1..Len(replies[u]) : ReplyOK(replies[u][i])
PlanOK == plan \in Plans /\ mishap \subseteq plan.mishaps

TypeInv == ServerType /\ DataOK /\ PagesOK /\ MakingOK /\ AskedOK /\ RepliesOK /\ PlanOK

LEMMA ConnsFacts == Conns \subseteq Nat \ {0} /\ 0 \notin Conns
BY PageAssumption DEF Conns

LEMMA SessionsFacts == Sessions \subseteq Nat \ {0} /\ 0 \notin Sessions
BY ServerAssumption DEF Sessions

\* Both flags are set of a session that exists.
LEMMA SeenExists ==
  ASSUME ServerType, DataOK, NEW s \in Sessions, SeesBoth(s) PROVE state[s] # "none"
BY ServerAssumption DEF ServerType, DataOK, SeesBoth, Parties

\* CHOOSE takes the description out of a message.
LEMMA TheBody ==
  ASSUME NEW D, Description(D)
  PROVE  \E k \in Conns : D = {k} /\ (CHOOSE j \in Conns : j \in D) = k
<1>1. PICK k \in Conns : D = {k}
  BY DEF Description
<1>2. (CHOOSE j \in Conns : j \in D) = k
  BY <1>1
<1> QED BY <1>1, <1>2

\* What is common to the steps of the user and the browser.
LEMMA HappensType ==
  ASSUME PlanOK, NEW u \in Users, NEW m, Happens(u, m) PROVE PlanOK'
BY DEF PlanOK, Happens

LEMMA ClicksType ==
  ASSUME PlanOK, NEW u \in Users, NEW b \in BOOLEAN, Clicks(u, b) PROVE PlanOK'
BY HappensType DEF Clicks, PlanOK

LEMMA AsksType ==
  ASSUME AskedOK, NEW u \in Users, NEW R \in SUBSET Requests, Asks(u, R),
         \A r \in R : RequestOK(r) /\ (r.method = "offer" \/ r.sess # 0)
  PROVE  AskedOK'
BY DEF AskedOK, Asks

LEMMA ReplyType ==
  ASSUME RepliesOK, NEW u \in Users, NEW m \in Methods, NEW s \in Sessions \cup {0},
         NEW v \in States, NEW b \in {"nothing", "offer", "answer", "candidate"},
         NEW D \in SUBSET Bodies, Reply(u, m, s, v, b, D),
         b \in {"offer", "answer"} => Description(D), b = "candidate" => D \subseteq {0}
  PROVE  RepliesOK'
<1> DEFINE r == [method |-> m, sess |-> s, shows |-> v, brings |-> b, body |-> D]
           q == replies[u]
<1>1. r \in Replies /\ ReplyOK(r)
  BY DEF Replies, ReplyOK
<1>2. q \in Seq(Replies)
  BY DEF RepliesOK
<1>3. replies' = [replies EXCEPT ![u] = Append(q, r)]
  BY DEF Reply
<1> HIDE DEF r, q
<1>4. /\ Append(q, r) \in Seq(Replies) /\ Len(Append(q, r)) = Len(q) + 1
      /\ \A i \in 1..Len(q) : Append(q, r)[i] = q[i]
      /\ Append(q, r)[Len(q) + 1] = r
  BY <1>1, <1>2
<1>5. \A i \in 1..Len(Append(q, r)) : ReplyOK(Append(q, r)[i])
  <2>1. \A i \in 1..Len(q) : ReplyOK(q[i])
    BY DEF RepliesOK, q
  <2>2. Len(q) \in Nat
    BY <1>2
  <2>3. ASSUME NEW i \in 1..(Len(q) + 1) PROVE i \in 1..Len(q) \/ i = Len(q) + 1
    BY <2>2
  <2> QED BY <1>1, <1>4, <2>1, <2>3
<1> QED BY <1>3, <1>4, <1>5 DEF RepliesOK

LEMMA WithoutType ==
  ASSUME RepliesOK, NEW u \in Users, NEW i \in 1..Len(replies[u]),
         replies' = [replies EXCEPT ![u] = Without(@, i)]
  PROVE  RepliesOK'
<1> DEFINE q == replies[u]
<1>1. q \in Seq(Replies) /\ i \in 1..Len(q) /\ \A j \in 1..Len(q) : ReplyOK(q[j])
  BY DEF RepliesOK
<1>2. replies' = [replies EXCEPT ![u] = Without(q, i)]
  OBVIOUS
<1> HIDE DEF q
<1>3. /\ Without(q, i) \in Seq(Replies)
      /\ Len(Without(q, i)) = Len(q) - 1
      /\ \A j \in 1..(Len(q) - 1) : Without(q, i)[j] = IF j < i THEN q[j] ELSE q[j + 1]
  BY <1>1, WithoutSeq
<1>4. ASSUME NEW j \in 1..Len(Without(q, i)) PROVE ReplyOK(Without(q, i)[j])
  <2>1. Len(q) \in Nat
    BY <1>1
  <2>2. j \in 1..(Len(q) - 1) /\ j \in 1..Len(q) /\ j + 1 \in 1..Len(q)
    BY <1>3, <2>1
  <2> QED BY <1>1, <1>3, <2>2
<1> QED BY <1>2, <1>3, <1>4 DEF RepliesOK

LEMMA ConnectType ==
  ASSUME PagesOK, NEW u \in Users, NEW k \in Conns, Connect(u, k)
  PROVE  /\ conn' \in [Users -> Conns \cup {0}] /\ \A v \in Users : conn'[v] # 0 => owner'[conn'[v]] = v
         /\ ice' \in [Users -> BOOLEAN] /\ owner' \in [Conns -> Users \cup {NoUser}]
<1>1. owner[k] = NoUser /\ NoUser \notin Users
  BY ServerAssumption DEF Connect
<1>2. /\ \A j \in Conns : owner'[j] = IF j = k THEN u ELSE owner[j]
      /\ \A v \in Users : conn'[v] = IF v = u THEN k ELSE conn[v]
  BY DEF Connect, PagesOK
<1>3. \A v \in Users : conn'[v] # 0 => owner'[conn'[v]] = v
  BY <1>1, <1>2 DEF PagesOK
<1> QED BY <1>3 DEF Connect, PagesOK

LEMMA InviteType ==
  ASSUME TypeInv, NEW u \in Users, NEW v \in Users, InviteClick(u, v) PROVE TypeInv'
<1>1. UNCHANGED <<serverVars, current, poll, remote, asked, replies>>
  BY DEF InviteClick
<1>2. PICK k \in Conns :
        /\ Connect(u, k)
        /\ making' = [making EXCEPT ![u] = @ \cup {[Request("offer", 0, {k}) EXCEPT !.peer = v]}]
  BY DEF InviteClick
<1>3. PagesOK'
  BY <1>1, <1>2, ConnectType DEF TypeInv, PagesOK
<1>4. MakingOK'
  <2> DEFINE q == [Request("offer", 0, {k}) EXCEPT !.peer = v]
  <2>1. q = [method |-> "offer", sess |-> 0, peer |-> v, body |-> {k}, at |-> "sent"]
    BY DEF Request
  <2>2. q \in Requests /\ RequestOK(q) /\ q.method = "offer" /\ q.at = "sent"
    BY <2>1 DEF Requests, Methods, Bodies, RequestOK, Description
  <2> HIDE DEF q
  <2>3. making' = [making EXCEPT ![u] = @ \cup {q}]
    BY <1>2 DEF q
  <2> QED BY <2>2, <2>3 DEF TypeInv, MakingOK
<1>5. PlanOK'
  BY ClicksType DEF TypeInv, InviteClick
<1> QED
  BY <1>1, <1>3, <1>4, <1>5
  DEF TypeInv, ServerType, Parties, DataOK, AskedOK, RepliesOK, serverVars, sessVars, dataVars

LEMMA AnswerType ==
  ASSUME TypeInv, NEW u \in Users, AnswerClick(u) PROVE TypeInv'
<1>1. UNCHANGED <<serverVars, current, poll, asked, replies>>
  BY DEF AnswerClick
<1>2. PICK k \in Conns :
        /\ Connect(u, k)
        /\ remote' = [remote EXCEPT ![k] = current[u].offer]
        /\ making' = [making EXCEPT ![u] = @ \cup {Request("answer", 0, {k})}]
  BY DEF AnswerClick
<1>3. PagesOK'
  BY <1>1, <1>2, ConnectType DEF TypeInv, PagesOK
<1>4. MakingOK'
  <2> DEFINE q == Request("answer", 0, {k})
  <2>1. q = [method |-> "answer", sess |-> 0, peer |-> NoUser, body |-> {k}, at |-> "sent"]
    BY DEF Request
  <2>2. q \in Requests /\ RequestOK(q) /\ q.method = "answer" /\ q.at = "sent"
    BY <2>1 DEF Requests, Methods, Bodies, RequestOK, Description
  <2> HIDE DEF q
  <2>3. making' = [making EXCEPT ![u] = @ \cup {q}]
    BY <1>2 DEF q
  <2> QED BY <2>2, <2>3 DEF TypeInv, MakingOK
<1>5. PlanOK'
  BY ClicksType DEF TypeInv, AnswerClick
<1> QED
  BY <1>1, <1>3, <1>4, <1>5
  DEF TypeInv, ServerType, Parties, DataOK, AskedOK, RepliesOK, serverVars, sessVars, dataVars

LEMMA DescribedType ==
  ASSUME TypeInv, NEW u \in Users, NEW r \in making[u], Described(u, r) PROVE TypeInv'
<1>1. UNCHANGED <<serverVars, current, conn, ice, poll, connVars, replies, plan, mishap>>
      /\ making' = [making EXCEPT ![u] = @ \ {r}]
  BY DEF Described
<1>2. r \in Requests /\ RequestOK(r) /\ current[u].sess \in Sessions \cup {0}
  BY DEF TypeInv, MakingOK, PagesOK
<1>3. AskedOK'
  <2>1. CASE r.method = "offer" /\ Asks(u, {r})
    BY <1>2, <2>1, AsksType DEF TypeInv
  <2>2. CASE r.method = "answer" /\ Shows(u) /\ Asks(u, {[r EXCEPT !.sess = current[u].sess]})
    <3> DEFINE q == [r EXCEPT !.sess = current[u].sess]
    <3>1. q \in Requests /\ q.method = "answer" /\ q.body = r.body /\ q.sess # 0
      BY <1>2, <2>2 DEF Requests, Shows
    <3>2. RequestOK(q)
      BY <1>2, <2>2, <3>1 DEF RequestOK
    <3> HIDE DEF q
    <3> QED BY <2>2, <3>1, <3>2, AsksType, ZenonT(40) DEF TypeInv, q
  <2>3. CASE UNCHANGED asked
    BY <2>3 DEF TypeInv, AskedOK
  <2> QED BY <2>1, <2>2, <2>3 DEF Described
<1> QED
  BY <1>1, <1>3
  DEF TypeInv, ServerType, Parties, DataOK, PagesOK, MakingOK, RepliesOK, PlanOK,
      serverVars, sessVars, dataVars, connVars

LEMMA GatherType ==
  ASSUME TypeInv, NEW u \in Users, Gather(u) PROVE TypeInv'
BY DEF Gather, TypeInv, ServerType, Parties, DataOK, PagesOK, MakingOK, AskedOK, RepliesOK, PlanOK,
       serverVars, sessVars, dataVars, connVars

LEMMA TerminateType ==
  ASSUME TypeInv, NEW u \in Users, TerminateClick(u) PROVE TypeInv'
<1>1. UNCHANGED <<serverVars, pageVars, connVars, replies>>
      /\ Asks(u, {Request("terminate", current[u].sess, {})})
  BY DEF TerminateClick
<1>2. current[u].sess \in Sessions
  BY DEF TerminateClick, Shows, TypeInv, PagesOK
<1>3. AskedOK'
  <2> DEFINE q == Request("terminate", current[u].sess, {})
  <2>1. q \in Requests /\ RequestOK(q) /\ q.sess # 0
    BY <1>2, SessionsFacts DEF Request, Requests, Methods, RequestOK
  <2> HIDE DEF q
  <2> QED BY <1>1, <2>1, AsksType DEF TypeInv, q
<1>4. PlanOK'
  BY ClicksType DEF TypeInv, TerminateClick
<1> QED
  BY <1>1, <1>3, <1>4
  DEF TypeInv, ServerType, Parties, DataOK, PagesOK, MakingOK, RepliesOK,
      serverVars, sessVars, dataVars, pageVars, connVars

LEMMA RemovalType ==
  ASSUME TypeInv, (\E s \in Sessions : Remove(s)) \/ (\E u \in Users : DropPresence(u))
  PROVE  TypeInv'
<1>1. /\ listed' \subseteq listed /\ present' \subseteq present
      /\ UNCHANGED <<sessVars, dataVars, pageVars, connVars, asked, replies, plan, mishap>>
  BY DEF Remove, DropPresence
<1> QED
  BY <1>1
  DEF TypeInv, ServerType, Parties, DataOK, PagesOK, MakingOK, AskedOK, RepliesOK, PlanOK,
      sessVars, dataVars, pageVars, connVars

\* A session in the list gets another state.
LEMMA SetStateType ==
  ASSUME ServerType, DataOK, NEW s \in listed, NEW v \in States \ {"none", "ANSWERED"},
         SetState(s, v), UNCHANGED <<listed, offer, answer>>, present' \subseteq Users,
         cands' \in [Sessions -> [{"caller", "callee"} -> SUBSET {0}]]
  PROVE  ServerType' /\ DataOK'
<1>1. /\ s \in Sessions /\ state[s] # "none" /\ 0 \in 0..(Timeout + 1)
      /\ UNCHANGED <<caller, callee, established, ended>>
      /\ state' = [state EXCEPT ![s] = v] /\ age' = [age EXCEPT ![s] = 0]
  BY ServerAssumption DEF ServerType, SetState
<1>2. ServerType'
  BY <1>1 DEF ServerType, Parties
<1>3. DataOK'
  BY <1>1 DEF DataOK, ServerType
<1> QED BY <1>2, <1>3

LEMMA PollType ==
  ASSUME TypeInv, NEW u \in Users, Poll(u) PROVE TypeInv'
<1>1. UNCHANGED <<current, conn, ice, making, connVars, asked, plan, mishap>>
      /\ \E v \in {"sent", "stopped"} : poll' = [poll EXCEPT ![u] = v]
  BY DEF Poll
<1>2. ServerType' /\ DataOK' /\ RepliesOK'
  <2>1. CASE ServePoll(u)
    <3>1. present' \subseteq Users /\ UNCHANGED listed /\ UNCHANGED dataVars
      BY <2>1 DEF ServePoll, TypeInv, ServerType
    <3>2. CASE UNCHANGED sessVars /\ Reply(u, "poll", 0, "none", "nothing", {})
      <4>1. RepliesOK'
        BY <3>2, ReplyType DEF TypeInv, Methods, States
      <4> QED BY <3>1, <3>2, <4>1 DEF TypeInv, ServerType, Parties, DataOK, sessVars, dataVars
    <3>3. ASSUME NEW s \in listed, Delivery(u, s) = "none",
                 Marks(s, Peer(u, s)) \/ UNCHANGED sessVars,
                 Reply(u, "poll", s, state[s], "nothing", {})
          PROVE  ServerType' /\ DataOK' /\ RepliesOK'
      <4>1. s \in Sessions /\ state[s] \in States /\ Peer(u, s) \in Users /\ 0 \in 0..(Timeout + 1)
        BY ServerAssumption DEF TypeInv, ServerType, Peer, Parties
      <4>2. RepliesOK'
        BY <3>3, <4>1, ReplyType DEF TypeInv, Methods
      <4>3. /\ UNCHANGED <<caller, callee, state, established>>
            /\ age' \in [Sessions -> 0..(Timeout + 1)] /\ ended' \in [Sessions -> SUBSET Users]
        BY <3>3, <4>1 DEF Marks, sessVars, TypeInv, ServerType
      <4> QED BY <3>1, <4>2, <4>3 DEF TypeInv, ServerType, Parties, DataOK, dataVars
    <3>4. ASSUME NEW s \in listed, SetState(s, Delivery(u, s)), Delivery(u, s) # "none",
                 \/ /\ Delivery(u, s) = "OFFER_DELIVERED"
                    /\ Reply(u, "poll", s, Delivery(u, s), "offer", {offer[s]})
                 \/ /\ Delivery(u, s) = "ANSWER_DELIVERED"
                    /\ Reply(u, "poll", s, Delivery(u, s), "answer", {answer[s]})
                 \/ Reply(u, "poll", s, Delivery(u, s), "candidate", cands[s]["caller"])
                 \/ Reply(u, "poll", s, Delivery(u, s), "candidate", cands[s]["callee"])
          PROVE  ServerType' /\ DataOK' /\ RepliesOK'
      <4>1. /\ s \in Sessions /\ Delivery(u, s) \in States \ {"none", "ANSWERED"}
            /\ offer[s] \in Conns
            /\ Delivery(u, s) = "ANSWER_DELIVERED" => answer[s] \in Conns
            /\ cands[s]["caller"] \subseteq {0} /\ cands[s]["callee"] \subseteq {0}
        BY <3>4 DEF Delivery, States, TypeInv, ServerType, DataOK
      <4>2. RepliesOK'
        <5>1. \A D \in SUBSET Conns : D \in SUBSET Bodies
          BY DEF Bodies
        <5>2. \A D \in SUBSET {0} : D \in SUBSET Bodies
          BY DEF Bodies
        <5>3. \A k \in Conns : Description({k}) /\ {k} \in SUBSET Bodies
          BY <5>1 DEF Description
        <5>4. "poll" \in Methods /\ RepliesOK
          BY DEF Methods, TypeInv
        <5> QED BY <3>4, <4>1, <5>2, <5>3, <5>4, ReplyType
      <4>3. cands' \in [Sessions -> [{"caller", "callee"} -> SUBSET {0}]]
        BY <3>1 DEF TypeInv, DataOK, dataVars
      <4>4. ServerType' /\ DataOK'
        BY <3>1, <3>4, <4>1, <4>3, SetStateType DEF TypeInv, dataVars
      <4> QED BY <4>2, <4>4
    <3> QED BY <2>1, <3>2, <3>3, <3>4 DEF ServePoll, IsFirst
  <2>2. CASE UNCHANGED <<serverVars, replies>>
    BY <2>2 DEF TypeInv, ServerType, Parties, DataOK, RepliesOK, serverVars, sessVars, dataVars
  <2> QED BY <2>1, <2>2 DEF Poll
<1> QED BY <1>1, <1>2 DEF TypeInv, PagesOK, MakingOK, AskedOK, PlanOK, connVars

LEMMA ReplyToType ==
  ASSUME TypeInv, NEW u \in Users, NEW r \in asked[u], NEW s \in Sessions, NEW v \in States,
         ReplyTo(u, r, s, v)
  PROVE  RepliesOK'
<1>1. CASE UNCHANGED replies
  BY <1>1 DEF TypeInv, RepliesOK
<1>2. CASE Reply(u, r.method, s, v, "nothing", {})
  <2>1. r.method \in Methods
    BY DEF TypeInv, AskedOK, Requests
  <2> QED BY <1>2, <2>1, ReplyType DEF TypeInv
<1> QED BY <1>1, <1>2 DEF ReplyTo

LEMMA BeginType ==
  ASSUME TypeInv, NEW u \in Users, NEW r \in asked[u], Begin(u, r)
  PROVE  TypeInv'
<1> DEFINE q == [r EXCEPT !.at = "begun"]
<1>1. /\ BeginOffer(u, r) \/ BeginEstablished(u, r)
      /\ asked' = [asked EXCEPT ![u] = (@ \ {r}) \cup {q}]
      /\ UNCHANGED <<listed, present, caller, callee, state, age, ended, dataVars,
                     pageVars, connVars, replies, plan, mishap>>
  BY DEF Begin
<1>2. r \in Requests /\ RequestOK(r) /\ (r.method = "offer" \/ r.sess # 0)
  BY DEF TypeInv, AskedOK
<1>3. q \in Requests /\ RequestOK(q) /\ (q.method = "offer" \/ q.sess # 0)
  BY <1>2 DEF Requests, RequestOK
<1> HIDE DEF q
<1>4. AskedOK'
  BY <1>1, <1>3 DEF TypeInv, AskedOK
<1>5. established' \in [Sessions -> SUBSET Users]
  BY <1>1 DEF BeginOffer, BeginEstablished, TypeInv, ServerType
<1> QED
  BY <1>1, <1>4, <1>5
  DEF TypeInv, ServerType, Parties, DataOK, PagesOK, MakingOK, RepliesOK, PlanOK,
      dataVars, pageVars, connVars

\* What a request changes.
ServedOK == ServerType /\ DataOK /\ RepliesOK

LEMMA ServeOfferType ==
  ASSUME TypeInv, NEW u \in Users, NEW r \in asked[u], r.method = "offer", ServeOffer(u, r),
         UNCHANGED present
  PROVE  ServedOK'
<1>1. CASE Rejected
  BY <1>1 DEF Rejected, ServeOffer, ServedOK, TypeInv, ServerType, Parties, DataOK, RepliesOK,
              sessVars, dataVars
<1>2. CASE ~Rejected
  <2>1. PICK s \in Sessions :
          /\ listed' = listed \cup {s}
          /\ caller' = [caller EXCEPT ![s] = u] /\ callee' = [callee EXCEPT ![s] = r.peer]
          /\ state' = [state EXCEPT ![s] = "OFFERED"]
          /\ offer' = [offer EXCEPT ![s] = CHOOSE k \in Conns : k \in r.body]
          /\ ReplyTo(u, r, s, "OFFERED")
    BY <1>2 DEF ServeOffer
  <2>2. UNCHANGED <<age, established, ended, answer, cands, present>>
    BY <1>2 DEF ServeOffer
  <2>3. r.peer \in Users /\ NoUser \notin Users /\ Description(r.body)
    BY ServerAssumption DEF TypeInv, AskedOK, RequestOK
  <2>4. (CHOOSE k \in Conns : k \in r.body) \in Conns
    BY <2>3, TheBody
  <2>5. RepliesOK'
    BY <2>1, ReplyToType DEF States
  <2>6. ServerType'
    BY <2>1, <2>2, <2>3 DEF TypeInv, ServerType, Parties, States
  <2>7. DataOK'
    BY <2>1, <2>2, <2>4 DEF TypeInv, ServerType, DataOK
  <2> QED BY <2>5, <2>6, <2>7 DEF ServedOK
<1> QED BY <1>1, <1>2

LEMMA ServeAnswerType ==
  ASSUME TypeInv, NEW u \in Users, NEW r \in asked[u], r.method = "answer", ServeAnswer(u, r),
         UNCHANGED present
  PROVE  ServedOK'
<1>1. CASE Rejected
  BY <1>1 DEF Rejected, ServedOK, TypeInv, ServerType, Parties, DataOK, RepliesOK,
              sessVars, dataVars
<1>2. CASE r.sess \in listed /\ ~Rejected
  <2> DEFINE s == r.sess
  <2>1. /\ SetState(s, "ANSWERED")
        /\ answer' = [answer EXCEPT ![s] = CHOOSE k \in Conns : k \in r.body]
        /\ Reply(u, "answer", s, "ANSWERED", "nothing", {})
        /\ UNCHANGED <<listed, offer, cands>>
    BY <1>2 DEF ServeAnswer
  <2>2. s \in Sessions /\ Description(r.body) /\ 0 \in 0..(Timeout + 1) /\ state[s] # "none"
    BY <1>2, ServerAssumption DEF TypeInv, ServerType, AskedOK, RequestOK
  <2>3. (CHOOSE k \in Conns : k \in r.body) \in Conns
    BY <2>2, TheBody
  <2> HIDE DEF s
  <2>4. RepliesOK'
    BY <2>1, <2>2, ReplyType DEF TypeInv, Methods, States
  <2>5. ServerType'
    BY <2>1, <2>2 DEF TypeInv, ServerType, Parties, States, SetState
  <2>6. DataOK'
    BY <2>1, <2>2, <2>3 DEF TypeInv, ServerType, DataOK, SetState
  <2> QED BY <2>4, <2>5, <2>6 DEF ServedOK
<1> QED BY <1>1, <1>2 DEF ServeAnswer

LEMMA ServeCandidateType ==
  ASSUME TypeInv, NEW u \in Users, NEW r \in asked[u], r.method = "candidate",
         ServeCandidate(u, r), UNCHANGED present
  PROVE  ServedOK'
<1>1. CASE Rejected
  BY <1>1 DEF Rejected, ServedOK, TypeInv, ServerType, Parties, DataOK, RepliesOK,
              sessVars, dataVars
<1>2. CASE ~Rejected
  <2> DEFINE s == r.sess
             v == CandidateState(u, s)
             p == IF v = "CALLER_CANDIDATE" THEN "caller" ELSE "callee"
  <2>1. /\ s \in listed /\ v # "none" /\ SetState(s, v)
        /\ cands' = [cands EXCEPT ![s][p] = r.body]
        /\ Reply(u, "candidate", s, v, "nothing", {})
        /\ UNCHANGED <<listed, offer, answer>>
    BY <1>2 DEF ServeCandidate
  <2>2. v \in States \ {"none", "ANSWERED"} /\ s \in Sessions /\ r.body \subseteq {0}
    BY <2>1 DEF CandidateState, States, TypeInv, ServerType, AskedOK, RequestOK
  <2>3. p \in {"caller", "callee"}
    OBVIOUS
  <2> HIDE DEF s, v, p
  <2>4. cands' \in [Sessions -> [{"caller", "callee"} -> SUBSET {0}]]
    BY <2>1, <2>2, <2>3 DEF TypeInv, DataOK
  <2>5. ServerType' /\ DataOK'
    BY <2>1, <2>2, <2>4, SetStateType DEF TypeInv, ServerType
  <2>6. RepliesOK'
    BY <2>1, <2>2, ReplyType DEF TypeInv, Methods
  <2> QED BY <2>5, <2>6 DEF ServedOK
<1> QED BY <1>1, <1>2

LEMMA ServeEstablishedType ==
  ASSUME TypeInv, NEW u \in Users, NEW r \in asked[u], r.method = "established",
         ServeEstablished(u, r), UNCHANGED present
  PROVE  ServedOK'
<1>1. CASE Rejected
  BY <1>1 DEF Rejected, ServedOK, TypeInv, ServerType, Parties, DataOK, RepliesOK,
              sessVars, dataVars
<1>2. CASE ~Rejected
  <2> DEFINE s == r.sess
             v == IF SeesBoth(s) THEN "ESTABLISHED" ELSE state[s]
  <2>1. /\ UNCHANGED <<listed, caller, callee, established, ended, dataVars>>
        /\ age' = [age EXCEPT ![s] = 0]
        /\ state' = [state EXCEPT ![s] = v]
        /\ ReplyTo(u, r, s, state'[s])
    BY <1>2 DEF ServeEstablished, SetState
  <2>2. s \in Sessions
    BY DEF TypeInv, AskedOK, Requests
  <2>3. /\ v \in States /\ 0 \in 0..(Timeout + 1)
        /\ (v = "ANSWERED" => state[s] = "ANSWERED") /\ (v = "none" <=> state[s] = "none")
    BY <2>2, SeenExists, ServerAssumption DEF TypeInv, ServerType, States
  <2> HIDE DEF s, v
  <2>4. ServerType'
    BY <2>1, <2>2, <2>3 DEF TypeInv, ServerType, Parties
  <2>5. DataOK'
    BY <2>1, <2>2, <2>3 DEF TypeInv, DataOK, dataVars, ServerType
  <2>6. state'[s] \in States
    BY <2>2, <2>4 DEF ServerType
  <2>7. RepliesOK'
    BY <2>1, <2>2, <2>6, ReplyToType
  <2> QED BY <2>4, <2>5, <2>7 DEF ServedOK
<1> QED BY <1>1, <1>2

LEMMA ServeTerminateType ==
  ASSUME TypeInv, NEW u \in Users, NEW r \in asked[u], ServeTerminate(u, r), UNCHANGED present
  PROVE  ServedOK'
<1>1. CASE Rejected
  BY <1>1 DEF Rejected, ServedOK, TypeInv, ServerType, Parties, DataOK, RepliesOK,
              sessVars, dataVars
<1>2. CASE ~Rejected
  <2> DEFINE s == r.sess
  <2>1. /\ s \in listed /\ UNCHANGED <<listed, caller, callee, established, dataVars>>
        /\ state' = [state EXCEPT ![s] = "TERMINATED"] /\ ended' = [ended EXCEPT ![s] = {u}]
        /\ age' = [age EXCEPT ![s] = 0]
        /\ Reply(u, "terminate", s, "TERMINATED", "nothing", {})
    BY <1>2 DEF ServeTerminate
  <2>2. s \in Sessions /\ state[s] # "none" /\ 0 \in 0..(Timeout + 1)
    BY <2>1, ServerAssumption DEF TypeInv, ServerType
  <2> HIDE DEF s
  <2>3. ServerType' /\ DataOK'
    BY <2>1, <2>2 DEF TypeInv, ServerType, Parties, DataOK, dataVars, States
  <2>4. RepliesOK'
    BY <2>1, <2>2, ReplyType DEF TypeInv, Methods, States
  <2> QED BY <2>3, <2>4 DEF ServedOK
<1> QED BY <1>1, <1>2

LEMMA ServeType ==
  ASSUME TypeInv, NEW u \in Users, NEW r \in asked[u], Serve(u, r) PROVE TypeInv'
<1>1. asked' = [asked EXCEPT ![u] = @ \ {r}] /\ UNCHANGED <<pageVars, connVars, plan, mishap>>
  BY DEF Serve
<1>2. ServedOK'
  BY ServeOfferType, ServeAnswerType, ServeCandidateType, ServeEstablishedType, ServeTerminateType
  DEF Serve
<1>3. AskedOK'
  BY <1>1 DEF TypeInv, AskedOK
<1> QED BY <1>1, <1>2, <1>3 DEF TypeInv, ServedOK, PagesOK, MakingOK, PlanOK, pageVars, connVars

\* A page looks at a reply.
CurrentType == [shows : States \cup {"null", "undefined"}, sess : Sessions \cup {0},
                offer : Conns \cup {0}]

LEMMA BeforeType ==
  ASSUME TypeInv, NEW u \in Users, NEW r, ReplyOK(r)
  PROVE  Before(u, r) \in CurrentType
<1>1. current[u] \in CurrentType /\ Bare \in CurrentType
  BY DEF TypeInv, PagesOK, CurrentType, Bare, Null
<1>2. r.brings = "offer" => (CHOOSE k \in Conns : k \in r.body) \in Conns
  BY TheBody DEF ReplyOK
<1> DEFINE c == IF current[u] = Null THEN Bare ELSE current[u]
<1>3. c \in CurrentType
  BY <1>1
<1>4. Before(u, r) = IF r.brings = "offer" THEN [c EXCEPT !.offer = CHOOSE k \in Conns : k \in r.body]
                     ELSE c
  BY DEF Before
<1> HIDE DEF c
<1> QED BY <1>2, <1>3, <1>4 DEF CurrentType

LEMMA FollowUpsType ==
  ASSUME TypeInv, NEW u \in Users, NEW r, ReplyOK(r), ~Throws(u, r)
  PROVE  /\ FollowUps(u, r) \in SUBSET Requests
         /\ \A q \in FollowUps(u, r) : RequestOK(q) /\ q.sess # 0
<1> DEFINE s == Before(u, r).sess
<1>1. s \in Sessions \cup {0}
  BY BeforeType DEF CurrentType
<1>2. r.brings \in {"answer", "candidate"} => s \in Sessions
  BY <1>1 DEF Throws
<1>3. Candidates(u) \in SUBSET {0}
  BY DEF Candidates
<1>4. ASSUME NEW x \in Sessions, NEW D \in SUBSET {0}
      PROVE  /\ Request("candidate", x, D) \in Requests /\ RequestOK(Request("candidate", x, D))
             /\ Request("candidate", x, D).sess # 0
             /\ Request("established", x, {}) \in Requests /\ RequestOK(Request("established", x, {}))
             /\ Request("established", x, {}).sess # 0
  BY SessionsFacts DEF Request, Requests, Methods, Bodies, RequestOK
<1>5. FollowUps(u, r) \subseteq {Request("candidate", s, Candidates(u)), Request("established", s, {})}
      /\ (r.brings \notin {"answer", "candidate"} => FollowUps(u, r) = {})
  BY DEF FollowUps
<1> HIDE DEF s
<1> QED BY <1>2, <1>3, <1>4, <1>5

LEMMA ReceiveType ==
  ASSUME TypeInv, NEW u \in Users, NEW i \in 1..Len(replies[u]), Receive(u, i) PROVE TypeInv'
<1> DEFINE r == replies[u][i]
<1>1. /\ replies' = [replies EXCEPT ![u] = Without(@, i)]
      /\ (i = 1 /\ UNCHANGED <<plan, mishap>>) \/ (i > 1 /\ Happens(u, "late"))
      /\ poll' = Rearm(u, r)
      /\ \/ r.sess # 0 /\ Process(u, r)
         \/ /\ r.sess = 0 /\ current' = [current EXCEPT ![u] = Null]
            /\ UNCHANGED <<conn, remote, asked>>
      /\ UNCHANGED <<serverVars, ice, making, owner>>
  BY DEF Receive
<1>2. ReplyOK(r) /\ r \in Replies
  <2>1. replies[u] \in Seq(Replies)
    BY DEF TypeInv, RepliesOK
  <2> QED BY <2>1 DEF TypeInv, RepliesOK
<1> HIDE DEF r
<1>3. RepliesOK'
  BY <1>1, WithoutType DEF TypeInv
<1>4. PlanOK'
  BY <1>1, HappensType DEF TypeInv, PlanOK
<1>5. poll' \in [Users -> {"timer", "sent", "stopped"}]
  BY <1>1 DEF Rearm, TypeInv, PagesOK
<1>6. /\ current' \in [Users -> CurrentType] /\ AskedOK'
      /\ conn' \in [Users -> Conns \cup {0}] /\ remote' \in [Conns -> Conns \cup {0}]
      /\ \A v \in Users : conn'[v] # 0 => conn'[v] = conn[v]
  <2>1. CASE r.sess = 0
    <3>1. Null \in CurrentType /\ current \in [Users -> CurrentType]
      BY DEF Null, CurrentType, TypeInv, PagesOK
    <3> QED BY <1>1, <2>1, <3>1 DEF TypeInv, PagesOK, AskedOK
  <2>2. CASE r.sess # 0
    <3>1. Process(u, r)
      BY <1>1, <2>2
    <3>2. Before(u, r) \in CurrentType /\ current \in [Users -> CurrentType]
      BY <1>2, BeforeType DEF TypeInv, PagesOK, CurrentType
    <3>3. [Before(u, r) EXCEPT !.sess = r.sess, !.shows = r.shows] \in CurrentType
      BY <1>2, <3>2 DEF CurrentType, Replies
    <3>4. current' \in [Users -> CurrentType]
      BY <3>1, <3>2, <3>3 DEF Process
    <3>5. AskedOK'
      <4>1. CASE Throws(u, r)
        BY <3>1, <4>1, AsksType DEF Process, TypeInv
      <4>2. CASE ~Throws(u, r)
        BY <1>2, <3>1, <4>2, AsksType, FollowUpsType DEF Process, TypeInv
      <4> QED BY <4>1, <4>2
    <3>6. conn' \in [Users -> Conns \cup {0}] /\ \A v \in Users : conn'[v] # 0 => conn'[v] = conn[v]
      BY <3>1 DEF Process, TypeInv, PagesOK
    <3>7. remote' \in [Conns -> Conns \cup {0}]
      <4>1. r.brings = "answer" => (CHOOSE j \in Conns : j \in r.body) \in Conns
        BY <1>2, TheBody DEF ReplyOK
      <4> QED BY <3>1, <4>1 DEF Process, TypeInv, PagesOK
    <3> QED BY <3>4, <3>5, <3>6, <3>7
  <2> QED BY <2>1, <2>2
<1>7. PagesOK'
  BY <1>1, <1>5, <1>6 DEF TypeInv, PagesOK, CurrentType
<1> QED
  BY <1>1, <1>3, <1>4, <1>6, <1>7
  DEF TypeInv, ServerType, Parties, DataOK, MakingOK, serverVars, sessVars, dataVars

LEMMA FailType ==
  ASSUME TypeInv, NEW u \in Users, Fail(u) PROVE TypeInv'
<1>1. UNCHANGED <<serverVars, current, conn, ice, making, connVars>> /\ PlanOK'
  BY HappensType DEF Fail, TypeInv
<1>2. poll' \in [Users -> {"timer", "sent", "stopped"}]
  BY DEF Fail, TypeInv, PagesOK
<1>3. AskedOK'
  BY DEF Fail, TypeInv, AskedOK
<1>4. RepliesOK'
  <2>1. CASE UNCHANGED replies
    BY <2>1 DEF TypeInv, RepliesOK
  <2>2. ASSUME NEW i \in 1..Len(replies[u]), replies' = [replies EXCEPT ![u] = Without(@, i)]
        PROVE  RepliesOK'
    BY <2>2, WithoutType DEF TypeInv
  <2> QED BY <2>1, <2>2 DEF Fail
<1> QED
  BY <1>1, <1>2, <1>3, <1>4
  DEF TypeInv, ServerType, Parties, DataOK, PagesOK, MakingOK, serverVars, sessVars, dataVars, connVars

LEMMA ReloadType ==
  ASSUME TypeInv, NEW u \in Users, Reload(u) PROVE TypeInv'
<1>1. UNCHANGED <<serverVars, owner, remote>> /\ PlanOK'
  BY HappensType DEF Reload, TypeInv
<1>2. MakingOK' /\ AskedOK'
  <2>1. ASSUME NEW r \in asked[u]
        PROVE  LET q == [r EXCEPT !.at = "abandoned"] IN
               q \in Requests /\ RequestOK(q) /\ (q.method = "offer" \/ q.sess # 0)
    <3>1. r \in Requests /\ RequestOK(r) /\ (r.method = "offer" \/ r.sess # 0)
      BY DEF TypeInv, AskedOK
    <3> QED BY <3>1 DEF Requests, RequestOK
  <2>2. \A q \in Abandoned(u) : q \in Requests /\ RequestOK(q) /\ (q.method = "offer" \/ q.sess # 0)
    BY <2>1 DEF Abandoned
  <2> QED BY <2>2 DEF Reload, TypeInv, MakingOK, AskedOK
<1>3. RepliesOK'
  <2>1. <<>> \in Seq(Replies) /\ Len(<<>>) = 0
    OBVIOUS
  <2> QED BY <2>1 DEF Reload, TypeInv, RepliesOK
<1>4. PagesOK'
  <2>1. Null \in CurrentType
    BY DEF Null, CurrentType
  <2> QED BY <1>1, <2>1 DEF Reload, TypeInv, PagesOK, CurrentType
<1> QED BY <1>1, <1>2, <1>3, <1>4 DEF TypeInv, ServerType, Parties, DataOK, serverVars, sessVars, dataVars

LEMMA InitType == Init => TypeInv
<1> SUFFICES ASSUME Init PROVE TypeInv
  OBVIOUS
<1>1. ServerType
  BY ServerAssumption DEF Init, ServerInit, ServerType, Parties, States
<1>2. DataOK /\ PlanOK
  BY <1>1 DEF Init, ServerInit, DataOK, PlanOK
<1>3. PagesOK
  <2>1. Null \in CurrentType
    BY DEF Null, CurrentType
  <2> QED BY <2>1 DEF Init, PagesOK, CurrentType
<1>4. MakingOK /\ AskedOK
  BY DEF Init, MakingOK, AskedOK
<1>5. RepliesOK
  <2>1. <<>> \in Seq(Replies) /\ Len(<<>>) = 0
    OBVIOUS
  <2> QED BY <2>1 DEF Init, RepliesOK
<1> QED BY <1>1, <1>2, <1>3, <1>4, <1>5 DEF TypeInv

LEMMA NextType ==
  ASSUME TypeInv, [Next]_vars PROVE TypeInv'
<1>1. CASE UNCHANGED vars
  BY <1>1
  DEF vars, TypeInv, ServerType, Parties, DataOK, PagesOK, MakingOK, AskedOK, RepliesOK, PlanOK,
      serverVars, sessVars, dataVars, pageVars, connVars
<1>2. ASSUME NEW u \in Users, PageStep(u) PROVE TypeInv'
  BY <1>2, PollType, GatherType, DescribedType, ReceiveType DEF PageStep
<1>3. ASSUME NEW u \in Users, UserStep(u) PROVE TypeInv'
  BY <1>3, AnswerType, TerminateType, InviteType DEF UserStep
<1>4. ASSUME NEW u \in Users, Fail(u) \/ Reload(u) \/ DropPresence(u) PROVE TypeInv'
  BY <1>4, FailType, ReloadType, RemovalType
<1>5. ASSUME NEW u \in Users, NEW r \in asked[u], Begin(u, r) \/ Serve(u, r) PROVE TypeInv'
  BY <1>5, BeginType, ServeType
<1>6. ASSUME NEW s \in Sessions, Remove(s) PROVE TypeInv'
  BY <1>6, RemovalType
<1> QED BY <1>1, <1>2, <1>3, <1>4, <1>5, <1>6 DEF Next

LEMMA AlwaysTyped == Spec => []TypeInv
BY InitType, NextType, PTL DEF Spec

\* What the pages hold, ask for and are sent has its type, whatever fails, is late or is
\* started anew: a page names only sessions and connections it was told of, and a
\* description in a message is one of a connection (webrtc.js, WebRtcSession.java).
THEOREM PagesTyped == Spec => []TypeOK
<1>1. TypeInv => TypeOK
  <2> SUFFICES ASSUME TypeInv PROVE TypeOK
    OBVIOUS
  <2>1. \A u \in Users : \A i \in 1..Len(replies[u]) : replies[u][i] \in Replies
    <3> SUFFICES ASSUME NEW u \in Users, NEW i \in 1..Len(replies[u]) PROVE replies[u][i] \in Replies
      OBVIOUS
    <3>1. replies[u] \in Seq(Replies)
      BY DEF TypeInv, RepliesOK
    <3> QED BY <3>1
  <2> QED BY <2>1 DEF TypeInv, DataOK, PagesOK, MakingOK, AskedOK, PlanOK, TypeOK
<1> QED BY <1>1, AlwaysTyped, PTL

------------------------------------------------------------------------------
(* Calls.                                                                   *)

\* The sessions are created in the order of their numbers.
InOrder == \A s, q \in Sessions : q < s /\ state[q] = "none" => state[s] = "none"

\* A step that makes no session leaves those there are to their users.
CallsKept ==
  /\ UNCHANGED <<caller, callee>> /\ listed' \subseteq listed
  /\ \A s \in Sessions : state'[s] = "none" <=> state[s] = "none"

NewCall(u, v, s) ==
  /\ IsNew(s) /\ listed' = listed \cup {s}
  /\ caller' = [caller EXCEPT ![s] = u] /\ callee' = [callee EXCEPT ![s] = v]
  /\ state' = [state EXCEPT ![s] = "OFFERED"]

LEMMA ServeCalls ==
  ASSUME TypeInv, NEW u \in Users, NEW r \in asked[u], Serve(u, r)
  PROVE  CallsKept \/ \E v \in Users, s \in Sessions : NewCall(u, v, s)
<1>1. CASE Rejected
  BY <1>1 DEF Rejected, sessVars, CallsKept
<1>2. CASE r.method = "offer" /\ ServeOffer(u, r) /\ ~Rejected
  <2>1. PICK s \in Sessions : NewCall(u, r.peer, s)
    BY <1>2 DEF ServeOffer, NewCall
  <2>2. r.peer \in Users
    BY <1>2 DEF TypeInv, AskedOK, RequestOK
  <2> QED BY <2>1, <2>2
<1>3. CASE /\ ServeAnswer(u, r) \/ ServeCandidate(u, r) \/ ServeTerminate(u, r)
           /\ ~Rejected
  <2>1. /\ r.sess \in listed /\ UNCHANGED <<listed, caller, callee>>
        /\ \E v \in States \ {"none"} : state' = [state EXCEPT ![r.sess] = v]
    <3>1. state[r.sess] \in States /\ (r.sess \in listed => state[r.sess] # "none")
      BY <1>3 DEF ServeAnswer, ServeCandidate, ServeTerminate, TypeInv, ServerType
    <3>2. CASE ServeAnswer(u, r)
      BY <1>3, <3>2 DEF ServeAnswer, SetState, States
    <3>3. CASE ServeCandidate(u, r)
      BY <1>3, <3>3 DEF ServeCandidate, CandidateState, SetState, States
    <3>4. CASE ServeTerminate(u, r)
      BY <1>3, <3>4 DEF ServeTerminate, States
    <3> QED BY <1>3, <3>2, <3>3, <3>4
  <2> QED BY <2>1 DEF CallsKept, TypeInv, ServerType
<1>4. CASE r.method = "established" /\ ServeEstablished(u, r) /\ ~Rejected
  <2>1. /\ UNCHANGED <<listed, caller, callee>>
        /\ state' = [state EXCEPT ![r.sess] = IF SeesBoth(r.sess) THEN "ESTABLISHED" ELSE @]
    BY <1>4 DEF ServeEstablished, SetState
  <2>2. r.sess \in Sessions
    BY <1>4 DEF TypeInv, AskedOK, Requests
  <2>3. SeesBoth(r.sess) => state[r.sess] # "none"
    BY <2>2, SeenExists DEF TypeInv
  <2> QED BY <2>1, <2>2, <2>3 DEF CallsKept, TypeInv, ServerType
<1> QED BY <1>1, <1>2, <1>3, <1>4 DEF Serve

LEMMA PollCalls ==
  ASSUME TypeInv, NEW u \in Users, Poll(u)
  PROVE  CallsKept
<1>1. UNCHANGED <<listed, caller, callee>>
  BY DEF Poll, ServePoll, serverVars, sessVars, SetState, Marks
<1>2. \/ UNCHANGED state
      \/ \E s \in listed : SetState(s, Delivery(u, s)) /\ Delivery(u, s) # "none"
  BY DEF Poll, ServePoll, serverVars, sessVars, Marks, IsFirst
<1>3. \A s \in listed : s \in Sessions /\ state[s] # "none"
  BY DEF TypeInv, ServerType
<1> QED BY <1>1, <1>2, <1>3 DEF CallsKept, SetState, TypeInv, ServerType

LEMMA NextCalls ==
  ASSUME TypeInv, [Next]_vars
  PROVE  CallsKept \/ \E u, v \in Users, s \in Sessions : NewCall(u, v, s)
<1>1. ASSUME NEW u \in Users, NEW r \in asked[u], Serve(u, r)
      PROVE  CallsKept \/ \E v \in Users, s \in Sessions : NewCall(u, v, s)
  BY <1>1, ServeCalls
<1>2. ASSUME NEW u \in Users, Poll(u) PROVE CallsKept
  BY <1>2, PollCalls
<1>3. CASE \/ \E s \in Sessions : Remove(s)
           \/ \E u \in Users : Fail(u) \/ Reload(u) \/ DropPresence(u) \/ UserStep(u)
           \/ \E u \in Users : Gather(u) \/ \E r \in making[u] : Described(u, r)
           \/ \E u \in Users : \E i \in 1..Len(replies[u]) : Receive(u, i)
           \/ \E u \in Users : \E r \in asked[u] : Begin(u, r)
           \/ UNCHANGED vars
  <2>1. UNCHANGED <<caller, callee, state>> /\ listed' \subseteq listed
    BY <1>3 DEF Remove, Fail, Reload, DropPresence, UserStep, AnswerClick, TerminateClick,
                InviteClick, Gather, Described, Receive, Begin, vars, serverVars, sessVars
  <2> QED BY <2>1 DEF CallsKept
<1> QED BY <1>1, <1>2, <1>3 DEF Next, PageStep

LEMMA OrderStep == ASSUME TypeInv, InOrder, [Next]_vars PROVE InOrder'
<1>1. CASE CallsKept
  BY <1>1 DEF CallsKept, InOrder
<1>2. ASSUME NEW u \in Users, NEW v \in Users, NEW s \in Sessions, NewCall(u, v, s)
      PROVE  InOrder'
  <2>1. Sessions \subseteq Nat
    BY SessionsFacts
  <2>2. \A q \in Sessions : state'[q] = IF q = s THEN "OFFERED" ELSE state[q]
    BY <1>2 DEF NewCall, TypeInv, ServerType
  <2> QED BY <1>2, <2>1, <2>2 DEF NewCall, IsNew, InOrder
<1> QED BY <1>1, <1>2, NextCalls

LEMMA AlwaysInOrder == Spec => []InOrder
<1>1. Init => InOrder
  BY DEF Init, ServerInit, InOrder
<1>2. TypeInv /\ InOrder /\ [Next]_vars => InOrder'
  BY OrderStep
<1> QED BY <1>1, <1>2, AlwaysTyped, PTL DEF Spec

------------------------------------------------------------------------------
(* What a page has been told.                                               *)

\* Page u has been told of session t, and nothing of it has been forgotten yet.
Told(u, t) ==
  \/ current[u].sess = t
  \/ \E r \in asked[u] : r.sess = t
  \/ \E i \in 1..Len(replies[u]) : replies[u][i].sess = t

\* A page is told of its sessions alone, and names one no earlier than it asks.
ToldInv ==
  /\ \A u \in Users, t \in Sessions : Told(u, t) => state[t] # "none" /\ u \in Parties(t)
  /\ \A u \in Users : \A r \in making[u] : r.sess = 0

\* A step that tells nobody anything, and one that tells u of s.
Silent == \A w \in Users, t \in Sessions : Told(w, t)' => Told(w, t)
Tells(u, s) ==
  \A w \in Users, t \in Sessions : Told(w, t)' => Told(w, t) \/ (w = u /\ t = s)

\* A reply goes to the end of those under way.
LEMMA ReplySeq ==
  ASSUME TypeInv, NEW u \in Users, NEW m, NEW s, NEW v, NEW b, NEW D, Reply(u, m, s, v, b, D)
  PROVE  LET q == replies[u]
             r == [method |-> m, sess |-> s, shows |-> v, brings |-> b, body |-> D] IN
         /\ Len(q) \in Nat /\ Len(replies'[u]) = Len(q) + 1
         /\ \A i \in 1..Len(q) : replies'[u][i] = q[i]
         /\ replies'[u][Len(q) + 1] = r
         /\ \A w \in Users : w # u => replies'[w] = replies[w]
<1> DEFINE q == replies[u]
           r == [method |-> m, sess |-> s, shows |-> v, brings |-> b, body |-> D]
<1>1. q \in Seq(Replies) /\ replies \in [Users -> Seq(Replies)]
  BY DEF TypeInv, RepliesOK
<1>2. replies' = [replies EXCEPT ![u] = Append(q, r)]
  BY DEF Reply
<1> HIDE DEF q, r
<1>3. replies'[u] = Append(q, r) /\ \A w \in Users : w # u => replies'[w] = replies[w]
  BY <1>1, <1>2
<1>4. /\ Len(q) \in Nat /\ Len(Append(q, r)) = Len(q) + 1
      /\ \A i \in 1..Len(q) : Append(q, r)[i] = q[i]
      /\ Append(q, r)[Len(q) + 1] = r
  BY <1>1
<1> QED BY <1>3, <1>4 DEF q, r

LEMMA WithoutReply ==
  ASSUME TypeInv, NEW u \in Users, NEW i \in 1..Len(replies[u]),
         replies' = [replies EXCEPT ![u] = Without(@, i)]
  PROVE  LET q == replies[u] IN
         /\ Len(q) \in Nat /\ Len(replies'[u]) = Len(q) - 1
         /\ \A j \in 1..(Len(q) - 1) : replies'[u][j] = IF j < i THEN q[j] ELSE q[j + 1]
         /\ \A w \in Users : w # u => replies'[w] = replies[w]
<1> DEFINE q == replies[u]
<1>1. q \in Seq(Replies) /\ replies \in [Users -> Seq(Replies)] /\ i \in 1..Len(q)
  BY DEF TypeInv, RepliesOK
<1>2. replies'[u] = Without(q, i) /\ \A w \in Users : w # u => replies'[w] = replies[w]
  BY <1>1
<1> HIDE DEF q
<1>3. Len(q) \in Nat
  BY <1>1
<1> QED BY <1>1, <1>2, <1>3, WithoutSeq, SMTT(30) DEF q

LEMMA ReplyTells ==
  ASSUME TypeInv, NEW u \in Users, NEW m, NEW s, NEW v, NEW b, NEW D, Reply(u, m, s, v, b, D),
         UNCHANGED current, \A w \in Users : asked'[w] \subseteq asked[w]
  PROVE  Tells(u, s)
<1> SUFFICES ASSUME NEW w \in Users, NEW t \in Sessions, Told(w, t)'
             PROVE  Told(w, t) \/ (w = u /\ t = s)
  BY DEF Tells
<1> DEFINE q == replies[u]
<1>1. /\ Len(q) \in Nat /\ Len(replies'[u]) = Len(q) + 1
      /\ \A i \in 1..Len(q) : replies'[u][i] = q[i]
      /\ replies'[u][Len(q) + 1].sess = s
      /\ w # u => replies'[w] = replies[w]
  <2> DEFINE r == [method |-> m, sess |-> s, shows |-> v, brings |-> b, body |-> D]
  <2>1. r.sess = s
    OBVIOUS
  <2>2. /\ Len(q) \in Nat /\ Len(replies'[u]) = Len(q) + 1
        /\ \A i \in 1..Len(q) : replies'[u][i] = q[i]
        /\ replies'[u][Len(q) + 1] = r
        /\ \A x \in Users : x # u => replies'[x] = replies[x]
    BY ReplySeq
  <2> HIDE DEF q, r
  <2> QED BY <2>1, <2>2
<1>2. ASSUME NEW i \in 1..Len(replies'[w]), replies'[w][i].sess = t
      PROVE  Told(w, t) \/ (w = u /\ t = s)
  <2>1. CASE w # u
    BY <1>1, <1>2, <2>1 DEF Told
  <2>2. CASE w = u
    <3>1. i \in 1..Len(q) \/ i = Len(q) + 1
      BY <1>1, <1>2, <2>2
    <3> QED BY <1>1, <1>2, <2>2, <3>1 DEF Told
  <2> QED BY <2>1, <2>2
<1> QED BY <1>2 DEF Told

\* Nobody is told of 0.
LEMMA TellsNothing ==
  ASSUME NEW u, Tells(u, 0) PROVE Silent
BY SessionsFacts DEF Tells, Silent

LEMMA QuietSilent ==
  ASSUME UNCHANGED <<current, replies>>, \A w \in Users : asked'[w] \subseteq asked[w]
  PROVE  Silent
BY DEF Silent, Told

LEMMA UserSilent ==
  ASSUME TypeInv, ToldInv, NEW u \in Users,
         \/ UserStep(u) \/ Gather(u) \/ DropPresence(u)
         \/ \E r \in making[u] : Described(u, r)
         \/ \E s \in Sessions : Remove(s)
  PROVE  Silent
<1>1. UNCHANGED <<current, replies>>
  BY DEF UserStep, AnswerClick, TerminateClick, InviteClick, Gather, DropPresence, Described, Remove,
         pageVars
<1>2. CASE UNCHANGED asked
  BY <1>1, <1>2, QuietSilent
<1>3. ASSUME NEW q, Asks(u, {q}), q.sess = 0 \/ q.sess = current[u].sess PROVE Silent
  <2>1. \A w \in Users : asked'[w] = IF w = u THEN asked[u] \cup {q} ELSE asked[w]
    BY <1>3 DEF Asks, TypeInv, AskedOK
  <2>2. SUFFICES ASSUME NEW w \in Users, NEW t \in Sessions, Told(w, t)' PROVE Told(w, t)
    BY DEF Silent
  <2>3. t # 0
    BY SessionsFacts
  <2> QED BY <1>1, <1>3, <2>1, <2>2, <2>3 DEF Told
<1>4. CASE TerminateClick(u)
  <2>1. Request("terminate", current[u].sess, {}).sess = current[u].sess
    BY DEF Request
  <2> QED BY <1>3, <1>4, <2>1 DEF TerminateClick
<1>5. ASSUME NEW r \in making[u], Described(u, r) PROVE Silent
  <2>1. r \in Requests /\ r.sess = 0
    BY DEF TypeInv, MakingOK, ToldInv
  <2>2. [r EXCEPT !.sess = current[u].sess].sess = current[u].sess
    BY <2>1 DEF Requests
  <2> QED BY <1>2, <1>3, <1>5, <2>1, <2>2 DEF Described
<1> QED
  BY <1>2, <1>4, <1>5 DEF UserStep, AnswerClick, InviteClick, Gather, DropPresence, Remove

LEMMA FailSilent ==
  ASSUME TypeInv, NEW u \in Users, Fail(u) PROVE Silent
<1>1. UNCHANGED current /\ \A w \in Users : asked'[w] \subseteq asked[w]
  BY DEF Fail, TypeInv, AskedOK
<1>2. CASE UNCHANGED replies
  BY <1>1, <1>2, QuietSilent
<1>3. ASSUME NEW i \in 1..Len(replies[u]), replies' = [replies EXCEPT ![u] = Without(@, i)]
      PROVE  Silent
  <2> SUFFICES ASSUME NEW w \in Users, NEW t \in Sessions, Told(w, t)' PROVE Told(w, t)
    BY DEF Silent
  <2> DEFINE q == replies[u]
  <2>1. /\ Len(q) \in Nat /\ Len(replies'[u]) = Len(q) - 1
        /\ \A j \in 1..(Len(q) - 1) : replies'[u][j] = IF j < i THEN q[j] ELSE q[j + 1]
        /\ w # u => replies'[w] = replies[w]
    BY <1>3, WithoutReply
  <2>2. ASSUME NEW j \in 1..Len(replies'[w]), replies'[w][j].sess = t PROVE Told(w, t)
    <3>1. CASE w # u
      BY <2>1, <2>2, <3>1 DEF Told
    <3>2. CASE w = u
      <4>1. j \in 1..(Len(q) - 1) /\ j \in 1..Len(q) /\ j + 1 \in 1..Len(q)
        BY <2>1, <2>2, <3>2
      <4> QED BY <2>1, <2>2, <3>2, <4>1 DEF Told
    <3> QED BY <3>1, <3>2
  <2> QED BY <1>1, <2>2 DEF Told
<1> QED BY <1>2, <1>3 DEF Fail

LEMMA ReloadSilent ==
  ASSUME TypeInv, NEW u \in Users, Reload(u) PROVE Silent
<1> SUFFICES ASSUME NEW w \in Users, NEW t \in Sessions, Told(w, t)' PROVE Told(w, t)
  BY DEF Silent
<1>1. t # 0 /\ Null.sess = 0 /\ Len(<<>>) = 0
  BY SessionsFacts DEF Null
<1>2. CASE w = u
  <2>1. current'[u] = Null /\ asked'[u] = Abandoned(u) /\ replies'[u] = <<>>
    BY DEF Reload, TypeInv, PagesOK, AskedOK, RepliesOK
  <2>2. \A q \in Abandoned(u) : \E r \in asked[u] : q.sess = r.sess
    BY DEF Abandoned, TypeInv, AskedOK, Requests
  <2> QED BY <1>1, <1>2, <2>1, <2>2 DEF Told
<1>3. CASE w # u
  BY <1>3 DEF Reload, Told, TypeInv, PagesOK, AskedOK, RepliesOK
<1> QED BY <1>2, <1>3

LEMMA BeginSilent ==
  ASSUME TypeInv, NEW u \in Users, NEW r \in asked[u], Begin(u, r) PROVE Silent
<1> DEFINE q == [r EXCEPT !.at = "begun"]
<1>1. UNCHANGED <<current, replies>> /\ asked' = [asked EXCEPT ![u] = (@ \ {r}) \cup {q}]
  BY DEF Begin, pageVars
<1>2. r \in Requests /\ q.sess = r.sess
  BY DEF TypeInv, AskedOK, Requests
<1> HIDE DEF q
<1>3. \A w \in Users : \A x \in asked'[w] : \E y \in asked[w] : x.sess = y.sess
  BY <1>1, <1>2 DEF TypeInv, AskedOK
<1> QED BY <1>1, <1>3 DEF Silent, Told

\* What a page sends upon a reply is for the session it showed.
LEMMA FollowUpsSess ==
  ASSUME TypeInv, NEW u \in Users, NEW r, ReplyOK(r)
  PROVE  /\ Before(u, r).sess = current[u].sess
         /\ \A q \in FollowUps(u, r) : q.sess = current[u].sess
<1>1. current[u] \in CurrentType /\ Bare.sess = 0 /\ Null.sess = 0 /\ Bare \in CurrentType
  BY DEF TypeInv, PagesOK, CurrentType, Bare, Null
<1>2. Before(u, r).sess = current[u].sess
  BY <1>1 DEF Before, CurrentType
<1>3. \A q \in FollowUps(u, r) : q.sess = Before(u, r).sess
  BY DEF FollowUps, Request
<1> QED BY <1>2, <1>3

LEMMA ReceiveSilent ==
  ASSUME TypeInv, NEW u \in Users, NEW i \in 1..Len(replies[u]), Receive(u, i) PROVE Silent
<1> SUFFICES ASSUME NEW w \in Users, NEW t \in Sessions, Told(w, t)' PROVE Told(w, t)
  BY DEF Silent
<1> DEFINE q == replies[u]
           r == q[i]
<1>1. /\ Len(q) \in Nat /\ Len(replies'[u]) = Len(q) - 1
      /\ \A j \in 1..(Len(q) - 1) : replies'[u][j] = IF j < i THEN q[j] ELSE q[j + 1]
      /\ w # u => replies'[w] = replies[w]
  BY WithoutReply DEF Receive
<1>2. t # 0 /\ Null.sess = 0 /\ ReplyOK(r)
  BY SessionsFacts DEF Null, TypeInv, RepliesOK
<1>3. /\ \/ r.sess # 0 /\ Process(u, r)
         \/ r.sess = 0 /\ current' = [current EXCEPT ![u] = Null] /\ UNCHANGED asked
  BY DEF Receive
<1>4. CASE w # u
  <2>1. current'[w] = current[w] /\ asked'[w] = asked[w] /\ replies'[w] = replies[w]
    BY <1>1, <1>3, <1>4 DEF Process, Asks, TypeInv, PagesOK, AskedOK
  <2> QED BY <2>1 DEF Told
<1>5. CASE w = u
  <2>1. r.sess = t => Told(u, t)
    BY DEF Told
  <2>2. current'[u].sess = t => Told(u, t)
    <3>1. CASE Process(u, r)
      <4>1. Before(u, r).sess = current[u].sess /\ Before(u, r) \in CurrentType
        BY <1>2, FollowUpsSess, BeforeType
      <4>2. current'[u] = IF Throws(u, r) THEN Before(u, r)
                          ELSE [Before(u, r) EXCEPT !.sess = r.sess, !.shows = r.shows]
        BY <3>1 DEF Process, TypeInv, PagesOK
      <4>3. current'[u].sess \in {current[u].sess, r.sess}
        BY <4>1, <4>2 DEF CurrentType
      <4> QED BY <2>1, <4>3 DEF Told
    <3>2. CASE current' = [current EXCEPT ![u] = Null]
      BY <1>2, <3>2 DEF TypeInv, PagesOK
    <3> QED BY <1>3, <3>1, <3>2
  <2>3. ASSUME NEW a \in asked'[u], a.sess = t PROVE Told(u, t)
    <3>1. CASE a \in asked[u]
      BY <2>3, <3>1 DEF Told
    <3>2. CASE a \notin asked[u]
      <4>1. a \in FollowUps(u, r)
        BY <1>3, <2>3, <3>2 DEF Process, Asks, TypeInv, AskedOK
      <4> QED BY <1>2, <2>3, <4>1, FollowUpsSess DEF Told
    <3> QED BY <3>1, <3>2
  <2>4. ASSUME NEW j \in 1..Len(replies'[u]), replies'[u][j].sess = t PROVE Told(u, t)
    <3>1. j \in 1..(Len(q) - 1) /\ j \in 1..Len(q) /\ j + 1 \in 1..Len(q)
      BY <1>1, <2>4
    <3> QED BY <1>1, <2>4, <3>1 DEF Told
  <2> QED BY <1>5, <2>2, <2>3, <2>4 DEF Told
<1> QED BY <1>4, <1>5

LEMMA PollTells ==
  ASSUME TypeInv, NEW u \in Users, Poll(u)
  PROVE  Silent \/ \E s \in listed : u \in Parties(s) /\ Tells(u, s)
<1>1. UNCHANGED <<current, asked>>
  BY DEF Poll
<1>2. CASE UNCHANGED replies
  BY <1>1, <1>2, QuietSilent
<1>3. ASSUME NEW s, NEW v, NEW b, NEW D, Reply(u, "poll", s, v, b, D) PROVE Tells(u, s)
  BY <1>1, <1>3, ReplyTells
<1>4. CASE \E v, b, D : Reply(u, "poll", 0, v, b, D)
  BY <1>3, <1>4, TellsNothing
<1>5. CASE \E s \in listed : \E v, b, D : u \in Parties(s) /\ Reply(u, "poll", s, v, b, D)
  BY <1>3, <1>5
<1> QED BY <1>2, <1>4, <1>5 DEF Poll, ServePoll, IsFirst

LEMMA ServeTells ==
  ASSUME TypeInv, NEW u \in Users, NEW r \in asked[u], Serve(u, r)
  PROVE  Silent \/ \E s \in Sessions : /\ Tells(u, s) /\ state[s] = "none"
                                       /\ state'[s] = "OFFERED" /\ caller'[s] = u
<1>1. UNCHANGED current /\ \A w \in Users : asked'[w] \subseteq asked[w]
  BY DEF Serve, pageVars, TypeInv, AskedOK
<1>2. CASE Rejected
  BY <1>1, <1>2, QuietSilent DEF Rejected
<1>3. ASSUME NEW m, NEW v, NEW b, NEW D, Reply(u, m, r.sess, v, b, D) PROVE Silent
  <2>1. Tells(u, r.sess) /\ Told(u, r.sess)
    BY <1>1, <1>3, ReplyTells DEF Told
  <2> QED BY <2>1 DEF Tells, Silent
<1>4. CASE r.method = "offer" /\ ServeOffer(u, r) /\ ~Rejected
  <2>1. PICK s \in Sessions :
          /\ IsNew(s) /\ caller' = [caller EXCEPT ![s] = u]
          /\ state' = [state EXCEPT ![s] = "OFFERED"]
          /\ ReplyTo(u, r, s, "OFFERED")
    BY <1>4 DEF ServeOffer
  <2>2. Silent \/ Tells(u, s)
    BY <1>1, <2>1, ReplyTells, QuietSilent DEF ReplyTo
  <2> QED BY <2>1, <2>2 DEF IsNew, TypeInv, ServerType
<1>5. CASE /\ ServeAnswer(u, r) \/ ServeCandidate(u, r) \/ ServeEstablished(u, r) \/ ServeTerminate(u, r)
           /\ ~Rejected
  BY <1>1, <1>3, <1>5, QuietSilent
  DEF ServeAnswer, ServeCandidate, ServeEstablished, ServeTerminate, ReplyTo
<1> QED BY <1>2, <1>4, <1>5 DEF Serve

LEMMA NextTells ==
  ASSUME TypeInv, ToldInv, [Next]_vars
  PROVE  \/ Silent
         \/ \E u \in Users, s \in listed : u \in Parties(s) /\ Tells(u, s)
         \/ \E u \in Users, s \in Sessions : /\ Tells(u, s) /\ state[s] = "none"
                                             /\ state'[s] = "OFFERED" /\ caller'[s] = u
<1>1. CASE UNCHANGED vars
  BY <1>1, QuietSilent DEF vars, pageVars
<1>2. ASSUME NEW u \in Users, PageStep(u) \/ UserStep(u) \/ Fail(u) \/ Reload(u) \/ DropPresence(u)
      PROVE  Silent \/ \E s \in listed : u \in Parties(s) /\ Tells(u, s)
  BY <1>2, PollTells, UserSilent, FailSilent, ReloadSilent, ReceiveSilent DEF PageStep
<1>3. ASSUME NEW s \in Sessions, Remove(s) PROVE Silent
  BY <1>3, QuietSilent DEF Remove, pageVars
<1> QED BY <1>1, <1>2, <1>3, BeginSilent, ServeTells DEF Next

LEMMA NextMaking ==
  ASSUME TypeInv, [Next]_vars, NEW w \in Users, NEW q \in making'[w], q \notin making[w]
  PROVE  q.sess = 0
<1>1. ASSUME NEW u \in Users, NEW v \in Users, InviteClick(u, v) PROVE q.sess = 0
  <2>1. PICK k \in Conns :
          making' = [making EXCEPT ![u] = @ \cup {[Request("offer", 0, {k}) EXCEPT !.peer = v]}]
    BY <1>1 DEF InviteClick
  <2>2. [Request("offer", 0, {k}) EXCEPT !.peer = v].sess = 0
    BY DEF Request
  <2> QED BY <2>1, <2>2 DEF TypeInv, MakingOK
<1>2. ASSUME NEW u \in Users, AnswerClick(u) PROVE q.sess = 0
  <2>1. PICK k \in Conns : making' = [making EXCEPT ![u] = @ \cup {Request("answer", 0, {k})}]
    BY <1>2 DEF AnswerClick
  <2>2. Request("answer", 0, {k}).sess = 0
    BY DEF Request
  <2> QED BY <2>1, <2>2 DEF TypeInv, MakingOK
<1>3. CASE \E u \in Users : TerminateClick(u) \/ Poll(u) \/ Gather(u)
                            \/ \E i \in 1..Len(replies[u]) : Receive(u, i)
  BY <1>3 DEF TerminateClick, Poll, Gather, Receive, pageVars
<1>4. CASE \E u \in Users : Fail(u) \/ Reload(u) \/ DropPresence(u)
                            \/ (\E r \in asked[u] : Begin(u, r) \/ Serve(u, r))
                            \/ (\E r \in making[u] : Described(u, r))
  BY <1>4 DEF Fail, Reload, DropPresence, Begin, Serve, Described, pageVars, TypeInv, MakingOK
<1>5. CASE (\E s \in Sessions : Remove(s)) \/ UNCHANGED vars
  BY <1>5 DEF Remove, vars, pageVars
<1> QED BY <1>1, <1>2, <1>3, <1>4, <1>5 DEF Next, PageStep, UserStep

LEMMA ToldStep ==
  ASSUME TypeInv, ToldInv, [Next]_vars PROVE ToldInv'
<1>1. ASSUME NEW w \in Users, NEW t \in Sessions, state[t] # "none", w \in Parties(t)
      PROVE  state'[t] # "none" /\ w \in Parties(t)'
  <2>1. CASE CallsKept
    BY <1>1, <2>1 DEF CallsKept, Parties
  <2>2. ASSUME NEW u \in Users, NEW v \in Users, NEW s \in Sessions, NewCall(u, v, s)
        PROVE  state'[t] # "none" /\ w \in Parties(t)'
    BY <1>1, <2>2 DEF NewCall, IsNew, Parties, TypeInv, ServerType
  <2> QED BY <2>1, <2>2, NextCalls
<1>2. \A s \in listed : s \in Sessions /\ state[s] # "none"
  BY DEF TypeInv, ServerType
<1>3. ASSUME NEW w \in Users, NEW t \in Sessions, Told(w, t)'
      PROVE  state'[t] # "none" /\ w \in Parties(t)'
  <2>1. CASE Told(w, t)
    BY <1>1, <2>1 DEF ToldInv
  <2>2. CASE ~Told(w, t)
    <3>1. ~Silent
      BY <1>3, <2>2 DEF Silent
    <3>2. CASE \E u \in Users, s \in listed : u \in Parties(s) /\ Tells(u, s)
      BY <1>1, <1>2, <1>3, <2>2, <3>2 DEF Tells
    <3>3. CASE \E u \in Users, s \in Sessions : /\ Tells(u, s) /\ state[s] = "none"
                                                /\ state'[s] = "OFFERED" /\ caller'[s] = u
      <4>1. state'[t] = "OFFERED" /\ caller'[t] = w
        BY <1>3, <2>2, <3>3 DEF Tells
      <4> QED BY <4>1 DEF Parties
    <3> QED BY <3>1, <3>2, <3>3, NextTells
  <2> QED BY <2>1, <2>2
<1>4. \A w \in Users : \A q \in making'[w] : q.sess = 0
  BY NextMaking DEF ToldInv
<1> QED BY <1>3, <1>4 DEF ToldInv

LEMMA AlwaysTold == Spec => []ToldInv
<1>1. Init => ToldInv
  <2> SUFFICES ASSUME Init PROVE ToldInv
    OBVIOUS
  <2>1. Null.sess = 0 /\ Len(<<>>) = 0
    BY DEF Null
  <2> QED BY <2>1, SessionsFacts DEF Init, ToldInv, Told
<1>2. TypeInv /\ ToldInv /\ [Next]_vars => ToldInv'
  BY ToldStep
<1> QED BY <1>1, <1>2, AlwaysTyped, PTL DEF Spec

------------------------------------------------------------------------------
(* What the server has begun.                                               *)

\* Only an offer and a confirmation take two steps; who has begun to confirm has set its
\* flag, and only a page that was loaded anew has abandoned anything.
BegunOK(u, r) ==
  /\ r.at # "sent" => r.method \in {"offer", "established"}
  /\ r.at # "sent" /\ r.method = "established" => u \in established[r.sess]
  /\ r.at = "abandoned" => <<u, "reload">> \in mishap
BegunInv == \A u \in Users : \A r \in asked[u] : BegunOK(u, r)

\* A step that begins and abandons nothing.
LEMMA BegunKept ==
  ASSUME TypeInv, BegunInv, mishap \subseteq mishap',
         \A s \in Sessions : established[s] \subseteq established'[s],
         \A u \in Users : \A r \in asked'[u] : r \in asked[u] \/ r.at = "sent"
  PROVE  BegunInv'
<1> SUFFICES ASSUME NEW u \in Users, NEW r \in asked'[u], r \in asked[u] PROVE BegunOK(u, r)'
  BY DEF BegunInv, BegunOK
<1>1. BegunOK(u, r) /\ r \in Requests /\ (r.method = "offer" \/ r.sess # 0)
  BY DEF BegunInv, TypeInv, AskedOK
<1>2. r.method = "established" => r.sess \in Sessions
  BY <1>1 DEF Requests
<1> QED BY <1>1, <1>2 DEF BegunOK

LEMMA BegunStep ==
  ASSUME TypeInv, BegunInv, [Next]_vars PROVE BegunInv'
<1>1. mishap \subseteq mishap'
  BY DEF Next, PageStep, UserStep, Poll, Gather, Described, Receive, AnswerClick, TerminateClick,
         InviteClick, Clicks, Happens, Fail, Reload, DropPresence, Begin, Serve, Remove, vars
<1>2. \A s \in Sessions : established[s] \subseteq established'[s]
  <2>1. CASE UNCHANGED established
    BY <2>1
  <2>2. CASE \E s, u : established' = [established EXCEPT ![s] = @ \cup {u}]
    BY <2>2 DEF TypeInv, ServerType
  <2>3. ASSUME NEW u \in Users, NEW r \in asked[u], Serve(u, r) PROVE UNCHANGED established
    BY <2>3 DEF Serve, ServeOffer, ServeAnswer, ServeCandidate, ServeEstablished, ServeTerminate,
                Rejected, SetState, sessVars
  <2>4. ASSUME NEW u \in Users, NEW r \in asked[u], Begin(u, r)
        PROVE  UNCHANGED established \/ \E s, v : established' = [established EXCEPT ![s] = @ \cup {v}]
    BY <2>4 DEF Begin, BeginOffer, BeginEstablished
  <2>5. ASSUME NEW u \in Users, Poll(u) PROVE UNCHANGED established
    BY <2>5 DEF Poll, ServePoll, Marks, SetState, serverVars, sessVars
  <2>6. CASE \/ \E s \in Sessions : Remove(s)
             \/ \E u \in Users : Fail(u) \/ Reload(u) \/ DropPresence(u) \/ UserStep(u)
             \/ \E u \in Users : Gather(u) \/ \E r \in making[u] : Described(u, r)
             \/ \E u \in Users : \E i \in 1..Len(replies[u]) : Receive(u, i)
             \/ UNCHANGED vars
    BY <2>6 DEF Remove, Fail, Reload, DropPresence, UserStep, AnswerClick, TerminateClick,
                InviteClick, Gather, Described, Receive, vars, serverVars, sessVars
  <2> QED BY <2>1, <2>2, <2>3, <2>4, <2>5, <2>6 DEF Next, PageStep
<1>3. CASE \A u \in Users : \A r \in asked'[u] : r \in asked[u] \/ r.at = "sent"
  BY <1>1, <1>2, <1>3, BegunKept
<1>4. ASSUME NEW u \in Users, NEW R, Asks(u, R), \A r \in R : r.at = "sent" PROVE BegunInv'
  BY <1>3, <1>4 DEF Asks, TypeInv, AskedOK
<1>5. CASE \/ UNCHANGED asked
           \/ \E u \in Users : \E r \in asked[u] : asked' = [asked EXCEPT ![u] = @ \ {r}]
  BY <1>3, <1>5 DEF TypeInv, AskedOK
<1>6. ASSUME NEW u \in Users, UserStep(u) PROVE BegunInv'
  <2>1. Request("terminate", current[u].sess, {}).at = "sent"
    BY DEF Request
  <2> QED BY <1>4, <1>5, <1>6, <2>1 DEF UserStep, AnswerClick, InviteClick, TerminateClick
<1>7. ASSUME NEW u \in Users, NEW r \in making[u], Described(u, r) PROVE BegunInv'
  <2>1. r \in Requests /\ r.at = "sent"
    BY DEF TypeInv, MakingOK
  <2>2. [r EXCEPT !.sess = current[u].sess].at = "sent"
    BY <2>1 DEF Requests
  <2> QED BY <1>4, <1>5, <1>7, <2>1, <2>2 DEF Described
<1>8. ASSUME NEW u \in Users, NEW i \in 1..Len(replies[u]), Receive(u, i) PROVE BegunInv'
  <2>1. \A q \in FollowUps(u, replies[u][i]) : q.at = "sent"
    BY DEF FollowUps, Request
  <2>2. CASE UNCHANGED asked
    BY <1>5, <2>2
  <2>3. ASSUME NEW R \in {{}, FollowUps(u, replies[u][i])}, Asks(u, R) PROVE BegunInv'
    BY <1>4, <2>1, <2>3
  <2> QED BY <1>8, <2>2, <2>3 DEF Receive, Process
<1>9. ASSUME NEW u \in Users, NEW r \in asked[u], Begin(u, r) PROVE BegunInv'
  <2> DEFINE q == [r EXCEPT !.at = "begun"]
  <2>1. r \in Requests /\ (r.method = "offer" \/ r.sess # 0)
    BY DEF TypeInv, AskedOK
  <2>2. q.at = "begun" /\ q.method = r.method /\ q.sess = r.sess
    BY <2>1 DEF Requests
  <2>3. asked' = [asked EXCEPT ![u] = (@ \ {r}) \cup {q}] /\ UNCHANGED mishap
        /\ (BeginOffer(u, r) \/ BeginEstablished(u, r))
    BY <1>9 DEF Begin
  <2> HIDE DEF q
  <2>4. BegunOK(u, q)'
    <3>1. CASE r.method = "offer"
      BY <2>2, <3>1 DEF BegunOK
    <3>2. CASE BeginEstablished(u, r)
      <4>1. r.sess \in Sessions /\ r.method = "established"
        BY <2>1, <3>2 DEF BeginEstablished, Requests
      <4>2. u \in established'[r.sess]
        BY <3>2, <4>1 DEF BeginEstablished, TypeInv, ServerType
      <4> QED BY <2>2, <4>1, <4>2 DEF BegunOK
    <3> QED BY <2>3, <3>1, <3>2 DEF BeginOffer
  <2>5. ASSUME NEW v \in Users, NEW x \in asked[v] PROVE BegunOK(v, x)'
    <3>1. BegunOK(v, x) /\ x \in Requests /\ (x.method = "offer" \/ x.sess # 0)
      BY DEF BegunInv, TypeInv, AskedOK
    <3>2. x.method = "established" => x.sess \in Sessions
      BY <3>1 DEF Requests
    <3> QED BY <1>1, <1>2, <3>1, <3>2 DEF BegunOK
  <2> QED BY <2>3, <2>4, <2>5 DEF BegunInv, TypeInv, AskedOK
<1>10. ASSUME NEW u \in Users, Reload(u) PROVE BegunInv'
  <2>1. asked' = [asked EXCEPT ![u] = Abandoned(u)] /\ <<u, "reload">> \in mishap'
        /\ UNCHANGED established
    BY <1>10 DEF Reload, Happens, serverVars, sessVars
  <2>2. ASSUME NEW x \in Abandoned(u) PROVE BegunOK(u, x)'
    <3>1. PICK q \in asked[u] : q.at # "sent" /\ x = [q EXCEPT !.at = "abandoned"]
      BY DEF Abandoned
    <3>2. x.at = "abandoned" /\ x.method = q.method /\ x.sess = q.sess
      BY <3>1 DEF TypeInv, AskedOK, Requests
    <3>3. BegunOK(u, q)
      BY DEF BegunInv
    <3> QED BY <2>1, <3>1, <3>2, <3>3 DEF BegunOK
  <2>3. ASSUME NEW v \in Users, v # u, NEW x \in asked[v] PROVE BegunOK(v, x)'
    BY <1>1, <2>1 DEF BegunInv, BegunOK
  <2> QED BY <2>1, <2>2, <2>3 DEF BegunInv, TypeInv, AskedOK
<1>11. ASSUME NEW u \in Users, NEW r \in asked[u], Serve(u, r) PROVE BegunInv'
  BY <1>5, <1>11 DEF Serve
<1>12. ASSUME NEW u \in Users, Poll(u) \/ Gather(u) \/ Fail(u) \/ DropPresence(u) PROVE BegunInv'
  BY <1>5, <1>12 DEF Poll, Gather, Fail, DropPresence
<1>13. CASE UNCHANGED vars \/ \E s \in Sessions : Remove(s)
  BY <1>5, <1>13 DEF vars, Remove
<1> QED BY <1>6, <1>7, <1>8, <1>9, <1>10, <1>11, <1>12, <1>13 DEF Next, PageStep

LEMMA AlwaysBegun == Spec => []BegunInv
<1>1. Init => BegunInv
  BY DEF Init, BegunInv
<1>2. TypeInv /\ BegunInv /\ [Next]_vars => BegunInv'
  BY BegunStep
<1> QED BY <1>1, <1>2, AlwaysTyped, PTL DEF Spec

------------------------------------------------------------------------------
(* Polling.                                                                 *)

\* Nothing has happened to page u.
Calm(u) == \A m \in mishap : m[1] # u

\* The session that page u shows when it comes to its i-th reply, and after the last one.
Prev(u, i) == IF i = 1 THEN current[u].sess ELSE replies[u][i - 1].sess
Latest(u)  == Prev(u, Len(replies[u]) + 1)

\* A session that page u takes part in but has not heard of: nothing of it but the offer
\* can be delivered.
Unheard(u, t) ==
  caller[t] # u /\ state[t] \in {"OFFERED", "ESTABLISHED", "TERMINATED"} /\ ~Told(u, t)

\* Whatever makes the page read SessionInfo comes when there is one.
PollingOK(u) ==
  /\ poll[u] # "stopped"
  /\ current[u] = Null \/ (current[u].sess # 0 /\ current[u].shows # "undefined")
  /\ \A i \in 1..Len(replies[u]) : replies[u][i].brings \in {"answer", "candidate"} => Prev(u, i) # 0
  /\ Latest(u) = 0 => \A t \in listed : u \in Parties(t) => Unheard(u, t)

PollingInv == \A u \in Users : Calm(u) => PollingOK(u)

\* A step that leaves the page alone, and every session it has not heard of.
LEMMA PollingKept ==
  ASSUME PollingInv, NEW w \in Users, Calm(w), UNCHANGED <<current[w], poll[w], replies[w]>>,
         \A t \in listed' : w \in Parties(t)' => \/ Unheard(w, t)'
                                                 \/ /\ t \in listed /\ w \in Parties(t)
                                                    /\ Unheard(w, t) => Unheard(w, t)'
  PROVE  PollingOK(w)'
<1>1. Latest(w)' = Latest(w) /\ \A i : Prev(w, i)' = Prev(w, i)
  BY DEF Latest, Prev
<1>2. PollingOK(w)
  BY DEF PollingInv
<1>3. /\ poll'[w] # "stopped"
      /\ current'[w] = Null \/ (current'[w].sess # 0 /\ current'[w].shows # "undefined")
  BY <1>2 DEF PollingOK
<1>4. \A i \in 1..Len(replies'[w]) : replies'[w][i].brings \in {"answer", "candidate"} => Prev(w, i)' # 0
  BY <1>1, <1>2 DEF PollingOK
<1>5. Latest(w)' = 0 => \A t \in listed' : w \in Parties(t)' => Unheard(w, t)'
  BY <1>1, <1>2 DEF PollingOK
<1> QED BY <1>3, <1>4, <1>5 DEF PollingOK

\* A step that leaves the sessions alone and tells nobody anything new.
LEMMA PollingAlone ==
  ASSUME TypeInv, PollingInv, NEW w \in Users, Calm(w), Silent,
         UNCHANGED <<current[w], poll[w], replies[w], sessVars>>, listed' \subseteq listed
  PROVE  PollingOK(w)'
<1>1. \A t \in listed : Unheard(w, t) => Unheard(w, t)'
  BY DEF Unheard, Silent, sessVars, TypeInv, ServerType
<1>2. \A t \in listed' : t \in listed /\ (w \in Parties(t)' => w \in Parties(t))
  BY DEF Parties, sessVars
<1> QED BY <1>1, <1>2, PollingKept

\* A page is sent a reply.
LEMMA PollingReply ==
  ASSUME TypeInv, PollingInv, NEW u \in Users, Calm(u),
         NEW m, NEW s, NEW v, NEW b, NEW D, Reply(u, m, s, v, b, D),
         current'[u] = current[u], poll'[u] # "stopped",
         b \in {"answer", "candidate"} => Latest(u) # 0,
         s = 0 => \A t \in listed' : u \notin Parties(t)'
  PROVE  PollingOK(u)'
<1> DEFINE q == replies[u]
           n == Len(q)
           r == [method |-> m, sess |-> s, shows |-> v, brings |-> b, body |-> D]
<1>1. /\ n \in Nat /\ Len(replies'[u]) = n + 1
      /\ \A i \in 1..n : replies'[u][i] = q[i]
      /\ replies'[u][n + 1] = r
  BY ReplySeq
<1>2. r.sess = s /\ r.brings = b
  OBVIOUS
<1>3. PollingOK(u)
  BY DEF PollingInv
<1> HIDE DEF r
<1>4. \A i \in 1..(n + 1) : Prev(u, i)' = Prev(u, i)
  BY <1>1 DEF Prev
<1>5. Latest(u)' = s
  BY <1>1, <1>2 DEF Latest, Prev
<1>6. Latest(u) = Prev(u, n + 1)
  BY DEF Latest
<1>7. ASSUME NEW i \in 1..Len(replies'[u]), replies'[u][i].brings \in {"answer", "candidate"}
      PROVE  Prev(u, i)' # 0
  <2>1. i \in 1..n \/ i = n + 1
    BY <1>1
  <2>2. i \in 1..(n + 1)
    BY <1>1
  <2>3. CASE i \in 1..n
    BY <1>1, <1>3, <1>4, <1>7, <2>2, <2>3 DEF PollingOK
  <2>4. CASE i = n + 1
    BY <1>1, <1>2, <1>4, <1>6, <1>7, <2>2, <2>4
  <2> QED BY <2>1, <2>3, <2>4
<1>8. Latest(u)' = 0 => \A t \in listed' : u \in Parties(t)' => Unheard(u, t)'
  BY <1>5
<1> HIDE DEF n, q
<1> QED BY <1>3, <1>7, <1>8 DEF PollingOK

\* A poll delivers nothing of a session which its page has not heard of, but the offer.
LEMMA PollPolling ==
  ASSUME TypeInv, PollingInv, NEW u \in Users, Poll(u), NEW w \in Users, Calm(w)
  PROVE  PollingOK(w)'
<1>1. UNCHANGED <<current, asked, caller, callee, listed>>
  BY DEF Poll, ServePoll, serverVars, sessVars, SetState, Marks
<1>2. CASE w # u
  <2>1. UNCHANGED <<current[w], poll[w], replies[w]>>
    <3>1. poll'[w] = poll[w]
      BY <1>2 DEF Poll, TypeInv, PagesOK
    <3>2. replies'[w] = replies[w]
      BY <1>2 DEF Poll, ServePoll, Reply, serverVars, TypeInv, RepliesOK
    <3> QED BY <1>1, <3>1, <3>2
  <2>2. ASSUME NEW t \in listed, w \in Parties(t), Unheard(w, t) PROVE Unheard(w, t)'
    <3>1. ~Told(w, t)'
      BY <1>1, <2>1, <2>2 DEF Unheard, Told
    <3>2. state'[t] = state[t]
      <4>1. \/ UNCHANGED state
            \/ \E s \in listed : /\ u \in Parties(s) /\ Delivery(u, s) # "none"
                                 /\ state' = [state EXCEPT ![s] = Delivery(u, s)]
        BY DEF Poll, ServePoll, serverVars, sessVars, Marks, IsFirst, SetState
      <4>2. u \in Parties(t) => Delivery(u, t) = "none"
        BY <1>2, <2>2 DEF Unheard, Parties, Delivery
      <4> QED BY <2>2, <4>1, <4>2 DEF TypeInv, ServerType
    <3> QED BY <1>1, <2>2, <3>1, <3>2 DEF Unheard
  <2> QED BY <1>1, <2>1, <2>2, PollingKept DEF Parties
<1>3. CASE w = u
  <2>1. PollingOK(u)
    BY <1>3 DEF PollingInv
  <2>2. current[u].shows # "undefined"
    BY <2>1 DEF PollingOK, Null
  <2>3. ServePoll(u) /\ poll' = [poll EXCEPT ![u] = "sent"]
    BY <2>2 DEF Poll
  <2>4. current'[u] = current[u] /\ poll'[u] # "stopped"
    BY <1>1, <2>3 DEF TypeInv, PagesOK
  <2>5. ASSUME \A s \in listed : u \notin Parties(s), Reply(u, "poll", 0, "none", "nothing", {})
        PROVE  PollingOK(u)'
    BY <1>1, <1>3, <2>4, <2>5, PollingReply DEF Parties
  <2>6. ASSUME NEW s \in listed, NEW v, NEW b, NEW D, Reply(u, "poll", s, v, b, D),
               b \in {"answer", "candidate"} => Latest(u) # 0
        PROVE  PollingOK(u)'
    <3>1. s # 0
      BY SessionsFacts DEF TypeInv, ServerType
    <3> QED BY <1>3, <2>4, <2>6, <3>1, PollingReply
  <2>7. ASSUME NEW s \in listed, u \in Parties(s), Latest(u) = 0
        PROVE  Delivery(u, s) \in {"none", "OFFER_DELIVERED"}
    BY <2>1, <2>7 DEF PollingOK, Unheard, Delivery
  <2>8. CASE (\A s \in listed : u \notin Parties(s)) /\ Reply(u, "poll", 0, "none", "nothing", {})
    BY <1>3, <2>5, <2>8
  <2>9. ASSUME NEW s \in listed, u \in Parties(s), NEW v, NEW b, NEW D,
               Reply(u, "poll", s, v, b, D),
               b \in {"answer", "candidate"} => Delivery(u, s) \notin {"none", "OFFER_DELIVERED"}
        PROVE  PollingOK(w)'
    BY <1>3, <2>6, <2>7, <2>9
  <2>10. CASE \E s \in listed : /\ u \in Parties(s) /\ Delivery(u, s) = "none"
                                /\ Reply(u, "poll", s, state[s], "nothing", {})
    BY <2>9, <2>10
  <2>11. CASE \E s \in listed : /\ u \in Parties(s) /\ Delivery(u, s) = "OFFER_DELIVERED"
                                /\ \E v, D : Reply(u, "poll", s, v, "offer", D)
    BY <2>9, <2>11
  <2>12. CASE \E s \in listed : /\ u \in Parties(s)
                                /\ Delivery(u, s) \notin {"none", "OFFER_DELIVERED"}
                                /\ \E v, b, D : Reply(u, "poll", s, v, b, D)
    BY <2>9, <2>12
  <2> QED BY <2>3, <2>8, <2>10, <2>11, <2>12 DEF ServePoll, IsFirst
<1> QED BY <1>2, <1>3

\* A request only touches sessions which its page and the other party have heard of,
\* or calls the other party.
LEMMA ServePolling ==
  ASSUME TypeInv, ToldInv, BegunInv, PollingInv, NEW u \in Users, NEW r \in asked[u], Serve(u, r),
         NEW w \in Users, Calm(w)
  PROVE  PollingOK(w)'
<1>1. UNCHANGED <<current, poll>> /\ \A x \in Users : asked'[x] \subseteq asked[x]
  BY DEF Serve, pageVars, TypeInv, AskedOK
<1>2. CASE Rejected
  BY <1>1, <1>2, QuietSilent, PollingAlone DEF Rejected
<1>3. ASSUME NEW s \in Sessions, NEW m, NEW v,
             \/ Reply(u, m, s, v, "nothing", {})
             \/ UNCHANGED replies /\ ~Calm(u),
             \A t \in listed' : \/ /\ t = s /\ state[t] = "none"
                                   /\ caller'[t] = u /\ state'[t] = "OFFERED"
                                \/ /\ t \in listed
                                   /\ caller'[t] = caller[t] /\ callee'[t] = callee[t]
                                   /\ \/ state'[t] \in {state[t], "ESTABLISHED", "TERMINATED"}
                                      \/ state[t] \in {"ANSWER_DELIVERED", "CALLER_CANDIDATE_DELIVERED"}
                                      \/ callee[t] = u
      PROVE  PollingOK(w)'
  <2>1. CASE w = u
    <3>1. s # 0
      BY SessionsFacts
    <3>2. poll[u] # "stopped"
      BY <2>1 DEF PollingInv, PollingOK
    <3> QED BY <1>1, <1>3, <2>1, <3>1, <3>2, PollingReply
  <2>2. CASE w # u
    <3>1. replies'[w] = replies[w]
      BY <1>3, <2>2, ReplySeq, Zenon
    <3>2. \A t \in Sessions : Told(w, t)' => Told(w, t)
      BY <1>1, <3>1 DEF Told
    <3>3. \A t \in listed : t \in Sessions
      BY DEF TypeInv, ServerType
    <3>4. ASSUME NEW t \in listed', w \in Parties(t)'
          PROVE  \/ Unheard(w, t)'
                 \/ /\ t \in listed /\ w \in Parties(t)
                    /\ Unheard(w, t) => Unheard(w, t)'
      <4>1. CASE t = s /\ state[t] = "none" /\ caller'[t] = u /\ state'[t] = "OFFERED"
        BY <2>2, <3>2, <4>1 DEF Unheard, ToldInv
      <4>2. CASE /\ t \in listed
                 /\ caller'[t] = caller[t] /\ callee'[t] = callee[t]
                 /\ \/ state'[t] \in {state[t], "ESTABLISHED", "TERMINATED"}
                    \/ state[t] \in {"ANSWER_DELIVERED", "CALLER_CANDIDATE_DELIVERED"}
                    \/ callee[t] = u
        BY <2>2, <3>2, <3>3, <3>4, <4>2 DEF Unheard, Parties
      <4> QED BY <1>3, <4>1, <4>2
    <3> QED BY <1>1, <3>1, <3>4, PollingKept
  <2> QED BY <2>1, <2>2
<1> DEFINE s == r.sess
<1>4. \A t \in listed : t \in Sessions
  BY DEF TypeInv, ServerType
<1>a. ASSUME NEW t, NEW v, ReplyTo(u, r, t, v)
      PROVE  Reply(u, r.method, t, v, "nothing", {}) \/ (UNCHANGED replies /\ ~Calm(u))
  <2>1. r.at = "abandoned" => <<u, "reload">> \in mishap /\ <<u, "reload">>[1] = u
    BY DEF BegunInv, BegunOK
  <2> QED BY <1>a, <2>1 DEF ReplyTo, Calm
<1>5. CASE ServeOffer(u, r) /\ ~Rejected
  <2>1. PICK t \in Sessions :
          /\ IsNew(t) /\ listed' = listed \cup {t}
          /\ caller' = [caller EXCEPT ![t] = u] /\ callee' = [callee EXCEPT ![t] = r.peer]
          /\ state' = [state EXCEPT ![t] = "OFFERED"]
          /\ ReplyTo(u, r, t, "OFFERED")
    BY <1>5 DEF ServeOffer
  <2>2. /\ state[t] = "none" /\ caller'[t] = u /\ state'[t] = "OFFERED"
        /\ \A x \in Sessions : x # t => caller'[x] = caller[x] /\ callee'[x] = callee[x]
                                        /\ state'[x] = state[x]
    BY <2>1 DEF IsNew, TypeInv, ServerType
  <2> QED BY <1>3, <1>4, <1>a, <2>1, <2>2 DEF Parties
<1>6. CASE ServeAnswer(u, r) /\ ~Rejected
  <2>1. /\ s \in listed /\ callee[s] = u /\ state' = [state EXCEPT ![s] = "ANSWERED"]
        /\ Reply(u, "answer", s, "ANSWERED", "nothing", {}) /\ UNCHANGED <<listed, caller, callee>>
    BY <1>6 DEF ServeAnswer, SetState
  <2> HIDE DEF s
  <2> QED BY <1>3, <1>4, <2>1 DEF TypeInv, ServerType
<1>7. CASE ServeCandidate(u, r) /\ ~Rejected
  <2> DEFINE v == CandidateState(u, s)
  <2>1. /\ s \in listed /\ state' = [state EXCEPT ![s] = v] /\ v # "none"
        /\ Reply(u, "candidate", s, v, "nothing", {}) /\ UNCHANGED <<listed, caller, callee>>
    BY <1>7 DEF ServeCandidate, SetState
  <2>2. state[s] \in {"ANSWER_DELIVERED", "CALLER_CANDIDATE_DELIVERED"}
    BY <2>1 DEF CandidateState
  <2> HIDE DEF s, v
  <2> QED BY <1>3, <1>4, <2>1, <2>2 DEF TypeInv, ServerType
<1>8. CASE r.method = "established" /\ ServeEstablished(u, r) /\ ~Rejected
  <2> DEFINE v == IF SeesBoth(s) THEN "ESTABLISHED" ELSE state[s]
  <2>1. /\ state' = [state EXCEPT ![s] = v]
        /\ ReplyTo(u, r, s, state'[s]) /\ UNCHANGED <<listed, caller, callee>>
    BY <1>8 DEF ServeEstablished, SetState
  <2>2. v \in {state[s], "ESTABLISHED"}
    OBVIOUS
  <2>3. s \in Sessions
    BY <1>8 DEF TypeInv, AskedOK, Requests
  <2> HIDE DEF s, v
  <2> QED BY <1>3, <1>4, <1>a, <2>1, <2>2, <2>3 DEF TypeInv, ServerType
<1>9. CASE ServeTerminate(u, r) /\ ~Rejected
  <2>1. /\ s \in listed /\ state' = [state EXCEPT ![s] = "TERMINATED"]
        /\ Reply(u, "terminate", s, "TERMINATED", "nothing", {}) /\ UNCHANGED <<listed, caller, callee>>
    BY <1>9 DEF ServeTerminate
  <2> HIDE DEF s
  <2> QED BY <1>3, <1>4, <2>1 DEF TypeInv, ServerType
<1> QED BY <1>2, <1>5, <1>6, <1>7, <1>8, <1>9 DEF Serve

LEMMA BeginPolling ==
  ASSUME TypeInv, PollingInv, NEW u \in Users, NEW r \in asked[u], Begin(u, r),
         NEW w \in Users, Calm(w)
  PROVE  PollingOK(w)'
<1>1. UNCHANGED <<listed, caller, callee, state, current, poll, replies>>
  BY DEF Begin, pageVars
<1>2. Silent
  BY BeginSilent
<1>3. \A t \in listed : Unheard(w, t) => Unheard(w, t)'
  BY <1>1, <1>2 DEF Unheard, Silent, TypeInv, ServerType
<1> QED BY <1>1, <1>3, PollingKept DEF Parties

LEMMA HappensCalm ==
  ASSUME NEW u \in Users, NEW m, Happens(u, m), NEW w \in Users, Calm(w)'
  PROVE  w # u /\ Calm(w)
<1>1. mishap = {} /\ <<u, m>> \in mishap' /\ <<u, m>>[1] = u
  BY DEF Happens
<1> QED BY <1>1 DEF Calm

LEMMA ClicksCalm ==
  ASSUME NEW u \in Users, NEW b, Clicks(u, b), NEW w \in Users, Calm(w)' PROVE Calm(w)
BY HappensCalm DEF Clicks, Calm

\* A reply that comes in its turn finds the page as Prev foresaw.
LEMMA ReceivePolling ==
  ASSUME TypeInv, PollingInv, NEW u \in Users, NEW i \in 1..Len(replies[u]), Receive(u, i),
         NEW w \in Users, Calm(w)'
  PROVE  PollingOK(w)'
<1> DEFINE q == replies[u]
           r == q[i]
<1>1. /\ (i = 1 /\ UNCHANGED <<plan, mishap>>) \/ (i > 1 /\ Happens(u, "late"))
      /\ poll' = Rearm(u, r)
      /\ \/ r.sess # 0 /\ Process(u, r)
         \/ r.sess = 0 /\ current' = [current EXCEPT ![u] = Null]
      /\ UNCHANGED serverVars
  BY DEF Receive
<1>2. /\ Len(q) \in Nat /\ Len(replies'[u]) = Len(q) - 1
      /\ \A j \in 1..(Len(q) - 1) : replies'[u][j] = IF j < i THEN q[j] ELSE q[j + 1]
      /\ w # u => replies'[w] = replies[w]
  BY WithoutReply DEF Receive
<1>3. Silent
  BY ReceiveSilent
<1>4. CASE w # u
  <2>1. Calm(w)
    BY <1>1, HappensCalm DEF Calm
  <2>2. UNCHANGED <<current[w], poll[w]>>
    BY <1>1, <1>4 DEF Rearm, Process, TypeInv, PagesOK
  <2> QED BY <1>1, <1>2, <1>3, <1>4, <2>1, <2>2, PollingAlone DEF serverVars
<1>5. CASE w = u
  <2>1. i = 1 /\ Calm(u)
    BY <1>1, <1>5, HappensCalm DEF Calm
  <2>2. PollingOK(u)
    BY <2>1 DEF PollingInv
  <2>3. r \in Replies /\ ReplyOK(r)
    <3>1. q \in Seq(Replies) /\ i \in 1..Len(q)
      BY DEF TypeInv, RepliesOK
    <3> HIDE DEF q
    <3>2. q[i] \in Replies
      BY <3>1
    <3> QED BY <3>2 DEF TypeInv, RepliesOK, q
  <2>4. r.brings \in {"answer", "candidate"} => current[u].sess # 0
    BY <2>1, <2>2 DEF PollingOK, Prev
  <2>5. poll'[u] # "stopped"
    BY <1>1, <2>2 DEF Rearm, PollingOK, TypeInv, PagesOK
  <2>6. /\ current'[u] = Null \/ (current'[u].sess # 0 /\ current'[u].shows # "undefined")
        /\ current'[u].sess = 0 <=> r.sess = 0
    <3>1. CASE r.sess = 0
      BY <1>1, <3>1 DEF TypeInv, PagesOK, Null
    <3>2. CASE r.sess # 0 /\ Throws(u, r)
      <4>1. current[u].sess # 0 /\ current[u] # Null /\ r.brings # "offer"
        BY <2>4, <3>2 DEF Throws, Null
      <4>2. Before(u, r) = current[u]
        BY <4>1 DEF Before
      <4>3. current'[u] = current[u]
        BY <1>1, <3>2, <4>2 DEF Process, TypeInv, PagesOK
      <4> QED BY <2>2, <3>2, <4>1, <4>3 DEF PollingOK
    <3>3. CASE r.sess # 0 /\ ~Throws(u, r)
      <4>1. Before(u, r) \in CurrentType
        BY <2>3, BeforeType
      <4>2. current'[u] = [Before(u, r) EXCEPT !.sess = r.sess, !.shows = r.shows]
        BY <1>1, <3>3 DEF Process, TypeInv, PagesOK
      <4>3. current'[u].sess = r.sess /\ current'[u].shows = r.shows
        BY <4>1, <4>2 DEF CurrentType
      <4>4. r.shows # "undefined"
        BY <2>3 DEF Replies, States
      <4> QED BY <3>3, <4>3, <4>4
    <3> QED BY <3>1, <3>2, <3>3
  <2>7. ASSUME NEW j \in 1..Len(q) PROVE Prev(u, j)' = 0 <=> Prev(u, j + 1) = 0
    <3>1. j + 1 # 1 /\ (j + 1) - 1 = j
      BY <1>2
    <3>2. CASE j = 1
      BY <2>1, <2>6, <3>1, <3>2 DEF Prev
    <3>3. CASE j # 1
      <4>1. j - 1 \in 1..(Len(q) - 1) /\ ~(j - 1 < i) /\ (j - 1) + 1 = j
        BY <1>2, <2>1, <3>3
      <4>2. replies'[u][j - 1] = q[j]
        BY <1>2, <4>1
      <4> QED BY <3>1, <3>3, <4>2 DEF Prev
    <3> QED BY <3>2, <3>3
  <2>8. ASSUME NEW j \in 1..Len(replies'[u]), replies'[u][j].brings \in {"answer", "candidate"}
        PROVE  Prev(u, j)' # 0
    <3>1. j \in 1..(Len(q) - 1) /\ j \in 1..Len(q) /\ j + 1 \in 1..Len(q) /\ ~(j < i)
      BY <1>2, <2>1, <2>8
    <3>2. replies'[u][j] = q[j + 1]
      BY <1>2, <3>1
    <3> QED BY <2>2, <2>7, <2>8, <3>1, <3>2 DEF PollingOK
  <2>9. Latest(u)' = 0 => Latest(u) = 0
    <3>1. PICK n \in 1..Len(q) : n = Len(q) /\ Len(replies'[u]) + 1 = n
      BY <1>2, <2>1
    <3>2. Latest(u)' = Prev(u, n)'
      BY <3>1 DEF Latest, Prev
    <3> QED BY <2>7, <3>1, <3>2 DEF Latest
  <2>10. ASSUME NEW t \in listed', u \in Parties(t)', Latest(u)' = 0 PROVE Unheard(u, t)'
    <3>1. t \in listed /\ u \in Parties(t) /\ t \in Sessions
      BY <1>1, <2>10 DEF serverVars, sessVars, Parties, TypeInv, ServerType
    <3>2. Unheard(u, t)
      BY <2>2, <2>9, <2>10, <3>1 DEF PollingOK
    <3> QED BY <1>1, <1>3, <3>1, <3>2 DEF Unheard, Silent, serverVars, sessVars
  <2> HIDE DEF q, r
  <2> QED BY <1>5, <2>5, <2>6, <2>8, <2>10 DEF PollingOK
<1> QED BY <1>4, <1>5

LEMMA PollingStep ==
  ASSUME TypeInv, ToldInv, BegunInv, PollingInv, [Next]_vars PROVE PollingInv'
<1> SUFFICES ASSUME NEW w \in Users, Calm(w)' PROVE PollingOK(w)'
  BY DEF PollingInv
<1>1. ASSUME NEW u \in Users, NEW i \in 1..Len(replies[u]), Receive(u, i) PROVE PollingOK(w)'
  BY <1>1, ReceivePolling
<1>2. ASSUME NEW u \in Users, Poll(u) PROVE PollingOK(w)'
  <2>1. Calm(w)
    BY <1>2 DEF Poll, Calm
  <2> QED BY <1>2, <2>1, PollPolling
<1>3. ASSUME NEW u \in Users, NEW r \in asked[u], Begin(u, r) \/ Serve(u, r) PROVE PollingOK(w)'
  <2>1. Calm(w)
    BY <1>3 DEF Begin, Serve, Calm
  <2> QED BY <1>3, <2>1, BeginPolling, ServePolling
<1>4. ASSUME NEW u \in Users,
             \/ UserStep(u) \/ Gather(u) \/ DropPresence(u)
             \/ \E r \in making[u] : Described(u, r)
             \/ \E s \in Sessions : Remove(s)
      PROVE  PollingOK(w)'
  <2>1. Calm(w)
    BY <1>4, ClicksCalm
    DEF UserStep, AnswerClick, TerminateClick, InviteClick, Gather, DropPresence, Described, Remove, Calm
  <2>2. UNCHANGED <<current, poll, replies, sessVars>> /\ listed' \subseteq listed
    BY <1>4
    DEF UserStep, AnswerClick, TerminateClick, InviteClick, Gather, DropPresence, Described, Remove,
        serverVars, pageVars
  <2>3. Silent
    BY <1>4, UserSilent
  <2> QED BY <2>1, <2>2, <2>3, PollingAlone
<1>5. ASSUME NEW u \in Users, Fail(u) \/ Reload(u) PROVE PollingOK(w)'
  <2>1. w # u /\ Calm(w)
    BY <1>5, HappensCalm DEF Fail, Reload
  <2>2. UNCHANGED <<current[w], poll[w], replies[w], sessVars, listed>>
    BY <1>5, <2>1 DEF Fail, Reload, serverVars, TypeInv, PagesOK, RepliesOK
  <2>3. Silent
    BY <1>5, FailSilent, ReloadSilent
  <2> QED BY <2>1, <2>2, <2>3, PollingAlone
<1>6. CASE UNCHANGED vars
  <2>1. Calm(w)
    BY <1>6 DEF vars, Calm
  <2>2. UNCHANGED <<current, poll, replies, asked, sessVars, listed>>
    BY <1>6 DEF vars, serverVars, pageVars
  <2> QED BY <2>1, <2>2, QuietSilent, PollingAlone
<1>7. ASSUME NEW s \in Sessions, Remove(s) PROVE PollingOK(w)'
  BY <1>4, <1>7
<1> QED BY <1>1, <1>2, <1>3, <1>4, <1>5, <1>6, <1>7 DEF Next, PageStep

\* A page polls on for ever, for any number of users, calls and replies under way, as
\* long as none of its requests fails, its replies come in order and it is not loaded
\* anew: whatever reads SessionInfo then finds one (webrtc.js:39-59).
THEOREM PagesPollOn == Spec => []PollingGoesOn
<1>1. Init => PollingInv
  <2> SUFFICES ASSUME Init PROVE PollingInv
    OBVIOUS
  <2>1. \A u \in Users : poll[u] = "timer" /\ current[u] = Null /\ replies[u] = <<>> /\ listed = {}
    BY DEF Init, ServerInit
  <2>2. Len(<<>>) = 0
    OBVIOUS
  <2> QED BY <2>1, <2>2 DEF PollingInv, PollingOK
<1>2. TypeInv /\ ToldInv /\ BegunInv /\ PollingInv /\ [Next]_vars => PollingInv'
  BY PollingStep
<1>3. PollingInv => PollingGoesOn
  BY DEF PollingInv, PollingOK, PollingGoesOn, Calm
<1> QED BY <1>1, <1>2, <1>3, AlwaysTyped, AlwaysTold, AlwaysBegun, PTL DEF Spec

------------------------------------------------------------------------------
(* Whose connection a description is of, while everybody clicks once.       *)

\* Nobody has called, answered or terminated a second time.
NobodyAgain == \A u \in Users : <<u, "again">> \notin mishap

\* The offers and answers of a page that the server has not seen.
Opens(r) == r.method \in {"offer", "answer"}
Opening(u) == {r \in making[u] \cup asked[u] : Opens(r)}

\* Nobody was offered or answered with connection k.
Unused(k) == \A s \in Sessions : offer[s] # k /\ answer[s] # k

\* A user has one connection, which goes into one offer or one answer.
ConnsInv ==
  /\ \A j, k \in Conns : owner[j] = owner[k] /\ owner[j] # NoUser => j = k
  /\ \A u \in Users : \A r \in Opening(u) :
       /\ \A k \in r.body : owner[k] = u /\ Unused(k)
       /\ \A q \in Opening(u) : q = r
       /\ ~(r \in making[u] /\ r \in asked[u])
  /\ \A s \in Sessions :
       /\ state[s] = "none" => offer[s] = 0 /\ answer[s] = 0
       /\ state[s] # "none" => Parties(s) \subseteq Users /\ owner[offer[s]] = caller[s]
       /\ answer[s] # 0 => owner[answer[s]] = callee[s]
  /\ \A s, t \in Sessions :
       /\ offer[s] = offer[t] /\ offer[s] # 0 => s = t
       /\ answer[s] = answer[t] /\ answer[s] # 0 => s = t
       /\ offer[s] = answer[t] => offer[s] = 0

\* What a step may do to connections and to the offers and answers of them.
SameCalls ==
  /\ UNCHANGED <<caller, callee>>
  /\ \A s \in Sessions : state'[s] = "none" <=> state[s] = "none"
ConnsKept ==
  /\ SameCalls /\ UNCHANGED <<owner, offer, answer>>
  /\ \A u \in Users : /\ making'[u] \subseteq making[u]
                      /\ \A r \in asked'[u] : Opens(r) => r \in asked[u]
Clicked(u, k, r) ==
  /\ SameCalls /\ UNCHANGED <<offer, answer, asked>>
  /\ Connect(u, k) /\ Clicks(u, ~HasConnected(u))
  /\ Opens(r) /\ r.body = {k} /\ making' = [making EXCEPT ![u] = @ \cup {r}]
  /\ r.method = "answer" => remote'[k] = current[u].offer /\ current[u].offer # 0
Sent(u, r, q) ==
  /\ SameCalls /\ UNCHANGED <<owner, offer, answer>>
  /\ r \in making[u] /\ Opens(q) /\ q.method = r.method /\ q.body = r.body
  /\ making' = [making EXCEPT ![u] = @ \ {r}] /\ asked' = [asked EXCEPT ![u] = @ \cup {q}]
Offered(u, r, k, s) ==
  /\ \E v \in Users : NewCall(u, v, s)
  /\ UNCHANGED <<owner, making, answer>> /\ offer' = [offer EXCEPT ![s] = k]
  /\ r \in asked[u] /\ r.method = "offer" /\ r.body = {k} /\ asked' = [asked EXCEPT ![u] = @ \ {r}]
Answered(u, r, k, s) ==
  /\ SameCalls /\ s \in listed /\ callee[s] = u /\ state'[s] = "ANSWERED"
  /\ UNCHANGED <<owner, making, offer>> /\ answer' = [answer EXCEPT ![s] = k]
  /\ r \in asked[u] /\ r.method = "answer" /\ r.sess = s /\ r.body = {k}
  /\ asked' = [asked EXCEPT ![u] = @ \ {r}]
Begun(u, r, q) ==
  /\ SameCalls /\ UNCHANGED <<owner, offer, answer, making>>
  /\ r \in asked[u] /\ Opens(r) /\ Opens(q) /\ q.body = r.body /\ q.method = r.method
  /\ asked' = [asked EXCEPT ![u] = (@ \ {r}) \cup {q}]
Restarted(u) ==
  /\ SameCalls /\ UNCHANGED <<owner, offer, answer>>
  /\ making' = [making EXCEPT ![u] = {}] /\ asked' = [asked EXCEPT ![u] = Abandoned(u)]

ConnsMove ==
  \/ ConnsKept
  \/ \E u \in Users, r, q \in Requests : Begun(u, r, q)
  \/ \E u \in Users : Restarted(u)
  \/ \E u \in Users, k \in Conns, r \in Requests : Clicked(u, k, r)
  \/ \E u \in Users, r, q \in Requests : Sent(u, r, q)
  \/ \E u \in Users, k \in Conns, r \in Requests, s \in Sessions : Offered(u, r, k, s) \/ Answered(u, r, k, s)

LEMMA ConnsSteady ==
  ASSUME TypeInv, SameCalls, UNCHANGED <<owner, offer, answer>>,
         \A u \in Users : /\ making'[u] \subseteq making[u]
                          /\ \A r \in asked'[u] : Opens(r) => r \in asked[u]
  PROVE  ConnsMove
BY DEF ConnsMove, ConnsKept

LEMMA ServeConns ==
  ASSUME TypeInv, NEW u \in Users, NEW r \in asked[u], Serve(u, r)
  PROVE  ConnsMove
<1>1. /\ asked' = [asked EXCEPT ![u] = @ \ {r}] /\ UNCHANGED <<owner, making>> /\ RequestOK(r)
      /\ \A w \in Users : asked'[w] \subseteq asked[w]
      /\ r \in Requests
  BY DEF Serve, pageVars, connVars, TypeInv, AskedOK
<1>2. CallsKept => SameCalls
  BY DEF CallsKept, SameCalls
<1>3. ASSUME UNCHANGED <<offer, answer>>, CallsKept PROVE ConnsMove
  BY <1>1, <1>2, <1>3, ConnsSteady
<1>4. CASE Rejected
  BY <1>3, <1>4 DEF Rejected, sessVars, dataVars, CallsKept
<1>5. CASE r.method = "offer" /\ ServeOffer(u, r) /\ ~Rejected
  <2>1. PICK k \in Conns : r.body = {k} /\ (CHOOSE j \in Conns : j \in r.body) = k
    BY <1>1, <1>5, TheBody DEF RequestOK
  <2>2. PICK s \in Sessions :
          NewCall(u, r.peer, s) /\ UNCHANGED answer
          /\ offer' = [offer EXCEPT ![s] = CHOOSE j \in Conns : j \in r.body]
    BY <1>5 DEF ServeOffer, NewCall
  <2>3. r.peer \in Users
    BY <1>1, <1>5 DEF RequestOK
  <2>4. Offered(u, r, k, s)
    BY <1>1, <1>5, <2>1, <2>2, <2>3 DEF Offered
  <2> QED BY <1>1, <2>4 DEF ConnsMove
<1>6. CASE r.method = "answer" /\ ServeAnswer(u, r) /\ ~Rejected
  <2>1. PICK k \in Conns : r.body = {k} /\ (CHOOSE j \in Conns : j \in r.body) = k
    BY <1>1, <1>6, TheBody DEF RequestOK
  <2>2. /\ r.sess \in listed /\ callee[r.sess] = u /\ SetState(r.sess, "ANSWERED") /\ UNCHANGED offer
        /\ answer' = [answer EXCEPT ![r.sess] = CHOOSE j \in Conns : j \in r.body]
    BY <1>6 DEF ServeAnswer
  <2>3. r.sess \in Sessions /\ state'[r.sess] = "ANSWERED" /\ SameCalls
    BY <2>2 DEF SetState, SameCalls, TypeInv, ServerType
  <2>4. Answered(u, r, k, r.sess)
    BY <1>1, <1>6, <2>1, <2>2, <2>3 DEF Answered
  <2> QED BY <1>1, <2>3, <2>4 DEF ConnsMove
<1>7. CASE /\ ServeCandidate(u, r) \/ ServeEstablished(u, r) \/ ServeTerminate(u, r)
           /\ ~Rejected
  <2>1. UNCHANGED <<offer, answer, caller, callee, listed>>
    BY <1>7 DEF ServeCandidate, ServeEstablished, ServeTerminate, SetState, dataVars
  <2>2. ~\E v \in Users, s \in Sessions : NewCall(u, v, s)
    BY <2>1 DEF NewCall, IsNew, TypeInv, ServerType
  <2> QED BY <1>3, <2>1, <2>2, ServeCalls
<1> QED BY <1>4, <1>5, <1>6, <1>7 DEF Serve

LEMMA NextConns ==
  ASSUME TypeInv, [Next]_vars
  PROVE  ConnsMove
<1>1. ASSUME NEW u \in Users, NEW v \in Users, InviteClick(u, v) PROVE ConnsMove
  <2>1. PICK k \in Conns :
          /\ Connect(u, k)
          /\ making' = [making EXCEPT ![u] = @ \cup {[Request("offer", 0, {k}) EXCEPT !.peer = v]}]
    BY <1>1 DEF InviteClick
  <2> DEFINE r == [Request("offer", 0, {k}) EXCEPT !.peer = v]
  <2>2. r \in Requests /\ Opens(r) /\ r.method = "offer" /\ r.body = {k}
    BY DEF Request, Requests, Methods, Bodies, Opens
  <2> HIDE DEF r
  <2>3. Clicked(u, k, r)
    BY <1>1, <2>1, <2>2 DEF InviteClick, Clicked, SameCalls, serverVars, sessVars, dataVars, r
  <2> QED BY <2>2, <2>3 DEF ConnsMove
<1>2. ASSUME NEW u \in Users, AnswerClick(u) PROVE ConnsMove
  <2>1. PICK k \in Conns :
          /\ Connect(u, k) /\ remote' = [remote EXCEPT ![k] = current[u].offer]
          /\ making' = [making EXCEPT ![u] = @ \cup {Request("answer", 0, {k})}]
    BY <1>2 DEF AnswerClick
  <2> DEFINE r == Request("answer", 0, {k})
  <2>2. r \in Requests /\ Opens(r) /\ r.body = {k}
    BY ServerAssumption DEF Request, Requests, Methods, Bodies, Opens
  <2> HIDE DEF r
  <2>3. remote'[k] = current[u].offer /\ current[u].offer # 0
    BY <1>2, <2>1 DEF AnswerClick, TypeInv, PagesOK
  <2>4. Clicked(u, k, r)
    BY <1>2, <2>1, <2>2, <2>3 DEF AnswerClick, Clicked, SameCalls, serverVars, sessVars, dataVars, r
  <2> QED BY <2>2, <2>4 DEF ConnsMove
<1>3. ASSUME NEW u \in Users, NEW r \in making[u], Described(u, r) PROVE ConnsMove
  <2>1. /\ UNCHANGED <<serverVars, owner>> /\ making' = [making EXCEPT ![u] = @ \ {r}]
        /\ r \in Requests /\ Opens(r)
    BY <1>3 DEF Described, connVars, TypeInv, MakingOK, Opens
  <2>2. UNCHANGED <<offer, answer>> /\ SameCalls
    BY <2>1 DEF serverVars, sessVars, dataVars, SameCalls
  <2>3. CASE UNCHANGED asked
    BY <2>1, <2>2, <2>3, ConnsSteady DEF TypeInv, MakingOK
  <2>4. ASSUME NEW q \in Requests, q.method = r.method, q.body = r.body, Asks(u, {q}) PROVE ConnsMove
    <3>1. Sent(u, r, q)
      BY <2>1, <2>2, <2>4 DEF Sent, Asks, Opens
    <3> QED BY <2>1, <3>1 DEF ConnsMove
  <2>5. current[u].sess \in Sessions \cup {0}
    BY DEF TypeInv, PagesOK
  <2>6. /\ [r EXCEPT !.sess = current[u].sess] \in Requests
        /\ [r EXCEPT !.sess = current[u].sess].method = r.method
        /\ [r EXCEPT !.sess = current[u].sess].body = r.body
    BY <2>1, <2>5 DEF Requests
  <2> QED BY <1>3, <2>1, <2>3, <2>4, <2>6 DEF Described
<1>4. ASSUME NEW u \in Users, Poll(u) PROVE ConnsMove
  <2>1. SameCalls
    BY <1>4, PollCalls DEF CallsKept, SameCalls
  <2> QED BY <1>4, <2>1, ConnsSteady DEF Poll, ServePoll, serverVars, dataVars, connVars
<1>5. ASSUME NEW u \in Users, NEW i \in 1..Len(replies[u]), Receive(u, i) PROVE ConnsMove
  <2>1. UNCHANGED <<serverVars, making, owner>>
    BY <1>5 DEF Receive
  <2>2. UNCHANGED <<offer, answer>> /\ SameCalls
    BY <2>1 DEF serverVars, sessVars, dataVars, SameCalls
  <2>3. ASSUME NEW w \in Users, NEW r \in asked'[w], Opens(r) PROVE r \in asked[w]
    <3>1. CASE UNCHANGED asked
      BY <2>3, <3>1
    <3>2. CASE Process(u, replies[u][i])
      <4>1. \A q \in FollowUps(u, replies[u][i]) : ~Opens(q)
        BY DEF FollowUps, Request, Opens
      <4> QED BY <2>3, <3>2, <4>1 DEF Process, Asks, TypeInv, AskedOK
    <3> QED BY <1>5, <3>1, <3>2 DEF Receive
  <2> QED BY <2>1, <2>2, <2>3, ConnsSteady
<1>6. ASSUME NEW u \in Users, TerminateClick(u) PROVE ConnsMove
  <2>1. ~Opens(Request("terminate", current[u].sess, {}))
    BY DEF Request, Opens
  <2> QED
    BY <1>6, <2>1, ConnsSteady
    DEF TerminateClick, Asks, serverVars, sessVars, dataVars, pageVars, connVars, SameCalls, TypeInv, AskedOK
<1>7. CASE \/ \E s \in Sessions : Remove(s)
           \/ \E u \in Users : Fail(u) \/ DropPresence(u) \/ Gather(u)
           \/ UNCHANGED vars
  <2>1. SameCalls /\ UNCHANGED <<owner, offer, answer>>
    BY <1>7 DEF Remove, Fail, DropPresence, Gather, vars, serverVars, sessVars, dataVars,
                connVars, SameCalls
  <2>2. \A w \in Users : making'[w] \subseteq making[w] /\ asked'[w] \subseteq asked[w]
    BY <1>7 DEF Remove, Fail, DropPresence, Gather, vars, pageVars, TypeInv, MakingOK, AskedOK
  <2> QED BY <2>1, <2>2, ConnsSteady
<1>8. ASSUME NEW u \in Users, Reload(u) PROVE ConnsMove
  <2>1. Restarted(u)
    BY <1>8 DEF Reload, Restarted, SameCalls, serverVars, sessVars, dataVars
  <2> QED BY <2>1 DEF ConnsMove
<1>9. ASSUME NEW u \in Users, NEW r \in asked[u], Begin(u, r) PROVE ConnsMove
  <2> DEFINE q == [r EXCEPT !.at = "begun"]
  <2>1. /\ SameCalls /\ UNCHANGED <<owner, offer, answer, making>>
        /\ asked' = [asked EXCEPT ![u] = (@ \ {r}) \cup {q}]
    BY <1>9 DEF Begin, SameCalls, dataVars, pageVars, connVars
  <2>2. r \in Requests /\ q \in Requests /\ q.method = r.method /\ q.body = r.body
    BY DEF TypeInv, AskedOK, Requests
  <2> HIDE DEF q
  <2>3. CASE Opens(r)
    <3>1. Begun(u, r, q)
      BY <2>1, <2>2, <2>3 DEF Begun, Opens
    <3> QED BY <2>2, <3>1 DEF ConnsMove
  <2>4. CASE ~Opens(r)
    <3>1. \A w \in Users : \A x \in asked'[w] : Opens(x) => x \in asked[w]
      BY <2>1, <2>2, <2>4 DEF Opens, TypeInv, AskedOK
    <3> QED BY <2>1, <3>1, ConnsSteady
  <2> QED BY <2>3, <2>4
<1> QED
  BY <1>1, <1>2, <1>3, <1>4, <1>5, <1>6, <1>7, <1>8, <1>9, ServeConns DEF Next, PageStep, UserStep

\* Without a second click, whoever clicks has no connection yet.
LEMMA FirstClick ==
  ASSUME TypeInv, NobodyAgain', NEW u \in Users, Clicks(u, ~HasConnected(u))
  PROVE  \A k \in Conns : owner[k] # u
BY DEF Clicks, Happens, NobodyAgain, HasConnected

LEMMA KeptConns ==
  ASSUME ConnsInv, ConnsKept PROVE ConnsInv'
<1>1. \A u \in Users : /\ Opening(u)' \subseteq Opening(u)
                       /\ \A r \in Opening(u)' : r \in making'[u] => r \in making[u]
                       /\ \A r \in Opening(u)' : r \in asked'[u] => r \in asked[u]
  BY DEF ConnsKept, Opening, Opens
<1>2. \A k : Unused(k)' <=> Unused(k)
  BY DEF ConnsKept, Unused
<1> QED BY <1>1, <1>2 DEF ConnsInv, ConnsKept, SameCalls, Parties

LEMMA ClickedConns ==
  ASSUME TypeInv, ConnsInv, NobodyAgain', NEW u \in Users, NEW k \in Conns, NEW r, Clicked(u, k, r)
  PROVE  ConnsInv'
<1>1. \A j \in Conns : owner[j] # u
  BY FirstClick DEF Clicked
<1>2. owner[k] = NoUser /\ \A j \in Conns : owner'[j] = IF j = k THEN u ELSE owner[j]
  BY DEF Clicked, Connect, TypeInv, PagesOK
<1>3. SameCalls /\ UNCHANGED <<offer, answer, asked>>
  BY DEF Clicked
<1>4. /\ u # NoUser
      /\ \A s \in Sessions : /\ offer[s] # 0 => offer[s] \in Conns /\ owner[offer[s]] # NoUser
                             /\ answer[s] # 0 => answer[s] \in Conns /\ owner[answer[s]] # NoUser
                             /\ state[s] # "none" => offer[s] \in Conns
  BY ServerAssumption DEF TypeInv, DataOK, ConnsInv, Parties
<1>5. Unused(k)
  BY <1>2, <1>4, ConnsFacts DEF Unused
<1>6. Opening(u) = {}
  <2> SUFFICES ASSUME NEW q \in Opening(u) PROVE FALSE
    OBVIOUS
  <2>1. Description(q.body)
    BY DEF Opening, Opens, TypeInv, MakingOK, AskedOK, RequestOK
  <2> QED BY <1>1, <2>1 DEF Description, ConnsInv
<1>7. \A w \in Users : making'[w] = IF w = u THEN making[w] \cup {r} ELSE making[w]
  BY DEF Clicked, TypeInv, MakingOK
<1>8. /\ \A w \in Users : w # u => Opening(w)' = Opening(w)
      /\ Opening(u)' = {r} /\ r \notin asked'[u] /\ Opens(r)
  BY <1>3, <1>6, <1>7 DEF Opening, Opens, Clicked
<1>9. \A j : Unused(j)' <=> Unused(j)
  BY <1>3 DEF Unused
<1>10. \A w \in Users : \A q \in Opening(w)' :
         /\ \A j \in q.body : owner'[j] = w /\ Unused(j)'
         /\ \A p \in Opening(w)' : p = q
         /\ ~(q \in making'[w] /\ q \in asked'[w])
  <2>1. ASSUME NEW w \in Users, w # u, NEW q \in Opening(w)
        PROVE  Description(q.body) /\ \A j \in q.body : j \in Conns /\ j # k
    <3>1. Description(q.body)
      BY DEF Opening, Opens, TypeInv, MakingOK, AskedOK, RequestOK
    <3>2. \A j \in q.body : owner[j] = w
      BY DEF ConnsInv
    <3> QED BY <1>2, <3>1, <3>2, ServerAssumption DEF Description
  <2>2. ASSUME NEW w \in Users, w # u, NEW q \in Opening(w)'
        PROVE  /\ \A j \in q.body : owner'[j] = w /\ Unused(j)'
               /\ \A p \in Opening(w)' : p = q
               /\ ~(q \in making'[w] /\ q \in asked'[w])
    <3>1. q \in Opening(w) /\ Opening(w)' = Opening(w) /\ making'[w] = making[w] /\ asked'[w] = asked[w]
      BY <1>3, <1>7, <1>8, <2>2
    <3>2. \A j \in q.body : owner[j] = w /\ Unused(j) /\ j \in Conns /\ j # k
      BY <2>1, <2>2, <3>1 DEF ConnsInv
    <3>3. \A j \in q.body : owner'[j] = w /\ Unused(j)'
      BY <1>2, <1>9, <3>2
    <3> QED BY <3>1, <3>3 DEF ConnsInv
  <2>3. \A j \in r.body : owner'[j] = u /\ Unused(j)'
    BY <1>2, <1>5, <1>9 DEF Clicked
  <2> QED BY <1>8, <2>2, <2>3
<1>11. \A j, i \in Conns : owner'[j] = owner'[i] /\ owner'[j] # NoUser => j = i
  BY <1>1, <1>2 DEF ConnsInv
<1>12. \A s \in Sessions :
       /\ state'[s] = "none" => offer'[s] = 0 /\ answer'[s] = 0
       /\ state'[s] # "none" => Parties(s)' \subseteq Users /\ owner'[offer'[s]] = caller'[s]
       /\ answer'[s] # 0 => owner'[answer'[s]] = callee'[s]
  <2>1. \A s \in Sessions : offer[s] # k /\ answer[s] # k
    BY <1>5 DEF Unused
  <2> QED BY <1>2, <1>3, <1>4, <2>1 DEF ConnsInv, SameCalls, Parties
<1>13. \A s, t \in Sessions :
       /\ offer'[s] = offer'[t] /\ offer'[s] # 0 => s = t
       /\ answer'[s] = answer'[t] /\ answer'[s] # 0 => s = t
       /\ offer'[s] = answer'[t] => offer'[s] = 0
  BY <1>3 DEF ConnsInv
<1> QED BY <1>10, <1>11, <1>12, <1>13 DEF ConnsInv

LEMMA SentConns ==
  ASSUME TypeInv, ConnsInv, NEW u \in Users, NEW r, NEW q, Sent(u, r, q)
  PROVE  ConnsInv'
<1>1. SameCalls /\ UNCHANGED <<owner, offer, answer>> /\ r \in making[u] /\ Opens(q) /\ q.body = r.body
  BY DEF Sent
<1>2. \A w \in Users : /\ making'[w] = IF w = u THEN making[w] \ {r} ELSE making[w]
                       /\ asked'[w] = IF w = u THEN asked[w] \cup {q} ELSE asked[w]
  BY DEF Sent, TypeInv, MakingOK, AskedOK
<1>3. r \in Opening(u)
  BY <1>1 DEF Opening, Opens, TypeInv, MakingOK
<1>4. \A p \in Opening(u) : p = r
  BY <1>3 DEF ConnsInv
<1>5. Opening(u)' = {q} /\ q \notin making'[u]
  <2>1. ASSUME NEW p \in Opening(u)' PROVE p = q
    <3>1. p \in (making[u] \ {r}) \cup asked[u] \cup {q} /\ Opens(p)
      BY <1>2 DEF Opening, Opens
    <3>2. CASE p # q
      <4>1. p \in Opening(u)
        BY <3>1, <3>2 DEF Opening
      <4>2. p = r /\ p \in asked[u]
        BY <1>4, <3>1, <3>2, <4>1
      <4> QED BY <1>1, <1>3, <4>2 DEF ConnsInv
    <3> QED BY <3>2
  <2>2. q \in Opening(u)'
    BY <1>1, <1>2 DEF Opening, Opens
  <2>3. q \in making'[u] => q = r
    BY <1>1, <1>2, <1>4 DEF Opening
  <2> QED BY <1>2, <2>1, <2>2, <2>3
<1>6. \A w \in Users : w # u => Opening(w)' = Opening(w) /\ making'[w] = making[w] /\ asked'[w] = asked[w]
  BY <1>2 DEF Opening, Opens
<1>7. \A j : Unused(j)' <=> Unused(j)
  BY <1>1 DEF Unused
<1>8. \A j \in q.body : owner'[j] = u /\ Unused(j)'
  BY <1>1, <1>3, <1>7 DEF ConnsInv
<1>9. \A w \in Users : \A p \in Opening(w)' :
         /\ \A j \in p.body : owner'[j] = w /\ Unused(j)'
         /\ \A o \in Opening(w)' : o = p
         /\ ~(p \in making'[w] /\ p \in asked'[w])
  <2>1. ASSUME NEW w \in Users, w # u, NEW p \in Opening(w)'
        PROVE  /\ \A j \in p.body : owner'[j] = w /\ Unused(j)'
               /\ \A o \in Opening(w)' : o = p
               /\ ~(p \in making'[w] /\ p \in asked'[w])
    BY <1>1, <1>6, <1>7, <2>1 DEF ConnsInv
  <2> QED BY <1>5, <1>8, <2>1
<1> QED BY <1>1, <1>9 DEF ConnsInv, SameCalls, Parties

LEMMA BegunConns ==
  ASSUME TypeInv, ConnsInv, NEW u \in Users, NEW r, NEW q, Begun(u, r, q)
  PROVE  ConnsInv'
<1>1. /\ SameCalls /\ UNCHANGED <<owner, offer, answer, making>>
      /\ r \in asked[u] /\ Opens(r) /\ Opens(q) /\ q.body = r.body
      /\ \A w \in Users : asked'[w] = IF w = u THEN (asked[u] \ {r}) \cup {q} ELSE asked[w]
  BY DEF Begun, TypeInv, AskedOK
<1>2. r \in Opening(u)
  BY <1>1 DEF Opening
<1>3. (\A p \in Opening(u) : p = r) /\ r \notin making[u]
  BY <1>1, <1>2 DEF ConnsInv
<1>4. \A p \in making[u] : ~Opens(p)
  BY <1>3 DEF Opening
<1>5. Opening(u)' = {q} /\ q \notin making'[u]
  BY <1>1, <1>3, <1>4 DEF Opening, Opens
<1>6. \A w \in Users : w # u => Opening(w)' = Opening(w) /\ making'[w] = making[w] /\ asked'[w] = asked[w]
  BY <1>1 DEF Opening, Opens
<1>7. \A j : Unused(j)' <=> Unused(j)
  BY <1>1 DEF Unused
<1>8. \A j \in q.body : owner'[j] = u /\ Unused(j)'
  BY <1>1, <1>2, <1>7 DEF ConnsInv
<1>9. \A w \in Users : \A p \in Opening(w)' :
         /\ \A j \in p.body : owner'[j] = w /\ Unused(j)'
         /\ \A o \in Opening(w)' : o = p
         /\ ~(p \in making'[w] /\ p \in asked'[w])
  <2>1. ASSUME NEW w \in Users, w # u, NEW p \in Opening(w)'
        PROVE  /\ \A j \in p.body : owner'[j] = w /\ Unused(j)'
               /\ \A o \in Opening(w)' : o = p
               /\ ~(p \in making'[w] /\ p \in asked'[w])
    BY <1>1, <1>6, <1>7, <2>1 DEF ConnsInv
  <2> QED BY <1>5, <1>8, <2>1
<1> QED BY <1>1, <1>9 DEF ConnsInv, SameCalls, Parties

LEMMA RestartedConns ==
  ASSUME TypeInv, ConnsInv, NEW u \in Users, Restarted(u)
  PROVE  ConnsInv'
<1>1. /\ SameCalls /\ UNCHANGED <<owner, offer, answer>>
      /\ \A w \in Users : making'[w] = IF w = u THEN {} ELSE making[w]
      /\ \A w \in Users : asked'[w] = IF w = u THEN Abandoned(u) ELSE asked[w]
  BY DEF Restarted, TypeInv, MakingOK, AskedOK
<1>2. \A w \in Users : w # u => Opening(w)' = Opening(w) /\ making'[w] = making[w] /\ asked'[w] = asked[w]
  BY <1>1 DEF Opening, Opens
<1>3. \A j : Unused(j)' <=> Unused(j)
  BY <1>1 DEF Unused
<1>4. ASSUME NEW p \in Opening(u)'
      PROVE  \E r \in Opening(u) : p = [r EXCEPT !.at = "abandoned"] /\ p.body = r.body
  <2>1. p \in Abandoned(u) /\ Opens(p)
    BY <1>1 DEF Opening, Opens
  <2>2. PICK r \in asked[u] : p = [r EXCEPT !.at = "abandoned"]
    BY <2>1 DEF Abandoned
  <2>3. r \in Requests
    BY DEF TypeInv, AskedOK
  <2>4. p.method = r.method /\ p.body = r.body
    BY <2>2, <2>3 DEF Requests
  <2> QED BY <2>1, <2>2, <2>4 DEF Opening, Opens
<1>5. ASSUME NEW p \in Opening(u)'
      PROVE  /\ \A j \in p.body : owner'[j] = u /\ Unused(j)'
             /\ \A o \in Opening(u)' : o = p
  <2>1. PICK r \in Opening(u) : p = [r EXCEPT !.at = "abandoned"] /\ p.body = r.body
    BY <1>4
  <2>2. \A o \in Opening(u)' : o = p
    BY <1>4, <2>1 DEF ConnsInv
  <2> QED BY <1>1, <1>3, <2>1, <2>2 DEF ConnsInv
<1>6. \A w \in Users : \A p \in Opening(w)' :
         /\ \A j \in p.body : owner'[j] = w /\ Unused(j)'
         /\ \A o \in Opening(w)' : o = p
         /\ ~(p \in making'[w] /\ p \in asked'[w])
  <2>1. ASSUME NEW w \in Users, w # u, NEW p \in Opening(w)'
        PROVE  /\ \A j \in p.body : owner'[j] = w /\ Unused(j)'
               /\ \A o \in Opening(w)' : o = p
               /\ ~(p \in making'[w] /\ p \in asked'[w])
    BY <1>1, <1>2, <1>3, <2>1 DEF ConnsInv
  <2>2. making'[u] = {}
    BY <1>1
  <2> QED BY <1>5, <2>1, <2>2
<1> QED BY <1>1, <1>6 DEF ConnsInv, SameCalls, Parties

\* The server takes the one offer or answer of a page.
LEMMA TakenOpening ==
  ASSUME TypeInv, ConnsInv, UNCHANGED <<owner, making>>, NEW u \in Users, NEW r \in asked[u], Opens(r),
         NEW k \in Conns, r.body = {k}, asked' = [asked EXCEPT ![u] = @ \ {r}],
         \A j \in Conns : j # k /\ Unused(j) => Unused(j)'
  PROVE  /\ owner[k] = u /\ Unused(k)
         /\ \A w \in Users : \A p \in Opening(w)' :
              /\ \A j \in p.body : owner'[j] = w /\ Unused(j)'
              /\ \A o \in Opening(w)' : o = p
              /\ ~(p \in making'[w] /\ p \in asked'[w])
<1>1. r \in Opening(u)
  BY DEF Opening, TypeInv, AskedOK
<1>2. owner[k] = u /\ Unused(k)
  BY <1>1 DEF ConnsInv
<1>3. \A w \in Users : /\ asked'[w] = IF w = u THEN asked[u] \ {r} ELSE asked[w]
                       /\ making'[w] = making[w]
  BY DEF TypeInv, AskedOK
<1>4. \A w \in Users : w # u => Opening(w)' = Opening(w)
  BY <1>3 DEF Opening, Opens
<1>5. Opening(u)' = {}
  <2> SUFFICES ASSUME NEW p \in Opening(u)' PROVE FALSE
    OBVIOUS
  <2>1. p \in Opening(u) /\ (p \in making[u] \/ (p \in asked[u] /\ p # r))
    BY <1>3 DEF Opening, Opens
  <2> QED BY <1>1, <2>1 DEF ConnsInv
<1>6. ASSUME NEW w \in Users, w # u, NEW p \in Opening(w)'
      PROVE  /\ \A j \in p.body : owner'[j] = w /\ Unused(j)'
             /\ \A o \in Opening(w)' : o = p
             /\ ~(p \in making'[w] /\ p \in asked'[w])
  <2>1. p \in Opening(w) /\ Opening(w)' = Opening(w) /\ asked'[w] = asked[w] /\ making'[w] = making[w]
    BY <1>3, <1>4, <1>6
  <2>2. Description(p.body)
    BY <2>1 DEF Opening, Opens, TypeInv, MakingOK, AskedOK, RequestOK
  <2>3. \A j \in p.body : j \in Conns /\ owner[j] = w /\ Unused(j)
    BY <2>1, <2>2 DEF Description, ConnsInv
  <2>4. \A j \in p.body : owner'[j] = w /\ Unused(j)'
    BY <1>2, <1>6, <2>3
  <2> QED BY <2>1, <2>4 DEF ConnsInv
<1> QED BY <1>2, <1>5, <1>6

LEMMA OfferedConns ==
  ASSUME TypeInv, ConnsInv, NEW u \in Users, NEW r, NEW k \in Conns, NEW s \in Sessions,
         Offered(u, r, k, s)
  PROVE  ConnsInv'
<1>1. PICK v \in Users : NewCall(u, v, s)
  BY DEF Offered
<1>2. \A t \in Sessions : /\ caller'[t] = IF t = s THEN u ELSE caller[t]
                          /\ callee'[t] = IF t = s THEN v ELSE callee[t]
                          /\ state'[t] = IF t = s THEN "OFFERED" ELSE state[t]
                          /\ offer'[t] = IF t = s THEN k ELSE offer[t]
                          /\ answer'[t] = answer[t]
  BY <1>1 DEF NewCall, Offered, TypeInv, ServerType, DataOK
<1>3. state[s] = "none" /\ offer[s] = 0 /\ answer[s] = 0
  BY <1>1 DEF NewCall, IsNew, ConnsInv
<1>4. /\ UNCHANGED <<owner, making>> /\ r \in asked[u] /\ Opens(r) /\ r.body = {k}
      /\ asked' = [asked EXCEPT ![u] = @ \ {r}]
  BY DEF Offered, Opens
<1>5. \A j \in Conns : j # k /\ Unused(j) => Unused(j)'
  BY <1>2 DEF Unused
<1>6. /\ owner[k] = u /\ Unused(k)
      /\ \A w \in Users : \A p \in Opening(w)' :
           /\ \A j \in p.body : owner'[j] = w /\ Unused(j)'
           /\ \A o \in Opening(w)' : o = p
           /\ ~(p \in making'[w] /\ p \in asked'[w])
  BY <1>4, <1>5, TakenOpening
<1>7. \A t \in Sessions :
       /\ state'[t] = "none" => offer'[t] = 0 /\ answer'[t] = 0
       /\ state'[t] # "none" => Parties(t)' \subseteq Users /\ owner'[offer'[t]] = caller'[t]
       /\ answer'[t] # 0 => owner'[answer'[t]] = callee'[t]
  BY <1>2, <1>3, <1>4, <1>6 DEF ConnsInv, Parties
<1>8. \A t \in Sessions : offer[t] # k /\ answer[t] # k
  BY <1>6 DEF Unused
<1>9. \A p, t \in Sessions :
       /\ offer'[p] = offer'[t] /\ offer'[p] # 0 => p = t
       /\ answer'[p] = answer'[t] /\ answer'[p] # 0 => p = t
       /\ offer'[p] = answer'[t] => offer'[p] = 0
  BY <1>2, <1>8 DEF ConnsInv
<1> QED BY <1>4, <1>6, <1>7, <1>9 DEF ConnsInv

\* A session is answered once, since its callee has one connection.
LEMMA FirstAnswer ==
  ASSUME TypeInv, ConnsInv, NEW u \in Users, NEW r, NEW k \in Conns, NEW s \in Sessions,
         Answered(u, r, k, s)
  PROVE  answer[s] = 0 /\ owner[k] = u /\ Unused(k)
<1>1. r \in Opening(u)
  BY DEF Answered, Opening, Opens
<1>2. owner[k] = u /\ Unused(k)
  BY <1>1 DEF ConnsInv, Answered
<1>3. ASSUME answer[s] # 0 PROVE FALSE
  <2>1. owner[answer[s]] = u /\ answer[s] \in Conns
    BY <1>3 DEF ConnsInv, Answered, TypeInv, DataOK
  <2>2. answer[s] = k
    BY <1>2, <2>1, ServerAssumption DEF ConnsInv
  <2> QED BY <1>2, <2>2 DEF Unused
<1> QED BY <1>2, <1>3

LEMMA AnsweredConns ==
  ASSUME TypeInv, ConnsInv, NEW u \in Users, NEW r, NEW k \in Conns, NEW s \in Sessions,
         Answered(u, r, k, s)
  PROVE  ConnsInv'
<1>1. SameCalls /\ UNCHANGED <<owner, offer>> /\ callee[s] = u /\ s \in listed
  BY DEF Answered
<1>2. \A t \in Sessions : answer'[t] = IF t = s THEN k ELSE answer[t]
  BY DEF Answered, TypeInv, DataOK
<1>3. /\ UNCHANGED <<owner, making>> /\ r \in asked[u] /\ Opens(r) /\ r.body = {k}
      /\ asked' = [asked EXCEPT ![u] = @ \ {r}]
  BY DEF Answered, Opens
<1>4. \A j \in Conns : j # k /\ Unused(j) => Unused(j)'
  BY <1>1, <1>2 DEF Unused
<1>5. /\ owner[k] = u /\ Unused(k)
      /\ \A w \in Users : \A p \in Opening(w)' :
           /\ \A j \in p.body : owner'[j] = w /\ Unused(j)'
           /\ \A o \in Opening(w)' : o = p
           /\ ~(p \in making'[w] /\ p \in asked'[w])
  BY <1>3, <1>4, TakenOpening
<1>6. \A t \in Sessions :
       /\ state'[t] = "none" => offer'[t] = 0 /\ answer'[t] = 0
       /\ state'[t] # "none" => Parties(t)' \subseteq Users /\ owner'[offer'[t]] = caller'[t]
       /\ answer'[t] # 0 => owner'[answer'[t]] = callee'[t]
  <2>1. state[s] # "none"
    BY <1>1 DEF TypeInv, ServerType
  <2> QED BY <1>1, <1>2, <1>5, <2>1 DEF ConnsInv, SameCalls, Parties
<1>7. \A t \in Sessions : offer[t] # k /\ answer[t] # k
  BY <1>5 DEF Unused
<1>8. \A p, t \in Sessions :
       /\ offer'[p] = offer'[t] /\ offer'[p] # 0 => p = t
       /\ answer'[p] = answer'[t] /\ answer'[p] # 0 => p = t
       /\ offer'[p] = answer'[t] => offer'[p] = 0
  BY <1>1, <1>2, <1>7 DEF ConnsInv
<1> QED BY <1>1, <1>5, <1>6, <1>8 DEF ConnsInv

LEMMA ConnsStep ==
  ASSUME TypeInv, ConnsInv, NobodyAgain', [Next]_vars PROVE ConnsInv'
BY NextConns, KeptConns, BegunConns, RestartedConns, ClickedConns, SentConns, OfferedConns, AnsweredConns
DEF ConnsMove

------------------------------------------------------------------------------
(* What a step may do to the rest.                                          *)

Waiting(u) == {replies[u][i] : i \in 1..Len(replies[u])}

\* A session keeps its users, its offer and its answer.
LEMMA SessionsGrow ==
  ASSUME TypeInv, ConnsInv, [Next]_vars, NEW s \in Sessions
  PROVE  /\ state[s] # "none" => /\ state'[s] # "none" /\ offer'[s] = offer[s]
                                 /\ caller'[s] = caller[s] /\ callee'[s] = callee[s]
         /\ answer[s] # 0 => answer'[s] = answer[s]
<1> DEFINE Goal == /\ state[s] # "none" => /\ state'[s] # "none" /\ offer'[s] = offer[s]
                                           /\ caller'[s] = caller[s] /\ callee'[s] = callee[s]
                   /\ answer[s] # 0 => answer'[s] = answer[s]
<1>1. CASE SameCalls /\ UNCHANGED <<offer, answer>>
  BY <1>1 DEF SameCalls
<1>2. ASSUME NEW u \in Users, NEW k \in Conns, NEW r, NEW t \in Sessions, Offered(u, r, k, t) PROVE Goal
  <2>1. state[t] = "none" /\ (s # t => offer'[s] = offer[s]) /\ UNCHANGED answer
    BY <1>2 DEF Offered, NewCall, IsNew, TypeInv, DataOK
  <2>2. s # t => state'[s] = state[s] /\ caller'[s] = caller[s] /\ callee'[s] = callee[s]
    BY <1>2 DEF Offered, NewCall, TypeInv, ServerType
  <2> QED BY <2>1, <2>2
<1>3. ASSUME NEW u \in Users, NEW k \in Conns, NEW r, NEW t \in Sessions, Answered(u, r, k, t) PROVE Goal
  <2>1. answer[t] = 0
    BY <1>3, FirstAnswer
  <2> QED BY <1>3, <2>1 DEF Answered, SameCalls, TypeInv, DataOK
<1> QED BY <1>1, <1>2, <1>3, NextConns DEF ConnsMove, ConnsKept, Clicked, Sent, Begun, Restarted

\* A connection is given a remote description as it is made, or from an answer.
RemoteMoves(k) ==
  \/ remote'[k] = remote[k]
  \/ \E u \in Users : /\ owner[k] = NoUser /\ owner'[k] = u
                      /\ remote'[k] = current[u].offer /\ current[u].offer # 0
  \/ \E u \in Users : \E r \in Waiting(u) :
       r.brings = "answer" /\ owner[k] = u /\ conn[u] = k /\ r.sess # 0 /\ r.body = {remote'[k]}

LEMMA NextRemote ==
  ASSUME TypeInv, [Next]_vars, NEW k \in Conns
  PROVE  RemoteMoves(k)
<1>1. CASE UNCHANGED remote
  BY <1>1 DEF RemoteMoves
<1>2. ASSUME NEW u \in Users, AnswerClick(u) PROVE RemoteMoves(k)
  <2>1. PICK j \in Conns : Connect(u, j) /\ remote' = [remote EXCEPT ![j] = current[u].offer]
    BY <1>2 DEF AnswerClick
  <2> QED BY <1>2, <2>1 DEF AnswerClick, Connect, RemoteMoves, TypeInv, PagesOK
<1>3. ASSUME NEW u \in Users, NEW i \in 1..Len(replies[u]), Receive(u, i), remote' # remote
      PROVE  RemoteMoves(k)
  <2>1. PICK r \in Waiting(u) : r = replies[u][i]
    BY DEF Waiting
  <2>2. r.sess # 0 /\ Process(u, r)
    BY <1>3, <2>1 DEF Receive
  <2>3. r.brings = "answer" /\ conn[u] # 0
    BY <1>3, <2>2 DEF Process
  <2>4. ReplyOK(r)
    BY <2>1 DEF TypeInv, RepliesOK
  <2>5. PICK j \in Conns : r.body = {j} /\ (CHOOSE x \in Conns : x \in r.body) = j
    BY <2>3, <2>4, TheBody DEF ReplyOK
  <2>6. remote' = [remote EXCEPT ![conn[u]] = j]
    BY <2>2, <2>3, <2>5 DEF Process
  <2>7. CASE k = conn[u]
    BY <2>2, <2>3, <2>5, <2>6, <2>7 DEF RemoteMoves, TypeInv, PagesOK
  <2>8. CASE k # conn[u]
    BY <2>6, <2>8 DEF RemoteMoves, TypeInv, PagesOK
  <2> QED BY <2>7, <2>8
<1>4. CASE \/ \E s \in Sessions : Remove(s)
           \/ \E u \in Users : Fail(u) \/ Reload(u) \/ DropPresence(u) \/ TerminateClick(u) \/ Gather(u)
           \/ \E u, v \in Users : InviteClick(u, v)
           \/ \E u \in Users : Poll(u) \/ \E r \in making[u] : Described(u, r)
           \/ \E u \in Users : \E r \in asked[u] : Begin(u, r) \/ Serve(u, r)
           \/ UNCHANGED vars
  BY <1>1, <1>4 DEF Remove, Fail, Reload, DropPresence, TerminateClick, Gather, InviteClick, Poll,
                    Described, Begin, Serve, vars, connVars
<1> QED BY <1>1, <1>2, <1>3, <1>4 DEF Next, PageStep, UserStep

\* What a reply says that is given in this step.
Fresh(u, r) ==
  LET s == r.sess IN
  \/ /\ r.brings = "nothing"
     /\ (s = 0 /\ r.shows = "none") \/ (s \in Sessions /\ state'[s] # "none" /\ r.shows = state'[s])
  \/ /\ s \in listed /\ u \in Parties(s) /\ \A q \in listed : q < s => u \notin Parties(q)
     /\ r.shows = Delivery(u, s) /\ r.shows # "none" /\ state'[s] = r.shows
     /\ \/ r.shows = "OFFER_DELIVERED" /\ r.brings = "offer" /\ r.body = {offer[s]}
        \/ r.shows = "ANSWER_DELIVERED" /\ r.brings = "answer" /\ r.body = {answer[s]}
        \/ /\ r.shows \in {"CALLER_CANDIDATE_DELIVERED", "CALLEE_CANDIDATE_DELIVERED"}
           /\ r.brings = "candidate"

LEMMA ReplyFresh ==
  ASSUME TypeInv, NEW u \in Users, NEW m, NEW s, NEW v, NEW b, NEW D, Reply(u, m, s, v, b, D),
         Fresh(u, [method |-> m, sess |-> s, shows |-> v, brings |-> b, body |-> D])
  PROVE  \A w \in Users : \A r \in Waiting(w)' : r \in Waiting(w) \/ Fresh(w, r)
<1> DEFINE new == [method |-> m, sess |-> s, shows |-> v, brings |-> b, body |-> D]
           q == replies[u]
<1>1. /\ Len(q) \in Nat /\ Len(replies'[u]) = Len(q) + 1
      /\ \A i \in 1..Len(q) : replies'[u][i] = q[i]
      /\ replies'[u][Len(q) + 1] = new
      /\ \A w \in Users : w # u => replies'[w] = replies[w]
  BY ReplySeq
<1> HIDE DEF new, q
<1> SUFFICES ASSUME NEW w \in Users, NEW r \in Waiting(w)' PROVE r \in Waiting(w) \/ Fresh(w, r)
  OBVIOUS
<1>2. CASE w # u
  BY <1>1, <1>2 DEF Waiting
<1>3. CASE w = u
  <2>1. PICK i \in 1..Len(replies'[u]) : r = replies'[u][i]
    BY <1>3 DEF Waiting
  <2>2. i \in 1..Len(q) \/ i = Len(q) + 1
    BY <1>1, <2>1
  <2>3. i \in 1..Len(q) => r \in Waiting(u)
    BY <1>1, <2>1 DEF Waiting, q
  <2>4. i = Len(q) + 1 => Fresh(u, r)
    BY <1>1, <2>1 DEF new
  <2> QED BY <1>3, <2>2, <2>3, <2>4
<1> QED BY <1>2, <1>3

LEMMA PollReplies ==
  ASSUME TypeInv, NEW u \in Users, Poll(u)
  PROVE  \A w \in Users : \A r \in Waiting(w)' : r \in Waiting(w) \/ Fresh(w, r)
<1>1. CASE UNCHANGED replies
  BY <1>1 DEF Waiting
<1>2. CASE Reply(u, "poll", 0, "none", "nothing", {})
  BY <1>2, ReplyFresh DEF Fresh
<1>3. ASSUME NEW s \in Sessions, IsFirst(s, {q \in listed : u \in Parties(q)}),
             UNCHANGED state, Reply(u, "poll", s, state[s], "nothing", {})
      PROVE  \A w \in Users : \A r \in Waiting(w)' : r \in Waiting(w) \/ Fresh(w, r)
  <2>1. state[s] # "none"
    BY <1>3 DEF IsFirst, TypeInv, ServerType
  <2>2. Fresh(u, [method |-> "poll", sess |-> s, shows |-> state[s], brings |-> "nothing", body |-> {}])
    BY <1>3, <2>1 DEF Fresh
  <2> QED BY <1>3, <2>2, ReplyFresh
<1>4. ASSUME NEW s \in Sessions, IsFirst(s, {q \in listed : u \in Parties(q)}),
             NEW v, v = Delivery(u, s), v # "none", SetState(s, v), NEW b, NEW D,
             \/ v = "OFFER_DELIVERED" /\ b = "offer" /\ D = {offer[s]}
             \/ v = "ANSWER_DELIVERED" /\ b = "answer" /\ D = {answer[s]}
             \/ v \in {"CALLER_CANDIDATE_DELIVERED", "CALLEE_CANDIDATE_DELIVERED"} /\ b = "candidate",
             Reply(u, "poll", s, v, b, D)
      PROVE  \A w \in Users : \A r \in Waiting(w)' : r \in Waiting(w) \/ Fresh(w, r)
  <2>1. s \in listed /\ u \in Parties(s) /\ \A q \in listed : q < s => u \notin Parties(q)
    BY <1>4, SessionsFacts DEF IsFirst, TypeInv, ServerType
  <2>2. state'[s] = v
    BY <1>4 DEF SetState, TypeInv, ServerType
  <2>3. Fresh(u, [method |-> "poll", sess |-> s, shows |-> v, brings |-> b, body |-> D])
    BY <1>4, <2>1, <2>2 DEF Fresh
  <2> QED BY <1>4, <2>3, ReplyFresh
<1>5. CASE ServePoll(u)
  <2> DEFINE mine == {s \in listed : u \in Parties(s)}
  <2>1. CASE mine = {} /\ UNCHANGED sessVars /\ Reply(u, "poll", 0, "none", "nothing", {})
    BY <1>2, <2>1
  <2>2. ASSUME NEW s \in Sessions, IsFirst(s, mine), Delivery(u, s) = "none",
               IF state[s] = "TERMINATED" THEN Marks(s, Peer(u, s)) ELSE UNCHANGED sessVars,
               Reply(u, "poll", s, state[s], "nothing", {})
        PROVE  \A w \in Users : \A r \in Waiting(w)' : r \in Waiting(w) \/ Fresh(w, r)
    BY <1>3, <2>2 DEF Marks, sessVars
  <2> QED BY <1>4, <1>5, <2>1, <2>2 DEF ServePoll
<1> QED BY <1>1, <1>5 DEF Poll

LEMMA ServeReplies ==
  ASSUME TypeInv, ToldInv, NEW u \in Users, NEW r \in asked[u], Serve(u, r)
  PROVE  \A w \in Users : \A p \in Waiting(w)' : p \in Waiting(w) \/ Fresh(w, p)
<1>1. CASE UNCHANGED replies
  BY <1>1 DEF Waiting
<1>2. ASSUME NEW s \in Sessions, state'[s] # "none", NEW m, Reply(u, m, s, state'[s], "nothing", {})
      PROVE  \A w \in Users : \A p \in Waiting(w)' : p \in Waiting(w) \/ Fresh(w, p)
  <2>1. Fresh(u, [method |-> m, sess |-> s, shows |-> state'[s], brings |-> "nothing", body |-> {}])
    BY <1>2 DEF Fresh
  <2> QED BY <1>2, <2>1, ReplyFresh
<1>3. CASE r.method = "offer" /\ ServeOffer(u, r)
  <2>1. CASE Rejected
    BY <1>1, <2>1 DEF Rejected
  <2>2. CASE ~Rejected
    <3>1. PICK s \in Sessions : state' = [state EXCEPT ![s] = "OFFERED"] /\ ReplyTo(u, r, s, "OFFERED")
      BY <1>3, <2>2 DEF ServeOffer
    <3>2. state'[s] = "OFFERED"
      BY <3>1 DEF TypeInv, ServerType
    <3> QED BY <1>1, <1>2, <3>1, <3>2 DEF ReplyTo
  <2> QED BY <2>1, <2>2
<1>4. CASE ServeAnswer(u, r) /\ ~Rejected
  <2>1. /\ r.sess \in listed /\ SetState(r.sess, "ANSWERED")
        /\ Reply(u, "answer", r.sess, "ANSWERED", "nothing", {})
    BY <1>4 DEF ServeAnswer
  <2>2. r.sess \in Sessions /\ state'[r.sess] = "ANSWERED"
    BY <2>1 DEF SetState, TypeInv, ServerType
  <2> QED BY <1>2, <2>1, <2>2
<1>5. CASE ServeCandidate(u, r) /\ ~Rejected
  <2>1. PICK v : /\ v = (IF r.sess \in listed THEN CandidateState(u, r.sess) ELSE "none") /\ v # "none"
                 /\ SetState(r.sess, v) /\ Reply(u, "candidate", r.sess, v, "nothing", {})
    BY <1>5 DEF ServeCandidate
  <2>2. r.sess \in Sessions /\ state'[r.sess] = v
    BY <2>1 DEF SetState, TypeInv, ServerType
  <2> QED BY <1>2, <2>1, <2>2
<1>6. CASE r.method = "established" /\ ServeEstablished(u, r)
  <2>1. CASE Rejected
    BY <1>1, <2>1 DEF Rejected
  <2>2. CASE ~Rejected
    <3> DEFINE v == IF SeesBoth(r.sess) THEN "ESTABLISHED" ELSE state[r.sess]
    <3>1. SetState(r.sess, v) /\ ReplyTo(u, r, r.sess, state'[r.sess])
      BY <1>6, <2>2 DEF ServeEstablished
    <3>2. r.sess \in Sessions
      BY <1>6 DEF TypeInv, AskedOK, Requests
    <3>3. state[r.sess] # "none"
      BY <3>2 DEF ToldInv, Told
    <3>4. state'[r.sess] = v /\ v # "none"
      BY <3>1, <3>2, <3>3 DEF SetState, TypeInv, ServerType
    <3> QED BY <1>1, <1>2, <3>1, <3>2, <3>4 DEF ReplyTo
  <2> QED BY <2>1, <2>2
<1>7. CASE ServeTerminate(u, r) /\ ~Rejected
  <2>1. /\ r.sess \in listed /\ state' = [state EXCEPT ![r.sess] = "TERMINATED"]
        /\ Reply(u, "terminate", r.sess, "TERMINATED", "nothing", {})
    BY <1>7 DEF ServeTerminate
  <2>2. r.sess \in Sessions /\ state'[r.sess] = "TERMINATED"
    BY <2>1 DEF TypeInv, ServerType
  <2> QED BY <1>2, <2>1, <2>2
<1>8. CASE Rejected
  BY <1>1, <1>8 DEF Rejected
<1> QED BY <1>3, <1>4, <1>5, <1>6, <1>7, <1>8 DEF Serve

\* The replies that are left when one is taken or lost.
LEMMA WithoutWaiting ==
  ASSUME TypeInv, NEW u \in Users, NEW i \in 1..Len(replies[u]),
         replies' = [replies EXCEPT ![u] = Without(@, i)]
  PROVE  \A w \in Users : Waiting(w)' \subseteq Waiting(w)
<1> DEFINE q == replies[u]
<1>1. /\ Len(q) \in Nat /\ Len(replies'[u]) = Len(q) - 1
      /\ \A j \in 1..(Len(q) - 1) : replies'[u][j] = IF j < i THEN q[j] ELSE q[j + 1]
      /\ \A w \in Users : w # u => replies'[w] = replies[w]
  BY WithoutReply
<1>2. ASSUME NEW r \in Waiting(u)' PROVE r \in Waiting(u)
  <2>1. PICK j \in 1..Len(replies'[u]) : r = replies'[u][j]
    BY DEF Waiting
  <2>2. j \in 1..(Len(q) - 1) /\ j \in 1..Len(q) /\ j + 1 \in 1..Len(q)
    BY <1>1, <2>1
  <2> QED BY <1>1, <2>1, <2>2 DEF Waiting
<1> QED BY <1>1, <1>2 DEF Waiting

LEMMA NextReplies ==
  ASSUME TypeInv, ToldInv, [Next]_vars, NEW w \in Users, NEW r \in Waiting(w)'
  PROVE  r \in Waiting(w) \/ Fresh(w, r)
<1>1. CASE UNCHANGED replies
  BY <1>1 DEF Waiting
<1>2. ASSUME NEW u \in Users, NEW i \in 1..Len(replies[u]),
             replies' = [replies EXCEPT ![u] = Without(@, i)]
      PROVE  r \in Waiting(w)
  BY <1>2, WithoutWaiting
<1>3. ASSUME NEW u \in Users, Reload(u) PROVE r \in Waiting(w)
  <2>1. replies' = [replies EXCEPT ![u] = <<>>] /\ Len(<<>>) = 0
    BY <1>3 DEF Reload
  <2>2. CASE w = u
    <3>1. replies'[w] = <<>>
      BY <2>1, <2>2 DEF TypeInv, RepliesOK
    <3> QED BY <2>1, <3>1 DEF Waiting
  <2>3. CASE w # u
    BY <2>1, <2>3 DEF Waiting, TypeInv, RepliesOK
  <2> QED BY <2>2, <2>3
<1>4. CASE \/ \E s \in Sessions : Remove(s)
           \/ \E u \in Users : DropPresence(u) \/ TerminateClick(u) \/ Gather(u) \/ AnswerClick(u)
           \/ \E u, v \in Users : InviteClick(u, v)
           \/ \E u \in Users : \E p \in making[u] : Described(u, p)
           \/ \E u \in Users : \E p \in asked[u] : Begin(u, p)
           \/ UNCHANGED vars
  BY <1>1, <1>4 DEF Remove, DropPresence, TerminateClick, Gather, AnswerClick, InviteClick, Described,
                    Begin, vars
<1>5. CASE \E u \in Users : Fail(u)
  BY <1>1, <1>2, <1>5 DEF Fail
<1>6. CASE \E u \in Users : \E i \in 1..Len(replies[u]) : Receive(u, i)
  BY <1>2, <1>6 DEF Receive
<1> QED BY <1>3, <1>4, <1>5, <1>6, PollReplies, ServeReplies DEF Next, PageStep, UserStep

\* What a page sends: an offer or an answer, an end, or what follows upon a reply; and
\* what the server has begun, or the page abandoned.
Follows(u, r) ==
  \E q \in Waiting(u) :
    \/ q.brings = "candidate" /\ r.method \in {"candidate", "established"}
    \/ /\ q.brings = "answer" /\ r.method = "candidate"
       /\ conn[u] # 0 /\ q.body = {remote'[conn[u]]}
AskedMoves(u, r) ==
  \/ r \in asked[u] \/ Opens(r)
  \/ r.method = "terminate" /\ current[u].shows = "ESTABLISHED" /\ r.sess = current[u].sess
  \/ r.at = "sent" /\ Follows(u, r)
  \/ \E q \in asked[u] : r.at # "sent" /\ r.method = q.method /\ r.sess = q.sess

LEMMA NextAsked ==
  ASSUME TypeInv, [Next]_vars, NEW w \in Users, NEW a \in asked'[w]
  PROVE  AskedMoves(w, a)
<1>1. ASSUME NEW u \in Users, TerminateClick(u) PROVE AskedMoves(w, a)
  <2> DEFINE r == Request("terminate", current[u].sess, {})
  <2>1. r.method = "terminate" /\ r.sess = current[u].sess
    BY DEF Request
  <2>2. Asks(u, {r}) /\ current[u].shows = "ESTABLISHED"
    BY <1>1 DEF TerminateClick
  <2> HIDE DEF r
  <2>3. a \in asked[w] \/ (w = u /\ a = r)
    BY <2>2 DEF Asks, TypeInv, AskedOK
  <2> QED BY <2>1, <2>2, <2>3 DEF AskedMoves
<1>2. ASSUME NEW u \in Users, NEW r \in making[u], Described(u, r) PROVE AskedMoves(w, a)
  <2>1. r \in Requests /\ Opens(r)
    BY DEF TypeInv, MakingOK, Opens
  <2>2. ASSUME NEW q, q.method = r.method, Asks(u, {q}) PROVE AskedMoves(w, a)
    BY <2>1, <2>2 DEF Asks, TypeInv, AskedOK, AskedMoves, Opens
  <2>3. [r EXCEPT !.sess = current[u].sess].method = r.method
    BY <2>1 DEF Requests
  <2> QED BY <1>2, <2>2, <2>3 DEF Described, AskedMoves
<1>3. ASSUME NEW u \in Users, NEW i \in 1..Len(replies[u]), Receive(u, i) PROVE AskedMoves(w, a)
  <2>1. PICK r \in Waiting(u) : r = replies[u][i]
    BY DEF Waiting
  <2>2. CASE a \in asked[w]
    BY <2>2 DEF AskedMoves
  <2>3. CASE a \notin asked[w]
    <3>1. Process(u, r)
      BY <1>3, <2>1, <2>3 DEF Receive
    <3>2. w = u /\ a \in FollowUps(u, r) /\ ~Throws(u, r)
      BY <2>3, <3>1 DEF Process, Asks, TypeInv, AskedOK
    <3> a.at = "sent"
      BY <3>2 DEF FollowUps, Request
    <3>3. CASE r.brings = "candidate"
      BY <3>2, <3>3 DEF FollowUps, Request, AskedMoves, Follows
    <3>4. CASE r.brings = "answer"
      <4>1. a.method = "candidate" /\ conn[u] # 0
        BY <3>2, <3>4 DEF FollowUps, Request, Throws
      <4>2. ReplyOK(r)
        BY <2>1 DEF TypeInv, RepliesOK
      <4>3. PICK j \in Conns : r.body = {j} /\ (CHOOSE x \in Conns : x \in r.body) = j
        BY <3>4, <4>2, TheBody DEF ReplyOK
      <4>4. remote'[conn[u]] = j
        BY <3>1, <3>4, <4>1, <4>3 DEF Process, TypeInv, PagesOK
      <4> QED BY <3>2, <3>4, <4>1, <4>3, <4>4 DEF AskedMoves, Follows
    <3>5. r.brings \in {"answer", "candidate"}
      BY <3>2 DEF FollowUps
    <3> QED BY <3>3, <3>4, <3>5
  <2> QED BY <2>2, <2>3
<1>4. CASE \/ \E s \in Sessions : Remove(s)
           \/ \E u \in Users : Fail(u) \/ DropPresence(u) \/ Gather(u) \/ AnswerClick(u) \/ Poll(u)
           \/ \E u, v \in Users : InviteClick(u, v)
           \/ \E u \in Users : \E r \in asked[u] : Serve(u, r)
           \/ UNCHANGED vars
  BY <1>4 DEF Remove, Fail, DropPresence, Gather, AnswerClick, Poll, InviteClick, Serve, vars,
              AskedMoves, TypeInv, AskedOK
<1>5. ASSUME NEW r \in asked[w], NEW v \in {"begun", "abandoned"}, a = [r EXCEPT !.at = v]
      PROVE  AskedMoves(w, a)
  <2>1. a.at # "sent" /\ a.method = r.method /\ a.sess = r.sess
    BY <1>5 DEF TypeInv, AskedOK, Requests
  <2> QED BY <2>1 DEF AskedMoves
<1>6. ASSUME NEW u \in Users, NEW r \in asked[u], Begin(u, r) PROVE AskedMoves(w, a)
  <2>1. a \in asked[w] \/ (w = u /\ a = [r EXCEPT !.at = "begun"])
    BY <1>6 DEF Begin, TypeInv, AskedOK
  <2> QED BY <1>5, <2>1 DEF AskedMoves
<1>7. ASSUME NEW u \in Users, Reload(u) PROVE AskedMoves(w, a)
  <2>1. a \in asked[w] \/ (w = u /\ a \in Abandoned(u))
    BY <1>7 DEF Reload, TypeInv, AskedOK
  <2>2. a \in Abandoned(u) => \E r \in asked[u] : a = [r EXCEPT !.at = "abandoned"]
    BY DEF Abandoned
  <2> QED BY <1>5, <2>1, <2>2 DEF AskedMoves
<1> QED BY <1>1, <1>2, <1>3, <1>4, <1>6, <1>7 DEF Next, PageStep, UserStep

\* What a page shows, and the offer it holds, was shown before or comes with a reply.
CurrentMoves(u) ==
  LET c == current'[u] IN
  /\ \/ c.sess = 0
     \/ c.sess = current[u].sess /\ c.shows = current[u].shows
     \/ \E r \in Waiting(u) : c.sess = r.sess /\ c.shows = r.shows
  /\ \/ c.offer \in {0, current[u].offer}
     \/ \E r \in Waiting(u) : r.brings = "offer" /\ r.body = {c.offer}

LEMMA NextCurrent ==
  ASSUME TypeInv, [Next]_vars, NEW w \in Users
  PROVE  CurrentMoves(w)
<1>1. ASSUME current'[w] = current[w] PROVE CurrentMoves(w)
  BY <1>1 DEF CurrentMoves
<1>2. ASSUME current'[w] = Null PROVE CurrentMoves(w)
  BY <1>2 DEF CurrentMoves, Null
<1>3. ASSUME NEW u \in Users, NEW i \in 1..Len(replies[u]), Receive(u, i) PROVE CurrentMoves(w)
  <2>1. PICK r \in Waiting(u) : r = replies[u][i]
    BY DEF Waiting
  <2>2. CASE current' = [current EXCEPT ![u] = Null]
    BY <1>1, <1>2, <2>2 DEF TypeInv, PagesOK
  <2>3. CASE Process(u, r)
    <3>1. current'[u] = IF Throws(u, r) THEN Before(u, r)
                        ELSE [Before(u, r) EXCEPT !.sess = r.sess, !.shows = r.shows]
      BY <2>3 DEF Process, TypeInv, PagesOK
    <3>2. w # u => current'[w] = current[w]
      BY <2>3 DEF Process, TypeInv, PagesOK
    <3>3. ReplyOK(r)
      BY <2>1 DEF TypeInv, RepliesOK
    <3> DEFINE c == IF current[u] = Null THEN Bare ELSE current[u]
    <3>4. c \in CurrentType /\ c.sess = current[u].sess /\ c.offer = current[u].offer
          /\ (c.sess # 0 => c.shows = current[u].shows)
      BY DEF TypeInv, PagesOK, CurrentType, Bare, Null
    <3>5. Before(u, r) = IF r.brings = "offer" THEN [c EXCEPT !.offer = CHOOSE k \in Conns : k \in r.body]
                         ELSE c
      BY DEF Before
    <3> HIDE DEF c
    <3>6. Before(u, r) \in CurrentType /\ Before(u, r).sess = c.sess /\ Before(u, r).shows = c.shows
      BY <3>3, <3>4, <3>5, BeforeType DEF CurrentType
    <3>7. \/ Before(u, r).offer = current[u].offer
          \/ r.brings = "offer" /\ r.body = {Before(u, r).offer}
      <4>1. CASE r.brings = "offer"
        <5>1. PICK k \in Conns : r.body = {k} /\ (CHOOSE x \in Conns : x \in r.body) = k
          BY <3>3, <4>1, TheBody DEF ReplyOK
        <5>2. Before(u, r).offer = k
          BY <3>4, <3>5, <4>1, <5>1 DEF CurrentType
        <5> QED BY <4>1, <5>1, <5>2
      <4>2. CASE r.brings # "offer"
        BY <3>4, <3>5, <4>2
      <4> QED BY <4>1, <4>2
    <3>8. /\ current'[u].offer = Before(u, r).offer
          /\ \/ current'[u].sess = c.sess /\ current'[u].shows = c.shows
             \/ current'[u].sess = r.sess /\ current'[u].shows = r.shows
      BY <3>1, <3>6 DEF CurrentType
    <3>9. CurrentMoves(u)
      BY <3>4, <3>7, <3>8 DEF CurrentMoves
    <3> QED BY <1>1, <3>2, <3>9
  <2> QED BY <1>3, <2>1, <2>2, <2>3 DEF Receive
<1>4. ASSUME NEW u \in Users, Reload(u) PROVE CurrentMoves(w)
  BY <1>1, <1>2, <1>4 DEF Reload, TypeInv, PagesOK
<1>5. CASE \/ \E s \in Sessions : Remove(s)
           \/ \E u \in Users : Fail(u) \/ DropPresence(u) \/ Gather(u) \/ AnswerClick(u) \/ Poll(u)
           \/ \E u \in Users : TerminateClick(u) \/ \E r \in making[u] : Described(u, r)
           \/ \E u, v \in Users : InviteClick(u, v)
           \/ \E u \in Users : \E r \in asked[u] : Begin(u, r) \/ Serve(u, r)
           \/ UNCHANGED vars
  BY <1>1, <1>5 DEF Remove, Fail, DropPresence, Gather, AnswerClick, Poll, TerminateClick, Described,
                    InviteClick, Begin, Serve, vars, pageVars
<1> QED BY <1>3, <1>4, <1>5 DEF Next, PageStep, UserStep

\* Who sets the state of a session, and to what.
StateMoves(s) ==
  \/ state'[s] = state[s]
  \/ state[s] = "none" /\ state'[s] = "OFFERED"
  \/ \E u \in Users : /\ s \in listed /\ u \in Parties(s)
                      /\ Delivery(u, s) # "none" /\ state'[s] = Delivery(u, s)
  \/ \E u \in Users, k \in Conns, r \in Requests : Answered(u, r, k, s)
  \/ \E u \in Users : \E r \in asked[u] :
       \/ r.method = "candidate" /\ CandidateState(u, s) # "none" /\ state'[s] = CandidateState(u, s)
       \/ r.method = "established" /\ r.sess = s /\ state'[s] = "ESTABLISHED" /\ SeesBoth(s)'
       \/ r.method = "terminate" /\ r.sess = s /\ state'[s] = "TERMINATED"

\* Who confirms a session.
ConfirmMoves(s) ==
  /\ established[s] \subseteq established'[s]
  /\ \A u \in established'[s] :
       u \in established[s] \/ \E r \in asked[u] : r.method = "established" /\ r.sess = s

LEMMA NextStates ==
  ASSUME TypeInv, [Next]_vars, NEW s \in Sessions
  PROVE  StateMoves(s) /\ ConfirmMoves(s)
<1>1. CASE UNCHANGED <<state, established>>
  BY <1>1 DEF StateMoves, ConfirmMoves
<1>2. ASSUME NEW u \in Users, Poll(u) PROVE StateMoves(s) /\ ConfirmMoves(s)
  <2>1. ASSUME NEW t \in Sessions, IsFirst(t, {q \in listed : u \in Parties(q)}),
               Delivery(u, t) # "none", SetState(t, Delivery(u, t))
        PROVE  StateMoves(s) /\ ConfirmMoves(s)
    <3>1. /\ t \in listed /\ u \in Parties(t) /\ UNCHANGED established
          /\ state'[s] = IF s = t THEN Delivery(u, t) ELSE state[s]
      BY <2>1 DEF IsFirst, SetState, TypeInv, ServerType
    <3> QED BY <2>1, <3>1 DEF StateMoves, ConfirmMoves
  <2> QED BY <1>1, <1>2, <2>1 DEF Poll, ServePoll, serverVars, sessVars, Marks
<1>3. ASSUME NEW u \in Users, NEW r \in asked[u], Serve(u, r) PROVE StateMoves(s) /\ ConfirmMoves(s)
  <2>1. CASE Rejected
    BY <1>1, <2>1 DEF Rejected, sessVars
  <2>2. CASE ServeOffer(u, r) /\ ~Rejected
    <3>1. PICK t \in Sessions :
            IsNew(t) /\ state' = [state EXCEPT ![t] = "OFFERED"] /\ UNCHANGED established
      BY <2>2 DEF ServeOffer
    <3> QED BY <3>1 DEF StateMoves, ConfirmMoves, IsNew, TypeInv, ServerType
  <2>3. CASE r.method = "answer" /\ ServeAnswer(u, r) /\ ~Rejected
    <3>1. UNCHANGED established /\ SetState(r.sess, "ANSWERED") /\ r.sess \in listed
      BY <2>3 DEF ServeAnswer, SetState
    <3>2. CASE s # r.sess
      BY <3>1, <3>2 DEF SetState, StateMoves, ConfirmMoves, TypeInv, ServerType
    <3>3. CASE s = r.sess
      <4>1. RequestOK(r) /\ asked' = [asked EXCEPT ![u] = @ \ {r}] /\ UNCHANGED <<owner, making>>
            /\ r \in Requests
        BY <1>3 DEF Serve, pageVars, connVars, TypeInv, AskedOK
      <4>2. PICK k \in Conns : r.body = {k} /\ (CHOOSE j \in Conns : j \in r.body) = k
        BY <2>3, <4>1, TheBody DEF RequestOK
      <4>3. /\ callee[s] = u /\ UNCHANGED offer /\ answer' = [answer EXCEPT ![s] = k]
        BY <2>3, <3>3, <4>2 DEF ServeAnswer
      <4>4. SameCalls /\ state'[s] = "ANSWERED"
        BY <3>1, <3>3 DEF SetState, SameCalls, TypeInv, ServerType
      <4>5. Answered(u, r, k, s)
        BY <2>3, <3>1, <3>3, <4>1, <4>2, <4>3, <4>4 DEF Answered
      <4> QED BY <3>1, <4>1, <4>5 DEF StateMoves, ConfirmMoves
    <3> QED BY <3>2, <3>3
  <2>4. CASE r.method = "candidate" /\ ServeCandidate(u, r) /\ ~Rejected
    <3>1. /\ r.sess \in listed /\ CandidateState(u, r.sess) # "none"
          /\ SetState(r.sess, CandidateState(u, r.sess))
      BY <2>4 DEF ServeCandidate
    <3>2. UNCHANGED established
          /\ state'[s] = IF s = r.sess THEN CandidateState(u, s) ELSE state[s]
      BY <3>1 DEF SetState, TypeInv, ServerType
    <3> QED BY <2>4, <3>1, <3>2 DEF StateMoves, ConfirmMoves
  <2>5. CASE r.method = "established" /\ ServeEstablished(u, r) /\ ~Rejected
    <3> DEFINE v == IF SeesBoth(r.sess) THEN "ESTABLISHED" ELSE state[r.sess]
    <3>1. SetState(r.sess, v) /\ r.sess \in Sessions
      BY <2>5 DEF ServeEstablished, TypeInv, AskedOK, Requests
    <3>2. UNCHANGED <<established, caller, callee>> /\ state'[s] = IF s = r.sess THEN v ELSE state[s]
      BY <3>1 DEF SetState, TypeInv, ServerType
    <3>3. \/ state'[s] = state[s]
          \/ s = r.sess /\ state'[s] = "ESTABLISHED" /\ SeesBoth(s)'
      BY <3>2 DEF SeesBoth, Parties
    <3> QED BY <2>5, <3>2, <3>3 DEF StateMoves, ConfirmMoves
  <2>6. CASE r.method = "terminate" /\ ServeTerminate(u, r) /\ ~Rejected
    <3>1. r.sess \in listed /\ state' = [state EXCEPT ![r.sess] = "TERMINATED"] /\ UNCHANGED established
      BY <2>6 DEF ServeTerminate
    <3> QED BY <2>6, <3>1 DEF StateMoves, ConfirmMoves, TypeInv, ServerType
  <2> QED BY <1>3, <2>1, <2>2, <2>3, <2>4, <2>5, <2>6 DEF Serve
<1>4. CASE \/ \E t \in Sessions : Remove(t)
           \/ \E u \in Users : Fail(u) \/ Reload(u) \/ DropPresence(u) \/ Gather(u) \/ UserStep(u)
           \/ \E u \in Users : \E r \in making[u] : Described(u, r)
           \/ \E u \in Users : \E i \in 1..Len(replies[u]) : Receive(u, i)
           \/ UNCHANGED vars
  BY <1>1, <1>4 DEF Remove, Fail, Reload, DropPresence, Gather, UserStep, AnswerClick, TerminateClick,
                    InviteClick, Described, Receive, vars, serverVars, sessVars
<1>5. ASSUME NEW u \in Users, NEW r \in asked[u], Begin(u, r) PROVE StateMoves(s) /\ ConfirmMoves(s)
  <2>1. CASE BeginOffer(u, r)
    BY <1>1, <1>5, <2>1 DEF Begin, BeginOffer
  <2>2. CASE BeginEstablished(u, r)
    <3>1. r.sess \in Sessions
      BY <2>2 DEF BeginEstablished, TypeInv, ServerType
    <3>2. established'[s] = IF s = r.sess THEN established[s] \cup {u} ELSE established[s]
      BY <2>2, <3>1 DEF BeginEstablished, TypeInv, ServerType
    <3>3. r.method = "established" /\ UNCHANGED state
      BY <1>5, <2>2 DEF Begin, BeginEstablished
    <3> QED BY <3>2, <3>3 DEF StateMoves, ConfirmMoves
  <2> QED BY <1>5, <2>1, <2>2 DEF Begin
<1> QED BY <1>2, <1>3, <1>4, <1>5 DEF Next, PageStep

------------------------------------------------------------------------------
(* A session is confirmed by users whose connections are linked.            *)

Answering == {"ANSWERED", "ANSWER_DELIVERED", "CALLER_CANDIDATE", "CALLER_CANDIDATE_DELIVERED",
              "CALLEE_CANDIDATE", "CALLEE_CANDIDATE_DELIVERED"}
Linking == Answering \ {"ANSWERED", "ANSWER_DELIVERED"}

\* The caller's connection has been given the description of the callee's.
Linked(s) == answer[s] # 0 /\ remote[offer[s]] = answer[s]

\* u has done its part in session s: as the callee it has answered, as the caller it has
\* been answered.
Engaged(u, s) ==
  /\ state[s] # "none"
  /\ (caller[s] = u /\ Linked(s)) \/ (callee[s] = u /\ answer[s] # 0)
Joined(u) == \E s \in Sessions : Engaged(u, s)

\* Who exchanges candidates has joined a session, the one that has the connection.
LinkInv ==
  /\ \A s \in Sessions : /\ state[s] \in Answering => answer[s] # 0
                         /\ state[s] \in Linking => Linked(s)
  /\ \A u \in Users : \A r \in Waiting(u) :
       /\ r.brings = "candidate" => r.sess \in Sessions /\ Engaged(u, r.sess)
       /\ r.brings = "answer" => /\ r.sess \in Sessions /\ state[r.sess] # "none"
                                 /\ caller[r.sess] = u
                                 /\ answer[r.sess] # 0 /\ r.body = {answer[r.sess]}
  /\ \A u \in Users : \A r \in asked[u] : r.method \in {"candidate", "established"} => Joined(u)
  /\ \A u \in Users, s \in Sessions : u \in established[s] => Joined(u)

\* With one connection a user joins one session.
LEMMA OneEngagement ==
  ASSUME TypeInv, ConnsInv, NEW u \in Users, NEW s \in Sessions, Engaged(u, s),
         NEW t \in Sessions, Engaged(u, t)
  PROVE  s = t
<1>1. \A p \in Sessions : Engaged(u, p) =>
        \/ offer[p] \in Conns /\ owner[offer[p]] = u
        \/ answer[p] \in Conns /\ owner[answer[p]] = u
  BY DEF Engaged, ConnsInv, TypeInv, DataOK
<1>2. u # NoUser /\ 0 \notin Conns
  BY ServerAssumption, ConnsFacts
<1> QED BY <1>1, <1>2 DEF ConnsInv

LEMMA CallerLinked ==
  ASSUME TypeInv, ConnsInv, NEW u \in Users, Joined(u), NEW s \in Sessions,
         state[s] # "none", caller[s] = u
  PROVE  Linked(s)
<1>1. PICK t \in Sessions : Engaged(u, t)
  BY DEF Joined
<1>2. offer[s] \in Conns /\ owner[offer[s]] = u /\ offer[s] # 0
  BY ConnsFacts DEF ConnsInv, TypeInv, DataOK
<1>3. u # NoUser
  BY ServerAssumption
<1>4. CASE callee[t] = u /\ answer[t] # 0
  <2>1. answer[t] \in Conns /\ owner[answer[t]] = u
    BY <1>4 DEF ConnsInv, TypeInv, DataOK
  <2> QED BY <1>2, <1>3, <2>1 DEF ConnsInv
<1>5. CASE caller[t] = u /\ Linked(t)
  <2>1. offer[t] \in Conns /\ owner[offer[t]] = u
    BY <1>1, <1>5 DEF Engaged, ConnsInv, TypeInv, DataOK
  <2>2. s = t
    BY <1>2, <1>3, <2>1 DEF ConnsInv
  <2> QED BY <1>5, <2>2
<1> QED BY <1>1, <1>4, <1>5 DEF Engaged

LEMMA LinkedGrows ==
  ASSUME TypeInv, ConnsInv, LinkInv, [Next]_vars, NEW s \in Sessions, state[s] # "none", Linked(s)
  PROVE  Linked(s)'
<1> DEFINE k == offer[s]
<1>1. /\ k \in Conns /\ owner[k] = caller[s] /\ caller[s] \in Users /\ owner[k] # NoUser
      /\ offer'[s] = k /\ answer'[s] = answer[s] /\ answer[s] # 0 /\ remote[k] = answer[s]
  BY SessionsGrow, ServerAssumption DEF ConnsInv, TypeInv, DataOK, Parties, Linked
<1>2. RemoteMoves(k)
  BY <1>1, NextRemote
<1> HIDE DEF k
<1>3. ASSUME NEW u \in Users, NEW r \in Waiting(u), r.brings = "answer", owner[k] = u,
             r.body = {remote'[k]}
      PROVE  remote'[k] = answer[s]
  <2>1. /\ r.sess \in Sessions /\ state[r.sess] # "none" /\ caller[r.sess] = u
        /\ r.body = {answer[r.sess]}
    BY <1>3 DEF LinkInv
  <2>2. offer[r.sess] \in Conns /\ owner[offer[r.sess]] = u
    BY <2>1 DEF ConnsInv, TypeInv, DataOK
  <2>3. offer[r.sess] = k
    BY <1>1, <1>3, <2>2 DEF ConnsInv
  <2>4. r.sess = s
    BY <1>1, <2>1, <2>3, ConnsFacts DEF ConnsInv, k
  <2> QED BY <1>3, <2>1, <2>4
<1>4. remote'[k] = answer[s]
  BY <1>1, <1>2, <1>3 DEF RemoteMoves
<1> QED BY <1>1, <1>4 DEF Linked, k

LEMMA EngagedGrows ==
  ASSUME TypeInv, ConnsInv, LinkInv, [Next]_vars, NEW u \in Users
  PROVE  /\ \A s \in Sessions : Engaged(u, s) => Engaged(u, s)'
         /\ Joined(u) => Joined(u)'
<1>1. ASSUME NEW s \in Sessions, Engaged(u, s) PROVE Engaged(u, s)'
  <2>1. /\ state[s] # "none" /\ state'[s] # "none" /\ caller'[s] = caller[s] /\ callee'[s] = callee[s]
        /\ answer[s] # 0 => answer'[s] = answer[s]
    BY <1>1, SessionsGrow DEF Engaged
  <2>2. Linked(s) => Linked(s)'
    BY <2>1, LinkedGrows
  <2> QED BY <1>1, <2>1, <2>2 DEF Engaged
<1> QED BY <1>1 DEF Joined

LEMMA LinkStates ==
  ASSUME TypeInv, ConnsInv, LinkInv, [Next]_vars, NEW s \in Sessions
  PROVE  /\ state'[s] \in Answering => answer'[s] # 0
         /\ state'[s] \in Linking => Linked(s)'
<1>1. /\ state[s] \in Answering => answer[s] # 0 /\ answer'[s] # 0 /\ state[s] # "none"
      /\ state[s] \in Linking => Linked(s)
  BY SessionsGrow DEF LinkInv, Answering
<1>2. state[s] \in Linking => Linked(s)'
  BY <1>1, LinkedGrows DEF Linking
<1>3. CASE state'[s] = state[s] \/ state'[s] \in {"OFFERED", "OFFER_DELIVERED", "ESTABLISHED", "TERMINATED"}
  BY <1>1, <1>2, <1>3 DEF Answering, Linking
<1>4. ASSUME NEW u \in Users, Delivery(u, s) # "none", state'[s] = Delivery(u, s)
      PROVE  /\ state'[s] \in Answering => state[s] \in Answering
             /\ state'[s] \in Linking => state[s] \in Linking
  BY <1>4 DEF Delivery, Answering, Linking
<1>5. ASSUME NEW u \in Users, NEW k \in Conns, NEW r, Answered(u, r, k, s)
      PROVE  answer'[s] # 0 /\ state'[s] \notin Linking
  BY <1>5, ConnsFacts DEF Answered, TypeInv, DataOK, Linking
<1>6. ASSUME NEW u \in Users, NEW r \in asked[u], r.method = "candidate",
             CandidateState(u, s) # "none", state'[s] = CandidateState(u, s)
      PROVE  answer'[s] # 0 /\ Linked(s)'
  <2>1. /\ Joined(u) /\ state[s] \in Answering
        /\ (state[s] = "ANSWER_DELIVERED" /\ caller[s] = u) \/ state[s] \in Linking
    BY <1>6 DEF LinkInv, CandidateState, Answering, Linking
  <2>2. Linked(s) /\ state[s] # "none"
    BY <1>1, <2>1, CallerLinked
  <2> QED BY <1>1, <2>1, <2>2, LinkedGrows
<1> QED BY <1>1, <1>2, <1>3, <1>4, <1>5, <1>6, NextStates DEF StateMoves

LEMMA LinkReplies ==
  ASSUME TypeInv, ConnsInv, ToldInv, LinkInv, [Next]_vars, NEW u \in Users, NEW r \in Waiting(u)'
  PROVE  /\ r.brings = "candidate" => r.sess \in Sessions /\ Engaged(u, r.sess)'
         /\ r.brings = "answer" => /\ r.sess \in Sessions /\ state'[r.sess] # "none"
                                   /\ caller'[r.sess] = u
                                   /\ answer'[r.sess] # 0 /\ r.body = {answer'[r.sess]}
<1>1. ASSUME r.brings = "candidate", r.sess \in Sessions, Engaged(u, r.sess)
      PROVE  Engaged(u, r.sess)'
  BY <1>1, EngagedGrows
<1>2. ASSUME r.brings = "answer", r.sess \in Sessions, state[r.sess] # "none", caller[r.sess] = u,
             answer[r.sess] # 0, r.body = {answer[r.sess]}
      PROVE  /\ state'[r.sess] # "none" /\ caller'[r.sess] = u
             /\ answer'[r.sess] # 0 /\ r.body = {answer'[r.sess]}
  BY <1>2, SessionsGrow
<1>3. CASE r \in Waiting(u)
  BY <1>1, <1>2, <1>3 DEF LinkInv
<1>4. CASE Fresh(u, r)
  <2>1. r.brings \in {"candidate", "answer"} => r.sess \in Sessions /\ u \in Parties(r.sess)
    BY <1>4 DEF Fresh, TypeInv, ServerType
  <2>2. r.brings = "candidate" => Engaged(u, r.sess)
    <3> SUFFICES ASSUME r.brings = "candidate" PROVE Engaged(u, r.sess)
      OBVIOUS
    <3>1. \/ caller[r.sess] = u /\ state[r.sess] = "CALLEE_CANDIDATE"
          \/ caller[r.sess] # u /\ state[r.sess] = "CALLER_CANDIDATE"
      BY <1>4 DEF Fresh, Delivery
    <3>2. Linked(r.sess)
      BY <2>1, <3>1 DEF LinkInv, Linking, Answering
    <3> QED BY <2>1, <3>1, <3>2 DEF Engaged, Linked, Parties
  <2>3. r.brings = "answer" =>
          /\ state[r.sess] = "ANSWERED" /\ caller[r.sess] = u /\ r.body = {answer[r.sess]}
    BY <1>4 DEF Fresh, Delivery
  <2>4. r.brings = "answer" => answer[r.sess] # 0 /\ state[r.sess] # "none"
    BY <2>1, <2>3 DEF LinkInv, Answering
  <2> QED BY <1>1, <1>2, <2>1, <2>2, <2>3, <2>4
<1> QED BY <1>3, <1>4, NextReplies

LEMMA LinkAsked ==
  ASSUME TypeInv, ConnsInv, LinkInv, [Next]_vars, NEW u \in Users, NEW r \in asked'[u],
         r.method \in {"candidate", "established"}
  PROVE  Joined(u)'
<1>1. CASE r \in asked[u]
  BY <1>1, EngagedGrows DEF LinkInv
<1>2. ASSUME NEW q \in Waiting(u), q.brings = "candidate" PROVE Joined(u)'
  BY <1>2, EngagedGrows DEF LinkInv, Joined
<1>3. ASSUME NEW q \in Waiting(u), q.brings = "answer", conn[u] # 0, q.body = {remote'[conn[u]]}
      PROVE  Joined(u)'
  <2> DEFINE s == q.sess
  <2>1. s \in Sessions /\ state[s] # "none" /\ caller[s] = u /\ answer[s] # 0 /\ q.body = {answer[s]}
    BY <1>3 DEF LinkInv
  <2>2. conn[u] \in Conns /\ owner[conn[u]] = u /\ offer[s] \in Conns /\ owner[offer[s]] = u
    BY <1>3, <2>1 DEF ConnsInv, TypeInv, PagesOK, DataOK
  <2>3. conn[u] = offer[s]
    BY <2>2, ServerAssumption DEF ConnsInv
  <2>4. state'[s] # "none" /\ caller'[s] = u /\ answer'[s] = answer[s] /\ offer'[s] = offer[s]
    BY <2>1, SessionsGrow
  <2>5. remote'[offer[s]] = answer[s]
    BY <1>3, <2>1, <2>3
  <2> QED BY <2>1, <2>4, <2>5 DEF Joined, Engaged, Linked
<1>4. ASSUME NEW q \in asked[u], q.method = r.method PROVE Joined(u)'
  BY <1>4, EngagedGrows DEF LinkInv
<1> QED BY <1>1, <1>2, <1>3, <1>4, NextAsked DEF AskedMoves, Follows, Opens

LEMMA LinkStep ==
  ASSUME TypeInv, ConnsInv, ToldInv, LinkInv, [Next]_vars PROVE LinkInv'
<1>1. ASSUME NEW u \in Users, NEW s \in Sessions, u \in established'[s] PROVE Joined(u)'
  <2>1. u \in established[s] \/ \E r \in asked[u] : r.method = "established"
    BY <1>1, NextStates DEF ConfirmMoves
  <2>2. Joined(u)
    BY <2>1 DEF LinkInv
  <2> QED BY <2>2, EngagedGrows
<1> QED BY <1>1, LinkStates, LinkReplies, LinkAsked DEF LinkInv

\* Session s is ESTABLISHED or over, or page u has been told so.
Ended == {"ESTABLISHED", "TERMINATED"}
ToldEnded(u, s) ==
  \/ \E r \in Waiting(u) : r.sess = s /\ r.shows \in Ended
  \/ current[u].sess = s /\ current[u].shows \in Ended
  \/ \E r \in asked[u] : r.sess = s /\ r.method = "terminate"

\* Then both users have confirmed it.
BothInv ==
  \A s \in Sessions : state[s] \in Ended \/ (\E u \in Users : ToldEnded(u, s)) => SeesBoth(s)

LEMMA BothGrows ==
  ASSUME TypeInv, ConnsInv, [Next]_vars, NEW s \in Sessions, state[s] # "none", SeesBoth(s)
  PROVE  SeesBoth(s)'
BY SessionsGrow, NextStates DEF SeesBoth, Parties, ConfirmMoves

LEMMA BothStates ==
  ASSUME TypeInv, ConnsInv, ToldInv, BothInv, [Next]_vars, NEW s \in Sessions, state'[s] \in Ended
  PROVE  SeesBoth(s)'
<1>1. CASE state'[s] = state[s]
  BY <1>1, BothGrows DEF BothInv, Ended
<1>2. ASSUME NEW u \in Users, NEW r \in asked[u], r.method = "terminate", r.sess = s
      PROVE  SeesBoth(s)'
  <2>1. Told(u, s) /\ SeesBoth(s)
    BY <1>2 DEF Told, ToldEnded, BothInv
  <2> QED BY <2>1, BothGrows DEF ToldInv
<1>3. ASSUME NEW u \in Users, state'[s] \in {"OFFERED", "ANSWERED", Delivery(u, s), CandidateState(u, s)}
      PROVE  FALSE
  <2>1. Delivery(u, s) \notin Ended /\ CandidateState(u, s) \notin Ended
    BY DEF Ended, Delivery, CandidateState
  <2> QED BY <1>3, <2>1 DEF Ended
<1>4. state'[s] # "OFFERED"
  BY DEF Ended
<1>5. ASSUME NEW u \in Users, NEW k, NEW r, Answered(u, r, k, s) PROVE FALSE
  BY <1>3, <1>5 DEF Answered
<1>6. StateMoves(s)
  BY NextStates
<1> QED BY <1>1, <1>2, <1>3, <1>4, <1>5, <1>6 DEF StateMoves

LEMMA BothStep ==
  ASSUME TypeInv, ConnsInv, ToldInv, BothInv, [Next]_vars PROVE BothInv'
<1> SUFFICES ASSUME NEW s \in Sessions, NEW u \in Users, ToldEnded(u, s)' PROVE SeesBoth(s)'
  BY BothStates DEF BothInv
<1>1. ASSUME ToldEnded(u, s) PROVE SeesBoth(s)'
  <2>1. Told(u, s) /\ SeesBoth(s)
    BY <1>1 DEF Told, ToldEnded, BothInv, Waiting
  <2> QED BY <2>1, BothGrows DEF ToldInv
<1>2. ASSUME NEW r \in Waiting(u)', r.sess = s, r.shows \in Ended PROVE SeesBoth(s)'
  <2>1. CASE r \in Waiting(u)
    BY <1>1, <1>2, <2>1 DEF ToldEnded
  <2>2. CASE Fresh(u, r)
    <3>1. Delivery(u, s) \notin Ended /\ s # 0
      BY SessionsFacts DEF Delivery, Ended
    <3>2. state'[s] \in Ended
      BY <1>2, <2>2, <3>1 DEF Fresh
    <3> QED BY <3>2, BothStates
  <2> QED BY <2>1, <2>2, NextReplies
<1>3. CASE current'[u].sess = s /\ current'[u].shows \in Ended
  <2>1. current'[u].sess # 0
    BY <1>3, SessionsFacts
  <2>2. ToldEnded(u, s)
    BY <1>3, <2>1, NextCurrent DEF CurrentMoves, ToldEnded
  <2> QED BY <1>1, <2>2
<1>4. ASSUME NEW r \in asked'[u], r.sess = s, r.method = "terminate" PROVE SeesBoth(s)'
  <2>1. ToldEnded(u, s)
    BY <1>4, NextAsked DEF AskedMoves, Opens, Follows, ToldEnded, Ended
  <2> QED BY <1>1, <2>1
<1> QED BY <1>2, <1>3, <1>4 DEF ToldEnded

\* o is the offer of a session of u, and no older session of u is in the list.
OfferedTo(u, o) ==
  \E t \in Sessions : /\ state[t] # "none" /\ offer[t] = o
                      /\ \A q \in listed : q < t => u \notin Parties(q)

\* Page u has been given offer o, or is answering it.
Holds(u, o) ==
  \/ o # 0 /\ current[u].offer = o
  \/ \E r \in Waiting(u) : r.brings = "offer" /\ r.body = {o}
  \/ \E r \in Opening(u), k \in Conns : r.method = "answer" /\ r.body = {k} /\ remote[k] = o

\* An answer is to the offer of its session or of an older one.
OffersInv ==
  /\ \A u \in Users, o \in Conns \cup {0} : Holds(u, o) => OfferedTo(u, o)
  /\ \A s \in Sessions : answer[s] # 0 =>
       \E t \in 1..s : t \in Sessions /\ state[t] # "none" /\ remote[answer[s]] = offer[t]

LEMMA OfferedToGrows ==
  ASSUME TypeInv, ConnsInv, InOrder, [Next]_vars, NEW u \in Users, NEW o, OfferedTo(u, o)
  PROVE  OfferedTo(u, o)'
<1>1. PICK t \in Sessions : /\ state[t] # "none" /\ offer[t] = o
                            /\ \A q \in listed : q < t => u \notin Parties(q)
  BY DEF OfferedTo
<1>2. state'[t] # "none" /\ offer'[t] = o
  BY <1>1, SessionsGrow
<1>3. ASSUME NEW q \in listed', q < t PROVE q \in listed
  <2>1. ASSUME NEW w \in Users, NEW v \in Users, NEW s \in Sessions, NewCall(w, v, s), q \notin listed
        PROVE  FALSE
    <3>1. q = s /\ state[s] = "none"
      BY <1>3, <2>1 DEF NewCall, IsNew
    <3> QED BY <1>1, <1>3, <3>1 DEF InOrder
  <2> QED BY <1>3, <2>1, NextCalls DEF CallsKept
<1>4. ASSUME NEW q \in listed', q < t PROVE u \notin Parties(q)'
  <2>1. q \in listed /\ q \in Sessions /\ state[q] # "none"
    BY <1>3, <1>4 DEF TypeInv, ServerType
  <2> QED BY <1>1, <1>4, <2>1, SessionsGrow DEF Parties
<1> QED BY <1>2, <1>4 DEF OfferedTo

\* The remote description of a connection that was not offered is that of the offer.
LEMMA RemoteKept ==
  ASSUME TypeInv, ConnsInv, LinkInv, [Next]_vars, NEW k \in Conns, owner[k] # NoUser,
         \A s \in Sessions : offer[s] # k
  PROVE  remote'[k] = remote[k]
<1>1. ASSUME NEW u \in Users, NEW r \in Waiting(u), r.brings = "answer", owner[k] = u PROVE FALSE
  <2>1. r.sess \in Sessions /\ state[r.sess] # "none" /\ caller[r.sess] = u
    BY <1>1 DEF LinkInv
  <2>2. offer[r.sess] \in Conns /\ owner[offer[r.sess]] = u
    BY <2>1 DEF ConnsInv, TypeInv, DataOK
  <2> QED BY <1>1, <2>1, <2>2 DEF ConnsInv
<1> QED BY <1>1, NextRemote DEF RemoteMoves

LEMMA NextOpening ==
  ASSUME TypeInv, ConnsInv, [Next]_vars, NEW u \in Users, NEW r \in Opening(u)', r.method = "answer"
  PROVE  \/ \E q \in Opening(u) : q.method = "answer" /\ q.body = r.body
         \/ \E k \in Conns : /\ r.body = {k} /\ current[u].offer # 0
                             /\ remote'[k] = current[u].offer
<1>1. r \in making'[u] \cup asked'[u] /\ Opens(r)
  BY DEF Opening, Opens
<1>2. ASSUME NEW w \in Users, NEW k \in Conns, NEW p, Clicked(w, k, p) PROVE r \in Opening(u) \/ (r = p /\ u = w)
  BY <1>1, <1>2 DEF Clicked, Opening, TypeInv, MakingOK
<1>3. ASSUME NEW w \in Users, NEW p, NEW q, Sent(w, p, q)
      PROVE  r \in Opening(u) \/ (r = q /\ u = w /\ p \in Opening(u))
  BY <1>1, <1>3 DEF Sent, Opening, Opens, TypeInv, MakingOK, AskedOK
<1>4. ASSUME NEW w \in Users, NEW p, UNCHANGED making, asked' = [asked EXCEPT ![w] = @ \ {p}]
      PROVE  r \in Opening(u)
  BY <1>1, <1>4 DEF Opening, TypeInv, AskedOK
<1>5. CASE ConnsKept
  BY <1>1, <1>5 DEF ConnsKept, Opening
<1>6. ASSUME NEW w \in Users, NEW p, NEW q, Begun(w, p, q)
      PROVE  r \in Opening(u) \/ (r = q /\ u = w /\ p \in Opening(u))
  BY <1>1, <1>6 DEF Begun, Opening, Opens, TypeInv, AskedOK
<1>7. ASSUME NEW w \in Users, Restarted(w)
      PROVE  \E p \in Opening(u) : p.method = r.method /\ p.body = r.body
  <2>1. CASE u # w
    <3>1. r \in Opening(u)
      BY <1>1, <1>7, <2>1 DEF Restarted, Opening, TypeInv, MakingOK, AskedOK
    <3> QED BY <3>1
  <2>2. CASE u = w
    <3>1. r \in Abandoned(u)
      BY <1>1, <1>7, <2>2 DEF Restarted, TypeInv, MakingOK, AskedOK
    <3>2. PICK p \in asked[u] : r = [p EXCEPT !.at = "abandoned"]
      BY <3>1 DEF Abandoned
    <3>3. r.method = p.method /\ r.body = p.body
      BY <3>2 DEF TypeInv, AskedOK, Requests
    <3> QED BY <1>1, <3>3 DEF Opening, Opens
  <2> QED BY <2>1, <2>2
<1> QED
  BY <1>2, <1>3, <1>4, <1>5, <1>6, <1>7, NextConns
  DEF ConnsMove, Clicked, Sent, Offered, Answered, Begun

LEMMA OpeningKept ==
  ASSUME TypeInv, ConnsInv, LinkInv, [Next]_vars, NEW u \in Users, NEW r \in Opening(u), NEW k,
         r.body = {k}
  PROVE  k \in Conns /\ remote'[k] = remote[k]
<1>1. Description(r.body)
  BY DEF Opening, Opens, TypeInv, MakingOK, AskedOK, RequestOK
<1>2. k \in Conns /\ owner[k] = u /\ Unused(k)
  BY <1>1 DEF Description, ConnsInv
<1> QED BY <1>2, RemoteKept, ServerAssumption DEF Unused

LEMMA OffersHeld ==
  ASSUME TypeInv, ConnsInv, ToldInv, LinkInv, InOrder, OffersInv, [Next]_vars,
         NEW u \in Users, NEW o \in Conns \cup {0}, Holds(u, o)'
  PROVE  OfferedTo(u, o)
<1>1. ASSUME Holds(u, o) PROVE OfferedTo(u, o)
  BY <1>1 DEF OffersInv
<1>2. CASE o # 0 /\ current'[u].offer = o
  BY <1>1, <1>2, NextCurrent DEF CurrentMoves, Holds
<1>3. ASSUME NEW r \in Waiting(u)', r.brings = "offer", r.body = {o} PROVE OfferedTo(u, o)
  <2>1. CASE r \in Waiting(u)
    BY <1>1, <1>3, <2>1 DEF Holds
  <2>2. CASE Fresh(u, r)
    <3>1. /\ r.sess \in listed /\ \A q \in listed : q < r.sess => u \notin Parties(q)
          /\ o = offer[r.sess]
      BY <1>3, <2>2 DEF Fresh
    <3>2. r.sess \in Sessions /\ state[r.sess] # "none"
      BY <3>1 DEF TypeInv, ServerType
    <3> QED BY <3>1, <3>2 DEF OfferedTo
  <2> QED BY <2>1, <2>2, NextReplies
<1>4. ASSUME NEW r \in Opening(u)', NEW k \in Conns, r.method = "answer", r.body = {k}, remote'[k] = o
      PROVE  OfferedTo(u, o)
  <2>1. ASSUME NEW q \in Opening(u), q.method = "answer", q.body = r.body PROVE OfferedTo(u, o)
    <3>1. remote'[k] = remote[k]
      BY <1>4, <2>1, OpeningKept
    <3> QED BY <1>1, <1>4, <2>1, <3>1 DEF Holds
  <2>2. ASSUME NEW j \in Conns, r.body = {j}, current[u].offer # 0, remote'[j] = current[u].offer
        PROVE  OfferedTo(u, o)
    <3>1. j = k
      BY <1>4, <2>2
    <3> QED BY <1>1, <1>4, <2>2, <3>1 DEF Holds
  <2> QED BY <1>4, <2>1, <2>2, NextOpening
<1> QED BY <1>2, <1>3, <1>4 DEF Holds

LEMMA OffersAnswered ==
  ASSUME TypeInv, ConnsInv, LinkInv, OffersInv, [Next]_vars, NEW s \in Sessions, answer'[s] # 0
  PROVE  \E t \in 1..s : t \in Sessions /\ state'[t] # "none" /\ remote'[answer'[s]] = offer'[t]
<1>1. CASE answer[s] # 0
  <2>1. answer'[s] = answer[s] /\ answer[s] \in Conns /\ state[s] # "none"
    BY <1>1, SessionsGrow DEF ConnsInv, TypeInv, DataOK
  <2>2. owner[answer[s]] # NoUser /\ \A t \in Sessions : offer[t] # answer[s]
    BY <1>1, <2>1, ServerAssumption DEF ConnsInv, Parties
  <2>3. remote'[answer[s]] = remote[answer[s]]
    BY <2>1, <2>2, RemoteKept
  <2>4. PICK t \in 1..s : t \in Sessions /\ state[t] # "none" /\ remote[answer[s]] = offer[t]
    BY <1>1 DEF OffersInv
  <2> QED BY <2>1, <2>3, <2>4, SessionsGrow
<1>2. CASE answer[s] = 0
  <2>1. ASSUME NEW u \in Users, NEW k \in Conns, NEW r, Answered(u, r, k, s)
        PROVE  \E t \in 1..s : t \in Sessions /\ state'[t] # "none" /\ remote'[answer'[s]] = offer'[t]
    <3>1. r \in Opening(u) /\ r.method = "answer" /\ r.body = {k}
      BY <2>1 DEF Answered, Opening, Opens
    <3>2. remote'[k] = remote[k] /\ Holds(u, remote[k]) /\ remote[k] \in Conns \cup {0}
      BY <3>1, OpeningKept DEF Holds, TypeInv, PagesOK
    <3>3. PICK t \in Sessions : /\ state[t] # "none" /\ offer[t] = remote[k]
                                /\ \A q \in listed : q < t => u \notin Parties(q)
      BY <3>2 DEF OffersInv, OfferedTo
    <3>4. s \in listed /\ u \in Parties(s) /\ answer'[s] = k
      BY <2>1 DEF Answered, Parties, TypeInv, DataOK
    <3>5. t \in 1..s
      BY <3>3, <3>4, ServerAssumption DEF Sessions
    <3> QED BY <3>2, <3>3, <3>4, <3>5, SessionsGrow
  <2>2. ASSUME NEW u \in Users, NEW k \in Conns, NEW r, NEW t \in Sessions, t # s, Answered(u, r, k, t)
        PROVE  answer'[s] = answer[s]
    BY <2>2 DEF Answered, TypeInv, DataOK
  <2> QED
    BY <1>2, <2>1, <2>2, NextConns
    DEF ConnsMove, ConnsKept, Clicked, Sent, Offered, Begun, Restarted
<1> QED BY <1>1, <1>2

LEMMA OffersStep ==
  ASSUME TypeInv, ConnsInv, ToldInv, LinkInv, InOrder, OffersInv, [Next]_vars PROVE OffersInv'
<1>1. ASSUME NEW u \in Users, NEW o \in Conns \cup {0}, Holds(u, o)' PROVE OfferedTo(u, o)'
  BY <1>1, OffersHeld, OfferedToGrows
<1> QED BY <1>1, OffersAnswered DEF OffersInv

------------------------------------------------------------------------------
(* Connected calls.                                                         *)

LEMMA AgainStays == ASSUME TypeInv, [Next]_vars, NobodyAgain' PROVE NobodyAgain
<1>1. mishap \subseteq mishap'
  BY DEF Next, PageStep, UserStep, Poll, Gather, Described, Receive, AnswerClick, TerminateClick,
         InviteClick, Fail, Reload, DropPresence, Begin, Serve, Remove, vars, Happens, Clicks
<1> QED BY <1>1 DEF NobodyAgain

MediaInv == ConnsInv /\ LinkInv /\ BothInv /\ OffersInv

LEMMA InitMedia == Init => MediaInv
<1> SUFFICES ASSUME Init PROVE MediaInv
  OBVIOUS
<1>1. \A u \in Users : Opening(u) = {} /\ Waiting(u) = {} /\ asked[u] = {} /\ current[u] = Null
  BY DEF Init, Opening, Waiting
<1>2. ConnsInv
  BY <1>1 DEF Init, ServerInit, ConnsInv
<1>3. LinkInv
  BY <1>1 DEF Init, ServerInit, LinkInv, Answering, Linking
<1>4. BothInv
  BY <1>1, SessionsFacts DEF Init, ServerInit, BothInv, Ended, ToldEnded, Null
<1>5. OffersInv
  BY <1>1 DEF Init, OffersInv, Holds, Null
<1> QED BY <1>2, <1>3, <1>4, <1>5 DEF MediaInv

LEMMA AlwaysMedia == Spec => [](NobodyAgain => MediaInv)
<1>1. /\ TypeInv /\ ToldInv /\ InOrder /\ (NobodyAgain => MediaInv) /\ [Next]_vars
      => (NobodyAgain => MediaInv)'
  BY AgainStays, ConnsStep, LinkStep, BothStep, OffersStep DEF MediaInv
<1> QED BY <1>1, InitMedia, AlwaysTyped, AlwaysTold, AlwaysInOrder, PTL DEF Spec

\* While nobody clicks a second time, the two connections of an ESTABLISHED session are
\* described to each other (webrtc.js:195-243), for any number of users and sessions and in
\* spite of replies that overtake one another, requests that fail and pages that are loaded
\* anew.
THEOREM ConnectedIsDescribed == Spec => [](NobodyAgain => MediaConnected)
<1>1. TypeInv /\ MediaInv => MediaConnected
  <2> SUFFICES ASSUME TypeInv, MediaInv, NEW s \in listed, state[s] = "ESTABLISHED"
               PROVE  /\ remote[offer[s]] = answer[s]
                      /\ remote[answer[s]] \in {offer[t] : t \in 1..s}
    BY DEF MediaConnected
  <2>1. s \in Sessions
    BY DEF TypeInv, ServerType
  <2>2. caller[s] \in Users /\ caller[s] \in established[s]
    BY <2>1 DEF MediaInv, BothInv, Ended, SeesBoth, ConnsInv, Parties
  <2>3. Linked(s)
    BY <2>1, <2>2, CallerLinked DEF MediaInv, LinkInv
  <2> QED BY <2>1, <2>3 DEF Linked, MediaInv, OffersInv
<1> QED BY <1>1, AlwaysTyped, AlwaysMedia, PTL

------------------------------------------------------------------------------
(* A user confirms once.                                                    *)

\* What makes page u confirm its session: a candidate among the replies under way.  It
\* has confirmed it when the server has begun to handle its request.
Brought(u, i) == i \in 1..Len(replies[u]) /\ replies[u][i].brings = "candidate"
HasBrought(u) == \E i \in Nat : Brought(u, i)
OneBrought(u) == \A i, j \in Nat : Brought(u, i) /\ Brought(u, j) => i = j
Confirms(r)   == r.method = "established" /\ r.at = "sent"
Confirming(u) == \E r \in asked[u] : Confirms(r)
Confirmed(u)  == \E s \in Sessions : u \in established[s]

\* The session that u has joined has delivered the other side's candidate to u.
Delivered(u, s) ==
  \/ caller[s] = u /\ state[s] \in {"CALLEE_CANDIDATE_DELIVERED"} \cup Ended
  \/ /\ callee[s] = u
     /\ state[s] \in {"CALLER_CANDIDATE_DELIVERED", "CALLEE_CANDIDATE",
                      "CALLEE_CANDIDATE_DELIVERED"} \cup Ended
Met(u) == \E s \in Sessions : Engaged(u, s) /\ Delivered(u, s)

\* One candidate is delivered to a user and confirmed once.
OnceInv ==
  \A u \in Users :
    /\ OneBrought(u)
    /\ HasBrought(u) => ~Confirming(u) /\ ~Confirmed(u)
    /\ Confirming(u) => ~Confirmed(u)
    /\ \A r, q \in asked[u] : Confirms(r) /\ Confirms(q) => r = q
    /\ HasBrought(u) \/ Confirming(u) \/ Confirmed(u) => Met(u)

LEMMA WithoutBrought ==
  ASSUME TypeInv, NEW u \in Users, NEW i \in 1..Len(replies[u]),
         replies' = [replies EXCEPT ![u] = Without(@, i)]
  PROVE  /\ \A w \in Users : /\ OneBrought(w) => OneBrought(w)'
                             /\ HasBrought(w)' => HasBrought(w)
         /\ OneBrought(u) /\ Brought(u, i) => ~HasBrought(u)'
<1> DEFINE q == replies[u]
<1>1. /\ Len(q) \in Nat /\ Len(replies'[u]) = Len(q) - 1
      /\ \A j \in 1..(Len(q) - 1) : replies'[u][j] = IF j < i THEN q[j] ELSE q[j + 1]
      /\ \A w \in Users : w # u => replies'[w] = replies[w]
  BY WithoutReply
<1>2. ASSUME NEW w \in Users, w # u
      PROVE  (OneBrought(w) => OneBrought(w)') /\ (HasBrought(w)' => HasBrought(w))
  BY <1>1, <1>2 DEF OneBrought, HasBrought, Brought
<1>3. ASSUME NEW j \in Nat, Brought(u, j)'
      PROVE  \E k \in Nat : Brought(u, k) /\ k # i /\ k = IF j < i THEN j ELSE j + 1
  <2>1. j \in 1..(Len(q) - 1) /\ replies'[u][j].brings = "candidate"
    BY <1>1, <1>3 DEF Brought
  <2>2. CASE j < i
    <3>1. j \in 1..Len(q) /\ q[j].brings = "candidate"
      BY <1>1, <2>1, <2>2
    <3> QED BY <2>2, <3>1 DEF Brought
  <2>3. CASE ~(j < i)
    <3>1. j + 1 \in 1..Len(q) /\ q[j + 1].brings = "candidate" /\ j + 1 # i
      BY <1>1, <2>1, <2>3
    <3> QED BY <2>3, <3>1 DEF Brought
  <2> QED BY <2>2, <2>3
<1>4. HasBrought(u)' => HasBrought(u)
  BY <1>3 DEF HasBrought
<1>5. OneBrought(u) => OneBrought(u)'
  <2> SUFFICES ASSUME OneBrought(u), NEW j \in Nat, NEW k \in Nat, Brought(u, j)', Brought(u, k)'
               PROVE  j = k
    BY DEF OneBrought
  <2>1. (IF j < i THEN j ELSE j + 1) = (IF k < i THEN k ELSE k + 1)
    BY <1>3 DEF OneBrought
  <2> QED BY <2>1
<1>6. OneBrought(u) /\ Brought(u, i) => ~HasBrought(u)'
  BY <1>3 DEF OneBrought, HasBrought
<1> QED BY <1>2, <1>4, <1>5, <1>6

LEMMA ReplyBrought ==
  ASSUME TypeInv, NEW u \in Users, NEW m, NEW s, NEW v, NEW b, NEW D, Reply(u, m, s, v, b, D)
  PROVE  /\ \A w \in Users : w # u \/ b # "candidate" =>
              (OneBrought(w) => OneBrought(w)') /\ (HasBrought(w)' => HasBrought(w))
         /\ ~HasBrought(u) => OneBrought(u)'
<1> DEFINE q == replies[u]
           new == [method |-> m, sess |-> s, shows |-> v, brings |-> b, body |-> D]
<1>1. /\ Len(q) \in Nat /\ Len(replies'[u]) = Len(q) + 1
      /\ \A i \in 1..Len(q) : replies'[u][i] = q[i]
      /\ replies'[u][Len(q) + 1] = new
      /\ \A w \in Users : w # u => replies'[w] = replies[w]
  BY ReplySeq
<1>2. new.brings = b
  OBVIOUS
<1> HIDE DEF new
<1>3. ASSUME NEW w \in Users, w # u
      PROVE  (OneBrought(w) => OneBrought(w)') /\ (HasBrought(w)' => HasBrought(w))
  BY <1>1, <1>3 DEF OneBrought, HasBrought, Brought
<1>4. ASSUME NEW j \in Nat, Brought(u, j)'
      PROVE  Brought(u, j) \/ (j = Len(q) + 1 /\ b = "candidate")
  <2>1. j \in 1..Len(q) \/ j = Len(q) + 1
    BY <1>1, <1>4 DEF Brought
  <2> QED BY <1>1, <1>2, <1>4, <2>1 DEF Brought
<1>5. b # "candidate" => (OneBrought(u) => OneBrought(u)') /\ (HasBrought(u)' => HasBrought(u))
  BY <1>4 DEF OneBrought, HasBrought
<1>6. ~HasBrought(u) => OneBrought(u)'
  BY <1>4 DEF OneBrought, HasBrought
<1> QED BY <1>3, <1>5, <1>6

\* What a step does to what makes page w confirm: less of it, a delivery by the poll of w,
\* the receipt of one, or its request begun.
FewerBrought(w) == (OneBrought(w) => OneBrought(w)') /\ (HasBrought(w)' => HasBrought(w))
FewerAsked(w) == \A r \in asked'[w] : Confirms(r) => r \in asked[w]
SameConfirmed(w) == \A s \in Sessions : w \in established'[s] => w \in established[s]

Fewer(w) == FewerBrought(w) /\ FewerAsked(w) /\ SameConfirmed(w)
Brings(w) ==
  /\ ~HasBrought(w) => OneBrought(w)'
  /\ FewerAsked(w) /\ SameConfirmed(w)
  /\ \E s \in listed : /\ w \in Parties(s) /\ state'[s] = Delivery(w, s)
                       /\ Delivery(w, s) \in {"CALLER_CANDIDATE_DELIVERED", "CALLEE_CANDIDATE_DELIVERED"}
Heeds(w) ==
  /\ HasBrought(w) /\ (OneBrought(w) => ~HasBrought(w)')
  /\ SameConfirmed(w)
  /\ \E x : \A r \in asked'[w] : Confirms(r) => r \in asked[w] \/ r = x
Confirmation(w) ==
  /\ FewerBrought(w)
  /\ \E r \in asked[w] : Confirms(r) /\ \A q \in asked'[w] : Confirms(q) => q \in asked[w] \ {r}
OnceMoves(w) == Fewer(w) \/ Brings(w) \/ Heeds(w) \/ Confirmation(w)

LEMMA ReceiveOnce ==
  ASSUME TypeInv, NEW u \in Users, NEW i \in 1..Len(replies[u]), Receive(u, i), NEW w \in Users
  PROVE  OnceMoves(w)
<1> DEFINE r == replies[u][i]
<1>1. /\ replies' = [replies EXCEPT ![u] = Without(@, i)] /\ UNCHANGED established
      /\ Process(u, r) \/ UNCHANGED asked
  BY DEF Receive, serverVars, sessVars
<1>2. /\ FewerBrought(w) /\ SameConfirmed(w)
      /\ OneBrought(u) /\ Brought(u, i) => ~HasBrought(u)'
  BY <1>1, WithoutBrought DEF FewerBrought, SameConfirmed
<1>3. CASE UNCHANGED asked
  BY <1>2, <1>3 DEF OnceMoves, Fewer, FewerAsked
<1>4. CASE Process(u, r) /\ w # u
  BY <1>2, <1>4 DEF Process, Asks, OnceMoves, Fewer, FewerAsked, TypeInv, AskedOK
<1>5. CASE Process(u, r) /\ w = u
  <2>1. PICK F : asked'[u] = asked[u] \cup F /\ (F = {} \/ F = FollowUps(u, r))
    BY <1>5 DEF Process, Asks, TypeInv, AskedOK
  <2> DEFINE x == Request("established", Before(u, r).sess, {})
  <2>2. \A q \in FollowUps(u, r) : Confirms(q) => r.brings = "candidate" /\ q = x
    BY DEF FollowUps, Request, Confirms
  <2> HIDE DEF x, r
  <2>3. CASE r.brings = "candidate"
    <3>1. i \in Nat /\ Brought(u, i)
      BY <2>3 DEF Brought, r
    <3>2. HasBrought(u) /\ (OneBrought(u) => ~HasBrought(u)')
      BY <1>2, <3>1 DEF HasBrought
    <3>3. \A q \in asked'[u] : Confirms(q) => q \in asked[u] \/ q = x
      BY <2>1, <2>2
    <3> QED BY <1>2, <1>5, <3>2, <3>3 DEF OnceMoves, Heeds
  <2>4. CASE r.brings # "candidate"
    <3>1. FewerAsked(u)
      BY <2>1, <2>2, <2>4 DEF FewerAsked
    <3> QED BY <1>2, <1>5, <3>1 DEF OnceMoves, Fewer
  <2> QED BY <2>3, <2>4
<1> QED BY <1>1, <1>3, <1>4, <1>5

LEMMA PollOnce ==
  ASSUME TypeInv, NEW u \in Users, Poll(u), NEW w \in Users
  PROVE  OnceMoves(w)
<1>1. UNCHANGED <<asked, established>>
  BY DEF Poll, ServePoll, serverVars, sessVars, SetState, Marks
<1>2. FewerAsked(w) /\ SameConfirmed(w)
  BY <1>1 DEF FewerAsked, SameConfirmed
<1>3. CASE UNCHANGED replies
  BY <1>2, <1>3 DEF OnceMoves, Fewer, FewerBrought, OneBrought, HasBrought, Brought
<1>4. ASSUME NEW m, NEW s, NEW v, NEW b, NEW D, Reply(u, m, s, v, b, D), b # "candidate"
      PROVE  OnceMoves(w)
  BY <1>2, <1>4, ReplyBrought DEF OnceMoves, Fewer, FewerBrought
<1>5. ASSUME NEW s \in Sessions, IsFirst(s, {q \in listed : u \in Parties(q)}),
             SetState(s, Delivery(u, s)), NEW D,
             Delivery(u, s) \in {"CALLER_CANDIDATE_DELIVERED", "CALLEE_CANDIDATE_DELIVERED"},
             Reply(u, "poll", s, Delivery(u, s), "candidate", D)
      PROVE  OnceMoves(w)
  <2>1. CASE w # u
    BY <1>2, <1>5, <2>1, ReplyBrought DEF OnceMoves, Fewer, FewerBrought
  <2>2. CASE w = u
    <3>1. s \in listed /\ u \in Parties(s) /\ state'[s] = Delivery(u, s)
      BY <1>5 DEF IsFirst, SetState, TypeInv, ServerType
    <3>2. ~HasBrought(u) => OneBrought(u)'
      BY <1>5, ReplyBrought
    <3> QED BY <1>2, <1>5, <2>2, <3>1, <3>2 DEF OnceMoves, Brings
  <2> QED BY <2>1, <2>2
<1>6. CASE ServePoll(u)
  <2> DEFINE mine == {s \in listed : u \in Parties(s)}
             Goal == OnceMoves(w)
  <2>1. ASSUME NEW m, NEW s, NEW v, NEW b, NEW D, Reply(u, m, s, v, b, D), b # "candidate" PROVE Goal
    BY <1>4, <2>1
  <2>2. ASSUME NEW s \in Sessions, IsFirst(s, mine), SetState(s, Delivery(u, s)), NEW D,
               Delivery(u, s) \in {"CALLER_CANDIDATE_DELIVERED", "CALLEE_CANDIDATE_DELIVERED"},
               Reply(u, "poll", s, Delivery(u, s), "candidate", D)
        PROVE  Goal
    BY <1>5, <2>2
  <2> HIDE DEF Goal, mine
  <2> DEFINE Candidate(s) ==
               /\ SetState(s, Delivery(u, s))
               /\ Delivery(u, s) \in {"CALLER_CANDIDATE_DELIVERED", "CALLEE_CANDIDATE_DELIVERED"}
               /\ \E D : Reply(u, "poll", s, Delivery(u, s), "candidate", D)
             Other(s) == \E v, b, D : b # "candidate" /\ Reply(u, "poll", s, v, b, D)
  <2>3. Other(0) \/ \E s \in Sessions : IsFirst(s, mine) /\ (Other(s) \/ Candidate(s))
    BY <1>6 DEF ServePoll, mine
  <2>4. \A s : Other(s) => Goal
    BY <2>1
  <2>5. ASSUME NEW s \in Sessions, IsFirst(s, mine), Candidate(s) PROVE Goal
    <3>1. PICK D : Reply(u, "poll", s, Delivery(u, s), "candidate", D)
      BY <2>5
    <3> QED BY <2>2, <2>5, <3>1
  <2> HIDE DEF Candidate, Other
  <2>6. Goal
    BY <2>3, <2>4, <2>5
  <2> QED BY <2>6 DEF Goal
<1> QED BY <1>3, <1>6 DEF Poll, serverVars

LEMMA ServeOnce ==
  ASSUME TypeInv, NEW u \in Users, NEW r \in asked[u], Serve(u, r), NEW w \in Users
  PROVE  OnceMoves(w)
<1>1. FewerAsked(w)
  BY DEF Serve, FewerAsked, TypeInv, AskedOK
<1>2. FewerBrought(w)
  <2>1. CASE UNCHANGED replies
    BY <2>1 DEF FewerBrought, OneBrought, HasBrought, Brought
  <2>2. ASSUME NEW m, NEW s, NEW v, Reply(u, m, s, v, "nothing", {}) PROVE FewerBrought(w)
    BY <2>2, ReplyBrought DEF FewerBrought
  <2>3. ASSUME NEW s, NEW v, ReplyTo(u, r, s, v) PROVE FewerBrought(w)
    BY <2>1, <2>2, <2>3 DEF ReplyTo
  <2> QED BY <2>1, <2>2, <2>3 DEF Serve, ServeOffer, ServeAnswer, ServeCandidate, ServeEstablished,
                                  ServeTerminate, Rejected
<1>3. UNCHANGED established
  BY DEF Serve, ServeOffer, ServeAnswer, ServeCandidate, ServeEstablished, ServeTerminate, Rejected,
         SetState, sessVars
<1> QED BY <1>1, <1>2, <1>3 DEF OnceMoves, Fewer, SameConfirmed

LEMMA BeginOnce ==
  ASSUME TypeInv, NEW u \in Users, NEW r \in asked[u], Begin(u, r), NEW w \in Users
  PROVE  OnceMoves(w)
<1>1. UNCHANGED replies
  BY DEF Begin
<1>2. FewerBrought(w)
  BY <1>1 DEF FewerBrought, OneBrought, HasBrought, Brought
<1>3. \A q \in asked'[w] : Confirms(q) => q \in asked[w] /\ (w = u => q # r)
  <2>1. ~Confirms([r EXCEPT !.at = "begun"])
    BY DEF Confirms, TypeInv, AskedOK, Requests
  <2> QED BY <2>1 DEF Begin, TypeInv, AskedOK
<1>4. FewerAsked(w)
  BY <1>3 DEF FewerAsked
<1>5. CASE BeginOffer(u, r)
  BY <1>2, <1>4, <1>5 DEF BeginOffer, OnceMoves, Fewer, SameConfirmed
<1>6. CASE BeginEstablished(u, r)
  <2>1. CASE w # u
    <3>1. SameConfirmed(w)
      BY <1>6, <2>1 DEF BeginEstablished, SameConfirmed, TypeInv, ServerType
    <3> QED BY <1>2, <1>4, <3>1 DEF OnceMoves, Fewer
  <2>2. CASE w = u
    <3>1. Confirms(r)
      BY <1>6 DEF Begin, BeginEstablished, Confirms
    <3> QED BY <1>2, <1>3, <2>2, <3>1 DEF OnceMoves, Confirmation
  <2> QED BY <2>1, <2>2
<1> QED BY <1>5, <1>6 DEF Begin

LEMMA NextOnce ==
  ASSUME TypeInv, [Next]_vars, NEW w \in Users PROVE OnceMoves(w)
<1>1. ASSUME UNCHANGED established, FewerBrought(w), FewerAsked(w) PROVE OnceMoves(w)
  BY <1>1 DEF OnceMoves, Fewer, SameConfirmed
<1>2. UNCHANGED replies => FewerBrought(w)
  BY DEF FewerBrought, OneBrought, HasBrought, Brought
<1>3. UNCHANGED asked => FewerAsked(w)
  BY DEF FewerAsked
<1>4. CASE \/ \E s \in Sessions : Remove(s)
           \/ \E u \in Users : DropPresence(u) \/ Gather(u) \/ AnswerClick(u)
           \/ \E u, v \in Users : InviteClick(u, v)
           \/ UNCHANGED vars
  BY <1>1, <1>2, <1>3, <1>4 DEF Remove, DropPresence, Gather, AnswerClick, InviteClick, vars, serverVars,
                                sessVars
<1>5. ASSUME NEW u \in Users, TerminateClick(u) PROVE OnceMoves(w)
  <2>1. ~Confirms(Request("terminate", current[u].sess, {}))
    BY DEF Confirms, Request
  <2>2. FewerAsked(w)
    BY <1>5, <2>1 DEF TerminateClick, Asks, FewerAsked, TypeInv, AskedOK
  <2> QED BY <1>1, <1>2, <1>5, <2>2 DEF TerminateClick, serverVars, sessVars
<1>6. ASSUME NEW u \in Users, NEW r \in making[u], Described(u, r) PROVE OnceMoves(w)
  <2>1. r \in Requests /\ r.method \in {"offer", "answer"}
    BY DEF TypeInv, MakingOK
  <2>2. ~Confirms(r) /\ ~Confirms([r EXCEPT !.sess = current[u].sess])
    BY <2>1 DEF Confirms, Requests
  <2>3. FewerAsked(w)
    BY <1>6, <2>2 DEF Described, Asks, FewerAsked, TypeInv, AskedOK
  <2> QED BY <1>1, <1>2, <1>6, <2>3 DEF Described, serverVars, sessVars
<1>7. ASSUME NEW u \in Users, Fail(u) PROVE OnceMoves(w)
  <2>1. FewerAsked(w)
    BY <1>7 DEF Fail, FewerAsked, TypeInv, AskedOK
  <2>2. FewerBrought(w)
    BY <1>2, <1>7, WithoutBrought DEF Fail, FewerBrought
  <2> QED BY <1>1, <1>7, <2>1, <2>2 DEF Fail, serverVars, sessVars
<1>8. ASSUME NEW u \in Users, Reload(u) PROVE OnceMoves(w)
  <2>1. FewerAsked(w)
    <3>1. \A r \in Abandoned(u) : ~Confirms(r)
      BY DEF Abandoned, Confirms, TypeInv, AskedOK, Requests
    <3> QED BY <1>8, <3>1 DEF Reload, FewerAsked, TypeInv, AskedOK
  <2>2. CASE w # u
    <3>1. replies'[w] = replies[w]
      BY <1>8, <2>2 DEF Reload, TypeInv, RepliesOK
    <3>2. FewerBrought(w)
      BY <3>1 DEF FewerBrought, OneBrought, HasBrought, Brought
    <3> QED BY <1>1, <1>8, <2>1, <3>2 DEF Reload, serverVars, sessVars
  <2>3. CASE w = u
    <3>1. replies'[w] = <<>> /\ Len(replies'[w]) = 0
      BY <1>8, <2>3 DEF Reload, TypeInv, RepliesOK
    <3>2. \A i \in Nat : ~Brought(w, i)'
      BY <3>1 DEF Brought
    <3>3. FewerBrought(w)
      BY <3>2 DEF FewerBrought, OneBrought, HasBrought
    <3> QED BY <1>1, <1>8, <2>1, <3>3 DEF Reload, serverVars, sessVars
  <2> QED BY <2>2, <2>3
<1> QED BY <1>4, <1>5, <1>6, <1>7, <1>8, ReceiveOnce, PollOnce, ServeOnce, BeginOnce
       DEF Next, PageStep, UserStep

\* A session has two users, and goes on from what it has delivered.
LEMMA TwoParties ==
  ASSUME TypeInv, ConnsInv, NEW s \in Sessions, answer[s] # 0
  PROVE  state[s] # "none" /\ caller[s] # callee[s]
<1>1. /\ state[s] # "none" /\ offer[s] \in Conns /\ answer[s] \in Conns /\ offer[s] # 0
      /\ owner[offer[s]] = caller[s] /\ caller[s] # NoUser /\ owner[answer[s]] = callee[s]
  BY ServerAssumption, ConnsFacts DEF ConnsInv, Parties, TypeInv, DataOK
<1>2. offer[s] # answer[s]
  BY <1>1 DEF ConnsInv
<1> QED BY <1>1, <1>2 DEF ConnsInv

LEMMA MetGrows ==
  ASSUME TypeInv, ConnsInv, LinkInv, [Next]_vars, NEW u \in Users, Met(u) PROVE Met(u)'
<1>1. PICK s \in Sessions : Engaged(u, s) /\ Delivered(u, s)
  BY DEF Met
<1>2. Engaged(u, s)' /\ state[s] # "none" /\ answer[s] # 0
  BY <1>1, EngagedGrows DEF Engaged, Linked
<1>3. caller'[s] = caller[s] /\ callee'[s] = callee[s] /\ caller[s] # callee[s]
  BY <1>2, SessionsGrow, TwoParties
<1>4. ASSUME NEW v \in Users, NEW k \in Conns, NEW r, Answered(v, r, k, s) PROVE FALSE
  BY <1>2, <1>4, FirstAnswer
<1>5. ASSUME state'[s] = state[s] \/ state'[s] \in Ended PROVE Delivered(u, s)'
  BY <1>1, <1>3, <1>5 DEF Delivered
<1>6. ASSUME NEW v \in Users, v \in Parties(s), Delivery(v, s) # "none", state'[s] = Delivery(v, s)
      PROVE  Delivered(u, s)'
  BY <1>1, <1>3, <1>6 DEF Delivered, Delivery, Ended, Parties
<1>7. ASSUME NEW v \in Users, CandidateState(v, s) # "none", state'[s] = CandidateState(v, s)
      PROVE  Delivered(u, s)'
  BY <1>1, <1>3, <1>7 DEF Delivered, CandidateState, Ended
<1>8. Delivered(u, s)'
  <2>1. StateMoves(s)
    BY NextStates
  <2> QED BY <1>2, <1>4, <1>5, <1>6, <1>7, <2>1 DEF StateMoves, Ended
<1> QED BY <1>2, <1>8 DEF Met

\* What a candidate is delivered of had not been delivered.
LEMMA FirstDelivery ==
  ASSUME TypeInv, ConnsInv, LinkInv, [Next]_vars, NEW u \in Users, Brings(u)
  PROVE  ~Met(u) /\ Met(u)'
<1>1. PICK s \in Sessions :
        /\ u \in Parties(s) /\ state'[s] = Delivery(u, s)
        /\ Delivery(u, s) \in {"CALLER_CANDIDATE_DELIVERED", "CALLEE_CANDIDATE_DELIVERED"}
  BY DEF Brings, TypeInv, ServerType
<1>2. \/ caller[s] = u /\ state[s] = "CALLEE_CANDIDATE" /\ state'[s] = "CALLEE_CANDIDATE_DELIVERED"
      \/ /\ caller[s] # u /\ callee[s] = u
         /\ state[s] = "CALLER_CANDIDATE" /\ state'[s] = "CALLER_CANDIDATE_DELIVERED"
  BY <1>1 DEF Delivery, Parties
<1>3. Linked(s) /\ state[s] # "none" /\ answer[s] # 0
  BY <1>2 DEF LinkInv, Linking, Answering, Linked
<1>4. Engaged(u, s) /\ Engaged(u, s)'
  <2>1. Engaged(u, s)
    BY <1>2, <1>3 DEF Engaged
  <2> QED BY <2>1, EngagedGrows
<1>5. caller[s] # callee[s] /\ caller'[s] = caller[s] /\ callee'[s] = callee[s]
  BY <1>3, TwoParties, SessionsGrow
<1>6. ~Delivered(u, s) /\ Delivered(u, s)'
  BY <1>2, <1>5 DEF Delivered, Ended
<1>7. ~Met(u)
  BY <1>4, <1>6, OneEngagement DEF Met
<1> QED BY <1>4, <1>6, <1>7 DEF Met

LEMMA OnceStep ==
  ASSUME TypeInv, ConnsInv, LinkInv, OnceInv, [Next]_vars PROVE OnceInv'
<1> SUFFICES ASSUME NEW u \in Users
             PROVE  /\ OneBrought(u)'
                    /\ HasBrought(u)' => ~Confirming(u)' /\ ~Confirmed(u)'
                    /\ Confirming(u)' => ~Confirmed(u)'
                    /\ \A r, q \in asked'[u] : Confirms(r) /\ Confirms(q) => r = q
                    /\ HasBrought(u)' \/ Confirming(u)' \/ Confirmed(u)' => Met(u)'
  BY DEF OnceInv
<1>1. /\ OneBrought(u)
      /\ HasBrought(u) => ~Confirming(u) /\ ~Confirmed(u)
      /\ Confirming(u) => ~Confirmed(u)
      /\ \A r, q \in asked[u] : Confirms(r) /\ Confirms(q) => r = q
      /\ HasBrought(u) \/ Confirming(u) \/ Confirmed(u) => Met(u)
  BY DEF OnceInv
<1>2. Met(u) => Met(u)'
  BY MetGrows
<1>3. FewerAsked(u) => (Confirming(u)' => Confirming(u))
  BY DEF FewerAsked, Confirming, Confirms
<1>4. SameConfirmed(u) => (Confirmed(u)' => Confirmed(u))
  BY DEF SameConfirmed, Confirmed
<1>5. FewerAsked(u) => \A r, q \in asked'[u] : Confirms(r) /\ Confirms(q) => r = q
  BY <1>1 DEF FewerAsked
<1>6. CASE Fewer(u)
  BY <1>1, <1>2, <1>3, <1>4, <1>5, <1>6 DEF Fewer, FewerBrought
<1>7. CASE Brings(u)
  <2>1. ~Met(u) /\ Met(u)'
    BY <1>7, FirstDelivery
  <2>2. ~HasBrought(u) /\ ~Confirming(u) /\ ~Confirmed(u)
    BY <1>1, <2>1
  <2> QED BY <1>3, <1>4, <1>5, <1>7, <2>1, <2>2 DEF Brings
<1>8. CASE Heeds(u)
  <2>1. HasBrought(u) /\ ~HasBrought(u)' /\ ~Confirming(u) /\ ~Confirmed(u)' /\ Met(u)'
    BY <1>1, <1>2, <1>4, <1>8 DEF Heeds
  <2>2. OneBrought(u)'
    BY <2>1 DEF OneBrought, HasBrought
  <2>3. \A r, q \in asked'[u] : Confirms(r) /\ Confirms(q) => r = q
    BY <1>8, <2>1 DEF Heeds, Confirming
  <2> QED BY <2>1, <2>2, <2>3
<1>9. CASE Confirmation(u)
  <2>1. PICK r \in asked[u] : Confirms(r) /\ \A q \in asked'[u] : Confirms(q) => q \in asked[u] \ {r}
    BY <1>9 DEF Confirmation
  <2>2. Confirming(u) /\ ~HasBrought(u) /\ Met(u)'
    BY <1>1, <1>2, <2>1 DEF Confirming
  <2>3. ~Confirming(u)'
    BY <1>1, <2>1 DEF Confirming, Confirms
  <2>4. OneBrought(u)' /\ ~HasBrought(u)'
    BY <1>1, <1>9, <2>2 DEF Confirmation, FewerBrought
  <2>5. \A q \in asked'[u] : ~Confirms(q)
    BY <2>3 DEF Confirming, Confirms
  <2> QED BY <2>2, <2>3, <2>4, <2>5
<1> QED BY <1>6, <1>7, <1>8, <1>9, NextOnce DEF OnceMoves

LEMMA AlwaysOnce == Spec => [](NobodyAgain => OnceInv)
<1>1. Init => OnceInv
  <2> SUFFICES ASSUME Init, NEW u \in Users PROVE asked[u] = {} /\ (\A i \in Nat : ~Brought(u, i)) /\ ~Confirmed(u)
    BY DEF OnceInv, OneBrought, HasBrought, Confirming
  <2> QED BY DEF Init, ServerInit, Brought, Confirmed
<1>2. /\ TypeInv /\ (NobodyAgain => MediaInv) /\ (NobodyAgain => OnceInv) /\ [Next]_vars
      => (NobodyAgain => OnceInv)'
  BY AgainStays, OnceStep DEF MediaInv
<1> QED BY <1>1, <1>2, AlwaysTyped, AlwaysMedia, PTL DEF Spec

\* While nobody clicks a second time, a session that is over stays so
\* (WebRtcSession.java:78-113): its users have answered and have confirmed it once, so all
\* that can bring it back is a confirmation that was begun before it was TERMINATED.
THEOREM TerminatedStays == Spec /\ []NobodyAgain => TerminatedIsFinal
<1>1. ASSUME TypeInv, ToldInv, MediaInv, OnceInv, [Next]_vars, NEW s \in Sessions, Over(s)
      PROVE  Over(s)'
  <2>1. state[s] = "TERMINATED" /\ SeesBoth(s) /\ Parties(s) \subseteq Users
    BY <1>1 DEF Over, MediaInv, BothInv, Ended, ConnsInv
  <2>2. ASSUME NEW u \in Users, NEW k \in Conns, NEW r, Answered(u, r, k, s) PROVE FALSE
    <3> ConnsInv /\ LinkInv
      BY <1>1 DEF MediaInv
    <3>1. owner[k] = u /\ Unused(k) /\ u \in established[s]
      <4>1. owner[k] = u /\ Unused(k)
        BY <1>1, <2>2, FirstAnswer
      <4>2. callee[s] = u
        BY <2>2 DEF Answered
      <4> QED BY <2>1, <4>1, <4>2 DEF SeesBoth, Parties
    <3>2. PICK t \in Sessions : Engaged(u, t)
      BY <1>1, <3>1 DEF MediaInv, LinkInv, Joined
    <3>3. \E j \in {offer[t], answer[t]} : j \in Conns /\ owner[j] = u
      BY <1>1, <3>2 DEF Engaged, MediaInv, ConnsInv, TypeInv, DataOK
    <3> QED BY <1>1, <3>1, <3>3, ServerAssumption DEF MediaInv, ConnsInv, Unused
  <2>3. ASSUME NEW u \in Users, NEW r \in asked[u], r.method = "established", r.sess = s PROVE FALSE
    <3>1. Told(u, s)
      BY <2>3 DEF Told
    <3>2. u \in established[s]
      BY <1>1, <2>1, <3>1 DEF ToldInv, SeesBoth, Parties
    <3>3. Confirms(r)
      BY <1>1, <2>3 DEF Over, Confirms
    <3> QED BY <1>1, <2>3, <3>2, <3>3 DEF OnceInv, Confirming, Confirmed
  <2>4. \A u \in Users : Delivery(u, s) = "none" /\ CandidateState(u, s) = "none"
    BY <2>1 DEF Delivery, CandidateState
  <2>5. StateMoves(s)
    BY <1>1, NextStates
  <2>6. state'[s] = "TERMINATED"
    BY <1>1, <2>1, <2>2, <2>3, <2>4, <2>5 DEF StateMoves
  <2>7. ASSUME NEW u \in Users, NEW r \in asked'[u], r.method = "established", r.sess = s
        PROVE  r.at = "sent"
    <3>1. AskedMoves(u, r)
      BY <1>1, NextAsked
    <3> QED BY <2>3, <2>7, <3>1 DEF AskedMoves, Opens
  <2> QED BY <2>6, <2>7 DEF Over
<1>2. TypeInv /\ ToldInv /\ MediaInv /\ OnceInv /\ [Next]_vars
      => [\A s \in Sessions : Over(s) => Over(s)']_<<state, asked>>
  BY <1>1
<1> QED BY <1>2, AlwaysTyped, AlwaysTold, AlwaysMedia, AlwaysOnce, PTL DEF Spec, TerminatedIsFinal
===============================================================================
