---------------------------- MODULE WebRtcProofs ----------------------------
(****************************************************************************)
(* Proofs about WebRtc for any number of users, sessions and clicks.        *)
(*                                                                          *)
(* The argument: what browsers were given in a session is never taken back, *)
(* and whoever writes a state, or asks for a state to be written, does so   *)
(* after what the state takes was given (Has).  So a request that is late   *)
(* may take a session back to an earlier state, but no request takes it to  *)
(* a state that it has not earned.                                          *)
(****************************************************************************)
EXTENDS WebRtc, TLAPS

\* What a session that has ever been in state v has given, of all that G holds.
Has(G, v) ==
  /\ v \in {"OFFER_DELIVERED", "ANSWERED", "ANSWER_DELIVERED", "CALLER_CANDIDATE",
            "CALLER_CANDIDATE_DELIVERED", "CALLEE_CANDIDATE",
            "CALLEE_CANDIDATE_DELIVERED", "ESTABLISHED"} => "OFFER_DELIVERED" \in G
  /\ v \in {"ANSWER_DELIVERED", "CALLER_CANDIDATE", "CALLER_CANDIDATE_DELIVERED",
            "CALLEE_CANDIDATE", "CALLEE_CANDIDATE_DELIVERED", "ESTABLISHED"}
       => "ANSWER_DELIVERED" \in G
  /\ v \in {"CALLER_CANDIDATE_DELIVERED", "CALLEE_CANDIDATE",
            "CALLEE_CANDIDATE_DELIVERED", "ESTABLISHED"}
       => "CALLER_CANDIDATE_DELIVERED" \in G
  /\ v \in {"CALLEE_CANDIDATE_DELIVERED", "ESTABLISHED"} => "CALLEE_CANDIDATE_DELIVERED" \in G

Deliveries == {"OFFER_DELIVERED", "ANSWER_DELIVERED", "CALLER_CANDIDATE_DELIVERED",
               "CALLEE_CANDIDATE_DELIVERED"}

SessionOK(s) ==
  /\ Has(given[s], state[s])
  /\ state[s] = "none" => established[s] = {}
  /\ state[s] # "none" => caller[s] \in Users /\ callee[s] \in Users
  /\ caller[s] \in established[s] => Has(given[s], "ESTABLISHED")

\* Request k of user u is for a session that exists, unless it is the offer of one.
Aimed(u, k) ==
  /\ k = "offer" /\ job[u][k].at \in {"sent", "create"} => job[u][k].peer \in Users
  /\ \/ job[u][k].at = "idle"
     \/ k = "offer" /\ job[u][k].at \in {"sent", "create"}
     \/ job[u][k].sess \in Sessions /\ state[job[u][k].sess] # "none"

\* What it takes has been given.
JobOK(u, k) ==
  LET j == job[u][k] IN
  /\ Aimed(u, k)
  /\ k \in Answers /\ j.at # "idle" => "OFFER_DELIVERED" \in given[j.sess]
  /\ k = "established" /\ j.at # "idle" /\ caller[j.sess] = u => Has(given[j.sess], "ESTABLISHED")
  /\ k # "poll" /\ j.at = "set" => j.next # "none" /\ Has(given[j.sess], j.next)
  /\ k = "poll" /\ j.at # "idle" =>
       /\ j.at = "set" /\ j.next \in Deliveries
       /\ Has(given[j.sess] \cup {j.next}, j.next)
       /\ caller[j.sess] = u <=> j.next \in {"ANSWER_DELIVERED", "CALLEE_CANDIDATE_DELIVERED"}

ViewOK(u) ==
  \/ view[u] = NoSession
  \/ /\ view[u].sess \in Sessions /\ state[view[u].sess] # "none"
     /\ view[u].state = "OFFER_DELIVERED" => "OFFER_DELIVERED" \in given[view[u].sess]

SessType ==
  /\ caller \in [Sessions -> Users \cup {NoUser}]
  /\ callee \in [Sessions -> Users \cup {NoUser}]
  /\ state \in [Sessions -> States]
  /\ age \in [Sessions -> 0..(Timeout + 1)]
  /\ established \in [Sessions -> SUBSET Users] /\ ended \in [Sessions -> SUBSET Users]
ListOK == /\ listed \subseteq Sessions /\ present \subseteq Users /\ victim \in Sessions \cup {0}
          /\ \A s \in listed : state[s] # "none"
JobType == job \in [Users -> [Kinds -> Jobs]]
UserType == /\ view \in [Users -> [sess : Sessions \cup {0}, state : States]]
            /\ clicks \in [Sessions -> [{"answer", "terminate"} -> Nat]]
            /\ given \in [Sessions -> SUBSET States]

SessInv == \A s \in Sessions : SessionOK(s)
JobInv  == \A u \in Users, k \in Kinds : JobOK(u, k)
ViewInv == \A u \in Users : ViewOK(u)

IInv == SessType /\ ListOK /\ JobType /\ UserType /\ SessInv /\ JobInv /\ ViewInv

\* No step takes back what was given, or makes another session of one that exists.
Grow ==
  \A s \in Sessions :
    /\ given[s] \subseteq given'[s]
    /\ state[s] # "none" => state'[s] # "none" /\ caller'[s] = caller[s] /\ callee'[s] = callee[s]

------------------------------------------------------------------------------
(* Facts about the vocabulary of the steps.                                 *)

LEMMA HasGrows == \A G, H, v : G \subseteq H /\ Has(G, v) => Has(H, v)
BY DEF Has

LEMMA SessionNumbers == 0 \notin Sessions
BY ServerAssumption DEF Sessions

\* What the other requests rely on stays.
LEMMA JobKeeps ==
  ASSUME IInv, Grow, NEW u \in Users, NEW k \in Kinds, job'[u][k] = job[u][k]
  PROVE  JobOK(u, k)'
<1>1. JobOK(u, k) /\ job[u][k] \in Jobs
  BY DEF IInv, JobInv, JobType
<1>2. Aimed(u, k)'
  BY <1>1 DEF JobOK, Aimed, Grow
<1>3. CASE job[u][k].at = "idle"
  BY <1>2, <1>3 DEF JobOK
<1>4. CASE k = "offer" /\ job[u][k].at \in {"sent", "create"}
  BY <1>2, <1>4 DEF JobOK, Answers
<1>5. CASE job[u][k].sess \in Sessions /\ state[job[u][k].sess] # "none"
  <2>1. /\ given[job[u][k].sess] \subseteq given'[job[u][k].sess]
        /\ caller'[job[u][k].sess] = caller[job[u][k].sess]
    BY <1>5 DEF Grow
  <2>2. given[job[u][k].sess] \cup {job[u][k].next} \subseteq given'[job[u][k].sess] \cup {job[u][k].next}
    BY <2>1
  <2> QED BY <1>1, <1>2, <2>1, <2>2, HasGrows DEF JobOK
<1> QED BY <1>1, <1>3, <1>4, <1>5 DEF JobOK, Aimed

LEMMA ViewKeeps ==
  ASSUME IInv, Grow, NEW u \in Users, view'[u] = view[u] PROVE ViewOK(u)'
BY DEF IInv, ViewInv, ViewOK, Grow

LEMMA BecomesType ==
  ASSUME JobType, NEW u \in Users, NEW k \in Kinds, NEW j \in Jobs, Becomes(u, k, j)
  PROVE  /\ JobType' /\ job'[u][k] = j
         /\ \A q \in Users, l \in Kinds : q # u \/ l # k => job'[q][l] = job[q][l]
BY DEF JobType, Becomes

\* A step that makes j of request k of u.
LEMMA RequestStep ==
  ASSUME IInv, Grow, NEW u \in Users, NEW k \in Kinds, NEW j \in Jobs, Becomes(u, k, j),
         JobOK(u, k)', SessType', ListOK', UserType', SessInv', ViewInv'
  PROVE  IInv'
<1>1. /\ JobType' /\ job'[u][k] = j
      /\ \A q \in Users, l \in Kinds : q # u \/ l # k => job'[q][l] = job[q][l]
  BY BecomesType DEF IInv
<1>2. ASSUME NEW q \in Users, NEW l \in Kinds PROVE JobOK(q, l)'
  <2>1. CASE q = u /\ l = k
    BY <2>1
  <2>2. CASE q # u \/ l # k
    BY <1>1, <2>2, JobKeeps
  <2> QED BY <2>1, <2>2
<1> QED BY <1>1, <1>2 DEF IInv, JobInv

\* A step in which only that request moves on.
LEMMA RequestMoves ==
  ASSUME IInv, NEW u \in Users, NEW k \in Kinds, NEW j \in Jobs, Becomes(u, k, j),
         JobOK(u, k)', UNCHANGED <<listed, present, sessVars, victim, view, given>>,
         clicks' \in [Sessions -> [{"answer", "terminate"} -> Nat]]
  PROVE  IInv' /\ Grow
<1>1. Grow
  BY DEF Grow, sessVars
<1>2. SessType' /\ ListOK' /\ UserType'
  BY DEF IInv, SessType, ListOK, UserType, sessVars
<1>3. SessInv' /\ ViewInv'
  BY DEF IInv, SessInv, SessionOK, ViewInv, ViewOK, sessVars
<1> QED BY <1>1, <1>2, <1>3, RequestStep

LEMMA JobEdit ==
  \A j \in Jobs, l \in Steps :
         /\ [j EXCEPT !.at = l] \in Jobs /\ [j EXCEPT !.at = l].at = l
         /\ [j EXCEPT !.at = l].sess = j.sess /\ [j EXCEPT !.at = l].peer = j.peer
         /\ [j EXCEPT !.at = l].next = j.next
BY DEF Jobs

LEMMA IdleType == Idle \in Jobs /\ Idle.at = "idle"
BY DEF Idle, Jobs, Steps, States

\* An idle request has nothing to know.
LEMMA IdleOK ==
  ASSUME NEW u \in Users, NEW k \in Kinds, job'[u][k] = Idle PROVE JobOK(u, k)'
BY IdleType DEF JobOK, Aimed

LEMMA JobFields ==
  \A j \in Jobs : /\ j.at \in Steps /\ j.sess \in Sessions \cup {0}
                  /\ j.next \in States /\ j.peer \in Users \cup {NoUser}
BY DEF Jobs

\* A request that ends with an error changes nothing.
LEMMA FailsKeeps ==
  ASSUME IInv, NEW u \in Users, NEW k \in Kinds, Fails(u, k),
         UNCHANGED <<listed, present, sessVars, victim>>
  PROVE  IInv'
<1>1. Becomes(u, k, Idle) /\ UNCHANGED <<view, clicks, given>>
  BY DEF Fails, userVars
<1>2. job'[u][k] = Idle
  BY <1>1, IdleType, BecomesType DEF IInv
<1> QED BY <1>1, <1>2, IdleType, IdleOK, RequestMoves DEF IInv, UserType

------------------------------------------------------------------------------
(* Requests that only look.                                                 *)

LEMMA CheckOfferKeeps ==
  ASSUME IInv, NEW u \in Users, CheckOffer(u) PROVE IInv'
<1>1. "offer" \in Kinds /\ "offer" # "poll" /\ "offer" \notin Answers
  BY DEF Kinds, Answers
<1>2. CASE /\ job[u]["offer"].peer \in present
           /\ Goto(u, "offer", "create") /\ UNCHANGED userVars
  <2> DEFINE j == [job[u]["offer"] EXCEPT !.at = "create"]
  <2>1. j \in Jobs /\ j.at = "create" /\ j.peer = job[u]["offer"].peer
    <3>1. job[u]["offer"] \in Jobs /\ "create" \in Steps
      BY <1>1, JobFields DEF IInv, JobType, Steps
    <3> QED BY <3>1, JobEdit, Zenon
  <2>2. Becomes(u, "offer", j)
    BY <1>2 DEF Goto
  <2>3. job'[u]["offer"] = j
    BY <1>1, <2>1, <2>2, BecomesType DEF IInv
  <2>5. j.peer \in Users
    BY <1>2, <2>1 DEF IInv, ListOK
  <2>6. JobOK(u, "offer")'
    BY <1>1, <2>1, <2>3, <2>5 DEF JobOK, Aimed
  <2> QED BY <1>1, <1>2, <2>1, <2>2, <2>6, RequestMoves DEF CheckOffer, userVars, IInv, UserType
<1>3. CASE Fails(u, "offer")
  BY <1>1, <1>3, FailsKeeps DEF CheckOffer
<1> QED BY <1>2, <1>3 DEF CheckOffer

\* A request that has found its session gets to step l, with next state v.
LEMMA FoundKeeps ==
  ASSUME IInv, NEW u \in Users, NEW k \in Kinds \ {"poll", "offer"}, NEW l \in Steps \ {"idle"},
         NEW v \in States, Has(given[job[u][k].sess], v), v = "none" => l # "set",
         job[u][k].at # "idle", Becomes(u, k, [job[u][k] EXCEPT !.at = l, !.next = v]),
         UNCHANGED <<listed, present, sessVars, victim, userVars>>
  PROVE  IInv'
<1> DEFINE j == [job[u][k] EXCEPT !.at = l, !.next = v]
<1>1. j \in Jobs /\ j.at = l /\ j.next = v /\ j.sess = job[u][k].sess
  <2>1. PICK i \in Jobs : i = job[u][k]
    BY DEF IInv, JobType
  <2>2. [i EXCEPT !.at = l, !.next = v] = j
    BY <2>1, Zenon
  <2> HIDE DEF j
  <2> QED BY <2>1, <2>2 DEF Jobs
<1>2. job'[u][k] = j
  BY <1>1, BecomesType DEF IInv
<1>3. JobOK(u, k) /\ UNCHANGED <<state, caller, given>>
  BY DEF IInv, JobInv, sessVars, userVars
<1>4. JobOK(u, k)'
  BY <1>1, <1>2, <1>3 DEF JobOK, Aimed
<1> QED BY <1>1, <1>4, RequestMoves DEF userVars, IInv, UserType

\* What a request knows at its next step, if that writes no state.
LEMMA GotoOK ==
  ASSUME IInv, Grow, NEW u \in Users, NEW k \in Kinds \ {"poll", "offer"},
         NEW l \in Steps \ {"idle", "set"}, job[u][k].at # "idle", Goto(u, k, l)
  PROVE  /\ [job[u][k] EXCEPT !.at = l] \in Jobs
         /\ Becomes(u, k, [job[u][k] EXCEPT !.at = l]) /\ JobOK(u, k)'
<1> DEFINE j == [job[u][k] EXCEPT !.at = l]
<1>1. j \in Jobs /\ j.at = l /\ j.sess = job[u][k].sess
  <2>1. job[u][k] \in Jobs
    BY JobFields DEF IInv, JobType
  <2> QED BY <2>1, JobEdit, Zenon
<1>2. Becomes(u, k, j)
  BY DEF Goto
<1>3. job'[u][k] = j
  BY <1>1, <1>2, BecomesType DEF IInv
<1>4. JobOK(u, k)
  BY DEF IInv, JobInv
<1>5. job[u][k].sess \in Sessions /\ state[job[u][k].sess] # "none"
  BY <1>4 DEF JobOK, Aimed
<1>6. /\ given[job[u][k].sess] \subseteq given'[job[u][k].sess]
      /\ caller'[job[u][k].sess] = caller[job[u][k].sess] /\ state'[job[u][k].sess] # "none"
  BY <1>5 DEF Grow
<1>7. JobOK(u, k)'
  BY <1>1, <1>3, <1>4, <1>5, <1>6, HasGrows DEF JobOK, Aimed
<1> QED BY <1>1, <1>2, <1>7

LEMMA MovesOn ==
  ASSUME IInv, NEW u \in Users, NEW k \in Kinds \ {"poll", "offer"},
         NEW l \in Steps \ {"idle", "set"}, job[u][k].at # "idle", Goto(u, k, l),
         UNCHANGED <<listed, present, sessVars, victim, userVars>>
  PROVE  IInv'
<1>1. Grow
  BY DEF Grow, sessVars, userVars
<1>2. /\ [job[u][k] EXCEPT !.at = l] \in Jobs
      /\ Becomes(u, k, [job[u][k] EXCEPT !.at = l]) /\ JobOK(u, k)'
  BY <1>1, GotoOK
<1> QED BY <1>2, RequestMoves DEF userVars, IInv, UserType

LEMMA FindAnswerKeeps ==
  ASSUME IInv, NEW u \in Users, NEW k \in Kinds, FindAnswer(u, k) PROVE IInv'
<1>1. k \in Answers /\ k \in Kinds \ {"poll", "offer"} /\ job[u][k].at = "sent"
  BY DEF FindAnswer, Starts, At, Answers
<1>2. CASE UNCHANGED userVars /\ Becomes(u, k, [job[u][k] EXCEPT !.at = "set", !.next = "ANSWERED"])
  <2>1. Has(given[job[u][k].sess], "ANSWERED")
    BY <1>1 DEF IInv, JobInv, JobOK, Has
  <2>2. "ANSWERED" \in States /\ "set" \in Steps \ {"idle"} /\ "ANSWERED" # "none"
    BY DEF States, Steps
  <2> QED BY <1>1, <1>2, <2>1, <2>2, FoundKeeps DEF FindAnswer
<1>3. CASE Fails(u, k)
  BY <1>3, FailsKeeps DEF FindAnswer
<1> QED BY <1>2, <1>3 DEF FindAnswer

LEMMA FindCandidateKeeps ==
  ASSUME IInv, NEW u \in Users, FindCandidate(u) PROVE IInv'
<1> DEFINE s == job[u]["candidate"].sess
           v == IF Find(u, "candidate") THEN CandidateState(u, s) ELSE "none"
<1>1. "candidate" \in Kinds \ {"poll", "offer"} /\ job[u]["candidate"].at = "sent"
  BY DEF FindCandidate, Starts, At, Kinds, Answers
<1>2. CASE /\ v # "none" /\ UNCHANGED userVars
           /\ Becomes(u, "candidate", [job[u]["candidate"] EXCEPT !.at = "set", !.next = v])
  <2>1. s \in Sessions
    BY <1>2 DEF Find, IInv, ListOK
  <2>2. SessionOK(s)
    BY <2>1 DEF IInv, SessInv
  <2>3. \/ state[s] = "ANSWER_DELIVERED" /\ v = "CALLER_CANDIDATE"
        \/ state[s] = "CALLER_CANDIDATE_DELIVERED" /\ v = "CALLEE_CANDIDATE"
    BY <1>2 DEF CandidateState
  <2>4. Has(given[s], v) /\ v \in States
    BY <2>2, <2>3 DEF SessionOK, Has, States
  <2>5. "set" \in Steps \ {"idle"}
    BY DEF Steps
  <2> HIDE DEF v
  <2> QED BY <1>1, <1>2, <2>4, <2>5, FoundKeeps DEF FindCandidate
<1>3. CASE Fails(u, "candidate")
  BY <1>1, <1>3, FailsKeeps DEF FindCandidate
<1> QED BY <1>2, <1>3 DEF FindCandidate

LEMMA FindEstablishedKeeps ==
  ASSUME IInv, NEW u \in Users, FindEstablished(u) PROVE IInv'
<1>1. /\ "established" \in Kinds \ {"poll", "offer"} /\ "flag" \in Steps \ {"idle", "set"}
      /\ job[u]["established"].at = "sent"
  BY DEF FindEstablished, Starts, At, Kinds, Answers, Steps
<1>2. CASE Goto(u, "established", "flag") /\ UNCHANGED userVars
  BY <1>1, <1>2, MovesOn DEF FindEstablished
<1>3. CASE Fails(u, "established")
  BY <1>1, <1>3, FailsKeeps DEF FindEstablished
<1> QED BY <1>2, <1>3 DEF FindEstablished

LEMMA FindTerminateKeeps ==
  ASSUME IInv, NEW u \in Users, FindTerminate(u) PROVE IInv'
<1>1. /\ "terminate" \in Kinds \ {"poll", "offer"} /\ "end" \in Steps \ {"idle", "set"}
      /\ job[u]["terminate"].at = "sent"
  BY DEF FindTerminate, Starts, At, Kinds, Answers, Steps
<1>2. CASE Goto(u, "terminate", "end") /\ UNCHANGED userVars
  BY <1>1, <1>2, MovesOn DEF FindTerminate
<1>3. CASE Fails(u, "terminate")
  BY <1>1, <1>3, FailsKeeps DEF FindTerminate
<1> QED BY <1>2, <1>3 DEF FindTerminate

------------------------------------------------------------------------------
(* Steps that write a session.                                              *)

LEMMA SetStateKeeps ==
  ASSUME IInv, NEW s \in Sessions, state[s] # "none", NEW v \in States \ {"none"},
         SetState(s, v), Has(given'[s], v), \A t \in Sessions : given[t] \subseteq given'[t]
  PROVE  Grow /\ SessType' /\ SessInv'
<1>1. /\ UNCHANGED <<caller, callee, established, ended>>
      /\ state' = [state EXCEPT ![s] = v] /\ age' = [age EXCEPT ![s] = 0]
  BY DEF SetState
<1>2. SessType /\ 0 \in 0..(Timeout + 1)
  BY ServerAssumption DEF IInv
<1>3. SessType'
  BY <1>1, <1>2 DEF SessType
<1>4. Grow
  BY <1>1, <1>2 DEF Grow, SessType
<1>5. ASSUME NEW t \in Sessions PROVE SessionOK(t)'
  <2>1. SessionOK(t) /\ given[t] \subseteq given'[t]
    BY DEF IInv, SessInv
  <2>2. Has(given'[t], state'[t])
    BY <1>1, <1>2, <2>1, HasGrows DEF SessionOK, SessType
  <2>3. caller[t] \in established[t] => Has(given'[t], "ESTABLISHED")
    BY <2>1, HasGrows DEF SessionOK
  <2>4. state'[t] = "none" => state[t] = "none"
    BY <1>1, <1>2 DEF SessType
  <2>5. state'[t] # "none" => caller[t] \in Users /\ callee[t] \in Users
    BY <1>1, <1>2, <2>1 DEF SessionOK, SessType
  <2> QED BY <1>1, <2>1, <2>2, <2>3, <2>4, <2>5 DEF SessionOK
<1> QED BY <1>3, <1>4, <1>5 DEF SessInv

LEMMA LearnsKeeps ==
  ASSUME IInv, Grow, NEW u \in Users, NEW s \in Sessions, state[s] # "none", NEW v \in States,
         Learns(u, s, v), v = "OFFER_DELIVERED" => "OFFER_DELIVERED" \in given'[s],
         given' \in [Sessions -> SUBSET States]
  PROVE  UserType' /\ ViewInv'
<1> DEFINE x == [sess |-> s, state |-> Shown(v)]
<1>1. x \in [sess : Sessions \cup {0}, state : States] /\ x.sess = s /\ x.state = Shown(v)
  BY DEF Shown, States
<1>2. view' = [view EXCEPT ![u] = x] /\ UNCHANGED clicks
  BY DEF Learns
<1> HIDE DEF x
<1>3. UserType'
  BY <1>1, <1>2 DEF IInv, UserType
<1>4. ASSUME NEW q \in Users PROVE ViewOK(q)'
  <2>1. CASE q = u
    <3>1. view'[q] = x
      BY <1>2, <2>1 DEF IInv, UserType
    <3>2. x.state = "OFFER_DELIVERED" => v = "OFFER_DELIVERED"
      BY <1>1 DEF Shown
    <3>3. state'[s] # "none"
      BY DEF Grow
    <3> QED BY <1>1, <3>1, <3>2, <3>3 DEF ViewOK
  <2>2. CASE q # u
    BY <1>2, <2>2, ViewKeeps DEF IInv, UserType
  <2> QED BY <2>1, <2>2
<1> QED BY <1>3, <1>4 DEF ViewInv

\* The session of a request beyond its first look.
LEMMA AimedAt ==
  ASSUME IInv, NEW u \in Users, NEW k \in Kinds, job[u][k].at \notin {"idle", "sent", "create"}
  PROVE  /\ job[u][k].sess \in Sessions /\ state[job[u][k].sess] # "none"
         /\ job[u][k].next \in States /\ SessionOK(job[u][k].sess) /\ JobOK(u, k)
<1>1. JobOK(u, k) /\ job[u][k] \in Jobs
  BY DEF IInv, JobInv, JobType
<1>2. job[u][k].sess \in Sessions /\ state[job[u][k].sess] # "none"
  BY <1>1 DEF JobOK, Aimed
<1> QED BY <1>1, <1>2, JobFields DEF IInv, SessInv

\* A step that ends request k of u, with what the browser learns.
LEMMA RepliesKeeps ==
  ASSUME IInv, Grow, NEW u \in Users, NEW k \in Kinds, NEW v \in States,
         job[u][k].sess \in Sessions, state[job[u][k].sess] # "none",
         v = "OFFER_DELIVERED" => "OFFER_DELIVERED" \in given[job[u][k].sess],
         Replies(u, k, v), UNCHANGED <<listed, present, victim>>, SessType', SessInv'
  PROVE  IInv'
<1>1. Becomes(u, k, Idle) /\ UNCHANGED given
  BY DEF Replies
<1>2. UserType' /\ ViewInv'
  BY <1>1, LearnsKeeps DEF Replies, IInv, UserType
<1>3. ListOK'
  BY DEF IInv, ListOK, Grow
<1>4. job'[u][k] = Idle
  BY <1>1, IdleType, BecomesType DEF IInv
<1> QED BY <1>1, <1>2, <1>3, <1>4, IdleType, IdleOK, RequestStep

LEMMA WriteKeeps ==
  ASSUME IInv, NEW u \in Users, NEW k \in Kinds, Write(u, k) PROVE IInv'
<1> DEFINE s == job[u][k].sess
           v == job[u][k].next
<1>1. /\ s \in Sessions /\ state[s] # "none" /\ v \in States \ {"none"}
      /\ Has(given[s], v) /\ SessionOK(s)
  BY AimedAt DEF Write, At, JobOK
<1>2. SetState(s, v) /\ Replies(u, k, v) /\ UNCHANGED <<listed, present, victim, given>>
  BY DEF Write, Replies
<1>3. Grow /\ SessType' /\ SessInv'
  BY <1>1, <1>2, SetStateKeeps
<1>4. v = "OFFER_DELIVERED" => "OFFER_DELIVERED" \in given[s]
  BY <1>1 DEF Has
<1> QED BY <1>1, <1>2, <1>3, <1>4, RepliesKeeps

LEMMA CreateSessionKeeps ==
  ASSUME IInv, NEW u \in Users, CreateSession(u) PROVE IInv'
<1>1. /\ "offer" \in Kinds /\ "offer" \notin Answers
      /\ "set" \in Steps /\ "set" # "idle" /\ "STARTED" \in States /\ "OFFERED" \in States
  BY DEF Kinds, Answers, Steps, States
<1>2. PICK s \in Sessions :
        /\ IsNew(s)
        /\ listed' = listed \cup {s}
        /\ caller' = [caller EXCEPT ![s] = u]
        /\ callee' = [callee EXCEPT ![s] = job[u]["offer"].peer]
        /\ state' = [state EXCEPT ![s] = "STARTED"]
        /\ Becomes(u, "offer", [Idle EXCEPT !.at = "set", !.sess = s, !.next = "OFFERED"])
  BY DEF CreateSession
<1>3. UNCHANGED <<present, age, established, ended, victim, view, clicks, given>>
  BY DEF CreateSession, userVars
<1>4. job[u]["offer"].peer \in Users
  <2>1. JobOK(u, "offer") /\ job[u]["offer"].at = "create"
    BY <1>1 DEF IInv, JobInv, CreateSession, At
  <2> QED BY <2>1 DEF JobOK, Aimed
<1>5. state[s] = "none"
  BY <1>2 DEF IsNew
<1>6. SessType'
  BY <1>1, <1>2, <1>3, <1>4 DEF IInv, SessType
<1>7. \A t \in Sessions \ {s} : /\ state'[t] = state[t] /\ caller'[t] = caller[t]
                                /\ callee'[t] = callee[t]
  BY <1>2 DEF IInv, SessType
<1>8. /\ state'[s] = "STARTED" /\ caller'[s] = u /\ callee'[s] = job[u]["offer"].peer
  BY <1>2 DEF IInv, SessType
<1>9. Grow
  BY <1>3, <1>5, <1>7, <1>8 DEF Grow
<1>10. ASSUME NEW t \in Sessions PROVE SessionOK(t)'
  <2>1. SessionOK(t)
    BY DEF IInv, SessInv
  <2>2. CASE t = s
    BY <1>3, <1>4, <1>5, <1>8, <2>1, <2>2 DEF SessionOK, Has
  <2>3. CASE t # s
    BY <1>3, <1>7, <2>1, <2>3 DEF SessionOK
  <2> QED BY <2>2, <2>3
<1>11. ListOK'
  BY <1>2, <1>3, <1>7, <1>8 DEF IInv, ListOK
<1>12. UserType' /\ ViewInv'
  BY <1>3, <1>9, ViewKeeps DEF IInv, UserType, ViewInv
<1> DEFINE j == [Idle EXCEPT !.at = "set", !.sess = s, !.next = "OFFERED"]
<1>13. j \in Jobs /\ j.at = "set" /\ j.sess = s /\ j.next = "OFFERED"
  <2>1. PICK i \in Jobs : i = Idle
    BY IdleType
  <2>2. [i EXCEPT !.at = "set", !.sess = s, !.next = "OFFERED"] = j
    BY <2>1, Zenon
  <2> HIDE DEF j
  <2> QED BY <1>1, <2>2 DEF Jobs
<1>14. job'[u]["offer"] = j
  BY <1>1, <1>2, <1>13, BecomesType DEF IInv
<1>15. JobOK(u, "offer")'
  BY <1>1, <1>8, <1>14 DEF JobOK, Aimed, Has
<1> QED BY <1>1, <1>2, <1>6, <1>9, <1>10, <1>11, <1>12, <1>13, <1>15, RequestStep DEF SessInv

\* A step that leaves states and parties alone, and no caller's flag unearned.
LEMMA SameStates ==
  ASSUME IInv, UNCHANGED <<state, caller, callee>>, \A t \in Sessions : given[t] \subseteq given'[t],
         \A t \in Sessions : \/ established'[t] = established[t]
                             \/ /\ state[t] # "none"
                                /\ caller[t] \in established'[t] => Has(given[t], "ESTABLISHED")
  PROVE  Grow /\ SessInv'
<1>1. Grow
  BY DEF Grow
<1>2. ASSUME NEW t \in Sessions PROVE SessionOK(t)'
  <2>1. SessionOK(t) /\ given[t] \subseteq given'[t]
    BY DEF IInv, SessInv
  <2> QED BY <2>1, HasGrows DEF SessionOK
<1> QED BY <1>1, <1>2 DEF SessInv

LEMMA MarksKeeps ==
  ASSUME IInv, NEW s \in Sessions, NEW u \in Users, Marks(s, u), UNCHANGED given
  PROVE  Grow /\ SessType' /\ SessInv'
<1>1. 0 \in 0..(Timeout + 1)
  BY ServerAssumption
<1>2. SessType'
  BY <1>1 DEF Marks, IInv, SessType
<1> QED BY <1>2, SameStates DEF Marks

LEMMA FlagKeeps ==
  ASSUME IInv, NEW u \in Users, Flag(u) PROVE IInv'
<1> DEFINE k == "established"
           s == job[u][k].sess
<1>1. k \in Kinds \ {"poll", "offer"} /\ "check" \in Steps \ {"idle", "set"} /\ job[u][k].at = "flag"
  BY DEF Flag, At, Kinds, Answers, Steps
<1>2. s \in Sessions /\ state[s] # "none" /\ JobOK(u, k)
  BY <1>1, AimedAt
<1>3. /\ established' = [established EXCEPT ![s] = @ \cup {u}]
      /\ UNCHANGED <<listed, present, caller, callee, state, age, ended, victim, view, clicks, given>>
  BY DEF Flag, userVars
<1>4. SessType'
  BY <1>3 DEF IInv, SessType
<1>5. caller[s] \in established'[s] => Has(given[s], "ESTABLISHED")
  <2>1. established'[s] = established[s] \cup {u}
    BY <1>2, <1>3 DEF IInv, SessType
  <2>2. CASE caller[s] = u
    BY <1>1, <1>2, <2>2 DEF JobOK
  <2>3. CASE caller[s] # u
    BY <1>2, <2>1, <2>3 DEF IInv, SessInv, SessionOK
  <2> QED BY <2>2, <2>3
<1>6. \A t \in Sessions \ {s} : established'[t] = established[t]
  BY <1>3 DEF IInv, SessType
<1>7. Grow /\ SessInv'
  BY <1>2, <1>3, <1>5, <1>6, SameStates
<1>8. Goto(u, k, "check")
  BY DEF Flag
<1>9. /\ [job[u][k] EXCEPT !.at = "check"] \in Jobs
      /\ Becomes(u, k, [job[u][k] EXCEPT !.at = "check"]) /\ JobOK(u, k)'
  BY <1>1, <1>7, <1>8, GotoOK
<1>10. ListOK' /\ UserType' /\ ViewInv'
  BY <1>3, <1>7, ViewKeeps DEF IInv, ListOK, UserType, ViewInv
<1> QED BY <1>1, <1>4, <1>7, <1>9, <1>10, RequestStep

LEMMA CheckOtherKeeps ==
  ASSUME IInv, NEW u \in Users, CheckOther(u) PROVE IInv'
<1> DEFINE k == "established"
           s == job[u][k].sess
<1>1. k \in Kinds \ {"poll", "offer"} /\ "set" \in Steps \ {"idle"} /\ job[u][k].at = "check"
      /\ "ESTABLISHED" \in States
  BY DEF CheckOther, At, Kinds, Answers, Steps, States
<1>2. s \in Sessions /\ state[s] # "none" /\ SessionOK(s) /\ state[s] \in States
  BY <1>1, AimedAt DEF IInv, SessType
<1>3. CASE /\ SeesBoth(s)
           /\ Becomes(u, k, [job[u][k] EXCEPT !.at = "set", !.next = "ESTABLISHED"])
           /\ UNCHANGED <<sessVars, userVars>>
  <2>1. Has(given[s], "ESTABLISHED")
    BY <1>2, <1>3 DEF SeesBoth, Parties, SessionOK
  <2> QED BY <1>1, <1>3, <2>1, FoundKeeps DEF CheckOther
<1>4. CASE SetState(s, state[s]) /\ Replies(u, k, state[s])
  <2>1. UNCHANGED given
    BY <1>4 DEF Replies
  <2>2. Has(given[s], state[s])
    BY <1>2 DEF SessionOK
  <2>3. Grow /\ SessType' /\ SessInv'
    BY <1>2, <1>4, <2>1, <2>2, SetStateKeeps
  <2>4. state[s] = "OFFER_DELIVERED" => "OFFER_DELIVERED" \in given[s]
    BY <2>2 DEF Has
  <2> QED BY <1>1, <1>2, <1>4, <2>3, <2>4, RepliesKeeps DEF CheckOther
<1> QED BY <1>3, <1>4 DEF CheckOther

LEMMA EndKeeps ==
  ASSUME IInv, NEW u \in Users, End(u) PROVE IInv'
<1> DEFINE k == "terminate"
           s == job[u][k].sess
<1>1. k \in Kinds \ {"poll", "offer"} /\ "reset" \in Steps \ {"idle", "set"} /\ job[u][k].at = "end"
  BY DEF End, At, Kinds, Answers, Steps
<1>2. s \in Sessions /\ state[s] # "none"
  BY <1>1, AimedAt
<1>3. /\ state' = [state EXCEPT ![s] = "TERMINATED"]
      /\ UNCHANGED <<listed, present, caller, callee, age, established, ended, victim, view, clicks, given>>
  BY DEF End, userVars
<1>4. SessType'
  BY <1>3 DEF IInv, SessType, States
<1>5. \A t \in Sessions : state'[t] = IF t = s THEN "TERMINATED" ELSE state[t]
  BY <1>3 DEF IInv, SessType
<1>6. Grow
  BY <1>3, <1>5 DEF Grow
<1>7. SessInv'
  BY <1>2, <1>3, <1>5 DEF IInv, SessInv, SessionOK, Has
<1>8. Goto(u, k, "reset")
  BY DEF End
<1>9. /\ [job[u][k] EXCEPT !.at = "reset"] \in Jobs
      /\ Becomes(u, k, [job[u][k] EXCEPT !.at = "reset"]) /\ JobOK(u, k)'
  BY <1>1, <1>6, <1>8, GotoOK
<1>10. ListOK' /\ UserType' /\ ViewInv'
  BY <1>3, <1>6, ViewKeeps DEF IInv, ListOK, UserType, ViewInv, Grow
<1> QED BY <1>1, <1>4, <1>6, <1>7, <1>9, <1>10, RequestStep

LEMMA ResetKeeps ==
  ASSUME IInv, NEW u \in Users, Reset(u) PROVE IInv'
<1> DEFINE k == "terminate"
           s == job[u][k].sess
<1>1. k \in Kinds \ {"poll", "offer"} /\ "mark" \in Steps \ {"idle", "set"} /\ job[u][k].at = "reset"
      /\ 0 \in 0..(Timeout + 1)
  BY ServerAssumption DEF Reset, At, Kinds, Answers, Steps
<1>2. /\ ended' = [ended EXCEPT ![s] = {}] /\ age' = [age EXCEPT ![s] = 0]
      /\ UNCHANGED <<listed, present, caller, callee, state, established, victim, view, clicks, given>>
  BY DEF Reset, userVars
<1>3. SessType'
  BY <1>1, <1>2 DEF IInv, SessType
<1>4. Grow /\ SessInv'
  BY <1>2, SameStates
<1>5. Goto(u, k, "mark")
  BY DEF Reset
<1>6. /\ [job[u][k] EXCEPT !.at = "mark"] \in Jobs
      /\ Becomes(u, k, [job[u][k] EXCEPT !.at = "mark"]) /\ JobOK(u, k)'
  BY <1>1, <1>4, <1>5, GotoOK
<1>7. ListOK' /\ UserType' /\ ViewInv'
  BY <1>2, <1>4, ViewKeeps DEF IInv, ListOK, UserType, ViewInv
<1> QED BY <1>1, <1>3, <1>4, <1>6, <1>7, RequestStep

LEMMA MarkKeeps ==
  ASSUME IInv, NEW u \in Users, Mark(u) PROVE IInv'
<1> DEFINE k == "terminate"
           s == job[u][k].sess
<1>1. k \in Kinds /\ job[u][k].at = "mark"
  BY DEF Mark, At, Kinds
<1>2. s \in Sessions /\ state[s] # "none" /\ SessionOK(s) /\ state[s] \in States
  BY <1>1, AimedAt DEF IInv, SessType
<1>3. /\ Marks(s, u) /\ Replies(u, k, state[s]) /\ UNCHANGED <<listed, present, victim, given>>
  BY DEF Mark, Replies
<1>4. Grow /\ SessType' /\ SessInv'
  BY <1>2, <1>3, MarksKeeps
<1>5. state[s] = "OFFER_DELIVERED" => "OFFER_DELIVERED" \in given[s]
  BY <1>2 DEF SessionOK, Has
<1> QED BY <1>1, <1>2, <1>3, <1>4, <1>5, RepliesKeeps

------------------------------------------------------------------------------
(* The poll.                                                                *)

\* A request as a browser sends it.
LEMMA RequestFields ==
  ASSUME NEW k \in Kinds, NEW s \in Sessions \cup {0}, NEW q \in Users \cup {NoUser}
  PROVE  /\ Request(k, s, q) \in Jobs /\ Request(k, s, q).at = "sent"
         /\ Request(k, s, q).sess = s /\ Request(k, s, q).peer = q
<1>1. PICK i \in Jobs : i = Idle
  BY IdleType
<1>2. [i EXCEPT !.at = "sent", !.sess = s, !.peer = q] = Request(k, s, q)
  BY <1>1, Zenon DEF Request
<1> QED BY <1>2 DEF Jobs, Steps

\* A step in which no request moves on.
LEMMA NoRequestMoves ==
  ASSUME IInv, Grow, UNCHANGED job, SessType', ListOK', UserType', SessInv', ViewInv'
  PROVE  IInv'
<1>1. JobInv'
  BY JobKeeps DEF JobInv
<1> QED BY <1>1 DEF IInv, JobType

\* What a poll is about to deliver of a session, the session has earned.
LEMMA DeliveryHas ==
  ASSUME NEW u \in Users, NEW s \in Sessions, Has(given[s], state[s]), Delivery(u, s) # "none"
  PROVE  /\ Delivery(u, s) \in Deliveries /\ Has(given[s] \cup {Delivery(u, s)}, Delivery(u, s))
         /\ caller[s] = u <=>
              Delivery(u, s) \in {"ANSWER_DELIVERED", "CALLEE_CANDIDATE_DELIVERED"}
<1>1. \/ caller[s] = u /\ state[s] = "ANSWERED" /\ Delivery(u, s) = "ANSWER_DELIVERED"
      \/ /\ caller[s] = u /\ state[s] = "CALLEE_CANDIDATE"
         /\ Delivery(u, s) = "CALLEE_CANDIDATE_DELIVERED"
      \/ caller[s] # u /\ state[s] = "OFFERED" /\ Delivery(u, s) = "OFFER_DELIVERED"
      \/ /\ caller[s] # u /\ state[s] = "CALLER_CANDIDATE"
         /\ Delivery(u, s) = "CALLER_CANDIDATE_DELIVERED"
  BY DEF Delivery
<1> QED BY <1>1 DEF Has, Deliveries

LEMMA PresentKeeps ==
  ASSUME IInv, NEW u \in Users, Present(u) PROVE IInv'
<1> DEFINE mine == {s \in listed : u \in Parties(s)}
<1>1. present' = present \cup {u} /\ UNCHANGED <<listed, victim>>
  BY DEF Present
<1>2. CASE /\ view' = [view EXCEPT ![u] = NoSession]
           /\ UNCHANGED <<sessVars, job, clicks, given>>
  <2>1. NoSession \in [sess : Sessions \cup {0}, state : States]
    BY DEF NoSession, States
  <2>2. Grow /\ SessType' /\ SessInv'
    BY <1>2, SameStates DEF sessVars, IInv, SessType
  <2>3. ListOK' /\ UserType'
    BY <1>1, <1>2, <2>1 DEF IInv, ListOK, UserType, sessVars
  <2>4. ViewInv'
    <3> SUFFICES ASSUME NEW q \in Users PROVE ViewOK(q)'
      BY DEF ViewInv
    <3>1. CASE q = u
      BY <1>2, <3>1 DEF IInv, UserType, ViewOK
    <3>2. CASE q # u
      BY <1>2, <2>2, <3>2, ViewKeeps DEF IInv, UserType
    <3> QED BY <3>1, <3>2
  <2> QED BY <1>2, <2>2, <2>3, <2>4, NoRequestMoves
<1>3. ASSUME NEW s \in Sessions, s \in mine,
             IF state[s] = "TERMINATED" THEN Marks(s, Peer(u, s)) ELSE UNCHANGED sessVars,
             Learns(u, s, state[s]), UNCHANGED <<job, given>>
      PROVE  IInv'
  <2>1. state[s] # "none" /\ SessionOK(s) /\ state[s] \in States
    BY <1>3 DEF IInv, ListOK, SessInv, SessType
  <2>2. Peer(u, s) \in Users
    BY <2>1 DEF Peer, SessionOK
  <2>3. Grow /\ SessType' /\ SessInv'
    <3>1. CASE Marks(s, Peer(u, s))
      BY <1>3, <2>2, <3>1, MarksKeeps
    <3>2. CASE UNCHANGED sessVars
      BY <1>3, <3>2, SameStates DEF sessVars, IInv, SessType
    <3> QED BY <1>3, <3>1, <3>2
  <2>4. state[s] = "OFFER_DELIVERED" => "OFFER_DELIVERED" \in given'[s]
    BY <1>3, <2>1 DEF SessionOK, Has
  <2>5. UserType' /\ ViewInv'
    BY <1>3, <2>1, <2>3, <2>4, LearnsKeeps DEF IInv, UserType
  <2>6. ListOK'
    BY <1>1, <2>3 DEF IInv, ListOK, Grow
  <2> QED BY <1>3, <2>3, <2>5, <2>6, NoRequestMoves
<1>4. ASSUME NEW s \in Sessions, s \in mine, Delivery(u, s) # "none",
             Becomes(u, "poll", [Idle EXCEPT !.at = "set", !.sess = s, !.next = Delivery(u, s)]),
             UNCHANGED <<sessVars, userVars>>
      PROVE  IInv'
  <2> DEFINE v == Delivery(u, s)
             j == [Idle EXCEPT !.at = "set", !.sess = s, !.next = v]
  <2>1. state[s] # "none" /\ SessionOK(s)
    BY <1>4 DEF IInv, ListOK, SessInv
  <2>2. /\ v \in Deliveries /\ Has(given[s] \cup {v}, v)
        /\ caller[s] = u <=> v \in {"ANSWER_DELIVERED", "CALLEE_CANDIDATE_DELIVERED"}
    BY <1>4, <2>1, DeliveryHas DEF SessionOK
  <2>3. Becomes(u, "poll", j)
    BY <1>4
  <2> HIDE DEF v
  <2>4. v \in States /\ "set" \in Steps /\ "poll" \in Kinds /\ "poll" \notin Answers
    BY <2>2 DEF Deliveries, States, Steps, Kinds, Answers
  <2>5. j \in Jobs /\ j.at = "set" /\ j.sess = s /\ j.next = v
    <3>1. PICK i \in Jobs : i = Idle
      BY IdleType
    <3>2. [i EXCEPT !.at = "set", !.sess = s, !.next = v] = j
      BY <3>1, Zenon
    <3> HIDE DEF j
    <3> QED BY <2>4, <3>2 DEF Jobs
  <2> HIDE DEF j
  <2>6. job'[u]["poll"] = j
    BY <2>3, <2>4, <2>5, BecomesType DEF IInv
  <2>7. Grow /\ SessType' /\ SessInv'
    BY <1>4, SameStates DEF sessVars, userVars, IInv, SessType
  <2>8. ListOK' /\ UserType' /\ ViewInv'
    BY <1>1, <1>4, <2>7, ViewKeeps DEF IInv, ListOK, UserType, ViewInv, sessVars, userVars
  <2>9. UNCHANGED <<state, caller, given>>
    BY <1>4 DEF sessVars, userVars
  <2>10. JobOK(u, "poll")'
    BY <2>1, <2>2, <2>4, <2>5, <2>6, <2>9 DEF JobOK, Aimed
  <2> QED BY <2>3, <2>4, <2>5, <2>7, <2>8, <2>10, RequestStep
<1> QED BY <1>2, <1>3, <1>4 DEF Present, IsFirst

LEMMA DeliverKeeps ==
  ASSUME IInv, NEW u \in Users, Deliver(u) PROVE IInv'
<1> DEFINE s == job[u]["poll"].sess
           v == job[u]["poll"].next
           F == FollowUps(v)
<1>1. "poll" \in Kinds /\ "poll" \notin Answers /\ job[u]["poll"].at = "set"
  BY DEF Deliver, At, Kinds, Answers
<1>2. s \in Sessions /\ state[s] # "none" /\ JobOK(u, "poll")
  BY <1>1, AimedAt
<1>3. /\ v \in Deliveries /\ Has(given[s] \cup {v}, v)
      /\ caller[s] = u <=> v \in {"ANSWER_DELIVERED", "CALLEE_CANDIDATE_DELIVERED"}
  BY <1>1, <1>2 DEF JobOK
<1>4. v \in States \ {"none"}
  BY <1>3 DEF Deliveries, States
<1>5. /\ SetState(s, v) /\ Learns(u, s, v)
      /\ given' = [given EXCEPT ![s] = @ \cup {v}]
      /\ UNCHANGED <<listed, present, victim>>
  BY DEF Deliver
<1>6. job' = [job EXCEPT ![u] = [k \in Kinds |->
                IF k = "poll" THEN Idle ELSE IF k \in F THEN Request(k, s, NoUser) ELSE @[k]]]
  BY DEF Deliver
<1>7. F \subseteq {"candidate", "established"}
  BY <1>3 DEF FollowUps, Deliveries
<1>8. "established" \in F /\ caller[s] = u => v = "CALLEE_CANDIDATE_DELIVERED"
  BY <1>3 DEF FollowUps
<1>9. \A k \in Kinds : /\ Request(k, s, NoUser) \in Jobs /\ Request(k, s, NoUser).at = "sent"
                       /\ Request(k, s, NoUser).sess = s
  BY <1>2, RequestFields
<1>10. /\ given' \in [Sessions -> SUBSET States] /\ given'[s] = given[s] \cup {v}
       /\ \A t \in Sessions : given[t] \subseteq given'[t]
  BY <1>2, <1>4, <1>5 DEF IInv, UserType
<1> HIDE DEF v, F
<1>11. Grow /\ SessType' /\ SessInv'
  BY <1>2, <1>3, <1>4, <1>5, <1>10, SetStateKeeps
<1>12. v = "OFFER_DELIVERED" => "OFFER_DELIVERED" \in given'[s]
  BY <1>10
<1>13. UserType' /\ ViewInv'
  BY <1>2, <1>4, <1>5, <1>10, <1>11, <1>12, LearnsKeeps
<1>14. ListOK'
  BY <1>5, <1>11 DEF IInv, ListOK, Grow
<1>15. \A q \in Users, k \in Kinds :
         job'[q][k] = IF q # u THEN job[q][k] ELSE IF k = "poll" THEN Idle
                      ELSE IF k \in F THEN Request(k, s, NoUser) ELSE job[q][k]
  BY <1>6 DEF IInv, JobType
<1>16. JobType'
  BY <1>6, <1>9, IdleType DEF IInv, JobType
<1>17. ASSUME NEW q \in Users, NEW k \in Kinds PROVE JobOK(q, k)'
  <2>1. CASE q = u /\ k = "poll"
    BY <1>15, <2>1, IdleOK
  <2>2. CASE q = u /\ k \in F
    <3>1. job'[q][k] = Request(k, s, NoUser) /\ k \in {"candidate", "established"}
      BY <1>7, <1>15, <2>2
    <3>2. state'[s] # "none" /\ caller'[s] = caller[s]
      BY <1>2, <1>11 DEF Grow
    <3>3. k = "established" /\ caller[s] = u => Has(given'[s], "ESTABLISHED")
      <4> SUFFICES ASSUME k = "established", caller[s] = u PROVE Has(given'[s], "ESTABLISHED")
        OBVIOUS
      <4>1. v = "CALLEE_CANDIDATE_DELIVERED"
        BY <1>8, <2>2
      <4> QED BY <1>3, <1>10, <4>1 DEF Has
    <3>4. Request(k, s, NoUser).at = "sent" /\ Request(k, s, NoUser).sess = s
      BY <1>9
    <3> QED BY <1>2, <2>2, <3>1, <3>2, <3>3, <3>4 DEF JobOK, Aimed, Answers
  <2>3. CASE q # u \/ (k # "poll" /\ k \notin F)
    <3>1. job'[q][k] = job[q][k]
      BY <1>15, <2>3
    <3> QED BY <1>11, <3>1, JobKeeps
  <2> QED BY <2>1, <2>2, <2>3
<1> QED BY <1>11, <1>13, <1>14, <1>16, <1>17 DEF IInv, JobInv

------------------------------------------------------------------------------
(* The cleanup worker, the clock and the users.                             *)

LEMMA CleanupKeeps ==
  ASSUME IInv, CleanupStep PROVE IInv'
<1>1. UNCHANGED <<present, sessVars, job, userVars>>
  BY DEF CleanupStep, CleanFind, CleanRemove
<1>2. Grow /\ SessType' /\ SessInv'
  BY <1>1, SameStates DEF sessVars, userVars, IInv, SessType
<1>3. ListOK'
  BY <1>1 DEF CleanupStep, CleanFind, CleanRemove, IInv, ListOK, sessVars
<1>4. UserType' /\ ViewInv'
  BY <1>1, <1>2, ViewKeeps DEF IInv, UserType, ViewInv, userVars
<1> QED BY <1>1, <1>2, <1>3, <1>4, NoRequestMoves

LEMMA TickKeeps ==
  ASSUME IInv, Tick PROVE IInv'
<1>1. /\ UNCHANGED <<caller, callee, state, established, ended>>
      /\ UNCHANGED <<listed, present, victim, job, view, clicks, given>>
  BY DEF Tick, Ages, userVars
<1>2. Timeout \in Nat
  BY ServerAssumption
<1>3. age' \in [Sessions -> 0..(Timeout + 1)]
  <2>1. ASSUME NEW s \in Sessions
        PROVE  (IF s \in listed /\ age[s] <= Timeout THEN age[s] + 1 ELSE age[s]) \in 0..(Timeout + 1)
    BY <1>2 DEF IInv, SessType
  <2> QED BY <2>1 DEF Tick, Ages
<1>4. Grow /\ SessType' /\ SessInv'
  BY <1>1, <1>3, SameStates DEF IInv, SessType
<1>5. ListOK' /\ UserType' /\ ViewInv'
  BY <1>1, <1>4, ViewKeeps DEF IInv, ListOK, UserType, ViewInv
<1> QED BY <1>1, <1>4, <1>5, NoRequestMoves

LEMMA InviteKeeps ==
  ASSUME IInv, NEW u \in Users, NEW v \in Users, Invite(u, v) PROVE IInv'
<1>1. "offer" \in Kinds /\ "offer" \notin Answers
  BY DEF Kinds, Answers
<1>2. Becomes(u, "offer", Request("offer", 0, v))
      /\ UNCHANGED <<listed, present, sessVars, victim, view, clicks, given>>
  BY DEF Invite, userVars
<1>3. /\ Request("offer", 0, v) \in Jobs /\ Request("offer", 0, v).at = "sent"
      /\ Request("offer", 0, v).peer = v
  BY <1>1, RequestFields
<1>4. job'[u]["offer"] = Request("offer", 0, v)
  BY <1>1, <1>2, <1>3, BecomesType DEF IInv
<1>5. JobOK(u, "offer")'
  BY <1>1, <1>3, <1>4 DEF JobOK, Aimed
<1> QED BY <1>1, <1>2, <1>3, <1>5, RequestMoves DEF IInv, UserType

LEMMA ClickKeeps ==
  ASSUME IInv, NEW u \in Users, NEW b \in {"answer", "terminate"},
         NEW k \in Answers \cup {"terminate"}, NEW v \in States \ {"none"},
         k \in Answers => v = "OFFER_DELIVERED", Click(u, b, k, v)
  PROVE  IInv'
<1> DEFINE s == view[u].sess
<1>1. k \in Kinds /\ k \notin {"poll", "offer", "established"} /\ NoUser \in Users \cup {NoUser}
  BY DEF Kinds, Answers
<1>2. /\ view[u].state = v /\ Becomes(u, k, Request(k, s, NoUser))
      /\ UNCHANGED <<listed, present, sessVars, victim, view, given>>
      /\ clicks' = [clicks EXCEPT ![s][b] = @ + 1]
  BY DEF Click
<1>3. view[u] # NoSession
  BY <1>2 DEF NoSession
<1>4. /\ s \in Sessions /\ state[s] # "none"
      /\ k \in Answers => "OFFER_DELIVERED" \in given[s]
  BY <1>2, <1>3 DEF IInv, ViewInv, ViewOK
<1>5. clicks' \in [Sessions -> [{"answer", "terminate"} -> Nat]]
  <2>1. clicks[s][b] + 1 \in Nat
    BY <1>4 DEF IInv, UserType
  <2> QED BY <1>2, <1>4, <2>1 DEF IInv, UserType
<1>6. /\ Request(k, s, NoUser) \in Jobs /\ Request(k, s, NoUser).at = "sent"
      /\ Request(k, s, NoUser).sess = s
  BY <1>1, <1>4, RequestFields
<1>7. job'[u][k] = Request(k, s, NoUser)
  BY <1>1, <1>2, <1>6, BecomesType DEF IInv
<1>8. UNCHANGED <<state, given>>
  BY <1>2 DEF sessVars
<1>9. JobOK(u, k)'
  BY <1>1, <1>4, <1>6, <1>7, <1>8 DEF JobOK, Aimed
<1> QED BY <1>1, <1>2, <1>5, <1>6, <1>9, RequestMoves

LEMMA ClicksKeep ==
  ASSUME IInv, NEW u \in Users, Clicks(u) PROVE IInv'
<1>1. CASE AnswerClick(u)
  <2>1. PICK k \in Answers : Click(u, "answer", k, "OFFER_DELIVERED")
    BY <1>1 DEF AnswerClick
  <2>2. "OFFER_DELIVERED" \in States \ {"none"}
    BY DEF States
  <2> QED BY <2>1, <2>2, ClickKeeps
<1>2. CASE TerminateClick(u)
  <2>1. "ESTABLISHED" \in States \ {"none"} /\ "terminate" \notin Answers
    BY DEF States, Answers
  <2> QED BY <1>2, <2>1, ClickKeeps DEF TerminateClick
<1>3. CASE \E v \in Users : Invite(u, v)
  BY <1>3, InviteKeeps
<1> QED BY <1>1, <1>2, <1>3 DEF Clicks

------------------------------------------------------------------------------
(* All steps.                                                               *)

LEMMA InitIInv == Init => IInv
<1> SUFFICES ASSUME Init PROVE IInv
  OBVIOUS
<1>1. SessType /\ ListOK
  BY ServerAssumption DEF Init, ServerInit, SessType, ListOK, States
<1>2. JobType /\ JobInv
  <2>1. JobType
    BY IdleType DEF Init, JobType
  <2>2. \A u \in Users, k \in Kinds : job[u][k].at = "idle"
    BY IdleType DEF Init
  <2> QED BY <2>1, <2>2 DEF JobInv, JobOK, Aimed
<1>3. UserType /\ ViewInv
  BY DEF Init, UserType, ViewInv, ViewOK, NoSession, States
<1>4. SessInv
  BY DEF Init, ServerInit, SessInv, SessionOK, Has
<1> QED BY <1>1, <1>2, <1>3, <1>4 DEF IInv

LEMMA NextIInv == IInv /\ [Next]_vars => IInv'
<1> SUFFICES ASSUME IInv, [Next]_vars PROVE IInv'
  OBVIOUS
<1>1. CASE UNCHANGED vars
  <2>1. UNCHANGED <<listed, present, sessVars, victim, job, userVars>>
    BY <1>1 DEF vars
  <2>2. Grow /\ SessType' /\ SessInv'
    BY <2>1, SameStates DEF sessVars, userVars, IInv, SessType
  <2>3. ListOK' /\ UserType' /\ ViewInv'
    BY <2>1, <2>2, ViewKeeps DEF sessVars, userVars, IInv, ListOK, UserType, ViewInv
  <2> QED BY <2>1, <2>2, <2>3, NoRequestMoves
<1>2. CASE \E u \in Users : ServerStep(u)
  BY <1>2, CheckOfferKeeps, CreateSessionKeeps, FindCandidateKeeps, FindAnswerKeeps, WriteKeeps,
     FindEstablishedKeeps, FlagKeeps, CheckOtherKeeps, FindTerminateKeeps, EndKeeps, ResetKeeps,
     MarkKeeps, PresentKeeps, DeliverKeeps DEF ServerStep
<1>3. CASE \E u \in Users : Clicks(u)
  BY <1>3, ClicksKeep
<1>4. CASE CleanupStep \/ Tick
  BY <1>4, CleanupKeeps, TickKeeps
<1> QED BY <1>1, <1>2, <1>3, <1>4 DEF Next

LEMMA AlwaysIInv == Spec => []IInv
BY InitIInv, NextIInv, PTL DEF Spec

\* The variables of the sessions, their lists and the requests keep their types, and a
\* listed session has both its users (CandidateMethod.java:54-60 takes them for granted).
THEOREM SessionsTyped == Spec => []TypeOK
<1>1. IInv => TypeOK
  BY ServerAssumption DEF IInv, SessType, ListOK, JobType, UserType, SessInv, SessionOK,
                          TypeOK, ServerType, Parties
<1> QED BY <1>1, AlwaysIInv, PTL

\* A session is ESTABLISHED only when both browsers have been given all they need, for any
\* number of users and sessions and any interleaving of requests on the unsynchronized
\* session (WebRtcSession.java:78-92, PresentMethod.java:72-96).
THEOREM EstablishedIsEarned == Spec => []EstablishedHasAll
<1>1. IInv => EstablishedHasAll
  BY DEF IInv, SessInv, SessionOK, Has, EstablishedHasAll
<1> QED BY <1>1, AlwaysIInv, PTL

==============================================================================
