------------------------------ MODULE WebRtcPage ------------------------------
(****************************************************************************)
(* The portal page of WebRTC calls, webrtc.js, in the browsers of several   *)
(* users, against WebRtcServer: current_session, the peer connections and   *)
(* their candidates, the ringtone, and the poll that acknowledge_presence   *)
(* repeats.                                                                 *)
(*                                                                          *)
(* JavaScript runs one callback at a time, but a page has several requests  *)
(* under way, whose replies may overtake one another.  An exception leaves  *)
(* a callback in the middle: what it assigned before stays.  Requests are   *)
(* handled beside each other; an offer and the news that a call is          *)
(* established take two steps, with other requests between them, and the    *)
(* others one (WebRtc has them cut finer).  A poll carries nothing the      *)
(* server uses, so sending it is the same step.  An error reply only shows  *)
(* an alert and is left out; one to a poll would end the polling (see Fail).*)
(****************************************************************************)
EXTENDS WebRtcServer, Sequences

CONSTANTS MaxConns,   \* bound: peer connections ever made
          MaxReplies, \* bound: replies under way to a page, one of which may be overtaken
          Plans       \* bound: who may invite; and the mishaps one of which may happen
                      \* once: a reply to this page is overtaken ("late"), a request of
                      \* it fails ("fail"), it is loaded anew ("reload"), or its user
                      \* calls, answers or terminates once more ("again")

ASSUME PageAssumption ==
  /\ {MaxConns, MaxReplies} \subseteq Nat
  /\ Plans \subseteq [callers : SUBSET Users,
                     mishaps : SUBSET (Users \X {"late", "fail", "reload", "again"})]

\* Peer connections, named in the order they are made; 0 is null.
Conns == 1..MaxConns

VARIABLES
  current,     \* per page: current_session
  conn,        \* per page: peer_connection
  ice,         \* per page: whether local_ice_candidate holds any
  poll,        \* per page: the timer of acknowledge_presence, its request, or neither
  making,      \* per page: createOffer and createAnswer that have yet to call back
  asked,       \* per page: requests the server has not finished handling
  replies,     \* per page: the replies under way, in the order the server gave them
  owner, remote,        \* per connection: its page, its remote description
  offer, answer, cands, \* per session: what the server hands on
  plan, mishap \* one of Plans; what of its mishaps has happened

pageVars == <<current, conn, ice, poll, making>>
connVars == <<owner, remote>>
dataVars == <<offer, answer, cands>>
serverVars == <<listed, present, sessVars, dataVars>>
vars == <<serverVars, pageVars, connVars, asked, replies, plan, mishap>>

\* current_session: null, an object without SessionInfo, or one that shows a session.
Null == [shows |-> "null", sess |-> 0, offer |-> 0]
Bare == [Null EXCEPT !.shows = "undefined"]

\* What a message carries: descriptions of connections, or 0 for candidates of any.
Bodies == Conns \cup {0}
Candidates(u) == IF ice[u] THEN {0} ELSE {}

Methods == {"poll", "offer", "answer", "candidate", "established", "terminate"}
\* A request is on its way, or has been begun by the server, or abandoned by the page then.
Requests == [method : Methods, sess : Sessions \cup {0}, peer : Users \cup {NoUser},
             body : SUBSET Bodies, at : {"sent", "begun", "abandoned"}]
Replies == [method : Methods, sess : Sessions \cup {0}, shows : States,
            brings : {"nothing", "offer", "answer", "candidate"}, body : SUBSET Bodies]
Request(m, s, D) == [method |-> m, sess |-> s, peer |-> NoUser, body |-> D, at |-> "sent"]

\* Every variable has its type; a page holds connections of its own; and what it asks
\* for names a session it was told of, all but an offer.
TypeOK ==
  /\ ServerType
  /\ current \in [Users -> [shows : States \cup {"null", "undefined"}, sess : Sessions \cup {0},
                            offer : Conns \cup {0}]]
  /\ conn \in [Users -> Conns \cup {0}] /\ \A u \in Users : conn[u] # 0 => owner[conn[u]] = u
  /\ ice \in [Users -> BOOLEAN]
  /\ poll \in [Users -> {"timer", "sent", "stopped"}]
  /\ making \in [Users -> SUBSET Requests] /\ asked \in [Users -> SUBSET Requests]
  /\ \A u \in Users : \A r \in asked[u] : r.method = "offer" \/ r.sess # 0
  /\ \A u \in Users : \A i \in 1..Len(replies[u]) : replies[u][i] \in Replies
  /\ owner \in [Conns -> Users \cup {NoUser}] /\ remote \in [Conns -> Conns \cup {0}]
  /\ offer \in [Sessions -> Conns \cup {0}] /\ answer \in [Sessions -> Conns \cup {0}]
  /\ cands \in [Sessions -> [{"caller", "callee"} -> SUBSET {0}]]
  /\ plan \in Plans /\ mishap \subseteq plan.mishaps

Init ==
  /\ ServerInit
  /\ current = [u \in Users |-> Null] /\ conn = [u \in Users |-> 0]
  /\ ice = [u \in Users |-> FALSE]
  /\ poll = [u \in Users |-> "timer"] /\ making = [u \in Users |-> {}]
  /\ asked = [u \in Users |-> {}] /\ replies = [u \in Users |-> <<>>]
  /\ owner = [k \in Conns |-> NoUser] /\ remote = [k \in Conns |-> 0]
  /\ offer = [s \in Sessions |-> 0] /\ answer = [s \in Sessions |-> 0]
  /\ cands = [s \in Sessions |-> [p \in {"caller", "callee"} |-> {}]]
  /\ plan \in Plans /\ mishap = {}

------------------------------------------------------------------------------
(* What the user and the browser start.                                     *)

\* Whether page u shows a session: SessionInfo can be read.
Shows(u) == current[u].sess # 0

Asks(u, R) == asked' = [asked EXCEPT ![u] = @ \cup R]

Happens(u, m) == /\ mishap = {} /\ <<u, m>> \in plan.mishaps
                 /\ mishap' = {<<u, m>>} /\ UNCHANGED plan

\* webrtc_create_peer_connection.  The previous connection is not closed.
Connect(u, k) ==
  /\ owner[k] = NoUser /\ \A j \in Conns : j < k => owner[j] # NoUser
  /\ owner' = [owner EXCEPT ![k] = u]
  /\ conn' = [conn EXCEPT ![u] = k]
  /\ ice' = [ice EXCEPT ![u] = FALSE]

UnderWay(u, m) ==
  \/ \E r \in making[u] \cup asked[u] : r.method = m /\ r.at # "abandoned"
  \/ \E i \in 1..Len(replies[u]) : replies[u][i].method = m

\* A user clicks once, or again on a mishap.
Clicks(u, first) == \/ first /\ UNCHANGED <<plan, mishap>>
                    \/ ~first /\ Happens(u, "again")
HasConnected(u) == \E k \in Conns : owner[k] = u

InviteClick(u, v) ==
  /\ u \in plan.callers /\ v # u /\ current[u].shows = "null"
  /\ ~UnderWay(u, "offer") /\ Clicks(u, ~HasConnected(u))
  /\ \E k \in Conns :
       /\ Connect(u, k)
       /\ making' = [making EXCEPT ![u] = @ \cup {[Request("offer", 0, {k}) EXCEPT !.peer = v]}]
  /\ UNCHANGED <<serverVars, current, poll, remote, asked, replies>>

\* Slip: the answer is made before the offer is applied.
AnswerBlindly(u) ==
  /\ Shows(u) /\ caller[current[u].sess] # u /\ current[u].shows = "OFFER_DELIVERED"
  /\ current[u].offer # 0 /\ ~UnderWay(u, "answer") /\ Clicks(u, ~HasConnected(u))
  /\ \E k \in Conns :
       /\ Connect(u, k)
       /\ making' = [making EXCEPT ![u] = @ \cup {Request("answer", 0, {k})}]
  /\ UNCHANGED <<serverVars, current, poll, remote, asked, replies>>

\* webrtc_answer.  A page that was loaded after the delivery has no offer to parse.
AnswerClick(u) ==
  /\ Shows(u) /\ caller[current[u].sess] # u /\ current[u].shows = "OFFER_DELIVERED"
  /\ current[u].offer # 0 /\ ~UnderWay(u, "answer") /\ Clicks(u, ~HasConnected(u))
  /\ \E k \in Conns :
       /\ Connect(u, k)
       /\ remote' = [remote EXCEPT ![k] = current[u].offer]
       /\ making' = [making EXCEPT ![u] = @ \cup {Request("answer", 0, {k})}]
  /\ UNCHANGED <<serverVars, current, poll, asked, replies>>

\* createOffer or createAnswer calls back: setLocalDescription on the connection of
\* the page, if it has not been closed meanwhile, and the request, for the session
\* the page shows now.
Described(u, r) ==
  /\ r \in making[u]
  /\ making' = [making EXCEPT ![u] = @ \ {r}]
  /\ \/ /\ conn[u] # 0 /\ r.method = "offer"
        /\ Asks(u, {r})
     \/ /\ conn[u] # 0 /\ r.method = "answer" /\ Shows(u)
        /\ Asks(u, {[r EXCEPT !.sess = current[u].sess]})
     \/ /\ conn[u] = 0 \/ (r.method = "answer" /\ ~Shows(u))   \* TypeError
        /\ UNCHANGED asked
  /\ UNCHANGED <<serverVars, current, conn, ice, poll, connVars, replies, plan, mishap>>

\* onicecandidate.
Gather(u) ==
  /\ conn[u] # 0 /\ ~ice[u]
  /\ ice' = [ice EXCEPT ![u] = TRUE]
  /\ UNCHANGED <<serverVars, current, conn, poll, making, connVars, asked, replies, plan, mishap>>

TerminateClick(u) ==
  /\ Shows(u) /\ current[u].shows = "ESTABLISHED" /\ Clicks(u, ~UnderWay(u, "terminate"))
  /\ Asks(u, {Request("terminate", current[u].sess, {})})
  /\ UNCHANGED <<serverVars, pageVars, connVars, replies>>

------------------------------------------------------------------------------
(* The server handles a request of page u.                                  *)

\* The bound on the replies to a page: where none can be overtaken, one.
Room(u) == IF mishap = {} /\ <<u, "late">> \in plan.mishaps THEN MaxReplies ELSE 1

Reply(u, m, s, v, b, D) ==
  /\ Len(replies[u]) < Room(u)
  /\ replies' = [replies EXCEPT ![u] = Append(@, [method |-> m, sess |-> s, shows |-> v,
                                                brings |-> b, body |-> D])]

ServePoll(u) ==
  /\ present' = present \cup {u}
  /\ UNCHANGED <<listed, dataVars>>
  /\ LET mine == {s \in listed : u \in Parties(s)} IN
     \/ mine = {} /\ UNCHANGED sessVars /\ Reply(u, "poll", 0, "none", "nothing", {})
     \/ \E s \in Sessions :
          /\ IsFirst(s, mine)
          /\ LET v == Delivery(u, s) IN
             \/ /\ v = "none"
                /\ IF state[s] = "TERMINATED" THEN Marks(s, Peer(u, s)) ELSE UNCHANGED sessVars
                /\ Reply(u, "poll", s, state[s], "nothing", {})
             \/ /\ v # "none" /\ SetState(s, v)
                /\ \/ v = "OFFER_DELIVERED" /\ Reply(u, "poll", s, v, "offer", {offer[s]})
                   \/ v = "ANSWER_DELIVERED" /\ Reply(u, "poll", s, v, "answer", {answer[s]})
                   \/ /\ v = "CALLER_CANDIDATE_DELIVERED"
                      /\ Reply(u, "poll", s, v, "candidate", cands[s]["caller"])
                   \/ /\ v = "CALLEE_CANDIDATE_DELIVERED"
                      /\ Reply(u, "poll", s, v, "candidate", cands[s]["callee"])

\* acknowledge_presence.  It reads SessionInfo before it sends or arms anything.
Poll(u) ==
  /\ poll[u] = "timer"
  /\ \/ /\ current[u].shows # "undefined"
        /\ poll' = [poll EXCEPT ![u] = "sent"]
        /\ ServePoll(u)
     \/ /\ current[u].shows = "undefined"   \* TypeError
        /\ poll' = [poll EXCEPT ![u] = "stopped"]
        /\ UNCHANGED <<serverVars, replies>>
  /\ UNCHANGED <<current, conn, ice, making, connVars, asked, plan, mishap>>

Rejected == UNCHANGED <<listed, sessVars, dataVars, replies>>

\* A reply to what it has abandoned does not reach a page.
ReplyTo(u, r, s, v) ==
  \/ r.at # "abandoned" /\ Reply(u, r.method, s, v, "nothing", {})
  \/ r.at = "abandoned" /\ UNCHANGED replies

\* The first step of a request that takes two: an offer is made to a callee who is
\* there and in no call, and a party of a session sets its flag.
BeginOffer(u, r) ==
  /\ r.method = "offer" /\ r.peer \in present /\ ~Busy(r.peer)
  /\ UNCHANGED established

BeginEstablished(u, r) ==
  /\ r.method = "established" /\ r.sess \in listed
  /\ established' = [established EXCEPT ![r.sess] = @ \cup {u}]

Begin(u, r) ==
  /\ r \in asked[u] /\ r.at = "sent"
  /\ BeginOffer(u, r) \/ BeginEstablished(u, r)
  /\ asked' = [asked EXCEPT ![u] = (@ \ {r}) \cup {[r EXCEPT !.at = "begun"]}]
  /\ UNCHANGED <<listed, present, caller, callee, state, age, ended, dataVars,
                 pageVars, connVars, replies, plan, mishap>>

\* The session is created whoever is in a call by now.
ServeOffer(u, r) ==
  \/ /\ r.at = "sent" /\ (r.peer \notin present \/ Busy(r.peer))
     /\ Rejected
  \/ /\ r.at # "sent"
     /\ \E s \in Sessions :
          /\ IsNew(s) /\ listed' = listed \cup {s}
          /\ caller' = [caller EXCEPT ![s] = u] /\ callee' = [callee EXCEPT ![s] = r.peer]
          /\ state' = [state EXCEPT ![s] = "OFFERED"]
          /\ offer' = [offer EXCEPT ![s] = CHOOSE k \in Conns : k \in r.body]
          /\ ReplyTo(u, r, s, "OFFERED")
     /\ UNCHANGED <<age, established, ended, answer, cands>>

ServeAnswer(u, r) ==
  LET s == r.sess IN
  \/ /\ s \in listed /\ callee[s] = u
     /\ SetState(s, "ANSWERED")
     /\ answer' = [answer EXCEPT ![s] = CHOOSE k \in Conns : k \in r.body]
     /\ Reply(u, "answer", s, "ANSWERED", "nothing", {})
     /\ UNCHANGED <<listed, offer, cands>>
  \/ ~(s \in listed /\ callee[s] = u) /\ Rejected

ServeCandidate(u, r) ==
  LET s == r.sess
      v == IF s \in listed THEN CandidateState(u, s) ELSE "none" IN
  \/ /\ v # "none" /\ SetState(s, v)
     /\ cands' = [cands EXCEPT ![s][IF v = "CALLER_CANDIDATE" THEN "caller" ELSE "callee"] = r.body]
     /\ Reply(u, "candidate", s, v, "nothing", {})
     /\ UNCHANGED <<listed, offer, answer>>
  \/ v = "none" /\ Rejected

\* The look at the flags and the write are one step: no flag is reset, so a look that
\* saw both is as good as one at the write, and one that did not writes nothing.
ServeEstablished(u, r) ==
  LET s == r.sess IN
  \/ /\ r.at = "sent" /\ s \notin listed
     /\ Rejected
  \/ /\ r.at # "sent"
     /\ SetState(s, IF SeesBoth(s) THEN "ESTABLISHED" ELSE state[s])
     /\ ReplyTo(u, r, s, state'[s])
     /\ UNCHANGED <<listed, dataVars>>

ServeTerminate(u, r) ==
  LET s == r.sess IN
  \/ /\ s \in listed
     /\ state' = [state EXCEPT ![s] = "TERMINATED"] /\ ended' = [ended EXCEPT ![s] = {u}]
     /\ age' = [age EXCEPT ![s] = 0]
     /\ Reply(u, "terminate", s, "TERMINATED", "nothing", {})
     /\ UNCHANGED <<listed, caller, callee, established, dataVars>>
  \/ s \notin listed /\ Rejected

Serve(u, r) ==
  /\ r \in asked[u]
  /\ asked' = [asked EXCEPT ![u] = @ \ {r}]
  /\ UNCHANGED <<present, pageVars, connVars, plan, mishap>>
  /\ \/ r.method = "offer" /\ ServeOffer(u, r)
     \/ r.method = "answer" /\ ServeAnswer(u, r)
     \/ r.method = "candidate" /\ ServeCandidate(u, r)
     \/ r.method = "established" /\ ServeEstablished(u, r)
     \/ r.method = "terminate" /\ ServeTerminate(u, r)

\* CleanupWorker removes a session, which may be overdue at any time before it is
\* ESTABLISHED, or the presence of a page that polls no more.
Remove(s) ==
  /\ s \in listed /\ (state[s] # "ESTABLISHED" \/ Finished(s))
  /\ listed' = listed \ {s}
  /\ UNCHANGED <<present, sessVars, dataVars, pageVars, connVars, asked, replies, plan, mishap>>

DropPresence(u) ==
  /\ u \in present /\ poll[u] = "stopped"
  /\ present' = present \ {u}
  /\ UNCHANGED <<listed, sessVars, dataVars, pageVars, connVars, asked, replies, plan, mishap>>

------------------------------------------------------------------------------
(* The page handles a reply.                                                *)

Without(q, i) == SubSeq(q, 1, i - 1) \o SubSeq(q, i + 1, Len(q))

\* current_session when process_session_info looks at what the reply brings.
Before(u, r) ==
  LET c == IF current[u] = Null THEN Bare ELSE current[u] IN
  IF r.brings = "offer" THEN [c EXCEPT !.offer = CHOOSE k \in Conns : k \in r.body] ELSE c

\* Slip: SessionInfo is read without looking whether there is one.
ThrowsUnconnected(u, r) ==
  /\ conn[u] = 0
  /\ r.brings = "answer" \/ (r.brings = "candidate" /\ r.body # {})

\* webrtc_process_remote_answer and ..._candidate read SessionInfo, which a page that
\* showed no session has not been given yet, and the peer connection.
Throws(u, r) ==
  \/ r.brings = "answer" /\ (conn[u] = 0 \/ Before(u, r).sess = 0)
  \/ /\ r.brings = "candidate"
     /\ (conn[u] = 0 /\ r.body # {}) \/ Before(u, r).sess = 0

\* What they send, for the session that was shown before.
FollowUps(u, r) ==
  LET s == Before(u, r).sess IN
  CASE r.brings = "answer"    -> {Request("candidate", s, Candidates(u))}
    [] r.brings = "candidate" ->
         {Request("established", s, {})}
         \cup (IF caller[s] # u THEN {Request("candidate", s, Candidates(u))} ELSE {})
    [] OTHER -> {}

\* process_session_info; webrtc_stop closes the connection, and throws without one
\* once there is nothing left to do.
Process(u, r) ==
  LET stops == r.shows = "TERMINATED" /\ ~Throws(u, r) /\ conn[u] # 0
      k     == conn[u] IN
  /\ current' = [current EXCEPT ![u] =
       IF Throws(u, r) THEN Before(u, r)
       ELSE [Before(u, r) EXCEPT !.sess = r.sess, !.shows = r.shows]]
  /\ remote' = IF r.brings = "answer" /\ k # 0
               THEN [remote EXCEPT ![k] = CHOOSE j \in Conns : j \in r.body] ELSE remote
  /\ conn' = IF stops THEN [conn EXCEPT ![u] = 0] ELSE conn
  /\ Asks(u, IF Throws(u, r) THEN {} ELSE FollowUps(u, r))

\* Slip: the timer is armed after the reply has been processed.
RearmAtEnd(u, r) ==
  IF r.method # "poll" THEN poll
  ELSE [poll EXCEPT ![u] = IF Throws(u, r) \/ (r.shows = "TERMINATED" /\ conn[u] = 0)
                           THEN "stopped" ELSE "timer"]

\* acknowledge_presence arms the timer before it processes the reply.
Rearm(u, r) == IF r.method = "poll" THEN [poll EXCEPT ![u] = "timer"] ELSE poll

Receive(u, i) ==
  LET r == replies[u][i] IN
  /\ replies' = [replies EXCEPT ![u] = Without(@, i)]
  /\ \/ i = 1 /\ UNCHANGED <<plan, mishap>>
     \/ i > 1 /\ Happens(u, "late")
  /\ poll' = Rearm(u, r)
  /\ \/ r.sess # 0 /\ Process(u, r)
     \/ /\ r.sess = 0
        /\ current' = [current EXCEPT ![u] = Null]
        /\ UNCHANGED <<conn, remote, asked>>
  /\ UNCHANGED <<serverVars, ice, making, owner>>

\* A request, or its reply, is lost or refused: nobody handles that.
Fail(u) ==
  /\ Happens(u, "fail")
  /\ \/ /\ poll[u] = "timer" /\ current[u].shows # "undefined"
        /\ poll' = [poll EXCEPT ![u] = "stopped"] /\ UNCHANGED <<asked, replies>>
     \/ \E r \in asked[u] :
          /\ r.at = "sent"
          /\ asked' = [asked EXCEPT ![u] = @ \ {r}] /\ UNCHANGED <<poll, replies>>
     \/ \E i \in 1..Len(replies[u]) :
          /\ replies' = [replies EXCEPT ![u] = Without(@, i)] /\ UNCHANGED asked
          /\ poll' = IF replies[u][i].method = "poll" THEN [poll EXCEPT ![u] = "stopped"] ELSE poll
  /\ UNCHANGED <<serverVars, current, conn, ice, making, connVars>>

\* The page starts anew.  What it had asked for is abandoned, though the server finishes
\* what it has begun.
Abandoned(u) == {[r EXCEPT !.at = "abandoned"] : r \in {q \in asked[u] : q.at # "sent"}}

Reload(u) ==
  /\ Happens(u, "reload")
  /\ current' = [current EXCEPT ![u] = Null] /\ conn' = [conn EXCEPT ![u] = 0]
  /\ ice' = [ice EXCEPT ![u] = FALSE]
  /\ poll' = [poll EXCEPT ![u] = "timer"] /\ making' = [making EXCEPT ![u] = {}]
  /\ asked' = [asked EXCEPT ![u] = Abandoned(u)] /\ replies' = [replies EXCEPT ![u] = <<>>]
  /\ UNCHANGED <<serverVars, owner, remote>>

------------------------------------------------------------------------------
PageStep(u) ==
  \/ Poll(u) \/ Gather(u) \/ \E r \in making[u] : Described(u, r)
  \/ \E i \in 1..Len(replies[u]) : Receive(u, i)

UserStep(u) == AnswerClick(u) \/ TerminateClick(u) \/ \E v \in Users : InviteClick(u, v)

Next ==
  \/ \E u \in Users : PageStep(u) \/ UserStep(u) \/ Fail(u) \/ Reload(u) \/ DropPresence(u)
  \/ \E u \in Users : \E r \in asked[u] : Begin(u, r) \/ Serve(u, r)
  \/ \E s \in Sessions : Remove(s)

Spec == Init /\ [][Next]_vars

------------------------------------------------------------------------------
(* What the pages promise.                                                  *)

\* Once a session is ESTABLISHED, the connections it was offered and answered with have
\* been described to each other and to no third one, in spite of overtaken replies,
\* failed requests and timeouts (webrtc.js:195-243).  Excepted are a caller who has gone
\* on to another connection, and a callee whose click on answer was for an earlier call:
\* its description goes to the session that the page shows by then (204).
MediaConnected ==
  \A s \in listed :
    state[s] = "ESTABLISHED" /\ conn[caller[s]] = offer[s]
    => /\ remote[offer[s]] = answer[s]
       /\ remote[answer[s]] \in {offer[t] : t \in 1..s}

\* A session is over when it is TERMINATED and nobody is in the middle of confirming it.
Over(s) ==
  /\ state[s] = "TERMINATED"
  /\ \A u \in Users : \A r \in asked[u] : r.method = "established" /\ r.sess = s => r.at = "sent"

\* A session that is over stays so: no answer, candidate or news that is late brings it
\* back, as long as nobody answers twice (WebRtcSession.java:78-113).  What does is the
\* news of one party that is handled while the other one, which was told ESTABLISHED
\* meanwhile, terminates (79-81 around 109).
TerminatedIsFinal == [][\A s \in Sessions : Over(s) => Over(s)']_<<state, asked>>

\* A page polls on for ever (webrtc.js:39-59), and so stays present and hears of calls,
\* unless one of its requests failed, its replies overtook one another, or it was loaded
\* in the middle of a call.
PollingGoesOn ==
  \A u \in Users : poll[u] = "stopped" => \E m \in mishap : m[1] = u

==============================================================================
