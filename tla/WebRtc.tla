-------------------------------- MODULE WebRtc --------------------------------
(****************************************************************************)
(* WebRTC calls with requests handled beside each other: the six webrtc     *)
(* methods of the portal API, cut into steps, WebRtcProvider's              *)
(* CleanupWorker, and as much of the browser as decides what is sent next   *)
(* (WebRtcPage has the whole of it).                                        *)
(*                                                                          *)
(* The servlet container handles the requests on threads of their own and  *)
(* WebRtcSession is not synchronized: job names what a request is about to  *)
(* do next.  A browser has at most one request of each kind under way.  A   *)
(* response reaches its browser in the last step of its request: a browser  *)
(* may then be slow to send what follows.  A poll takes its presence note   *)
(* and its look at the sessions in one step.  The browsers stay open and    *)
(* poll at half the timeout, so that none loses its presence (WebRtcPage    *)
(* has those that stop).                                                    *)
(****************************************************************************)
EXTENDS WebRtcServer

CONSTANTS Callers,     \* bound: those who invite
          MaxClicks    \* bound: clicks on answer, and on terminate, in one session

Answers  == {"answer", "again"} \* the requests of a click on answer and of a second one
Kinds    == Answers \cup {"poll", "offer", "candidate", "established", "terminate"}
Steps == {"idle", "sent", "create", "set", "flag", "check", "end", "reset", "mark"}

ASSUME ConstantsAssumption ==
  /\ Callers \subseteq Users
  /\ MaxClicks \in [{"answer", "terminate"} -> Nat]

VARIABLES
  victim,             \* CleanupWorker: what it is about to remove
  job,                \* per user and kind of request: how far it has got
  view,               \* per user: the browser's current_session
  clicks,             \* clicks on answer and terminate in a session
  given               \* what browsers got in a session

userVars == <<view, clicks, given>>
vars == <<listed, present, sessVars, victim, job, userVars>>

Jobs == [at : Steps, sess : Sessions \cup {0}, next : States, peer : Users \cup {NoUser}]
Idle == [at |-> "idle", sess |-> 0, next |-> "none", peer |-> NoUser]
NoSession == [sess |-> 0, state |-> "none"]

\* Every variable has its type; a listed session has a state and two users, so that
\* no request makes a state up (CandidateMethod.java:54-60).
TypeOK ==
  /\ ServerType
  /\ victim \in Sessions \cup {0}
  /\ job \in [Users -> [Kinds -> Jobs]]
  /\ view \in [Users -> [sess : Sessions \cup {0}, state : States]]
  /\ clicks \in [Sessions -> [{"answer", "terminate"} -> Nat]]
  /\ given \in [Sessions -> SUBSET States]

Init ==
  /\ ServerInit
  /\ victim = 0
  /\ job = [u \in Users |-> [k \in Kinds |-> Idle]]
  /\ view = [u \in Users |-> NoSession]
  /\ clicks = [s \in Sessions |-> [answer |-> 0, terminate |-> 0]]
  /\ given = [s \in Sessions |-> {}]

------------------------------------------------------------------------------
(* Requests.                                                                *)

At(u, k, l) == job[u][k].at = l
Becomes(u, k, j) == job' = [job EXCEPT ![u][k] = j]
Goto(u, k, l) == Becomes(u, k, [job[u][k] EXCEPT !.at = l])

\* The states a response can show that webrtc.js acts on.
Shown(v) == IF v \in {"OFFER_DELIVERED", "ESTABLISHED", "TERMINATED"} THEN v ELSE "none"

\* The request ends with an error: the browser shows an alert, or nothing.
Fails(u, k) == Becomes(u, k, Idle) /\ UNCHANGED userVars

\* The browser of u learns that session s is in state v.
Learns(u, s, v) == /\ view' = [view EXCEPT ![u] = [sess |-> s, state |-> Shown(v)]]
                   /\ UNCHANGED clicks

\* The request ends with a response that shows state v.
Replies(u, k, v) == Becomes(u, k, Idle) /\ Learns(u, job[u][k].sess, v) /\ UNCHANGED given

\* A request that has been sent begins.
Starts(u, k) == At(u, k, "sent")

\* The lookup of a session by its UUID.
Find(u, k) == job[u][k].sess \in listed

------------------------------------------------------------------------------
(* OfferMethod.                                                             *)

CheckOffer(u) ==
  /\ Starts(u, "offer")
  /\ LET v == job[u]["offer"].peer IN
     \/ v \in present /\ ~Busy(v) /\ Goto(u, "offer", "create") /\ UNCHANGED userVars
     \/ (v \notin present \/ Busy(v)) /\ Fails(u, "offer")
  /\ UNCHANGED <<listed, present, sessVars, victim>>

\* Slip: the callee is left to be set by its answer.
CreateSessionOfCaller(u) ==
  /\ At(u, "offer", "create")
  /\ \E s \in Sessions :
       /\ IsNew(s)
       /\ listed' = listed \cup {s}
       /\ caller' = [caller EXCEPT ![s] = u]
       /\ state' = [state EXCEPT ![s] = "STARTED"]
       /\ Becomes(u, "offer", [Idle EXCEPT !.at = "set", !.sess = s, !.next = "OFFERED"])
  /\ UNCHANGED <<present, callee, age, established, ended, victim, userVars>>

CreateSession(u) ==
  /\ At(u, "offer", "create")
  /\ \E s \in Sessions :
       /\ IsNew(s)
       /\ listed' = listed \cup {s}
       /\ caller' = [caller EXCEPT ![s] = u]
       /\ callee' = [callee EXCEPT ![s] = job[u]["offer"].peer]
       /\ state' = [state EXCEPT ![s] = "STARTED"]
       /\ Becomes(u, "offer", [Idle EXCEPT !.at = "set", !.sess = s, !.next = "OFFERED"])
  /\ UNCHANGED <<present, age, established, ended, victim, userVars>>

------------------------------------------------------------------------------
(* AnswerMethod and CandidateMethod; Write is the method of WebRtcSession   *)
(* that they and OfferMethod end with.                                      *)

FindAnswer(u, k) ==
  /\ k \in Answers /\ Starts(u, k)
  /\ LET found == Find(u, k) /\ callee[job[u][k].sess] = u IN
     \/ /\ found /\ UNCHANGED userVars
        /\ Becomes(u, k, [job[u][k] EXCEPT !.at = "set", !.next = "ANSWERED"])
     \/ ~found /\ Fails(u, k)
  /\ UNCHANGED <<listed, present, sessVars, victim>>

FindCandidate(u) ==
  /\ Starts(u, "candidate")
  /\ LET s == job[u]["candidate"].sess
         v == IF Find(u, "candidate") THEN CandidateState(u, s) ELSE "none" IN
     \/ /\ v # "none" /\ UNCHANGED userVars
        /\ Becomes(u, "candidate", [job[u]["candidate"] EXCEPT !.at = "set", !.next = v])
     \/ v = "none" /\ Fails(u, "candidate")
  /\ UNCHANGED <<listed, present, sessVars, victim>>

Write(u, k) ==
  /\ k # "poll" /\ At(u, k, "set")
  /\ SetState(job[u][k].sess, job[u][k].next)
  /\ Replies(u, k, job[u][k].next)
  /\ UNCHANGED <<listed, present, victim>>

------------------------------------------------------------------------------
(* EstablishedMethod: the own flag, then a look at the other one.           *)

FindEstablished(u) ==
  /\ Starts(u, "established")
  /\ \/ Find(u, "established") /\ Goto(u, "established", "flag") /\ UNCHANGED userVars
     \/ ~Find(u, "established") /\ Fails(u, "established")
  /\ UNCHANGED <<listed, present, sessVars, victim>>

Flag(u) ==
  /\ At(u, "established", "flag")
  /\ established' = [established EXCEPT ![job[u]["established"].sess] = @ \cup {u}]
  /\ Goto(u, "established", "check")
  /\ UNCHANGED <<listed, present, caller, callee, state, age, ended, victim, userVars>>

CheckOther(u) ==
  /\ At(u, "established", "check")
  /\ LET s == job[u]["established"].sess IN
     \/ /\ SeesBoth(s)
        /\ Becomes(u, "established", [job[u]["established"] EXCEPT !.at = "set",
                                                                   !.next = "ESTABLISHED"])
        /\ UNCHANGED <<sessVars, userVars>>
     \/ /\ ~SeesBoth(s)
        /\ SetState(s, state[s]) /\ Replies(u, "established", state[s])
  /\ UNCHANGED <<listed, present, victim>>

------------------------------------------------------------------------------
(* TerminateMethod: the state, the two flags, then the own flag.            *)

FindTerminate(u) ==
  /\ Starts(u, "terminate")
  /\ \/ Find(u, "terminate") /\ Goto(u, "terminate", "end") /\ UNCHANGED userVars
     \/ ~Find(u, "terminate") /\ Fails(u, "terminate")
  /\ UNCHANGED <<listed, present, sessVars, victim>>

End(u) ==
  /\ At(u, "terminate", "end")
  /\ state' = [state EXCEPT ![job[u]["terminate"].sess] = "TERMINATED"]
  /\ Goto(u, "terminate", "reset")
  /\ UNCHANGED <<listed, present, caller, callee, age, established, ended, victim, userVars>>

Reset(u) ==
  /\ At(u, "terminate", "reset")
  /\ LET s == job[u]["terminate"].sess IN
     ended' = [ended EXCEPT ![s] = {}] /\ age' = [age EXCEPT ![s] = 0]
  /\ Goto(u, "terminate", "mark")
  /\ UNCHANGED <<listed, present, caller, callee, state, established, victim, userVars>>

Mark(u) ==
  /\ At(u, "terminate", "mark")
  /\ Marks(job[u]["terminate"].sess, u)
  /\ Replies(u, "terminate", state[job[u]["terminate"].sess])
  /\ UNCHANGED <<listed, present, victim>>

------------------------------------------------------------------------------
(* PresentMethod, the poll that acknowledge_presence repeats.               *)

\* The poll of u finds the first session of u.
Present(u) ==
  /\ At(u, "poll", "idle")
  /\ present' = present \cup {u}
  /\ LET mine == {s \in listed : u \in Parties(s)} IN
     \/ /\ mine = {}
        /\ view' = [view EXCEPT ![u] = NoSession]
        /\ UNCHANGED <<sessVars, job, clicks, given>>
     \/ \E s \in Sessions :
          /\ IsFirst(s, mine) /\ Delivery(u, s) = "none"
          /\ IF state[s] = "TERMINATED" THEN Marks(s, Peer(u, s)) ELSE UNCHANGED sessVars
          /\ Learns(u, s, state[s]) /\ UNCHANGED <<job, given>>
     \/ \E s \in Sessions :
          /\ IsFirst(s, mine) /\ Delivery(u, s) # "none"
          /\ Becomes(u, "poll", [Idle EXCEPT !.at = "set", !.sess = s, !.next = Delivery(u, s)])
          /\ UNCHANGED <<sessVars, userVars>>
  /\ UNCHANGED <<listed, victim>>

\* What process_session_info sends upon what a poll delivered: the caller's
\* candidate upon the answer; upon a candidate the news that the call is
\* established and, from the callee, its own candidate.
FollowUps(v) ==
  CASE v = "ANSWER_DELIVERED" -> {"candidate"}
    [] v = "CALLER_CANDIDATE_DELIVERED" -> {"candidate", "established"}
    [] v = "CALLEE_CANDIDATE_DELIVERED" -> {"established"}
    [] OTHER -> {}

Request(k, s, v) == [Idle EXCEPT !.at = "sent", !.sess = s, !.peer = v]

\* The poll of u delivers what it found.
Deliver(u) ==
  /\ At(u, "poll", "set")
  /\ LET s == job[u]["poll"].sess
         v == job[u]["poll"].next
         F == FollowUps(v) IN
     /\ \A f \in F : At(u, f, "idle")
     /\ SetState(s, v) /\ Learns(u, s, v)
     /\ given' = [given EXCEPT ![s] = @ \cup {v}]
     /\ job' = [job EXCEPT ![u] = [k \in Kinds |->
                  IF k = "poll" THEN Idle ELSE IF k \in F THEN Request(k, s, NoUser) ELSE @[k]]]
  /\ UNCHANGED <<listed, present, victim>>

------------------------------------------------------------------------------
(* CleanupWorker.  It looks at every session in turn.                       *)

\* Slip: only the timeout removes a session.
CleanFindOverdue(s) ==
  /\ victim = 0 /\ s \in listed /\ Overdue(s)
  /\ victim' = s
  /\ UNCHANGED <<listed, present, sessVars, job, userVars>>

CleanFind(s) ==
  /\ victim = 0 /\ s \in listed
  /\ Overdue(s) \/ Finished(s)
  /\ victim' = s
  /\ UNCHANGED <<listed, present, sessVars, job, userVars>>

CleanRemove ==
  /\ victim # 0
  /\ listed' = listed \ {victim} /\ victim' = 0
  /\ UNCHANGED <<present, sessVars, job, userVars>>

Tick ==
  /\ Ages
  /\ UNCHANGED <<listed, present, victim, job, userVars>>

------------------------------------------------------------------------------
(* The browser, webrtc.js: what its user clicks on.                         *)

Invite(u, v) ==
  /\ u \in Callers /\ v # u /\ view[u].sess = 0 /\ At(u, "offer", "idle")
  /\ \E s \in Sessions : state[s] = "none"
  /\ Becomes(u, "offer", Request("offer", 0, v))
  /\ UNCHANGED <<listed, present, sessVars, victim, userVars>>

\* A click that v enables sends request k.
Click(u, b, k, v) ==
  /\ view[u].state = v /\ At(u, k, "idle")
  /\ clicks[view[u].sess][b] < MaxClicks[b]
  /\ clicks' = [clicks EXCEPT ![view[u].sess][b] = @ + 1]
  /\ Becomes(u, k, Request(k, view[u].sess, NoUser))
  /\ UNCHANGED <<listed, present, sessVars, victim, view, given>>

AnswerClick(u) ==
  /\ view[u].sess # 0 /\ callee[view[u].sess] = u
  /\ \E k \in Answers : Click(u, "answer", k, "OFFER_DELIVERED")

TerminateClick(u) == Click(u, "terminate", "terminate", "ESTABLISHED")

------------------------------------------------------------------------------
ServerStep(u) ==
  \/ CheckOffer(u) \/ CreateSession(u) \/ FindCandidate(u)
  \/ \E k \in Kinds : FindAnswer(u, k) \/ Write(u, k)
  \/ FindEstablished(u) \/ Flag(u) \/ CheckOther(u)
  \/ FindTerminate(u) \/ End(u) \/ Reset(u) \/ Mark(u)
  \/ Present(u) \/ Deliver(u)

Clicks(u) == AnswerClick(u) \/ TerminateClick(u) \/ \E v \in Users : Invite(u, v)

CleanupStep == CleanRemove \/ \E s \in Sessions : CleanFind(s)

Next ==
  \/ \E u \in Users : ServerStep(u) \/ Clicks(u)
  \/ CleanupStep
  \/ Tick

Spec == Init /\ [][Next]_vars

\* Requests are handled and answered, the worker runs and time passes.  An open
\* browser polls; nobody has to click.
FairSpec == /\ Spec
            /\ \A u \in Users : WF_vars(ServerStep(u))
            /\ WF_vars(CleanupStep)
            /\ WF_vars(Tick)

------------------------------------------------------------------------------
(* What the sessions promise.                                               *)

\* A session is ESTABLISHED only when both browsers have been given what they need:
\* the offer, the answer and a candidate of either side, in spite of concurrent
\* requests and repeated clicks (PresentMethod.java:72-96, WebRtcSession.java:78-92).
EstablishedHasAll ==
  \A s \in Sessions : state[s] = "ESTABLISHED" =>
    {"OFFER_DELIVERED", "ANSWER_DELIVERED", "CALLER_CANDIDATE_DELIVERED",
     "CALLEE_CANDIDATE_DELIVERED"} \subseteq given[s]

\* While both browsers stay open, a session that is not ESTABLISHED gets there or
\* leaves the list, so its users do not stay busy (WebRtcProvider.java:35-43).
NoSessionHangs ==
  \A s \in Sessions :
    s \in listed /\ state[s] # "ESTABLISHED" ~> s \notin listed \/ state[s] = "ESTABLISHED"

==============================================================================
