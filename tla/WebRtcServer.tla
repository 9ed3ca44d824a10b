----------------------------- MODULE WebRtcServer -----------------------------
(****************************************************************************)
(* What the server keeps of WebRTC calls between users of the portal:       *)
(* WebRtcProvider with its lists of presences and sessions, WebRtcSession,  *)
(* and what the six webrtc methods of the portal API do with them.  WebRtc  *)
(* runs the methods on threads beside each other, statement by statement;   *)
(* WebRtcPage runs them against the pages of the browsers, in a step or two.*)
(*                                                                          *)
(* The acknowledgements of an ESTABLISHED session only set dates nobody     *)
(* reads in that state, and are left out.                                   *)
(****************************************************************************)
EXTENDS Integers, FiniteSets

CONSTANTS Users,       \* users with a browser
          MaxSessions, \* bound: WebRtcSession objects ever created
          Timeout,     \* talk.webrtc.session.timeout, in ticks of the clock
          NoUser       \* null

Sessions == 1..MaxSessions
States == {"none", "STARTED", "OFFERED", "OFFER_DELIVERED", "ANSWERED", "ANSWER_DELIVERED",
           "CALLER_CANDIDATE", "CALLER_CANDIDATE_DELIVERED", "CALLEE_CANDIDATE",
           "CALLEE_CANDIDATE_DELIVERED", "ESTABLISHED", "TERMINATED"}

ASSUME ServerAssumption ==
  NoUser \notin Users /\ MaxSessions \in Nat \ {0} /\ Timeout \in Nat

VARIABLES
  listed, present,    \* sessionList in the order of the numbers; presenceList
  caller, callee,     \* the users of a session, NoUser before it exists
  state, age,         \* WebRtcSession.state; the time since lastUpdateDate
  established, ended  \* the users whose ...Established, ...TerminatedDelivered is set

sessVars == <<caller, callee, state, age, established, ended>>

Parties(s) == {caller[s], callee[s]}

ServerType ==
  /\ listed \subseteq Sessions /\ present \subseteq Users
  /\ \A s \in listed : state[s] # "none" /\ NoUser \notin Parties(s)
  /\ caller \in [Sessions -> Users \cup {NoUser}]
  /\ callee \in [Sessions -> Users \cup {NoUser}]
  /\ state \in [Sessions -> States]
  /\ age \in [Sessions -> 0..(Timeout + 1)]
  /\ established \in [Sessions -> SUBSET Users] /\ ended \in [Sessions -> SUBSET Users]

ServerInit ==
  /\ listed = {} /\ present = {}
  /\ caller = [s \in Sessions |-> NoUser] /\ callee = [s \in Sessions |-> NoUser]
  /\ state = [s \in Sessions |-> "none"] /\ age = [s \in Sessions |-> 0]
  /\ established = [s \in Sessions |-> {}] /\ ended = [s \in Sessions |-> {}]

------------------------------------------------------------------------------
(* WebRtcSession and WebRtcProvider.                                        *)

SetState(s, v) == /\ state' = [state EXCEPT ![s] = v]
                  /\ age' = [age EXCEPT ![s] = 0]
                  /\ UNCHANGED <<caller, callee, established, ended>>

Marks(s, u) == /\ ended' = [ended EXCEPT ![s] = @ \cup {u}]
               /\ age' = [age EXCEPT ![s] = 0]
               /\ UNCHANGED <<caller, callee, state, established>>

\* OfferMethod: whoever is in a call, as the caller or as the callee.
Busy(v) == \E s \in listed : v \in Parties(s)

\* The next session in the order of their creation.
IsNew(s) == state[s] = "none" /\ \A q \in Sessions : q < s => state[q] # "none"

\* What a candidate of u would make of session s; "none" is an error.
CandidateState(u, s) ==
  IF state[s] = "ANSWER_DELIVERED" /\ caller[s] = u THEN "CALLER_CANDIDATE"
  ELSE IF state[s] = "CALLER_CANDIDATE_DELIVERED" /\ callee[s] = u THEN "CALLEE_CANDIDATE"
  ELSE "none"

\* The look at the other flag when one is set.  Slip: either flag will do.
SeesEither(s) == established[s] # {}
SeesBoth(s) == Parties(s) \subseteq established[s]

IsFirst(s, S) == s \in S /\ \A q \in S : s <= q

\* What the poll of u delivers of session s: the state that follows.
Delivery(u, s) ==
  IF caller[s] = u /\ state[s] = "ANSWERED" THEN "ANSWER_DELIVERED"
  ELSE IF caller[s] = u /\ state[s] = "CALLEE_CANDIDATE" THEN "CALLEE_CANDIDATE_DELIVERED"
  ELSE IF caller[s] # u /\ state[s] = "OFFERED" THEN "OFFER_DELIVERED"
  ELSE IF caller[s] # u /\ state[s] = "CALLER_CANDIDATE" THEN "CALLER_CANDIDATE_DELIVERED"
  ELSE "none"

\* The poll of one party marks the end as delivered to the other one.
Peer(u, s) == IF caller[s] = u THEN callee[s] ELSE caller[s]

\* CleanupWorker.
Overdue(s)  == age[s] > Timeout /\ state[s] # "ESTABLISHED"
Finished(s) == state[s] = "TERMINATED" /\ Parties(s) \subseteq ended[s]

Ages == /\ \E s \in listed : age[s] <= Timeout
        /\ age' = [s \in Sessions |->
                     IF s \in listed /\ age[s] <= Timeout THEN age[s] + 1 ELSE age[s]]
        /\ UNCHANGED <<caller, callee, state, established, ended>>

==============================================================================
