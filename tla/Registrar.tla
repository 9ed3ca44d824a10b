------------------------------ MODULE Registrar ------------------------------
(****************************************************************************)
(* REGISTER requests: SipProviderListener.processRegister, the              *)
(* SipRegistration state machine, SipServer's list of registrations and its *)
(* RegistrationWatchdog.                                                    *)
(*                                                                          *)
(* Requests are handled by the threads of the listener's pool, the watchdog *)
(* is a thread of its own, and SipRegistration is not synchronized: pc and  *)
(* watchdog name the statement a thread is about to run.  The user of the   *)
(* From header is taken to be the name of the account that authenticates.   *)
(****************************************************************************)
EXTENDS Integers, FiniteSets

CONSTANTS Users,      \* account names
          Workers,    \* threads of SipProviderListener.requestExecutorService
          MaxRegs,    \* bound: SipRegistration objects ever created
          MaxSeq,     \* bound: REGISTER transactions of a user agent
          MaxCopies,  \* bound: copies of one REGISTER that reach the listener
          UserKinds,  \* bound: kinds of REGISTER the user agents send
          Forced,      \* talk.sip.register.force-timeout
          Expiry,     \* the expiry interval, in ticks of the clock
          Faults,     \* {"response"} if sending a response may fail
          NoUser, NoTime, NoMsg \* null

Registrations == 1..MaxRegs
Seqs == 1..MaxSeq

\* What a REGISTER carries: no credentials, good or bad ones, an expiry of 0, no
\* Contact at all; MUTE is one with good credentials that names no expiry.
Kinds == {"PLAIN", "GOOD", "BAD", "ZERO", "QUERY", "MUTE"}
Messages == [kind : Kinds, user : Users, seq : Seqs, copy : 1..MaxCopies]
Answers == {"none", "CHALLENGE", "REFUSED", "OK", "GONE"}

States == {"none", "STARTED", "CHALLENGED", "AUTHENTICATED", "UNREGISTERED"}
Labels == {"idle", "create", "handle", "switch", "unregister", "remove",
           "setUnregistered", "challenge", "setChallenged", "restart", "refuse", "drop", "setAccount",
           "authenticate", "fill", "refresh", "ok"}

ASSUME ConstantsAssumption ==
  /\ MaxRegs \in Nat \ {0} /\ MaxSeq \in Nat \ {0} /\ MaxCopies \in Nat \ {0}
  /\ Expiry \in Nat \ {0} /\ Forced \in BOOLEAN
  /\ UserKinds \subseteq Kinds /\ Faults \subseteq {"response"}
  /\ NoUser \notin Users /\ NoMsg \notin Messages /\ NoTime \notin Int

VARIABLES
  state,     \* SipRegistration.state; "none" before the object exists
  username,  \* the user of the From header, null at first
  account,   \* sipAccountDao, named by its username
  contacts,  \* the users whose addresses are in registeredContactHeaderList
  expire,    \* activeExpireTime
  age,       \* the time since lastRegisterResponseSendDate
  listed,    \* SipServer.sipRegistrationList, in the order of the numbers
  answer,    \* the final response of each REGISTER transaction
  sent, net, \* REGISTERs sent, and those the listener has not taken yet
  pc, cur, req,            \* per thread: next step, registration, message
  watchdog, todo, suspect  \* the watchdog's next step, the rest of its list, its find

regVars == <<state, username, account, contacts, expire, age, listed>>
netVars == <<answer, sent, net>>
dogVars == <<watchdog, todo, suspect>>
vars    == <<regVars, netVars, pc, cur, req, dogVars>>

RegType ==
  /\ state \in [Registrations -> States]
  /\ username \in [Registrations -> Users \cup {NoUser}]
  /\ account \in [Registrations -> Users \cup {NoUser}]
  /\ contacts \in [Registrations -> SUBSET Users]
  /\ expire \in [Registrations -> {-1, Expiry, NoTime}]
  /\ age \in [Registrations -> 0..(Expiry + 1) \cup {NoTime}]
  /\ listed \subseteq Registrations
NetType ==
  /\ answer \in [Users -> [Seqs -> Answers]]
  /\ sent \subseteq Messages /\ net \subseteq Messages
ThreadType ==
  /\ pc \in [Workers -> Labels]
  /\ cur \in [Workers -> Registrations \cup {0}]
  /\ req \in [Workers -> Messages \cup {NoMsg}]
DogType ==
  /\ watchdog \in {"sleep", "check", "expire", "evict", "dead"}
  /\ todo \subseteq Registrations /\ suspect \in Registrations \cup {0}

\* Every variable has its type: an expiry is the one of the configuration or of
\* the request, in the unit the watchdog compares it in (SipServer.java:70).
TypeOK == RegType /\ NetType /\ ThreadType /\ DogType

Init ==
  /\ state = [r \in Registrations |-> "none"]
  /\ username = [r \in Registrations |-> NoUser]
  /\ account = [r \in Registrations |-> NoUser]
  /\ contacts = [r \in Registrations |-> {}]
  /\ expire = [r \in Registrations |-> NoTime]
  /\ age = [r \in Registrations |-> NoTime]
  /\ listed = {}
  /\ answer = [u \in Users |-> [n \in Seqs |-> "none"]]
  /\ sent = {} /\ net = {}
  /\ pc = [w \in Workers |-> "idle"]
  /\ cur = [w \in Workers |-> 0]
  /\ req = [w \in Workers |-> NoMsg]
  /\ watchdog = "sleep" /\ todo = {} /\ suspect = 0

------------------------------------------------------------------------------
(* Small vocabulary of the steps.                                           *)

IsFirst(r, S) == r \in S /\ \A q \in S : r <= q

Goto(w, l) == pc' = [pc EXCEPT ![w] = l] /\ UNCHANGED <<cur, req>>
Done(w)    == /\ pc' = [pc EXCEPT ![w] = "idle"]
              /\ cur' = [cur EXCEPT ![w] = 0]
              /\ req' = [req EXCEPT ![w] = NoMsg]

SetState(r, v) == /\ state' = [state EXCEPT ![r] = v]
                  /\ UNCHANGED <<username, account, contacts, expire, age, listed>>
Delist(r)      == /\ listed' = listed \ {r}
                  /\ UNCHANGED <<state, username, account, contacts, expire, age>>

\* sendResponse opens the server transaction of the request: it fails for a copy
\* of one that has been answered.
CanReply(w) == answer[req[w].user][req[w].seq] = "none"
Reply(w, a) == /\ CanReply(w)
               /\ answer' = [answer EXCEPT ![req[w].user][req[w].seq] = a]
               /\ UNCHANGED <<sent, net>>
NoReply(w)  == (~CanReply(w) \/ "response" \in Faults) /\ UNCHANGED netVars

\* SipRegistration.getUsername.  Slip: without the user of the From header.
KeyOfAccount(r) == account[r]
Key(r) == IF account[r] = NoUser THEN username[r] ELSE account[r]

------------------------------------------------------------------------------
(* The user agents.                                                         *)

InHand(u, n) == \/ \E m \in net : m.user = u /\ m.seq = n
                \/ \E w \in Workers : req[w] # NoMsg /\ req[w].user = u /\ req[w].seq = n

\* One transaction after the other; a REGISTER that was lost is given up.
Registers(u, n, k) ==
  /\ k \in UserKinds
  /\ ~\E m \in sent : m.user = u /\ m.seq = n
  /\ n > 1 => /\ \E m \in sent : m.user = u /\ m.seq = n - 1
              /\ ~InHand(u, n - 1)
  /\ LET m == [kind |-> k, user |-> u, seq |-> n, copy |-> 1] IN
     sent' = sent \cup {m} /\ net' = net \cup {m}
  /\ UNCHANGED <<answer, regVars, pc, cur, req, dogVars>>

\* The retransmission timer of the last transaction fires before the response
\* has come.
Retransmits(m) ==
  /\ m \in sent /\ m.copy < MaxCopies /\ answer[m.user][m.seq] = "none"
  /\ ~\E d \in sent : d.user = m.user /\ d.seq > m.seq
  /\ LET d == [m EXCEPT !.copy = m.copy + 1] IN
     d \notin sent /\ sent' = sent \cup {d} /\ net' = net \cup {d}
  /\ UNCHANGED <<answer, regVars, pc, cur, req, dogVars>>

------------------------------------------------------------------------------
(* SipProviderListener.processRegister and lookupRegistration.              *)

Lookup(w, m) ==
  /\ pc[w] = "idle" /\ m \in net
  /\ net' = net \ {m}
  /\ req' = [req EXCEPT ![w] = m]
  /\ LET S == {r \in listed : Key(r) = m.user} IN
     \/ /\ \E r \in Registrations : IsFirst(r, S) /\ cur' = [cur EXCEPT ![w] = r]
        /\ pc' = [pc EXCEPT ![w] = "handle"]
     \/ S = {} /\ pc' = [pc EXCEPT ![w] = "create"] /\ UNCHANGED cur
  /\ UNCHANGED <<answer, sent, regVars, dogVars>>

\* The registration joins the list before it has a user name.
Create(w) ==
  /\ pc[w] = "create"
  /\ \E r \in Registrations :
       /\ state[r] = "none" /\ \A q \in Registrations : q < r => state[q] # "none"
       /\ state' = [state EXCEPT ![r] = "STARTED"]
       /\ listed' = listed \cup {r}
       /\ cur' = [cur EXCEPT ![w] = r]
  /\ pc' = [pc EXCEPT ![w] = "handle"]
  /\ UNCHANGED <<username, account, contacts, expire, age, netVars, req, dogVars>>

\* The catch clause of TalkSipRegistrationException.
Drop(w) ==
  /\ pc[w] = "drop"
  /\ Delist(cur[w]) /\ Done(w)
  /\ UNCHANGED <<netVars, dogVars>>

------------------------------------------------------------------------------
(* SipRegistration.registerReceived.                                        *)

\* A REGISTER without Contact ends in a NullPointerException.
Handle(w) ==
  /\ pc[w] = "handle"
  /\ \/ req[w].kind = "ZERO" /\ Goto(w, "unregister")
     \/ req[w].kind = "QUERY" /\ Done(w)
     \/ req[w].kind \notin {"ZERO", "QUERY"} /\ Goto(w, "switch")
  /\ UNCHANGED <<regVars, netVars, dogVars>>

\* An expiry of 0 comes here too, after unregister, and finds the registration
\* in whatever state the other threads have put it meanwhile; it may or may not
\* carry credentials.  An unregistered registration gets no response.
Switch(w) ==
  /\ pc[w] = "switch"
  /\ LET k == req[w].kind
         v == state[cur[w]] IN
     \/ v = "STARTED" /\ Goto(w, "challenge")
     \/ v = "CHALLENGED" /\ k \in {"PLAIN", "ZERO"} /\ Goto(w, "restart")
     \/ v = "CHALLENGED" /\ k = "BAD" /\ Goto(w, "refuse")
     \/ v = "CHALLENGED" /\ k \in {"GOOD", "MUTE", "ZERO"} /\ Goto(w, "setAccount")
     \/ v = "AUTHENTICATED" /\ Goto(w, "refresh")
     \/ v = "UNREGISTERED" /\ Done(w)
  /\ UNCHANGED <<regVars, netVars, dogVars>>

\* unregister: the 200 first, then the list, then the state.
Unregister(w) ==
  /\ pc[w] = "unregister"
  /\ \/ Reply(w, "GONE") /\ Goto(w, "remove")
     \/ NoReply(w) /\ Done(w)
  /\ UNCHANGED <<regVars, dogVars>>

\* Slip: the registration stays in the list.
RemoveNothing(w) ==
  /\ pc[w] = "remove"
  /\ Goto(w, "setUnregistered")
  /\ UNCHANGED <<regVars, netVars, dogVars>>

Remove(w) ==
  /\ pc[w] = "remove"
  /\ Delist(cur[w]) /\ Goto(w, "setUnregistered")
  /\ UNCHANGED <<netVars, dogVars>>

SetUnregistered(w) ==
  /\ pc[w] = "setUnregistered"
  /\ SetState(cur[w], "UNREGISTERED") /\ Goto(w, "switch")
  /\ UNCHANGED <<netVars, dogVars>>

Challenge(w) ==
  /\ pc[w] = "challenge"
  /\ username' = [username EXCEPT ![cur[w]] = req[w].user]
  /\ \/ Reply(w, "CHALLENGE") /\ Goto(w, "setChallenged")
     \/ NoReply(w) /\ Done(w)
  /\ UNCHANGED <<state, account, contacts, expire, age, listed, dogVars>>

SetChallenged(w) ==
  /\ pc[w] = "setChallenged"
  /\ SetState(cur[w], "CHALLENGED") /\ Done(w)
  /\ UNCHANGED <<netVars, dogVars>>

\* A challenged registration that gets no credentials starts over.
Restart(w) ==
  /\ pc[w] = "restart"
  /\ SetState(cur[w], "STARTED") /\ Goto(w, "handle")
  /\ UNCHANGED <<netVars, dogVars>>

\* Wrong realm, unknown or disabled account, wrong password.
Refuse(w) ==
  /\ pc[w] = "refuse"
  /\ \/ Reply(w, "REFUSED") /\ Goto(w, "drop")
     \/ NoReply(w) /\ Done(w)
  /\ UNCHANGED <<regVars, dogVars>>

\* Slip: the state before the account.
SetAccountLate(w) ==
  /\ pc[w] = "setAccount"
  /\ SetState(cur[w], "AUTHENTICATED")
  /\ Goto(w, "authenticate")
  /\ UNCHANGED <<netVars, dogVars>>

SetAccount(w) ==
  /\ pc[w] = "setAccount"
  /\ account' = [account EXCEPT ![cur[w]] = req[w].user]
  /\ Goto(w, "authenticate")
  /\ UNCHANGED <<state, username, contacts, expire, age, listed, netVars, dogVars>>

Authenticate(w) ==
  /\ pc[w] = "authenticate"
  /\ SetState(cur[w], "AUTHENTICATED") /\ Goto(w, "fill")
  /\ UNCHANGED <<netVars, dogVars>>

\* Slip: the contacts are cleared and not added again.
FillNothing(w) ==
  /\ pc[w] = "fill"
  /\ contacts' = [contacts EXCEPT ![cur[w]] = {}]
  /\ Goto(w, "ok")
  /\ UNCHANGED <<state, username, account, expire, age, listed, netVars, dogVars>>

\* The default contact and one for each enabled extension of the account.
Fill(w) ==
  /\ pc[w] = "fill"
  /\ contacts' = [contacts EXCEPT ![cur[w]] = {account[cur[w]]}]
  /\ Goto(w, "ok")
  /\ UNCHANGED <<state, username, account, expire, age, listed, netVars, dogVars>>

\* Slip: the interval in another unit than the watchdog's.
RefreshMillis(w) ==
  /\ pc[w] = "refresh"
  /\ expire' = [expire EXCEPT ![cur[w]] = Expiry * 1000]
  /\ Goto(w, "ok")
  /\ UNCHANGED <<state, username, account, contacts, age, listed, netVars, dogVars>>

\* Contact.getExpires is -1 when the header names no expiry.
Refresh(w) ==
  /\ pc[w] = "refresh"
  /\ expire' = [expire EXCEPT ![cur[w]] =
                  IF Forced \/ req[w].kind # "MUTE" THEN Expiry ELSE -1]
  /\ Goto(w, "ok")
  /\ UNCHANGED <<state, username, account, contacts, age, listed, netVars, dogVars>>

\* sendResponseOk.
Ok(w) ==
  /\ pc[w] = "ok"
  /\ \/ Reply(w, "OK") /\ age' = [age EXCEPT ![cur[w]] = 0]
     \/ NoReply(w) /\ UNCHANGED age
  /\ Done(w)
  /\ UNCHANGED <<state, username, account, contacts, expire, listed, dogVars>>

------------------------------------------------------------------------------
(* RegistrationWatchdog.                                                    *)

\* The iterator of the list works on a copy of it.
Wake ==
  /\ watchdog = "sleep"
  /\ watchdog' = "check" /\ todo' = listed
  /\ UNCHANGED <<regVars, netVars, pc, cur, req, suspect>>

\* Slip: the elapsed seconds compared with milliseconds.
OverdueMillis(r) == age[r] # NoTime /\ age[r] > expire[r] * 1000

Overdue(r) == age[r] # NoTime /\ age[r] > expire[r]

\* A registration with an expiry whose 200 has not gone out yet ends the thread
\* with a NullPointerException.
Check ==
  /\ watchdog = "check"
  /\ \/ todo = {} /\ watchdog' = "sleep" /\ UNCHANGED <<todo, suspect>>
     \/ \E r \in todo :
          /\ IsFirst(r, todo)
          /\ todo' = todo \ {r}
          /\ \/ expire[r] = NoTime /\ UNCHANGED <<watchdog, suspect>>
             \/ /\ expire[r] # NoTime /\ age[r] = NoTime
                /\ watchdog' = "dead" /\ UNCHANGED suspect
             \/ /\ expire[r] # NoTime /\ age[r] # NoTime
                /\ IF Overdue(r) THEN watchdog' = "expire" /\ suspect' = r
                                 ELSE UNCHANGED <<watchdog, suspect>>
  /\ UNCHANGED <<regVars, netVars, pc, cur, req>>

\* Slip: timedOut leaves the registration in the list.
ExpireOnly ==
  /\ watchdog = "expire"
  /\ SetState(suspect, "UNREGISTERED")
  /\ watchdog' = "check" /\ suspect' = 0
  /\ UNCHANGED <<netVars, pc, cur, req, todo>>

Expire ==
  /\ watchdog = "expire"
  /\ SetState(suspect, "UNREGISTERED")
  /\ watchdog' = "evict"
  /\ UNCHANGED <<netVars, pc, cur, req, todo, suspect>>

Evict ==
  /\ watchdog = "evict"
  /\ Delist(suspect)
  /\ watchdog' = "check" /\ suspect' = 0
  /\ UNCHANGED <<netVars, pc, cur, req, todo>>

Tick ==
  /\ \E r \in Registrations : age[r] # NoTime /\ age[r] <= Expiry
  /\ age' = [r \in Registrations |->
               IF age[r] = NoTime \/ age[r] > Expiry THEN age[r] ELSE age[r] + 1]
  /\ UNCHANGED <<state, username, account, contacts, expire, listed, netVars,
                 pc, cur, req, dogVars>>

------------------------------------------------------------------------------
UserAgents == \/ \E u \in Users, n \in Seqs, k \in Kinds : Registers(u, n, k)
              \/ \E m \in sent : Retransmits(m)

WorkerStep(w) ==
  \/ Create(w) \/ Drop(w) \/ Handle(w) \/ Switch(w) \/ Unregister(w) \/ Remove(w)
  \/ SetUnregistered(w) \/ Challenge(w) \/ SetChallenged(w) \/ Restart(w)
  \/ Refuse(w) \/ SetAccount(w) \/ Authenticate(w) \/ Fill(w) \/ Refresh(w) \/ Ok(w)

WatchdogStep == Wake \/ Check \/ Expire \/ Evict

Next ==
  \/ UserAgents
  \/ \E w \in Workers, m \in net : Lookup(w, m)
  \/ \E w \in Workers : WorkerStep(w)
  \/ WatchdogStep
  \/ Tick

Spec == Init /\ [][Next]_vars

\* The pool and the watchdog are scheduled and time passes.  No user agent has
\* to act and no message has to arrive.
FairSpec == /\ Spec
            /\ \A w \in Workers : WF_vars(WorkerStep(w))
            /\ WF_vars(WatchdogStep)
            /\ WF_vars(Tick)

------------------------------------------------------------------------------
(* What the registrar promises.                                             *)

Quiescent(r) == suspect # r /\ \A w \in Workers : cur[w] # r

\* The last REGISTER of u was answered so, and nothing of u is under way.
Settled(u, a) ==
  \E n \in Seqs :
    /\ answer[u][n] = a /\ ~InHand(u, n)
    /\ ~\E m \in sent : m.user = u /\ m.seq > n

\* A registration that an INVITE can find or the watchdog can time out has its
\* account: SipProviderListener.java:243 and SipRegistration.java:194 use it
\* without a null check, in other threads than the one that sets it.
AccountIsKnown ==
  \A r \in Registrations :
    contacts[r] # {} \/ expire[r] # NoTime => account[r] # NoUser

\* A registration that was unregistered or timed out is not in the list any more
\* when the threads are done with it, so no INVITE finds it (SipRegistration.java:
\* 179-197), whichever of the two came first.
UnregisteredLeavesList ==
  \A r \in Registrations :
    state[r] = "UNREGISTERED" /\ Quiescent(r) => r \notin listed

\* As long as no two workers have requests of one user in hand, a user has one
\* registration in the list: getSipRegistration finds it by the From user before, and
\* by the account after authentication (SipProviderListener.java:150-163).
OneRegistrationPerUser ==
  \A r, s \in listed : username[r] = username[s] /\ username[r] # NoUser => r = s

\* In the same circumstances a user agent whose unregistration was answered is not
\* called any more: no listed registration has its contacts.
UnregisteredIsUnreachable ==
  \A u \in Users : Settled(u, "GONE") => \A r \in listed : u \notin contacts[r]

\* In the same circumstances a user agent whose REGISTER was answered 200 has contacts
\* recorded, and the youngest registration with its contacts is in the list or
\* else was timed out by the watchdog, whatever retransmissions came before.
AnsweredIsReachable ==
  \A u \in Users : Settled(u, "OK") =>
    \E r \in Registrations :
      /\ u \in contacts[r]
      /\ \A q \in Registrations : u \in contacts[q] => q <= r
      /\ r \in listed \/ state[r] = "UNREGISTERED"

\* With one worker, and as long as the watchdog lives, a registration that has an
\* expiry leaves the list once its user agent falls silent (SipServer.java:66-75).
\* The watchdog dies of a registration that is refreshed before any of its 200s was
\* sent: it has an expiry and no date of a response.
SilentIsDropped ==
  [](watchdog # "dead") =>
    \A r \in Registrations : expire[r] # NoTime ~> r \notin listed

==============================================================================
