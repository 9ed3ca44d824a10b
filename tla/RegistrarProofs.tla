--------------------------- MODULE RegistrarProofs ---------------------------
(****************************************************************************)
(* Proofs about Registrar for any number of users, threads, registrations   *)
(* and transactions.                                                        *)
(*                                                                          *)
(* The argument: the account of a registration is set before any of the     *)
(* fields that imply it and is never taken back (Grow), so what a thread    *)
(* knows of it at a statement stays true while the others run.              *)
(*                                                                          *)
(* The second half is about runs in which no two threads have requests of   *)
(* the same user in hand at once (Apart), beside other users' and the       *)
(* watchdog.  Then the thread's registration is the only one of its user    *)
(* and nobody else's (NameInv), in the state that the statement wants       *)
(* (StageInv); what it serves is the last transaction of the user agent     *)
(* (MessageInv), so what the agent was told is still true (GoneInv,         *)
(* FoundInv), and its youngest registration is the listed one (OrderInv).   *)
(****************************************************************************)
EXTENDS Registrar, TLAPS

\* sipAccountDao is set.
Known(r) == account[r] # NoUser

WorkerOK(w) ==
  /\ pc[w] = "idle" => req[w] = NoMsg
  /\ pc[w] # "idle" => req[w] \in Messages
  /\ pc[w] \notin {"idle", "create"} => cur[w] \in Registrations
  /\ pc[w] \in {"authenticate", "fill", "refresh"} => Known(cur[w])

RegistrationOK(r) ==
  /\ state[r] = "AUTHENTICATED" => Known(r)
  /\ contacts[r] # {} \/ expire[r] # NoTime => Known(r)

WorkerInv == \A w \in Workers : WorkerOK(w)
RegInv    == \A r \in Registrations : RegistrationOK(r)
DogInv    == watchdog \in {"expire", "evict"} => suspect \in Registrations
IInv      == TypeOK /\ WorkerInv /\ RegInv /\ DogInv

\* No step takes an account away.
Grow == \A r \in Registrations : account[r] # NoUser => account'[r] # NoUser

------------------------------------------------------------------------------
(* Facts about the vocabulary of the steps.                                 *)

LEMMA MessageFields ==
  \A m \in Messages : m.user \in Users /\ m.seq \in Seqs /\ m.copy \in 1..MaxCopies
BY DEF Messages

LEMMA ReplyType ==
  ASSUME NetType, NEW w \in Workers, req[w] \in Messages, NEW a \in Answers,
         Reply(w, a) \/ NoReply(w)
  PROVE  NetType'
BY MessageFields DEF NetType, Reply, NoReply, netVars

LEMMA GotoType ==
  ASSUME ThreadType, NEW w \in Workers, NEW l \in Labels, Goto(w, l)
  PROVE  /\ ThreadType'
         /\ pc'[w] = l /\ cur' = cur /\ req' = req
         /\ \A u \in Workers \ {w} : pc'[u] = pc[u]
BY DEF ThreadType, Goto

LEMMA DoneType ==
  ASSUME ThreadType, NEW w \in Workers, Done(w)
  PROVE  /\ ThreadType'
         /\ pc'[w] = "idle" /\ req'[w] = NoMsg
         /\ \A u \in Workers \ {w} : pc'[u] = pc[u] /\ cur'[u] = cur[u] /\ req'[u] = req[u]
BY DEF ThreadType, Done, Labels

\* A step of one thread leaves what the others rely on.
LEMMA Frame ==
  ASSUME WorkerInv, ThreadType, Grow, NEW w \in Workers,
         \A u \in Workers \ {w} : pc'[u] = pc[u] /\ cur'[u] = cur[u] /\ req'[u] = req[u],
         WorkerOK(w)'
  PROVE  WorkerInv'
<1> SUFFICES ASSUME NEW u \in Workers PROVE WorkerOK(u)'
  BY DEF WorkerInv
<1>1. CASE u = w
  BY <1>1
<1>2. CASE u # w
  <2>1. WorkerOK(u) /\ pc'[u] = pc[u] /\ cur'[u] = cur[u] /\ req'[u] = req[u]
    BY <1>2 DEF WorkerInv
  <2>2. Known(cur[u]) /\ cur[u] \in Registrations => Known(cur[u])'
    BY <2>1 DEF Grow, Known
  <2> QED BY <2>1, <2>2 DEF WorkerOK
<1> QED BY <1>1, <1>2

\* A step that moves thread w on, or ends its work, and changes a registration.
LEMMA Going ==
  ASSUME IInv, Grow, NEW w \in Workers, pc[w] # "idle", NEW l \in Labels \ {"idle"},
         Goto(w, l), RegType', RegInv', NetType', UNCHANGED dogVars,
         l \notin {"create"} => cur[w] \in Registrations,
         l \in {"authenticate", "fill", "refresh"} => account'[cur[w]] # NoUser
  PROVE  IInv'
<1>1. ThreadType /\ WorkerInv
  BY DEF IInv, TypeOK
<1>2. /\ ThreadType'
      /\ pc'[w] = l /\ cur' = cur /\ req' = req
      /\ \A u \in Workers \ {w} : pc'[u] = pc[u]
  BY <1>1, GotoType
<1>3. WorkerOK(w)'
  BY <1>1, <1>2 DEF WorkerInv, WorkerOK, Known
<1>4. WorkerInv'
  BY <1>1, <1>2, <1>3, Frame
<1>5. DogType' /\ DogInv'
  BY DEF IInv, TypeOK, DogType, DogInv, dogVars
<1> QED BY <1>2, <1>4, <1>5 DEF IInv, TypeOK

LEMMA Ending ==
  ASSUME IInv, Grow, NEW w \in Workers, Done(w), RegType', RegInv', NetType',
         UNCHANGED dogVars
  PROVE  IInv'
<1>1. ThreadType /\ WorkerInv
  BY DEF IInv, TypeOK
<1>2. /\ ThreadType'
      /\ pc'[w] = "idle" /\ req'[w] = NoMsg
      /\ \A u \in Workers \ {w} : pc'[u] = pc[u] /\ cur'[u] = cur[u] /\ req'[u] = req[u]
  BY <1>1, DoneType
<1>3. WorkerOK(w)'
  BY <1>2 DEF WorkerOK
<1>4. WorkerInv'
  BY <1>1, <1>2, <1>3, Frame
<1>5. DogType' /\ DogInv'
  BY DEF IInv, TypeOK, DogType, DogInv, dogVars
<1> QED BY <1>2, <1>4, <1>5 DEF IInv, TypeOK

\* The registrations are as they were, or only their list changed.
LEMMA SameReg ==
  ASSUME IInv, UNCHANGED <<state, account, contacts, expire, username, age>>,
         listed' \subseteq Registrations
  PROVE  RegType' /\ RegInv' /\ Grow
BY DEF IInv, TypeOK, RegType, RegInv, RegistrationOK, Known, Grow

LEMMA StateChange ==
  ASSUME IInv, NEW r \in Registrations, NEW v \in States, SetState(r, v),
         v = "AUTHENTICATED" => Known(r)
  PROVE  RegType' /\ RegInv' /\ Grow
BY DEF IInv, TypeOK, RegType, RegInv, RegistrationOK, Known, Grow, SetState

LEMMA SameNet ==
  ASSUME IInv, UNCHANGED netVars
  PROVE  NetType'
BY DEF IInv, TypeOK, NetType, netVars

\* What thread w may rely on in the middle of its work.
LEMMA Busy ==
  ASSUME IInv, NEW w \in Workers, pc[w] # "idle"
  PROVE  /\ req[w] \in Messages
         /\ pc[w] # "create" => cur[w] \in Registrations
         /\ pc[w] \in {"authenticate", "fill", "refresh"} => Known(cur[w])
BY DEF IInv, WorkerInv, WorkerOK

------------------------------------------------------------------------------
(* The steps.                                                               *)

LEMMA UserAgentsStep ==
  ASSUME IInv, UserAgents
  PROVE  IInv'
<1>1. NetType'
  <2>1. ASSUME NEW u \in Users, NEW n \in Seqs, NEW k \in Kinds, Registers(u, n, k)
        PROVE  NetType'
    <3>1. [kind |-> k, user |-> u, seq |-> n, copy |-> 1] \in Messages
      BY ConstantsAssumption DEF Messages
    <3> QED BY <2>1, <3>1 DEF IInv, TypeOK, NetType, Registers
  <2>2. ASSUME NEW m \in sent, Retransmits(m) PROVE NetType'
    <3>1. m \in Messages /\ m.copy < MaxCopies
      BY <2>2 DEF IInv, TypeOK, NetType, Retransmits
    <3>2. m.copy \in 1..MaxCopies
      BY <3>1, MessageFields
    <3>3. [m EXCEPT !.copy = m.copy + 1] \in Messages
      BY <3>1, <3>2, ConstantsAssumption DEF Messages
    <3> QED BY <2>2, <3>3 DEF IInv, TypeOK, NetType, Retransmits
  <2> QED BY <2>1, <2>2 DEF UserAgents
<1>2. UNCHANGED <<regVars, pc, cur, req, dogVars>>
  BY DEF UserAgents, Registers, Retransmits
<1> QED
  BY <1>1, <1>2
  DEF IInv, TypeOK, RegType, ThreadType, DogType, WorkerInv, WorkerOK, RegInv,
      RegistrationOK, DogInv, Known, regVars, dogVars

LEMMA LookupStep ==
  ASSUME IInv, NEW w \in Workers, NEW m \in net, Lookup(w, m)
  PROVE  IInv'
<1>1. m \in Messages /\ ThreadType /\ WorkerInv /\ listed \subseteq Registrations
  BY DEF IInv, TypeOK, NetType, RegType
<1>2. NetType' /\ DogType' /\ DogInv'
  BY DEF Lookup, IInv, TypeOK, NetType, DogType, DogInv, dogVars
<1>3. RegType' /\ RegInv' /\ Grow
  <2>1. UNCHANGED regVars
    BY DEF Lookup
  <2> QED BY <1>1, <2>1, SameReg DEF regVars
<1>4. /\ req' = [req EXCEPT ![w] = m]
      /\ \/ \E r \in Registrations : /\ cur' = [cur EXCEPT ![w] = r]
                                     /\ pc' = [pc EXCEPT ![w] = "handle"]
         \/ pc' = [pc EXCEPT ![w] = "create"] /\ cur' = cur
  BY DEF Lookup
<1>5. /\ ThreadType' /\ WorkerOK(w)'
      /\ \A u \in Workers \ {w} : pc'[u] = pc[u] /\ cur'[u] = cur[u] /\ req'[u] = req[u]
  BY <1>1, <1>4 DEF ThreadType, Labels, WorkerOK
<1>6. WorkerInv'
  BY <1>1, <1>3, <1>5, Frame
<1> QED BY <1>2, <1>3, <1>5, <1>6 DEF IInv, TypeOK

LEMMA CreateStep ==
  ASSUME IInv, NEW w \in Workers, Create(w)
  PROVE  IInv'
<1>1. PICK r \in Registrations :
        /\ state' = [state EXCEPT ![r] = "STARTED"]
        /\ listed' = listed \cup {r}
        /\ cur' = [cur EXCEPT ![w] = r]
  BY DEF Create
<1>2. /\ pc[w] = "create" /\ pc' = [pc EXCEPT ![w] = "handle"] /\ req' = req
      /\ UNCHANGED <<username, account, contacts, expire, age, dogVars, netVars>>
  BY DEF Create
<1>3. ThreadType /\ WorkerInv /\ req[w] \in Messages
  BY <1>2, Busy DEF IInv, TypeOK
<1>4. RegType' /\ RegInv' /\ Grow
  BY <1>1, <1>2 DEF IInv, TypeOK, RegType, RegInv, RegistrationOK, Known, Grow, States
<1>5. NetType' /\ DogType' /\ DogInv'
  BY <1>2, SameNet DEF IInv, TypeOK, DogType, DogInv, dogVars
<1>6. /\ ThreadType' /\ WorkerOK(w)'
      /\ \A u \in Workers \ {w} : pc'[u] = pc[u] /\ cur'[u] = cur[u] /\ req'[u] = req[u]
  BY <1>1, <1>2, <1>3 DEF ThreadType, Labels, WorkerOK
<1>7. WorkerInv'
  BY <1>3, <1>4, <1>6, Frame
<1> QED BY <1>4, <1>5, <1>6, <1>7 DEF IInv, TypeOK

\* The steps that read and leave the registrations alone.
LEMMA RoutingSteps ==
  ASSUME IInv, NEW w \in Workers, Handle(w) \/ Switch(w) \/ Unregister(w) \/ Refuse(w)
  PROVE  IInv'
<1>1. pc[w] \notin {"idle", "create"} /\ UNCHANGED regVars /\ UNCHANGED dogVars
  BY DEF Handle, Switch, Unregister, Refuse
<1>2. cur[w] \in Registrations /\ req[w] \in Messages
  BY <1>1, Busy
<1>3. RegType' /\ RegInv' /\ Grow
  <2>1. listed' \subseteq Registrations
    BY <1>1 DEF regVars, IInv, TypeOK, RegType
  <2> QED BY <1>1, <2>1, SameReg DEF regVars
<1>4. NetType'
  <2>1. NetType
    BY DEF IInv, TypeOK
  <2>2. CASE Handle(w) \/ Switch(w)
    BY <2>2, SameNet DEF Handle, Switch
  <2>3. CASE Unregister(w)
    <3>1. Reply(w, "GONE") \/ NoReply(w)
      BY <2>3 DEF Unregister
    <3> QED BY <1>2, <2>1, <3>1, ReplyType DEF Answers
  <2>4. CASE Refuse(w)
    <3>1. Reply(w, "REFUSED") \/ NoReply(w)
      BY <2>4 DEF Refuse
    <3> QED BY <1>2, <2>1, <3>1, ReplyType DEF Answers
  <2> QED BY <2>2, <2>3, <2>4
<1>5. \/ Done(w)
      \/ \E l \in {"unregister", "switch", "challenge", "restart", "refuse",
                   "setAccount", "remove", "drop"} : Goto(w, l)
      \/ state[cur[w]] = "AUTHENTICATED" /\ Goto(w, "refresh")
  BY DEF Handle, Switch, Unregister, Refuse
<1>6. CASE Done(w)
  BY <1>1, <1>3, <1>4, <1>6, Ending
<1>7. ASSUME NEW l \in {"unregister", "switch", "challenge", "restart", "refuse",
                        "setAccount", "remove", "drop"}, Goto(w, l)
      PROVE  IInv'
  <2>1. l \in Labels \ {"idle"} /\ l \notin {"create", "authenticate", "fill", "refresh"}
    BY DEF Labels
  <2> QED BY <1>1, <1>2, <1>3, <1>4, <1>7, <2>1, Going
<1>8. CASE state[cur[w]] = "AUTHENTICATED" /\ Goto(w, "refresh")
  <2>1. account'[cur[w]] # NoUser
    BY <1>2, <1>3, <1>8 DEF IInv, RegInv, RegistrationOK, Known, Grow
  <2>2. "refresh" \in Labels \ {"idle"}
    BY DEF Labels
  <2> QED BY <1>1, <1>2, <1>3, <1>4, <1>8, <2>1, <2>2, Going
<1> QED BY <1>5, <1>6, <1>7, <1>8

LEMMA ListSteps ==
  ASSUME IInv, NEW w \in Workers, Drop(w) \/ Remove(w)
  PROVE  IInv'
<1>1. /\ pc[w] \in {"drop", "remove"} /\ Delist(cur[w])
      /\ UNCHANGED netVars /\ UNCHANGED dogVars
  BY DEF Drop, Remove
<1>2. cur[w] \in Registrations /\ NetType'
  BY <1>1, Busy, SameNet
<1>3. RegType' /\ RegInv' /\ Grow
  <2>1. listed' \subseteq Registrations
    BY <1>1 DEF Delist, IInv, TypeOK, RegType
  <2> QED BY <1>1, <2>1, SameReg DEF Delist
<1>4. CASE Drop(w)
  BY <1>1, <1>2, <1>3, <1>4, Ending DEF Drop
<1>5. CASE Remove(w)
  <2>1. Goto(w, "setUnregistered") /\ "setUnregistered" \in Labels \ {"idle"}
    BY <1>5 DEF Remove, Labels
  <2> QED BY <1>1, <1>2, <1>3, <2>1, Going
<1> QED BY <1>4, <1>5

LEMMA StateSteps ==
  ASSUME IInv, NEW w \in Workers,
         SetUnregistered(w) \/ SetChallenged(w) \/ Restart(w) \/ Authenticate(w)
  PROVE  IInv'
<1>1. /\ pc[w] \notin {"idle", "create"}
      /\ UNCHANGED netVars /\ UNCHANGED dogVars
  BY DEF SetUnregistered, SetChallenged, Restart, Authenticate
<1>2. cur[w] \in Registrations /\ NetType'
  BY <1>1, Busy, SameNet
<1>3. CASE SetUnregistered(w)
  <2>1. SetState(cur[w], "UNREGISTERED") /\ Goto(w, "switch")
    BY <1>3 DEF SetUnregistered
  <2>2. RegType' /\ RegInv' /\ Grow
    BY <1>2, <2>1, StateChange DEF States
  <2>3. "switch" \in Labels \ {"idle"}
    BY DEF Labels
  <2> QED BY <1>1, <1>2, <2>1, <2>2, <2>3, Going
<1>4. CASE SetChallenged(w)
  <2>1. SetState(cur[w], "CHALLENGED") /\ Done(w)
    BY <1>4 DEF SetChallenged
  <2>2. RegType' /\ RegInv' /\ Grow
    BY <1>2, <2>1, StateChange DEF States
  <2> QED BY <1>1, <1>2, <2>1, <2>2, Ending
<1>5. CASE Restart(w)
  <2>1. SetState(cur[w], "STARTED") /\ Goto(w, "handle")
    BY <1>5 DEF Restart
  <2>2. RegType' /\ RegInv' /\ Grow
    BY <1>2, <2>1, StateChange DEF States
  <2>3. "handle" \in Labels \ {"idle"}
    BY DEF Labels
  <2> QED BY <1>1, <1>2, <2>1, <2>2, <2>3, Going
<1>6. CASE Authenticate(w)
  <2>1. pc[w] = "authenticate" /\ SetState(cur[w], "AUTHENTICATED") /\ Goto(w, "fill")
    BY <1>6 DEF Authenticate
  <2>2. Known(cur[w])
    BY <2>1, Busy
  <2>3. RegType' /\ RegInv' /\ Grow
    BY <1>2, <2>1, <2>2, StateChange DEF States
  <2>4. "fill" \in Labels \ {"idle"} /\ account'[cur[w]] # NoUser
    BY <1>2, <2>2, <2>3 DEF Labels, Known, Grow
  <2> QED BY <1>1, <1>2, <2>1, <2>3, <2>4, Going
<1> QED BY <1>3, <1>4, <1>5, <1>6

LEMMA ChallengeStep ==
  ASSUME IInv, NEW w \in Workers, Challenge(w)
  PROVE  IInv'
<1>1. /\ pc[w] = "challenge" /\ username' = [username EXCEPT ![cur[w]] = req[w].user]
      /\ UNCHANGED <<state, account, contacts, expire, age, listed, dogVars>>
      /\ Reply(w, "CHALLENGE") \/ NoReply(w)
      /\ Goto(w, "setChallenged") \/ Done(w)
  BY DEF Challenge
<1>2. cur[w] \in Registrations /\ req[w] \in Messages /\ req[w].user \in Users
  BY <1>1, Busy, MessageFields
<1>3. NetType'
  BY <1>1, <1>2, ReplyType DEF Answers, IInv, TypeOK
<1>4. RegType' /\ RegInv' /\ Grow
  BY <1>1, <1>2 DEF IInv, TypeOK, RegType, RegInv, RegistrationOK, Known, Grow
<1>5. "setChallenged" \in Labels \ {"idle"} /\ UNCHANGED dogVars
  BY <1>1 DEF Labels
<1> QED BY <1>1, <1>2, <1>3, <1>4, <1>5, Going, Ending

LEMMA SetAccountStep ==
  ASSUME IInv, NEW w \in Workers, SetAccount(w)
  PROVE  IInv'
<1>1. /\ pc[w] = "setAccount" /\ account' = [account EXCEPT ![cur[w]] = req[w].user]
      /\ Goto(w, "authenticate")
      /\ UNCHANGED <<state, username, contacts, expire, age, listed, netVars, dogVars>>
  BY DEF SetAccount
<1>2. cur[w] \in Registrations /\ req[w] \in Messages /\ req[w].user \in Users
  BY <1>1, Busy, MessageFields
<1>3. RegType' /\ RegInv' /\ Grow /\ account'[cur[w]] # NoUser
  BY <1>1, <1>2, ConstantsAssumption
  DEF IInv, TypeOK, RegType, RegInv, RegistrationOK, Known, Grow
<1>4. "authenticate" \in Labels \ {"idle"} /\ UNCHANGED dogVars /\ NetType'
  BY <1>1, SameNet DEF Labels
<1> QED BY <1>1, <1>2, <1>3, <1>4, Going

LEMMA FieldSteps ==
  ASSUME IInv, NEW w \in Workers, Fill(w) \/ Refresh(w)
  PROVE  IInv'
<1>1. /\ pc[w] \in {"fill", "refresh"} /\ Goto(w, "ok")
      /\ UNCHANGED <<state, username, account, age, listed, netVars, dogVars>>
  BY DEF Fill, Refresh
<1>2. cur[w] \in Registrations /\ Known(cur[w])
  BY <1>1, Busy
<1>3. account[cur[w]] \in Users
  BY <1>2 DEF Known, IInv, TypeOK, RegType
<1>4. /\ contacts' \in [Registrations -> SUBSET Users]
      /\ expire' \in [Registrations -> {-1, Expiry, NoTime}]
      /\ \A r \in Registrations \ {cur[w]} : contacts'[r] = contacts[r] /\ expire'[r] = expire[r]
  BY <1>2, <1>3 DEF Fill, Refresh, IInv, TypeOK, RegType
<1>5. RegType' /\ Grow
  BY <1>1, <1>4 DEF IInv, TypeOK, RegType, Grow
<1>6. RegInv'
  BY <1>1, <1>2, <1>4 DEF IInv, RegInv, RegistrationOK, Known
<1>7. "ok" \in Labels \ {"idle"} /\ UNCHANGED dogVars /\ NetType'
  BY <1>1, SameNet DEF Labels
<1> QED BY <1>1, <1>2, <1>5, <1>6, <1>7, Going

LEMMA OkStep ==
  ASSUME IInv, NEW w \in Workers, Ok(w)
  PROVE  IInv'
<1>1. /\ pc[w] = "ok" /\ Done(w)
      /\ UNCHANGED <<state, username, account, contacts, expire, listed, dogVars>>
      /\ Reply(w, "OK") \/ NoReply(w)
      /\ age' = [age EXCEPT ![cur[w]] = 0] \/ age' = age
  BY DEF Ok
<1>2. cur[w] \in Registrations /\ req[w] \in Messages
  BY <1>1, Busy
<1>3. NetType' /\ UNCHANGED dogVars
  BY <1>1, <1>2, ReplyType DEF Answers, IInv, TypeOK
<1>4. age' \in [Registrations -> 0..(Expiry + 1) \cup {NoTime}]
  BY <1>1, <1>2, ConstantsAssumption DEF IInv, TypeOK, RegType
<1>5. RegType' /\ RegInv' /\ Grow
  BY <1>1, <1>4 DEF IInv, TypeOK, RegType, RegInv, RegistrationOK, Known, Grow
<1> QED BY <1>1, <1>3, <1>5, Ending

\* A step that is none of the pool's threads'.
LEMMA Outside ==
  ASSUME IInv, UNCHANGED <<account, netVars, pc, cur, req>>, RegType', RegInv',
         DogType', DogInv'
  PROVE  IInv'
<1>1. NetType'
  BY SameNet
<1>2. ThreadType' /\ WorkerInv'
  BY DEF IInv, TypeOK, ThreadType, WorkerInv, WorkerOK, Known
<1> QED BY <1>1, <1>2 DEF IInv, TypeOK

LEMMA WatchdogSteps ==
  ASSUME IInv, WatchdogStep
  PROVE  IInv'
<1>1. listed \subseteq Registrations /\ DogType /\ DogInv
  BY DEF IInv, TypeOK, RegType
<1>2. CASE Wake \/ Check
  <2>1. UNCHANGED <<regVars, netVars, pc, cur, req>>
    BY <1>2 DEF Wake, Check
  <2>2. RegType' /\ RegInv'
    BY <1>1, <2>1, SameReg DEF regVars
  <2>3. CASE Wake
    BY <1>1, <2>1, <2>2, <2>3, Outside DEF Wake, DogType, DogInv, regVars
  <2>4. CASE Check
    <3>1. DogType' /\ DogInv'
      BY <1>1, <2>4 DEF Check, DogType, DogInv
    <3> QED BY <2>1, <2>2, <3>1, Outside DEF regVars
  <2> QED BY <1>2, <2>3, <2>4
<1>3. CASE Expire
  <2>1. suspect \in Registrations /\ SetState(suspect, "UNREGISTERED")
    BY <1>1, <1>3 DEF Expire, DogInv
  <2>2. RegType' /\ RegInv' /\ UNCHANGED account
    BY <2>1, StateChange DEF States, SetState
  <2> QED BY <1>1, <1>3, <2>2, Outside DEF Expire, DogType, DogInv
<1>4. CASE Evict
  <2>1. UNCHANGED <<state, account, contacts, expire, username, age>>
    BY <1>4 DEF Evict, Delist
  <2>2. RegType' /\ RegInv'
    BY <1>1, <1>4, <2>1, SameReg DEF Evict, Delist
  <2> QED BY <1>1, <1>4, <2>1, <2>2, Outside DEF Evict, DogType, DogInv
<1> QED BY <1>2, <1>3, <1>4 DEF WatchdogStep

LEMMA TickStep ==
  ASSUME IInv, Tick
  PROVE  IInv'
<1>1. age' \in [Registrations -> 0..(Expiry + 1) \cup {NoTime}]
  <2>1. ASSUME NEW r \in Registrations
        PROVE  (IF age[r] = NoTime \/ age[r] > Expiry THEN age[r] ELSE age[r] + 1)
                 \in 0..(Expiry + 1) \cup {NoTime}
    BY ConstantsAssumption DEF IInv, TypeOK, RegType
  <2> QED BY <2>1 DEF Tick
<1>2. RegType' /\ RegInv'
  BY <1>1 DEF Tick, IInv, TypeOK, RegType, RegInv, RegistrationOK, Known
<1>3. DogType' /\ DogInv'
  BY DEF Tick, IInv, TypeOK, DogType, DogInv, dogVars
<1> QED BY <1>2, <1>3, Outside DEF Tick

------------------------------------------------------------------------------
LEMMA InitInv == Init => IInv
<1> SUFFICES ASSUME Init PROVE IInv
  OBVIOUS
<1>1. TypeOK
  BY ConstantsAssumption
  DEF Init, TypeOK, RegType, NetType, ThreadType, DogType, States, Answers, Labels
<1>2. WorkerInv /\ RegInv /\ DogInv
  BY DEF Init, WorkerInv, WorkerOK, RegInv, RegistrationOK, DogInv
<1> QED BY <1>1, <1>2 DEF IInv

LEMMA NextInv == IInv /\ [Next]_vars => IInv'
<1> SUFFICES ASSUME IInv, [Next]_vars PROVE IInv'
  OBVIOUS
<1>1. CASE UserAgents
  BY <1>1, UserAgentsStep
<1>2. CASE \E w \in Workers, m \in net : Lookup(w, m)
  BY <1>2, LookupStep
<1>3. ASSUME NEW w \in Workers, WorkerStep(w) PROVE IInv'
  BY <1>3, CreateStep, RoutingSteps, ListSteps, StateSteps, ChallengeStep,
     SetAccountStep, FieldSteps, OkStep DEF WorkerStep
<1>4. CASE WatchdogStep
  BY <1>4, WatchdogSteps
<1>5. CASE Tick
  BY <1>5, TickStep
<1>6. CASE UNCHANGED vars
  <2>1. UNCHANGED regVars /\ UNCHANGED <<netVars, pc, cur, req>> /\ UNCHANGED dogVars
    BY <1>6 DEF vars
  <2>2. RegType' /\ RegInv' /\ DogType' /\ DogInv'
    BY <2>1, SameReg DEF regVars, dogVars, IInv, TypeOK, RegType, DogType, DogInv
  <2> QED BY <2>1, <2>2, Outside DEF regVars
<1> QED BY <1>1, <1>2, <1>3, <1>4, <1>5, <1>6 DEF Next

LEMMA AlwaysIInv == Spec => []IInv
BY InitInv, NextInv, PTL DEF Spec

\* Every variable keeps its type, whatever the user agents send and however the
\* threads of the pool and the watchdog interleave (SipRegistration.java).
THEOREM RegistrarTypeCorrect == Spec => []TypeOK
<1>1. IInv => TypeOK
  BY DEF IInv
<1> QED BY <1>1, AlwaysIInv, PTL

\* A registration that offers contacts to an INVITE, or an expiry to the watchdog,
\* has its account: neither SipProviderListener.java:243 nor SipRegistration.java:194
\* meets a null there, although SipRegistration is not synchronized.
THEOREM AccountsAreKnown == Spec => []AccountIsKnown
<1>1. IInv => AccountIsKnown
  BY DEF IInv, RegInv, RegistrationOK, Known, AccountIsKnown
<1> QED BY <1>1, AlwaysIInv, PTL

------------------------------------------------------------------------------
(* Who is over leaves the list.                                             *)

\* A registration that is being worked on exists; one that is about to be marked as
\* unregistered has left the list, and never comes back.
WorkerListed(w) ==
  /\ pc[w] \notin {"idle", "create"} => state[cur[w]] # "none"
  /\ pc[w] = "setUnregistered" => cur[w] \notin listed

ListInv ==
  /\ \A w \in Workers : WorkerListed(w)
  /\ \A r \in listed \cup todo : state[r] # "none"
  /\ \A r \in Registrations :
       state[r] = "UNREGISTERED" => r \notin listed \/ (watchdog = "evict" /\ suspect = r)
  /\ watchdog \in {"expire", "evict"} => state[suspect] # "none"

\* A step of thread w that puts nothing on the list and marks nothing that is on it.
LEMMA NothingListed ==
  ASSUME IInv, ListInv, NEW w \in Workers, WorkerListed(w)',
         listed' \subseteq listed, UNCHANGED dogVars,
         \A u \in Workers \ {w} : pc'[u] = pc[u] /\ cur'[u] = cur[u],
         \A r \in Registrations :
           /\ state[r] # "none" => state'[r] # "none"
           /\ state'[r] = "UNREGISTERED" => state[r] = "UNREGISTERED" \/ r \notin listed'
  PROVE  ListInv'
<1>1. listed \subseteq Registrations /\ todo \subseteq Registrations
      /\ (watchdog \in {"expire", "evict"} => suspect \in Registrations)
  BY DEF IInv, TypeOK, RegType, DogType, DogInv
<1>2. ASSUME NEW u \in Workers PROVE WorkerListed(u)'
  <2>1. CASE u = w
    BY <2>1
  <2>2. CASE u # w
    <3>1. pc[u] \notin {"idle", "create"} => cur[u] \in Registrations
      BY DEF IInv, WorkerInv, WorkerOK
    <3> QED BY <2>2, <3>1 DEF ListInv, WorkerListed
  <2> QED BY <2>1, <2>2
<1>3. UNCHANGED <<todo, watchdog, suspect>>
  BY DEF dogVars
<1> QED BY <1>1, <1>2, <1>3 DEF ListInv

LEMMA NextPc ==
  ASSUME IInv, NEW w \in Workers
  PROVE  /\ \A l \in Labels : Goto(w, l) =>
              /\ pc'[w] = l /\ cur' = cur
              /\ \A u \in Workers \ {w} : pc'[u] = pc[u] /\ cur'[u] = cur[u]
         /\ Done(w) =>
              /\ pc'[w] = "idle"
              /\ \A u \in Workers \ {w} : pc'[u] = pc[u] /\ cur'[u] = cur[u]
<1>1. ThreadType
  BY DEF IInv, TypeOK
<1> QED BY <1>1, GotoType, DoneType

\* A step that leaves the states and the list alone.
LEMMA StatesKept ==
  ASSUME IInv, ListInv, NEW w \in Workers, pc[w] \notin {"idle", "create"},
         UNCHANGED <<state, listed>>, UNCHANGED dogVars,
         \/ \E l \in Labels \ {"create", "setUnregistered"} : Goto(w, l)
         \/ Done(w)
  PROVE  ListInv'
<1>1. /\ pc'[w] \in Labels \ {"create", "setUnregistered"}
      /\ cur' = cur \/ pc'[w] = "idle"
      /\ \A u \in Workers \ {w} : pc'[u] = pc[u] /\ cur'[u] = cur[u]
  BY NextPc DEF Labels
<1>2. WorkerListed(w)'
  BY <1>1 DEF ListInv, WorkerListed
<1> QED BY <1>1, <1>2, NothingListed

LEMMA QuietWorkerList ==
  ASSUME IInv, ListInv, NEW w \in Workers,
         \/ Handle(w) \/ Switch(w) \/ Unregister(w) \/ Challenge(w) \/ Refuse(w)
         \/ SetAccount(w) \/ Fill(w) \/ Refresh(w) \/ Ok(w)
  PROVE  ListInv'
<1>1. pc[w] \notin {"idle", "create"} /\ UNCHANGED <<state, listed>> /\ UNCHANGED dogVars
  BY DEF Handle, Switch, Unregister, Challenge, Refuse, SetAccount, Fill, Refresh, Ok, regVars
<1>2. \/ \E l \in {"unregister", "switch", "challenge", "restart", "refuse", "setAccount",
                   "refresh", "remove", "setChallenged", "drop", "authenticate", "ok"} : Goto(w, l)
      \/ Done(w)
  BY DEF Handle, Switch, Unregister, Challenge, Refuse, SetAccount, Fill, Refresh, Ok
<1>3. {"unregister", "switch", "challenge", "restart", "refuse", "setAccount", "refresh", "remove",
       "setChallenged", "drop", "authenticate", "ok"} \subseteq Labels \ {"create", "setUnregistered"}
  BY DEF Labels
<1> QED BY <1>1, <1>2, <1>3, StatesKept

\* A step that marks the registration of w.
LEMMA MarkingList ==
  ASSUME IInv, ListInv, NEW w \in Workers,
         SetUnregistered(w) \/ SetChallenged(w) \/ Restart(w) \/ Authenticate(w)
  PROVE  ListInv'
<1>1. pc[w] \notin {"idle", "create"} /\ UNCHANGED dogVars
  BY DEF SetUnregistered, SetChallenged, Restart, Authenticate
<1>2. cur[w] \in Registrations
  BY <1>1, Busy
<1>3. PICK v \in {"UNREGISTERED", "CHALLENGED", "STARTED", "AUTHENTICATED"} :
        /\ SetState(cur[w], v)
        /\ v = "UNREGISTERED" => cur[w] \notin listed
  BY DEF SetUnregistered, SetChallenged, Restart, Authenticate, ListInv, WorkerListed
<1>4. /\ listed' = listed
      /\ \A r \in Registrations : state'[r] = IF r = cur[w] THEN v ELSE state[r]
  BY <1>2, <1>3 DEF SetState, IInv, TypeOK, RegType
<1>5. \/ \E l \in {"switch", "handle", "fill"} : Goto(w, l)
      \/ Done(w)
  BY DEF SetUnregistered, SetChallenged, Restart, Authenticate
<1>6. {"switch", "handle", "fill"} \subseteq Labels
  BY DEF Labels
<1>7. /\ pc'[w] \in {"switch", "handle", "fill", "idle"} /\ (cur' = cur \/ pc'[w] = "idle")
      /\ \A u \in Workers \ {w} : pc'[u] = pc[u] /\ cur'[u] = cur[u]
  BY <1>5, <1>6, NextPc
<1>8. WorkerListed(w)'
  BY <1>2, <1>4, <1>7 DEF WorkerListed
<1>9. \A r \in Registrations :
        /\ state[r] # "none" => state'[r] # "none"
        /\ state'[r] = "UNREGISTERED" => state[r] = "UNREGISTERED" \/ r \notin listed'
  BY <1>3, <1>4
<1> QED BY <1>1, <1>4, <1>7, <1>8, <1>9, NothingListed

LEMMA DelistingList ==
  ASSUME IInv, ListInv, NEW w \in Workers, Drop(w) \/ Remove(w) PROVE ListInv'
<1>1. /\ pc[w] \in {"drop", "remove"} /\ UNCHANGED dogVars
      /\ listed' = listed \ {cur[w]} /\ UNCHANGED state
  BY DEF Drop, Remove, Delist
<1>2. Goto(w, "setUnregistered") \/ Done(w)
  BY DEF Drop, Remove
<1>3. "setUnregistered" \in Labels
  BY DEF Labels
<1>4. /\ pc'[w] \in {"setUnregistered", "idle"} /\ (cur' = cur \/ pc'[w] = "idle")
      /\ \A u \in Workers \ {w} : pc'[u] = pc[u] /\ cur'[u] = cur[u]
  BY <1>2, <1>3, NextPc
<1>5. WorkerListed(w)'
  BY <1>1, <1>4 DEF ListInv, WorkerListed
<1> QED BY <1>1, <1>4, <1>5, NothingListed

LEMMA LookupList ==
  ASSUME IInv, ListInv, NEW w \in Workers, NEW m \in net, Lookup(w, m) PROVE ListInv'
<1>1. UNCHANGED <<state, listed>> /\ UNCHANGED dogVars
  BY DEF Lookup, regVars
<1>2. \/ \E r \in listed : cur' = [cur EXCEPT ![w] = r] /\ pc' = [pc EXCEPT ![w] = "handle"]
      \/ pc' = [pc EXCEPT ![w] = "create"] /\ UNCHANGED cur
  BY DEF Lookup, IsFirst
<1>3. ThreadType
  BY DEF IInv, TypeOK
<1>4. /\ WorkerListed(w)'
      /\ \A u \in Workers \ {w} : pc'[u] = pc[u] /\ cur'[u] = cur[u]
  BY <1>1, <1>2, <1>3 DEF ThreadType, ListInv, WorkerListed
<1> QED BY <1>1, <1>4, NothingListed

\* A registration that joins the list has not existed before.
LEMMA CreateList ==
  ASSUME IInv, ListInv, NEW w \in Workers, Create(w) PROVE ListInv'
<1>1. PICK r \in Registrations :
        /\ state[r] = "none" /\ state' = [state EXCEPT ![r] = "STARTED"]
        /\ listed' = listed \cup {r} /\ cur' = [cur EXCEPT ![w] = r]
  BY DEF Create
<1>2. pc' = [pc EXCEPT ![w] = "handle"] /\ UNCHANGED <<todo, watchdog, suspect>>
  BY DEF Create, dogVars
<1>3. \A q \in Registrations : state'[q] = IF q = r THEN "STARTED" ELSE state[q]
  BY <1>1 DEF IInv, TypeOK, RegType
<1>4. ASSUME NEW u \in Workers PROVE WorkerListed(u)'
  <2>1. pc[u] \notin {"idle", "create"} => cur[u] \in Registrations
    BY DEF IInv, WorkerInv, WorkerOK
  <2>2. CASE u = w
    BY <1>1, <1>2, <1>3, <2>2 DEF IInv, TypeOK, ThreadType, WorkerListed
  <2>3. CASE u # w
    <3>1. pc'[u] = pc[u] /\ cur'[u] = cur[u]
      BY <1>1, <1>2, <2>3 DEF IInv, TypeOK, ThreadType
    <3>2. pc[u] \notin {"idle", "create"} => cur[u] # r
      BY <1>1 DEF ListInv, WorkerListed
    <3> QED BY <1>1, <1>3, <2>1, <3>1, <3>2 DEF ListInv, WorkerListed
  <2> QED BY <2>2, <2>3
<1>5. listed \subseteq Registrations /\ todo \subseteq Registrations
      /\ (watchdog \in {"expire", "evict"} => suspect \in Registrations)
  BY DEF IInv, TypeOK, RegType, DogType, DogInv
<1>6. \A q \in listed' \cup todo' : state'[q] # "none"
  BY <1>1, <1>2, <1>3, <1>5 DEF ListInv
<1>7. \A q \in Registrations :
        state'[q] = "UNREGISTERED" => q \notin listed' \/ (watchdog' = "evict" /\ suspect' = q)
  BY <1>1, <1>2, <1>3 DEF ListInv
<1>8. watchdog' \in {"expire", "evict"} => state'[suspect'] # "none"
  BY <1>2, <1>3, <1>5 DEF ListInv
<1> QED BY <1>4, <1>6, <1>7, <1>8 DEF ListInv

\* The watchdog marks first and delists then: it knows whom it has to.
LEMMA WatchdogList ==
  ASSUME IInv, ListInv, WatchdogStep PROVE ListInv'
<1>1. UNCHANGED <<pc, cur>> /\ listed \subseteq Registrations
  BY DEF WatchdogStep, Wake, Check, Expire, Evict, IInv, TypeOK, RegType
<1>2. CASE Wake
  BY <1>1, <1>2 DEF Wake, regVars, ListInv, WorkerListed
<1>3. CASE Check
  <2>1. UNCHANGED <<state, listed>> /\ todo' \subseteq todo /\ watchdog = "check"
        /\ (watchdog' \in {"expire", "evict"} => suspect' \in todo)
    BY <1>3 DEF Check, regVars
  <2> QED BY <1>1, <2>1 DEF ListInv, WorkerListed
<1>4. CASE Expire
  <2>1. suspect \in Registrations /\ state[suspect] # "none" /\ suspect' = suspect /\ watchdog' = "evict"
        /\ listed' = listed /\ todo' = todo /\ watchdog = "expire"
    BY <1>4 DEF Expire, IInv, DogInv, ListInv, SetState
  <2>2. \A r \in Registrations : state'[r] = IF r = suspect THEN "UNREGISTERED" ELSE state[r]
    BY <1>4 DEF Expire, SetState, IInv, TypeOK, RegType
  <2>3. \A w \in Workers : WorkerListed(w)'
    <3> SUFFICES ASSUME NEW w \in Workers PROVE WorkerListed(w)'
      OBVIOUS
    <3>1. pc[w] \notin {"idle", "create"} => cur[w] \in Registrations
      BY DEF IInv, WorkerInv, WorkerOK
    <3> QED BY <1>1, <2>1, <2>2, <3>1 DEF ListInv, WorkerListed
  <2>4. todo \subseteq Registrations
    BY DEF IInv, TypeOK, DogType
  <2> QED BY <1>1, <2>1, <2>2, <2>3, <2>4 DEF ListInv
<1>5. CASE Evict
  <2>1. /\ watchdog' = "check" /\ watchdog = "evict" /\ listed' = listed \ {suspect}
        /\ UNCHANGED <<state, todo>>
    BY <1>5 DEF Evict, Delist
  <2> QED BY <1>1, <2>1 DEF ListInv, WorkerListed
<1> QED BY <1>2, <1>3, <1>4, <1>5 DEF WatchdogStep

LEMMA InitList == Init => ListInv
BY DEF Init, ListInv, WorkerListed

LEMMA NextList == IInv /\ ListInv /\ [Next]_vars => ListInv'
<1> SUFFICES ASSUME IInv, ListInv, [Next]_vars PROVE ListInv'
  OBVIOUS
<1>1. CASE UserAgents \/ Tick \/ UNCHANGED vars
  <2>1. UNCHANGED <<state, listed, pc, cur, watchdog, todo, suspect>>
    BY <1>1 DEF UserAgents, Registers, Retransmits, Tick, vars, regVars, dogVars
  <2> QED BY <2>1 DEF ListInv, WorkerListed
<1>2. CASE \E w \in Workers, m \in net : Lookup(w, m)
  BY <1>2, LookupList
<1>3. CASE \E w \in Workers : WorkerStep(w)
  BY <1>3, CreateList, DelistingList, MarkingList, QuietWorkerList DEF WorkerStep
<1>4. CASE WatchdogStep
  BY <1>4, WatchdogList
<1> QED BY <1>1, <1>2, <1>3, <1>4 DEF Next

\* A registration that was unregistered or has timed out has left the list once nobody
\* works on it (SipRegistration.java:179-197), for any number of threads beside the
\* watchdog: none of them puts a registration back.
THEOREM UnregisteredLeaves == Spec => []UnregisteredLeavesList
<1>1. ListInv => UnregisteredLeavesList
  BY DEF ListInv, UnregisteredLeavesList, Quiescent
<1>2. Spec => []ListInv
  BY InitList, NextList, AlwaysIInv, PTL DEF Spec
<1> QED BY <1>1, <1>2, PTL

------------------------------------------------------------------------------
(* Requests of a user one after the other.                                  *)
(*                                                                          *)
(* Two threads with requests of one user make two registrations of it (both *)
(* find none).  Otherwise a message finds the registration of its user or   *)
(* there is none: the name, once it is known, keeps the registrations of    *)
(* the users apart, and the threads that work on them.                      *)

Apart == \A v, w \in Workers :
           req[v] # NoMsg /\ req[w] # NoMsg /\ req[v].user = req[w].user => v = w

LEMMA ApartFacts ==
  ASSUME IInv, Apart, NEW v \in Workers, NEW w \in Workers, v # w,
         pc[v] # "idle", pc[w] # "idle"
  PROVE  req[v].user # req[w].user
BY ConstantsAssumption DEF Apart, IInv, WorkerInv, WorkerOK

\* Thread w has found or made the registration it works on.
Working(w) == pc[w] \notin {"idle", "create"}

Named(w) ==
  /\ Working(w) => username[cur[w]] \in {NoUser, req[w].user}
  /\ pc[w] \in {"setChallenged", "setAccount"} => username[cur[w]] = req[w].user
  /\ pc[w] # "idle" => \A r \in listed :
       username[r] = req[w].user => Working(w) /\ r = cur[w]

NameInv ==
  /\ \A r \in Registrations :
       /\ account[r] # NoUser => account[r] = username[r]
       /\ state[r] = "none" => username[r] = NoUser
       /\ state[r] = "CHALLENGED" => username[r] # NoUser
  /\ \A w \in Workers : Named(w)
  /\ \A v, w \in Workers : Working(v) /\ Working(w) /\ cur[v] = cur[w] => v = w
  /\ OneRegistrationPerUser

\* What a thread does fits the state of its registration, which nobody but the
\* watchdog changes beside it, and the kind of the message.
StageOf(w) ==
  /\ pc[w] \in {"challenge", "setChallenged"} => state[cur[w]] = "STARTED"
  /\ pc[w] \in {"restart", "refuse", "drop", "setAccount", "authenticate"} =>
       state[cur[w]] = "CHALLENGED"
  /\ pc[w] = "fill" => state[cur[w]] \in {"AUTHENTICATED", "UNREGISTERED"}
  /\ pc[w] \in {"refresh", "ok"} => contacts[cur[w]] = {username[cur[w]]}
  /\ pc[w] = "ok" => username[cur[w]] = req[w].user
  /\ pc[w] \in {"unregister", "remove", "setUnregistered"} => req[w].kind = "ZERO"
  /\ pc[w] # "idle" /\ req[w].kind = "ZERO" =>
       \/ pc[w] \in {"create", "handle", "unregister", "remove", "setUnregistered"}
       \/ pc[w] = "switch" /\ state[cur[w]] = "UNREGISTERED"
  /\ Working(w) /\ pc[w] # "setUnregistered" =>
       cur[w] \in listed \/ state[cur[w]] = "UNREGISTERED"

StageInv ==
  /\ \A w \in Workers : StageOf(w)
  /\ \A r \in Registrations :
       /\ state[r] \in {"none", "STARTED", "CHALLENGED"} => contacts[r] = {} /\ expire[r] = NoTime
       /\ state[r] = "AUTHENTICATED" =>
            \/ contacts[r] = {username[r]}
            \/ \E w \in Workers : pc[w] = "fill" /\ cur[w] = r
       /\ contacts[r] \subseteq {username[r]}
  /\ watchdog \in {"expire", "evict"} => expire[suspect] # NoTime
  /\ watchdog = "evict" => state[suspect] = "UNREGISTERED"

\* The messages of a user agent come one transaction after the other.
Last(u, n) == ~\E m \in sent : m.user = u /\ m.seq > n

MessageInv ==
  /\ net \subseteq sent
  /\ \A w \in Workers : pc[w] # "idle" => req[w] \in sent /\ Last(req[w].user, req[w].seq)
  /\ \A m \in net : Last(m.user, m.seq)
  /\ \A m, d \in sent : m.user = d.user /\ m.seq = d.seq => m.kind = d.kind
  /\ \A m \in sent :
       /\ answer[m.user][m.seq] = "GONE" => m.kind = "ZERO"
       /\ answer[m.user][m.seq] = "OK" => m.kind # "ZERO"
       /\ \A j \in Seqs : j < m.seq => \E d \in sent : d.user = m.user /\ d.seq = j
  /\ \A u \in Users, n \in Seqs : answer[u][n] # "none" => \E m \in sent : m.user = u /\ m.seq = n

\* A user agent that was told that it is gone has left the list, or is about to.
GoneInv ==
  \A u \in Users, n \in Seqs : answer[u][n] = "GONE" /\ Last(u, n) =>
    \A r \in listed : username[r] = u => \E w \in Workers : pc[w] = "remove" /\ cur[w] = r

\* The registrations are created in the order of their numbers, and the one a user
\* agent is found by is the youngest that has its contacts.
OrderInv ==
  /\ \A p, q \in Registrations : p < q /\ state[p] = "none" => state[q] = "none"
  /\ \A r \in listed, q \in Registrations :
       username[r] # NoUser /\ username[r] \in contacts[q] => q <= r
  /\ \A w \in Workers, q \in Registrations :
       Working(w) /\ req[w].user \in contacts[q] => q <= cur[w]

\* What AnsweredIsReachable says of a user agent.
Reachable(u) ==
  \E r \in Registrations :
    /\ u \in contacts[r]
    /\ \A q \in Registrations : u \in contacts[q] => q <= r
    /\ r \in listed \/ state[r] = "UNREGISTERED"

\* After its 200 it stays so until the next transaction: a copy of the REGISTER gets
\* no response, and so does not get anything started.
FoundInv ==
  \A u \in Users, n \in Seqs : answer[u][n] = "OK" /\ Last(u, n) =>
    /\ Reachable(u)
    /\ \A r \in listed : username[r] = u => state[r] # "CHALLENGED"
    /\ \A w \in Workers : pc[w] # "idle" /\ req[w].user = u =>
         pc[w] \in {"create", "handle", "switch", "challenge", "refresh", "ok"}

\* The other threads stay where they are.
OthersStay(w) ==
  \A v \in Workers \ {w} : pc'[v] = pc[v] /\ cur'[v] = cur[v] /\ req'[v] = req[v]

\* A thread's own steps, but for the creation of a registration, move it on in its
\* work or end it, and put nothing on the list.
Moves(w) ==
  /\ Working(w) /\ listed' \subseteq listed /\ OthersStay(w)
  /\ \/ pc'[w] \in Labels \ {"idle", "create"} /\ cur'[w] = cur[w] /\ req'[w] = req[w]
     \/ pc'[w] = "idle"

WorkTypes(w) ==
  /\ req[w] \in Messages /\ req[w].user \in Users /\ req[w].seq \in Seqs
  /\ cur[w] \in Registrations /\ state[cur[w]] # "none"
  /\ state \in [Registrations -> States]
  /\ username \in [Registrations -> Users \cup {NoUser}]
  /\ account \in [Registrations -> Users \cup {NoUser}]
  /\ contacts \in [Registrations -> SUBSET Users]
  /\ expire \in [Registrations -> {-1, Expiry, NoTime}]
  /\ listed \subseteq Registrations

LEMMA Worked ==
  ASSUME IInv, ListInv, NEW w \in Workers, Working(w)
  PROVE  WorkTypes(w)
<1>1. req[w] \in Messages /\ cur[w] \in Registrations /\ state[cur[w]] # "none"
  BY Busy DEF Working, ListInv, WorkerListed
<1>2. req[w].user \in Users /\ req[w].seq \in Seqs
  BY <1>1, MessageFields
<1> QED BY <1>1, <1>2 DEF WorkTypes, IInv, TypeOK, RegType

LEMMA Moving ==
  ASSUME IInv, NEW w \in Workers, WorkerStep(w), ~Create(w)
  PROVE  Moves(w)
<1>1. Working(w) /\ listed' \subseteq listed
  BY DEF WorkerStep, Drop, Handle, Switch, Unregister, Remove, SetUnregistered, Challenge,
         SetChallenged, Restart, Refuse, SetAccount, Authenticate, Fill, Refresh, Ok,
         regVars, Delist, SetState, Working
<1>2. \/ \E l \in Labels \ {"idle", "create"} : Goto(w, l)
      \/ Done(w)
  BY DEF WorkerStep, Drop, Handle, Switch, Unregister, Remove, SetUnregistered, Challenge,
         SetChallenged, Restart, Refuse, SetAccount, Authenticate, Fill, Refresh, Ok, Labels
<1>3. ThreadType
  BY DEF IInv, TypeOK
<1>4. CASE Done(w)
  BY <1>1, <1>3, <1>4, DoneType DEF Moves, OthersStay
<1>5. ASSUME NEW l \in Labels \ {"idle", "create"}, Goto(w, l) PROVE Moves(w)
  <2>1. pc'[w] = l /\ cur' = cur /\ req' = req
    BY <1>3, <1>5, GotoType
  <2>2. \A v \in Workers \ {w} : pc'[v] = pc[v]
    BY <1>3, <1>5, GotoType
  <2> QED BY <1>1, <2>1, <2>2 DEF Moves, OthersStay
<1> QED BY <1>2, <1>4, <1>5

------------------------------------------------------------------------------
(* Names.                                                                   *)

LEMMA NameMoves ==
  ASSUME Apart, IInv, NameInv, NEW w \in Workers, Moves(w), WorkTypes(w),
         pc'[w] \in {"setChallenged", "setAccount"} => username'[cur[w]] = req[w].user,
         \A r \in Registrations :
           /\ \/ username'[r] = username[r]
              \/ r = cur[w] /\ username'[r] = req[w].user /\ state'[r] # "none"
           /\ account'[r] = account[r] \/ account'[r] = username'[r]
           /\ state'[r] = "none" => state[r] = "none"
           /\ state'[r] = "CHALLENGED" => state[r] = "CHALLENGED" \/ username'[r] # NoUser
  PROVE  NameInv'
<1>1. ASSUME NEW v \in Workers, v # w PROVE Named(v)'
  <2>1. Named(v) /\ pc'[v] = pc[v] /\ cur'[v] = cur[v] /\ req'[v] = req[v]
    BY <1>1 DEF NameInv, Moves, OthersStay
  <2>2. Working(v) => cur[v] \in Registrations /\ cur[v] # cur[w]
    BY <1>1 DEF NameInv, Moves, IInv, WorkerInv, WorkerOK, Working
  <2>3. pc[v] # "idle" => req[v].user # req[w].user
    BY <1>1, ApartFacts DEF Moves, Working
  <2> QED BY <2>1, <2>2, <2>3 DEF Named, Working, Moves, WorkTypes
<1>2. Named(w)
  BY DEF NameInv
<1>3. NoUser \notin Users
  BY ConstantsAssumption
<1>4. \A r \in listed' : username'[r] = req[w].user => r = cur[w]
  BY <1>2 DEF Named, Moves, Working, WorkTypes
<1>5. Named(w)'
  BY <1>2, <1>3, <1>4 DEF Named, Moves, Working, WorkTypes
<1>6. \A r \in Registrations :
        /\ account'[r] # NoUser => account'[r] = username'[r]
        /\ state'[r] = "none" => username'[r] = NoUser
        /\ state'[r] = "CHALLENGED" => username'[r] # NoUser
  <2> SUFFICES ASSUME NEW r \in Registrations
               PROVE  /\ account'[r] # NoUser => account'[r] = username'[r]
                      /\ state'[r] = "none" => username'[r] = NoUser
                      /\ state'[r] = "CHALLENGED" => username'[r] # NoUser
    OBVIOUS
  <2>1. /\ account[r] # NoUser => account[r] = username[r]
        /\ state[r] = "none" => username[r] = NoUser
        /\ state[r] = "CHALLENGED" => username[r] # NoUser
    BY DEF NameInv
  <2>2. username[cur[w]] \in {NoUser, req[w].user}
    BY <1>2 DEF Named, Moves
  <2> QED BY <1>3, <2>1, <2>2 DEF WorkTypes
<1>7. OneRegistrationPerUser'
  <2> SUFFICES ASSUME NEW r \in listed', NEW s \in listed',
                      username'[r] = username'[s], username'[r] # NoUser
               PROVE  r = s
    BY DEF OneRegistrationPerUser
  <2>1. r \in listed /\ s \in listed /\ r \in Registrations /\ s \in Registrations
    BY DEF Moves, WorkTypes
  <2>2. CASE username'[r] = req[w].user
    BY <1>4, <2>2
  <2>3. CASE username'[r] # req[w].user
    <3>1. username[r] = username[s] /\ username[r] # NoUser
      BY <2>1, <2>3
    <3> QED BY <2>1, <3>1 DEF NameInv, OneRegistrationPerUser
  <2> QED BY <2>2, <2>3
<1>8. \A u, v \in Workers : Working(u)' /\ Working(v)' /\ cur'[u] = cur'[v] => u = v
  BY DEF NameInv, Moves, OthersStay, Working
<1> QED BY <1>1, <1>5, <1>6, <1>7, <1>8 DEF NameInv

LEMMA NameWorks ==
  ASSUME Apart, IInv, ListInv, NameInv, NEW w \in Workers, WorkerStep(w), ~Create(w)
  PROVE  NameInv'
<1>1. Moves(w) /\ WorkTypes(w)
  BY Moving, Worked DEF Moves
<1>2. ThreadType /\ Named(w)
  BY DEF IInv, TypeOK, NameInv
<1>3. pc'[w] \in {"setChallenged", "setAccount"} => username'[cur[w]] = req[w].user
  <2>1. CASE Challenge(w)
    BY <1>1, <2>1 DEF Challenge, WorkTypes
  <2>2. CASE Switch(w)
    <3>1. username[cur[w]] = NoUser => state[cur[w]] # "CHALLENGED"
      BY <1>1 DEF NameInv, WorkTypes
    <3>2. pc'[w] = "setAccount" => state[cur[w]] = "CHALLENGED"
      BY <1>2, <2>2 DEF Switch, Goto, Done, ThreadType
    <3>3. pc'[w] # "setChallenged" /\ username' = username
      BY <1>2, <2>2 DEF Switch, Goto, Done, ThreadType, regVars
    <3> QED BY <1>1, <1>2, <3>1, <3>2, <3>3 DEF Named, Moves
  <2>3. CASE ~Challenge(w) /\ ~Switch(w)
    BY <1>2, <2>3
    DEF WorkerStep, Drop, Handle, Unregister, Remove, SetUnregistered, SetChallenged,
        Restart, Refuse, SetAccount, Authenticate, Fill, Refresh, Ok, Goto, Done, ThreadType
  <2> QED BY <2>1, <2>2, <2>3
<1>4. ASSUME NEW r \in Registrations
      PROVE  /\ \/ username'[r] = username[r]
                \/ r = cur[w] /\ username'[r] = req[w].user /\ state'[r] # "none"
             /\ account'[r] = account[r] \/ account'[r] = username'[r]
             /\ state'[r] = "none" => state[r] = "none"
             /\ state'[r] = "CHALLENGED" => state[r] = "CHALLENGED" \/ username'[r] # NoUser
  <2>1. CASE Challenge(w)
    BY <1>1, <2>1 DEF Challenge, WorkTypes
  <2>2. CASE SetAccount(w)
    BY <1>1, <1>2, <2>2 DEF SetAccount, WorkTypes, Named
  <2>3. CASE SetChallenged(w)
    <3>1. username[cur[w]] = req[w].user /\ SetState(cur[w], "CHALLENGED")
      BY <1>2, <2>3 DEF SetChallenged, Named
    <3> QED BY <1>1, <3>1, ConstantsAssumption DEF SetState, WorkTypes
  <2>4. CASE SetUnregistered(w) \/ Restart(w) \/ Authenticate(w)
    BY <1>1, <2>4 DEF SetUnregistered, Restart, Authenticate, SetState, WorkTypes
  <2>5. CASE \/ Drop(w) \/ Handle(w) \/ Switch(w) \/ Unregister(w) \/ Remove(w) \/ Refuse(w)
             \/ Fill(w) \/ Refresh(w) \/ Ok(w)
    BY <2>5 DEF Drop, Handle, Switch, Unregister, Remove, Refuse, Fill, Refresh, Ok,
                Delist, regVars
  <2> QED BY <2>1, <2>2, <2>3, <2>4, <2>5 DEF WorkerStep
<1> QED BY <1>1, <1>3, <1>4, NameMoves

LEMMA NameLookup ==
  ASSUME Apart', IInv, NameInv, NEW w \in Workers, NEW m \in net, Lookup(w, m)
  PROVE  NameInv'
<1>1. /\ m.user \in Users /\ NoUser \notin Users /\ listed \subseteq Registrations
      /\ UNCHANGED <<state, username, account, listed>>
  BY MessageFields, ConstantsAssumption DEF Lookup, IInv, TypeOK, NetType, RegType, regVars
<1>2. req'[w] = m /\ pc[w] = "idle" /\ OthersStay(w)
  BY DEF Lookup, OthersStay, IInv, TypeOK, ThreadType
<1>6. \A v \in Workers : v # w => Named(v)'
  BY <1>1, <1>2 DEF OthersStay, NameInv, Named, Working
<1>7. ASSUME NEW v \in Workers, v # w, Working(v) PROVE req[v].user # m.user
  <2>1. req[v] # NoMsg /\ m # NoMsg
    BY <1>7, ConstantsAssumption DEF Working, IInv, WorkerInv, WorkerOK, TypeOK, NetType
  <2> QED BY <1>2, <1>7, <2>1 DEF Apart, OthersStay
<1>3. \A r \in listed : username[r] = m.user <=> Key(r) = m.user
  BY <1>1 DEF Key, NameInv
<1>4. CASE \E r \in listed : /\ Key(r) = m.user /\ cur' = [cur EXCEPT ![w] = r]
                             /\ pc' = [pc EXCEPT ![w] = "handle"]
  <2>1. PICK r \in listed : /\ Key(r) = m.user /\ cur' = [cur EXCEPT ![w] = r]
                            /\ pc' = [pc EXCEPT ![w] = "handle"]
    BY <1>4
  <2>2. cur'[w] = r /\ pc'[w] = "handle" /\ username[r] = m.user
    BY <1>3, <2>1 DEF IInv, TypeOK, ThreadType
  <2>3. \A s \in listed : username[s] = m.user => s = r
    BY <1>1, <2>2 DEF NameInv, OneRegistrationPerUser
  <2>4. Named(w)'
    BY <1>1, <1>2, <2>2, <2>3 DEF Named, Working
  <2>5. ASSUME NEW v \in Workers, v # w, Working(v) PROVE cur[v] # r
    <3>1. username[cur[v]] \in {NoUser, req[v].user} /\ req[v].user # m.user
      BY <1>7, <2>5 DEF NameInv, Named
    <3> QED BY <1>1, <2>2, <3>1
  <2>6. \A u, v \in Workers : Working(u)' /\ Working(v)' /\ cur'[u] = cur'[v] => u = v
    BY <1>2, <2>2, <2>5 DEF NameInv, OthersStay, Working
  <2> QED BY <1>1, <1>6, <2>4, <2>6 DEF NameInv, OneRegistrationPerUser
<1>5. CASE {r \in listed : Key(r) = m.user} = {} /\ pc' = [pc EXCEPT ![w] = "create"]
  <2>1. pc'[w] = "create" /\ \A r \in listed : username[r] # m.user
    BY <1>3, <1>5 DEF IInv, TypeOK, ThreadType
  <2>2. Named(w)'
    BY <1>1, <1>2, <2>1 DEF Named, Working
  <2>3. \A u, v \in Workers : Working(u)' /\ Working(v)' /\ cur'[u] = cur'[v] => u = v
    BY <1>2, <2>1 DEF NameInv, OthersStay, Working
  <2> QED BY <1>1, <1>6, <2>2, <2>3 DEF NameInv, OneRegistrationPerUser
<1> QED BY <1>4, <1>5 DEF Lookup, IsFirst

LEMMA NameCreate ==
  ASSUME IInv, ListInv, NameInv, NEW w \in Workers, Create(w)
  PROVE  NameInv'
<1>1. PICK r \in Registrations :
        /\ state[r] = "none" /\ state' = [state EXCEPT ![r] = "STARTED"]
        /\ listed' = listed \cup {r} /\ cur' = [cur EXCEPT ![w] = r]
  BY DEF Create
<1>2. /\ OthersStay(w)
      /\ pc[w] = "create" /\ UNCHANGED <<username, account, req>>
      /\ cur'[w] = r /\ pc'[w] = "handle"
      /\ \A q \in Registrations : state'[q] = IF q = r THEN "STARTED" ELSE state[q]
      /\ username[r] = NoUser
  BY <1>1 DEF OthersStay, Create, IInv, TypeOK, ThreadType, RegType, NameInv
<1>3. req[w].user # NoUser /\ listed \subseteq Registrations
  BY <1>2, Busy, MessageFields, ConstantsAssumption DEF IInv, TypeOK, RegType
<1>4. Named(w)'
  <2>1. Named(w)
    BY DEF NameInv
  <2> QED BY <1>1, <1>2, <1>3, <2>1 DEF Named, Working
<1>5. OneRegistrationPerUser'
  BY <1>1, <1>2, <1>3 DEF NameInv, OneRegistrationPerUser
<1>6. \A v \in Workers : Working(v) => cur[v] # r /\ v # w
  BY <1>1, <1>2 DEF ListInv, WorkerListed, Working
<1>7. ASSUME NEW v \in Workers, v # w PROVE Named(v)'
  <2>1. Named(v) /\ pc'[v] = pc[v] /\ cur'[v] = cur[v] /\ req'[v] = req[v]
    BY <1>2, <1>7 DEF NameInv, OthersStay
  <2>2. pc[v] # "idle" => req[v].user # NoUser
    BY Busy, MessageFields, ConstantsAssumption
  <2> QED BY <1>1, <1>2, <2>1, <2>2 DEF Named, Working
<1>8. \A u, v \in Workers : Working(u)' /\ Working(v)' /\ cur'[u] = cur'[v] => u = v
  BY <1>2, <1>6 DEF NameInv, OthersStay, Working
<1> QED BY <1>2, <1>4, <1>5, <1>7, <1>8 DEF NameInv

\* Nobody else touches the names: the watchdog only marks and delists.
LEMMA NameElse ==
  ASSUME IInv, NameInv, UserAgents \/ WatchdogStep \/ Tick \/ UNCHANGED vars
  PROVE  NameInv'
<1>1. /\ UNCHANGED <<username, account, pc, cur, req>> /\ listed' \subseteq listed
      /\ listed \subseteq Registrations
  BY DEF UserAgents, Registers, Retransmits, WatchdogStep, Wake, Check, Expire, Evict, Tick,
         vars, regVars, SetState, Delist, IInv, TypeOK, RegType
<1>2. \A r \in Registrations : state'[r] \in {"none", "CHALLENGED"} => state'[r] = state[r]
  <2>1. CASE Expire
    BY <2>1 DEF Expire, SetState, IInv, TypeOK, RegType
  <2>2. CASE ~Expire
    BY <2>2 DEF UserAgents, Registers, Retransmits, WatchdogStep, Wake, Check, Evict, Tick,
                vars, regVars, Delist
  <2> QED BY <2>1, <2>2
<1>3. \A w \in Workers : Named(w)'
  BY <1>1 DEF NameInv, Named, Working
<1>4. \A u, v \in Workers : Working(u)' /\ Working(v)' /\ cur'[u] = cur'[v] => u = v
  BY <1>1 DEF NameInv, Working
<1>5. OneRegistrationPerUser'
  BY <1>1, <1>2 DEF NameInv, OneRegistrationPerUser
<1> QED BY <1>1, <1>2, <1>3, <1>4, <1>5 DEF NameInv

LEMMA InitName == Init => NameInv
BY DEF Init, NameInv, Named, Working, OneRegistrationPerUser

LEMMA NextName ==
  ASSUME Apart, Apart', IInv, ListInv, NameInv, [Next]_vars
  PROVE  NameInv'
<1>1. CASE \E w \in Workers, m \in net : Lookup(w, m)
  BY <1>1, NameLookup
<1>2. CASE \E w \in Workers : WorkerStep(w)
  BY <1>2, NameWorks, NameCreate
<1>3. CASE UserAgents \/ WatchdogStep \/ Tick \/ UNCHANGED vars
  BY <1>3, NameElse
<1> QED BY <1>1, <1>2, <1>3 DEF Next

LEMMA AlwaysListed == Spec => [](IInv /\ ListInv)
BY InitList, NextList, AlwaysIInv, PTL DEF Spec

\* While no two requests of one user are in hand at once, a user has at most one
\* registration in the list that knows its name: what getSipRegistration (SipServer.java)
\* finds before and after the authentication is the same one, for any number of users,
\* threads and transactions, whatever copies arrive and whatever the watchdog takes off
\* the list meanwhile.
THEOREM OneEach == Spec /\ []Apart => []OneRegistrationPerUser
<1>1. Apart /\ Apart' /\ IInv /\ ListInv /\ NameInv /\ [Next]_vars => NameInv'
  BY NextName
<1>2. NameInv => OneRegistrationPerUser
  BY DEF NameInv
<1> QED BY <1>1, <1>2, AlwaysListed, InitName, PTL DEF Spec

------------------------------------------------------------------------------
(* Stages.                                                                  *)

LEMMA StageMoves ==
  ASSUME IInv, NameInv, StageInv, NEW w \in Workers, Moves(w), WorkTypes(w), UNCHANGED dogVars,
         StageOf(w)',
         \A r \in Registrations \ {cur[w]} :
           /\ state'[r] = state[r] /\ contacts'[r] = contacts[r]
           /\ expire'[r] = expire[r] /\ username'[r] = username[r]
           /\ r \in listed => r \in listed',
         state'[cur[w]] \in {"none", "STARTED", "CHALLENGED"} =>
           contacts'[cur[w]] = {} /\ expire'[cur[w]] = NoTime,
         state'[cur[w]] = "AUTHENTICATED" =>
           contacts'[cur[w]] = {username'[cur[w]]} \/ pc'[w] = "fill",
         contacts'[cur[w]] \subseteq {username'[cur[w]]},
         expire[cur[w]] # NoTime => expire'[cur[w]] # NoTime,
         state[cur[w]] = "UNREGISTERED" => state'[cur[w]] = "UNREGISTERED"
  PROVE  StageInv'
<1>1. ASSUME NEW v \in Workers, v # w
      PROVE  StageOf(v)' /\ pc'[v] = pc[v] /\ cur'[v] = cur[v]
  <2>1. StageOf(v) /\ pc'[v] = pc[v] /\ cur'[v] = cur[v] /\ req'[v] = req[v]
    BY <1>1 DEF StageInv, Moves, OthersStay
  <2>2. Working(v) => cur[v] \in Registrations \ {cur[w]}
    BY <1>1 DEF NameInv, Moves, IInv, WorkerInv, WorkerOK, Working
  <2> QED BY <2>1, <2>2 DEF StageOf, Working
<1>2. ASSUME NEW r \in Registrations
      PROVE  /\ state'[r] \in {"none", "STARTED", "CHALLENGED"} =>
                  contacts'[r] = {} /\ expire'[r] = NoTime
             /\ state'[r] = "AUTHENTICATED" =>
                  \/ contacts'[r] = {username'[r]}
                  \/ \E u \in Workers : pc'[u] = "fill" /\ cur'[u] = r
             /\ contacts'[r] \subseteq {username'[r]}
  <2>1. CASE r = cur[w]
    BY <2>1 DEF Moves
  <2>2. CASE r # cur[w]
    BY <1>1, <2>2 DEF StageInv
  <2> QED BY <2>1, <2>2
<1>3. /\ watchdog' \in {"expire", "evict"} => expire'[suspect'] # NoTime
      /\ watchdog' = "evict" => state'[suspect'] = "UNREGISTERED"
  <2>1. /\ watchdog' = watchdog /\ suspect' = suspect
        /\ watchdog \in {"expire", "evict"} => suspect \in Registrations
    BY DEF dogVars, IInv, DogInv
  <2> QED BY <2>1 DEF StageInv
<1> QED BY <1>1, <1>2, <1>3 DEF StageInv

\* What thread w knows of its registration.
LEMMA StageFacts ==
  ASSUME IInv, NameInv, StageInv, NEW w \in Workers, WorkTypes(w), Working(w)
  PROVE  /\ StageOf(w) /\ Named(w) /\ ThreadType
         /\ state[cur[w]] \in {"none", "STARTED", "CHALLENGED"} =>
              contacts[cur[w]] = {} /\ expire[cur[w]] = NoTime
         /\ state[cur[w]] = "AUTHENTICATED" =>
              contacts[cur[w]] = {username[cur[w]]} \/ pc[w] = "fill"
         /\ contacts[cur[w]] \subseteq {username[cur[w]]}
         /\ pc[w] \in {"authenticate", "fill", "refresh"} =>
              account[cur[w]] = req[w].user /\ username[cur[w]] = req[w].user
<1>1. \A u \in Workers : pc[u] = "fill" /\ cur[u] = cur[w] => u = w
  BY DEF NameInv, Working
<1>2. /\ Named(w)
      /\ account[cur[w]] # NoUser => account[cur[w]] = username[cur[w]]
      /\ pc[w] \in {"authenticate", "fill", "refresh"} => account[cur[w]] # NoUser
  BY Busy DEF NameInv, WorkTypes, Working, Known
<1>3. pc[w] \in {"authenticate", "fill", "refresh"} =>
        account[cur[w]] = req[w].user /\ username[cur[w]] = req[w].user
  BY <1>2 DEF Named
<1>4. StageOf(w) /\ ThreadType /\ contacts[cur[w]] \subseteq {username[cur[w]]}
  BY DEF StageInv, WorkTypes, IInv, TypeOK
<1>5. state[cur[w]] \in {"none", "STARTED", "CHALLENGED"} =>
        contacts[cur[w]] = {} /\ expire[cur[w]] = NoTime
  BY DEF StageInv, WorkTypes
<1>6. state[cur[w]] = "AUTHENTICATED" => contacts[cur[w]] = {username[cur[w]]} \/ pc[w] = "fill"
  BY <1>1 DEF StageInv, WorkTypes
<1> QED BY <1>2, <1>3, <1>4, <1>5, <1>6

LEMMA StageWorks ==
  ASSUME IInv, ListInv, NameInv, StageInv, NEW w \in Workers, WorkerStep(w), ~Create(w)
  PROVE  StageInv'
<1>1. Moves(w) /\ WorkTypes(w) /\ UNCHANGED dogVars
  BY Moving, Worked
  DEF Moves, WorkerStep, Drop, Handle, Switch, Unregister, Remove, SetUnregistered, Challenge,
      SetChallenged, Restart, Refuse, SetAccount, Authenticate, Fill, Refresh, Ok
<1>2. /\ StageOf(w) /\ Named(w) /\ ThreadType
      /\ state[cur[w]] \in {"none", "STARTED", "CHALLENGED"} =>
           contacts[cur[w]] = {} /\ expire[cur[w]] = NoTime
      /\ state[cur[w]] = "AUTHENTICATED" =>
           contacts[cur[w]] = {username[cur[w]]} \/ pc[w] = "fill"
      /\ contacts[cur[w]] \subseteq {username[cur[w]]}
      /\ pc[w] \in {"authenticate", "fill", "refresh"} =>
           account[cur[w]] = req[w].user /\ username[cur[w]] = req[w].user
  BY <1>1, StageFacts DEF Moves
<1>3. CASE Handle(w) \/ Switch(w) \/ Unregister(w) \/ Refuse(w) \/ Ok(w)
  <2>1. UNCHANGED <<state, username, contacts, expire, listed>>
    BY <1>3 DEF Handle, Switch, Unregister, Refuse, Ok, regVars
  <2>2. StageOf(w)'
    BY <1>1, <1>2, <1>3, <2>1
    DEF Handle, Switch, Unregister, Refuse, Ok, Goto, Done, ThreadType, StageOf, Working, WorkTypes
  <2>3. pc[w] # "fill"
    BY <1>3 DEF Handle, Switch, Unregister, Refuse, Ok
  <2> QED BY <1>1, <1>2, <2>1, <2>2, <2>3, StageMoves
<1>4. CASE Drop(w) \/ Remove(w)
  <2>1. /\ UNCHANGED <<state, username, contacts, expire>> /\ pc[w] # "fill"
        /\ listed' = listed \ {cur[w]}
    BY <1>4 DEF Drop, Remove, Delist
  <2>2. StageOf(w)'
    BY <1>1, <1>2, <1>4, <2>1 DEF Drop, Remove, Delist, Goto, Done, ThreadType, StageOf, Working
  <2> QED BY <1>1, <1>2, <2>1, <2>2, StageMoves
<1>5. CASE SetUnregistered(w) \/ SetChallenged(w) \/ Restart(w) \/ Authenticate(w)
  <2>1. UNCHANGED <<username, contacts, expire, listed>> /\ pc[w] # "fill"
    BY <1>5 DEF SetUnregistered, SetChallenged, Restart, Authenticate, SetState
  <2>2. StageOf(w)'
    BY <1>1, <1>2, <1>5, <2>1
    DEF SetUnregistered, SetChallenged, Restart, Authenticate, SetState, Goto, Done, ThreadType,
        StageOf, Working, WorkTypes
  <2>3. /\ \A r \in Registrations \ {cur[w]} : state'[r] = state[r]
        /\ state'[cur[w]] \in {"STARTED", "CHALLENGED"} => state[cur[w]] \in {"STARTED", "CHALLENGED"}
        /\ state'[cur[w]] # "none"
        /\ state'[cur[w]] = "AUTHENTICATED" => pc'[w] = "fill"
        /\ state[cur[w]] = "UNREGISTERED" => state'[cur[w]] = "UNREGISTERED"
    BY <1>1, <1>2, <1>5
    DEF SetUnregistered, SetChallenged, Restart, Authenticate, SetState, Goto, Done, ThreadType,
        StageOf, WorkTypes
  <2> QED BY <1>1, <1>2, <2>1, <2>2, <2>3, StageMoves
<1>6. CASE Challenge(w)
  <2>1. /\ UNCHANGED <<state, contacts, expire, listed>> /\ pc[w] # "fill"
        /\ \A r \in Registrations : username'[r] = IF r = cur[w] THEN req[w].user ELSE username[r]
    BY <1>1, <1>6 DEF Challenge, WorkTypes
  <2>2. StageOf(w)'
    BY <1>1, <1>2, <1>6, <2>1 DEF Challenge, Goto, Done, ThreadType, StageOf, Working
  <2>3. state[cur[w]] = "STARTED"
    BY <1>2, <1>6 DEF Challenge, StageOf
  <2> QED BY <1>1, <1>2, <2>1, <2>2, <2>3, StageMoves DEF WorkTypes
<1>7. CASE SetAccount(w)
  <2>1. UNCHANGED <<state, username, contacts, expire, listed>> /\ pc[w] # "fill"
    BY <1>7 DEF SetAccount
  <2>2. StageOf(w)'
    BY <1>1, <1>2, <1>7, <2>1 DEF SetAccount, Goto, ThreadType, StageOf, Working
  <2> QED BY <1>1, <1>2, <2>1, <2>2, StageMoves
<1>8. CASE Fill(w) \/ Refresh(w)
  <2>1. /\ UNCHANGED <<state, username, listed>>
        /\ \A r \in Registrations \ {cur[w]} : contacts'[r] = contacts[r] /\ expire'[r] = expire[r]
        /\ contacts'[cur[w]] = {username[cur[w]]}
        /\ expire[cur[w]] # NoTime => expire'[cur[w]] # NoTime
    <3>1. CASE Fill(w)
      BY <1>1, <1>2, <3>1 DEF Fill, WorkTypes
    <3>2. CASE Refresh(w)
      BY <1>1, <1>2, <3>2, ConstantsAssumption DEF Refresh, WorkTypes, StageOf
    <3> QED BY <1>8, <3>1, <3>2
  <2>2. StageOf(w)'
    BY <1>1, <1>2, <1>8, <2>1 DEF Fill, Refresh, Goto, ThreadType, StageOf, Working
  <2>3. state[cur[w]] \notin {"none", "STARTED", "CHALLENGED"}
    BY <1>2, <1>8 DEF Fill, Refresh, StageOf
  <2> QED BY <1>1, <1>2, <2>1, <2>2, <2>3, StageMoves
<1> QED BY <1>3, <1>4, <1>5, <1>6, <1>7, <1>8 DEF WorkerStep

LEMMA StageLookup ==
  ASSUME IInv, StageInv, NEW w \in Workers, NEW m \in net, Lookup(w, m)
  PROVE  StageInv'
<1>1. /\ OthersStay(w)
      /\ pc[w] = "idle" /\ UNCHANGED regVars /\ UNCHANGED dogVars
      /\ \/ pc'[w] = "create"
         \/ pc'[w] = "handle" /\ cur'[w] \in listed
  BY DEF OthersStay, Lookup, IsFirst, IInv, TypeOK, ThreadType
<1>2. StageOf(w)'
  BY <1>1 DEF StageOf, Working, regVars
<1>3. \A v \in Workers : v # w => StageOf(v)'
  BY <1>1 DEF StageInv, StageOf, OthersStay, Working, regVars
<1> QED BY <1>1, <1>2, <1>3 DEF StageInv, OthersStay, regVars, dogVars

LEMMA StageCreate ==
  ASSUME IInv, ListInv, StageInv, NEW w \in Workers, Create(w)
  PROVE  StageInv'
<1>1. PICK r \in Registrations :
        /\ state[r] = "none" /\ state' = [state EXCEPT ![r] = "STARTED"]
        /\ listed' = listed \cup {r} /\ cur' = [cur EXCEPT ![w] = r]
  BY DEF Create
<1>2. /\ OthersStay(w)
      /\ pc[w] = "create" /\ pc'[w] = "handle" /\ cur'[w] = r
      /\ UNCHANGED <<username, account, contacts, expire, req, watchdog, suspect>>
      /\ \A q \in Registrations : state'[q] = IF q = r THEN "STARTED" ELSE state[q]
  BY <1>1 DEF OthersStay, Create, dogVars, IInv, TypeOK, ThreadType, RegType
<1>3. StageOf(w)'
  BY <1>1, <1>2 DEF StageOf, Working
<1>5. ASSUME NEW v \in Workers, v # w PROVE StageOf(v)'
  <2>1. StageOf(v) /\ pc'[v] = pc[v] /\ cur'[v] = cur[v] /\ req'[v] = req[v]
    BY <1>2, <1>5 DEF StageInv, OthersStay
  <2>2. Working(v) => cur[v] \in Registrations \ {r}
    BY <1>1 DEF ListInv, WorkerListed, IInv, WorkerInv, WorkerOK, Working
  <2> QED BY <1>1, <1>2, <2>1, <2>2 DEF StageOf, Working
<1>4. watchdog \in {"expire", "evict"} => suspect \in Registrations /\ state[suspect] # "none"
  BY DEF IInv, DogInv, ListInv
<1> QED BY <1>1, <1>2, <1>3, <1>4, <1>5 DEF StageInv, OthersStay

\* The watchdog only marks a registration that has an expiry, so none that is on its
\* way to be authenticated.
LEMMA StageWatchdog ==
  ASSUME IInv, ListInv, StageInv, WatchdogStep
  PROVE  StageInv'
<1>1. UNCHANGED <<username, contacts, expire, pc, cur, req>>
  BY DEF WatchdogStep, Wake, Check, Expire, Evict, regVars, SetState, Delist
<1>2. CASE Wake \/ Check
  <2>1. UNCHANGED <<state, listed>>
    BY <1>2 DEF Wake, Check, regVars
  <2>2. watchdog' # "evict" /\ (watchdog' = "expire" => expire[suspect'] # NoTime)
    BY <1>2 DEF Wake, Check
  <2> QED BY <1>1, <2>1, <2>2 DEF StageInv, StageOf, Working
<1>3. CASE Expire
  <2>1. /\ suspect \in Registrations /\ suspect' = suspect /\ watchdog = "expire"
        /\ expire[suspect] # NoTime /\ listed' = listed /\ watchdog' = "evict"
        /\ \A r \in Registrations : state'[r] = IF r = suspect THEN "UNREGISTERED" ELSE state[r]
    BY <1>3 DEF Expire, IInv, DogInv, StageInv, SetState, TypeOK, RegType
  <2>2. state[suspect] \notin {"none", "STARTED", "CHALLENGED"}
    BY <2>1 DEF StageInv
  <2>3. ASSUME NEW w \in Workers PROVE StageOf(w)'
    <3>1. Working(w) => cur[w] \in Registrations
      BY DEF IInv, WorkerInv, WorkerOK, Working
    <3>2. StageOf(w)
      BY DEF StageInv
    <3> QED BY <1>1, <2>1, <2>2, <3>1, <3>2 DEF StageOf, Working
  <2> QED BY <1>1, <2>1, <2>3 DEF StageInv
<1>4. CASE Evict
  <2>1. /\ watchdog' = "check" /\ listed' = listed \ {suspect} /\ UNCHANGED state
        /\ state[suspect] = "UNREGISTERED"
    BY <1>4 DEF Evict, Delist, StageInv
  <2> QED BY <1>1, <2>1 DEF StageInv, StageOf, Working
<1> QED BY <1>2, <1>3, <1>4 DEF WatchdogStep

LEMMA InitStage == Init => StageInv
BY DEF Init, StageInv, StageOf, Working

LEMMA NextStage ==
  ASSUME IInv, ListInv, NameInv, StageInv, [Next]_vars
  PROVE  StageInv'
<1>1. CASE \E w \in Workers, m \in net : Lookup(w, m)
  BY <1>1, StageLookup
<1>2. CASE \E w \in Workers : WorkerStep(w)
  BY <1>2, StageWorks, StageCreate
<1>3. CASE WatchdogStep
  BY <1>3, StageWatchdog
<1>4. CASE UserAgents \/ Tick \/ UNCHANGED vars
  <2>1. UNCHANGED <<state, username, contacts, expire, listed, pc, cur, req, watchdog, suspect>>
    BY <1>4 DEF UserAgents, Registers, Retransmits, Tick, vars, regVars, dogVars
  <2> QED BY <2>1 DEF StageInv, StageOf, Working
<1> QED BY <1>1, <1>2, <1>3, <1>4 DEF Next

------------------------------------------------------------------------------
(* Messages and answers.                                                    *)

\* The answers a step of thread w may give.
Answering(w) ==
  \A u \in Users, n \in Seqs :
    \/ answer'[u][n] = answer[u][n]
    \/ /\ u = req[w].user /\ n = req[w].seq /\ answer[u][n] = "none"
       /\ answer'[u][n] = "GONE" => pc[w] = "unregister"
       /\ answer'[u][n] = "OK" => pc[w] = "ok"

LEMMA AnsweringWorks ==
  ASSUME IInv, ListInv, NEW w \in Workers, WorkerStep(w), ~Create(w)
  PROVE  Answering(w) /\ UNCHANGED <<sent, net>>
<1>1. Working(w)
  BY Moving DEF Moves
<1>2. WorkTypes(w) /\ NetType
  BY <1>1, Worked DEF IInv, TypeOK
<1>3. ASSUME NEW a \in Answers, Reply(w, a) \/ NoReply(w),
             a = "GONE" => pc[w] = "unregister", a = "OK" => pc[w] = "ok"
      PROVE  Answering(w) /\ UNCHANGED <<sent, net>>
  <2>1. CASE Reply(w, a)
    BY <1>2, <1>3, <2>1 DEF Reply, CanReply, NetType, Answering, WorkTypes
  <2>2. CASE NoReply(w)
    BY <2>2 DEF NoReply, netVars, Answering
  <2> QED BY <1>3, <2>1, <2>2
<1>4. CASE UNCHANGED netVars
  BY <1>4 DEF netVars, Answering
<1>5. \/ UNCHANGED netVars
      \/ \E a \in Answers : /\ Reply(w, a) \/ NoReply(w)
                            /\ a = "GONE" => pc[w] = "unregister"
                            /\ a = "OK" => pc[w] = "ok"
  <2>1. Answers = {"none", "CHALLENGE", "REFUSED", "OK", "GONE"}
    BY DEF Answers
  <2>2. CASE Unregister(w)
    BY <2>1, <2>2 DEF Unregister
  <2>3. CASE Challenge(w)
    BY <2>1, <2>3 DEF Challenge
  <2>4. CASE Refuse(w)
    BY <2>1, <2>4 DEF Refuse
  <2>5. CASE Ok(w)
    BY <2>1, <2>5 DEF Ok
  <2>6. CASE ~(Unregister(w) \/ Challenge(w) \/ Refuse(w) \/ Ok(w))
    BY <2>6 DEF WorkerStep, Drop, Handle, Switch, Remove, SetUnregistered, SetChallenged,
                Restart, SetAccount, Authenticate, Fill, Refresh
  <2> QED BY <2>2, <2>3, <2>4, <2>5, <2>6
<1> QED BY <1>3, <1>4, <1>5

\* What thread w has in hand was sent, and is the last of its user.
InHandOK(w) == pc[w] # "idle" => req[w] \in sent /\ Last(req[w].user, req[w].seq)

LEMMA MessageWorks ==
  ASSUME IInv, ListInv, StageInv, MessageInv, NEW w \in Workers, WorkerStep(w)
  PROVE  MessageInv'
<1>1. /\ \A u \in Workers \ {w} : pc'[u] = pc[u] /\ req'[u] = req[u]
      /\ pc'[w] = "idle" \/ (pc[w] # "idle" /\ req'[w] = req[w])
  <2>1. CASE Create(w)
    BY <2>1 DEF Create, IInv, TypeOK, ThreadType
  <2>2. CASE ~Create(w)
    <3>1. Moves(w)
      BY <2>2, Moving
    <3>2. \/ \E l \in Labels : Goto(w, l)
          \/ Done(w)
      BY <2>2
      DEF WorkerStep, Drop, Handle, Switch, Unregister, Remove, SetUnregistered, Challenge,
          SetChallenged, Restart, Refuse, SetAccount, Authenticate, Fill, Refresh, Ok, Labels
    <3> QED BY <3>1, <3>2 DEF Goto, Done, IInv, TypeOK, ThreadType, Moves, Working
  <2> QED BY <2>1, <2>2
<1>2. Answering(w) /\ UNCHANGED <<sent, net>>
  <2>1. CASE Create(w)
    BY <2>1 DEF Create, netVars, Answering
  <2> QED BY <2>1, AnsweringWorks
<1>3. \A u \in Workers : InHandOK(u)'
  BY <1>1, <1>2 DEF MessageInv, InHandOK, Last
<1>4. ASSUME NEW m \in sent, answer'[m.user][m.seq] # answer[m.user][m.seq]
      PROVE  /\ answer'[m.user][m.seq] = "GONE" => m.kind = "ZERO"
             /\ answer'[m.user][m.seq] = "OK" => m.kind # "ZERO"
  <2>1. m.user \in Users /\ m.seq \in Seqs
    BY MessageFields DEF IInv, TypeOK, NetType
  <2>2. /\ m.user = req[w].user /\ m.seq = req[w].seq
        /\ answer'[m.user][m.seq] = "GONE" => pc[w] = "unregister"
        /\ answer'[m.user][m.seq] = "OK" => pc[w] = "ok"
    BY <1>2, <1>4, <2>1 DEF Answering
  <2>3. pc[w] # "idle" => req[w] \in sent /\ req[w].kind = m.kind
    BY <2>2 DEF MessageInv
  <2>4. StageOf(w)
    BY DEF StageInv
  <2> QED BY <2>2, <2>3, <2>4 DEF StageOf
<1>5. ASSUME NEW u \in Users, NEW n \in Seqs, answer'[u][n] # "none"
      PROVE  \E m \in sent : m.user = u /\ m.seq = n
  <2>1. CASE answer'[u][n] = answer[u][n]
    BY <1>5, <2>1 DEF MessageInv
  <2>2. CASE answer'[u][n] # answer[u][n]
    <3>1. u = req[w].user /\ n = req[w].seq
      BY <1>2, <2>2 DEF Answering
    <3>2. pc[w] # "idle"
      BY DEF WorkerStep, Create, Drop, Handle, Switch, Unregister, Remove, SetUnregistered,
             Challenge, SetChallenged, Restart, Refuse, SetAccount, Authenticate, Fill, Refresh, Ok
    <3> QED BY <3>1, <3>2 DEF MessageInv
  <2> QED BY <2>1, <2>2
<1> QED BY <1>2, <1>3, <1>4, <1>5 DEF MessageInv, InHandOK, Last

LEMMA MessageLookup ==
  ASSUME IInv, MessageInv, NEW w \in Workers, NEW m \in net, Lookup(w, m)
  PROVE  MessageInv'
<1>1. /\ net' = net \ {m} /\ UNCHANGED <<answer, sent>>
      /\ req'[w] = m /\ \A u \in Workers \ {w} : pc'[u] = pc[u] /\ req'[u] = req[u]
  BY DEF Lookup, IInv, TypeOK, ThreadType
<1>2. \A u \in Workers : InHandOK(u)'
  BY <1>1 DEF MessageInv, InHandOK, Last
<1> QED BY <1>1, <1>2 DEF MessageInv, InHandOK, Last

\* A new transaction: the ones before it are over.
LEMMA MessageRegisters ==
  ASSUME IInv, MessageInv, NEW u \in Users, NEW n \in Seqs, NEW k \in Kinds, Registers(u, n, k)
  PROVE  MessageInv'
<1> DEFINE m == [kind |-> k, user |-> u, seq |-> n, copy |-> 1]
<1>1. /\ sent' = sent \cup {m} /\ net' = net \cup {m} /\ UNCHANGED <<answer, pc, req>>
      /\ ~\E d \in sent : d.user = u /\ d.seq = n
      /\ n > 1 => (\E d \in sent : d.user = u /\ d.seq = n - 1) /\ ~InHand(u, n - 1)
  BY DEF Registers
<1>2. \A d \in sent : d \in Messages /\ d.user \in Users /\ d.seq \in 1..MaxSeq
  BY MessageFields DEF IInv, TypeOK, NetType, Seqs
<1>3. MaxSeq \in Nat /\ n \in 1..MaxSeq
  BY ConstantsAssumption DEF Seqs
<1>4. \A d \in sent : d.user = u => d.seq < n
  <2> SUFFICES ASSUME NEW d \in sent, d.user = u, ~(d.seq < n) PROVE FALSE
    OBVIOUS
  <2>1. n < d.seq
    BY <1>1, <1>2, <1>3
  <2> QED BY <1>1, <2>1 DEF MessageInv
<1>5. ASSUME NEW d \in sent, d \in net \/ (\E w \in Workers : pc[w] # "idle" /\ req[w] = d)
      PROVE  d.user # u
  <2> SUFFICES ASSUME d.user = u PROVE FALSE
    OBVIOUS
  <2>1. d.seq < n /\ n > 1
    BY <1>2, <1>3, <1>4
  <2>2. PICK e \in sent : e.user = u /\ e.seq = n - 1
    BY <1>1, <2>1
  <2>3. d.seq = n - 1
    <3>1. ~(e.seq > d.seq)
      BY <1>5, <2>2 DEF MessageInv, Last
    <3> QED BY <1>2, <1>3, <2>1, <2>2, <3>1
  <2>4. \A w \in Workers : pc[w] # "idle" => req[w] # NoMsg
    BY ConstantsAssumption DEF IInv, WorkerInv, WorkerOK
  <2>5. InHand(u, n - 1)
    BY <1>5, <2>3, <2>4 DEF InHand
  <2> QED BY <1>1, <2>1, <2>5
<1>6. \A w \in Workers : InHandOK(w)'
  BY <1>1, <1>5 DEF MessageInv, InHandOK, Last
<1>7. \A d \in net' : Last(d.user, d.seq)'
  <2>1. Last(u, n)'
    BY <1>1, <1>2, <1>3, <1>4 DEF Last
  <2>2. \A d \in net : Last(d.user, d.seq)'
    BY <1>1, <1>5 DEF MessageInv, Last
  <2> QED BY <1>1, <2>1, <2>2
<1>8. \A d, e \in sent' : d.user = e.user /\ d.seq = e.seq => d.kind = e.kind
  BY <1>1 DEF MessageInv
<1>9. ASSUME NEW d \in sent'
      PROVE  /\ answer'[d.user][d.seq] = "GONE" => d.kind = "ZERO"
             /\ answer'[d.user][d.seq] = "OK" => d.kind # "ZERO"
             /\ \A j \in Seqs : j < d.seq => \E e \in sent' : e.user = d.user /\ e.seq = j
  <2>1. CASE d \in sent
    BY <1>1, <2>1 DEF MessageInv
  <2>2. CASE d = m
    <3>1. answer[u][n] = "none"
      BY <1>1 DEF MessageInv
    <3>2. ASSUME NEW j \in Seqs, j < n PROVE \E e \in sent : e.user = u /\ e.seq = j
      <4>1. PICK e \in sent : e.user = u /\ e.seq = n - 1
        BY <1>1, <1>3, <3>2 DEF Seqs
      <4>2. CASE j = n - 1
        BY <4>1, <4>2
      <4>3. CASE j # n - 1
        <5>1. j < n - 1
          BY <1>3, <3>2, <4>3 DEF Seqs
        <5> QED BY <4>1, <5>1 DEF MessageInv
      <4> QED BY <4>2, <4>3
    <3> QED BY <1>1, <2>2, <3>1, <3>2
  <2> QED BY <1>1, <2>1, <2>2
<1> QED BY <1>1, <1>6, <1>7, <1>8, <1>9 DEF MessageInv, InHandOK

LEMMA MessageRetransmits ==
  ASSUME IInv, MessageInv, NEW m \in sent, Retransmits(m)
  PROVE  MessageInv'
<1>1. m \in Messages
  BY DEF IInv, TypeOK, NetType
<1>2. PICK d : /\ sent' = sent \cup {d} /\ net' = net \cup {d} /\ UNCHANGED <<answer, pc, req>>
               /\ d.user = m.user /\ d.seq = m.seq /\ d.kind = m.kind
  BY <1>1 DEF Retransmits, Messages
<1>3. Last(m.user, m.seq)
  BY DEF Retransmits, Last
<1>4. \A u, n : Last(u, n) => Last(u, n)'
  BY <1>2 DEF Last
<1>5. \A w \in Workers : InHandOK(w)'
  BY <1>2, <1>4 DEF MessageInv, InHandOK
<1>6. \A e \in net' : Last(e.user, e.seq)'
  BY <1>2, <1>3, <1>4 DEF MessageInv
<1> QED BY <1>2, <1>5, <1>6 DEF MessageInv, InHandOK

LEMMA InitMessage == Init => MessageInv
BY DEF Init, MessageInv

LEMMA NextMessage ==
  ASSUME IInv, ListInv, StageInv, MessageInv, [Next]_vars
  PROVE  MessageInv'
<1>1. CASE \E w \in Workers, m \in net : Lookup(w, m)
  BY <1>1, MessageLookup
<1>2. CASE \E w \in Workers : WorkerStep(w)
  BY <1>2, MessageWorks
<1>3. CASE UserAgents
  BY <1>3, MessageRegisters, MessageRetransmits DEF UserAgents
<1>4. CASE WatchdogStep \/ Tick \/ UNCHANGED vars
  <2>1. UNCHANGED <<answer, sent, net, pc, req>>
    BY <1>4 DEF WatchdogStep, Wake, Check, Expire, Evict, Tick, vars, netVars
  <2> QED BY <2>1 DEF MessageInv, Last
<1> QED BY <1>1, <1>2, <1>3, <1>4 DEF Next

------------------------------------------------------------------------------
(* What the user agents were told.                                          *)

UserInv == IInv /\ ListInv /\ NameInv /\ StageInv /\ MessageInv

\* A step of thread w changes nothing of the registrations but its own.
Effects(w) ==
  /\ \A r \in Registrations \ {cur[w]} :
       /\ state'[r] = state[r] /\ username'[r] = username[r] /\ contacts'[r] = contacts[r]
       /\ r \in listed' <=> r \in listed
  /\ state'[cur[w]] # "none"
  /\ \/ username'[cur[w]] = username[cur[w]]
     \/ pc[w] = "challenge" /\ username'[cur[w]] = req[w].user
  /\ \/ contacts'[cur[w]] = contacts[cur[w]]
     \/ pc[w] = "fill" /\ contacts'[cur[w]] = {req[w].user}

LEMMA EffectsWorks ==
  ASSUME UserInv, NEW w \in Workers, WorkerStep(w), ~Create(w)
  PROVE  Effects(w)
<1>1. WorkTypes(w) /\ Working(w)
  BY Moving, Worked DEF UserInv, Moves
<1>2. pc[w] = "fill" => account[cur[w]] = req[w].user
  BY <1>1, StageFacts DEF UserInv
<1>3. CASE Challenge(w) \/ Fill(w)
  BY <1>1, <1>2, <1>3 DEF Challenge, Fill, Effects, WorkTypes
<1>4. CASE SetUnregistered(w) \/ SetChallenged(w) \/ Restart(w) \/ Authenticate(w)
  BY <1>1, <1>4
  DEF SetUnregistered, SetChallenged, Restart, Authenticate, SetState, Effects, WorkTypes
<1>5. CASE Drop(w) \/ Remove(w)
  BY <1>1, <1>5 DEF Drop, Remove, Delist, Effects, WorkTypes
<1>6. CASE Handle(w) \/ Switch(w) \/ Unregister(w) \/ Refuse(w) \/ SetAccount(w) \/ Refresh(w) \/ Ok(w)
  BY <1>1, <1>6 DEF Handle, Switch, Unregister, Refuse, SetAccount, Refresh, Ok, regVars, Effects, WorkTypes
<1> QED BY <1>3, <1>4, <1>5, <1>6 DEF WorkerStep

\* The registration a step of Create adds.
LEMMA CreateFacts ==
  ASSUME UserInv, NEW w \in Workers, Create(w)
  PROVE  \E r \in Registrations :
           /\ state[r] = "none" /\ \A q \in Registrations : q < r => state[q] # "none"
           /\ \A q \in Registrations : state'[q] = IF q = r THEN "STARTED" ELSE state[q]
           /\ listed' = listed \cup {r} /\ r \notin listed
           /\ pc[w] = "create" /\ pc'[w] = "handle" /\ cur'[w] = r /\ OthersStay(w)
           /\ username[r] = NoUser /\ contacts[r] = {}
           /\ UNCHANGED <<username, contacts, req, answer, sent>>
<1>1. PICK r \in Registrations :
        /\ state[r] = "none" /\ \A q \in Registrations : q < r => state[q] # "none"
        /\ state' = [state EXCEPT ![r] = "STARTED"]
        /\ listed' = listed \cup {r} /\ cur' = [cur EXCEPT ![w] = r]
  BY DEF Create
<1>2. username[r] = NoUser /\ contacts[r] = {} /\ r \notin listed
  BY <1>1 DEF UserInv, NameInv, StageInv, ListInv
<1>3. /\ pc[w] = "create" /\ pc'[w] = "handle" /\ cur'[w] = r /\ OthersStay(w)
      /\ UNCHANGED <<username, contacts, req, answer, sent>>
  BY <1>1 DEF Create, OthersStay, netVars, UserInv, IInv, TypeOK, ThreadType
<1>4. \A q \in Registrations : state'[q] = IF q = r THEN "STARTED" ELSE state[q]
  BY <1>1 DEF UserInv, IInv, TypeOK, RegType
<1> QED BY <1>1, <1>2, <1>3, <1>4

\* What a step of the watchdog, of a user agent or of time leaves alone.
LEMMA Elsewhere ==
  ASSUME UserInv, UserAgents \/ WatchdogStep \/ Tick \/ UNCHANGED vars
  PROVE  /\ UNCHANGED <<username, contacts, answer, pc, cur, req>>
         /\ sent \subseteq sent'
         /\ \A r \in Registrations :
              /\ state'[r] = state[r] \/ (state[r] # "none" /\ state'[r] = "UNREGISTERED")
              /\ r \in listed' => r \in listed
              /\ r \in listed /\ r \notin listed' => state'[r] = "UNREGISTERED"
<1>1. UNCHANGED <<username, contacts, answer, pc, cur, req>> /\ sent \subseteq sent'
  BY DEF UserAgents, Registers, Retransmits, WatchdogStep, Wake, Check, Expire, Evict, Tick,
         vars, regVars, netVars, SetState, Delist
<1>2. CASE Expire
  <2>1. suspect \in Registrations /\ state[suspect] # "none" /\ listed' = listed
        /\ \A r \in Registrations : state'[r] = IF r = suspect THEN "UNREGISTERED" ELSE state[r]
    BY <1>2 DEF Expire, SetState, UserInv, ListInv, IInv, DogInv, TypeOK, RegType
  <2> QED BY <1>1, <2>1
<1>3. CASE Evict
  <2>1. state' = state /\ listed' = listed \ {suspect} /\ state[suspect] = "UNREGISTERED"
    BY <1>3 DEF Evict, Delist, UserInv, StageInv
  <2> QED BY <1>1, <2>1
<1>4. CASE ~Expire /\ ~Evict
  <2>1. UNCHANGED <<state, listed>>
    BY <1>4 DEF UserAgents, Registers, Retransmits, WatchdogStep, Wake, Check, Tick, vars, regVars
  <2> QED BY <1>1, <2>1
<1> QED BY <1>2, <1>3, <1>4

LEMMA LookupFacts ==
  ASSUME UserInv, NEW w \in Workers, NEW m \in net, Lookup(w, m)
  PROVE  /\ UNCHANGED <<state, username, contacts, listed, answer, sent>>
         /\ pc[w] = "idle" /\ req'[w] = m /\ OthersStay(w)
         /\ \/ pc'[w] = "create"
            \/ pc'[w] = "handle" /\ cur'[w] \in listed /\ username[cur'[w]] = m.user
<1>1. /\ m.user \in Users /\ NoUser \notin Users /\ listed \subseteq Registrations
  BY MessageFields, ConstantsAssumption DEF UserInv, IInv, TypeOK, NetType, RegType
<1>2. \A r \in listed : Key(r) = m.user => username[r] = m.user
  BY <1>1 DEF Key, UserInv, NameInv
<1> QED BY <1>2 DEF Lookup, OthersStay, IsFirst, regVars, UserInv, IInv, TypeOK, ThreadType

------------------------------------------------------------------------------
LEMMA NextOrder ==
  ASSUME Apart, UserInv, OrderInv, [Next]_vars
  PROVE  OrderInv'
<1>1. listed \subseteq Registrations /\ Registrations \subseteq Int
  BY ConstantsAssumption DEF UserInv, IInv, TypeOK, RegType, Registrations
<1>2. ASSUME NEW w \in Workers, NEW m \in net, Lookup(w, m) PROVE OrderInv'
  <2>1. /\ UNCHANGED <<state, username, contacts, listed>>
        /\ Working(w)' => cur'[w] \in listed /\ username[cur'[w]] = req'[w].user
        /\ OthersStay(w)
    BY <1>2, LookupFacts DEF Working
  <2>2. m.user \in Users /\ NoUser \notin Users /\ req'[w] = m
    BY <1>2, LookupFacts, MessageFields, ConstantsAssumption DEF UserInv, IInv, TypeOK, NetType
  <2> QED BY <2>1, <2>2 DEF OrderInv, OthersStay, Working
<1>3. ASSUME NEW w \in Workers, Create(w) PROVE OrderInv'
  <2>1. PICK r \in Registrations :
          /\ state[r] = "none" /\ \A q \in Registrations : q < r => state[q] # "none"
          /\ \A q \in Registrations : state'[q] = IF q = r THEN "STARTED" ELSE state[q]
          /\ listed' = listed \cup {r} /\ cur'[w] = r /\ OthersStay(w)
          /\ username[r] = NoUser
          /\ UNCHANGED <<username, contacts, req>>
    BY <1>3, CreateFacts
  <2>2. \A q \in Registrations : contacts[q] # {} => q <= r
    <3> SUFFICES ASSUME NEW q \in Registrations, contacts[q] # {} PROVE q <= r
      OBVIOUS
    <3>1. state[q] # "none"
      BY DEF UserInv, StageInv
    <3> QED BY <1>1, <2>1, <3>1 DEF OrderInv
  <2>3. \A p, q \in Registrations : p < q /\ state'[p] = "none" => state'[q] = "none"
    BY <2>1 DEF OrderInv
  <2> QED BY <2>1, <2>2, <2>3 DEF OrderInv, OthersStay, Working
<1>4. ASSUME NEW w \in Workers, WorkerStep(w), ~Create(w) PROVE OrderInv'
  <2>1. Effects(w) /\ Moves(w) /\ WorkTypes(w)
    BY <1>4, EffectsWorks, Moving, Worked DEF UserInv, Moves
  <2>2. Named(w)
    BY DEF UserInv, NameInv
  <2>3. \A p, q \in Registrations : p < q /\ state'[p] = "none" => state'[q] = "none"
    BY <2>1 DEF OrderInv, Effects, WorkTypes
  <2>4. ASSUME NEW r \in listed', NEW q \in Registrations,
               username'[r] # NoUser, username'[r] \in contacts'[q]
        PROVE  q <= r
    <3>1. r \in listed /\ r \in Registrations
      BY <1>1, <2>1 DEF Moves
    <3>2. CASE contacts'[q] = contacts[q] /\ username'[r] = username[r]
      BY <2>4, <3>1, <3>2 DEF OrderInv
    <3>3. CASE contacts'[q] = contacts[q] /\ username'[r] # username[r]
      BY <2>1, <2>4, <3>1, <3>3 DEF OrderInv, Effects, Moves
    <3>4. CASE contacts'[q] # contacts[q]
      <4>1. q = cur[w] /\ contacts'[q] = {req[w].user} /\ pc[w] = "fill"
        BY <2>1, <3>4 DEF Effects
      <4>2. username[r] = req[w].user
        BY <2>1, <2>4, <3>1, <4>1 DEF Effects
      <4>3. r = cur[w]
        BY <2>2, <3>1, <4>1, <4>2 DEF Named
      <4> QED BY <1>1, <3>1, <4>1, <4>3
    <3> QED BY <3>2, <3>3, <3>4
  <2>5. ASSUME NEW u \in Workers, NEW q \in Registrations, Working(u)', req'[u].user \in contacts'[q]
        PROVE  q <= cur'[u]
    <3>1. Working(u) /\ cur'[u] = cur[u] /\ req'[u] = req[u]
      BY <2>1, <2>5 DEF Moves, OthersStay, Working
    <3>2. req[u].user \in contacts[q] \/ (q = cur[w] /\ req[u].user = req[w].user)
      BY <2>1, <2>5, <3>1 DEF Effects
    <3>3. u # w => req[u].user # req[w].user
      BY <2>1, <3>1, ApartFacts DEF Moves, Working, UserInv
    <3> QED BY <1>1, <2>1, <3>1, <3>2, <3>3 DEF OrderInv, WorkTypes
  <2> QED BY <2>3, <2>4, <2>5 DEF OrderInv
<1>5. CASE UserAgents \/ WatchdogStep \/ Tick \/ UNCHANGED vars
  <2>1. /\ UNCHANGED <<username, contacts, pc, cur, req>>
        /\ \A r \in Registrations :
             /\ state'[r] = state[r] \/ (state[r] # "none" /\ state'[r] = "UNREGISTERED")
             /\ r \in listed' => r \in listed
        /\ listed' \subseteq listed
    <3>1. listed' \subseteq listed
      BY <1>5 DEF UserAgents, Registers, Retransmits, WatchdogStep, Wake, Check, Expire, Evict,
                  Tick, vars, regVars, SetState, Delist
    <3> QED BY <1>1, <1>5, <3>1, Elsewhere
  <2> QED BY <2>1 DEF OrderInv, Working
<1> QED BY <1>2, <1>3, <1>4, <1>5 DEF Next

\* A message in hand whose user has an answer to its last transaction is a copy of the
\* one that was answered.
LEMMA CopyInHand ==
  ASSUME UserInv, NEW w \in Workers, pc[w] # "idle", NEW n \in Seqs,
         answer[req[w].user][n] # "none", Last(req[w].user, n)
  PROVE  req[w].seq = n
<1>1. req[w] \in sent /\ req[w] \in Messages /\ Last(req[w].user, req[w].seq)
  BY Busy DEF UserInv, MessageInv
<1>2. PICK m \in sent : m.user = req[w].user /\ m.seq = n
  BY <1>1, MessageFields DEF UserInv, MessageInv
<1>3. ~(n > req[w].seq) /\ ~(req[w].seq > n)
  BY <1>1, <1>2 DEF Last
<1>4. n \in Int /\ req[w].seq \in Int
  BY <1>1, MessageFields, ConstantsAssumption DEF Seqs
<1> QED BY <1>3, <1>4

LEMMA NextGone ==
  ASSUME UserInv, GoneInv, [Next]_vars
  PROVE  GoneInv'
<1> SUFFICES ASSUME NEW u \in Users, NEW n \in Seqs, answer'[u][n] = "GONE", Last(u, n)',
                    NEW r \in listed', username'[r] = u
             PROVE  \E v \in Workers : pc'[v] = "remove" /\ cur'[v] = r
  BY DEF GoneInv
<1>1. listed \subseteq Registrations /\ u # NoUser
  BY ConstantsAssumption DEF UserInv, IInv, TypeOK, RegType
<1>2. ASSUME NEW w \in Workers, NEW m \in net, Lookup(w, m)
      PROVE  \E v \in Workers : pc'[v] = "remove" /\ cur'[v] = r
  <2>1. UNCHANGED <<username, listed, answer, sent>> /\ pc[w] = "idle" /\ OthersStay(w)
    BY <1>2, LookupFacts
  <2> QED BY <2>1 DEF GoneInv, Last, OthersStay
<1>3. ASSUME NEW w \in Workers, Create(w)
      PROVE  \E v \in Workers : pc'[v] = "remove" /\ cur'[v] = r
  <2>1. PICK q \in Registrations :
          /\ listed' = listed \cup {q} /\ username[q] = NoUser /\ pc[w] = "create" /\ OthersStay(w)
          /\ UNCHANGED <<username, answer, sent>>
    BY <1>3, CreateFacts
  <2> QED BY <1>1, <2>1 DEF GoneInv, Last, OthersStay
<1>4. ASSUME NEW w \in Workers, WorkerStep(w), ~Create(w)
      PROVE  \E v \in Workers : pc'[v] = "remove" /\ cur'[v] = r
  <2>1. /\ Effects(w) /\ Moves(w) /\ WorkTypes(w) /\ Named(w) /\ StageOf(w)
        /\ Answering(w) /\ UNCHANGED sent
    BY <1>4, EffectsWorks, Moving, Worked, AnsweringWorks DEF UserInv, Moves, NameInv, StageInv
  <2>2. r \in listed /\ r \in Registrations
    BY <1>1, <2>1 DEF Moves
  <2>3. Last(u, n)
    BY <2>1 DEF Last
  <2>4. CASE answer[u][n] = "GONE"
    <3>1. username[r] = u
      <4> SUFFICES ASSUME username[r] # u PROVE FALSE
        OBVIOUS
      <4>1. r = cur[w] /\ req[w].user = u /\ pc[w] = "challenge"
        BY <2>1, <2>2 DEF Effects
      <4>2. req[w].seq = n
        BY <2>3, <2>4, <4>1, CopyInHand
      <4>3. req[w].kind = "ZERO"
        BY <2>4, <4>1, <4>2 DEF UserInv, MessageInv
      <4> QED BY <2>1, <4>1, <4>3 DEF StageOf
    <3>2. PICK v \in Workers : pc[v] = "remove" /\ cur[v] = r
      BY <2>2, <2>3, <2>4, <3>1 DEF GoneInv
    <3>3. CASE v # w
      BY <2>1, <3>2, <3>3 DEF Moves, OthersStay
    <3>4. CASE v = w
      <4>1. Remove(w)
        BY <1>4, <3>2, <3>4
        DEF WorkerStep, Create, Drop, Handle, Switch, Unregister, SetUnregistered, Challenge,
            SetChallenged, Restart, Refuse, SetAccount, Authenticate, Fill, Refresh, Ok
      <4> QED BY <3>2, <3>4, <4>1 DEF Remove, Delist
    <3> QED BY <3>3, <3>4
  <2>5. CASE answer[u][n] # "GONE"
    <3>1. u = req[w].user /\ pc[w] = "unregister"
      BY <2>1, <2>5 DEF Answering
    <3>2. r = cur[w]
      BY <2>1, <2>2, <3>1 DEF Effects, Named
    <3>3. Unregister(w)
      BY <1>4, <3>1
      DEF WorkerStep, Create, Drop, Handle, Switch, Remove, SetUnregistered, Challenge,
          SetChallenged, Restart, Refuse, SetAccount, Authenticate, Fill, Refresh, Ok
    <3>4. Goto(w, "remove")
      BY <2>5, <3>3 DEF Unregister, NoReply, netVars
    <3> QED BY <3>2, <3>4 DEF Goto, UserInv, IInv, TypeOK, ThreadType
  <2> QED BY <2>4, <2>5
<1>5. CASE UserAgents \/ WatchdogStep \/ Tick \/ UNCHANGED vars
  <2>1. /\ UNCHANGED <<username, answer, pc, cur>> /\ sent \subseteq sent'
    BY <1>5, Elsewhere
  <2>2. r \in listed
    BY <1>5 DEF UserAgents, Registers, Retransmits, WatchdogStep, Wake, Check, Expire, Evict,
                Tick, vars, regVars, SetState, Delist
  <2> QED BY <2>1, <2>2 DEF GoneInv, Last
<1> QED BY <1>2, <1>3, <1>4, <1>5 DEF Next

\* Two parts of FoundInv for one user agent.
NotChallenged(u) == \A r \in listed : username[r] = u => state[r] # "CHALLENGED"
OnCopies(u) == \A w \in Workers : pc[w] # "idle" /\ req[w].user = u =>
                 pc[w] \in {"create", "handle", "switch", "challenge", "refresh", "ok"}

\* A registration that was found stays so while its contacts and its state do.
LEMMA StaysReachable ==
  ASSUME NEW u \in Users, Reachable(u), UNCHANGED contacts,
         \A r \in Registrations : u \in contacts[r] =>
           /\ state[r] = "UNREGISTERED" => state'[r] = "UNREGISTERED"
           /\ r \in listed => r \in listed' \/ state'[r] = "UNREGISTERED"
  PROVE  Reachable(u)'
BY DEF Reachable

LEMMA FoundOthers ==
  ASSUME UserInv, NEW u \in Users, Reachable(u), NotChallenged(u), OnCopies(u),
         NEW w \in Workers, WorkerStep(w), ~Create(w), req[w].user # u
  PROVE  Reachable(u)' /\ NotChallenged(u)' /\ OnCopies(u)'
<1>1. Effects(w) /\ Moves(w) /\ WorkTypes(w) /\ Named(w)
  BY EffectsWorks, Moving, Worked DEF UserInv, Moves, NameInv
<1>2. username[cur[w]] # u /\ username'[cur[w]] # u /\ u # NoUser
  BY <1>1, ConstantsAssumption DEF Effects, Named, Moves
<1>3. u \notin contacts[cur[w]] /\ u \notin contacts'[cur[w]]
  BY <1>1, <1>2 DEF Effects, UserInv, StageInv, WorkTypes
<1>4. \A r \in Registrations :
        /\ u \in contacts'[r] <=> u \in contacts[r]
        /\ u \in contacts[r] => state'[r] = state[r] /\ (r \in listed' <=> r \in listed)
  BY <1>1, <1>3 DEF Effects
<1>5. Reachable(u)'
  BY <1>4 DEF Reachable
<1>6. NotChallenged(u)'
  BY <1>1, <1>2 DEF NotChallenged, Effects, Moves, WorkTypes
<1>7. OnCopies(u)'
  BY <1>1 DEF OnCopies, Moves, OthersStay
<1> QED BY <1>5, <1>6, <1>7

\* A copy of the REGISTER that was answered gets no response: no registration of its
\* user is authenticated or dropped again.
LEMMA FoundCopies ==
  ASSUME UserInv, NEW u \in Users, NEW n \in Seqs, answer[u][n] = "OK", Last(u, n),
         Reachable(u), NotChallenged(u), OnCopies(u),
         NEW w \in Workers, WorkerStep(w), ~Create(w), req[w].user = u
  PROVE  Reachable(u)' /\ NotChallenged(u)' /\ OnCopies(u)'
<1>1. Effects(w) /\ Moves(w) /\ WorkTypes(w) /\ Named(w) /\ StageOf(w) /\ ThreadType
  BY EffectsWorks, Moving, Worked DEF UserInv, Moves, NameInv, StageInv, IInv, TypeOK
<1>2. /\ pc[w] \in {"handle", "switch", "challenge", "refresh", "ok"}
      /\ req[w].seq = n /\ req[w].kind # "ZERO"
  <2>1. pc[w] \in {"handle", "switch", "challenge", "refresh", "ok"}
    BY <1>1 DEF OnCopies, Moves, Working
  <2>2. req[w].seq = n
    BY <2>1, CopyInHand
  <2> QED BY <2>1, <2>2 DEF UserInv, MessageInv
<1>3. /\ Handle(w) \/ Switch(w) \/ Challenge(w) \/ Refresh(w) \/ Ok(w)
      /\ ~CanReply(w)
  BY <1>2
  DEF WorkerStep, Create, Drop, Unregister, Remove, SetUnregistered, SetChallenged, Restart,
      Refuse, SetAccount, Authenticate, Fill, CanReply
<1>4. UNCHANGED <<state, contacts, listed>>
  BY <1>3 DEF Handle, Switch, Challenge, Refresh, Ok, regVars
<1>5. Reachable(u)'
  BY <1>4, StaysReachable
<1>6. NotChallenged(u)'
  <2>1. Challenge(w) => state[cur[w]] = "STARTED"
    BY <1>1, <1>2 DEF Challenge, StageOf
  <2>2. ~Challenge(w) => UNCHANGED username
    BY <1>3 DEF Handle, Switch, Refresh, Ok, regVars
  <2> QED BY <1>1, <1>4, <2>1, <2>2 DEF NotChallenged, Effects, Moves, WorkTypes, Challenge
<1>7. pc'[w] \in {"idle", "handle", "switch", "challenge", "refresh", "ok"}
  <2>1. CASE Switch(w)
    <3>1. state[cur[w]] # "CHALLENGED"
      <4> SUFFICES ASSUME state[cur[w]] = "CHALLENGED" PROVE FALSE
        OBVIOUS
      <4>1. username[cur[w]] = u
        BY <1>1 DEF Named, Moves, UserInv, NameInv, WorkTypes
      <4>2. cur[w] \in listed
        BY <1>1, <2>1 DEF StageOf, Switch, Moves
      <4> QED BY <4>1, <4>2 DEF NotChallenged
    <3> QED BY <1>1, <2>1, <3>1 DEF Switch, Goto, Done, ThreadType
  <2>2. CASE ~Switch(w)
    BY <1>1, <1>2, <1>3, <2>2 DEF Handle, Challenge, Refresh, Ok, Reply, Goto, Done, ThreadType
  <2> QED BY <2>1, <2>2
<1>8. OnCopies(u)'
  BY <1>1, <1>7 DEF OnCopies, Moves, OthersStay
<1> QED BY <1>5, <1>6, <1>8

\* The 200 goes out when the contacts are there: no younger registration has them,
\* and this one is in the list or the watchdog was faster.
LEMMA FoundAnswered ==
  ASSUME Apart, UserInv, OrderInv, NEW w \in Workers, WorkerStep(w), ~Create(w), pc[w] = "ok",
         NEW u \in Users, u = req[w].user
  PROVE  Reachable(u)' /\ NotChallenged(u)' /\ OnCopies(u)'
<1>1. Effects(w) /\ Moves(w) /\ WorkTypes(w) /\ Named(w) /\ StageOf(w) /\ ThreadType
  BY EffectsWorks, Moving, Worked DEF UserInv, Moves, NameInv, StageInv, IInv, TypeOK
<1>2. Ok(w)
  BY <1>1
  DEF WorkerStep, Create, Drop, Handle, Switch, Unregister, Remove, SetUnregistered, Challenge,
      SetChallenged, Restart, Refuse, SetAccount, Authenticate, Fill, Refresh
<1>3. UNCHANGED <<state, username, contacts, listed>> /\ pc'[w] = "idle"
  BY <1>1, <1>2 DEF Ok, Done, ThreadType
<1>4. req[w].user \in contacts[cur[w]] /\ username[cur[w]] = req[w].user
  BY <1>1, <1>2 DEF StageOf, Ok
<1>5. Reachable(req[w].user)
  <2>1. \A q \in Registrations : req[w].user \in contacts[q] => q <= cur[w]
    BY <1>1 DEF OrderInv, Moves
  <2>2. cur[w] \in listed \/ state[cur[w]] = "UNREGISTERED"
    BY <1>1, <1>2 DEF StageOf, Moves, Ok
  <2> QED BY <1>1, <1>4, <2>1, <2>2 DEF Reachable, WorkTypes
<1>6. \A r \in listed : username[r] = req[w].user => state[r] # "CHALLENGED"
  <2>1. state[cur[w]] # "CHALLENGED"
    BY <1>1, <1>4 DEF UserInv, StageInv, WorkTypes
  <2> QED BY <1>1, <2>1 DEF Named, Moves
<1>7. ASSUME NEW v \in Workers, v # w
      PROVE  pc'[v] = pc[v] /\ req'[v] = req[v] /\ (pc[v] # "idle" => req[v].user # u)
  BY <1>1, <1>7, ApartFacts DEF Moves, OthersStay, Working, UserInv
<1> QED BY <1>3, <1>5, <1>6, <1>7 DEF Reachable, NotChallenged, OnCopies

LEMMA NextFound ==
  ASSUME Apart, UserInv, OrderInv, FoundInv, [Next]_vars
  PROVE  FoundInv'
<1> SUFFICES ASSUME NEW u \in Users, NEW n \in Seqs, answer'[u][n] = "OK", Last(u, n)'
             PROVE  Reachable(u)' /\ NotChallenged(u)' /\ OnCopies(u)'
  BY DEF FoundInv, NotChallenged, OnCopies
<1>1. listed \subseteq Registrations /\ u # NoUser
  BY ConstantsAssumption DEF UserInv, IInv, TypeOK, RegType
<1>2. answer[u][n] = "OK" /\ Last(u, n) => Reachable(u) /\ NotChallenged(u) /\ OnCopies(u)
  BY DEF FoundInv, NotChallenged, OnCopies
<1>3. ASSUME NEW w \in Workers, NEW m \in net, Lookup(w, m)
      PROVE  Reachable(u)' /\ NotChallenged(u)' /\ OnCopies(u)'
  <2>1. /\ UNCHANGED <<state, username, contacts, listed, answer, sent>>
        /\ pc'[w] \in {"create", "handle"} /\ OthersStay(w)
    BY <1>3, LookupFacts
  <2>2. Reachable(u) /\ NotChallenged(u) /\ OnCopies(u)
    BY <1>2, <2>1 DEF Last
  <2> QED BY <2>1, <2>2 DEF Reachable, NotChallenged, OnCopies, OthersStay
<1>4. ASSUME NEW w \in Workers, Create(w)
      PROVE  Reachable(u)' /\ NotChallenged(u)' /\ OnCopies(u)'
  <2>1. PICK r \in Registrations :
          /\ \A q \in Registrations : state'[q] = IF q = r THEN "STARTED" ELSE state[q]
          /\ listed' = listed \cup {r} /\ pc'[w] = "handle" /\ OthersStay(w)
          /\ contacts[r] = {}
          /\ UNCHANGED <<username, contacts, answer, sent>>
    BY <1>4, CreateFacts
  <2>2. Reachable(u) /\ NotChallenged(u) /\ OnCopies(u)
    BY <1>2, <2>1 DEF Last
  <2>3. Reachable(u)'
    BY <2>1, <2>2, StaysReachable
  <2> QED BY <1>1, <2>1, <2>2, <2>3 DEF NotChallenged, OnCopies, OthersStay
<1>5. ASSUME NEW w \in Workers, WorkerStep(w), ~Create(w)
      PROVE  Reachable(u)' /\ NotChallenged(u)' /\ OnCopies(u)'
  <2>1. Answering(w) /\ UNCHANGED sent
    BY <1>5, AnsweringWorks DEF UserInv
  <2>2. CASE answer[u][n] = "OK"
    <3>1. Last(u, n)
      BY <2>1 DEF Last
    <3>2. CASE req[w].user = u
      BY <1>2, <1>5, <2>2, <3>1, <3>2, FoundCopies
    <3>3. CASE req[w].user # u
      BY <1>2, <1>5, <2>2, <3>1, <3>3, FoundOthers
    <3> QED BY <3>2, <3>3
  <2>3. CASE answer[u][n] # "OK"
    <3>1. u = req[w].user /\ pc[w] = "ok"
      BY <2>1, <2>3 DEF Answering
    <3> QED BY <1>5, <3>1, FoundAnswered
  <2> QED BY <2>2, <2>3
<1>6. CASE UserAgents \/ WatchdogStep \/ Tick \/ UNCHANGED vars
  <2>1. /\ UNCHANGED <<username, contacts, answer, pc, cur, req>> /\ sent \subseteq sent'
        /\ \A r \in Registrations :
             /\ state'[r] = state[r] \/ (state[r] # "none" /\ state'[r] = "UNREGISTERED")
             /\ r \in listed' => r \in listed
             /\ r \in listed /\ r \notin listed' => state'[r] = "UNREGISTERED"
    BY <1>6, Elsewhere
  <2>2. Reachable(u) /\ NotChallenged(u) /\ OnCopies(u)
    BY <1>2, <2>1 DEF Last
  <2>3. Reachable(u)'
    BY <2>1, <2>2, StaysReachable
  <2>4. listed' \subseteq listed
    BY <1>6 DEF UserAgents, Registers, Retransmits, WatchdogStep, Wake, Check, Expire, Evict,
                Tick, vars, regVars, SetState, Delist
  <2>5. NotChallenged(u)'
    BY <1>1, <2>1, <2>2, <2>4 DEF NotChallenged
  <2>6. OnCopies(u)'
    BY <2>1, <2>2 DEF OnCopies
  <2> QED BY <2>3, <2>5, <2>6
<1> QED BY <1>3, <1>4, <1>5, <1>6 DEF Next

LEMMA InitUser == Init => UserInv /\ OrderInv /\ GoneInv /\ FoundInv
<1> SUFFICES ASSUME Init PROVE UserInv /\ OrderInv /\ GoneInv /\ FoundInv
  OBVIOUS
<1>1. UserInv
  BY InitInv, InitList, InitName, InitStage, InitMessage DEF UserInv
<1>2. OrderInv /\ GoneInv /\ FoundInv
  BY DEF Init, OrderInv, GoneInv, FoundInv, Working
<1> QED BY <1>1, <1>2

LEMMA AlwaysUser == Spec /\ []Apart => [](UserInv /\ OrderInv /\ GoneInv /\ FoundInv)
<1>1. Apart /\ Apart' /\ UserInv /\ [Next]_vars => UserInv'
  BY NextInv, NextList, NextName, NextStage, NextMessage DEF UserInv
<1>2. Apart /\ UserInv /\ OrderInv /\ [Next]_vars => OrderInv'
  BY NextOrder
<1>3. UserInv /\ GoneInv /\ [Next]_vars => GoneInv'
  BY NextGone
<1>4. Apart /\ UserInv /\ OrderInv /\ FoundInv /\ [Next]_vars => FoundInv'
  BY NextFound
<1> QED BY <1>1, <1>2, <1>3, <1>4, InitUser, PTL DEF Spec

LEMMA SettledLast ==
  ASSUME NEW u \in Users, NEW a, Settled(u, a)
  PROVE  \E n \in Seqs : answer[u][n] = a /\ Last(u, n) /\ ~InHand(u, n)
BY DEF Settled, Last

\* While no two requests of one user are in hand at once, a user agent whose
\* unregistration was answered is not called any more, whatever copies of its REGISTERs
\* still arrive and whatever other threads do (SipRegistration.java:179-189).
THEOREM GoneIsUnreachable == Spec /\ []Apart => []UnregisteredIsUnreachable
<1>1. UserInv /\ GoneInv => UnregisteredIsUnreachable
  <2> SUFFICES ASSUME UserInv, GoneInv, NEW u \in Users, Settled(u, "GONE"),
                      NEW r \in listed, u \in contacts[r]
               PROVE  FALSE
    BY DEF UnregisteredIsUnreachable
  <2>1. PICK n \in Seqs : answer[u][n] = "GONE" /\ Last(u, n) /\ ~InHand(u, n)
    BY SettledLast
  <2>2. username[r] = u
    BY DEF UserInv, IInv, TypeOK, RegType, StageInv
  <2>3. PICK w \in Workers : pc[w] = "remove" /\ cur[w] = r
    BY <2>1, <2>2 DEF GoneInv
  <2>4. /\ req[w] \in Messages /\ Last(req[w].user, req[w].seq) /\ req[w] # NoMsg
        /\ username[r] \in {NoUser, req[w].user} /\ u # NoUser
    BY <2>3, Busy, ConstantsAssumption DEF UserInv, MessageInv, NameInv, Named, Working
  <2>5. req[w].seq = n
    BY <2>1, <2>2, <2>3, <2>4, CopyInHand
  <2> QED BY <2>1, <2>2, <2>4, <2>5 DEF InHand
<1> QED BY <1>1, AlwaysUser, PTL

\* While no two requests of one user are in hand at once, a user agent whose REGISTER was
\* answered 200 is found by an INVITE unless the watchdog timed it out, whatever copies
\* came before or after and whatever other threads do (SipRegistration.java:136-169,
\* SipServer.java:58-77).
THEOREM OkIsReachable == Spec /\ []Apart => []AnsweredIsReachable
<1>1. FoundInv => AnsweredIsReachable
  <2> SUFFICES ASSUME FoundInv, NEW u \in Users, Settled(u, "OK") PROVE Reachable(u)
    BY DEF AnsweredIsReachable, Reachable
  <2>1. PICK n \in Seqs : answer[u][n] = "OK" /\ Last(u, n)
    BY SettledLast
  <2> QED BY <2>1 DEF FoundInv
<1> QED BY <1>1, AlwaysUser, PTL

==============================================================================
