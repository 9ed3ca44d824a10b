----------------------------- MODULE SipListProofs -----------------------------
(****************************************************************************)
(* The session list of SipCall, for any number of calls, threads, INVITE    *)
(* transactions and copies: a call has one session, an ended session leaves *)
(* the list, and one that has left it is closed.                            *)
(*                                                                          *)
(* The handlers share the session without a lock, so what a thread relies   *)
(* on is kept by what the others cannot be doing.  Of the threads that      *)
(* serve the INVITEs of a call only the one that opened a transaction works *)
(* on the session (OpenerInv); until it has sent the INVITE on, nobody has  *)
(* anything else to say about the call (TalkInv), and so nobody can end the *)
(* session under its hands (EarlyInv).  That holds while the caller has     *)
(* sent no re-INVITE (Once): a second INVITE of an answered call reopens    *)
(* the session whose threads may still be ending it.                        *)
(*                                                                          *)
(* That an ended session leaves the list needs none of this: whoever ends   *)
(* it has yet to take it off, unless terminate has failed (EndInv).         *)
(*                                                                          *)
(* As long as no two threads work on one session (Apart) nobody looks at it *)
(* between the date that closes its record and its leaving the list: who    *)
(* has set one is on the way to take it off, or has failed at the CANCEL,   *)
(* and comes to store what it has set (HistInv).                            *)
(****************************************************************************)
EXTENDS SipServiceProofs

\* No INVITE of the call but the last got anything else than a challenge: the caller
\* has not sent a re-INVITE.
Once(c) == \A n \in Seqs : InviteSent(c, n) => \A k \in Seqs : k < n => Challenged(c, k)
NoReinvite == \A c \in Calls : Once(c)

\* The callee was sent an INVITE of the call.
Talked(c) == \E n \in Seqs : Forwarded(c, n)

------------------------------------------------------------------------------
(* What a step may do: it is a phone's, the beginning of a handler, or a    *)
(* thread's, which leaves the sessions of the other threads alone.          *)

\* Only thread t moves.
Only(t) ==
  \A u \in Threads \ {t} :
    pc'[u] = pc[u] /\ cur'[u] = cur[u] /\ req'[u] = req[u] /\ buf'[u] = buf[u]

\* A phone sends m; only an INVITE comes before the call was offered.
Sends(m) ==
  /\ sent' = sent \cup {m}
  /\ UNCHANGED <<tx, out, objVars, recordVars, pc, localVars>>
  /\ m.kind # "INVITE" =>
       \E o \in out : o.call = m.call /\ o.kind \notin {"CHALLENGE", "REJECT"}

\* Thread t takes message m, or terminate, to session s.
Joins(t, s) ==
  \/ /\ req'[t] \in sent /\ callId[s] = req'[t].call
     /\ \/ req'[t].kind = "INVITE" /\ pc'[t] = "entry"
        \/ req'[t].kind \in RequestKinds \ {"INVITE"} /\ pc'[t] = "dispatch"
        \/ req'[t].kind \in ResponseKinds /\ pc'[t] = "response"
  \/ /\ req'[t] = NoMsg /\ t \in Admins
     /\ pc'[t] = CASE state[s] = "INVITED" -> "endInvited"
                   [] state[s] = "ESTABLISHED" -> "endEstablished"
                   [] OTHER -> "cleanup"

Begins(t) ==
  /\ pc[t] = "idle" /\ Only(t) /\ UNCHANGED <<sent, tx, out, objVars, recordVars, buf>>
  /\ \/ pc'[t] = "idle" /\ cur'[t] = 0 /\ req'[t] = NoMsg
     \/ pc'[t] = "admit" /\ cur'[t] = 0
     \/ \E s \in listed : cur'[t] = s /\ Joins(t, s)

\* A thread goes on with its handler.
Steps(t) ==
  /\ ThreadStep(t) /\ Only(t) /\ UNCHANGED sent
  /\ \/ pc'[t] = "idle" /\ cur'[t] = 0 /\ req'[t] = NoMsg
     \/ req'[t] = req[t] /\ cur'[t] = cur[t]
     \/ req'[t] = req[t] /\ Admit(t)

LEMMA TxOfCur ==
  ASSUME IInv, NEW t \in Threads, pc[t] \in NeedsTx
  PROVE  cur[t] \in Sessions /\ HasTx(cur[t]) /\ callId[cur[t]] # NoCall
BY Busy, ConstantsAssumption DEF NeedsTx, HasTx

LEMMA RequestsMove ==
  ASSUME IInv, NEW t \in Threads, RequestStep(t)
  PROVE  Steps(t)
<1>1. ThreadType
  BY DEF IInv, Typed
<1>2. CASE \/ Entry(t) \/ Reopen(t) \/ Dispatch(t) \/ OpenTx(t) \/ Sdp(t) \/ Forward(t)
           \/ Trying(t) \/ SetInvited(t) \/ Cancel(t) \/ CancelForward(t) \/ Ack(t)
           \/ Bye(t) \/ SetEnded(t)
  <2>1. (\E l \in Labels : Goto(t, l)) /\ UNCHANGED sent
    BY <1>2 DEF Entry, Reopen, Dispatch, OpenTx, Sdp, Forward, Trying, SetInvited, Cancel,
       CancelForward, Ack, Bye, SetEnded, Labels, netVars, Emit
  <2> QED BY <1>1, <2>1 DEF Goto, localVars, ThreadType, Steps, Only, ThreadStep
<1>3. CASE \E v \in Verdicts : TurnAway(t, v)
  <2>1. Done(t) /\ UNCHANGED sent
    BY <1>3 DEF TurnAway
  <2> QED BY <1>1, <2>1 DEF Done, ThreadType, Steps, Only, ThreadStep
<1>4. CASE Admit(t)
  <2>1. UNCHANGED <<sent, req, buf>> /\ Only(t)
    BY <1>1, <1>4 DEF Admit, netVars, Only, ThreadType
  <2> QED BY <1>4, <2>1 DEF Steps, ThreadStep
<1> QED BY <1>2, <1>3, <1>4 DEF RequestStep

LEMMA ThreadsMove ==
  ASSUME IInv, NEW t \in Threads, ThreadStep(t)
  PROVE  Steps(t)
<1>1. ThreadType
  BY DEF IInv, Typed
<1>2. CASE ResponseStep(t) \/ TerminateStep(t) \/ Cleanup(t) \/ Close(t) \/ Unlist(t) \/ Write(t)
  <2>1. (Done(t) \/ \E l \in Labels : Goto(t, l)) /\ UNCHANGED sent
    <3>1. CASE ResponseStep(t)
      BY <3>1 DEF ResponseStep, Response, Ring, RecordRinging, RecordRingTx, Answer, RecordOk,
         SetEstablished, Refuse, Labels, netVars, Emit, Final
    <3>2. CASE TerminateStep(t)
      BY <3>2 DEF TerminateStep, EndInvited, RefuseInvited, CancelInvited, EndEstablished,
         ByeBoth, Labels, netVars, Emit, Final
    <3>3. CASE Cleanup(t) \/ Close(t) \/ Unlist(t) \/ Write(t)
      BY <3>3 DEF Cleanup, Close, Unlist, Write, Labels, netVars
    <3> QED BY <1>2, <3>1, <3>2, <3>3
  <2> QED BY <1>1, <2>1 DEF Done, Goto, localVars, ThreadType, Steps, Only
<1>3. CASE Store(t) \/ Encode(t)
  BY <1>1, <1>3 DEF Store, Encode, netVars, ThreadType, Steps, Only
<1> QED BY <1>2, <1>3, RequestsMove DEF ThreadStep, CleanupStep

LEMMA PhonesSend ==
  ASSUME IInv, JInv, UserAgents
  PROVE  \E m \in Messages : Sends(m)
<1> USE Named DEF RequestKinds, ResponseKinds, Sends, Send
<1>1. 1 \in Seqs
  BY ConstantsAssumption DEF Seqs
<1>2. \A p, k, c, n : Output(p, k, c, n).kind = k /\ Output(p, k, c, n).call = c
  BY DEF Output
<1>3. ASSUME NEW c \in Calls, CallerHangsUp(c) \/ CalleeHangsUp(c)
      PROVE  \E m \in Messages : Sends(m)
  <2>1. GotOk(c, 1) \/ Forwarded(c, 1)
    BY <1>1, <1>3 DEF CallerHangsUp, CalleeHangsUp, JInv, InviteOK
  <2>2. \E o \in out : o.call = c /\ o.kind \notin {"CHALLENGE", "REJECT"}
    BY <1>2, <2>1 DEF GotOk, Forwarded
  <2> QED BY <1>1, <1>3, <2>2 DEF CallerHangsUp, CalleeHangsUp
<1>4. ASSUME NEW c \in Calls, NEW n \in Seqs,
             CallerInvites(c, n) \/ CallerCancels(c, n) \/ CallerAcks(c, n) \/ CalleeRings(c, n)
      PROVE  \E m \in Messages : Sends(m)
  <2>1. CASE CallerInvites(c, n)
    BY <2>1 DEF CallerInvites
  <2>2. CASE CallerCancels(c, n) \/ CallerAcks(c, n) \/ CalleeRings(c, n)
    <3>1. \E o \in out : o.call = c /\ o.kind \notin {"CHALLENGE", "REJECT"}
      BY <1>2, <2>2 DEF CallerCancels, CallerAcks, CalleeRings
    <3> QED BY <2>2, <3>1 DEF CallerCancels, CallerAcks, CalleeRings
  <2> QED BY <1>4, <2>1, <2>2
<1>5. ASSUME NEW c \in Calls, NEW n \in Seqs, NEW k \in 1..MaxCopies, CallerRetransmits(c, n, k)
      PROVE  \E m \in Messages : Sends(m)
  <2> DEFINE m == [Message("INVITE", c, n) EXCEPT !.copy = k]
  <2>1. m \in Messages /\ m.kind = "INVITE"
    BY DEF Message, Messages
  <2>2. Send(m)
    BY <1>5 DEF CallerRetransmits
  <2> HIDE DEF m
  <2> QED BY <2>1, <2>2
<1>6. ASSUME NEW c \in Calls, NEW n \in Seqs, NEW k \in ResponseKinds,
             CalleeAnswers(c, n, k) \/ CalleeReplies(c, n, k)
      PROVE  \E m \in Messages : Sends(m)
  <2>1. \E o \in out : o.call = c /\ o.kind \notin {"CHALLENGE", "REJECT"}
    BY <1>2, <1>6 DEF CalleeAnswers, CalleeReplies
  <2> QED BY <1>6, <2>1 DEF CalleeAnswers, CalleeReplies
<1> QED BY <1>3, <1>4, <1>5, <1>6 DEF UserAgents

LEMMA HandlersBegin ==
  ASSUME IInv, JInv, NEW t \in Threads,
         \/ t \in Workers /\ \E m \in net : ReceiveRequest(t, m) \/ ReceiveResponse(t, m)
         \/ \E s \in Sessions : Terminate(t, s)
  PROVE  Begins(t)
<1>1. ThreadType /\ pc[t] = "idle" /\ cur[t] = 0 /\ req[t] = NoMsg /\ listed \subseteq Sessions
  BY DEF IInv, Typed, ObjType, ThreadInv, ThreadOK, ReceiveRequest, ReceiveResponse, Terminate
<1>2. ASSUME NEW s \in Sessions, Terminate(t, s) PROVE Begins(t)
  <2>1. /\ t \in Admins /\ s \in listed /\ cur' = [cur EXCEPT ![t] = s] /\ req' = req
        /\ UNCHANGED <<sent, tx, out, objVars, recordVars, buf>>
        /\ pc' = [pc EXCEPT ![t] = CASE state[s] = "INVITED" -> "endInvited"
                                     [] state[s] = "ESTABLISHED" -> "endEstablished"
                                     [] OTHER -> "cleanup"]
    BY <1>2 DEF Terminate, netVars
  <2>2. Only(t) /\ cur'[t] = s /\ Joins(t, s)
    BY <1>1, <2>1 DEF Only, ThreadType, Joins
  <2> QED BY <1>1, <2>1, <2>2 DEF Begins
<1>3. ASSUME NEW m \in net, ReceiveRequest(t, m) PROVE Begins(t)
  <2>1. m \in sent /\ m.kind \in RequestKinds /\ UNCHANGED <<sent, tx, out, objVars, recordVars, buf>>
    BY <1>3 DEF ReceiveRequest, JInv
  <2>2. CASE UNCHANGED <<pc, cur, req>>
    BY <1>1, <2>1, <2>2 DEF Begins, Only
  <2>3. CASE pc' = [pc EXCEPT ![t] = "admit"] /\ req' = [req EXCEPT ![t] = m] /\ UNCHANGED cur
    BY <1>1, <2>1, <2>3 DEF Begins, Only, ThreadType
  <2>4. CASE /\ \E s \in Sessions : IsFirst(s, OpenSessions(m.call)) /\ cur' = [cur EXCEPT ![t] = s]
             /\ pc' = [pc EXCEPT ![t] = IF m.kind = "INVITE" THEN "entry" ELSE "dispatch"]
             /\ req' = [req EXCEPT ![t] = m]
    <3>1. PICK s \in Sessions : IsFirst(s, OpenSessions(m.call)) /\ cur' = [cur EXCEPT ![t] = s]
      BY <2>4
    <3>2. s \in listed /\ callId[s] = m.call
      BY <3>1 DEF IsFirst, OpenSessions
    <3>3. Only(t) /\ cur'[t] = s /\ req'[t] = m
          /\ pc'[t] = IF m.kind = "INVITE" THEN "entry" ELSE "dispatch"
      BY <1>1, <2>1, <2>4, <3>1 DEF Only, ThreadType
    <3> QED BY <1>1, <2>1, <3>2, <3>3 DEF Begins, Joins
  <2> QED BY <1>3, <2>2, <2>3, <2>4 DEF ReceiveRequest
<1>4. ASSUME NEW m \in net, ReceiveResponse(t, m) PROVE Begins(t)
  <2>1. m \in sent /\ m.kind \in ResponseKinds /\ UNCHANGED <<sent, tx, out, objVars, recordVars, buf>>
    BY <1>4 DEF ReceiveResponse, JInv
  <2>2. CASE UNCHANGED <<pc, cur, req>>
    BY <1>1, <2>1, <2>2 DEF Begins, Only
  <2>3. CASE /\ \E s \in Sessions : /\ IsFirst(s, {z \in listed : callId[z] = m.call})
                                    /\ cur' = [cur EXCEPT ![t] = s]
             /\ pc' = [pc EXCEPT ![t] = "response"] /\ req' = [req EXCEPT ![t] = m]
    <3>1. PICK s \in Sessions : /\ IsFirst(s, {z \in listed : callId[z] = m.call})
                                /\ cur' = [cur EXCEPT ![t] = s]
      BY <2>3
    <3>2. s \in listed /\ callId[s] = m.call
      BY <3>1 DEF IsFirst
    <3>3. Only(t) /\ cur'[t] = s /\ req'[t] = m /\ pc'[t] = "response"
      BY <1>1, <2>1, <2>3, <3>1 DEF Only, ThreadType
    <3> QED BY <1>1, <2>1, <3>2, <3>3 DEF Begins, Joins
  <2> QED BY <1>4, <2>2, <2>3 DEF ReceiveResponse
<1> QED BY <1>2, <1>3, <1>4

\* Every step is one of these, or nothing moves.
LEMMA AnyStep ==
  ASSUME IInv, JInv, [Next]_vars
  PROVE  \/ \E m \in Messages : Sends(m)
         \/ \E t \in Threads : Begins(t) \/ Steps(t)
         \/ UNCHANGED vars
BY PhonesSend, HandlersBegin, ThreadsMove DEF Next, Threads

------------------------------------------------------------------------------
(* What a step leaves alone.                                                *)

SetsState == {"reopen", "setInvited", "setEnded", "setEstablished", "endInvited", "endEstablished"}

\* A step of t changes the session it works on, and that at a few statements.
Changes(t, s) ==
  /\ s # cur[t] \/ pc[t] \notin SetsState => state'[s] = state[s]
  /\ s # cur[t] \/ pc[t] # "openTx" => callId'[s] = callId[s] /\ inviteTx'[s] = inviteTx[s]
  /\ s # cur[t] \/ pc[t] \notin {"sdp", "close"} => alg'[s] = alg[s] /\ running'[s] = running[s]
  /\ s # cur[t] \/ pc[t] # "unlist" => (s \in listed' <=> s \in listed)
  /\ last[s] \subseteq last'[s] /\ dao[s] \subseteq dao'[s]

\* Each statement is one action.
LEMMA AtStatement ==
  ASSUME NEW t \in Threads, ThreadStep(t)
  PROVE  /\ pc[t] = "admit" => Admit(t) \/ \E v \in Verdicts : TurnAway(t, v)
         /\ pc[t] = "entry" => Entry(t)
         /\ pc[t] = "reopen" => Reopen(t)
         /\ pc[t] = "dispatch" => Dispatch(t)
         /\ pc[t] = "openTx" => OpenTx(t)
         /\ pc[t] = "sdp" => Sdp(t)
         /\ pc[t] = "forward" => Forward(t)
         /\ pc[t] = "trying" => Trying(t)
         /\ pc[t] = "setInvited" => SetInvited(t)
         /\ pc[t] = "cancel" => Cancel(t)
         /\ pc[t] = "cancelForward" => CancelForward(t)
         /\ pc[t] = "ack" => Ack(t)
         /\ pc[t] = "bye" => Bye(t)
         /\ pc[t] = "setEnded" => SetEnded(t)
         /\ pc[t] = "response" => Response(t)
         /\ pc[t] = "ring" => Ring(t)
         /\ pc[t] = "recordRinging" => RecordRinging(t)
         /\ pc[t] = "recordRingTx" => RecordRingTx(t)
         /\ pc[t] = "answer" => Answer(t)
         /\ pc[t] = "recordOk" => RecordOk(t)
         /\ pc[t] = "setEstablished" => SetEstablished(t)
         /\ pc[t] = "refuse" => Refuse(t)
         /\ pc[t] = "cleanup" => Cleanup(t)
         /\ pc[t] = "close" => Close(t)
         /\ pc[t] = "unlist" => Unlist(t)
         /\ pc[t] = "store" => Store(t)
         /\ pc[t] = "encode" => Encode(t)
         /\ pc[t] = "write" => Write(t)
         /\ pc[t] = "endInvited" => EndInvited(t)
         /\ pc[t] = "refuseInvited" => RefuseInvited(t)
         /\ pc[t] = "cancelInvited" => CancelInvited(t)
         /\ pc[t] = "endEstablished" => EndEstablished(t)
         /\ pc[t] = "byeBoth" => ByeBoth(t)
         /\ pc[t] # "idle"
<1>1. CASE RequestStep(t)
  BY <1>1 DEF RequestStep, Admit, TurnAway, Entry, Reopen, Dispatch, OpenTx, Sdp, Forward,
     Trying, SetInvited, Cancel, CancelForward, Ack, Bye, SetEnded
<1>2. CASE ResponseStep(t)
  BY <1>2 DEF ResponseStep, Response, Ring, RecordRinging, RecordRingTx, Answer, RecordOk, SetEstablished, Refuse
<1>3. CASE CleanupStep(t) \/ TerminateStep(t)
  BY <1>3 DEF CleanupStep, Cleanup, Close, Unlist, Store, Encode, Write, TerminateStep, EndInvited,
     RefuseInvited, CancelInvited, EndEstablished, ByeBoth
<1> QED BY <1>1, <1>2, <1>3 DEF ThreadStep

LEMMA RequestChanges ==
  ASSUME IInv, NEW t \in Threads, RequestStep(t), pc[t] # "admit", NEW s \in Sessions
  PROVE  Changes(t, s)
<1>1. Typed /\ ObjType /\ RecordType
  BY DEF IInv, Typed
<1>2. CASE Entry(t) \/ Dispatch(t) \/ Forward(t) \/ Trying(t) \/ CancelForward(t)
  BY <1>2 DEF Entry, Dispatch, Forward, Trying, CancelForward, objVars, recordVars, Changes
<1>3. CASE Cancel(t) \/ Bye(t)
  BY <1>1, <1>3 DEF Cancel, Bye, objVars, Stamp, RecordType, Changes
<1>4. CASE Ack(t)
  BY <1>1, <1>4 DEF Ack, Stamp, Remember, ObjType, RecordType, Changes
<1>5. CASE Reopen(t) \/ SetInvited(t) \/ SetEnded(t)
  BY <1>1, <1>5 DEF Reopen, SetInvited, SetEnded, SetState, ObjType, recordVars, Changes, SetsState
<1>6. CASE OpenTx(t)
  <2>1. pc[t] = "openTx" /\ UNCHANGED <<state, alg, running, listed, last>>
    BY <1>6 DEF OpenTx, objVars
  <2>2. dao[s] \subseteq dao'[s]
    BY <1>1, <1>6 DEF OpenTx, Stamp, RecordType, recordVars
  <2>3. s # cur[t] => callId'[s] = callId[s] /\ inviteTx'[s] = inviteTx[s]
    BY <1>1, <1>6 DEF OpenTx, ObjType, objVars
  <2> QED BY <2>1, <2>2, <2>3 DEF Changes
<1>7. CASE Sdp(t)
  <2>1. pc[t] = "sdp" /\ UNCHANGED <<state, callId, inviteTx, last, listed, dao>>
    BY <1>7 DEF Sdp, recordVars
  <2>2. s # cur[t] => alg'[s] = alg[s] /\ running'[s] = running[s]
    BY <1>1, <1>7 DEF Sdp, ObjType
  <2> QED BY <2>1, <2>2 DEF Changes
<1>8. CASE \E v \in Verdicts : TurnAway(t, v)
  BY <1>8 DEF TurnAway
<1> QED BY <1>2, <1>3, <1>4, <1>5, <1>6, <1>7, <1>8 DEF RequestStep, Admit

LEMMA StepChanges ==
  ASSUME IInv, NEW t \in Threads, ThreadStep(t), pc[t] # "admit", NEW s \in Sessions
  PROVE  Changes(t, s)
<1>1. Typed /\ ObjType /\ RecordType
  BY DEF IInv, Typed
<1>2. CASE ResponseStep(t)
  <2>1. CASE Response(t) \/ Refuse(t)
    BY <2>1 DEF Response, Refuse, objVars, recordVars, Changes
  <2>2. CASE Ring(t) \/ Answer(t)
    BY <1>1, <2>2 DEF Ring, Answer, objVars, Stamp, RecordType, Changes
  <2>3. CASE RecordRinging(t) \/ RecordRingTx(t) \/ RecordOk(t)
    BY <1>1, <2>3 DEF RecordRinging, RecordRingTx, RecordOk, Remember, ObjType, recordVars, Changes
  <2>4. CASE SetEstablished(t)
    BY <1>1, <2>4 DEF SetEstablished, SetState, ObjType, recordVars, Changes, SetsState
  <2> QED BY <1>2, <2>1, <2>2, <2>3, <2>4 DEF ResponseStep
<1>3. CASE CleanupStep(t)
  <2>1. CASE Cleanup(t) \/ Store(t) \/ Encode(t) \/ Write(t)
    BY <2>1 DEF Cleanup, Store, Encode, Write, objVars, recordVars, Changes
  <2>2. CASE Unlist(t)
    BY <1>1, <2>2 DEF Unlist, recordVars, Changes
  <2>3. CASE Close(t)
    BY <1>1, <2>3 DEF Close, ObjType, Stamp, RecordType, Changes
  <2> QED BY <1>3, <2>1, <2>2, <2>3 DEF CleanupStep
<1>4. CASE TerminateStep(t)
  <2>1. CASE RefuseInvited(t) \/ CancelInvited(t) \/ ByeBoth(t)
    BY <2>1 DEF RefuseInvited, CancelInvited, ByeBoth, objVars, recordVars, Changes
  <2>2. CASE EndInvited(t) \/ EndEstablished(t)
    BY <1>1, <2>2 DEF EndInvited, EndEstablished, SetState, ObjType, recordVars, Changes, SetsState
  <2> QED BY <1>4, <2>1, <2>2 DEF TerminateStep
<1> QED BY <1>2, <1>3, <1>4, RequestChanges DEF ThreadStep

\* A new session, which no other thread knows yet.
Creates(t, s) ==
  /\ pc[t] = "admit" /\ pc'[t] = "entry" /\ cur'[t] = s /\ req'[t] = req[t]
  /\ s \in Sessions /\ state[s] = "none" /\ state'[s] = "STARTED" /\ listed' = listed \cup {s}
  /\ UNCHANGED <<tx, sent, out, callId, inviteTx, last, alg, running, dao>>
  /\ \A r \in Sessions \ {s} : state'[r] = state[r]
  /\ \A u \in Threads : cur[u] # s

LEMMA AdmitCreates ==
  ASSUME IInv, NEW t \in Threads, Admit(t)
  PROVE  \E s \in Sessions : Creates(t, s)
<1>1. Typed /\ ObjType /\ ThreadType /\ \A u \in Threads : cur[u] \in Sessions => state[cur[u]] # "none"
  BY DEF IInv, Typed, ThreadInv, ThreadOK
<1>2. PICK s \in Sessions :
        /\ state[s] = "none" /\ state' = [state EXCEPT ![s] = "STARTED"]
        /\ listed' = listed \cup {s} /\ cur' = [cur EXCEPT ![t] = s]
  BY DEF Admit
<1>3. Creates(t, s)
  BY <1>1, <1>2 DEF Admit, Creates, ObjType, ThreadType, recordVars, netVars
<1> QED BY <1>3

\* Statements that are reached only when an INVITE of the call has been sent on.
Later == {"reopen", "trying", "setInvited", "cancel", "cancelForward", "ack", "bye", "response",
          "ring", "recordRinging", "recordRingTx", "answer", "recordOk", "setEstablished", "refuse",
          "endInvited", "refuseInvited", "cancelInvited", "endEstablished", "byeBoth"}

\* What a step of t may say, and do to the transactions.
Talks(t) ==
  /\ out \subseteq out'
  /\ \A o \in out' \ out :
       \/ pc[t] = "admit" /\ o.kind \in {"CHALLENGE", "REJECT"} /\ tx[o.call][o.seq] = "none"
       \/ pc[t] = "forward" /\ o = Output("callee", "INVITE", req[t].call, req[t].seq)
       \/ /\ pc[t] \in Later /\ o.kind \notin {"INVITE", "CHALLENGE", "REJECT"}
          /\ o.call = callId[cur[t]]
  /\ \A c \in Calls, n \in Seqs : tx'[c][n] # tx[c][n] =>
       \/ /\ tx[c][n] = "none" /\ tx'[c][n] # "none"
          /\ pc[t] \in {"admit", "openTx"} /\ req[t].call = c /\ req[t].seq = n
       \/ /\ tx[c][n] = "open" /\ pc[t] \in {"answer", "refuse", "refuseInvited"}
          /\ tx'[c][n] = IF pc[t] = "answer" THEN "answered" ELSE "refused"
          /\ c = callId[cur[t]] /\ n = inviteTx[cur[t]]

LEMMA SilentTalks ==
  ASSUME NEW t \in Threads, UNCHANGED netVars
  PROVE  Talks(t)
BY DEF netVars, Talks

LEMMA EmitTalks ==
  ASSUME NEW t \in Threads, NEW O, Emit(O), pc[t] \in Later,
         \A o \in O : o.kind \notin {"INVITE", "CHALLENGE", "REJECT"} /\ o.call = callId[cur[t]]
  PROVE  Talks(t)
BY DEF Emit, Talks

LEMMA FinalTalks ==
  ASSUME IInv, NEW t \in Threads, pc[t] \in {"answer", "refuse", "refuseInvited"},
         TxIs(cur[t], "open"), NEW k \in {"OK", "ERR", "503"},
         Final(cur[t], k, IF pc[t] = "answer" THEN "answered" ELSE "refused")
  PROVE  Talks(t)
<1>1. cur[t] \in Sessions /\ HasTx(cur[t]) /\ NetType
  BY TxOfCur, Busy DEF NeedsTx
<1>2. out' = out \cup {ToCaller(cur[t], k)} /\ ToCaller(cur[t], k).kind = k
      /\ ToCaller(cur[t], k).call = callId[cur[t]]
  BY DEF Final, ToCaller, Output
<1>3. ASSUME NEW c \in Calls, NEW n \in Seqs, tx'[c][n] # tx[c][n]
      PROVE  /\ tx[c][n] = "open" /\ c = callId[cur[t]] /\ n = inviteTx[cur[t]]
             /\ tx'[c][n] = IF pc[t] = "answer" THEN "answered" ELSE "refused"
  BY <1>1, <1>3 DEF Final, TxIs, NetType, HasTx
<1> QED BY <1>2, <1>3 DEF Talks, Later

LEMMA StepTalks ==
  ASSUME IInv, NEW t \in Threads, ThreadStep(t)
  PROVE  Talks(t)
<1>1. \A p, k, c, n : Output(p, k, c, n).kind = k /\ Output(p, k, c, n).call = c
                      /\ Output(p, k, c, n).seq = n
  BY DEF Output
<1>2. \A s, k : /\ ToCaller(s, k).kind = k /\ ToCaller(s, k).call = callId[s]
                /\ ToCallee(s, k).kind = k /\ ToCallee(s, k).call = callId[s]
  BY <1>1 DEF ToCaller, ToCallee
<1>3. \A s : \A o \in CancelOnward(s) : o.kind = "CANCEL" /\ o.call = callId[s]
  BY <1>2 DEF CancelOnward
<1>4. CASE UNCHANGED netVars
  BY <1>4, SilentTalks
<1>5. CASE \/ Entry(t) \/ Reopen(t) \/ Dispatch(t) \/ Sdp(t) \/ SetInvited(t) \/ SetEnded(t)
           \/ Admit(t) \/ CleanupStep(t)
  BY <1>5, <1>4 DEF Entry, Reopen, Dispatch, Sdp, SetInvited, SetEnded, Admit, CleanupStep,
     Cleanup, Close, Unlist, Store, Encode, Write, netVars
<1>6. CASE Trying(t) \/ Cancel(t) \/ CancelForward(t) \/ CancelInvited(t)
  <2>1. pc[t] \in Later
    BY <1>6 DEF Trying, Cancel, CancelForward, CancelInvited, Later
  <2>2. CASE Trying(t) \/ Cancel(t)
    BY <1>2, <1>4, <2>1, <2>2, EmitTalks DEF Trying, Cancel
  <2>3. CASE CancelForward(t) \/ CancelInvited(t)
    BY <1>3, <1>4, <2>1, <2>3, EmitTalks DEF CancelForward, CancelInvited
  <2> QED BY <1>6, <2>2, <2>3
<1>7. CASE Ack(t) \/ Bye(t) \/ Ring(t) \/ ByeBoth(t)
  <2>1. pc[t] \in Later
    BY <1>7 DEF Ack, Bye, Ring, ByeBoth, Later
  <2>2. CASE Ack(t) \/ Ring(t)
    BY <1>2, <1>4, <2>1, <2>2, EmitTalks DEF Ack, Ring
  <2>3. CASE Bye(t)
    BY <1>2, <1>4, <2>1, <2>3, EmitTalks DEF Bye
  <2>4. CASE ByeBoth(t)
    BY <1>2, <1>4, <2>1, <2>4, EmitTalks DEF ByeBoth
  <2> QED BY <1>7, <2>2, <2>3, <2>4
<1>8. CASE Response(t) \/ RecordRinging(t) \/ RecordRingTx(t) \/ RecordOk(t) \/ SetEstablished(t)
           \/ EndInvited(t) \/ EndEstablished(t)
  BY <1>8, <1>4 DEF Response, RecordRinging, RecordRingTx, RecordOk, SetEstablished, EndInvited,
     EndEstablished, netVars
<1>9. CASE Answer(t)
  BY <1>9, <1>4, FinalTalks DEF Answer
<1>10. CASE Refuse(t) \/ RefuseInvited(t)
  BY <1>10, <1>4, FinalTalks DEF Refuse, RefuseInvited
<1>11. CASE Forward(t)
  BY <1>4, <1>11 DEF Forward, Emit, Talks
<1>12. CASE OpenTx(t)
  BY <1>12 DEF OpenTx, Talks, netVars, IInv, Typed, NetType
<1>13. CASE \E v \in Verdicts : TurnAway(t, v)
  BY <1>1, <1>13 DEF TurnAway, Talks, IInv, Typed, NetType
<1> QED BY <1>5, <1>6, <1>7, <1>8, <1>9, <1>10, <1>11, <1>12, <1>13
        DEF ThreadStep, RequestStep, ResponseStep, TerminateStep

\* Transactions are opened once and never forgotten; a challenge opens its own.
TxKept ==
  /\ \A c \in Calls, n \in Seqs :
       tx[c][n] # "none" =>
         /\ tx'[c][n] # "none"
         /\ Output("caller", "CHALLENGE", c, n) \in out' <=> Challenged(c, n)
  /\ out \subseteq out' /\ sent \subseteq sent'

LEMMA KeepsTx ==
  ASSUME IInv, JInv, [Next]_vars
  PROVE  TxKept
<1>1. CASE UNCHANGED <<tx, out>> /\ sent \subseteq sent'
  BY <1>1 DEF TxKept, Challenged
<1>2. ASSUME NEW t \in Threads, Steps(t) PROVE TxKept
  <2>1. Talks(t) /\ UNCHANGED sent
    BY <1>2, StepTalks DEF Steps
  <2>2. ASSUME NEW c \in Calls, NEW n \in Seqs, tx[c][n] # "none"
        PROVE  Output("caller", "CHALLENGE", c, n) \in out' => Challenged(c, n)
    <3> DEFINE o == Output("caller", "CHALLENGE", c, n)
    <3>1. o.kind = "CHALLENGE" /\ o.call = c /\ o.seq = n
      BY DEF Output
    <3>2. Output("callee", "INVITE", req[t].call, req[t].seq).kind = "INVITE"
      BY DEF Output
    <3>3. ASSUME o \in out', o \notin out PROVE FALSE
      <4> HIDE DEF o
      <4> QED BY <2>1, <2>2, <3>1, <3>2, <3>3 DEF Talks
    <3> QED BY <3>3 DEF Challenged
  <2>3. \A c \in Calls, n \in Seqs : tx[c][n] # "none" => tx'[c][n] # "none"
    BY <2>1 DEF Talks
  <2> QED BY <2>1, <2>2, <2>3 DEF TxKept, Talks, Challenged
<1>3. ASSUME NEW m \in Messages, Sends(m) PROVE TxKept
  BY <1>1, <1>3 DEF Sends
<1>4. ASSUME NEW t \in Threads, Begins(t) PROVE TxKept
  BY <1>1, <1>4 DEF Begins
<1>5. UNCHANGED vars => TxKept
  BY <1>1 DEF vars, netVars
<1> QED BY <1>2, <1>3, <1>4, <1>5, AnyStep

------------------------------------------------------------------------------
(* Calls without a re-INVITE.                                               *)

\* A re-INVITE cannot be taken back.
LEMMA OnceBefore ==
  ASSUME IInv, JInv, [Next]_vars, NEW c \in Calls, Once(c)'
  PROVE  Once(c)
<1>1. TxKept
  BY KeepsTx
<1> SUFFICES ASSUME NEW n \in Seqs, InviteSent(c, n), NEW k \in Seqs, k < n
             PROVE  Challenged(c, k)
  BY DEF Once
<1>2. Challenged(c, k) \/ tx[c][k] = "answered"
  BY DEF JInv, InTurn
<1>3. InviteSent(c, n)'
  BY <1>1 DEF InviteSent, TxKept
<1>4. Output("caller", "CHALLENGE", c, k) \in out'
  BY <1>3 DEF Once, Challenged
<1> QED BY <1>1, <1>2, <1>4 DEF TxKept

\* The INVITE of such a call that was let in is the only one.
LEMMA OnlyOne ==
  ASSUME JInv, NEW c \in Calls, Once(c), NEW n \in Seqs, NEW k \in Seqs,
         tx[c][n] # "none", tx[c][k] # "none", ~Challenged(c, n), ~Challenged(c, k)
  PROVE  n = k
<1>1. InviteSent(c, n) /\ InviteSent(c, k)
  BY DEF JInv, InviteOK
<1>2. n \in Int /\ k \in Int
  BY ConstantsAssumption DEF Seqs
<1> QED BY <1>1, <1>2 DEF Once

LEMMA NoOther ==
  ASSUME JInv, NEW c \in Calls, Once(c), NEW n \in Seqs, NEW k \in Seqs,
         tx[c][n] # "none", ~Challenged(c, n), InviteSent(c, k)
  PROVE  tx[c][k] # "none"
<1>1. InviteSent(c, n) /\ InTurn(c, n) /\ InviteOK(c, k)
  BY DEF JInv, InviteOK
<1>2. n \in Int /\ k \in Int
  BY ConstantsAssumption DEF Seqs
<1>3. CASE k < n
  BY <1>1, <1>3 DEF InTurn, InviteOK
<1>4. CASE n < k
  BY <1>4 DEF Once
<1> QED BY <1>2, <1>3, <1>4

\* A re-INVITE comes after an answer.
LEMMA UnansweredOnce ==
  ASSUME JInv, NEW c \in Calls, \A n \in Seqs : tx[c][n] # "answered"
  PROVE  Once(c)
BY DEF JInv, InTurn, Once

------------------------------------------------------------------------------
(* A session owns the transaction of its INVITE, which was let in.          *)

TxInv ==
  /\ \A s \in Sessions : callId[s] # NoCall =>
       tx[callId[s]][inviteTx[s]] # "none" /\ ~Challenged(callId[s], inviteTx[s])
  /\ \A r, s \in Sessions :
       callId[r] = callId[s] /\ callId[r] # NoCall /\ inviteTx[r] = inviteTx[s] => r = s

LEMMA InitTx == Init => TxInv
BY DEF Init, TxInv

\* What OpenTx does when the message is not a copy.
Opens(t) ==
  /\ pc[t] = "openTx" /\ pc'[t] = "sdp" /\ req[t] \in Messages
  /\ cur[t] \in Sessions /\ callId[cur[t]] \in {NoCall, req[t].call}
  /\ callId'[cur[t]] = req[t].call /\ inviteTx'[cur[t]] = req[t].seq
  /\ tx[req[t].call][req[t].seq] = "none" /\ tx'[req[t].call][req[t].seq] = "open"
  /\ UNCHANGED out

LEMMA OpenTxOpens ==
  ASSUME IInv, NEW t \in Threads, OpenTx(t)
  PROVE  \/ Opens(t)
         \/ /\ pc'[t] = "cleanup" /\ UNCHANGED <<objVars, recordVars, netVars>>
            /\ tx[req[t].call][req[t].seq] # "none"
<1>1. /\ req[t] \in Messages /\ cur[t] \in Sessions /\ ObjType /\ ThreadType /\ NetType
      /\ req[t].call \in Calls /\ req[t].seq \in Seqs /\ callId[cur[t]] \in {NoCall, req[t].call}
  BY Busy, MessageFields DEF OpenTx, NeedsMessage, Labels, ThreadOK
<1> QED BY <1>1 DEF OpenTx, Opens, Goto, ObjType, ThreadType, NetType

LEMMA NextTx ==
  ASSUME IInv, JInv, TxInv, [Next]_vars
  PROVE  TxInv'
<1>1. TxKept /\ ObjType
  BY KeepsTx DEF IInv, Typed
<1>2. ASSUME NEW s \in Sessions, callId[s] # NoCall
      PROVE  callId[s] \in Calls /\ inviteTx[s] \in Seqs
  BY <1>1, <1>2 DEF ObjType, IInv, SessionInv, SessionOK
<1>3. CASE UNCHANGED <<callId, inviteTx>>
  BY <1>1, <1>2, <1>3 DEF TxInv, TxKept, Challenged
<1>4. ASSUME NEW t \in Threads, Opens(t), \A s \in Sessions : Changes(t, s)
      PROVE  TxInv'
  <2>1. PICK c \in Calls, n \in Seqs : req[t].call = c /\ req[t].seq = n
    BY <1>4, MessageFields DEF Opens
  <2>2. c # NoCall /\ tx'[c][n] # "none" /\ ~Challenged(c, n)'
    BY <1>4, <2>1, ConstantsAssumption DEF Opens, JInv, InviteOK, Challenged
  <2>3. \A s \in Sessions \ {cur[t]} : callId'[s] = callId[s] /\ inviteTx'[s] = inviteTx[s]
    BY <1>4 DEF Changes
  <2>4. ASSUME NEW s \in Sessions \ {cur[t]}, callId[s] # NoCall
        PROVE  /\ tx'[callId[s]][inviteTx[s]] # "none"
               /\ Output("caller", "CHALLENGE", callId[s], inviteTx[s]) \notin out'
               /\ callId[s] = c => inviteTx[s] # n
    BY <1>1, <1>2, <1>4, <2>1, <2>4 DEF TxInv, TxKept, Opens
  <2>5. callId'[cur[t]] = c /\ inviteTx'[cur[t]] = n
    BY <1>4, <2>1 DEF Opens
  <2> QED BY <2>2, <2>3, <2>4, <2>5 DEF TxInv, Challenged
<1>5. ASSUME NEW t \in Threads, Steps(t) PROVE TxInv'
  <2>1. CASE pc[t] = "openTx"
    <3>1. OpenTx(t)
      BY <1>5, <2>1, AtStatement DEF Steps
    <3>2. \A s \in Sessions : Changes(t, s)
      BY <1>5, <2>1, StepChanges DEF Steps
    <3> QED BY <1>3, <1>4, <3>1, <3>2, OpenTxOpens DEF objVars
  <2>2. CASE pc[t] \notin {"openTx", "admit"}
    <3>1. \A s \in Sessions : callId'[s] = callId[s] /\ inviteTx'[s] = inviteTx[s]
      BY <1>5, <2>2, StepChanges DEF Steps, Changes
    <3> QED BY <1>1, <1>2, <3>1 DEF TxInv, TxKept, Challenged
  <2>3. CASE pc[t] = "admit"
    <3>1. Admit(t) \/ \E v \in Verdicts : TurnAway(t, v)
      BY <1>5, <2>3, AtStatement DEF Steps
    <3> QED BY <1>3, <3>1 DEF Admit, TurnAway, objVars
  <2> QED BY <2>1, <2>2, <2>3
<1>6. ASSUME NEW m \in Messages, Sends(m) PROVE TxInv'
  BY <1>3, <1>6 DEF Sends, objVars
<1>7. ASSUME NEW t \in Threads, Begins(t) PROVE TxInv'
  BY <1>3, <1>7 DEF Begins, objVars
<1>8. UNCHANGED vars => TxInv'
  BY <1>3 DEF vars, objVars
<1> QED BY <1>5, <1>6, <1>7, <1>8, AnyStep

\* A Call-ID has one session while its caller has sent no re-INVITE, though nothing
\* makes the search and the creation of a session atomic (SipCall!OneSessionPerCall,
\* SipProviderListener.java:187-251).
THEOREM OneSession == Spec => [](NoReinvite => OneSessionPerCall)
<1>1. IInv /\ JInv /\ TxInv => (NoReinvite => OneSessionPerCall)
  <2> SUFFICES ASSUME IInv, JInv, TxInv, NoReinvite,
                      NEW r \in Sessions, NEW s \in Sessions,
                      callId[r] = callId[s], callId[r] # NoCall
               PROVE  r = s
    BY DEF OneSessionPerCall
  <2>1. callId[r] \in Calls /\ inviteTx[r] \in Seqs /\ inviteTx[s] \in Seqs
    BY DEF IInv, Typed, ObjType, SessionInv, SessionOK
  <2>2. inviteTx[r] = inviteTx[s]
    BY <2>1, OnlyOne DEF TxInv, NoReinvite
  <2> QED BY <2>2 DEF TxInv
<1> QED BY InitInv, NextInv, JInit, JNext, InitTx, NextTx, <1>1, PTL DEF Spec

------------------------------------------------------------------------------
(* Until an INVITE of a call has been sent on there is nothing else to say  *)
(* about the call.                                                          *)

TalkInv ==
  /\ \A m \in sent : m.kind # "INVITE" => Talked(m.call)
  /\ \A o \in out : o.kind \notin {"CHALLENGE", "REJECT"} => Talked(o.call)
  /\ \A t \in Threads : pc[t] \in Later => Talked(callId[cur[t]])
  /\ \A s \in Sessions : state[s] \in {"INVITED", "ESTABLISHED"} => Talked(callId[s])

LEMMA InitTalk == Init => TalkInv
BY DEF Init, TalkInv, Later

LEMMA TalkedCall ==
  ASSUME IInv, NEW c, Talked(c)
  PROVE  c \in Calls /\ c # NoCall
BY ConstantsAssumption DEF IInv, Typed, NetType, Outputs, Output, Talked, Forwarded

LEMMA KeepsCall ==
  ASSUME IInv, JInv, [Next]_vars, NEW s \in Sessions, callId[s] # NoCall
  PROVE  callId'[s] = callId[s]
<1>1. CASE UNCHANGED callId
  BY <1>1
<1>2. ASSUME NEW t \in Threads, Steps(t) PROVE callId'[s] = callId[s]
  <2>1. CASE pc[t] = "admit"
    BY <1>1, <1>2, <2>1, AtStatement DEF Steps, Admit, TurnAway, objVars
  <2>2. CASE pc[t] = "openTx"
    <3>1. Opens(t) \/ UNCHANGED callId
      BY <1>2, <2>2, AtStatement, OpenTxOpens DEF Steps, objVars
    <3>2. Changes(t, s)
      BY <1>2, <2>2, StepChanges DEF Steps
    <3> QED BY <3>1, <3>2 DEF Opens, Changes
  <2>3. CASE pc[t] \notin {"admit", "openTx"}
    BY <1>2, <2>3, StepChanges DEF Steps, Changes
  <2> QED BY <2>1, <2>2, <2>3
<1> QED BY <1>1, <1>2, AnyStep DEF Sends, Begins, objVars, vars

\* A session that another thread serves when a call was talked about is that call's.
LEMMA TalkOn ==
  ASSUME IInv, JInv, [Next]_vars, NEW s \in Sessions, Talked(callId[s])
  PROVE  Talked(callId[s])' /\ callId'[s] = callId[s]
<1>1. callId'[s] = callId[s] /\ out \subseteq out'
  BY KeepsCall, KeepsTx, TalkedCall DEF TxKept
<1> QED BY <1>1 DEF Talked, Forwarded

LEMMA OuterTalk ==
  ASSUME IInv, JInv, TalkInv,
         (\E m \in Messages : Sends(m)) \/ (\E t \in Threads : Begins(t)) \/ UNCHANGED vars
  PROVE  TalkInv'
<1>1. UNCHANGED <<out, state, callId>>
  BY DEF Sends, Begins, objVars, vars, netVars
<1>2. /\ \A s \in Sessions : state'[s] \in {"INVITED", "ESTABLISHED"} => Talked(callId[s])'
      /\ \A o \in out' : o.kind \notin {"CHALLENGE", "REJECT"} => Talked(o.call)'
  BY <1>1 DEF TalkInv, Talked, Forwarded
<1>3. ASSUME NEW m \in Messages, Sends(m) PROVE TalkInv'
  <2>1. \A k \in sent' : k.kind # "INVITE" => Talked(k.call)'
    BY <1>1, <1>3 DEF Sends, TalkInv, Talked, Forwarded
  <2>2. \A t \in Threads : pc'[t] \in Later => Talked(callId[cur[t]])'
    BY <1>1, <1>3 DEF Sends, localVars, TalkInv, Talked, Forwarded
  <2> QED BY <1>2, <2>1, <2>2 DEF TalkInv
<1>4. ASSUME NEW t \in Threads, Begins(t) PROVE TalkInv'
  <2>1. \A k \in sent' : k.kind # "INVITE" => Talked(k.call)'
    BY <1>1, <1>4 DEF Begins, TalkInv, Talked, Forwarded
  <2>2. ASSUME NEW u \in Threads, pc'[u] \in Later PROVE Talked(callId[cur[u]])'
    <3>1. CASE u # t
      BY <1>1, <1>4, <2>2, <3>1 DEF Begins, Only, TalkInv, Talked, Forwarded
    <3>2. CASE u = t
      <4>1. PICK s \in listed : cur'[t] = s /\ Joins(t, s)
        BY <1>4, <2>2, <3>2 DEF Begins, Later
      <4>2. s \in Sessions
        BY DEF IInv, Typed, ObjType
      <4>3. CASE pc'[t] = "response"
        BY <1>1, <3>2, <4>1, <4>3 DEF Joins, TalkInv, ResponseKinds, RequestKinds, Talked, Forwarded
      <4>4. CASE pc'[t] # "response"
        BY <1>1, <2>2, <3>2, <4>1, <4>2, <4>4 DEF Joins, TalkInv, Later, Talked, Forwarded
      <4> QED BY <4>3, <4>4
    <3> QED BY <3>1, <3>2
  <2> QED BY <1>2, <2>1, <2>2 DEF TalkInv
<1>5. UNCHANGED vars => TalkInv'
  BY DEF vars, objVars, netVars, localVars, TalkInv, Talked, Forwarded
<1> QED BY <1>3, <1>4, <1>5

\* A thread comes to such a statement with an INVITE it has just sent on, or because
\* of the state of the session.
LEMMA ComesLater ==
  ASSUME IInv, NEW t \in Threads, Steps(t), pc'[t] \in Later
  PROVE  /\ cur'[t] = cur[t] /\ cur[t] \in Sessions
         /\ \/ pc[t] \in Later
            \/ state[cur[t]] \in {"INVITED", "ESTABLISHED"}
            \/ Output("callee", "INVITE", callId[cur[t]], req[t].seq) \in out' /\ req[t].seq \in Seqs
<1> USE DEF Later
<1>1. ThreadStep(t) /\ ThreadType
  BY DEF Steps, IInv, Typed
<1>2. pc[t] \notin {"admit", "idle"}
  BY <1>1, AtStatement, ZenonT(40) DEF Admit, TurnAway, Done, ThreadType
<1>3. cur'[t] = cur[t] /\ cur[t] \in Sessions
  BY <1>2, Busy DEF Steps, Admit
<1>4. CASE pc[t] \in {"entry", "dispatch"}
  <2>1. Entry(t) \/ Dispatch(t)
    BY <1>1, <1>4, AtStatement
  <2>2. state[cur[t]] \in {"INVITED", "ESTABLISHED"}
    <3>1. CASE Entry(t)
      BY <1>1, <3>1 DEF Entry, Goto, ThreadType
    <3>2. CASE Dispatch(t)
      BY <1>1, <3>2 DEF Dispatch, Goto, ThreadType
    <3> QED BY <2>1, <3>1, <3>2
  <2> QED BY <1>3, <2>2
<1>5. CASE pc[t] = "forward"
  <2>1. req[t].call = callId[cur[t]] /\ req[t].seq \in Seqs
    BY <1>5, TxOfCur, Busy, MessageFields DEF ThreadOK, NeedsTx, NeedsMessage, Labels
  <2> QED BY <1>1, <1>3, <1>5, <2>1, AtStatement DEF Forward, Goto, ThreadType, Emit
<1>6. CASE pc[t] \in {"openTx", "sdp", "setEnded"}
  BY <1>1, <1>6, AtStatement, ZenonT(40) DEF OpenTx, Sdp, SetEnded, Goto, ThreadType
<1>7. CASE pc[t] \in {"cleanup", "close", "unlist", "store", "encode", "write"}
  BY <1>1, <1>7, AtStatement DEF Cleanup, Close, Unlist, Store, Encode, Write, Goto, Done, ThreadType
<1>8. CASE pc[t] \in Later
  BY <1>3, <1>8
<1>9. pc[t] \in Labels
  BY <1>1 DEF ThreadType
<1> QED BY <1>2, <1>4, <1>5, <1>6, <1>7, <1>8, <1>9 DEF Labels

LEMMA StepTalk ==
  ASSUME IInv, JInv, TalkInv, [Next]_vars, NEW t \in Threads, Steps(t)
  PROVE  TalkInv'
<1>1. out \subseteq out' /\ Talks(t) /\ UNCHANGED sent
  BY StepTalks DEF Talks, Steps
<1>2. \A s \in Sessions : Talked(callId[s]) => Talked(callId[s])' /\ callId'[s] = callId[s]
  BY TalkOn
<1>3. ASSUME NEW c, Talked(c) PROVE Talked(c)'
  BY <1>1, <1>3 DEF Talked, Forwarded
<1>4. \A m \in sent' : m.kind # "INVITE" => Talked(m.call)'
  BY <1>1 DEF TalkInv, Talked, Forwarded
<1>5. ASSUME NEW o \in out', o.kind \notin {"CHALLENGE", "REJECT"} PROVE Talked(o.call)'
  <2>1. CASE o \in out
    BY <1>1, <1>5, <2>1 DEF TalkInv, Talked, Forwarded
  <2>2. CASE pc[t] = "forward" /\ o = Output("callee", "INVITE", req[t].call, req[t].seq)
    <3>1. req[t].seq \in Seqs /\ o.call = req[t].call
      BY <2>2, Busy, MessageFields DEF NeedsMessage, Labels, Output
    <3>2. PICK c, n : c = req[t].call /\ n = req[t].seq
      OBVIOUS
    <3> QED BY <1>5, <2>2, <3>1, <3>2 DEF Talked, Forwarded
  <2>3. CASE pc[t] \in Later /\ o.call = callId[cur[t]]
    BY <1>1, <2>3 DEF TalkInv, Talked, Forwarded
  <2> QED BY <1>1, <1>5, <2>1, <2>2, <2>3 DEF Talks
<1>6. ASSUME NEW u \in Threads, pc'[u] \in Later PROVE Talked(callId[cur[u]])'
  <2>1. CASE u # t
    <3>1. pc'[u] = pc[u] /\ cur'[u] = cur[u]
      BY <2>1 DEF Steps, Only
    <3>2. cur[u] \in Sessions /\ Talked(callId[cur[u]])
      BY <1>6, <3>1, Busy DEF Later, TalkInv
    <3> QED BY <1>2, <3>1, <3>2 DEF Talked, Forwarded
  <2>2. CASE u = t
    <3>1. CASE Talked(callId[cur[t]])
      <4>1. cur'[t] = cur[t] /\ cur[t] \in Sessions
        BY <1>6, <2>2, ComesLater
      <4> QED BY <1>2, <2>2, <3>1, <4>1 DEF Talked, Forwarded
    <3>2. CASE /\ Output("callee", "INVITE", callId[cur[t]], req[t].seq) \in out'
               /\ req[t].seq \in Seqs /\ cur'[t] = cur[t] /\ cur[t] \in Sessions
      <4>1. Output("callee", "INVITE", callId[cur[t]], req[t].seq).call = callId[cur[t]]
        BY DEF Output
      <4>2. callId[cur[t]] # NoCall
        BY <3>2, <4>1, NextInv, ConstantsAssumption DEF IInv, Typed, NetType, Outputs
      <4>3. callId'[cur[t]] = callId[cur[t]]
        BY <3>2, <4>2, KeepsCall
      <4> QED BY <2>2, <3>2, <4>3 DEF Talked, Forwarded
    <3> QED BY <1>6, <2>2, <3>1, <3>2, ComesLater DEF TalkInv
  <2> QED BY <2>1, <2>2
<1>7. ASSUME NEW s \in Sessions, state'[s] \in {"INVITED", "ESTABLISHED"}
      PROVE  Talked(callId[s])'
  <2>1. CASE state'[s] = state[s]
    BY <1>2, <1>7, <2>1 DEF TalkInv
  <2>2. CASE pc[t] \in Later /\ s = cur[t]
    BY <1>2, <2>2 DEF TalkInv
  <2>3. CASE pc[t] = "admit"
    BY <1>7, <2>1, <2>3, AtStatement, AdmitCreates, ZenonT(40) DEF Steps, Creates, TurnAway, objVars
  <2>4. CASE pc[t] = "setEnded" /\ s = cur[t]
    BY <1>7, <2>4, AtStatement DEF Steps, SetEnded, SetState, IInv, Typed, ObjType
  <2> QED BY <1>7, <2>1, <2>2, <2>3, <2>4, StepChanges DEF Steps, Changes, SetsState, Later
<1> QED BY <1>4, <1>5, <1>6, <1>7 DEF TalkInv

LEMMA NextTalk ==
  ASSUME IInv, JInv, TalkInv, [Next]_vars
  PROVE  TalkInv'
BY AnyStep, OuterTalk, StepTalk

------------------------------------------------------------------------------
(* A session without a Call-ID is listed, and nothing but its first INVITE  *)
(* works on it.                                                             *)

\* Statements at which a thread changes nothing of a session that is STARTED.
Passing == {"entry", "dispatch", "openTx", "cleanup", "store", "encode", "write"}
\* A thread that is there with nothing but an INVITE.
Passes(t) == pc[t] \in Passing /\ (pc[t] \in {"entry", "dispatch", "openTx"} => req[t].kind = "INVITE")

NewInv ==
  \A s \in Sessions : callId[s] = NoCall =>
    /\ state[s] \in {"none", "STARTED"} /\ running[s] = {}
    /\ state[s] = "STARTED" => s \in listed
    /\ \A t \in Threads : cur[t] = s => Passes(t)

LEMMA InitNew == Init => NewInv
BY NotIds DEF Init, NewInv

LEMMA PassingStep ==
  ASSUME IInv, NEW t \in Threads, Steps(t), Passes(t), state[cur[t]] = "STARTED"
  PROVE  \/ Opens(t)
         \/ /\ UNCHANGED objVars
            /\ \/ pc'[t] = "idle" /\ cur'[t] = 0
               \/ Passes(t)' /\ cur'[t] = cur[t] /\ req'[t] = req[t]
<1> USE DEF Passing, Passes
<1>1. ThreadStep(t) /\ ThreadType /\ cur[t] \in Sessions
  BY Busy DEF Steps, IInv, Typed
<1>2. CASE pc[t] \in {"entry", "dispatch"}
  <2>1. Entry(t) \/ Dispatch(t)
    BY <1>1, <1>2, AtStatement
  <2>2. UNCHANGED <<objVars, cur, req>> /\ pc'[t] \in {"dispatch", "openTx"}
    BY <1>1, <2>1 DEF Entry, Dispatch, Goto, ThreadType, localVars
  <2> QED BY <1>2, <2>2
<1>3. CASE pc[t] = "openTx"
  <2>1. OpenTx(t)
    BY <1>1, <1>3, AtStatement
  <2>2. UNCHANGED <<cur, req>>
    BY <2>1 DEF OpenTx, Goto, localVars
  <2> QED BY <2>1, <2>2, OpenTxOpens
<1>4. CASE pc[t] = "cleanup"
  <2>1. Cleanup(t)
    BY <1>1, <1>4, AtStatement
  <2>2. UNCHANGED objVars /\ (Goto(t, "store") \/ Done(t))
    BY <2>1 DEF Cleanup
  <2> QED BY <1>1, <2>2 DEF Goto, Done, localVars, ThreadType
<1>5. CASE pc[t] \in {"store", "encode"}
  BY <1>1, <1>5, AtStatement DEF Store, Encode, ThreadType
<1>6. CASE pc[t] = "write"
  <2>1. UNCHANGED objVars /\ Done(t)
    BY <1>1, <1>6, AtStatement DEF Write
  <2> QED BY <1>1, <2>1 DEF Done, ThreadType
<1> QED BY <1>2, <1>3, <1>4, <1>5, <1>6

LEMMA NextNew ==
  ASSUME IInv, JInv, NewInv, [Next]_vars
  PROVE  NewInv'
<1> SUFFICES ASSUME NEW s \in Sessions, callId'[s] = NoCall
             PROVE  /\ state'[s] \in {"none", "STARTED"} /\ running'[s] = {}
                    /\ state'[s] = "STARTED" => s \in listed'
                    /\ \A t \in Threads : cur'[t] = s => Passes(t)'
  BY DEF NewInv
<1>1. /\ callId[s] = NoCall /\ state[s] \in {"none", "STARTED"} /\ running[s] = {}
      /\ state[s] = "STARTED" => s \in listed
      /\ \A t \in Threads : cur[t] = s => Passes(t)
      /\ s # 0 /\ ThreadType
  BY KeepsCall, NotIds DEF NewInv, IInv, Typed
<1>2. ASSUME NEW m \in Messages, Sends(m)
      PROVE  UNCHANGED <<objVars, pc, cur, req>>
  BY <1>2 DEF Sends, localVars
<1>3. CASE UNCHANGED <<objVars, pc, cur, req>>
  BY <1>1, <1>3 DEF objVars, Passes
<1>4. ASSUME NEW t \in Threads, Begins(t)
      PROVE  UNCHANGED objVars /\ \A u \in Threads : cur'[u] = s => Passes(u)'
  <2>1. CASE \E z \in listed : cur'[t] = z /\ Joins(t, z)
    <3>1. PICK z \in listed : cur'[t] = z /\ Joins(t, z)
      BY <2>1
    <3>2. z = s => pc'[t] = "cleanup"
      BY <1>1, <3>1, ConstantsAssumption DEF Joins, IInv, Typed, NetType, Messages
    <3> QED BY <1>1, <1>4, <3>1, <3>2 DEF Begins, Only, Passes, Passing
  <2>2. CASE cur'[t] = 0
    BY <1>1, <1>4, <2>2 DEF Begins, Only, Passes
  <2> QED BY <1>4, <2>1, <2>2 DEF Begins
<1>5. ASSUME NEW t \in Threads, Steps(t), pc[t] # "admit", cur[t] # s
      PROVE  /\ state'[s] = state[s] /\ running'[s] = running[s] /\ (s \in listed' <=> s \in listed)
             /\ \A u \in Threads : cur'[u] = s => Passes(u)'
  <2>1. Changes(t, s)
    BY <1>5, StepChanges DEF Steps
  <2>2. cur'[t] # s
    BY <1>1, <1>5 DEF Steps, Admit
  <2> QED BY <1>1, <1>5, <2>1, <2>2 DEF Changes, Steps, Only, Passes
<1>6. ASSUME NEW t \in Threads, Steps(t), cur[t] = s
      PROVE  UNCHANGED objVars /\ \A u \in Threads : cur'[u] = s => Passes(u)'
  <2>1. state[s] = "STARTED" /\ Passes(t)
    BY <1>1, <1>6 DEF IInv, ThreadInv, ThreadOK
  <2>2. ~Opens(t)
    BY <1>6, MessageFields, ConstantsAssumption DEF Opens
  <2>3. UNCHANGED objVars /\ (cur'[t] = s => Passes(t)')
    BY <1>1, <1>6, <2>1, <2>2, PassingStep
  <2> QED BY <1>1, <1>6, <2>3 DEF Steps, Only, Passes
<1>7. ASSUME NEW t \in Threads, NEW z \in Sessions, Creates(t, z), Only(t)
      PROVE  /\ state'[s] \in {"none", "STARTED"} /\ running'[s] = {}
             /\ state'[s] = "STARTED" => s \in listed'
             /\ \A u \in Threads : cur'[u] = s => Passes(u)'
  <2>1. Passes(t)'
    BY <1>7 DEF Creates, JInv, HandlerOK, Passes, Passing
  <2> QED BY <1>1, <1>7, <2>1 DEF Creates, Only, Passes
<1>8. ASSUME NEW t \in Threads, NEW v \in Verdicts, Steps(t), TurnAway(t, v)
      PROVE  UNCHANGED objVars /\ \A u \in Threads : cur'[u] = s => Passes(u)'
  BY <1>1, <1>8 DEF TurnAway, Done, ThreadType, Steps, Only, Passes
<1>9. ASSUME NEW t \in Threads, Steps(t)
      PROVE  /\ state'[s] \in {"none", "STARTED"} /\ running'[s] = {}
             /\ state'[s] = "STARTED" => s \in listed'
             /\ \A u \in Threads : cur'[u] = s => Passes(u)'
  <2>1. CASE pc[t] = "admit"
    <3>1. Admit(t) \/ \E v \in Verdicts : TurnAway(t, v)
      BY <1>9, <2>1, AtStatement DEF Steps
    <3> QED BY <1>1, <1>7, <1>8, <1>9, <3>1, AdmitCreates DEF Steps, objVars
  <2>2. CASE pc[t] # "admit" /\ cur[t] # s
    BY <1>1, <1>5, <1>9, <2>2
  <2>3. CASE cur[t] = s
    BY <1>1, <1>6, <1>9, <2>3 DEF objVars
  <2> QED BY <2>1, <2>2, <2>3
<1>10. UNCHANGED vars => UNCHANGED <<objVars, pc, cur, req>>
  BY DEF vars, objVars, localVars
<1> QED BY <1>1, <1>2, <1>3, <1>4, <1>9, <1>10, AnyStep DEF objVars

------------------------------------------------------------------------------
(* The thread that opened the transaction of an INVITE is the only one to   *)
(* send it on.                                                              *)

\* From there on until the session is INVITED.
Inviting == {"sdp", "forward", "trying", "setInvited"}

OpenerInv ==
  /\ \A t \in Threads : pc[t] \in Inviting =>
       /\ tx[req[t].call][req[t].seq] # "none" /\ ~Challenged(req[t].call, req[t].seq)
       /\ pc[t] \in {"sdp", "forward"} => ~Forwarded(req[t].call, req[t].seq)
  /\ \A t, u \in Threads :
       /\ pc[t] \in Inviting /\ pc[u] \in Inviting
       /\ req[t].call = req[u].call /\ req[t].seq = req[u].seq
       => t = u

LEMMA InitOpener == Init => OpenerInv
BY DEF Init, OpenerInv, Inviting

LEMMA ComesInviting ==
  ASSUME IInv, NEW t \in Threads, Steps(t), pc'[t] \in Inviting
  PROVE  /\ cur'[t] = cur[t] /\ req'[t] = req[t]
         /\ \/ Opens(t)
            \/ pc[t] = "sdp" /\ pc'[t] = "forward" /\ UNCHANGED out
            \/ pc[t] \in Inviting /\ pc'[t] \in {"trying", "setInvited"}
<1> USE DEF Inviting
<1>1. ThreadStep(t) /\ ThreadType /\ pc[t] \in Labels
  BY DEF Steps, IInv, Typed, ThreadType
<1>2. pc[t] # "admit"
  BY <1>1, AtStatement DEF Admit, TurnAway, Done, ThreadType
<1>3. cur'[t] = cur[t] /\ req'[t] = req[t]
  BY <1>2 DEF Steps, Admit
<1>4. CASE pc[t] = "openTx"
  BY <1>1, <1>3, <1>4, AtStatement, OpenTxOpens
<1>5. CASE pc[t] \in Inviting
  <2>1. Sdp(t) \/ Forward(t) \/ Trying(t) \/ SetInvited(t)
    BY <1>1, <1>5, AtStatement
  <2>2. CASE Sdp(t)
    BY <1>1, <1>3, <2>2 DEF Sdp, Goto, ThreadType, netVars
  <2>3. CASE Forward(t) \/ Trying(t) \/ SetInvited(t)
    BY <1>1, <1>3, <1>5, <2>3 DEF Forward, Trying, SetInvited, Goto, ThreadType
  <2> QED BY <2>1, <2>2, <2>3
<1>6. CASE pc[t] \in {"entry", "reopen", "dispatch"}
  <2>1. Entry(t) \/ Reopen(t) \/ Dispatch(t)
    BY <1>1, <1>6, AtStatement
  <2> QED BY <1>1, <2>1 DEF Entry, Reopen, Dispatch, Goto, ThreadType
<1>7. CASE pc[t] \in {"cancel", "cancelForward", "ack", "bye", "setEnded"}
  <2>1. Cancel(t) \/ CancelForward(t) \/ Ack(t) \/ Bye(t) \/ SetEnded(t)
    BY <1>1, <1>7, AtStatement
  <2> QED BY <1>1, <2>1 DEF Cancel, CancelForward, Ack, Bye, SetEnded, Goto, ThreadType
<1>8. CASE pc[t] \in {"response", "ring", "recordRinging", "recordRingTx", "answer", "recordOk", "setEstablished", "refuse"}
  <2>1. \/ Response(t) \/ Ring(t) \/ RecordRinging(t) \/ RecordRingTx(t) \/ Answer(t) \/ RecordOk(t)
        \/ SetEstablished(t) \/ Refuse(t)
    BY <1>1, <1>8, AtStatement
  <2> QED BY <1>1, <2>1 DEF Response, Ring, RecordRinging, RecordRingTx, Answer, RecordOk, SetEstablished,
         Refuse, Goto, Done, ThreadType
<1>9. CASE pc[t] \in {"cleanup", "close", "unlist", "store", "encode", "write"}
  <2>1. Cleanup(t) \/ Close(t) \/ Unlist(t) \/ Store(t) \/ Encode(t) \/ Write(t)
    BY <1>1, <1>9, AtStatement
  <2> QED BY <1>1, <2>1 DEF Cleanup, Close, Unlist, Store, Encode, Write, Goto, Done, ThreadType
<1>10. CASE pc[t] \in {"endInvited", "refuseInvited", "cancelInvited", "endEstablished", "byeBoth"}
  <2>1. EndInvited(t) \/ RefuseInvited(t) \/ CancelInvited(t) \/ EndEstablished(t) \/ ByeBoth(t)
    BY <1>1, <1>10, AtStatement
  <2> QED BY <1>1, <2>1 DEF EndInvited, RefuseInvited, CancelInvited, EndEstablished, ByeBoth,
         Goto, Done, ThreadType
<1>11. pc[t] # "idle"
  BY <1>1, AtStatement
<1> QED BY <1>1, <1>2, <1>4, <1>5, <1>6, <1>7, <1>8, <1>9, <1>10, <1>11 DEF Labels

LEMMA InvitingMessage ==
  ASSUME IInv, NEW t \in Threads, pc[t] \in Inviting
  PROVE  /\ req[t] \in Messages /\ req[t].call \in Calls /\ req[t].seq \in Seqs
         /\ cur[t] \in Sessions /\ callId[cur[t]] = req[t].call /\ inviteTx[cur[t]] \in Seqs
BY TxOfCur, Busy, MessageFields DEF Inviting, NeedsMessage, NeedsTx, Labels, ThreadOK, HasTx

LEMMA NextOpener ==
  ASSUME IInv, JInv, OpenerInv, [Next]_vars
  PROVE  OpenerInv'
<1>1. TxKept
  BY KeepsTx
<1>2. ASSUME UNCHANGED out,
             \A t \in Threads : pc'[t] \in Inviting => pc'[t] = pc[t] /\ req'[t] = req[t]
      PROVE  OpenerInv'
  <2>1. ASSUME NEW t \in Threads, pc'[t] \in Inviting
        PROVE  /\ tx'[req'[t].call][req'[t].seq] # "none" /\ ~Challenged(req[t].call, req[t].seq)'
               /\ pc'[t] \in {"sdp", "forward"} => ~Forwarded(req[t].call, req[t].seq)'
    BY <1>1, <1>2, <2>1, InvitingMessage DEF OpenerInv, TxKept, Challenged, Forwarded
  <2> QED BY <1>2, <2>1 DEF OpenerInv
<1>3. ASSUME NEW t \in Threads, Steps(t) PROVE OpenerInv'
  <2>1. Talks(t) /\ Only(t)
    BY <1>3, StepTalks DEF Steps
  <2>2. ASSUME NEW u \in Threads, u # t, pc'[u] \in Inviting
        PROVE  /\ tx'[req'[u].call][req'[u].seq] # "none" /\ ~Challenged(req[u].call, req[u].seq)'
               /\ pc'[u] \in {"sdp", "forward"} => ~Forwarded(req[u].call, req[u].seq)'
    <3>1. pc'[u] = pc[u] /\ req'[u] = req[u]
      BY <2>1, <2>2 DEF Only
    <3>2. PICK c \in Calls, n \in Seqs : c = req[u].call /\ n = req[u].seq
      BY <2>2, <3>1, InvitingMessage
    <3>3. tx[c][n] # "none" /\ ~Challenged(c, n) /\ (pc[u] \in {"sdp", "forward"} => ~Forwarded(c, n))
      BY <2>2, <3>1, <3>2 DEF OpenerInv
    <3>4. tx'[c][n] # "none" /\ ~Challenged(c, n)'
      BY <1>1, <3>3 DEF TxKept, Challenged
    <3>5. ASSUME pc[u] \in {"sdp", "forward"}, Forwarded(c, n)' PROVE FALSE
      <4>1. Output("callee", "INVITE", c, n) \in out' \ out
        BY <3>3, <3>5 DEF Forwarded
      <4>2. Output("callee", "INVITE", c, n).kind = "INVITE"
        BY DEF Output
      <4>3. pc[t] = "forward" /\ Output("callee", "INVITE", c, n) = Output("callee", "INVITE", req[t].call, req[t].seq)
        BY <2>1, <4>1, <4>2 DEF Talks
      <4>4. req[t].call = c /\ req[t].seq = n
        BY <4>3 DEF Output
      <4> QED BY <2>2, <3>1, <3>2, <4>3, <4>4 DEF OpenerInv, Inviting
    <3> QED BY <3>1, <3>2, <3>4, <3>5 DEF Challenged, Forwarded
  <2>3. ASSUME pc'[t] \in Inviting
        PROVE  /\ tx'[req'[t].call][req'[t].seq] # "none" /\ ~Challenged(req[t].call, req[t].seq)'
               /\ pc'[t] \in {"sdp", "forward"} => ~Forwarded(req[t].call, req[t].seq)'
               /\ \A u \in Threads \ {t} :
                    /\ pc'[u] \in Inviting /\ req'[t].call = req'[u].call
                    /\ req'[t].seq = req'[u].seq
                    => FALSE
    <3>1. req'[t] = req[t]
      BY <1>3, <2>3, ComesInviting
    <3>2. PICK c \in Calls, n \in Seqs : c = req[t].call /\ n = req[t].seq
      BY <1>3, <2>3, ComesInviting, InvitingMessage, MessageFields DEF Opens, Inviting
    <3>3. CASE Opens(t)
      <4>1. tx[c][n] = "none" /\ tx'[c][n] = "open" /\ UNCHANGED out
        BY <3>2, <3>3 DEF Opens
      <4>2. ~Forwarded(c, n) /\ ~Challenged(c, n)
        BY <4>1 DEF JInv, InviteOK
      <4>3. \A u \in Threads : pc[u] \in Inviting => ~(req[u].call = c /\ req[u].seq = n)
        BY <4>1 DEF OpenerInv
      <4> QED BY <2>1, <3>1, <3>2, <4>1, <4>2, <4>3 DEF Only, Forwarded, Challenged
    <3>4. CASE pc[t] \in Inviting /\ ~Opens(t)
      <4>1. tx'[c][n] # "none" /\ ~Challenged(c, n)'
        BY <1>1, <3>2, <3>4 DEF OpenerInv, TxKept, Challenged
      <4>2. pc'[t] \in {"sdp", "forward"} => ~Forwarded(c, n)'
        BY <1>3, <2>3, <3>2, <3>4, ComesInviting DEF OpenerInv, Forwarded
      <4> QED BY <2>1, <3>1, <3>2, <3>4, <4>1, <4>2 DEF Only, OpenerInv, Challenged, Forwarded
    <3> QED BY <1>3, <2>3, <3>3, <3>4, ComesInviting DEF Inviting
  <2>4. \A u, v \in Threads : u # t /\ v # t =>
          (pc'[u] = pc[u] /\ req'[u] = req[u] /\ pc'[v] = pc[v] /\ req'[v] = req[v])
    BY <2>1 DEF Only
  <2>5. ASSUME NEW u \in Threads, NEW v \in Threads,
               pc'[u] \in Inviting, pc'[v] \in Inviting,
               req'[u].call = req'[v].call, req'[u].seq = req'[v].seq
        PROVE  u = v
    <3>1. CASE u # t /\ v # t
      BY <2>4, <2>5, <3>1 DEF OpenerInv
    <3>2. CASE u = t \/ v = t
      BY <2>3, <2>5, <3>2
    <3> QED BY <3>1, <3>2
  <2> QED BY <2>2, <2>3, <2>5 DEF OpenerInv
<1>4. ASSUME NEW m \in Messages, Sends(m) PROVE OpenerInv'
  BY <1>2, <1>4 DEF Sends, localVars
<1>5. ASSUME NEW t \in Threads, Begins(t) PROVE OpenerInv'
  <2>1. pc'[t] \notin Inviting
    BY <1>5 DEF Begins, Joins, Inviting
  <2> QED BY <1>2, <1>5, <2>1 DEF Begins, Only
<1>6. UNCHANGED vars => OpenerInv'
  BY <1>2 DEF vars, netVars, localVars
<1> QED BY <1>3, <1>4, <1>5, <1>6, AnyStep

------------------------------------------------------------------------------
(* Until the INVITE has been sent on nobody ends the session under the      *)
(* hands of the thread that does it; then a request that came early may.    *)

\* Statements of the others meanwhile.
Early == Passing \cup Inviting \cup {"setEnded", "close", "unlist", "response"}

EarlyOK(t) ==
  /\ tx[req[t].call][req[t].seq] = "open"
  /\ state[cur[t]] \in {"STARTED", "ENDED"}
  /\ \A u \in Threads : cur[u] = cur[t] => pc[u] \in Early
  /\ pc[t] \in {"sdp", "forward"} =>
       /\ state[cur[t]] = "STARTED" /\ cur[t] \in listed
       /\ \A u \in Threads : cur[u] = cur[t] => pc[u] \in Passing \cup Inviting
  /\ pc[t] = "sdp" => running[cur[t]] = {}

EarlyInv == \A t \in Threads : pc[t] \in Inviting /\ Once(req[t].call) => EarlyOK(t)

LEMMA InitEarly == Init => EarlyInv
BY DEF Init, EarlyInv, Inviting

\* The session of such a thread is the call's, and no other thread opens an INVITE on it.
LEMMA OpenersSession ==
  ASSUME IInv, JInv, TxInv, OpenerInv, TalkInv,
         NEW t \in Threads, pc[t] \in Inviting, Once(req[t].call)
  PROVE  /\ inviteTx[cur[t]] = req[t].seq
         /\ \A u \in Threads \ {t} : cur[u] = cur[t] => pc[u] \notin Inviting /\ ~Opens(u)
         /\ pc[t] \in {"sdp", "forward"} => ~Talked(req[t].call)
<1> DEFINE s == cur[t]
<1>1. PICK c \in Calls, n \in Seqs : c = req[t].call /\ n = req[t].seq
  BY InvitingMessage
<1>2. s \in Sessions /\ callId[s] = c /\ c # NoCall /\ inviteTx[s] \in Seqs /\ Once(c)
  BY <1>1, InvitingMessage, ConstantsAssumption
<1>3. tx[c][n] # "none" /\ ~Challenged(c, n)
      /\ tx[c][inviteTx[s]] # "none" /\ ~Challenged(c, inviteTx[s])
  BY <1>1, <1>2 DEF OpenerInv, TxInv
<1>4. inviteTx[s] = n
  BY <1>2, <1>3, OnlyOne
<1>5. ASSUME NEW u \in Threads \ {t}, cur[u] = s, pc[u] \in Inviting PROVE FALSE
  <2>1. req[u].call = c /\ req[u].seq \in Seqs
    BY <1>2, <1>5, InvitingMessage
  <2>2. tx[c][req[u].seq] # "none" /\ ~Challenged(c, req[u].seq)
    BY <1>5, <2>1 DEF OpenerInv
  <2>3. req[u].seq = n
    BY <1>2, <1>3, <2>1, <2>2, OnlyOne
  <2> QED BY <1>1, <1>5, <2>1, <2>3 DEF OpenerInv
<1>6. ASSUME NEW u \in Threads \ {t}, cur[u] = s, Opens(u) PROVE FALSE
  <2>1. req[u].call = c /\ req[u].seq \in Seqs /\ req[u] \in sent /\ req[u].kind = "INVITE"
    BY <1>2, <1>6, MessageFields, ConstantsAssumption DEF Opens, JInv, HandlerOK
  <2>2. InviteSent(c, req[u].seq)
    BY <2>1 DEF InviteSent
  <2>3. tx[c][req[u].seq] # "none"
    BY <1>2, <1>3, <2>1, <2>2, NoOther
  <2> QED BY <1>6, <2>1, <2>3 DEF Opens
<1>7. ASSUME pc[t] \in {"sdp", "forward"}, Talked(c) PROVE FALSE
  <2>1. PICK k \in Seqs : Forwarded(c, k)
    BY <1>7 DEF Talked
  <2>2. tx[c][k] # "none" /\ ~Challenged(c, k)
    BY <2>1 DEF JInv, InviteOK
  <2>3. k = n
    BY <1>2, <1>3, <2>2, OnlyOne
  <2> QED BY <1>1, <1>7, <2>1, <2>3 DEF OpenerInv
<1> QED BY <1>1, <1>4, <1>5, <1>6, <1>7

\* What another thread on the session can do.
LEMMA OnlookerStep ==
  ASSUME IInv, JInv, TalkInv, NEW t \in Threads, pc[t] \in Inviting, EarlyOK(t),
         NEW u \in Threads, cur[u] = cur[t], Steps(u), pc[u] \notin Inviting, ~Opens(u),
         pc[t] \in {"sdp", "forward"} => ~Talked(req[t].call)
  PROVE  /\ state'[cur[t]] \in {"STARTED", "ENDED"}
         /\ cur'[u] = cur[t] => pc'[u] \in Early
         /\ pc[t] \in {"sdp", "forward"} =>
              /\ UNCHANGED <<state, listed, running>>
              /\ cur'[u] = cur[t] => pc'[u] \in Passing
<1> DEFINE s == cur[t]
<1>1. s \in Sessions /\ s # 0 /\ ThreadStep(u) /\ ThreadType /\ ObjType /\ callId[s] = req[t].call
  BY InvitingMessage, NotIds DEF Steps, IInv, Typed
<1>2. pc[u] \in Passing \cup {"setEnded", "close", "unlist", "response"}
      /\ state[s] \in {"STARTED", "ENDED"}
  BY DEF EarlyOK, Early
<1>3. CASE pc[t] \in {"sdp", "forward"}
  <2>1. pc[u] \in Passing /\ state[s] = "STARTED"
    BY <1>3 DEF EarlyOK
  <2>2. pc[u] \in {"entry", "dispatch", "openTx"} =>
          req[u] \in sent /\ callId[s] = req[u].call
    BY <1>1, InvitingMessage, ConstantsAssumption, Busy
       DEF JInv, HandlerOK, ThreadOK, NeedsMessage, Labels
  <2>3. Passes(u)
    BY <1>1, <1>3, <2>1, <2>2 DEF Passes, TalkInv
  <2>4. UNCHANGED objVars /\ (cur'[u] = s => pc'[u] \in Passing)
    BY <1>1, <2>1, <2>3, PassingStep DEF Passes
  <2> QED BY <1>1, <2>1, <2>4 DEF objVars, Early
<1>4. CASE pc[t] \notin {"sdp", "forward"}
  <2>1. state'[s] \in {"STARTED", "ENDED"}
    <3>1. CASE pc[u] = "setEnded"
      BY <1>1, <3>1, AtStatement DEF SetEnded, SetState, ObjType
    <3>2. CASE pc[u] # "setEnded"
      <4>1. state'[s] = state[s]
        BY <1>1, <1>2, <3>2, StepChanges DEF Changes, SetsState, Passing
      <4> QED BY <1>2, <4>1
    <3> QED BY <3>1, <3>2
  <2>2. cur'[u] = s => pc'[u] \in Early
    <3> USE DEF Early, Passing
    <3>1. CASE pc[u] \in {"entry", "dispatch", "response"}
      <4>1. Entry(u) \/ Dispatch(u) \/ Response(u)
        BY <1>1, <3>1, AtStatement
      <4> QED BY <1>1, <1>2, <4>1 DEF Entry, Dispatch, Response, Goto, ThreadType
    <3>2. CASE pc[u] = "openTx"
      BY <1>1, <3>2, AtStatement, OpenTxOpens
    <3>3. CASE pc[u] \in {"setEnded", "cleanup", "close", "unlist"}
      <4>1. SetEnded(u) \/ Cleanup(u) \/ Close(u) \/ Unlist(u)
        BY <1>1, <3>3, AtStatement
      <4> QED BY <1>1, <4>1 DEF SetEnded, Cleanup, Close, Unlist, Goto, Done, ThreadType
    <3>4. CASE pc[u] \in {"store", "encode", "write"}
      BY <1>1, <3>4, AtStatement DEF Store, Encode, Write, Done, ThreadType
    <3> QED BY <1>2, <3>1, <3>2, <3>3, <3>4
  <2> QED BY <1>4, <2>1, <2>2
<1> QED BY <1>3, <1>4

\* It starts with a new session.
LEMMA FirstInvite ==
  ASSUME IInv, JInv, TxInv, NewInv, NEW t \in Threads, Opens(t), Once(req[t].call)
  PROVE  callId[cur[t]] = NoCall
<1> DEFINE s == cur[t]
<1>1. PICK c \in Calls, n \in Seqs : c = req[t].call /\ n = req[t].seq
  BY MessageFields DEF Opens
<1>2. req[t] \in sent /\ req[t].kind = "INVITE" /\ s \in Sessions /\ tx[c][n] = "none"
  BY <1>1, ConstantsAssumption DEF Opens, JInv, HandlerOK
<1>3. InviteSent(c, n)
  BY <1>1, <1>2 DEF InviteSent
<1>4. ASSUME callId[s] = c PROVE FALSE
  <2>1. inviteTx[s] \in Seqs /\ c # NoCall
    BY <1>2, <1>4, ConstantsAssumption DEF IInv, SessionInv, SessionOK
  <2>2. tx[c][inviteTx[s]] # "none" /\ ~Challenged(c, inviteTx[s])
    BY <1>2, <1>4, <2>1 DEF TxInv
  <2> QED BY <1>1, <1>2, <1>3, <2>1, <2>2, NoOther
<1> QED BY <1>1, <1>4 DEF Opens

LEMMA OpenedEarly ==
  ASSUME IInv, JInv, TxInv, NewInv, NEW t \in Threads, Steps(t), Opens(t), Once(req[t].call)
  PROVE  EarlyOK(t)'
<1> DEFINE s == cur[t]
<1>1. callId[s] = NoCall /\ s \in Sessions /\ state[s] # "none"
  BY FirstInvite, Busy DEF Opens
<1>2. state[s] = "STARTED" /\ s \in listed /\ running[s] = {}
      /\ \A u \in Threads : cur[u] = s => pc[u] \in Passing
  BY <1>1 DEF NewInv, Passes
<1>3. state'[s] = "STARTED" /\ s \in listed' /\ running'[s] = {}
  BY <1>1, <1>2, StepChanges DEF Steps, Opens, Changes, SetsState
<1>4. cur'[t] = s /\ req'[t] = req[t] /\ pc'[t] = "sdp" /\ tx'[req[t].call][req[t].seq] = "open"
      /\ \A u \in Threads \ {t} : pc'[u] = pc[u] /\ cur'[u] = cur[u]
  BY DEF Steps, Opens, Only, Admit
<1> QED BY <1>2, <1>3, <1>4 DEF EarlyOK, Early, Inviting

\* Its own steps.
LEMMA OpenersStep ==
  ASSUME IInv, JInv, NEW t \in Threads, Steps(t), pc[t] \in Inviting, EarlyOK(t),
         pc'[t] \in Inviting
  PROVE  EarlyOK(t)'
<1> USE DEF Inviting
<1>1. cur'[t] = cur[t] /\ req'[t] = req[t] /\ cur[t] \in Sessions
      /\ \A u \in Threads \ {t} : pc'[u] = pc[u] /\ cur'[u] = cur[u]
  BY ComesInviting, InvitingMessage DEF Steps, Only
<1>2. pc[t] # "setInvited" /\ pc'[t] # "sdp" /\ (pc'[t] = "forward" => pc[t] = "sdp")
  BY AtStatement, ComesInviting
     DEF Steps, Opens, SetInvited, Goto, IInv, Typed, ThreadType
<1>3. state'[cur[t]] = state[cur[t]] /\ (cur[t] \in listed' <=> cur[t] \in listed)
  BY <1>1, <1>2, StepChanges DEF Steps, Changes, SetsState
<1>4. tx'[req[t].call][req[t].seq] = "open"
  <2>1. req[t].call \in Calls /\ req[t].seq \in Seqs /\ tx[req[t].call][req[t].seq] = "open"
    BY InvitingMessage DEF EarlyOK
  <2> QED BY <2>1, StepTalks DEF Steps, Talks
<1> QED BY <1>1, <1>2, <1>3, <1>4 DEF EarlyOK, Early

\* The steps of the others.
LEMMA StillEarly ==
  ASSUME IInv, JInv, TxInv, OpenerInv, TalkInv, NEW t \in Threads, pc[t] \in Inviting,
         Once(req[t].call), EarlyOK(t), NEW u \in Threads \ {t}, Steps(u)
  PROVE  EarlyOK(t)'
<1> DEFINE s == cur[t]
<1>1. PICK c \in Calls, n \in Seqs : c = req[t].call /\ n = req[t].seq
  BY InvitingMessage
<1>2. /\ s \in Sessions /\ callId[s] = c /\ inviteTx[s] = n /\ c # NoCall /\ tx[c][n] = "open"
      /\ pc'[t] = pc[t] /\ cur'[t] = s /\ req'[t] = req[t] /\ s # 0
  BY <1>1, InvitingMessage, OpenersSession, ConstantsAssumption, NotIds DEF Steps, Only, EarlyOK
<1>3. \A v \in Threads \ {u} : pc'[v] = pc[v] /\ cur'[v] = cur[v]
  BY DEF Steps, Only
<1>4. CASE cur[u] = s
  <2>1. pc[u] \notin Inviting /\ ~Opens(u) /\ (pc[t] \in {"sdp", "forward"} => ~Talked(c))
    BY <1>1, <1>4, OpenersSession
  <2>2. /\ state'[s] \in {"STARTED", "ENDED"}
        /\ cur'[u] = s => pc'[u] \in Early
        /\ pc[t] \in {"sdp", "forward"} =>
             /\ UNCHANGED <<state, listed, running>>
             /\ cur'[u] = s => pc'[u] \in Passing
    BY <1>1, <1>4, <2>1, OnlookerStep
  <2>3. tx'[c][n] = "open"
    <3>1. pc[u] \in Early
      BY <1>4 DEF EarlyOK
    <3> QED BY <1>2, <3>1, StepTalks DEF Steps, Talks, Early, Passing, Inviting
  <2> QED BY <1>1, <1>2, <1>3, <2>2, <2>3 DEF EarlyOK
<1>5. CASE cur[u] # s
  <2>1. tx'[c][n] = "open"
    <3>1. Talks(u)
      BY StepTalks DEF Steps
    <3>2. pc[u] \in {"answer", "refuse", "refuseInvited"} => cur[u] \in Sessions
      BY Busy
    <3> QED BY <1>2, <1>5, <3>1, <3>2 DEF Talks, TxInv
  <2>2. /\ state'[s] = state[s] /\ (s \in listed => s \in listed') /\ running'[s] = running[s]
        /\ cur'[u] # s
    <3>1. CASE pc[u] # "admit"
      BY <1>2, <1>5, <3>1, StepChanges DEF Steps, Changes, Admit
    <3>2. CASE pc[u] = "admit"
      <4>1. state[s] # "none"
        BY DEF EarlyOK
      <4>2. CASE Admit(u)
        BY <1>2, <4>1, <4>2, AdmitCreates DEF Creates
      <4>3. CASE \E v \in Verdicts : TurnAway(u, v)
        BY <1>2, <4>3 DEF TurnAway, Done, objVars, IInv, Typed, ThreadType
      <4> QED BY <3>2, <4>2, <4>3, AtStatement DEF Steps
    <3> QED BY <3>1, <3>2
  <2> QED BY <1>1, <1>2, <1>3, <2>1, <2>2 DEF EarlyOK
<1> QED BY <1>4, <1>5

\* A message, or an administrator, comes to its session.
LEMMA VisitedEarly ==
  ASSUME IInv, JInv, TxInv, OpenerInv, TalkInv, NEW t \in Threads, pc[t] \in Inviting,
         Once(req[t].call), EarlyOK(t), NEW u \in Threads, Begins(u)
  PROVE  EarlyOK(t)'
<1> DEFINE s == cur[t]
<1>1. /\ UNCHANGED <<tx, objVars>> /\ u # t /\ s # 0
      /\ \A v \in Threads \ {u} : pc'[v] = pc[v] /\ cur'[v] = cur[v] /\ req'[v] = req[v]
  BY InvitingMessage, NotIds DEF Begins, Only, Inviting
<1>2. ASSUME cur'[u] = s
      PROVE  /\ pc'[u] \in Early
             /\ pc[t] \in {"sdp", "forward"} => pc'[u] \in Passing
  <2>1. Joins(u, s)
    BY <1>1, <1>2 DEF Begins
  <2>2. CASE pc'[u] = "response" \/ pc'[u] = "dispatch"
    <3>1. Talked(callId[s])
      BY <2>1, <2>2 DEF Joins, TalkInv, ResponseKinds, RequestKinds
    <3>2. callId[s] = req[t].call
      BY InvitingMessage
    <3> QED BY <2>2, <3>1, <3>2, OpenersSession DEF Early, Passing
  <2>3. CASE pc'[u] \notin {"response", "dispatch"}
    BY <2>1, <2>3 DEF Joins, Early, Passing, EarlyOK
  <2> QED BY <2>2, <2>3
<1> QED BY <1>1, <1>2 DEF EarlyOK, objVars

LEMMA NextEarly ==
  ASSUME IInv, JInv, TxInv, TalkInv, NewInv, OpenerInv, EarlyInv, [Next]_vars
  PROVE  EarlyInv'
<1> SUFFICES ASSUME NEW t \in Threads, pc'[t] \in Inviting, Once(req[t].call)'
             PROVE  EarlyOK(t)'
  BY DEF EarlyInv
<1>1. PICK c \in Calls : c = req'[t].call
  BY NextInv, MessageFields DEF IInv, ThreadInv, ThreadOK, NeedsMessage, Labels, Inviting
<1>2. Once(c)
  <2>1. Once(c)'
    BY <1>1 DEF Once, InviteSent, Challenged
  <2> QED BY <2>1, OnceBefore
<1>3. ASSUME pc'[t] = pc[t], req'[t] = req[t] PROVE EarlyOK(t) /\ Once(req[t].call)
  BY <1>1, <1>2, <1>3 DEF EarlyInv
<1>4. ASSUME UNCHANGED <<tx, objVars, pc, cur, req>> PROVE EarlyOK(t)'
  BY <1>3, <1>4 DEF EarlyOK, objVars
<1>5. ASSUME NEW m \in Messages, Sends(m) PROVE EarlyOK(t)'
  BY <1>4, <1>5 DEF Sends, localVars
<1>6. ASSUME NEW u \in Threads, Begins(u) PROVE EarlyOK(t)'
  <2>1. u # t
    BY <1>6 DEF Begins, Joins, Inviting
  <2>2. pc'[t] = pc[t] /\ req'[t] = req[t]
    BY <1>6, <2>1 DEF Begins, Only
  <2> QED BY <1>3, <1>6, <2>2, VisitedEarly
<1>7. ASSUME NEW u \in Threads \ {t}, Steps(u) PROVE EarlyOK(t)'
  <2>1. pc'[t] = pc[t] /\ req'[t] = req[t]
    BY <1>7 DEF Steps, Only
  <2> QED BY <1>3, <1>7, <2>1, StillEarly
<1>8. ASSUME Steps(t) PROVE EarlyOK(t)'
  <2>1. req'[t] = req[t]
    BY <1>8, ComesInviting
  <2>2. CASE Opens(t)
    BY <1>1, <1>2, <1>8, <2>1, <2>2, OpenedEarly
  <2>3. CASE pc[t] \in Inviting
    <3>1. EarlyOK(t)
      BY <1>1, <1>2, <2>1, <2>3 DEF EarlyInv
    <3> QED BY <1>8, <2>3, <3>1, OpenersStep
  <2> QED BY <1>8, <2>2, <2>3, ComesInviting DEF Inviting
<1>9. UNCHANGED vars => EarlyOK(t)'
  BY <1>4 DEF vars, objVars, netVars, localVars
<1> QED BY <1>5, <1>6, <1>7, <1>8, <1>9, AnyStep

------------------------------------------------------------------------------
(* A session that has left the list is closed.                              *)

ClosedInv ==
  /\ \A s \in Sessions :
       /\ state[s] # "none" /\ s \notin listed => "EndDate" \in dao[s]
       /\ callId[s] # NoCall /\ Once(callId[s]) => running[s] \subseteq {alg[s]}
       /\ callId[s] # NoCall /\ Once(callId[s]) /\ s \notin listed => running[s] = {}
  /\ \A t \in Threads : pc[t] = "unlist" =>
       /\ "EndDate" \in dao[cur[t]]
       /\ Once(callId[cur[t]]) => running[cur[t]] = {}

LEMMA InitClosed == Init => ClosedInv
BY DEF Init, ClosedInv

AdminLabels == {"endInvited", "refuseInvited", "cancelInvited", "endEstablished", "byeBoth"}

\* Where a thread comes from to the statements that end a session.
LEMMA ComesEnding ==
  ASSUME IInv, NEW t \in Threads, Steps(t), pc'[t] \in AdminLabels \cup {"close", "unlist", "reopen"}
  PROVE  /\ cur'[t] = cur[t] /\ cur[t] \in Sessions
         /\ pc'[t] = "close" => pc[t] = "cleanup" /\ state[cur[t]] = "ENDED"
         /\ pc'[t] = "unlist" => pc[t] = "close"
         /\ pc'[t] = "reopen" => pc[t] = "entry" /\ state[cur[t]] = "ESTABLISHED"
         /\ pc'[t] = "refuseInvited" => pc[t] = "endInvited"
         /\ pc'[t] = "cancelInvited" => pc[t] = "refuseInvited"
         /\ pc'[t] = "byeBoth" => pc[t] = "endEstablished"
         /\ pc'[t] \notin {"endInvited", "endEstablished"}
<1> USE DEF AdminLabels
<1>1. ThreadStep(t) /\ ThreadType /\ pc[t] \in Labels
  BY DEF Steps, IInv, Typed, ThreadType
<1>2. pc[t] # "admit"
  BY <1>1, AtStatement DEF Admit, TurnAway, Done, ThreadType
<1>3. cur'[t] = cur[t] /\ cur[t] \in Sessions
  BY <1>1, <1>2, Busy, AtStatement DEF Steps, Admit
<1>4. CASE pc[t] \in {"entry", "reopen", "dispatch"}
  <2>1. Entry(t) \/ Reopen(t) \/ Dispatch(t)
    BY <1>1, <1>4, AtStatement
  <2> QED BY <1>1, <1>3, <2>1 DEF Entry, Reopen, Dispatch, Goto, ThreadType
<1>5. CASE pc[t] \in {"openTx", "sdp", "forward", "trying", "setInvited"}
  <2>1. OpenTx(t) \/ Sdp(t) \/ Forward(t) \/ Trying(t) \/ SetInvited(t)
    BY <1>1, <1>5, AtStatement
  <2> QED BY <1>1, <2>1 DEF OpenTx, Sdp, Forward, Trying, SetInvited, Goto, ThreadType
<1>6. CASE pc[t] \in {"cancel", "cancelForward", "ack", "bye", "setEnded"}
  <2>1. Cancel(t) \/ CancelForward(t) \/ Ack(t) \/ Bye(t) \/ SetEnded(t)
    BY <1>1, <1>6, AtStatement
  <2> QED BY <1>1, <2>1 DEF Cancel, CancelForward, Ack, Bye, SetEnded, Goto, ThreadType
<1>7. CASE pc[t] \in {"response", "ring", "recordRinging", "recordRingTx", "answer", "recordOk", "setEstablished", "refuse"}
  <2>1. \/ Response(t) \/ Ring(t) \/ RecordRinging(t) \/ RecordRingTx(t) \/ Answer(t) \/ RecordOk(t)
        \/ SetEstablished(t) \/ Refuse(t)
    BY <1>1, <1>7, AtStatement
  <2> QED BY <1>1, <2>1 DEF Response, Ring, RecordRinging, RecordRingTx, Answer, RecordOk, SetEstablished,
         Refuse, Goto, Done, ThreadType
<1>8. CASE pc[t] \in {"cleanup", "close", "unlist", "store", "encode", "write"}
  <2>1. Cleanup(t) \/ Close(t) \/ Unlist(t) \/ Store(t) \/ Encode(t) \/ Write(t)
    BY <1>1, <1>8, AtStatement
  <2> QED BY <1>1, <1>3, <2>1 DEF Cleanup, Close, Unlist, Store, Encode, Write, Goto, Done, ThreadType
<1>9. CASE pc[t] \in {"endInvited", "refuseInvited", "cancelInvited", "endEstablished", "byeBoth"}
  <2>1. EndInvited(t) \/ RefuseInvited(t) \/ CancelInvited(t) \/ EndEstablished(t) \/ ByeBoth(t)
    BY <1>1, <1>9, AtStatement
  <2> QED BY <1>1, <1>3, <2>1 DEF EndInvited, RefuseInvited, CancelInvited, EndEstablished, ByeBoth,
         Goto, Done, ThreadType
<1>10. pc[t] # "idle"
  BY <1>1, AtStatement
<1> QED BY <1>1, <1>2, <1>4, <1>5, <1>6, <1>7, <1>8, <1>9, <1>10 DEF Labels

\* A thread at the end of the session's handler knows that it is the call's.
LEMMA EndsCall ==
  ASSUME IInv, NewInv, NEW t \in Threads, pc[t] \in {"close", "unlist"}
  PROVE  cur[t] \in Sessions /\ callId[cur[t]] \in Calls /\ callId[cur[t]] # NoCall
BY Busy DEF NewInv, Passes, Passing, ObjType

\* What a step may do to the channels of a session with a Call-ID.
LEMMA ChannelStep ==
  ASSUME IInv, JInv, TxInv, NewInv, EarlyInv, ClosedInv, NEW t \in Threads, Steps(t), pc[t] # "admit",
         NEW s \in Sessions, callId'[s] \in Calls, Once(callId'[s])
  PROVE  \/ UNCHANGED <<callId[s], alg[s], running[s]>> /\ (s \notin listed' => s \notin listed \/ running[s] = {})
         \/ running'[s] = {}
         \/ running'[s] = {alg'[s]} /\ s \in listed'
            /\ \A u \in Threads : cur[u] = s => pc[u] \in Passing \cup Inviting
<1>1. Changes(t, s) /\ ThreadStep(t) /\ ObjType
  BY StepChanges DEF Steps, IInv, Typed
<1>2. CASE s # cur[t] \/ pc[t] \notin {"openTx", "sdp", "close", "unlist"}
  BY <1>1, <1>2 DEF Changes
<1>3. CASE s = cur[t] /\ pc[t] = "openTx"
  <2>1. CASE Opens(t)
    <3>1. running[s] = {}
      BY <1>3, <2>1, FirstInvite DEF NewInv, Opens
    <3> QED BY <1>1, <1>3, <3>1 DEF Changes
  <2>2. CASE ~Opens(t)
    BY <1>1, <1>3, <2>2, AtStatement, OpenTxOpens DEF objVars
  <2> QED BY <2>1, <2>2
<1>4. CASE s = cur[t] /\ pc[t] = "sdp"
  <2>1. callId'[s] = req[t].call
    BY <1>1, <1>4, InvitingMessage DEF Changes, Inviting
  <2>2. EarlyOK(t)
    BY <1>4, <2>1 DEF EarlyInv, Inviting
  <2>3. running[s] = {} /\ s \in listed /\ \A u \in Threads : cur[u] = s => pc[u] \in Passing \cup Inviting
    BY <1>4, <2>2 DEF EarlyOK
  <2>4. s \in listed'
    BY <1>1, <1>4, <2>3 DEF Changes
  <2>5. running'[s] = {} \/ running'[s] = {alg'[s]}
    BY <1>1, <1>4, <2>3, AtStatement DEF Sdp, ObjType
  <2> QED BY <2>3, <2>4, <2>5
<1>5. CASE s = cur[t] /\ pc[t] = "close"
  <2>1. callId[s] = callId'[s] /\ callId[s] # NoCall
    BY <1>1, <1>5, EndsCall DEF Changes
  <2>2. running[s] \subseteq {alg[s]}
    BY <2>1 DEF ClosedInv
  <2> QED BY <1>1, <1>5, <2>2, AtStatement DEF Close, ObjType
<1>6. CASE s = cur[t] /\ pc[t] = "unlist"
  <2>1. callId[s] = callId'[s] /\ running'[s] = running[s]
    BY <1>1, <1>6 DEF Changes
  <2>2. running[s] = {}
    BY <1>6, <2>1 DEF ClosedInv
  <2> QED BY <2>1, <2>2
<1> QED BY <1>2, <1>3, <1>4, <1>5, <1>6

LEMMA NextClosed ==
  ASSUME IInv, JInv, TxInv, NewInv, EarlyInv, ClosedInv, [Next]_vars
  PROVE  ClosedInv'
<1>1. IInv' /\ ObjType' /\ (\A s \in Sessions : callId'[s] # NoCall => callId'[s] \in Calls)
  BY NextInv DEF IInv, Typed, ObjType
<1>2. ASSUME NEW c \in Calls, Once(c)' PROVE Once(c)
  BY <1>2, OnceBefore
<1>3. ASSUME NEW s \in Sessions, callId'[s] # NoCall, Once(callId[s])'
      PROVE  callId'[s] \in Calls /\ Once(callId'[s])
  <2>1. PICK c \in Calls : c = callId'[s]
    BY <1>1, <1>3
  <2>2. Once(c)'
    BY <1>3, <2>1 DEF Once, InviteSent, Challenged
  <2> QED BY <1>2, <2>1, <2>2
<1>4. ASSUME UNCHANGED <<objVars, dao>>,
             \A t \in Threads : pc'[t] = "unlist" => pc[t] = "unlist" /\ cur'[t] = cur[t]
      PROVE  ClosedInv'
  <2>1. ASSUME NEW t \in Threads, pc'[t] = "unlist", Once(callId[cur[t]])' PROVE Once(callId[cur[t]])
    BY <1>3, <1>4, <2>1, EndsCall DEF objVars
  <2> QED BY <1>3, <1>4, <2>1 DEF ClosedInv, objVars
<1>5. ASSUME NEW m \in Messages, Sends(m) PROVE ClosedInv'
  BY <1>4, <1>5 DEF Sends, localVars, recordVars
<1>6. ASSUME NEW t \in Threads, Begins(t) PROVE ClosedInv'
  <2>1. pc'[t] # "unlist"
    BY <1>6 DEF Begins, Joins
  <2> QED BY <1>4, <1>6, <2>1 DEF Begins, Only, recordVars
<1>7. ASSUME NEW t \in Threads, Steps(t), pc[t] # "admit" PROVE ClosedInv'
  <2>1. \A s \in Sessions : Changes(t, s)
    BY <1>7, StepChanges DEF Steps
  <2>2. ASSUME NEW s \in Sessions, state'[s] # "none", s \notin listed' PROVE "EndDate" \in dao'[s]
    <3>1. CASE s \notin listed
      <4>1. state[s] # "none"
        BY <2>1, <2>2, Busy, AtStatement, <1>7 DEF Changes, SetsState, Steps
      <4> QED BY <2>1, <3>1, <4>1 DEF ClosedInv, Changes
    <3>2. CASE s \in listed
      <4>1. s = cur[t] /\ pc[t] = "unlist"
        BY <2>1, <2>2, <3>2 DEF Changes
      <4> QED BY <2>1, <4>1 DEF ClosedInv, Changes
    <3> QED BY <3>1, <3>2
  <2>3. ASSUME NEW s \in Sessions, callId'[s] # NoCall, Once(callId[s])'
        PROVE  running'[s] \subseteq {alg'[s]} /\ (s \notin listed' => running'[s] = {})
    <3>1. callId'[s] \in Calls /\ Once(callId'[s])
      BY <1>3, <2>3
    <3>2. callId'[s] = callId[s] => running[s] \subseteq {alg[s]} /\ (s \notin listed => running[s] = {})
      BY <2>3, <3>1 DEF ClosedInv
    <3> QED BY <1>7, <3>1, <3>2, ChannelStep
  <2>4. ASSUME NEW u \in Threads, pc'[u] = "unlist"
        PROVE  "EndDate" \in dao'[cur'[u]] /\ (Once(callId[cur[u]])' => running'[cur'[u]] = {})
    <3> DEFINE s == cur[u]
    <3>1. CASE u = t
      <4>1. cur'[t] = s /\ pc[t] = "close" /\ Close(t) /\ RecordType /\ ObjType
        BY <1>7, <2>4, <3>1, ComesEnding, AtStatement DEF Steps, IInv, Typed
      <4>2. s \in Sessions /\ callId[s] # NoCall /\ callId'[s] = callId[s]
        BY <2>1, <3>1, <4>1, EndsCall DEF Changes
      <4>3. "EndDate" \in dao'[s] /\ running'[s] = running[s] \ {alg[s]}
        BY <3>1, <4>1, <4>2 DEF Close, Stamp, RecordType, ObjType
      <4>4. Once(callId[cur[u]])' => Once(callId[s])
        BY <1>3, <3>1, <4>1, <4>2
      <4> QED BY <3>1, <4>1, <4>2, <4>3, <4>4 DEF ClosedInv
    <3>2. CASE u # t
      <4>1. pc[u] = "unlist" /\ cur'[u] = s
        BY <1>7, <2>4, <3>2 DEF Steps, Only
      <4>2. s \in Sessions /\ callId[s] # NoCall /\ callId'[s] = callId[s]
        BY <4>1, EndsCall, KeepsCall
      <4>3. "EndDate" \in dao'[s]
        BY <2>1, <4>1, <4>2 DEF ClosedInv, Changes
      <4>4. ASSUME Once(callId[cur[u]])' PROVE running'[s] = {}
        <5>1. callId'[s] \in Calls /\ Once(callId'[s])
          BY <1>3, <4>1, <4>2, <4>4
        <5>2. running[s] = {}
          BY <4>1, <4>2, <5>1 DEF ClosedInv
        <5> QED BY <1>7, <4>1, <4>2, <5>1, <5>2, ChannelStep DEF Passing, Inviting
      <4> QED BY <4>1, <4>3, <4>4
    <3> QED BY <3>1, <3>2
  <2> QED BY <2>2, <2>3, <2>4 DEF ClosedInv
<1>8. ASSUME NEW t \in Threads, NEW z \in Sessions, Creates(t, z), Only(t) PROVE ClosedInv'
  <2>1. ASSUME NEW u \in Threads, pc'[u] = "unlist"
        PROVE  pc[u] = "unlist" /\ cur'[u] = cur[u]
    BY <1>8, <2>1 DEF Creates, Only
  <2>2. ASSUME NEW u \in Threads, pc'[u] = "unlist", Once(callId[cur[u]])' PROVE Once(callId[cur[u]])
    BY <1>3, <1>8, <2>1, <2>2, EndsCall DEF Creates
  <2>3. callId[z] = NoCall
    BY <1>8 DEF Creates, IInv, SessionInv, SessionOK
  <2> QED BY <1>3, <1>8, <2>1, <2>2, <2>3 DEF ClosedInv, Creates
<1>9. ASSUME NEW t \in Threads, Steps(t), pc[t] = "admit" PROVE ClosedInv'
  <2>1. CASE \E v \in Verdicts : TurnAway(t, v)
    BY <1>4, <1>9, <2>1 DEF TurnAway, Done, recordVars, IInv, Typed, ThreadType
  <2> QED BY <1>8, <1>9, <2>1, AtStatement, AdmitCreates DEF Steps
<1>10. UNCHANGED vars => ClosedInv'
  BY <1>4 DEF vars, localVars, recordVars
<1> QED BY <1>5, <1>6, <1>7, <1>9, <1>10, AnyStep

ListInv == IInv /\ JInv /\ TxInv /\ TalkInv /\ NewInv /\ OpenerInv /\ EarlyInv /\ ClosedInv

LEMMA AlwaysListInv == Spec => []ListInv
<1>1. Init => ListInv
  BY InitInv, JInit, InitTx, InitTalk, InitNew, InitOpener, InitEarly, InitClosed DEF ListInv
<1>2. ListInv /\ [Next]_vars => ListInv'
  BY NextInv, JNext, NextTx, NextTalk, NextNew, NextOpener, NextEarly, NextClosed DEF ListInv
<1> QED BY <1>1, <1>2, PTL DEF Spec

\* A session that has left the list and that no thread serves has an end date in its
\* record and, while the caller has sent no re-INVITE, no running channel
\* (SipCall!UnlistedIsClosed, SipSession.java:516-521).
THEOREM UnlistedClosed == Spec => [](NoReinvite => UnlistedIsClosed)
<1>1. ListInv => (NoReinvite => UnlistedIsClosed)
  <2> SUFFICES ASSUME ListInv, NoReinvite, NEW s \in Sessions, state[s] # "none", s \notin listed
               PROVE  running[s] = {} /\ "EndDate" \in dao[s]
    BY DEF UnlistedIsClosed
  <2>1. callId[s] # NoCall
    BY DEF ListInv, NewInv
  <2>2. callId[s] \in Calls
    BY <2>1 DEF ListInv, IInv, Typed, ObjType
  <2> QED BY <2>1, <2>2 DEF ListInv, ClosedInv, NoReinvite
<1> QED BY AlwaysListInv, <1>1, PTL

\* Both hold outright when a caller sends but one INVITE.
COROLLARY OneInvite == ASSUME MaxSeq = 1
                       PROVE  Spec => [](OneSessionPerCall /\ UnlistedIsClosed)
<1>1. NoReinvite
  BY DEF NoReinvite, Once, Seqs
<1> QED BY OneSession, UnlistedClosed, <1>1, PTL

\* The end date does not depend on that: no session leaves the list without one.
Dated == \A s \in Sessions : state[s] # "none" /\ s \notin listed => "EndDate" \in dao[s]

THEOREM UnlistedHasEndDate == Spec => []Dated
<1>1. ListInv => Dated
  BY DEF ListInv, ClosedInv, Dated
<1> QED BY AlwaysListInv, <1>1, PTL

------------------------------------------------------------------------------
(* An ended session leaves the list, unless terminate failed on it.         *)

\* terminate has failed on the session, or is excused.
Failed(s) == Admins # {} /\ (Answered(s) \/ "RINGING" \in last[s])

\* The 503 of terminate could not be sent.
Unsaid(s) == Admins # {} /\ "response" \in Faults /\ TxIs(s, "open")

\* A thread is going to take the session off the list ...
Leaving(s) ==
  \E t \in Threads :
    /\ cur[t] = s
    /\ \/ pc[t] \in {"setEnded", "close", "unlist"}
       \/ pc[t] \in {"cleanup", "cancelInvited"} /\ state[s] = "ENDED"

\* ... or is trying to.
Departing(s) ==
  \E t \in Threads :
    /\ cur[t] = s
    /\ pc[t] \in {"setEnded", "cleanup", "close", "unlist", "refuseInvited", "cancelInvited", "byeBoth"}

\* The caller's INVITE was refused.
Refused(s) == callId[s] # NoCall /\ ~Answered(s) /\ tx[callId[s]][inviteTx[s]] = "refused"

EndInv ==
  /\ \A t \in Threads :
       /\ pc[t] \in AdminLabels => t \in Admins
       /\ pc[t] \in {"reopen", "endEstablished", "byeBoth"} => Answered(cur[t])
       /\ pc[t] = "refuseInvited" => Answered(cur[t]) \/ state[cur[t]] = "ENDED"
  /\ \A s \in Sessions :
       /\ Refused(s) /\ s \in listed => Failed(s) \/ Leaving(s)
       /\ state[s] = "ENDED" /\ s \in listed => Failed(s) \/ Departing(s) \/ Unsaid(s)

LEMMA InitEnd == Init => EndInv
BY DEF Init, EndInv, AdminLabels, Refused

LEMMA KeepsAnswered ==
  ASSUME IInv, JInv, [Next]_vars, NEW s \in Sessions, Answered(s)
  PROVE  Answered(s)' /\ callId'[s] = callId[s]
<1>1. PICK n \in Seqs : tx[callId[s]][n] = "answered"
  BY DEF Answered
<1>2. callId[s] \in Calls /\ callId[s] # NoCall /\ callId'[s] = callId[s]
  BY KeepsCall DEF Answered, IInv, Typed, ObjType
<1>3. CASE UNCHANGED tx
  BY <1>1, <1>2, <1>3 DEF Answered
<1>4. ASSUME NEW t \in Threads, Steps(t) PROVE tx'[callId[s]][n] = "answered"
  BY <1>1, <1>2, <1>4, StepTalks DEF Steps, Talks
<1> QED BY <1>1, <1>2, <1>3, <1>4, AnyStep DEF Answered, Sends, Begins, vars, netVars

LEMMA KeepsFailed ==
  ASSUME IInv, JInv, [Next]_vars, NEW s \in Sessions, Failed(s)
  PROVE  Failed(s)'
<1>1. last[s] \subseteq last'[s]
  <2>1. CASE UNCHANGED last
    BY <2>1
  <2>2. ASSUME NEW t \in Threads, Steps(t) PROVE last[s] \subseteq last'[s]
    <3>1. CASE pc[t] # "admit"
      BY <2>2, <3>1, StepChanges DEF Steps, Changes
    <3>2. CASE pc[t] = "admit"
      BY <2>1, <2>2, <3>2, AtStatement DEF Steps, Admit, TurnAway, objVars
    <3> QED BY <3>1, <3>2
  <2> QED BY <2>1, <2>2, AnyStep DEF Sends, Begins, vars, objVars
<1> QED BY <1>1, KeepsAnswered DEF Failed

\* Only the thread that offers its INVITE takes an unanswered session back from its end.
LEMMA StaysEnded ==
  ASSUME ListInv, EndInv, [Next]_vars, NEW s \in Sessions, state[s] = "ENDED", ~Answered(s)
  PROVE  \/ state'[s] = "ENDED"
         \/ /\ tx[callId[s]][inviteTx[s]] = "open"
            /\ \A u \in Threads : cur[u] = s => pc[u] \in Early
<1> USE DEF ListInv
<1>1. CASE UNCHANGED state
  BY <1>1
<1>2. ASSUME NEW t \in Threads, Steps(t), pc[t] = "admit" PROVE state'[s] = "ENDED"
  <2>1. CASE Admit(t)
    BY <2>1, AdmitCreates DEF Creates
  <2> QED BY <1>1, <1>2, <2>1, AtStatement DEF Steps, TurnAway, objVars
<1>3. ASSUME NEW t \in Threads, Steps(t), pc[t] # "admit", state'[s] # "ENDED"
      PROVE  /\ tx[callId[s]][inviteTx[s]] = "open"
             /\ \A u \in Threads : cur[u] = s => pc[u] \in Early
  <2>1. s = cur[t] /\ pc[t] \in SetsState
    BY <1>3, StepChanges DEF Steps, Changes
  <2>2. pc[t] \notin {"reopen", "setEstablished"}
    BY <2>1 DEF EndInv, IInv, ThreadInv, ThreadOK
  <2>3. pc[t] \notin {"setEnded", "endInvited", "endEstablished"}
    BY <1>3, <2>1, AtStatement DEF Steps, SetEnded, EndInvited, EndEstablished, SetState,
       IInv, Typed, ObjType
  <2>4. pc[t] \in Inviting
    BY <2>1, <2>2, <2>3 DEF SetsState, Inviting
  <2>5. callId[s] = req[t].call /\ callId[s] \in Calls /\ callId[s] # NoCall
    BY <2>1, <2>4, InvitingMessage, ConstantsAssumption
  <2>6. Once(req[t].call)
    BY <2>5, UnansweredOnce DEF Answered
  <2>7. EarlyOK(t) /\ inviteTx[s] = req[t].seq
    BY <2>1, <2>4, <2>6, OpenersSession DEF EarlyInv
  <2> QED BY <2>1, <2>5, <2>7 DEF EarlyOK
<1> QED BY <1>1, <1>2, <1>3, AnyStep DEF Sends, Begins, vars, objVars

\* What a thread has learnt of its session.
LEMMA EndLabels ==
  ASSUME ListInv, EndInv, [Next]_vars, NEW u \in Threads
  PROVE  /\ pc'[u] \in AdminLabels => u \in Admins
         /\ pc'[u] \in {"reopen", "endEstablished", "byeBoth"} => Answered(cur[u])'
         /\ pc'[u] = "refuseInvited" => Answered(cur[u])' \/ state'[cur'[u]] = "ENDED"
<1> USE DEF ListInv
<1>1. ASSUME pc'[u] = pc[u], cur'[u] = cur[u], pc[u] \in AdminLabels \cup {"reopen"}
      PROVE  /\ pc'[u] \in AdminLabels => u \in Admins
             /\ pc'[u] \in {"reopen", "endEstablished", "byeBoth"} => Answered(cur[u])'
             /\ pc'[u] = "refuseInvited" => Answered(cur[u])' \/ state'[cur'[u]] = "ENDED"
  <2>1. PICK s \in Sessions : s = cur[u]
    BY <1>1, Busy DEF AdminLabels
  <2>2. Answered(s) => Answered(cur[u])'
    BY <1>1, <2>1, KeepsAnswered DEF Answered
  <2>3. pc[u] = "refuseInvited" /\ ~Answered(s) => state'[s] = "ENDED"
    BY <2>1, StaysEnded DEF EndInv, Early, Passing, Inviting
  <2> QED BY <1>1, <2>1, <2>2, <2>3 DEF EndInv
<1>2. ASSUME NEW s \in Sessions, state[s] = "ESTABLISHED", cur'[u] = s PROVE Answered(cur[u])'
  <2>1. Answered(s)
    BY <1>2 DEF IInv, SessionInv, SessionOK
  <2>2. Answered(s)'
    BY <2>1, KeepsAnswered
  <2> QED BY <1>2, <2>2 DEF Answered
<1>3. ASSUME NEW t \in Threads, Begins(t)
      PROVE  /\ pc'[u] \in AdminLabels => u \in Admins
             /\ pc'[u] \in {"reopen", "endEstablished", "byeBoth"} => Answered(cur[u])'
             /\ pc'[u] = "refuseInvited" => Answered(cur[u])' \/ state'[cur'[u]] = "ENDED"
  <2>1. CASE u # t
    BY <1>1, <1>3, <2>1 DEF Begins, Only, AdminLabels
  <2>2. CASE u = t
    <3>1. listed \subseteq Sessions
      BY DEF IInv, Typed, ObjType
    <3> QED BY <1>2, <1>3, <2>2, <3>1 DEF Begins, Joins, AdminLabels
  <2> QED BY <2>1, <2>2
<1>4. ASSUME NEW t \in Threads, Steps(t)
      PROVE  /\ pc'[u] \in AdminLabels => u \in Admins
             /\ pc'[u] \in {"reopen", "endEstablished", "byeBoth"} => Answered(cur[u])'
             /\ pc'[u] = "refuseInvited" => Answered(cur[u])' \/ state'[cur'[u]] = "ENDED"
  <2>1. CASE u # t
    BY <1>1, <1>4, <2>1 DEF Steps, Only, AdminLabels
  <2>2. CASE u = t
    <3>1. pc'[t] \in AdminLabels => t \in Admins
      BY <1>4, ComesEnding DEF EndInv, AdminLabels
    <3>2. pc'[t] = "reopen" => Answered(cur[t])'
      BY <1>2, <1>4, <2>2, ComesEnding
    <3>3. pc'[t] \in {"endEstablished", "byeBoth"} => Answered(cur[t])'
      <4>1. SUFFICES ASSUME pc'[t] = "byeBoth" PROVE Answered(cur[t])'
        BY <1>4, ComesEnding DEF AdminLabels
      <4>2. PICK s \in Sessions : s = cur[t] /\ cur'[t] = s /\ pc[t] = "endEstablished"
        BY <1>4, <4>1, ComesEnding DEF AdminLabels
      <4>3. Answered(s)'
        BY <4>2, KeepsAnswered DEF EndInv
      <4> QED BY <4>2, <4>3 DEF Answered
    <3>4. pc'[t] = "refuseInvited" => state'[cur'[t]] = "ENDED"
      <4>1. SUFFICES ASSUME pc'[t] = "refuseInvited" PROVE state'[cur'[t]] = "ENDED"
        OBVIOUS
      <4>2. cur'[t] = cur[t] /\ cur[t] \in Sessions /\ pc[t] = "endInvited"
        BY <1>4, <4>1, ComesEnding DEF AdminLabels
      <4> QED BY <1>4, <4>2, AtStatement DEF Steps, EndInvited, SetState, IInv, Typed, ObjType
    <3> QED BY <2>2, <3>1, <3>2, <3>3, <3>4
  <2> QED BY <2>1, <2>2
<1>5. ASSUME UNCHANGED <<pc, cur>>
      PROVE  /\ pc'[u] \in AdminLabels => u \in Admins
             /\ pc'[u] \in {"reopen", "endEstablished", "byeBoth"} => Answered(cur[u])'
             /\ pc'[u] = "refuseInvited" => Answered(cur[u])' \/ state'[cur'[u]] = "ENDED"
  BY <1>1, <1>5 DEF AdminLabels
<1> QED BY <1>3, <1>4, <1>5, AnyStep DEF Sends, localVars, vars

\* The INVITE of a session is refused by the thread that ends the session then.
LEMMA BecomesRefused ==
  ASSUME ListInv, EndInv, [Next]_vars, NEW t \in Threads, Steps(t), pc[t] # "admit",
         NEW s \in Sessions, Refused(s)', ~Refused(s)
  PROVE  Leaving(s)'
<1> USE DEF ListInv
<1>1. Changes(t, s) /\ Talks(t) /\ ThreadStep(t) /\ ThreadType
  BY StepChanges, StepTalks DEF Steps, IInv, Typed
<1>2. callId'[s] \in Calls /\ inviteTx'[s] \in Seqs /\ callId'[s] # NoCall
  BY NextInv, ConstantsAssumption DEF Refused, IInv, Typed, ObjType, SessionInv, SessionOK
<1>3. ~Answered(s)
  BY KeepsAnswered DEF Refused
<1>4. ~(s = cur[t] /\ Opens(t))
  BY DEF Opens, Refused
<1>5. callId'[s] = callId[s] /\ inviteTx'[s] = inviteTx[s]
  BY <1>1, <1>4, AtStatement, OpenTxOpens DEF Changes, objVars
<1>6. tx'[callId[s]][inviteTx[s]] = "refused" /\ tx[callId[s]][inviteTx[s]] # "refused"
  BY <1>2, <1>3, <1>5 DEF Refused
<1>7. tx[callId[s]][inviteTx[s]] # "none"
  BY <1>2, <1>5 DEF TxInv
<1>8. pc[t] \in {"refuse", "refuseInvited"} /\ callId[s] = callId[cur[t]] /\ inviteTx[s] = inviteTx[cur[t]]
  BY <1>1, <1>2, <1>5, <1>6, <1>7 DEF Talks
<1>9. s = cur[t]
  BY <1>2, <1>5, <1>8, Busy DEF TxInv
<1>10. CASE pc[t] = "refuse"
  <2>1. Goto(t, "setEnded")
    BY <1>1, <1>6, <1>10, AtStatement DEF Refuse, netVars
  <2> QED BY <1>1, <1>9, <2>1 DEF Goto, localVars, ThreadType, Leaving
<1>11. CASE pc[t] = "refuseInvited"
  <2>1. Goto(t, "cancelInvited") /\ UNCHANGED objVars
    BY <1>1, <1>6, <1>11, AtStatement DEF RefuseInvited, netVars
  <2>2. state[s] = "ENDED"
    BY <1>3, <1>9, <1>11 DEF EndInv
  <2> QED BY <1>1, <1>9, <2>1, <2>2 DEF Goto, localVars, ThreadType, Leaving, objVars
<1> QED BY <1>8, <1>10, <1>11

\* A thread that is about to take a session off the list does it, or fails at it.
LEMMA GoesOnLeaving ==
  ASSUME ListInv, EndInv, NEW t \in Threads, Steps(t), NEW s \in Sessions, cur[t] = s, s \in listed',
         \/ pc[t] \in {"setEnded", "close", "unlist"}
         \/ pc[t] \in {"cleanup", "cancelInvited"} /\ state[s] = "ENDED"
  PROVE  \/ Failed(s)
         \/ /\ cur'[t] = s
            /\ \/ pc'[t] \in {"close", "unlist"}
               \/ pc'[t] = "cleanup" /\ state'[s] = "ENDED"
<1>1. ThreadStep(t) /\ ThreadType /\ ObjType
  BY DEF Steps, ListInv, IInv, Typed
<1>2. CASE pc[t] = "setEnded"
  BY <1>1, <1>2, AtStatement DEF SetEnded, SetState, Goto, localVars, ThreadType, ObjType
<1>3. CASE pc[t] \in {"close", "cleanup"}
  BY <1>1, <1>3, AtStatement DEF Close, Cleanup, Goto, localVars, ThreadType
<1>4. CASE pc[t] = "unlist"
  BY <1>1, <1>4, AtStatement DEF Unlist
<1>5. CASE pc[t] = "cancelInvited" /\ state[s] = "ENDED"
  <2>1. CASE Goto(t, "cleanup") /\ UNCHANGED objVars
    BY <1>1, <1>5, <2>1 DEF Goto, localVars, ThreadType, objVars
  <2>2. CASE HalfRung(s) \/ CancelOnward(s) # {}
    BY <1>5, <2>2 DEF EndInv, AdminLabels, CancelOnward, HalfRung, Failed
  <2> QED BY <1>1, <1>5, <2>1, <2>2, AtStatement DEF CancelInvited
<1> QED BY <1>2, <1>3, <1>4, <1>5

LEMMA StaysLeaving ==
  ASSUME ListInv, EndInv, [Next]_vars, NEW t \in Threads, Steps(t),
         NEW s \in Sessions, Refused(s), s \in listed', Leaving(s)
  PROVE  Failed(s) \/ Leaving(s)'
<1>1. PICK u \in Threads :
        /\ cur[u] = s
        /\ \/ pc[u] \in {"setEnded", "close", "unlist"}
           \/ pc[u] \in {"cleanup", "cancelInvited"} /\ state[s] = "ENDED"
  BY DEF Leaving
<1>2. CASE u = t
  BY <1>1, <1>2, GoesOnLeaving DEF Leaving
<1>3. CASE u # t
  <2>1. pc'[u] = pc[u] /\ cur'[u] = s
    BY <1>1, <1>3 DEF Steps, Only
  <2>2. state[s] = "ENDED" => state'[s] = "ENDED"
    BY StaysEnded DEF Refused
  <2> QED BY <1>1, <2>1, <2>2 DEF Leaving
<1> QED BY <1>2, <1>3

LEMMA WasListed ==
  ASSUME ListInv, NEW t \in Threads, Steps(t), pc[t] # "admit", NEW s \in Sessions, s \in listed'
  PROVE  s \in listed
<1>1. CASE pc[t] = "unlist"
  BY <1>1, AtStatement DEF Steps, Unlist
<1>2. CASE pc[t] # "unlist"
  BY <1>2, StepChanges DEF Steps, Changes, ListInv
<1> QED BY <1>1, <1>2

LEMMA RefusedLeaves ==
  ASSUME ListInv, EndInv, [Next]_vars, NEW t \in Threads, Steps(t), pc[t] # "admit",
         NEW s \in Sessions, Refused(s)', s \in listed'
  PROVE  Failed(s)' \/ Leaving(s)'
<1>1. CASE ~Refused(s)
  BY <1>1, BecomesRefused
<1>2. CASE Refused(s)
  <2>1. s \in listed
    BY WasListed
  <2>2. Failed(s) \/ Leaving(s)
    BY <1>2, <2>1 DEF EndInv
  <2> QED BY <1>2, <2>2, StaysLeaving, KeepsFailed DEF ListInv
<1> QED BY <1>1, <1>2

LEMMA BecomesEnded ==
  ASSUME ListInv, NEW t \in Threads, Steps(t), pc[t] # "admit",
         NEW s \in Sessions, state[s] # "ENDED", state'[s] = "ENDED"
  PROVE  Departing(s)'
<1>1. ThreadStep(t) /\ ThreadType /\ ObjType /\ Changes(t, s)
  BY StepChanges DEF Steps, ListInv, IInv, Typed
<1>2. s = cur[t] /\ pc[t] \in SetsState
  BY <1>1 DEF Changes
<1>3. pc[t] \notin {"reopen", "setInvited", "setEstablished"}
  BY <1>1, <1>2, AtStatement DEF Reopen, SetInvited, SetEstablished, SetState, ObjType
<1>4. CASE pc[t] = "setEnded"
  BY <1>1, <1>2, <1>4, AtStatement DEF SetEnded, Goto, localVars, ThreadType, Departing
<1>5. CASE pc[t] \in {"endInvited", "endEstablished"}
  BY <1>1, <1>2, <1>5, AtStatement DEF EndInvited, EndEstablished, Goto, localVars, ThreadType, Departing
<1> QED BY <1>2, <1>3, <1>4, <1>5 DEF SetsState

\* The 503 of terminate: it goes out, it cannot be sent, or the caller has his final
\* response.
LEMMA TriesToRefuse ==
  ASSUME ListInv, EndInv, NEW t \in Threads, Steps(t), NEW s \in Sessions, cur[t] = s, s \in listed,
         pc[t] = "refuseInvited"
  PROVE  Failed(s) \/ Departing(s)' \/ Unsaid(s)'
<1>1. ThreadStep(t) /\ ThreadType /\ HasTx(s) /\ callId[s] # NoCall /\ t \in Admins
  BY TxOfCur DEF Steps, ListInv, IInv, Typed, EndInv, AdminLabels, NeedsTx
<1>2. CASE Goto(t, "cancelInvited")
  BY <1>1, <1>2 DEF Goto, localVars, ThreadType, Departing
<1>3. CASE TxIs(s, "open") /\ "response" \in Faults /\ UNCHANGED <<objVars, netVars>>
  BY <1>1, <1>3 DEF Unsaid, TxIs, objVars, netVars
<1>4. CASE ~TxIs(s, "open")
  <2>1. tx[callId[s]][inviteTx[s]] \in {"answered", "refused"}
    <3>1. tx[callId[s]][inviteTx[s]] # "none"
      BY <1>1 DEF ListInv, TxInv
    <3>2. tx[callId[s]][inviteTx[s]] # "open"
      BY <1>1, <1>4, NotIds DEF TxIs, HasTx
    <3> QED BY <1>1, <3>1, <3>2 DEF ListInv, IInv, Typed, NetType, HasTx
  <2>2. CASE Answered(s)
    BY <1>1, <2>2 DEF Failed
  <2>3. CASE ~Answered(s)
    <3>1. Refused(s)
      BY <1>1, <2>1, <2>3 DEF Refused, Answered, HasTx
    <3>2. Failed(s) \/ Leaving(s)
      BY <3>1 DEF EndInv
    <3>3. ASSUME Leaving(s) PROVE Departing(s)'
      <4>1. PICK u \in Threads : cur[u] = s /\ pc[u] \in {"setEnded", "close", "unlist", "cleanup", "cancelInvited"}
        BY <3>3 DEF Leaving
      <4>2. pc'[u] = pc[u] /\ cur'[u] = cur[u]
        BY <4>1 DEF Steps, Only
      <4> QED BY <4>1, <4>2 DEF Departing
    <3> QED BY <3>2, <3>3
  <2> QED BY <2>2, <2>3
<1> QED BY <1>1, <1>2, <1>3, <1>4, AtStatement DEF RefuseInvited, CannotRespond

\* Whoever gives the caller a final response at last also ends the call.
LEMMA UnsaidLeaves ==
  ASSUME ListInv, EndInv, [Next]_vars, NEW t \in Threads, Steps(t), pc[t] # "admit",
         NEW s \in Sessions, Unsaid(s)
  PROVE  Failed(s)' \/ Departing(s)' \/ Unsaid(s)'
<1> USE DEF ListInv
<1>1. Changes(t, s) /\ Talks(t) /\ ThreadStep(t) /\ IInv'
  BY StepChanges, StepTalks, NextInv DEF Steps
<1>2. tx[callId[s]][inviteTx[s]] = "open" /\ callId[s] # NoCall /\ inviteTx[s] # 0
  BY DEF Unsaid, TxIs
<1>3. callId[s] \in Calls /\ inviteTx[s] \in Seqs
  BY <1>2 DEF IInv, Typed, ObjType
<1>4. CASE s = cur[t] /\ pc[t] = "openTx"
  <2>1. Opens(t) \/ UNCHANGED <<objVars, netVars>>
    BY <1>1, <1>4, AtStatement, OpenTxOpens
  <2>2. TxIs(s, "open")'
    <3>1. CASE UNCHANGED <<objVars, netVars>>
      BY <1>2, <3>1 DEF TxIs, objVars, netVars
    <3>2. CASE Opens(t)
      BY <1>1, <1>4, <3>2, ConstantsAssumption, NotIds, MessageFields DEF Opens, TxIs
    <3> QED BY <2>1, <3>1, <3>2
  <2> QED BY <2>2 DEF Unsaid
<1>5. CASE ~(s = cur[t] /\ pc[t] = "openTx")
  <2>1. callId'[s] = callId[s] /\ inviteTx'[s] = inviteTx[s]
    BY <1>1, <1>5 DEF Changes
  <2>2. CASE tx'[callId[s]][inviteTx[s]] = "open"
    BY <1>2, <2>1, <2>2 DEF Unsaid, TxIs
  <2>3. CASE tx'[callId[s]][inviteTx[s]] = "answered"
    BY <1>2, <1>3, <2>1, <2>3 DEF Unsaid, Failed, Answered
  <2>4. CASE tx'[callId[s]][inviteTx[s]] = "refused"
    <3>1. CASE Answered(s)'
      BY <3>1 DEF Unsaid, Failed
    <3>2. CASE ~Answered(s)'
      <4>1. Refused(s)' /\ ~Refused(s)
        BY <1>2, <2>1, <2>4, <3>2 DEF Refused
      <4> QED BY <4>1, BecomesRefused DEF Leaving, Departing
    <3> QED BY <3>1, <3>2
  <2> QED BY <1>1, <1>2, <1>3, <2>2, <2>3, <2>4 DEF Talks
<1> QED BY <1>4, <1>5

LEMMA EndedDeparts ==
  ASSUME ListInv, EndInv, [Next]_vars, NEW t \in Threads, Steps(t), pc[t] # "admit",
         NEW s \in Sessions, state'[s] = "ENDED", s \in listed'
  PROVE  Failed(s)' \/ Departing(s)' \/ Unsaid(s)'
<1>1. s \in listed
  BY WasListed
<1>2. CASE state[s] # "ENDED"
  BY <1>2, BecomesEnded
<1>3. CASE state[s] = "ENDED"
  <2>1. Failed(s) \/ Departing(s) \/ Unsaid(s)
    BY <1>1, <1>3 DEF EndInv
  <2>2. Failed(s) => Failed(s)'
    BY KeepsFailed DEF ListInv
  <2>3. ASSUME Departing(s) PROVE Failed(s) \/ Departing(s)' \/ Unsaid(s)'
    <3>1. PICK u \in Threads :
            /\ cur[u] = s
            /\ pc[u] \in {"setEnded", "cleanup", "close", "unlist", "refuseInvited", "cancelInvited", "byeBoth"}
      BY <2>3 DEF Departing
    <3>2. CASE u # t
      BY <3>1, <3>2 DEF Steps, Only, Departing
    <3>3. CASE u = t /\ pc[t] \in {"setEnded", "cleanup", "close", "unlist", "cancelInvited"}
      BY <1>3, <3>1, <3>3, GoesOnLeaving DEF Departing
    <3>4. CASE u = t /\ pc[t] = "refuseInvited"
      BY <1>1, <3>1, <3>4, TriesToRefuse
    <3>5. CASE u = t /\ pc[t] = "byeBoth"
      BY <3>1, <3>5 DEF EndInv, AdminLabels, Failed
    <3> QED BY <3>1, <3>2, <3>3, <3>4, <3>5
  <2> QED BY <2>1, <2>2, <2>3, UnsaidLeaves
<1> QED BY <1>2, <1>3

LEMMA NextEnd ==
  ASSUME ListInv, EndInv, [Next]_vars
  PROVE  EndInv'
<1> USE DEF ListInv
<1>1. ASSUME NEW u \in Threads
      PROVE  /\ pc'[u] \in AdminLabels => u \in Admins
             /\ pc'[u] \in {"reopen", "endEstablished", "byeBoth"} => Answered(cur[u])'
             /\ pc'[u] = "refuseInvited" => Answered(cur[u])' \/ state'[cur'[u]] = "ENDED"
  BY EndLabels
<1>2. ASSUME UNCHANGED objVars, UNCHANGED tx, NEW t \in Threads, pc[t] \in {"idle", "admit"},
             \A u \in Threads \ {t} : pc'[u] = pc[u] /\ cur'[u] = cur[u], NEW s \in Sessions
      PROVE  /\ Refused(s)' /\ s \in listed' => Failed(s)' \/ Leaving(s)'
             /\ state'[s] = "ENDED" /\ s \in listed' => Failed(s)' \/ Departing(s)' \/ Unsaid(s)'
  <2>1. Refused(s)' <=> Refused(s)
    BY <1>2 DEF Refused, Answered, objVars
  <2>2. Leaving(s) => Leaving(s)'
    BY <1>2 DEF Leaving, objVars
  <2>3. Departing(s) => Departing(s)'
    BY <1>2 DEF Departing
  <2>4. (Failed(s) => Failed(s)') /\ (Unsaid(s) => Unsaid(s)')
    BY <1>2, KeepsFailed DEF Unsaid, TxIs, objVars
  <2> QED BY <1>2, <2>1, <2>2, <2>3, <2>4 DEF EndInv, objVars
<1>3. ASSUME UNCHANGED <<objVars, tx, pc, cur>>, NEW s \in Sessions
      PROVE  /\ Refused(s)' /\ s \in listed' => Failed(s)' \/ Leaving(s)'
             /\ state'[s] = "ENDED" /\ s \in listed' => Failed(s)' \/ Departing(s)' \/ Unsaid(s)'
  BY <1>3 DEF EndInv, Refused, Answered, Failed, Unsaid, TxIs, Leaving, Departing, objVars
<1>4. ASSUME NEW t \in Threads, NEW z \in Sessions, Creates(t, z), Only(t), NEW s \in Sessions
      PROVE  /\ Refused(s)' /\ s \in listed' => Failed(s)' \/ Leaving(s)'
             /\ state'[s] = "ENDED" /\ s \in listed' => Failed(s)' \/ Departing(s)' \/ Unsaid(s)'
  <2>1. CASE s = z
    BY <1>4, <2>1 DEF Creates, Refused, IInv, SessionInv, SessionOK
  <2>2. CASE s # z
    <3>1. (Refused(s)' <=> Refused(s)) /\ state'[s] = state[s] /\ (s \in listed' <=> s \in listed)
      BY <1>4, <2>2 DEF Creates, Refused, Answered
    <3>2. \A u \in Threads \ {t} : pc'[u] = pc[u] /\ cur'[u] = cur[u]
      BY <1>4 DEF Only
    <3>3. pc[t] = "admit"
      BY <1>4 DEF Creates
    <3>4. (Leaving(s) => Leaving(s)') /\ (Departing(s) => Departing(s)')
      BY <3>1, <3>2, <3>3 DEF Leaving, Departing
    <3>5. Unsaid(s) => Unsaid(s)'
      BY <1>4 DEF Creates, Unsaid, TxIs
    <3> QED BY <3>1, <3>4, <3>5, KeepsFailed DEF EndInv
  <2> QED BY <2>1, <2>2
<1>5. ASSUME NEW s \in Sessions
      PROVE  /\ Refused(s)' /\ s \in listed' => Failed(s)' \/ Leaving(s)'
             /\ state'[s] = "ENDED" /\ s \in listed' => Failed(s)' \/ Departing(s)' \/ Unsaid(s)'
  <2>1. CASE \E m \in Messages : Sends(m)
    BY <1>3, <2>1 DEF Sends, localVars
  <2>2. CASE \E t \in Threads : Begins(t)
    BY <1>2, <2>2 DEF Begins, Only
  <2>3. ASSUME NEW t \in Threads, Steps(t), pc[t] = "admit"
        PROVE  /\ Refused(s)' /\ s \in listed' => Failed(s)' \/ Leaving(s)'
               /\ state'[s] = "ENDED" /\ s \in listed' => Failed(s)' \/ Departing(s)' \/ Unsaid(s)'
    <3>1. CASE Admit(t)
      BY <1>4, <2>3, <3>1, AdmitCreates DEF Steps
    <3>2. CASE \E v \in Verdicts : TurnAway(t, v)
      <4>1. /\ UNCHANGED objVars /\ \A u \in Threads \ {t} : pc'[u] = pc[u] /\ cur'[u] = cur[u]
        BY <2>3, <3>2 DEF TurnAway, Steps, Only
      <4>2. Refused(s)' => Refused(s)
        <5>1. SUFFICES ASSUME Refused(s)' PROVE Refused(s)
          OBVIOUS
        <5>2. callId[s] # NoCall /\ callId[s] \in Calls /\ inviteTx[s] \in Seqs
          BY <4>1, <5>1 DEF Refused, objVars, IInv, Typed, ObjType, SessionInv, SessionOK
        <5>3. tx[callId[s]][inviteTx[s]] # "none"
          BY <5>2 DEF TxInv
        <5>4. tx'[callId[s]][inviteTx[s]] = tx[callId[s]][inviteTx[s]]
          BY <2>3, <5>2, <5>3, StepTalks DEF Steps, Talks
        <5>5. ~Answered(s)
          BY <5>1, KeepsAnswered DEF Refused
        <5> QED BY <4>1, <5>1, <5>4, <5>5 DEF Refused, objVars
      <4>3. (Leaving(s) => Leaving(s)') /\ (Departing(s) => Departing(s)')
        BY <2>3, <4>1 DEF Leaving, Departing, objVars
      <4>4. Unsaid(s) => Unsaid(s)'
        <5>1. SUFFICES ASSUME Unsaid(s) PROVE TxIs(s, "open")'
          BY DEF Unsaid
        <5>2. /\ callId[s] # NoCall /\ callId[s] \in Calls /\ inviteTx[s] \in Seqs
              /\ tx[callId[s]][inviteTx[s]] = "open"
          BY <5>1 DEF Unsaid, TxIs, IInv, Typed, ObjType
        <5>3. tx'[callId[s]][inviteTx[s]] = "open"
          BY <2>3, <5>2, StepTalks DEF Steps, Talks
        <5> QED BY <4>1, <5>1, <5>3 DEF Unsaid, TxIs, objVars
      <4> QED BY <4>1, <4>2, <4>3, <4>4, KeepsFailed DEF EndInv, objVars
    <3> QED BY <2>3, <3>1, <3>2, AtStatement DEF Steps
  <2>4. ASSUME NEW t \in Threads, Steps(t), pc[t] # "admit"
        PROVE  /\ Refused(s)' /\ s \in listed' => Failed(s)' \/ Leaving(s)'
               /\ state'[s] = "ENDED" /\ s \in listed' => Failed(s)' \/ Departing(s)' \/ Unsaid(s)'
    BY <2>4, RefusedLeaves, EndedDeparts
  <2>5. CASE UNCHANGED vars
    BY <1>3, <2>5 DEF vars, netVars, localVars
  <2> QED BY <2>1, <2>2, <2>3, <2>4, <2>5, AnyStep
<1> QED BY <1>1, <1>5 DEF EndInv

\* An ended session stays in the list only when terminate failed on it, whatever the
\* threads, the messages and the failures (SipCall!EndedLeavesList,
\* SipSession.java:115-163, 424-431).
THEOREM EndedLeave == Spec => []EndedLeavesList
<1>1. EndInv => EndedLeavesList
  <2> SUFFICES ASSUME EndInv, NEW s \in Sessions, state[s] = "ENDED", s \in listed, Quiescent(s)
               PROVE  Failed(s) \/ Unsaid(s)
    BY DEF EndedLeavesList, Failed, Unsaid
  <2>1. ~Departing(s)
    BY DEF Quiescent, Departing
  <2> QED BY <2>1 DEF EndInv
<1> QED BY AlwaysListInv, InitEnd, NextEnd, <1>1, PTL DEF Spec

------------------------------------------------------------------------------
(* While no two threads work on one session the history tells which calls   *)
(* are over.                                                                *)

Apart == \A t, u \in Threads : cur[t] # 0 /\ cur[t] = cur[u] => t = u

\* The thread is about to take its session off the list.
Closing(t) ==
  \/ pc[t] \in {"cancelForward", "setEnded", "close", "unlist"}
  \/ pc[t] = "cleanup" /\ state[cur[t]] = "ENDED"

\* The thread comes to store its session.
Bound == {"cancelForward", "setEnded", "cleanup", "close", "unlist", "store", "encode", "write"}

CannotCancel(s) == "forward" \in Faults /\ "RINGING" \in last[s]

StoredOK(s) ==
  /\ history[s] \subseteq dao[s] /\ (history[s] # {} => "InviteDate" \in history[s])
  /\ state[s] = "none" => dao[s] = {}
  /\ callId[s] # NoCall \/ "CancelDate" \in dao[s] => "InviteDate" \in dao[s]
  /\ s \in listed /\ "EndDate" \in dao[s] => \E t \in Threads : cur[t] = s /\ pc[t] = "unlist"
  /\ s \in listed /\ ToCaller(s, "CANCEL_OK") \in out =>
       CannotCancel(s) \/ \E t \in Threads : cur[t] = s /\ Closing(t)
  /\ \A d \in {"CancelDate", "EndDate"} :
       {"InviteDate", d} \subseteq dao[s] =>
         d \in history[s] \/ \E t \in Threads : cur[t] = s /\ pc[t] \in Bound
  /\ stored[s] <=> history[s] # {} \/ \E t \in Threads : cur[t] = s /\ pc[t] = "write"

WritingOK(t) ==
  /\ pc[t] \in {"store", "encode", "write"} => "InviteDate" \in dao[cur[t]]
  /\ pc[t] = "encode" => (buf[t].insert <=> ~stored[cur[t]])
  /\ pc[t] = "write" => buf[t].doc = dao[cur[t]] /\ (buf[t].insert <=> history[cur[t]] = {})
  /\ pc[t] \notin {"idle", "admit", "store", "encode", "write"} => cur[t] \in listed

\* A 200 for a CANCEL is one of an INVITE that has its transaction.
CancelOksInv == \A o \in out : o.kind = "CANCEL_OK" => tx[o.call][o.seq] # "none"

HistInv ==
  /\ \A s \in Sessions : StoredOK(s)
  /\ \A t \in Threads : WritingOK(t)
  /\ CancelOksInv

LEMMA InitHist == Init => HistInv
BY DEF Init, HistInv, StoredOK, WritingOK, CancelOksInv

LEMMA CancelOks ==
  ASSUME IInv, NEW t \in Threads, ThreadStep(t), NEW o \in out' \ out, o.kind = "CANCEL_OK"
  PROVE  pc[t] = "cancel" /\ o = ToCaller(cur[t], "CANCEL_OK")
<1>1. \A p, k, c, n : Output(p, k, c, n).kind = k
  BY DEF Output
<1>2. \A s, k : ToCaller(s, k).kind = k /\ ToCallee(s, k).kind = k
  BY <1>1 DEF ToCaller, ToCallee
<1>3. pc[t] \in Later
  BY <1>1, StepTalks DEF Talks
<1>4. CASE pc[t] \in {"trying", "ack", "ring", "byeBoth"}
  BY <1>2, <1>4, AtStatement DEF Trying, Ack, Ring, ByeBoth, Emit, netVars
<1>5. CASE pc[t] = "bye"
  BY <1>2, <1>5, AtStatement DEF Bye, Emit, netVars
<1>6. CASE pc[t] \in {"cancelForward", "cancelInvited"}
  BY <1>2, <1>6, AtStatement DEF CancelForward, CancelInvited, CancelOnward, Emit, netVars
<1>7. CASE pc[t] \in {"answer", "refuse", "refuseInvited"}
  <2>1. Answer(t) \/ Refuse(t) \/ RefuseInvited(t)
    BY <1>7, AtStatement
  <2>2. UNCHANGED out \/ \E k \in {"OK", "ERR", "503"} :
          out' = out \cup {Output("caller", k, callId[cur[t]], inviteTx[cur[t]])}
    BY <2>1 DEF Answer, Refuse, RefuseInvited, Final, netVars
  <2> QED BY <1>1, <2>2
<1>8. CASE pc[t] \in {"reopen", "setInvited", "response", "recordRinging", "recordRingTx", "recordOk",
                      "setEstablished", "endInvited", "endEstablished"}
  BY <1>8, AtStatement DEF Reopen, SetInvited, Response, RecordRinging, RecordRingTx, RecordOk,
     SetEstablished, EndInvited, EndEstablished, netVars
<1>9. CASE pc[t] = "cancel"
  BY <1>9, AtStatement DEF Cancel, Emit, netVars
<1> QED BY <1>3, <1>4, <1>5, <1>6, <1>7, <1>8, <1>9 DEF Later

LEMMA NextCancelOks ==
  ASSUME ListInv, CancelOksInv, [Next]_vars
  PROVE  CancelOksInv'
<1> USE DEF ListInv
<1>1. TxKept /\ out \subseteq Outputs
  BY KeepsTx DEF IInv, Typed, NetType
<1>2. ASSUME NEW o \in out', o.kind = "CANCEL_OK", o \notin out, NEW t \in Threads, Steps(t)
      PROVE  tx[o.call][o.seq] # "none" /\ o.call \in Calls /\ o.seq \in Seqs
  <2>1. pc[t] = "cancel" /\ o = ToCaller(cur[t], "CANCEL_OK")
    BY <1>2, CancelOks DEF Steps
  <2>2. HasTx(cur[t]) /\ cur[t] \in Sessions /\ callId[cur[t]] # NoCall
    BY <2>1, TxOfCur DEF NeedsTx
  <2>3. o.call = callId[cur[t]] /\ o.seq = inviteTx[cur[t]]
    BY <2>1 DEF ToCaller, Output
  <2> QED BY <2>2, <2>3 DEF TxInv, HasTx
<1>3. ASSUME NEW o \in out', o.kind = "CANCEL_OK"
      PROVE  tx[o.call][o.seq] # "none" /\ o.call \in Calls /\ o.seq \in Seqs
  <2>1. CASE o \in out
    BY <1>1, <1>3, <2>1 DEF CancelOksInv, Outputs
  <2>2. CASE o \notin out
    BY <1>2, <1>3, <2>2, AnyStep DEF Sends, Begins, vars, netVars
  <2> QED BY <2>1, <2>2
<1> QED BY <1>1, <1>3 DEF TxKept, CancelOksInv

\* What a statement writes into the records, and where it leads.
Records(t) ==
  /\ \A r \in Sessions \ {cur[t]} :
       dao'[r] = dao[r] /\ history'[r] = history[r] /\ stored'[r] = stored[r]
  /\ pc[t] # "write" => UNCHANGED history
  /\ pc[t] # "encode" => UNCHANGED stored
  /\ "CancelDate" \in dao'[cur[t]] => "CancelDate" \in dao[cur[t]] \/ pc[t] = "cancel"
  /\ "EndDate" \in dao'[cur[t]] => "EndDate" \in dao[cur[t]] \/ pc[t] = "close"
  /\ "InviteDate" \in dao'[cur[t]] => "InviteDate" \in dao[cur[t]] \/ pc[t] = "openTx"
  /\ pc[t] \in {"cleanup", "unlist", "store", "encode", "write"} => UNCHANGED dao
  /\ pc'[t] = "store" => pc[t] \in {"cleanup", "unlist"}
  /\ pc'[t] = "encode" => pc[t] = "store"
  /\ pc'[t] = "write" => pc[t] = "encode"

Storing == {"store", "encode", "write"}

LEMMA StampRecords ==
  ASSUME IInv, NEW t \in Threads, cur[t] \in Sessions, NEW d \in Stamps \ {"CancelDate", "EndDate"},
         d = "InviteDate" => pc[t] = "openTx",
         Stamp(cur[t], d), pc[t] \notin Storing \cup {"cleanup", "unlist"}, pc'[t] \notin Storing
  PROVE  Records(t)
BY DEF IInv, Typed, RecordType, Stamp, Records, Storing

LEMMA StepRecords ==
  ASSUME IInv, NEW t \in Threads, Steps(t), pc[t] # "admit"
  PROVE  Records(t)
<1> USE DEF Storing
<1>1. Typed /\ RecordType /\ ThreadType /\ cur[t] \in Sessions /\ pc[t] # "idle"
  BY Busy, AtStatement DEF IInv, Typed, Steps
<1>2. CASE Entry(t) \/ Reopen(t) \/ Dispatch(t) \/ Sdp(t) \/ Forward(t) \/ Trying(t)
           \/ SetInvited(t) \/ CancelForward(t) \/ SetEnded(t)
  <2>1. UNCHANGED recordVars /\ pc'[t] \notin Storing
    BY <1>1, <1>2 DEF Entry, Reopen, Dispatch, Sdp, Forward, Trying, SetInvited, CancelForward,
       SetEnded, Goto, ThreadType
  <2> QED BY <2>1 DEF recordVars, Records
<1>3. CASE Response(t) \/ RecordRinging(t) \/ RecordRingTx(t) \/ RecordOk(t)
           \/ SetEstablished(t) \/ Refuse(t) \/ TerminateStep(t)
  <2>1. UNCHANGED recordVars /\ pc'[t] \notin Storing
    BY <1>1, <1>3 DEF Response, RecordRinging, RecordRingTx, RecordOk, SetEstablished, Refuse, TerminateStep,
       EndInvited, RefuseInvited, CancelInvited, EndEstablished, ByeBoth, Goto, Done, ThreadType
  <2> QED BY <2>1 DEF recordVars, Records
<1>4. CASE OpenTx(t)
  <2>1. pc[t] = "openTx" /\ pc'[t] \notin Storing
    BY <1>1, <1>4 DEF OpenTx, Goto, ThreadType
  <2>2. UNCHANGED recordVars \/ Stamp(cur[t], "InviteDate")
    BY <1>4 DEF OpenTx
  <2>3. CASE UNCHANGED recordVars
    BY <2>1, <2>3 DEF recordVars, Records
  <2> QED BY <1>1, <2>1, <2>2, <2>3, StampRecords DEF Stamps
<1>5. CASE Ack(t) \/ Bye(t) \/ Ring(t) \/ Answer(t)
  <2>1. pc[t] \in {"ack", "bye", "ring", "answer"} /\ pc'[t] \notin Storing
    BY <1>1, <1>5 DEF Ack, Bye, Ring, Answer, Goto, Done, ThreadType
  <2>2. \E d \in Stamps \ {"InviteDate", "CancelDate", "EndDate"} : Stamp(cur[t], d)
    BY <1>5 DEF Ack, Bye, Ring, Answer, Stamps
  <2> QED BY <1>1, <2>1, <2>2, StampRecords
<1>6. CASE Cancel(t) \/ Close(t)
  BY <1>1, <1>6 DEF Cancel, Close, Stamp, Goto, RecordType, ThreadType, Records
<1>7. CASE Cleanup(t) \/ Unlist(t)
  BY <1>1, <1>7 DEF Cleanup, Unlist, Goto, Done, ThreadType, recordVars, Records
<1>8. CASE Store(t)
  BY <1>1, <1>8 DEF Store, ThreadType, recordVars, Records
<1>9. CASE Encode(t)
  BY <1>1, <1>9 DEF Encode, ThreadType, RecordType, Records
<1>10. CASE Write(t)
  BY <1>1, <1>10 DEF Write, Done, RecordType, ThreadType, Records
<1> QED BY <1>2, <1>3, <1>4, <1>5, <1>6, <1>7, <1>8, <1>9, <1>10, AtStatement, <1>1
           DEF Steps, ThreadStep, RequestStep, ResponseStep, CleanupStep, Admit, TurnAway

\* A thread that is closing its session goes on, unless its CANCEL fails.
LEMMA ClosingOn ==
  ASSUME IInv, HalfInv, Apart, NEW t \in Threads, Steps(t)
  PROVE  /\ pc[t] = "cancel" =>
              pc'[t] = "cancelForward" \/ (pc'[t] = "cleanup" /\ UNCHANGED out)
         /\ pc[t] = "cancelForward" =>
              pc'[t] = "setEnded" \/ (pc'[t] = "cleanup" /\ CannotCancel(cur[t]))
         /\ pc[t] = "setEnded" => pc'[t] = "cleanup" /\ state'[cur[t]] = "ENDED"
         /\ pc[t] = "close" => pc'[t] = "unlist"
         /\ pc[t] \in {"cancel", "cancelForward", "setEnded", "close"} => cur'[t] = cur[t]
         /\ pc[t] = "cleanup" =>
              \/ state[cur[t]] = "ENDED" /\ pc'[t] = "close" /\ cur'[t] = cur[t]
              \/ /\ state[cur[t]] # "ENDED" /\ pc'[t] = "idle"
                 /\ "InviteDate" \notin dao[cur[t]]
              \/ /\ state[cur[t]] # "ENDED" /\ pc'[t] = "store" /\ cur'[t] = cur[t]
                 /\ "InviteDate" \in dao[cur[t]]
         /\ pc[t] = "unlist" =>
              /\ listed' = listed \ {cur[t]}
              /\ \/ pc'[t] = "idle" /\ "InviteDate" \notin dao[cur[t]]
                 \/ pc'[t] = "store" /\ cur'[t] = cur[t] /\ "InviteDate" \in dao[cur[t]]
<1>1. Typed /\ ThreadType /\ ObjType
  BY DEF IInv, Typed
<1>2. CASE pc[t] = "cancel"
  BY <1>1, <1>2, AtStatement DEF Steps, Cancel, Goto, localVars, netVars, ThreadType
<1>3. CASE pc[t] = "cancelForward"
  <2>1. ~HalfRung(cur[t])
    <3>1. cur[t] \in Sessions /\ cur[t] # 0
      BY <1>3, Busy, NotIds
    <3> QED BY <1>3, <3>1 DEF HalfInv, RecordsRinging, Apart
  <2> QED BY <1>1, <1>3, <2>1, AtStatement
          DEF Steps, CancelForward, CancelOnward, CannotCancel, Goto, localVars, ThreadType
<1>4. CASE pc[t] = "setEnded"
  <2>1. SetEnded(t) /\ cur[t] \in Sessions
    BY <1>4, AtStatement, Busy DEF Steps
  <2> QED BY <1>1, <1>4, <2>1 DEF SetEnded, SetState, Goto, localVars, ThreadType, ObjType
<1>5. CASE pc[t] = "close"
  BY <1>1, <1>5, AtStatement DEF Steps, Close, Goto, localVars, ThreadType
<1>6. CASE pc[t] = "cleanup"
  BY <1>1, <1>6, AtStatement DEF Steps, Cleanup, Goto, Done, localVars, ThreadType
<1>7. CASE pc[t] = "unlist"
  BY <1>1, <1>7, AtStatement DEF Steps, Unlist, Goto, Done, localVars, ThreadType
<1> QED BY <1>2, <1>3, <1>4, <1>5, <1>6, <1>7

\* The three steps of DatabaseObject.store.
LEMMA StoringOn ==
  ASSUME IInv, NEW t \in Threads, Steps(t)
  PROVE  /\ pc[t] = "store" =>
              pc'[t] = "encode" /\ cur'[t] = cur[t] /\ buf'[t].insert = ~stored[cur[t]]
         /\ pc[t] = "encode" =>
              /\ pc'[t] = "write" /\ cur'[t] = cur[t]
              /\ buf'[t].doc = dao[cur[t]] /\ buf'[t].insert = buf[t].insert
              /\ stored'[cur[t]]
         /\ pc[t] = "write" =>
              /\ pc'[t] = "idle"
              /\ history'[cur[t]] = IF buf[t].insert <=> history[cur[t]] = {}
                                    THEN buf[t].doc ELSE history[cur[t]]
<1>1. ThreadType /\ RecordType
  BY DEF IInv, Typed
<1>2. CASE pc[t] = "store"
  BY <1>1, <1>2, AtStatement DEF Steps, Store, ThreadType
<1>3. CASE pc[t] = "encode"
  <2>1. Encode(t) /\ cur[t] \in Sessions
    BY <1>3, AtStatement, Busy DEF Steps
  <2> QED BY <1>1, <1>3, <2>1 DEF Encode, ThreadType, RecordType
<1>4. CASE pc[t] = "write"
  <2>1. Write(t) /\ cur[t] \in Sessions
    BY <1>4, AtStatement, Busy DEF Steps
  <2> QED BY <1>1, <1>4, <2>1 DEF Write, Done, ThreadType, RecordType
<1> QED BY <1>2, <1>3, <1>4

\* A session on which the thread does not work.
LEMMA OthersHist ==
  ASSUME ListInv, HistInv, NEW t \in Threads, Steps(t), pc[t] # "admit",
         NEW r \in Sessions, r # cur[t]
  PROVE  StoredOK(r)'
<1> USE DEF ListInv
<1>1. Records(t) /\ Changes(t, r) /\ StoredOK(r)
  BY StepRecords, StepChanges DEF Steps, HistInv
<1>2. /\ dao'[r] = dao[r] /\ history'[r] = history[r] /\ stored'[r] = stored[r]
      /\ state'[r] = state[r] /\ callId'[r] = callId[r] /\ inviteTx'[r] = inviteTx[r]
      /\ (r \in listed' <=> r \in listed) /\ last[r] \subseteq last'[r]
  BY <1>1 DEF Records, Changes
<1>3. ASSUME NEW u \in Threads, cur[u] = r PROVE cur'[u] = r /\ pc'[u] = pc[u]
  BY <1>3 DEF Steps, Only
<1>4. ASSUME NEW u \in Threads, cur'[u] = r, r # 0 PROVE cur[u] = r /\ pc'[u] = pc[u]
  BY <1>4 DEF Steps, Only, Admit
<1>5. r # 0
  BY NotIds
<1>6. ToCaller(r, "CANCEL_OK")' \in out' /\ callId[r] # NoCall => ToCaller(r, "CANCEL_OK") \in out
  <2>1. ToCaller(r, "CANCEL_OK")' = ToCaller(r, "CANCEL_OK")
    BY <1>2 DEF ToCaller, Output
  <2>2. SUFFICES ASSUME ToCaller(r, "CANCEL_OK") \in out' \ out, callId[r] # NoCall PROVE FALSE
    BY <2>1
  <2>3. ToCaller(r, "CANCEL_OK").kind = "CANCEL_OK"
    BY DEF ToCaller, Output
  <2>4. pc[t] = "cancel" /\ ToCaller(r, "CANCEL_OK") = ToCaller(cur[t], "CANCEL_OK")
    BY <2>2, <2>3, CancelOks DEF Steps
  <2>5. callId[r] = callId[cur[t]] /\ inviteTx[r] = inviteTx[cur[t]] /\ cur[t] \in Sessions
    BY <2>4, TxOfCur DEF ToCaller, Output, NeedsTx
  <2> QED BY <2>2, <2>5 DEF TxInv
<1>7. r \in listed /\ ToCaller(r, "CANCEL_OK") \in out =>
        CannotCancel(r)' \/ \E u \in Threads : cur'[u] = r /\ Closing(u)'
  BY <1>1, <1>2, <1>3 DEF StoredOK, CannotCancel, Closing
<1>8. ToCaller(r, "CANCEL_OK")' \in out' => callId[r] # NoCall
  <2>1. SUFFICES ASSUME ToCaller(r, "CANCEL_OK")' \in out' PROVE callId[r] # NoCall
    OBVIOUS
  <2>2. ToCaller(r, "CANCEL_OK")'.call = callId[r]
    BY <1>2 DEF ToCaller, Output
  <2>3. ToCaller(r, "CANCEL_OK")' \in out \/ callId[r] \in Calls
    <3>1. SUFFICES ASSUME ToCaller(r, "CANCEL_OK")' \in out' \ out PROVE callId[r] \in Calls
      BY <2>1
    <3>2. ToCaller(r, "CANCEL_OK")'.kind = "CANCEL_OK"
      BY DEF ToCaller, Output
    <3>3. pc[t] = "cancel" /\ ToCaller(r, "CANCEL_OK")' = ToCaller(cur[t], "CANCEL_OK")
      BY <3>1, <3>2, CancelOks DEF Steps
    <3> QED BY <2>2, <3>3, TxOfCur DEF ToCaller, Output, NeedsTx, HasTx
  <2> QED BY <2>2, <2>3, ConstantsAssumption DEF IInv, Typed, NetType, Outputs
<1>9. (\E u \in Threads : cur'[u] = r /\ pc'[u] = "write")
        <=> (\E u \in Threads : cur[u] = r /\ pc[u] = "write")
  BY <1>3, <1>4, <1>5
<1> QED BY <1>1, <1>2, <1>3, <1>6, <1>7, <1>8, <1>9 DEF StoredOK
LEMMA StepHist ==
  ASSUME ListInv, HalfInv, HistInv, Apart, [Next]_vars, NEW t \in Threads, Steps(t), pc[t] # "admit"
  PROVE  HistInv'
<1> USE DEF ListInv
<1>1. PICK s \in Sessions : s = cur[t] /\ state[s] # "none" /\ pc[t] # "idle" /\ s # 0
  BY Busy, AtStatement, NotIds DEF Steps
<1>2. \A u \in Threads : cur[u] = s => u = t
  BY <1>1 DEF Apart
<1>3. /\ Records(t) /\ \A r \in Sessions : Changes(t, r)
      /\ StoredOK(s) /\ WritingOK(t) /\ (pc'[t] = "idle" \/ cur'[t] = s)
  BY <1>1, StepRecords, StepChanges DEF Steps, HistInv, Admit
<1>4. /\ pc[t] = "store" => pc'[t] = "encode" /\ (buf'[t].insert <=> ~stored[s])
      /\ pc[t] = "encode" =>
           /\ pc'[t] = "write" /\ buf'[t].doc = dao[s] /\ (buf'[t].insert <=> buf[t].insert)
           /\ stored'[s]
      /\ pc[t] = "write" => pc'[t] = "idle" /\ history'[s] = dao[s]
      /\ pc[t] = "write" => "InviteDate" \in dao[s] /\ stored[s]
  BY <1>1, <1>3, StoringOn DEF WritingOK, StoredOK
<1>5. dao[s] \subseteq dao'[s]
  BY <1>3 DEF Changes
<1>6. history'[s] \subseteq dao'[s] /\ (history'[s] # {} => "InviteDate" \in history'[s])
  BY <1>1, <1>3, <1>4, <1>5 DEF StoredOK, Records
<1>7. state'[s] # "none"
  <2>1. CASE pc[t] \notin SetsState
    BY <1>1, <1>3, <2>1 DEF Changes
  <2>2. CASE pc[t] \in SetsState
    BY <1>1, <2>2, AtStatement DEF Steps, SetsState, Reopen, SetInvited, SetEnded, SetEstablished,
       EndInvited, EndEstablished, SetState, IInv, Typed, ObjType
  <2> QED BY <2>1, <2>2
<1>8. callId'[s] # NoCall \/ "CancelDate" \in dao'[s] => "InviteDate" \in dao'[s]
  <2>1. CASE pc[t] = "cancel"
    <3>1. callId[s] # NoCall
      BY <1>1, <2>1, TxOfCur DEF NeedsTx
    <3> QED BY <1>3, <1>5, <3>1 DEF StoredOK
  <2>2. CASE pc[t] = "openTx"
    <3>1. OpenTx(t)
      BY <2>2, AtStatement DEF Steps
    <3>2. "InviteDate" \in dao'[s] \/ UNCHANGED <<objVars, recordVars>>
      BY <1>1, <3>1 DEF OpenTx, Stamp, IInv, Typed, RecordType
    <3> QED BY <1>3, <3>2 DEF StoredOK, objVars, recordVars
  <2>3. CASE pc[t] \notin {"cancel", "openTx"}
    BY <1>1, <1>3, <1>5, <2>3 DEF StoredOK, Records, Changes
  <2> QED BY <2>1, <2>2, <2>3
<1>9. s \in listed' /\ "EndDate" \in dao'[s] => cur'[t] = s /\ pc'[t] = "unlist"
  BY <1>1, <1>2, <1>3, ClosingOn DEF StoredOK, Records, Changes
<1>10. s \in listed' /\ ToCaller(s, "CANCEL_OK")' \in out' =>
         CannotCancel(s)' \/ (cur'[t] = s /\ Closing(t)')
  <2>1. SUFFICES ASSUME s \in listed', ToCaller(s, "CANCEL_OK")' \in out'
                 PROVE  CannotCancel(s)' \/ (cur'[t] = s /\ Closing(t)')
    OBVIOUS
  <2>2. s \in listed
    BY <2>1, WasListed
  <2>3. CannotCancel(s) => CannotCancel(s)'
    BY <1>3 DEF CannotCancel, Changes
  <2>4. CASE pc[t] = "cancel"
    <3>1. CASE pc'[t] = "cancelForward"
      BY <1>1, <1>3, <2>4, <3>1, ClosingOn DEF Closing
    <3>2. CASE UNCHANGED out
      <4>1. ToCaller(s, "CANCEL_OK") \in out
        BY <1>3, <2>1, <2>4, <3>2 DEF ToCaller, Changes
      <4>2. ~Closing(t)
        BY <2>4 DEF Closing
      <4> QED BY <1>2, <1>3, <2>2, <2>3, <4>1, <4>2 DEF StoredOK
    <3> QED BY <2>4, <3>1, <3>2, ClosingOn
  <2>5. CASE pc[t] = "openTx"
    <3>1. OpenTx(t)
      BY <2>5, AtStatement DEF Steps
    <3>2. CASE Opens(t)
      <4>1. PICK c \in Calls, n \in Seqs : req[t].call = c /\ req[t].seq = n
        BY <3>2, MessageFields DEF Opens
      <4>2. ToCaller(s, "CANCEL_OK")' = Output("caller", "CANCEL_OK", c, n)
        BY <1>1, <3>2, <4>1 DEF ToCaller, Opens
      <4>3. Output("caller", "CANCEL_OK", c, n) \in out /\ tx[c][n] = "none"
        BY <2>1, <3>2, <4>1, <4>2 DEF Opens
      <4>4. /\ Output("caller", "CANCEL_OK", c, n).call = c
            /\ Output("caller", "CANCEL_OK", c, n).seq = n
            /\ Output("caller", "CANCEL_OK", c, n).kind = "CANCEL_OK"
        BY DEF Output
      <4> QED BY <4>3, <4>4 DEF HistInv, CancelOksInv
    <3>3. CASE UNCHANGED <<objVars, recordVars, netVars>>
      <4>1. ToCaller(s, "CANCEL_OK") \in out
        BY <2>1, <3>3 DEF ToCaller, objVars, netVars
      <4>2. ~Closing(t)
        BY <2>5 DEF Closing
      <4> QED BY <1>2, <1>3, <2>2, <2>3, <4>1, <4>2 DEF StoredOK
    <3> QED BY <3>1, <3>2, <3>3, OpenTxOpens
  <2>6. CASE pc[t] \notin {"cancel", "openTx"}
    <3>1. ToCaller(s, "CANCEL_OK")' = ToCaller(s, "CANCEL_OK")
      BY <1>3, <2>6 DEF ToCaller, Changes
    <3>2. ToCaller(s, "CANCEL_OK").kind = "CANCEL_OK"
      BY DEF ToCaller, Output
    <3>3. ToCaller(s, "CANCEL_OK") \in out
      BY <2>1, <2>6, <3>1, <3>2, CancelOks DEF Steps
    <3>4. CannotCancel(s) \/ Closing(t)
      BY <1>2, <1>3, <2>2, <3>3 DEF StoredOK
    <3>5. CASE pc[t] = "cleanup" /\ state[s] = "ENDED"
      BY <1>1, <3>5, ClosingOn DEF Closing
    <3>6. CASE pc[t] = "unlist"
      BY <1>1, <2>1, <3>6, ClosingOn
    <3>7. CASE pc[t] \in {"cancelForward", "setEnded", "close"}
      BY <1>1, <2>3, <3>7, ClosingOn DEF Closing
    <3> QED BY <1>1, <2>3, <3>4, <3>5, <3>6, <3>7 DEF Closing
  <2> QED BY <2>4, <2>5, <2>6
<1>11. ASSUME NEW d \in {"CancelDate", "EndDate"}, {"InviteDate", d} \subseteq dao'[s]
       PROVE  d \in history'[s] \/ (cur'[t] = s /\ pc'[t] \in Bound)
  <2>1. CASE pc[t] \in {"cancel", "cancelForward", "setEnded", "close"}
    BY <1>1, <2>1, ClosingOn DEF Bound
  <2>2. CASE pc[t] \in {"cleanup", "unlist"}
    BY <1>1, <1>3, <1>11, <2>2, ClosingOn DEF Bound, Records
  <2>3. CASE pc[t] \in {"store", "encode", "write"}
    BY <1>1, <1>3, <1>4, <1>11, <2>3 DEF Bound, Records
  <2>4. CASE pc[t] \notin Bound \cup {"cancel"}
    <3>1. d \in dao[s] /\ history'[s] = history[s]
      BY <1>1, <1>3, <1>11, <2>4 DEF Bound, Records
    <3>2. "InviteDate" \in dao[s]
      <4>1. CASE pc[t] = "openTx"
        <5>1. s \in listed
          BY <1>1, <1>3, <4>1 DEF WritingOK
        <5>2. "EndDate" \notin dao[s]
          BY <1>2, <1>3, <4>1, <5>1 DEF StoredOK
        <5> QED BY <1>3, <3>1, <5>2 DEF StoredOK
      <4>2. CASE pc[t] # "openTx"
        BY <1>1, <1>3, <1>11, <4>2 DEF Records
      <4> QED BY <4>1, <4>2
    <3> QED BY <1>2, <1>3, <2>4, <3>1, <3>2 DEF StoredOK
  <2> QED BY <2>1, <2>2, <2>3, <2>4 DEF Bound
<1>12. stored'[s] <=> history'[s] # {} \/ (cur'[t] = s /\ pc'[t] = "write")
  <2>1. CASE pc[t] \in {"store", "encode", "write"}
    BY <1>1, <1>2, <1>3, <1>4, <2>1 DEF StoredOK, Records
  <2>2. CASE pc[t] \notin {"store", "encode", "write"}
    BY <1>1, <1>2, <1>3, <2>2 DEF StoredOK, Records
  <2> QED BY <2>1, <2>2
<1>13. \A u \in Threads \ {t} : cur'[u] # s
  BY <1>2 DEF Steps, Only
<1>14. StoredOK(s)'
  BY <1>6, <1>7, <1>8, <1>9, <1>10, <1>11, <1>12, <1>13 DEF StoredOK
<1>15. WritingOK(t)'
  <2>1. CASE pc'[t] = "idle"
    BY <2>1 DEF WritingOK
  <2>2. CASE pc[t] = "store"
    BY <1>1, <1>3, <1>4, <2>2 DEF WritingOK, Records
  <2>3. CASE pc[t] = "encode"
    BY <1>1, <1>2, <1>3, <1>4, <2>3 DEF WritingOK, StoredOK, Records
  <2>4. CASE pc[t] \in {"cleanup", "unlist"} /\ pc'[t] # "idle"
    BY <1>1, <1>3, <2>4, ClosingOn DEF WritingOK, Records, Changes
  <2>5. CASE pc[t] \notin {"cleanup", "unlist", "store", "encode", "write"} /\ pc'[t] # "idle"
    BY <1>1, <1>3, <2>5 DEF WritingOK, Records, Changes
  <2> QED BY <1>4, <2>1, <2>2, <2>3, <2>4, <2>5
<1>16. ASSUME NEW u \in Threads \ {t} PROVE WritingOK(u)'
  <2>1. pc'[u] = pc[u] /\ cur'[u] = cur[u] /\ buf'[u] = buf[u] /\ cur[u] # s /\ WritingOK(u)
    BY <1>2, <1>16 DEF Steps, Only, HistInv
  <2>2. CASE pc[u] \in {"idle", "admit"}
    BY <2>1, <2>2 DEF WritingOK
  <2>3. CASE pc[u] \notin {"idle", "admit"}
    <3>1. cur[u] \in Sessions
      BY <2>3, Busy
    <3> QED BY <1>1, <1>3, <2>1, <3>1 DEF WritingOK, Records, Changes
  <2> QED BY <2>2, <2>3
<1> QED BY <1>1, <1>14, <1>15, <1>16, OthersHist, NextCancelOks DEF HistInv

\* A step at which nobody leaves a session.
LEMMA JoinHist ==
  ASSUME ListInv, HistInv, CancelOksInv', NEW t \in Threads, pc[t] \in {"idle", "admit"}, Only(t),
         UNCHANGED <<callId, inviteTx, last, dao, stored, history>>,
         \A o \in out' \ out : o.kind # "CANCEL_OK",
         \A s \in Sessions :
           /\ s \notin listed => state'[s] = state[s] \/ (state[s] = "none" /\ s \in listed')
           /\ s \in listed => state'[s] = state[s] /\ s \in listed'
           /\ s \in listed' \ listed => state[s] = "none",
         pc'[t] \notin {"store", "encode", "write"},
         pc'[t] \notin {"idle", "admit"} => cur'[t] \in listed'
  PROVE  HistInv'
<1> USE DEF ListInv
<1>1. ASSUME NEW u \in Threads, pc[u] \notin {"idle", "admit"}
      PROVE  pc'[u] = pc[u] /\ cur'[u] = cur[u] /\ buf'[u] = buf[u] /\ state'[cur[u]] = state[cur[u]]
             /\ (cur[u] \in listed => cur[u] \in listed')
  BY <1>1, Busy DEF Only
<1>2. ASSUME NEW s \in Sessions PROVE StoredOK(s)'
  <2>1. ToCaller(s, "CANCEL_OK")' = ToCaller(s, "CANCEL_OK")
        /\ ToCaller(s, "CANCEL_OK").kind = "CANCEL_OK" /\ ToCaller(s, "CANCEL_OK").call = callId[s]
    BY DEF ToCaller, Output
  <2>2. StoredOK(s) /\ (ToCaller(s, "CANCEL_OK") \in out' => ToCaller(s, "CANCEL_OK") \in out)
    BY <2>1 DEF HistInv
  <2>3. s \in listed' \ listed => dao[s] = {} /\ callId[s] = NoCall
    BY <2>2 DEF StoredOK, IInv, SessionInv, SessionOK
  <2>4. callId[s] = NoCall => ToCaller(s, "CANCEL_OK") \notin out
    BY <2>1, ConstantsAssumption DEF IInv, Typed, NetType, Outputs
  <2>5. \A u \in Threads : /\ cur[u] = s /\ pc[u] = "unlist" => cur'[u] = s /\ pc'[u] = "unlist"
                           /\ cur[u] = s /\ Closing(u) => cur'[u] = s /\ Closing(u)'
                           /\ cur[u] = s /\ pc[u] \in Bound => cur'[u] = s /\ pc'[u] \in Bound
    BY <1>1 DEF Closing, Bound
  <2>6. (\E u \in Threads : cur'[u] = s /\ pc'[u] = "write")
          <=> (\E u \in Threads : cur[u] = s /\ pc[u] = "write")
    BY DEF Only
  <2>7. state'[s] = "none" => state[s] = "none"
    OBVIOUS
  <2> QED BY <2>1, <2>2, <2>3, <2>4, <2>5, <2>6, <2>7 DEF StoredOK, CannotCancel
<1>3. ASSUME NEW u \in Threads PROVE WritingOK(u)'
  <2>1. CASE u = t
    BY <2>1 DEF WritingOK
  <2>2. CASE u # t
    BY <1>1, <1>3, <2>2 DEF WritingOK, HistInv, Only
  <2> QED BY <2>1, <2>2
<1> QED BY <1>2, <1>3 DEF HistInv

LEMMA NextHist == ListInv /\ HalfInv /\ HistInv /\ Apart /\ [Next]_vars => HistInv'
<1> SUFFICES ASSUME ListInv, HalfInv, HistInv, Apart, [Next]_vars PROVE HistInv'
  OBVIOUS
<1> USE DEF ListInv
<1>1. CancelOksInv'
  BY NextCancelOks DEF HistInv
<1>2. CASE UNCHANGED <<objVars, recordVars, out, pc, localVars>>
  <2>1. \A s \in Sessions : (StoredOK(s) <=> StoredOK(s)')
    BY <1>2 DEF StoredOK, CannotCancel, Closing, ToCaller, objVars, recordVars, localVars
  <2>2. \A t \in Threads : (WritingOK(t) <=> WritingOK(t)')
    BY <1>2 DEF WritingOK, objVars, recordVars, localVars
  <2> QED BY <1>1, <2>1, <2>2 DEF HistInv
<1>3. CASE \E m \in Messages : Sends(m)
  BY <1>2, <1>3 DEF Sends
<1>4. ASSUME NEW t \in Threads, Begins(t) PROVE HistInv'
  <2>1. pc'[t] \notin {"store", "encode", "write"} /\ (pc'[t] \notin {"idle", "admit"} => cur'[t] \in listed)
    BY <1>4 DEF Begins, Joins
  <2> QED BY <1>1, <1>4, <2>1, JoinHist DEF Begins, objVars, recordVars
<1>5. ASSUME NEW t \in Threads, Steps(t), pc[t] = "admit" PROVE HistInv'
  <2>1. ThreadType /\ Talks(t)
    BY <1>5, StepTalks DEF IInv, Typed, Steps
  <2>2. \A o \in out' \ out : o.kind # "CANCEL_OK"
    BY <1>5, <2>1 DEF Talks, Later
  <2>3. CASE Admit(t)
    <3>1. PICK z \in Sessions : Creates(t, z)
      BY <2>3, AdmitCreates
    <3>2. UNCHANGED <<stored, history>>
      BY <2>3 DEF Admit, recordVars
    <3>3. \A s \in Sessions : s \in listed => state[s] # "none"
      BY DEF IInv, SessionInv, SessionOK
    <3>4. \A s \in Sessions : /\ s # z => state'[s] = state[s] /\ (s \in listed' <=> s \in listed)
                              /\ s = z => state[s] = "none" /\ s \in listed'
      BY <3>1 DEF Creates
    <3>5. UNCHANGED <<callId, inviteTx, last, dao>> /\ pc'[t] = "entry" /\ cur'[t] \in listed'
      BY <3>1 DEF Creates
    <3> QED BY <1>1, <1>5, <2>2, <3>2, <3>3, <3>4, <3>5, JoinHist DEF Steps
  <2>4. CASE \E v \in Verdicts : TurnAway(t, v)
    <3>1. UNCHANGED <<objVars, recordVars>> /\ pc'[t] = "idle"
      BY <2>1, <2>4 DEF TurnAway, Done, ThreadType
    <3> QED BY <1>1, <1>5, <2>2, <3>1, JoinHist DEF Steps, objVars, recordVars
  <2> QED BY <1>5, <2>3, <2>4, AtStatement DEF Steps
<1>6. ASSUME NEW t \in Threads, Steps(t) PROVE HistInv'
  BY <1>5, <1>6, StepHist
<1> QED BY <1>2, <1>3, <1>4, <1>6, AnyStep DEF vars, netVars

\* As long as no two threads work on one session, a session that is over is one whose
\* record says so, for any number of calls, threads, messages and copies and whatever
\* fails: only a CANCEL that failed leaves a call that reads as canceled
\* (SipCall!HistoryMatchesList, SipSession.java:359-366, 430, 516-523,
\* CallListMethod).
THEOREM HistoryIsRight == Spec /\ []Apart => []HistoryMatchesList
<1>1. ListInv /\ HistInv => HistoryMatchesList
  <2> SUFFICES ASSUME ListInv, HistInv, NEW s \in Sessions, Quiescent(s), history[s] # {}
               PROVE  CallStatus(history[s]) \in {"CANCELED", "ENDED"}
                        <=> s \notin listed \/ CancelFailed(s)
    BY DEF HistoryMatchesList
  <2>1. StoredOK(s) /\ \A t \in Threads : cur[t] # s
    BY DEF HistInv, Quiescent
  <2>2. \A d \in {"CancelDate", "EndDate"} : d \in dao[s] <=> d \in history[s]
    BY <2>1 DEF StoredOK
  <2>3. state[s] # "none" /\ "InviteDate" \in history[s]
    BY <2>1 DEF StoredOK
  <2>4. s \notin listed <=> "EndDate" \in dao[s]
    BY <2>1, <2>3 DEF StoredOK, ListInv, ClosedInv
  <2>5. s \in listed => ("CancelDate" \in dao[s] <=> CancelFailed(s))
    BY <2>1 DEF StoredOK, CancelFailed, CannotCancel
  <2>6. CallStatus(history[s]) \in {"CANCELED", "ENDED"}
          <=> "CancelDate" \in history[s] \/ "EndDate" \in history[s]
    BY <2>3 DEF CallStatus
  <2> QED BY <2>2, <2>4, <2>5, <2>6
<1> QED BY AlwaysListInv, AlwaysHalfInv, InitHist, NextHist, <1>1, PTL DEF Spec
===============================================================================
