------------------------------- MODULE SipCall -------------------------------
(****************************************************************************)
(* The life of a call inside the SIP proxy: the request and response half   *)
(* of SipProviderListener, the SipSession state machine with its persisted  *)
(* SipSessionDao, and SipSession.terminate as called by CallTerminateMethod.*)
(*                                                                          *)
(* Every message is handled by a thread of the listener's pool, and         *)
(* terminate runs on a servlet thread; nothing in SipSession is             *)
(* synchronized.  A handler is therefore cut into steps at every read or    *)
(* write of a field another thread uses: pc names the statement a thread is *)
(* about to run.  The messages in flight are a set, since the transport and *)
(* the pool may reorder them, and one that is never taken is a lost one.    *)
(****************************************************************************)
EXTENDS Integers, FiniteSets

CONSTANTS Calls,        \* Call-IDs, one per pair of user agents
          Workers,      \* threads of SipProviderListener.requestExecutorService
          Admins,       \* servlet threads running CallTerminateMethod
          MaxSessions,  \* bound: SipSession objects ever created
          MaxSeq,       \* bound: INVITE transactions of a call
          MaxCopies,    \* bound: copies of one INVITE that reach the listener
          UserKinds,    \* bound: kinds of messages the user agents send
          Verdicts,     \* outcomes of admission that the environment may cause
          Faults,       \* steps the environment may make fail
          AlgEnabled,   \* talk.rtp.alg.enabled
          NoCall, NoMsg \* null

Threads  == Workers \cup Admins
Sessions == 1..MaxSessions
Seqs     == 1..MaxSeq
States   == {"none", "STARTED", "INVITED", "ESTABLISHED", "ENDED"}
Stamps   == {"InviteDate", "RingingResponseDate", "OkResponseDate", "AckDate",
             "CancelDate", "ByeDate", "EndDate"}

RequestKinds  == {"INVITE", "CANCEL", "ACK", "BYE_CALLER", "BYE_CALLEE"}
ResponseKinds == {"RINGING", "OK", "ERR", "REPLY", "REPLY_ERR"}
Messages == [kind : RequestKinds \cup ResponseKinds, call : Calls,
             seq : Seqs, copy : 1..MaxCopies]
Message(k, c, n) == [kind |-> k, call |-> c, seq |-> n, copy |-> 1]

\* What the proxy sends, and to which side of the call.
Outputs == [to   : {"caller", "callee"},
            kind : {"INVITE", "CANCEL", "ACK", "BYE", "TRYING", "RINGING", "OK",
                    "ERR", "503", "CHALLENGE", "REJECT", "CANCEL_OK", "BYE_OK"},
            call : Calls, seq : Seqs]
Output(p, k, c, n) == [to |-> p, kind |-> k, call |-> c, seq |-> n]

Labels == {"idle", "admit", "entry", "reopen", "dispatch", "openTx", "sdp",
           "forward", "trying", "setInvited", "cancel", "cancelForward", "ack",
           "bye", "setEnded", "response", "ring", "recordRinging", "recordRingTx",
           "answer", "recordOk", "setEstablished", "refuse", "cleanup", "close",
           "unlist", "store", "encode", "write", "endInvited", "refuseInvited",
           "cancelInvited", "endEstablished", "byeBoth"}

ASSUME ConstantsAssumption ==
  /\ MaxSessions \in Nat \ {0} /\ MaxSeq \in Nat \ {0} /\ MaxCopies \in Nat \ {0}
  /\ NoCall \notin Calls /\ NoMsg \notin Messages
  /\ Workers \cap Admins = {}
  /\ UserKinds \subseteq RequestKinds \cup ResponseKinds
  /\ Verdicts \subseteq {"admit", "challenge", "reject", "abandon"}
  /\ Faults \subseteq {"rewrite", "sdp", "forward", "response"}
  /\ AlgEnabled \in BOOLEAN

VARIABLES
  state,      \* SipSession.state; "none" before the object exists
  callId,     \* SipSession.callIdHeader
  inviteTx,   \* SipSession.lastInviteRequestServerTransaction, 0 for null
  last,       \* which of lastRingingResponse, its ClientTransaction, lastOk...
              \* and lastAck... are not null
  alg,        \* SipSession.algChannel, named by the INVITE that opened it
  running,    \* the ALG channels of a session that have not been stopped
  listed,     \* SipServer.sipSessionList, in the order of the session numbers
  dao,        \* the dates set in SipSession.sipSessionDao
  stored,     \* the dao has been given its _id
  history,    \* the document in the database, {} while there is none
  tx,         \* the stack's server transaction of each INVITE
  sent,       \* messages the user agents have sent
  net,        \* those of them the listener has not taken yet
  out,        \* messages the proxy has sent
  pc, cur, req, buf  \* per thread: next step, session, message, encoded document

objVars    == <<state, callId, inviteTx, last, alg, running, listed>>
recordVars == <<dao, stored, history>>
netVars    == <<tx, sent, net, out>>
localVars  == <<cur, req, buf>>
vars       == <<objVars, recordVars, netVars, pc, localVars>>

ObjType ==
  /\ state \in [Sessions -> States]
  /\ callId \in [Sessions -> Calls \cup {NoCall}]
  /\ inviteTx \in [Sessions -> Seqs \cup {0}]
  /\ last \in [Sessions -> SUBSET {"RINGING", "RINGING_TX", "OK", "ACK"}]
  /\ alg \in [Sessions -> Seqs \cup {0}]
  /\ running \in [Sessions -> SUBSET Seqs]
  /\ listed \in SUBSET Sessions

RecordType ==
  /\ dao \in [Sessions -> SUBSET Stamps]
  /\ stored \in [Sessions -> BOOLEAN]
  /\ history \in [Sessions -> SUBSET Stamps]

NetType ==
  /\ tx \in [Calls -> [Seqs -> {"none", "open", "answered", "refused"}]]
  /\ sent \in SUBSET Messages
  /\ net \in SUBSET Messages
  /\ out \in SUBSET Outputs

ThreadType ==
  /\ pc \in [Threads -> Labels]
  /\ cur \in [Threads -> Sessions \cup {0}]
  /\ req \in [Threads -> Messages \cup {NoMsg}]
  /\ buf \in [Threads -> [doc : SUBSET Stamps, insert : BOOLEAN]]

Typed == ObjType /\ RecordType /\ NetType /\ ThreadType

\* Every variable has its type, and a session has its Call-ID just when it has
\* its server transaction: the call that throws stands between the two
\* assignments (SipSession.java:335-336).
TypeOK ==
  /\ Typed
  /\ \A s \in Sessions : callId[s] = NoCall <=> inviteTx[s] = 0

EmptyBuf == [doc |-> {}, insert |-> FALSE]

Init ==
  /\ state = [s \in Sessions |-> "none"]
  /\ callId = [s \in Sessions |-> NoCall]
  /\ inviteTx = [s \in Sessions |-> 0]
  /\ last = [s \in Sessions |-> {}]
  /\ alg = [s \in Sessions |-> 0]
  /\ running = [s \in Sessions |-> {}]
  /\ listed = {}
  /\ dao = [s \in Sessions |-> {}]
  /\ stored = [s \in Sessions |-> FALSE]
  /\ history = [s \in Sessions |-> {}]
  /\ tx = [c \in Calls |-> [n \in Seqs |-> "none"]]
  /\ sent = {} /\ net = {} /\ out = {}
  /\ pc = [t \in Threads |-> "idle"]
  /\ cur = [t \in Threads |-> 0]
  /\ req = [t \in Threads |-> NoMsg]
  /\ buf = [t \in Threads |-> EmptyBuf]

------------------------------------------------------------------------------
(* Small vocabulary of the steps.                                           *)

\* s is the first of a set of sessions in the order of sipSessionList.
IsFirst(s, S) == s \in S /\ \A r \in S : s <= r

Goto(t, l) == pc' = [pc EXCEPT ![t] = l] /\ UNCHANGED localVars

\* The handler returns, or an exception leaves it: the thread is free again.
Done(t) == /\ pc' = [pc EXCEPT ![t] = "idle"]
           /\ cur' = [cur EXCEPT ![t] = 0]
           /\ req' = [req EXCEPT ![t] = NoMsg]
           /\ buf' = [buf EXCEPT ![t] = EmptyBuf]

SetState(s, v) == /\ state' = [state EXCEPT ![s] = v]
                  /\ UNCHANGED <<callId, inviteTx, last, alg, running, listed>>
Stamp(s, d)    == /\ dao' = [dao EXCEPT ![s] = @ \cup {d}]
                  /\ UNCHANGED <<stored, history>>
Remember(s, k) == /\ last' = [last EXCEPT ![s] = @ \cup {k}]
                  /\ UNCHANGED <<state, callId, inviteTx, alg, running, listed>>
Emit(O)        == out' = out \cup O /\ UNCHANGED <<tx, sent, net>>

\* The server transaction a session answers its caller with.
TxIs(s, v) == callId[s] # NoCall /\ inviteTx[s] # 0 /\ tx[callId[s]][inviteTx[s]] = v
\* A final response to the caller, and the transaction's new state.
Final(s, k, v) ==
  /\ tx' = [tx EXCEPT ![callId[s]][inviteTx[s]] = v]
  /\ out' = out \cup {Output("caller", k, callId[s], inviteTx[s])}
  /\ UNCHANGED <<sent, net>>
\* A response fails after a final one, and may fail before.
CannotRespond(s) == ~TxIs(s, "open") \/ "response" \in Faults
ToCaller(s, k) == Output("caller", k, callId[s], inviteTx[s])
ToCallee(s, k) == Output("callee", k, callId[s], inviteTx[s])

------------------------------------------------------------------------------
(* The user agents.                                                         *)

Send(m) == /\ m \notin sent /\ m.kind \in UserKinds
           /\ sent' = sent \cup {m} /\ net' = net \cup {m}
           /\ UNCHANGED <<tx, out, objVars, recordVars, pc, localVars>>

Hung(c) == \/ \E m \in sent : m.call = c /\ m.kind \in {"BYE_CALLER", "BYE_CALLEE"}
           \/ \E o \in out : o.call = c /\ o.kind = "BYE"

\* The first INVITE, a new one with credentials, or a re-INVITE of a call.
CallerInvites(c, n) ==
  /\ \/ n = 1
     \/ Output("caller", "CHALLENGE", c, n - 1) \in out
     \/ Message("ACK", c, n - 1) \in sent /\ ~Hung(c)
  /\ Send(Message("INVITE", c, n))

\* The INVITE timer fires before a response has come.
CallerRetransmits(c, n, k) ==
  /\ k > 1 /\ [Message("INVITE", c, n) EXCEPT !.copy = k - 1] \in sent
  /\ \A o \in out : o.to = "callee" \/ o.call # c \/ o.seq # n
  /\ Send([Message("INVITE", c, n) EXCEPT !.copy = k])

CallerCancels(c, n) ==
  /\ Output("caller", "TRYING", c, n) \in out /\ tx[c][n] = "open"
  /\ Send(Message("CANCEL", c, n))

CallerAcks(c, n) ==
  /\ Output("caller", "OK", c, n) \in out
  /\ Send(Message("ACK", c, n))

CallerHangsUp(c) ==
  /\ Message("ACK", c, 1) \in sent /\ ~Hung(c)
  /\ Send(Message("BYE_CALLER", c, 1))

CalleeRings(c, n) ==
  /\ Output("callee", "INVITE", c, n) \in out
  /\ Message("OK", c, n) \notin sent /\ Message("ERR", c, n) \notin sent
  /\ Send(Message("RINGING", c, n))

\* The callee's one final response, 200 or an error (487 once cancelled).
CalleeAnswers(c, n, k) ==
  /\ Output("callee", "INVITE", c, n) \in out
  /\ Message("OK", c, n) \notin sent /\ Message("ERR", c, n) \notin sent
  /\ k \in {"OK", "ERR"}
  /\ Send(Message(k, c, n))

\* The callee's response to the CANCEL or BYE the proxy sent it.
CalleeReplies(c, n, k) ==
  /\ \/ Output("callee", "CANCEL", c, n) \in out /\ k \in {"REPLY", "REPLY_ERR"}
     \/ Output("callee", "BYE", c, n) \in out /\ k = "REPLY"
  /\ Send(Message(k, c, n))

\* After the ACK, or once it has waited in vain for one.
CalleeHangsUp(c) ==
  /\ Message("OK", c, 1) \in sent /\ ~Hung(c)
  /\ Send(Message("BYE_CALLEE", c, 1))

UserAgents ==
  \E c \in Calls :
    \/ CallerHangsUp(c) \/ CalleeHangsUp(c)
    \/ \E n \in Seqs :
         \/ CallerInvites(c, n) \/ CallerCancels(c, n) \/ CallerAcks(c, n)
         \/ CalleeRings(c, n)
         \/ \E k \in 1..MaxCopies : CallerRetransmits(c, n, k)
         \/ \E k \in ResponseKinds : CalleeAnswers(c, n, k) \/ CalleeReplies(c, n, k)

------------------------------------------------------------------------------
(* SipProviderListener: finding or opening the session of a message.        *)

\* The sessions processSessionRequest accepts: ended ones and ones that have
\* no Call-ID yet are skipped.
OpenSessions(c) == {s \in listed : state[s] # "ENDED" /\ callId[s] = c}

ReceiveRequest(w, m) ==
  /\ pc[w] = "idle" /\ m \in net /\ m.kind \in RequestKinds
  /\ net' = net \ {m}
  /\ UNCHANGED <<tx, sent, out, objVars, recordVars, buf>>
  /\ LET S == OpenSessions(m.call) IN
     \/ /\ \E s \in Sessions : IsFirst(s, S) /\ cur' = [cur EXCEPT ![w] = s]
        /\ pc' = [pc EXCEPT ![w] = IF m.kind = "INVITE" THEN "entry" ELSE "dispatch"]
        /\ req' = [req EXCEPT ![w] = m]
     \/ /\ S = {} /\ m.kind = "INVITE"
        /\ pc' = [pc EXCEPT ![w] = "admit"]
        /\ req' = [req EXCEPT ![w] = m]
        /\ UNCHANGED cur
     \/ /\ S = {} /\ m.kind # "INVITE"     \* TalkSipSessionException, logged
        /\ UNCHANGED <<pc, cur, req>>

\* Authentication, the extension and the callee's registration decide; the
\* session joins the list before its Call-ID is known.
Admit(w) ==
  /\ pc[w] = "admit" /\ "admit" \in Verdicts
  /\ \E s \in Sessions :
       /\ state[s] = "none" /\ \A r \in Sessions : r < s => state[r] # "none"
       /\ state' = [state EXCEPT ![s] = "STARTED"]
       /\ listed' = listed \cup {s}
       /\ cur' = [cur EXCEPT ![w] = s]
  /\ pc' = [pc EXCEPT ![w] = "entry"]
  /\ UNCHANGED <<callId, inviteTx, last, alg, running, recordVars, netVars, req, buf>>

\* 407, 401, 404, 480 or 503 without a session.  The response opens the
\* server transaction, which fails for a copy of a request that has one.  A
\* caller without a primary extension makes the constructor throw: no response.
TurnAway(w, v) ==
  /\ pc[w] = "admit" /\ v \in Verdicts \ {"admit"}
  /\ LET c == req[w].call
         n == req[w].seq IN
     \/ /\ tx[c][n] = "none" /\ v # "abandon"
        /\ tx' = [tx EXCEPT ![c][n] = "refused"]
        /\ out' = out \cup {Output("caller", IF v = "challenge" THEN "CHALLENGE"
                                             ELSE "REJECT", c, n)}
     \/ /\ tx[c][n] # "none" \/ v = "abandon"
        /\ UNCHANGED <<tx, out>>
  /\ Done(w)
  /\ UNCHANGED <<sent, net, objVars, recordVars>>

\* processResponse reads the Call-ID of every listed session up to the one it
\* looks for; one without a Call-ID yet throws and the response is dropped.
ReceiveResponse(w, m) ==
  /\ pc[w] = "idle" /\ m \in net /\ m.kind \in ResponseKinds
  /\ net' = net \ {m}
  /\ UNCHANGED <<tx, sent, out, objVars, recordVars, buf>>
  /\ LET S == {s \in listed : callId[s] = m.call}
         Found(s) == IsFirst(s, S) /\ \A z \in listed : callId[z] = NoCall => s < z IN
     \/ /\ \E s \in Sessions : Found(s) /\ cur' = [cur EXCEPT ![w] = s]
        /\ pc' = [pc EXCEPT ![w] = "response"]
        /\ req' = [req EXCEPT ![w] = m]
     \/ ~(\E s \in Sessions : Found(s)) /\ UNCHANGED <<pc, cur, req>>

------------------------------------------------------------------------------
(* SipSession.sessionRequestReceived.                                       *)

\* A re-INVITE is recognised by the state it finds ...
Entry(w) ==
  /\ pc[w] = "entry"
  /\ Goto(w, IF state[cur[w]] = "ESTABLISHED" THEN "reopen" ELSE "dispatch")
  /\ UNCHANGED <<objVars, recordVars, netVars>>

\* ... and takes the session back to STARTED.
Reopen(w) ==
  /\ pc[w] = "reopen"
  /\ SetState(cur[w], "STARTED")
  /\ Goto(w, "dispatch")
  /\ UNCHANGED <<recordVars, netVars>>

Dispatch(w) ==
  /\ pc[w] = "dispatch"
  /\ LET k == req[w].kind
         v == state[cur[w]] IN
     Goto(w, CASE v = "STARTED" /\ k = "INVITE" -> "openTx"
               [] v = "STARTED" /\ k # "INVITE" -> "setEnded"  \* TalkSipSessionException
               [] v = "INVITED" /\ k = "CANCEL" -> "cancel"
               [] v = "ESTABLISHED" /\ k = "ACK" -> "ack"
               [] v = "ESTABLISHED" /\ k \in {"BYE_CALLER", "BYE_CALLEE"} -> "bye"
               [] OTHER -> "cleanup")
  /\ UNCHANGED <<objVars, recordVars, netVars>>

\* Slip: the transaction of a copy is taken for a new one.
OpenTxOfAnyCopy(w) ==
  /\ pc[w] = "openTx"
  /\ tx' = [tx EXCEPT ![req[w].call][req[w].seq] = "open"]
  /\ callId' = [callId EXCEPT ![cur[w]] = req[w].call]
  /\ inviteTx' = [inviteTx EXCEPT ![cur[w]] = req[w].seq]
  /\ Stamp(cur[w], "InviteDate")
  /\ Goto(w, "sdp")
  /\ UNCHANGED <<state, last, alg, running, listed, sent, net, out>>

\* Slip: the Call-ID is taken before the transaction is asked for.
OpenTxAfterCallId(w) ==
  /\ pc[w] = "openTx"
  /\ LET s == cur[w]
         c == req[w].call
         n == req[w].seq IN
     /\ callId' = [callId EXCEPT ![s] = c]
     /\ \/ /\ tx[c][n] = "none"
           /\ tx' = [tx EXCEPT ![c][n] = "open"]
           /\ inviteTx' = [inviteTx EXCEPT ![s] = n]
           /\ Stamp(s, "InviteDate")
           /\ Goto(w, "sdp")
        \/ /\ tx[c][n] # "none"
           /\ Goto(w, "cleanup")
           /\ UNCHANGED <<tx, inviteTx, recordVars>>
     /\ UNCHANGED <<state, last, alg, running, listed, sent, net, out>>

\* getServerTransaction throws for a copy of an INVITE that has a transaction:
\* the session then keeps its state, and a new one its null Call-ID.
OpenTx(w) ==
  /\ pc[w] = "openTx"
  /\ LET s == cur[w]
         c == req[w].call
         n == req[w].seq IN
     \/ /\ tx[c][n] = "none"
        /\ tx' = [tx EXCEPT ![c][n] = "open"]
        /\ callId' = [callId EXCEPT ![s] = c]
        /\ inviteTx' = [inviteTx EXCEPT ![s] = n]
        /\ Stamp(s, "InviteDate")
        /\ Goto(w, "sdp")
        /\ UNCHANGED <<state, last, alg, running, listed, sent, net, out>>
     \/ /\ tx[c][n] # "none"
        /\ Goto(w, "cleanup")
        /\ UNCHANGED <<objVars, recordVars, netVars>>

\* The headers of a forwarded request name the primary extension of its sender
\* (resolvePrimaryExtensionDao); without an enabled one the rewriting throws.
RewriteFails == "rewrite" \in Faults

\* Headers and SDP.  A caller whose primary extension is disabled skips the SDP
\* and its ALG channel; bad SDP ends the session after the channel was started.
Sdp(w) ==
  /\ pc[w] = "sdp"
  /\ \/ /\ \/ Goto(w, "forward")
           \/ "sdp" \in Faults /\ Goto(w, "setEnded")
        /\ IF AlgEnabled
           THEN /\ alg' = [alg EXCEPT ![cur[w]] = req[w].seq]
                /\ running' = [running EXCEPT ![cur[w]] = @ \cup {req[w].seq}]
           ELSE UNCHANGED <<alg, running>>
     \/ RewriteFails /\ Goto(w, "forward") /\ UNCHANGED <<alg, running>>
  /\ UNCHANGED <<state, callId, inviteTx, last, listed, recordVars, netVars>>

Forward(w) ==
  /\ pc[w] = "forward"
  /\ \/ Goto(w, "trying") /\ Emit({Output("callee", "INVITE", req[w].call, req[w].seq)})
     \/ "forward" \in Faults /\ Goto(w, "cleanup") /\ UNCHANGED netVars
  /\ UNCHANGED <<objVars, recordVars>>

Trying(w) ==
  /\ pc[w] = "trying"
  /\ \/ TxIs(cur[w], "open") /\ Emit({ToCaller(cur[w], "TRYING")}) /\ Goto(w, "setInvited")
     \/ /\ CannotRespond(cur[w])
        /\ Goto(w, "cleanup") /\ UNCHANGED netVars
  /\ UNCHANGED <<objVars, recordVars>>

SetInvited(w) ==
  /\ pc[w] = "setInvited"
  /\ SetState(cur[w], "INVITED")
  /\ Goto(w, "cleanup")
  /\ UNCHANGED <<recordVars, netVars>>

\* The 200 of a CANCEL has a transaction of its own.
Cancel(w) ==
  /\ pc[w] = "cancel"
  /\ Stamp(cur[w], "CancelDate")
  /\ \/ Emit({ToCaller(cur[w], "CANCEL_OK")}) /\ Goto(w, "cancelForward")
     \/ "response" \in Faults /\ Goto(w, "cleanup") /\ UNCHANGED netVars
  /\ UNCHANGED objVars

\* A 180 has been recorded, its client transaction has not: the CANCEL is built
\* from the null one and a NullPointerException leaves the handler.
HalfRung(s) == "RINGING" \in last[s] /\ "RINGING_TX" \notin last[s]

\* The callee hears of a CANCEL only when a 180 of it has been recorded.
CancelOnward(s) == IF "RINGING" \in last[s] THEN {ToCallee(s, "CANCEL")} ELSE {}

\* Slip: a CANCEL leaves the session INVITED.
CancelWithoutEnd(w) ==
  /\ pc[w] = "cancelForward"
  /\ Emit(CancelOnward(cur[w]))
  /\ Goto(w, "cleanup")
  /\ UNCHANGED <<objVars, recordVars>>

CancelForward(w) ==
  /\ pc[w] = "cancelForward"
  /\ \/ ~HalfRung(cur[w]) /\ Emit(CancelOnward(cur[w])) /\ Goto(w, "setEnded")
     \/ /\ HalfRung(cur[w]) \/ ("forward" \in Faults /\ CancelOnward(cur[w]) # {})
        /\ Goto(w, "cleanup") /\ UNCHANGED netVars
  /\ UNCHANGED <<objVars, recordVars>>

\* forwardAck works on lastOkResponse and its transaction.
Ack(w) ==
  /\ pc[w] = "ack"
  /\ Stamp(cur[w], "AckDate")
  /\ Remember(cur[w], "ACK")
  /\ \/ "OK" \in last[cur[w]] /\ Emit({ToCallee(cur[w], "ACK")})
     \/ ("OK" \notin last[cur[w]] \/ "forward" \in Faults) /\ UNCHANGED netVars
  /\ Goto(w, "cleanup")

\* The side that hangs up gets its 200 first.  A BYE of the callee goes out
\* in the dialog of lastAckRequestEvent, one of the caller in that of
\* lastOkClientTransaction.  When that is null, or the 200 cannot be sent, or
\* the header not be rewritten or the BYE not be sent, the state does not change.
Bye(w) ==
  /\ pc[w] = "bye"
  /\ Stamp(cur[w], "ByeDate")
  /\ LET s == cur[w]
         byCaller == req[w].kind = "BYE_CALLER"
         Ok     == IF byCaller THEN ToCaller(s, "BYE_OK") ELSE ToCallee(s, "BYE_OK")
         Onward == IF byCaller THEN ToCallee(s, "BYE") ELSE ToCaller(s, "BYE")
         known  == (IF byCaller THEN "OK" ELSE "ACK") \in last[s] IN
     \/ known /\ Emit({Ok, Onward}) /\ Goto(w, "setEnded")
     \/ /\ ~known \/ RewriteFails \/ "forward" \in Faults
        /\ Emit({Ok}) /\ Goto(w, "cleanup")
     \/ "response" \in Faults /\ Goto(w, "cleanup") /\ UNCHANGED netVars
  /\ UNCHANGED objVars

\* Slip: onCommunicationProcessed is not in a finally clause.
SetEndedOnly(w) ==
  /\ pc[w] = "setEnded"
  /\ SetState(cur[w], "ENDED")
  /\ Done(w)
  /\ UNCHANGED <<recordVars, netVars>>

\* state = ENDED at the end of a CANCEL, a BYE or an error response, and in
\* the catch clause of TalkSipSessionException.
SetEnded(w) ==
  /\ pc[w] = "setEnded"
  /\ SetState(cur[w], "ENDED")
  /\ Goto(w, "cleanup")
  /\ UNCHANGED <<recordVars, netVars>>

------------------------------------------------------------------------------
(* SipSession.sessionResponseReceived.  An exception leaves it without      *)
(* onCommunicationProcessed.                                                *)

\* Slip: every response below 300 is taken for the 200.
ResponseBelow300(w) ==
  /\ pc[w] = "response"
  /\ LET k == req[w].kind
         invited == state[cur[w]] = "INVITED" IN
     Goto(w, CASE invited /\ k \in {"RINGING", "OK"} -> "answer"
               [] invited /\ k = "ERR" -> "refuse"
               [] invited /\ k = "REPLY_ERR" -> "setEnded"
               [] OTHER -> "cleanup")
  /\ UNCHANGED <<objVars, recordVars, netVars>>

Response(w) ==
  /\ pc[w] = "response"
  /\ LET k == req[w].kind
         invited == state[cur[w]] = "INVITED" IN
     Goto(w, CASE invited /\ k = "RINGING" -> "ring"
               [] invited /\ k = "OK" -> "answer"
               [] invited /\ k = "ERR" -> "refuse"
               [] invited /\ k = "REPLY_ERR" -> "setEnded"
               [] OTHER -> "cleanup")
  /\ UNCHANGED <<objVars, recordVars, netVars>>

Ring(w) ==
  /\ pc[w] = "ring"
  /\ Stamp(cur[w], "RingingResponseDate")
  /\ \/ /\ TxIs(cur[w], "open")
        /\ Emit({ToCaller(cur[w], "RINGING")}) /\ Goto(w, "recordRinging")
     \/ CannotRespond(cur[w]) /\ Done(w) /\ UNCHANGED netVars
  /\ UNCHANGED objVars

RecordRinging(w) ==
  /\ pc[w] = "recordRinging"
  /\ Remember(cur[w], "RINGING")
  /\ Goto(w, "recordRingTx")
  /\ UNCHANGED <<recordVars, netVars>>

RecordRingTx(w) ==
  /\ pc[w] = "recordRingTx"
  /\ Remember(cur[w], "RINGING_TX")
  /\ Goto(w, "cleanup")
  /\ UNCHANGED <<recordVars, netVars>>

\* Slip: the state is set before the callee's 200 is recorded.
AnswerUnrecorded(w) ==
  /\ pc[w] = "answer"
  /\ Stamp(cur[w], "OkResponseDate")
  /\ \/ TxIs(cur[w], "open") /\ Final(cur[w], "OK", "answered") /\ Goto(w, "setEstablished")
     \/ ~TxIs(cur[w], "open") /\ Done(w) /\ UNCHANGED netVars
  /\ UNCHANGED objVars

Answer(w) ==
  /\ pc[w] = "answer"
  /\ Stamp(cur[w], "OkResponseDate")
  /\ \/ TxIs(cur[w], "open") /\ Final(cur[w], "OK", "answered") /\ Goto(w, "recordOk")
     \/ CannotRespond(cur[w]) /\ Done(w) /\ UNCHANGED netVars
  /\ UNCHANGED objVars

\* Nothing reads lastOk... of a session that is not ESTABLISHED yet.
RecordOk(w) ==
  /\ pc[w] = "recordOk"
  /\ Remember(cur[w], "OK")
  /\ Goto(w, "setEstablished")
  /\ UNCHANGED <<recordVars, netVars>>

SetEstablished(w) ==
  /\ pc[w] = "setEstablished"
  /\ SetState(cur[w], "ESTABLISHED")
  /\ Goto(w, "cleanup")
  /\ UNCHANGED <<recordVars, netVars>>

Refuse(w) ==
  /\ pc[w] = "refuse"
  /\ \/ TxIs(cur[w], "open") /\ Final(cur[w], "ERR", "refused") /\ Goto(w, "setEnded")
     \/ CannotRespond(cur[w]) /\ Done(w) /\ UNCHANGED netVars
  /\ UNCHANGED <<objVars, recordVars>>

------------------------------------------------------------------------------
(* SipSession.onCommunicationProcessed.                                     *)

\* Slip: only the record of an ended session is stored.
CleanupEndedOnly(t) ==
  /\ pc[t] = "cleanup"
  /\ \/ state[cur[t]] = "ENDED" /\ Goto(t, "close")
     \/ state[cur[t]] # "ENDED" /\ Done(t)
  /\ UNCHANGED <<objVars, recordVars, netVars>>

Cleanup(t) ==
  /\ pc[t] = "cleanup"
  /\ LET s == cur[t] IN
     \/ state[s] = "ENDED" /\ Goto(t, "close")
     \/ state[s] # "ENDED" /\ "InviteDate" \in dao[s] /\ Goto(t, "store")
     \/ state[s] # "ENDED" /\ "InviteDate" \notin dao[s] /\ Done(t)
  /\ UNCHANGED <<objVars, recordVars, netVars>>

\* Slip: the channel is left to its inactivity timer.
CloseWithoutStop(t) ==
  /\ pc[t] = "close"
  /\ Stamp(cur[t], "EndDate")
  /\ Goto(t, "unlist")
  /\ UNCHANGED <<objVars, netVars>>

Close(t) ==
  /\ pc[t] = "close"
  /\ running' = [running EXCEPT ![cur[t]] = @ \ {alg[cur[t]]}]
  /\ Stamp(cur[t], "EndDate")
  /\ Goto(t, "unlist")
  /\ UNCHANGED <<state, callId, inviteTx, last, alg, listed, netVars>>

\* Slip: store runs before the end date is set, not after.
UnlistUnstored(t) ==
  /\ pc[t] = "unlist"
  /\ listed' = listed \ {cur[t]}
  /\ Done(t)
  /\ UNCHANGED <<state, callId, inviteTx, last, alg, running, recordVars, netVars>>

Unlist(t) ==
  /\ pc[t] = "unlist"
  /\ listed' = listed \ {cur[t]}
  /\ \/ "InviteDate" \in dao[cur[t]] /\ Goto(t, "store")
     \/ "InviteDate" \notin dao[cur[t]] /\ Done(t)
  /\ UNCHANGED <<state, callId, inviteTx, last, alg, running, recordVars, netVars>>

\* DatabaseObject.store: insert or update is decided by the _id.
Store(t) ==
  /\ pc[t] = "store"
  /\ buf' = [buf EXCEPT ![t].insert = ~stored[cur[t]]]
  /\ pc' = [pc EXCEPT ![t] = "encode"]
  /\ UNCHANGED <<objVars, recordVars, netVars, cur, req>>

\* The document is encoded as it is now; insert gives it an _id first.
Encode(t) ==
  /\ pc[t] = "encode"
  /\ buf' = [buf EXCEPT ![t].doc = dao[cur[t]]]
  /\ stored' = [stored EXCEPT ![cur[t]] = TRUE]
  /\ pc' = [pc EXCEPT ![t] = "write"]
  /\ UNCHANGED <<objVars, dao, history, netVars, cur, req>>

\* The database applies it.  An update finds nothing to replace when it
\* overtakes the insert, and a second insert meets the _id of the first.
Write(t) ==
  /\ pc[t] = "write"
  /\ history' = [history EXCEPT ![cur[t]] =
                   IF buf[t].insert <=> @ = {} THEN buf[t].doc ELSE @]
  /\ Done(t)
  /\ UNCHANGED <<objVars, dao, stored, netVars>>

------------------------------------------------------------------------------
(* SipSession.terminate, on a session the administrator found in the list.  *)

Terminate(a, s) ==
  /\ a \in Admins /\ pc[a] = "idle" /\ s \in listed
  /\ cur' = [cur EXCEPT ![a] = s]
  /\ pc' = [pc EXCEPT ![a] = CASE state[s] = "INVITED" -> "endInvited"
                               [] state[s] = "ESTABLISHED" -> "endEstablished"
                               [] OTHER -> "cleanup"]
  /\ UNCHANGED <<objVars, recordVars, netVars, req, buf>>

EndInvited(a) ==
  /\ pc[a] = "endInvited"
  /\ SetState(cur[a], "ENDED")
  /\ Goto(a, "refuseInvited")
  /\ UNCHANGED <<recordVars, netVars>>

\* When the 503 fails terminate fails with it, and the clean-up is skipped.
RefuseInvited(a) ==
  /\ pc[a] = "refuseInvited"
  /\ \/ TxIs(cur[a], "open") /\ Final(cur[a], "503", "refused") /\ Goto(a, "cancelInvited")
     \/ CannotRespond(cur[a]) /\ Done(a) /\ UNCHANGED netVars
  /\ UNCHANGED <<objVars, recordVars>>

CancelInvited(a) ==
  /\ pc[a] = "cancelInvited"
  /\ \/ ~HalfRung(cur[a]) /\ Emit(CancelOnward(cur[a])) /\ Goto(a, "cleanup")
     \/ /\ HalfRung(cur[a]) \/ ("forward" \in Faults /\ CancelOnward(cur[a]) # {})
        /\ Done(a) /\ UNCHANGED netVars
  /\ UNCHANGED <<objVars, recordVars>>

EndEstablished(a) ==
  /\ pc[a] = "endEstablished"
  /\ SetState(cur[a], "ENDED")
  /\ Goto(a, "byeBoth")
  /\ UNCHANGED <<recordVars, netVars>>

\* Both BYEs are built from lastAckRequestEvent, the caller's first: before the
\* ACK a NullPointerException leaves terminate, later a failure to send.
ByeBoth(a) ==
  /\ pc[a] = "byeBoth"
  /\ \/ /\ "ACK" \in last[cur[a]]
        /\ Emit({ToCaller(cur[a], "BYE"), ToCallee(cur[a], "BYE")})
        /\ Goto(a, "cleanup")
     \/ /\ "ACK" \in last[cur[a]] /\ "forward" \in Faults
        /\ Emit({ToCaller(cur[a], "BYE")}) /\ Done(a)
     \/ /\ "ACK" \notin last[cur[a]] \/ "forward" \in Faults
        /\ Done(a) /\ UNCHANGED netVars
  /\ UNCHANGED <<objVars, recordVars>>

------------------------------------------------------------------------------
RequestStep(w) ==
  \/ Admit(w) \/ \E v \in Verdicts : TurnAway(w, v)
  \/ Entry(w) \/ Reopen(w) \/ Dispatch(w) \/ OpenTx(w) \/ Sdp(w) \/ Forward(w)
  \/ Trying(w) \/ SetInvited(w) \/ Cancel(w) \/ CancelForward(w) \/ Ack(w)
  \/ Bye(w) \/ SetEnded(w)

ResponseStep(w) ==
  \/ Response(w) \/ Ring(w) \/ RecordRinging(w) \/ RecordRingTx(w)
  \/ Answer(w) \/ RecordOk(w) \/ SetEstablished(w) \/ Refuse(w)

CleanupStep(t) ==
  Cleanup(t) \/ Close(t) \/ Unlist(t) \/ Store(t) \/ Encode(t) \/ Write(t)

TerminateStep(a) ==
  \/ EndInvited(a) \/ RefuseInvited(a) \/ CancelInvited(a) \/ EndEstablished(a)
  \/ ByeBoth(a)

\* A thread that has begun a handler goes on with it.
ThreadStep(t) == RequestStep(t) \/ ResponseStep(t) \/ CleanupStep(t) \/ TerminateStep(t)

Next ==
  \/ UserAgents
  \/ \E w \in Workers, m \in net : ReceiveRequest(w, m) \/ ReceiveResponse(w, m)
  \/ \E a \in Admins, s \in Sessions : Terminate(a, s)
  \/ \E t \in Threads : ThreadStep(t)

Spec == Init /\ [][Next]_vars

\* The threads of the pool and of the servlet container are scheduled; no
\* message has to arrive and no user agent has to act.
FairSpec == Spec /\ \A t \in Threads : WF_vars(ThreadStep(t))

------------------------------------------------------------------------------
(* What the session code promises.                                          *)

\* No thread is inside a handler of the session.
Quiescent(s) == \A t \in Threads : cur[t] # s

\* The caller of the session was sent a 200 for some INVITE.
Answered(s) == callId[s] # NoCall /\ \E n \in Seqs : tx[callId[s]][n] = "answered"

\* A session is ESTABLISHED only when its caller has been sent the 200 and the
\* callee's 200 has been recorded: the order of SipSession.java:460-463.  It is
\* what ACK, BYE and terminate rely on, whatever thread runs them and when.
EstablishedWasAnswered ==
  \A s \in Sessions : state[s] = "ESTABLISHED" => Answered(s) /\ "OK" \in last[s]

\* Fields that a handler dereferences without a null check are set whenever a
\* thread gets to that statement: the server transaction for 180, 200, an error
\* or terminate's 503 (SipSession.java:118,446-469), the recorded 200 for an ACK
\* or a caller's BYE (379,403).  The client transaction of a recorded 180, which
\* a CANCEL and terminate use (362,120), may be missing, but then the thread that
\* records the 180 stands between the two assignments (451-452).
NoNullDereference ==
  \A t \in Threads :
    /\ pc[t] \in {"cancel", "cancelForward", "ring", "answer", "refuse",
                  "refuseInvited", "cancelInvited"} =>
         callId[cur[t]] # NoCall /\ inviteTx[cur[t]] # 0
    /\ pc[t] = "ack" \/ (pc[t] = "bye" /\ req[t].kind = "BYE_CALLER") =>
         "OK" \in last[cur[t]]
    /\ pc[t] \in {"cancelForward", "cancelInvited"} /\ HalfRung(cur[t]) =>
         \E u \in Threads : pc[u] = "recordRingTx" /\ cur[u] = cur[t]

\* A Call-ID never has two sessions that are not ended, though nothing makes
\* the search and the creation of a session atomic (SipProviderListener.java:
\* 187-251): only the server transaction of the INVITE tells its copies apart.
OneSessionPerCall ==
  \A r, s \in Sessions :
    /\ callId[r] = callId[s] /\ callId[r] # NoCall
    /\ state[r] # "ENDED" /\ state[s] # "ENDED"
    => r = s

\* Once a session has left the list and no thread works on it, its ALG channel
\* has been stopped and its record carries an end date (SipSession.java:516-521).
UnlistedIsClosed ==
  \A s \in Sessions :
    state[s] # "none" /\ s \notin listed /\ Quiescent(s) =>
      running[s] = {} /\ "EndDate" \in dao[s]

\* An ended session stays in the list only when terminate failed on it: then an
\* administrator exists, and the call had been answered before the 503 or the BYE
\* could be sent, or the 503 itself could not be sent, or the CANCEL to a callee
\* that rings could not be built or sent (SipSession.java:115-163, 424-431).
EndedLeavesList ==
  \A s \in Sessions :
    state[s] = "ENDED" /\ s \in listed /\ Quiescent(s) =>
      /\ Admins # {}
      /\ \/ Answered(s)
         \/ "response" \in Faults /\ TxIs(s, "open")
         \/ "RINGING" \in last[s]

\* Every call whose INVITE got a transaction has a record in the database when
\* its threads are done, whatever failed on the way (SipSession.java:430, 523).
CallIsRecorded ==
  \A s \in Sessions : Quiescent(s) /\ "InviteDate" \in dao[s] => history[s] # {}

\* CallListMethod's status of a record.
CallStatus(d) ==
  IF "CancelDate" \in d \/ ({"InviteDate", "EndDate"} \subseteq d /\ "OkResponseDate" \notin d)
    THEN "CANCELED"
  ELSE IF "EndDate" \in d THEN "ENDED"
  ELSE IF "OkResponseDate" \in d THEN "ANSWERED"
  ELSE IF "RingingResponseDate" \in d THEN "RINGING"
  ELSE IF "InviteDate" \in d THEN "INVITED" ELSE "UNKNOWN"

\* A CANCEL was written down and failed: its 200 could not be sent, or the
\* CANCEL to a callee that rings.
CancelFailed(s) ==
  /\ "CancelDate" \in dao[s]
  /\ \/ ToCaller(s, "CANCEL_OK") \notin out
     \/ "forward" \in Faults /\ "RINGING" \in last[s]

\* As long as no two threads work on one session, the history a portal user sees
\* is right: over for the calls that have left the list, and for no other but one
\* whose CANCEL failed after its date was set (CallListMethod.java:95-107,
\* SipSession.java:359-366, 516-525).
HistoryMatchesList ==
  \A s \in Sessions :
    Quiescent(s) /\ history[s] # {} =>
      (CallStatus(history[s]) \in {"CANCELED", "ENDED"}
         <=> s \notin listed \/ CancelFailed(s))

\* The BYE of a caller that was accepted for an established call ends the
\* session: it leaves the list, its channel stops (SipSession.java:394-417, 430).
AcceptedByeEndsCall ==
  \A w \in Workers, s \in Sessions :
    pc[w] = "bye" /\ cur[w] = s /\ req[w].kind = "BYE_CALLER" ~>
      s \notin listed /\ running[s] = {}

\* A CANCEL that was accepted, its 200 sent, ends the session unless the call is
\* answered meanwhile, or the CANCEL comes upon a 180 that is half recorded and
\* fails (SipSession.java:356-370 against 451-463).
AcceptedCancelEndsCall ==
  \A w \in Workers, s \in Sessions :
    pc[w] = "cancelForward" /\ cur[w] = s ~>
      \/ s \notin listed \/ Answered(s)
      \/ pc[w] = "cancelForward" /\ cur[w] = s /\ HalfRung(s)

\* What has become of an INVITE at the callee's phone.
AtCallee(c, n) ==
  IF Message("OK", c, n) \in sent THEN "pickedUp"
  ELSE IF Message("ERR", c, n) \in sent THEN "declined"
  ELSE IF Output("callee", "INVITE", c, n) \in out THEN "offered" ELSE "idle"

Callees == [c \in Calls |-> [n \in Seqs |-> AtCallee(c, n)]]
ConnectedCalls == {c \in Calls : \E s \in Sessions : callId[s] = c /\ state[s] = "ESTABLISHED"}

Service == INSTANCE CallService WITH
  caller <- tx, callee <- Callees, connected <- ConnectedCalls

\* Seen by the two phones the sessions and their threads are the call service of
\* CallService.tla: an INVITE is offered only after its transaction was opened, gets
\* one final response, and is answered only after the callee picked up that very
\* INVITE, though a response is matched with a session by its Call-ID alone and
\* answers whatever INVITE came last (SipProviderListener.java:104-123,
\* SipSession.java:453-463).
CallsAreServed == Service!Spec

==============================================================================
