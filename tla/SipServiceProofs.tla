--------------------------- MODULE SipServiceProofs ---------------------------
(****************************************************************************)
(* SipCall implements CallService, for any number of calls, threads, INVITE *)
(* transactions and copies, and its calls are on record.                    *)
(*                                                                          *)
(* What is hard is that a 200 answers the INVITE its callee picked up: the  *)
(* code looks the session up by Call-ID and answers whatever transaction    *)
(* the session holds (Answer).  It is the right one because a phone sends a *)
(* new INVITE only when the previous one is closed, and a closed one has    *)
(* either used up its 200 or was never offered (InviteOK).                  *)
(****************************************************************************)
EXTENDS SipCallProofs

Forwarded(c, n)  == Output("callee", "INVITE", c, n) \in out
Challenged(c, n) == Output("caller", "CHALLENGE", c, n) \in out
GotOk(c, n)      == Output("caller", "OK", c, n) \in out
InviteSent(c, n) == \E m \in sent : m.kind = "INVITE" /\ m.call = c /\ m.seq = n

\* The 200 of the callee has been taken by a thread that has still to relay it.
Pending(c, n) == \/ Message("OK", c, n) \in net
                 \/ \E t \in Threads : req[t] = Message("OK", c, n) /\ pc[t] \in {"response", "answer"}

InviteOK(c, n) ==
  /\ tx[c][n] # "none" => InviteSent(c, n)
  /\ Forwarded(c, n) => tx[c][n] # "none" /\ ~Challenged(c, n)
  /\ Challenged(c, n) => tx[c][n] = "refused"
  /\ GotOk(c, n) => tx[c][n] = "answered"
  /\ Message("ACK", c, n) \in sent => GotOk(c, n)
  /\ Message("OK", c, n) \in sent \/ Message("ERR", c, n) \in sent => Forwarded(c, n)
  /\ tx[c][n] = "answered" => Message("OK", c, n) \in sent /\ ~Pending(c, n)

\* An INVITE is over for its caller before he sends the next one.
InTurn(c, n) ==
  InviteSent(c, n) => \A k \in Seqs : k < n => Challenged(c, k) \/ tx[c][k] = "answered"

HandlerOK(t) ==
  /\ req[t] # NoMsg => req[t] \in sent \ net
  /\ pc[t] \in {"admit", "entry", "reopen", "openTx"} => req[t].kind = "INVITE"
  /\ pc[t] \in {"sdp", "forward"} =>
       tx[req[t].call][req[t].seq] # "none" /\ ~Challenged(req[t].call, req[t].seq)
  /\ pc[t] = "answer" => req[t].kind = "OK"

\* No message is handled twice.
Unshared == \A t, u \in Threads : req[t] = req[u] /\ req[t] # NoMsg => t = u

\* Only an INVITE is retransmitted.
Numbered == \A m \in sent : m.kind = "INVITE" \/ m.copy = 1

JInv ==
  /\ \A c \in Calls, n \in Seqs : InviteOK(c, n) /\ InTurn(c, n)
  /\ \A t \in Threads : HandlerOK(t)
  /\ Unshared /\ Numbered /\ net \subseteq sent

------------------------------------------------------------------------------
(* Steps the phones do not notice.                                          *)

\* Labels about which HandlerOK says nothing.
Plain == Labels \ {"admit", "entry", "reopen", "openTx", "sdp", "forward", "response", "answer"}

SameTalk ==
  /\ UNCHANGED <<tx, sent, net>>
  /\ \A c \in Calls, n \in Seqs :
       /\ Output("callee", "INVITE", c, n) \in out' <=> Forwarded(c, n)
       /\ Output("caller", "CHALLENGE", c, n) \in out' <=> Challenged(c, n)
       /\ Output("caller", "OK", c, n) \in out' <=> GotOk(c, n)

\* Only thread t moves; it may drop its message, and does not come to relay a 200.
Moves(t) ==
  /\ \A u \in Threads \ {t} : pc'[u] = pc[u] /\ req'[u] = req[u]
  /\ req'[t] \in {req[t], NoMsg}
  /\ pc'[t] \in {"response", "answer"} => pc[t] \in {"response", "answer"}

LEMMA Named ==
  ASSUME NEW k \in RequestKinds \cup ResponseKinds, NEW c \in Calls, NEW n \in Seqs
  PROVE  /\ Message(k, c, n) \in Messages /\ Message(k, c, n) # NoMsg
         /\ Message(k, c, n).kind = k /\ Message(k, c, n).call = c /\ Message(k, c, n).seq = n
         /\ Message(k, c, n).copy = 1
BY ConstantsAssumption DEF Message, Messages

LEMMA PendingLess ==
  ASSUME JInv, IInv, NEW t \in Threads, Moves(t), net' = net,
         NEW c \in Calls, NEW n \in Seqs, Pending(c, n)'
  PROVE  Pending(c, n)
<1>1. Message("OK", c, n) # NoMsg
  BY Named DEF ResponseKinds
<1>2. CASE \E u \in Threads : req'[u] = Message("OK", c, n) /\ pc'[u] \in {"response", "answer"}
  <2>1. PICK u \in Threads : req'[u] = Message("OK", c, n) /\ pc'[u] \in {"response", "answer"}
    BY <1>2
  <2>2. req[u] = Message("OK", c, n) /\ pc[u] \in {"response", "answer"}
    BY <1>1, <2>1 DEF Moves
  <2> QED BY <2>2 DEF Pending
<1> QED BY <1>2 DEF Pending

LEMMA QuietStep ==
  ASSUME JInv, IInv, NEW t \in Threads, Moves(t), SameTalk, HandlerOK(t)'
  PROVE  JInv'
<1>1. ASSUME NEW c \in Calls, NEW n \in Seqs PROVE InviteOK(c, n)' /\ InTurn(c, n)'
  <2>1. InviteOK(c, n) /\ InTurn(c, n)
    BY DEF JInv
  <2>2. Pending(c, n)' => Pending(c, n)
    BY PendingLess DEF SameTalk
  <2>3. InviteOK(c, n)'
    BY <2>1, <2>2 DEF InviteOK, InviteSent, SameTalk, Forwarded, Challenged, GotOk
  <2>4. InTurn(c, n)'
    BY <2>1 DEF InTurn, InviteSent, SameTalk, Challenged
  <2> QED BY <2>3, <2>4
<1>2. ASSUME NEW u \in Threads PROVE HandlerOK(u)'
  <2>1. CASE u = t
    BY <2>1
  <2>2. CASE u # t
    <3>1. pc'[u] = pc[u] /\ req'[u] = req[u] /\ HandlerOK(u) /\ ThreadOK(u)
      BY <2>2 DEF Moves, JInv, IInv, ThreadInv
    <3>2. pc[u] \in {"sdp", "forward"} => req[u].call \in Calls /\ req[u].seq \in Seqs
      BY <3>1, MessageFields DEF ThreadOK, NeedsMessage, Labels
    <3> QED BY <3>1, <3>2 DEF HandlerOK, SameTalk, Challenged
  <2> QED BY <2>1, <2>2
<1>3. Unshared' /\ Numbered' /\ (net \subseteq sent)'
  BY DEF JInv, Unshared, Numbered, SameTalk, Moves
<1> QED BY <1>1, <1>2, <1>3 DEF JInv

LEMMA PlainGoto ==
  ASSUME JInv, IInv, NEW t \in Threads, NEW l \in Plain, Goto(t, l), SameTalk
  PROVE  JInv'
<1>1. pc'[t] = l /\ req' = req /\ \A u \in Threads \ {t} : pc'[u] = pc[u]
  BY DEF Goto, localVars, IInv, Typed, ThreadType
<1>2. Moves(t)
  BY <1>1 DEF Moves, Plain
<1>3. HandlerOK(t)'
  BY <1>1 DEF HandlerOK, Plain, JInv, SameTalk
<1> QED BY <1>2, <1>3, QuietStep

LEMMA PlainDone ==
  ASSUME JInv, IInv, NEW t \in Threads, Done(t), SameTalk
  PROVE  JInv'
<1>1. pc'[t] = "idle" /\ req'[t] = NoMsg
  BY DEF Done, IInv, Typed, ThreadType
<1>2. \A u \in Threads \ {t} : pc'[u] = pc[u] /\ req'[u] = req[u]
  BY DEF Done, IInv, Typed, ThreadType
<1>3. Moves(t)
  BY <1>1, <1>2 DEF Moves
<1>4. HandlerOK(t)'
  BY <1>1 DEF HandlerOK
<1> QED BY <1>3, <1>4, QuietStep

LEMMA Unheard ==
  ASSUME UNCHANGED netVars
  PROVE  SameTalk
BY DEF netVars, SameTalk, Forwarded, Challenged, GotOk

LEMMA OtherOutput ==
  ASSUME NEW O, Emit(O), \A o \in O : o.kind \notin {"INVITE", "CHALLENGE", "OK"}
  PROVE  SameTalk
<1>1. \A p, k, c, n : Output(p, k, c, n).kind = k
  BY DEF Output
<1> QED BY <1>1 DEF Emit, SameTalk, Forwarded, Challenged, GotOk

------------------------------------------------------------------------------
(* JInv, one lemma per group of steps.                                      *)

\* Steps inside the proxy.
LEMMA InnerSteps ==
  ASSUME JInv, IInv, NEW t \in Threads,
         \/ SetInvited(t) \/ SetEnded(t) \/ RecordRinging(t) \/ RecordRingTx(t) \/ RecordOk(t)
         \/ SetEstablished(t) \/ Cleanup(t) \/ Close(t) \/ Unlist(t) \/ Write(t)
         \/ EndInvited(t) \/ EndEstablished(t)
  PROVE  JInv'
<1> USE DEF Plain, Labels
<1>1. SameTalk
  BY Unheard DEF SetInvited, SetEnded, RecordRinging, RecordRingTx, RecordOk, SetEstablished, Cleanup,
                 Close, Unlist, Write, EndInvited, EndEstablished, netVars
<1>2. CASE SetInvited(t) \/ SetEnded(t) \/ RecordRinging(t) \/ RecordRingTx(t) \/ RecordOk(t) \/ SetEstablished(t)
  BY <1>1, <1>2, PlainGoto DEF SetInvited, SetEnded, RecordRinging, RecordRingTx, RecordOk, SetEstablished
<1>3. CASE Cleanup(t) \/ Close(t) \/ Unlist(t) \/ Write(t)
  BY <1>1, <1>3, PlainGoto, PlainDone DEF Cleanup, Close, Unlist, Write
<1>4. CASE EndInvited(t) \/ EndEstablished(t)
  BY <1>1, <1>4, PlainGoto DEF EndInvited, EndEstablished
<1> QED BY <1>2, <1>3, <1>4

LEMMA StoreTalk ==
  ASSUME JInv, IInv, NEW t \in Threads, Store(t) \/ Encode(t)
  PROVE  JInv'
<1>1. pc'[t] \in {"encode", "write"} /\ req' = req /\ \A u \in Threads \ {t} : pc'[u] = pc[u]
  BY DEF Store, Encode, IInv, Typed, ThreadType
<1>2. SameTalk
  BY Unheard DEF Store, Encode
<1>3. Moves(t) /\ HandlerOK(t)'
  BY <1>1, <1>2 DEF Moves, HandlerOK, JInv, SameTalk
<1> QED BY <1>2, <1>3, QuietStep

LEMMA TerminateTalk ==
  ASSUME JInv, IInv, NEW t \in Threads, NEW s \in Sessions, Terminate(t, s)
  PROVE  JInv'
<1>1. pc'[t] \in {"endInvited", "endEstablished", "cleanup"} /\ req' = req
      /\ \A u \in Threads \ {t} : pc'[u] = pc[u]
  BY DEF Terminate, IInv, Typed, ThreadType
<1>2. SameTalk
  BY Unheard DEF Terminate
<1>3. Moves(t) /\ HandlerOK(t)'
  BY <1>1, <1>2 DEF Moves, HandlerOK, JInv, SameTalk
<1> QED BY <1>2, <1>3, QuietStep

\* Steps that send what is neither an INVITE nor an answer of one.
LEMMA SendingSteps ==
  ASSUME JInv, IInv, NEW t \in Threads,
         \/ Trying(t) \/ Cancel(t) \/ CancelForward(t) \/ CancelInvited(t)
         \/ Ack(t) \/ Bye(t) \/ Ring(t) \/ ByeBoth(t)
  PROVE  JInv'
<1> USE DEF Plain, Labels
<1>1. \A s, k : ToCaller(s, k).kind = k /\ ToCallee(s, k).kind = k
  BY DEF ToCaller, ToCallee, Output
<1>2. \A s : \A o \in CancelOnward(s) : o.kind = "CANCEL"
  BY <1>1 DEF CancelOnward
<1>3. SameTalk
  <2>1. CASE Trying(t)
    BY <2>1, <1>1, OtherOutput, Unheard DEF Trying
  <2>2. CASE Cancel(t)
    BY <2>2, <1>1, OtherOutput, Unheard DEF Cancel
  <2>3. CASE CancelForward(t)
    BY <2>3, <1>2, OtherOutput, Unheard DEF CancelForward
  <2>4. CASE CancelInvited(t)
    BY <2>4, <1>2, OtherOutput, Unheard DEF CancelInvited
  <2>5. CASE Ack(t)
    BY <2>5, <1>1, OtherOutput, Unheard DEF Ack
  <2>6. CASE Bye(t)
    BY <2>6, <1>1, OtherOutput, Unheard DEF Bye
  <2>7. CASE Ring(t)
    BY <2>7, <1>1, OtherOutput, Unheard DEF Ring
  <2>8. CASE ByeBoth(t)
    BY <2>8, <1>1, OtherOutput, Unheard DEF ByeBoth
  <2> QED BY <2>1, <2>2, <2>3, <2>4, <2>5, <2>6, <2>7, <2>8
<1>4. Done(t) \/ \E l \in Plain : Goto(t, l)
  BY DEF Trying, Cancel, CancelForward, CancelInvited, Ack, Bye, Ring, ByeBoth
<1> QED BY <1>3, <1>4, PlainDone, PlainGoto

\* Steps of a thread towards a label HandlerOK speaks of.
LEMMA LabelSteps ==
  ASSUME JInv, IInv, NEW t \in Threads,
         \/ Admit(t) \/ Entry(t) \/ Reopen(t) \/ Dispatch(t) \/ Sdp(t) \/ Response(t)
  PROVE  JInv'
<1>1. SameTalk
  BY Unheard DEF Admit, Entry, Reopen, Dispatch, Sdp, Response, netVars
<1>2. req' = req /\ \A u \in Threads \ {t} : pc'[u] = pc[u]
  BY DEF Admit, Entry, Reopen, Dispatch, Sdp, Response, Goto, localVars, IInv, Typed, ThreadType
<1>3. HandlerOK(t)
  BY DEF JInv
<1>4. /\ pc'[t] \in {"admit", "entry", "reopen", "openTx", "response", "answer"} =>
           \/ pc[t] \in {"admit", "entry", "reopen"} /\ pc'[t] \in {"entry", "reopen", "dispatch"}
           \/ pc[t] = "dispatch" /\ pc'[t] = "openTx" /\ req[t].kind = "INVITE"
           \/ pc[t] = "response" /\ pc'[t] = "answer" /\ req[t].kind = "OK"
      /\ pc'[t] \in {"sdp", "forward"} => pc[t] = "sdp"
  BY DEF Admit, Entry, Reopen, Dispatch, Sdp, Response, Goto, IInv, Typed, ThreadType
<1>5. Moves(t)
  BY <1>2, <1>4 DEF Moves
<1>6. pc[t] = "sdp" => req[t].call \in Calls /\ req[t].seq \in Seqs
  BY MessageFields DEF IInv, ThreadInv, ThreadOK, NeedsMessage, Labels
<1>7. HandlerOK(t)'
  BY <1>1, <1>2, <1>3, <1>4, <1>6 DEF HandlerOK, SameTalk, Challenged
<1> QED BY <1>1, <1>5, <1>7, QuietStep

------------------------------------------------------------------------------
(* JInv, the steps the phones notice.                                       *)

\* What a step may do to the transactions without taking a message.
LEMMA TxStep ==
  ASSUME JInv, IInv, NEW t \in Threads, Moves(t), UNCHANGED <<sent, net>>, HandlerOK(t)',
         \A c \in Calls, n \in Seqs : InviteOK(c, n)',
         \A c \in Calls, n \in Seqs :
           /\ tx[c][n] # "none" => tx'[c][n] # "none"
           /\ tx[c][n] = "answered" => tx'[c][n] = "answered"
           /\ Challenged(c, n) => Output("caller", "CHALLENGE", c, n) \in out'
           /\ Output("caller", "CHALLENGE", c, n) \in out' =>
                Challenged(c, n) \/ tx[c][n] = "none"
  PROVE  JInv'
<1>1. ASSUME NEW c \in Calls, NEW n \in Seqs PROVE InTurn(c, n)'
  BY DEF JInv, InTurn, InviteSent, Challenged
<1>2. ASSUME NEW u \in Threads PROVE HandlerOK(u)'
  <2>1. CASE u = t
    BY <2>1
  <2>2. CASE u # t
    <3>1. pc'[u] = pc[u] /\ req'[u] = req[u] /\ HandlerOK(u) /\ ThreadOK(u)
      BY <2>2 DEF Moves, JInv, IInv, ThreadInv
    <3>2. pc[u] \in {"sdp", "forward"} => req[u].call \in Calls /\ req[u].seq \in Seqs
      BY <3>1, MessageFields DEF ThreadOK, NeedsMessage, Labels
    <3> QED BY <3>1, <3>2 DEF HandlerOK, Challenged
  <2> QED BY <2>1, <2>2
<1>3. Unshared' /\ Numbered' /\ (net \subseteq sent)'
  BY DEF JInv, Unshared, Numbered, Moves
<1> QED BY <1>1, <1>2, <1>3 DEF JInv

\* A final response for s closes one transaction and tells its caller so.
LEMMA Finals ==
  ASSUME IInv, NEW s \in Sessions, HasTx(s), TxIs(s, "open"),
         NEW k \in {"OK", "ERR", "503"}, NEW v \in {"answered", "refused"}, Final(s, k, v)
  PROVE  /\ UNCHANGED <<sent, net>>
         /\ tx[callId[s]][inviteTx[s]] = "open" /\ tx'[callId[s]][inviteTx[s]] = v
         /\ \A c \in Calls, n \in Seqs :
              <<c, n>> # <<callId[s], inviteTx[s]>> => tx'[c][n] = tx[c][n]
         /\ \A c \in Calls, n \in Seqs :
              /\ Output("callee", "INVITE", c, n) \in out' <=> Forwarded(c, n)
              /\ Output("caller", "CHALLENGE", c, n) \in out' <=> Challenged(c, n)
              /\ Output("caller", "OK", c, n) \in out' <=>
                   GotOk(c, n) \/ (k = "OK" /\ <<c, n>> = <<callId[s], inviteTx[s]>>)
<1>1. UNCHANGED <<sent, net>> /\ tx[callId[s]][inviteTx[s]] = "open"
      /\ tx'[callId[s]][inviteTx[s]] = v
  BY DEF Final, TxIs, IInv, Typed, NetType, HasTx
<1>2. ASSUME NEW c \in Calls, NEW n \in Seqs, <<c, n>> # <<callId[s], inviteTx[s]>>
      PROVE  tx'[c][n] = tx[c][n]
  BY <1>2 DEF Final, IInv, Typed, NetType, HasTx
<1>3. ASSUME NEW c \in Calls, NEW n \in Seqs
      PROVE  /\ Output("callee", "INVITE", c, n) \in out' <=> Forwarded(c, n)
             /\ Output("caller", "CHALLENGE", c, n) \in out' <=> Challenged(c, n)
             /\ Output("caller", "OK", c, n) \in out' <=>
                  GotOk(c, n) \/ (k = "OK" /\ <<c, n>> = <<callId[s], inviteTx[s]>>)
  BY DEF Final, Output, Forwarded, Challenged, GotOk
<1> QED BY <1>1, <1>2, <1>3

LEMMA RefusalSteps ==
  ASSUME JInv, IInv, NEW t \in Threads, Refuse(t) \/ RefuseInvited(t)
  PROVE  JInv'
<1> DEFINE s == cur[t]
<1>1. s \in Sessions /\ HasTx(s) /\ ThreadOK(t) /\ HandlerOK(t)
  BY Busy DEF Refuse, RefuseInvited, NeedsTx, JInv
<1>2. CASE UNCHANGED netVars
  <2>1. Done(t)
    BY <1>1, <1>2, Finals DEF Refuse, RefuseInvited, netVars, Final, TxIs, IInv, Typed, NetType, HasTx
  <2> QED BY <1>2, <2>1, PlainDone, Unheard
<1>3. CASE TxIs(s, "open") /\ (Final(s, "ERR", "refused") \/ Final(s, "503", "refused"))
           /\ (Goto(t, "setEnded") \/ Goto(t, "cancelInvited"))
  <2>1. PICK k \in {"ERR", "503"} : Final(s, k, "refused")
    BY <1>3
  <2>2. req' = req /\ pc'[t] \in Plain /\ \A u \in Threads \ {t} : pc'[u] = pc[u]
    BY <1>3 DEF Goto, localVars, IInv, Typed, ThreadType, Plain, Labels
  <2>3. Moves(t)
    BY <2>2 DEF Moves, Plain
  <2>4. HandlerOK(t)'
    BY <1>1, <1>3, <2>1, <2>2, Finals DEF HandlerOK, Plain
  <2>5. ASSUME NEW c \in Calls, NEW n \in Seqs PROVE InviteOK(c, n)'
    <3>1. InviteOK(c, n) /\ (Pending(c, n)' => Pending(c, n))
      BY <1>1, <1>3, <2>1, <2>3, PendingLess, Finals DEF JInv
    <3>2. tx'[c][n] = tx[c][n] \/ (tx[c][n] = "open" /\ tx'[c][n] = "refused")
      BY <1>1, <1>3, <2>1, Finals
    <3> QED BY <1>1, <1>3, <2>1, <3>1, <3>2, Finals
        DEF InviteOK, InviteSent, Forwarded, Challenged, GotOk
  <2>6. ASSUME NEW c \in Calls, NEW n \in Seqs
        PROVE  tx'[c][n] = tx[c][n] \/ (tx[c][n] = "open" /\ tx'[c][n] = "refused")
    BY <1>1, <1>3, <2>1, Finals
  <2> QED BY <1>1, <1>3, <2>1, <2>3, <2>4, <2>5, <2>6, TxStep, Finals
<1> QED BY <1>2, <1>3 DEF Refuse, RefuseInvited

\* The 200 a thread is about to relay is that of the transaction it answers.
LEMMA RightAnswer ==
  ASSUME JInv, IInv, NEW t \in Threads, pc[t] = "answer", TxIs(cur[t], "open")
  PROVE  req[t] = Message("OK", callId[cur[t]], inviteTx[cur[t]])
<1> DEFINE c == callId[cur[t]]
           m == inviteTx[cur[t]]
           n == req[t].seq
<1>1. cur[t] \in Sessions /\ HasTx(cur[t]) /\ req[t] \in Messages /\ ThreadOK(t) /\ HandlerOK(t)
  BY Busy DEF NeedsTx, NeedsMessage, Labels, JInv
<1>2. c \in Calls /\ m \in Seqs /\ n \in Seqs /\ req[t].call = c
  BY <1>1, MessageFields, ConstantsAssumption DEF ThreadOK, HasTx
<1>3. req[t] \in sent /\ req[t].kind = "OK" /\ req[t].copy = 1
  BY <1>1, ConstantsAssumption DEF HandlerOK, JInv, Numbered
<1>4. req[t] = Message("OK", c, n)
  BY <1>1, <1>2, <1>3 DEF Message, Messages
<1>5. Forwarded(c, n) /\ tx[c][n] # "none" /\ ~Challenged(c, n) /\ InviteSent(c, n)
  BY <1>2, <1>3, <1>4 DEF JInv, InviteOK
<1>6. tx[c][n] # "answered"
  <2>1. Pending(c, n)
    BY <1>4 DEF Pending
  <2> QED BY <1>2, <2>1 DEF JInv, InviteOK
<1>7. tx[c][m] = "open" /\ InviteSent(c, m)
  BY <1>2 DEF TxIs, JInv, InviteOK
<1>8. n = m
  <2>1. CASE m < n
    BY <1>2, <1>5, <1>7, <2>1 DEF JInv, InTurn, InviteOK
  <2>2. CASE n < m
    BY <1>2, <1>5, <1>6, <1>7, <2>2 DEF JInv, InTurn
  <2> QED BY <1>2, <2>1, <2>2 DEF Seqs
<1> QED BY <1>4, <1>8

LEMMA AnswerTalk ==
  ASSUME JInv, IInv, NEW t \in Threads, Answer(t)
  PROVE  JInv'
<1> DEFINE s == cur[t]
<1>1. pc[t] = "answer" /\ s \in Sessions /\ HasTx(s) /\ HandlerOK(t) /\ req[t] # NoMsg
  BY Busy, ConstantsAssumption DEF Answer, NeedsTx, NeedsMessage, Labels, JInv
<1>2. CASE UNCHANGED netVars
  <2>1. Done(t)
    BY <1>1, <1>2, Finals DEF Answer, netVars
  <2> QED BY <1>2, <2>1, PlainDone, Unheard
<1>3. CASE TxIs(s, "open") /\ Final(s, "OK", "answered") /\ Goto(t, "recordOk")
  <2>1. req' = req /\ pc'[t] = "recordOk" /\ \A u \in Threads \ {t} : pc'[u] = pc[u]
    BY <1>3 DEF Goto, localVars, IInv, Typed, ThreadType
  <2>2. Moves(t)
    BY <2>1 DEF Moves
  <2>3. HandlerOK(t)'
    BY <1>1, <1>3, <2>1, Finals DEF HandlerOK
  <2>4. req[t] = Message("OK", callId[s], inviteTx[s])
    BY <1>1, <1>3, RightAnswer
  <2>5. ASSUME NEW c \in Calls, NEW n \in Seqs PROVE InviteOK(c, n)'
    <3>1. InviteOK(c, n) /\ (Pending(c, n)' => Pending(c, n))
      BY <1>1, <1>3, <2>2, PendingLess, Finals DEF JInv
    <3>2. CASE <<c, n>> # <<callId[s], inviteTx[s]>>
      BY <1>1, <1>3, <3>1, <3>2, Finals DEF InviteOK, InviteSent, Forwarded, Challenged, GotOk
    <3>3. CASE c = callId[s] /\ n = inviteTx[s]
      <4>1. tx[c][n] = "open" /\ tx'[c][n] = "answered" /\ UNCHANGED <<sent, net>>
        BY <1>1, <1>3, <3>3, Finals
      <4>2. Message("OK", c, n) \in sent \ net
        BY <1>1, <2>4, <3>3 DEF HandlerOK
      <4>3. ~Pending(c, n)'
        BY <1>1, <2>1, <2>4, <3>3, <4>1, <4>2 DEF Pending, JInv, Unshared
      <4> QED BY <1>1, <1>3, <3>1, <3>3, <4>1, <4>2, <4>3, Finals
              DEF InviteOK, InviteSent, Forwarded, Challenged, GotOk
    <3> QED BY <3>2, <3>3
  <2>6. ASSUME NEW c \in Calls, NEW n \in Seqs
        PROVE  tx'[c][n] = tx[c][n] \/ (tx[c][n] = "open" /\ tx'[c][n] = "answered")
    BY <1>1, <1>3, Finals
  <2> QED BY <1>1, <1>3, <2>2, <2>3, <2>5, <2>6, TxStep, Finals
<1> QED BY <1>2, <1>3 DEF Answer

LEMMA ForwardTalk ==
  ASSUME JInv, IInv, NEW t \in Threads, Forward(t)
  PROVE  JInv'
<1> DEFINE c == req[t].call
           n == req[t].seq
<1>1. pc[t] = "forward" /\ req[t] \in Messages /\ c \in Calls /\ n \in Seqs /\ HandlerOK(t)
  BY Busy, MessageFields DEF Forward, NeedsMessage, Labels, JInv
<1>2. CASE UNCHANGED netVars /\ Goto(t, "cleanup")
  BY <1>2, PlainGoto, Unheard DEF Plain, Labels
<1>3. CASE Goto(t, "trying") /\ Emit({Output("callee", "INVITE", c, n)})
  <2>1. req' = req /\ pc'[t] = "trying" /\ \A u \in Threads \ {t} : pc'[u] = pc[u]
    BY <1>3 DEF Goto, localVars, IInv, Typed, ThreadType
  <2>2. Moves(t)
    BY <2>1 DEF Moves
  <2>3. UNCHANGED <<tx, sent, net>> /\ HandlerOK(t)'
    BY <1>1, <1>3, <2>1 DEF Emit, HandlerOK
  <2>4. ASSUME NEW d \in Calls, NEW k \in Seqs
        PROVE  /\ Output("callee", "INVITE", d, k) \in out' => Forwarded(d, k) \/ (d = c /\ k = n)
               /\ Forwarded(d, k) => Output("callee", "INVITE", d, k) \in out'
               /\ Output("caller", "CHALLENGE", d, k) \in out' <=> Challenged(d, k)
               /\ Output("caller", "OK", d, k) \in out' <=> GotOk(d, k)
    BY <1>3 DEF Emit, Output, Forwarded, Challenged, GotOk
  <2>5. ASSUME NEW d \in Calls, NEW k \in Seqs PROVE InviteOK(d, k)'
    <3>1. InviteOK(d, k) /\ (Pending(d, k)' => Pending(d, k))
      BY <2>2, <2>3, PendingLess DEF JInv
    <3>2. d = c /\ k = n => tx[d][k] # "none" /\ ~Challenged(d, k)
      BY <1>1 DEF HandlerOK
    <3> QED BY <2>3, <2>4, <3>1, <3>2 DEF InviteOK, InviteSent, Forwarded, Challenged, GotOk
  <2> QED BY <2>2, <2>3, <2>4, <2>5, TxStep
<1> QED BY <1>2, <1>3 DEF Forward

LEMMA OpenTxTalk ==
  ASSUME JInv, IInv, NEW t \in Threads, OpenTx(t)
  PROVE  JInv'
<1> DEFINE c == req[t].call
           n == req[t].seq
<1>1. pc[t] = "openTx" /\ req[t] \in Messages /\ c \in Calls /\ n \in Seqs /\ HandlerOK(t)
  BY Busy, MessageFields DEF OpenTx, NeedsMessage, Labels, JInv
<1>2. CASE UNCHANGED netVars /\ Goto(t, "cleanup")
  BY <1>2, PlainGoto, Unheard DEF Plain, Labels
<1>3. CASE tx[c][n] = "none" /\ tx' = [tx EXCEPT ![c][n] = "open"] /\ Goto(t, "sdp")
           /\ UNCHANGED <<sent, net, out>>
  <2>1. req' = req /\ pc'[t] = "sdp" /\ \A u \in Threads \ {t} : pc'[u] = pc[u]
    BY <1>3 DEF Goto, localVars, IInv, Typed, ThreadType
  <2>2. Moves(t)
    BY <2>1 DEF Moves
  <2>3. tx'[c][n] = "open"
    BY <1>1, <1>3 DEF IInv, Typed, NetType
  <2>4. ASSUME NEW d \in Calls, NEW k \in Seqs
        PROVE  tx'[d][k] = tx[d][k] \/ (d = c /\ k = n /\ tx[d][k] = "none")
    BY <1>1, <1>3 DEF IInv, Typed, NetType
  <2>5. ~Challenged(c, n)
    BY <1>1, <1>3 DEF JInv, InviteOK
  <2>6. HandlerOK(t)'
    BY <1>1, <1>3, <2>1, <2>3, <2>5 DEF HandlerOK, Challenged
  <2>7. InviteSent(c, n)
    BY <1>1, ConstantsAssumption DEF HandlerOK, InviteSent
  <2>8. ASSUME NEW d \in Calls, NEW k \in Seqs PROVE InviteOK(d, k)'
    <3>1. InviteOK(d, k) /\ (Pending(d, k)' => Pending(d, k))
      BY <1>3, <2>2, PendingLess DEF JInv
    <3> QED BY <1>3, <2>3, <2>4, <2>7, <3>1 DEF InviteOK, InviteSent, Forwarded, Challenged, GotOk
  <2> QED BY <1>3, <2>2, <2>3, <2>4, <2>6, <2>8, TxStep DEF Challenged
<1> QED BY <1>2, <1>3 DEF OpenTx

LEMMA TurnAwayTalk ==
  ASSUME JInv, IInv, NEW t \in Threads, NEW v, TurnAway(t, v)
  PROVE  JInv'
<1> DEFINE c == req[t].call
           n == req[t].seq
<1>1. req[t] \in Messages /\ c \in Calls /\ n \in Seqs /\ HandlerOK(t) /\ pc[t] = "admit"
  BY MessageFields DEF TurnAway, NeedsMessage, Labels, JInv, IInv, ThreadInv, ThreadOK
<1>2. Done(t) /\ UNCHANGED <<sent, net>>
  BY DEF TurnAway
<1>3. CASE UNCHANGED <<tx, out>>
  BY <1>2, <1>3, PlainDone, Unheard DEF netVars
<1>4. CASE tx[c][n] = "none" /\ tx' = [tx EXCEPT ![c][n] = "refused"]
           /\ \E k \in {"CHALLENGE", "REJECT"} : out' = out \cup {Output("caller", k, c, n)}
  <2>1. req'[t] = NoMsg /\ pc'[t] = "idle" /\ \A u \in Threads \ {t} : pc'[u] = pc[u] /\ req'[u] = req[u]
    BY <1>2 DEF Done, IInv, Typed, ThreadType
  <2>2. Moves(t) /\ HandlerOK(t)'
    BY <2>1 DEF Moves, HandlerOK
  <2>3. tx'[c][n] = "refused"
    BY <1>1, <1>4 DEF IInv, Typed, NetType
  <2>4. ASSUME NEW d \in Calls, NEW k \in Seqs
        PROVE  /\ tx'[d][k] = tx[d][k] \/ (d = c /\ k = n)
               /\ Output("callee", "INVITE", d, k) \in out' <=> Forwarded(d, k)
               /\ Output("caller", "OK", d, k) \in out' <=> GotOk(d, k)
               /\ Challenged(d, k) => Output("caller", "CHALLENGE", d, k) \in out'
               /\ Output("caller", "CHALLENGE", d, k) \in out' =>
                    Challenged(d, k) \/ (d = c /\ k = n)
    BY <1>1, <1>4 DEF IInv, Typed, NetType, Output, Forwarded, GotOk, Challenged
  <2>5. InviteSent(c, n)
    BY <1>1, ConstantsAssumption DEF HandlerOK, InviteSent
  <2>6. ASSUME NEW d \in Calls, NEW k \in Seqs PROVE InviteOK(d, k)'
    <3>1. InviteOK(d, k) /\ (Pending(d, k)' => Pending(d, k))
      BY <1>2, <2>2, PendingLess DEF JInv
    <3> QED BY <1>2, <1>4, <2>3, <2>4, <2>5, <3>1
            DEF InviteOK, InviteSent, Forwarded, Challenged, GotOk
  <2> QED BY <1>2, <1>4, <2>2, <2>3, <2>4, <2>6, TxStep DEF Challenged
<1> QED BY <1>3, <1>4 DEF TurnAway

LEMMA ReceiveTalk ==
  ASSUME JInv, IInv, NEW t \in Threads, NEW m \in net, ReceiveRequest(t, m) \/ ReceiveResponse(t, m)
  PROVE  JInv'
<1>1. /\ pc[t] = "idle" /\ net' = net \ {m} /\ UNCHANGED <<tx, sent, out>>
      /\ \/ pc' = pc /\ req' = req
         \/ /\ req'[t] = m /\ \A u \in Threads \ {t} : pc'[u] = pc[u] /\ req'[u] = req[u]
            /\ pc'[t] \in {"entry", "admit", "dispatch", "response"}
            /\ pc'[t] \in {"entry", "admit"} => m.kind = "INVITE"
  BY DEF ReceiveRequest, ReceiveResponse, IInv, Typed, ThreadType
<1>2. req[t] = NoMsg /\ m \in sent /\ HandlerOK(t)
  BY <1>1 DEF JInv, IInv, ThreadInv, ThreadOK
<1>3. ASSUME NEW c \in Calls, NEW n \in Seqs PROVE InviteOK(c, n)' /\ InTurn(c, n)'
  <2>1. InviteOK(c, n) /\ InTurn(c, n)
    BY DEF JInv
  <2>2. Pending(c, n)' => Pending(c, n)
    BY <1>1 DEF Pending
  <2> QED BY <1>1, <2>1, <2>2 DEF InviteOK, InTurn, InviteSent, Forwarded, Challenged, GotOk
<1>4. ASSUME NEW u \in Threads PROVE HandlerOK(u)'
  <2>1. HandlerOK(u) /\ ThreadOK(u)
    BY DEF JInv, IInv, ThreadInv
  <2>2. CASE pc'[u] = pc[u] /\ req'[u] = req[u]
    BY <1>1, <2>1, <2>2 DEF HandlerOK, Challenged
  <2>3. CASE u = t /\ req'[t] = m
    BY <1>1, <1>2, <2>3 DEF HandlerOK
  <2> QED BY <1>1, <2>2, <2>3
<1>5. Unshared'
  <2>1. \A u \in Threads : req[u] # m \/ req[u] = NoMsg
    BY DEF JInv, HandlerOK
  <2>2. Unshared
    BY DEF JInv
  <2> QED BY <1>1, <2>1, <2>2 DEF Unshared
<1>6. Numbered' /\ (net \subseteq sent)'
  BY <1>1 DEF JInv, Numbered
<1> QED BY <1>3, <1>4, <1>5, <1>6 DEF JInv

LEMMA SendTalk ==
  ASSUME JInv, IInv, NEW m \in Messages, Send(m),
         m.kind # "INVITE" => m.copy = 1,
         m.kind \in {"OK", "ERR"} => Forwarded(m.call, m.seq),
         m.kind = "ACK" => GotOk(m.call, m.seq),
         m.kind = "INVITE" =>
           \A k \in Seqs : k < m.seq => Challenged(m.call, k) \/ tx[m.call][k] = "answered"
  PROVE  JInv'
<1>1. /\ m \notin sent /\ sent' = sent \cup {m} /\ net' = net \cup {m}
      /\ UNCHANGED <<tx, out, pc, req>>
  BY DEF Send, localVars
<1>2. ASSUME NEW c \in Calls, NEW n \in Seqs PROVE InviteOK(c, n)'
  <2>1. InviteOK(c, n)
    BY DEF JInv
  <2>2. \A k \in {"OK", "ERR", "ACK"} :
          Message(k, c, n) = m => m.kind = k /\ m.call = c /\ m.seq = n
    BY Named DEF RequestKinds, ResponseKinds
  <2>3. Pending(c, n)' => Pending(c, n) \/ Message("OK", c, n) = m
    BY <1>1 DEF Pending
  <2> QED BY <1>1, <2>1, <2>2, <2>3 DEF InviteOK, InviteSent, Forwarded, Challenged, GotOk
<1>3. ASSUME NEW c \in Calls, NEW n \in Seqs PROVE InTurn(c, n)'
  BY <1>1 DEF JInv, InTurn, InviteSent, Challenged
<1>4. ASSUME NEW u \in Threads PROVE HandlerOK(u)'
  BY <1>1 DEF JInv, HandlerOK, Challenged
<1>5. Unshared' /\ Numbered' /\ (net \subseteq sent)'
  BY <1>1 DEF JInv, Unshared, Numbered
<1> QED BY <1>2, <1>3, <1>4, <1>5 DEF JInv

LEMMA UserAgentsTalk ==
  ASSUME JInv, IInv, UserAgents
  PROVE  JInv'
<1> USE Named DEF RequestKinds, ResponseKinds
<1>1. MaxSeq \in Nat \ {0} /\ 1 \in Seqs /\ Seqs = 1..MaxSeq
  BY ConstantsAssumption DEF Seqs
<1>2. ASSUME NEW c \in Calls, CallerHangsUp(c) \/ CalleeHangsUp(c) PROVE JInv'
  BY <1>1, <1>2, SendTalk DEF CallerHangsUp, CalleeHangsUp
<1>3. ASSUME NEW c \in Calls, NEW n \in Seqs, CallerInvites(c, n) PROVE JInv'
  <2>1. ASSUME NEW k \in Seqs, k < n PROVE Challenged(c, k) \/ tx[c][k] = "answered"
    <3>1. n # 1 /\ n - 1 \in Seqs
      BY <1>1, <2>1
    <3>2. Challenged(c, n - 1) \/ tx[c][n - 1] = "answered"
      BY <1>3, <3>1 DEF CallerInvites, Challenged, JInv, InviteOK
    <3>3. InviteSent(c, n - 1)
      BY <3>1, <3>2 DEF JInv, InviteOK
    <3>4. k = n - 1 \/ k < n - 1
      BY <1>1, <2>1
    <3> QED BY <3>1, <3>2, <3>3, <3>4 DEF JInv, InTurn
  <2>2. Send(Message("INVITE", c, n))
    BY <1>3 DEF CallerInvites
  <2> QED BY <2>1, <2>2, SendTalk
<1>4. ASSUME NEW c \in Calls, NEW n \in Seqs, NEW k \in 1..MaxCopies, CallerRetransmits(c, n, k)
      PROVE  JInv'
  <2> DEFINE m == [Message("INVITE", c, n) EXCEPT !.copy = k]
             p == [Message("INVITE", c, n) EXCEPT !.copy = k - 1]
  <2>1. m \in Messages /\ m.kind = "INVITE" /\ m.call = c /\ m.seq = n
    BY DEF Message, Messages
  <2>2. p.kind = "INVITE" /\ p.call = c /\ p.seq = n
    BY DEF Message
  <2>3. InviteSent(c, n)
    BY <1>4, <2>2 DEF CallerRetransmits, InviteSent
  <2>4. Send(m)
    BY <1>4 DEF CallerRetransmits
  <2> HIDE DEF m
  <2> QED BY <2>1, <2>3, <2>4, SendTalk DEF JInv, InTurn
<1>5. ASSUME NEW c \in Calls, NEW n \in Seqs,
             CallerCancels(c, n) \/ CallerAcks(c, n) \/ CalleeRings(c, n)
      PROVE  JInv'
  BY <1>5, SendTalk DEF CallerCancels, CallerAcks, CalleeRings, GotOk
<1>6. ASSUME NEW c \in Calls, NEW n \in Seqs, NEW k \in ResponseKinds,
             CalleeAnswers(c, n, k) \/ CalleeReplies(c, n, k)
      PROVE  JInv'
  BY <1>6, SendTalk DEF CalleeAnswers, CalleeReplies, Forwarded
<1> QED BY <1>2, <1>3, <1>4, <1>5, <1>6 DEF UserAgents

LEMMA JInit == Init => JInv
<1> SUFFICES ASSUME Init PROVE JInv
  OBVIOUS
<1>1. \A c \in Calls, n \in Seqs : InviteOK(c, n) /\ InTurn(c, n)
  BY DEF Init, InviteOK, InTurn, InviteSent, Forwarded, Challenged, GotOk
<1>2. (\A t \in Threads : HandlerOK(t)) /\ Unshared /\ Numbered /\ net \subseteq sent
  BY DEF Init, HandlerOK, Unshared, Numbered
<1> QED BY <1>1, <1>2 DEF JInv

LEMMA JNext == IInv /\ JInv /\ [Next]_vars => JInv'
<1> SUFFICES ASSUME IInv, JInv, [Next]_vars PROVE JInv'
  OBVIOUS
<1>1. CASE UserAgents
  BY <1>1, UserAgentsTalk
<1>2. CASE \E w \in Workers, m \in net : ReceiveRequest(w, m) \/ ReceiveResponse(w, m)
  BY <1>2, ReceiveTalk DEF Threads
<1>3. CASE \E a \in Admins, s \in Sessions : Terminate(a, s)
  BY <1>3, TerminateTalk DEF Threads
<1>4. ASSUME NEW t \in Threads, ThreadStep(t) PROVE JInv'
  <2>1. CASE RequestStep(t)
    BY <2>1, LabelSteps, TurnAwayTalk, OpenTxTalk, ForwardTalk, SendingSteps, InnerSteps
       DEF RequestStep
  <2>2. CASE ResponseStep(t)
    BY <2>2, LabelSteps, SendingSteps, InnerSteps, AnswerTalk, RefusalSteps DEF ResponseStep
  <2>3. CASE CleanupStep(t)
    BY <2>3, InnerSteps, StoreTalk DEF CleanupStep
  <2>4. CASE TerminateStep(t)
    BY <2>4, InnerSteps, RefusalSteps, SendingSteps DEF TerminateStep
  <2> QED BY <1>4, <2>1, <2>2, <2>3, <2>4 DEF ThreadStep
<1>5. CASE UNCHANGED vars
  <2>1. UNCHANGED <<tx, sent, net, out, pc, req>>
    BY <1>5 DEF vars, netVars, localVars
  <2> QED BY <2>1 DEF JInv, InviteOK, InTurn, InviteSent, Forwarded, Challenged, GotOk, Pending,
                      HandlerOK, Unshared, Numbered
<1> QED BY <1>1, <1>2, <1>3, <1>4, <1>5 DEF Next

------------------------------------------------------------------------------
(* The step simulation.                                                     *)

\* A step that moves the state of one session only, and what that is to a phone:
\* nothing, or a call that becomes established or ceases to be.
OneState(s) == /\ callId' = callId
               /\ \A r \in Sessions \ {s} : state'[r] = state[r]

LEMMA SameCallees ==
  ASSUME sent' = sent,
         \A c \in Calls, n \in Seqs :
           Output("callee", "INVITE", c, n) \in out' <=> Output("callee", "INVITE", c, n) \in out
  PROVE  Callees' = Callees
<1>1. ASSUME NEW c \in Calls, NEW n \in Seqs PROVE AtCallee(c, n)' = AtCallee(c, n)
  BY DEF AtCallee
<1> QED BY <1>1 DEF Callees

LEMMA StateStepServed ==
  ASSUME IInv, IInv', NEW s \in Sessions, OneState(s), tx' = tx, Callees' = Callees
  PROVE  [Service!Next]_(Service!vars)
<1> DEFINE c == callId[s]
           Joins == ConnectedCalls' = ConnectedCalls \cup {c} /\ c \in Calls /\ state'[s] = "ESTABLISHED"
           Leaves == ConnectedCalls' = ConnectedCalls \ {c} /\ c \in Calls
<1>1. ConnectedCalls' = ConnectedCalls \/ Joins \/ Leaves
  <2>1. CASE c \notin Calls
    BY <2>1 DEF OneState, ConnectedCalls
  <2>2. CASE c \in Calls
    <3>1. \A d \in Calls \ {c} : d \in ConnectedCalls' <=> d \in ConnectedCalls
      BY DEF OneState, ConnectedCalls
    <3>2. ConnectedCalls \subseteq Calls /\ ConnectedCalls' \subseteq Calls
      BY DEF ConnectedCalls
    <3>3. CASE c \in ConnectedCalls' /\ c \notin ConnectedCalls
      <4>1. state'[s] = "ESTABLISHED"
        BY <2>2, <3>3 DEF ConnectedCalls, OneState
      <4>2. ConnectedCalls' = ConnectedCalls \cup {c}
        BY <3>1, <3>2, <3>3
      <4> QED BY <2>2, <4>1, <4>2
    <3>4. CASE c \notin ConnectedCalls' /\ c \in ConnectedCalls
      BY <2>2, <3>1, <3>2, <3>4
    <3> QED BY <3>1, <3>2, <3>3, <3>4
  <2> QED BY <2>1, <2>2
<1>2. CASE ConnectedCalls' = ConnectedCalls
  BY <1>2 DEF Service!vars
<1>3. CASE Joins
  <2>1. Answered(s)'
    BY <1>3 DEF IInv, SessionInv, SessionOK
  <2>2. \E n \in Seqs : tx[c][n] = "answered"
    BY <2>1 DEF Answered, OneState
  <2>3. Service!Connect(c)
    BY <1>3, <2>2 DEF Service!Connect
  <2> QED BY <1>3, <2>3 DEF Service!Next
<1>4. CASE Leaves
  <2>1. Service!Disconnect(c)
    BY <1>4 DEF Service!Disconnect
  <2> QED BY <1>4, <2>1 DEF Service!Next
<1> QED BY <1>1, <1>2, <1>3, <1>4

\* Steps that send and receive nothing the phones count.
LEMMA SilentServed ==
  ASSUME IInv, IInv', UNCHANGED <<tx, sent>>, NEW s \in Sessions, OneState(s),
         \A c \in Calls, n \in Seqs :
           Output("callee", "INVITE", c, n) \in out' <=> Output("callee", "INVITE", c, n) \in out
  PROVE  [Service!Next]_(Service!vars)
BY SameCallees, StateStepServed

LEMMA SameTalkServed ==
  ASSUME IInv, IInv', SameTalk, NEW s \in Sessions, OneState(s)
  PROVE  [Service!Next]_(Service!vars)
BY SilentServed DEF SameTalk, Forwarded

LEMMA SameConnected ==
  ASSUME UNCHANGED <<state, callId>>
  PROVE  ConnectedCalls' = ConnectedCalls
BY DEF ConnectedCalls

\* No Output but the callee's INVITE counts at the callee, no message but his answers.
LEMMA QuietServed ==
  ASSUME JInv, IInv, IInv', NEW t \in Threads,
         \/ SetInvited(t) \/ SetEnded(t) \/ RecordRinging(t) \/ RecordRingTx(t) \/ RecordOk(t) \/ SetEstablished(t)
         \/ Cleanup(t) \/ Close(t) \/ Unlist(t) \/ Write(t) \/ Store(t) \/ Encode(t) \/ EndInvited(t)
         \/ EndEstablished(t) \/ Entry(t) \/ Reopen(t) \/ Dispatch(t) \/ Sdp(t) \/ Response(t)
  PROVE  [Service!Next]_(Service!vars)
<1>1. pc[t] \notin {"idle", "admit"}
  BY DEF SetInvited, SetEnded, RecordRinging, RecordRingTx, RecordOk, SetEstablished, Cleanup, Close, Unlist,
         Write, Store, Encode, EndInvited, EndEstablished, Entry, Reopen, Dispatch, Sdp, Response
<1>2. cur[t] \in Sessions
  BY <1>1, Busy
<1>3. SameTalk
  BY Unheard DEF SetInvited, SetEnded, RecordRinging, RecordRingTx, RecordOk, SetEstablished, Cleanup, Close,
         Unlist, Write, Store, Encode, EndInvited, EndEstablished, Entry, Reopen, Dispatch, Sdp,
         Response, netVars
<1>4. OneState(cur[t])
  <2>1. CASE \/ SetInvited(t) \/ SetEnded(t) \/ SetEstablished(t) \/ EndInvited(t)
             \/ EndEstablished(t) \/ Reopen(t)
    BY <2>1, <1>2 DEF SetInvited, SetEnded, SetEstablished, EndInvited, EndEstablished, Reopen,
                      SetState, OneState, IInv, Typed, ObjType
  <2>2. CASE \/ RecordRinging(t) \/ RecordRingTx(t) \/ RecordOk(t) \/ Cleanup(t) \/ Close(t) \/ Unlist(t)
             \/ Write(t) \/ Store(t) \/ Encode(t) \/ Entry(t) \/ Dispatch(t) \/ Sdp(t) \/ Response(t)
    BY <2>2 DEF RecordRinging, RecordRingTx, RecordOk, Remember, Cleanup, Close, Unlist, Write, Store, Encode, Entry,
                Dispatch, Sdp, Response, objVars, OneState
  <2> QED BY <2>1, <2>2
<1> QED BY <1>2, <1>3, <1>4, SameTalkServed

LEMMA OtherSent ==
  ASSUME NEW O, Emit(O), \A o \in O : o.to = "caller" \/ o.kind # "INVITE"
  PROVE  /\ UNCHANGED <<tx, sent>>
         /\ \A c \in Calls, n \in Seqs :
              Output("callee", "INVITE", c, n) \in out' <=> Output("callee", "INVITE", c, n) \in out
BY DEF Emit, Output

LEMMA SendingServed ==
  ASSUME JInv, IInv, IInv', NEW t \in Threads,
         \/ Trying(t) \/ Cancel(t) \/ CancelForward(t) \/ CancelInvited(t)
         \/ Ack(t) \/ Bye(t) \/ Ring(t) \/ ByeBoth(t)
  PROVE  [Service!Next]_(Service!vars)
<1>1. pc[t] \notin {"idle", "admit"}
  BY DEF Trying, Cancel, CancelForward, CancelInvited, Ack, Bye, Ring, ByeBoth
<1>2. cur[t] \in Sessions
  BY <1>1, Busy
<1>3. OneState(cur[t])
  BY DEF Trying, Cancel, CancelForward, CancelInvited, Ack, Bye, Ring, ByeBoth, Remember,
         objVars, OneState
<1>4. \A s, k : ToCaller(s, k).to = "caller" /\ ToCallee(s, k).kind = k
  BY DEF ToCaller, ToCallee, Output
<1>5. \A s : \A o \in CancelOnward(s) : o.kind = "CANCEL"
  BY <1>4 DEF CancelOnward
<1>6. CASE UNCHANGED netVars
  BY <1>2, <1>3, <1>6, SameTalkServed, Unheard
<1>7. CASE \E O : Emit(O) /\ \A o \in O : o.to = "caller" \/ o.kind # "INVITE"
  <2>1. /\ UNCHANGED <<tx, sent>>
        /\ \A c \in Calls, n \in Seqs :
             Output("callee", "INVITE", c, n) \in out' <=> Output("callee", "INVITE", c, n) \in out
    BY <1>7, OtherSent
  <2> QED BY <1>2, <1>3, <2>1, SilentServed
<1>8. CASE Trying(t)
  <2>1. UNCHANGED netVars \/ Emit({ToCaller(cur[t], "TRYING")})
    BY <1>8 DEF Trying
  <2> QED BY <1>4, <1>6, <1>7, <2>1
<1>9. CASE Cancel(t)
  <2>1. UNCHANGED netVars \/ Emit({ToCaller(cur[t], "CANCEL_OK")})
    BY <1>9 DEF Cancel
  <2> QED BY <1>4, <1>6, <1>7, <2>1
<1>10. CASE CancelForward(t) \/ CancelInvited(t)
  <2>1. UNCHANGED netVars \/ Emit(CancelOnward(cur[t]))
    BY <1>10 DEF CancelForward, CancelInvited
  <2> QED BY <1>5, <1>6, <1>7, <2>1
<1>11. CASE Ack(t)
  <2>1. UNCHANGED netVars \/ Emit({ToCallee(cur[t], "ACK")})
    BY <1>11 DEF Ack
  <2> QED BY <1>4, <1>6, <1>7, <2>1
<1>12. CASE Bye(t) /\ ~UNCHANGED netVars
  <2>1. \E O : /\ Emit(O)
               /\ O \subseteq {ToCaller(cur[t], "BYE_OK"), ToCallee(cur[t], "BYE_OK"),
                               ToCaller(cur[t], "BYE"), ToCallee(cur[t], "BYE")}
    <3>1. CASE req[t].kind = "BYE_CALLER"
      BY <1>12, <3>1 DEF Bye
    <3>2. CASE req[t].kind # "BYE_CALLER"
      BY <1>12, <3>2 DEF Bye
    <3> QED BY <3>1, <3>2
  <2>2. \A o \in {ToCaller(cur[t], "BYE_OK"), ToCallee(cur[t], "BYE_OK"),
                   ToCaller(cur[t], "BYE"), ToCallee(cur[t], "BYE")} :
          o.to = "caller" \/ o.kind # "INVITE"
    BY <1>4
  <2> QED BY <1>7, <2>1, <2>2
<1>13. CASE Ring(t)
  <2>1. UNCHANGED netVars \/ Emit({ToCaller(cur[t], "RINGING")})
    BY <1>13 DEF Ring
  <2> QED BY <1>4, <1>6, <1>7, <2>1
<1>14. CASE ByeBoth(t)
  <2>1. \/ UNCHANGED netVars
        \/ Emit({ToCaller(cur[t], "BYE"), ToCallee(cur[t], "BYE")})
        \/ Emit({ToCaller(cur[t], "BYE")})
    BY <1>14 DEF ByeBoth
  <2> QED BY <1>4, <1>6, <1>7, <2>1
<1> QED BY <1>6, <1>8, <1>9, <1>10, <1>11, <1>12, <1>13, <1>14

\* A final response, or a transaction that is opened: no other phone moves.
LEMMA CallerMoves ==
  ASSUME IInv, UNCHANGED <<sent>>, ConnectedCalls' = ConnectedCalls,
         \A c \in Calls, n \in Seqs :
           Output("callee", "INVITE", c, n) \in out' <=> Output("callee", "INVITE", c, n) \in out,
         NEW d \in Calls, NEW m \in Seqs, NEW v, tx' = [tx EXCEPT ![d][m] = v],
         \/ tx[d][m] = "none" /\ v \in {"open", "refused"}
         \/ tx[d][m] = "open" /\ v = "refused"
         \/ tx[d][m] = "open" /\ v = "answered" /\ Message("OK", d, m) \in sent
  PROVE  [Service!Next]_(Service!vars)
<1>1. Callees' = Callees
  BY SameCallees
<1>2. CASE v = "open"
  BY <1>1, <1>2 DEF Service!Open, Service!Next
<1>3. CASE v = "refused"
  BY <1>1, <1>3 DEF Service!Refuse, Service!Next
<1>4. CASE v = "answered"
  <2>1. Callees[d][m] = "pickedUp"
    BY <1>4 DEF Callees, AtCallee
  <2>2. Service!Answer(d, m)
    BY <1>1, <1>4, <2>1 DEF Service!Answer
  <2> QED BY <2>2 DEF Service!Next
<1> QED BY <1>2, <1>3, <1>4

LEMMA FinalsServed ==
  ASSUME JInv, IInv, IInv', NEW t \in Threads, Answer(t) \/ Refuse(t) \/ RefuseInvited(t)
  PROVE  [Service!Next]_(Service!vars)
<1> DEFINE s == cur[t]
<1>1. s \in Sessions /\ HasTx(s) /\ HandlerOK(t) /\ UNCHANGED objVars
  BY Busy DEF Answer, Refuse, RefuseInvited, NeedsTx, JInv
<1>2. CASE UNCHANGED netVars
  <2>1. OneState(s)
    BY <1>1 DEF OneState, objVars
  <2> QED BY <1>1, <1>2, <2>1, SameTalkServed, Unheard
<1>3. CASE TxIs(s, "open") /\ \E k \in {"OK", "ERR", "503"}, v \in {"answered", "refused"} :
                                /\ Final(s, k, v)
                                /\ v = "answered" => Answer(t)
  <2>1. PICK k \in {"OK", "ERR", "503"}, v \in {"answered", "refused"} :
               Final(s, k, v) /\ (v = "answered" => Answer(t))
    BY <1>3
  <2>2. tx[callId[s]][inviteTx[s]] = "open" /\ tx' = [tx EXCEPT ![callId[s]][inviteTx[s]] = v]
        /\ sent' = sent
    BY <1>3, <2>1 DEF TxIs, Final
  <2>3. \A c \in Calls, n \in Seqs :
          Output("callee", "INVITE", c, n) \in out' <=> Output("callee", "INVITE", c, n) \in out
    BY <2>1 DEF Final, Output
  <2>4. v = "answered" => Message("OK", callId[s], inviteTx[s]) \in sent
    <3> SUFFICES ASSUME v = "answered" PROVE Message("OK", callId[s], inviteTx[s]) \in sent
      OBVIOUS
    <3>1. pc[t] = "answer" /\ req[t] # NoMsg
      BY <2>1, Busy, ConstantsAssumption DEF Answer, NeedsMessage, Labels
    <3>2. req[t] = Message("OK", callId[s], inviteTx[s])
      BY <1>3, <3>1, RightAnswer
    <3> QED BY <1>1, <3>1, <3>2 DEF HandlerOK
  <2>5. ConnectedCalls' = ConnectedCalls
    BY <1>1, SameConnected DEF objVars
  <2> QED BY <1>1, <2>2, <2>3, <2>4, <2>5, CallerMoves DEF HasTx
<1> QED BY <1>2, <1>3 DEF Answer, Refuse, RefuseInvited

LEMMA OpenTxServed ==
  ASSUME JInv, IInv, IInv', NEW t \in Threads, OpenTx(t)
  PROVE  [Service!Next]_(Service!vars)
<1> DEFINE s == cur[t]
           c == req[t].call
           n == req[t].seq
<1>1. s \in Sessions /\ req[t] \in Messages /\ c \in Calls /\ n \in Seqs /\ ThreadOK(t) /\ SessionOK(s)
  BY Busy, MessageFields DEF OpenTx, NeedsMessage, Labels
<1>2. CASE UNCHANGED netVars /\ UNCHANGED objVars
  <2>1. OneState(s)
    BY <1>2 DEF OneState, objVars
  <2> QED BY <1>1, <1>2, <2>1, SameTalkServed, Unheard
<1>3. CASE tx[c][n] = "none" /\ tx' = [tx EXCEPT ![c][n] = "open"]
           /\ callId' = [callId EXCEPT ![s] = c] /\ UNCHANGED <<state, sent, out>>
  <2>1. callId[s] \in {NoCall, c} /\ (state[s] = "ESTABLISHED" => callId[s] \in Calls)
    BY <1>1 DEF ThreadOK, SessionOK, HasTx
  <2>2. \A r \in Sessions : state[r] = "ESTABLISHED" => callId'[r] = callId[r]
    BY <1>1, <1>3, <2>1, ConstantsAssumption DEF IInv, Typed, ObjType
  <2>3. ConnectedCalls' = ConnectedCalls
    BY <1>3, <2>2 DEF ConnectedCalls
  <2> QED BY <1>1, <1>3, <2>3, CallerMoves
<1> QED BY <1>2, <1>3 DEF OpenTx

LEMMA TurnAwayServed ==
  ASSUME JInv, IInv, IInv', NEW t \in Threads, NEW v, TurnAway(t, v)
  PROVE  [Service!Next]_(Service!vars)
<1> DEFINE c == req[t].call
           n == req[t].seq
<1>1. c \in Calls /\ n \in Seqs
  BY MessageFields DEF TurnAway, NeedsMessage, Labels, IInv, ThreadInv, ThreadOK
<1>2. ConnectedCalls' = ConnectedCalls /\ sent' = sent
  BY SameConnected DEF TurnAway, objVars
<1>3. \A d \in Calls, k \in Seqs :
        Output("callee", "INVITE", d, k) \in out' <=> Output("callee", "INVITE", d, k) \in out
  BY DEF TurnAway, Output
<1>4. CASE tx' = tx
  BY <1>2, <1>3, <1>4, SameCallees DEF Service!vars
<1>5. CASE tx[c][n] = "none" /\ tx' = [tx EXCEPT ![c][n] = "refused"]
  BY <1>1, <1>2, <1>3, <1>5, CallerMoves
<1> QED BY <1>4, <1>5 DEF TurnAway

\* The callee's phone gets an INVITE, for the first time or again.
LEMMA OfferServed ==
  ASSUME NEW c \in Calls, NEW n \in Seqs, tx[c][n] # "none", UNCHANGED <<tx, sent>>,
         ConnectedCalls' = ConnectedCalls, out' = out \cup {Output("callee", "INVITE", c, n)}
  PROVE  [Service!Next]_(Service!vars)
<1>1. ASSUME NEW d \in Calls, NEW k \in Seqs, d # c \/ k # n
      PROVE  AtCallee(d, k)' = AtCallee(d, k)
  <2>1. Output("callee", "INVITE", d, k) # Output("callee", "INVITE", c, n)
    BY <1>1 DEF Output
  <2> QED BY <2>1 DEF AtCallee
<1>2. CASE AtCallee(c, n) # "idle"
  <2>1. AtCallee(c, n)' = AtCallee(c, n)
    BY <1>2 DEF AtCallee
  <2>2. \A d \in Calls, k \in Seqs : AtCallee(d, k)' = AtCallee(d, k)
    BY <1>1, <2>1
  <2>3. Callees' = Callees
    BY <2>2 DEF Callees
  <2> QED BY <2>3 DEF Service!vars
<1>3. CASE AtCallee(c, n) = "idle"
  <2>1. AtCallee(c, n)' = "offered"
    BY <1>3 DEF AtCallee
  <2>2. Callees' = [Callees EXCEPT ![c][n] = "offered"]
    BY <1>1, <2>1 DEF Callees
  <2>3. Callees[c][n] = "idle"
    BY <1>3 DEF Callees
  <2>4. Service!Offer(c, n)
    BY <2>2, <2>3 DEF Service!Offer
  <2> QED BY <2>4 DEF Service!Next
<1> QED BY <1>2, <1>3

LEMMA ForwardServed ==
  ASSUME JInv, IInv, IInv', NEW t \in Threads, Forward(t)
  PROVE  [Service!Next]_(Service!vars)
<1>1. PICK c \in Calls, n \in Seqs : c = req[t].call /\ n = req[t].seq
  BY Busy, MessageFields DEF Forward, NeedsMessage, Labels
<1>2. tx[c][n] # "none"
  BY <1>1 DEF Forward, JInv, HandlerOK
<1>3. ConnectedCalls' = ConnectedCalls /\ UNCHANGED <<tx, sent>>
  BY SameConnected DEF Forward, objVars, netVars, Emit
<1>4. CASE out' = out
  BY <1>3, <1>4, SameCallees DEF Service!vars
<1>5. CASE out' = out \cup {Output("callee", "INVITE", c, n)}
  BY <1>2, <1>3, <1>5, OfferServed
<1> QED BY <1>1, <1>4, <1>5 DEF Forward, netVars, Emit

\* A thread takes a message, or an administrator a session: the phones see nothing.
LEMMA TakingServed ==
  ASSUME UNCHANGED <<objVars, tx, sent, out>>
  PROVE  UNCHANGED Service!vars
BY SameCallees, SameConnected DEF objVars, Service!vars

LEMMA AdmitServed ==
  ASSUME IInv, IInv', NEW t \in Threads, Admit(t)
  PROVE  [Service!Next]_(Service!vars)
<1>1. PICK s \in Sessions : state' = [state EXCEPT ![s] = "STARTED"]
  BY DEF Admit
<1>2. OneState(s)
  BY <1>1 DEF Admit, OneState, IInv, Typed, ObjType
<1> QED BY <1>2, SameTalkServed, Unheard DEF Admit

------------------------------------------------------------------------------
(* The phones' own steps.                                                   *)

\* A message that is no final response of the callee's.
LEMMA OtherSend ==
  ASSUME NEW m, Send(m), m.kind \notin {"OK", "ERR"}
  PROVE  UNCHANGED Service!vars
<1>1. ASSUME NEW c \in Calls, NEW n \in Seqs PROVE AtCallee(c, n)' = AtCallee(c, n)
  BY DEF Send, AtCallee, Message
<1>2. Callees' = Callees
  BY <1>1 DEF Callees
<1> QED BY <1>2, SameConnected DEF Send, objVars, Service!vars

LEMMA CalleeServed ==
  ASSUME NEW c \in Calls, NEW n \in Seqs, NEW k \in ResponseKinds, CalleeAnswers(c, n, k)
  PROVE  [Service!Next]_(Service!vars)
<1>1. /\ k \in {"OK", "ERR"} /\ sent' = sent \cup {Message(k, c, n)}
      /\ UNCHANGED <<tx, out, objVars>> /\ AtCallee(c, n) = "offered"
  BY DEF CalleeAnswers, Send, AtCallee
<1>2. ConnectedCalls' = ConnectedCalls
  BY <1>1, SameConnected DEF objVars
<1>3. ASSUME NEW d \in Calls, NEW i \in Seqs, d # c \/ i # n
      PROVE  AtCallee(d, i)' = AtCallee(d, i)
  BY <1>1, <1>3 DEF AtCallee, Message
<1>4. CASE k = "OK"
  <2>1. AtCallee(c, n)' = "pickedUp"
    BY <1>1, <1>4 DEF AtCallee
  <2>2. Callees' = [Callees EXCEPT ![c][n] = "pickedUp"]
    BY <1>3, <2>1 DEF Callees
  <2>3. Callees[c][n] = "offered"
    BY <1>1 DEF Callees
  <2> QED BY <1>1, <1>2, <2>2, <2>3 DEF Service!PickUp, Service!Next
<1>5. CASE k = "ERR"
  <2>1. AtCallee(c, n)' = "declined"
    BY <1>1, <1>5 DEF AtCallee, CalleeAnswers, Message
  <2>2. Callees' = [Callees EXCEPT ![c][n] = "declined"]
    BY <1>3, <2>1 DEF Callees
  <2>3. Callees[c][n] = "offered"
    BY <1>1 DEF Callees
  <2> QED BY <1>1, <1>2, <2>2, <2>3 DEF Service!Decline, Service!Next
<1> QED BY <1>1, <1>4, <1>5

LEMMA UserAgentsServed ==
  ASSUME UserAgents
  PROVE  [Service!Next]_(Service!vars)
<1>1. ASSUME NEW m, Send(m), m.kind \notin {"OK", "ERR"}
      PROVE  [Service!Next]_(Service!vars)
  BY <1>1, OtherSend
<1>2. ASSUME NEW c \in Calls, CallerHangsUp(c) \/ CalleeHangsUp(c)
      PROVE  [Service!Next]_(Service!vars)
  BY <1>1, <1>2 DEF CallerHangsUp, CalleeHangsUp, Message
<1>3. ASSUME NEW c \in Calls, NEW n \in Seqs,
             \/ CallerInvites(c, n) \/ CallerCancels(c, n) \/ CallerAcks(c, n) \/ CalleeRings(c, n)
             \/ \E k \in 1..MaxCopies : CallerRetransmits(c, n, k)
             \/ \E k \in ResponseKinds : CalleeReplies(c, n, k)
      PROVE  [Service!Next]_(Service!vars)
  BY <1>1, <1>3 DEF CallerInvites, CallerCancels, CallerAcks, CalleeRings, CallerRetransmits,
                    CalleeReplies, Message
<1>4. ASSUME NEW c \in Calls, NEW n \in Seqs, NEW k \in ResponseKinds, CalleeAnswers(c, n, k)
      PROVE  [Service!Next]_(Service!vars)
  BY <1>4, CalleeServed
<1> QED BY <1>2, <1>3, <1>4 DEF UserAgents

------------------------------------------------------------------------------
(* The refinement.                                                          *)

LEMMA InitServed == Init => Service!Init
<1> SUFFICES ASSUME Init PROVE Service!Init
  OBVIOUS
<1>1. \A c \in Calls, n \in Seqs : AtCallee(c, n) = "idle"
  BY DEF Init, AtCallee
<1>2. Callees = [c \in Calls |-> [n \in Seqs |-> "idle"]]
  BY <1>1 DEF Callees
<1>3. ConnectedCalls = {}
  BY DEF Init, ConnectedCalls
<1> QED BY <1>2, <1>3 DEF Init, Service!Init

LEMMA NextServed ==
  ASSUME IInv, IInv', JInv, [Next]_vars
  PROVE  [Service!Next]_(Service!vars)
<1>1. CASE UserAgents
  BY <1>1, UserAgentsServed
<1>2. CASE \E w \in Workers, m \in net : ReceiveRequest(w, m) \/ ReceiveResponse(w, m)
  BY <1>2, TakingServed DEF ReceiveRequest, ReceiveResponse
<1>3. CASE \E a \in Admins, s \in Sessions : Terminate(a, s)
  BY <1>3, TakingServed DEF Terminate, netVars
<1>4. ASSUME NEW t \in Threads, ThreadStep(t) PROVE [Service!Next]_(Service!vars)
  <2>1. CASE RequestStep(t)
    BY <2>1, AdmitServed, TurnAwayServed, QuietServed, SendingServed, OpenTxServed, ForwardServed
       DEF RequestStep
  <2>2. CASE ResponseStep(t)
    BY <2>2, QuietServed, SendingServed, FinalsServed DEF ResponseStep
  <2>3. CASE CleanupStep(t)
    BY <2>3, QuietServed DEF CleanupStep
  <2>4. CASE TerminateStep(t)
    BY <2>4, QuietServed, SendingServed, FinalsServed DEF TerminateStep
  <2> QED BY <1>4, <2>1, <2>2, <2>3, <2>4 DEF ThreadStep
<1>5. CASE UNCHANGED vars
  BY <1>5, TakingServed DEF vars, netVars
<1> QED BY <1>1, <1>2, <1>3, <1>4, <1>5 DEF Next

\* For any number of calls, INVITEs, copies and threads the proxy is the call service
\* of CallService.tla (SipCall!CallsAreServed): IInv and JInv make every step of a
\* handler one step of the service, or none.
THEOREM CallsServed == Spec => CallsAreServed
<1>1. IInv /\ JInv /\ [Next]_vars => JInv'
  BY JNext
<1>2. IInv /\ IInv' /\ JInv /\ [Next]_vars => [Service!Next]_(Service!vars)
  BY NextServed
<1> QED BY InitInv, NextInv, JInit, InitServed, <1>1, <1>2, PTL
        DEF Spec, CallsAreServed, Service!Spec

------------------------------------------------------------------------------
(* Every call is on record.  An update that overtakes the insert is lost, so *)
(* it is the insert that counts: a thread on its way to it, or with it in    *)
(* hand, exists until the document is there.                                 *)

\* Where a thread is bound to come to the store of its session.
Recording == {"sdp", "forward", "trying", "setInvited", "setEnded", "cleanup", "close",
              "unlist", "store"}

Inserting(t, s) == cur[t] = s /\ pc[t] \in {"encode", "write"} /\ buf[t].insert
Recorded(s) == \/ history[s] # {}
               \/ \E t \in Threads : Inserting(t, s)
               \/ ~stored[s] /\ \E t \in Threads : cur[t] = s /\ pc[t] \in Recording

\* What a thread on its way through DatabaseObject.store relies on.
StoringOK(t) ==
  /\ pc[t] \in {"store", "encode"} => "InviteDate" \in dao[cur[t]]
  /\ pc[t] = "encode" => buf[t].insert \/ stored[cur[t]]
  /\ pc[t] = "write" => buf[t].doc # {}

RecordInv ==
  /\ \A t \in Threads : StoringOK(t)
  /\ \A s \in Sessions :
       /\ stored[s] => "InviteDate" \in dao[s]
       /\ "InviteDate" \in dao[s] => Recorded(s)

\* Only thread t moves, and nothing is stored.
RecordFrame(t) ==
  /\ \A u \in Threads \ {t} : pc'[u] = pc[u] /\ cur'[u] = cur[u] /\ buf'[u] = buf[u]
  /\ UNCHANGED <<stored, history>>
  /\ pc[t] \notin {"encode", "write"} /\ pc'[t] \notin {"encode", "write"}

\* A step at which the session is not put on record for the first time.
LEMMA KeepsRecord ==
  ASSUME RecordInv, NEW t \in Threads, RecordFrame(t), cur'[t] \in Sessions \cup {0},
         \A s \in Sessions : "InviteDate" \in dao'[s] <=> "InviteDate" \in dao[s],
         pc'[t] = "store" => cur'[t] \in Sessions /\ "InviteDate" \in dao[cur'[t]],
         pc[t] \in Recording => \/ pc'[t] \in Recording /\ cur'[t] = cur[t]
                                \/ "InviteDate" \notin dao[cur[t]],
         \A u \in Threads : pc[u] \in {"store", "encode"} => cur[u] \in Sessions
  PROVE  RecordInv'
<1>1. ASSUME NEW u \in Threads PROVE StoringOK(u)'
  <2>1. CASE u = t
    BY <2>1 DEF RecordFrame, StoringOK
  <2>2. CASE u # t
    BY <2>2 DEF RecordFrame, RecordInv, StoringOK
  <2> QED BY <2>1, <2>2
<1>2. ASSUME NEW s \in Sessions, "InviteDate" \in dao'[s] PROVE Recorded(s)'
  <2>1. Recorded(s)
    BY <1>2 DEF RecordInv
  <2>2. CASE history[s] # {}
    BY <2>2 DEF Recorded, RecordFrame
  <2>3. CASE \E u \in Threads : Inserting(u, s)
    BY <2>3 DEF Recorded, Inserting, RecordFrame
  <2>4. CASE ~stored[s] /\ \E u \in Threads : cur[u] = s /\ pc[u] \in Recording
    <3>1. PICK u \in Threads : cur[u] = s /\ pc[u] \in Recording
      BY <2>4
    <3>2. cur'[u] = s /\ pc'[u] \in Recording
      BY <1>2, <3>1 DEF RecordFrame
    <3> QED BY <2>4, <3>2 DEF Recorded, RecordFrame
  <2> QED BY <2>1, <2>2, <2>3, <2>4 DEF Recorded
<1>3. \A s \in Sessions : stored'[s] => "InviteDate" \in dao'[s]
  BY DEF RecordInv, RecordFrame
<1> QED BY <1>1, <1>2, <1>3 DEF RecordInv

\* What a step may do to the dates: nothing, or one that is not the INVITE's.
OtherDate(s) == \E d \in Stamps \ {"InviteDate"} : Stamp(s, d)

LEMMA SameDates ==
  ASSUME IInv, UNCHANGED recordVars \/ \E s : OtherDate(s)
  PROVE  /\ UNCHANGED <<stored, history>>
         /\ \A s \in Sessions : "InviteDate" \in dao'[s] <=> "InviteDate" \in dao[s]
BY DEF OtherDate, Stamp, recordVars, IInv, Typed, RecordType

\* A thread inside a handler goes on with it, or is done.
LEMMA GoesOn ==
  ASSUME RecordInv, IInv, NEW t \in Threads, pc[t] \notin {"idle", "admit", "encode", "write"},
         UNCHANGED recordVars \/ \E s : OtherDate(s),
         \/ \E l \in Labels \ {"encode", "write"} :
              /\ Goto(t, l)
              /\ l = "store" => "InviteDate" \in dao[cur[t]]
              /\ pc[t] \in Recording => l \in Recording
         \/ Done(t) /\ (pc[t] \in Recording => "InviteDate" \notin dao[cur[t]])
  PROVE  RecordInv'
<1>1. cur[t] \in Sessions /\ ThreadType
  BY Busy
<1>2. \A u \in Threads : pc[u] \in {"store", "encode"} => cur[u] \in Sessions
  BY Busy
<1>3. UNCHANGED <<stored, history>>
      /\ \A s \in Sessions : "InviteDate" \in dao'[s] <=> "InviteDate" \in dao[s]
  BY SameDates
<1>4. CASE \E l \in Labels \ {"encode", "write"} :
             /\ Goto(t, l)
             /\ l = "store" => "InviteDate" \in dao[cur[t]]
             /\ pc[t] \in Recording => l \in Recording
  <2>1. PICK l \in Labels \ {"encode", "write"} :
             /\ Goto(t, l)
             /\ l = "store" => "InviteDate" \in dao[cur[t]]
             /\ pc[t] \in Recording => l \in Recording
    BY <1>4
  <2>2. pc'[t] = l /\ UNCHANGED <<cur, buf>> /\ \A u \in Threads \ {t} : pc'[u] = pc[u]
    BY <1>1, <2>1 DEF Goto, localVars, ThreadType
  <2>3. RecordFrame(t)
    BY <1>3, <2>2 DEF RecordFrame
  <2> QED BY <1>1, <1>2, <1>3, <2>1, <2>2, <2>3, KeepsRecord
<1>5. CASE Done(t) /\ (pc[t] \in Recording => "InviteDate" \notin dao[cur[t]])
  <2>1. /\ pc'[t] = "idle" /\ cur'[t] = 0
        /\ \A u \in Threads \ {t} : pc'[u] = pc[u] /\ cur'[u] = cur[u] /\ buf'[u] = buf[u]
    BY <1>1, <1>5 DEF Done, ThreadType
  <2>2. RecordFrame(t)
    BY <1>3, <2>1 DEF RecordFrame
  <2> QED BY <1>1, <1>2, <1>3, <1>5, <2>1, <2>2, KeepsRecord
<1> QED BY <1>4, <1>5

LEMMA StampsOther ==
  ASSUME NEW s, NEW d \in Stamps \ {"InviteDate"}, Stamp(s, d)
  PROVE  \E r : OtherDate(r)
BY DEF OtherDate

LEMMA RequestsRecorded ==
  ASSUME RecordInv, IInv, NEW t \in Threads,
         \/ Entry(t) \/ Reopen(t) \/ Dispatch(t) \/ Sdp(t) \/ Forward(t) \/ Trying(t)
         \/ SetInvited(t) \/ Cancel(t) \/ CancelForward(t) \/ Ack(t) \/ Bye(t) \/ SetEnded(t)
  PROVE  RecordInv'
<1> USE DEF Labels, Recording
<1>1. CASE Entry(t) \/ Reopen(t) \/ Dispatch(t)
  BY <1>1, GoesOn DEF Entry, Reopen, Dispatch
<1>2. CASE Sdp(t) \/ Forward(t) \/ Trying(t) \/ SetInvited(t)
  BY <1>2, GoesOn DEF Sdp, Forward, Trying, SetInvited
<1>3. CASE CancelForward(t) \/ SetEnded(t)
  BY <1>3, GoesOn DEF CancelForward, SetEnded
<1>4. CASE Cancel(t) \/ Ack(t) \/ Bye(t)
  <2>1. \E r : OtherDate(r)
    BY <1>4, StampsOther DEF Cancel, Ack, Bye, Stamps
  <2>2. /\ pc[t] \in {"cancel", "ack", "bye"}
        /\ \E l \in {"cancelForward", "cleanup", "setEnded"} : Goto(t, l)
    BY <1>4 DEF Cancel, Ack, Bye
  <2> QED BY <2>1, <2>2, GoesOn
<1> QED BY <1>1, <1>2, <1>3, <1>4

LEMMA ResponsesRecorded ==
  ASSUME RecordInv, IInv, NEW t \in Threads,
         \/ Response(t) \/ Ring(t) \/ RecordRinging(t) \/ RecordRingTx(t) \/ Answer(t) \/ RecordOk(t)
         \/ SetEstablished(t) \/ Refuse(t)
  PROVE  RecordInv'
<1> USE DEF Labels, Recording
<1>1. CASE Response(t) \/ RecordRinging(t) \/ RecordRingTx(t) \/ RecordOk(t) \/ SetEstablished(t)
  BY <1>1, GoesOn DEF Response, RecordRinging, RecordRingTx, RecordOk, SetEstablished
<1>2. CASE Refuse(t)
  BY <1>2, GoesOn DEF Refuse
<1>3. CASE Ring(t) \/ Answer(t)
  <2>1. \E r : OtherDate(r)
    BY <1>3, StampsOther DEF Ring, Answer, Stamps
  <2>2. /\ pc[t] \in {"ring", "answer"}
        /\ Done(t) \/ \E l \in {"recordRinging", "recordOk"} : Goto(t, l)
    BY <1>3 DEF Ring, Answer
  <2> QED BY <2>1, <2>2, GoesOn
<1> QED BY <1>1, <1>2, <1>3

LEMMA TerminationRecorded ==
  ASSUME RecordInv, IInv, NEW t \in Threads, TerminateStep(t)
  PROVE  RecordInv'
<1> USE DEF Labels, Recording
<1>1. CASE EndInvited(t) \/ EndEstablished(t) \/ RefuseInvited(t)
  BY <1>1, GoesOn DEF EndInvited, EndEstablished, RefuseInvited
<1>2. CASE CancelInvited(t) \/ ByeBoth(t)
  BY <1>2, GoesOn DEF CancelInvited, ByeBoth
<1> QED BY <1>1, <1>2 DEF TerminateStep

LEMMA CleanupRecorded ==
  ASSUME RecordInv, IInv, NEW t \in Threads, Cleanup(t) \/ Close(t) \/ Unlist(t)
  PROVE  RecordInv'
<1> USE DEF Labels, Recording
<1>1. CASE Cleanup(t)
  BY <1>1, GoesOn DEF Cleanup
<1>2. CASE Unlist(t)
  BY <1>2, GoesOn DEF Unlist
<1>3. CASE Close(t)
  BY <1>3, GoesOn, StampsOther DEF Close, Stamps
<1> QED BY <1>1, <1>2, <1>3

\* The INVITE's date: its thread is on its way to the store, and so far nothing
\* of the session is stored, or the date is an old one.
LEMMA OpenTxRecorded ==
  ASSUME RecordInv, IInv, NEW t \in Threads, OpenTx(t)
  PROVE  RecordInv'
<1> DEFINE s == cur[t]
<1>1. s \in Sessions /\ pc[t] = "openTx" /\ ThreadType /\ RecordType
  BY Busy DEF OpenTx
<1>2. CASE Goto(t, "cleanup") /\ UNCHANGED recordVars
  BY <1>1, <1>2, GoesOn DEF Labels, Recording
<1>3. CASE Goto(t, "sdp") /\ Stamp(s, "InviteDate")
  <2>1. pc'[t] = "sdp" /\ UNCHANGED <<cur, buf>> /\ \A u \in Threads \ {t} : pc'[u] = pc[u]
    BY <1>1, <1>3 DEF Goto, localVars, ThreadType
  <2>2. /\ UNCHANGED <<stored, history>> /\ "InviteDate" \in dao'[s]
        /\ \A r \in Sessions : dao[r] \subseteq dao'[r] /\ (r # s => dao'[r] = dao[r])
    BY <1>1, <1>3 DEF Stamp, RecordType
  <2>3. ASSUME NEW u \in Threads PROVE StoringOK(u)'
    <3>1. pc'[u] \in {"store", "encode", "write"} => pc'[u] = pc[u] /\ cur[u] \in Sessions
      BY <2>1, Busy
    <3> QED BY <2>1, <2>2, <3>1 DEF RecordInv, StoringOK
  <2>4. ASSUME NEW r \in Sessions, "InviteDate" \in dao'[r] PROVE Recorded(r)'
    <3>1. CASE "InviteDate" \in dao[r]
      <4>1. Recorded(r)
        BY <3>1 DEF RecordInv
      <4>2. \A u \in Threads : pc[u] \in Recording \cup {"encode", "write"} => pc'[u] = pc[u]
        BY <1>1, <2>1 DEF Recording
      <4> QED BY <2>1, <2>2, <4>1, <4>2 DEF Recorded, Inserting
    <3>2. CASE "InviteDate" \notin dao[r]
      <4>1. r = s /\ ~stored[s]
        BY <2>2, <2>4, <3>2 DEF RecordInv
      <4> QED BY <2>1, <2>2, <4>1 DEF Recorded, Recording
    <3> QED BY <3>1, <3>2
  <2>5. \A r \in Sessions : stored'[r] => "InviteDate" \in dao'[r]
    BY <2>2 DEF RecordInv
  <2> QED BY <2>3, <2>4, <2>5 DEF RecordInv
<1> QED BY <1>2, <1>3 DEF OpenTx

LEMMA StoreRecorded ==
  ASSUME RecordInv, IInv, NEW t \in Threads, Store(t)
  PROVE  RecordInv'
<1> DEFINE s == cur[t]
<1>1. s \in Sessions /\ pc[t] = "store" /\ ThreadType /\ RecordType
  BY Busy DEF Store
<1>2. /\ pc'[t] = "encode" /\ UNCHANGED <<cur, dao, stored, history>>
      /\ \A u \in Threads \ {t} : pc'[u] = pc[u] /\ buf'[u] = buf[u]
  BY <1>1 DEF Store, ThreadType, recordVars
<1>3. "InviteDate" \in dao[s]
  BY <1>1 DEF RecordInv, StoringOK
<1>4. buf'[t].insert <=> ~stored[s]
  BY <1>1 DEF Store, ThreadType, RecordType
<1>5. ASSUME NEW u \in Threads PROVE StoringOK(u)'
  BY <1>2, <1>3, <1>4 DEF RecordInv, StoringOK
<1>6. ASSUME NEW r \in Sessions, "InviteDate" \in dao'[r] PROVE Recorded(r)'
  <2>1. Recorded(r)
    BY <1>2, <1>6 DEF RecordInv
  <2>2. CASE history[r] # {}
    BY <1>2, <2>2 DEF Recorded
  <2>3. CASE \E u \in Threads : Inserting(u, r)
    BY <1>1, <1>2, <2>3 DEF Recorded, Inserting
  <2>4. CASE ~stored[r] /\ r = s
    BY <1>2, <1>4, <2>4 DEF Recorded, Inserting
  <2>5. CASE r # s /\ ~stored[r] /\ \E u \in Threads : cur[u] = r /\ pc[u] \in Recording
    BY <1>2, <2>5 DEF Recorded
  <2> QED BY <2>1, <2>2, <2>3, <2>4, <2>5 DEF Recorded
<1>7. \A r \in Sessions : stored'[r] => "InviteDate" \in dao'[r]
  BY <1>2 DEF RecordInv
<1> QED BY <1>5, <1>6, <1>7 DEF RecordInv

LEMMA EncodeRecorded ==
  ASSUME RecordInv, IInv, NEW t \in Threads, Encode(t)
  PROVE  RecordInv'
<1> DEFINE s == cur[t]
<1>1. s \in Sessions /\ pc[t] = "encode" /\ ThreadType /\ RecordType
  BY Busy DEF Encode
<1>2. /\ pc'[t] = "write" /\ UNCHANGED <<cur, dao, history>>
      /\ \A u \in Threads \ {t} : pc'[u] = pc[u] /\ buf'[u] = buf[u]
      /\ stored'[s] /\ \A r \in Sessions \ {s} : stored'[r] = stored[r]
  BY <1>1 DEF Encode, ThreadType, RecordType
<1>3. "InviteDate" \in dao[s] /\ (buf[t].insert \/ stored[s])
  BY <1>1 DEF RecordInv, StoringOK
<1>4. buf'[t].doc = dao[s] /\ buf'[t].insert = buf[t].insert
  <2>1. buf[t] \in [doc : SUBSET Stamps, insert : BOOLEAN]
    BY <1>1 DEF ThreadType
  <2> QED BY <1>1, <2>1 DEF Encode, ThreadType
<1>5. ASSUME NEW u \in Threads PROVE StoringOK(u)'
  <2>1. pc'[u] \in {"store", "encode"} => cur[u] \in Sessions
    BY <1>2, Busy
  <2> QED BY <1>2, <1>3, <1>4, <2>1 DEF RecordInv, StoringOK
<1>6. ASSUME NEW r \in Sessions, "InviteDate" \in dao'[r] PROVE Recorded(r)'
  <2>1. Recorded(r)
    BY <1>2, <1>6 DEF RecordInv
  <2>2. CASE history[r] # {}
    BY <1>2, <2>2 DEF Recorded
  <2>3. CASE \E u \in Threads : Inserting(u, r)
    BY <1>2, <1>4, <2>3 DEF Recorded, Inserting
  <2>4. CASE ~stored[r] /\ r = s
    BY <1>2, <1>3, <1>4, <2>4 DEF Recorded, Inserting
  <2>5. CASE r # s /\ ~stored[r] /\ \E u \in Threads : cur[u] = r /\ pc[u] \in Recording
    <3>1. PICK u \in Threads : cur[u] = r /\ pc[u] \in Recording
      BY <2>5
    <3>2. u # t
      BY <1>1, <3>1 DEF Recording
    <3> QED BY <1>2, <2>5, <3>1, <3>2 DEF Recorded
  <2> QED BY <2>1, <2>2, <2>3, <2>4, <2>5 DEF Recorded
<1>7. \A r \in Sessions : stored'[r] => "InviteDate" \in dao'[r]
  BY <1>2, <1>3 DEF RecordInv
<1> QED BY <1>5, <1>6, <1>7 DEF RecordInv

LEMMA WriteRecorded ==
  ASSUME RecordInv, IInv, NEW t \in Threads, Write(t)
  PROVE  RecordInv'
<1> DEFINE s == cur[t]
<1>1. s \in Sessions /\ pc[t] = "write" /\ ThreadType /\ RecordType
  BY Busy DEF Write
<1>2. /\ pc'[t] = "idle" /\ UNCHANGED <<dao, stored>>
      /\ \A u \in Threads \ {t} : pc'[u] = pc[u] /\ cur'[u] = cur[u] /\ buf'[u] = buf[u]
      /\ history'[s] = IF buf[t].insert <=> history[s] = {} THEN buf[t].doc ELSE history[s]
      /\ \A r \in Sessions \ {s} : history'[r] = history[r]
  BY <1>1 DEF Write, Done, ThreadType, RecordType
<1>3. buf[t].doc # {}
  BY <1>1 DEF RecordInv, StoringOK
<1>4. ASSUME NEW u \in Threads PROVE StoringOK(u)'
  <2>1. pc'[u] \in {"store", "encode"} => cur[u] \in Sessions
    BY <1>2, Busy
  <2> QED BY <1>2, <2>1 DEF RecordInv, StoringOK
<1>5. ASSUME NEW r \in Sessions, "InviteDate" \in dao'[r] PROVE Recorded(r)'
  <2>1. Recorded(r)
    BY <1>2, <1>5 DEF RecordInv
  <2>2. CASE history[r] # {} \/ Inserting(t, r)
    BY <1>2, <1>3, <2>2 DEF Recorded, Inserting
  <2>3. CASE \E u \in Threads \ {t} : Inserting(u, r)
    BY <1>2, <2>3 DEF Recorded, Inserting
  <2>4. CASE ~stored[r] /\ \E u \in Threads : cur[u] = r /\ pc[u] \in Recording
    <3>1. PICK u \in Threads : cur[u] = r /\ pc[u] \in Recording
      BY <2>4
    <3>2. u # t
      BY <1>1, <3>1 DEF Recording
    <3> QED BY <1>2, <2>4, <3>1, <3>2 DEF Recorded
  <2> QED BY <2>1, <2>2, <2>3, <2>4 DEF Recorded
<1>6. \A r \in Sessions : stored'[r] => "InviteDate" \in dao'[r]
  BY <1>2 DEF RecordInv
<1> QED BY <1>4, <1>5, <1>6 DEF RecordInv

\* Steps of a thread that has not begun a handler, and of the phones.
LEMMA BeginningsRecorded ==
  ASSUME RecordInv, IInv, NEW t \in Threads, pc[t] \in {"idle", "admit"}, UNCHANGED recordVars,
         /\ pc'[t] \in Labels \ {"store", "encode", "write"} /\ cur'[t] \in Sessions \cup {0}
         /\ \A u \in Threads \ {t} : pc'[u] = pc[u] /\ cur'[u] = cur[u] /\ buf'[u] = buf[u]
  PROVE  RecordInv'
<1>1. RecordFrame(t)
  BY DEF RecordFrame, recordVars
<1>2. \A u \in Threads : pc[u] \in {"store", "encode"} => cur[u] \in Sessions
  BY Busy
<1> QED BY <1>1, <1>2, KeepsRecord DEF recordVars, Recording

LEMMA InitRecorded == Init => RecordInv
BY DEF Init, RecordInv, StoringOK

LEMMA NextRecorded == RecordInv /\ IInv /\ [Next]_vars => RecordInv'
<1> SUFFICES ASSUME RecordInv, IInv, [Next]_vars PROVE RecordInv'
  OBVIOUS
<1> ThreadType
  BY DEF IInv, Typed
<1>1. CASE UNCHANGED <<recordVars, pc, cur, buf>>
  BY <1>1 DEF RecordInv, StoringOK, Recorded, Inserting, recordVars
<1>2. CASE UserAgents
  <2>1. \E m : Send(m)
    BY <1>2, ZenonT(40) DEF UserAgents, CallerInvites, CallerRetransmits, CallerCancels, CallerAcks,
       CallerHangsUp, CalleeRings, CalleeAnswers, CalleeReplies, CalleeHangsUp
  <2> QED BY <1>1, <2>1 DEF Send, localVars
<1>3. ASSUME NEW t \in Workers, NEW m \in net, ReceiveRequest(t, m) \/ ReceiveResponse(t, m)
      PROVE  RecordInv'
  <2>1. /\ pc[t] = "idle" /\ UNCHANGED <<recordVars, buf>> /\ t \in Threads
        /\ \/ pc' = pc /\ cur' = cur
           \/ /\ \A u \in Threads \ {t} : pc'[u] = pc[u] /\ cur'[u] = cur[u]
              /\ pc'[t] \in {"entry", "dispatch", "admit", "response"}
              /\ cur'[t] \in Sessions \cup {0}
    BY <1>3 DEF ReceiveRequest, ReceiveResponse, ThreadType, Threads
  <2> QED BY <1>1, <2>1, BeginningsRecorded DEF Labels
<1>4. ASSUME NEW t \in Admins, NEW s \in Sessions, Terminate(t, s) PROVE RecordInv'
  <2>1. /\ pc[t] = "idle" /\ UNCHANGED <<recordVars, buf>> /\ t \in Threads
        /\ \A u \in Threads \ {t} : pc'[u] = pc[u] /\ cur'[u] = cur[u]
        /\ pc'[t] \in {"endInvited", "endEstablished", "cleanup"} /\ cur'[t] = s
    BY <1>4 DEF Terminate, ThreadType, Threads
  <2> QED BY <2>1, BeginningsRecorded DEF Labels
<1>5. ASSUME NEW t \in Threads, ThreadStep(t) PROVE RecordInv'
  <2>1. CASE Admit(t)
    <3>1. /\ pc[t] = "admit" /\ UNCHANGED <<recordVars, buf>> /\ cur'[t] \in Sessions
          /\ pc'[t] = "entry" /\ \A u \in Threads \ {t} : pc'[u] = pc[u] /\ cur'[u] = cur[u]
      BY <2>1 DEF Admit, ThreadType
    <3> QED BY <3>1, BeginningsRecorded DEF Labels
  <2>2. CASE \E v \in Verdicts : TurnAway(t, v)
    <3>1. /\ pc[t] = "admit" /\ UNCHANGED recordVars /\ cur'[t] = 0 /\ pc'[t] = "idle"
          /\ \A u \in Threads \ {t} : pc'[u] = pc[u] /\ cur'[u] = cur[u] /\ buf'[u] = buf[u]
      BY <2>2 DEF TurnAway, Done, ThreadType
    <3> QED BY <3>1, BeginningsRecorded DEF Labels
  <2>3. CASE RequestStep(t)
    BY <2>1, <2>2, <2>3, RequestsRecorded, OpenTxRecorded DEF RequestStep
  <2>4. CASE ResponseStep(t)
    BY <2>4, ResponsesRecorded DEF ResponseStep
  <2>5. CASE CleanupStep(t)
    BY <2>5, CleanupRecorded, StoreRecorded, EncodeRecorded, WriteRecorded DEF CleanupStep
  <2> QED BY <1>5, <2>3, <2>4, <2>5, TerminationRecorded DEF ThreadStep
<1>6. CASE UNCHANGED vars
  BY <1>1, <1>6 DEF vars, localVars
<1> QED BY <1>2, <1>3, <1>4, <1>5, <1>6 DEF Next

\* Whatever failed on the way, a call that got a transaction is in the call history
\* once its threads are done (SipCall!CallIsRecorded).
THEOREM CallsRecorded == Spec => []CallIsRecorded
<1>1. IInv /\ RecordInv => CallIsRecorded
  <2> SUFFICES ASSUME IInv, RecordInv, NEW s \in Sessions, Quiescent(s), "InviteDate" \in dao[s]
               PROVE  history[s] # {}
    BY DEF CallIsRecorded
  <2> QED BY DEF RecordInv, Recorded, Inserting, Quiescent
<1> QED BY InitInv, NextInv, InitRecorded, NextRecorded, <1>1, PTL DEF Spec

==============================================================================
