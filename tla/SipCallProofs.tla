---------------------------- MODULE SipCallProofs ----------------------------
(****************************************************************************)
(* Proofs about SipCall for any number of calls, threads, sessions, INVITE  *)
(* transactions and copies, and whatever the environment may cause or make  *)
(* fail.                                                                    *)
(*                                                                          *)
(* The argument: what a thread relies on at a statement (ThreadOK) was true *)
(* when it got there, and no other thread can take it away, because the     *)
(* fields it speaks of only ever grow (Grow).  So a step of thread t has to *)
(* re-establish ThreadOK for t alone.                                       *)
(****************************************************************************)
EXTENDS SipCall, TLAPS

\* Labels of a thread that handles a message, and of a thread at a statement
\* that is only reached once the session's INVITE has its server transaction.
NeedsMessage == Labels \ {"idle", "cleanup", "close", "unlist", "store", "encode",
                          "write", "setEnded", "endInvited", "refuseInvited",
                          "cancelInvited", "endEstablished", "byeBoth"}
NeedsTx == {"sdp", "forward", "trying", "setInvited", "cancel", "cancelForward",
            "ack", "bye", "ring", "recordRinging", "recordRingTx", "answer",
            "recordOk", "setEstablished", "refuse", "endInvited", "refuseInvited",
            "cancelInvited", "endEstablished", "byeBoth"}

\* callIdHeader and lastInviteRequestServerTransaction are set.
HasTx(s) == callId[s] \in Calls /\ inviteTx[s] \in Seqs

ThreadOK(t) ==
  /\ pc[t] \in {"idle", "admit"} => cur[t] = 0
  /\ pc[t] = "idle" => req[t] = NoMsg
  /\ pc[t] \notin {"idle", "admit"} => cur[t] \in Sessions
  /\ cur[t] \in Sessions => state[cur[t]] # "none"
  /\ pc[t] \in NeedsMessage => req[t] \in Messages
  /\ pc[t] \in NeedsTx => HasTx(cur[t])
  /\ cur[t] \in Sessions /\ req[t] \in Messages =>
       callId[cur[t]] \in {NoCall, req[t].call}
  /\ pc[t] \in {"recordOk", "setEstablished"} => Answered(cur[t])
  /\ pc[t] \in {"setEstablished", "ack", "bye"} => "OK" \in last[cur[t]]

SessionOK(s) ==
  /\ state[s] \in {"INVITED", "ESTABLISHED"} => HasTx(s)
  /\ callId[s] # NoCall => inviteTx[s] \in Seqs
  /\ callId[s] = NoCall <=> inviteTx[s] = 0
  /\ s \in listed => state[s] # "none"
  /\ state[s] = "none" => callId[s] = NoCall
  /\ state[s] = "ESTABLISHED" => Answered(s) /\ "OK" \in last[s]

\* While a session has no Call-ID only the thread that created it serves a
\* message on it.
OwnerInv ==
  \A t, u \in Threads :
    /\ cur[t] = cur[u] /\ cur[t] \in Sessions /\ callId[cur[t]] = NoCall
    /\ req[t] \in Messages /\ req[u] \in Messages
    => t = u

ThreadInv  == \A t \in Threads : ThreadOK(t)
SessionInv == \A s \in Sessions : SessionOK(s)
IInv == Typed /\ ThreadInv /\ OwnerInv /\ SessionInv

\* What no step takes away.
TxGrow == \A c \in Calls, n \in Seqs : tx[c][n] = "answered" => tx'[c][n] = "answered"
Grow ==
  /\ TxGrow
  /\ \A s \in Sessions :
       /\ state[s] # "none" => state'[s] # "none"
       /\ callId[s] # NoCall => callId'[s] = callId[s]
       /\ inviteTx[s] \in Seqs => inviteTx'[s] \in Seqs
       /\ last[s] \subseteq last'[s]

------------------------------------------------------------------------------
(* Typing of the vocabulary.                                                *)

LEMMA MessageFields ==
  ASSUME NEW m \in Messages
  PROVE  m.call \in Calls /\ m.seq \in Seqs
BY DEF Messages

LEMMA NotIds == 0 \notin Sessions /\ 0 \notin Seqs
BY ConstantsAssumption DEF Sessions, Seqs

LEMMA CallerOutput ==
  ASSUME NEW s \in Sessions, HasTx(s),
         NEW k \in {"TRYING", "RINGING", "OK", "ERR", "503", "CANCEL_OK", "BYE_OK", "BYE"}
  PROVE  ToCaller(s, k) \in Outputs
BY DEF ToCaller, Output, Outputs, HasTx

LEMMA CalleeOutput ==
  ASSUME NEW s \in Sessions, HasTx(s), NEW k \in {"CANCEL", "ACK", "BYE", "BYE_OK"}
  PROVE  ToCallee(s, k) \in Outputs
BY DEF ToCallee, Output, Outputs, HasTx

LEMMA GotoType ==
  ASSUME ThreadType, NEW t \in Threads, NEW l \in Labels, Goto(t, l)
  PROVE  ThreadType'
BY DEF ThreadType, Goto, localVars

LEMMA DoneType ==
  ASSUME ThreadType, NEW t \in Threads, Done(t)
  PROVE  ThreadType'
BY DEF ThreadType, Done, EmptyBuf, Labels

LEMMA StampType ==
  ASSUME RecordType, NEW s, NEW d \in Stamps, Stamp(s, d)
  PROVE  RecordType'
BY DEF RecordType, Stamp

LEMMA EmitType ==
  ASSUME NetType, NEW O \in SUBSET Outputs, Emit(O)
  PROVE  NetType' /\ TxGrow
BY DEF NetType, Emit, TxGrow

LEMMA FinalType ==
  ASSUME NetType, NEW s \in Sessions, HasTx(s), TxIs(s, "open"),
         NEW k \in {"OK", "ERR", "503"}, NEW v \in {"answered", "refused"},
         Final(s, k, v)
  PROVE  NetType' /\ TxGrow /\ tx'[callId[s]][inviteTx[s]] = v
<1>1. Output("caller", k, callId[s], inviteTx[s]) \in Outputs
  BY DEF Output, Outputs, HasTx
<1>2. tx' \in [Calls -> [Seqs -> {"none", "open", "answered", "refused"}]]
  BY DEF NetType, Final, HasTx
<1>3. TxGrow /\ tx'[callId[s]][inviteTx[s]] = v
  BY DEF NetType, Final, HasTx, TxIs, TxGrow
<1> QED BY <1>1, <1>2, <1>3 DEF NetType, Final

LEMMA SameNet ==
  ASSUME NetType, UNCHANGED netVars
  PROVE  NetType' /\ TxGrow
BY DEF NetType, netVars, TxGrow

LEMMA SameRecord ==
  ASSUME RecordType, UNCHANGED recordVars
  PROVE  RecordType'
BY DEF RecordType, recordVars

------------------------------------------------------------------------------
(* What a step of thread t owes for the others.                             *)

\* Only t moves; it gives a Call-ID to no session but the one it serves a
\* message on, and does not come to share a session that has none.
Local(t) ==
  /\ \A s \in Sessions : callId'[s] # callId[s] => s = cur[t] /\ req[t] \in Messages
  /\ \A u \in Threads \ {t} : pc'[u] = pc[u] /\ cur'[u] = cur[u] /\ req'[u] = req[u]
  /\ \/ cur'[t] = cur[t] /\ req'[t] = req[t]
     \/ cur'[t] \notin Sessions
     \/ req'[t] \notin Messages
     \/ callId'[cur'[t]] # NoCall
     \/ \A u \in Threads \ {t} : cur[u] # cur'[t]

LEMMA AnsweredGrows ==
  ASSUME ObjType, ObjType', Grow, NEW s \in Sessions, Answered(s)
  PROVE  Answered(s)'
BY DEF ObjType, Grow, TxGrow, Answered

LEMMA HasTxGrows ==
  ASSUME ObjType, ObjType', Grow, NEW s \in Sessions, HasTx(s)
  PROVE  HasTx(s)'
BY ConstantsAssumption DEF ObjType, Grow, HasTx

LEMMA Frame ==
  ASSUME IInv, NEW t \in Threads, Typed', Grow, SessionInv', Local(t), ThreadOK(t)'
  PROVE  IInv'
<1>1. ASSUME NEW u \in Threads PROVE ThreadOK(u)'
  <2>1. CASE u = t
    BY <2>1
  <2>2. CASE u # t
    <3>1. pc'[u] = pc[u] /\ cur'[u] = cur[u] /\ req'[u] = req[u]
      BY <2>2 DEF Local
    <3>2. ThreadOK(u)
      BY DEF IInv, ThreadInv
    <3>3. CASE cur[u] \in Sessions
      <4>1. \A s \in Sessions : Answered(s) => Answered(s)'
        BY AnsweredGrows DEF IInv, Typed
      <4>2. \A s \in Sessions : HasTx(s) => HasTx(s)'
        BY HasTxGrows DEF IInv, Typed
      <4>3. (Answered(cur[u]) => Answered(cur[u])') /\ (HasTx(cur[u]) => HasTx(cur[u])')
        BY <3>1, <3>3, <4>1, <4>2 DEF Answered, HasTx
      <4>4. last[cur[u]] \subseteq last'[cur[u]] /\ (state[cur[u]] # "none" => state'[cur[u]] # "none")
        BY <3>3 DEF Grow
      <4>5. cur[u] \in Sessions /\ req[u] \in Messages => callId'[cur[u]] \in {NoCall, req[u].call}
        <5> SUFFICES ASSUME req[u] \in Messages
                     PROVE  callId'[cur[u]] \in {NoCall, req[u].call}
          OBVIOUS
        <5>1. CASE callId'[cur[u]] = callId[cur[u]]
          BY <3>2, <3>3, <5>1 DEF ThreadOK
        <5>2. CASE callId[cur[u]] # NoCall
          BY <3>2, <3>3, <5>2 DEF ThreadOK, Grow
        <5>3. CASE callId'[cur[u]] # callId[cur[u]] /\ callId[cur[u]] = NoCall
          BY <2>2, <3>3, <5>3 DEF Local, OwnerInv, IInv
        <5> QED BY <5>1, <5>2, <5>3
      <4> QED BY <3>1, <3>2, <3>3, <4>3, <4>4, <4>5 DEF ThreadOK
    <3>4. CASE cur[u] \notin Sessions
      BY <3>1, <3>2, <3>4 DEF ThreadOK, NeedsMessage, NeedsTx
    <3> QED BY <3>3, <3>4
  <2> QED BY <2>1, <2>2
<1>2. OwnerInv'
  BY DEF OwnerInv, Local, Grow, IInv
<1> QED BY <1>1, <1>2 DEF IInv, ThreadInv

------------------------------------------------------------------------------
(* The three ways a step treats the session objects.                        *)

LEMMA SameObj ==
  ASSUME ObjType, SessionInv, UNCHANGED objVars, TxGrow
  PROVE  ObjType' /\ Grow /\ SessionInv'
<1>1. ObjType' /\ Grow
  BY DEF ObjType, Grow, objVars
<1>2. SessionInv'
  BY DEF SessionInv, SessionOK, HasTx, Answered, TxGrow, objVars
<1> QED BY <1>1, <1>2

LEMMA ToState ==
  ASSUME ObjType, SessionInv, NEW s \in Sessions, NEW v \in States \ {"none"},
         SetState(s, v), TxGrow,
         v \in {"INVITED", "ESTABLISHED"} => HasTx(s),
         v = "ESTABLISHED" => Answered(s) /\ "OK" \in last[s]
  PROVE  ObjType' /\ Grow /\ SessionInv'
<1>1. ObjType' /\ Grow
  BY DEF ObjType, Grow, SetState
<1>2. SessionInv'
  BY DEF ObjType, SessionInv, SessionOK, HasTx, Answered, TxGrow, SetState
<1> QED BY <1>1, <1>2

LEMMA Remembering ==
  ASSUME ObjType, SessionInv, NEW s \in Sessions, NEW k \in {"RINGING", "RINGING_TX", "OK", "ACK"},
         Remember(s, k), TxGrow
  PROVE  ObjType' /\ Grow /\ SessionInv' /\ k \in last'[s]
<1>1. ObjType' /\ Grow /\ k \in last'[s]
  BY DEF ObjType, Grow, Remember
<1>2. SessionInv'
  BY DEF ObjType, SessionInv, SessionOK, HasTx, Answered, TxGrow, Remember
<1> QED BY <1>1, <1>2

------------------------------------------------------------------------------
(* The two ways a step of a busy thread ends.                               *)

LEMMA Going ==
  ASSUME IInv, NEW t \in Threads, NEW l \in Labels, Goto(t, l),
         ObjType', RecordType', NetType', Grow, SessionInv',
         pc[t] \notin {"idle", "admit"}, l \notin {"idle", "admit"},
         \A s \in Sessions : callId'[s] # callId[s] => s = cur[t] /\ req[t] \in Messages,
         callId'[cur[t]] = callId[cur[t]] \/ callId'[cur[t]] = req[t].call,
         l \in NeedsMessage => pc[t] \in NeedsMessage,
         l \in NeedsTx => callId'[cur[t]] \in Calls /\ inviteTx'[cur[t]] \in Seqs,
         l \in {"recordOk", "setEstablished"} =>
           \E n \in Seqs : callId'[cur[t]] # NoCall /\ tx'[callId'[cur[t]]][n] = "answered",
         l \in {"setEstablished", "ack", "bye"} => "OK" \in last'[cur[t]]
  PROVE  IInv'
<1>1. ThreadType' /\ Typed'
  BY GotoType DEF IInv, Typed
<1>2. cur' = cur /\ req' = req /\ pc'[t] = l
  BY DEF Goto, localVars, IInv, Typed, ThreadType
<1>3. ThreadOK(t)
  BY DEF IInv, ThreadInv
<1>4. cur[t] \in Sessions /\ state[cur[t]] # "none" /\ state'[cur[t]] # "none"
  BY <1>3 DEF ThreadOK, Grow
<1>5. ThreadOK(t)'
  BY <1>2, <1>3, <1>4 DEF ThreadOK, HasTx, Answered
<1>6. Local(t)
  BY <1>2 DEF Local, Goto, IInv, Typed, ThreadType
<1> QED BY <1>1, <1>5, <1>6, Frame

LEMMA Ending ==
  ASSUME IInv, NEW t \in Threads, Done(t),
         ObjType', RecordType', NetType', Grow, SessionInv', UNCHANGED callId
  PROVE  IInv'
<1>1. ThreadType' /\ Typed'
  BY DoneType DEF IInv, Typed
<1>2. cur'[t] = 0 /\ req'[t] = NoMsg /\ pc'[t] = "idle"
  BY DEF Done, IInv, Typed, ThreadType
<1>3. ThreadOK(t)'
  BY <1>2, NotIds DEF ThreadOK, NeedsMessage, NeedsTx
<1>4. Local(t)
  BY <1>2, NotIds DEF Local, Done, IInv, Typed, ThreadType
<1> QED BY <1>1, <1>3, <1>4, Frame

------------------------------------------------------------------------------
(* The steps of a busy thread, one lemma per handler.                       *)

\* What IInv says of a thread at a given statement.
LEMMA Busy ==
  ASSUME IInv, NEW t \in Threads, pc[t] \notin {"idle", "admit"}
  PROVE  /\ cur[t] \in Sessions /\ state[cur[t]] # "none"
         /\ pc[t] \in NeedsMessage => req[t] \in Messages
         /\ pc[t] \in NeedsTx => HasTx(cur[t])
         /\ ObjType /\ RecordType /\ NetType /\ ThreadType /\ SessionInv
         /\ SessionOK(cur[t]) /\ ThreadOK(t)
BY DEF IInv, Typed, ThreadInv, ThreadOK, SessionInv

\* Steps that only decide where to go next.
LEMMA Moving ==
  ASSUME IInv, NEW t \in Threads, NEW l \in Labels, Goto(t, l),
         UNCHANGED <<objVars, recordVars, netVars>>,
         pc[t] \notin {"idle", "admit"}, l \notin {"idle", "admit"},
         l \in NeedsMessage => pc[t] \in NeedsMessage,
         l \in NeedsTx => HasTx(cur[t]),
         l \notin {"recordOk", "setEstablished"},
         l \in {"ack", "bye"} => "OK" \in last[cur[t]]
  PROVE  IInv'
<1>1. NetType' /\ TxGrow /\ RecordType'
  BY Busy, SameNet, SameRecord
<1>2. ObjType' /\ Grow /\ SessionInv'
  BY Busy, SameObj, <1>1
<1> QED BY <1>1, <1>2, Going DEF objVars, HasTx

LEMMA EntryStep ==
  ASSUME IInv, NEW t \in Threads, Entry(t)
  PROVE  IInv'
BY Moving DEF Entry, Labels, NeedsMessage, NeedsTx

LEMMA DispatchStep ==
  ASSUME IInv, NEW t \in Threads, Dispatch(t)
  PROVE  IInv'
<1>1. pc[t] = "dispatch" /\ UNCHANGED <<objVars, recordVars, netVars>>
  BY DEF Dispatch
<1>2. SessionOK(cur[t])
  BY <1>1, Busy
<1>3. PICK l \in {"openTx", "setEnded", "cancel", "ack", "bye", "cleanup"} :
        /\ Goto(t, l)
        /\ l = "cancel" => state[cur[t]] = "INVITED"
        /\ l \in {"ack", "bye"} => state[cur[t]] = "ESTABLISHED"
  BY DEF Dispatch
<1>4. (l \in NeedsTx => HasTx(cur[t])) /\ (l \in {"ack", "bye"} => "OK" \in last[cur[t]])
  BY <1>2, <1>3 DEF SessionOK, NeedsTx
<1> QED BY <1>1, <1>3, <1>4, Moving DEF Labels, NeedsMessage

LEMMA ResponseStepInv ==
  ASSUME IInv, NEW t \in Threads, Response(t)
  PROVE  IInv'
<1>1. pc[t] = "response" /\ UNCHANGED <<objVars, recordVars, netVars>>
  BY DEF Response
<1>2. SessionOK(cur[t])
  BY <1>1, Busy
<1>3. PICK l \in {"cleanup", "ring", "answer", "refuse", "setEnded"} :
        /\ Goto(t, l)
        /\ l \in {"ring", "answer", "refuse"} => state[cur[t]] = "INVITED"
  BY DEF Response
<1>4. l \in NeedsTx => HasTx(cur[t])
  BY <1>2, <1>3 DEF SessionOK, NeedsTx
<1> QED BY <1>1, <1>3, <1>4, Moving DEF Labels, NeedsMessage

LEMMA CleanupStepInv ==
  ASSUME IInv, NEW t \in Threads, Cleanup(t)
  PROVE  IInv'
<1>1. pc[t] = "cleanup" /\ UNCHANGED <<objVars, recordVars, netVars>>
  BY DEF Cleanup
<1>2. CASE Done(t)
  <2>1. NetType' /\ TxGrow /\ RecordType'
    BY <1>1, Busy, SameNet, SameRecord
  <2>2. ObjType' /\ Grow /\ SessionInv'
    BY <1>1, <2>1, Busy, SameObj
  <2> QED BY <1>1, <1>2, <2>1, <2>2, Ending DEF objVars
<1>3. CASE Goto(t, "close") \/ Goto(t, "store")
  BY <1>1, <1>3, Moving DEF Labels, NeedsMessage, NeedsTx
<1> QED BY <1>2, <1>3 DEF Cleanup

\* Steps that set the state.
LEMMA StateStep ==
  ASSUME IInv, NEW t \in Threads, NEW v \in States \ {"none"}, NEW l \in Labels,
         SetState(cur[t], v), Goto(t, l), UNCHANGED <<recordVars, netVars>>,
         pc[t] \notin {"idle", "admit"}, l \notin {"idle", "admit"},
         v \in {"INVITED", "ESTABLISHED"} => HasTx(cur[t]),
         v = "ESTABLISHED" => Answered(cur[t]) /\ "OK" \in last[cur[t]],
         l \in NeedsMessage => pc[t] \in NeedsMessage,
         l \in NeedsTx => HasTx(cur[t]),
         l \notin {"recordOk", "setEstablished", "ack", "bye"}
  PROVE  IInv'
<1>1. NetType' /\ TxGrow /\ RecordType'
  BY Busy, SameNet, SameRecord
<1>2. ObjType' /\ Grow /\ SessionInv'
  BY Busy, ToState, <1>1
<1> QED BY <1>1, <1>2, Going DEF SetState, HasTx

LEMMA StateSteps ==
  ASSUME IInv, NEW t \in Threads,
         \/ Reopen(t) \/ SetInvited(t) \/ SetEstablished(t) \/ SetEnded(t)
         \/ EndInvited(t) \/ EndEstablished(t)
  PROVE  IInv'
<1> USE DEF Labels, States, NeedsMessage, NeedsTx
<1>1. CASE Reopen(t)
  BY <1>1, StateStep DEF Reopen
<1>2. CASE SetInvited(t)
  BY <1>2, Busy, StateStep DEF SetInvited
<1>3. CASE SetEstablished(t)
  BY <1>3, Busy, StateStep DEF SetEstablished, ThreadOK
<1>4. CASE SetEnded(t)
  BY <1>4, StateStep DEF SetEnded
<1>5. CASE EndInvited(t)
  BY <1>5, Busy, StateStep DEF EndInvited
<1>6. CASE EndEstablished(t)
  BY <1>6, Busy, StateStep DEF EndEstablished
<1> QED BY <1>1, <1>2, <1>3, <1>4, <1>5, <1>6

\* Steps of a thread that leave the session objects alone.
LEMMA Sending ==
  ASSUME IInv, NEW t \in Threads, NEW l \in Labels, Goto(t, l), UNCHANGED objVars,
         RecordType', NetType', TxGrow,
         pc[t] \notin {"idle", "admit"}, l \notin {"idle", "admit"},
         l \in NeedsMessage => pc[t] \in NeedsMessage,
         l \in NeedsTx => HasTx(cur[t]),
         l \in {"recordOk", "setEstablished"} => Answered(cur[t])',
         l \notin {"setEstablished", "ack", "bye"}
  PROVE  IInv'
<1>1. ObjType' /\ Grow /\ SessionInv'
  BY Busy, SameObj
<1>2. cur' = cur
  BY DEF Goto, localVars
<1> QED BY <1>1, <1>2, Going DEF objVars, HasTx, Answered

\* A thread that gives up, whatever it has put on record before.
LEMMA GivingUp ==
  ASSUME IInv, NEW t \in Threads, Done(t), UNCHANGED objVars,
         RecordType', NetType', TxGrow,
         pc[t] \notin {"idle", "admit"}
  PROVE  IInv'
<1>1. ObjType' /\ Grow /\ SessionInv'
  BY Busy, SameObj
<1> QED BY <1>1, Ending DEF objVars

LEMMA OpenTxStep ==
  ASSUME IInv, NEW t \in Threads, OpenTx(t)
  PROVE  IInv'
<1> DEFINE s == cur[t]
           c == req[t].call
           n == req[t].seq
<1>1. pc[t] = "openTx" /\ req[t] \in Messages /\ s \in Sessions /\ state[s] # "none"
  BY Busy DEF OpenTx, Labels, NeedsMessage
<1>2. c \in Calls /\ n \in Seqs /\ callId[s] \in {NoCall, c} /\ n # 0 /\ c # NoCall
  BY <1>1, Busy, MessageFields, NotIds, ConstantsAssumption DEF ThreadOK
<1>3. CASE tx[c][n] # "none"
  BY <1>1, <1>3, Moving DEF OpenTx, Labels, NeedsMessage, NeedsTx
<1>4. CASE tx[c][n] = "none"
  <2>1. /\ tx' = [tx EXCEPT ![c][n] = "open"]
        /\ callId' = [callId EXCEPT ![s] = c]
        /\ inviteTx' = [inviteTx EXCEPT ![s] = n]
        /\ Stamp(s, "InviteDate") /\ Goto(t, "sdp")
        /\ UNCHANGED <<state, last, alg, running, listed, sent, net, out>>
    BY <1>4 DEF OpenTx
  <2>2. NetType'
    BY <1>1, <1>2, <2>1, Busy DEF NetType
  <2>3. TxGrow
    BY <1>1, <1>2, <1>4, <2>1, Busy DEF NetType, TxGrow
  <2>4. RecordType'
    BY <1>1, <2>1, Busy, StampType DEF Stamps
  <2>5. ObjType' /\ Grow
    BY <1>1, <1>2, <2>1, <2>3, Busy DEF ObjType, Grow
  <2>6. callId'[s] = c /\ inviteTx'[s] = n
    BY <1>1, <2>1, Busy DEF ObjType
  <2>7. SessionInv'
    <3> SUFFICES ASSUME NEW r \in Sessions PROVE SessionOK(r)'
      BY DEF SessionInv
    <3>1. SessionOK(r)
      BY Busy, <1>1 DEF SessionInv
    <3>2. (Answered(r) => Answered(r)') /\ (HasTx(r) => HasTx(r)')
      BY <1>1, <2>5, Busy, AnsweredGrows, HasTxGrows
    <3>3. state'[r] = state[r] /\ last'[r] = last[r] /\ listed' = listed
      BY <2>1
    <3>4. CASE r = s
      BY <1>1, <1>2, <2>6, <3>1, <3>2, <3>3, <3>4 DEF SessionOK
    <3>5. CASE r # s
      <4>1. callId'[r] = callId[r] /\ inviteTx'[r] = inviteTx[r]
        BY <2>1, <3>5, <1>1, Busy DEF ObjType
      <4> QED BY <3>1, <3>2, <3>3, <4>1 DEF SessionOK
    <3> QED BY <3>4, <3>5
  <2>8. \A r \in Sessions : callId'[r] # callId[r] => r = s
    BY <2>1, <1>1, Busy DEF ObjType
  <2> QED BY <1>1, <1>2, <2>1, <2>2, <2>4, <2>5, <2>6, <2>7, <2>8, Going
          DEF Labels, NeedsMessage, NeedsTx
<1> QED BY <1>3, <1>4

LEMMA SdpStep ==
  ASSUME IInv, NEW t \in Threads, Sdp(t)
  PROVE  IInv'
<1>1. pc[t] = "sdp" /\ cur[t] \in Sessions /\ req[t] \in Messages /\ HasTx(cur[t])
  BY Busy DEF Sdp, Labels, NeedsMessage, NeedsTx
<1>2. req[t].seq \in Seqs
  BY <1>1, MessageFields
<1>3. UNCHANGED <<state, callId, inviteTx, last, listed, recordVars, netVars>>
  BY DEF Sdp
<1>4. alg' \in [Sessions -> Seqs \cup {0}] /\ running' \in [Sessions -> SUBSET Seqs]
  BY <1>1, <1>2, Busy DEF Sdp, ObjType
<1>5. NetType' /\ TxGrow /\ RecordType'
  BY <1>1, <1>3, Busy, SameNet, SameRecord
<1>6. ObjType' /\ Grow /\ SessionInv'
  <2>1. ObjType' /\ Grow
    BY <1>1, <1>3, <1>4, <1>5, Busy DEF ObjType, Grow
  <2>2. SessionInv'
    BY <1>1, <1>3, <1>5, Busy DEF SessionInv, SessionOK, HasTx, Answered, TxGrow
  <2> QED BY <2>1, <2>2
<1>7. PICK l \in {"forward", "setEnded"} : Goto(t, l)
  BY DEF Sdp
<1>8. callId' = callId /\ inviteTx' = inviteTx
  BY <1>3
<1>9. callId'[cur[t]] \in Calls /\ inviteTx'[cur[t]] \in Seqs
  BY <1>1, <1>8 DEF HasTx
<1> QED BY <1>1, <1>5, <1>6, <1>7, <1>8, <1>9, Going DEF Labels, NeedsMessage, NeedsTx

LEMMA ForwardStep ==
  ASSUME IInv, NEW t \in Threads, Forward(t)
  PROVE  IInv'
<1>1. pc[t] = "forward" /\ UNCHANGED objVars /\ UNCHANGED recordVars
  BY DEF Forward
<1>2. req[t] \in Messages /\ RecordType /\ NetType /\ cur[t] \in Sessions /\ HasTx(cur[t])
  BY <1>1, Busy DEF Labels, NeedsMessage, NeedsTx
<1>3. RecordType'
  BY <1>1, <1>2, SameRecord
<1>4. CASE Goto(t, "cleanup") /\ UNCHANGED netVars
  BY <1>1, <1>2, <1>3, <1>4, SameNet, Sending DEF Labels, NeedsMessage, NeedsTx
<1>5. CASE Goto(t, "trying") /\ Emit({Output("callee", "INVITE", req[t].call, req[t].seq)})
  <2>1. {Output("callee", "INVITE", req[t].call, req[t].seq)} \in SUBSET Outputs
    BY <1>2, MessageFields DEF Output, Outputs
  <2> QED BY <1>1, <1>2, <1>3, <1>5, <2>1, EmitType, Sending DEF Labels, NeedsMessage, NeedsTx
<1> QED BY <1>4, <1>5 DEF Forward

LEMMA TryingStep ==
  ASSUME IInv, NEW t \in Threads, Trying(t)
  PROVE  IInv'
<1>1. pc[t] = "trying" /\ UNCHANGED objVars /\ UNCHANGED recordVars
  BY DEF Trying
<1>2. RecordType /\ NetType /\ cur[t] \in Sessions /\ HasTx(cur[t])
  BY <1>1, Busy DEF Labels, NeedsMessage, NeedsTx
<1>3. RecordType'
  BY <1>1, <1>2, SameRecord
<1>4. CASE Goto(t, "cleanup") /\ UNCHANGED netVars
  BY <1>1, <1>2, <1>3, <1>4, SameNet, Sending DEF Labels, NeedsMessage, NeedsTx
<1>5. CASE Goto(t, "setInvited") /\ Emit({ToCaller(cur[t], "TRYING")})
  <2>1. {ToCaller(cur[t], "TRYING")} \in SUBSET Outputs
    BY <1>2, CallerOutput
  <2> QED BY <1>1, <1>2, <1>3, <1>5, <2>1, EmitType, Sending DEF Labels, NeedsMessage, NeedsTx
<1> QED BY <1>4, <1>5 DEF Trying

LEMMA CancelSteps ==
  ASSUME IInv, NEW t \in Threads, Cancel(t) \/ CancelForward(t) \/ CancelInvited(t)
  PROVE  IInv'
<1>1. pc[t] \in {"cancel", "cancelForward", "cancelInvited"} /\ UNCHANGED objVars
  BY DEF Cancel, CancelForward, CancelInvited
<1>2. RecordType /\ NetType /\ cur[t] \in Sessions /\ HasTx(cur[t])
  BY <1>1, Busy DEF NeedsTx
<1>3. {ToCaller(cur[t], "CANCEL_OK")} \in SUBSET Outputs
      /\ {ToCallee(cur[t], "CANCEL")} \in SUBSET Outputs
  BY <1>2, CallerOutput, CalleeOutput
<1>4. CASE Cancel(t)
  <2>1. RecordType'
    BY <1>2, <1>4, StampType DEF Cancel, Stamps
  <2>2. NetType' /\ TxGrow
    BY <1>2, <1>3, <1>4, EmitType, SameNet DEF Cancel
  <2> QED BY <1>1, <1>2, <1>4, <2>1, <2>2, Sending DEF Cancel, Labels, NeedsMessage, NeedsTx
<1>5. CASE CancelForward(t) \/ CancelInvited(t)
  <2>1. UNCHANGED recordVars /\ RecordType'
    BY <1>2, <1>5, SameRecord DEF CancelForward, CancelInvited
  <2>2. NetType' /\ TxGrow
    <3>1. CancelOnward(cur[t]) \in SUBSET Outputs
      BY <1>3 DEF CancelOnward
    <3> QED BY <1>2, <1>5, <3>1, EmitType, SameNet DEF CancelForward, CancelInvited
  <2>3. Done(t) \/ \E l \in {"setEnded", "cleanup"} : Goto(t, l)
    BY <1>5 DEF CancelForward, CancelInvited
  <2>4. CASE Done(t)
    BY <1>1, <2>1, <2>2, <2>4, GivingUp
  <2>5. ASSUME NEW l \in {"setEnded", "cleanup"}, Goto(t, l) PROVE IInv'
    BY <1>1, <2>1, <2>2, <2>5, Sending DEF Labels, NeedsMessage, NeedsTx
  <2> QED BY <2>3, <2>4, <2>5
<1> QED BY <1>4, <1>5

LEMMA AckStep ==
  ASSUME IInv, NEW t \in Threads, Ack(t)
  PROVE  IInv'
<1>1. /\ pc[t] = "ack" /\ Stamp(cur[t], "AckDate") /\ Remember(cur[t], "ACK")
      /\ Goto(t, "cleanup")
      /\ Emit({ToCallee(cur[t], "ACK")}) \/ UNCHANGED netVars
  BY DEF Ack
<1>2. cur[t] \in Sessions /\ HasTx(cur[t])
  BY <1>1, Busy DEF NeedsTx
<1>3. {ToCallee(cur[t], "ACK")} \in SUBSET Outputs
  BY <1>2, CalleeOutput
<1>4. NetType' /\ TxGrow /\ RecordType'
  BY <1>1, <1>3, Busy, EmitType, SameNet, StampType DEF Stamps
<1>5. ObjType' /\ Grow /\ SessionInv' /\ callId' = callId
  BY <1>1, <1>2, <1>4, Busy, Remembering DEF Remember
<1> QED BY <1>1, <1>4, <1>5, Going DEF Labels, NeedsMessage, NeedsTx

LEMMA ByeStep ==
  ASSUME IInv, NEW t \in Threads, Bye(t)
  PROVE  IInv'
<1> DEFINE s == cur[t]
<1>1. pc[t] = "bye" /\ Stamp(s, "ByeDate") /\ UNCHANGED objVars
  BY DEF Bye
<1>2. s \in Sessions /\ HasTx(s)
  BY <1>1, Busy DEF NeedsTx
<1>3. RecordType'
  BY <1>1, Busy, StampType DEF Stamps
<1>4. PICK l \in {"setEnded", "cleanup"} :
        Goto(t, l) /\ (UNCHANGED netVars \/ \E O \in SUBSET Outputs : Emit(O))
  <2>1. /\ ToCaller(s, "BYE_OK") \in Outputs /\ ToCallee(s, "BYE_OK") \in Outputs
        /\ ToCaller(s, "BYE") \in Outputs /\ ToCallee(s, "BYE") \in Outputs
    BY <1>2, CallerOutput, CalleeOutput
  <2> QED BY <2>1 DEF Bye
<1>5. NetType' /\ TxGrow
  BY <1>1, <1>4, Busy, EmitType, SameNet
<1> QED BY <1>1, <1>3, <1>4, <1>5, Sending DEF Labels, NeedsMessage, NeedsTx

LEMMA RingStep ==
  ASSUME IInv, NEW t \in Threads, Ring(t)
  PROVE  IInv'
<1>1. pc[t] = "ring" /\ Stamp(cur[t], "RingingResponseDate") /\ UNCHANGED objVars
  BY DEF Ring
<1>2. cur[t] \in Sessions /\ HasTx(cur[t]) /\ NetType
  BY <1>1, Busy DEF NeedsTx
<1>3. RecordType'
  BY <1>1, Busy, StampType DEF Stamps
<1>4. CASE Emit({ToCaller(cur[t], "RINGING")}) /\ Goto(t, "recordRinging")
  <2>1. {ToCaller(cur[t], "RINGING")} \in SUBSET Outputs
    BY <1>2, CallerOutput
  <2>2. NetType' /\ TxGrow
    BY <1>2, <1>4, <2>1, EmitType
  <2> QED BY <1>1, <1>2, <1>3, <1>4, <2>2, Sending DEF Labels, NeedsMessage, NeedsTx
<1>5. CASE Done(t) /\ UNCHANGED netVars
  BY <1>1, <1>2, <1>3, <1>5, SameNet, GivingUp
<1> QED BY <1>4, <1>5 DEF Ring

LEMMA RecordSteps ==
  ASSUME IInv, NEW t \in Threads, RecordRinging(t) \/ RecordRingTx(t) \/ RecordOk(t)
  PROVE  IInv'
<1>1. /\ pc[t] \in {"recordRinging", "recordRingTx", "recordOk"}
      /\ UNCHANGED <<recordVars, netVars>>
  BY DEF RecordRinging, RecordRingTx, RecordOk
<1>2. cur[t] \in Sessions /\ HasTx(cur[t]) /\ ThreadOK(t)
  BY <1>1, Busy DEF NeedsTx
<1>3. NetType' /\ TxGrow /\ RecordType'
  BY <1>1, Busy, SameNet, SameRecord
<1>4. CASE RecordRinging(t)
  <2>1. ObjType' /\ Grow /\ SessionInv' /\ callId' = callId /\ inviteTx' = inviteTx
    BY <1>1, <1>2, <1>3, <1>4, Busy, Remembering DEF RecordRinging, Remember
  <2>2. callId'[cur[t]] \in Calls /\ inviteTx'[cur[t]] \in Seqs
    BY <1>2, <2>1 DEF HasTx
  <2> QED BY <1>1, <1>3, <1>4, <2>1, <2>2, Going DEF RecordRinging, Labels, NeedsMessage, NeedsTx
<1>5. CASE RecordOk(t)
  <2>1. /\ ObjType' /\ Grow /\ SessionInv' /\ "OK" \in last'[cur[t]]
        /\ callId' = callId /\ inviteTx' = inviteTx
    BY <1>1, <1>2, <1>3, <1>5, Busy, Remembering DEF RecordOk, Remember
  <2>2. \E n \in Seqs : callId'[cur[t]] # NoCall /\ tx'[callId'[cur[t]]][n] = "answered"
    BY <1>1, <1>2, <1>5, <2>1 DEF RecordOk, ThreadOK, Answered, netVars
  <2>3. callId'[cur[t]] \in Calls /\ inviteTx'[cur[t]] \in Seqs
    BY <1>2, <2>1 DEF HasTx
  <2> QED BY <1>1, <1>3, <1>5, <2>1, <2>2, <2>3, Going
          DEF RecordOk, Labels, NeedsMessage, NeedsTx
<1>6. CASE RecordRingTx(t)
  <2>1. ObjType' /\ Grow /\ SessionInv' /\ callId' = callId
    BY <1>1, <1>2, <1>3, <1>6, Busy, Remembering DEF RecordRingTx, Remember
  <2> QED BY <1>1, <1>3, <1>6, <2>1, Going DEF RecordRingTx, Labels, NeedsMessage, NeedsTx
<1> QED BY <1>4, <1>5, <1>6

\* Steps that send the caller a final response.
LEMMA AnswerStep ==
  ASSUME IInv, NEW t \in Threads, Answer(t)
  PROVE  IInv'
<1>1. pc[t] = "answer" /\ Stamp(cur[t], "OkResponseDate") /\ UNCHANGED objVars
  BY DEF Answer
<1>2. cur[t] \in Sessions /\ HasTx(cur[t]) /\ NetType
  BY <1>1, Busy DEF NeedsTx
<1>3. RecordType'
  BY <1>1, Busy, StampType DEF Stamps
<1>4. CASE TxIs(cur[t], "open") /\ Final(cur[t], "OK", "answered") /\ Goto(t, "recordOk")
  <2>1. NetType' /\ TxGrow /\ tx'[callId[cur[t]]][inviteTx[cur[t]]] = "answered"
    BY <1>2, <1>4, FinalType
  <2>2. Answered(cur[t])'
    <3>1. cur' = cur /\ callId' = callId
      BY <1>1, <1>4 DEF Goto, localVars, objVars
    <3> QED BY <1>2, <2>1, <3>1, ConstantsAssumption DEF Answered, HasTx
  <2> QED BY <1>1, <1>2, <1>3, <1>4, <2>1, <2>2, Sending DEF Labels, NeedsMessage, NeedsTx
<1>5. CASE Done(t) /\ UNCHANGED netVars
  BY <1>1, <1>2, <1>3, <1>5, SameNet, GivingUp
<1> QED BY <1>4, <1>5 DEF Answer

LEMMA RefuseSteps ==
  ASSUME IInv, NEW t \in Threads, Refuse(t) \/ RefuseInvited(t)
  PROVE  IInv'
<1>1. pc[t] \in {"refuse", "refuseInvited"} /\ UNCHANGED objVars /\ UNCHANGED recordVars
  BY DEF Refuse, RefuseInvited
<1>2. cur[t] \in Sessions /\ HasTx(cur[t]) /\ NetType /\ RecordType
  BY <1>1, Busy DEF NeedsTx
<1>3. RecordType'
  BY <1>1, <1>2, SameRecord
<1>4. ASSUME TxIs(cur[t], "open"), NEW k \in {"ERR", "503"}, Final(cur[t], k, "refused"),
             NEW l \in {"setEnded", "cancelInvited"}, Goto(t, l)
      PROVE  IInv'
  <2>1. NetType' /\ TxGrow
    BY <1>2, <1>4, FinalType
  <2> QED BY <1>1, <1>2, <1>3, <1>4, <2>1, Sending DEF Labels, NeedsMessage, NeedsTx
<1>5. CASE Done(t) /\ UNCHANGED netVars
  BY <1>1, <1>2, <1>3, <1>5, SameNet, GivingUp
<1> QED BY <1>4, <1>5 DEF Refuse, RefuseInvited

LEMMA ByeBothStep ==
  ASSUME IInv, NEW t \in Threads, ByeBoth(t)
  PROVE  IInv'
<1>1. pc[t] = "byeBoth" /\ UNCHANGED objVars /\ UNCHANGED recordVars
  BY DEF ByeBoth
<1>2. cur[t] \in Sessions /\ HasTx(cur[t]) /\ NetType /\ RecordType
  BY <1>1, Busy DEF NeedsTx
<1>3. RecordType'
  BY <1>1, <1>2, SameRecord
<1>4. NetType' /\ TxGrow
  <2>1. /\ {ToCaller(cur[t], "BYE"), ToCallee(cur[t], "BYE")} \in SUBSET Outputs
        /\ {ToCaller(cur[t], "BYE")} \in SUBSET Outputs
    BY <1>2, CallerOutput, CalleeOutput
  <2> QED BY <1>2, <2>1, EmitType, SameNet DEF ByeBoth
<1>5. CASE Done(t)
  BY <1>1, <1>3, <1>4, <1>5, GivingUp
<1>6. CASE Goto(t, "cleanup")
  BY <1>1, <1>3, <1>4, <1>6, Sending DEF Labels, NeedsMessage, NeedsTx
<1> QED BY <1>5, <1>6 DEF ByeBoth

\* The steps of onCommunicationProcessed that change something.
LEMMA CloseStep ==
  ASSUME IInv, NEW t \in Threads, Close(t)
  PROVE  IInv'
<1>1. /\ pc[t] = "close" /\ Stamp(cur[t], "EndDate") /\ Goto(t, "unlist")
      /\ UNCHANGED <<state, callId, inviteTx, last, alg, listed, netVars>>
      /\ running' = [running EXCEPT ![cur[t]] = @ \ {alg[cur[t]]}]
  BY DEF Close
<1>2. NetType' /\ TxGrow /\ RecordType'
  BY <1>1, Busy, SameNet, StampType DEF Stamps
<1>3. ObjType' /\ Grow
  BY <1>1, <1>2, Busy DEF ObjType, Grow
<1>4. SessionInv'
  BY <1>1, <1>2, Busy DEF SessionInv, SessionOK, HasTx, Answered, TxGrow
<1> QED BY <1>1, <1>2, <1>3, <1>4, Going DEF Labels, NeedsMessage, NeedsTx

LEMMA UnlistStep ==
  ASSUME IInv, NEW t \in Threads, Unlist(t)
  PROVE  IInv'
<1>1. /\ pc[t] = "unlist" /\ (Goto(t, "store") \/ Done(t))
      /\ UNCHANGED <<state, callId, inviteTx, last, alg, running, recordVars, netVars>>
      /\ listed' = listed \ {cur[t]}
  BY DEF Unlist
<1>2. NetType' /\ TxGrow /\ RecordType'
  BY <1>1, Busy, SameNet, SameRecord
<1>3. ObjType' /\ Grow
  BY <1>1, <1>2, Busy DEF ObjType, Grow
<1>4. SessionInv'
  BY <1>1, <1>2, Busy DEF SessionInv, SessionOK, HasTx, Answered, TxGrow
<1>5. CASE Goto(t, "store")
  BY <1>1, <1>2, <1>3, <1>4, <1>5, Going DEF Labels, NeedsMessage, NeedsTx
<1>6. CASE Done(t)
  BY <1>1, <1>2, <1>3, <1>4, <1>6, Ending
<1> QED BY <1>1, <1>5, <1>6

LEMMA StoreSteps ==
  ASSUME IInv, NEW t \in Threads, Store(t) \/ Encode(t)
  PROVE  IInv'
<1>1. PICK l \in {"encode", "write"} : pc' = [pc EXCEPT ![t] = l]
  BY DEF Store, Encode
<1>2. /\ pc[t] \in {"store", "encode"}
      /\ UNCHANGED <<objVars, dao, history, netVars, cur, req>>
  BY DEF Store, Encode, recordVars
<1>3. cur[t] \in Sessions /\ ThreadOK(t) /\ ThreadType /\ RecordType /\ NetType
  BY <1>2, Busy
<1>4. NetType' /\ TxGrow
  BY <1>2, <1>3, SameNet
<1>5. stored' \in [Sessions -> BOOLEAN] /\ RecordType'
  BY <1>2, <1>3 DEF RecordType, Store, Encode, recordVars
<1>6. ObjType' /\ Grow /\ SessionInv'
  BY <1>2, <1>4, Busy, SameObj
<1>7. ThreadType'
  <2>1. pc' \in [Threads -> Labels]
    BY <1>1, <1>3 DEF ThreadType, Labels
  <2>2. buf' \in [Threads -> [doc : SUBSET Stamps, insert : BOOLEAN]]
    <3>1. buf[t] \in [doc : SUBSET Stamps, insert : BOOLEAN] /\ dao[cur[t]] \in SUBSET Stamps
      BY <1>3 DEF ThreadType, RecordType
    <3>2. /\ [buf[t] EXCEPT !.insert = ~stored[cur[t]]] \in [doc : SUBSET Stamps, insert : BOOLEAN]
          /\ [buf[t] EXCEPT !.doc = dao[cur[t]]] \in [doc : SUBSET Stamps, insert : BOOLEAN]
      BY <3>1
    <3>3. \E b \in [doc : SUBSET Stamps, insert : BOOLEAN] : buf' = [buf EXCEPT ![t] = b]
      BY <3>2 DEF Store, Encode
    <3> QED BY <1>3, <3>3 DEF ThreadType
  <2> QED BY <1>2, <1>3, <2>1, <2>2 DEF ThreadType
<1>8. cur' = cur /\ req' = req /\ pc'[t] = l /\ callId' = callId /\ state' = state
  BY <1>1, <1>2, <1>3 DEF ThreadType, objVars
<1>9. ThreadOK(t)'
  BY <1>2, <1>3, <1>8 DEF ThreadOK, NeedsMessage, NeedsTx
<1>10. Local(t)
  BY <1>1, <1>2, <1>3, <1>8 DEF Local, ThreadType
<1> QED BY <1>4, <1>5, <1>6, <1>7, <1>9, <1>10, Frame DEF Typed

LEMMA WriteStep ==
  ASSUME IInv, NEW t \in Threads, Write(t)
  PROVE  IInv'
<1>1. /\ pc[t] = "write" /\ Done(t) /\ UNCHANGED <<objVars, dao, stored, netVars>>
      /\ history' = [history EXCEPT ![cur[t]] =
                       IF buf[t].insert <=> @ = {} THEN buf[t].doc ELSE @]
  BY DEF Write
<1>2. NetType' /\ TxGrow
  BY <1>1, Busy, SameNet
<1>3. RecordType'
  <2>1. buf[t].doc \in SUBSET Stamps
    BY <1>1, Busy DEF ThreadType
  <2> QED BY <1>1, <2>1, Busy DEF RecordType
<1> QED BY <1>1, <1>2, <1>3, GivingUp

------------------------------------------------------------------------------
(* The steps that give a thread something to do.                            *)

LEMMA AdmitStep ==
  ASSUME IInv, NEW t \in Threads, Admit(t)
  PROVE  IInv'
<1>1. PICK s \in Sessions :
        /\ state[s] = "none"
        /\ state' = [state EXCEPT ![s] = "STARTED"]
        /\ listed' = listed \cup {s}
        /\ cur' = [cur EXCEPT ![t] = s]
  BY DEF Admit
<1>2. /\ pc[t] = "admit" /\ pc' = [pc EXCEPT ![t] = "entry"]
      /\ UNCHANGED <<callId, inviteTx, last, alg, running, recordVars, netVars, req, buf>>
  BY DEF Admit
<1>3. ObjType /\ RecordType /\ NetType /\ ThreadType /\ SessionInv /\ ThreadOK(t)
  BY DEF IInv, Typed, ThreadInv
<1>4. NetType' /\ TxGrow /\ RecordType'
  BY <1>2, <1>3, SameNet, SameRecord
<1>5. ObjType' /\ Grow
  BY <1>1, <1>2, <1>3, <1>4 DEF ObjType, Grow, States
<1>6. SessionInv'
  BY <1>1, <1>2, <1>3, <1>4 DEF ObjType, SessionInv, SessionOK, HasTx, Answered, TxGrow
<1>7. ThreadType'
  BY <1>1, <1>2, <1>3 DEF ThreadType, Labels
<1>8. cur'[t] = s /\ pc'[t] = "entry" /\ req'[t] = req[t] /\ req[t] \in Messages
  BY <1>1, <1>2, <1>3 DEF ThreadType, ThreadOK, NeedsMessage, Labels
<1>9. \A u \in Threads : cur[u] # s
  BY <1>1 DEF IInv, ThreadInv, ThreadOK
<1>10. callId[s] = NoCall
  BY <1>1, <1>3 DEF SessionInv, SessionOK
<1>11. s # 0 /\ state'[s] = "STARTED" /\ callId'[s] = NoCall
  BY <1>1, <1>2, <1>3, <1>10, NotIds DEF ObjType
<1>12. ThreadOK(t)'
  BY <1>8, <1>11 DEF ThreadOK, NeedsMessage, NeedsTx
<1>13. Local(t)
  BY <1>1, <1>2, <1>3, <1>9 DEF Local, ThreadType
<1> QED BY <1>4, <1>5, <1>6, <1>7, <1>12, <1>13, Frame DEF Typed

LEMMA TurnAwayStep ==
  ASSUME IInv, NEW t \in Threads, NEW v \in Verdicts, TurnAway(t, v)
  PROVE  IInv'
<1> DEFINE c == req[t].call
           n == req[t].seq
<1>1. pc[t] = "admit" /\ Done(t) /\ UNCHANGED <<sent, net, objVars, recordVars>>
  BY DEF TurnAway
<1>2. ObjType /\ RecordType /\ NetType /\ ThreadType /\ SessionInv /\ ThreadOK(t)
  BY DEF IInv, Typed, ThreadInv
<1>3. c \in Calls /\ n \in Seqs
  BY <1>1, <1>2, MessageFields DEF ThreadOK, NeedsMessage, Labels
<1>4. NetType' /\ TxGrow
  <2>1. CASE UNCHANGED <<tx, out>>
    BY <1>1, <1>2, <2>1, SameNet DEF netVars
  <2>2. ASSUME tx[c][n] = "none", tx' = [tx EXCEPT ![c][n] = "refused"],
               NEW k \in {"CHALLENGE", "REJECT"},
               out' = out \cup {Output("caller", k, c, n)}
        PROVE  NetType' /\ TxGrow
    <3>1. Output("caller", k, c, n) \in Outputs
      BY <1>3 DEF Output, Outputs
    <3>2. tx' \in [Calls -> [Seqs -> {"none", "open", "answered", "refused"}]]
      BY <1>2, <1>3, <2>2 DEF NetType
    <3>3. TxGrow
      BY <1>2, <1>3, <2>2 DEF NetType, TxGrow
    <3> QED BY <1>1, <1>2, <2>2, <3>1, <3>2, <3>3 DEF NetType
  <2> QED BY <2>1, <2>2 DEF TurnAway
<1>5. RecordType' /\ ThreadType'
  BY <1>1, <1>2, SameRecord, DoneType
<1>6. ObjType' /\ Grow /\ SessionInv'
  BY <1>1, <1>2, <1>4, SameObj
<1>7. cur'[t] = 0 /\ req'[t] = NoMsg /\ pc'[t] = "idle"
  BY <1>1, <1>2 DEF Done, ThreadType
<1>8. ThreadOK(t)'
  BY <1>7, NotIds DEF ThreadOK, NeedsMessage, NeedsTx
<1>9. Local(t)
  BY <1>1, <1>2, <1>7, NotIds DEF Local, Done, ThreadType, objVars
<1> QED BY <1>4, <1>5, <1>6, <1>8, <1>9, Frame DEF Typed

\* A thread takes a message for a session that has its Call-ID, or for none.
LEMMA Taking ==
  ASSUME IInv, NEW t \in Threads, NEW m \in Messages, NEW s \in Sessions \cup {0},
         NEW l \in {"entry", "dispatch", "response", "admit"},
         s = 0 <=> l = "admit", s \in Sessions => s \in listed /\ callId[s] = m.call,
         net' = net \ {m}, UNCHANGED <<tx, sent, out, objVars, recordVars, buf>>,
         cur' = [cur EXCEPT ![t] = s], pc' = [pc EXCEPT ![t] = l],
         req' = [req EXCEPT ![t] = m]
  PROVE  IInv'
<1>1. ObjType /\ RecordType /\ NetType /\ ThreadType /\ SessionInv
  BY DEF IInv, Typed
<1>2. NetType' /\ TxGrow /\ RecordType'
  BY <1>1, SameRecord DEF NetType, TxGrow
<1>3. ObjType' /\ Grow /\ SessionInv'
  BY <1>1, <1>2, SameObj
<1>4. ThreadType'
  BY <1>1 DEF ThreadType, Labels
<1>5. cur'[t] = s /\ pc'[t] = l /\ req'[t] = m /\ callId' = callId /\ state' = state
  BY <1>1 DEF ThreadType, objVars
<1>6. s \in Sessions => state[s] # "none" /\ callId[s] # NoCall
  BY <1>1, MessageFields, ConstantsAssumption DEF SessionInv, SessionOK
<1>7. ThreadOK(t)'
  BY <1>5, <1>6, NotIds DEF ThreadOK, NeedsTx
<1>8. Local(t)
  BY <1>1, <1>5, <1>6, NotIds DEF Local, ThreadType
<1> QED BY <1>2, <1>3, <1>4, <1>7, <1>8, Frame DEF Typed

\* Steps that change the messages in flight and nothing else.
LEMMA NetOnly ==
  ASSUME IInv, NetType', TxGrow,
         UNCHANGED <<objVars, recordVars, pc, localVars>>
  PROVE  IInv'
<1>1. ObjType' /\ Grow /\ RecordType' /\ ThreadType' /\ SessionInv'
  BY SameObj, SameRecord DEF IInv, Typed, ThreadType, localVars
<1>2. ASSUME NEW t \in Threads PROVE ThreadOK(t)'
  <2>1. ThreadOK(t) /\ cur[t] \in Sessions \cup {0} /\ pc[t] \in Labels
    BY DEF IInv, Typed, ThreadType, ThreadInv
  <2>2. UNCHANGED <<pc, cur, req, state, callId, inviteTx, last>>
    BY DEF objVars, localVars
  <2>3. \A s \in Sessions : Answered(s) => Answered(s)'
    BY <1>1, AnsweredGrows DEF IInv, Typed
  <2>4. CASE cur[t] \in Sessions
    <3>1. Answered(cur[t]) => Answered(cur[t])'
      BY <2>2, <2>3, <2>4 DEF Answered
    <3>2. HasTx(cur[t]) => HasTx(cur[t])'
      BY <2>2 DEF HasTx
    <3> QED BY <2>1, <2>2, <3>1, <3>2 DEF ThreadOK
  <2>5. CASE cur[t] = 0
    BY <2>1, <2>2, <2>5, NotIds DEF ThreadOK, NeedsTx
  <2> QED BY <2>1, <2>4, <2>5
<1>3. OwnerInv'
  BY DEF IInv, OwnerInv, objVars, localVars
<1> QED BY <1>1, <1>2, <1>3 DEF IInv, Typed, ThreadInv

LEMMA ReceiveSteps ==
  ASSUME IInv, NEW t \in Workers, NEW m \in net,
         ReceiveRequest(t, m) \/ ReceiveResponse(t, m)
  PROVE  IInv'
<1>1. t \in Threads /\ m \in Messages /\ pc[t] = "idle" /\ cur[t] = 0 /\ ThreadType
  BY DEF Threads, IInv, Typed, NetType, ThreadInv, ThreadOK, ReceiveRequest, ReceiveResponse
<1>2. net' = net \ {m} /\ UNCHANGED <<tx, sent, out, objVars, recordVars, buf>>
  BY DEF ReceiveRequest, ReceiveResponse
<1>3. CASE UNCHANGED <<pc, cur, req>>
  <2>1. NetType' /\ TxGrow
    BY <1>2 DEF IInv, Typed, NetType, TxGrow
  <2> QED BY <1>2, <1>3, <2>1, NetOnly DEF localVars
<1>4. ASSUME NEW s \in Sessions, NEW l \in {"entry", "dispatch", "response"},
             s \in listed, callId[s] = m.call, cur' = [cur EXCEPT ![t] = s],
             pc' = [pc EXCEPT ![t] = l], req' = [req EXCEPT ![t] = m]
      PROVE  IInv'
  BY <1>1, <1>2, <1>4, NotIds, Taking
<1>5. CASE pc' = [pc EXCEPT ![t] = "admit"] /\ req' = [req EXCEPT ![t] = m] /\ UNCHANGED cur
  <2>1. cur' = [cur EXCEPT ![t] = 0]
    BY <1>1, <1>5 DEF ThreadType
  <2> QED BY <1>1, <1>2, <1>5, <2>1, NotIds, Taking
<1>6. CASE ReceiveRequest(t, m)
  BY <1>3, <1>4, <1>5, <1>6 DEF ReceiveRequest, OpenSessions, IsFirst
<1>7. CASE ReceiveResponse(t, m)
  BY <1>3, <1>4, <1>7 DEF ReceiveResponse, IsFirst
<1> QED BY <1>6, <1>7

LEMMA TerminateStart ==
  ASSUME IInv, NEW t \in Threads, NEW s \in Sessions, Terminate(t, s)
  PROVE  IInv'
<1>1. ObjType /\ RecordType /\ NetType /\ ThreadType /\ SessionInv /\ ThreadOK(t) /\ SessionOK(s)
  BY DEF IInv, Typed, ThreadInv, SessionInv
<1>2. PICK l \in {"endInvited", "endEstablished", "cleanup"} :
        /\ pc' = [pc EXCEPT ![t] = l]
        /\ l = "endInvited" => state[s] = "INVITED"
        /\ l = "endEstablished" => state[s] = "ESTABLISHED"
  BY DEF Terminate
<1>3. /\ pc[t] = "idle" /\ s \in listed /\ cur' = [cur EXCEPT ![t] = s]
      /\ UNCHANGED <<objVars, recordVars, netVars, req, buf>>
  BY DEF Terminate
<1>4. NetType' /\ TxGrow /\ RecordType'
  BY <1>1, <1>3, SameNet, SameRecord
<1>5. ObjType' /\ Grow /\ SessionInv'
  BY <1>1, <1>3, <1>4, SameObj
<1>6. ThreadType'
  BY <1>1, <1>2, <1>3 DEF ThreadType, Labels
<1>7. /\ cur'[t] = s /\ pc'[t] = l /\ req'[t] = NoMsg
      /\ callId' = callId /\ inviteTx' = inviteTx /\ state' = state
  BY <1>1, <1>2, <1>3 DEF ThreadType, ThreadOK, objVars
<1>8. state[s] # "none" /\ (l \in NeedsTx => HasTx(s))
  BY <1>1, <1>2, <1>3 DEF SessionOK, NeedsTx
<1>9. ThreadOK(t)'
  BY <1>7, <1>8, ConstantsAssumption DEF ThreadOK, NeedsMessage, HasTx
<1>10. Local(t)
  BY <1>1, <1>2, <1>3, <1>7, ConstantsAssumption DEF Local, ThreadType
<1> QED BY <1>4, <1>5, <1>6, <1>9, <1>10, Frame DEF Typed

LEMMA UserAgentsStep ==
  ASSUME IInv, UserAgents
  PROVE  IInv'
<1>1. PICK m \in Messages : Send(m)
  <2>1. ASSUME NEW k \in RequestKinds \cup ResponseKinds, NEW c \in Calls, NEW n \in Seqs
        PROVE  Message(k, c, n) \in Messages
    BY ConstantsAssumption DEF Message, Messages
  <2>2. ASSUME NEW c \in Calls, NEW n \in Seqs, NEW k \in 1..MaxCopies
        PROVE  [Message("INVITE", c, n) EXCEPT !.copy = k] \in Messages
    BY DEF Message, Messages, RequestKinds
  <2>3. 1 \in Seqs
    BY ConstantsAssumption DEF Seqs
  <2> QED BY <2>1, <2>2, <2>3, ZenonT(40)
          DEF UserAgents, CallerHangsUp, CalleeHangsUp, CallerInvites, CallerCancels,
              CallerAcks, CalleeRings, CallerRetransmits, CalleeAnswers, CalleeReplies,
              RequestKinds, ResponseKinds
<1>2. NetType' /\ TxGrow
  BY <1>1 DEF Send, IInv, Typed, NetType, TxGrow
<1> QED BY <1>1, <1>2, NetOnly DEF Send

------------------------------------------------------------------------------
(* The theorems.                                                            *)

LEMMA InitInv == Init => IInv
<1> SUFFICES ASSUME Init PROVE IInv
  OBVIOUS
<1>1. Typed
  BY DEF Init, Typed, ObjType, RecordType, NetType, ThreadType, EmptyBuf, States, Labels
<1>2. ThreadInv
  BY NotIds DEF Init, ThreadInv, ThreadOK, NeedsMessage, NeedsTx
<1>3. OwnerInv
  BY NotIds DEF Init, OwnerInv
<1>4. SessionInv
  BY DEF Init, SessionInv, SessionOK
<1> QED BY <1>1, <1>2, <1>3, <1>4 DEF IInv

LEMMA NextInv == IInv /\ [Next]_vars => IInv'
<1> SUFFICES ASSUME IInv, [Next]_vars PROVE IInv'
  OBVIOUS
<1>1. CASE UserAgents
  BY <1>1, UserAgentsStep
<1>2. CASE \E w \in Workers, m \in net : ReceiveRequest(w, m) \/ ReceiveResponse(w, m)
  BY <1>2, ReceiveSteps
<1>3. CASE \E a \in Admins, s \in Sessions : Terminate(a, s)
  BY <1>3, TerminateStart DEF Threads
<1>4. ASSUME NEW t \in Threads, ThreadStep(t) PROVE IInv'
  <2>1. CASE RequestStep(t)
    BY <2>1, AdmitStep, TurnAwayStep, EntryStep, StateSteps, DispatchStep, OpenTxStep,
       SdpStep, ForwardStep, TryingStep, CancelSteps, AckStep, ByeStep DEF RequestStep
  <2>2. CASE ResponseStep(t)
    BY <2>2, ResponseStepInv, RingStep, RecordSteps, AnswerStep, StateSteps, RefuseSteps
       DEF ResponseStep
  <2>3. CASE CleanupStep(t)
    BY <2>3, CleanupStepInv, CloseStep, UnlistStep, StoreSteps, WriteStep DEF CleanupStep
  <2>4. CASE TerminateStep(t)
    BY <2>4, StateSteps, RefuseSteps, CancelSteps, ByeBothStep DEF TerminateStep
  <2> QED BY <1>4, <2>1, <2>2, <2>3, <2>4 DEF ThreadStep
<1>5. CASE UNCHANGED vars
  <2>1. UNCHANGED <<objVars, recordVars, netVars, pc, localVars>>
    BY <1>5 DEF vars
  <2>2. NetType' /\ TxGrow
    BY <2>1, SameNet DEF IInv, Typed
  <2> QED BY <2>1, <2>2, NetOnly
<1> QED BY <1>1, <1>2, <1>3, <1>4, <1>5 DEF Next

LEMMA AlwaysIInv == Spec => []IInv
BY InitInv, NextInv, PTL DEF Spec

\* Every variable keeps its type, whatever the messages, their order, the
\* threads that handle them and the failures (SipSession.java, the session half
\* of SipProviderListener.java).
THEOREM TypeCorrect == Spec => []TypeOK
<1>1. IInv => TypeOK
  BY DEF IInv, TypeOK, SessionInv, SessionOK
<1> QED BY <1>1, AlwaysIInv, PTL

\* An ESTABLISHED session has answered its caller and recorded the callee's 200
\* (SipSession.java:460-463), although any thread may write the state at any time.
THEOREM EstablishedAnswered == Spec => []EstablishedWasAnswered
<1>1. IInv => EstablishedWasAnswered
  BY DEF IInv, SessionInv, SessionOK, EstablishedWasAnswered
<1> QED BY <1>1, AlwaysIInv, PTL

------------------------------------------------------------------------------
(* A 180 is half recorded only while the thread that records it stands      *)
(* between its two assignments.                                             *)

RecordsRinging(u, s) == pc[u] = "recordRingTx" /\ cur[u] = s
HalfInv == \A s \in Sessions : HalfRung(s) => \E u \in Threads : RecordsRinging(u, s)

\* A step of t that records neither half of a 180 and is not due to record one.
Keeps(t) ==
  /\ pc[t] # "recordRingTx"
  /\ \A s \in Sessions : HalfRung(s)' => HalfRung(s)
  /\ \A u \in Threads \ {t} : pc'[u] = pc[u] /\ cur'[u] = cur[u]

LEMMA Keeping ==
  ASSUME HalfInv, NEW t \in Threads, Keeps(t)
  PROVE  HalfInv'
BY DEF HalfInv, Keeps, RecordsRinging

LEMMA OthersStay ==
  ASSUME ThreadType, NEW t \in Threads, Done(t) \/ \E l \in Labels : Goto(t, l)
  PROVE  \A u \in Threads \ {t} : pc'[u] = pc[u] /\ cur'[u] = cur[u]
BY DEF ThreadType, Done, Goto, localVars

\* Steps that leave what has been recorded alone.
LEMMA SameLast ==
  ASSUME HalfInv, ThreadType, NEW t \in Threads, pc[t] # "recordRingTx", UNCHANGED last,
         Done(t) \/ \E l \in Labels : Goto(t, l)
  PROVE  HalfInv'
BY OthersStay, Keeping DEF Keeps, HalfRung

\* Steps that record something else.
LEMMA OtherRecord ==
  ASSUME HalfInv, ThreadType, ObjType, NEW t \in Threads, pc[t] # "recordRingTx",
         NEW k \in {"OK", "ACK"}, Remember(cur[t], k), \E l \in Labels : Goto(t, l)
  PROVE  HalfInv'
<1>1. \A s \in Sessions : HalfRung(s)' => HalfRung(s)
  BY DEF ObjType, Remember, HalfRung
<1> QED BY <1>1, OthersStay, Keeping DEF Keeps

LEMMA RequestHalf ==
  ASSUME IInv, HalfInv, NEW t \in Threads, RequestStep(t)
  PROVE  HalfInv'
<1>1. ThreadType /\ ObjType
  BY DEF IInv, Typed
<1>2. CASE Admit(t)
  <2>1. Keeps(t)
    BY <1>1, <1>2 DEF Admit, Keeps, ThreadType, HalfRung
  <2> QED BY <2>1, Keeping
<1>3. CASE \E v \in Verdicts : TurnAway(t, v)
  BY <1>1, <1>3, SameLast DEF TurnAway, objVars
<1>4. CASE Ack(t)
  BY <1>1, <1>4, OtherRecord DEF Ack, Labels
<1>5. CASE Entry(t) \/ Reopen(t) \/ Dispatch(t) \/ OpenTx(t) \/ Sdp(t) \/ Forward(t)
  <2>1. UNCHANGED last /\ pc[t] # "recordRingTx"
    BY <1>5 DEF Entry, Reopen, Dispatch, OpenTx, Sdp, Forward, SetState, objVars
  <2>2. \E l \in Labels : Goto(t, l)
    BY <1>5 DEF Entry, Reopen, Dispatch, OpenTx, Sdp, Forward, Labels
  <2> QED BY <1>1, <2>1, <2>2, SameLast
<1>6. CASE \/ Trying(t) \/ SetInvited(t) \/ Cancel(t) \/ CancelForward(t) \/ Bye(t)
           \/ SetEnded(t)
  <2>1. UNCHANGED last /\ pc[t] # "recordRingTx"
    BY <1>6 DEF Trying, SetInvited, Cancel, CancelForward, Bye, SetEnded, SetState, objVars
  <2>2. \E l \in Labels : Goto(t, l)
    BY <1>6 DEF Trying, SetInvited, Cancel, CancelForward, Bye, SetEnded, Labels
  <2> QED BY <1>1, <2>1, <2>2, SameLast
<1> QED BY <1>2, <1>3, <1>4, <1>5, <1>6 DEF RequestStep

LEMMA ResponseHalf ==
  ASSUME IInv, HalfInv, NEW t \in Threads, ResponseStep(t)
  PROVE  HalfInv'
<1>1. ThreadType /\ ObjType
  BY DEF IInv, Typed
<1>2. CASE RecordRinging(t)
  <2>1. pc'[t] = "recordRingTx" /\ cur'[t] = cur[t]
    BY <1>1, <1>2 DEF RecordRinging, Goto, localVars, ThreadType
  <2>2. \A u \in Threads \ {t} : pc'[u] = pc[u] /\ cur'[u] = cur[u]
    BY <1>1, <1>2, OthersStay DEF RecordRinging, Labels
  <2>3. pc[t] = "recordRinging" /\ \A s \in Sessions : s # cur[t] /\ HalfRung(s)' => HalfRung(s)
    BY <1>1, <1>2 DEF RecordRinging, Remember, HalfRung, ObjType
  <2> QED BY <2>1, <2>2, <2>3 DEF HalfInv, RecordsRinging
<1>3. CASE RecordRingTx(t)
  <2>1. ~HalfRung(cur[t])' /\ \A s \in Sessions : HalfRung(s)' => HalfRung(s)
    BY <1>1, <1>3, Busy DEF RecordRingTx, Goto, localVars, Remember, HalfRung, ObjType
  <2>2. \A u \in Threads \ {t} : pc'[u] = pc[u] /\ cur'[u] = cur[u]
    BY <1>1, <1>3, OthersStay DEF RecordRingTx, Labels
  <2>3. cur' = cur
    BY <1>3 DEF RecordRingTx, Goto, localVars
  <2> QED BY <2>1, <2>2, <2>3 DEF HalfInv, RecordsRinging
<1>4. CASE RecordOk(t)
  BY <1>1, <1>4, OtherRecord DEF RecordOk, Labels
<1>5. CASE Response(t) \/ Ring(t) \/ Answer(t) \/ SetEstablished(t) \/ Refuse(t)
  <2>1. UNCHANGED last /\ pc[t] # "recordRingTx"
    BY <1>5 DEF Response, Ring, Answer, SetEstablished, Refuse, SetState, objVars
  <2>2. Done(t) \/ \E l \in Labels : Goto(t, l)
    BY <1>5 DEF Response, Ring, Answer, SetEstablished, Refuse, Labels
  <2> QED BY <1>1, <2>1, <2>2, SameLast
<1> QED BY <1>2, <1>3, <1>4, <1>5 DEF ResponseStep

LEMMA EndHalf ==
  ASSUME IInv, HalfInv, NEW t \in Threads, CleanupStep(t) \/ TerminateStep(t)
  PROVE  HalfInv'
<1>1. ThreadType /\ ObjType
  BY DEF IInv, Typed
<1>2. CASE Store(t) \/ Encode(t)
  <2>1. Keeps(t)
    BY <1>1, <1>2 DEF Store, Encode, Keeps, ThreadType, HalfRung, objVars
  <2> QED BY <2>1, Keeping
<1>3. CASE Cleanup(t) \/ Close(t) \/ Unlist(t) \/ Write(t)
  <2>1. UNCHANGED last /\ pc[t] # "recordRingTx"
    BY <1>3 DEF Cleanup, Close, Unlist, Write, objVars
  <2>2. Done(t) \/ \E l \in Labels : Goto(t, l)
    BY <1>3 DEF Cleanup, Close, Unlist, Write, Labels
  <2> QED BY <1>1, <2>1, <2>2, SameLast
<1>4. CASE TerminateStep(t)
  <2>1. UNCHANGED last /\ pc[t] # "recordRingTx"
    BY <1>4 DEF TerminateStep, EndInvited, RefuseInvited, CancelInvited, EndEstablished,
                ByeBoth, SetState, objVars
  <2>2. Done(t) \/ \E l \in Labels : Goto(t, l)
    BY <1>4 DEF TerminateStep, EndInvited, RefuseInvited, CancelInvited, EndEstablished,
                ByeBoth, Labels
  <2> QED BY <1>1, <2>1, <2>2, SameLast
<1> QED BY <1>2, <1>3, <1>4 DEF CleanupStep

LEMMA AgentsOnly == UserAgents => UNCHANGED <<last, pc, cur>>
<1>1. ASSUME NEW m, Send(m) PROVE UNCHANGED <<last, pc, cur>>
  BY <1>1 DEF Send, objVars, localVars
<1> QED
  BY <1>1, ZenonT(40)
     DEF UserAgents, CallerHangsUp, CalleeHangsUp, CallerInvites, CallerCancels, CallerAcks,
         CalleeRings, CallerRetransmits, CalleeAnswers, CalleeReplies

LEMMA HalfNext == IInv /\ HalfInv /\ [Next]_vars => HalfInv'
<1> SUFFICES ASSUME IInv, HalfInv, [Next]_vars PROVE HalfInv'
  OBVIOUS
<1>1. CASE UserAgents \/ UNCHANGED vars
  <2>1. UNCHANGED <<last, pc, cur>>
    BY <1>1, AgentsOnly DEF vars, objVars, localVars
  <2> QED BY <2>1 DEF HalfInv, HalfRung, RecordsRinging
<1>2. ASSUME NEW w \in Workers, NEW m \in net, ReceiveRequest(w, m) \/ ReceiveResponse(w, m)
      PROVE  HalfInv'
  <2>1. Keeps(w)
    BY <1>2 DEF ReceiveRequest, ReceiveResponse, Keeps, HalfRung, IInv, Typed, ThreadType, objVars
  <2> QED BY <2>1, Keeping DEF Threads
<1>3. ASSUME NEW a \in Admins, NEW s \in Sessions, Terminate(a, s) PROVE HalfInv'
  <2>1. Keeps(a)
    BY <1>3 DEF Terminate, Keeps, HalfRung, IInv, Typed, ThreadType, objVars
  <2> QED BY <2>1, Keeping DEF Threads
<1> QED BY <1>1, <1>2, <1>3, RequestHalf, ResponseHalf, EndHalf DEF Next, ThreadStep

LEMMA AlwaysHalfInv == Spec => []HalfInv
<1>1. Init => HalfInv
  BY DEF Init, HalfInv, HalfRung
<1> QED BY <1>1, HalfNext, AlwaysIInv, PTL DEF Spec

\* No handler reaches a statement that dereferences the server transaction, the
\* recorded 200 or the Call-ID of its session before these are set: what the
\* state told the thread when it entered the switch stays true, although other
\* threads may have changed the state since.  A CANCEL or terminate meets a 180
\* without its client transaction only between SipSession.java:451 and 452.
THEOREM HandlersAreSafe == Spec => []NoNullDereference
<1>1. ASSUME IInv, HalfInv PROVE NoNullDereference
  <2> SUFFICES ASSUME NEW t \in Threads
               PROVE  /\ pc[t] \in {"cancel", "cancelForward", "ring", "answer", "refuse",
                                     "refuseInvited", "cancelInvited"} =>
                            callId[cur[t]] # NoCall /\ inviteTx[cur[t]] # 0
                      /\ pc[t] \in {"ack", "bye"} => "OK" \in last[cur[t]]
                      /\ pc[t] \in {"cancelForward", "cancelInvited"} => cur[t] \in Sessions
    BY <1>1 DEF NoNullDereference, HalfInv, RecordsRinging
  <2>1. ThreadOK(t)
    BY <1>1 DEF IInv, ThreadInv
  <2>2. \A s : HasTx(s) => callId[s] # NoCall /\ inviteTx[s] # 0
    BY NotIds, ConstantsAssumption DEF HasTx
  <2> QED BY <2>1, <2>2 DEF ThreadOK, NeedsTx
<1> QED BY <1>1, AlwaysIInv, AlwaysHalfInv, PTL

==============================================================================
