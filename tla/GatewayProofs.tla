---------------------------- MODULE GatewayProofs ----------------------------
(****************************************************************************)
(* Proofs about the ports of AlgPool, for any number of channels, ports and *)
(* packets, and about Recording, which adds recordings to the gateway and   *)
(* takes nothing away.                                                      *)
(*                                                                          *)
(* The argument: which ports a channel holds follows from how far start and *)
(* the two threads have come, and every step that moves one of these opens  *)
(* or closes exactly what it should.  Neither the list of the provider nor  *)
(* whether the channel is active has a part in it.                          *)
(*                                                                          *)
(* A channel that runs stays in the list, as whatever takes it off has made *)
(* it inactive; a stop that did so too early is the one that may not have.  *)
(* The search for ports, the threads and the list keep their types.         *)
(*                                                                          *)
(* Of a recording, a track is a function of the packets it was handed: as   *)
(* long as all are kept it has what was said in each, in their order.       *)
(* Without a gap the i-th of them was said i - 1 samples after the first,   *)
(* which the shift of the mix is made for.                                  *)
(****************************************************************************)
EXTENDS Recording, WellFoundedInduction, SequenceTheorems, TLAPS

Kinds == {"rtp", "rtcp"}

\* The ports of the fields that a thread that has died has not closed.
Held(c) == {p \in Ports : \/ p = rtp[c] /\ thread["rtp"][c] # "dead"
                          \/ p = rtcp[c] /\ thread["rtcp"][c] # "dead"}

PoolType ==
  /\ start \in [Channels -> StartSteps]
  /\ port \in [Channels -> Nat]
  /\ rtp \in [Channels -> Ports \cup {0}] /\ rtcp \in [Channels -> Ports \cup {0}]
  /\ bound \in [Channels -> SUBSET Ports]
  /\ thread \in [Kinds -> [Channels -> ThreadSteps]]

ThreadsOK(c) ==
  /\ thread["rtp"][c] # "none" <=> start[c] \in {"spawnRtcp", "done"}
  /\ thread["rtcp"][c] # "none" <=> start[c] = "done"

PortsOK(c) ==
  /\ start[c] \in {"none", "begin", "rtp"} => bound[c] = {}
  /\ start[c] = "rtcp" => rtp[c] = port[c] /\ rtp[c] \in Ports /\ bound[c] = {rtp[c]}
  /\ start[c] \in {"activate", "spawnRtp", "spawnRtcp", "done"} =>
       /\ rtp[c] \in Ports /\ rtcp[c] = rtp[c] + 1 /\ rtcp[c] \in Ports
       /\ bound[c] = Held(c)

ChannelOK(c) == ThreadsOK(c) /\ PortsOK(c)

PInv == PoolType /\ \A c \in Channels : ChannelOK(c)

\* What the invariant speaks of.
portVars == <<start, port, rtp, rtcp, bound, thread>>

------------------------------------------------------------------------------
LEMMA PortNumbers == Ports \subseteq Nat \ {0} /\ 0 \notin Ports
BY ConstantsAssumption DEF Ports

LEMMA InitPInv == Init => PInv
BY DEF Init, PInv, PoolType, ChannelOK, ThreadsOK, PortsOK, Kinds, StartSteps, ThreadSteps

LEMMA Unmoved == PInv /\ UNCHANGED portVars => PInv'
BY DEF PInv, PoolType, ChannelOK, ThreadsOK, PortsOK, Held, portVars

\* A step of one channel leaves what the others rely on.
LEMMA OthersKeep ==
  ASSUME PInv, NEW c \in Channels, PoolType', ChannelOK(c)',
         \A d \in Channels \ {c} :
           /\ start'[d] = start[d] /\ port'[d] = port[d] /\ bound'[d] = bound[d]
           /\ rtp'[d] = rtp[d] /\ rtcp'[d] = rtcp[d]
           /\ \A k \in Kinds : thread'[k][d] = thread[k][d]
  PROVE  PInv'
<1> SUFFICES ASSUME NEW d \in Channels \ {c} PROVE ChannelOK(d)'
  BY DEF PInv
<1>1. ChannelOK(d) /\ "rtp" \in Kinds /\ "rtcp" \in Kinds
  BY DEF PInv, Kinds
<1>2. Held(d)' = Held(d)
  BY <1>1 DEF Held
<1> QED BY <1>1, <1>2 DEF ChannelOK, ThreadsOK, PortsOK

\* What a step does that moves a thread, and one that moves start.
LEMMA MovesThread ==
  ASSUME PoolType, NEW c \in Channels, NEW k \in Kinds, NEW s \in ThreadSteps, Moves(c, k, s)
  PROVE  /\ thread' \in [Kinds -> [Channels -> ThreadSteps]]
         /\ thread'[k][c] = s
         /\ \A j \in Kinds, d \in Channels : j # k \/ d # c => thread'[j][d] = thread[j][d]
BY DEF PoolType, Moves

LEMMA MovesStart ==
  ASSUME PoolType, NEW c \in Channels, NEW s \in StartSteps, Begins(c, s)
  PROVE  /\ start' \in [Channels -> StartSteps]
         /\ start'[c] = s
         /\ \A d \in Channels \ {c} : start'[d] = start[d]
BY DEF PoolType, Begins

------------------------------------------------------------------------------
(* The steps of start.                                                      *)

LEMMA NewChannelPorts ==
  ASSUME PInv, NEW c \in Channels, NewChannel(c) PROVE PInv'
<1>1. PoolType /\ ChannelOK(c) /\ start[c] = "none" /\ Begins(c, "begin")
      /\ UNCHANGED <<port, rtp, rtcp, bound, thread>>
  BY DEF PInv, NewChannel, chanVars
<1>2. /\ start' \in [Channels -> StartSteps] /\ start'[c] = "begin"
      /\ \A d \in Channels \ {c} : start'[d] = start[d]
  BY <1>1, MovesStart DEF StartSteps
<1>3. PoolType'
  BY <1>1, <1>2 DEF PoolType
<1>4. ChannelOK(c)'
  BY <1>1, <1>2 DEF ChannelOK, ThreadsOK, PortsOK
<1> QED BY <1>1, <1>2, <1>3, <1>4, OthersKeep

LEMMA StartPorts ==
  ASSUME PInv, NEW c \in Channels, Start(c) PROVE PInv'
<1>1. PoolType /\ ChannelOK(c) /\ start[c] = "begin" /\ Begins(c, "rtp")
      /\ UNCHANGED <<rtp, rtcp, bound, thread>>
  BY DEF PInv, Start
<1>2. /\ start' \in [Channels -> StartSteps] /\ start'[c] = "rtp"
      /\ \A d \in Channels \ {c} : start'[d] = start[d]
  BY <1>1, MovesStart DEF StartSteps
<1>3. /\ port' \in [Channels -> Nat]
      /\ \A d \in Channels \ {c} : port'[d] = port[d]
  <2>1. PICK p \in Starts : port' = [port EXCEPT ![c] = p]
    BY DEF Start
  <2>2. p \in Nat
    BY ConstantsAssumption, PortNumbers
  <2> QED BY <1>1, <2>1, <2>2 DEF PoolType
<1>4. PoolType'
  BY <1>1, <1>2, <1>3 DEF PoolType
<1>5. ChannelOK(c)'
  BY <1>1, <1>2 DEF ChannelOK, ThreadsOK, PortsOK
<1> QED BY <1>1, <1>2, <1>3, <1>4, <1>5, OthersKeep

LEMMA BindRtpPorts ==
  ASSUME PInv, NEW c \in Channels, BindRtp(c) PROVE PInv'
<1>1. PoolType /\ ChannelOK(c) /\ start[c] = "rtp" /\ port[c] \in Ports
      /\ rtcp' = [rtcp EXCEPT ![c] = 0] /\ UNCHANGED thread /\ bound[c] = {}
  BY DEF PInv, BindRtp, ChannelOK, PortsOK
<1>2. CASE /\ rtp' = [rtp EXCEPT ![c] = port[c]]
           /\ bound' = [bound EXCEPT ![c] = @ \cup {port[c]}]
           /\ Begins(c, "rtcp") /\ UNCHANGED port
  <2>1. /\ start' \in [Channels -> StartSteps] /\ start'[c] = "rtcp"
        /\ \A d \in Channels \ {c} : start'[d] = start[d]
    BY <1>1, <1>2, MovesStart DEF StartSteps
  <2>2. PoolType'
    BY <1>1, <1>2, <2>1 DEF PoolType
  <2>3. rtp'[c] = port'[c] /\ bound'[c] = {port[c]}
    BY <1>1, <1>2 DEF PoolType
  <2>4. ChannelOK(c)'
    BY <1>1, <1>2, <2>1, <2>3 DEF ChannelOK, ThreadsOK, PortsOK
  <2> QED BY <1>1, <1>2, <2>1, <2>2, <2>4, OthersKeep DEF PoolType
<1>3. CASE /\ rtp' = [rtp EXCEPT ![c] = 0]
           /\ port' = [port EXCEPT ![c] = @ + 1]
           /\ UNCHANGED <<start, bound>>
  <2>1. port[c] + 1 \in Nat
    BY <1>1 DEF PoolType
  <2>2. PoolType'
    BY <1>1, <1>3, <2>1 DEF PoolType
  <2>3. ChannelOK(c)'
    BY <1>1, <1>3 DEF ChannelOK, ThreadsOK, PortsOK
  <2> QED BY <1>1, <1>3, <2>2, <2>3, OthersKeep DEF PoolType
<1> QED BY <1>2, <1>3 DEF BindRtp

LEMMA BindRtcpPorts ==
  ASSUME PInv, NEW c \in Channels, BindRtcp(c) PROVE PInv'
<1>1. PoolType /\ ChannelOK(c) /\ start[c] = "rtcp" /\ port[c] + 1 \in Ports
      /\ UNCHANGED <<rtp, thread>>
      /\ rtp[c] = port[c] /\ rtp[c] \in Ports /\ bound[c] = {rtp[c]}
      /\ thread["rtp"][c] = "none" /\ thread["rtcp"][c] = "none"
  BY DEF PInv, BindRtcp, ChannelOK, PortsOK, ThreadsOK
<1>2. CASE /\ rtcp' = [rtcp EXCEPT ![c] = port[c] + 1]
           /\ bound' = [bound EXCEPT ![c] = @ \cup {port[c] + 1}]
           /\ Begins(c, "activate") /\ UNCHANGED port
  <2>1. /\ start' \in [Channels -> StartSteps] /\ start'[c] = "activate"
        /\ \A d \in Channels \ {c} : start'[d] = start[d]
    BY <1>1, <1>2, MovesStart DEF StartSteps
  <2>2. PoolType'
    BY <1>1, <1>2, <2>1 DEF PoolType
  <2>3. rtcp'[c] = rtp'[c] + 1 /\ rtcp'[c] \in Ports /\ bound'[c] = {rtp'[c], rtcp'[c]}
    BY <1>1, <1>2 DEF PoolType
  <2>4. Held(c)' = {rtp'[c], rtcp'[c]}
    BY <1>1, <2>3 DEF Held
  <2>5. ChannelOK(c)'
    BY <1>1, <2>1, <2>3, <2>4 DEF ChannelOK, ThreadsOK, PortsOK
  <2> QED BY <1>1, <1>2, <2>1, <2>2, <2>5, OthersKeep DEF PoolType
<1>3. CASE /\ bound' = [bound EXCEPT ![c] = @ \ {rtp[c]}]
           /\ port' = [port EXCEPT ![c] = @ + 1]
           /\ Begins(c, "rtp") /\ UNCHANGED rtcp
  <2>1. /\ start' \in [Channels -> StartSteps] /\ start'[c] = "rtp"
        /\ \A d \in Channels \ {c} : start'[d] = start[d]
    BY <1>1, <1>3, MovesStart DEF StartSteps
  <2>2. port[c] + 1 \in Nat
    BY <1>1 DEF PoolType
  <2>3. PoolType'
    BY <1>1, <1>3, <2>1, <2>2 DEF PoolType
  <2>4. bound'[c] = {}
    BY <1>1, <1>3 DEF PoolType
  <2>5. ChannelOK(c)'
    BY <1>1, <2>1, <2>4 DEF ChannelOK, ThreadsOK, PortsOK
  <2> QED BY <1>1, <1>3, <2>1, <2>3, <2>5, OthersKeep DEF PoolType
<1> QED BY <1>2, <1>3 DEF BindRtcp

LEMMA ActivatePorts ==
  ASSUME PInv, NEW c \in Channels, Activate(c) PROVE PInv'
<1>1. PoolType /\ ChannelOK(c) /\ start[c] = "activate" /\ Begins(c, "spawnRtp")
      /\ UNCHANGED <<port, rtp, rtcp, bound, thread>>
  BY DEF PInv, Activate
<1>2. /\ start' \in [Channels -> StartSteps] /\ start'[c] = "spawnRtp"
      /\ \A d \in Channels \ {c} : start'[d] = start[d]
  BY <1>1, MovesStart DEF StartSteps
<1>3. PoolType'
  BY <1>1, <1>2 DEF PoolType
<1>4. ChannelOK(c)'
  BY <1>1, <1>2 DEF ChannelOK, ThreadsOK, PortsOK, Held
<1> QED BY <1>1, <1>2, <1>3, <1>4, OthersKeep

LEMMA SpawnPorts ==
  ASSUME PInv, NEW c \in Channels, SpawnRtp(c) \/ SpawnRtcp(c) PROVE PInv'
<1>1. PICK k \in Kinds :
        /\ thread[k][c] = "none" /\ Moves(c, k, "loop")
        /\ \/ k = "rtp" /\ start[c] = "spawnRtp" /\ Begins(c, "spawnRtcp")
           \/ k = "rtcp" /\ start[c] = "spawnRtcp" /\ Begins(c, "done")
  BY DEF PInv, ChannelOK, ThreadsOK, SpawnRtp, SpawnRtcp, Spawn, Moves, Kinds
<1>2. PoolType /\ ChannelOK(c) /\ UNCHANGED <<port, rtp, rtcp, bound>>
  BY DEF PInv, SpawnRtp, SpawnRtcp, Spawn, chanVars
<1>3. /\ thread' \in [Kinds -> [Channels -> ThreadSteps]] /\ thread'[k][c] = "loop"
      /\ \A j \in Kinds, d \in Channels : j # k \/ d # c => thread'[j][d] = thread[j][d]
  BY <1>1, <1>2, MovesThread DEF ThreadSteps
<1>4. /\ start' \in [Channels -> StartSteps]
      /\ start'[c] = IF k = "rtp" THEN "spawnRtcp" ELSE "done"
      /\ \A d \in Channels \ {c} : start'[d] = start[d]
  BY <1>1, <1>2, MovesStart DEF StartSteps
<1>5. PoolType'
  BY <1>2, <1>3, <1>4 DEF PoolType
<1>6. "rtp" \in Kinds /\ "rtcp" \in Kinds
  BY DEF Kinds
<1>7. Held(c)' = Held(c)
  BY <1>1, <1>2, <1>3, <1>6 DEF Held
<1>8. ChannelOK(c)'
  BY <1>1, <1>2, <1>3, <1>4, <1>6, <1>7 DEF ChannelOK, ThreadsOK, PortsOK
<1> QED BY <1>2, <1>3, <1>4, <1>5, <1>8, OthersKeep

------------------------------------------------------------------------------
(* The steps of the two threads.                                            *)

\* A thread that goes on, without an end.
LEMMA GoesOnPorts ==
  ASSUME PInv, NEW c \in Channels, NEW k \in Kinds, thread[k][c] \notin {"none", "dead"},
         NEW s \in ThreadSteps \ {"none", "dead"}, Moves(c, k, s),
         UNCHANGED <<start, port, rtp, rtcp, bound>>
  PROVE  PInv'
<1>1. PoolType /\ ChannelOK(c) /\ "rtp" \in Kinds /\ "rtcp" \in Kinds
  BY DEF PInv, Kinds
<1>2. /\ thread' \in [Kinds -> [Channels -> ThreadSteps]] /\ thread'[k][c] = s
      /\ \A j \in Kinds, d \in Channels : j # k \/ d # c => thread'[j][d] = thread[j][d]
  BY <1>1, MovesThread
<1>3. PoolType'
  BY <1>1, <1>2 DEF PoolType
<1>4. \A j \in Kinds : /\ thread'[j][c] = "none" <=> thread[j][c] = "none"
                       /\ thread'[j][c] = "dead" <=> thread[j][c] = "dead"
  BY <1>1, <1>2
<1>5. Held(c)' = Held(c)
  BY <1>1, <1>4 DEF Held
<1>6. ChannelOK(c)'
  BY <1>1, <1>4, <1>5 DEF ChannelOK, ThreadsOK, PortsOK
<1> QED BY <1>2, <1>3, <1>6, OthersKeep

\* A thread that ends closes its socket and no other one.
LEMMA DiesPorts ==
  ASSUME PInv, NEW c \in Channels, NEW k \in Kinds, thread[k][c] \notin {"none", "dead"},
         Dies(c, k), UNCHANGED <<start, port, rtp, rtcp>>
  PROVE  PInv'
<1>1. PoolType /\ ChannelOK(c) /\ "rtp" \in Kinds /\ "rtcp" \in Kinds
  BY DEF PInv, Kinds
<1>2. /\ thread' \in [Kinds -> [Channels -> ThreadSteps]] /\ thread'[k][c] = "dead"
      /\ \A j \in Kinds, d \in Channels : j # k \/ d # c => thread'[j][d] = thread[j][d]
  BY <1>1, MovesThread DEF Dies, ThreadSteps
<1>3. /\ bound' \in [Channels -> SUBSET Ports] /\ bound'[c] = bound[c] \ {Socket(c, k)}
      /\ \A d \in Channels \ {c} : bound'[d] = bound[d]
  BY <1>1 DEF Dies, PoolType
<1>4. PoolType'
  BY <1>1, <1>2, <1>3 DEF PoolType
<1>5. start[c] \in {"spawnRtcp", "done"} /\ (k = "rtcp" => start[c] = "done")
  BY <1>1 DEF ChannelOK, ThreadsOK, Kinds
<1>6. rtp[c] \in Nat /\ rtcp[c] # rtp[c] /\ bound[c] = Held(c)
  <2>1. rtp[c] \in Ports /\ rtcp[c] = rtp[c] + 1 /\ bound[c] = Held(c)
    BY <1>1, <1>5 DEF ChannelOK, PortsOK
  <2>2. rtp[c] \in Nat
    BY <2>1, PortNumbers
  <2> QED BY <2>1, <2>2
<1>7. Held(c)' = Held(c) \ {Socket(c, k)}
  <2>1. CASE k = "rtp"
    BY <1>1, <1>2, <1>6, <2>1 DEF Held, Socket
  <2>2. CASE k = "rtcp"
    BY <1>1, <1>2, <1>6, <2>2 DEF Held, Socket
  <2> QED BY <2>1, <2>2 DEF Kinds
<1>8. ThreadsOK(c)'
  BY <1>1, <1>2 DEF ChannelOK, ThreadsOK
<1>9. PortsOK(c)'
  BY <1>1, <1>3, <1>5, <1>6, <1>7 DEF ChannelOK, PortsOK
<1> QED BY <1>2, <1>3, <1>4, <1>8, <1>9, OthersKeep DEF ChannelOK

LEMMA ThreadPorts ==
  ASSUME PInv, NEW c \in Channels, NEW k \in Kinds,
         Loop(c, k) \/ Quiet(c, k) \/ Receive(c, k) \/ Fail(c, k)
  PROVE  PInv'
<1>1. thread[k][c] \notin {"none", "dead"}
  BY DEF Loop, Quiet, Receive, Fail
<1>2. CASE Loop(c, k)
  <2>1. (Moves(c, k, "receive") /\ UNCHANGED bound) \/ Dies(c, k)
    BY <1>2 DEF Loop
  <2>2. UNCHANGED <<start, port, rtp, rtcp>>
    BY <1>2 DEF Loop
  <2> QED BY <1>1, <2>1, <2>2, GoesOnPorts, DiesPorts DEF ThreadSteps
<1>3. CASE Quiet(c, k)
  <2>1. Moves(c, k, "expired") \/ Moves(c, k, "loop")
    BY <1>3 DEF Quiet
  <2> QED BY <1>1, <1>3, <2>1, GoesOnPorts DEF Quiet, ThreadSteps, chanVars
<1>4. CASE Receive(c, k)
  BY <1>1, <1>4, GoesOnPorts DEF Receive, ThreadSteps
<1>5. CASE Fail(c, k)
  BY <1>1, <1>5, DiesPorts DEF Fail
<1> QED BY <1>2, <1>3, <1>4, <1>5

LEMMA ExpirePorts ==
  ASSUME PInv, NEW c \in Channels, Expire(c) \/ ExpireRemove(c) PROVE PInv'
<1>1. "rtp" \in Kinds
  BY DEF Kinds
<1>2. CASE Expire(c)
  BY <1>1, <1>2, GoesOnPorts DEF Expire, Deactivate, ThreadSteps
<1>3. CASE ExpireRemove(c)
  BY <1>1, <1>3, GoesOnPorts DEF ExpireRemove, RemoveChannel, chanVars, ThreadSteps
<1> QED BY <1>2, <1>3

------------------------------------------------------------------------------
(* All steps.                                                               *)

\* What a session, the provider and the clock do leaves the ports alone.
LEMMA DistantSteps ==
  ASSUME (\E c \in Channels : Stop(c) \/ StopRemove(c)) \/ Kill \/ KillStep \/ Tick
  PROVE  UNCHANGED portVars
BY DEF Stop, StopRemove, Kill, KillStep, KillNext, KillAbort, KillDone, Tick, Deactivate,
       RemoveChannel, chanVars, portVars

LEMMA NextPInv == PInv /\ [Next]_vars => PInv'
<1> SUFFICES ASSUME PInv, [Next]_vars PROVE PInv'
  OBVIOUS
<1>1. "rtp" \in Kinds /\ "rtcp" \in Kinds
  BY DEF Kinds
<1>2. CASE UNCHANGED vars
  BY <1>2, Unmoved DEF vars, chanVars, portVars
<1>3. CASE \E c \in Channels : NewChannel(c)
  BY <1>3, NewChannelPorts
<1>4. CASE \E c \in Channels : StartStep(c)
  BY <1>4, StartPorts, BindRtpPorts, BindRtcpPorts, ActivatePorts, SpawnPorts DEF StartStep
<1>5. CASE \E c \in Channels : RtpStep(c) \/ RtcpStep(c)
  BY <1>1, <1>5, ThreadPorts, ExpirePorts DEF RtpStep, RtcpStep
<1>6. CASE \E c \in Channels, k \in {"rtp", "rtcp"} : Receive(c, k) \/ Fail(c, k)
  BY <1>6, ThreadPorts DEF Kinds
<1>7. CASE (\E c \in Channels : Stop(c) \/ StopRemove(c)) \/ Kill \/ KillStep \/ Tick
  BY <1>7, DistantSteps, Unmoved
<1> QED BY <1>2, <1>3, <1>4, <1>5, <1>6, <1>7 DEF Next

LEMMA AlwaysPInv == Spec => []PInv
BY InitPInv, NextPInv, PTL DEF Spec

LEMMA PInvServes == PInv => ServedByPair /\ NoPortLeaks
<1> SUFFICES ASSUME PInv, NEW c \in Channels
             PROVE  /\ (\A k \in {"rtp", "rtcp"} : thread[k][c] \notin {"none", "dead"}) =>
                          rtcp[c] = rtp[c] + 1 /\ bound[c] = {rtp[c], rtcp[c]}
                    /\ /\ start[c] \in {"none", "begin", "done"}
                       /\ \A k \in {"rtp", "rtcp"} : thread[k][c] \in {"none", "dead"}
                       => bound[c] = {}
  BY DEF ServedByPair, NoPortLeaks
<1>1. ThreadsOK(c) /\ PortsOK(c) /\ PoolType
  BY DEF PInv, ChannelOK
<1>2. ASSUME \A k \in {"rtp", "rtcp"} : thread[k][c] \notin {"none", "dead"}
      PROVE  rtcp[c] = rtp[c] + 1 /\ bound[c] = {rtp[c], rtcp[c]}
  <2>1. start[c] = "done"
    BY <1>1, <1>2 DEF ThreadsOK
  <2>2. Held(c) = {rtp[c], rtcp[c]}
    BY <1>1, <1>2, <2>1 DEF PortsOK, Held
  <2> QED BY <1>1, <2>1, <2>2 DEF PortsOK
<1>3. ASSUME start[c] \in {"none", "begin", "done"},
             \A k \in {"rtp", "rtcp"} : thread[k][c] \in {"none", "dead"}
      PROVE  bound[c] = {}
  <2>1. CASE start[c] = "done"
    <3>1. thread["rtp"][c] = "dead" /\ thread["rtcp"][c] = "dead"
      BY <1>1, <1>3, <2>1 DEF ThreadsOK
    <3>2. Held(c) = {}
      BY <3>1 DEF Held
    <3> QED BY <1>1, <2>1, <3>2 DEF PortsOK
  <2>2. CASE start[c] # "done"
    BY <1>1, <1>3, <2>2 DEF PortsOK
  <2> QED BY <2>1, <2>2
<1> QED BY <1>2, <1>3

\* Both threads of a channel work on two adjacent ports of its own, the RTP port first
\* (AlgChannel.java:128-143), however many channels search at once, whatever other
\* programs have bound, and whenever sockets fail or channels are stopped.
THEOREM PairsAreServed == Spec => []ServedByPair
BY AlwaysPInv, PInvServes, PTL

\* No channel keeps a port without a thread that will close it (AlgChannel.java:187-244).
THEOREM PortsDoNotLeak == Spec => []NoPortLeaks
BY AlwaysPInv, PInvServes, PTL

------------------------------------------------------------------------------
(* Recording adds to the gateway.                                           *)

LEMMA RecordingStep == RecordingNext => [Next]_vars
<1> SUFFICES ASSUME RecordingNext PROVE Next \/ UNCHANGED vars
  OBVIOUS
<1>1. CASE \E c \in Channels : NewRecording(c)
  BY <1>1 DEF NewRecording, Next
<1>2. CASE \E c \in Channels : Answer(c) \/ WriteFile(c) \/ WriteFails(c)
  BY <1>2 DEF Answer, WriteFile, WriteFails
<1>3. CASE \E c \in Channels : PassOn(c)
  BY <1>3 DEF PassOn, Next
<1>4. CASE \E c \in Channels :
             \E k \in Sides, t \in 1..MaxClock, kept \in BOOLEAN : Hear(c, k, t, kept)
  BY <1>4 DEF Hear, Next
<1>5. CASE \E c \in Channels : RtpRecording(c)
  BY <1>5 DEF RtpRecording, Next
<1>6. CASE \E c \in Channels : OtherStep(c)
  BY <1>6 DEF OtherStep, Next
<1>7. CASE Kill \/ KillStep \/ Tick
  BY <1>7 DEF Next
<1> QED BY <1>1, <1>2, <1>3, <1>4, <1>5, <1>6, <1>7 DEF RecordingNext

\* A recorded gateway is a gateway: recorders and their files delay and change no step of
\* a channel (AlgChannel.java:150-205), and so it keeps its ports as one without them does.
THEOREM RecordingIsGateway == RecordingSpec => Spec
<1>1. RecordingInit => Init
  BY DEF RecordingInit
<1>2. [RecordingNext]_recordingVars => [Next]_vars
  BY RecordingStep DEF recordingVars
<1> QED BY <1>1, <1>2, PTL DEF RecordingSpec, Spec

------------------------------------------------------------------------------
(* The list of the provider.                                                *)

\* A nonempty set of natural numbers has a least one.
LEMMA Least ==
  ASSUME NEW I \in SUBSET Nat, I # {}
  PROVE  Min(I) \in I
<1> DEFINE less == OpToRel(<, Nat)
<1>1. IsWellFoundedOn(less, Nat)
  BY NatLessThanWellFounded
<1>2. ASSUME NEW x \in Nat, NEW y \in Nat, ~(<<y, x>> \in less) PROVE x =< y
  <2>1. ~(y < x)
    BY <1>2 DEF OpToRel
  <2> QED BY <2>1
<1> HIDE DEF less
<1>3. \E x \in I : \A y \in I : ~(<<y, x>> \in less)
  BY <1>1, WFMin
<1>4. \E x \in I : \A y \in I : x =< y
  BY <1>2, <1>3
<1> QED BY <1>4 DEF Min

\* Taking an element off a list.
LEMMA RemoveFirstSeq ==
  ASSUME NEW S, NEW q \in Seq(S), NEW e
  PROVE  /\ RemoveFirst(q, e) \in Seq(S)
         /\ \A d : d # e /\ Contains(q, d) => Contains(RemoveFirst(q, e), d)
<1> DEFINE I == {j \in 1..Len(q) : q[j] = e}
           i == Min(I)
<1>1. CASE I = {}
  BY <1>1 DEF RemoveFirst
<1>2. CASE I # {}
  <2>1. i \in I
    <3>1. I \in SUBSET Nat
      OBVIOUS
    <3> HIDE DEF I
    <3> QED BY <1>2, <3>1, Least
  <2>2. i \in 1..Len(q) /\ q[i] = e /\ Len(q) \in Nat
    BY <2>1
  <2>3. RemoveFirst(q, e) = SubSeq(q, 1, i - 1) \o SubSeq(q, i + 1, Len(q))
    BY <1>2 DEF RemoveFirst, RemoveAt, SelectInSeq
  <2> DEFINE a == SubSeq(q, 1, i - 1)
             b == SubSeq(q, i + 1, Len(q))
  <2> HIDE DEF i, I
  <2>4. a \in Seq(S) /\ Len(a) = i - 1 /\ \A j \in 1..(i - 1) : a[j] = q[j]
    BY <2>2
  <2>5. b \in Seq(S) /\ Len(b) = Len(q) - i /\ \A j \in 1..(Len(q) - i) : b[j] = q[i + j]
    <3>1. b \in Seq(S) /\ Len(b) = Len(q) - i
      BY <2>2
    <3>2. ASSUME NEW j \in 1..(Len(q) - i) PROVE b[j] = q[i + j]
      <4>1. b[j] = q[(i + 1) + j - 1] /\ (i + 1) + j - 1 = i + j
        BY <2>2
      <4> QED BY <4>1
    <3> HIDE DEF b
    <3> QED BY <3>1, <3>2
  <2> HIDE DEF a, b
  <2>6. a \o b \in Seq(S) /\ Len(a \o b) = Len(q) - 1
    <3>1. a \o b \in Seq(S) /\ Len(a \o b) = Len(a) + Len(b)
      BY <2>4, <2>5
    <3> QED BY <2>2, <2>4, <2>5, <3>1
  <2>7. ASSUME NEW d, d # e, Contains(q, d) PROVE Contains(a \o b, d)
    <3>1. PICK j \in 1..Len(q) : q[j] = d
      BY <2>7 DEF Contains
    <3>2. CASE j < i
      <4>1. (a \o b)[j] = a[j] /\ a[j] = d /\ j \in 1..(Len(q) - 1)
        BY <2>2, <2>4, <2>5, <3>1, <3>2
      <4> QED BY <2>6, <4>1 DEF Contains
    <3>3. CASE ~(j < i)
      <4>1. j - i \in 1..(Len(q) - i)
        BY <2>2, <2>7, <3>1, <3>3
      <4>2. (a \o b)[j - 1] = b[(j - 1) - (i - 1)]
        <5>1. j - 1 \in 1..(Len(a) + Len(b)) /\ ~(j - 1 <= Len(a)) /\ Len(a) = i - 1
          BY <2>2, <2>4, <2>5, <4>1
        <5>2. \A n \in 1..(Len(a) + Len(b)) :
                (a \o b)[n] = IF n <= Len(a) THEN a[n] ELSE b[n - Len(a)]
          BY <2>4, <2>5, ConcatProperties
        <5> QED BY <5>1, <5>2
      <4>3. (j - 1) - (i - 1) = j - i /\ i + (j - i) = j
        BY <2>2
      <4>4. (a \o b)[j - 1] = d /\ j - 1 \in 1..(Len(q) - 1)
        BY <2>2, <2>5, <3>1, <4>1, <4>2, <4>3
      <4> QED BY <2>6, <4>4 DEF Contains
    <3> QED BY <3>2, <3>3
  <2> QED BY <2>3, <2>6, <2>7 DEF a, b
<1> QED BY <1>1, <1>2

\* The types that PInv leaves out, and how far the iterator of stop is.
SearchOK == \A c \in Channels : /\ port[c] \in 0..(MaxPort + 1)
                                /\ port[c] = 0 <=> start[c] \in {"none", "begin"}
OwnType ==
  /\ active \in [Channels -> BOOLEAN]
  /\ idle \in [Channels -> 0..(Timeout + 1)]
  /\ packets \in [Channels -> 0..MaxPackets]
  /\ stopper \in [Channels -> {"idle", "remove"}]
ProviderOK ==
  /\ list \in Seq(Channels)
  /\ provider \in {"up", "killing", "killed", "aborted"}
  /\ cursor \in 0..MaxChannels /\ touched \in BOOLEAN
  /\ provider = "killing" /\ ~touched => cursor = 0

TypeInv == SearchOK /\ OwnType /\ ProviderOK

LEMMA InitTypeInv == Init => TypeInv
<1> SUFFICES ASSUME Init PROVE TypeInv
  OBVIOUS
<1>1. MaxPort \in Nat /\ Timeout \in Nat /\ MaxPackets \in Nat /\ MaxChannels \in Nat
  BY ConstantsAssumption
<1>2. SearchOK
  BY <1>1 DEF Init, SearchOK
<1>3. OwnType
  BY <1>1 DEF Init, OwnType
<1>4. ProviderOK
  <2>1. <<>> \in Seq(Channels)
    BY EmptySeq
  <2>2. list = <<>> /\ provider = "up" /\ cursor = 0 /\ touched = FALSE
    BY DEF Init
  <2>3. touched \in BOOLEAN
    BY <2>2
  <2>4. 0 \in 0..MaxChannels
    BY <1>1
  <2> QED BY <2>1, <2>2, <2>3, <2>4 DEF ProviderOK
<1> QED BY <1>2, <1>3, <1>4 DEF TypeInv

\* The search for ports.
LEMMA SearchStep ==
  ASSUME PInv, SearchOK, NEW c \in Channels, NewChannel(c) \/ StartStep(c)
  PROVE  SearchOK'
<1>1. /\ MaxPort \in Nat /\ Starts \subseteq 1..MaxPort /\ PoolType
      /\ port[c] \in 0..(MaxPort + 1) /\ (port[c] = 0 <=> start[c] \in {"none", "begin"})
  BY ConstantsAssumption DEF Ports, PInv, SearchOK
<1> SUFFICES /\ \A d \in Channels \ {c} : port'[d] = port[d] /\ start'[d] = start[d]
             /\ port'[c] \in 0..(MaxPort + 1)
             /\ port'[c] = 0 <=> start'[c] \in {"none", "begin"}
  BY DEF SearchOK
<1>2. CASE NewChannel(c)
  BY <1>1, <1>2, MovesStart DEF NewChannel, chanVars, StartSteps
<1>3. CASE Start(c)
  <2>1. PICK p \in 1..MaxPort : port' = [port EXCEPT ![c] = p]
    BY <1>1, <1>3 DEF Start
  <2>2. start'[c] = "rtp" /\ \A d \in Channels \ {c} : start'[d] = start[d]
    BY <1>1, <1>3, MovesStart DEF Start, StartSteps
  <2>3. port'[c] = p /\ \A d \in Channels \ {c} : port'[d] = port[d]
    BY <1>1, <2>1 DEF PoolType
  <2> QED BY <1>1, <2>2, <2>3
<1>4. CASE BindRtp(c)
  <2>1. start[c] = "rtp" /\ port[c] \in 1..MaxPort
    BY <1>4 DEF BindRtp, Ports
  <2>2. CASE Begins(c, "rtcp") /\ UNCHANGED port
    BY <1>1, <2>1, <2>2, MovesStart DEF StartSteps
  <2>3. CASE port' = [port EXCEPT ![c] = @ + 1] /\ UNCHANGED start
    <3>1. port'[c] = port[c] + 1 /\ \A d \in Channels \ {c} : port'[d] = port[d]
      BY <1>1, <2>3 DEF PoolType
    <3> QED BY <1>1, <2>1, <2>3, <3>1
  <2> QED BY <1>4, <2>2, <2>3 DEF BindRtp
<1>5. CASE BindRtcp(c)
  <2>1. start[c] = "rtcp" /\ port[c] \in Nat /\ port[c] + 1 \in 1..MaxPort
    BY <1>1, <1>5 DEF BindRtcp, Ports
  <2>2. CASE Begins(c, "activate") /\ UNCHANGED port
    BY <1>1, <2>1, <2>2, MovesStart DEF StartSteps
  <2>3. CASE port' = [port EXCEPT ![c] = @ + 1] /\ Begins(c, "rtp")
    <3>1. port'[c] = port[c] + 1 /\ \A d \in Channels \ {c} : port'[d] = port[d]
      BY <1>1, <2>3 DEF PoolType
    <3>2. start'[c] = "rtp" /\ \A d \in Channels \ {c} : start'[d] = start[d]
      BY <1>1, <2>3, MovesStart DEF StartSteps
    <3> QED BY <1>1, <2>1, <3>1, <3>2
  <2> QED BY <1>5, <2>2, <2>3 DEF BindRtcp
<1>6. CASE Activate(c)
  BY <1>1, <1>6, MovesStart DEF Activate, StartSteps
<1>7. CASE SpawnRtp(c) \/ SpawnRtcp(c)
  <2>1. PICK s \in {"spawnRtcp", "done"} : Begins(c, s) /\ UNCHANGED port
    BY <1>7 DEF SpawnRtp, SpawnRtcp, Spawn, chanVars
  <2>2. start[c] \in {"spawnRtp", "spawnRtcp"}
    BY <1>7 DEF SpawnRtp, SpawnRtcp, Spawn
  <2> QED BY <1>1, <2>1, <2>2, MovesStart DEF StartSteps
<1> QED BY <1>2, <1>3, <1>4, <1>5, <1>6, <1>7 DEF StartStep

\* What a channel is but for its ports and threads.
LEMMA OwnStep == ASSUME OwnType, Next PROVE OwnType'
<1>1. Timeout \in Nat /\ MaxPackets \in Nat
  BY ConstantsAssumption
<1>2. CASE \E c \in Channels : NewChannel(c) \/ StartStep(c)
  <2>1. CASE UNCHANGED <<active, idle, packets, stopper>>
    BY <2>1 DEF OwnType
  <2>2. CASE \E c \in Channels : Activate(c)
    BY <1>1, <2>2 DEF OwnType, Activate
  <2> QED BY <1>2, <2>1, <2>2 DEF NewChannel, StartStep, Start, BindRtp, BindRtcp, SpawnRtp,
                                  SpawnRtcp, Spawn, chanVars
<1>3. CASE \E c \in Channels : Stop(c) \/ StopRemove(c) \/ Expire(c) \/ ExpireRemove(c)
  BY <1>3 DEF OwnType, Stop, StopRemove, Expire, ExpireRemove, Deactivate, RemoveChannel, chanVars
<1>4. CASE \E c \in Channels, k \in {"rtp", "rtcp"} :
             Loop(c, k) \/ Quiet(c, k) \/ Fail(c, k)
  BY <1>4 DEF OwnType, Loop, Quiet, Fail, chanVars
<1>5. CASE \E c \in Channels, k \in {"rtp", "rtcp"} : Receive(c, k)
  <2>1. PICK c \in Channels :
          /\ packets[c] < MaxPackets /\ packets' = [packets EXCEPT ![c] = @ + 1]
          /\ idle' = [idle EXCEPT ![c] = 0] /\ UNCHANGED <<active, stopper>>
    BY <1>5 DEF Receive
  <2>2. packets[c] + 1 \in 0..MaxPackets
    BY <1>1, <2>1 DEF OwnType
  <2> QED BY <1>1, <2>1, <2>2 DEF OwnType
<1>6. CASE Kill \/ KillStep
  BY <1>6 DEF OwnType, Kill, KillStep, KillNext, KillAbort, KillDone, Deactivate, chanVars
<1>7. CASE Tick
  <2>1. \A c \in Channels : idle[c] <= Timeout => idle[c] + 1 \in 0..(Timeout + 1)
    BY <1>1 DEF OwnType
  <2> QED BY <1>7, <2>1 DEF OwnType, Tick
<1> QED BY <1>2, <1>3, <1>4, <1>5, <1>6, <1>7 DEF Next, RtpStep, RtcpStep

\* Channels come and go, but not while all of them are being stopped.
LEMMA ProviderStep == ASSUME ProviderOK, Next PROVE ProviderOK'
<1>1. MaxChannels \in Nat \ {0}
  BY ConstantsAssumption
<1>2. CASE \E c \in Channels : NewChannel(c)
  BY <1>2 DEF ProviderOK, NewChannel
<1>3. CASE \E c \in Channels : StopRemove(c) \/ ExpireRemove(c)
  BY <1>3, RemoveFirstSeq DEF ProviderOK, StopRemove, ExpireRemove, RemoveChannel
<1>4. CASE KillNext
  <2>1. cursor = 0 /\ cursor' = cursor + 1 /\ touched' = TRUE /\ provider' = provider
    BY <1>4 DEF KillNext, HasNext, ProviderOK
  <2>2. list' \in Seq(Channels)
    BY <1>4, RemoveFirstSeq DEF KillNext, HasNext, ProviderOK
  <2> QED BY <1>1, <2>1, <2>2 DEF ProviderOK
<1>5. CASE Kill \/ KillAbort \/ KillDone
  <2>1. CASE Kill
    <3>1. provider' = "killing" /\ cursor' = 0 /\ list' = list
      BY <2>1 DEF Kill
    <3>2. touched' \in BOOLEAN
      BY <2>1 DEF Kill
    <3>3. 0 \in 0..MaxChannels
      BY <1>1
    <3> QED BY <3>1, <3>2, <3>3 DEF ProviderOK
  <2>2. CASE KillAbort
    BY <2>2 DEF ProviderOK, KillAbort, HasNext
  <2>3. CASE KillDone
    BY <2>3 DEF ProviderOK, KillDone, HasNext
  <2> QED BY <1>5, <2>1, <2>2, <2>3
<1>6. CASE UNCHANGED provVars
  BY <1>6 DEF ProviderOK, provVars
<1>7. CASE \E c \in Channels : Stop(c) \/ StartStep(c) \/ Expire(c)
  BY <1>6, <1>7 DEF Stop, StartStep, Start, BindRtp, BindRtcp, Activate, SpawnRtp, SpawnRtcp, Spawn,
                    Expire
<1>8. CASE \E c \in Channels, k \in {"rtp", "rtcp"} :
             Loop(c, k) \/ Quiet(c, k) \/ Fail(c, k) \/ Receive(c, k)
  BY <1>6, <1>8 DEF Loop, Quiet, Fail, Receive
<1>9. CASE Tick
  BY <1>6, <1>9 DEF Tick
<1> QED BY <1>2, <1>3, <1>4, <1>5, <1>7, <1>8, <1>9 DEF Next, KillStep, RtpStep, RtcpStep

LEMMA NextTypeInv == PInv /\ TypeInv /\ [Next]_vars => TypeInv'
<1> SUFFICES ASSUME PInv, TypeInv, [Next]_vars PROVE TypeInv'
  OBVIOUS
<1>1. CASE Next
  <2>1. SearchOK'
    <3>1. CASE \E c \in Channels : NewChannel(c) \/ StartStep(c)
      BY <3>1, SearchStep DEF TypeInv
    <3>2. CASE UNCHANGED <<start, port>>
      BY <3>2 DEF TypeInv, SearchOK
    <3>3. CASE \E c \in Channels : RtpStep(c) \/ RtcpStep(c)
      BY <3>2, <3>3 DEF RtpStep, RtcpStep, Loop, Quiet, Expire, ExpireRemove, Deactivate,
                        RemoveChannel, chanVars
    <3>4. CASE \E c \in Channels, k \in {"rtp", "rtcp"} : Receive(c, k) \/ Fail(c, k)
      BY <3>2, <3>4 DEF Receive, Fail
    <3>5. CASE (\E c \in Channels : Stop(c) \/ StopRemove(c)) \/ Kill \/ KillStep \/ Tick
      BY <3>2, <3>5, DistantSteps DEF portVars
    <3> QED BY <1>1, <3>1, <3>3, <3>4, <3>5 DEF Next
  <2> QED BY <1>1, <2>1, OwnStep, ProviderStep DEF TypeInv
<1>2. CASE UNCHANGED vars
  BY <1>2 DEF vars, chanVars, provVars, TypeInv, SearchOK, OwnType, ProviderOK
<1> QED BY <1>1, <1>2

\* The gateway's variables keep their types: the search for ports, the two threads and the
\* list that AlgProvider.stop iterates over, whatever interrupts them (AlgPool!TypeOK).
THEOREM GatewayTyped == Spec => []TypeOK
<1>1. PInv /\ TypeInv => TypeOK
  <2> SUFFICES ASSUME PInv, TypeInv PROVE TypeOK
    OBVIOUS
  <2>1. port \in [Channels -> 0..(MaxPort + 1)]
    BY DEF PInv, PoolType, TypeInv, SearchOK
  <2> QED BY <2>1 DEF PInv, PoolType, TypeInv, SearchOK, OwnType, ProviderOK, TypeOK, Kinds
<1>2. Spec => []TypeInv
  BY InitTypeInv, NextTypeInv, AlwaysPInv, PTL DEF Spec
<1> QED BY <1>1, <1>2, AlwaysPInv, PTL

------------------------------------------------------------------------------
(* What runs stays in the list.                                             *)

\* The RTP thread takes the channel off the list when it has made it inactive, and by
\* then its start has passed the point where it makes it active.
DropInv == \A c \in Channels : thread["rtp"][c] = "remove" => ~active[c]

LEMMA InitDrop == Init => DropInv
BY DEF Init, DropInv

LEMMA DropStart ==
  ASSUME PInv, TypeInv, DropInv, NEW c \in Channels, StartStep(c) PROVE DropInv'
<1>1. PoolType /\ ThreadsOK(c) /\ OwnType /\ "rtp" \in Kinds
  BY DEF PInv, ChannelOK, TypeInv, Kinds
<1>2. CASE Start(c) \/ BindRtp(c) \/ BindRtcp(c)
  BY <1>2 DEF Start, BindRtp, BindRtcp, DropInv
<1>3. CASE Activate(c)
  <2>1. UNCHANGED thread /\ thread["rtp"][c] = "none"
    BY <1>1, <1>3 DEF Activate, ThreadsOK
  <2>2. \A d \in Channels \ {c} : active'[d] = active[d]
    BY <1>1, <1>3 DEF Activate, OwnType
  <2> QED BY <2>1, <2>2 DEF DropInv
<1>4. CASE SpawnRtp(c) \/ SpawnRtcp(c)
  <2>1. PICK k \in Kinds : Moves(c, k, "loop") /\ UNCHANGED active
    BY <1>4 DEF SpawnRtp, SpawnRtcp, Spawn, Moves, Kinds, chanVars
  <2>2. /\ thread'[k][c] = "loop"
        /\ \A j \in Kinds, d \in Channels : j # k \/ d # c => thread'[j][d] = thread[j][d]
    BY <1>1, <2>1, MovesThread DEF ThreadSteps
  <2>3. \A d \in Channels : thread'["rtp"][d] = "remove" => thread["rtp"][d] = "remove"
    BY <1>1, <2>2
  <2> QED BY <2>1, <2>3 DEF DropInv
<1> QED BY <1>2, <1>3, <1>4 DEF StartStep

\* The steps of a thread that leave the channel active.
LEMMA DropThread ==
  ASSUME PInv, DropInv, NEW c \in Channels, NEW k \in Kinds,
         Loop(c, k) \/ Quiet(c, k) \/ Receive(c, k) \/ Fail(c, k)
  PROVE  DropInv'
<1>1. PoolType /\ "rtp" \in Kinds /\ UNCHANGED active
  BY DEF PInv, Kinds, Loop, Quiet, Receive, Fail, chanVars
<1>2. PICK s \in ThreadSteps \ {"remove"} : Moves(c, k, s)
  BY DEF Loop, Quiet, Receive, Fail, Dies, ThreadSteps
<1>3. /\ thread'[k][c] = s
      /\ \A j \in Kinds, d \in Channels : j # k \/ d # c => thread'[j][d] = thread[j][d]
  BY <1>1, <1>2, MovesThread
<1>4. \A d \in Channels : thread'["rtp"][d] = "remove" => thread["rtp"][d] = "remove"
  BY <1>1, <1>2, <1>3
<1> QED BY <1>1, <1>4 DEF DropInv

\* stop first makes the channel inactive, and then takes it off the list.
LEMMA DropStop ==
  ASSUME PInv, TypeInv, DropInv, NEW c \in Channels,
         Stop(c) \/ StopRemove(c) \/ Expire(c) \/ ExpireRemove(c)
  PROVE  DropInv'
<1>1. PoolType /\ OwnType /\ "rtp" \in Kinds
  BY DEF PInv, TypeInv, Kinds
<1>2. CASE Stop(c) \/ StopRemove(c)
  <2>1. UNCHANGED thread /\ (Deactivate(c) \/ UNCHANGED active)
    BY <1>2 DEF Stop, StopRemove, RemoveChannel, chanVars
  <2>2. \A d \in Channels : active'[d] => active[d]
    BY <1>1, <2>1 DEF Deactivate, OwnType
  <2> QED BY <2>1, <2>2 DEF DropInv
<1>3. CASE Expire(c)
  <2>1. active'[c] = FALSE /\ \A d \in Channels \ {c} : active'[d] = active[d]
    BY <1>1, <1>3 DEF Expire, Deactivate, OwnType
  <2>2. \A d \in Channels \ {c} : thread'["rtp"][d] = thread["rtp"][d]
    BY <1>1, <1>3, MovesThread DEF Expire, ThreadSteps
  <2> QED BY <2>1, <2>2 DEF DropInv
<1>4. CASE ExpireRemove(c)
  <2>1. UNCHANGED active /\ Moves(c, "rtp", "loop")
    BY <1>4 DEF ExpireRemove, RemoveChannel, chanVars
  <2>2. /\ thread'["rtp"][c] = "loop"
        /\ \A d \in Channels \ {c} : thread'["rtp"][d] = thread["rtp"][d]
    BY <1>1, <2>1, MovesThread DEF ThreadSteps
  <2> QED BY <2>1, <2>2 DEF DropInv
<1> QED BY <1>2, <1>3, <1>4

\* The channel that AlgProvider.stop stops is made inactive before it leaves the list.
LEMMA KilledOne ==
  ASSUME PInv, TypeInv, KillNext
  PROVE  \E c \in Channels :
           /\ list' = RemoveFirst(list, c) /\ active'[c] = FALSE
           /\ \A d \in Channels \ {c} : active'[d] = active[d]
<1>1. list \in Seq(Channels) /\ cursor = 0 /\ Len(list) # 0 /\ OwnType
  BY DEF KillNext, HasNext, TypeInv, ProviderOK
<1>2. PICK c \in Channels : c = list[cursor + 1]
  BY <1>1
<1>3. Deactivate(c) /\ list' = RemoveFirst(list, c)
  BY <1>2 DEF KillNext
<1>4. active'[c] = FALSE /\ \A d \in Channels \ {c} : active'[d] = active[d]
  BY <1>1, <1>3 DEF Deactivate, OwnType
<1> QED BY <1>3, <1>4

LEMMA NextDrop == PInv /\ TypeInv /\ DropInv /\ [Next]_vars => DropInv'
<1> SUFFICES ASSUME PInv, TypeInv, DropInv, [Next]_vars PROVE DropInv'
  OBVIOUS
<1>1. CASE \E c \in Channels : RtpStep(c) \/ RtcpStep(c)
  BY <1>1, DropThread, DropStop DEF RtpStep, RtcpStep, Kinds
<1>2. CASE \E c \in Channels, k \in {"rtp", "rtcp"} : Receive(c, k) \/ Fail(c, k)
  BY <1>2, DropThread DEF Kinds
<1>3. CASE Tick \/ Kill \/ KillAbort \/ KillDone \/ UNCHANGED vars
  BY <1>3 DEF Tick, Kill, KillAbort, KillDone, vars, chanVars, DropInv
<1>4. CASE KillNext
  <2>1. UNCHANGED thread
    BY <1>4 DEF KillNext
  <2>2. \A d \in Channels : active'[d] => active[d]
    BY <1>4, KilledOne
  <2> QED BY <2>1, <2>2 DEF DropInv
<1>5. CASE \E c \in Channels : NewChannel(c) \/ Stop(c) \/ StartStep(c) \/ StopRemove(c)
  <2>1. ASSUME NEW c \in Channels, NewChannel(c) PROVE DropInv'
    BY <2>1 DEF NewChannel, chanVars, DropInv
  <2> QED BY <1>5, <2>1, DropStart, DropStop
<1> QED BY <1>1, <1>2, <1>3, <1>4, <1>5 DEF Next, KillStep

\* What no step does to a channel that runs in the list.
Stays(c) == active[c] /\ Contains(list, c) /\ stopper[c] = "idle" => ~active'[c] \/ Contains(list', c)

LEMMA NextStays ==
  ASSUME PInv, TypeInv, DropInv, [Next]_vars, NEW c \in Channels PROVE Stays(c)
<1>1. list \in Seq(Channels)
  BY DEF TypeInv, ProviderOK
<1>2. CASE UNCHANGED list
  BY <1>2 DEF Stays
<1>3. CASE \E d \in Channels : NewChannel(d)
  <2>1. PICK d \in Channels : list' = Append(list, d)
    BY <1>3 DEF NewChannel
  <2> QED BY <1>1, <2>1 DEF Stays, Contains
<1>4. ASSUME NEW d \in Channels, StopRemove(d) \/ ExpireRemove(d) PROVE Stays(c)
  <2>1. list' = RemoveFirst(list, d)
    BY <1>4 DEF StopRemove, ExpireRemove, RemoveChannel
  <2>2. CASE d = c
    BY <1>4, <2>2 DEF StopRemove, ExpireRemove, DropInv, Stays
  <2>3. CASE d # c
    BY <1>1, <2>1, <2>3, RemoveFirstSeq DEF Stays
  <2> QED BY <2>2, <2>3
<1>5. CASE KillNext
  <2>1. PICK d \in Channels : list' = RemoveFirst(list, d) /\ active'[d] = FALSE
    BY <1>5, KilledOne
  <2>2. CASE d = c
    BY <2>1, <2>2 DEF Stays
  <2>3. CASE d # c
    BY <1>1, <2>1, <2>3, RemoveFirstSeq DEF Stays
  <2> QED BY <2>2, <2>3
<1>6. \/ UNCHANGED list \/ KillNext
      \/ \E d \in Channels : NewChannel(d) \/ StopRemove(d) \/ ExpireRemove(d)
  BY DEF Next, vars, provVars, Stop, StartStep, Start, BindRtp, BindRtcp, Activate, SpawnRtp,
         SpawnRtcp, Spawn, RtpStep, RtcpStep, Loop, Quiet, Receive, Fail, Expire, Kill, KillStep,
         KillAbort, KillDone, Tick
<1> QED BY <1>2, <1>3, <1>4, <1>5, <1>6

\* Whatever starts, stops, times out, fails or restarts meanwhile, a channel that runs in
\* the list leaves it only as it stops running, or by a stop that had begun before its
\* start made it active (AlgPool!RunningStaysListed, AlgChannel.java:246-250 around 146).
THEOREM RunningIsListed == Spec => RunningStaysListed
<1>1. PInv /\ TypeInv /\ DropInv /\ [Next]_vars => [\A c \in Channels : Stays(c)]_vars
  BY NextStays
<1>2. Spec => []TypeInv
  BY InitTypeInv, NextTypeInv, AlwaysPInv, PTL DEF Spec
<1>3. Spec => []DropInv
  BY InitDrop, NextDrop, AlwaysPInv, <1>2, PTL DEF Spec
<1>4. Spec => [][\A c \in Channels : Stays(c)]_vars
  BY <1>1, <1>2, <1>3, AlwaysPInv, PTL DEF Spec
<1> QED BY <1>4 DEF RunningStaysListed, Stays

------------------------------------------------------------------------------
(* The recording of a call without gaps is the call: what a recorder holds  *)
(* is a function of the packets it was handed.                              *)

Packet == [at : 1..MaxClock, kept : BOOLEAN]
Sample == (0..255) \X (0..255)

RecType ==
  /\ first \in [Channels -> [Sides -> 0..MaxClock]]
  /\ track \in [Channels -> [Sides -> Seq(Sample)]]
  /\ heard \in [Channels -> [Sides -> Seq(Packet)]]
  /\ writer \in [Channels -> {"none", "failed", "done"} \cup Files]

\* A track has what was said in every packet, as long as each is kept.
TrackOK(c, k) ==
  (\A i \in 1..Len(heard[c][k]) : heard[c][k][i].kept) =>
    /\ Len(track[c][k]) = Len(heard[c][k])
    /\ \A i \in 1..Len(heard[c][k]) : track[c][k][i] = Speech[k][heard[c][k][i].at]

FirstOK(c, k) ==
  first[c][k] = IF heard[c][k] = <<>> THEN 0 ELSE heard[c][k][1].at

RecordedOK(c) ==
  /\ \A k \in Sides : TrackOK(c, k) /\ FirstOK(c, k)
  /\ writer[c] # "none" => \A k \in Sides : first[c][k] # 0

RecInv == RecType /\ \A c \in Channels : RecordedOK(c)

LEMMA SpeechIsSamples ==
  /\ MaxClock \in Nat
  /\ \A k \in Sides, t \in 1..MaxClock : Speech[k][t] \in Sample
BY RecordingAssumption DEF Sample

LEMMA InitRecInv == RecordingInit => RecInv
<1> SUFFICES ASSUME RecordingInit PROVE RecInv
  OBVIOUS
<1>1. 0 \in 0..MaxClock /\ <<>> \in Seq(Packet) /\ <<>> \in Seq(Sample)
  BY SpeechIsSamples, EmptySeq
<1>2. RecType
  BY <1>1 DEF RecordingInit, RecType
<1>3. \A c \in Channels : RecordedOK(c)
  BY DEF RecordingInit, RecordedOK, TrackOK, FirstOK
<1> QED BY <1>2, <1>3 DEF RecInv

LEMMA Appended ==
  ASSUME NEW S, NEW s \in Seq(S), NEW x \in S
  PROVE  /\ Len(s) \in Nat /\ Append(s, x) \in Seq(S) /\ Append(s, x) # <<>>
         /\ Len(Append(s, x)) = Len(s) + 1 /\ Append(s, x)[Len(s) + 1] = x
         /\ \A i \in 1..Len(s) : Append(s, x)[i] = s[i]
         /\ s = <<>> => Append(s, x)[1] = x
         /\ s # <<>> => s[1] \in S /\ Append(s, x)[1] = s[1]
BY AppendProperties, EmptySeq

\* What the invariant speaks of.
tapeVars == <<first, track, heard, writer>>

LEMMA TapeKept == RecInv /\ UNCHANGED tapeVars => RecInv'
<1> SUFFICES ASSUME RecInv, UNCHANGED tapeVars PROVE RecInv'
  OBVIOUS
<1>1. first' = first /\ track' = track /\ heard' = heard /\ writer' = writer
  BY DEF tapeVars
<1>2. RecType'
  BY <1>1 DEF RecInv, RecType
<1>3. ASSUME NEW c \in Channels PROVE RecordedOK(c)'
  <2>1. RecordedOK(c)
    BY DEF RecInv
  <2>2. \A k \in Sides : TrackOK(c, k)' /\ FirstOK(c, k)'
    <3> SUFFICES ASSUME NEW k \in Sides PROVE TrackOK(c, k)' /\ FirstOK(c, k)'
      OBVIOUS
    <3>1. TrackOK(c, k) /\ FirstOK(c, k)
      BY <2>1 DEF RecordedOK
    <3>2. TrackOK(c, k)'
      BY <1>1, <3>1 DEF TrackOK
    <3>3. FirstOK(c, k)'
      BY <1>1, <3>1 DEF FirstOK
    <3> QED BY <3>2, <3>3
  <2> QED BY <1>1, <2>1, <2>2 DEF RecordedOK
<1> QED BY <1>2, <1>3 DEF RecInv

LEMMA HearTape ==
  ASSUME RecInv, NEW c \in Channels, NEW k \in Sides, NEW t \in 1..MaxClock, NEW kept \in BOOLEAN,
         Hear(c, k, t, kept)
  PROVE  RecInv'
<1> DEFINE h == heard[c][k]
           tr == track[c][k]
           p == [at |-> t, kept |-> kept]
<1>1. /\ h \in Seq(Packet) /\ tr \in Seq(Sample) /\ first[c][k] \in 0..MaxClock
      /\ TrackOK(c, k) /\ FirstOK(c, k) /\ p \in Packet /\ Speech[k][t] \in Sample
  BY SpeechIsSamples DEF RecInv, RecType, RecordedOK, Packet
<1>2. /\ heard' = [heard EXCEPT ![c][k] = Append(@, p)] /\ UNCHANGED writer
      /\ first' = [first EXCEPT ![c][k] = IF @ = 0 THEN t ELSE @]
      /\ track' = [track EXCEPT ![c][k] = IF kept THEN Append(@, Speech[k][t]) ELSE @]
  BY DEF Hear
<1>3. /\ \A d \in Channels, j \in Sides : d # c \/ j # k =>
           /\ heard'[d][j] = heard[d][j] /\ first'[d][j] = first[d][j] /\ track'[d][j] = track[d][j]
      /\ heard'[c][k] = Append(h, p)
      /\ first'[c][k] = IF first[c][k] = 0 THEN t ELSE first[c][k]
      /\ track'[c][k] = IF kept THEN Append(tr, Speech[k][t]) ELSE tr
  BY <1>2 DEF RecInv, RecType
<1>4. RecType'
  <2>1. /\ Append(h, p) \in Seq(Packet)
        /\ (IF kept THEN Append(tr, Speech[k][t]) ELSE tr) \in Seq(Sample)
        /\ (IF first[c][k] = 0 THEN t ELSE first[c][k]) \in 0..MaxClock
    BY <1>1, SpeechIsSamples
  <2> QED BY <1>2, <2>1 DEF RecInv, RecType
<1>5. ASSUME \A i \in 1..Len(Append(h, p)) : Append(h, p)[i].kept
      PROVE  /\ Len(Append(tr, Speech[k][t])) = Len(Append(h, p)) /\ kept
             /\ \A i \in 1..Len(Append(h, p)) :
                  Append(tr, Speech[k][t])[i] = Speech[k][Append(h, p)[i].at]
  <2>1. /\ Len(Append(h, p)) = Len(h) + 1 /\ Len(h) \in Nat
        /\ Append(h, p)[Len(h) + 1] = p /\ \A i \in 1..Len(h) : Append(h, p)[i] = h[i]
    <3> HIDE DEF h, p
    <3> QED BY <1>1, Appended
  <2>2. kept /\ \A i \in 1..Len(h) : h[i].kept
    BY <1>5, <2>1
  <2>3. Len(tr) = Len(h) /\ \A i \in 1..Len(h) : tr[i] = Speech[k][h[i].at]
    BY <1>1, <2>2 DEF TrackOK
  <2>4. /\ Len(Append(tr, Speech[k][t])) = Len(tr) + 1
        /\ Append(tr, Speech[k][t])[Len(tr) + 1] = Speech[k][t]
        /\ \A i \in 1..Len(tr) : Append(tr, Speech[k][t])[i] = tr[i]
    BY <1>1
  <2> HIDE DEF h, tr
  <2>5. ASSUME NEW i \in 1..(Len(h) + 1)
        PROVE  Append(tr, Speech[k][t])[i] = Speech[k][Append(h, p)[i].at]
    <3>1. CASE i = Len(h) + 1
      BY <2>1, <2>3, <2>4, <3>1
    <3>2. CASE i \in 1..Len(h)
      BY <2>1, <2>3, <2>4, <3>2
    <3>3. i = Len(h) + 1 \/ i \in 1..Len(h)
      BY <2>1
    <3> QED BY <3>1, <3>2, <3>3
  <2> QED BY <2>1, <2>2, <2>3, <2>4, <2>5
<1>6. TrackOK(c, k)'
  BY <1>3, <1>5 DEF TrackOK
<1>7. FirstOK(c, k)'
  <2>1. Append(h, p) # <<>> /\ Append(h, p)[1] = IF h = <<>> THEN p ELSE h[1]
    <3> HIDE DEF h, p
    <3> QED BY <1>1, Appended
  <2>2. h # <<>> => h[1].at # 0
    <3> HIDE DEF h
    <3>1. h # <<>> => h[1] \in Packet
      BY <1>1, <2>1, Appended
    <3> QED BY <3>1, SpeechIsSamples DEF Packet
  <2>3. first[c][k] = IF h = <<>> THEN 0 ELSE h[1].at
    BY <1>1 DEF FirstOK
  <2> HIDE DEF h
  <2>4. first'[c][k] = Append(h, p)[1].at
    BY <1>3, <2>1, <2>2, <2>3
  <2> QED BY <1>3, <2>1, <2>4 DEF FirstOK
<1>8. ASSUME NEW d \in Channels PROVE RecordedOK(d)'
  <2>1. ASSUME NEW j \in Sides PROVE TrackOK(d, j)' /\ FirstOK(d, j)'
    <3>1. CASE d = c /\ j = k
      BY <1>6, <1>7, <3>1
    <3>2. CASE d # c \/ j # k
      <4>1. TrackOK(d, j) /\ FirstOK(d, j)
        BY DEF RecInv, RecordedOK
      <4>2. /\ heard'[d][j] = heard[d][j] /\ first'[d][j] = first[d][j]
            /\ track'[d][j] = track[d][j]
        BY <1>3, <3>2
      <4>3. TrackOK(d, j)'
        BY <4>1, <4>2 DEF TrackOK
      <4>4. FirstOK(d, j)'
        BY <4>1, <4>2 DEF FirstOK
      <4> QED BY <4>3, <4>4
    <3> QED BY <3>1, <3>2
  <2>2. \A j \in Sides : first[d][j] # 0 => first'[d][j] # 0
    BY <1>3, SpeechIsSamples
  <2> QED BY <1>2, <2>1, <2>2 DEF RecInv, RecordedOK
<1> QED BY <1>4, <1>8 DEF RecInv

LEMMA NextRecInv == RecInv /\ [RecordingNext]_recordingVars => RecInv'
<1> SUFFICES ASSUME RecInv, [RecordingNext]_recordingVars PROVE RecInv'
  OBVIOUS
<1>1. CASE \E c \in Channels, k \in Sides, t \in 1..MaxClock, kept \in BOOLEAN : Hear(c, k, t, kept)
  BY <1>1, HearTape
<1>2. CASE \E c \in Channels : RtpRecording(c) \/ WriteFile(c) \/ WriteFails(c)
  <2>1. PICK c \in Channels : RtpRecording(c) \/ WriteFile(c) \/ WriteFails(c)
    BY <1>2
  <2>2. UNCHANGED <<first, track, heard>>
    BY <2>1 DEF RtpRecording, WriteFile, WriteFails
  <2>3. \E w \in {"none", "failed", "done"} \cup Files :
          /\ writer' = writer \/ writer' = [writer EXCEPT ![c] = w]
          /\ writer' # writer => \/ Recorded(c) \/ writer[c] # "none"
    <3>1. CASE RtpRecording(c)
      BY <3>1 DEF RtpRecording, Finally, Files, Sides
    <3>2. CASE WriteFile(c)
      <4>1. writer[c] \in Files /\ writer' = [writer EXCEPT ![c] = Following[writer[c]]]
        BY <3>2 DEF WriteFile
      <4>2. Following[writer[c]] \in {"done"} \cup Files
        BY <4>1 DEF Following, Files, Sides
      <4>3. writer[c] # "none"
        BY <4>1 DEF Files, Sides
      <4> QED BY <4>1, <4>2, <4>3
    <3>3. CASE WriteFails(c)
      BY <3>3 DEF WriteFails, Files, Sides
    <3> QED BY <2>1, <3>1, <3>2, <3>3
  <2>4. RecType'
    BY <2>2, <2>3 DEF RecInv, RecType
  <2>5. ASSUME NEW d \in Channels PROVE RecordedOK(d)'
    <3>1. /\ d # c => writer'[d] = writer[d]
          /\ writer' # writer => \A k \in Sides : first[c][k] # 0
      BY <2>3 DEF RecInv, RecType, RecordedOK, Recorded
    <3>2. writer'[d] # "none" => \A k \in Sides : first[d][k] # 0
      BY <3>1 DEF RecInv, RecordedOK
    <3> QED BY <2>2, <3>2 DEF RecInv, RecordedOK, TrackOK, FirstOK
  <2> QED BY <2>4, <2>5 DEF RecInv
<1>3. CASE UNCHANGED tapeVars
  BY <1>3, TapeKept
<1> QED BY <1>1, <1>2, <1>3 DEF RecordingNext, NewRecording, Answer, PassOn, OtherStep, recVars,
                                recordingVars, tapeVars

LEMMA Byte == ASSUME NEW n \in Int PROVE n % 256 \in 0..255
OBVIOUS

LEMMA Below == ASSUME NEW n \in Int, 0 <= n, n < 65536 PROVE n % 65536 = n
OBVIOUS

LEMMA Above == ASSUME NEW n \in Int, 65536 <= n, n < 131072 PROVE n % 65536 = n - 65536
OBVIOUS

\* High bytes may be added by themselves.
LEMMA HighBytes ==
  ASSUME NEW a \in Int, NEW s \in Int, 0 <= a, a <= 255, 0 <= s, s <= 510
  PROVE  a + 256 * (s % 256) = (a + 256 * s) % 65536
<1>1. CASE s < 256
  <2>1. s % 256 = s
    BY <1>1
  <2>2. 0 <= a + 256 * s /\ a + 256 * s < 65536 /\ a + 256 * s \in Int
    BY <1>1
  <2>3. (a + 256 * s) % 65536 = a + 256 * s
    BY <2>2, Below
  <2> QED BY <2>1, <2>3
<1>2. CASE s >= 256
  <2>1. s % 256 = s - 256
    BY <1>2
  <2>2. 65536 <= a + 256 * s /\ a + 256 * s < 131072 /\ a + 256 * s \in Int
    BY <1>2
  <2>3. (a + 256 * s) % 65536 = a + 256 * s - 65536
    BY <2>2, Above
  <2>4. 256 * (s - 256) = 256 * s - 65536
    OBVIOUS
  <2> QED BY <2>1, <2>2, <2>3, <2>4
<1> QED BY <1>1, <1>2

LEMMA SampleBytes ==
  ASSUME NEW x \in Sample
  PROVE  /\ x[1] \in Int /\ 0 <= x[1] /\ x[1] <= 255
         /\ x[2] \in Int /\ 0 <= x[2] /\ x[2] <= 255
         /\ Value(x) \in Int
<1>1. ASSUME NEW n \in 0..255 PROVE n \in Int /\ 0 <= n /\ n <= 255
  OBVIOUS
<1>2. x[1] \in 0..255 /\ x[2] \in 0..255
  BY DEF Sample
<1>3. ASSUME NEW m \in Int, NEW n \in Int PROVE m + 256 * n \in Int
  OBVIOUS
<1>4. x[1] \in Int /\ x[2] \in Int
  BY <1>1, <1>2
<1>5. Value(x) \in Int
  BY <1>3, <1>4 DEF Value
<1> QED BY <1>1, <1>2, <1>5

LEMMA AddedSamples ==
  ASSUME NEW x \in Sample, NEW y \in Sample
  PROVE  /\ Add(x, y) \in Sample
         /\ x[1] + y[1] < 256 => Value(Add(x, y)) = (Value(x) + Value(y)) % 65536
<1> DEFINE a1 == x[1]
           a2 == x[2]
           b1 == y[1]
           b2 == y[2]
           a == a1 + b1
           s == a2 + b2
<1>1. /\ a1 \in Int /\ 0 <= a1 /\ a1 <= 255 /\ a2 \in Int /\ 0 <= a2 /\ a2 <= 255
      /\ b1 \in Int /\ 0 <= b1 /\ b1 <= 255 /\ b2 \in Int /\ 0 <= b2 /\ b2 <= 255
  BY SampleBytes
<1>2. Add(x, y) = <<a % 256, s % 256>> /\ Value(x) = a1 + 256 * a2 /\ Value(y) = b1 + 256 * b2
  BY DEF Add, Value
<1> HIDE DEF a1, a2, b1, b2
<1>3. /\ a \in Int /\ s \in Int /\ 0 <= a /\ 0 <= s /\ s <= 510
      /\ Value(x) + Value(y) = a + 256 * s
  BY <1>1, <1>2
<1> HIDE DEF a, s
<1>4. Add(x, y) \in Sample
  <2>1. a % 256 \in 0..255 /\ s % 256 \in 0..255
    BY <1>3, Byte
  <2>2. <<a % 256, s % 256>> \in Sample
    BY <2>1 DEF Sample
  <2> QED BY <1>2, <2>2
<1>5. ASSUME a < 256 PROVE Value(Add(x, y)) = (Value(x) + Value(y)) % 65536
  <2>1. a % 256 = a /\ a <= 255
    BY <1>3, <1>5
  <2>2. Value(Add(x, y)) = a + 256 * (s % 256)
    BY <1>2, <2>1 DEF Value
  <2> QED BY <1>3, <2>1, <2>2, HighBytes
<1> QED BY <1>4, <1>5 DEF a, a1, b1

\* The samples of two tracks, added byte by byte, are those of the mix.
LEMMA MixedSample ==
  ASSUME NEW p \in Seq(Sample), NEW q \in Seq(Sample), NEW delta \in Nat, NEW i \in Nat \ {0},
         SampleAt(p, i)[1] + SampleAt(q, i - delta)[1] < 256
  PROVE  Value(SampleAt(Mix(p, q, delta), i)) =
           (Value(SampleAt(p, i)) + Value(SampleAt(q, i - delta))) % 65536
<1> DEFINE x == SampleAt(p, i)
           y == SampleAt(q, i - delta)
           n == IF Len(p) > Len(q) + delta THEN Len(p) ELSE Len(q) + delta
           m == [j \in 1..n |-> Add(SampleAt(p, j), SampleAt(q, j - delta))]
<1>1. /\ Len(p) \in Nat /\ Len(q) \in Nat /\ n \in Nat /\ i \in Int
      /\ i \in 1..Len(p) => i \in 1..n
      /\ i - delta \in 1..Len(q) => i \in 1..n
  OBVIOUS
<1>2. Silence \in Sample
  BY DEF Silence, Sample
<1>3. x \in Sample /\ y \in Sample
  BY <1>2 DEF SampleAt
<1>4. SampleAt(m, i) = Add(x, y)
  <2>1. \A j \in 1..n : Add(SampleAt(p, j), SampleAt(q, j - delta)) \in Sample
    <3>1. ASSUME NEW j \in 1..n PROVE Add(SampleAt(p, j), SampleAt(q, j - delta)) \in Sample
      <4>1. SampleAt(p, j) \in Sample /\ SampleAt(q, j - delta) \in Sample
        BY <1>2 DEF SampleAt
      <4> QED BY <4>1, AddedSamples
    <3> QED BY <3>1
  <2>2. Len(m) = n
    <3>1. m \in [1..n -> Sample]
      BY <2>1
    <3> HIDE DEF m, n
    <3> QED BY <1>1, <3>1
  <2>3. CASE i \in 1..n
    BY <2>2, <2>3 DEF SampleAt
  <2>4. CASE i \notin 1..n
    <3>1. x = Silence /\ y = Silence
      BY <1>1, <2>4 DEF SampleAt
    <3>2. Add(Silence, Silence) = Silence
      BY DEF Add, Silence
    <3> QED BY <2>2, <2>4, <3>1, <3>2 DEF SampleAt
  <2> QED BY <2>3, <2>4
<1>5. Value(Add(x, y)) = (Value(x) + Value(y)) % 65536
  BY <1>3, AddedSamples
<1> QED BY <1>4, <1>5 DEF Mix

\* A party whose track has no gap is found in it at the time it spoke.
LEMMA GaplessTrack ==
  ASSUME RecInv, NEW c \in Channels, NEW k \in Sides, NEW t \in 1..MaxClock,
         Gapless(c, k), first[c][k] # 0
  PROVE  HeardAt(c, k, t) = SampleAt(track[c][k], t - first[c][k] + 1)
<1> DEFINE h == heard[c][k]
           f == first[c][k]
           tr == track[c][k]
<1>1. h \in Seq(Packet) /\ f \in Nat \ {0} /\ tr \in Seq(Sample) /\ TrackOK(c, k) /\ t \in Int
  BY SpeechIsSamples DEF RecInv, RecType, RecordedOK
<1>2. Len(h) \in Nat /\ \A i \in 1..Len(h) : h[i].at = f + i - 1 /\ h[i].kept
  <2>1. \A i \in 1..Len(h) : h[i] = [at |-> f + i - 1, kept |-> TRUE]
    BY DEF Gapless
  <2>2. ASSUME NEW i \in 1..Len(h) PROVE h[i].at = f + i - 1 /\ h[i].kept
    <3>1. h[i] = [at |-> f + i - 1, kept |-> TRUE]
      BY <2>1
    <3> HIDE DEF h, f
    <3>2. h[i].at = f + i - 1
      BY <3>1
    <3>3. h[i].kept = TRUE
      BY <3>1
    <3> QED BY <3>2, <3>3
  <2>3. Len(h) \in Nat
    <3> HIDE DEF h
    <3> QED BY <1>1
  <2> QED BY <2>2, <2>3
<1>3. Len(tr) = Len(h) /\ \A i \in 1..Len(h) : tr[i] = Speech[k][h[i].at]
  BY <1>1, <1>2 DEF TrackOK
<1>4. (\E i \in 1..Len(h) : h[i].at = t) <=> t - f + 1 \in 1..Len(h)
  <2> HIDE DEF h, f
  <2>1. ASSUME NEW i \in 1..Len(h), h[i].at = t PROVE t - f + 1 \in 1..Len(h)
    <3>1. t = f + i - 1
      BY <1>2, <2>1
    <3> QED BY <1>1, <1>2, <3>1
  <2>2. ASSUME t - f + 1 \in 1..Len(h) PROVE h[t - f + 1].at = t
    <3>1. h[t - f + 1].at = f + (t - f + 1) - 1
      BY <1>2, <2>2
    <3> QED BY <1>1, <3>1
  <2> QED BY <2>1, <2>2
<1>5. CASE t - f + 1 \in 1..Len(h)
  <2> HIDE DEF h, f, tr
  <2>1. h[t - f + 1].at = t
    <3>1. h[t - f + 1].at = f + (t - f + 1) - 1
      BY <1>2, <1>5
    <3> QED BY <1>1, <3>1
  <2>2. tr[t - f + 1] = Speech[k][t]
    BY <1>3, <1>5, <2>1
  <2> QED BY <1>3, <1>4, <1>5, <2>2 DEF HeardAt, SampleAt, h, f, tr
<1>6. CASE t - f + 1 \notin 1..Len(h)
  BY <1>3, <1>4, <1>6 DEF HeardAt, SampleAt
<1> QED BY <1>5, <1>6

LEMMA HeardInMix ==
  ASSUME RecInv, NEW c \in Channels, NEW k \in Sides, NEW j \in Sides,
         Gapless(c, k), Gapless(c, j), first[c][k] # 0, first[c][j] # 0, first[c][k] <= first[c][j],
         NEW t \in first[c][k]..MaxClock, HeardAt(c, k, t)[1] + HeardAt(c, j, t)[1] < 256
  PROVE  Value(SampleAt(Mix(track[c][k], track[c][j], first[c][j] - first[c][k]),
                        t - first[c][k] + 1)) =
           (Value(HeardAt(c, k, t)) + Value(HeardAt(c, j, t))) % 65536
<1> DEFINE delta == first[c][j] - first[c][k]
           i == t - first[c][k] + 1
<1>1. /\ first[c][k] \in Nat \ {0} /\ first[c][j] \in Nat \ {0} /\ MaxClock \in Nat
      /\ track[c][k] \in Seq(Sample) /\ track[c][j] \in Seq(Sample)
  BY SpeechIsSamples DEF RecInv, RecType
<1>2. t \in 1..MaxClock /\ delta \in Nat /\ i \in Nat \ {0} /\ i - delta = t - first[c][j] + 1
  <2> DEFINE a == first[c][k]
             b == first[c][j]
  <2>1. a \in Nat \ {0} /\ b \in Nat \ {0} /\ a <= b /\ t \in a..MaxClock
    BY <1>1
  <2> HIDE DEF a, b
  <2>2. /\ t \in 1..MaxClock /\ b - a \in Nat /\ t - a + 1 \in Nat \ {0}
        /\ (t - a + 1) - (b - a) = t - b + 1
    BY <1>1, <2>1
  <2> QED BY <2>2 DEF a, b
<1>3. /\ HeardAt(c, k, t) = SampleAt(track[c][k], i)
      /\ HeardAt(c, j, t) = SampleAt(track[c][j], i - delta)
  BY <1>2, GaplessTrack
<1> HIDE DEF delta, i
<1>4. Value(SampleAt(Mix(track[c][k], track[c][j], delta), i)) =
        (Value(SampleAt(track[c][k], i)) + Value(SampleAt(track[c][j], i - delta))) % 65536
  BY <1>1, <1>2, <1>3, MixedSample
<1> QED BY <1>3, <1>4 DEF delta, i

LEMMA RecInvServes == RecInv => CombinedIsTheCall
<1> SUFFICES ASSUME RecInv, NEW c \in Channels, writer[c] = "done", \A k \in Sides : Gapless(c, k)
             PROVE  LET start0 == IF first[c]["caller"] < first[c]["callee"]
                                  THEN first[c]["caller"] ELSE first[c]["callee"] IN
                    \A t \in start0..MaxClock :
                      LET x == HeardAt(c, "caller", t)
                          y == HeardAt(c, "callee", t) IN
                      x[1] + y[1] < 256 =>
                        Value(SampleAt(Combined(c), t - start0 + 1)) = (Value(x) + Value(y)) % 65536
  BY DEF CombinedIsTheCall
<1> DEFINE a == first[c]["caller"]
           b == first[c]["callee"]
           start0 == IF a < b THEN a ELSE b
<1>1. "caller" \in Sides /\ "callee" \in Sides
  BY DEF Sides
<1>2. a \in Nat \ {0} /\ b \in Nat \ {0} /\ MaxClock \in Nat
  <2>1. first[c] \in [Sides -> 0..MaxClock] /\ \A k \in Sides : first[c][k] # 0
    BY DEF RecInv, RecType, RecordedOK
  <2>2. a \in 0..MaxClock /\ b \in 0..MaxClock /\ a # 0 /\ b # 0
    BY <1>1, <2>1
  <2> HIDE DEF a, b
  <2> QED BY <2>2, SpeechIsSamples
<1>3. ASSUME NEW t \in start0..MaxClock
      PROVE  LET x == HeardAt(c, "caller", t)
                 y == HeardAt(c, "callee", t) IN
             x[1] + y[1] < 256 =>
               Value(SampleAt(Combined(c), t - start0 + 1)) = (Value(x) + Value(y)) % 65536
  <2> DEFINE x == HeardAt(c, "caller", t)
             y == HeardAt(c, "callee", t)
  <2> SUFFICES ASSUME x[1] + y[1] < 256
               PROVE  Value(SampleAt(Combined(c), t - start0 + 1)) = (Value(x) + Value(y)) % 65536
    OBVIOUS
  <2>1. CASE b > a
    <3>1. start0 = a /\ a <= b /\ t \in a..MaxClock
      BY <1>2, <2>1
    <3>2. Value(SampleAt(Mix(track[c]["caller"], track[c]["callee"], b - a), t - a + 1)) =
            (Value(x) + Value(y)) % 65536
      BY <1>1, <1>2, <3>1, HeardInMix
    <3> QED BY <2>1, <3>1, <3>2 DEF Combined
  <2>2. CASE ~(b > a)
    <3>1. start0 = b /\ b <= a /\ t \in b..MaxClock
      BY <1>2, <2>2
    <3>2. x[1] \in Int /\ y[1] \in Int /\ Value(x) \in Int /\ Value(y) \in Int
      <4>1. t \in 1..MaxClock
        BY <1>2, <3>1
      <4>2. \A k \in Sides : Speech[k][t] \in Sample
        BY <4>1, SpeechIsSamples
      <4>3. Silence \in Sample
        BY DEF Silence, Sample
      <4>4. x \in Sample /\ y \in Sample
        BY <1>1, <4>2, <4>3 DEF HeardAt
      <4> HIDE DEF x, y
      <4> QED BY <4>4, SampleBytes
    <3>3. y[1] + x[1] < 256 /\ Value(x) + Value(y) = Value(y) + Value(x)
      BY <3>2
    <3>4. Value(SampleAt(Mix(track[c]["callee"], track[c]["caller"], a - b), t - b + 1)) =
            (Value(y) + Value(x)) % 65536
      BY <1>1, <1>2, <3>1, <3>3, HeardInMix
    <3> QED BY <2>2, <3>1, <3>3, <3>4 DEF Combined
  <2> QED BY <2>1, <2>2
<1> QED BY <1>3

\* What a recording of a call without gaps plays is the call, however long it is and
\* whatever both parties say (Recording!CombinedIsTheCall, AlgChannel.java:78-114).
THEOREM RecordingIsTheCall == RecordingSpec => []CombinedIsTheCall
BY InitRecInv, NextRecInv, RecInvServes, PTL DEF RecordingSpec
===============================================================================
