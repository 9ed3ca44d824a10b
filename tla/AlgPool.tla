------------------------------- MODULE AlgPool -------------------------------
(****************************************************************************)
(* The RTP application layer gateway: AlgProvider with its list of          *)
(* channels, and AlgChannel with the search for a pair of ports, the RTP    *)
(* and the RTCP thread, the inactivity timeout and stop.                    *)
(*                                                                          *)
(* A packet is only its effect on lastActivityDate.  start runs on a thread *)
(* of the SIP server, stop on such a thread, on the RTP thread or on the    *)
(* one that restarts the server.  Recording adds what is recorded of a call *)
(* and the fairness of the threads.                                         *)
(****************************************************************************)
EXTENDS Integers, Sequences, SequencesExt

CONSTANTS MaxChannels, \* bound: AlgChannel objects ever created
          MaxPort,     \* bound: UDP ports 1..MaxPort of the host
          Starts,      \* where the search for a pair of ports may start
          Foreign,     \* ports bound by other programs
          Timeout,     \* talk.rtp.alg.channel.timeout, in ticks of the clock
          MaxPackets,  \* bound: packets that arrive at a channel
          Faults       \* "io": a socket may fail; "early": stop may precede the
                       \* end of start; "restart": the server may be restarted

Channels == 1..MaxChannels
Ports == 1..MaxPort

ASSUME ConstantsAssumption ==
  /\ MaxChannels \in Nat \ {0} /\ MaxPort \in Nat \ {0} /\ Starts \subseteq Ports
  /\ Foreign \subseteq Ports /\ Timeout \in Nat /\ MaxPackets \in Nat
  /\ Faults \subseteq {"io", "early", "restart"}

VARIABLES
  start,     \* the next step of newChannel and start for the channel
  port,      \* testPort
  rtp, rtcp, \* the ports of the fields rtpSocket and rtcpSocket, 0 for null
  bound,     \* the ports of the channel's open sockets
  active,    \* AlgChannel.active
  idle,      \* the time since lastActivityDate
  packets,   \* packets received so far
  thread,    \* the next step of the RTP and of the RTCP thread
  stopper,   \* the next step of a stop by a session
  list,      \* AlgProvider.channelList
  provider, cursor, touched \* AlgProvider.stop: its progress and its iterator

chanVars == <<port, rtp, rtcp, bound, active, idle, packets>>
provVars == <<list, provider, cursor, touched>>
vars == <<start, chanVars, thread, stopper, provVars>>

StartSteps  == {"none", "begin", "rtp", "rtcp", "activate", "spawnRtp", "spawnRtcp", "done"}
ThreadSteps == {"none", "loop", "receive", "expired", "remove", "dead"}

\* Every variable has its type, and a search looks at a port from its beginning on.
TypeOK ==
  /\ start \in [Channels -> StartSteps]
  /\ port \in [Channels -> 0..(MaxPort + 1)]
  /\ \A c \in Channels : port[c] = 0 <=> start[c] \in {"none", "begin"}
  /\ rtp \in [Channels -> Ports \cup {0}] /\ rtcp \in [Channels -> Ports \cup {0}]
  /\ bound \in [Channels -> SUBSET Ports]
  /\ active \in [Channels -> BOOLEAN]
  /\ idle \in [Channels -> 0..(Timeout + 1)]
  /\ packets \in [Channels -> 0..MaxPackets]
  /\ thread \in [{"rtp", "rtcp"} -> [Channels -> ThreadSteps]]
  /\ stopper \in [Channels -> {"idle", "remove"}]
  /\ list \in Seq(Channels)
  /\ provider \in {"up", "killing", "killed", "aborted"}
  /\ cursor \in 0..MaxChannels /\ touched \in BOOLEAN

Init ==
  /\ start = [c \in Channels |-> "none"]
  /\ port = [c \in Channels |-> 0]
  /\ rtp = [c \in Channels |-> 0] /\ rtcp = [c \in Channels |-> 0]
  /\ bound = [c \in Channels |-> {}]
  /\ active = [c \in Channels |-> FALSE]
  /\ idle = [c \in Channels |-> 0]
  /\ packets = [c \in Channels |-> 0]
  /\ thread = [k \in {"rtp", "rtcp"} |-> [c \in Channels |-> "none"]]
  /\ stopper = [c \in Channels |-> "idle"]
  /\ list = <<>>
  /\ provider = "up" /\ cursor = 0 /\ touched = FALSE

------------------------------------------------------------------------------
(* AlgProvider.newChannel and AlgChannel.start.                             *)

Begins(c, s) == start' = [start EXCEPT ![c] = s]

\* newChannel, removeChannel and stop exclude each other.
Unlocked == provider # "killing"

NewChannel(c) ==
  /\ start[c] = "none" /\ Unlocked
  /\ \A d \in Channels : d < c => start[d] # "none"
  /\ list' = Append(list, c)
  /\ Begins(c, "begin")
  /\ UNCHANGED <<chanVars, thread, stopper, provider, cursor, touched>>

Start(c) ==
  /\ start[c] = "begin"
  /\ \E p \in Starts : port' = [port EXCEPT ![c] = p]
  /\ Begins(c, "rtp")
  /\ UNCHANGED <<rtp, rtcp, bound, active, idle, packets, thread, stopper, provVars>>

Free(p) == p \notin Foreign /\ \A d \in Channels : p \notin bound[d]

\* Both fields are reset before the sockets are opened.
BindRtp(c) ==
  /\ start[c] = "rtp" /\ port[c] \in Ports
  /\ rtcp' = [rtcp EXCEPT ![c] = 0]
  /\ \/ /\ Free(port[c])
        /\ rtp' = [rtp EXCEPT ![c] = port[c]]
        /\ bound' = [bound EXCEPT ![c] = @ \cup {port[c]}]
        /\ Begins(c, "rtcp") /\ UNCHANGED port
     \/ /\ ~Free(port[c])
        /\ rtp' = [rtp EXCEPT ![c] = 0]
        /\ port' = [port EXCEPT ![c] = @ + 1]
        /\ UNCHANGED <<start, bound>>
  /\ UNCHANGED <<active, idle, packets, thread, stopper, provVars>>

\* Slip: the RTP socket of a pair that is not free stays open.
BindRtcpLeaking(c) ==
  /\ start[c] = "rtcp" /\ port[c] + 1 \in Ports
  /\ \/ /\ Free(port[c] + 1)
        /\ rtcp' = [rtcp EXCEPT ![c] = port[c] + 1]
        /\ bound' = [bound EXCEPT ![c] = @ \cup {port[c] + 1}]
        /\ Begins(c, "activate") /\ UNCHANGED port
     \/ /\ ~Free(port[c] + 1)
        /\ port' = [port EXCEPT ![c] = @ + 1]
        /\ Begins(c, "rtp") /\ UNCHANGED <<bound, rtcp>>
  /\ UNCHANGED <<rtp, active, idle, packets, thread, stopper, provVars>>

\* Slip: the search goes down.
BindRtcpDown(c) ==
  /\ start[c] = "rtcp" /\ port[c] + 1 \in Ports
  /\ \/ /\ Free(port[c] + 1)
        /\ rtcp' = [rtcp EXCEPT ![c] = port[c] + 1]
        /\ bound' = [bound EXCEPT ![c] = @ \cup {port[c] + 1}]
        /\ Begins(c, "activate") /\ UNCHANGED port
     \/ /\ ~Free(port[c] + 1)
        /\ bound' = [bound EXCEPT ![c] = @ \ {rtp[c]}]
        /\ port' = [port EXCEPT ![c] = @ - 1]
        /\ Begins(c, "rtp") /\ UNCHANGED rtcp
  /\ UNCHANGED <<rtp, active, idle, packets, thread, stopper, provVars>>

\* When the second port of the pair is taken the first one is given back.
BindRtcp(c) ==
  /\ start[c] = "rtcp" /\ port[c] + 1 \in Ports
  /\ \/ /\ Free(port[c] + 1)
        /\ rtcp' = [rtcp EXCEPT ![c] = port[c] + 1]
        /\ bound' = [bound EXCEPT ![c] = @ \cup {port[c] + 1}]
        /\ Begins(c, "activate") /\ UNCHANGED port
     \/ /\ ~Free(port[c] + 1)
        /\ bound' = [bound EXCEPT ![c] = @ \ {rtp[c]}]
        /\ port' = [port EXCEPT ![c] = @ + 1]
        /\ Begins(c, "rtp") /\ UNCHANGED rtcp
  /\ UNCHANGED <<rtp, active, idle, packets, thread, stopper, provVars>>

Activate(c) ==
  /\ start[c] = "activate"
  /\ active' = [active EXCEPT ![c] = TRUE]
  /\ idle' = [idle EXCEPT ![c] = 0]
  /\ Begins(c, "spawnRtp")
  /\ UNCHANGED <<port, rtp, rtcp, bound, packets, thread, stopper, provVars>>

Spawn(c, k, now, next) ==
  /\ start[c] = now
  /\ thread' = [thread EXCEPT ![k][c] = "loop"]
  /\ Begins(c, next)
  /\ UNCHANGED <<chanVars, stopper, provVars>>

SpawnRtp(c)  == Spawn(c, "rtp", "spawnRtp", "spawnRtcp")
SpawnRtcp(c) == Spawn(c, "rtcp", "spawnRtcp", "done")

------------------------------------------------------------------------------
(* The RTP and the RTCP thread.                                             *)

Moves(c, k, s) == thread' = [thread EXCEPT ![k][c] = s]
Socket(c, k)   == IF k = "rtp" THEN rtp[c] ELSE rtcp[c]
\* Slip: the socket stays open.
DiesOpen(c, k) == Moves(c, k, "dead") /\ UNCHANGED bound
Dies(c, k) == /\ Moves(c, k, "dead")
              /\ bound' = [bound EXCEPT ![c] = @ \ {Socket(c, k)}]

\* The end of a thread closes its socket.
Loop(c, k) ==
  /\ thread[k][c] = "loop"
  /\ \/ active[c] /\ Moves(c, k, "receive") /\ UNCHANGED bound
     \/ ~active[c] /\ Dies(c, k)
  /\ UNCHANGED <<start, port, rtp, rtcp, active, idle, packets, stopper, provVars>>

\* A packet of either kind counts as activity of the channel.
Receive(c, k) ==
  /\ thread[k][c] = "receive" /\ packets[c] < MaxPackets
  /\ packets' = [packets EXCEPT ![c] = @ + 1]
  /\ idle' = [idle EXCEPT ![c] = 0]
  /\ Moves(c, k, "loop")
  /\ UNCHANGED <<start, port, rtp, rtcp, bound, active, stopper, provVars>>

\* Slip: the RTP thread, too, ignores that nothing came.
QuietForever(c, k) ==
  /\ thread[k][c] = "receive"
  /\ Moves(c, k, "loop")
  /\ UNCHANGED <<start, chanVars, stopper, provVars>>

\* SocketTimeoutException: only the RTP thread looks at the time.
Quiet(c, k) ==
  /\ thread[k][c] = "receive"
  /\ \/ k = "rtp" /\ idle[c] > Timeout /\ Moves(c, k, "expired")
     \/ (k = "rtcp" \/ idle[c] <= Timeout) /\ Moves(c, k, "loop")
  /\ UNCHANGED <<start, chanVars, stopper, provVars>>

\* An IOException ends the thread and leaves the channel active.
Fail(c, k) ==
  /\ "io" \in Faults /\ thread[k][c] = "receive"
  /\ Dies(c, k)
  /\ UNCHANGED <<start, port, rtp, rtcp, active, idle, packets, stopper, provVars>>

Tick ==
  /\ \E c \in Channels : active[c] /\ idle[c] <= Timeout
  /\ idle' = [c \in Channels |->
                IF active[c] /\ idle[c] <= Timeout THEN idle[c] + 1 ELSE idle[c]]
  /\ UNCHANGED <<start, port, rtp, rtcp, bound, active, packets, thread, stopper, provVars>>

------------------------------------------------------------------------------
(* AlgChannel.stop, on the RTP thread and on a thread of a session.         *)

Deactivate(c) == /\ active' = [active EXCEPT ![c] = FALSE]
                 /\ UNCHANGED <<port, rtp, rtcp, bound, idle, packets>>
RemoveChannel(c) == /\ Unlocked /\ list' = RemoveFirst(list, c)
                    /\ UNCHANGED <<chanVars, provider, cursor, touched>>

Expire(c) ==
  /\ thread["rtp"][c] = "expired"
  /\ Deactivate(c) /\ Moves(c, "rtp", "remove")
  /\ UNCHANGED <<start, stopper, provVars>>

ExpireRemove(c) ==
  /\ thread["rtp"][c] = "remove"
  /\ RemoveChannel(c) /\ Moves(c, "rtp", "loop")
  /\ UNCHANGED <<start, stopper>>

\* A session stops its channel once or more often.  A BYE on one thread may do so
\* while the re-INVITE that made the channel is still in start on another.
Stop(c) ==
  /\ stopper[c] = "idle" /\ start[c] # "none"
  /\ "early" \in Faults \/ start[c] = "done"
  /\ Deactivate(c)
  /\ stopper' = [stopper EXCEPT ![c] = "remove"]
  /\ UNCHANGED <<start, thread, provVars>>

StopRemove(c) ==
  /\ stopper[c] = "remove"
  /\ RemoveChannel(c)
  /\ stopper' = [stopper EXCEPT ![c] = "idle"]
  /\ UNCHANGED <<start, thread>>

------------------------------------------------------------------------------
(* AlgProvider.stop, called by SipServer.stop, iterates over the list that  *)
(* each channel it stops leaves.                                            *)

HasNext == cursor # Len(list)

Kill ==
  /\ "restart" \in Faults /\ provider = "up"
  /\ "early" \in Faults \/ \A c \in Channels : start[c] \in {"none", "done"}
  /\ provider' = "killing" /\ cursor' = 0 /\ touched' = FALSE
  /\ UNCHANGED <<start, chanVars, thread, stopper, list>>

\* Slip: the channels are only taken off the list.
KillRemoveOnly ==
  /\ provider = "killing" /\ HasNext /\ ~touched
  /\ list' = RemoveFirst(list, list[cursor + 1])
  /\ cursor' = cursor + 1 /\ touched' = TRUE
  /\ UNCHANGED <<start, chanVars, thread, stopper, provider>>

KillNext ==
  /\ provider = "killing" /\ HasNext /\ ~touched
  /\ Deactivate(list[cursor + 1])
  /\ list' = RemoveFirst(list, list[cursor + 1])
  /\ cursor' = cursor + 1 /\ touched' = TRUE
  /\ UNCHANGED <<start, thread, stopper, provider>>

\* ConcurrentModificationException: SipServer.stop and the restart end here.
KillAbort ==
  /\ provider = "killing" /\ HasNext /\ touched
  /\ provider' = "aborted"
  /\ UNCHANGED <<start, chanVars, thread, stopper, list, cursor, touched>>

KillDone ==
  /\ provider = "killing" /\ ~HasNext
  /\ provider' = "killed"
  /\ UNCHANGED <<start, chanVars, thread, stopper, list, cursor, touched>>

------------------------------------------------------------------------------
StartStep(c) == \/ Start(c) \/ BindRtp(c) \/ BindRtcp(c) \/ Activate(c)
                \/ SpawnRtp(c) \/ SpawnRtcp(c)
RtpStep(c)   == Loop(c, "rtp") \/ Quiet(c, "rtp") \/ Expire(c) \/ ExpireRemove(c)
RtcpStep(c)  == Loop(c, "rtcp") \/ Quiet(c, "rtcp")
KillStep     == KillNext \/ KillAbort \/ KillDone

Next ==
  \/ \E c \in Channels : NewChannel(c) \/ Stop(c)
  \/ \E c \in Channels : StartStep(c) \/ RtpStep(c) \/ RtcpStep(c) \/ StopRemove(c)
  \/ \E c \in Channels, k \in {"rtp", "rtcp"} : Receive(c, k) \/ Fail(c, k)
  \/ Kill \/ KillStep
  \/ Tick

Spec == Init /\ [][Next]_vars

------------------------------------------------------------------------------
(* What the gateway promises.                                               *)

\* A channel whose threads both run has two adjacent ports open, RTP first, and no
\* third one, whoever else was looking for ports meanwhile (AlgChannel.java:128-143).
ServedByPair ==
  \A c \in Channels :
    (\A k \in {"rtp", "rtcp"} : thread[k][c] \notin {"none", "dead"}) =>
      rtcp[c] = rtp[c] + 1 /\ bound[c] = {rtp[c], rtcp[c]}

\* A channel that is not starting and has no thread left holds no port.
NoPortLeaks ==
  \A c \in Channels :
    /\ start[c] \in {"none", "begin", "done"}
    /\ \A k \in {"rtp", "rtcp"} : thread[k][c] \in {"none", "dead"}
    => bound[c] = {}

\* No step takes a running channel off the provider's list, where a restart of the
\* server finds it, whatever else stops it or times out meanwhile; only a stop that came
\* before the channel had become active does, at its second step, and so late that
\* start has made the channel active again (AlgChannel.java:246-250 around 146).
RunningStaysListed ==
  [][\A c \in Channels :
       active[c] /\ Contains(list, c) /\ stopper[c] = "idle" =>
         ~active'[c] \/ Contains(list', c)]_vars

\* A channel that found its ports gives them back once the packets end, even if its
\* session never stops it or stopped it before it had started, and if its RTCP socket
\* fails (AlgChannel.java:187-205).  When the RTP socket fails, the thread that looks at
\* the time is gone, and the RTCP port is held for as long as nobody stops the channel.
PortsComeBack ==
  \A c \in Channels :
    active[c] ~> /\ start[c] = "done"
                 /\ bound[c] = {} \/ (active[c] /\ thread["rtp"][c] = "dead")

\* "Killing all ALG channels" (AlgProvider.java:42): when the loop of stop is over, no
\* channel runs.
AllKilled ==
  provider = "killing" /\ ~HasNext => \A c \in Channels : ~active[c]

==============================================================================
