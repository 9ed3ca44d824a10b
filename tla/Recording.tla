------------------------------ MODULE Recording ------------------------------
(****************************************************************************)
(* The recording of calls on the channels of AlgPool: the RTP thread hands  *)
(* the packets of either party to a recorder, and when it ends it mixes the *)
(* two tracks and writes three files.                                       *)
(*                                                                          *)
(* A packet carries one sample of 16 bits, the bytes <<low, high>>, and the *)
(* clock counts samples.  The clock of AlgPool is the much coarser one of   *)
(* the inactivity timeout; the two are independent.                         *)
(****************************************************************************)
EXTENDS AlgPool

CONSTANTS MaxClock, \* bound: the time at which the last packet arrives
          Speech    \* bound: what either party says at each time

Sides == {"caller", "callee"}

ASSUME RecordingAssumption ==
  MaxClock \in Nat /\ Speech \in [Sides -> [1..MaxClock -> (0..255) \X (0..255)]]

Files == Sides \cup {"combined"}

VARIABLES
  recording, \* whether the channel has recorders
  answered,  \* whether the addresses of both parties are known
  clock,     \* the time of the last packet of a call; its first one comes at 1
  first,     \* firstCallerRtpReceiveDate, firstCalleeRtpReceiveDate, 0 for null
  track,     \* what the recorders hold
  writer,    \* the file the RTP thread is about to write when it has ended
  heard      \* history: the packets of each party in the order they were received, when
             \* they came and whether they were kept

recVars == <<recording, answered, clock, first, track, writer, heard>>
recordingVars == <<vars, recVars>>

RecordingInit ==
  /\ Init
  /\ recording = [c \in Channels |-> FALSE] /\ answered = [c \in Channels |-> FALSE]
  /\ clock = [c \in Channels |-> 1]
  /\ first = [c \in Channels |-> [k \in Sides |-> 0]]
  /\ track = [c \in Channels |-> [k \in Sides |-> <<>>]]
  /\ writer = [c \in Channels |-> "none"]
  /\ heard = [c \in Channels |-> [k \in Sides |-> <<>>]]

------------------------------------------------------------------------------
(* combineAudioTracks.                                                      *)

Silence == <<0, 0>>
SampleAt(q, i) == IF i \in 1..Len(q) THEN q[i] ELSE Silence

\* Byte by byte, as signed bytes that wrap.
Add(x, y) == <<(x[1] + y[1]) % 256, (x[2] + y[2]) % 256>>

\* The track of whoever was heard later is shifted.
Mix(reference, shifted, delta) ==
  LET n == IF Len(reference) > Len(shifted) + delta THEN Len(reference) ELSE Len(shifted) + delta
  IN [i \in 1..n |-> Add(SampleAt(reference, i), SampleAt(shifted, i - delta))]

\* Slip: the delta has the wrong sign.
CombinedBackwards(c) ==
  IF first[c]["callee"] > first[c]["caller"]
    THEN Mix(track[c]["callee"], track[c]["caller"], first[c]["callee"] - first[c]["caller"])
    ELSE Mix(track[c]["caller"], track[c]["callee"], first[c]["caller"] - first[c]["callee"])

Combined(c) ==
  IF first[c]["callee"] > first[c]["caller"]
    THEN Mix(track[c]["caller"], track[c]["callee"], first[c]["callee"] - first[c]["caller"])
    ELSE Mix(track[c]["callee"], track[c]["caller"], first[c]["caller"] - first[c]["callee"])

------------------------------------------------------------------------------
(* The steps of AlgPool, with what they do to a recording.                  *)

\* AlgChannel's constructor.
NewRecording(c) ==
  /\ NewChannel(c)
  /\ \E on \in BOOLEAN : recording' = [recording EXCEPT ![c] = on]
  /\ UNCHANGED <<answered, clock, first, track, writer, heard>>

\* processOkResponseSdp names the callee's address, after processInviteRequestSdp
\* has named the caller's.
Answer(c) ==
  /\ start[c] = "done" /\ ~answered[c]
  /\ answered' = [answered EXCEPT ![c] = TRUE]
  /\ UNCHANGED <<vars, recording, clock, first, track, writer, heard>>

\* A packet of party k at time t.  The recorder keeps those of a type it knows; the
\* first date is that of a packet of any type.
Hear(c, k, t, kept) ==
  /\ Receive(c, "rtp") /\ answered[c] /\ recording[c]
  /\ t >= clock[c] /\ ((\A j \in Sides : first[c][j] = 0) => t = 1)
  /\ clock' = [clock EXCEPT ![c] = t]
  /\ heard' = [heard EXCEPT ![c][k] = Append(@, [at |-> t, kept |-> kept])]
  /\ first' = [first EXCEPT ![c][k] = IF @ = 0 THEN t ELSE @]
  /\ track' = [track EXCEPT ![c][k] = IF kept THEN Append(@, Speech[k][t]) ELSE @]
  /\ UNCHANGED <<recording, answered, writer>>

\* A packet of nobody that is known, as the callee's are before the answer, goes back
\* to its sender; so a packet on a channel without recorders has no effect here, either.
PassOn(c) == Receive(c, "rtp") /\ UNCHANGED recVars

\* writeRecordingWaveFiles, if there is anything to write.
Recorded(c) == recording[c] /\ \A k \in Sides : first[c][k] # 0

\* Slip: the files are written when the loop has ended, not in the finally block.
FinallyAfterLoop(c) ==
  writer' = IF thread["rtp"][c] = "loop" /\ thread'["rtp"][c] = "dead" /\ Recorded(c)
            THEN [writer EXCEPT ![c] = "caller"] ELSE writer

\* The RTP thread ends, for whatever reason.
Finally(c) ==
  writer' = IF thread["rtp"][c] # "dead" /\ thread'["rtp"][c] = "dead" /\ Recorded(c)
            THEN [writer EXCEPT ![c] = "caller"] ELSE writer

RtpRecording(c) ==
  /\ RtpStep(c) \/ Fail(c, "rtp")
  /\ Finally(c)
  /\ UNCHANGED <<recording, answered, clock, first, track, heard>>

Following == [caller |-> "callee", callee |-> "combined", combined |-> "done"]

WriteFile(c) ==
  /\ writer[c] \in Files
  /\ writer' = [writer EXCEPT ![c] = Following[@]]
  /\ UNCHANGED <<vars, recording, answered, clock, first, track, heard>>

\* An IOException of one file leaves out those that follow.
WriteFails(c) ==
  /\ writer[c] \in Files
  /\ writer' = [writer EXCEPT ![c] = "failed"]
  /\ UNCHANGED <<vars, recording, answered, clock, first, track, heard>>

------------------------------------------------------------------------------
\* The steps of AlgPool that leave recordings alone.
OtherStep(c) ==
  /\ Stop(c) \/ StartStep(c) \/ RtcpStep(c) \/ StopRemove(c)
     \/ Receive(c, "rtcp") \/ Fail(c, "rtcp")
  /\ UNCHANGED recVars

RecordingNext ==
  \/ \E c \in Channels :
       \/ NewRecording(c) \/ Answer(c) \/ PassOn(c)
       \/ \E k \in Sides, t \in 1..MaxClock, kept \in BOOLEAN : Hear(c, k, t, kept)
       \/ RtpRecording(c) \/ WriteFile(c) \/ WriteFails(c)
       \/ OtherStep(c)
  \/ (Kill \/ KillStep \/ Tick) /\ UNCHANGED recVars

RecordingSpec == RecordingInit /\ [][RecordingNext]_recordingVars

\* The threads are scheduled, the RTP thread up to its last file, and time passes; no
\* session has to stop its channel and no packet has to arrive.
FairRecordingSpec ==
  /\ RecordingSpec
  /\ \A c \in Channels :
       /\ WF_recordingVars(StartStep(c) /\ UNCHANGED recVars)
       /\ WF_recordingVars(RtpStep(c) /\ RtpRecording(c))
       /\ WF_recordingVars(RtcpStep(c) /\ UNCHANGED recVars)
       /\ WF_recordingVars(StopRemove(c) /\ UNCHANGED recVars)
       /\ WF_recordingVars(WriteFile(c))
  /\ WF_recordingVars(KillStep /\ UNCHANGED recVars)
  /\ WF_recordingVars(Tick /\ UNCHANGED recVars)

------------------------------------------------------------------------------
(* What the recordings promise.                                             *)

\* What was heard of k at time t.
HeardAt(c, k, t) ==
  IF \E i \in 1..Len(heard[c][k]) : heard[c][k][i].at = t THEN Speech[k][t] ELSE Silence

\* What k said was received once each, without a gap, and kept as a whole.
Gapless(c, k) ==
  \A i \in 1..Len(heard[c][k]) : heard[c][k][i] = [at |-> first[c][k] + i - 1, kept |-> TRUE]

Value(x) == x[1] + 256 * x[2]

\* The combined recording lets every moment of the call be heard as it was, both parties
\* at their time and their sum where they spoke together, whoever was heard first
\* (AlgChannel.java:78-114).  That the bytes are added each by itself shows where
\* the low ones carry; and a party of which a packet was lost, or left out for its
\* type, is heard too early from then on.
CombinedIsTheCall ==
  \A c \in Channels :
    writer[c] = "done" /\ (\A k \in Sides : Gapless(c, k)) =>
      LET start0 == IF first[c]["caller"] < first[c]["callee"]
                    THEN first[c]["caller"] ELSE first[c]["callee"] IN
      \A t \in start0..MaxClock :
        LET x == HeardAt(c, "caller", t)
            y == HeardAt(c, "callee", t) IN
        x[1] + y[1] < 256 =>
          Value(SampleAt(Combined(c), t - start0 + 1)) = (Value(x) + Value(y)) % 65536

\* A call that was to be recorded and in which both parties were heard gets its files,
\* unless the disk fails, whatever ends the channel: its session, a restart, silence or
\* a failing socket (AlgChannel.java:195-205).
HeardIsWritten ==
  \A c \in Channels :
    recording[c] /\ (\A k \in Sides : first[c][k] # 0)
      ~> writer[c] \in {"done", "failed"}

==============================================================================
