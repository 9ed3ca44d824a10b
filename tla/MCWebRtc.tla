------------------------------- MODULE MCWebRtc -------------------------------
(* Small instances of WebRtc for TLC.                                       *)
EXTENDS WebRtc

\* Impatient users click on answer twice.
TwoAnswers == [answer |-> 2, terminate |-> 1]
==============================================================================
