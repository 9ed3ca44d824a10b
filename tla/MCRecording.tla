----------------------------- MODULE MCRecording -----------------------------
(* Small instances of Recording for TLC.                                    *)
EXTENDS Recording

\* The low bytes carry where both parties speak at time 2, and nowhere else.
SpeechMC == [caller |-> <<<<100, 1>>, <<200, 2>>, <<50, 3>>>>,
             callee |-> <<<<90, 255>>, <<99, 7>>, <<20, 9>>>>]

\* The first port of a search may be taken.
StartsMC == {1}
ForeignMC == {2}
==============================================================================
