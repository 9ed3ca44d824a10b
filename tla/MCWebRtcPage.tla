----------------------------- MODULE MCWebRtcPage -----------------------------
(* Small instances of WebRtcPage for TLC.                                   *)
EXTENDS WebRtcPage, TLC

Plan(C, M) == [callers |-> C, mishaps |-> M]

\* Both users may call, and one thing goes wrong on the page of one of them; or one of
\* them calls the other, and one of the two clicks once more.
TroubleOrTwoCalls ==
  {Plan(Users, {<<u, "late">>, <<u, "fail">>, <<u, "reload">>}) : u \in Users}
  \cup {Plan({u}, {<<v, "again">>}) : u, v \in Users}

\* Nothing tells the users apart.
Symmetry == Permutations(Users)
==============================================================================
