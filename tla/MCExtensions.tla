----------------------------- MODULE MCExtensions -----------------------------
(* Small instances of Extensions for TLC.                                   *)
EXTENDS Extensions, TLC

\* Threads, names and numbers are interchangeable.
Symmetry == Permutations(Threads) \cup Permutations(Usernames) \cup Permutations(Numbers)
==============================================================================
