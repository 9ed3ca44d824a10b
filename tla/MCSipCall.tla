------------------------------ MODULE MCSipCall ------------------------------
(* Small instances of SipCall for TLC.                                      *)
EXTENDS SipCall, TLC

\* The pool's threads are interchangeable.
Symmetry == Permutations(Workers)
==============================================================================
