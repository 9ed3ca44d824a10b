----------------------------- MODULE MCRegistrar -----------------------------
(* Small instances of Registrar for TLC.                                    *)
EXTENDS Registrar, TLC

\* The pool's threads are interchangeable.
Symmetry == Permutations(Workers)
==============================================================================
