------------------------------ MODULE MCAlgPool ------------------------------
(* Small instances of AlgPool for TLC.                                      *)
EXTENDS AlgPool

\* The ports the search may start at overlap: two channels collide on either port
\* of a pair, and on one of another program.
StartsMC == {1, 2}
ForeignMC == {4}
==============================================================================
