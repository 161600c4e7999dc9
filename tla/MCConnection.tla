---------------------------- MODULE MCConnection ----------------------------
(***************************************************************************)
(* Small instances of Connection for TLC.                                  *)
(***************************************************************************)
EXTENDS Connection, TLC

CONSTANTS c1, c2, t1, t2

NoThreads == <<>>
OneThread == <<t1>>

\* Connections are interchangeable, and so are threads that InitPool does not
\* name.
Symmetric == Permutations(Conns)

=============================================================================
