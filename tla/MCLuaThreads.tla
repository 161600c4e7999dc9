---------------------------- MODULE MCLuaThreads ----------------------------
(***************************************************************************)
(* Small instances of LuaThreads for TLC.                                  *)
(***************************************************************************)
EXTENDS LuaThreads, TLC

\* Threads, cells and noted names are interchangeable.
Symmetric == Permutations(Threads) \cup Permutations(Cells)

=============================================================================
