----------------------------- MODULE MCScripts ------------------------------
(***************************************************************************)
(* Small instances of Scripts for TLC.                                     *)
(***************************************************************************)
EXTENDS Scripts, TLC

CONSTANTS h1, h2, m1, m2

\* Every host and module has a hash slot of its own.
MCSlot  == [key \in Keys |-> CASE key = <<h1, m1>> -> 0
                               [] key = <<h1, m2>> -> 1
                               [] key = <<h2, m1>> -> 2
                               [] key = <<h2, m2>> -> 3]
\* m1 requires m2, or no module requires another.
Nested == [m \in Mods |-> IF m = m1 THEN <<m2>> ELSE <<>>]
Flat   == [m \in Mods |-> <<>>]

MCChanging == {<<h1, Route>>, <<h1, m1>>}

MCFiles   == {Route, Page}
Symmetric == Permutations(Reqs)

=============================================================================
