------------------------------ MODULE MCVhosts ------------------------------
(***************************************************************************)
(* A small instance of Vhosts for TLC: '*', a wildcard, a longer wildcard  *)
(* it covers, and an exact name both cover.  Every rule has a root of its  *)
(* own, in two versions.                                                   *)
(***************************************************************************)
EXTENDS Vhosts, TLC

MCHosts == {<<"*">>, <<"*", "z">>, <<"*", "a", "z">>, <<"b", "a", "z">>}
MCAsked == {<<"b", "a", "z">>, <<"c", "z">>, <<"c", "c">>}
MCRoots == {<<h, v>> : h \in MCHosts, v \in 1..2}

Rules(S, v)  == [h \in S |-> <<h, v>>]
File(S, v, a) == [ok |-> TRUE, auto |-> a, hosts |-> Rules(S, v)]

MCFirsts == {File({<<"*">>, <<"*", "z">>}, 1, 10), File({<<"*">>, <<"b", "a", "z">>}, 1, 10),
             File({<<"*", "z">>, <<"*", "a", "z">>}, 1, 0), File({}, 1, 10)}
MCFiles  == MCFirsts
            \cup {File(S, 1, 10) : S \in SUBSET MCHosts}
            \cup {File(S, 2, 10) : S \in {T \in SUBSET MCHosts : <<"b", "a", "z">> \in T}}
            \cup {File({<<"b", "a", "z">>}, 1, a) : a \in 0..1}
            \cup {[ok |-> FALSE, auto |-> 0, hosts |-> Rules({}, 1)]}

Symmetric == Permutations(Cells)

=============================================================================
