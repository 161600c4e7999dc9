----------------------------- MODULE VhostTable -----------------------------
(***************************************************************************)
(* What the table of virtual hosts promises to the rest of a worker: every *)
(* host it is asked for is answered from the configuration that was loaded *)
(* last, by the rule of that very name if there is one, by '*' only if no  *)
(* other rule covers the host, and by the default if none does.            *)
(***************************************************************************)
EXTENDS Integers, Sequences

CONSTANTS
  Hosts,      \* names of rules: sequences of characters
  Asked,      \* names clients ask for
  Roots, Default

Star == <<"*">>

IsWild(rule) == rule[1] = "*"

\* A rule that begins with '*' covers the hosts that end like the rest of it.
Covers(rule, host) ==
  /\ IsWild(rule)
  /\ Len(host) >= Len(rule) - 1
  /\ SubSeq(rule, 2, Len(rule)) = SubSeq(host, Len(host) - Len(rule) + 2, Len(host))

Configs == UNION {[S -> Roots] : S \in SUBSET Hosts}

VARIABLES
  routes,  \* the rules loaded last, each with the root it names
  answer   \* what the last request was answered

Serving(host) == {w \in DOMAIN routes : w = host \/ Covers(w, host)}

\* The rules one of which has to answer: which of several other wildcards it is
\* depends on the order in which Lua lists them.
Best(host) ==
  IF host \in DOMAIN routes THEN {host}
  ELSE IF Serving(host) = {Star} THEN {Star}
  ELSE Serving(host) \ {Star}

Init == routes \in Configs /\ answer = Default

Load == routes' \in Configs /\ UNCHANGED answer

Ask(host) ==
  /\ IF Serving(host) = {} THEN answer' = Default
     ELSE \E w \in Best(host) : answer' = routes[w]
  /\ UNCHANGED routes

Next == Load \/ \E host \in Asked : Ask(host)

Spec == Init /\ [][Next]_<<routes, answer>>

=============================================================================
