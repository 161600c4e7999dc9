------------------------------- MODULE Vhosts -------------------------------
(***************************************************************************)
(* vhost.c: the list of virtual hosts a worker looks up for each request,  *)
(* and its reloading from the configuration file by a timer.               *)
(*                                                                         *)
(* The list holds exact names first, then names that begin with '*', then  *)
(* '*' itself, and the first match is the answer.  A cell is never freed:  *)
(* a host that left the configuration stays with mtype -1.  Loading and    *)
(* looking up walk the list one cell per step; neither returns to the      *)
(* event loop before its end, so nothing else happens in between.          *)
(*                                                                         *)
(* A wildcard inserted while '*' is alone in the list is lost: it is put   *)
(* before '*', but vhost_conf_head still points to '*' (vhost.c:198-206).  *)
(* Its cell stays allocated, and the next load allocates another.          *)
(*                                                                         *)
(* Left out: names and roots too long for a cell, limits and paths of the  *)
(* configuration (they are plain values), and the walk that assigns prev   *)
(* anew when a load begins, to the values it has.                          *)
(***************************************************************************)
EXTENDS Integers, Sequences, FiniteSets

CONSTANTS
  Hosts,         \* names of rules
  Asked,         \* names clients ask for
  Roots, Default,
  Cells, Null,   \* where malloc may put a vhost_conf_t (bound)
  Files,         \* contents the configuration file may be given: [ok, auto, hosts]
  Firsts,        \* those it may have when the server starts; no host, auto 0
                 \* stands for a file that cannot be loaded
  MaxEdits       \* bound on how often the file is written

VARIABLES
  node,        \* the cells: [host, root, mtype, prev, next]; host <<>> if not allocated
  head, last,  \* vhost_conf_head; last_vcf of the load under way
  file,        \* what is in the configuration file
  auto,        \* auto_reload_vhost_router, in seconds as configured
  timer,       \* update_timeout_ptr is set
  conf,        \* host_route as of the last load
  todo,        \* the hosts of conf that lua_next has yet to list
  walk,        \* what get_vhost_conf looks for: [ask, host], or NoWalk
  at,          \* the cell it looks at
  answer,      \* the last root get_vhost_root returned
  edits,
  order,       \* auxiliary: the cells of the list, first first
  lone         \* auxiliary: no name but '*' was in the list when the load began

vars == <<node, head, last, file, auto, timer, conf, todo, walk, at, answer, edits, order, lone>>

Listed == {order[i] : i \in 1..Len(order)}

\* Some cell of the list answers for h.
Found(h) == \E x \in Listed : node[x].host = h /\ node[x].mtype # -1

\* The rules loaded, without those that are lost.
Live == [h \in {g \in DOMAIN conf : g \in todo \/ Found(g)} |-> conf[h]]

\* The table the rest of a worker may rely on.
Table     == INSTANCE VhostTable WITH routes <- Live
TableSpec == Table!Spec

Star         == Table!Star
IsWild(rule) == Table!IsWild(rule)

Kind(rule) == IF IsWild(rule) THEN 1 ELSE 0
Free       == [host |-> <<>>, root |-> Default, mtype |-> -1, prev |-> Null, next |-> Null]
NoWalk     == [ask |-> FALSE, host |-> <<>>]
Idle       == todo = {} /\ walk = NoWalk

ASSUME CellsAssumption == Null \notin Cells
ASSUME HostsAssumption ==
  \A h \in Hosts : h \in Seq(STRING) /\ Len(h) > 0 /\ (Len(h) = 1 => h = Star)
ASSUME AskedAssumption ==
  \A h \in Asked : h \in Seq(STRING) /\ Len(h) > 0 /\ ~ IsWild(h)
ASSUME FilesAssumption ==
  /\ Files \subseteq [ok : BOOLEAN, auto : Nat, hosts : Table!Configs]
  /\ Firsts \subseteq {f \in Files : f.ok}

-----------------------------------------------------------------------------
(* The configuration file. *)

\* External: somebody writes the file.  It is read at once, so that what is
\* written during a load is as if it were written after it.
Edit ==
  /\ Idle
  /\ edits < MaxEdits
  /\ edits' = edits + 1
  /\ \E f \in Files : file' = f
  /\ UNCHANGED <<node, head, last, auto, timer, conf, todo, walk, at, answer, order, lone>>

\* Bound: malloc has cells for the hosts it will be asked for.
Room == Cardinality({x \in Cells : node[x].host = <<>>})
          >= Cardinality(DOMAIN file.hosts \ {node[x].host : x \in Listed})

\* timeout_handle and the beginning of update_vhost_routes.  A file with an error
\* changes nothing, and with auto 0 the timer only arms itself again.  Only the list
\* is walked: a cell that is lost keeps its mtype and root.
Timeout ==
  /\ Idle /\ timer /\ auto > 0
  /\ file.ok /\ Room
  /\ last' = IF head = Null THEN Null
             ELSE CHOOSE x \in Listed : node[x].next = Null
  /\ auto' = file.auto
  /\ conf' = file.hosts
  /\ todo' = DOMAIN file.hosts
  /\ node' = [x \in Cells |-> IF x \in Listed THEN [node[x] EXCEPT !.mtype = -1] ELSE node[x]]
  /\ lone' = \A x \in Listed : node[x].host = Star
  /\ UNCHANGED <<head, file, timer, walk, at, answer, edits, order>>

-----------------------------------------------------------------------------
(* get_vhost_conf: a walk along the list. *)

LoadEntry ==
  /\ walk = NoWalk
  /\ \E h \in todo : walk' = [ask |-> FALSE, host |-> h]
  /\ at' = head
  /\ UNCHANGED <<node, head, last, file, auto, timer, conf, todo, answer, edits, order, lone>>

\* worker_process asks for the root of the host of a request.
Ask(host) ==
  /\ Idle
  /\ walk' = [ask |-> TRUE, host |-> host]
  /\ at' = head
  /\ UNCHANGED <<node, head, last, file, auto, timer, conf, todo, answer, edits, order, lone>>

\* Wrong: a host that left the configuration still answers.
MatchesRemoved(x) ==
  \/ node[x].host = walk.host
  \/ walk.ask /\ node[x].mtype = 1 /\ Table!Covers(node[x].host, walk.host)

\* A load looks for the very name, among the cells of removed hosts as well.
Matches(x) ==
  /\ walk.ask => node[x].mtype # -1
  /\ \/ node[x].host = walk.host
     \/ walk.ask /\ node[x].mtype = 1 /\ Table!Covers(node[x].host, walk.host)

Advance ==
  /\ walk # NoWalk /\ at # Null
  /\ ~ Matches(at)
  /\ at' = node[at].next
  /\ UNCHANGED <<node, head, last, file, auto, timer, conf, todo, walk, answer, edits, order, lone>>

\* get_vhost_root
Answer ==
  /\ walk.ask
  /\ at # Null => Matches(at)
  /\ answer' = IF at = Null THEN Default ELSE node[at].root
  /\ walk' = NoWalk /\ at' = Null
  /\ UNCHANGED <<node, head, last, file, auto, timer, conf, todo, edits, order, lone>>

EndEntry ==
  /\ todo' = todo \ {walk.host}
  /\ walk' = NoWalk /\ at' = Null
  /\ UNCHANGED <<file, auto, timer, conf, answer, edits, lone>>

-----------------------------------------------------------------------------
(* update_vhost_routes, an entry of host_route. *)

\* Wrong: the root of a host that is known stays.
UpdateKeepingRoot ==
  /\ walk # NoWalk /\ ~ walk.ask /\ at # Null /\ Matches(at)
  /\ node' = [node EXCEPT ![at].mtype = Kind(walk.host)]
  /\ EndEntry
  /\ UNCHANGED <<head, last, order>>

\* Wrong: a host that comes back is taken for an exact name.
UpdateAsExact ==
  /\ walk # NoWalk /\ ~ walk.ask /\ at # Null /\ Matches(at)
  /\ node' = [node EXCEPT ![at].mtype = 0, ![at].root = conf[walk.host]]
  /\ EndEntry
  /\ UNCHANGED <<head, last, order>>

Update ==
  /\ walk # NoWalk /\ ~ walk.ask /\ at # Null /\ Matches(at)
  /\ node' = [node EXCEPT ![at].mtype = Kind(walk.host), ![at].root = conf[walk.host]]
  /\ EndEntry
  /\ UNCHANGED <<head, last, order>>

AddFirst(x, new) ==
  /\ node' = [node EXCEPT ![x] = new]
  /\ head' = x /\ last' = x
  /\ order' = <<x>>

AddHead(x, new) ==
  /\ node' = [node EXCEPT ![x] = [new EXCEPT !.next = head], ![head].prev = x]
  /\ head' = x
  /\ order' = <<x>> \o order
  /\ UNCHANGED last

AddTail(x, new) ==
  /\ node' = [node EXCEPT ![x] = [new EXCEPT !.prev = last], ![last].next = x]
  /\ last' = x
  /\ order' = Append(order, x)
  /\ UNCHANGED head

\* Wrong: the cell before is not linked to the new one.
AddBeforeUnlinked(x, new) ==
  /\ node' = [node EXCEPT ![x] = [new EXCEPT !.prev = node[last].prev, !.next = last],
                          ![last].prev = x]
  /\ order' = SubSeq(order, 1, Len(order) - 1) \o <<x, last>>
  /\ UNCHANGED <<head, last>>

\* Wrong: a wildcard goes to the end, behind '*'.
AddAfterLast(x, new) == AddTail(x, new)

\* The new cell becomes the last but one, and is lost when the last is the head:
\* then p is Null or the cell lost before it.
AddBeforeLast(x, new) ==
  LET p == node[last].prev
  IN  /\ node' = [y \in Cells |->
                    CASE y = x    -> [new EXCEPT !.prev = p, !.next = last]
                      [] y = last -> [node[y] EXCEPT !.prev = x]
                      [] y = p /\ y # x /\ y # last -> [node[y] EXCEPT !.next = x]
                      [] OTHER    -> node[y]]
      /\ order' = IF last = head THEN order
                  ELSE SubSeq(order, 1, Len(order) - 1) \o <<x, last>>
      /\ UNCHANGED <<head, last>>

Insert ==
  /\ walk # NoWalk /\ ~ walk.ask /\ at = Null
  /\ \E x \in Cells :
       /\ node[x].host = <<>>
       /\ LET new == [Free EXCEPT !.host = walk.host, !.root = conf[walk.host],
                                  !.mtype = Kind(walk.host)]
          IN  IF head = Null THEN AddFirst(x, new)
              ELSE IF ~ IsWild(walk.host) THEN AddHead(x, new)
              ELSE IF Len(node[last].host) > 1 THEN AddTail(x, new)
              ELSE AddBeforeLast(x, new)
  /\ EndEntry

-----------------------------------------------------------------------------
\* The server starts: update_vhost_routes is called with an empty list.
Init ==
  /\ node = [x \in Cells |-> Free]
  /\ head = Null /\ last = Null /\ order = <<>>
  /\ file \in Firsts
  /\ auto = file.auto
  /\ timer = (file.auto >= 10)
  /\ conf = file.hosts
  /\ todo = DOMAIN file.hosts
  /\ walk = NoWalk /\ at = Null
  /\ answer = Default
  /\ edits = 0 /\ lone = TRUE

Load == LoadEntry \/ Update \/ Insert

Next == \/ Edit \/ Timeout \/ Load \/ Advance \/ Answer
        \/ \E host \in Asked : Ask(host)

Spec == Init /\ [][Next]_vars

-----------------------------------------------------------------------------
(* Properties. *)

TypeOK ==
  /\ node \in [Cells -> [host : Hosts \cup {<<>>}, root : Roots \cup {Default},
                         mtype : {-1, 0, 1}, prev : Cells \cup {Null},
                         next : Cells \cup {Null}]]
  /\ \A x \in Cells : node[x].mtype # -1 => node[x].host # <<>> /\ node[x].mtype = Kind(node[x].host)
  /\ head \in Cells \cup {Null} /\ last \in Cells \cup {Null}
  /\ file \in Files /\ auto \in Nat /\ timer \in BOOLEAN
  /\ conf \in Table!Configs /\ todo \subseteq DOMAIN conf
  /\ walk \in [ask : BOOLEAN, host : Hosts \cup Asked \cup {<<>>}]
  /\ at \in Cells \cup {Null}
  /\ answer \in Roots \cup {Default}
  /\ edits \in Nat /\ order \in Seq(Cells) /\ lone \in BOOLEAN

\* The cells from vhost_conf_head along next are each there once, and prev leads
\* back, so that the next insertion finds its place (vhost.c:187-213).  A cell that
\* was allocated is never lost unless it is a wildcard's, put before a lone '*'; a
\* lost cell is not linked to from the list, but by the prev of its first cell.
ListIsWhole ==
  LET n    == Len(order)
      lost == {x \in Cells : node[x].host # <<>>} \ Listed
  IN  /\ head = IF n = 0 THEN Null ELSE order[1]
      /\ \A i \in 1..n : node[order[i]].next = IF i = n THEN Null ELSE order[i + 1]
      /\ \A i \in 1..n : IF i = 1 THEN node[order[i]].prev \in lost \cup {Null}
                                   ELSE node[order[i]].prev = order[i - 1]
      /\ \A i, j \in 1..n : order[i] = order[j] => i = j
      /\ \A x \in Listed : node[x].host # <<>>
      /\ \A x \in lost : IsWild(node[x].host) /\ node[x].host # Star

\* Along the list exact names come before wildcards and '*' comes last, and each
\* name occurs once in it, although hosts are removed and come back (a name that
\* was lost has cells outside the list as well).
ListInOrder ==
  \A i, j \in 1..Len(order) :
    LET h == node[order[i]].host
        g == node[order[j]].host
    IN  i < j => h # g /\ h # Star /\ (IsWild(h) => IsWild(g))

\* Between loads the list answers for the hosts of the last configuration that
\* had no error, with the roots it names, and for no others.  It may answer for a
\* wildcard of that configuration not at all, but only if '*' is in the list and
\* no other name was when the load began: with any other name in the list a
\* reload finds or inserts every host, those lost before included.
TableIsLoaded ==
  Idle =>
    /\ \A x \in Listed : node[x].mtype # -1 =>
         node[x].host \in DOMAIN conf /\ node[x].root = conf[node[x].host]
    /\ \A h \in DOMAIN conf :
         \/ Found(h)
         \/ lone /\ IsWild(h) /\ h # Star /\ \E x \in Listed : node[x].host = Star

\* Every rule of the last configuration is in the list, as the example beside the
\* server expects of '*' and '*z.com' (host-route.lua:9-10).  It does not hold: a
\* wildcard listed by Lua after a '*' that is alone is lost (vhost.c:199).
EveryRuleAnswers == Idle => \A h \in DOMAIN conf : Found(h)

=============================================================================
