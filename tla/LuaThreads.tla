----------------------------- MODULE LuaThreads -----------------------------
(***************************************************************************)
(* lua-threads.c: the linked list of the Lua threads nobody uses, and the  *)
(* global variables of each thread.                                        *)
(*                                                                         *)
(* A thread has its own table of globals.  Its metatable notes each new    *)
(* global in a list kept for the coroutine that assigned it, and when the  *)
(* request ends the globals noted for the thread are set to nil.  The      *)
(* callers (accept, worker_process, network_end_process, close_client) are *)
(* the actions; module Connection has their detail, and keeps the list as  *)
(* the sequence that ThreadPool specifies.                                 *)
(*                                                                         *)
(* Left out: malloc failing, the search tree that finds the list of a      *)
(* coroutine (gk is that map), and __main, which runs once in a new thread *)
(* while nothing is noted.                                                 *)
(***************************************************************************)
EXTENDS Naturals, Sequences, FiniteSets

CONSTANTS
  Threads,    \* every thread there may be: MAX_LUA_THREAD_COUNT of them
  Cells,      \* where malloc may put a lua_thread_link_t (bound)
  Null, NoThread,
  Names,      \* global variables scripts assign (bound)
  Unnoted,    \* those __newindex leaves out: 56 bytes or longer, or with an
              \* underscore as first or second of at least two characters
  Moves       \* what else may happen: "abort", "child"

ASSUME CellsAssumption   == Null \notin Cells
ASSUME ThreadsAssumption == NoThread \notin Threads
ASSUME NamesAssumption   == Unnoted \subseteq Names

VARIABLES
  head, tail,  \* lua_thread_head, lua_thread_tail
  link,        \* the cells; one with L = NoThread is not allocated
  made,        \* the threads made so far, lua_thread_count of them
  held,        \* the threads that connections own (epd->L)
  busy,        \* those that serve a request
  env,         \* the globals a thread has beyond those of __main
  gk,          \* the globals noted for the thread itself and for its children
  order        \* auxiliary: the cells of the list, the one released first first

vars == <<head, tail, link, made, held, busy, env, gk, order>>

Coroutine == {"self", "child"}
Cell      == [L : Threads \cup {NoThread}, next : Cells \cup {Null}]
Unused    == [L |-> NoThread, next |-> Null]

-----------------------------------------------------------------------------
(* The list. *)

\* Wrong: the tail is left at the cell that was freed.
TakeHeadOnly ==
  /\ head # Null
  /\ head' = link[head].next
  /\ UNCHANGED tail
  /\ link' = [link EXCEPT ![head] = Unused]
  /\ order' = Tail(order)

\* new_lua_thread, when a thread waits.
TakeHead ==
  /\ head # Null
  /\ head' = IF tail = head THEN Null ELSE link[head].next
  /\ tail' = IF tail = head THEN Null ELSE tail
  /\ link' = [link EXCEPT ![head] = Unused]
  /\ order' = Tail(order)

\* Wrong: threads wait in a stack.
PushHead(x, t) ==
  /\ link' = [link EXCEPT ![x] = [L |-> t, next |-> head]]
  /\ head' = x
  /\ tail' = IF tail = Null THEN x ELSE tail
  /\ order' = Append(order, x)

\* release_lua_thread, the new cell at x.
AddTail(x, t) ==
  /\ link' = [y \in Cells |->
                CASE y = x               -> [L |-> t, next |-> Null]
                  [] y = tail /\ y # x   -> [link[y] EXCEPT !.next = x]
                  [] OTHER               -> link[y]]
  /\ head' = IF tail = Null THEN x ELSE head
  /\ tail' = x
  /\ order' = Append(order, x)

\* Wrong: the new thread is not counted.
NewLuaThreadUncounted(t) ==
  /\ \/ TakeHead /\ t = link[head].L
     \/ head = Null /\ t \notin made /\ UNCHANGED <<head, tail, link, order>>
  /\ held' = held \cup {t}
  /\ UNCHANGED <<made, busy, env, gk>>

\* A connection is accepted, or starts a request, and has no thread yet.
NewLuaThread(t) ==
  /\ \/ TakeHead /\ t = link[head].L /\ UNCHANGED made
     \/ /\ head = Null
        /\ t \notin made
        /\ made' = made \cup {t}
        /\ UNCHANGED <<head, tail, link, order>>
  /\ held' = held \cup {t}
  /\ UNCHANGED <<busy, env, gk>>

\* Wrong: a connection can be closed twice.
CloseClientTwice(t) ==
  /\ t \in made
  /\ t \in busy => "abort" \in Moves
  /\ \E x \in Cells : link[x].L = NoThread /\ AddTail(x, t)
  /\ held' = held \ {t}
  /\ busy' = busy \ {t}
  /\ UNCHANGED <<made, env, gk>>

\* close_client.  With "abort" it may come in the middle of a request, from the
\* timer of a connection whose script is suspended.
CloseClient(t) ==
  /\ t \in held
  /\ t \in busy => "abort" \in Moves
  /\ \E x \in Cells : link[x].L = NoThread /\ AddTail(x, t)
  /\ held' = held \ {t}
  /\ busy' = busy \ {t}
  /\ UNCHANGED <<made, env, gk>>

-----------------------------------------------------------------------------
(* The globals. *)

StartRequest(t) ==
  /\ t \in held \ busy
  /\ busy' = busy \cup {t}
  /\ UNCHANGED <<head, tail, link, made, held, env, gk, order>>

\* l_env_newindex: a global that is nil is assigned by the thread of the request,
\* or by a coroutine that newthread() made for it and that may outlive it.
NewIndex(t, name, who) ==
  /\ IF who = "self" THEN t \in busy ELSE t \in made /\ "child" \in Moves
  /\ name \notin env[t]
  /\ env' = [env EXCEPT ![t] = @ \cup {name}]
  /\ gk' = [gk EXCEPT ![t][who] = IF name \in Unnoted THEN @ ELSE @ \cup {name}]
  /\ UNCHANGED <<head, tail, link, made, held, busy, order>>

\* A global that has a value is set to nil, which notes nothing.
Forget(t, name) ==
  /\ t \in busy
  /\ name \in env[t]
  /\ env' = [env EXCEPT ![t] = @ \ {name}]
  /\ UNCHANGED <<head, tail, link, made, held, busy, gk, order>>

\* Wrong: the lists of its children are dropped with that of the thread.
ReinitDropping(t) ==
  /\ env' = [env EXCEPT ![t] = @ \ gk[t]["self"]]
  /\ gk' = [gk EXCEPT ![t] = [who \in Coroutine |-> {}]]

\* reinit_lua_thread_env
ReinitLuaThreadEnv(t) ==
  /\ env' = [env EXCEPT ![t] = @ \ gk[t]["self"]]
  /\ gk' = [gk EXCEPT ![t]["self"] = {}]

\* Wrong: the globals stay when the connection is about to be closed.
EndProcessKeeping(t) ==
  /\ t \in held
  /\ busy' = busy \ {t}
  /\ ReinitLuaThreadEnv(t) \/ UNCHANGED <<env, gk>>
  /\ UNCHANGED <<head, tail, link, made, held, order>>

\* network_end_process, for a request that was refused as well.
EndProcess(t) ==
  /\ t \in held
  /\ busy' = busy \ {t}
  /\ ReinitLuaThreadEnv(t)
  /\ UNCHANGED <<head, tail, link, made, held, order>>

-----------------------------------------------------------------------------
Init ==
  /\ head = Null /\ tail = Null /\ order = <<>>
  /\ link = [x \in Cells |-> Unused]
  /\ made = {} /\ held = {} /\ busy = {}
  /\ env = [t \in Threads |-> {}]
  /\ gk = [t \in Threads |-> [who \in Coroutine |-> {}]]

Next == \E t \in Threads :
  \/ NewLuaThread(t) \/ CloseClient(t) \/ StartRequest(t) \/ EndProcess(t)
  \/ \E name \in Names : Forget(t, name) \/ \E who \in Coroutine : NewIndex(t, name, who)

Spec == Init /\ [][Next]_vars

-----------------------------------------------------------------------------
(* Properties. *)

TypeOK ==
  /\ head \in Cells \cup {Null} /\ tail \in Cells \cup {Null}
  /\ link \in [Cells -> Cell]
  /\ made \subseteq Threads /\ held \subseteq made /\ busy \subseteq held
  /\ env \in [Threads -> SUBSET Names]
  /\ gk \in [Threads -> [Coroutine -> SUBSET Names]]
  /\ order \in Seq(Cells)

\* The cells from lua_thread_head along next are those released and not taken
\* again, in that order and each once, lua_thread_tail is the last of them, and
\* no other cell is allocated: nothing dangles and nothing leaks
\* (lua-threads.c:108-116, 150-161).
ListIsChain ==
  LET n == Len(order)
  IN  /\ head = IF n = 0 THEN Null ELSE order[1]
      /\ tail = IF n = 0 THEN Null ELSE order[n]
      /\ \A i \in 1..n : link[order[i]].next = IF i = n THEN Null ELSE order[i + 1]
      /\ \A i, j \in 1..n : order[i] = order[j] => i = j
      /\ {order[i] : i \in 1..n} = {x \in Cells : link[x].L # NoThread}

\* The threads of the list wait once each, and are those no connection owns.
ListedOnce ==
  LET n == Len(order)
  IN  /\ \A i, j \in 1..n : link[order[i]].L = link[order[j]].L => i = j
      /\ {link[order[i]].L : i \in 1..n} = made \ held

\* The list is the queue of ThreadPool.
Pool == INSTANCE ThreadPool WITH
          pool <- [i \in 1..Len(order) |-> link[order[i]].L]
PoolSpec == Pool!Spec

\* A global whose name __newindex does not leave out is noted for the thread or
\* for one of its children, whatever was assigned, forgotten and assigned again
\* and however earlier requests of the thread ended.
EveryGlobalNoted ==
  \A t \in Threads : env[t] \ Unnoted \subseteq gk[t]["self"] \cup gk[t]["child"]

\* However the earlier requests of a thread ended, the end of one leaves in it
\* only globals that __newindex does not note, and those its child coroutines
\* assigned: the next request of the thread starts with no others
\* (network_end_process, reinit_lua_thread_env).
EndLeavesClean ==
  [][\A t \in busy : t \in held' \ busy' => env'[t] \subseteq Unnoted \cup gk'[t]["child"]]_vars

=============================================================================
