----------------------------- MODULE ThreadPool -----------------------------
(***************************************************************************)
(* What the rest of a worker may rely on of its Lua threads: those nobody  *)
(* uses wait in a queue, the one released first is used first, and a new   *)
(* one is made only when none waits and there may still be more.           *)
(***************************************************************************)
EXTENDS Sequences, Naturals

CONSTANT Threads   \* every thread there may be: MAX_LUA_THREAD_COUNT of them

VARIABLES
  pool,   \* the threads that wait, in the order they were released
  made    \* the threads that exist

Waiting == {pool[i] : i \in 1..Len(pool)}

\* init_lua_threads has made some threads, or none yet, and all of them wait.
Init == /\ pool \in Seq(Threads) /\ made = Waiting
        /\ \A i, j \in 1..Len(pool) : pool[i] = pool[j] => i = j

Take == pool # <<>> /\ pool' = Tail(pool) /\ UNCHANGED made

Make == \E t \in Threads \ made :
          pool = <<>> /\ made' = made \cup {t} /\ UNCHANGED pool

Release == \E t \in made \ Waiting : pool' = Append(pool, t) /\ UNCHANGED made

Next == Take \/ Make \/ Release

Spec == Init /\ [][Next]_<<pool, made>>

=============================================================================
