------------------------------ MODULE Scripts -------------------------------
(***************************************************************************)
(* Several requests of one worker and what their scripts share: the flag   *)
(* of router() (lua-router.c), package.path (worker.c), the cache of       *)
(* compiled chunks (loadfile and loadtemplate of core.lua) and, through    *)
(* module Require, _LOADED.                                                *)
(*                                                                         *)
(* A script executes until it waits (any call that yields, see Connection) *)
(* or ends; only then does another one start or go on.  The route file of  *)
(* the host is the main chunk, a page is loaded by router() or dofile().   *)
(* A file is read in one step and its time is asked for in another: the    *)
(* one who writes it is another process and may do so in between.          *)
(*                                                                         *)
(* Left out: which rule router() selects, the cache of file lookups, files *)
(* that do not compile, and code_cache_ttl 0, with which nothing is kept.  *)
(***************************************************************************)
EXTENDS Require, FiniteSets

CONSTANTS
  Reqs, NoReq,   \* requests, each in a Lua thread of its own
  Route, Page,   \* the files of a host
  Start0,        \* the time the worker starts
  Changing,      \* the files somebody changes (bound)
  MaxClock, MaxEdits, MaxStarts, MaxOps  \* bounds: time, changes of files,
                                         \* requests, calls of a script

ASSUME FilesAssumption == Files = {Route, Page} /\ NoReq \notin Reqs
ASSUME StartAssumption == Start0 \in Nat \ {0} /\ Changing \subseteq Paths
ASSUME BoundsAssumption == /\ {MaxClock, MaxEdits, MaxStarts, MaxOps} \subseteq Nat
                           /\ Start0 <= MaxClock

VARIABLES
  req,         \* the requests
  cur,         \* the one whose script executes
  lua_routed,
  cache,       \* __CodeCache: the chunk of a file and when it was compared to it
  load,        \* what the script that executes is loading, or NoLoad
  ran,         \* auxiliary: the chunk the last step called, [host, file, v, mtime],
               \* mtime as noted for it, or NoRun
  edits, starts

vars == <<world, tables, nest, got, req, cur, lua_routed, cache, load, ran, edits, starts>>

NoFile  == -1    \* filemtime() of a file that is not there is nil
NoEntry == [v |-> 0, checked |-> 0, mtime |-> NoFile]   \* checked 0: there is none
IdleReq == [state |-> "idle", host |-> None, routed |-> 0, refused |-> FALSE,
            slept |-> FALSE, ops |-> 0, frames |-> <<>>]

NoLoad  == [file |-> None, keep |-> FALSE, orDie |-> FALSE, v |-> 0, phase |-> "none"]
NoRun   == [host |-> None, file |-> None, v |-> 0, mtime |-> NoFile]

Mtime(h, f) == IF <<h, f>> \in gone THEN NoFile ELSE disk[<<h, f>>][Version(h, f)].mtime

Executes(r) == cur = r /\ nest = <<>> /\ load = NoLoad
MayCall(r)  == Executes(r) /\ req[r].ops < MaxOps
Called(r)   == [req[r] EXCEPT !.ops = @ + 1]

\* A step that neither requires nor loads nor calls a chunk.
Quiet == NoRequire /\ ran' = NoRun /\ UNCHANGED load

-----------------------------------------------------------------------------
(* loadfile and loadtemplate of core.lua. *)

Old(e) == e.checked # 0 /\ clock - e.checked > TTL

\* The comparison of an old entry with its file raises an error: the file is not
\* there now, or was not when loadtemplate made the entry.
CompareFails(h, f) ==
  LET e == cache[<<h, f>>] IN Old(e) /\ (Mtime(h, f) = NoFile \/ e.mtime = NoFile)

\* Wrong: a chunk that was loaded is called for ever.
HitForEver(h, f) == cache[<<h, f>>].v # 0

\* The chunk of the cache is called if it is not old or the file is not newer.
Hit(h, f) ==
  LET e == cache[<<h, f>>] IN e.v # 0 /\ ~ (Old(e) /\ Mtime(h, f) > e.mtime)

\* The entry of a file after the comparison: not old any more if the file is not newer.
Compared(h, f) ==
  LET e == cache[<<h, f>>]
  IN  IF Old(e) /\ Mtime(h, f) <= e.mtime THEN [e EXCEPT !.checked = clock] ELSE e

\* Wrong: setfenv only when the chunk is compiled.
EnvOfCompiled(r, h, f, v) == IF cache[<<h, f>>].v = v THEN NoReq ELSE r

\* setfenv(f1, _G): the globals of the request, for a chunk of the cache as well.
Env(r, h, f, v) == r

\* The frames of a request as setfenv of version v of file f leaves them: a chunk
\* under execution is the one in the cache if it is the same version.
Reset(frames, f, v, env) ==
  [i \in DOMAIN frames |-> IF frames[i].file = f /\ frames[i].v = v
                           THEN [frames[i] EXCEPT !.env = env] ELSE frames[i]]

\* Request r, otherwise as q, calls version v of file f, whose noted time is mtime.
CallChunk(r, q, f, v, mtime) ==
  LET h    == q.host
      env  == Env(r, h, f, v)
      new  == [file |-> f, v |-> v, env |-> env, fresh |-> TRUE]
  IN  /\ req' = [s \in Reqs |->
                   IF s = r THEN [q EXCEPT !.frames = Append(Reset(@, f, v, env), new)]
                   ELSE IF req[s].host = h
                        THEN [req[s] EXCEPT !.frames = Reset(@, f, v, env)]
                        ELSE req[s]]
      /\ cur' = r
      /\ load' = NoLoad
      /\ ran' = [host |-> h, file |-> f, v |-> v, mtime |-> mtime]

\* Wrong: a request whose script ended counts as one that goes on.
OverAtWork(r) == req' = [req EXCEPT ![r].state = "run"] /\ cur' = NoReq

\* The script of request r ends, with or without an error.
Over(r) == req' = [req EXCEPT ![r] = IdleReq] /\ cur' = NoReq

\* Request r, otherwise as q, calls loadfile for f, or loadtemplate, which keeps an
\* entry for a missing file as well.  orDie: the script ends if f cannot be read.
LoadFile(r, q, f, keep, orDie) ==
  LET h == q.host
  IN  \/ /\ CompareFails(h, f)
         /\ Over(r)
         /\ ran' = NoRun
         /\ UNCHANGED <<cache, load>>
      \/ /\ ~ CompareFails(h, f)
         /\ cache' = [cache EXCEPT ![<<h, f>>] = Compared(h, f)]
         /\ \/ /\ Hit(h, f)
               /\ CallChunk(r, q, f, cache[<<h, f>>].v, cache[<<h, f>>].mtime)
            \/ /\ ~ Hit(h, f)
               /\ load' = [file |-> f, keep |-> keep, orDie |-> orDie, v |-> 0,
                           phase |-> "read"]
               /\ req' = [req EXCEPT ![r] = q] /\ cur' = r
               /\ ran' = NoRun

\* The file is read and compiled, or is not there: then loadfile is over.
ReadFile(r) ==
  LET p == <<req[r].host, load.file>>
  IN  /\ cur = r /\ load.phase = "read"
      /\ \/ /\ p \notin gone \/ load.keep
            /\ load' = [load EXCEPT !.phase = "stat",
                                    !.v = IF p \in gone THEN 0 ELSE Version(p[1], p[2])]
            /\ UNCHANGED <<req, cur>>
         \/ /\ p \in gone /\ ~ load.keep
            /\ load' = NoLoad
            /\ IF load.orDie THEN Over(r) ELSE UNCHANGED <<req, cur>>
      /\ ran' = NoRun
      /\ NoRequire
      /\ UNCHANGED <<world, lua_routed, cache, edits, starts>>

\* The chunk is stored with the time of the file that is there now, and called.
StatFile(r) ==
  LET h == req[r].host
      f == load.file
  IN  /\ cur = r /\ load.phase = "stat"
      /\ cache' = [cache EXCEPT ![<<h, f>>] =
                     [v |-> load.v, checked |-> clock, mtime |-> Mtime(h, f)]]
      /\ \/ load.v # 0 /\ CallChunk(r, req[r], f, load.v, Mtime(h, f))
         \/ /\ load.v = 0
            /\ load' = NoLoad /\ ran' = NoRun
            /\ UNCHANGED <<req, cur>>
      /\ NoRequire
      /\ UNCHANGED <<world, lua_routed, edits, starts>>

-----------------------------------------------------------------------------
(* The life of a request. *)

\* Wrong: package.path is set when the worker starts.
StartKeepingPath(r, h) ==
  /\ cur = NoReq /\ req[r].state = "idle"
  /\ starts < MaxStarts /\ starts' = starts + 1
  /\ lua_routed' = FALSE
  /\ LoadFile(r, [IdleReq EXCEPT !.state = "run", !.host = h], Route, FALSE, TRUE)
  /\ NoRequire
  /\ UNCHANGED <<clock, disk, gone, path, edits>>

\* Wrong: the flag stays as the last request left it.
StartRouted(r, h) ==
  /\ cur = NoReq /\ req[r].state = "idle"
  /\ starts < MaxStarts /\ starts' = starts + 1
  /\ path' = h
  /\ LoadFile(r, [IdleReq EXCEPT !.state = "run", !.host = h], Route, FALSE, TRUE)
  /\ NoRequire
  /\ UNCHANGED <<clock, disk, gone, lua_routed, edits>>

\* worker_process, and process() of core.lua.
Start(r, h) ==
  /\ cur = NoReq /\ req[r].state = "idle"
  /\ starts < MaxStarts /\ starts' = starts + 1
  /\ path' = h
  /\ lua_routed' = FALSE
  /\ LoadFile(r, [IdleReq EXCEPT !.state = "run", !.host = h], Route, FALSE, TRUE)
  /\ NoRequire
  /\ UNCHANGED <<clock, disk, gone, edits>>

\* router() finds a function among the rules, nothing, or a file to be executed.
Router(r) ==
  /\ MayCall(r) /\ Len(req[r].frames) = 1
  /\ ~ lua_routed
  /\ lua_routed' = TRUE
  /\ LET q == [Called(r) EXCEPT !.routed = @ + 1]
     IN  \/ req' = [req EXCEPT ![r] = q] /\ ran' = NoRun /\ UNCHANGED <<cur, cache, load>>
         \/ LoadFile(r, q, Page, FALSE, TRUE)
  /\ NoRequire
  /\ UNCHANGED <<world, edits, starts>>

\* router() has routed already, it says.
RouterRefuses(r) ==
  /\ MayCall(r)
  /\ lua_routed
  /\ req' = [req EXCEPT ![r] = [Called(r) EXCEPT !.refused = TRUE]]
  /\ Quiet
  /\ UNCHANGED <<world, cur, lua_routed, cache, edits, starts>>

\* dofile() or dotemplate() of the page.
DoFile(r, keep) ==
  /\ MayCall(r) /\ Len(req[r].frames) = 1
  /\ LoadFile(r, Called(r), Page, keep, FALSE)
  /\ NoRequire
  /\ UNCHANGED <<world, lua_routed, edits, starts>>

\* The page returns to the route file.
ReturnFromPage(r) ==
  /\ Executes(r) /\ Len(req[r].frames) = 2
  /\ req' = [req EXCEPT ![r].frames = SubSeq(@, 1, 1)]
  /\ Quiet
  /\ UNCHANGED <<world, cur, lua_routed, cache, edits, starts>>

\* A step of require().  "late" is a script that requires after it has waited.
RequireOf(r) ==
  /\ cur = r /\ load = NoLoad
  /\ IF nest = <<>> THEN /\ MayCall(r)
                         /\ req[r].slept => "late" \in Moves
                         /\ req' = [req EXCEPT ![r] = Called(r)]
     ELSE UNCHANGED req
  /\ RequireStep(req[r].host)
  /\ ran' = NoRun
  /\ UNCHANGED <<world, cur, lua_routed, cache, load, edits, starts>>

\* A call that yields, and the end of the wait.
Sleep(r) ==
  /\ MayCall(r)
  /\ req' = [req EXCEPT ![r] = [Called(r) EXCEPT
               !.state = "sleep", !.slept = TRUE,
               !.frames = [i \in DOMAIN @ |-> [@[i] EXCEPT !.fresh = FALSE]]]]
  /\ cur' = NoReq
  /\ Quiet
  /\ UNCHANGED <<world, lua_routed, cache, edits, starts>>

Resume(r) ==
  /\ cur = NoReq /\ req[r].state = "sleep"
  /\ req' = [req EXCEPT ![r].state = "run"]
  /\ cur' = r
  /\ Quiet
  /\ UNCHANGED <<world, lua_routed, cache, edits, starts>>

End(r) ==
  /\ Executes(r)
  /\ Over(r)
  /\ Quiet
  /\ UNCHANGED <<world, lua_routed, cache, edits, starts>>

-----------------------------------------------------------------------------
(* External: time passes, and somebody changes files. *)

\* The time a script sees is set by the event loop, so it stands while one executes.
Tick ==
  /\ cur = NoReq
  /\ clock < MaxClock
  /\ clock' = clock + 1
  /\ Quiet
  /\ UNCHANGED <<disk, gone, path, req, cur, lua_routed, cache, edits, starts>>

\* A file is written, or replaced by one that keeps an old time, at any moment.
Edit(p) ==
  /\ edits < MaxEdits
  /\ edits' = edits + 1
  /\ \E mtime \in {Start0, clock} :
       disk' = [disk EXCEPT ![p] = Append(@, [at |-> clock, mtime |-> mtime])]
  /\ gone' = gone \ {p}
  /\ Quiet
  /\ UNCHANGED <<clock, path, req, cur, lua_routed, cache, starts>>

Delete(p) ==
  /\ "delete" \in Moves
  /\ p \notin gone
  /\ edits < MaxEdits
  /\ edits' = edits + 1
  /\ gone' = gone \cup {p}
  /\ Quiet
  /\ UNCHANGED <<clock, disk, path, req, cur, lua_routed, cache, starts>>

-----------------------------------------------------------------------------
Init ==
  /\ clock = Start0
  /\ disk = [p \in Paths |-> <<[at |-> Start0, mtime |-> Start0]>>]
  /\ gone = {}
  /\ path \in Hosts
  /\ InitRequire
  /\ req = [r \in Reqs |-> IdleReq]
  /\ cur = NoReq
  /\ lua_routed = FALSE
  /\ cache = [p \in Hosts \X Files |-> NoEntry]
  /\ load = NoLoad
  /\ ran = NoRun
  /\ edits = 0 /\ starts = 0

Next ==
  \/ \E r \in Reqs :
       \/ \E h \in Hosts : Start(r, h)
       \/ Router(r) \/ RouterRefuses(r)
       \/ \E keep \in BOOLEAN : DoFile(r, keep)
       \/ ReadFile(r) \/ StatFile(r)
       \/ ReturnFromPage(r) \/ RequireOf(r) \/ Sleep(r) \/ Resume(r) \/ End(r)
  \/ Tick
  \/ \E p \in Changing : Edit(p) \/ Delete(p)

Spec == Init /\ [][Next]_vars

-----------------------------------------------------------------------------
(* Properties. *)

\* What each variable may hold.  A script that does not execute or sleep has no
\* chunks; one that does has the route file, unless it is loading it, and at most
\* one page; modules are under execution, and files loaded, only while a script is.
TypeOK ==
  /\ clock \in Start0..MaxClock /\ gone \subseteq Changing /\ path \in Hosts
  /\ \A p \in Paths : disk[p] # <<>>
  /\ DOMAIN loaded = Keys /\ tbuf \in Keys \cup {None}
  /\ \A k \in DOMAIN ttls : ttls[k] \in 0..Word - 1
  /\ cur = NoReq => nest = <<>> /\ load = NoLoad
  /\ load # NoLoad =>
       /\ load.phase \in {"read", "stat"} /\ load.file \in Files /\ nest = <<>>
       /\ load.v \in 0..Version(req[cur].host, load.file)
  /\ \A r \in Reqs :
       LET q == req[r]
       IN  /\ q.state = "idle" => q = IdleReq
           /\ q.state # "idle" => Len(q.frames) \in 0..2 /\ q.host \in Hosts
           /\ q.state # "idle" /\ q.frames = <<>> => cur = r /\ load.file = Route
           /\ q.state = "run" <=> cur = r
           /\ \A i \in DOMAIN q.frames : q.frames[i].v \in 1..Version(q.host, q.frames[i].file)
  /\ \A p \in Hosts \X Files :
       cache[p].v # 0 => cache[p].v \in DOMAIN disk[p] /\ cache[p].checked \in Start0..clock
  /\ lua_routed \in BOOLEAN /\ edits \in 0..MaxEdits /\ starts \in 0..MaxStarts

\* router() refuses a script only what it may not do twice, and lets it do it only
\* once, until the script waits.  After that the answers are those of another
\* request (lua-router.c:8, worker.c:477).
RoutedOnce ==
  \A r \in Reqs : req[r].slept \/ /\ req[r].refused => req[r].routed > 0
                                  /\ req[r].routed <= 1

\* Until it waits, a chunk sees the global variables of the request it executes
\* for, although it is one object for all of them (core.lua:471, 511).  After a
\* wait they are those of the request that loaded it last.
OwnGlobals ==
  \A r \in Reqs : \A i \in DOMAIN req[r].frames :
    req[r].frames[i].fresh => req[r].frames[i].env = r

\* A chunk is not called when it was replaced more than TTL seconds before, unless
\* a file has come since that is not newer than the time noted for the chunk.  That
\* is the time of the file that was there after the reading (core.lua:458, 467): an
\* edit between the two goes unseen, but only until a file comes with a later time.
CodeFresh ==
  ran # NoRun =>
    LET file == disk[<<ran.host, ran.file>>]
    IN  \A v \in ran.v + 1 .. Len(file) :
          (\A w \in v..Len(file) : file[w].mtime > ran.mtime) => file[v].at + TTL >= clock

=============================================================================
