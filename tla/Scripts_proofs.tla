---------------------------- MODULE Scripts_proofs ----------------------------
(***************************************************************************)
(* Theorems about module Scripts, for any number of requests, hosts and    *)
(* modules and for every order of scripts, waits and changes of files.     *)
(*                                                                         *)
(* IInv says of each request, of the file that is being loaded, of each    *)
(* entry of the cache and of the world what a step relies on.  What        *)
(* require() returns is in a second invariant (MInv): it needs assumptions *)
(* that the first does not.                                                *)
(***************************************************************************)
EXTENDS Scripts, TLAPS

-----------------------------------------------------------------------------
(* The invariant. *)

File  == [at : Nat, mtime : Nat]
Frame == [file : Files, v : Nat, env : Reqs, fresh : BOOLEAN]
Request == [state : {"idle", "run", "sleep"}, host : Hosts \cup {None},
            routed : Nat, refused : BOOLEAN, slept : BOOLEAN, ops : Nat,
            frames : Seq(Frame)]
Chunk == [v : Nat, checked : Nat, mtime : Int]

WorldOK == /\ clock \in Start0..MaxClock /\ gone \subseteq Changing /\ path \in Hosts
           /\ disk \in [Paths -> Seq(File)] /\ \A p \in Paths : disk[p] # <<>>

\* A chunk under execution is a version of its file; only the script that executes
\* has chunks that have not waited, with its own globals.
Framed(r, q) ==
  \A i \in 1..Len(q.frames) :
    /\ q.frames[i].v \in 1..Version(q.host, q.frames[i].file)
    /\ q.frames[i].fresh => cur = r /\ q.frames[i].env = r

\* Before it first waits, lua_routed says what the script that executes has done,
\* and package.path is that of its host.
Routed(q) == /\ q.routed = IF lua_routed THEN 1 ELSE 0
             /\ q.refused => q.routed > 0
             /\ path = q.host

Fit(r, q) ==
  /\ q \in Request
  /\ q.state = "idle" => q = IdleReq
  /\ q.state # "idle" => Len(q.frames) \in 0..2 /\ q.host \in Hosts
  /\ q.state # "idle" /\ q.frames = <<>> => cur = r /\ load # NoLoad
  /\ q.state = "run" <=> cur = r
  /\ q.state = "sleep" => q.slept
  /\ Framed(r, q)
  /\ cur = r /\ ~ q.slept => Routed(q)

ReqsOK == /\ cur \in Reqs \cup {NoReq} /\ DOMAIN req = Reqs
          /\ \A r \in Reqs : Fit(r, req[r])
          /\ cur = NoReq => nest = <<>>

Load == [file : Files, keep : BOOLEAN, orDie : BOOLEAN, v : Nat, phase : {"read", "stat"}]

\* What the script that executes is loading: its main chunk, which it must find, or
\* a page.  What was written since it read the file was written now.
LoadOK ==
  load # NoLoad =>
    /\ cur \in Reqs /\ nest = <<>> /\ load \in Load
    /\ Len(req[cur].frames) \in {0, 1}
    /\ req[cur].frames = <<>> => load.file = Route /\ load.orDie /\ ~ load.keep
    /\ load.v <= Version(req[cur].host, load.file)
    /\ load.phase = "stat" =>
         IF load.v = 0 THEN load.keep
         ELSE \A v \in load.v + 1 .. Version(req[cur].host, load.file) :
                disk[<<req[cur].host, load.file>>][v].at = clock

\* Version v and the later ones are newer than the time noted for a chunk.
NewerFrom(p, v, mtime) == \A w \in v..Len(disk[p]) : disk[p][w].mtime > mtime

\* A version missed, if it and all later ones are newer than the time noted, came no
\* earlier than the last comparison with the file.
Behind(p, e) ==
  \A v \in e.v + 1 .. Len(disk[p]) : NewerFrom(p, v, e.mtime) => disk[p][v].at >= e.checked

Sound(p, e) ==
  /\ e \in Chunk
  /\ e.v # 0 => /\ e.v \in 1..Len(disk[p]) /\ e.checked \in Start0..clock
                /\ Behind(p, e)

CacheOK == /\ DOMAIN cache = Hosts \X Files
           /\ \A p \in Hosts \X Files : Sound(p, cache[p])

Slots == {Slot[key] : key \in Keys}

TablesOK == /\ DOMAIN loaded = Keys /\ tbuf \in Keys \cup {None}
            /\ ttls \in [Slots -> 0..Word - 1]

CountsOK == lua_routed \in BOOLEAN /\ edits \in 0..MaxEdits /\ starts \in 0..MaxStarts

IInv == WorldOK /\ ReqsOK /\ LoadOK /\ CacheOK /\ TablesOK /\ CountsOK /\ CodeFresh

-----------------------------------------------------------------------------
(* The cache. *)

LEMMA PathsOfFiles ==
  ASSUME NEW h \in Hosts, NEW f \in Files
  PROVE  <<h, f>> \in Paths /\ <<h, f>> \in Hosts \X Files
BY DEF Paths

LEMMA FilePaths == \A p \in Hosts \X Files : p \in Paths
BY DEF Paths

LEMMA NotEmpty == ASSUME NEW s, Len(s) # 0 PROVE s # <<>>
OBVIOUS

\* The last version of a file.
LEMMA LastVersion ==
  ASSUME WorldOK, NEW p \in Paths
  PROVE  /\ Len(disk[p]) \in Nat \ {0} /\ disk[p][Len(disk[p])] \in File
         /\ \A i \in 1..Len(disk[p]) : disk[p][i] \in File
<1>1. disk[p] \in Seq(File) /\ disk[p] # <<>>
  BY DEF WorldOK
<1>. QED
  BY <1>1

\* After the comparison the entry is as sound as before, and if the chunk is called
\* it is recent.
LEMMA ComparedSound ==
  ASSUME WorldOK, CacheOK, NEW h \in Hosts, NEW f \in Files, ~ CompareFails(h, f)
  PROVE  LET p == <<h, f>>
             e == cache[p]
         IN  /\ Sound(p, Compared(h, f))
             /\ Hit(h, f) => /\ e.v \in Nat \ {0} /\ e.v <= Version(h, f)
                             /\ \A v \in e.v + 1 .. Len(disk[p]) :
                                  NewerFrom(p, v, e.mtime) => disk[p][v].at + TTL >= clock
<1>. DEFINE p == <<h, f>>
            e == cache[p]
            n == Len(disk[p])
            c == Compared(h, f)
<1>1. p \in Paths /\ p \in Hosts \X Files
  BY PathsOfFiles
<1>2. n \in Nat \ {0} /\ \A i \in 1..n : disk[p][i] \in File
  BY <1>1, LastVersion
<1>3. Sound(p, e) /\ e \in Chunk
  BY <1>1 DEF CacheOK, Sound
<1>4. clock \in Nat /\ TTL \in Nat /\ Start0 \in Nat \ {0} /\ clock >= Start0
  BY TTLAssumption, StartAssumption, BoundsAssumption
     DEF TTLAssumption, StartAssumption, BoundsAssumption, WorldOK
<1>5. Version(h, f) = n
  BY DEF Version
<1>6. Hit(h, f) => e.v \in Nat \ {0} /\ e.v <= Version(h, f)
  BY <1>2, <1>3, <1>5 DEF Hit, Sound, Chunk
<1>7. CASE ~ (Old(e) /\ Mtime(h, f) <= e.mtime)
  <2>1. c = e
    BY <1>7 DEF Compared
  <2>2. ASSUME Hit(h, f), NEW v \in e.v + 1 .. n, NewerFrom(p, v, e.mtime)
        PROVE  disk[p][v].at + TTL >= clock
    <3>1. e.v # 0 /\ ~ Old(e)
      <4>1. Mtime(h, f) \in Int /\ e.mtime \in Int
        BY <1>1, <1>3, LastVersion DEF Mtime, NoFile, Version, File, Chunk
      <4>. QED
        BY <1>7, <2>2, <4>1 DEF Hit
    <3>2. e.checked \in Start0..clock /\ clock - e.checked <= TTL /\ Behind(p, e)
      BY <1>3, <1>4, <3>1 DEF Sound, Old, Chunk
    <3>3. disk[p][v].at >= e.checked
      BY <2>2, <3>2 DEF Behind
    <3>4. disk[p][v].at \in Nat
      <4>1. v \in 1..n
        BY <1>2, <1>3, <2>2 DEF Chunk
      <4>. QED
        BY <1>2, <4>1 DEF File
    <3>. QED
      BY <1>4, <3>2, <3>3, <3>4
  <2>. QED
    BY <1>3, <1>6, <2>1, <2>2
<1>8. CASE Old(e) /\ Mtime(h, f) <= e.mtime
  <2>1. c = [e EXCEPT !.checked = clock]
    BY <1>8 DEF Compared
  <2>2. c.v = e.v /\ c.checked = clock /\ c.mtime = e.mtime /\ c \in Chunk
    BY <1>3, <1>4, <2>1 DEF Chunk
  <2>3. p \notin gone
    BY <1>8 DEF CompareFails, Mtime
  <2>4. disk[p][n].mtime \in Nat /\ e.mtime \in Int /\ disk[p][n].mtime <= e.mtime
    BY <1>2, <1>3, <1>5, <1>8, <2>3 DEF Mtime, File, Chunk
  <2>5. \A v \in e.v + 1 .. n : ~ NewerFrom(p, v, e.mtime)
    BY <1>2, <1>3, <2>4 DEF NewerFrom, Chunk
  <2>. HIDE DEF c
  <2>6. Sound(p, c)
    BY <1>3, <1>4, <2>2, <2>5 DEF Sound, Behind
  <2>. QED
    BY <1>6, <2>5, <2>6 DEF c
<1>. QED
  BY <1>7, <1>8

-----------------------------------------------------------------------------
(* Loading a file and calling it. *)

\* setfenv changes the globals of frames, and nothing else.
LEMMA ResetFrames ==
  ASSUME NEW frames \in Seq(Frame), NEW f, NEW v, NEW env \in Reqs
  PROVE  LET g == Reset(frames, f, v, env)
         IN  /\ g \in Seq(Frame) /\ Len(g) = Len(frames)
             /\ \A i \in 1..Len(frames) :
                  /\ g[i].file = frames[i].file /\ g[i].v = frames[i].v
                  /\ g[i].fresh = frames[i].fresh
                  /\ g[i].env \in {frames[i].env, env}
<1>. DEFINE g == Reset(frames, f, v, env)
<1>1. DOMAIN frames = 1..Len(frames) /\ Len(frames) \in Nat
  OBVIOUS
<1>2. g = [i \in 1..Len(frames) |-> IF frames[i].file = f /\ frames[i].v = v
                                    THEN [frames[i] EXCEPT !.env = env] ELSE frames[i]]
  BY <1>1 DEF Reset
<1>3. ASSUME NEW i \in 1..Len(frames)
      PROVE  /\ g[i] \in Frame
             /\ g[i].file = frames[i].file /\ g[i].v = frames[i].v
             /\ g[i].fresh = frames[i].fresh
             /\ g[i].env \in {frames[i].env, env}
  <2>1. frames[i] \in Frame
    OBVIOUS
  <2>2. g[i] \in {[frames[i] EXCEPT !.env = env], frames[i]}
    BY <1>2
  <2>. QED
    BY <2>1, <2>2 DEF Frame
<1>4. g \in Seq(Frame) /\ Len(g) = Len(frames)
  <2>. HIDE DEF g
  <2>1. g = [i \in 1..Len(frames) |-> g[i]]
    BY <1>2
  <2>. QED
    BY <1>1, <1>3, <2>1
<1>. QED
  BY <1>3, <1>4

\* A request of another script, after its chunks got other globals or none.
LEMMA ResetFit ==
  ASSUME NEW s \in Reqs, Fit(s, req[s]), cur # s, cur' # s, disk' = disk,
         NEW f, NEW v, NEW env \in Reqs,
         NEW x, x \in {req[s], [req[s] EXCEPT !.frames = Reset(@, f, v, env)]}
  PROVE  Fit(s, x)'
<1>. DEFINE q == req[s]
            g == Reset(q.frames, f, v, env)
<1>1. q \in Request /\ q.frames \in Seq(Frame)
  BY DEF Fit, Request
<1>2. /\ g \in Seq(Frame) /\ Len(g) = Len(q.frames)
      /\ \A i \in 1..Len(q.frames) :
           g[i].file = q.frames[i].file /\ g[i].v = q.frames[i].v /\ g[i].fresh = q.frames[i].fresh
  BY <1>1, ResetFrames
<1>3. \A i \in 1..Len(q.frames) : ~ q.frames[i].fresh
  BY DEF Fit, Framed
<1>4. q.frames = <<>> => g = <<>>
  BY <1>2
<1>5. q.state # "run" /\ (q.state # "idle" => q.frames # <<>> /\ x.frames # <<>>)
  <2>1. q.state # "run" /\ (q.state # "idle" => q.frames # <<>>)
    BY DEF Fit
  <2>2. x.frames = q.frames \/ x.frames = g
    BY <1>1 DEF Request
  <2>3. q.frames # <<>> => g # <<>>
    BY <1>1, <1>2
  <2>. QED
    BY <2>1, <2>2, <2>3
<1>6. CASE x = q
  <2>1. Framed(s, x)'
    BY <1>3, <1>6 DEF Fit, Framed, Version
  <2>. QED
    BY <1>5, <1>6, <2>1 DEF Fit
<1>7. CASE x = [q EXCEPT !.frames = g]
  <2>. HIDE DEF g
  <2>1. /\ x \in Request /\ x.frames = g /\ x.state = q.state /\ x.host = q.host
        /\ x.slept = q.slept
    BY <1>1, <1>2, <1>7 DEF Request
  <2>2. q.state = "idle" => x = IdleReq
    <3>. SUFFICES ASSUME q.state = "idle" PROVE x = IdleReq
      OBVIOUS
    <3>1. q = IdleReq
      BY DEF Fit
    <3>2. q.frames = <<>>
      BY <3>1 DEF IdleReq
    <3>3. x = [q EXCEPT !.frames = q.frames]
      BY <1>4, <1>7, <3>2
    <3>4. \A z \in Request : [z EXCEPT !.frames = z.frames] = z
      BY DEF Request
    <3>. QED
      BY <1>1, <3>1, <3>3, <3>4
  <2>3. Framed(s, x)'
    BY <1>2, <1>3, <2>1 DEF Fit, Framed, Version
  <2>. QED
    BY <1>2, <1>5, <2>1, <2>2, <2>3 DEF Fit
<1>. QED
  BY <1>6, <1>7 DEF g

\* Request r with contents q may call a chunk.
Ready(r, q) ==
  /\ q \in Request
  /\ q.state = "run" /\ q.host \in Hosts /\ Len(q.frames) \in {0, 1}
  /\ \A i \in 1..Len(q.frames) : /\ q.frames[i].v \in 1..Version(q.host, q.frames[i].file)
                                 /\ q.frames[i].fresh => q.frames[i].env = r
  /\ ~ q.slept => Routed(q)'

\* The request whose script loads the file.
LEMMA CalledFit ==
  ASSUME NEW r \in Reqs, NEW q, Ready(r, q), disk' = disk, cur' = r,
         NEW f \in Files, NEW v \in Nat \ {0}, v <= Version(q.host, f), Version(q.host, f) \in Nat,
         NEW y, y = [q EXCEPT !.frames = Append(Reset(@, f, v, r),
                       [file |-> f, v |-> v, env |-> r, fresh |-> TRUE])]
  PROVE  Fit(r, y)'
<1>. DEFINE new == [file |-> f, v |-> v, env |-> r, fresh |-> TRUE]
            g == Reset(q.frames, f, v, r)
            h == Append(g, new)
            x == [q EXCEPT !.frames = h]
<1>0. /\ q \in Request
      /\ q.state = "run" /\ q.host \in Hosts /\ Len(q.frames) \in {0, 1}
      /\ \A i \in 1..Len(q.frames) : /\ q.frames[i].v \in 1..Version(q.host, q.frames[i].file)
                                     /\ q.frames[i].fresh => q.frames[i].env = r
      /\ ~ q.slept => Routed(q)'
  BY DEF Ready
<1>1. new \in Frame /\ q.frames \in Seq(Frame)
  BY <1>0 DEF Frame, Request
<1>2. /\ g \in Seq(Frame) /\ Len(g) = Len(q.frames)
      /\ \A i \in 1..Len(q.frames) :
           /\ g[i].file = q.frames[i].file /\ g[i].v = q.frames[i].v
           /\ g[i].fresh = q.frames[i].fresh
           /\ g[i].env \in {q.frames[i].env, r}
  BY <1>1, ResetFrames
<1>. HIDE DEF g
<1>3. /\ h \in Seq(Frame) /\ Len(h) = Len(q.frames) + 1
      /\ \A i \in 1..Len(q.frames) : h[i] = g[i]
      /\ h[Len(q.frames) + 1] = new
  <2>. HIDE DEF new
  <2>. QED
    BY <1>1, <1>2
<1>. HIDE DEF h
<1>4. /\ x \in Request /\ x.frames = h /\ x.state = q.state /\ x.host = q.host
      /\ x.slept = q.slept /\ x.routed = q.routed /\ x.refused = q.refused
  BY <1>0, <1>3 DEF Request
<1>. HIDE DEF x
<1>5. Framed(r, x)'
  <2>. SUFFICES ASSUME NEW i \in 1..Len(h)
                PROVE  /\ h[i].v \in 1..Version(q.host, h[i].file)
                       /\ h[i].fresh => h[i].env = r
    BY <1>4 DEF Framed, Version
  <2>1. CASE i \in 1..Len(q.frames)
    BY <1>0, <1>2, <1>3, <2>1
  <2>2. CASE i = Len(q.frames) + 1
    BY <1>3, <2>2
  <2>3. Len(q.frames) \in Nat
    BY <1>1
  <2>. QED
    BY <1>3, <2>1, <2>2, <2>3
<1>6. Len(x.frames) \in {1, 2}
  <2>1. Len(x.frames) = Len(q.frames) + 1
    BY <1>3, <1>4
  <2>2. CASE Len(q.frames) = 0
    BY <2>1, <2>2
  <2>3. CASE Len(q.frames) = 1
    BY <2>1, <2>3
  <2>. QED
    BY <1>0, <2>2, <2>3
<1>7. ~ x.slept => Routed(x)'
  BY <1>0, <1>4 DEF Routed
<1>8. Fit(r, x)'
  <2>. DEFINE n == Len(x.frames)
  <2>1. n \in 0..2 /\ n # 0
    <3>1. n \in {1, 2}
      BY <1>6
    <3>. HIDE DEF n
    <3>. QED
      BY <3>1
  <2>. QED
    BY <1>0, <1>4, <1>5, <1>7, <2>1, NotEmpty DEF Fit
<1>9. x = y
  BY DEF x, h, g
<1>. QED
  BY <1>8, <1>9 DEF Fit, Framed, Routed, Version

LEMMA IdleFit ==
  ASSUME NEW s \in Reqs, cur' # s
  PROVE  Fit(s, IdleReq)'
<1>1. IdleReq \in Request /\ IdleReq.frames = <<>> /\ IdleReq.state = "idle"
  BY DEF IdleReq, Request
<1>. QED
  BY <1>1 DEF Fit, Framed

LEMMA PrimedFit ==
  ASSUME NEW s, NEW x, req'[s] = x, Fit(s, x)'
  PROVE  Fit(s, req[s])'
BY DEF Fit, Framed, Routed, Version

\* setfenv and the call of a chunk.
LEMMA CallKeeps ==
  ASSUME WorldOK, UNCHANGED disk, nest' = <<>>,
         NEW r \in Reqs, \A s \in Reqs : Fit(s, req[s]), cur \in {r, NoReq},
         NEW q, Ready(r, q), NEW f \in Files, NEW mtime,
         NEW v \in Nat \ {0}, v <= Version(q.host, f), CallChunk(r, q, f, v, mtime)
  PROVE  ReqsOK' /\ LoadOK'
<1>0. q.host \in Hosts
  BY DEF Ready
<1>1. NoReq \notin Reqs
  BY FilesAssumption DEF FilesAssumption
<1>2. cur' = r /\ load' = NoLoad /\ DOMAIN req' = Reqs
  BY DEF CallChunk
<1>3. ASSUME NEW s \in Reqs \ {r}
      PROVE  Fit(s, req[s])'
  <2>. PICK x : x = req'[s]
    OBVIOUS
  <2>1. x \in {req[s], [req[s] EXCEPT !.frames = Reset(@, f, v, r)]}
    BY <1>3 DEF CallChunk, Env
  <2>2. cur # s /\ cur' # s
    BY <1>1, <1>2, <1>3
  <2>. QED
    BY <2>1, <2>2, ResetFit, PrimedFit
<1>4. Fit(r, req[r])'
  <2>. PICK x : x = req'[r]
    OBVIOUS
  <2>1. x = [q EXCEPT !.frames = Append(Reset(@, f, v, r),
                        [file |-> f, v |-> v, env |-> r, fresh |-> TRUE])]
    BY DEF CallChunk, Env
  <2>2. Version(q.host, f) \in Nat
    BY <1>0, PathsOfFiles, LastVersion DEF Version
  <2>3. Fit(r, x)'
    BY <1>2, <2>1, <2>2, CalledFit
  <2>. QED
    BY <2>3, PrimedFit
<1>5. ReqsOK'
  <2>1. \A s \in Reqs : Fit(s, req[s])'
    BY <1>3, <1>4
  <2>. QED
    BY <1>2, <2>1 DEF ReqsOK
<1>. QED
  BY <1>2, <1>5 DEF LoadOK

-----------------------------------------------------------------------------
(* What the actions have in common. *)

LEMMA NoReqOut == NoReq \notin Reqs
BY FilesAssumption DEF FilesAssumption

\* A request that stays as it is, when files get more versions.
LEMMA WaitingFit ==
  ASSUME NEW s \in Reqs, Fit(s, req[s]), req'[s] = req[s],
         \/ cur # s /\ cur' # s
         \/ UNCHANGED <<cur, load, lua_routed, path>>,
         \A p \in Paths : Len(disk[p]) \in Nat /\ Len(disk'[p]) \in Nat
                          /\ Len(disk[p]) <= Len(disk'[p])
  PROVE  Fit(s, req[s])'
<1>. DEFINE q == req[s]
<1>1. /\ q \in Request /\ (q.state = "idle" => q = IdleReq)
      /\ (q.state # "idle" => Len(q.frames) \in 0..2 /\ q.host \in Hosts)
      /\ (q.state # "idle" /\ q.frames = <<>> => cur = s /\ load # NoLoad)
      /\ (q.state = "run" <=> cur = s) /\ (q.state = "sleep" => q.slept)
      /\ (cur = s /\ ~ q.slept => Routed(q))
  BY DEF Fit
<1>2. ASSUME NEW i \in 1..Len(q.frames)
      PROVE  /\ q.frames[i].v \in 1..Len(disk'[<<q.host, q.frames[i].file>>])
             /\ q.frames[i].fresh => cur' = s /\ q.frames[i].env = s
  <2>1. q.state # "idle"
    BY <1>1, <1>2 DEF IdleReq
  <2>2. q.frames[i] \in Frame
    BY <1>1 DEF Request
  <2>3. <<q.host, q.frames[i].file>> \in Paths
    BY <1>1, <2>1, <2>2 DEF Paths, Frame
  <2>4. /\ q.frames[i].v \in 1..Len(disk[<<q.host, q.frames[i].file>>])
        /\ q.frames[i].fresh => cur = s /\ q.frames[i].env = s
    BY DEF Fit, Framed, Version
  <2>. QED
    BY <2>3, <2>4
<1>3. Framed(s, req[s])'
  BY <1>2 DEF Framed, Version
<1>4. CASE cur # s /\ cur' # s
  BY <1>1, <1>3, <1>4 DEF Fit
<1>5. CASE UNCHANGED <<cur, load, lua_routed, path>>
  BY <1>1, <1>3, <1>5 DEF Fit, Routed
<1>. QED
  BY <1>4, <1>5

\* A step that changes request r and which script executes.
LEMMA OneKeeps ==
  ASSUME ReqsOK, UNCHANGED disk, WorldOK, NEW r \in Reqs,
         cur \in {r, NoReq}, cur' \in {r, NoReq},
         NEW x, req' = [req EXCEPT ![r] = x], Fit(r, x)', cur' = NoReq => nest' = <<>>
  PROVE  ReqsOK'
<1>1. DOMAIN req' = Reqs /\ req'[r] = x /\ \A s \in Reqs \ {r} : req'[s] = req[s]
  BY DEF ReqsOK
<1>2. Fit(r, req[r])'
  BY <1>1, PrimedFit
<1>3. \A p \in Paths : Len(disk[p]) \in Nat /\ Len(disk'[p]) \in Nat /\ Len(disk[p]) <= Len(disk'[p])
  BY LastVersion
<1>4. ASSUME NEW s \in Reqs \ {r}
      PROVE  Fit(s, req[s])'
  <2>1. cur # s /\ cur' # s
    BY <1>4, NoReqOut
  <2>. QED
    BY <1>1, <1>3, <2>1, WaitingFit DEF ReqsOK
<1>. QED
  BY <1>1, <1>2, <1>4 DEF ReqsOK

LEMMA OverKeeps ==
  ASSUME ReqsOK, WorldOK, UNCHANGED disk, NEW r \in Reqs, cur \in {r, NoReq}, Over(r), nest' = <<>>
  PROVE  ReqsOK'
<1>1. req' = [req EXCEPT ![r] = IdleReq] /\ cur' = NoReq /\ cur' # r
  BY NoReqOut DEF Over
<1>2. Fit(r, IdleReq)'
  BY <1>1, IdleFit
<1>. QED
  BY <1>1, <1>2, OneKeeps

LEMMA CalledType ==
  ASSUME NEW r \in Reqs, req[r] \in Request
  PROVE  LET x == Called(r)
         IN  /\ x \in Request /\ x.frames = req[r].frames /\ x.state = req[r].state
             /\ x.host = req[r].host /\ x.slept = req[r].slept /\ x.routed = req[r].routed
             /\ x.refused = req[r].refused
<1>. DEFINE n == req[r].ops + 1
            x == [req[r] EXCEPT !.ops = n]
<1>1. n \in Nat
  BY DEF Request
<1>. HIDE DEF n
<1>2. /\ x \in Request /\ x.frames = req[r].frames /\ x.state = req[r].state
      /\ x.host = req[r].host /\ x.slept = req[r].slept /\ x.routed = req[r].routed
      /\ x.refused = req[r].refused
  BY <1>1 DEF Request
<1>. QED
  BY <1>2 DEF Called, n

\* The script of r, which executes, has made a call.
LEMMA CallFit ==
  ASSUME WorldOK, NEW r \in Reqs, Fit(r, req[r]), cur = r, UNCHANGED <<disk, cur, load, lua_routed, path>>,
         NEW refused \in BOOLEAN, refused => req[r].refused \/ req[r].slept \/ req[r].routed > 0,
         NEW x, x = [Called(r) EXCEPT !.refused = refused]
  PROVE  Fit(r, x)'
<1>. DEFINE q == req[r]
<1>1. q \in Request /\ q.state = "run"
  BY DEF Fit
<1>2. /\ x \in Request /\ x.frames = q.frames /\ x.state = q.state /\ x.host = q.host
      /\ x.slept = q.slept /\ x.routed = q.routed /\ x.refused = refused
  <2>. DEFINE y == Called(r)
  <2>1. /\ y \in Request /\ y.frames = q.frames /\ y.state = q.state /\ y.host = q.host
        /\ y.slept = q.slept /\ y.routed = q.routed
    BY <1>1, CalledType
  <2>2. x = [y EXCEPT !.refused = refused]
    OBVIOUS
  <2>. HIDE DEF y
  <2>. QED
    BY <2>1, <2>2 DEF Request
<1>3. Framed(r, x)'
  BY <1>2 DEF Fit, Framed, Version
<1>4. ~ x.slept => Routed(x)'
  BY <1>2 DEF Fit, Routed
<1>. QED
  BY <1>1, <1>2, <1>3, <1>4 DEF Fit

LEMMA RestKeeps ==
  ASSUME WorldOK, CacheOK, TablesOK, CountsOK,
         UNCHANGED <<clock, disk, gone>>, path' \in Hosts
  PROVE  /\ WorldOK'
         /\ cache' = cache => CacheOK'
         /\ load' = NoLoad => LoadOK'
         /\ UNCHANGED tables => TablesOK'
         /\ UNCHANGED edits /\ lua_routed' \in BOOLEAN /\ starts' \in 0..MaxStarts => CountsOK'
         /\ ran' = NoRun => CodeFresh'
<1>1. WorldOK'
  BY DEF WorldOK
<1>2. cache' = cache => CacheOK'
  BY DEF CacheOK, Sound, Behind, NewerFrom
<1>3. (UNCHANGED tables => TablesOK') /\ (load' = NoLoad => LoadOK')
  BY DEF TablesOK, tables, LoadOK
<1>4. UNCHANGED edits /\ lua_routed' \in BOOLEAN /\ starts' \in 0..MaxStarts => CountsOK'
  BY DEF CountsOK
<1>5. ran' = NoRun => CodeFresh'
  BY DEF CodeFresh
<1>. QED
  BY <1>1, <1>2, <1>3, <1>4, <1>5

\* Request r, otherwise as q, calls loadfile or loadtemplate.
LEMMA LoadFileKeeps ==
  ASSUME WorldOK, ReqsOK, CacheOK, TablesOK, CountsOK, UNCHANGED <<disk, clock, gone>>,
         path' \in Hosts, nest' = <<>>, load = NoLoad,
         NEW r \in Reqs, cur \in {r, NoReq}, NEW q, Ready(r, q),
         NEW f \in Files, NEW keep \in BOOLEAN, NEW orDie \in BOOLEAN,
         q.frames = <<>> => f = Route /\ orDie /\ ~ keep,
         LoadFile(r, q, f, keep, orDie)
  PROVE  ReqsOK' /\ LoadOK' /\ CacheOK' /\ CodeFresh'
<1>. DEFINE h == q.host
            p == <<h, f>>
            e == cache[p]
<1>1. h \in Hosts /\ p \in Paths /\ p \in Hosts \X Files
  BY PathsOfFiles DEF Ready
<1>2. CASE CompareFails(h, f)
  <2>1. Over(r) /\ ran' = NoRun /\ UNCHANGED <<cache, load>>
    BY <1>2 DEF LoadFile
  <2>. QED
    BY <2>1, OverKeeps, RestKeeps
<1>3. CASE ~ CompareFails(h, f)
  <2>1. cache' = [cache EXCEPT ![p] = Compared(h, f)]
    BY <1>3 DEF LoadFile
  <2>2. /\ Sound(p, Compared(h, f))
        /\ Hit(h, f) => /\ e.v \in Nat \ {0} /\ e.v <= Version(h, f)
                        /\ \A v \in e.v + 1 .. Len(disk[p]) :
                             NewerFrom(p, v, e.mtime) => disk[p][v].at + TTL >= clock
    BY <1>1, <1>3, ComparedSound
  <2>3. CacheOK'
    <3>1. PICK c : c = Compared(h, f)
      OBVIOUS
    <3>. HIDE DEF p
    <3>2. \A o \in Hosts \X Files : Sound(o, cache'[o])
      BY <1>1, <2>1, <2>2, <3>1 DEF CacheOK
    <3>3. \A o \in Hosts \X Files : Sound(o, cache[o])'
      BY <3>2 DEF Sound, Behind, NewerFrom
    <3>. QED
      BY <2>1, <3>3 DEF CacheOK
  <2>4. CASE Hit(h, f)
    <3>1. CallChunk(r, q, f, e.v, e.mtime)
      BY <1>3, <2>4 DEF LoadFile
    <3>2. e.v \in Nat \ {0} /\ e.v <= Version(h, f)
      BY <2>2, <2>4
    <3>3. ReqsOK' /\ LoadOK'
      BY <3>1, <3>2, CallKeeps DEF ReqsOK
    <3>4. ran'.host = h /\ ran'.file = f /\ ran'.v = e.v /\ ran'.mtime = e.mtime
      BY <3>1 DEF CallChunk
    <3>5. CodeFresh'
      BY <2>2, <2>4, <3>4 DEF CodeFresh, NewerFrom
    <3>. QED
      BY <2>3, <3>3, <3>5
  <2>5. CASE ~ Hit(h, f)
    <3>1. /\ load' = [file |-> f, keep |-> keep, orDie |-> orDie, v |-> 0, phase |-> "read"]
          /\ req' = [req EXCEPT ![r] = q] /\ cur' = r /\ ran' = NoRun
      BY <1>3, <2>5 DEF LoadFile
    <3>2. /\ load' # NoLoad /\ load' \in Load /\ load'.file = f /\ load'.keep = keep
          /\ load'.orDie = orDie /\ load'.v = 0 /\ load'.phase = "read"
      BY <3>1 DEF Load, NoLoad
    <3>3. Fit(r, q)'
      <4>1. Framed(r, q)'
        BY <3>1 DEF Ready, Framed, Version
      <4>. QED
        BY <3>1, <3>2, <4>1 DEF Ready, Routed, Fit
    <3>4. ReqsOK'
      BY <3>1, <3>3, NoReqOut, OneKeeps
    <3>5. LoadOK'
      <4>1. req'[r] = q
        BY <3>1 DEF ReqsOK
      <4>2. Version(h, f)' \in Nat
        BY <1>1, LastVersion DEF Version
      <4>. QED
        BY <3>1, <3>2, <4>1, <4>2 DEF LoadOK, Ready, Version
    <3>. QED
      BY <2>3, <3>1, <3>4, <3>5, RestKeeps
  <2>. QED
    BY <2>4, <2>5
<1>. QED
  BY <1>2, <1>3

-----------------------------------------------------------------------------
(* The actions of a script. *)

LEMMA StartKeeps ==
  ASSUME IInv, NEW r \in Reqs, NEW h \in Hosts, Start(r, h)
  PROVE  IInv'
<1>. DEFINE q == [IdleReq EXCEPT !.state = "run", !.host = h]
<1>1. /\ WorldOK /\ ReqsOK /\ CacheOK /\ TablesOK /\ CountsOK
      /\ UNCHANGED <<clock, disk, gone, edits, tables, nest>> /\ path' = h /\ lua_routed' = FALSE
      /\ cur = NoReq /\ nest' = <<>> /\ load = NoLoad
      /\ LoadFile(r, q, Route, FALSE, TRUE)
  BY NoReqOut DEF IInv, Start, NoRequire, ReqsOK, LoadOK
<1>2. starts' \in 0..MaxStarts
  BY <1>1, BoundsAssumption DEF BoundsAssumption, Start, CountsOK
<1>3. /\ q \in Request /\ q.host = h /\ q.state = "run" /\ q.frames = <<>>
      /\ q.routed = 0 /\ q.refused = FALSE
  <2>1. IdleReq \in Request /\ IdleReq.frames = <<>> /\ IdleReq.routed = 0 /\ ~ IdleReq.refused
    BY DEF IdleReq, Request
  <2>. QED
    BY <2>1 DEF Request
<1>. HIDE DEF q
<1>4. Ready(r, q)
  <2>1. Routed(q)'
    BY <1>1, <1>3 DEF Routed
  <2>. QED
    BY <1>3, <2>1 DEF Ready
<1>5. Route \in Files
  BY FilesAssumption DEF FilesAssumption
<1>6. ReqsOK' /\ LoadOK' /\ CacheOK' /\ CodeFresh'
  BY <1>1, <1>4, <1>5, LoadFileKeeps
<1>. QED
  BY <1>1, <1>2, <1>6, RestKeeps DEF IInv

\* A call of the script that executes: what the actions of a request start from.
LEMMA MayCallHere ==
  ASSUME IInv, NEW r \in Reqs, Executes(r)
  PROVE  /\ WorldOK /\ ReqsOK /\ CacheOK /\ TablesOK /\ CountsOK
         /\ cur = r /\ cur # NoReq /\ nest = <<>> /\ load = NoLoad /\ Fit(r, req[r])
         /\ Len(req[r].frames) \in {1, 2} /\ req[r] \in Request /\ req[r].state = "run" /\ req[r].host \in Hosts
         /\ lua_routed \in BOOLEAN /\ starts \in 0..MaxStarts
<1>1. /\ WorldOK /\ ReqsOK /\ CacheOK /\ TablesOK /\ CountsOK
      /\ cur = r /\ cur # NoReq /\ nest = <<>> /\ load = NoLoad /\ Fit(r, req[r])
      /\ req[r] \in Request /\ req[r].state = "run" /\ req[r].host \in Hosts
      /\ lua_routed \in BOOLEAN /\ starts \in 0..MaxStarts
      /\ Len(req[r].frames) \in 0..2 /\ req[r].frames # <<>>
  BY NoReqOut DEF IInv, Executes, ReqsOK, Fit, CountsOK
<1>2. Len(req[r].frames) # 0
  <2>1. req[r].frames \in Seq(Frame)
    BY <1>1 DEF Request
  <2>. QED
    BY <1>1, <2>1
<1>. QED
  BY <1>1, <1>2

LEMMA RouterKeeps ==
  ASSUME IInv, NEW r \in Reqs, Router(r)
  PROVE  IInv'
<1>. PICK q : q = [Called(r) EXCEPT !.routed = @ + 1]
  OBVIOUS
<1>1. /\ Executes(r) /\ ~ lua_routed /\ lua_routed' = TRUE /\ Len(req[r].frames) = 1
      /\ UNCHANGED <<world, edits, starts, tables, nest>>
  BY DEF Router, MayCall, NoRequire
<1>2. /\ WorldOK /\ ReqsOK /\ CacheOK /\ TablesOK /\ CountsOK
      /\ cur = r /\ nest' = <<>> /\ load = NoLoad /\ Fit(r, req[r])
      /\ req[r] \in Request /\ req[r].state = "run" /\ req[r].host \in Hosts
      /\ UNCHANGED <<clock, disk, gone, path>> /\ path' \in Hosts
  BY <1>1, MayCallHere DEF world, WorldOK
<1>3. /\ q \in Request /\ q.host = req[r].host /\ q.state = "run" /\ q.frames = req[r].frames
      /\ q.routed = req[r].routed + 1 /\ q.refused = req[r].refused /\ q.slept = req[r].slept
  <2>. DEFINE y == Called(r)
              n == y.routed + 1
  <2>1. /\ y \in Request /\ y.frames = req[r].frames /\ y.state = req[r].state
        /\ y.host = req[r].host /\ y.slept = req[r].slept /\ y.routed = req[r].routed
        /\ y.refused = req[r].refused
    BY <1>2, CalledType
  <2>2. q = [y EXCEPT !.routed = n]
    OBVIOUS
  <2>. HIDE DEF y
  <2>3. n \in Nat
    BY <2>1 DEF Request
  <2>4. n = req[r].routed + 1
    BY <2>1
  <2>. HIDE DEF n
  <2>. QED
    BY <1>2, <2>1, <2>2, <2>3, <2>4 DEF Request
<1>4. ~ q.slept => Routed(q)'
  <2>. SUFFICES ASSUME ~ q.slept PROVE Routed(q)'
    OBVIOUS
  <2>1. Routed(req[r])
    BY <1>2, <1>3 DEF Fit
  <2>2. req[r].routed = 0
    BY <1>1, <2>1 DEF Routed
  <2>3. q.routed = 1
    BY <1>3, <2>2
  <2>. QED
    BY <1>1, <1>2, <1>3, <2>1, <2>3 DEF Routed
<1>5. q.frames # <<>>
  <2>1. Len(q.frames) = 1
    BY <1>1, <1>3
  <2>. QED
    BY <2>1, NotEmpty
<1>6. ReqsOK' /\ LoadOK' /\ CacheOK' /\ CodeFresh'
  <2>1. CASE req' = [req EXCEPT ![r] = q] /\ ran' = NoRun /\ UNCHANGED <<cur, cache, load>>
    <3>1. Framed(r, q)'
      BY <1>2, <1>3, <2>1 DEF Fit, Framed, Version
    <3>2. Fit(r, q)'
      BY <1>2, <1>3, <1>4, <1>5, <2>1, <3>1 DEF Fit
    <3>3. ReqsOK'
      BY <1>2, <2>1, <3>2, OneKeeps
    <3>. QED
      BY <1>2, <2>1, <3>3, RestKeeps
  <2>2. CASE LoadFile(r, q, Page, FALSE, TRUE)
    <3>1. Ready(r, q)
      BY <1>1, <1>2, <1>3, <1>4 DEF Ready, Fit, Framed
    <3>2. Page \in Files
      BY FilesAssumption DEF FilesAssumption
    <3>. QED
      BY <1>2, <1>5, <2>2, <3>1, <3>2, LoadFileKeeps
  <2>. QED
    BY <2>1, <2>2 DEF Router
<1>7. starts' \in 0..MaxStarts
  BY <1>1, <1>2 DEF CountsOK
<1>. QED
  BY <1>1, <1>2, <1>6, <1>7, RestKeeps DEF IInv

LEMMA RouterRefusesKeeps ==
  ASSUME IInv, NEW r \in Reqs, RouterRefuses(r)
  PROVE  IInv'
<1>1. /\ Executes(r) /\ lua_routed
      /\ UNCHANGED <<world, cur, lua_routed, cache, load, edits, starts, tables, nest>> /\ ran' = NoRun
      /\ req' = [req EXCEPT ![r] = [Called(r) EXCEPT !.refused = TRUE]]
  BY DEF RouterRefuses, MayCall, Quiet, NoRequire
<1>2. /\ WorldOK /\ ReqsOK /\ CacheOK /\ TablesOK /\ CountsOK
      /\ cur = r /\ nest' = <<>> /\ load' = NoLoad /\ Fit(r, req[r])
      /\ UNCHANGED <<clock, disk, gone, path>>
      /\ lua_routed' \in BOOLEAN /\ starts' \in 0..MaxStarts /\ path' \in Hosts
  BY <1>1, MayCallHere DEF world, WorldOK
<1>3. req[r].slept \/ req[r].routed > 0
  BY <1>1, <1>2 DEF Fit, Routed
<1>4. PICK x : x = [Called(r) EXCEPT !.refused = TRUE]
  OBVIOUS
<1>5. Fit(r, x)'
  BY <1>1, <1>2, <1>3, <1>4, CallFit
<1>6. ReqsOK'
  BY <1>1, <1>2, <1>4, <1>5, OneKeeps
<1>. QED
  BY <1>1, <1>2, <1>6, RestKeeps DEF IInv

LEMMA DoFileKeeps ==
  ASSUME IInv, NEW r \in Reqs, NEW keep \in BOOLEAN, DoFile(r, keep)
  PROVE  IInv'
<1>. PICK q : q = Called(r)
  OBVIOUS
<1>1. /\ Executes(r) /\ Len(req[r].frames) = 1 /\ LoadFile(r, q, Page, keep, FALSE)
      /\ UNCHANGED <<world, edits, starts, tables, nest, lua_routed>>
  BY DEF DoFile, MayCall, NoRequire
<1>2. /\ WorldOK /\ ReqsOK /\ CacheOK /\ TablesOK /\ CountsOK
      /\ cur = r /\ nest' = <<>> /\ load = NoLoad /\ Fit(r, req[r])
      /\ req[r] \in Request /\ req[r].state = "run" /\ req[r].host \in Hosts
      /\ UNCHANGED <<clock, disk, gone, path>>
      /\ lua_routed' \in BOOLEAN /\ starts' \in 0..MaxStarts /\ path' \in Hosts
  BY <1>1, MayCallHere DEF world, WorldOK
<1>3. /\ q \in Request /\ q.host = req[r].host /\ q.state = "run" /\ q.frames = req[r].frames
      /\ q.routed = req[r].routed /\ q.refused = req[r].refused /\ q.slept = req[r].slept
  BY <1>2, CalledType
<1>4. Ready(r, q)
  <2>1. ~ q.slept => Routed(q)'
    BY <1>1, <1>2, <1>3 DEF Fit, Routed
  <2>. QED
    BY <1>1, <1>2, <1>3, <2>1 DEF Ready, Fit, Framed
<1>5. Page \in Files /\ q.frames # <<>>
  <2>1. Len(q.frames) = 1
    BY <1>1, <1>3
  <2>. QED
    BY <2>1, NotEmpty, FilesAssumption DEF FilesAssumption
<1>6. ReqsOK' /\ LoadOK' /\ CacheOK' /\ CodeFresh'
  BY <1>1, <1>2, <1>4, <1>5, LoadFileKeeps
<1>. QED
  BY <1>1, <1>2, <1>6, RestKeeps DEF IInv

\* The script of r goes on with other chunks, or is suspended.
LEMMA FramesFit ==
  ASSUME WorldOK, NEW r \in Reqs, Fit(r, req[r]), req[r].state # "idle",
         UNCHANGED <<disk, lua_routed, path>>,
         NEW n \in {1, 2}, n <= Len(req[r].frames),
         NEW g \in Seq(Frame), Len(g) = n,
         \A i \in 1..n : /\ g[i].file = req[r].frames[i].file /\ g[i].v = req[r].frames[i].v
                         /\ g[i].fresh => cur = r /\ cur' = r /\ g[i].env = req[r].frames[i].env
                                          /\ req[r].frames[i].fresh,
         NEW state \in {"run", "sleep"}, state = "run" <=> cur' = r,
         NEW slept \in BOOLEAN, state = "sleep" => slept, ~ slept => ~ req[r].slept /\ cur = r,
         NEW x, x = [req[r] EXCEPT !.state = state, !.slept = slept, !.frames = g]
  PROVE  Fit(r, x)'
<1>. DEFINE q == req[r]
<1>1. q \in Request /\ q.host \in Hosts
  BY DEF Fit
<1>2. /\ x \in Request /\ x.frames = g /\ x.state = state /\ x.host = q.host
      /\ x.slept = slept /\ x.routed = q.routed /\ x.refused = q.refused
  BY <1>1 DEF Request
<1>3. Framed(r, x)'
  <2>. SUFFICES ASSUME NEW i \in 1..n
                PROVE  /\ g[i].v \in 1..Version(q.host, g[i].file)
                       /\ g[i].fresh => cur' = r /\ g[i].env = r
    BY <1>2 DEF Framed, Version
  <2>1. i \in 1..Len(q.frames)
    BY <1>1 DEF Request
  <2>. QED
    BY <2>1 DEF Fit, Framed
<1>4. cur' = r /\ ~ x.slept => Routed(x)'
  BY <1>2 DEF Fit, Routed
<1>5. Len(x.frames) \in 0..2 /\ x.frames # <<>>
  BY <1>2
<1>. QED
  BY <1>1, <1>2, <1>3, <1>4, <1>5 DEF Fit

LEMMA ReturnFromPageKeeps ==
  ASSUME IInv, NEW r \in Reqs, ReturnFromPage(r)
  PROVE  IInv'
<1>1. /\ Executes(r) /\ Len(req[r].frames) = 2
      /\ UNCHANGED <<world, cur, lua_routed, cache, load, edits, starts, tables, nest>> /\ ran' = NoRun
      /\ req' = [req EXCEPT ![r].frames = SubSeq(@, 1, 1)]
  BY DEF ReturnFromPage, Quiet, NoRequire
<1>2. /\ WorldOK /\ ReqsOK /\ CacheOK /\ TablesOK /\ CountsOK
      /\ cur = r /\ cur # NoReq /\ nest = <<>> /\ load' = NoLoad /\ Fit(r, req[r])
      /\ req[r] \in Request /\ req[r].state = "run"
      /\ UNCHANGED <<clock, disk, gone, path>>
      /\ lua_routed' \in BOOLEAN /\ starts' \in 0..MaxStarts /\ path' \in Hosts
  BY <1>1, MayCallHere DEF world, WorldOK
<1>3. PICK g : g = SubSeq(req[r].frames, 1, 1)
  OBVIOUS
<1>4. /\ req[r].frames \in Seq(Frame) /\ g \in Seq(Frame) /\ Len(g) = 1
      /\ g[1] = req[r].frames[1]
  <2>1. req[r].frames \in Seq(Frame)
    BY <1>2 DEF Request
  <2>. QED
    BY <1>1, <1>3, <2>1
<1>5. PICK x : x = [req[r] EXCEPT !.state = req[r].state, !.slept = req[r].slept, !.frames = g]
  OBVIOUS
<1>6. x = [req[r] EXCEPT !.frames = g]
  BY <1>2, <1>5 DEF Request
<1>7. req' = [req EXCEPT ![r] = x]
  BY <1>1, <1>3, <1>6
<1>8. \A i \in 1..1 : g[i] = req[r].frames[i]
  BY <1>4
<1>9. Fit(r, x)'
  <2>1. 1 <= Len(req[r].frames) /\ req[r].slept \in BOOLEAN /\ cur' = r
    BY <1>1, <1>2 DEF Request
  <2>. QED
    BY <1>1, <1>2, <1>4, <1>5, <1>8, <2>1, FramesFit
<1>10. ReqsOK'
  BY <1>1, <1>2, <1>7, <1>9, OneKeeps
<1>. QED
  BY <1>1, <1>2, <1>10, RestKeeps DEF IInv

LEMMA SleepKeeps ==
  ASSUME IInv, NEW r \in Reqs, Sleep(r)
  PROVE  IInv'
<1>1. /\ Executes(r) /\ cur' = NoReq
      /\ UNCHANGED <<world, lua_routed, cache, load, edits, starts, tables, nest>> /\ ran' = NoRun
      /\ req' = [req EXCEPT ![r] = [Called(r) EXCEPT
               !.state = "sleep", !.slept = TRUE,
               !.frames = [i \in DOMAIN @ |-> [@[i] EXCEPT !.fresh = FALSE]]]]
  BY DEF Sleep, MayCall, Quiet, NoRequire
<1>2. /\ WorldOK /\ ReqsOK /\ CacheOK /\ TablesOK /\ CountsOK
      /\ cur = r /\ nest' = <<>> /\ load' = NoLoad /\ Fit(r, req[r])
      /\ Len(req[r].frames) \in {1, 2} /\ req[r] \in Request /\ req[r].state = "run"
      /\ UNCHANGED <<clock, disk, gone, path>>
      /\ lua_routed' \in BOOLEAN /\ starts' \in 0..MaxStarts /\ path' \in Hosts
  BY <1>1, MayCallHere DEF world, WorldOK
<1>3. PICK y : y = Called(r)
  OBVIOUS
<1>4. y \in Request /\ y.frames = req[r].frames /\ y.host = req[r].host /\ y.state = "run"
  BY <1>2, <1>3, CalledType
<1>. DEFINE g == [i \in DOMAIN y.frames |-> [y.frames[i] EXCEPT !.fresh = FALSE]]
<1>5. /\ g \in Seq(Frame) /\ Len(g) = Len(y.frames)
      /\ \A i \in 1..Len(y.frames) :
           g[i].file = y.frames[i].file /\ g[i].v = y.frames[i].v /\ ~ g[i].fresh
  <2>1. y.frames \in Seq(Frame)
    BY <1>4 DEF Request
  <2>2. DOMAIN y.frames = 1..Len(y.frames) /\ Len(y.frames) \in Nat
    BY <2>1
  <2>3. \A z \in Frame : LET w == [z EXCEPT !.fresh = FALSE]
                         IN  w \in Frame /\ w.file = z.file /\ w.v = z.v /\ ~ w.fresh
    BY DEF Frame
  <2>4. \A i \in 1..Len(y.frames) :
           /\ g[i] \in Frame /\ g[i].file = y.frames[i].file /\ g[i].v = y.frames[i].v
           /\ ~ g[i].fresh
    BY <2>1, <2>2, <2>3
  <2>5. g = [i \in 1..Len(y.frames) |-> g[i]]
    BY <2>2
  <2>. HIDE DEF g
  <2>6. g \in [1..Len(y.frames) -> Frame]
    BY <2>4, <2>5
  <2>7. g \in Seq(Frame) /\ Len(g) = Len(y.frames)
    BY <2>2, <2>6
  <2>. QED
    BY <2>4, <2>7
<1>6. PICK x : x = [y EXCEPT !.state = "sleep", !.slept = TRUE, !.frames = g]
  OBVIOUS
<1>7. req' = [req EXCEPT ![r] = x]
  BY <1>1, <1>3, <1>6
<1>. HIDE DEF g
<1>8. /\ x \in Request /\ x.frames = g /\ x.state = "sleep" /\ x.host = req[r].host /\ x.slept
  BY <1>4, <1>5, <1>6 DEF Request
<1>9. cur' # r
  BY <1>1, NoReqOut
<1>10. Fit(r, x)'
  <2>1. Framed(r, x)'
    BY <1>2, <1>4, <1>5, <1>8 DEF Fit, Framed, Version
  <2>2. Len(x.frames) \in {1, 2} /\ x.host \in Hosts
    BY <1>2, <1>4, <1>5, <1>8 DEF Fit
  <2>3. Len(x.frames) \in 0..2 /\ x.frames # <<>>
    BY <2>2, NotEmpty
  <2>. QED
    BY <1>8, <1>9, <2>1, <2>2, <2>3 DEF Fit
<1>11. ReqsOK'
  BY <1>1, <1>2, <1>7, <1>10, OneKeeps
<1>. QED
  BY <1>1, <1>2, <1>11, RestKeeps DEF IInv

LEMMA ResumeKeeps ==
  ASSUME IInv, NEW r \in Reqs, Resume(r)
  PROVE  IInv'
<1>1. /\ cur = NoReq /\ cur' = r /\ req[r].state = "sleep"
      /\ req' = [req EXCEPT ![r].state = "run"]
      /\ UNCHANGED <<world, lua_routed, cache, load, edits, starts, tables, nest>> /\ ran' = NoRun
  BY DEF Resume, Quiet, NoRequire
<1>2. /\ WorldOK /\ ReqsOK /\ CacheOK /\ TablesOK /\ CountsOK
      /\ load' = NoLoad /\ Fit(r, req[r]) /\ req[r] \in Request /\ cur # r
      /\ UNCHANGED <<clock, disk, gone, path>>
      /\ lua_routed' \in BOOLEAN /\ starts' \in 0..MaxStarts /\ path' \in Hosts
  BY <1>1, NoReqOut DEF IInv, ReqsOK, LoadOK, Fit, world, WorldOK, CountsOK
<1>3. PICK x : x = [req[r] EXCEPT !.state = "run"]
  OBVIOUS
<1>4. /\ x \in Request /\ x.frames = req[r].frames /\ x.state = "run" /\ x.host = req[r].host
      /\ x.slept = req[r].slept
  BY <1>2, <1>3 DEF Request
<1>5. Fit(r, x)'
  <2>1. Framed(r, x)' /\ x.slept
    BY <1>1, <1>2, <1>4 DEF Fit, Framed, Version
  <2>. QED
    BY <1>1, <1>2, <1>4, <2>1 DEF Fit
<1>6. ReqsOK'
  <2>1. cur' # NoReq /\ req' = [req EXCEPT ![r] = x]
    BY <1>1, <1>3, NoReqOut
  <2>. QED
    BY <1>1, <1>2, <1>5, <2>1, OneKeeps
<1>. QED
  BY <1>1, <1>2, <1>6, RestKeeps DEF IInv

LEMMA EndKeeps ==
  ASSUME IInv, NEW r \in Reqs, End(r)
  PROVE  IInv'
<1>1. /\ Executes(r) /\ Over(r)
      /\ UNCHANGED <<world, lua_routed, cache, load, edits, starts, tables, nest>> /\ ran' = NoRun
  BY DEF End, Quiet, NoRequire
<1>2. /\ WorldOK /\ ReqsOK /\ CacheOK /\ TablesOK /\ CountsOK /\ cur = r /\ nest' = <<>>
      /\ load' = NoLoad
      /\ UNCHANGED <<clock, disk, gone, path>>
      /\ lua_routed' \in BOOLEAN /\ starts' \in 0..MaxStarts /\ path' \in Hosts
  BY <1>1, MayCallHere DEF world, WorldOK
<1>3. ReqsOK'
  BY <1>1, <1>2, OverKeeps
<1>. QED
  BY <1>1, <1>2, <1>3, RestKeeps DEF IInv

-----------------------------------------------------------------------------
(* The reading of a file, and its time. *)

\* What both steps start from.
LEMMA LoadsHere ==
  ASSUME IInv, NEW r \in Reqs, cur = r, load.phase \in {"read", "stat"}
  PROVE  /\ WorldOK /\ ReqsOK /\ CacheOK /\ TablesOK /\ CountsOK
         /\ load # NoLoad /\ LoadOK /\ load \in Load /\ nest = <<>> /\ cur # NoReq
         /\ Fit(r, req[r]) /\ req[r].state = "run" /\ req[r].host \in Hosts
         /\ <<req[r].host, load.file>> \in Paths /\ <<req[r].host, load.file>> \in Hosts \X Files
         /\ UNCHANGED <<lua_routed, path>> => \A q : q = req[r] => Ready(r, q)
<1>1. load # NoLoad
  BY DEF NoLoad
<1>2. /\ WorldOK /\ ReqsOK /\ CacheOK /\ TablesOK /\ CountsOK
      /\ LoadOK /\ load \in Load /\ nest = <<>> /\ cur # NoReq /\ load.file \in Files
      /\ Fit(r, req[r]) /\ req[r].state = "run" /\ req[r].host \in Hosts
      /\ Len(req[r].frames) \in {0, 1}
  BY <1>1, NoReqOut DEF IInv, LoadOK, ReqsOK, Fit, Load
<1>3. ASSUME UNCHANGED <<lua_routed, path>>, NEW q, q = req[r]
      PROVE  Ready(r, q)
  BY <1>2, <1>3 DEF Ready, Fit, Framed, Routed
<1>. QED
  BY <1>1, <1>2, <1>3, PathsOfFiles

LEMMA ReadFileKeeps ==
  ASSUME IInv, NEW r \in Reqs, ReadFile(r)
  PROVE  IInv'
<1>. DEFINE p == <<req[r].host, load.file>>
            v == IF p \in gone THEN 0 ELSE Version(req[r].host, load.file)
<1>1. /\ cur = r /\ load.phase = "read" /\ ran' = NoRun
      /\ UNCHANGED <<world, lua_routed, cache, edits, starts, tables, nest>>
  BY DEF ReadFile, NoRequire
<1>2. /\ WorldOK /\ ReqsOK /\ CacheOK /\ TablesOK /\ CountsOK
      /\ load # NoLoad /\ LoadOK /\ load \in Load /\ nest' = <<>> /\ cur # NoReq
      /\ Fit(r, req[r]) /\ req[r].state = "run" /\ req[r].host \in Hosts /\ p \in Paths
      /\ UNCHANGED <<clock, disk, gone, path>> /\ path' \in Hosts
      /\ lua_routed' \in BOOLEAN /\ starts' \in 0..MaxStarts
  BY <1>1, LoadsHere DEF world, WorldOK, CountsOK
<1>3. ReqsOK' /\ LoadOK'
  <2>1. CASE /\ p \notin gone \/ load.keep
             /\ load' = [load EXCEPT !.phase = "stat", !.v = v]
             /\ UNCHANGED <<req, cur>>
    <3>. DEFINE n == Version(req[r].host, load.file)
    <3>1. n \in Nat \ {0}
      BY <1>2, LastVersion DEF Version
    <3>2. v \in Nat /\ v <= n /\ (v = 0 => load.keep) /\ (v # 0 => v = n)
      BY <2>1, <3>1
    <3>. HIDE DEF v
    <3>3. /\ load' \in Load /\ load'.phase = "stat" /\ load'.v = v /\ load'.file = load.file
          /\ load'.keep = load.keep /\ load'.orDie = load.orDie
      BY <1>2, <2>1, <3>2 DEF Load
    <3>4. load' # NoLoad
      BY <3>3 DEF NoLoad
    <3>5. LoadOK'
      <4>1. Version(req[r].host, load.file)' = n
        BY <1>2, <2>1, <3>3 DEF Version
      <4>2. v # 0 => (v + 1)..n = {}
        BY <3>1, <3>2
      <4>3. cur \in Reqs /\ Len(req[cur].frames) \in {0, 1}
        BY <1>2 DEF LoadOK
      <4>. HIDE DEF n
      <4>. QED
        BY <1>1, <1>2, <2>1, <3>2, <3>3, <4>1, <4>2, <4>3 DEF LoadOK
    <3>6. ReqsOK'
      BY <1>1, <1>2, <2>1, <3>4 DEF ReqsOK, Fit, Framed, Routed, Version
    <3>. QED
      BY <3>5, <3>6
  <2>2. CASE ~ load.orDie /\ load' = NoLoad /\ UNCHANGED <<req, cur>>
    <3>1. req[r].frames # <<>>
      BY <1>1, <1>2, <2>2 DEF LoadOK
    <3>2. \A s \in Reqs : Fit(s, req[s])'
      BY <1>1, <1>2, <2>2, <3>1 DEF ReqsOK, Fit, Framed, Routed, Version
    <3>. QED
      BY <1>2, <2>2, <3>2 DEF ReqsOK, LoadOK
  <2>3. CASE load' = NoLoad /\ Over(r)
    BY <1>1, <1>2, <2>3, OverKeeps DEF LoadOK
  <2>. QED
    BY <2>1, <2>2, <2>3 DEF ReadFile
<1>. QED
  BY <1>1, <1>2, <1>3, RestKeeps DEF IInv

LEMMA StatFileKeeps ==
  ASSUME IInv, NEW r \in Reqs, StatFile(r)
  PROVE  IInv'
<1>. DEFINE h == req[r].host
            f == load.file
            p == <<h, f>>
            e == [v |-> load.v, checked |-> clock, mtime |-> Mtime(h, f)]
<1>1. /\ cur = r /\ load.phase = "stat"
      /\ UNCHANGED <<world, lua_routed, edits, starts, tables, nest>>
      /\ cache' = [cache EXCEPT ![p] = e]
  BY DEF StatFile, NoRequire
<1>2. /\ WorldOK /\ ReqsOK /\ CacheOK /\ TablesOK /\ CountsOK
      /\ load # NoLoad /\ LoadOK /\ load \in Load /\ nest' = <<>> /\ cur # NoReq
      /\ Fit(r, req[r]) /\ h \in Hosts /\ p \in Paths /\ p \in Hosts \X Files
      /\ UNCHANGED <<clock, disk, gone, path>> /\ path' \in Hosts
      /\ \A q : q = req[r] => Ready(r, q)
      /\ lua_routed' \in BOOLEAN /\ starts' \in 0..MaxStarts
  BY <1>1, LoadsHere DEF world, WorldOK, CountsOK
<1>3. clock \in Nat /\ TTL \in Nat /\ Start0 \in Nat \ {0} /\ clock >= Start0
  BY <1>2, TTLAssumption, StartAssumption, BoundsAssumption
     DEF TTLAssumption, StartAssumption, BoundsAssumption, WorldOK
<1>4. /\ load.v \in Nat /\ load.v <= Len(disk[p]) /\ Len(disk[p]) \in Nat
      /\ load.v = 0 => load.keep
      /\ load.v # 0 => \A v \in load.v + 1 .. Len(disk[p]) : disk[p][v].at = clock
  BY <1>1, <1>2, LastVersion DEF LoadOK, Load, Version
<1>5. Mtime(h, f) \in Int
  <2>1. disk[p][Len(disk[p])].mtime \in Nat
    BY <1>2, LastVersion DEF File
  <2>. QED
    BY <2>1 DEF Mtime, NoFile, Version
<1>6. e \in Chunk /\ e.v = load.v /\ e.checked = clock /\ e.mtime = Mtime(h, f)
  BY <1>3, <1>4, <1>5 DEF Chunk
<1>. HIDE DEF e, p
<1>7. Sound(p, e)
  BY <1>3, <1>4, <1>6 DEF Sound, Behind
<1>8. CacheOK'
  <2>1. \A o \in Hosts \X Files : Sound(o, cache'[o])
    BY <1>1, <1>2, <1>7 DEF CacheOK
  <2>2. \A o \in Hosts \X Files : Sound(o, cache[o])'
    BY <1>2, <2>1 DEF Sound, Behind, NewerFrom
  <2>. QED
    BY <1>1, <1>2, <2>2 DEF CacheOK
<1>9. CASE load.v # 0 /\ CallChunk(r, req[r], f, load.v, Mtime(h, f))
  <2>1. ReqsOK' /\ LoadOK'
    <3>1. load.v <= Version(h, f) /\ f \in Files /\ load.v \in Nat \ {0}
      BY <1>2, <1>4, <1>9 DEF Version, Load, p
    <3>2. cur \in {r, NoReq} /\ UNCHANGED disk
      BY <1>1, <1>2
    <3>3. PICK q : q = req[r]
      OBVIOUS
    <3>4. CallChunk(r, q, f, load.v, Mtime(h, f)) /\ Ready(r, q) /\ load.v <= Version(q.host, f)
      BY <1>2, <1>9, <3>1, <3>3
    <3>. QED
      BY <1>2, <3>1, <3>2, <3>4, CallKeeps DEF ReqsOK
  <2>2. /\ ran'.host = h /\ ran'.file = f /\ ran'.v = load.v
        /\ \A v \in load.v + 1 .. Len(disk[p]) : disk[p][v].at + TTL >= clock
    <3>1. clock + TTL >= clock
      BY <1>3
    <3>. QED
      BY <1>4, <1>9, <3>1 DEF CallChunk
  <2>3. CodeFresh'
    BY <1>2, <2>2 DEF CodeFresh, p
  <2>. QED
    BY <1>1, <1>2, <1>8, <2>1, <2>3, RestKeeps DEF IInv
<1>10. CASE load.v = 0 /\ load' = NoLoad /\ ran' = NoRun /\ UNCHANGED <<req, cur>>
  <2>1. req[r].frames # <<>>
    BY <1>1, <1>2, <1>4, <1>10 DEF LoadOK
  <2>2. \A s \in Reqs : Fit(s, req[s])'
    BY <1>1, <1>2, <1>10, <2>1 DEF ReqsOK, Fit, Framed, Routed, Version
  <2>3. ReqsOK'
    BY <1>2, <1>10, <2>2 DEF ReqsOK
  <2>. QED
    BY <1>1, <1>2, <1>8, <1>10, <2>3, RestKeeps DEF IInv
<1>. QED
  BY <1>9, <1>10 DEF StatFile

-----------------------------------------------------------------------------
(* require(). *)

LEMMA SlotsAreNumbers == \A key \in Keys : Slot[key] \in Nat /\ Slot[key] \in Slots
<1>. DEFINE S == 0..4095
<1>1. S \subseteq Nat
  OBVIOUS
<1>2. Slot \in [Keys -> S]
  BY SlotAssumption DEF SlotAssumption
<1>. HIDE DEF S
<1>3. \A key \in Keys : Slot[key] \in Nat
  BY <1>1, <1>2
<1>4. \A key \in Keys : Slot[key] \in Slots
  BY Zenon DEF Slots
<1>. QED
  BY <1>3, <1>4

LEMMA StepTables ==
  ASSUME TablesOK, WorldOK, NEW h \in Hosts, RequireStep(h)
  PROVE  TablesOK'
<1>1. ASSUME NEW m \in Mods, Call(h, m)
      PROVE  TablesOK'
  <2>. DEFINE key == <<h, m>>
              slot == Slot[key]
              t == IF ttls[slot] = 0 THEN (clock + (slot % TTL)) % Word ELSE clock % Word
  <2>1. key \in Keys /\ slot \in Slots /\ slot \in Nat
    <3>1. key \in Keys
      BY <1>1 DEF Keys
    <3>. QED
      BY <3>1, SlotsAreNumbers
  <2>2. clock \in Nat /\ TTL \in Nat \ {0} /\ Word \in Nat \ {0}
    BY TTLAssumption, StartAssumption, BoundsAssumption
       DEF TTLAssumption, StartAssumption, BoundsAssumption, WorldOK
  <2>3. t \in 0..Word - 1
    <3>1. slot % TTL \in Nat
      BY <2>1, <2>2
    <3>2. clock % Word \in 0..Word - 1
      BY <2>2
    <3>3. \A n \in Nat : n % Word \in 0..Word - 1
      BY <2>2
    <3>4. clock + (slot % TTL) \in Nat
      BY <2>2, <3>1
    <3>. HIDE DEF slot
    <3>. QED
      BY <3>2, <3>3, <3>4
  <2>4. ttls' = ttls \/ ttls' = [ttls EXCEPT ![slot] = t]
    BY <1>1 DEF Call
  <2>5. tbuf' = key
    BY <1>1 DEF Call
  <2>6. DOMAIN loaded' = Keys
    BY <1>1 DEF Call, TablesOK
  <2>. HIDE DEF t, slot, key
  <2>. QED
    BY <2>1, <2>3, <2>4, <2>5, <2>6 DEF TablesOK
<1>2. Finish => TablesOK'
  BY DEF Finish, TablesOK
<1>3. Fail => TablesOK'
  BY DEF Fail, TablesOK, tables
<1>. QED
  BY <1>1, <1>2, <1>3 DEF RequireStep

LEMMA RequireOfKeeps ==
  ASSUME IInv, NEW r \in Reqs, RequireOf(r)
  PROVE  IInv'
<1>1. /\ cur = r /\ RequireStep(req[r].host) /\ ran' = NoRun
      /\ load = NoLoad /\ UNCHANGED <<world, cur, lua_routed, cache, load, edits, starts>>
      /\ req' = req \/ req' = [req EXCEPT ![r] = Called(r)]
  BY DEF RequireOf
<1>2. /\ WorldOK /\ ReqsOK /\ CacheOK /\ TablesOK /\ CountsOK
      /\ Fit(r, req[r]) /\ req[r] \in Request /\ req[r].host \in Hosts /\ DOMAIN req = Reqs
      /\ UNCHANGED <<clock, disk, gone, path>>
      /\ lua_routed' \in BOOLEAN /\ starts' \in 0..MaxStarts /\ path' \in Hosts
      /\ cur' # NoReq
  BY <1>1, NoReqOut DEF IInv, ReqsOK, Fit, world, WorldOK, CountsOK
<1>3. ReqsOK'
  <2>1. CASE req' = req
    BY <1>1, <1>2, <2>1 DEF ReqsOK, Fit, Framed, Routed, Version
  <2>2. CASE req' = [req EXCEPT ![r] = Called(r)]
    <3>. PICK x : x = Called(r)
      OBVIOUS
    <3>1. x = [Called(r) EXCEPT !.refused = req[r].refused]
      <4>1. Called(r) \in Request /\ Called(r).refused = req[r].refused
        BY <1>2, CalledType
      <4>2. \A z \in Request : [z EXCEPT !.refused = z.refused] = z
        BY DEF Request
      <4>. QED
        BY <4>1, <4>2
    <3>2. req[r].refused \in BOOLEAN
      BY <1>2 DEF Request
    <3>3. Fit(r, x)'
      BY <1>1, <1>2, <3>1, <3>2, CallFit
    <3>. QED
      BY <1>1, <1>2, <2>2, <3>3, OneKeeps
  <2>. QED
    BY <1>1, <2>1, <2>2
<1>4. TablesOK'
  BY <1>1, <1>2, StepTables
<1>. QED
  BY <1>1, <1>2, <1>3, <1>4, RestKeeps DEF IInv

-----------------------------------------------------------------------------
(* Time and changes of files. *)

LEMMA TickKeeps ==
  ASSUME IInv, Tick
  PROVE  IInv'
<1>1. /\ clock < MaxClock /\ clock' = clock + 1 /\ ran' = NoRun
      /\ UNCHANGED <<disk, gone, path, req, cur, lua_routed, cache, load, edits, starts, tables, nest>>
      /\ load = NoLoad
  BY NoReqOut DEF Tick, Quiet, NoRequire, IInv, LoadOK
<1>2. clock \in Nat /\ MaxClock \in Nat /\ Start0 \in Nat
  BY StartAssumption, BoundsAssumption DEF StartAssumption, BoundsAssumption, IInv, WorldOK
<1>3. WorldOK'
  BY <1>1, <1>2 DEF IInv, WorldOK
<1>4. ReqsOK' /\ LoadOK'
  BY <1>1 DEF IInv, LoadOK, ReqsOK, Fit, Framed, Routed, Version
<1>5. CacheOK'
  <2>. SUFFICES ASSUME NEW p \in Hosts \X Files PROVE Sound(p, cache[p])'
    BY <1>1 DEF IInv, CacheOK
  <2>1. Sound(p, cache[p])
    BY DEF IInv, CacheOK
  <2>2. \A t \in Start0..clock : t \in Start0..clock'
    BY <1>1, <1>2
  <2>3. Behind(p, cache[p])' <=> Behind(p, cache[p])
    BY <1>1 DEF Behind, NewerFrom
  <2>. QED
    BY <1>1, <2>1, <2>2, <2>3 DEF Sound
<1>6. TablesOK' /\ CountsOK' /\ CodeFresh'
  BY <1>1 DEF IInv, TablesOK, tables, CountsOK, CodeFresh
<1>. QED
  BY <1>3, <1>4, <1>5, <1>6 DEF IInv

\* A file got one more version, of the present.
LEMMA EditCache ==
  ASSUME WorldOK, CacheOK, NEW p \in Paths, NEW new \in File, new.at = clock,
         disk' = [disk EXCEPT ![p] = Append(@, new)], UNCHANGED <<clock, cache>>
  PROVE  CacheOK'
<1>. SUFFICES ASSUME NEW o \in Hosts \X Files PROVE Sound(o, cache[o])'
  BY DEF CacheOK
<1>. DEFINE e == cache[o]
            n == Len(disk[o])
            m == Len(disk'[o])
<1>1. o \in Paths
  BY FilePaths
<1>2. n \in Nat \ {0} /\ \A i \in 1..n : disk[o][i] \in File
  BY <1>1, LastVersion
<1>3. Sound(o, e)
  BY DEF CacheOK
<1>4. CASE o # p
  <2>1. disk'[o] = disk[o]
    BY <1>1, <1>4 DEF WorldOK
  <2>. QED
    BY <1>3, <2>1 DEF Sound, Behind, NewerFrom
<1>5. CASE o = p
  <2>1. /\ m = n + 1 /\ disk'[o][m] = new
        /\ \A i \in 1..n : disk'[o][i] = disk[o][i]
    <3>1. disk[p] \in Seq(File) /\ disk'[p] = Append(disk[p], new)
      BY DEF WorldOK
    <3>. QED
      BY <1>5, <3>1
  <2>. HIDE DEF m, n
  <2>2. e.v # 0 => e.v \in 1..m
    BY <1>2, <1>3, <2>1 DEF Sound, n
  <2>3. ASSUME e.v # 0, NEW v \in e.v + 1 .. m,
               \A w \in v..m : disk'[o][w].mtime > e.mtime
        PROVE  disk'[o][v].at >= e.checked
    <3>1. e.v \in 1..n /\ e.checked \in Start0..clock /\ Behind(o, e)
      BY <1>3, <2>3 DEF Sound, n
    <3>2. CASE v = m
      <4>1. clock \in Nat /\ e.checked <= clock
        BY <3>1, StartAssumption, BoundsAssumption
           DEF StartAssumption, BoundsAssumption, WorldOK
      <4>. QED
        BY <2>1, <3>1, <3>2, <4>1
    <3>3. CASE v # m
      <4>1. v \in e.v + 1 .. n /\ v \in 1..n
        BY <1>2, <2>1, <2>3, <3>1, <3>3
      <4>2. \A w \in v..n : w \in v..m /\ w \in 1..n
        BY <1>2, <2>1, <4>1
      <4>3. \A w \in v..n : disk[o][w].mtime > e.mtime
        BY <2>1, <2>3, <3>1, <4>2
      <4>4. disk[o][v].at >= e.checked
        BY <3>1, <4>1, <4>3 DEF Behind, NewerFrom, n
      <4>. QED
        BY <2>1, <4>1, <4>4
    <3>. QED
      BY <3>2, <3>3
  <2>4. e.v # 0 => Behind(o, e)'
    BY <2>3 DEF Behind, NewerFrom, m
  <2>. QED
    BY <1>3, <2>2, <2>4 DEF Sound, m
<1>. QED
  BY <1>4, <1>5

\* What was written since the file was read was written now, the new version too.
LEMMA EditLoad ==
  ASSUME WorldOK, ReqsOK, LoadOK, NEW p \in Paths, NEW new \in File, new.at = clock,
         disk' = [disk EXCEPT ![p] = Append(@, new)], UNCHANGED <<clock, req, cur, load, nest>>
  PROVE  LoadOK'
<1>. SUFFICES ASSUME load # NoLoad
              PROVE  LoadOK'
  BY DEF LoadOK
<1>. DEFINE o == <<req[cur].host, load.file>>
            n == Len(disk[o])
            m == Len(disk'[o])
<1>1. /\ cur \in Reqs /\ nest = <<>> /\ load \in Load /\ Len(req[cur].frames) \in {0, 1}
      /\ req[cur].frames = <<>> => load.file = Route /\ load.orDie /\ ~ load.keep
      /\ load.v <= n
      /\ load.phase = "stat" => IF load.v = 0 THEN load.keep
                                ELSE \A v \in load.v + 1 .. n : disk[o][v].at = clock
  BY DEF LoadOK, Version
<1>2. o \in Paths
  BY <1>1, PathsOfFiles, NoReqOut DEF ReqsOK, Fit, Load, Request, IdleReq
<1>3. n \in Nat \ {0} /\ load.v \in Nat
  BY <1>1, <1>2, LastVersion DEF Load
<1>4. /\ m \in {n, n + 1} /\ (m = n + 1 => disk'[o][m] = new)
      /\ \A i \in 1..n : disk'[o][i] = disk[o][i]
  <2>1. CASE o # p
    <3>1. disk'[o] = disk[o]
      BY <1>2, <2>1 DEF WorldOK
    <3>. QED
      BY <1>3, <3>1
  <2>2. CASE o = p
    <3>1. disk[p] \in Seq(File) /\ disk'[p] = Append(disk[p], new)
      BY DEF WorldOK
    <3>2. \A z \in Seq(File) : LET y == Append(z, new)
                             IN  /\ Len(y) = Len(z) + 1 /\ y[Len(y)] = new
                                 /\ \A i \in 1..Len(z) : y[i] = z[i]
      OBVIOUS
    <3>. HIDE DEF o
    <3>. QED
      BY <2>2, <3>1, <3>2
  <2>. QED
    BY <2>1, <2>2
<1>. HIDE DEF n, m
<1>5. load.v <= m /\ \A v \in load.v + 1 .. m : v \in 1..n \/ (v = n + 1 /\ m = n + 1)
  BY <1>1, <1>3, <1>4
<1>6. ASSUME load.phase = "stat", load.v # 0, NEW v \in load.v + 1 .. m
      PROVE  disk'[o][v].at = clock
  <2>1. CASE v \in 1..n
    <3>1. v \in load.v + 1 .. n
      BY <1>3, <1>4, <1>6, <2>1
    <3>. QED
      BY <1>1, <1>4, <1>6, <2>1, <3>1
  <2>2. CASE v = n + 1 /\ m = n + 1
    BY <1>4, <2>2
  <2>. QED
    BY <1>5, <1>6, <2>1, <2>2
<1>. QED
  BY <1>1, <1>5, <1>6 DEF LoadOK, Version, m

LEMMA EditKeeps ==
  ASSUME IInv, NEW p \in Changing, Edit(p)
  PROVE  IInv'
<1>1. /\ WorldOK /\ ReqsOK /\ LoadOK /\ CacheOK /\ TablesOK /\ CountsOK
      /\ edits < MaxEdits /\ edits' = edits + 1 /\ gone' = gone \ {p} /\ ran' = NoRun
      /\ UNCHANGED <<clock, path, req, cur, lua_routed, cache, load, starts, tables, nest>>
  BY DEF IInv, Edit, Quiet, NoRequire
<1>2. PICK mtime \in {Start0, clock} :
        disk' = [disk EXCEPT ![p] = Append(@, [at |-> clock, mtime |-> mtime])]
  BY DEF Edit
<1>. DEFINE new == [at |-> clock, mtime |-> mtime]
<1>3. p \in Paths /\ clock \in Nat /\ Start0 \in Nat /\ new \in File /\ new.at = clock
  BY <1>1, StartAssumption, BoundsAssumption DEF StartAssumption, BoundsAssumption, WorldOK, File
<1>. HIDE DEF new
<1>4. disk' = [disk EXCEPT ![p] = Append(@, new)]
  BY <1>2 DEF new
<1>5. \A o \in Paths : /\ disk'[o] \in Seq(File) /\ disk'[o] # <<>>
                       /\ Len(disk[o]) \in Nat /\ Len(disk'[o]) \in Nat /\ Len(disk[o]) <= Len(disk'[o])
  <2>. SUFFICES ASSUME NEW o \in Paths
                PROVE  /\ disk'[o] \in Seq(File) /\ disk'[o] # <<>>
                       /\ Len(disk[o]) \in Nat /\ Len(disk'[o]) \in Nat /\ Len(disk[o]) <= Len(disk'[o])
    OBVIOUS
  <2>1. disk[o] \in Seq(File) /\ disk[o] # <<>>
    BY <1>1 DEF WorldOK
  <2>2. disk'[o] = disk[o] \/ disk'[o] = Append(disk[o], new)
    BY <1>1, <1>4 DEF WorldOK
  <2>. QED
    BY <1>3, <2>1, <2>2
<1>6. WorldOK'
  BY <1>1, <1>4, <1>5 DEF WorldOK
<1>7. ReqsOK'
  <2>1. ASSUME NEW s \in Reqs
        PROVE  Fit(s, req[s])'
    BY <1>1, <1>5, <2>1, WaitingFit DEF ReqsOK
  <2>. QED
    BY <1>1, <2>1 DEF ReqsOK
<1>8. CacheOK' /\ LoadOK'
  BY <1>1, <1>3, <1>4, EditCache, EditLoad
<1>9. TablesOK' /\ CountsOK' /\ CodeFresh'
  BY <1>1, BoundsAssumption DEF BoundsAssumption, TablesOK, tables, CountsOK, CodeFresh
<1>. QED
  BY <1>6, <1>7, <1>8, <1>9 DEF IInv

LEMMA DeleteKeeps ==
  ASSUME IInv, NEW p \in Changing, Delete(p)
  PROVE  IInv'
<1>1. /\ edits < MaxEdits /\ edits' = edits + 1 /\ gone' = gone \cup {p} /\ ran' = NoRun
      /\ UNCHANGED <<clock, disk, path, req, cur, lua_routed, cache, load, starts, tables, nest>>
  BY DEF Delete, Quiet, NoRequire
<1>2. WorldOK' /\ ReqsOK'
  BY <1>1 DEF IInv, WorldOK, ReqsOK, Fit, Framed, Routed, Version
<1>4. LoadOK' /\ CacheOK'
  BY <1>1 DEF IInv, LoadOK, Version, CacheOK, Sound, Behind, NewerFrom
<1>3. TablesOK' /\ CountsOK' /\ CodeFresh'
  BY <1>1, BoundsAssumption DEF BoundsAssumption, IInv, TablesOK, tables, CountsOK, CodeFresh
<1>. QED
  BY <1>2, <1>3, <1>4 DEF IInv

-----------------------------------------------------------------------------
(* The theorems. *)

LEMMA InitInvariant == Init => IInv
<1>. SUFFICES ASSUME Init PROVE IInv
  OBVIOUS
<1>1. /\ clock = Start0 /\ gone = {} /\ path \in Hosts
      /\ disk = [p \in Paths |-> <<[at |-> Start0, mtime |-> Start0]>>]
      /\ req = [r \in Reqs |-> IdleReq] /\ cur = NoReq /\ lua_routed = FALSE
      /\ cache = [p \in Hosts \X Files |-> NoEntry] /\ load = NoLoad /\ ran = NoRun
      /\ edits = 0 /\ starts = 0
      /\ loaded = [key \in Keys |-> None] /\ tbuf = None /\ nest = <<>>
      /\ ttls = [k \in Slots |-> 0]
  BY DEF Init, InitRequire, Slots
<1>2. Start0 \in Nat /\ Start0 \in Start0..MaxClock
  BY StartAssumption, BoundsAssumption DEF StartAssumption, BoundsAssumption
<1>3. WorldOK
  <2>1. [at |-> Start0, mtime |-> Start0] \in File
    BY <1>2 DEF File
  <2>2. \A z \in File : <<z>> \in Seq(File) /\ <<z>> # <<>>
    OBVIOUS
  <2>. QED
    BY <1>1, <1>2, <2>1, <2>2 DEF WorldOK
<1>4. ReqsOK /\ LoadOK
  <2>1. \A r \in Reqs : Fit(r, IdleReq)
    <3>1. IdleReq \in Request /\ IdleReq.frames = <<>> /\ IdleReq.state = "idle"
      BY DEF IdleReq, Request
    <3>2. \A r \in Reqs : cur # r
      BY <1>1, NoReqOut
    <3>. QED
      BY <3>1, <3>2 DEF Fit, Framed
  <2>. QED
    BY <1>1, <2>1 DEF ReqsOK, LoadOK
<1>5. CacheOK
  <2>1. NoEntry \in Chunk /\ NoEntry.v = 0
    BY DEF NoEntry, Chunk, NoFile
  <2>. QED
    BY <1>1, <2>1 DEF CacheOK, Sound
<1>6. TablesOK /\ CountsOK /\ CodeFresh
  <2>1. 0 \in 0..Word - 1
    BY TTLAssumption DEF TTLAssumption
  <2>2. edits \in 0..MaxEdits /\ starts \in 0..MaxStarts
    BY <1>1, BoundsAssumption DEF BoundsAssumption
  <2>. QED
    BY <1>1, <2>1, <2>2 DEF TablesOK, CountsOK, CodeFresh
<1>. QED
  BY <1>3, <1>4, <1>5, <1>6 DEF IInv

LEMMA NextInvariant == IInv /\ [Next]_vars => IInv'
<1>. SUFFICES ASSUME IInv, [Next]_vars PROVE IInv'
  OBVIOUS
<1>1. ASSUME NEW r \in Reqs,
             \/ \E h \in Hosts : Start(r, h)
             \/ Router(r) \/ RouterRefuses(r)
             \/ \E keep \in BOOLEAN : DoFile(r, keep)
             \/ ReadFile(r) \/ StatFile(r)
             \/ ReturnFromPage(r) \/ RequireOf(r) \/ Sleep(r) \/ Resume(r) \/ End(r)
      PROVE  IInv'
  BY <1>1, StartKeeps, RouterKeeps, RouterRefusesKeeps, DoFileKeeps, ReadFileKeeps,
     StatFileKeeps, ReturnFromPageKeeps, RequireOfKeeps, SleepKeeps, ResumeKeeps, EndKeeps
<1>2. CASE \E p \in Changing : Edit(p) \/ Delete(p)
  BY <1>2, EditKeeps, DeleteKeeps
<1>3. CASE UNCHANGED vars
  <2>1. WorldOK' /\ ReqsOK'
    <3>1. UNCHANGED <<clock, disk, gone, path, req, cur, nest, load, lua_routed>>
      BY <1>3 DEF vars, world
    <3>. QED
      BY <3>1 DEF IInv, WorldOK, ReqsOK, Fit, Framed, Routed, Version
  <2>3. LoadOK' /\ CacheOK'
    BY <1>3 DEF vars, world, IInv, LoadOK, Version, CacheOK, Sound, Behind, NewerFrom
  <2>2. TablesOK' /\ CountsOK' /\ CodeFresh'
    BY <1>3 DEF vars, world, tables, IInv, TablesOK, CountsOK, CodeFresh
  <2>. QED
    BY <2>1, <2>2, <2>3 DEF IInv
<1>. QED
  BY <1>1, <1>2, <1>3, TickKeeps DEF Next

\* IInv holds in every state of the worker.
THEOREM Invariant == Spec => []IInv
BY InitInvariant, NextInvariant, PTL DEF Spec

\* The requests, the cache of chunks and the tables of require() keep their types:
\* a script that neither executes nor sleeps has no chunks, one that does has the
\* route file, unless it is loading it, and at most one page, each in a version that
\* its file had.
THEOREM TypeCorrect == Spec => []TypeOK
<1>1. IInv => TypeOK
  <2>. SUFFICES ASSUME IInv PROVE TypeOK
    OBVIOUS
  <2>1. /\ clock \in Start0..MaxClock /\ gone \subseteq Changing /\ path \in Hosts
        /\ \A p \in Paths : disk[p] # <<>>
    BY DEF IInv, WorldOK
  <2>2. /\ DOMAIN loaded = Keys /\ tbuf \in Keys \cup {None}
        /\ \A k \in DOMAIN ttls : ttls[k] \in 0..Word - 1
    BY DEF IInv, TablesOK
  <2>3. /\ cur = NoReq => nest = <<>> /\ load = NoLoad
        /\ load # NoLoad =>
             /\ load.phase \in {"read", "stat"} /\ load.file \in Files /\ nest = <<>>
             /\ load.v \in 0..Version(req[cur].host, load.file)
    <3>1. cur = NoReq => nest = <<>> /\ load = NoLoad
      BY NoReqOut DEF IInv, ReqsOK, LoadOK
    <3>. SUFFICES ASSUME load # NoLoad
                  PROVE  /\ load.phase \in {"read", "stat"} /\ load.file \in Files /\ nest = <<>>
                         /\ load.v \in 0..Version(req[cur].host, load.file)
      BY <3>1
    <3>2. load \in Load /\ nest = <<>> /\ load.v <= Version(req[cur].host, load.file) /\ cur \in Reqs
      BY DEF IInv, LoadOK
    <3>3. <<req[cur].host, load.file>> \in Paths
      BY <3>2, PathsOfFiles, NoReqOut DEF IInv, ReqsOK, Fit, Load, Request, IdleReq
    <3>4. Version(req[cur].host, load.file) \in Nat
      BY <3>3, LastVersion DEF IInv, Version
    <3>. QED
      BY <3>2, <3>4 DEF Load
  <2>4. ASSUME NEW r \in Reqs
        PROVE  LET q == req[r]
               IN  /\ q.state = "idle" => q = IdleReq
                   /\ q.state # "idle" => Len(q.frames) \in 0..2 /\ q.host \in Hosts
                   /\ q.state # "idle" /\ q.frames = <<>> => cur = r /\ load.file = Route
                   /\ q.state = "run" <=> cur = r
                   /\ \A i \in DOMAIN q.frames : q.frames[i].v \in 1..Version(q.host, q.frames[i].file)
    <3>1. Fit(r, req[r]) /\ req[r].frames \in Seq(Frame)
      BY DEF IInv, ReqsOK, Fit, Request
    <3>2. DOMAIN req[r].frames = 1..Len(req[r].frames)
      BY <3>1
    <3>3. req[r].state # "idle" /\ req[r].frames = <<>> => cur = r /\ load.file = Route
      BY <3>1 DEF IInv, LoadOK, Fit
    <3>. QED
      BY <3>1, <3>2, <3>3 DEF Fit, Framed
  <2>5. ASSUME NEW p \in Hosts \X Files, cache[p].v # 0
        PROVE  cache[p].v \in DOMAIN disk[p] /\ cache[p].checked \in Start0..clock
    <3>1. p \in Paths
      BY FilePaths
    <3>2. disk[p] \in Seq(File)
      BY <3>1 DEF IInv, WorldOK
    <3>3. DOMAIN disk[p] = 1..Len(disk[p])
      BY <3>2
    <3>. QED
      BY <2>5, <3>3 DEF IInv, CacheOK, Sound
  <2>6. lua_routed \in BOOLEAN /\ edits \in 0..MaxEdits /\ starts \in 0..MaxStarts
    BY DEF IInv, CountsOK
  <2>. QED
    BY <2>1, <2>2, <2>3, <2>4, <2>5, <2>6 DEF TypeOK
<1>. QED
  BY <1>1, Invariant, PTL

\* However requests follow and interrupt one another, the one flag of the worker
\* answers a script that has not waited as one of its own would.
THEOREM RouterRoutesOnce == Spec => []RoutedOnce
<1>1. IInv => RoutedOnce
  <2>. SUFFICES ASSUME IInv, NEW r \in Reqs, ~ req[r].slept
                PROVE  (req[r].refused => req[r].routed > 0) /\ req[r].routed <= 1
    BY DEF RoutedOnce
  <2>1. Fit(r, req[r])
    BY DEF IInv, ReqsOK
  <2>2. CASE cur = r
    BY <2>1, <2>2 DEF Fit, Routed
  <2>3. CASE cur # r
    <3>1. req[r].state = "idle"
      BY <2>1, <2>3 DEF Fit, Request
    <3>. QED
      BY <2>1, <3>1 DEF Fit, IdleReq
  <2>. QED
    BY <2>2, <2>3
<1>. QED
  BY <1>1, Invariant, PTL

\* Although a chunk of the cache is one object for all requests, a script sees its
\* own globals in it until it waits, for any number of requests and hosts.
THEOREM ChunksSeeOwnGlobals == Spec => []OwnGlobals
<1>1. IInv => OwnGlobals
  <2>. SUFFICES ASSUME IInv, NEW r \in Reqs, NEW i \in DOMAIN req[r].frames, req[r].frames[i].fresh
                PROVE  req[r].frames[i].env = r
    BY DEF OwnGlobals
  <2>1. Fit(r, req[r]) /\ req[r].frames \in Seq(Frame)
    BY DEF IInv, ReqsOK, Fit, Request
  <2>2. i \in 1..Len(req[r].frames)
    BY <2>1
  <2>. QED
    BY <2>1, <2>2 DEF Fit, Framed
<1>. QED
  BY <1>1, Invariant, PTL

\* loadfile and loadtemplate call no chunk that was replaced more than
\* code_cache_ttl seconds before, whenever files are written and whatever times they
\* get, unless a file has come since that is not newer than the time noted for the
\* chunk.  The time noted is that of the file there when the chunk was stored: an
\* edit between the reading of a file (core.lua:458) and the asking for its time
\* (core.lua:467) is such a file's, and hides itself until a file with a later time
\* comes.
THEOREM ChunksAreFresh == Spec => []CodeFresh
<1>1. IInv => CodeFresh
  BY DEF IInv
<1>. QED
  BY <1>1, Invariant, PTL

-----------------------------------------------------------------------------
(* What require() returns, when no module requires another one. *)

Flat == \A m \in Mods : Needs[m] = <<>>

\* At most one module is under execution, and the static buffer has its key.
OneNested ==
  nest # <<>> => /\ tbuf \in Keys /\ loaded[tbuf] = Sentinel
                 /\ \E value : nest = <<[key |-> tbuf, todo |-> <<>>, value |-> value]>>

Within == IInv /\ OneNested

\* The cases of a step of require().
LEMMA StepCases ==
  ASSUME Flat, OneNested, NEW h \in Hosts, RequireStep(h)
  PROVE  \/ nest = <<>> /\ \E m \in Mods : Call(h, m)
         \/ /\ nest # <<>> /\ nest' = <<>>
            /\ \E value, stored :
                 /\ nest = <<[key |-> tbuf, todo |-> <<>>, value |-> value]>>
                 /\ stored \in {value, True} /\ (stored = None => stored = True)
                 /\ loaded' = [loaded EXCEPT ![tbuf] = stored]
                 /\ got' = [key |-> tbuf, value |-> stored]
            /\ UNCHANGED <<ttls, tbuf>>
         \/ nest' = <<>> /\ got'.value = Error /\ UNCHANGED tables
<1>1. ASSUME NEW m \in Mods, nest # <<>> => nest[Len(nest)].todo # <<>>, Call(h, m)
      PROVE  nest = <<>>
  <2>. SUFFICES ASSUME nest # <<>> PROVE FALSE
    OBVIOUS
  <2>1. PICK value : nest = <<[key |-> tbuf, todo |-> <<>>, value |-> value]>>
    BY DEF OneNested
  <2>2. nest[Len(nest)].todo = <<>>
    BY <2>1
  <2>. QED
    BY <1>1, <2>2
<1>2. ASSUME Finish
      PROVE  /\ nest # <<>> /\ nest' = <<>>
             /\ \E value, stored :
                  /\ nest = <<[key |-> tbuf, todo |-> <<>>, value |-> value]>>
                  /\ stored \in {value, True} /\ (stored = None => stored = True)
                  /\ loaded' = [loaded EXCEPT ![tbuf] = stored]
                  /\ got' = [key |-> tbuf, value |-> stored]
             /\ UNCHANGED <<ttls, tbuf>>
  <2>1. nest # <<>> /\ UNCHANGED <<ttls, tbuf>>
    BY <1>2 DEF Finish
  <2>2. PICK value : nest = <<[key |-> tbuf, todo |-> <<>>, value |-> value]>>
    BY <2>1 DEF OneNested
  <2>3. /\ Len(nest) = 1 /\ nest[1].key = tbuf /\ nest[1].value = value
        /\ SubSeq(nest, 1, 0) = <<>> /\ loaded[tbuf] = Sentinel
    BY <2>1, <2>2 DEF OneNested
  <2>4. PICK val \in {value, None} :
          LET stored == IF val # None THEN val
                        ELSE IF loaded[tbuf] = Sentinel THEN True ELSE loaded[tbuf]
          IN  /\ loaded' = [loaded EXCEPT ![tbuf] = stored]
              /\ Return(tbuf, stored, <<>>)
    <3>1. PICK val \in {nest[Len(nest)].value} \cup (IF "nil" \in Moves THEN {None} ELSE {}) :
            LET stored == IF val # None THEN val
                          ELSE IF loaded[tbuf] = Sentinel THEN True ELSE loaded[tbuf]
            IN  /\ loaded' = [loaded EXCEPT ![tbuf] = stored]
                /\ Return(nest[Len(nest)].key, stored, SubSeq(nest, 1, Len(nest) - 1))
      BY <1>2 DEF Finish
    <3>2. val \in {value, None}
      BY <2>3, <3>1
    <3>3. nest[Len(nest)].key = tbuf /\ SubSeq(nest, 1, Len(nest) - 1) = <<>>
      BY <2>3
    <3>. QED
      BY <3>1, <3>2, <3>3
  <2>5. PICK stored : stored = IF val # None THEN val ELSE True
    OBVIOUS
  <2>6. /\ loaded' = [loaded EXCEPT ![tbuf] = stored]
        /\ nest' = <<>> /\ got' = [key |-> tbuf, value |-> stored]
    BY <2>3, <2>4, <2>5 DEF Return
  <2>7. stored \in {value, True} /\ (stored = None => stored = True)
    BY <2>4, <2>5
  <2>. QED
    BY <2>1, <2>2, <2>6, <2>7
<1>3. Fail => nest' = <<>> /\ got'.value = Error /\ UNCHANGED tables
  BY DEF Fail, Raise
<1>. QED
  BY <1>1, <1>2, <1>3 DEF RequireStep

LEMMA CallNests ==
  ASSUME Flat, TablesOK, nest = <<>>, NEW h \in Hosts, NEW m \in Mods, Call(h, m)
  PROVE  OneNested'
<1>. DEFINE key == <<h, m>>
            value == [of |-> <<path, m>>, v |-> Version(path, m)]
<1>1. key \in Keys /\ tbuf' = key
  BY DEF Call, Keys
<1>. SUFFICES ASSUME nest' # <<>>
              PROVE  loaded'[key] = Sentinel /\ nest' = <<[key |-> key, todo |-> <<>>, value |-> value]>>
  BY <1>1 DEF OneNested
<1>2. /\ loaded' = [loaded EXCEPT ![key] = Sentinel]
      /\ nest' = Append(nest, [key |-> key, todo |-> Needs[m], value |-> value])
  BY DEF Call, Raise, Return
<1>3. Needs[m] = <<>>
  BY DEF Flat
<1>. HIDE DEF key, value
<1>. QED
  BY <1>1, <1>2, <1>3 DEF TablesOK

LEMMA RequireNests ==
  ASSUME Flat, Within, NEW r \in Reqs, RequireOf(r)
  PROVE  OneNested'
<1>1. RequireStep(req[r].host) /\ req[r].host \in Hosts /\ TablesOK
  BY DEF Within, IInv, ReqsOK, Fit, RequireOf
<1>2. nest' = <<>> => OneNested'
  BY DEF OneNested
<1>. QED
  BY <1>1, <1>2, StepCases, CallNests DEF Within

\* Everything else leaves require() alone.
LEMMA OthersLeave ==
  ASSUME [Next]_vars, \A r \in Reqs : ~ RequireOf(r)
  PROVE  UNCHANGED <<loaded, ttls, tbuf, nest>> /\ (got' = NoGot \/ UNCHANGED vars)
<1>1. NoRequire => UNCHANGED <<loaded, ttls, tbuf, nest>> /\ got' = NoGot
  BY DEF NoRequire, tables
<1>2. ASSUME NEW r \in Reqs, NEW h \in Hosts, Start(r, h)
      PROVE  NoRequire
  BY <1>2 DEF Start
<1>3. ASSUME NEW r \in Reqs, NEW keep \in BOOLEAN, DoFile(r, keep) \/ ReadFile(r) \/ StatFile(r)
      PROVE  NoRequire
  BY <1>3 DEF DoFile, ReadFile, StatFile
<1>4. ASSUME NEW r \in Reqs,
             Router(r) \/ RouterRefuses(r) \/ ReturnFromPage(r) \/ Sleep(r) \/ Resume(r) \/ End(r)
      PROVE  NoRequire
  BY <1>4 DEF Router, RouterRefuses, ReturnFromPage, Sleep, Resume, End, Quiet
<1>5. ASSUME Tick \/ \E p \in Changing : Edit(p) \/ Delete(p)
      PROVE  NoRequire
  BY <1>5 DEF Tick, Edit, Delete, Quiet
<1>6. UNCHANGED vars => UNCHANGED <<loaded, ttls, tbuf, nest, got>>
  BY DEF vars, tables
<1>. QED
  BY <1>1, <1>2, <1>3, <1>4, <1>5, <1>6 DEF Next

LEMMA NextNests ==
  ASSUME Flat, Within, [Next]_vars
  PROVE  OneNested'
<1>1. CASE \E r \in Reqs : RequireOf(r)
  BY <1>1, RequireNests
<1>2. CASE \A r \in Reqs : ~ RequireOf(r)
  BY <1>2, OthersLeave DEF Within, OneNested
<1>. QED
  BY <1>1, <1>2

\* Where no module requires another one, what require() returns for a name is what
\* it has stored under that name, the static buffer notwithstanding.
THEOREM FlatReturnsLoaded ==
  ASSUME \A m \in Mods : Needs[m] = <<>>
  PROVE  Spec => ReturnedIsLoaded
<1>. DEFINE Returned == got' # NoGot /\ got'.value # Error => loaded'[got'.key] = got'.value
<1>1. Flat
  BY DEF Flat
<1>2. Init => Within
  BY InitInvariant DEF Init, InitRequire, OneNested, Within
<1>3. Within /\ [Next]_vars => Within'
  BY <1>1, NextInvariant, NextNests DEF Within
<1>4. Within /\ [Next]_vars => [Returned]_<<tables, nest, got>>
  <2>. SUFFICES ASSUME Within, [Next]_vars PROVE Returned \/ UNCHANGED <<tables, nest, got>>
    OBVIOUS
  <2>1. CASE \A r \in Reqs : ~ RequireOf(r)
    BY <2>1, OthersLeave DEF tables, vars
  <2>2. ASSUME NEW r \in Reqs, RequireOf(r)
        PROVE  Returned
    <3>1. RequireStep(req[r].host) /\ req[r].host \in Hosts /\ TablesOK
      BY <2>2 DEF Within, IInv, ReqsOK, Fit, RequireOf
    <3>2. PICK h \in Hosts : h = req[r].host
      BY <3>1
    <3>3. ASSUME nest = <<>>, NEW m \in Mods, Call(h, m)
          PROVE  Returned
      <4>. DEFINE key == <<h, m>>
                  found == IF Expired(key) THEN None ELSE loaded[key]
      <4>1. CASE found = Sentinel \/ (found = None /\ <<path, m>> \in gone)
        BY <3>3, <4>1 DEF Call, Raise
      <4>2. CASE found # None /\ found # Sentinel
        <5>1. got' = [key |-> key, value |-> found] /\ loaded' = loaded
          BY <3>3, <4>2 DEF Call, Return
        <5>. QED
          BY <4>2, <5>1
      <4>3. CASE found = None /\ found # Sentinel /\ <<path, m>> \notin gone
        BY <3>3, <4>3 DEF Call
      <4>. QED
        BY <4>1, <4>2, <4>3
    <3>4. ASSUME nest # <<>>, NEW stored, loaded' = [loaded EXCEPT ![tbuf] = stored],
                 got' = [key |-> tbuf, value |-> stored]
          PROVE  Returned
      <4>1. tbuf \in DOMAIN loaded
        BY <3>1, <3>4 DEF Within, OneNested, TablesOK
      <4>. QED
        BY <3>4, <4>1
    <3>. HIDE DEF Returned
    <3>5. got'.value = Error => Returned
      BY DEF Returned
    <3>. QED
      BY <1>1, <3>1, <3>2, <3>3, <3>4, <3>5, StepCases DEF Within
  <2>. QED
    BY <2>1, <2>2
<1>5. Spec => [][Returned]_<<tables, nest, got>>
  BY <1>2, <1>3, <1>4, PTL DEF Spec
<1>. QED
  BY <1>5 DEF ReturnedIsLoaded

-----------------------------------------------------------------------------
(* Which module require() returns. *)

\* What ModuleRight needs: no module requires another, every host and module has a
\* hash slot of its own, a script requires before it first waits, and 16 bits hold
\* the time.
Undisturbed == /\ \A m \in Mods : Needs[m] = <<>>
               /\ \A k1, k2 \in Keys : Slot[k1] = Slot[k2] => k1 = k2
               /\ "late" \notin Moves
               /\ MaxClock + TTL <= Word

\* The value kept under key is the newest version of that module, or its time ends
\* less than TTL after the newest version came, or the file is gone.
Newest(key) == Len(disk[key])

Held(key, value) ==
  value \notin {None, Sentinel, True} =>
    /\ value.of = key
    /\ \/ value.v = Newest(key)
       \/ key \in gone
       \/ ttls[Slot[key]] < disk[key][Newest(key)].at + TTL

Kept == \A key \in Keys : Held(key, loaded[key])

\* No time lies TTL or more ahead.
Dated == \A s \in Slots : ttls[s] < clock + TTL

\* The module under execution is that of the key, in its newest version if that did
\* not come just now.
Recent(key, v) == v = Newest(key) \/ disk[key][Newest(key)].at = clock

Loading ==
  nest # <<>> => \E v : /\ nest = <<[key |-> tbuf, todo |-> <<>>, value |-> [of |-> tbuf, v |-> v]]>>
                        /\ Recent(tbuf, v)

MInv == Within /\ Kept /\ Dated /\ Loading

LEMMA KeyPaths == \A key \in Keys : key \in Paths
BY DEF Keys, Paths

LEMMA Times ==
  ASSUME WorldOK, TablesOK, Undisturbed
  PROVE  /\ clock \in Nat /\ TTL \in Nat \ {0} /\ clock % Word = clock
         /\ \A s \in Slots : ttls[s] \in Nat
         /\ \A s \in Nat : /\ (clock + (s % TTL)) % Word = clock + (s % TTL)
                           /\ s % TTL \in 0..TTL - 1
<1>1. /\ clock \in Nat /\ TTL \in Nat \ {0} /\ Word \in Nat \ {0} /\ clock <= MaxClock
      /\ MaxClock \in Nat /\ MaxClock + TTL <= Word
  BY TTLAssumption, StartAssumption, BoundsAssumption
     DEF TTLAssumption, StartAssumption, BoundsAssumption, WorldOK, Undisturbed
<1>2. \A n \in Nat : n < Word => n % Word = n
  BY <1>1
<1>3. clock < Word
  BY <1>1
<1>4. \A s \in Slots : ttls[s] \in Nat
  <2>. SUFFICES ASSUME NEW s \in Slots PROVE ttls[s] \in Nat
    OBVIOUS
  <2>1. ttls[s] \in 0..Word - 1
    BY DEF TablesOK
  <2>. QED
    BY <1>1, <2>1
<1>5. ASSUME NEW s \in Nat
      PROVE  (clock + (s % TTL)) % Word = clock + (s % TTL) /\ s % TTL \in 0..TTL - 1
  <2>1. s % TTL \in 0..TTL - 1
    BY <1>1
  <2>2. clock + (s % TTL) \in Nat /\ clock + (s % TTL) < Word
    BY <1>1, <2>1
  <2>. QED
    BY <1>2, <2>1, <2>2
<1>. QED
  BY <1>1, <1>2, <1>3, <1>4, <1>5

\* The first step of a require, made for the host whose root is on package.path.
LEMMA CallRight ==
  ASSUME Undisturbed, MInv, UNCHANGED world, nest = <<>>,
         NEW h \in Hosts, path = h, NEW m \in Mods, Call(h, m)
  PROVE  Kept' /\ Dated' /\ Loading' /\ ModuleRight'
<1>. DEFINE key == <<h, m>>
            slot == Slot[key]
            found == IF Expired(key) THEN None ELSE loaded[key]
            value == [of |-> key, v |-> Newest(key)]
<1>1. /\ WorldOK /\ TablesOK /\ Kept /\ Dated /\ UNCHANGED <<clock, disk, gone>>
  BY DEF MInv, Within, IInv, world
<1>2. key \in Keys /\ key \in Paths /\ slot \in Slots /\ slot \in Nat
  <2>1. key \in Keys
    BY DEF Keys
  <2>. QED
    BY <2>1, KeyPaths, SlotsAreNumbers
<1>3. /\ clock \in Nat /\ TTL \in Nat \ {0} /\ clock % Word = clock
      /\ \A s \in Slots : ttls[s] \in Nat
      /\ (clock + (slot % TTL)) % Word = clock + (slot % TTL) /\ slot % TTL \in 0..TTL - 1
  BY <1>1, <1>2, Times
<1>4. /\ Newest(key) \in Nat \ {0} /\ disk[key][Newest(key)] \in File
      /\ disk[key][Newest(key)].at \in Nat
  BY <1>1, <1>2, LastVersion DEF Newest, File
<1>5. Needs[m] = <<>> /\ \A k \in Keys : Slot[k] = slot => k = key
  BY <1>2 DEF Undisturbed
<1>6. tbuf' = key
  BY DEF Call
<1>7. /\ ~ Expired(key) => ttls' = ttls
      /\ Expired(key) => \E t \in Nat : t < clock + TTL /\ ttls' = [ttls EXCEPT ![slot] = t]
  <2>1. CASE Expired(key)
    <3>. DEFINE t == IF ttls[slot] = 0 THEN (clock + (slot % TTL)) % Word ELSE clock % Word
    <3>1. ttls' = [ttls EXCEPT ![slot] = t]
      BY <2>1 DEF Call
    <3>2. t = clock + (slot % TTL) \/ t = clock
      BY <1>3
    <3>. HIDE DEF t
    <3>3. t \in Nat /\ t < clock + TTL
      BY <1>3, <3>2
    <3>. QED
      BY <2>1, <3>1, <3>3
  <2>2. CASE ~ Expired(key)
    BY <2>2 DEF Call
  <2>. QED
    BY <2>1, <2>2
<1>8. Expired(key) <=> clock - ttls[slot] >= TTL
  BY <1>3 DEF Expired
<1>. HIDE DEF slot, key
<1>9. Dated'
  <2>. SUFFICES ASSUME NEW s \in Slots PROVE ttls'[s] < clock + TTL
    BY <1>1 DEF Dated
  <2>1. ttls[s] < clock + TTL
    BY <1>1 DEF Dated
  <2>2. CASE ~ Expired(key)
    BY <1>7, <2>1, <2>2
  <2>3. CASE Expired(key)
    <3>1. PICK t \in Nat : t < clock + TTL /\ ttls' = [ttls EXCEPT ![slot] = t]
      BY <1>7, <2>3
    <3>. QED
      BY <1>1, <2>1, <3>1 DEF TablesOK
  <2>. QED
    BY <2>2, <2>3
\* What is kept under the other keys stays, and so do their times.
<1>10. ASSUME NEW k \in Keys, k # key
       PROVE  Held(k, loaded[k]) /\ ttls'[Slot[k]] = ttls[Slot[k]]
  <2>1. Held(k, loaded[k])
    BY <1>1 DEF Kept
  <2>2. Slot[k] # slot /\ Slot[k] \in Slots
    BY <1>5, <1>10, SlotsAreNumbers
  <2>3. ttls'[Slot[k]] = ttls[Slot[k]]
    BY <1>1, <1>7, <2>2 DEF TablesOK
  <2>. QED
    BY <2>1, <2>3
<1>11. Held(key, loaded[key])
  BY <1>1, <1>2 DEF Kept
<1>12. CASE found = Sentinel \/ (found = None /\ key \in gone)
  <2>1. loaded' = loaded /\ nest' = <<>> /\ got'.value = Error
    BY <1>12 DEF Call, Raise, key
  <2>2. Held(key, loaded[key])'
    <3>1. CASE Expired(key)
      <4>1. found = None /\ key \in gone
        BY <1>12, <3>1, ValuesAssumption DEF ValuesAssumption
      <4>. QED
        BY <1>1, <1>11, <2>1, <4>1 DEF Held
    <3>2. CASE ~ Expired(key)
      BY <1>1, <1>7, <1>11, <2>1, <3>2 DEF Held, Newest, key, slot
    <3>. QED
      BY <3>1, <3>2
  <2>3. \A k \in Keys : k # key => Held(k, loaded[k])'
    BY <1>1, <1>10, <2>1 DEF Held, Newest
  <2>. QED
    BY <1>9, <2>1, <2>2, <2>3 DEF Kept, Loading, ModuleRight
<1>13. CASE found # None /\ found # Sentinel
  <2>1. ~ Expired(key) /\ found = loaded[key]
    BY <1>13
  <2>2. loaded' = loaded /\ nest' = <<>> /\ got' = [key |-> key, value |-> found]
    BY <1>13 DEF Call, Return, key
  <2>3. Kept'
    BY <1>1, <1>7, <2>1, <2>2 DEF Kept, Held, Newest
  <2>4. ModuleRight'
    <3>. SUFFICES ASSUME found \notin {None, True, Error}
                  PROVE  LET file == disk[key]
                         IN  /\ found.of = key
                             /\ found.v = Len(file) \/ key \in gone
                                \/ file[Len(file)].at + 2 * TTL > clock
      BY <1>1, <2>2 DEF ModuleRight
    <3>1. /\ found.of = key
          /\ \/ found.v = Newest(key) \/ key \in gone
             \/ ttls[slot] < disk[key][Newest(key)].at + TTL
      BY <1>11, <1>13, <2>1 DEF Held, slot
    <3>2. clock - ttls[slot] < TTL /\ ttls[slot] \in Nat
      BY <1>2, <1>3, <1>8, <2>1
    <3>3. ttls[slot] < disk[key][Newest(key)].at + TTL
            => disk[key][Newest(key)].at + 2 * TTL > clock
      BY <1>3, <1>4, <3>2
    <3>. QED
      BY <3>1, <3>3 DEF Newest
  <2>. QED
    BY <1>9, <2>2, <2>3, <2>4 DEF Loading
<1>14. CASE found = None /\ found # Sentinel /\ key \notin gone
  <2>1. /\ loaded' = [loaded EXCEPT ![key] = Sentinel] /\ got' = NoGot
        /\ nest' = Append(nest, [key |-> key, todo |-> Needs[m], value |-> value])
    BY <1>14 DEF Call, key, Version, Newest
  <2>2. nest' = <<[key |-> key, todo |-> <<>>, value |-> value]>>
    BY <1>5, <2>1
  <2>3. Loading'
    BY <1>1, <1>6, <2>2 DEF Loading, Recent, Newest
  <2>4. Kept'
    <3>. SUFFICES ASSUME NEW k \in Keys PROVE Held(k, loaded[k])'
      BY DEF Kept
    <3>1. CASE k = key
      BY <1>1, <1>2, <2>1, <3>1 DEF Held, TablesOK
    <3>2. CASE k # key
      BY <1>1, <1>10, <2>1, <3>2 DEF Held, Newest, TablesOK
    <3>. QED
      BY <3>1, <3>2
  <2>5. ModuleRight'
    BY <2>1 DEF ModuleRight, NoGot
  <2>. QED
    BY <1>9, <2>3, <2>4, <2>5
<1>. QED
  BY <1>12, <1>13, <1>14

\* A require of a script: the first step, or the end of one.
LEMMA RequireRight ==
  ASSUME Undisturbed, MInv, NEW r \in Reqs, RequireOf(r)
  PROVE  Kept' /\ Dated' /\ Loading' /\ ModuleRight'
<1>1. cur = r /\ UNCHANGED world /\ (nest = <<>> => ~ req[r].slept)
  BY DEF RequireOf, Undisturbed
<1>2. PICK h \in Hosts : h = req[r].host /\ RequireStep(h)
  BY DEF MInv, Within, IInv, ReqsOK, Fit, RequireOf
<1>3. Flat
  BY DEF Flat, Undisturbed
<1>4. CASE nest = <<>> /\ \E m \in Mods : Call(h, m)
  <2>1. path = h
    BY <1>1, <1>2, <1>4 DEF MInv, Within, IInv, ReqsOK, Fit, Routed
  <2>. QED
    BY <1>1, <1>4, <2>1, CallRight
<1>5. /\ WorldOK /\ TablesOK /\ Kept /\ Dated /\ UNCHANGED <<clock, disk, gone>>
  BY <1>1 DEF MInv, Within, IInv, world
<1>6. CASE nest' = <<>> /\ got'.value = Error /\ UNCHANGED tables
  <2>1. Kept' /\ Dated'
    BY <1>5, <1>6 DEF Kept, Held, Newest, Dated, tables
  <2>. QED
    BY <1>6, <2>1 DEF Loading, ModuleRight
<1>7. ASSUME NEW value, NEW stored, nest # <<>>, nest' = <<>>,
             nest = <<[key |-> tbuf, todo |-> <<>>, value |-> value]>>,
             stored \in {value, True}, stored = None => stored = True,
             loaded' = [loaded EXCEPT ![tbuf] = stored],
             got' = [key |-> tbuf, value |-> stored], UNCHANGED <<ttls, tbuf>>
      PROVE  Kept' /\ Dated' /\ Loading' /\ ModuleRight'
  <2>1. tbuf \in Keys
    BY <1>7 DEF MInv, Within, OneNested
  <2>2. PICK v : value = [of |-> tbuf, v |-> v] /\ Recent(tbuf, v)
    <3>1. nest[1].value = value
      BY <1>7
    <3>2. PICK v : /\ nest = <<[key |-> tbuf, todo |-> <<>>, value |-> [of |-> tbuf, v |-> v]]>>
                   /\ Recent(tbuf, v)
      BY <1>7 DEF MInv, Loading
    <3>3. nest[1].value = [of |-> tbuf, v |-> v]
      BY <3>2
    <3>. QED
      BY <3>1, <3>2, <3>3
  <2>3. value.of = tbuf /\ Recent(tbuf, value.v)
    BY <2>2
  <2>8. /\ clock \in Nat /\ TTL \in Nat \ {0} /\ Slot[tbuf] \in Slots
        /\ ttls[Slot[tbuf]] < clock + TTL
    BY <1>5, <2>1, Times, SlotsAreNumbers DEF Dated
  <2>4. ASSUME NEW k \in Keys
        PROVE  Held(k, loaded[k])'
    <3>1. CASE k = tbuf
      <4>1. loaded'[k] = stored
        BY <1>5, <1>7, <3>1 DEF TablesOK
      <4>2. stored = True \/ (stored.of = k /\ Recent(k, stored.v))
        BY <1>7, <2>3, <3>1
      <4>. QED
        BY <1>5, <1>7, <2>8, <3>1, <4>1, <4>2 DEF Held, Recent, Newest
    <3>2. CASE k # tbuf
      <4>1. loaded'[k] = loaded[k]
        BY <1>5, <1>7, <3>2 DEF TablesOK
      <4>. QED
        BY <1>5, <1>7, <4>1 DEF Kept, Held, Newest
    <3>. QED
      BY <3>1, <3>2
  <2>5. Dated'
    BY <1>5, <1>7 DEF Dated
  <2>6. ModuleRight'
    <3>. SUFFICES ASSUME stored \notin {None, True, Error}
                  PROVE  /\ stored.of = tbuf
                         /\ \/ stored.v = Len(disk[tbuf])
                            \/ disk[tbuf][Len(disk[tbuf])].at + 2 * TTL > clock
      BY <1>5, <1>7 DEF ModuleRight
    <3>1. clock + 2 * TTL > clock
      BY <2>8
    <3>. QED
      BY <1>7, <2>3, <3>1 DEF Newest, Recent
  <2>. QED
    BY <1>7, <2>4, <2>5, <2>6 DEF Kept, Loading
<1>8. OneNested
  BY DEF MInv, Within
<1>. QED
  BY <1>2, <1>3, <1>4, <1>6, <1>7, <1>8, StepCases

\* Time, a change of a file and everything else.
LEMMA OthersRight ==
  ASSUME Undisturbed, MInv, [Next]_vars, \A r \in Reqs : ~ RequireOf(r), ModuleRight
  PROVE  Kept' /\ Dated' /\ Loading' /\ ModuleRight'
<1>1. UNCHANGED <<loaded, ttls, tbuf, nest>> /\ (got' = NoGot \/ UNCHANGED vars)
  BY OthersLeave
<1>2. WorldOK /\ TablesOK /\ Kept /\ Dated /\ Loading /\ (cur = NoReq => nest = <<>>)
  BY DEF MInv, Within, IInv, ReqsOK
<1>3. CASE UNCHANGED <<clock, disk, gone>>
  <2>1. Kept' /\ Dated' /\ Loading'
    BY <1>1, <1>2, <1>3 DEF Kept, Held, Newest, Dated, Loading, Recent
  <2>2. ModuleRight'
    BY <1>1, <1>3 DEF ModuleRight, NoGot, vars
  <2>. QED
    BY <2>1, <2>2
<1>4. clock \in Nat /\ TTL \in Nat \ {0} /\ \A s \in Slots : ttls[s] \in Nat
  BY <1>2, Times
<1>5. CASE Tick
  <2>1. clock' = clock + 1 /\ UNCHANGED <<disk, gone>> /\ got' = NoGot /\ cur = NoReq
    BY <1>5 DEF Tick, Quiet, NoRequire
  <2>2. Dated'
    BY <1>1, <1>2, <1>4, <2>1 DEF Dated
  <2>3. Kept' /\ Loading'
    BY <1>1, <1>2, <2>1 DEF Kept, Held, Newest, Loading
  <2>. QED
    BY <2>1, <2>2, <2>3 DEF ModuleRight, NoGot
<1>6. ASSUME NEW p \in Changing, Delete(p)
      PROVE  Kept' /\ Dated' /\ Loading' /\ ModuleRight'
  <2>1. gone' = gone \cup {p} /\ UNCHANGED <<disk, clock>> /\ got' = NoGot
    BY <1>6 DEF Delete, Quiet, NoRequire
  <2>2. Kept' /\ Dated' /\ Loading'
    BY <1>1, <1>2, <2>1 DEF Kept, Held, Newest, Dated, Loading, Recent
  <2>. QED
    BY <2>1, <2>2 DEF ModuleRight, NoGot
<1>7. ASSUME NEW p \in Changing, Edit(p)
      PROVE  Kept' /\ Dated' /\ Loading' /\ ModuleRight'
  <2>1. /\ gone' = gone \ {p} /\ UNCHANGED clock /\ got' = NoGot
    BY <1>7 DEF Edit, Quiet, NoRequire
  <2>2. PICK new : new.at = clock /\ disk' = [disk EXCEPT ![p] = Append(@, new)] /\ new \in File
    <3>1. PICK mtime \in {Start0, clock} :
            disk' = [disk EXCEPT ![p] = Append(@, [at |-> clock, mtime |-> mtime])]
      BY <1>7 DEF Edit
    <3>2. [at |-> clock, mtime |-> mtime] \in File
      BY <1>4, StartAssumption DEF StartAssumption, File
    <3>. QED
      BY <3>1, <3>2
  <2>3. Dated'
    BY <1>1, <1>2, <2>1 DEF Dated
  <2>4. ASSUME NEW k \in Keys
        PROVE  Held(k, loaded[k])'
    <3>1. Held(k, loaded[k])
      BY <1>2 DEF Kept
    <3>2. CASE k # p
      <4>1. disk'[k] = disk[k] /\ (k \in gone => k \in gone')
        BY <1>2, <2>1, <2>2, <3>2, KeyPaths DEF WorldOK
      <4>. QED
        BY <1>1, <3>1, <4>1 DEF Held, Newest
    <3>3. CASE k = p
      <4>1. disk'[k] = Append(disk[k], new) /\ disk[k] \in Seq(File)
        BY <1>2, <2>2, <3>3, KeyPaths DEF WorldOK
      <4>2. disk'[k][Len(disk'[k])] = new
        BY <2>2, <4>1
      <4>3. Slot[k] \in Slots /\ ttls[Slot[k]] < clock + TTL
        BY <1>2, SlotsAreNumbers DEF Dated
      <4>. QED
        BY <1>1, <2>2, <3>1, <4>2, <4>3 DEF Held, Newest
    <3>. QED
      BY <3>2, <3>3
  <2>5. Loading'
    <3>. SUFFICES ASSUME nest # <<>>, NEW v, Recent(tbuf, v)
                  PROVE  Recent(tbuf, v)'
      BY <1>1, <1>2 DEF Loading
    <3>1. tbuf \in Paths
      BY KeyPaths DEF MInv, Within, OneNested
    <3>2. CASE tbuf # p
      <4>1. disk'[tbuf] = disk[tbuf]
        BY <1>2, <2>2, <3>1, <3>2 DEF WorldOK
      <4>. QED
        BY <1>1, <2>1, <4>1 DEF Recent, Newest
    <3>3. CASE tbuf = p
      <4>1. disk'[p] = Append(disk[p], new) /\ disk[p] \in Seq(File)
        BY <1>2, <2>2, <3>1, <3>3 DEF WorldOK
      <4>2. disk'[p][Len(disk'[p])] = new
        BY <2>2, <4>1
      <4>. QED
        BY <1>1, <2>1, <2>2, <3>3, <4>2 DEF Recent, Newest
    <3>. QED
      BY <3>2, <3>3
  <2>. QED
    BY <2>1, <2>3, <2>4, <2>5 DEF Kept, ModuleRight, NoGot
<1>8. UNCHANGED <<clock, disk, gone>> \/ Tick \/ \E p \in Changing : Edit(p) \/ Delete(p)
  <2>1. ASSUME NEW r \in Reqs, NEW h \in Hosts, Start(r, h)
        PROVE  UNCHANGED <<clock, disk, gone>>
    BY <2>1 DEF Start
  <2>2. ASSUME NEW r \in Reqs, NEW keep \in BOOLEAN,
               DoFile(r, keep) \/ ReadFile(r) \/ StatFile(r)
        PROVE  UNCHANGED <<clock, disk, gone>>
    BY <2>2 DEF DoFile, ReadFile, StatFile, world
  <2>3. ASSUME NEW r \in Reqs,
               Router(r) \/ RouterRefuses(r) \/ ReturnFromPage(r) \/ Sleep(r) \/ Resume(r) \/ End(r)
        PROVE  UNCHANGED <<clock, disk, gone>>
    BY <2>3 DEF Router, RouterRefuses, ReturnFromPage, Sleep, Resume, End, world
  <2>4. UNCHANGED vars => UNCHANGED <<clock, disk, gone>>
    BY DEF vars, world
  <2>. QED
    BY <2>1, <2>2, <2>3, <2>4 DEF Next
<1>. QED
  BY <1>3, <1>5, <1>6, <1>7, <1>8

\* A script gets the module of its own host, and not one whose file was replaced
\* two lifetimes ago or earlier, however the requests of several hosts follow and
\* interrupt one another; each hypothesis excludes a case in which it would not.
THEOREM ModulesAreRight ==
  ASSUME Undisturbed
  PROVE  Spec => []ModuleRight
<1>1. Init => MInv /\ ModuleRight
  <2>. SUFFICES ASSUME Init PROVE MInv /\ ModuleRight
    OBVIOUS
  <2>1. /\ loaded = [key \in Keys |-> None] /\ nest = <<>> /\ got = NoGot
        /\ ttls = [s \in Slots |-> 0]
    BY DEF Init, InitRequire, Slots
  <2>2. IInv
    BY InitInvariant
  <2>3. clock \in Nat /\ TTL \in Nat \ {0}
    BY <2>2, Times DEF IInv
  <2>4. Kept /\ Dated /\ Loading
    BY <2>1, <2>3 DEF Kept, Held, Dated, Loading
  <2>. QED
    BY <2>1, <2>2, <2>4 DEF MInv, Within, OneNested, ModuleRight, NoGot
<1>2. MInv /\ ModuleRight /\ [Next]_vars => (MInv /\ ModuleRight)'
  <2>. SUFFICES ASSUME MInv, ModuleRight, [Next]_vars PROVE (MInv /\ ModuleRight)'
    OBVIOUS
  <2>1. Within'
    BY NextInvariant, NextNests DEF MInv, Within, Flat, Undisturbed
  <2>2. Kept' /\ Dated' /\ Loading' /\ ModuleRight'
    BY RequireRight, OthersRight
  <2>. QED
    BY <2>1, <2>2 DEF MInv
<1>. QED
  BY <1>1, <1>2, PTL DEF Spec

=============================================================================
