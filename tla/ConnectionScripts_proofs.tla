---------------------- MODULE ConnectionScripts_proofs ----------------------
(***************************************************************************)
(* Theorems about the scripts that the connections of module Connection    *)
(* run: at most one executes, and, where no timer, write error or error of *)
(* a script cuts one short, every thread stands where the state of its     *)
(* connection says.                                                        *)
(*                                                                         *)
(* The gauges and the pool are dealt with in Connection_proofs; here an    *)
(* action matters only by what it does to one connection, its thread and   *)
(* run.  There are five kinds of them (Quiet, Starts, GoesOn, Leaves,      *)
(* Stuck), and each keeps the invariant.                                   *)
(***************************************************************************)
EXTENDS Connection_proofs

-----------------------------------------------------------------------------
(* The invariant. *)

\* What nothing may cut short: a timer, a write error, an error of the script.
ScriptsEnd == {"timeout", "writefail", "throw"} \cap Moves = {}

Working == {"started", "running"}

\* A connection that a script has flushed for, or waits for, has a thread.
Attached(e) == e.hdr \in {1, 5} \/ e.next = "send" \/ e.fn = "body" => e.L # NoThread

\* next_proc is set only while something is sent, and a request that is to be
\* started has no header yet.
Sequenced(e) == /\ e.next # "none" => e.status = "SEND"
                /\ e.next = "process" => e.hdr = 0

\* A thread that waits in a coevent call belongs to a connection in STEP_PROCESS.
SleepersServed == \A t \in Threads :
  co[t] = "sleep" => \E c \in Conns : epd[c].L = t /\ epd[c].status = "PROCESS"

\* Where the thread of e stands if nothing is cut short; r: the worker executes
\* for e.
Suits(e, s, r) ==
  /\ e.status # "FREE"
  /\ e.status = "WAIT" => s = "idle"
  /\ e.status = "READ" => IF e.fn = "body" THEN s = "body" /\ e.hdr \in {0, 1} ELSE s = "idle"
  /\ e.status = "PROCESS" => e.hdr \in {0, 1} /\ IF r THEN s \in Working ELSE s = "sleep"
  /\ e.status = "SEND" => /\ s = IF e.hdr \in {1, 5} THEN "flush" ELSE "idle"
                          /\ e.next = "send" => e.hdr \in {1, 5}

AllSuit ==
  /\ \A c \in Conns : epd[c].L # NoThread => Suits(epd[c], co[epd[c].L], run = c)
  /\ \A c \in Conns : epd[c].status = "PROCESS" => epd[c].L # NoThread
  /\ \A t \in Threads : (\A c \in Conns : epd[c].L # t) => co[t] = "idle"

SInv ==
  /\ OneScript
  /\ SleepersServed
  /\ \A c \in Conns : Attached(epd[c]) /\ Sequenced(epd[c])
  /\ ScriptsEnd => AllSuit

-----------------------------------------------------------------------------
(* The kinds of actions. *)

\* A handler of the event loop that resumes no script.
Quiet(c) ==
  LET e == epd[c]
      x == epd'[c]
  IN  /\ run = NoConn /\ run' = NoConn /\ co' = co
      /\ Attached(x) /\ Sequenced(x)
      /\ e.status = "PROCESS" /\ e.L # NoThread => x.status = "PROCESS" /\ x.L = e.L
      /\ ScriptsEnd => /\ x.L # NoThread => Suits(x, co[x.L], FALSE)
                       /\ x.status = "PROCESS" => x.L # NoThread
                       /\ e.L \notin {NoThread, x.L} => co[e.L] = "idle"

\* One that resumes the thread of c, its own or one that nobody had.
Starts(c) ==
  LET e == epd[c]
      x == epd'[c]
  IN  /\ run = NoConn /\ run' = c
      /\ x.L \in Threads /\ e.L \in {NoThread, x.L}
      /\ \E s \in Working : co' = [co EXCEPT ![x.L] = s]
      /\ x.status = "PROCESS" /\ x.next = "none"
      /\ Attached(x)
      /\ ScriptsEnd => x.hdr \in {0, 1}

\* A call of a script after which it goes on.
GoesOn(c) ==
  LET e == epd[c]
      x == epd'[c]
  IN  /\ run = c /\ run' = c /\ co' = co
      /\ e.status = "PROCESS" /\ x.status = "PROCESS"
      /\ x.L = e.L /\ x.hdr = e.hdr /\ x.next = e.next /\ x.fn = e.fn

\* One after which it is suspended or has ended.
Leaves(c) ==
  LET e == epd[c]
      x == epd'[c]
  IN  /\ run = c /\ run' = NoConn
      /\ e.status = "PROCESS" /\ x.L \in {NoThread, e.L}
      /\ Attached(x) /\ Sequenced(x)
      /\ \E s \in CoState \ Working :
           /\ co' = [co EXCEPT ![e.L] = s]
           /\ s = "sleep" => x.status = "PROCESS" /\ x.L = e.L
           /\ ScriptsEnd => /\ x.L # NoThread => Suits(x, s, FALSE)
                            /\ x.status = "PROCESS" => x.L # NoThread
                            /\ x.L = NoThread => s = "idle"

\* network_be_write never returns.
Stuck(c) == /\ run = NoConn /\ run' = c
            /\ UNCHANGED <<epd, co>>
            /\ epd[c].status = "SEND"

\* What the kinds of actions share: only c changes.
Alone(c) ==
  /\ NoThread \notin Threads /\ NoConn \notin Conns
  /\ epd \in [Conns -> Epdata] /\ epd' \in [Conns -> Epdata]
  /\ co \in [Threads -> CoState]
  /\ \A d \in Conns \ {c} : epd'[d] = epd[d]
  /\ \A d1, d2 \in Conns : epd[d1].L = epd[d2].L /\ epd[d1].L # NoThread => d1 = d2
  /\ \A d1, d2 \in Conns : epd'[d1].L = epd'[d2].L /\ epd'[d1].L # NoThread => d1 = d2

LEMMA QuietKeeps ==
  ASSUME NEW c \in Conns, Alone(c), SInv, Quiet(c)
  PROVE  SInv'
<1>1. /\ run = NoConn /\ run' = NoConn /\ co' = co
      /\ \A d \in Conns \ {c} : epd'[d] = epd[d]
      /\ NoThread \notin Threads /\ NoConn \notin Conns
  BY DEF Quiet, Alone
<1>2. OneScript'
  BY <1>1 DEF SInv, OneScript
<1>3. SleepersServed'
  <2>. SUFFICES ASSUME NEW t \in Threads, co'[t] = "sleep"
                PROVE  \E d \in Conns : epd'[d].L = t /\ epd'[d].status = "PROCESS"
    BY DEF SleepersServed
  <2>1. PICK d \in Conns : epd[d].L = t /\ epd[d].status = "PROCESS"
    BY <1>1 DEF SInv, SleepersServed
  <2>2. t # NoThread
    BY <1>1
  <2>3. epd'[d].L = t /\ epd'[d].status = "PROCESS"
    BY <1>1, <2>1, <2>2 DEF Quiet
  <2>. QED
    BY <2>3
<1>4. \A d \in Conns : Attached(epd'[d]) /\ Sequenced(epd'[d])
  BY <1>1 DEF SInv, Quiet
<1>5. ScriptsEnd => AllSuit'
  <2>. SUFFICES ASSUME ScriptsEnd PROVE AllSuit'
    OBVIOUS
  <2>1. AllSuit
    BY DEF SInv
  <2>2. \A d \in Conns : epd'[d].L # NoThread => Suits(epd'[d], co'[epd'[d].L], run' = d)
    <3>. SUFFICES ASSUME NEW d \in Conns, epd'[d].L # NoThread
                  PROVE  Suits(epd'[d], co[epd'[d].L], FALSE)
      BY <1>1 DEF Suits
    <3>1. CASE d = c
      BY <3>1 DEF Quiet
    <3>2. CASE d # c
      <4>1. epd'[d] = epd[d] /\ run # d
        BY <1>1, <3>2
      <4>. QED
        BY <2>1, <4>1 DEF AllSuit, Suits
    <3>. QED
      BY <3>1, <3>2
  <2>3. \A d \in Conns : epd'[d].status = "PROCESS" => epd'[d].L # NoThread
    BY <1>1, <2>1 DEF AllSuit, Quiet
  <2>4. ASSUME NEW t \in Threads, \A d \in Conns : epd'[d].L # t
        PROVE  co'[t] = "idle"
    <3>1. \A d \in Conns \ {c} : epd[d].L # t
      BY <1>1, <2>4
    <3>2. CASE epd[c].L = t
      BY <1>1, <2>4, <3>2 DEF Quiet
    <3>3. CASE epd[c].L # t
      BY <1>1, <2>1, <3>1, <3>3 DEF AllSuit
    <3>. QED
      BY <3>2, <3>3
  <2>. QED
    BY <2>2, <2>3, <2>4 DEF AllSuit, Suits
<1>. QED
  BY <1>2, <1>3, <1>4, <1>5 DEF SInv, ScriptsEnd, Attached, Sequenced

LEMMA StartsKeeps ==
  ASSUME NEW c \in Conns, Alone(c), SInv, Starts(c)
  PROVE  SInv'
<1>. DEFINE t0 == epd'[c].L
<1>1. PICK s \in Working : co' = [co EXCEPT ![t0] = s]
  BY DEF Starts
<1>2. /\ run = NoConn /\ run' = c
      /\ t0 \in Threads /\ epd[c].L \in {NoThread, t0}
      /\ \A d \in Conns \ {c} : epd'[d] = epd[d]
      /\ NoThread \notin Threads /\ NoConn \notin Conns
      /\ epd'[c].status = "PROCESS"
  BY DEF Starts, Alone
<1>3. co'[t0] = s /\ \A t \in Threads \ {t0} : co'[t] = co[t]
  BY <1>1, <1>2 DEF Alone
<1>4. s \in {"started", "running"}
  BY <1>1 DEF Working
<1>. HIDE DEF t0
<1>5. OneScript'
  <2>1. \A t \in Threads : co[t] \notin {"started", "running"}
    BY <1>2 DEF SInv, OneScript
  <2>2. \A t \in Threads : co'[t] \in {"started", "running"} => t = t0
    BY <1>3, <2>1
  <2>3. run' # NoConn /\ epd'[run'].L = t0 /\ epd'[run'].status = "PROCESS" /\ t0 # NoThread
    BY <1>2 DEF t0
  <2>. QED
    BY <1>3, <1>4, <2>2, <2>3 DEF OneScript
<1>6. SleepersServed'
  <2>. SUFFICES ASSUME NEW t \in Threads, co'[t] = "sleep"
                PROVE  \E d \in Conns : epd'[d].L = t /\ epd'[d].status = "PROCESS"
    BY DEF SleepersServed
  <2>1. t # t0 /\ co[t] = "sleep"
    BY <1>3, <1>4
  <2>2. PICK d \in Conns : epd[d].L = t /\ epd[d].status = "PROCESS"
    BY <2>1 DEF SInv, SleepersServed
  <2>3. d # c
    BY <1>2, <2>1, <2>2
  <2>. QED
    BY <1>2, <2>2, <2>3
<1>7. \A d \in Conns : Attached(epd'[d]) /\ Sequenced(epd'[d])
  BY <1>2 DEF SInv, Starts, Sequenced
<1>8. ScriptsEnd => AllSuit'
  <2>. SUFFICES ASSUME ScriptsEnd PROVE AllSuit'
    OBVIOUS
  <2>1. AllSuit
    BY DEF SInv
  <2>2. \A d \in Conns : epd'[d].L # NoThread => Suits(epd'[d], co'[epd'[d].L], run' = d)
    <3>. SUFFICES ASSUME NEW d \in Conns, epd'[d].L # NoThread
                  PROVE  Suits(epd'[d], co'[epd'[d].L], run' = d)
      OBVIOUS
    <3>1. CASE d = c
      <4>1. epd'[c].hdr \in {0, 1} /\ co'[epd'[d].L] \in Working /\ run' = d
        BY <1>1, <1>2, <1>3, <3>1 DEF Starts, t0
      <4>. QED
        BY <1>2, <3>1, <4>1 DEF Suits
    <3>2. CASE d # c
      <4>1. epd'[d] = epd[d] /\ run # d /\ run' # d
        BY <1>2, <3>2
      <4>2. epd'[d].L # t0
        BY <3>2 DEF Alone, t0
      <4>3. epd[d].L \in Threads
        BY <4>1 DEF Alone, Epdata
      <4>4. co'[epd'[d].L] = co[epd[d].L]
        BY <1>3, <4>1, <4>2, <4>3
      <4>. QED
        BY <2>1, <4>1, <4>4 DEF AllSuit, Suits
    <3>. QED
      BY <3>1, <3>2
  <2>3. \A d \in Conns : epd'[d].status = "PROCESS" => epd'[d].L # NoThread
    BY <1>2, <2>1 DEF AllSuit, t0
  <2>4. ASSUME NEW t \in Threads, \A d \in Conns : epd'[d].L # t
        PROVE  co'[t] = "idle"
    <3>1. t # t0 /\ co'[t] = co[t]
      BY <1>3, <2>4 DEF t0
    <3>2. \A d \in Conns : epd[d].L # t
      BY <1>2, <2>4, <3>1
    <3>. QED
      BY <2>1, <3>1, <3>2 DEF AllSuit
  <2>. QED
    BY <2>2, <2>3, <2>4 DEF AllSuit, Suits
<1>. QED
  BY <1>5, <1>6, <1>7, <1>8 DEF SInv, ScriptsEnd, Attached, Sequenced

LEMMA GoesOnKeeps ==
  ASSUME NEW c \in Conns, Alone(c), SInv, GoesOn(c)
  PROVE  SInv'
<1>1. /\ run = c /\ run' = c /\ co' = co
      /\ epd[c].status = "PROCESS" /\ epd'[c].status = "PROCESS"
      /\ epd'[c].L = epd[c].L /\ epd'[c].hdr = epd[c].hdr
      /\ epd'[c].next = epd[c].next /\ epd'[c].fn = epd[c].fn
      /\ \A d \in Conns \ {c} : epd'[d] = epd[d]
  BY DEF GoesOn, Alone
<1>2. \A d \in Conns : epd'[d].L = epd[d].L /\ epd'[d].status = epd[d].status
  BY <1>1
<1>3. OneScript'
  BY <1>1 DEF SInv, OneScript
<1>4. SleepersServed'
  BY <1>1, <1>2 DEF SInv, SleepersServed
<1>5. \A d \in Conns : Attached(epd'[d]) /\ Sequenced(epd'[d])
  BY <1>1 DEF SInv, Attached, Sequenced
<1>6. ScriptsEnd => AllSuit'
  <2>. SUFFICES ASSUME ScriptsEnd PROVE AllSuit'
    OBVIOUS
  <2>1. AllSuit
    BY DEF SInv
  <2>2. ASSUME NEW d \in Conns, epd'[d].L # NoThread
        PROVE  Suits(epd'[d], co'[epd'[d].L], run' = d)
    <3>1. Suits(epd[d], co[epd[d].L], run = d)
      BY <1>2, <2>1, <2>2 DEF AllSuit
    <3>2. CASE d = c
      BY <1>1, <3>1, <3>2 DEF Suits
    <3>3. CASE d # c
      <4>1. epd'[d] = epd[d]
        BY <1>1, <3>3
      <4>. QED
        BY <1>1, <3>1, <4>1 DEF Suits
    <3>. QED
      BY <3>2, <3>3
  <2>. QED
    BY <1>1, <1>2, <2>1, <2>2 DEF AllSuit, Suits
<1>. QED
  BY <1>3, <1>4, <1>5, <1>6 DEF SInv, ScriptsEnd, Attached, Sequenced

LEMMA LeavesKeeps ==
  ASSUME NEW c \in Conns, Alone(c), SInv, Leaves(c)
  PROVE  SInv'
<1>. DEFINE t0 == epd[c].L
<1>1. PICK s \in CoState \ Working :
        /\ co' = [co EXCEPT ![t0] = s]
        /\ s = "sleep" => epd'[c].status = "PROCESS" /\ epd'[c].L = t0
        /\ ScriptsEnd => /\ epd'[c].L # NoThread => Suits(epd'[c], s, FALSE)
                         /\ epd'[c].status = "PROCESS" => epd'[c].L # NoThread
                         /\ epd'[c].L = NoThread => s = "idle"
  BY DEF Leaves
<1>2. /\ run = c /\ run' = NoConn
      /\ epd[c].status = "PROCESS" /\ epd'[c].L \in {NoThread, t0}
      /\ \A d \in Conns \ {c} : epd'[d] = epd[d]
      /\ NoThread \notin Threads /\ NoConn \notin Conns
  BY DEF Leaves, Alone
<1>3. t0 # NoThread /\ t0 \in Threads
  <2>1. t0 # NoThread
    BY <1>2 DEF SInv, OneScript
  <2>. QED
    BY <2>1 DEF Alone, Epdata
<1>4. co'[t0] = s /\ \A t \in Threads \ {t0} : co'[t] = co[t]
  BY <1>1, <1>3 DEF Alone
<1>5. s \notin {"started", "running"}
  BY <1>1 DEF Working
<1>. HIDE DEF t0
<1>6. OneScript'
  <2>1. \A t \in Threads \ {t0} : co[t] \notin {"started", "running"}
    BY <1>2 DEF SInv, OneScript, t0
  <2>2. \A t \in Threads : co'[t] \notin {"started", "running"}
    BY <1>4, <1>5, <2>1
  <2>. QED
    BY <1>2, <2>2 DEF OneScript
<1>7. SleepersServed'
  <2>. SUFFICES ASSUME NEW t \in Threads, co'[t] = "sleep"
                PROVE  \E d \in Conns : epd'[d].L = t /\ epd'[d].status = "PROCESS"
    BY DEF SleepersServed
  <2>1. CASE t = t0
    BY <1>1, <1>4, <2>1
  <2>2. CASE t # t0
    <3>1. PICK d \in Conns : epd[d].L = t /\ epd[d].status = "PROCESS"
      BY <1>4, <2>2 DEF SInv, SleepersServed
    <3>2. d # c
      BY <2>2, <3>1 DEF t0
    <3>. QED
      BY <1>2, <3>1, <3>2
  <2>. QED
    BY <2>1, <2>2
<1>8. \A d \in Conns : Attached(epd'[d]) /\ Sequenced(epd'[d])
  BY <1>2 DEF SInv, Leaves
<1>9. ScriptsEnd => AllSuit'
  <2>. SUFFICES ASSUME ScriptsEnd PROVE AllSuit'
    OBVIOUS
  <2>1. AllSuit
    BY DEF SInv
  <2>2. ASSUME NEW d \in Conns, epd'[d].L # NoThread
        PROVE  Suits(epd'[d], co'[epd'[d].L], run' = d)
    <3>1. run' # d
      BY <1>2
    <3>2. CASE d = c
      BY <1>1, <1>2, <1>4, <2>2, <3>1, <3>2 DEF Suits
    <3>3. CASE d # c
      <4>1. epd'[d] = epd[d] /\ run # d
        BY <1>2, <3>3
      <4>2. epd[d].L # t0 /\ epd[d].L \in Threads
        BY <2>2, <3>3, <4>1 DEF Alone, Epdata, t0
      <4>3. co'[epd'[d].L] = co[epd[d].L]
        BY <1>4, <4>1, <4>2
      <4>. QED
        BY <2>1, <2>2, <3>1, <4>1, <4>3 DEF AllSuit, Suits
    <3>. QED
      BY <3>2, <3>3
  <2>3. \A d \in Conns : epd'[d].status = "PROCESS" => epd'[d].L # NoThread
    BY <1>1, <1>2, <2>1 DEF AllSuit
  <2>4. ASSUME NEW t \in Threads, \A d \in Conns : epd'[d].L # t
        PROVE  co'[t] = "idle"
    <3>1. \A d \in Conns \ {c} : epd[d].L # t
      BY <1>2, <2>4
    <3>2. CASE t = t0
      BY <1>1, <1>2, <1>4, <2>4, <3>2
    <3>3. CASE t # t0
      BY <1>4, <2>1, <3>1, <3>3 DEF AllSuit, t0
    <3>. QED
      BY <3>2, <3>3
  <2>. QED
    BY <2>2, <2>3, <2>4 DEF AllSuit, Suits
<1>. QED
  BY <1>6, <1>7, <1>8, <1>9 DEF SInv, ScriptsEnd, Attached, Sequenced

LEMMA StuckKeeps ==
  ASSUME NEW c \in Conns, Alone(c), SInv, Stuck(c)
  PROVE  SInv'
<1>1. /\ run = NoConn /\ run' = c /\ epd' = epd /\ co' = co
      /\ epd[c].status = "SEND" /\ NoConn \notin Conns
  BY DEF Stuck, Alone
<1>2. OneScript'
  <2>1. \A t \in Threads : co[t] \notin {"started", "running"}
    BY <1>1 DEF SInv, OneScript
  <2>. QED
    BY <1>1, <2>1 DEF OneScript
<1>3. SleepersServed'
  BY <1>1 DEF SInv, SleepersServed
<1>4. ScriptsEnd => AllSuit'
  <2>. SUFFICES ASSUME ScriptsEnd PROVE AllSuit'
    OBVIOUS
  <2>1. AllSuit
    BY DEF SInv
  <2>2. ASSUME NEW d \in Conns, epd[d].L # NoThread
        PROVE  Suits(epd[d], co[epd[d].L], run' = d)
    <3>1. Suits(epd[d], co[epd[d].L], FALSE)
      BY <1>1, <2>1, <2>2 DEF AllSuit, Suits
    <3>. QED
      BY <1>1, <3>1 DEF Suits
  <2>. QED
    BY <1>1, <2>1, <2>2 DEF AllSuit, Suits
<1>. QED
  BY <1>1, <1>2, <1>3, <1>4 DEF SInv, ScriptsEnd, Attached, Sequenced

-----------------------------------------------------------------------------
(* What the functions that end a request make of the connection. *)

\* x is free, waits, is sent to or has the rest of its request thrown away, with
\* the thread of e and no script that would be resumed.
Rested(e, x) ==
  \/ x = Freed
  \/ /\ x.L = e.L /\ x.next = "none" /\ x.hdr \in {0, 2, e.hdr}
     /\ \/ x.status = "WAIT" /\ x.fn \in {"none", "read"}
        \/ x.status = "READ" /\ x.fn = "clear"
        \/ x.status = "SEND" /\ x.fn = "write" /\ x.hdr \in {0, 2}

LEMMA CloseRests ==
  ASSUME TypeOK, NEW c \in Conns, NEW e, NEW k, CloseClient(c, e, k)
  PROVE  epd'[c] = Freed
BY DEF CloseClient, Put, TypeOK

LEMMA EndProcessRests ==
  ASSUME TypeOK, NEW c \in Conns, NEW e \in Epdata, NEW k, e.next = "none",
         EndProcess(c, e, k)
  PROVE  Rested(e, epd'[c])
<1>. DEFINE w == [e EXCEPT !.status = "WAIT"]
<1>1. w \in Epdata /\ w.status = "WAIT" /\ w.L = e.L /\ w.next = e.next /\ w.hdr = e.hdr
  BY DEF Epdata, Status
<1>2. Put(c, FreeRequest(w), k) \/ CloseClient(c, w, k)
  BY DEF EndProcess
<1>. HIDE DEF w
<1>3. CASE Put(c, FreeRequest(w), k)
  <2>1. epd'[c] = FreeRequest(w)
    BY <1>3 DEF Put, TypeOK
  <2>2. /\ FreeRequest(w).status = "WAIT" /\ FreeRequest(w).L = w.L
        /\ FreeRequest(w).fn \in {"none", "read"}
    BY <1>1, FreeRequestType
  <2>3. FreeRequest(w).next = w.next /\ FreeRequest(w).hdr = w.hdr
    BY <1>1 DEF FreeRequest, Listen, Epdata
  <2>. QED
    BY <1>1, <2>1, <2>2, <2>3 DEF Rested
<1>4. CASE CloseClient(c, w, k)
  BY <1>4, CloseRests DEF Rested
<1>. QED
  BY <1>2, <1>3, <1>4

LEMMA StartSendRests ==
  ASSUME TypeOK, NEW c \in Conns, NEW e \in Epdata, NEW k, e.next = "none",
         e.hdr \in {0, 2}, StartSend(c, e, k)
  PROVE  Rested(e, epd'[c])
<1>. DEFINE x == [e EXCEPT !.status = "SEND", !.fn = "write"]
<1>1. x.status = "SEND" /\ x.fn = "write" /\ x.L = e.L /\ x.next = e.next /\ x.hdr = e.hdr
  BY DEF Epdata
<1>2. Put(c, x, Sending(k, 1)) \/ EndProcess(c, e, k)
  BY DEF StartSend
<1>. HIDE DEF x
<1>3. CASE Put(c, x, Sending(k, 1))
  BY <1>1, <1>3 DEF Put, TypeOK, Rested
<1>. QED
  BY <1>2, <1>3, EndProcessRests

LEMMA BeEndRests ==
  ASSUME TypeOK, NEW c \in Conns, NEW e \in Epdata, NEW k, e.next = "none", BeEnd(c, e, k)
  PROVE  Rested(e, epd'[c])
<1>1. CASE e.open /\ ~e.rto /\ e.rest > 0
  <2>. DEFINE x == Listen([e EXCEPT !.status = "READ"], "clear")
  <2>1. epd'[c] = x
    BY <1>1 DEF BeEnd, Put, TypeOK
  <2>2. x.status = "READ" /\ x.fn = "clear" /\ x.L = e.L /\ x.next = e.next /\ x.hdr = e.hdr
    BY <1>1 DEF Listen, Epdata
  <2>. QED
    BY <2>1, <2>2 DEF Rested
<1>2. CASE ~(e.open /\ ~e.rto /\ e.rest > 0) /\ e.hdr = 0
  <2>. DEFINE out == CASE e.out = "empty"   -> "head"
                       [] e.out = "missing" -> "body"
                       [] OTHER             -> e.out
              x == [e EXCEPT !.out = out]
  <2>1. out \in Output
    BY DEF Epdata, Output
  <2>2. EndProcess(c, x, k) \/ StartSend(c, x, k)
    BY <1>2 DEF BeEnd
  <2>. HIDE DEF out
  <2>3. x \in Epdata /\ x.next = e.next /\ x.L = e.L /\ x.hdr = e.hdr
    BY <2>1 DEF Epdata
  <2>. HIDE DEF x
  <2>4. Rested(x, epd'[c])
    BY <1>2, <2>2, <2>3, EndProcessRests, StartSendRests
  <2>. QED
    BY <2>3, <2>4 DEF Rested
<1>3. CASE ~(e.open /\ ~e.rto /\ e.rest > 0) /\ e.hdr # 0
  <2>. DEFINE last == [e EXCEPT !.hdr = 2]
              x == [last EXCEPT !.out = "body"]
  <2>1. EndProcess(c, last, k) \/ StartSend(c, x, k)
    BY <1>3 DEF BeEnd
  <2>2. /\ last \in Epdata /\ last.next = e.next /\ last.L = e.L /\ last.hdr = 2
        /\ x \in Epdata /\ x.next = e.next /\ x.L = e.L /\ x.hdr = 2
    BY DEF Epdata, Output
  <2>. HIDE DEF x, last
  <2>3. Rested(x, epd'[c]) \/ Rested(last, epd'[c])
    BY <2>1, <2>2, EndProcessRests, StartSendRests
  <2>. QED
    BY <2>2, <2>3 DEF Rested
<1>. QED
  BY <1>1, <1>2, <1>3

LEMMA SendErrorRests ==
  ASSUME TypeOK, NEW c \in Conns, NEW e \in Epdata, NEW k, NEW hasMsg, e.next = "none",
         SendError(c, e, k, hasMsg)
  PROVE  Rested(e, epd'[c])
<1>. DEFINE out == CASE e.out \in {"file", "missing", "body"} -> e.out
                     [] OTHER -> IF hasMsg THEN "body" ELSE "head"
            x == [e EXCEPT !.out = out]
<1>1. BeEnd(c, x, k)
  BY DEF SendError
<1>2. out \in Output
  BY DEF Output
<1>. HIDE DEF out
<1>3. x \in Epdata /\ x.next = e.next /\ x.L = e.L /\ x.hdr = e.hdr
  BY <1>2 DEF Epdata
<1>. HIDE DEF x
<1>4. Rested(x, epd'[c])
  BY <1>1, <1>3, BeEndRests
<1>. QED
  BY <1>3, <1>4 DEF Rested

\* A connection that rests needs no script, and suits a thread that is idle.
LEMMA RestedFits ==
  ASSUME NEW e, NEW x, Rested(e, x), e.hdr \in {1, 5} => e.L # NoThread
  PROVE  /\ Attached(x) /\ Sequenced(x) /\ x.status # "PROCESS"
         /\ x.L \in {NoThread, e.L}
         /\ \A r : x.L # NoThread => Suits(x, "idle", r)
<1>1. CASE x = Freed
  BY <1>1 DEF Freed, Attached, Sequenced
<1>2. CASE x # Freed
  BY <1>2 DEF Rested, Attached, Sequenced, Suits
<1>. QED
  BY <1>1, <1>2

\* A handler that leaves the connection at rest, with its thread or without.
LEMMA RestedQuiet ==
  ASSUME NEW c \in Conns, NEW e, Rested(e, epd'[c]), e.hdr \in {1, 5} => e.L # NoThread,
         run = NoConn, SameScript,
         epd[c].status # "PROCESS" \/ epd[c].L = NoThread,
         epd[c].L \in {NoThread, e.L},
         ScriptsEnd => (e.L # NoThread => co[e.L] = "idle")
  PROVE  Quiet(c)
<1>1. /\ Attached(epd'[c]) /\ Sequenced(epd'[c]) /\ epd'[c].status # "PROCESS"
      /\ epd'[c].L \in {NoThread, e.L}
      /\ epd'[c].L # NoThread => Suits(epd'[c], "idle", FALSE)
  BY RestedFits
<1>. QED
  BY <1>1 DEF Quiet, SameScript

-----------------------------------------------------------------------------
(* The handlers of the event loop. *)

Safe == IInv /\ SInv

\* What a connection is like before a step.
LEMMA Here ==
  ASSUME Safe, NEW c \in Conns
  PROVE  /\ TypeOK /\ epd[c] \in Epdata /\ wk \in Worker /\ Fits(epd[c])
         /\ Attached(epd[c]) /\ Sequenced(epd[c])
         /\ epd[c].next \in {"none", "process", "send"}
         /\ ScriptsEnd => /\ epd[c].L # NoThread => Suits(epd[c], co[epd[c].L], run = c)
                          /\ epd[c].status = "PROCESS" => epd[c].L # NoThread
<1>1. TypeOK /\ epd[c] \in Epdata /\ wk \in Worker /\ Fits(epd[c])
  BY DEF Safe, IInv, TypeOK, CallbackFits
<1>2. epd[c].next \in {"none", "process", "send"}
  BY <1>1 DEF Epdata
<1>. QED
  BY <1>1, <1>2 DEF Safe, SInv, AllSuit

\* A thread that new_lua_thread returns belongs to no connection.
LEMMA AvailableFree ==
  ASSUME Safe, NEW k \in Worker, k.pool = wk.pool, k.made = wk.made, NEW t \in Available(k)
  PROVE  /\ t \in Threads /\ t # NoThread
         /\ \A d \in Conns : epd[d].L # t
         /\ ScriptsEnd => co[t] = "idle"
<1>1. k.pool \in Seq(Threads) /\ ThreadsConserved
  BY DEF Worker, Safe, IInv
<1>2. t \in Threads /\ (t \in PoolThreads \/ t \notin wk.made)
  <2>1. CASE k.pool # <<>>
    <3>1. t = Head(k.pool)
      BY <2>1 DEF Available
    <3>2. 1 \in 1..Len(k.pool) /\ t = k.pool[1]
      BY <1>1, <2>1, <3>1
    <3>. QED
      BY <1>1, <3>2 DEF PoolThreads
  <2>2. CASE k.pool = <<>>
    BY <2>2 DEF Available
  <2>. QED
    BY <2>1, <2>2
<1>3. t # NoThread
  BY <1>2, ThreadsAssumption DEF ThreadsAssumption
<1>4. \A d \in Conns : epd[d].L # t
  BY <1>1, <1>2, <1>3 DEF ThreadsConserved, Owned
<1>. QED
  BY <1>2, <1>3, <1>4 DEF Safe, SInv, AllSuit

\* worker_process either answers or resumes a thread that c may have.
LEMMA WorkerProcessKind ==
  ASSUME Safe, NEW c \in Conns, NEW e \in Epdata, NEW k \in Worker,
         k.pool = wk.pool, k.made = wk.made, run = NoConn,
         epd[c].status # "PROCESS", epd[c].L = e.L,
         e.status = "PROCESS", e.next = "none", e.fn # "body",
         e.hdr \in {1, 5} => e.L # NoThread,
         ScriptsEnd => e.hdr = 0 /\ (e.L # NoThread => co[e.L] = "idle"),
         WorkerProcess(c, e, k)
  PROVE  Quiet(c) \/ Starts(c)
<1>1. TypeOK
  BY Here
<1>2. CASE \/ "badcert" \in Moves /\ SendError(c, e, k, TRUE) /\ SameScript
           \/ Available(k) = {} /\ SendError(c, e, k, TRUE) /\ SameScript
  <2>1. Rested(e, epd'[c])
    BY <1>1, <1>2, SendErrorRests
  <2>. QED
    BY <1>2, <2>1, RestedQuiet
<1>3. ASSUME NEW t \in IF e.L = NoThread THEN Available(k) ELSE {e.L},
             LET own == [e EXCEPT !.L = t]
                 k2  == IF e.L = NoThread THEN NewLuaThread(k, t) ELSE k
             IN  \/ /\ co[t] = "dead" \/ "badrequest" \in Moves
                    /\ SendError(c, own, k2, TRUE) /\ SameScript
                 \/ co[t] # "dead" /\ Put(c, own, k2) /\ Start(c, own)
      PROVE  Quiet(c) \/ Starts(c)
  <2>. DEFINE own == [e EXCEPT !.L = t]
              k2  == IF e.L = NoThread THEN NewLuaThread(k, t) ELSE k
  <2>1. t \in Threads /\ t # NoThread /\ e.L \in {NoThread, t}
    <3>1. CASE e.L = NoThread
      BY <3>1, AvailableFree
    <3>2. CASE e.L # NoThread
      BY <3>2 DEF Epdata
    <3>. QED
      BY <3>1, <3>2
  <2>2. ScriptsEnd => co[t] = "idle"
    <3>1. CASE e.L = NoThread
      BY <3>1, AvailableFree
    <3>2. CASE e.L # NoThread
      BY <3>2
    <3>. QED
      BY <3>1, <3>2
  <2>3. /\ own \in Epdata /\ own.L = t /\ own.status = e.status /\ own.next = e.next
        /\ own.hdr = e.hdr /\ own.fn = e.fn
    BY <2>1 DEF Epdata
  <2>4. \/ SendError(c, own, k2, TRUE) /\ SameScript
        \/ Put(c, own, k2) /\ Start(c, own)
    BY <1>3
  <2>. HIDE DEF own, k2
  <2>5. CASE SendError(c, own, k2, TRUE) /\ SameScript
    <3>1. Rested(own, epd'[c])
      BY <1>1, <2>3, <2>5, SendErrorRests
    <3>. QED
      BY <2>1, <2>2, <2>3, <2>5, <3>1, RestedQuiet
  <2>6. CASE Put(c, own, k2) /\ Start(c, own)
    <3>1. epd'[c] = own
      BY <1>1, <2>6 DEF Put, TypeOK
    <3>2. run' = c /\ co' = [co EXCEPT ![own.L] = "started"] /\ "started" \in Working
      BY <2>6 DEF Start, Working
    <3>3. Attached(own)
      BY <2>1, <2>3 DEF Attached
    <3>. QED
      BY <2>1, <2>3, <3>1, <3>2, <3>3 DEF Starts
  <2>. QED
    BY <2>4, <2>5, <2>6
<1>. QED
  BY <1>2, <1>3 DEF WorkerProcess

\* A handler that resumes the thread of c, which has one.
LEMMA ResumeKind ==
  ASSUME Safe, NEW c \in Conns, NEW x, epd'[c] = x, run = NoConn, NEW e, Resume(c, e),
         epd[c].L = e.L, e.L \in Threads, x.L = e.L, x.status = "PROCESS", x.next = "none",
         ScriptsEnd => x.hdr \in {0, 1}
  PROVE  Starts(c)
<1>1. run' = c /\ co' = [co EXCEPT ![x.L] = "running"] /\ "running" \in Working
  BY DEF Resume, Working
<1>2. Attached(x)
  BY ThreadsAssumption DEF Attached, ThreadsAssumption
<1>. QED
  BY <1>1, <1>2 DEF Starts

LEMMA AcceptKind ==
  ASSUME Safe, NEW c \in Conns, Accept(c)
  PROVE  Quiet(c)
<1>1. TypeOK /\ epd[c].L = NoThread /\ run = NoConn /\ wk \in Worker
  BY Here DEF Accept, Fits
<1>2. PICK fn \in {"read", "ssl"} :
        LET e == [Freed EXCEPT !.status = "WAIT", !.fn = fn, !.open = TRUE]
        IN  \/ Available(wk) = {} /\ Put(c, e, Active(wk, 1))
            \/ \E t \in Available(wk) :
                 Put(c, [e EXCEPT !.L = t], Active(NewLuaThread(wk, t), 1))
  BY DEF Accept
<1>. DEFINE e == [Freed EXCEPT !.status = "WAIT", !.fn = fn, !.open = TRUE]
<1>3. epd'[c] = e \/ \E t \in Available(wk) : epd'[c] = [e EXCEPT !.L = t]
  BY <1>1, <1>2 DEF Put, TypeOK
<1>4. /\ e.status = "WAIT" /\ e.fn = fn /\ e.L = NoThread /\ e.next = "none" /\ e.hdr = 0
      /\ \A t : LET x == [e EXCEPT !.L = t]
                IN  x.status = "WAIT" /\ x.fn = fn /\ x.L = t /\ x.next = "none" /\ x.hdr = 0
  BY DEF Freed
<1>. HIDE DEF e
<1>5. /\ epd'[c].status = "WAIT" /\ epd'[c].fn = fn
      /\ epd'[c].next = "none" /\ epd'[c].hdr = 0
      /\ epd'[c].L # NoThread => epd'[c].L \in Available(wk)
  BY <1>3, <1>4
<1>6. ScriptsEnd => (epd'[c].L # NoThread => co[epd'[c].L] = "idle")
  BY <1>1, <1>5, AvailableFree
<1>7. run' = NoConn /\ co' = co
  BY <1>1 DEF Accept, SameScript
<1>8. Attached(epd'[c]) /\ Sequenced(epd'[c])
  <2>1. fn # "body"
    BY <1>2
  <2>. QED
    BY <1>5, <2>1 DEF Attached, Sequenced
<1>9. ScriptsEnd => (epd'[c].L # NoThread => Suits(epd'[c], co[epd'[c].L], FALSE))
  BY <1>5, <1>6 DEF Suits
<1>. QED
  BY <1>1, <1>5, <1>7, <1>8, <1>9 DEF Quiet

\* A handler that frees the connection.
LEMMA CloseKind ==
  ASSUME Safe, NEW c \in Conns, NEW e, NEW k, CloseClient(c, e, k),
         run = NoConn, SameScript,
         epd[c].status # "PROCESS" \/ epd[c].L = NoThread,
         ScriptsEnd => (epd[c].L # NoThread => co[epd[c].L] = "idle")
  PROVE  Quiet(c)
<1>1. epd'[c] = Freed
  BY Here, CloseRests
<1>. QED
  BY <1>1 DEF Quiet, Freed, Attached, Sequenced, SameScript

\* What a callback finds.
LEMMA LoopHere ==
  ASSUME Safe, NEW c \in Conns, NEW fn, Loop(c, fn)
  PROVE  /\ run = NoConn /\ epd[c].open /\ epd[c].fn = fn
         /\ fn \in {"read", "ssl"} => epd[c].status \in {"WAIT", "READ"}
         /\ fn \in {"clear", "body"} => epd[c].status = "READ"
         /\ fn \in {"read", "ssl", "clear"} /\ epd[c].status # "SEND" =>
              (ScriptsEnd => (epd[c].L # NoThread => co[epd[c].L] = "idle"))
<1>1. run = NoConn /\ epd[c].open /\ epd[c].fn = fn
  BY DEF Loop
<1>2. /\ fn \in {"read", "ssl"} => epd[c].status \in {"WAIT", "READ"}
      /\ fn \in {"clear", "body"} => epd[c].status = "READ"
  BY <1>1, Here DEF Fits
<1>3. ScriptsEnd => (epd[c].L # NoThread => Suits(epd[c], co[epd[c].L], run = c))
  BY Here
<1>. QED
  BY <1>1, <1>2, <1>3 DEF Suits

LEMMA SslAcceptKind ==
  ASSUME Safe, NEW c \in Conns, SslAccept(c)
  PROVE  Quiet(c)
<1>. DEFINE e == epd[c]
            x == [e EXCEPT !.fn = "read"]
<1>1. /\ run = NoConn /\ e.fn = "ssl" /\ e.status = "WAIT" /\ e \in Epdata /\ TypeOK
      /\ Attached(e) /\ Sequenced(e)
      /\ ScriptsEnd => (e.L # NoThread => co[e.L] = "idle")
  BY LoopHere, Here DEF SslAccept, Fits
<1>2. SameScript /\ (Put(c, x, wk) \/ CloseClient(c, e, wk))
  BY DEF SslAccept
<1>3. CASE Put(c, x, wk)
  <2>1. epd'[c] = x
    BY <1>1, <1>3 DEF Put, TypeOK
  <2>2. /\ x.status = e.status /\ x.L = e.L /\ x.next = e.next /\ x.hdr = e.hdr
        /\ x.fn = "read"
    BY <1>1 DEF Epdata
  <2>. HIDE DEF x
  <2>. QED
    BY <1>1, <1>2, <2>1, <2>2 DEF Quiet, SameScript, Attached, Sequenced, Suits
<1>4. CASE CloseClient(c, e, wk)
  BY <1>1, <1>2, <1>4, CloseKind
<1>. QED
  BY <1>2, <1>3, <1>4

LEMMA ReadSomeKind ==
  ASSUME Safe, NEW c \in Conns, ReadSome(c)
  PROVE  Quiet(c)
<1>. DEFINE e == epd[c]
            x == [e EXCEPT !.status = "READ"]
<1>1. /\ run = NoConn /\ e.fn = "read" /\ e.status = "WAIT" /\ e \in Epdata /\ TypeOK
      /\ Attached(e) /\ Sequenced(e)
      /\ ScriptsEnd => (e.L # NoThread => co[e.L] = "idle")
  BY LoopHere, Here DEF ReadSome
<1>2. SameScript /\ epd'[c] = x
  BY <1>1 DEF ReadSome, Put, TypeOK
<1>3. /\ x.status = "READ" /\ x.L = e.L /\ x.next = e.next /\ x.hdr = e.hdr /\ x.fn = e.fn
  BY <1>1 DEF Epdata
<1>. HIDE DEF x
<1>. QED
  BY <1>1, <1>2, <1>3 DEF Quiet, SameScript, Attached, Sequenced, Suits

LEMMA ReadEndKind ==
  ASSUME Safe, NEW c \in Conns, ReadEnd(c)
  PROVE  Quiet(c)
<1>. DEFINE e == epd[c]
            x == [e EXCEPT !.keep = FALSE, !.status = "PROCESS"]
<1>1. /\ run = NoConn /\ e.fn = "read" /\ e.status \in {"WAIT", "READ"}
      /\ e \in Epdata /\ TypeOK /\ Attached(e) /\ e.next = "none"
      /\ ScriptsEnd => (e.L # NoThread => co[e.L] = "idle")
  BY LoopHere, Here DEF ReadEnd, Sequenced
<1>2. SameScript /\ (CloseClient(c, e, wk) \/ EndProcess(c, x, Reading(wk, -1)))
  BY DEF ReadEnd
<1>3. x \in Epdata /\ x.L = e.L /\ x.next = e.next /\ x.hdr = e.hdr
  BY <1>1 DEF Epdata, Status
<1>. HIDE DEF x
<1>4. CASE CloseClient(c, e, wk)
  BY <1>1, <1>2, <1>4, CloseKind
<1>5. CASE EndProcess(c, x, Reading(wk, -1))
  <2>1. Rested(x, epd'[c])
    BY <1>1, <1>3, <1>5, EndProcessRests
  <2>. QED
    BY <1>1, <1>2, <1>3, <2>1, RestedQuiet DEF Attached
<1>. QED
  BY <1>2, <1>4, <1>5

LEMMA ReadRefusedKind ==
  ASSUME Safe, NEW c \in Conns, ReadRefused(c)
  PROVE  Quiet(c)
<1>. DEFINE p == epd[c]
            e == [p EXCEPT !.status = "READ"]
            k == Reading(wk, IF p.status = "READ" THEN 0 ELSE 1)
<1>1. /\ run = NoConn /\ p.fn = "read" /\ p.status \in {"WAIT", "READ"}
      /\ p \in Epdata /\ TypeOK /\ Attached(p) /\ p.next = "none"
      /\ ScriptsEnd => (p.L # NoThread => co[p.L] = "idle")
  BY LoopHere, Here DEF ReadRefused, Sequenced
<1>2. /\ SameScript
      /\ \/ SendError(c, e, k, TRUE)
         \/ \E r \in 1..MaxBody : SendError(c, [e EXCEPT !.rest = r], k, TRUE)
         \/ SendError(c, e, k, FALSE)
  BY DEF ReadRefused
<1>3. e \in Epdata /\ e.L = p.L /\ e.next = p.next /\ e.hdr = p.hdr
  BY <1>1 DEF Epdata, Status
<1>. HIDE DEF e, k
<1>4. PICK x \in Epdata, hasMsg \in BOOLEAN :
        SendError(c, x, k, hasMsg) /\ x.L = p.L /\ x.next = p.next /\ x.hdr = p.hdr
  <2>1. ASSUME NEW r \in 1..MaxBody
        PROVE  LET x == [e EXCEPT !.rest = r]
               IN  x \in Epdata /\ x.L = e.L /\ x.next = e.next /\ x.hdr = e.hdr
    <3>1. r \in 0..MaxBody
      BY BoundsAssumption DEF BoundsAssumption
    <3>. QED
      BY <1>3, <3>1 DEF Epdata
  <2>. QED
    BY <1>2, <1>3, <2>1
<1>5. Rested(x, epd'[c])
  BY <1>1, <1>4, SendErrorRests
<1>. QED
  BY <1>1, <1>2, <1>4, <1>5, RestedQuiet DEF Attached

LEMMA ReadRequestKind ==
  ASSUME Safe, NEW c \in Conns, ReadRequest(c)
  PROVE  Quiet(c) \/ Starts(c)
<1>. DEFINE p == epd[c]
            n == IF p.status = "READ" THEN -1 ELSE 0
            k == Reading(wk, n)
<1>1. /\ run = NoConn /\ p.fn = "read" /\ p.status \in {"WAIT", "READ"}
      /\ p \in Epdata /\ TypeOK /\ wk \in Worker /\ p.next = "none"
      /\ ScriptsEnd => (p.L # NoThread => co[p.L] = "idle")
  BY LoopHere, Here DEF ReadRequest, Sequenced
<1>2. HeaderRead(c) = k
  BY DEF HeaderRead
<1>3. PICK rest \in 0..MaxBody, ka \in BOOLEAN :
        LET e == AwaitScript([p EXCEPT !.status = "PROCESS", !.keep = p.keep \/ ka, !.hdr = 0,
                                       !.rest = rest, !.contents = TRUE, !.ops = MaxOps])
        IN  \/ WorkerProcess(c, e, k)
            \/ BeEnd(c, [e EXCEPT !.out = "body"], k) /\ SameScript
            \/ /\ Put(c, [e EXCEPT !.status = "SEND", !.fn = "write",
                                   !.out = "head", !.next = "process"], Sending(k, 1))
               /\ SameScript
  BY <1>2, Zenon DEF ReadRequest
<1>. DEFINE keep == p.keep \/ ka
            y == [p EXCEPT !.status = "PROCESS", !.keep = keep, !.hdr = 0,
                           !.rest = rest, !.contents = TRUE, !.ops = MaxOps]
            e == AwaitScript(y)
            body == [e EXCEPT !.out = "body"]
            cont == [e EXCEPT !.status = "SEND", !.fn = "write",
                              !.out = "head", !.next = "process"]
<1>4. \/ WorkerProcess(c, e, k)
      \/ BeEnd(c, body, k) /\ SameScript
      \/ Put(c, cont, Sending(k, 1)) /\ SameScript
  BY <1>3
<1>. HIDE DEF p
<1>5. keep \in BOOLEAN
  BY <1>1 DEF Epdata
<1>. HIDE DEF keep
<1>6. MaxOps \in 0..MaxOps
  BY BoundsAssumption DEF BoundsAssumption
<1>7. y \in Epdata /\ y.status = "PROCESS" /\ y.L = p.L /\ y.next = p.next /\ y.hdr = 0
  BY <1>1, <1>5, <1>6 DEF Epdata, Status
<1>. HIDE DEF y
<1>8. n \in Int
  OBVIOUS
<1>9. k \in Worker /\ k.pool = wk.pool /\ k.made = wk.made
  BY <1>1, <1>8, ReadingType
<1>. HIDE DEF n, k
<1>10. /\ e \in Epdata /\ e.status = "PROCESS" /\ e.L = p.L /\ e.next = "none" /\ e.hdr = 0
       /\ e.fn # "body"
  <2>1. e.next = y.next /\ e.hdr = y.hdr /\ e.fn \in {"none", "processing"}
    BY <1>7 DEF AwaitScript, Listen, Epdata
  <2>. QED
    BY <1>1, <1>7, <2>1, AwaitScriptType
<1>. HIDE DEF e
<1>11. CASE WorkerProcess(c, e, k)
  BY <1>1, <1>9, <1>10, <1>11, WorkerProcessKind DEF p
<1>12. CASE BeEnd(c, body, k) /\ SameScript
  <2>1. body \in Epdata /\ body.L = e.L /\ body.next = e.next /\ body.hdr = e.hdr
    BY <1>10 DEF Epdata, Output
  <2>. HIDE DEF body
  <2>2. Rested(body, epd'[c])
    BY <1>1, <1>10, <1>12, <2>1, BeEndRests
  <2>. QED
    BY <1>1, <1>10, <1>12, <2>1, <2>2, RestedQuiet DEF p
<1>13. CASE Put(c, cont, Sending(k, 1)) /\ SameScript
  <2>1. /\ cont.status = "SEND" /\ cont.fn = "write" /\ cont.L = e.L
        /\ cont.next = "process" /\ cont.hdr = e.hdr
    BY <1>10 DEF Epdata
  <2>2. epd'[c] = cont
    BY <1>1, <1>13 DEF Put, TypeOK
  <2>. HIDE DEF cont
  <2>3. Attached(cont) /\ Sequenced(cont)
    BY <1>10, <2>1 DEF Attached, Sequenced
  <2>4. ScriptsEnd => (cont.L # NoThread => Suits(cont, co[cont.L], FALSE))
    BY <1>1, <1>10, <2>1 DEF Suits
  <2>. QED
    BY <1>1, <1>10, <1>13, <2>1, <2>2, <2>3, <2>4 DEF Quiet, SameScript, p
<1>. QED
  BY <1>4, <1>11, <1>12, <1>13

LEMMA ReadOnProcessingKind ==
  ASSUME Safe, NEW c \in Conns, ReadOnProcessing(c)
  PROVE  Quiet(c)
<1>. DEFINE e == epd[c]
            x == [e EXCEPT !.open = FALSE, !.fn = "none", !.keep = FALSE]
<1>1. /\ run = NoConn /\ e.status = "PROCESS" /\ e \in Epdata /\ TypeOK /\ c # NoConn
      /\ Attached(e) /\ Sequenced(e)
      /\ ScriptsEnd => /\ e.L # NoThread => Suits(e, co[e.L], run = c)
                       /\ e.status = "PROCESS" => e.L # NoThread
  BY LoopHere, Here, ConnsAssumption DEF ReadOnProcessing, Loop, Fits, ConnsAssumption
<1>2. SameScript /\ epd'[c] = x
  BY <1>1 DEF ReadOnProcessing, Gone, Put, TypeOK
<1>3. /\ x.status = e.status /\ x.L = e.L /\ x.next = e.next /\ x.hdr = e.hdr
      /\ x.fn = "none"
  BY <1>1 DEF Epdata
<1>. HIDE DEF x
<1>4. Attached(x) /\ Sequenced(x)
  BY <1>1, <1>3 DEF Attached, Sequenced
<1>5. ScriptsEnd => (x.L # NoThread => Suits(x, co[x.L], FALSE))
  BY <1>1, <1>3 DEF Suits
<1>. QED
  BY <1>1, <1>2, <1>3, <1>4, <1>5 DEF Quiet, SameScript

LEMMA ReadOnClearKind ==
  ASSUME Safe, NEW c \in Conns, ReadOnClear(c)
  PROVE  Quiet(c)
<1>. DEFINE e == epd[c]
            n == e.rest - 1
            less == [e EXCEPT !.rest = n]
            done == [e EXCEPT !.status = "PROCESS", !.fn = "none", !.rest = 0]
            left == [Gone(e) EXCEPT !.status = "PROCESS", !.keep = FALSE]
<1>1. /\ run = NoConn /\ e.fn = "clear" /\ e.status = "READ" /\ e \in Epdata /\ TypeOK
      /\ Attached(e) /\ e.next = "none"
      /\ ScriptsEnd => (e.L # NoThread => co[e.L] = "idle")
  BY LoopHere, Here DEF ReadOnClear, Sequenced
<1>2. /\ SameScript
      /\ \/ e.rest > 1 /\ Put(c, less, wk)
         \/ BeEnd(c, done, Reading(wk, -1))
         \/ BeEnd(c, left, Reading(Active(wk, -1), -1))
  BY <1>1 DEF ReadOnClear, Discard, Epdata
<1>. HIDE DEF e
<1>3. CASE Put(c, less, wk)
  <2>1. epd'[c] = less
    BY <1>1, <1>3 DEF Put, TypeOK
  <2>2. /\ less.status = e.status /\ less.L = e.L /\ less.next = e.next /\ less.hdr = e.hdr
        /\ less.fn = e.fn
    BY <1>1 DEF Epdata
  <2>. HIDE DEF less
  <2>3. Attached(less) /\ Sequenced(less)
    BY <1>1, <2>2 DEF Attached, Sequenced
  <2>4. ScriptsEnd => (less.L # NoThread => Suits(less, co[less.L], FALSE))
    BY <1>1, <2>2 DEF Suits
  <2>. QED
    BY <1>1, <1>2, <2>1, <2>2, <2>3, <2>4 DEF Quiet, SameScript, e
<1>4. CASE BeEnd(c, done, Reading(wk, -1))
  <2>1. done \in Epdata /\ done.L = e.L /\ done.next = e.next /\ done.hdr = e.hdr
    <3>1. 0 \in 0..MaxBody
      BY BoundsAssumption DEF BoundsAssumption
    <3>. QED
      BY <1>1, <3>1 DEF Epdata, Status, Handler
  <2>. HIDE DEF done
  <2>2. Rested(done, epd'[c])
    BY <1>1, <1>4, <2>1, BeEndRests
  <2>. QED
    BY <1>1, <1>2, <2>1, <2>2, RestedQuiet DEF Attached, e
<1>5. CASE BeEnd(c, left, Reading(Active(wk, -1), -1))
  <2>1. left \in Epdata /\ left.L = e.L /\ left.next = e.next /\ left.hdr = e.hdr
    <3>1. /\ Gone(e) \in Epdata /\ Gone(e).L = e.L /\ Gone(e).next = e.next
          /\ Gone(e).hdr = e.hdr
      BY <1>1 DEF Gone, Epdata, Handler
    <3>. QED
      BY <3>1 DEF Epdata, Status
  <2>. HIDE DEF left
  <2>2. Rested(left, epd'[c])
    BY <1>1, <1>5, <2>1, BeEndRests
  <2>. QED
    BY <1>1, <1>2, <2>1, <2>2, RestedQuiet DEF Attached, e
<1>. QED
  BY <1>2, <1>3, <1>4, <1>5

LEMMA ReadRequestBodyKind ==
  ASSUME Safe, NEW c \in Conns, ReadRequestBody(c)
  PROVE  Starts(c)
<1>. DEFINE e == epd[c]
            ok == [e EXCEPT !.status = "PROCESS"]
<1>1. /\ run = NoConn /\ e.fn = "body" /\ e.status = "READ" /\ e \in Epdata /\ TypeOK
      /\ e.L # NoThread /\ e.next = "none"
      /\ ScriptsEnd => Suits(e, co[e.L], run = c)
  BY LoopHere, Here DEF ReadRequestBody, Sequenced, Attached
<1>2. e.L \in Threads /\ (ScriptsEnd => e.hdr \in {0, 1})
  BY <1>1 DEF Epdata, Suits
<1>3. /\ Resume(c, e)
      /\ \E n \in 0..e.rest - 1 \cup {0} :
           \/ epd'[c] = [ok EXCEPT !.rest = n, !.fn = "none"]
           \/ epd'[c] = [Gone(ok) EXCEPT !.rest = n]
           \/ epd'[c] = Gone(ok)
  BY <1>1 DEF ReadRequestBody, Put, TypeOK
<1>. HIDE DEF e
<1>4. /\ ok \in Epdata /\ ok.status = "PROCESS" /\ ok.L = e.L /\ ok.next = e.next
      /\ ok.hdr = e.hdr
  BY <1>1 DEF Epdata, Status
<1>. HIDE DEF ok
<1>5. /\ Gone(ok) \in Epdata /\ Gone(ok).status = ok.status /\ Gone(ok).L = ok.L
      /\ Gone(ok).next = ok.next /\ Gone(ok).hdr = ok.hdr
  BY <1>4 DEF Gone, Epdata, Handler
<1>6. /\ epd'[c].status = "PROCESS" /\ epd'[c].L = e.L /\ epd'[c].next = "none"
      /\ epd'[c].hdr = e.hdr
  <2>1. PICK n : \/ epd'[c] = [ok EXCEPT !.rest = n, !.fn = "none"]
                 \/ epd'[c] = [Gone(ok) EXCEPT !.rest = n]
                 \/ epd'[c] = Gone(ok)
    BY <1>3
  <2>2. CASE epd'[c] = [ok EXCEPT !.rest = n, !.fn = "none"]
    <3>. DEFINE x == [ok EXCEPT !.rest = n, !.fn = "none"]
    <3>1. x.status = ok.status /\ x.L = ok.L /\ x.next = ok.next /\ x.hdr = ok.hdr
      BY <1>4 DEF Epdata
    <3>. HIDE DEF x
    <3>2. epd'[c] = x
      BY <2>2 DEF x
    <3>. QED
      BY <1>1, <1>4, <3>1, <3>2
  <2>3. CASE epd'[c] = [Gone(ok) EXCEPT !.rest = n]
    <3>. DEFINE g == Gone(ok)
                x == [g EXCEPT !.rest = n]
    <3>1. g \in Epdata
      BY <1>5
    <3>. HIDE DEF g
    <3>2. x.status = g.status /\ x.L = g.L /\ x.next = g.next /\ x.hdr = g.hdr
      BY <3>1 DEF Epdata
    <3>. HIDE DEF x
    <3>3. epd'[c] = x
      BY <2>3 DEF x, g
    <3>. QED
      BY <1>1, <1>4, <1>5, <3>2, <3>3 DEF g
  <2>4. CASE epd'[c] = Gone(ok)
    BY <1>1, <1>4, <1>5, <2>4
  <2>. QED
    BY <2>1, <2>2, <2>3, <2>4
<1>. QED
  BY <1>1, <1>2, <1>3, <1>6, ResumeKind DEF e

-----------------------------------------------------------------------------
(* Writing and timers. *)

LEMMA SendThenSendKind ==
  ASSUME Safe, NEW c \in Conns, NEW e \in Epdata, NEW k, run = NoConn,
         epd[c].status = "SEND", epd[c].L = e.L,
         e.status = "PROCESS", e.fn = "write", e.next = "send", e.L # NoThread,
         ScriptsEnd => e.hdr = 1 /\ co[e.L] = "flush",
         SendThenSend(c, e, k)
  PROVE  Quiet(c) \/ Starts(c)
<1>. DEFINE n == IF e.hdr = 1 THEN e.ops - 1 ELSE e.ops
            again == [e EXCEPT !.status = "SEND", !.ops = n]
            rest == [e EXCEPT !.next = "none"]
<1>1. TypeOK
  BY Here
<1>2. \/ epd'[c] = again /\ SameScript
      \/ e.hdr = 1 /\ epd'[c] = rest /\ Resume(c, e)
  BY <1>1 DEF SendThenSend, Put, TypeOK, Epdata
<1>. HIDE DEF n
<1>3. CASE epd'[c] = again /\ SameScript
  <2>1. /\ again.status = "SEND" /\ again.fn = "write" /\ again.L = e.L
        /\ again.next = "send" /\ again.hdr = e.hdr
    BY DEF Epdata
  <2>. HIDE DEF again
  <2>2. Attached(again) /\ Sequenced(again)
    BY <2>1 DEF Attached, Sequenced
  <2>3. ScriptsEnd => Suits(again, co[again.L], FALSE)
    BY <2>1 DEF Suits
  <2>. QED
    BY <1>3, <2>1, <2>2, <2>3 DEF Quiet, SameScript
<1>4. CASE e.hdr = 1 /\ epd'[c] = rest /\ Resume(c, e)
  <2>1. /\ rest.status = "PROCESS" /\ rest.L = e.L /\ rest.next = "none"
        /\ rest.hdr = e.hdr /\ e.L \in Threads
    BY DEF Epdata
  <2>. HIDE DEF rest
  <2>. QED
    BY <1>4, <2>1, ResumeKind
<1>. QED
  BY <1>2, <1>3, <1>4

LEMMA WrittenKind ==
  ASSUME Safe, NEW c \in Conns, NEW e \in Epdata, NEW k \in Worker,
         k.pool = wk.pool, k.made = wk.made, run = NoConn,
         epd[c].status = "SEND", epd[c].L = e.L,
         e.status = "PROCESS", e.fn = "write", Attached(e),
         ScriptsEnd => /\ e.L # NoThread => co[e.L] = IF e.hdr = 1 THEN "flush" ELSE "idle"
                       /\ e.next = "process" => e.hdr = 0
                       /\ e.next = "send" => e.hdr = 1,
         Written(c, e, k)
  PROVE  Quiet(c) \/ Starts(c)
<1>1. TypeOK
  BY Here
<1>2. CASE e.next = "process"
  <2>. DEFINE x == [e EXCEPT !.next = "none", !.out = "empty"]
  <2>1. WorkerProcess(c, x, k)
    BY <1>2 DEF Written
  <2>2. /\ x \in Epdata /\ x.status = "PROCESS" /\ x.L = e.L /\ x.next = "none"
        /\ x.fn = "write" /\ x.hdr = e.hdr
    BY DEF Epdata, Output
  <2>. HIDE DEF x
  <2>3. x.hdr \in {1, 5} => x.L # NoThread
    BY <2>2 DEF Attached
  <2>4. ScriptsEnd => x.hdr = 0 /\ (x.L # NoThread => co[x.L] = "idle")
    BY <1>2, <2>2
  <2>. QED
    BY <2>1, <2>2, <2>3, <2>4, WorkerProcessKind
<1>3. CASE e.next = "send"
  <2>1. SendThenSend(c, e, k) /\ e.L # NoThread
    BY <1>3 DEF Written, Attached
  <2>2. ScriptsEnd => e.hdr = 1 /\ co[e.L] = "flush"
    BY <1>3, <2>1
  <2>. QED
    BY <1>3, <2>1, <2>2, SendThenSendKind
<1>4. CASE e.next = "none" /\ e.hdr = 1
  <2>. DEFINE y == [e EXCEPT !.out = "empty"]
              x == AwaitScript(y)
  <2>1. epd'[c] = x /\ Resume(c, e)
    BY <1>1, <1>4 DEF Written, Put, TypeOK
  <2>2. /\ y \in Epdata /\ y.status = "PROCESS" /\ y.L = e.L /\ y.next = "none" /\ y.hdr = 1
    BY <1>4 DEF Epdata, Output
  <2>. HIDE DEF y
  <2>3. x.status = "PROCESS" /\ x.L = e.L
    BY <2>2, AwaitScriptType
  <2>4. x.next = "none" /\ x.hdr = 1
    BY <2>2 DEF AwaitScript, Listen, Epdata
  <2>. HIDE DEF x
  <2>5. e.L \in Threads
    BY <1>4 DEF Attached, Epdata
  <2>. QED
    BY <2>1, <2>3, <2>4, <2>5, ResumeKind
<1>5. CASE e.next = "none" /\ e.hdr # 1
  <2>1. EndProcess(c, e, k) /\ SameScript
    BY <1>5 DEF Written
  <2>2. Rested(e, epd'[c])
    BY <1>1, <1>5, <2>1, EndProcessRests
  <2>. QED
    BY <1>5, <2>1, <2>2, RestedQuiet DEF Attached
<1>6. e.next \in {"none", "process", "send"}
  BY DEF Epdata
<1>. QED
  BY <1>2, <1>3, <1>4, <1>5, <1>6

LEMMA WriteDoneKind ==
  ASSUME Safe, NEW c \in Conns, WriteDone(c)
  PROVE  Quiet(c) \/ Starts(c)
<1>. DEFINE e == epd[c]
            hdr == IF e.hdr = 5 THEN 1 ELSE e.hdr
            x == [e EXCEPT !.status = "PROCESS", !.hdr = hdr]
            k == Sending(wk, -1)
<1>1. /\ run = NoConn /\ e.fn = "write" /\ e.status = "SEND" /\ e \in Epdata /\ wk \in Worker
      /\ Attached(e) /\ Sequenced(e)
      /\ ScriptsEnd => (e.L # NoThread => Suits(e, co[e.L], run = c))
  BY LoopHere, Here DEF WriteDone
<1>2. Written(c, x, k)
  BY <1>1 DEF WriteDone, Epdata
<1>. HIDE DEF e
<1>3. hdr \in {0, 1, 2, 5}
  BY <1>1 DEF Epdata
<1>. HIDE DEF hdr
<1>4. /\ x \in Epdata /\ x.status = "PROCESS" /\ x.L = e.L /\ x.fn = "write"
      /\ x.next = e.next /\ x.hdr = hdr
  BY <1>1, <1>3 DEF Epdata, Status
<1>. HIDE DEF x
<1>5. k \in Worker /\ k.pool = wk.pool /\ k.made = wk.made
  BY <1>1, SendingType
<1>. HIDE DEF k
<1>6. (hdr = 1 <=> e.hdr \in {1, 5}) /\ (e.hdr = 0 => hdr = 0) /\ hdr # 5
  BY <1>1 DEF hdr
<1>7. Attached(x)
  BY <1>1, <1>4, <1>6 DEF Attached
<1>8. ScriptsEnd => /\ x.L # NoThread => co[x.L] = IF x.hdr = 1 THEN "flush" ELSE "idle"
                    /\ x.next = "process" => x.hdr = 0
                    /\ x.next = "send" => x.hdr = 1
  <2>. SUFFICES ASSUME ScriptsEnd
                PROVE  /\ x.L # NoThread => co[x.L] = IF x.hdr = 1 THEN "flush" ELSE "idle"
                       /\ x.next = "process" => x.hdr = 0
                       /\ x.next = "send" => x.hdr = 1
    OBVIOUS
  <2>1. CASE e.L # NoThread
    BY <1>1, <1>4, <1>6, <2>1 DEF Suits, Sequenced
  <2>2. CASE e.L = NoThread
    BY <1>1, <1>4, <1>6, <2>2 DEF Attached, Sequenced
  <2>. QED
    BY <2>1, <2>2
<1>. QED
  BY <1>1, <1>2, <1>4, <1>5, <1>7, <1>8, WrittenKind DEF e

LEMMA WriteFailKind ==
  ASSUME Safe, NEW c \in Conns, WriteFail(c)
  PROVE  Quiet(c) \/ Starts(c)
<1>. DEFINE e == epd[c]
            x == [e EXCEPT !.status = "PROCESS", !.keep = FALSE]
            k == Sending(wk, -1)
<1>1. /\ run = NoConn /\ e.fn = "write" /\ e.status = "SEND" /\ e \in Epdata /\ wk \in Worker
      /\ Attached(e) /\ ~ ScriptsEnd
  BY LoopHere, Here DEF WriteFail, ScriptsEnd
<1>2. Written(c, x, k)
  BY DEF WriteFail
<1>. HIDE DEF e
<1>3. /\ x \in Epdata /\ x.status = "PROCESS" /\ x.L = e.L /\ x.fn = "write"
      /\ x.next = e.next /\ x.hdr = e.hdr
  BY <1>1 DEF Epdata, Status
<1>. HIDE DEF x
<1>4. k \in Worker /\ k.pool = wk.pool /\ k.made = wk.made
  BY <1>1, SendingType
<1>. HIDE DEF k
<1>5. Attached(x)
  BY <1>1, <1>3 DEF Attached
<1>. QED
  BY <1>1, <1>2, <1>3, <1>4, <1>5, WrittenKind DEF e

LEMMA WriteNothingKind ==
  ASSUME NEW c \in Conns, WriteNothing(c)
  PROVE  Stuck(c)
BY DEF WriteNothing, Loop, Stuck

LEMMA TimeoutHandleKind ==
  ASSUME Safe, NEW c \in Conns, TimeoutHandle(c)
  PROVE  Quiet(c)
<1>. DEFINE e == epd[c]
<1>1. /\ run = NoConn /\ SameScript /\ ~ ScriptsEnd /\ TypeOK
      /\ e \in Epdata /\ Attached(e) /\ Sequenced(e)
      /\ ReadTimeout(c, e) \/ SendTimeout(c, e) \/ IdleTimeout(c, e)
  BY Here DEF TimeoutHandle, ScriptsEnd
<1>2. CASE ReadTimeout(c, e)
  <2>. DEFINE x == [e EXCEPT !.keep = FALSE, !.status = "PROCESS", !.rto = TRUE]
  <2>1. e.status = "READ" /\ SendError(c, x, Reading(wk, -1), TRUE)
    BY <1>2 DEF ReadTimeout
  <2>2. x \in Epdata /\ x.L = e.L /\ x.next = e.next /\ x.hdr = e.hdr
    BY <1>1 DEF Epdata, Status
  <2>. HIDE DEF x
  <2>3. e.next = "none"
    BY <1>1, <2>1 DEF Sequenced
  <2>4. Rested(x, epd'[c])
    BY <1>1, <2>1, <2>2, <2>3, SendErrorRests
  <2>. QED
    BY <1>1, <2>1, <2>2, <2>4, RestedQuiet DEF Attached
<1>3. CASE SendTimeout(c, e) \/ IdleTimeout(c, e)
  <2>. DEFINE x == [e EXCEPT !.status = "WAIT"]
  <2>1. /\ CloseClient(c, x, Sending(wk, -1)) \/ CloseClient(c, x, wk)
        /\ e.status # "PROCESS" \/ e.L = NoThread
    BY <1>3 DEF SendTimeout, IdleTimeout
  <2>. QED
    BY <1>1, <2>1, CloseKind
<1>. QED
  BY <1>1, <1>2, <1>3

-----------------------------------------------------------------------------
(* The calls of a script. *)

\* What a script is executed with.
LEMMA CallHere ==
  ASSUME Safe, NEW c \in Conns, run = c, epd[c].status = "PROCESS"
  PROVE  /\ TypeOK /\ epd[c] \in Epdata
         /\ epd[c].L # NoThread /\ epd[c].next = "none" /\ epd[c].fn # "body"
         /\ ScriptsEnd => epd[c].hdr \in {0, 1}
<1>1. /\ TypeOK /\ epd[c] \in Epdata /\ Fits(epd[c]) /\ Sequenced(epd[c])
      /\ ScriptsEnd => (epd[c].L # NoThread => Suits(epd[c], co[epd[c].L], run = c))
  BY Here
<1>2. epd[c].L # NoThread
  BY ConnsAssumption DEF Safe, SInv, OneScript, ConnsAssumption
<1>. QED
  BY <1>1, <1>2 DEF Sequenced, Suits, Fits

LEMMA SpentHere ==
  ASSUME Safe, NEW c \in Conns, Calls(c)
  PROVE  /\ run = c /\ TypeOK /\ epd[c].status = "PROCESS" /\ epd[c] \in Epdata
         /\ Spent(c) \in Epdata /\ Spent(c).status = "PROCESS"
         /\ Spent(c).L = epd[c].L /\ epd[c].L # NoThread
         /\ Spent(c).next = epd[c].next /\ epd[c].next = "none"
         /\ Spent(c).fn = epd[c].fn /\ epd[c].fn # "body"
         /\ Spent(c).hdr = epd[c].hdr /\ (ScriptsEnd => epd[c].hdr \in {0, 1})
<1>. DEFINE e == epd[c]
            n == e.ops - 1
            x == [e EXCEPT !.ops = n]
<1>1. /\ run = c /\ e.status = "PROCESS" /\ TypeOK /\ e \in Epdata /\ e.ops > 0
      /\ e.L # NoThread /\ e.next = "none" /\ e.fn # "body"
      /\ ScriptsEnd => e.hdr \in {0, 1}
  BY CallHere DEF Calls
<1>2. n \in 0..MaxOps
  BY <1>1, BoundsAssumption DEF Epdata, BoundsAssumption
<1>3. Spent(c) = x
  BY DEF Spent
<1>. HIDE DEF e, n
<1>4. /\ x \in Epdata /\ x.status = e.status /\ x.L = e.L /\ x.next = e.next
      /\ x.fn = e.fn /\ x.hdr = e.hdr
  BY <1>1, <1>2 DEF Epdata
<1>. HIDE DEF x
<1>. QED
  BY <1>1, <1>3, <1>4 DEF e

\* A call that changes nothing that matters here.
LEMMA GoesOnKind ==
  ASSUME Safe, NEW c \in Conns, Calls(c), SameScript, NEW x, epd'[c] = x,
         x.status = "PROCESS", x.L = epd[c].L, x.hdr = epd[c].hdr, x.next = epd[c].next,
         x.fn = epd[c].fn
  PROVE  GoesOn(c)
BY SpentHere DEF GoesOn, SameScript, Calls

LEMMA HeaderKind ==
  ASSUME Safe, NEW c \in Conns, Header(c)
  PROVE  GoesOn(c)
<1>. DEFINE e == Spent(c)
            out == IF epd[c].hdr = 0 /\ e.out = "empty" THEN "head" ELSE e.out
<1>1. /\ Calls(c) /\ SameScript /\ TypeOK /\ e \in Epdata /\ e.status = "PROCESS"
      /\ e.L = epd[c].L /\ e.hdr = epd[c].hdr /\ e.next = epd[c].next /\ e.fn = epd[c].fn
  BY SpentHere DEF Header
<1>2. PICK keep : epd'[c] = [e EXCEPT !.keep = keep, !.out = out]
  BY <1>1 DEF Header, Put, TypeOK, Epdata
<1>. DEFINE x == [e EXCEPT !.keep = keep, !.out = out]
<1>. HIDE DEF e, out
<1>3. /\ x.status = e.status /\ x.L = e.L /\ x.hdr = e.hdr /\ x.next = e.next
      /\ x.fn = e.fn
  BY <1>1 DEF Epdata
<1>. HIDE DEF x
<1>. QED
  BY <1>1, <1>2, <1>3, GoesOnKind DEF x

\* Something is queued for the client.
LEMMA QueueKind ==
  ASSUME Safe, NEW c \in Conns, Calls(c), SameScript, NEW out, NEW k,
         Put(c, [Spent(c) EXCEPT !.out = out], k)
  PROVE  GoesOn(c)
<1>. DEFINE e == Spent(c)
            x == [e EXCEPT !.out = out]
<1>1. /\ TypeOK /\ e \in Epdata /\ e.status = "PROCESS"
      /\ e.L = epd[c].L /\ e.hdr = epd[c].hdr /\ e.next = epd[c].next /\ e.fn = epd[c].fn
  BY SpentHere
<1>2. epd'[c] = x
  BY <1>1 DEF Put, TypeOK
<1>. HIDE DEF e
<1>3. /\ x.status = e.status /\ x.L = e.L /\ x.hdr = e.hdr /\ x.next = e.next
      /\ x.fn = e.fn
  BY <1>1 DEF Epdata
<1>. HIDE DEF x
<1>. QED
  BY <1>1, <1>2, <1>3, GoesOnKind

LEMMA EchoKind ==
  ASSUME Safe, NEW c \in Conns, Echo(c)
  PROVE  GoesOn(c)
BY QueueKind DEF Echo

LEMMA SendFileKind ==
  ASSUME Safe, NEW c \in Conns, SendFile(c)
  PROVE  GoesOn(c)
<1>1. PICK out : Put(c, [Spent(c) EXCEPT !.out = out], wk)
  BY DEF SendFile
<1>2. Calls(c) /\ SameScript
  BY DEF SendFile
<1>. QED
  BY <1>1, <1>2, QueueKind

\* A call after which the script is suspended in state s.
LEMMA LeavesKind ==
  ASSUME Safe, NEW c \in Conns, run = c, epd[c].status = "PROCESS",
         NEW s \in CoState \ Working, NEW e, Leave(e, s), e.L = epd[c].L,
         NEW x, epd'[c] = x, x.L = epd[c].L, x.L # NoThread, Sequenced(x),
         s = "sleep" => x.status = "PROCESS",
         ScriptsEnd => Suits(x, s, FALSE)
  PROVE  Leaves(c)
BY DEF Leaves, Leave, Attached

LEMMA NetworkFlushKind ==
  ASSUME Safe, NEW c \in Conns, run = c, epd[c].status = "PROCESS",
         NEW e \in Epdata, e.L = epd[c].L, e.hdr = epd[c].hdr, e.next \in {"none", "send"},
         NEW k, NetworkFlush(c, e, k)
  PROVE  Leaves(c)
<1>. DEFINE h == IF e.hdr = 0 THEN 5 ELSE e.hdr
            x == Listen([e EXCEPT !.status = "SEND", !.hdr = h], "write")
<1>1. /\ TypeOK /\ e.L # NoThread
      /\ ScriptsEnd => e.hdr \in {0, 1}
  BY CallHere
<1>2. epd'[c] = x /\ Leave(e, "flush")
  BY <1>1 DEF NetworkFlush, Put, TypeOK, Epdata
<1>3. ScriptsEnd => h \in {1, 5}
  BY <1>1
<1>. HIDE DEF h
<1>4. /\ x.status = "SEND" /\ x.L = e.L /\ x.next = e.next /\ x.hdr = h
  BY DEF Listen, Epdata
<1>. HIDE DEF x
<1>5. Sequenced(x)
  BY <1>4 DEF Sequenced
<1>6. ScriptsEnd => Suits(x, "flush", FALSE)
  BY <1>3, <1>4 DEF Suits
<1>7. "flush" \in CoState \ Working /\ "flush" # "sleep"
  BY DEF CoState, Working
<1>. QED
  BY <1>1, <1>2, <1>4, <1>5, <1>6, <1>7, LeavesKind

LEMMA EchoMoreKind ==
  ASSUME Safe, NEW c \in Conns, EchoMore(c)
  PROVE  Leaves(c)
<1>. DEFINE e == Spent(c)
            x == [e EXCEPT !.out = "body", !.next = "send"]
<1>1. /\ run = c /\ epd[c].status = "PROCESS" /\ e \in Epdata
      /\ e.L = epd[c].L /\ e.hdr = epd[c].hdr
  BY SpentHere DEF EchoMore
<1>2. NetworkFlush(c, x, wk)
  BY DEF EchoMore
<1>. HIDE DEF e
<1>3. x \in Epdata /\ x.L = e.L /\ x.hdr = e.hdr /\ x.next = "send"
  BY <1>1 DEF Epdata, Output
<1>. HIDE DEF x
<1>. QED
  BY <1>1, <1>2, <1>3, NetworkFlushKind

LEMMA FlushKind ==
  ASSUME Safe, NEW c \in Conns, Flush(c)
  PROVE  Leaves(c) \/ GoesOn(c)
<1>. DEFINE e == Spent(c)
            x == [e EXCEPT !.out = "head"]
<1>1. /\ run = c /\ epd[c].status = "PROCESS" /\ e \in Epdata /\ TypeOK /\ Calls(c)
      /\ e.L = epd[c].L /\ e.hdr = epd[c].hdr /\ e.next = epd[c].next /\ e.next = "none"
      /\ e.fn = epd[c].fn /\ e.status = "PROCESS"
  BY SpentHere DEF Flush
<1>2. \/ NetworkFlush(c, e, wk)
      \/ NetworkFlush(c, x, wk)
      \/ Put(c, e, wk) /\ SameScript
  BY DEF Flush
<1>. HIDE DEF e
<1>3. x \in Epdata /\ x.L = e.L /\ x.hdr = e.hdr /\ x.next = e.next
  BY <1>1 DEF Epdata, Output
<1>. HIDE DEF x
<1>4. CASE NetworkFlush(c, e, wk)
  BY <1>1, <1>4, NetworkFlushKind
<1>5. CASE NetworkFlush(c, x, wk)
  BY <1>1, <1>3, <1>5, NetworkFlushKind
<1>6. CASE Put(c, e, wk) /\ SameScript
  <2>1. epd'[c] = e
    BY <1>1, <1>6 DEF Put, TypeOK
  <2>. QED
    BY <1>1, <1>6, <2>1, GoesOnKind
<1>. QED
  BY <1>2, <1>4, <1>5, <1>6

LEMMA LuaReadRequestBodyKind ==
  ASSUME Safe, NEW c \in Conns, LuaReadRequestBody(c)
  PROVE  Leaves(c) \/ GoesOn(c)
<1>. DEFINE e == Spent(c)
            first == [e EXCEPT !.contents = FALSE]
            x == Listen([e EXCEPT !.status = "READ"], "body")
<1>1. /\ run = c /\ epd[c].status = "PROCESS" /\ e \in Epdata /\ TypeOK /\ Calls(c)
      /\ e.L = epd[c].L /\ e.hdr = epd[c].hdr /\ e.next = epd[c].next /\ e.next = "none"
      /\ e.fn = epd[c].fn /\ e.status = "PROCESS" /\ e.L # NoThread
      /\ ScriptsEnd => e.hdr \in {0, 1}
  BY SpentHere DEF LuaReadRequestBody
<1>2. \/ epd'[c] = first /\ SameScript
      \/ epd'[c] = e /\ SameScript
      \/ e.open /\ epd'[c] = x /\ Leave(e, "body")
  BY <1>1 DEF LuaReadRequestBody, Put, TypeOK
<1>. HIDE DEF e
<1>3. CASE epd'[c] = first /\ SameScript
  <2>1. /\ first.status = e.status /\ first.L = e.L /\ first.hdr = e.hdr
        /\ first.next = e.next /\ first.fn = e.fn
    BY <1>1 DEF Epdata
  <2>. HIDE DEF first
  <2>. QED
    BY <1>1, <1>3, <2>1, GoesOnKind
<1>4. CASE epd'[c] = e /\ SameScript
  BY <1>1, <1>4, GoesOnKind
<1>5. CASE e.open /\ epd'[c] = x /\ Leave(e, "body")
  <2>1. /\ x.status = "READ" /\ x.fn = "body" /\ x.L = e.L /\ x.hdr = e.hdr
        /\ x.next = e.next
    BY <1>1, <1>5 DEF Listen, Epdata
  <2>. HIDE DEF x
  <2>2. Sequenced(x)
    BY <1>1, <2>1 DEF Sequenced
  <2>3. ScriptsEnd => Suits(x, "body", FALSE)
    BY <1>1, <2>1 DEF Suits
  <2>4. "body" \in CoState \ Working /\ "body" # "sleep"
    BY DEF CoState, Working
  <2>. QED
    BY <1>1, <1>5, <2>1, <2>2, <2>3, <2>4, LeavesKind
<1>. QED
  BY <1>2, <1>3, <1>4, <1>5

LEMMA SleepKind ==
  ASSUME Safe, NEW c \in Conns, Sleep(c)
  PROVE  Leaves(c)
<1>. DEFINE e == Spent(c)
<1>1. /\ run = c /\ epd[c].status = "PROCESS" /\ TypeOK
      /\ e.L = epd[c].L /\ e.next = "none" /\ e.status = "PROCESS" /\ e.L # NoThread
      /\ ScriptsEnd => e.hdr \in {0, 1}
  BY SpentHere DEF Sleep
<1>2. epd'[c] = e /\ Leave(epd[c], "sleep")
  BY <1>1 DEF Sleep, Put, TypeOK
<1>. HIDE DEF e
<1>3. Sequenced(e)
  BY <1>1 DEF Sequenced
<1>4. ScriptsEnd => Suits(e, "sleep", FALSE)
  BY <1>1 DEF Suits
<1>5. "sleep" \in CoState \ Working
  BY DEF CoState, Working
<1>. QED
  BY <1>1, <1>2, <1>3, <1>4, <1>5, LeavesKind

LEMMA WakeKind ==
  ASSUME Safe, NEW c \in Conns, Wake(c)
  PROVE  Starts(c)
<1>1. /\ run = NoConn /\ TypeOK /\ epd[c].L # NoThread /\ epd[c] \in Epdata
      /\ co[epd[c].L] = "sleep" /\ Resume(c, epd[c]) /\ epd' = epd
      /\ Sequenced(epd[c])
      /\ ScriptsEnd => (epd[c].L # NoThread => Suits(epd[c], co[epd[c].L], run = c))
  BY Here DEF Wake
<1>2. epd[c].L \in Threads
  BY <1>1 DEF Epdata
<1>3. PICK d \in Conns : epd[d].L = epd[c].L /\ epd[d].status = "PROCESS"
  BY <1>1, <1>2 DEF Safe, SInv, SleepersServed
<1>4. d = c
  BY <1>1, <1>3 DEF Safe, IInv, ThreadsConserved
<1>5. epd[c].status = "PROCESS" /\ epd[c].next = "none"
  BY <1>1, <1>3, <1>4 DEF Sequenced
<1>6. ScriptsEnd => epd[c].hdr \in {0, 1}
  BY <1>1, <1>5 DEF Suits
<1>. QED
  BY <1>1, <1>2, <1>5, <1>6, ResumeKind

\* The script of c has ended in state s and its connection rests.
LEMMA EndedKind ==
  ASSUME Safe, NEW c \in Conns, run = c, epd[c].status = "PROCESS",
         NEW s \in {"idle", "dead"}, Leave(epd[c], s), s = "dead" => ~ ScriptsEnd,
         Rested(epd[c], epd'[c])
  PROVE  Leaves(c)
<1>1. epd[c].L # NoThread
  BY CallHere
<1>2. /\ Attached(epd'[c]) /\ Sequenced(epd'[c]) /\ epd'[c].status # "PROCESS"
      /\ epd'[c].L \in {NoThread, epd[c].L}
      /\ epd'[c].L # NoThread => Suits(epd'[c], "idle", FALSE)
  BY <1>1, RestedFits
<1>3. s \in CoState \ Working /\ s # "sleep"
  BY DEF CoState, Working
<1>. QED
  BY <1>2, <1>3 DEF Leaves, Leave

LEMMA EndKind ==
  ASSUME Safe, NEW c \in Conns, End(c)
  PROVE  Leaves(c)
<1>1. run = c /\ epd[c].status = "PROCESS"
  BY DEF End
<1>2. BeEnd(c, epd[c], wk) /\ Leave(epd[c], "idle")
  BY DEF End
<1>3. Rested(epd[c], epd'[c])
  BY <1>1, <1>2, CallHere, BeEndRests
<1>. QED
  BY <1>1, <1>2, <1>3, EndedKind

LEMMA ThrowKind ==
  ASSUME Safe, NEW c \in Conns, Throw(c)
  PROVE  Leaves(c)
<1>1. run = c /\ epd[c].status = "PROCESS" /\ ~ ScriptsEnd
  BY DEF Throw, ScriptsEnd
<1>2. Leave(epd[c], "dead") /\ (SendError(c, epd[c], wk, TRUE) \/ epd' = epd)
  BY DEF Throw
<1>3. CASE SendError(c, epd[c], wk, TRUE)
  <2>1. Rested(epd[c], epd'[c])
    BY <1>1, <1>3, CallHere, SendErrorRests
  <2>. QED
    BY <1>1, <1>2, <2>1, EndedKind
<1>4. CASE epd' = epd
  <2>1. epd[c].L # NoThread /\ epd[c].next = "none"
    BY <1>1, CallHere
  <2>2. Sequenced(epd[c])
    BY <2>1 DEF Sequenced
  <2>3. "dead" \in CoState \ Working /\ "dead" # "sleep"
    BY DEF CoState, Working
  <2>. QED
    BY <1>1, <1>2, <1>4, <2>1, <2>2, <2>3, LeavesKind
<1>. QED
  BY <1>2, <1>3, <1>4

-----------------------------------------------------------------------------
(* Every step. *)

LEMMA ServeAlone ==
  ASSUME IInv, NEW c \in Conns, Serve(c)
  PROVE  Alone(c)
<1>1. Outcome(c)
  BY ServeOutcome
<1>2. /\ NoThread \notin Threads /\ NoConn \notin Conns
      /\ epd \in [Conns -> Epdata] /\ co \in [Threads -> CoState]
  BY ThreadsAssumption, ConnsAssumption DEF ThreadsAssumption, ConnsAssumption, IInv, TypeOK
<1>3. epd' = [epd EXCEPT ![c] = epd'[c]] /\ epd'[c] \in Epdata
  BY <1>1 DEF Outcome, Good
<1>4. epd' \in [Conns -> Epdata] /\ \A d \in Conns \ {c} : epd'[d] = epd[d]
  BY <1>2, <1>3
<1>5. \A d1, d2 \in Conns : epd[d1].L = epd[d2].L /\ epd[d1].L # NoThread => d1 = d2
  BY DEF IInv, ThreadsConserved
<1>6. epd'[c].L \notin {epd[d].L : d \in Conns \ {c}} \ {NoThread}
  BY <1>1 DEF Outcome, Good, Conserved, OthersThreads
<1>7. \A d1, d2 \in Conns : epd'[d1].L = epd'[d2].L /\ epd'[d1].L # NoThread => d1 = d2
  BY <1>4, <1>5, <1>6
<1>. QED
  BY <1>2, <1>4, <1>5, <1>7 DEF Alone

LEMMA ServeKind ==
  ASSUME Safe, NEW c \in Conns, Serve(c)
  PROVE  Quiet(c) \/ Starts(c) \/ GoesOn(c) \/ Leaves(c) \/ Stuck(c)
<1>1. CASE Accept(c) \/ TimeoutHandle(c) \/ Wake(c)
  BY <1>1, AcceptKind, TimeoutHandleKind, WakeKind
<1>2. CASE SslAccept(c) \/ ReadSome(c) \/ ReadEnd(c) \/ ReadRefused(c) \/ ReadRequest(c)
  BY <1>2, SslAcceptKind, ReadSomeKind, ReadEndKind, ReadRefusedKind, ReadRequestKind
<1>3. CASE ReadOnProcessing(c) \/ ReadOnClear(c) \/ ReadRequestBody(c)
  BY <1>3, ReadOnProcessingKind, ReadOnClearKind, ReadRequestBodyKind
<1>4. CASE WriteDone(c) \/ WriteFail(c) \/ WriteNothing(c)
  BY <1>4, WriteDoneKind, WriteFailKind, WriteNothingKind
<1>5. CASE Header(c) \/ Echo(c) \/ EchoMore(c) \/ Flush(c) \/ SendFile(c)
  BY <1>5, HeaderKind, EchoKind, EchoMoreKind, FlushKind, SendFileKind
<1>6. CASE LuaReadRequestBody(c) \/ Sleep(c) \/ End(c) \/ Throw(c)
  BY <1>6, LuaReadRequestBodyKind, SleepKind, EndKind, ThrowKind
<1>. QED
  BY <1>1, <1>2, <1>3, <1>4, <1>5, <1>6 DEF Serve, Network, Script

LEMMA NextKeeps == Safe /\ [Next]_vars => SInv'
<1>. SUFFICES ASSUME Safe, [Next]_vars PROVE SInv'
  OBVIOUS
<1>1. ASSUME NEW c \in Conns, Serve(c)
      PROVE  SInv'
  BY <1>1, ServeAlone, ServeKind, QuietKeeps, StartsKeeps, GoesOnKeeps, LeavesKeeps, StuckKeeps
     DEF Safe
<1>2. CASE UNCHANGED <<epd, co, run>>
  <2>1. OneScript' /\ SleepersServed'
    BY <1>2 DEF Safe, SInv, OneScript, SleepersServed
  <2>2. \A d \in Conns : Attached(epd'[d]) /\ Sequenced(epd'[d])
    BY <1>2 DEF Safe, SInv
  <2>3. ScriptsEnd => AllSuit'
    BY <1>2 DEF Safe, SInv, AllSuit, Suits
  <2>. QED
    BY <2>1, <2>2, <2>3 DEF SInv, ScriptsEnd, Attached, Sequenced
<1>3. BeginExit \/ UNCHANGED vars => UNCHANGED <<epd, co, run>>
  BY DEF BeginExit, vars
<1>. QED
  BY <1>1, <1>2, <1>3 DEF Next

LEMMA InitSuits == Init => SInv
<1>. SUFFICES ASSUME Init PROVE SInv
  OBVIOUS
<1>1. /\ epd = [c \in Conns |-> Freed] /\ co = [t \in Threads |-> "idle"] /\ run = NoConn
  BY DEF Init
<1>2. \A c \in Conns : epd[c].L = NoThread /\ epd[c].status = "FREE" /\ epd[c].hdr = 0
                       /\ epd[c].next = "none" /\ epd[c].fn = "none"
  BY <1>1 DEF Freed
<1>3. \A t \in Threads : co[t] = "idle"
  BY <1>1
<1>4. OneScript /\ SleepersServed
  BY <1>1, <1>3 DEF OneScript, SleepersServed
<1>5. \A c \in Conns : Attached(epd[c]) /\ Sequenced(epd[c])
  BY <1>2 DEF Attached, Sequenced
<1>6. AllSuit
  BY <1>2, <1>3 DEF AllSuit
<1>. QED
  BY <1>4, <1>5, <1>6 DEF SInv

-----------------------------------------------------------------------------
(* The theorems. *)

\* Safe holds in every state of the worker.
THEOREM ScriptInvariant == Spec => []Safe
<1>1. Init => Safe
  BY InitInvariant, InitSuits DEF Safe
<1>2. Safe /\ [Next]_vars => Safe'
  BY NextInvariant, NextKeeps DEF Safe
<1>. QED
  BY <1>1, <1>2, PTL DEF Spec

\* At most one script executes, for the connection the worker resumed, which is
\* in STEP_PROCESS: whatever callback, timer or error comes, no function resumes a
\* second thread or leaves one executing when the worker returns to epoll.
THEOREM OneScriptAtATime == Spec => []OneScript
<1>1. Safe => OneScript
  BY DEF Safe, SInv
<1>. QED
  BY <1>1, ScriptInvariant, PTL

\* Where no timer, write error or error of a script cuts a script short,
\* close_client and network_end_process give back only threads whose script has
\* ended ("at working!!!").
THEOREM ReleasedThreadsAreIdle ==
  ASSUME {"timeout", "writefail", "throw"} \cap Moves = {}
  PROVE  Spec => []PoolThreadsIdle
<1>1. Safe => PoolThreadsIdle
  <2>. SUFFICES ASSUME Safe, NEW t \in PoolThreads PROVE co[t] = "idle"
    BY DEF PoolThreadsIdle
  <2>1. t \in Threads
    BY DEF Safe, IInv, TypeOK, Worker, PoolThreads
  <2>2. t \notin Owned
    BY DEF Safe, IInv, ThreadsConserved
  <2>3. \A c \in Conns : epd[c].L # t
    BY <2>1, <2>2, ThreadsAssumption DEF ThreadsAssumption, Owned
  <2>. QED
    BY <2>1, <2>3 DEF Safe, SInv, ScriptsEnd, AllSuit
<1>. QED
  BY <1>1, ScriptInvariant, PTL

\* There, too, a script suspended in a flush or in read_request_body has a
\* connection that is sent to or read from, so that its callback resumes it.
THEOREM SuspendedScriptsAreServed ==
  ASSUME {"timeout", "writefail", "throw"} \cap Moves = {}
  PROVE  Spec => []SuspendedIsServed
<1>1. Safe => SuspendedIsServed
  <2>. SUFFICES ASSUME Safe, NEW t \in Threads, co[t] \in {"flush", "body"}
                PROVE  \E c \in Conns : /\ epd[c].L = t
                                        /\ epd[c].status = IF co[t] = "flush" THEN "SEND" ELSE "READ"
    BY DEF SuspendedIsServed
  <2>1. AllSuit
    BY DEF Safe, SInv, ScriptsEnd
  <2>2. PICK c \in Conns : epd[c].L = t
    BY <2>1 DEF AllSuit
  <2>3. Suits(epd[c], co[t], run = c)
    BY <2>1, <2>2, ThreadsAssumption DEF ThreadsAssumption, AllSuit
  <2>4. epd[c].status \in {"FREE", "WAIT", "READ", "PROCESS", "SEND"}
    BY DEF Safe, IInv, TypeOK, Epdata, Status
  <2>5. epd[c].status = IF co[t] = "flush" THEN "SEND" ELSE "READ"
    BY <2>3, <2>4 DEF Suits, Working
  <2>. QED
    BY <2>2, <2>5
<1>. QED
  BY <1>1, ScriptInvariant, PTL

\* There, too, a connection in STEP_PROCESS, whose timer only gives it more time,
\* always has a script that executes or will be woken.
THEOREM WorkHasScript ==
  ASSUME {"timeout", "writefail", "throw"} \cap Moves = {}
  PROVE  Spec => []ProcessHasScript
<1>1. Safe => ProcessHasScript
  <2>. SUFFICES ASSUME Safe, NEW c \in Conns, epd[c].status = "PROCESS", run # c
                PROVE  epd[c].L # NoThread /\ co[epd[c].L] = "sleep"
    BY DEF ProcessHasScript
  <2>1. AllSuit
    BY DEF Safe, SInv, ScriptsEnd
  <2>2. epd[c].L # NoThread
    BY <2>1 DEF AllSuit
  <2>3. Suits(epd[c], co[epd[c].L], FALSE)
    BY <2>1, <2>2 DEF AllSuit, Suits
  <2>. QED
    BY <2>2, <2>3 DEF Suits
<1>. QED
  BY <1>1, ScriptInvariant, PTL

=============================================================================
