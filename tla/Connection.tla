----------------------------- MODULE Connection -----------------------------
(***************************************************************************)
(* One worker process of alilua: its client connections (epdata_t), the    *)
(* Lua threads it serves them with, and the gauges of serv_status.         *)
(*                                                                         *)
(* The worker is single threaded.  An action of this module is what the    *)
(* event loop runs between two returns to epoll (a readiness callback, a   *)
(* timer, an accept), or one library call of the Lua script that such a    *)
(* callback has resumed.  While a script runs (run # NoConn) the event     *)
(* loop does not.                                                          *)
(*                                                                         *)
(* The C functions that end by calling one another (network_be_end,        *)
(* network_end_process, close_client, worker_process, network_send_error)  *)
(* are action operators Op(c, e, k): e is the epdata_t of connection c and *)
(* k the gauges as the caller leaves them, and Op fixes the next state.    *)
(*                                                                         *)
(* External (empty submodule coevent/merry): the event loop se_*, the      *)
(* timers, and the coroutine resume.  A pointer holds one callback at a    *)
(* time; a call on a NULL pointer registers nothing.                       *)
(*                                                                         *)
(* Each definition whose comment starts with "Wrong:" is the one below it  *)
(* with a mistake in it.  No specification uses it: it is there to show    *)
(* that a property would notice.                                           *)
(***************************************************************************)
EXTENDS Integers, Sequences, FiniteSets

CONSTANTS
  Conns,      \* connection slots: how many clients at once (bound)
  Threads,    \* every Lua thread there may be: MAX_LUA_THREAD_COUNT of them
  NoConn, NoThread,
  InitPool,   \* the threads made by init_lua_threads, in the order released
  MaxBody,    \* request body left to read, in pieces (bound)
  MaxOps,     \* library calls of a script before it ends (bound)
  MaxDrift,   \* how far a gauge may drift from what it counts (bound)
  Moves       \* what clients, timers and scripts may do in this instance

AllMoves == {"expect", "badcert", "badrequest", "oversize", "nolength", "status", "ssl",
             "eof", "bodyeof", "writefail", "timeout", "throw", "emptyflush", "exit"}

ASSUME ConnsAssumption   == IsFiniteSet(Conns) /\ NoConn \notin Conns
ASSUME ThreadsAssumption == NoThread \notin Threads
ASSUME PoolAssumption    ==
  /\ InitPool \in Seq(Threads)
  /\ \A i, j \in 1..Len(InitPool) : InitPool[i] = InitPool[j] => i = j
ASSUME BoundsAssumption  == {MaxBody, MaxOps, MaxDrift} \subseteq Nat
ASSUME MovesAssumption   == Moves \subseteq AllMoves

VARIABLES
  epd,      \* [Conns -> Epdata]: the connections; status "FREE" when there is none
  wk,       \* the worker's globals: gauges of serv_status, pool, threads made
  co,       \* [Threads -> CoState]: where each Lua thread stands
  run,      \* the connection the worker is executing for, NoConn in epoll
  exiting   \* check_process_for_exit()

vars == <<epd, wk, co, run, exiting>>

Status  == {"FREE", "WAIT", "READ", "PROCESS", "SEND"}

\* The callback registered on se_ptr: network_be_read, _be_ssl_accept,
\* network_be_read_on_processing, network_be_read_on_clear,
\* network_be_read_request_body, network_be_write, or NULL.
Handler == {"none", "read", "ssl", "processing", "clear", "body", "write"}

\* What is queued for the client: nothing, a header only, some body, an open
\* file (response_sendfile_fd > -1), a file that is missing (-2).
Output  == {"empty", "head", "body", "file", "missing"}

\* A thread is fresh or has finished its last script ("idle"), executes since
\* worker_process resumed it ("started") or since it was resumed later
\* ("running"), is suspended in flush or echo, in read_request_body or in a
\* coevent call, or its last script raised an error ("dead": Lua refuses to
\* resume it).
CoState == {"idle", "started", "running", "flush", "body", "sleep", "dead"}

Epdata == [status   : Status,
           fn       : Handler,
           open     : BOOLEAN,                  \* fd > -1, se_ptr # NULL
           L        : Threads \cup {NoThread},
           keep     : BOOLEAN,                  \* keepalive == 1
           rto      : BOOLEAN,                  \* timeout_type == IS_READ_TIMEOUT
           hdr      : {0, 1, 2, 5},             \* header_sended
           rest     : 0..MaxBody,               \* body not received yet
           contents : BOOLEAN,                  \* first body piece not given out
           out      : Output,
           next     : {"none", "process", "send"},  \* next_proc
           ops      : 0..MaxOps]

Freed == [status |-> "FREE", fn |-> "none", open |-> FALSE, L |-> NoThread,
          keep |-> FALSE, rto |-> FALSE, hdr |-> 0, rest |-> 0,
          contents |-> FALSE, out |-> "empty", next |-> "none", ops |-> 0]

\* pool is the list lua_thread_head .. lua_thread_tail, made the threads that
\* new_lua_thread has created (lua_thread_count is their number).
Worker == [reading : Int, sending : Int, active : Int,
           pool : Seq(Threads), made : SUBSET Threads]

-----------------------------------------------------------------------------
(* Helpers shared by the handlers. *)

Put(c, e, k) == epd' = [epd EXCEPT ![c] = e] /\ wk' = k

Reading(k, n) == [k EXCEPT !.reading = @ + n]
Sending(k, n) == [k EXCEPT !.sending = @ + n]
Active(k, n)  == [k EXCEPT !.active = @ + n]

\* Wrong: a callback can be registered on a connection that was closed.
ListenAnyway(e, fn) == [e EXCEPT !.fn = fn]

\* se_be_read / se_be_write / se_be_pri on se_ptr.
Listen(e, fn) == [e EXCEPT !.fn = IF e.open THEN fn ELSE "none"]

\* The client is gone: se_delete, close(fd), se_ptr = NULL, fd = -1.
Gone(e) == [e EXCEPT !.open = FALSE, !.fn = "none"]

\* What the worker listens to while a script works.
AwaitScript(e) == Listen(e, IF e.rest = 0 THEN "processing" ELSE "none")

\* The thread of e is resumed and runs until its next library call, or leaves
\* the worker to its event loop in state s.
Start(c, e)  == run' = c /\ co' = [co EXCEPT ![e.L] = "started"]
Resume(c, e) == run' = c /\ co' = [co EXCEPT ![e.L] = "running"]
Leave(e, s)  == run' = NoConn /\ co' = [co EXCEPT ![e.L] = s]
SameScript     == UNCHANGED <<run, co>>

-----------------------------------------------------------------------------
(* The pool of Lua threads. *)

\* The threads new_lua_thread may return; none when the pool is full.
Available(k) == IF k.pool # <<>> THEN {Head(k.pool)} ELSE Threads \ k.made

NewLuaThread(k, t) ==
  IF k.pool # <<>> THEN [k EXCEPT !.pool = Tail(@)]
                   ELSE [k EXCEPT !.made = @ \cup {t}]

\* release_lua_thread
Release(k, t) == [k EXCEPT !.pool = IF t = NoThread THEN @ ELSE Append(@, t)]

-----------------------------------------------------------------------------
(* The functions that finish a request. *)

CloseClient(c, e, k) ==
  LET reader == IF e.status = "READ" THEN 1 ELSE 0
      sender == IF e.status = "SEND" THEN 1 ELSE 0
      client == IF e.open THEN 1 ELSE 0
  IN  Put(c, Freed, Release(Active(Sending(Reading(k, -reader), -sender), -client), e.L))

\* free_epd_request: ready for the next request on this connection.
FreeRequest(e) ==
  Listen([e EXCEPT !.rest = 0, !.contents = FALSE, !.out = "empty"], "read")

\* Wrong: the thread is given back after each request, not with its connection.
EndProcessReleasing(c, e, k) ==
  LET w == [e EXCEPT !.status = "WAIT"]
  IN  IF e.keep /\ ~exiting THEN Put(c, FreeRequest(w), Release(k, e.L))
                            ELSE CloseClient(c, w, k)

\* network_end_process
EndProcess(c, e, k) ==
  LET w == [e EXCEPT !.status = "WAIT"]
  IN  IF e.keep /\ ~exiting THEN Put(c, FreeRequest(w), k)
                            ELSE CloseClient(c, w, k)

\* Wrong: nothing more to do once the client is gone.
StartSendIfOpen(c, e, k) ==
  IF e.open
  THEN Put(c, [e EXCEPT !.status = "SEND", !.fn = "write"], Sending(k, 1))
  ELSE Put(c, e, k)

\* The tail of network_be_end: hand the response to network_be_write, unless
\* the client is gone.
StartSend(c, e, k) ==
  IF e.open
  THEN Put(c, [e EXCEPT !.status = "SEND", !.fn = "write"], Sending(k, 1))
  ELSE EndProcess(c, e, k)

\* network_be_end calls itself through network_send_error when there is nothing
\* to send (417, no body) or the file is missing (404).
BeEnd(c, e, k) ==
  IF e.open /\ ~e.rto /\ e.rest > 0
  THEN Put(c, Listen([e EXCEPT !.status = "READ"], "clear"),
           Reading(k, IF e.status = "READ" THEN 0 ELSE 1))
  ELSE IF e.hdr = 0
  THEN LET out == CASE e.out = "empty"   -> "head"
                    [] e.out = "missing" -> "body"
                    [] OTHER             -> e.out
           ready == [e EXCEPT !.out = out]
       IN  IF out = "head"
           THEN EndProcess(c, ready, k)       \* raw send of the header, no body
           ELSE StartSend(c, ready, k)
  ELSE LET last == [e EXCEPT !.hdr = 2]
       IN  \/ StartSend(c, [last EXCEPT !.out = "body"], k)  \* or a last chunk
           \/ e.out # "body" /\ EndProcess(c, last, k)

\* The header is added to what is queued, and msg to the body if there is one.
SendError(c, e, k, hasMsg) ==
  BeEnd(c, [e EXCEPT !.out = CASE @ \in {"file", "missing", "body"} -> @
                               [] OTHER -> IF hasMsg THEN "body" ELSE "head"], k)

-----------------------------------------------------------------------------
\* worker_process for a request whose header is read: refuse it, or resume the
\* thread.  A client without the certificate asked for is refused before there is a
\* thread, a malformed request after.  A thread that was given back in the middle
\* of a script goes on with that script, now on behalf of c.
WorkerProcess(c, e, k) ==
  \/ /\ "badcert" \in Moves
     /\ SendError(c, e, k, TRUE)
     /\ SameScript
  \/ /\ e.L = NoThread
     /\ Available(k) = {}
     /\ SendError(c, e, k, TRUE)
     /\ SameScript
  \/ \E t \in IF e.L = NoThread THEN Available(k) ELSE {e.L} :
       LET own == [e EXCEPT !.L = t]
           k2  == IF e.L = NoThread THEN NewLuaThread(k, t) ELSE k
       IN  \/ /\ co[t] = "dead" \/ "badrequest" \in Moves
              /\ SendError(c, own, k2, TRUE) /\ SameScript
           \/ co[t] # "dead" /\ Put(c, own, k2) /\ Start(c, own)

-----------------------------------------------------------------------------
(* The event loop: accepting and reading. *)

Loop(c, fn) == run = NoConn /\ epd[c].open /\ epd[c].fn = fn

\* be_accept, and be_ssl_accept, which waits for the handshake first.
Accept(c) ==
  /\ run = NoConn
  /\ epd[c].status = "FREE"
  /\ \E fn \in {"read"} \cup ({"ssl"} \cap Moves) :
       LET e == [Freed EXCEPT !.status = "WAIT", !.fn = fn, !.open = TRUE]
       IN  \/ Available(wk) = {} /\ Put(c, e, Active(wk, 1))
           \/ \E t \in Available(wk) :
                Put(c, [e EXCEPT !.L = t], Active(NewLuaThread(wk, t), 1))
  /\ SameScript

SslAccept(c) ==
  /\ Loop(c, "ssl")
  /\ \/ Put(c, [epd[c] EXCEPT !.fn = "read"], wk)
     \/ CloseClient(c, epd[c], wk)
  /\ SameScript

\* network_be_read, first bytes of a header.
ReadSome(c) ==
  /\ Loop(c, "read")
  /\ epd[c].status = "WAIT"
  /\ Put(c, [epd[c] EXCEPT !.status = "READ"], Reading(wk, 1))
  /\ SameScript

\* Wrong: half a header is dropped without counting the reader out.
ReadEndUncounted(c) ==
  LET e == epd[c]
  IN  /\ Loop(c, "read")
      /\ "eof" \in Moves
      /\ \/ CloseClient(c, e, wk)
         \/ /\ e.status = "READ"
            /\ EndProcess(c, [e EXCEPT !.keep = FALSE, !.status = "PROCESS"], wk)
      /\ SameScript

\* network_be_read, the client closed or reset the connection.
ReadEnd(c) ==
  LET e == epd[c]
  IN  /\ Loop(c, "read")
      /\ "eof" \in Moves
      /\ \/ CloseClient(c, e, wk)                       \* no data, or an error
         \/ /\ e.status = "READ"                        \* part of a header
            /\ EndProcess(c, [e EXCEPT !.keep = FALSE, !.status = "PROCESS"],
                          Reading(wk, -1))
      /\ SameScript

\* network_be_read, answers given before the request is started.  status is
\* still STEP_READ when network_send_error runs.
ReadRefused(c) ==
  LET e == [epd[c] EXCEPT !.status = "READ"]
      k == Reading(wk, IF epd[c].status = "READ" THEN 0 ELSE 1)
  IN  /\ Loop(c, "read")
      /\ wk.reading < MaxDrift
      /\ \/ "oversize" \in Moves /\ SendError(c, e, k, TRUE)
         \/ /\ "oversize" \in Moves
            /\ \E n \in 1..MaxBody : SendError(c, [e EXCEPT !.rest = n], k, TRUE)
         \/ "nolength" \in Moves /\ SendError(c, e, k, FALSE)
      /\ SameScript

\* Wrong: a header that arrives whole is counted out without being counted in.
HeaderReadAlways(c) == Reading(wk, -1)

\* The gauges once the header of c is read.
HeaderRead(c) == Reading(wk, IF epd[c].status = "READ" THEN -1 ELSE 0)

\* network_be_read, a whole header: the request starts.
ReadRequest(c) ==
  LET k == HeaderRead(c)
  IN  /\ Loop(c, "read")
      /\ \E rest \in 0..MaxBody, ka \in BOOLEAN :
           LET e == AwaitScript([epd[c] EXCEPT
                      !.status = "PROCESS", !.keep = @ \/ ka, !.hdr = 0,
                      !.rest = rest, !.contents = TRUE, !.ops = MaxOps])
           IN  \/ WorkerProcess(c, e, k)
               \/ /\ "status" \in Moves                 \* GET /serv-status
                  /\ BeEnd(c, [e EXCEPT !.out = "body"], k)
                  /\ SameScript
               \/ /\ "expect" \in Moves                 \* Expect: 100-continue
                  /\ Put(c, [e EXCEPT !.status = "SEND", !.fn = "write",
                                      !.out = "head", !.next = "process"],
                         Sending(k, 1))
                  /\ SameScript

\* Wrong: the connection is closed at once, whatever its script is doing.
CloseOnProcessing(c) ==
  Loop(c, "processing") /\ "eof" \in Moves /\ CloseClient(c, epd[c], wk) /\ SameScript

\* Wrong: the client is gone but still counted.
ReadOnProcessingUncounted(c) ==
  /\ Loop(c, "processing")
  /\ "eof" \in Moves
  /\ Put(c, [Gone(epd[c]) EXCEPT !.keep = FALSE], wk)
  /\ SameScript

\* network_be_read_on_processing: whatever arrives while a request without
\* unread body is being served, the connection is given up.
ReadOnProcessing(c) ==
  /\ Loop(c, "processing")
  /\ "eof" \in Moves
  /\ Put(c, [Gone(epd[c]) EXCEPT !.keep = FALSE], Active(wk, -1))
  /\ SameScript

\* Wrong: the end of the body goes unnoticed.
DiscardPastEnd(c, e) == Put(c, [e EXCEPT !.rest = @ - 1], wk)

Discard(c, e) == e.rest > 1 /\ Put(c, [e EXCEPT !.rest = @ - 1], wk)

\* network_be_read_on_clear: throw away the body the script did not read.
ReadOnClear(c) ==
  LET e == epd[c]
  IN  /\ Loop(c, "clear")
      /\ \/ Discard(c, e)
         \/ BeEnd(c, [e EXCEPT !.status = "PROCESS", !.fn = "none", !.rest = 0],
                  Reading(wk, -1))
         \/ /\ "eof" \in Moves
            /\ BeEnd(c, [Gone(e) EXCEPT !.status = "PROCESS", !.keep = FALSE],
                     Reading(Active(wk, -1), -1))
      /\ SameScript

\* Wrong: the script that waits for the body is not told that the client left.
ReadRequestBodyQuietly(c) ==
  LET e  == epd[c]
      ok == [e EXCEPT !.status = "PROCESS"]
      k  == Reading(wk, IF e.status = "READ" THEN -1 ELSE 0)
  IN  /\ Loop(c, "body")
      /\ \/ /\ \E n \in 0..(e.rest - 1) :
                 Put(c, [ok EXCEPT !.rest = n, !.fn = "none"], k)
            /\ Resume(c, e)
         \/ "eof" \in Moves /\ Put(c, Gone(ok), Active(k, -1)) /\ SameScript

\* network_be_read_request_body.  An end of file with nothing read goes through
\* both closing blocks and is counted twice; keepalive stays as it was.
ReadRequestBody(c) ==
  LET e  == epd[c]
      ok == [e EXCEPT !.status = "PROCESS"]
      k  == Reading(wk, IF e.status = "READ" THEN -1 ELSE 0)
  IN  /\ Loop(c, "body")
      /\ \/ \E n \in 0..(e.rest - 1) :
              Put(c, [ok EXCEPT !.rest = n, !.fn = "none"], k)
         \/ /\ "eof" \in Moves                \* some data, then the end of it
            /\ \E n \in 0..(e.rest - 1) :
                 Put(c, [Gone(ok) EXCEPT !.rest = n], Active(k, -1))
         \/ "eof" \in Moves /\ Put(c, Gone(ok), Active(k, -1))      \* reset
         \/ /\ "bodyeof" \in Moves /\ -wk.active < MaxDrift
            /\ Put(c, Gone(ok), Active(k, -2))
      /\ Resume(c, e)

-----------------------------------------------------------------------------
(* Writing the response. *)

\* send_then_send: the rest of an echo that did not fit the buffers.  The write
\* callback stays registered when the script goes on.
SendThenSend(c, e, k) ==
  \/ /\ e.hdr = 1 => e.ops > 0
     /\ Put(c, [e EXCEPT !.status = "SEND", !.ops = IF e.hdr = 1 THEN @ - 1 ELSE @],
            Sending(k, 1))
     /\ SameScript
  \/ /\ e.hdr = 1                    \* the buffers were freed, the rest fits
     /\ Put(c, [e EXCEPT !.next = "none"], k)
     /\ Resume(c, e)

\* The end of network_be_write: follow next_proc, or let the script that flushed
\* go on, or end the request.
Written(c, e, k) ==
  CASE e.next = "process" ->
         WorkerProcess(c, [e EXCEPT !.next = "none", !.out = "empty"], k)
    [] e.next = "send" -> SendThenSend(c, e, k)
    [] e.next = "none" /\ e.hdr = 1 ->
         Put(c, AwaitScript([e EXCEPT !.out = "empty"]), k) /\ Resume(c, e)
    [] e.next = "none" /\ e.hdr # 1 -> EndProcess(c, e, k) /\ SameScript

\* network_be_write has sent everything.
WriteDone(c) ==
  LET e == epd[c]
  IN  /\ Loop(c, "write")
      /\ e.status = "SEND"
      /\ e.hdr = 5 => e.out # "head"
      /\ Written(c, [e EXCEPT !.status = "PROCESS",
                              !.hdr = IF @ = 5 THEN 1 ELSE @],
                 Sending(wk, -1))

\* network_be_write got an error from the socket.  After the first flush
\* (header_sended = 5) this ends the request although the script waits.
WriteFail(c) ==
  LET e == epd[c]
  IN  /\ Loop(c, "write")
      /\ "writefail" \in Moves
      /\ e.status = "SEND"
      /\ e.hdr = 5 => e.out # "head"
      /\ Written(c, [e EXCEPT !.status = "PROCESS", !.keep = FALSE], Sending(wk, -1))

\* network_be_write with a header of length zero and no body queued: writev of
\* nothing returns 0, and the loop never ends.
WriteNothing(c) ==
  /\ Loop(c, "write")
  /\ epd[c].status = "SEND" /\ epd[c].hdr = 5 /\ epd[c].out = "head"
  /\ run' = c
  /\ UNCHANGED <<epd, wk, co>>

-----------------------------------------------------------------------------
(* Timers.  A request in STEP_PROCESS is given more time. *)

\* Wrong: no timer while the rest of a request is awaited.
NoReadTimeout(c, e) == FALSE

ReadTimeout(c, e) ==
  /\ e.status = "READ"
  /\ SendError(c, [e EXCEPT !.keep = FALSE, !.status = "PROCESS", !.rto = TRUE],
               Reading(wk, -1), TRUE)

\* Wrong: the writer is counted out here and again by close_client.
SendTimeoutTwice(c, e) == e.status = "SEND" /\ CloseClient(c, e, Sending(wk, -1))

SendTimeout(c, e) ==
  /\ e.status = "SEND"
  /\ CloseClient(c, [e EXCEPT !.status = "WAIT"], Sending(wk, -1))

\* Wrong: a connection kept alive has no timer.
NoIdleTimeout(c, e) ==
  e.status = "PROCESS" /\ e.L = NoThread /\ CloseClient(c, [e EXCEPT !.status = "WAIT"], wk)

IdleTimeout(c, e) ==
  /\ e.status = "WAIT" \/ (e.status = "PROCESS" /\ e.L = NoThread)
  /\ CloseClient(c, [e EXCEPT !.status = "WAIT"], wk)

TimeoutHandle(c) ==
  /\ run = NoConn
  /\ "timeout" \in Moves
  /\ \/ ReadTimeout(c, epd[c])
     \/ SendTimeout(c, epd[c])
     \/ IdleTimeout(c, epd[c])
  /\ SameScript

-----------------------------------------------------------------------------
(* The script of a request: process() of core.lua and what it calls. *)

\* The script of c is executing and makes its next library call.
Calls(c) == run = c /\ epd[c].status = "PROCESS" /\ epd[c].ops > 0

Spent(c) == [epd[c] EXCEPT !.ops = @ - 1]

\* After sendfile the script is stopped by an error and only __end follows.
Stopped(c) == epd[c].out \in {"file", "missing"}

\* header(), also with "Connection: close", and an echo past the time limit.
Header(c) ==
  /\ Calls(c) /\ ~Stopped(c)
  /\ \E keep \in {epd[c].keep, FALSE} :
       Put(c, [Spent(c) EXCEPT
                 !.keep = keep,
                 !.out  = IF epd[c].hdr = 0 /\ @ = "empty" THEN "head" ELSE @], wk)
  /\ SameScript

Echo(c) ==
  /\ Calls(c) /\ ~Stopped(c)
  /\ Put(c, [Spent(c) EXCEPT !.out = "body"], wk)
  /\ SameScript

\* network_flush, called from flush() and from an echo that fills the buffers.
NetworkFlush(c, e, k) ==
  /\ Put(c, Listen([e EXCEPT !.status = "SEND",
                             !.hdr = IF @ = 0 THEN 5 ELSE @], "write"),
         Sending(k, 1))
  /\ Leave(e, "flush")

\* echo() with more than the buffers hold.
EchoMore(c) ==
  /\ Calls(c) /\ ~Stopped(c)
  /\ NetworkFlush(c, [Spent(c) EXCEPT !.out = "body", !.next = "send"], wk)

Flush(c) ==
  LET e == Spent(c)
  IN  /\ Calls(c) /\ ~Stopped(c)
      /\ \/ e.out = "body" /\ NetworkFlush(c, e, wk)
         \/ /\ e.hdr = 0 /\ e.out # "body" /\ "emptyflush" \in Moves
            /\ NetworkFlush(c, [e EXCEPT !.out = "head"], wk)
         \/ e.hdr # 0 /\ e.out # "body" /\ Put(c, e, wk) /\ SameScript

\* sendfile(): a readable file, a text or empty one (sent from the buffers, or
\* header only, as is a 304), or none.
SendFile(c) ==
  /\ Calls(c) /\ ~Stopped(c)
  /\ epd[c].hdr = 0
  /\ \E out \in {"file", "body", "head", "missing"} :
       Put(c, [Spent(c) EXCEPT !.out = out], wk)
  /\ SameScript

\* Wrong: the script goes on without waiting for what it asked for.
ReadWithoutYield(c) ==
  /\ Calls(c) /\ epd[c].open /\ epd[c].rest > 0
  /\ Put(c, Listen([Spent(c) EXCEPT !.status = "READ"], "body"), Reading(wk, 1))
  /\ SameScript

\* read_request_body()
LuaReadRequestBody(c) ==
  LET e == Spent(c)
  IN  /\ Calls(c) /\ ~Stopped(c)
      /\ IF e.contents
         THEN Put(c, [e EXCEPT !.contents = FALSE], wk) /\ SameScript
         ELSE IF ~e.open \/ e.rest = 0
         THEN Put(c, e, wk) /\ SameScript
         ELSE /\ Put(c, Listen([e EXCEPT !.status = "READ"], "body"), Reading(wk, 1))
              /\ Leave(e, "body")

\* A call of the coevent library: sleep, a socket, a query.  And its return.
Sleep(c) ==
  /\ Calls(c) /\ ~Stopped(c)
  /\ Put(c, Spent(c), wk)
  /\ Leave(epd[c], "sleep")

Wake(c) ==
  /\ run = NoConn
  /\ epd[c].L # NoThread
  /\ co[epd[c].L] = "sleep"
  /\ Resume(c, epd[c])
  /\ UNCHANGED <<epd, wk>>

\* __end(), the last call of process(); the script then returns.
End(c) ==
  /\ run = c /\ epd[c].status = "PROCESS"
  /\ BeEnd(c, epd[c], wk)
  /\ Leave(epd[c], "idle")

\* An error process() does not catch.  worker_process answers it when it is
\* raised before the script first yields; later callers of the resume do not
\* look at the result.
Throw(c) ==
  /\ run = c /\ epd[c].status = "PROCESS"
  /\ "throw" \in Moves
  /\ IF co[epd[c].L] = "started"
     THEN SendError(c, epd[c], wk, TRUE)
     ELSE UNCHANGED <<epd, wk>>
  /\ Leave(epd[c], "dead")

-----------------------------------------------------------------------------
BeginExit == /\ "exit" \in Moves
             /\ ~exiting
             /\ exiting' = TRUE
             /\ UNCHANGED <<epd, wk, co, run>>

Init ==
  /\ epd = [c \in Conns |-> Freed]
  /\ wk = [reading |-> 0, sending |-> 0, active |-> 0, pool |-> InitPool,
           made |-> {InitPool[i] : i \in 1..Len(InitPool)}]
  /\ co = [t \in Threads |-> "idle"]
  /\ run = NoConn
  /\ exiting = FALSE

Network(c) ==
  \/ SslAccept(c) \/ ReadSome(c) \/ ReadEnd(c) \/ ReadRefused(c) \/ ReadRequest(c)
  \/ ReadOnProcessing(c) \/ ReadOnClear(c) \/ ReadRequestBody(c)
  \/ WriteDone(c) \/ WriteFail(c) \/ WriteNothing(c)

Script(c) ==
  \/ Header(c) \/ Echo(c) \/ EchoMore(c) \/ Flush(c) \/ SendFile(c)
  \/ LuaReadRequestBody(c) \/ Sleep(c) \/ End(c) \/ Throw(c)

Serve(c) == Accept(c) \/ Network(c) \/ TimeoutHandle(c) \/ Script(c) \/ Wake(c)

Next == (\E c \in Conns : Serve(c) /\ UNCHANGED exiting) \/ BeginExit

Spec == Init /\ [][Next]_vars

\* A script makes finitely many calls and each coevent call returns; a timer
\* that is armed expires unless its connection moves on.
Fairness == \A c \in Conns : /\ WF_vars(Script(c) /\ UNCHANGED exiting)
                             /\ WF_vars(Wake(c) /\ UNCHANGED exiting)
                             /\ WF_vars(TimeoutHandle(c) /\ UNCHANGED exiting)

FairSpec == Spec /\ Fairness

-----------------------------------------------------------------------------
(* Properties. *)

TypeOK ==
  /\ epd \in [Conns -> Epdata]
  /\ wk \in Worker
  /\ co \in [Threads -> CoState]
  /\ run \in Conns \cup {NoConn}
  /\ exiting \in BOOLEAN

In(status) == {c \in Conns : epd[c].status = status}
OpenConns  == {c \in Conns : epd[c].open}
PoolThreads == {wk.pool[i] : i \in 1..Len(wk.pool)}
Owned       == {epd[c].L : c \in Conns} \ {NoThread}

\* The "Writing" gauge is the number of connections in STEP_SEND, through every
\* flush, error, timeout and early end (network.c, worker.c:152-155).
SendingIsCounted == wk.sending = Cardinality(In("SEND"))

\* The "Reading" gauge is the number of connections in STEP_READ.  It is, unless
\* a request is refused while its header is read.
ReadingIsCounted == wk.reading = Cardinality(In("READ"))

\* "Active connections" is the number of open client sockets.  It is, unless a
\* client stops in the middle of a body the script waits for.
ActiveIsCounted == wk.active = Cardinality(OpenConns)

\* Whatever happens, the reading gauge is never too small and the active gauge
\* never too large.
GaugesDriftOneWay == /\ wk.reading >= Cardinality(In("READ"))
                     /\ wk.active =< Cardinality(OpenConns)

\* A Lua thread that was made is in the pool once, or belongs to one connection:
\* no close, error or timeout loses a thread, releases it twice or shares it
\* (worker.c:110-117, lua-threads.c:97-162).
ThreadsConserved ==
  /\ \A i, j \in 1..Len(wk.pool) : wk.pool[i] = wk.pool[j] => i = j
  /\ \A c, d \in Conns : epd[c].L = epd[d].L /\ epd[c].L # NoThread => c = d
  /\ PoolThreads \cap Owned = {}
  /\ wk.made = PoolThreads \cup Owned

\* The callbacks that may be registered in a state of the connection; a free
\* slot has neither socket nor thread.
Fits(e) ==
  /\ e.fn # "none" => e.open
  /\ e.status = "READ" => e.fn \in {"read", "clear", "body"}
  /\ e.fn \in {"clear", "body"} => e.status = "READ"
  /\ e.fn = "read" => e.status \in {"WAIT", "READ"}
  /\ e.fn = "ssl" => e.status = "WAIT"
  /\ e.fn = "processing" => e.status = "PROCESS" /\ e.rest = 0
  /\ e.open /\ e.status = "SEND" => e.fn = "write"
  /\ e.open /\ e.status = "WAIT" => e.fn \in {"read", "ssl"}
  /\ e.status = "FREE" => ~e.open /\ e.L = NoThread

\* The callback a connection waits with is one that its status can handle: a
\* connection being sent to waits to write, one being read waits for the part of
\* the request it is at, and a closed one for nothing (network.c:698-702,
\* lua-ext.c:755-764).
CallbackFits == \A c \in Conns : Fits(epd[c])

\* At most one script executes, for the connection the worker has resumed, and
\* that connection is in STEP_PROCESS.
OneScript ==
  /\ \A t \in Threads : co[t] \in {"started", "running"} =>
       run # NoConn /\ epd[run].L = t /\ epd[run].status = "PROCESS"
  /\ run # NoConn /\ epd[run].status = "PROCESS" =>
       epd[run].L # NoThread /\ co[epd[run].L] \in {"started", "running"}

\* A request in STEP_PROCESS has a script that will go on: nothing else ends it,
\* its timer only gives it more time (worker.c:157-161).
ProcessHasScript ==
  \A c \in Conns : epd[c].status = "PROCESS" /\ run # c =>
    epd[c].L # NoThread /\ co[epd[c].L] = "sleep"

\* A thread in the pool has finished its script: close_client never gives back a
\* thread that is at work (worker.c:110-117, "at working!!!").
PoolThreadsIdle == \A t \in PoolThreads : co[t] = "idle"

\* A suspended script belongs to a connection that is doing what it waits for.
SuspendedIsServed ==
  \A t \in Threads : co[t] \in {"flush", "body"} =>
    \E c \in Conns : /\ epd[c].L = t
                     /\ epd[c].status = (IF co[t] = "flush" THEN "SEND" ELSE "READ")

\* The worker runs code of a connection only while that connection is in
\* STEP_PROCESS: network_be_write always has something to write
\* (network.c:1282-1285, "writev error!").
WorkerNotStuck == run # NoConn => epd[run].status = "PROCESS"

\* Every request that is started comes to an end: its connection waits for the
\* next one or is closed.
Served == \A c \in Conns :
  epd[c].status = "PROCESS" ~> epd[c].status \in {"WAIT", "FREE"}

\* A connection whose client is gone is closed, whatever its script was doing.
GoneIsFreed == \A c \in Conns :
  epd[c].status # "FREE" /\ ~epd[c].open ~> epd[c].status = "FREE"

=============================================================================
