----------------------------- MODULE Websocket ------------------------------
(***************************************************************************)
(* websocket.c, and websocket_accept of core.lua: one connection from the  *)
(* request that upgrades it until it is closed.                            *)
(*                                                                         *)
(* Two coroutines belong to it.  The main one, epd->L, called              *)
(* websocket_accept and may go on after that; the handler of messages runs *)
(* on it too, called from C, where it cannot yield.  The watcher repeats   *)
(* loop() and check_websocket_close().  Each of their turns below makes    *)
(* one call and then waits, so that anything may happen between two calls. *)
(* Connections share only the gauges; one is enough.                       *)
(*                                                                         *)
(* A frame of the client is two pieces, its header and the rest, that may  *)
(* arrive together, apart, and together with pieces of others.  The rest   *)
(* of a long one, of 64 KiB or more, comes in many and is one piece here.  *)
(*                                                                         *)
(* Left out: an upgrade before the body of the request is read, or after   *)
(* the script echoed something, malloc failing, headers split below their  *)
(* length, frames of 4 GiB or more, and what a frame for the client looks  *)
(* like.  A use of freed memory ends the behaviour (stale).                *)
(***************************************************************************)
EXTENDS Integers, Sequences

CONSTANTS
  MaxFrames,  \* frames of the client before it sends "close" or leaves (bound)
  MaxOps,     \* calls of the main coroutine after websocket_accept (bound)
  MaxDrift    \* how far a gauge may drift from what it counts (bound)

ASSUME BoundsAssumption == {MaxFrames, MaxOps, MaxDrift} \subseteq Nat

VARIABLES
  ws,       \* the epdata_t and its websocket_pt
  wk,       \* the gauges of serv_status
  again,    \* websocket_be_read is in its loop although it is not registered now
  main, watcher,  \* the coroutines
  ops,      \* calls the main coroutine may still make
  long,     \* the frames of the client that are long; never changes
  net,      \* pieces of frames the worker has not received
  client,   \* "on", "closing" after a close frame, "gone"
  sent,     \* pieces sent so far
  given,    \* auxiliary: the messages given to the handler
  exiting,  \* check_process_for_exit()
  stale     \* freed memory was used

coroutines == <<main, watcher, ops>>
peer       == <<long, net, client, sent>>
vars       == <<ws, wk, again, coroutines, peer, given, exiting, stale>>

\* life is "http" before the upgrade, "closed" by the watcher, "cut" by
\* close_client.  mixed and burst are auxiliary: a send began with a frame half
\* read, or pieces were received during one; a recv went past the end of a frame.
Upgrading == [life |-> "http", status |-> "PROCESS", fn |-> "processing",
              open |-> TRUE, timer |-> TRUE, busy |-> FALSE, ended |-> FALSE,
              length |-> -1, buf |-> <<>>, mixed |-> FALSE, burst |-> FALSE]

Reading(k, n) == [k EXCEPT !.reading = @ + n]
Sending(k, n) == [k EXCEPT !.sending = @ + n]
Active(k, n)  == [k EXCEPT !.active = @ + n]

Close     == [frame |-> 0, part |-> "head"]
Pieces(i) == <<[frame |-> i, part |-> "head"], [frame |-> i, part |-> "rest"]>>

\* A coroutine suspended in websocket_send until all is written, or by a send that
\* took one byte (r == 1) and that nothing will resume.
Suspended == {"sending", "short"}

Live    == ~ stale
Loop(f) == Live /\ ~ again /\ ws.open /\ ws.fn = f

\* What the main coroutine and the watcher, who is alive, touch.
Freed == ws.life \in {"closed", "cut"}

-----------------------------------------------------------------------------
(* Functions that several handlers call. *)

\* close_client: the thread of the connection is given back, all is freed.
CloseClient(e, k) ==
  /\ ws' = [e EXCEPT !.life = "cut", !.status = "WAIT", !.fn = "none",
                    !.open = FALSE, !.timer = FALSE]
  /\ wk' = Active(k, IF e.open THEN -1 ELSE 0)

\* websocket_send and ws_send_data: nothing when the socket is ended, busy or
\* broken; a short frame is sent at once; the payload of a long one is left to
\* websocket_be_write.  who is what becomes of the caller.
Send(e, k) ==
  LET same == [e |-> e, k |-> k, who |-> "on"]
  IN  {same} \cup
      IF e.ended \/ e.busy \/ ~ e.open THEN {}
      ELSE {[same EXCEPT !.who = "short"],
            [e   |-> [e EXCEPT !.busy = TRUE, !.status = "SEND", !.fn = "write",
                               !.mixed = @ \/ e.status # "WAIT"],
             k   |-> Sending(k, 1),
             who |-> "sending"]}

\* die(): in a websocket only a mark for the watcher.
Die(e, k) == {[e |-> [e EXCEPT !.ended = TRUE], k |-> k, who |-> "on"]}

\* What a script may do in a call, or the handler with a message.
Calls(e, k) == {r \in Send(e, k) \cup Die(e, k) : r.k.sending <= MaxDrift}

-----------------------------------------------------------------------------
(* The upgrade. *)

\* network_be_read_on_processing, before the script has upgraded: the timer is
\* left as it is.
LeaveEarly ==
  /\ Loop("processing")
  /\ client = "gone"
  /\ ws' = [ws EXCEPT !.open = FALSE, !.fn = "none"]
  /\ wk' = Active(wk, -1)
  /\ UNCHANGED <<again, coroutines, peer, given, exiting, stale>>

\* websocket_accept: network_be_end sends the header and makes the connection wait
\* for frames, unless the worker exits: then it is freed before the upgrade is done.
Upgrade ==
  /\ Live /\ ws.life = "http"
  /\ IF exiting
     THEN CloseClient(ws, wk) /\ stale' = TRUE /\ UNCHANGED coroutines
     ELSE /\ ws' = [ws EXCEPT !.life = "ws", !.status = "WAIT",
                              !.fn = IF ws.open THEN "read" ELSE "none"]
          /\ main' = "on" /\ watcher' = "loop"
          /\ UNCHANGED <<wk, ops, stale>>
  /\ UNCHANGED <<again, peer, given, exiting>>

-----------------------------------------------------------------------------
(* websocket_be_read. *)

\* Wrong: data_len is not reset.
CompleteKeeping(e, k) ==
  [e |-> [e EXCEPT !.status = "WAIT", !.length = -1], k |-> Reading(k, -1)]

\* A frame is complete: what came after it is dropped.
Complete(e, k) ==
  [e |-> [e EXCEPT !.status = "WAIT", !.buf = <<>>, !.length = -1],
   k |-> Reading(k, -1)]

\* n pieces are received, behind those of a frame half read.  When the status is
\* not STEP_READ data_len starts again, although recv wrote behind it.
Received(n) ==
  LET more == ws.buf \o SubSeq(net, 1, n)
  IN  IF ws.status = "READ"
      THEN [e |-> [ws EXCEPT !.buf = more], k |-> wk]
      ELSE [e |-> [ws EXCEPT !.status = "READ", !.buf = SubSeq(more, 1, n)],
            k |-> Reading(wk, 1)]

\* More pieces than ever come.
Far == 2 * MaxFrames + 2

\* The lengths the first bytes tell: garbage unless they are a header.  The 8 bytes
\* of a long one stay in network order and become an int: 0, below 4 GiB, so that
\* the header alone is a frame.
Lengths(e) ==
  IF e.length # -1 THEN {e.length}
  ELSE IF e.buf[1].part = "rest" THEN 1..Far
  ELSE IF e.buf[1].frame \in long THEN {1} ELSE {2}

\* A close frame, or something that looks like one.
SaysClose(e) ==
  IF e.length # -1 THEN {FALSE}
  ELSE IF e.buf[1].part = "head" THEN {e.buf[1] = Close} ELSE BOOLEAN

\* One turn of the loop of websocket_be_read, with the handler if a frame is
\* complete.  The handler may start a send, and the loop goes on all the same.
BeRead ==
  /\ Live /\ ws.open /\ (ws.fn = "read" \/ again)
  /\ \E n \in 1..Len(net) :
       LET got == Received(n)
           e0  == [got.e EXCEPT !.mixed = @ \/ ws.busy,
                                !.burst = @ \/ \E i \in 1..n - 1 : net[i].part = "rest"]
       IN  /\ got.k.reading <= MaxDrift
           /\ net' = SubSeq(net, n + 1, Len(net))
           /\ \E length \in Lengths(e0), close \in SaysClose(e0) :
                LET e    == [e0 EXCEPT !.length = length]
                    full == Complete(e, got.k)
                IN  IF close
                    THEN /\ ws' = [e EXCEPT !.ended = TRUE]
                         /\ wk' = got.k
                         /\ again' = FALSE
                         /\ UNCHANGED given
                    ELSE IF Len(e.buf) < length
                    THEN /\ ws' = e
                         /\ wk' = got.k
                         /\ UNCHANGED <<again, given>>
                    ELSE /\ given' = Append(given, SubSeq(e.buf, 1, length))
                         /\ \E r \in Calls(full.e, full.k) :
                              ws' = r.e /\ wk' = r.k /\ again' = (again \/ r.e.fn = "write")
  /\ UNCHANGED <<coroutines, long, client, sent, exiting, stale>>

\* The loop finds no more.
ReadNoMore ==
  /\ Live /\ again
  /\ again' = FALSE
  /\ UNCHANGED <<ws, wk, coroutines, peer, given, exiting, stale>>

\* The end of the stream, or an error.
ReadEnd ==
  /\ Live /\ ws.open /\ (ws.fn = "read" \/ again)
  /\ client = "gone"
  /\ ws' = [ws EXCEPT !.ended = TRUE]
  /\ again' = FALSE
  /\ UNCHANGED <<wk, coroutines, peer, given, exiting, stale>>

-----------------------------------------------------------------------------
(* websocket_be_write, and network_be_write with the answer to a timeout. *)

\* Wrong: whoever waits is not told of an error.
ResumeOnSuccess(ok) == main' = IF ok /\ main \in Suspended THEN "on" ELSE main

\* It is always the main coroutine that is resumed.
ResumeMain(ok) == main' = IF main \in Suspended THEN "on" ELSE main

\* Wrong: the closed socket stays registered.
WriteFailListening ==
  /\ Loop("write")
  /\ client = "gone"
  /\ ws' = [ws EXCEPT !.open = FALSE, !.timer = FALSE]
  /\ wk' = Active(wk, -1)
  /\ ResumeMain(FALSE)
  /\ UNCHANGED <<again, watcher, ops, peer, given, exiting, stale>>

\* All is written, or an error: then the socket is closed, but not ended.
WriteDone ==
  /\ Loop("write")
  /\ ws' = [ws EXCEPT !.status = "WAIT", !.busy = FALSE, !.fn = "read"]
  /\ wk' = Sending(wk, -1)
  /\ ResumeMain(TRUE)
  /\ UNCHANGED <<again, watcher, ops, peer, given, exiting, stale>>

WriteFail ==
  /\ Loop("write")
  /\ client = "gone"
  /\ ws' = [ws EXCEPT !.open = FALSE, !.timer = FALSE, !.fn = "none"]
  /\ wk' = Active(wk, -1)
  /\ ResumeMain(FALSE)
  /\ UNCHANGED <<again, watcher, ops, peer, given, exiting, stale>>

Answered ==
  /\ Loop("answer")
  /\ CloseClient(ws, Sending(wk, -1))
  /\ UNCHANGED <<again, coroutines, peer, given, exiting, stale>>

\* timeout_handle: half a frame is answered with 400, as a request would be;
\* otherwise the connection is closed.  The timer stays armed if the client left
\* before the upgrade.
TimeoutHandle ==
  /\ Live /\ ~ again /\ ws.timer /\ ws.life = "ws"
  /\ CASE ws.status = "READ" ->
            /\ ws' = [ws EXCEPT !.status = "SEND", !.fn = "answer"]
            /\ wk' = Sending(Reading(wk, -1), 1)
            /\ wk'.sending <= MaxDrift
       [] ws.status = "SEND" -> CloseClient(ws, Sending(wk, -1))
       [] OTHER              -> CloseClient(ws, wk)
  /\ UNCHANGED <<again, coroutines, peer, given, exiting, stale>>

-----------------------------------------------------------------------------
(* The coroutines. *)

\* After websocket_accept the main coroutine goes on for a while, or is done.
MainCall ==
  /\ Live /\ ~ again /\ main = "on" /\ ops > 0
  /\ ops' = ops - 1
  /\ IF Freed
     THEN stale' = TRUE /\ UNCHANGED <<ws, wk, main>>
     ELSE \E r \in Calls(ws, wk) :
            ws' = r.e /\ wk' = r.k /\ main' = r.who /\ UNCHANGED stale
  /\ UNCHANGED <<again, watcher, peer, given, exiting>>

\* __end() finds a status other than STEP_PROCESS and does nothing.  After
\* close_client it looks for the status in freed memory.
MainEnd ==
  /\ Live /\ ~ again /\ main = "on"
  /\ main' = "done"
  /\ stale' = (ws.life = "cut")
  /\ UNCHANGED <<ws, wk, again, watcher, ops, peer, given, exiting>>

\* loop()
WatcherLoop ==
  /\ Live /\ ~ again /\ watcher = "loop"
  /\ IF Freed
     THEN stale' = TRUE /\ UNCHANGED <<ws, wk, watcher>>
     ELSE \E r \in Calls(ws, wk) :
            /\ ws' = r.e /\ wk' = r.k
            /\ watcher' = IF r.who = "on" THEN "check" ELSE r.who
            /\ UNCHANGED stale
  /\ UNCHANGED <<again, main, ops, peer, given, exiting>>

\* Wrong: only a frame half read is counted out.
ReleaseReading(e, k) ==
  Active(Reading(k, IF e.status = "READ" THEN -1 ELSE 0), IF e.open THEN -1 ELSE 0)

\* The gauges when check_websocket_close closes the connection.
ReleaseGauges(e, k) ==
  Active(Sending(Reading(k, IF e.status = "READ" THEN -1 ELSE 0),
                 IF e.status = "SEND" THEN -1 ELSE 0),
         IF e.open THEN -1 ELSE 0)

\* Wrong: nobody looks whether the socket is ended.
CheckExit ==
  /\ Live /\ ~ again /\ watcher = "check"
  /\ IF Freed
     THEN stale' = TRUE /\ UNCHANGED <<ws, wk, watcher>>
     ELSE /\ IF exiting
             THEN /\ ws' = [ws EXCEPT !.life = "closed", !.fn = "none",
                                     !.open = FALSE, !.timer = FALSE]
                  /\ wk' = ReleaseGauges(ws, wk)
                  /\ watcher' = "done"
             ELSE watcher' = "loop" /\ UNCHANGED <<ws, wk>>
          /\ UNCHANGED stale
  /\ UNCHANGED <<again, main, ops, peer, given, exiting>>

\* check_websocket_close: the watcher ends with the connection, or sleeps.
CheckClose ==
  /\ Live /\ ~ again /\ watcher = "check"
  /\ IF Freed
     THEN stale' = TRUE /\ UNCHANGED <<ws, wk, watcher>>
     ELSE /\ IF ws.ended \/ exiting
             THEN /\ ws' = [ws EXCEPT !.life = "closed", !.fn = "none",
                                     !.open = FALSE, !.timer = FALSE]
                  /\ wk' = ReleaseGauges(ws, wk)
                  /\ watcher' = "done"
             ELSE watcher' = "loop" /\ UNCHANGED <<ws, wk>>
          /\ UNCHANGED stale
  /\ UNCHANGED <<again, main, ops, peer, given, exiting>>

-----------------------------------------------------------------------------
(* External: the client, and the end of the worker. *)

ClientSend ==
  /\ Live /\ client = "on" /\ ws.life = "ws"
  /\ \/ /\ sent < 2 * MaxFrames
        /\ net' = Append(net, Pieces((sent \div 2) + 1)[(sent % 2) + 1])
        /\ sent' = sent + 1
        /\ UNCHANGED client
     \/ /\ sent % 2 = 0
        /\ net' = Append(net, Close)
        /\ client' = "closing"
        /\ UNCHANGED sent
  /\ UNCHANGED <<ws, wk, again, coroutines, long, given, exiting, stale>>

ClientLeave ==
  /\ Live /\ client # "gone"
  /\ client' = "gone"
  /\ UNCHANGED <<ws, wk, again, coroutines, long, net, sent, given, exiting, stale>>

BeginExit ==
  /\ Live /\ ~ exiting
  /\ exiting' = TRUE
  /\ UNCHANGED <<ws, wk, again, coroutines, peer, given, stale>>

-----------------------------------------------------------------------------
Init ==
  /\ ws = Upgrading
  /\ wk = [reading |-> 0, sending |-> 0, active |-> 1]
  /\ again = FALSE
  /\ main = "http" /\ watcher = "none" /\ ops = MaxOps
  /\ long \in SUBSET (1..MaxFrames)
  /\ net = <<>> /\ client = "on" /\ sent = 0
  /\ given = <<>>
  /\ exiting = FALSE
  /\ stale = FALSE

Watcher == WatcherLoop \/ CheckClose

Next ==
  \/ LeaveEarly \/ Upgrade
  \/ BeRead \/ ReadNoMore \/ ReadEnd
  \/ WriteDone \/ WriteFail \/ Answered \/ TimeoutHandle
  \/ MainCall \/ MainEnd \/ Watcher
  \/ ClientSend \/ ClientLeave \/ BeginExit

\* The watcher's calls return and its sleeps end; the loop of websocket_be_read
\* ends; and once the client left, its socket is readable and writable.
Fairness ==
  /\ WF_vars(Watcher)
  /\ WF_vars(ReadNoMore)
  /\ WF_vars(ReadEnd)
  /\ WF_vars(client = "gone" /\ (WriteDone \/ WriteFail \/ Answered))

Spec     == Init /\ [][Next]_vars
FairSpec == Spec /\ Fairness

-----------------------------------------------------------------------------
(* Properties. *)

\* What each variable may hold, and the callback a connection may have.
TypeOK ==
  /\ ws.life \in {"http", "ws", "closed", "cut"}
  /\ ws.status \in {"PROCESS", "WAIT", "READ", "SEND"}
  /\ ws.fn \in IF ~ ws.open THEN {"none"}
               ELSE IF ws.life = "http" THEN {"processing"}
               ELSE {"read", "write", "answer"}
  /\ ws.status = "PROCESS" => ws.life = "http"
  /\ ws.open => ws.timer
  /\ Len(ws.buf) <= 2 * MaxFrames + 1 /\ ws.length \in {-1} \cup 1..Far
  /\ main \in {"http", "on", "done"} \cup Suspended
  /\ watcher \in {"none", "loop", "check", "done"} \cup Suspended
  /\ watcher = "done" => ws.life = "closed"
  /\ client \in {"on", "closing", "gone"} /\ long \subseteq 1..MaxFrames
  /\ ops \in 0..MaxOps /\ sent \in 0..2 * MaxFrames
  /\ {again, exiting, stale} \subseteq BOOLEAN

\* Every way to end a websocket counts it out of what it was counted in:
\* websocket_be_write, check_websocket_close and the timer.  Gauges are never too
\* low, and too high only if sending and receiving were mixed.
GaugesFollow ==
  LET reading == IF ws.life = "ws" /\ ws.status = "READ" THEN 1 ELSE 0
      sending == IF ws.life = "ws" /\ ws.status = "SEND" THEN 1 ELSE 0
  IN  /\ wk.active = (IF ws.open THEN 1 ELSE 0)
      /\ wk.reading >= reading /\ wk.sending >= sending
      /\ ~ ws.mixed => wk.reading = reading /\ wk.sending = sending

\* The handler gets the messages of the client whole, each once and in order, up to
\* the first long one, if no frame arrives together with the next, and no long one
\* is sent by the server with one half read (websocket.c:87, 159).  A long one, and
\* what follows it, is broken: its length is never decoded (websocket.c:111).
FramesWhole ==
  ~ ws.mixed /\ ~ ws.burst =>
    \A i \in 1..Len(given) : (\A j \in 1..i : j \notin long) => given[i] = Pieces(i)

\* While the websocket is busy its payload is being written, unless the connection
\* broke; and a main coroutine that sends is resumed when it is written.  After a
\* write error the websocket stays busy (websocket.c:218).
SendGoesOn ==
  ws.life = "ws" /\ ~ ws.mixed =>
    /\ ws.busy => ~ ws.open \/ ws.fn = "write"
    /\ main = "sending" => ws.busy /\ ws.fn = "write"

\* A websocket whose client left is closed, unless its watcher is suspended in a
\* send, which nobody resumes (websocket.c:252), or the socket broke before it was
\* ended.
GoneIsClosed ==
  client = "gone" /\ ws.life = "ws" ~>
    \/ ws.life # "ws" \/ stale
    \/ watcher \in Suspended
    \/ ~ ws.open /\ ~ ws.ended

=============================================================================
