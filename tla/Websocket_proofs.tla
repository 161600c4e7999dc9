-------------------------- MODULE Websocket_proofs --------------------------
(***************************************************************************)
(* Theorems about Websocket: gauges, sends and messages are right for any  *)
(* number of frames and calls.                                             *)
(*                                                                         *)
(* Good(e, k) says that if the socket became e and the gauges k, all would *)
(* be in order.  Each function that handlers call turns a good pair into a *)
(* good one; so does each action.                                          *)
(*                                                                         *)
(* FInv says where the reader is in the stream of the client.  Only BeRead *)
(* and ClientSend move it: any other step is a SameFrame step.             *)
(***************************************************************************)
EXTENDS Websocket, TLAPS

-----------------------------------------------------------------------------
(* The inductive invariant. *)

Piece == [frame : Nat, part : {"head", "rest"}]

Socket == [life : {"http", "ws", "closed", "cut"},
           status : {"PROCESS", "WAIT", "READ", "SEND"},
           fn : {"none", "processing", "read", "write", "answer"},
           open : BOOLEAN, timer : BOOLEAN, busy : BOOLEAN, ended : BOOLEAN,
           length : Int, buf : Seq(Piece), mixed : BOOLEAN, burst : BOOLEAN]

Counts == [reading : Int, sending : Int, active : Int]

\* The callback a connection has, and what it says of the rest.
Callback(e) ==
  /\ e.open <=> e.fn # "none"
  /\ e.life = "http" => e.fn \in {"none", "processing"} /\ e.status = "PROCESS"
                        /\ ~ e.busy /\ ~ e.mixed
  /\ e.fn = "processing" => e.life = "http"
  /\ e.life \in {"closed", "cut"} => ~ e.open /\ ~ e.timer
  /\ e.fn = "read" => ~ e.busy /\ (e.status = "SEND" => e.mixed)
  /\ e.fn = "write" => e.busy /\ (~ e.mixed => e.status = "SEND")
  /\ e.fn = "answer" => e.status = "SEND" /\ (e.busy => e.mixed)
  /\ ~ e.open /\ e.timer => e.status \notin {"READ", "SEND"}

\* The gauges are as GaugesFollow says, and who writes is counted.
Counted(e, k) ==
  LET reading == IF e.life = "ws" /\ e.status = "READ" THEN 1 ELSE 0
      sending == IF e.life = "ws" /\ e.status = "SEND" THEN 1 ELSE 0
  IN  /\ k.active = (IF e.open THEN 1 ELSE 0)
      /\ k.reading >= reading /\ k.sending >= sending
      /\ e.fn = "write" => k.sending >= 1
      /\ ~ e.mixed => k.reading = reading /\ k.sending = sending

Good(e, k) == e \in Socket /\ k \in Counts /\ Callback(e) /\ Counted(e, k)

\* A main coroutine that waits for its payload is the one that will be resumed.
Waits(e, m) ==
  e.life = "ws" /\ ~ e.mixed /\ m = "sending" => e.busy /\ e.fn = "write"

IInv ==
  /\ Good(ws, wk)
  /\ Waits(ws, main)
  /\ again \in BOOLEAN /\ (again => ws.fn = "write")
  /\ ws.life = "http" => main = "http" /\ watcher = "none"
  /\ net \in Seq(Piece) /\ sent \in Nat

-----------------------------------------------------------------------------
(* What the functions that handlers call do. *)

\* Each counter changes its own gauge.
LEMMA Counters ==
  ASSUME NEW k \in Counts, NEW n \in Int
  PROVE  /\ Reading(k, n) \in Counts /\ Reading(k, n).reading = k.reading + n
         /\ Reading(k, n).sending = k.sending /\ Reading(k, n).active = k.active
         /\ Sending(k, n) \in Counts /\ Sending(k, n).sending = k.sending + n
         /\ Sending(k, n).reading = k.reading /\ Sending(k, n).active = k.active
         /\ Active(k, n) \in Counts /\ Active(k, n).active = k.active + n
         /\ Active(k, n).reading = k.reading /\ Active(k, n).sending = k.sending
  BY DEF Counts, Reading, Sending, Active

\* A connection that is gone and counted out is in order.
LEMMA EndedGood ==
  ASSUME NEW e \in Socket, NEW k \in Counts,
         e.life \in {"closed", "cut"}, e.fn = "none", ~ e.open, ~ e.timer,
         k.active = 0, k.reading >= 0, k.sending >= 0,
         ~ e.mixed => k.reading = 0 /\ k.sending = 0
  PROVE  Good(e, k)
<1>1. Callback(e)
  BY DEF Callback
<1>2. Counted(e, k)
  BY DEF Counted
<1> QED  BY <1>1, <1>2 DEF Good

\* close_client takes the connection out of the gauge of open sockets, and out of
\* the others if its caller did.
LEMMA CloseClientGood ==
  ASSUME NEW e \in Socket, NEW k \in Counts,
         k.active = (IF e.open THEN 1 ELSE 0),
         k.reading >= 0, k.sending >= 0,
         ~ e.mixed => k.reading = 0 /\ k.sending = 0,
         CloseClient(e, k)
  PROVE  Good(ws', wk') /\ ws'.life = "cut" /\ ws'.fn = "none"
<1>1. /\ ws' \in Socket /\ ws'.life = "cut" /\ ws'.fn = "none"
      /\ ~ ws'.open /\ ~ ws'.timer /\ (~ ws'.mixed => ~ e.mixed)
  BY DEF CloseClient, Socket
<1>2. CASE e.open
  <2>1. wk' = Active(k, -1)
    BY <1>2 DEF CloseClient
  <2>2. wk' \in Counts /\ wk'.active = k.active + -1
        /\ wk'.reading = k.reading /\ wk'.sending = k.sending
    <3>1. -1 \in Int
      OBVIOUS
    <3> QED  BY <2>1, <3>1, Counters
  <2>3. wk'.active = 0
    BY <1>2, <2>2
  <2>4. ~ ws'.mixed => wk'.reading = 0 /\ wk'.sending = 0
    BY <1>1, <2>2
  <2>5. wk'.reading >= 0 /\ wk'.sending >= 0
    BY <2>2
  <2> HIDE DEF CloseClient
  <2> QED  BY <1>1, <2>2, <2>3, <2>4, <2>5, EndedGood
<1>3. CASE ~ e.open
  <2>1. wk' = Active(k, 0)
    BY <1>3 DEF CloseClient
  <2>2. wk' \in Counts /\ wk'.active = k.active + 0
        /\ wk'.reading = k.reading /\ wk'.sending = k.sending
    <3>1. 0 \in Int
      OBVIOUS
    <3> QED  BY <2>1, <3>1, Counters
  <2>3. wk'.active = 0
    BY <1>3, <2>2
  <2>4. ~ ws'.mixed => wk'.reading = 0 /\ wk'.sending = 0
    BY <1>1, <2>2
  <2>5. wk'.reading >= 0 /\ wk'.sending >= 0
    BY <2>2
  <2> HIDE DEF CloseClient
  <2> QED  BY <1>1, <2>2, <2>3, <2>4, <2>5, EndedGood
<1> QED  BY <1>2, <1>3

\* What Good says of the gauges of a websocket.
LEMMA GaugeFacts ==
  ASSUME NEW e, NEW k, Good(e, k), e.life = "ws"
  PROVE  /\ e \in Socket /\ k \in Counts /\ Callback(e)
         /\ k.active \in Int /\ k.reading \in Int /\ k.sending \in Int
         /\ k.active = (IF e.open THEN 1 ELSE 0)
         /\ k.reading >= 0 /\ k.sending >= 0
         /\ e.status = "READ" => k.reading >= 1
         /\ e.status = "SEND" \/ e.fn = "write" => k.sending >= 1
         /\ ~ e.mixed => /\ k.reading = (IF e.status = "READ" THEN 1 ELSE 0)
                         /\ k.sending = (IF e.status = "SEND" THEN 1 ELSE 0)
  BY DEF Good, Counted, Counts

\* A send or a die leaves a good pair; it starts a payload, or leaves the callback
\* alone; and who suspends for its payload has started one.
LEMMA CallsGood ==
  ASSUME NEW e, NEW k, Good(e, k), e.life = "ws",
         NEW r \in Calls(e, k)
  PROVE  /\ Good(r.e, r.k)
         /\ r.e.life = "ws"
         /\ \/ r.e.fn = e.fn /\ r.e.busy = e.busy /\ r.e.mixed = e.mixed
               /\ r.who \in {"on", "short"}
            \/ ~ e.busy /\ r.e.busy /\ r.e.fn = "write" /\ r.who = "sending"
<1>0. /\ e \in Socket /\ k \in Counts /\ Callback(e) /\ 1 \in Int
      /\ k.active \in Int /\ k.reading \in Int /\ k.sending \in Int
      /\ k.active = (IF e.open THEN 1 ELSE 0)
      /\ k.reading >= 0 /\ k.sending >= 0
      /\ ~ e.mixed /\ e.status = "WAIT" => k.reading = 0 /\ k.sending = 0
  BY GaugeFacts
<1>1. CASE r \in Die(e, k)
  <2>1. r.e = [e EXCEPT !.ended = TRUE] /\ r.k = k /\ r.who = "on"
    BY <1>1 DEF Die
  <2>2. /\ r.e \in Socket /\ r.e.life = e.life /\ r.e.status = e.status
        /\ r.e.fn = e.fn /\ r.e.open = e.open /\ r.e.timer = e.timer
        /\ r.e.busy = e.busy /\ r.e.mixed = e.mixed
    BY <1>0, <2>1 DEF Socket
  <2>3. Callback(r.e)
    BY <1>0, <2>2, Zenon DEF Callback
  <2>4. Counted(r.e, k)
    BY <1>0, <2>2 DEF Counted, Good
  <2> QED  BY <2>1, <2>2, <2>3, <2>4 DEF Good
<1>2. CASE r \in Send(e, k)
  <2>1. CASE r.e = e /\ r.k = k /\ r.who \in {"on", "short"}
    BY <2>1
  <2>2. CASE /\ ~ e.ended /\ ~ e.busy /\ e.open
             /\ r.e = [e EXCEPT !.busy = TRUE, !.status = "SEND", !.fn = "write",
                                !.mixed = @ \/ e.status # "WAIT"]
             /\ r.k = Sending(k, 1) /\ r.who = "sending"
    <3>1. /\ r.e \in Socket /\ r.e.life = "ws" /\ r.e.status = "SEND"
          /\ r.e.fn = "write" /\ r.e.open = e.open /\ r.e.busy = TRUE
          /\ r.e.mixed = (e.mixed \/ e.status # "WAIT")
      BY <1>0, <2>2 DEF Socket
    <3>2. /\ r.k \in Counts /\ r.k.sending = k.sending + 1
          /\ r.k.reading = k.reading /\ r.k.active = k.active
      <4>1. /\ Sending(k, 1) \in Counts /\ Sending(k, 1).sending = k.sending + 1
            /\ Sending(k, 1).reading = k.reading /\ Sending(k, 1).active = k.active
        BY <1>0, Counters
      <4> QED  BY <2>2, <4>1
    <3>3. Callback(r.e)
      BY <1>0, <2>2, <3>1 DEF Callback
    <3>4. Counted(r.e, r.k)
      <4>1. ~ r.e.mixed => ~ e.mixed /\ e.status = "WAIT"
        BY <3>1
      <4>2. r.k.active = (IF r.e.open THEN 1 ELSE 0)
        BY <1>0, <3>1, <3>2
      <4>3. r.k.reading >= 0 /\ r.k.sending >= 1
        BY <1>0, <3>2
      <4>4. ~ r.e.mixed => r.k.reading = 0 /\ r.k.sending = 1
        BY <1>0, <3>2, <4>1
      <4> QED  BY <3>1, <4>2, <4>3, <4>4 DEF Counted
    <3> QED  BY <2>2, <3>1, <3>2, <3>3, <3>4 DEF Good
  <2> QED  BY <1>2, <2>1, <2>2 DEF Send
<1> QED  BY <1>1, <1>2 DEF Calls

\* Pieces arrive: the reading gauge counts a frame from its first piece on.
LEMMA ReceivedGood ==
  ASSUME Good(ws, wk), ws.life = "ws", net \in Seq(Piece),
         NEW n \in 1..Len(net)
  PROVE  LET got == Received(n)
         IN  /\ got.e \in Socket /\ got.k \in Counts
             /\ got.e.status = "READ" /\ got.e.life = "ws"
             /\ got.e.fn = ws.fn /\ got.e.busy = ws.busy /\ got.e.open = ws.open
             /\ got.e.mixed = ws.mixed /\ got.e.timer = ws.timer
             /\ got.k.active = wk.active
             /\ got.k.reading >= 1
             /\ got.k.sending = wk.sending
             /\ ~ ws.mixed => got.k.reading = 1
<1> DEFINE more == ws.buf \o SubSeq(net, 1, n)
<1>1. SubSeq(net, 1, n) \in Seq(Piece) /\ Len(SubSeq(net, 1, n)) = n
  OBVIOUS
<1>2. ws.buf \in Seq(Piece)
  BY DEF Good, Socket
<1>3. more \in Seq(Piece) /\ Len(more) = Len(ws.buf) + n
  BY <1>1, <1>2
<1>4. SubSeq(more, 1, n) \in Seq(Piece)
  BY <1>2, <1>3
<1> HIDE DEF more
<1>5. ws \in Socket /\ wk \in Counts
  BY DEF Good
<1>6. CASE ws.status = "READ"
  <2> DEFINE e == [ws EXCEPT !.buf = more]
  <2>1. Received(n) = [e |-> e, k |-> wk]
    BY <1>6 DEF more, Received
  <2>2. /\ e \in Socket /\ e.status = "READ" /\ e.life = ws.life /\ e.fn = ws.fn
        /\ e.busy = ws.busy /\ e.open = ws.open /\ e.mixed = ws.mixed
        /\ e.timer = ws.timer
    BY <1>3, <1>5, <1>6 DEF Socket
  <2>3. wk.reading >= 1 /\ (~ ws.mixed => wk.reading = 1)
    BY <1>6, GaugeFacts
  <2> HIDE DEF e
  <2> QED  BY <1>5, <2>1, <2>2, <2>3
<1>7. CASE ws.status # "READ"
  <2> DEFINE e == [ws EXCEPT !.status = "READ", !.buf = SubSeq(more, 1, n)]
             k == Reading(wk, 1)
  <2>1. Received(n) = [e |-> e, k |-> k]
    BY <1>7 DEF more, Received
  <2>2. /\ e \in Socket /\ e.status = "READ" /\ e.life = ws.life /\ e.fn = ws.fn
        /\ e.busy = ws.busy /\ e.open = ws.open /\ e.mixed = ws.mixed
        /\ e.timer = ws.timer
    BY <1>4, <1>5 DEF Socket
  <2>3. /\ k \in Counts /\ k.reading = wk.reading + 1
        /\ k.sending = wk.sending /\ k.active = wk.active
    <3>1. 1 \in Int
      OBVIOUS
    <3> QED  BY <1>5, <3>1, Counters
  <2>4. wk.reading \in Int /\ wk.reading >= 0 /\ (~ ws.mixed => wk.reading = 0)
    BY <1>7, GaugeFacts
  <2> HIDE DEF e, k
  <2>5. k.reading >= 1 /\ (~ ws.mixed => k.reading = 1)
    BY <2>3, <2>4
  <2> QED  BY <2>1, <2>2, <2>3, <2>5
<1> QED  BY <1>6, <1>7

-----------------------------------------------------------------------------
(* Each action keeps the invariant. *)

\* Only a websocket reads.
LEMMA ReaderFacts ==
  ASSUME IInv, ws.open, ws.fn = "read" \/ again
  PROVE  /\ ws.life = "ws" /\ ws.fn \in {"read", "write"}
         /\ ws.fn = "read" => ~ ws.busy /\ (ws.status = "SEND" => ws.mixed)
         /\ ws.fn = "write" => ws.busy
<1>1. Callback(ws) /\ (again => ws.fn = "write") /\ ws \in Socket
  BY DEF IInv, Good
<1>2. ws.fn \in {"read", "write"}
  BY <1>1
<1>3. ws.life = "ws"
  BY <1>1, <1>2 DEF Callback, Socket
<1> QED  BY <1>1, <1>2, <1>3 DEF Callback

\* The socket with n more pieces, before its frame is looked at.
LEMMA BeReadGood ==
  ASSUME IInv, ws.open, ws.fn = "read" \/ again, NEW n \in 1..Len(net),
         NEW burst \in BOOLEAN, NEW length \in Int
  PROVE  LET got == Received(n)
             e   == [[got.e EXCEPT !.mixed = @ \/ ws.busy, !.burst = burst]
                       EXCEPT !.length = length]
         IN  /\ Good(e, got.k) /\ e.status = "READ" /\ e.life = "ws"
             /\ e.fn = ws.fn /\ e.busy = ws.busy
             /\ ~ e.mixed => ~ ws.mixed /\ ~ ws.busy
<1> DEFINE got == Received(n)
           x   == got.e
           k   == got.k
           e   == [[x EXCEPT !.mixed = @ \/ ws.busy, !.burst = burst]
                     EXCEPT !.length = length]
<1>1. Good(ws, wk) /\ net \in Seq(Piece)
  BY DEF IInv
<1>2. /\ ws.life = "ws" /\ ws.fn \in {"read", "write"}
      /\ ws.fn = "read" => ~ ws.busy /\ (ws.status = "SEND" => ws.mixed)
      /\ ws.fn = "write" => ws.busy
  BY ReaderFacts
<1>3. /\ x \in Socket /\ k \in Counts /\ x.status = "READ" /\ x.life = "ws"
      /\ x.fn = ws.fn /\ x.busy = ws.busy /\ x.open = ws.open
      /\ x.mixed = ws.mixed /\ x.timer = ws.timer
      /\ k.active = wk.active /\ k.reading >= 1 /\ k.sending = wk.sending
      /\ ~ ws.mixed => k.reading = 1
  BY <1>1, <1>2, ReceivedGood
<1>4. /\ wk.active = 1 /\ wk.sending \in Int /\ wk.sending >= 0
      /\ ws.fn = "write" => wk.sending >= 1
      /\ ~ ws.mixed /\ ws.status # "SEND" => wk.sending = 0
  BY <1>1, <1>2, GaugeFacts
<1> HIDE DEF got, x, k
<1>5. /\ e \in Socket /\ e.status = "READ" /\ e.life = "ws" /\ e.fn = ws.fn
      /\ e.busy = ws.busy /\ e.open
      /\ e.mixed = (ws.mixed \/ ws.busy)
  <2>1. ws.busy \in BOOLEAN
    BY <1>1 DEF Good, Socket
  <2> QED  BY <1>3, <2>1 DEF Socket
<1> HIDE DEF e
<1>6. ~ e.mixed => ~ ws.mixed /\ ~ ws.busy
  BY <1>5
<1>7. Callback(e)
  BY <1>2, <1>5 DEF Callback
<1>8. Counted(e, k)
  <2>1. ~ e.mixed => k.reading = 1 /\ k.sending = 0
    BY <1>2, <1>3, <1>4, <1>6
  <2>2. k.active = 1 /\ k.reading >= 1 /\ k.sending >= 0
        /\ (e.fn = "write" => k.sending >= 1)
    BY <1>3, <1>4, <1>5
  <2> QED  BY <1>5, <2>1, <2>2 DEF Counted
<1>9. Good(e, k)
  BY <1>3, <1>5, <1>7, <1>8 DEF Good
<1> QED  BY <1>5, <1>6, <1>9 DEF e, x, k, got

\* A complete frame is counted out.
LEMMA CompleteGood ==
  ASSUME NEW e, NEW k, Good(e, k), e.life = "ws", e.status = "READ", e.fn # "answer"
  PROVE  LET full == Complete(e, k)
         IN  /\ Good(full.e, full.k) /\ full.e.life = "ws"
             /\ full.e.fn = e.fn /\ full.e.busy = e.busy /\ full.e.mixed = e.mixed
<1> DEFINE x == [e EXCEPT !.status = "WAIT", !.buf = <<>>, !.length = -1]
           q == Reading(k, -1)
<1>1. Complete(e, k) = [e |-> x, k |-> q]
  BY DEF Complete
<1>2. /\ e \in Socket /\ k \in Counts /\ Callback(e)
      /\ k.active \in Int /\ k.reading \in Int /\ k.sending \in Int
      /\ k.active = (IF e.open THEN 1 ELSE 0)
      /\ k.reading >= 1 /\ k.sending >= 0
      /\ e.fn = "write" => k.sending >= 1
      /\ ~ e.mixed => k.reading = 1 /\ k.sending = 0
  BY GaugeFacts
<1>3. /\ q \in Counts /\ q.reading = k.reading + -1
      /\ q.sending = k.sending /\ q.active = k.active
  <2>1. -1 \in Int
    OBVIOUS
  <2> QED  BY <1>2, <2>1, Counters
<1>4. /\ x \in Socket /\ x.status = "WAIT" /\ x.life = "ws" /\ x.fn = e.fn
      /\ x.busy = e.busy /\ x.open = e.open /\ x.mixed = e.mixed
  <2>1. <<>> \in Seq(Piece) /\ -1 \in Int
    OBVIOUS
  <2> QED  BY <1>2, <2>1 DEF Socket
<1> HIDE DEF x, q
<1>5. Callback(x)
  <2>1. e.fn = "write" => e.mixed
    BY <1>2 DEF Callback
  <2> QED  BY <1>2, <1>4, <2>1 DEF Callback
<1>6. Counted(x, q)
  <2>1. q.reading >= 0 /\ q.sending >= 0 /\ (x.fn = "write" => q.sending >= 1)
    BY <1>2, <1>3, <1>4
  <2>2. ~ x.mixed => q.reading = 0 /\ q.sending = 0
    BY <1>2, <1>3, <1>4
  <2>3. q.active = (IF x.open THEN 1 ELSE 0)
    BY <1>2, <1>3, <1>4
  <2> QED  BY <1>4, <2>1, <2>2, <2>3 DEF Counted
<1> QED  BY <1>1, <1>3, <1>4, <1>5, <1>6 DEF Good

LEMMA BeReadKeeps ==
  ASSUME IInv, BeRead
  PROVE  IInv'
<1>1. PICK n \in 1..Len(net) :
        LET got == Received(n)
            e0  == [got.e EXCEPT !.mixed = @ \/ ws.busy,
                                 !.burst = @ \/ \E i \in 1..n - 1 : net[i].part = "rest"]
        IN  /\ got.k.reading <= MaxDrift
            /\ net' = SubSeq(net, n + 1, Len(net))
            /\ \E length \in Lengths(e0), close \in SaysClose(e0) :
                 LET e    == [e0 EXCEPT !.length = length]
                     full == Complete(e, got.k)
                 IN  IF close
                     THEN /\ ws' = [e EXCEPT !.ended = TRUE]
                          /\ wk' = got.k
                          /\ again' = FALSE
                          /\ UNCHANGED given
                     ELSE IF Len(e.buf) < length
                     THEN /\ ws' = e
                          /\ wk' = got.k
                          /\ UNCHANGED <<again, given>>
                     ELSE /\ given' = Append(given, SubSeq(e.buf, 1, length))
                          /\ \E r \in Calls(full.e, full.k) :
                               ws' = r.e /\ wk' = r.k
                                 /\ again' = (again \/ r.e.fn = "write")
  BY DEF BeRead
<1> DEFINE got == Received(n)
           burst == got.e.burst \/ \E i \in 1..n - 1 : net[i].part = "rest"
           e0  == [got.e EXCEPT !.mixed = @ \/ ws.busy,
                                !.burst = @ \/ \E i \in 1..n - 1 : net[i].part = "rest"]
<1>2. PICK length \in Lengths(e0), close \in SaysClose(e0) :
        LET e    == [e0 EXCEPT !.length = length]
            full == Complete(e, got.k)
        IN  IF close
            THEN /\ ws' = [e EXCEPT !.ended = TRUE]
                 /\ wk' = got.k
                 /\ again' = FALSE
                 /\ UNCHANGED given
            ELSE IF Len(e.buf) < length
            THEN /\ ws' = e
                 /\ wk' = got.k
                 /\ UNCHANGED <<again, given>>
            ELSE /\ given' = Append(given, SubSeq(e.buf, 1, length))
                 /\ \E r \in Calls(full.e, full.k) :
                      ws' = r.e /\ wk' = r.k /\ again' = (again \/ r.e.fn = "write")
  BY <1>1
<1> DEFINE e    == [e0 EXCEPT !.length = length]
           k    == got.k
           full == Complete(e, k)
<1>3. /\ ws.open /\ (ws.fn = "read" \/ again)
      /\ UNCHANGED <<main, watcher, sent>>
  BY DEF BeRead, coroutines
<1>4. length \in Int
  <2>1. ws.life = "ws"
    BY <1>3, ReaderFacts
  <2>2. got.e \in Socket
    BY <2>1, ReceivedGood DEF IInv
  <2>3. e0.length = got.e.length /\ got.e.length \in Int
    BY <2>2 DEF Socket
  <2> QED  BY <2>3 DEF Lengths
<1>5. /\ Good(e, k) /\ e.status = "READ" /\ e.life = "ws"
      /\ e.fn = ws.fn /\ e.busy = ws.busy
      /\ ~ e.mixed => ~ ws.mixed /\ ~ ws.busy
  <2>1. got.e \in Socket
    <3>1. ws.life = "ws"
      BY <1>3, ReaderFacts
    <3> QED  BY <3>1, ReceivedGood DEF IInv
  <2>2. burst \in BOOLEAN
    BY <2>1 DEF Socket
  <2>3. e0 = [got.e EXCEPT !.mixed = @ \/ ws.busy, !.burst = burst]
    BY <2>1 DEF Socket
  <2> QED  BY <1>3, <1>4, <2>2, <2>3, BeReadGood
<1>6. /\ ws.life = "ws" /\ ws.fn \in {"read", "write"} /\ net \in Seq(Piece)
      /\ Waits(ws, main) /\ again \in BOOLEAN /\ (again => ws.fn = "write")
      /\ sent \in Nat
  BY <1>3, ReaderFacts DEF IInv
<1>7. net' \in Seq(Piece)
  <2>1. net' = SubSeq(net, n + 1, Len(net))
    BY <1>1
  <2> QED  BY <1>6, <2>1
<1>8. CASE close
  <2>1. ws' = [e EXCEPT !.ended = TRUE] /\ wk' = k /\ again' = FALSE
    BY <1>2, <1>8
  <2> HIDE DEF e, k
  <2>2. /\ ws' \in Socket /\ ws'.life = e.life /\ ws'.status = e.status
        /\ ws'.fn = e.fn /\ ws'.open = e.open /\ ws'.timer = e.timer
        /\ ws'.busy = e.busy /\ ws'.mixed = e.mixed
    BY <1>5, <2>1 DEF Good, Socket
  <2>3. Callback(ws')
    BY <1>5, <2>2, Zenon DEF Callback, Good
  <2>4. Counted(ws', k)
    BY <1>5, <2>2 DEF Counted, Good
  <2>5. Good(ws', wk')
    BY <1>5, <2>1, <2>2, <2>3, <2>4 DEF Good
  <2>6. Waits(ws', main')
    BY <1>3, <1>5, <1>6, <2>2 DEF Waits
  <2> QED  BY <1>3, <1>5, <1>6, <1>7, <2>1, <2>2, <2>5, <2>6 DEF IInv
<1>9. CASE ~ close /\ Len(e.buf) < length
  <2>1. ws' = e /\ wk' = k /\ again' = again
    BY <1>2, <1>9
  <2> HIDE DEF e, k
  <2>2. Waits(ws', main')
    BY <1>3, <1>5, <1>6, <2>1 DEF Waits
  <2> QED  BY <1>3, <1>5, <1>6, <1>7, <2>1, <2>2 DEF IInv
<1>10. CASE ~ close /\ ~ (Len(e.buf) < length)
  <2>1. PICK r \in Calls(full.e, full.k) :
          ws' = r.e /\ wk' = r.k /\ again' = (again \/ r.e.fn = "write")
    BY <1>2, <1>10
  <2> HIDE DEF e, k
  <2>2. /\ Good(full.e, full.k) /\ full.e.life = "ws" /\ full.e.fn = e.fn
        /\ full.e.busy = e.busy /\ full.e.mixed = e.mixed
    BY <1>5, <1>6, CompleteGood
  <2> HIDE DEF full
  <2>3. /\ Good(r.e, r.k) /\ r.e.life = "ws"
        /\ \/ r.e.fn = full.e.fn /\ r.e.busy = full.e.busy /\ r.e.mixed = full.e.mixed
           \/ ~ full.e.busy /\ r.e.busy /\ r.e.fn = "write"
    BY <2>2, CallsGood
  <2>4. Waits(ws', main')
    BY <1>3, <1>5, <1>6, <2>1, <2>2, <2>3 DEF Waits
  <2>5. again' => ws'.fn = "write"
    BY <1>5, <1>6, <2>1, <2>2, <2>3
  <2> QED  BY <1>3, <1>6, <1>7, <2>1, <2>3, <2>4, <2>5 DEF IInv
<1> QED  BY <1>8, <1>9, <1>10

\* What an action that touches only the socket and the gauges has to show.
LEMMA KeepsIInv ==
  ASSUME IInv, Good(ws', wk'), Waits(ws', main'), UNCHANGED <<net, sent>>,
         again' = FALSE \/ (again' = again /\ ws'.fn = ws.fn),
         ws'.life = "http" => ws.life = "http" /\ UNCHANGED <<main, watcher>>
  PROVE  IInv'
<1>1. again' \in BOOLEAN /\ (again' => ws'.fn = "write")
  <2>1. again \in BOOLEAN /\ (again => ws.fn = "write")
    BY DEF IInv
  <2>2. CASE again' = FALSE
    BY <2>2
  <2>3. CASE again' = again /\ ws'.fn = ws.fn
    BY <2>1, <2>3, Zenon
  <2> QED  BY <2>2, <2>3
<1>2. ws'.life = "http" => main' = "http" /\ watcher' = "none"
  BY DEF IInv
<1>3. net' \in Seq(Piece) /\ sent' \in Nat
  BY DEF IInv
<1> QED  BY <1>1, <1>2, <1>3 DEF IInv

\* What the invariant says of the socket and the gauges.
LEMMA SocketFacts ==
  ASSUME IInv
  PROVE  /\ ws \in Socket /\ wk \in Counts /\ Callback(ws) /\ Counted(ws, wk)
         /\ wk.reading \in Int /\ wk.sending \in Int /\ wk.active \in Int
         /\ wk.active = (IF ws.open THEN 1 ELSE 0)
         /\ wk.reading >= 0 /\ wk.sending >= 0
         /\ again \in BOOLEAN /\ (again => ws.fn = "write")
         /\ Waits(ws, main)
  BY DEF IInv, Good, Counted, Counts

LEMMA LeaveEarlyKeeps ==
  ASSUME IInv, LeaveEarly
  PROVE  IInv'
<1>1. /\ ws.open /\ ws.fn = "processing" /\ ws' = [ws EXCEPT !.open = FALSE, !.fn = "none"]
      /\ wk' = Active(wk, -1) /\ again' = FALSE
      /\ UNCHANGED <<main, watcher, net, sent>>
  BY SocketFacts DEF LeaveEarly, Loop, coroutines, peer
<1>2. ws.life = "http" /\ ws.status = "PROCESS" /\ ~ ws.busy /\ ~ ws.mixed
  BY <1>1, SocketFacts DEF Callback
<1>3. /\ ws' \in Socket /\ ws'.life = "http" /\ ws'.status = "PROCESS" /\ ws'.fn = "none"
      /\ ~ ws'.open /\ ~ ws'.busy /\ ~ ws'.mixed
  BY <1>1, <1>2, SocketFacts DEF Socket
<1>4. wk' \in Counts /\ wk'.active = 0 /\ wk'.reading = 0 /\ wk'.sending = 0
  <2>1. -1 \in Int
    OBVIOUS
  <2>2. wk' \in Counts /\ wk'.active = wk.active + -1 /\ wk'.reading = wk.reading
        /\ wk'.sending = wk.sending
    BY <1>1, <2>1, SocketFacts, Counters
  <2>3. wk.active = 1 /\ wk.reading = 0 /\ wk.sending = 0
    BY <1>1, <1>2, SocketFacts DEF Counted
  <2> QED  BY <2>2, <2>3
<1>5. Callback(ws') /\ Counted(ws', wk')
  BY <1>3, <1>4 DEF Callback, Counted
<1> QED  BY <1>1, <1>2, <1>3, <1>4, <1>5, KeepsIInv DEF Good, Waits

LEMMA UpgradeKeeps ==
  ASSUME IInv, Upgrade
  PROVE  IInv'
<1>1. /\ ws.life = "http" /\ ws.fn \in {"none", "processing"} /\ ws.status = "PROCESS"
      /\ ~ ws.busy /\ ~ ws.mixed /\ ~ again
  BY SocketFacts DEF Callback, Upgrade
<1>2. wk.reading = 0 /\ wk.sending = 0
  BY <1>1, SocketFacts DEF Counted
<1>3. UNCHANGED <<again, net, sent>>
  BY DEF Upgrade, peer
<1>4. CASE exiting
  <2>1. CloseClient(ws, wk) /\ UNCHANGED <<main, watcher>>
    BY <1>4 DEF Upgrade, coroutines
  <2>2. Good(ws', wk') /\ ws'.life = "cut" /\ ws'.fn = "none"
    BY <1>2, <2>1, SocketFacts, CloseClientGood
  <2> QED  BY <1>1, <1>3, <2>1, <2>2, SocketFacts, KeepsIInv DEF Waits
<1>5. CASE ~ exiting
  <2>1. /\ ws' = [ws EXCEPT !.life = "ws", !.status = "WAIT",
                            !.fn = IF ws.open THEN "read" ELSE "none"]
        /\ wk' = wk /\ main' = "on"
    BY <1>5 DEF Upgrade
  <2>2. /\ ws' \in Socket /\ ws'.life = "ws" /\ ws'.status = "WAIT"
        /\ ws'.fn = (IF ws.open THEN "read" ELSE "none")
        /\ ws'.open = ws.open /\ ~ ws'.busy /\ ~ ws'.mixed
    BY <1>1, <2>1, SocketFacts DEF Socket
  <2>3. Callback(ws') /\ Counted(ws', wk')
    BY <1>2, <2>1, <2>2, SocketFacts DEF Callback, Counted
  <2> QED  BY <1>1, <1>3, <2>1, <2>2, <2>3, SocketFacts, KeepsIInv DEF Good, Waits
<1> QED  BY <1>4, <1>5

LEMMA ReadEndKeeps ==
  ASSUME IInv, ReadEnd
  PROVE  IInv'
<1>1. ws' = [ws EXCEPT !.ended = TRUE] /\ again' = FALSE
      /\ UNCHANGED <<wk, main, watcher, net, sent>>
  BY DEF ReadEnd, coroutines, peer
<1>2. /\ ws' \in Socket /\ ws'.life = ws.life /\ ws'.status = ws.status
      /\ ws'.fn = ws.fn /\ ws'.open = ws.open /\ ws'.timer = ws.timer
      /\ ws'.busy = ws.busy /\ ws'.mixed = ws.mixed
  BY <1>1, SocketFacts DEF Socket
<1>3. Callback(ws')
  BY <1>2, SocketFacts, Zenon DEF Callback
<1>4. Counted(ws', wk')
  BY <1>1, <1>2, SocketFacts DEF Counted
<1>5. Waits(ws', main')
  BY <1>1, <1>2, SocketFacts DEF Waits
<1> QED  BY <1>1, <1>2, <1>3, <1>4, <1>5, SocketFacts, KeepsIInv DEF Good

\* Who writes is a websocket.
LEMMA WriterFacts ==
  ASSUME IInv, ws.open, ws.fn = "write"
  PROVE  /\ ws.life = "ws" /\ ws.busy /\ wk.sending >= 1 /\ wk.active = 1
         /\ ~ ws.mixed => /\ ws.status = "SEND"
                          /\ wk.reading = 0 /\ wk.sending = 1
<1>1. ws.life = "ws" /\ ws.busy /\ (~ ws.mixed => ws.status = "SEND")
  BY SocketFacts DEF Callback, Socket
<1> QED  BY <1>1, SocketFacts, GaugeFacts DEF IInv, Counted

LEMMA WriteDoneKeeps ==
  ASSUME IInv, WriteDone
  PROVE  IInv'
<1>1. /\ ws.open /\ ws.fn = "write" /\ ~ again
      /\ ws' = [ws EXCEPT !.status = "WAIT", !.busy = FALSE, !.fn = "read"]
      /\ wk' = Sending(wk, -1) /\ main' # "sending"
      /\ UNCHANGED <<again, watcher, net, sent>>
  BY DEF WriteDone, Loop, ResumeMain, Suspended, peer
<1>2. /\ ws' \in Socket /\ ws'.life = "ws" /\ ws'.status = "WAIT" /\ ws'.fn = "read"
      /\ ws'.open /\ ~ ws'.busy /\ ws'.mixed = ws.mixed
  BY <1>1, WriterFacts, SocketFacts DEF Socket
<1>3. wk' \in Counts /\ wk'.sending = wk.sending + -1 /\ wk'.reading = wk.reading
      /\ wk'.active = wk.active
  <2>1. -1 \in Int
    OBVIOUS
  <2> QED  BY <1>1, <2>1, SocketFacts, Counters
<1>4. wk'.active = 1 /\ wk'.reading >= 0 /\ wk'.sending >= 0
      /\ (~ ws'.mixed => wk'.reading = 0 /\ wk'.sending = 0)
  BY <1>1, <1>2, <1>3, WriterFacts, SocketFacts
<1>5. Callback(ws') /\ Counted(ws', wk')
  BY <1>2, <1>4 DEF Callback, Counted
<1>6. Waits(ws', main')
  BY <1>1 DEF Waits
<1> QED  BY <1>1, <1>2, <1>3, <1>5, <1>6, SocketFacts, KeepsIInv DEF Good

LEMMA WriteFailKeeps ==
  ASSUME IInv, WriteFail
  PROVE  IInv'
<1>1. /\ ws.open /\ ws.fn = "write" /\ ~ again
      /\ ws' = [ws EXCEPT !.open = FALSE, !.timer = FALSE, !.fn = "none"]
      /\ wk' = Active(wk, -1) /\ main' # "sending"
      /\ UNCHANGED <<again, watcher, net, sent>>
  BY DEF WriteFail, Loop, ResumeMain, Suspended, peer
<1>2. /\ ws' \in Socket /\ ws'.life = "ws" /\ ws'.status = ws.status /\ ws'.fn = "none"
      /\ ~ ws'.open /\ ~ ws'.timer /\ ws'.mixed = ws.mixed
  BY <1>1, WriterFacts, SocketFacts DEF Socket
<1>3. wk' \in Counts /\ wk'.active = wk.active + -1 /\ wk'.reading = wk.reading
      /\ wk'.sending = wk.sending
  <2>1. -1 \in Int
    OBVIOUS
  <2> QED  BY <1>1, <2>1, SocketFacts, Counters
<1>4. wk'.active = 0
  BY <1>1, <1>3, WriterFacts
<1>5. Callback(ws')
  BY <1>2 DEF Callback
<1>6. Counted(ws', wk')
  BY <1>1, <1>2, <1>3, <1>4, WriterFacts, SocketFacts DEF Counted
<1>7. Waits(ws', main')
  BY <1>1 DEF Waits
<1> QED  BY <1>1, <1>2, <1>3, <1>5, <1>6, <1>7, SocketFacts, KeepsIInv DEF Good

\* Closing what is being sent or answered.
LEMMA CloseSendingGood ==
  ASSUME IInv, ws.life = "ws", ws.status = "SEND", CloseClient(ws, Sending(wk, -1))
  PROVE  Good(ws', wk') /\ ws'.life = "cut" /\ ws'.fn = "none"
<1> DEFINE k == Sending(wk, -1)
<1>1. k \in Counts /\ k.sending = wk.sending + -1 /\ k.reading = wk.reading
      /\ k.active = wk.active
  <2>1. -1 \in Int
    OBVIOUS
  <2> QED  BY <2>1, SocketFacts, Counters
<1>2. wk.sending >= 1 /\ (~ ws.mixed => wk.reading = 0 /\ wk.sending = 1)
  BY GaugeFacts DEF IInv
<1>3. CloseClient(ws, k)
  OBVIOUS
<1> HIDE DEF k
<1>4. k.reading >= 0 /\ k.sending >= 0 /\ (~ ws.mixed => k.reading = 0 /\ k.sending = 0)
  BY <1>1, <1>2, SocketFacts
<1>5. ws \in Socket /\ k.active = (IF ws.open THEN 1 ELSE 0)
  BY <1>1, SocketFacts
<1> QED  BY <1>1, <1>3, <1>4, <1>5, CloseClientGood

LEMMA AnsweredKeeps ==
  ASSUME IInv, Answered
  PROVE  IInv'
<1>1. /\ ws.open /\ ws.fn = "answer" /\ CloseClient(ws, Sending(wk, -1))
      /\ UNCHANGED <<again, main, watcher, net, sent>> /\ ~ again
  BY DEF Answered, Loop, coroutines, peer
<1>2. ws.life = "ws" /\ ws.status = "SEND"
  BY <1>1, SocketFacts DEF Callback, Socket
<1>3. Good(ws', wk') /\ ws'.life = "cut" /\ ws'.fn = "none"
  BY <1>1, <1>2, CloseSendingGood
<1> QED  BY <1>1, <1>3, SocketFacts, KeepsIInv DEF Waits

LEMMA TimeoutHandleKeeps ==
  ASSUME IInv, TimeoutHandle
  PROVE  IInv'
<1>1. /\ ws.timer /\ ws.life = "ws" /\ ~ again
      /\ UNCHANGED <<again, main, watcher, net, sent>>
  BY DEF TimeoutHandle, coroutines, peer
<1>2. CASE ws.status = "READ"
  <2> DEFINE k == Reading(wk, -1)
  <2>1. ws' = [ws EXCEPT !.status = "SEND", !.fn = "answer"] /\ wk' = Sending(k, 1)
    BY <1>2 DEF TimeoutHandle
  <2>2. ws.open /\ (ws.busy => ws.mixed) /\ (ws.fn = "write" => ws.mixed)
    BY <1>1, <1>2, SocketFacts DEF Callback, Socket
  <2>3. /\ ws' \in Socket /\ ws'.life = "ws" /\ ws'.status = "SEND" /\ ws'.fn = "answer"
        /\ ws'.open /\ ws'.busy = ws.busy /\ ws'.mixed = ws.mixed
    BY <1>1, <2>1, <2>2, SocketFacts DEF Socket
  <2>4. k \in Counts /\ k.reading = wk.reading + -1 /\ k.sending = wk.sending
        /\ k.active = wk.active
    <3>1. -1 \in Int
      OBVIOUS
    <3> QED  BY <3>1, SocketFacts, Counters
  <2> HIDE DEF k
  <2>5. wk' \in Counts /\ wk'.reading = k.reading /\ wk'.sending = k.sending + 1
        /\ wk'.active = k.active
    <3>1. 1 \in Int
      OBVIOUS
    <3> QED  BY <2>1, <2>4, <3>1, Counters
  <2>6. wk.active = 1 /\ wk.reading >= 1
        /\ (~ ws.mixed => wk.reading = 1 /\ wk.sending = 0)
    BY <1>1, <1>2, <2>2, GaugeFacts DEF IInv
  <2>7. wk'.active = 1 /\ wk'.reading >= 0 /\ wk'.sending >= 1
        /\ (~ ws.mixed => wk'.reading = 0 /\ wk'.sending = 1)
    BY <2>4, <2>5, <2>6, SocketFacts
  <2>8. Callback(ws') /\ Counted(ws', wk')
    BY <2>2, <2>3, <2>7 DEF Callback, Counted
  <2>9. Waits(ws', main')
    BY <1>1, <2>2, <2>3, SocketFacts DEF Waits
  <2> QED  BY <1>1, <2>3, <2>5, <2>8, <2>9, SocketFacts, KeepsIInv DEF Good
<1>3. CASE ws.status = "SEND"
  <2>1. CloseClient(ws, Sending(wk, -1))
    BY <1>3 DEF TimeoutHandle
  <2>2. Good(ws', wk') /\ ws'.life = "cut" /\ ws'.fn = "none"
    BY <1>1, <1>3, <2>1, CloseSendingGood
  <2> QED  BY <1>1, <2>2, SocketFacts, KeepsIInv DEF Waits
<1>4. CASE ws.status \notin {"READ", "SEND"}
  <2>1. CloseClient(ws, wk)
    BY <1>4 DEF TimeoutHandle
  <2>2. ~ ws.mixed => wk.reading = 0 /\ wk.sending = 0
    BY <1>1, <1>4, GaugeFacts DEF IInv
  <2>3. Good(ws', wk') /\ ws'.life = "cut" /\ ws'.fn = "none"
    BY <2>1, <2>2, SocketFacts, CloseClientGood
  <2> QED  BY <1>1, <2>3, SocketFacts, KeepsIInv DEF Waits
<1> QED  BY <1>2, <1>3, <1>4

LEMMA MainCallKeeps ==
  ASSUME IInv, MainCall
  PROVE  IInv'
<1>1. ~ again /\ main = "on" /\ UNCHANGED <<again, watcher, net, sent>>
  BY DEF MainCall, peer
<1>2. CASE Freed
  <2>1. UNCHANGED <<ws, wk, main>>
    BY <1>2 DEF MainCall
  <2> QED  BY <1>1, <2>1 DEF IInv
<1>3. CASE ~ Freed
  <2>1. PICK r \in Calls(ws, wk) : ws' = r.e /\ wk' = r.k /\ main' = r.who
    BY <1>3 DEF MainCall
  <2>2. ws.life = "ws" /\ Good(ws, wk)
    BY <1>1, <1>3 DEF Freed, IInv, Good, Socket
  <2>3. /\ Good(r.e, r.k) /\ r.e.life = "ws"
        /\ r.who = "sending" => r.e.busy /\ r.e.fn = "write"
    BY <2>2, CallsGood
  <2>4. Waits(ws', main')
    BY <2>1, <2>3 DEF Waits
  <2>5. again' = FALSE
    BY <1>1, SocketFacts
  <2> QED  BY <1>1, <2>1, <2>3, <2>4, <2>5, KeepsIInv
<1> QED  BY <1>2, <1>3

LEMMA WatcherLoopKeeps ==
  ASSUME IInv, WatcherLoop
  PROVE  IInv'
<1>1. ~ again /\ watcher = "loop" /\ UNCHANGED <<again, main, net, sent>>
  BY DEF WatcherLoop, peer
<1>2. CASE Freed
  <2>1. UNCHANGED <<ws, wk, watcher>>
    BY <1>2 DEF WatcherLoop
  <2> QED  BY <1>1, <2>1 DEF IInv
<1>3. CASE ~ Freed
  <2>1. PICK r \in Calls(ws, wk) : ws' = r.e /\ wk' = r.k
    BY <1>3 DEF WatcherLoop
  <2>2. ws.life = "ws" /\ Good(ws, wk)
    BY <1>1, <1>3 DEF Freed, IInv, Good, Socket
  <2>3. /\ Good(r.e, r.k) /\ r.e.life = "ws"
        /\ \/ r.e.fn = ws.fn /\ r.e.busy = ws.busy /\ r.e.mixed = ws.mixed
           \/ r.e.busy /\ r.e.fn = "write"
    BY <2>2, CallsGood
  <2>4. Waits(ws', main')
    BY <1>1, <2>1, <2>2, <2>3, SocketFacts DEF Waits
  <2>5. again' = FALSE
    BY <1>1, SocketFacts
  <2> QED  BY <1>1, <2>1, <2>3, <2>4, <2>5, KeepsIInv
<1> QED  BY <1>2, <1>3

LEMMA CheckCloseKeeps ==
  ASSUME IInv, CheckClose
  PROVE  IInv'
<1>1. ~ again /\ watcher = "check" /\ UNCHANGED <<again, main, net, sent>>
  BY DEF CheckClose, peer
<1>2. ws.life # "http"
  BY <1>1 DEF IInv
<1>3. CASE UNCHANGED <<ws, wk>>
  BY <1>1, <1>2, <1>3 DEF IInv
<1>4. CASE /\ ~ Freed /\ wk' = ReleaseGauges(ws, wk)
           /\ ws' = [ws EXCEPT !.life = "closed", !.fn = "none",
                               !.open = FALSE, !.timer = FALSE]
  <2> DEFINE a == IF ws.status = "READ" THEN -1 ELSE 0
             b == IF ws.status = "SEND" THEN -1 ELSE 0
             c == IF ws.open THEN -1 ELSE 0
             k1 == Reading(wk, a)
             k2 == Sending(k1, b)
  <2>1. wk' = Active(k2, c)
    BY <1>4 DEF ReleaseGauges
  <2>2. ws.life = "ws"
    BY <1>2, <1>4, SocketFacts DEF Freed, Socket
  <2>3. /\ ws' \in Socket /\ ws'.life = "closed" /\ ws'.fn = "none"
        /\ ~ ws'.open /\ ~ ws'.timer /\ ws'.mixed = ws.mixed
    BY <1>4, SocketFacts DEF Socket
  <2>4. /\ wk.active = (IF ws.open THEN 1 ELSE 0)
        /\ ws.status = "READ" => wk.reading >= 1
        /\ ws.status = "SEND" => wk.sending >= 1
        /\ ~ ws.mixed => /\ wk.reading = (IF ws.status = "READ" THEN 1 ELSE 0)
                         /\ wk.sending = (IF ws.status = "SEND" THEN 1 ELSE 0)
    BY <2>2, GaugeFacts DEF IInv
  <2>5. a \in Int /\ b \in Int /\ c \in Int
    OBVIOUS
  <2>6. /\ wk.reading + a >= 0 /\ wk.sending + b >= 0 /\ wk.active + c = 0
        /\ ~ ws.mixed => wk.reading + a = 0 /\ wk.sending + b = 0
    BY <2>4, SocketFacts
  <2> HIDE DEF a, b, c
  <2>7. k1 \in Counts /\ k1.reading = wk.reading + a /\ k1.sending = wk.sending
        /\ k1.active = wk.active
    BY <2>5, SocketFacts, Counters
  <2> HIDE DEF k1
  <2>8. k2 \in Counts /\ k2.reading = k1.reading /\ k2.sending = k1.sending + b
        /\ k2.active = k1.active
    BY <2>5, <2>7, Counters
  <2> HIDE DEF k2
  <2>9. wk' \in Counts /\ wk'.reading = k2.reading /\ wk'.sending = k2.sending
        /\ wk'.active = k2.active + c
    BY <2>1, <2>5, <2>8, Counters
  <2>10. /\ wk'.active = 0 /\ wk'.reading >= 0 /\ wk'.sending >= 0
         /\ ~ ws'.mixed => wk'.reading = 0 /\ wk'.sending = 0
    BY <2>3, <2>6, <2>7, <2>8, <2>9
  <2>11. Good(ws', wk')
    BY <2>3, <2>9, <2>10, EndedGood
  <2> QED  BY <1>1, <2>3, <2>11, SocketFacts, KeepsIInv DEF Waits
<1> QED  BY <1>3, <1>4 DEF CheckClose

\* What the client, the loop and the end of the worker do leaves the socket alone.
LEMMA OthersKeep ==
  ASSUME IInv, ReadNoMore \/ MainEnd \/ ClientSend \/ ClientLeave \/ BeginExit
  PROVE  IInv'
<1>1. CASE ReadNoMore
  BY <1>1 DEF ReadNoMore, coroutines, peer, IInv
<1>2. CASE MainEnd
  <2>1. ws.life # "http" /\ main' # "sending" /\ UNCHANGED <<ws, wk, again, net, sent>>
    BY <1>2 DEF MainEnd, peer, IInv
  <2> QED  BY <2>1 DEF IInv, Waits
<1>3. CASE ClientSend
  <2>1. UNCHANGED <<ws, wk, again, main, watcher>>
    BY <1>3 DEF ClientSend, coroutines
  <2>2. net \in Seq(Piece) /\ sent \in Nat
    BY DEF IInv
  <2>3. sent' \in Nat
    BY <1>3, <2>2 DEF ClientSend
  <2>4. net' \in Seq(Piece)
    <3> DEFINE i == (sent \div 2) + 1
               j == (sent % 2) + 1
    <3>1. i \in Nat /\ j \in {1, 2} /\ 0 \in Nat
      BY <2>2
    <3> HIDE DEF i, j
    <3>2. Pieces(i)[j] \in Piece /\ Close \in Piece
      BY <3>1 DEF Pieces, Close, Piece
    <3>3. net' = Append(net, Pieces(i)[j]) \/ net' = Append(net, Close)
      BY <1>3 DEF ClientSend, i, j
    <3> HIDE DEF Piece
    <3> QED  BY <2>2, <3>2, <3>3
  <2> QED  BY <2>1, <2>3, <2>4 DEF IInv
<1>4. CASE ClientLeave
  BY <1>4 DEF ClientLeave, coroutines, IInv
<1>5. CASE BeginExit
  BY <1>5 DEF BeginExit, coroutines, peer, IInv
<1> QED  BY <1>1, <1>2, <1>3, <1>4, <1>5

LEMMA InitIInv == Init => IInv
<1> SUFFICES ASSUME Init
             PROVE  IInv
  OBVIOUS
<1>1. /\ ws = Upgrading /\ wk = [reading |-> 0, sending |-> 0, active |-> 1]
      /\ again = FALSE /\ main = "http" /\ watcher = "none" /\ net = <<>> /\ sent = 0
  BY DEF Init
<1>2. ws \in Socket /\ wk \in Counts /\ net \in Seq(Piece)
  <2>1. <<>> \in Seq(Piece) /\ -1 \in Int
    OBVIOUS
  <2> QED  BY <1>1, <2>1 DEF Upgrading, Socket, Counts
<1>3. Callback(ws) /\ Counted(ws, wk) /\ Waits(ws, main)
  BY <1>1 DEF Upgrading, Callback, Counted, Waits
<1> QED  BY <1>1, <1>2, <1>3 DEF IInv, Good, Upgrading

LEMMA NextIInv == IInv /\ [Next]_vars => IInv'
<1> SUFFICES ASSUME IInv, [Next]_vars
             PROVE  IInv'
  OBVIOUS
<1>1. CASE Next
  BY <1>1, LeaveEarlyKeeps, UpgradeKeeps, BeReadKeeps, ReadEndKeeps, WriteDoneKeeps,
     WriteFailKeeps, AnsweredKeeps, TimeoutHandleKeeps, MainCallKeeps,
     WatcherLoopKeeps, CheckCloseKeeps, OthersKeep, Zenon DEF Next, Watcher
<1>2. CASE UNCHANGED vars
  BY <1>2 DEF vars, coroutines, peer, IInv
<1> QED  BY <1>1, <1>2

-----------------------------------------------------------------------------
(* The theorems. *)

THEOREM SocketInOrder == Spec => []IInv
  BY InitIInv, NextIInv, PTL DEF Spec

\* Every websocket is counted once in what it does, and out of it when it ends, in
\* whatever way it does: GaugesFollow.
THEOREM GaugesAreRight == Spec => []GaugesFollow
<1>1. IInv => GaugesFollow
  BY DEF IInv, Good, Counted, GaugesFollow
<1> QED  BY <1>1, SocketInOrder, PTL

\* A websocket that is busy is being written, and a main coroutine that waits for
\* its payload is waiting for one that is being written: SendGoesOn.
THEOREM SendsGoOn == Spec => []SendGoesOn
<1>1. IInv => SendGoesOn
  <2> SUFFICES ASSUME IInv, ws.life = "ws", ~ ws.mixed
               PROVE  /\ ws.busy => ~ ws.open \/ ws.fn = "write"
                      /\ main = "sending" => ws.busy /\ ws.fn = "write"
    BY DEF SendGoesOn
  <2>1. ws.busy => ~ ws.open \/ ws.fn = "write"
    BY SocketFacts DEF Callback, Socket
  <2> QED  BY <2>1, SocketFacts DEF Waits
<1> QED  BY <1>1, SocketInOrder, PTL

-----------------------------------------------------------------------------
(* The frames. *)

\* What TypeOK says that IInv does not.  Pieces that wait to be received or are
\* received have been sent, or are a close frame.
Typed ==
  /\ ws.status = "PROCESS" => ws.life = "http"
  /\ ws.open => ws.timer
  /\ ws.length \in {-1} \cup 1..Far /\ long \subseteq 1..MaxFrames
  /\ main \in {"http", "on", "done"} \cup Suspended
  /\ watcher \in {"none", "loop", "check", "done"} \cup Suspended
  /\ watcher = "done" => ws.life = "closed"
  /\ client \in {"on", "closing", "gone"}
  /\ ops \in 0..MaxOps /\ sent \in 0..2 * MaxFrames
  /\ exiting \in BOOLEAN /\ stale \in BOOLEAN
  /\ Len(ws.buf) + Len(net) <= sent + (IF client = "on" THEN 0 ELSE 1)

\* The pieces of the client, one after another.
Stream(j) == Pieces(((j - 1) \div 2) + 1)[((j - 1) % 2) + 1]

\* With r pieces received the rest is on its way, and a close frame behind it.
Pending(r) ==
  /\ r <= sent
  /\ Len(net) = sent - r \/ (Len(net) = sent - r + 1 /\ client # "on" /\ sent % 2 = 0)
  /\ \A i \in 1..Len(net) : net[i] = IF r + i <= sent THEN Stream(r + i) ELSE Close

\* Where the reader is: between two frames, behind the header of one, or behind a
\* close frame.
Between == ws.buf = <<>> /\ ws.length = -1 /\ Pending(2 * Len(given))
Inside  == /\ ws.buf = <<Pieces(Len(given) + 1)[1]>> /\ ws.length = 2
           /\ Pending(2 * Len(given) + 1)
Closed  == ws.buf # <<>> /\ net = <<>> /\ client # "on"

\* The buffer is read on only in STEP_READ.
Fresh == ws.life = "http" \/ (ws.fn \in {"read", "write"} /\ ws.status # "READ")

Whole == /\ given = [i \in 1..Len(given) |-> Pieces(i)]
         /\ Between \/ Inside \/ Closed
         /\ Fresh => ws.buf = <<>>

\* A long message was given, and from then on the reader may be anywhere.
Lost == /\ \E i \in 1..Len(given) : i \in long
        /\ \A i \in 1..Len(given) :
             (\A j \in 1..i : j \notin long) => given[i] = Pieces(i)

FInv == /\ given \in Seq(Seq(Piece))
        /\ ~ ws.mixed /\ ~ ws.burst => Whole \/ Lost

-----------------------------------------------------------------------------
(* What the functions do to the frame that is read. *)

\* A send or a die leaves the frame half read alone.  Without mixing, a send starts
\* only while the connection waits for a frame.
LEMMA CallsSteady ==
  ASSUME NEW e \in Socket, NEW k \in Counts, NEW r \in Calls(e, k)
  PROVE  /\ r.e.life = e.life /\ r.e.open = e.open /\ r.e.timer = e.timer
         /\ r.e.buf = e.buf /\ r.e.length = e.length /\ r.e.burst = e.burst
         /\ r.who \in {"on"} \cup Suspended
         /\ e.mixed => r.e.mixed
         /\ \/ r.e.fn = e.fn /\ r.e.status = e.status
            \/ /\ r.e.fn = "write" /\ r.e.status = "SEND" /\ ~ e.busy /\ e.open
               /\ ~ r.e.mixed => e.status = "WAIT"
<1>1. CASE r \in Die(e, k)
  <2>1. r.e = [e EXCEPT !.ended = TRUE] /\ r.who = "on"
    BY <1>1 DEF Die
  <2> QED  BY <2>1 DEF Socket
<1>2. CASE r \in Send(e, k)
  <2>1. CASE r.e = e /\ r.who \in {"on", "short"}
    BY <2>1 DEF Suspended
  <2>2. CASE /\ ~ e.busy /\ e.open /\ r.who = "sending"
             /\ r.e = [e EXCEPT !.busy = TRUE, !.status = "SEND", !.fn = "write",
                                !.mixed = @ \/ e.status # "WAIT"]
    BY <2>2 DEF Socket, Suspended
  <2> QED  BY <1>2, <2>1, <2>2 DEF Send
<1> QED  BY <1>1, <1>2 DEF Calls

\* The pieces of the frame being read when n more are received.
Heap(n) ==
  LET more == ws.buf \o SubSeq(net, 1, n)
  IN  IF ws.status = "READ" THEN more ELSE SubSeq(more, 1, n)

LEMMA HeapIsPieces ==
  ASSUME ws \in Socket, net \in Seq(Piece), NEW n \in 1..Len(net)
  PROVE  /\ Heap(n) \in Seq(Piece) /\ Len(Heap(n)) >= 1
         /\ Len(Heap(n)) <= Len(ws.buf) + n
<1> DEFINE more == ws.buf \o SubSeq(net, 1, n)
<1>1. SubSeq(net, 1, n) \in Seq(Piece) /\ Len(SubSeq(net, 1, n)) = n
  OBVIOUS
<1>2. ws.buf \in Seq(Piece) /\ Len(ws.buf) \in Nat
  BY DEF Socket
<1>3. more \in Seq(Piece) /\ Len(more) = Len(ws.buf) + n
  BY <1>1, <1>2
<1> HIDE DEF more
<1>4. SubSeq(more, 1, n) \in Seq(Piece) /\ Len(SubSeq(more, 1, n)) = n
  BY <1>2, <1>3
<1> QED  BY <1>2, <1>3, <1>4 DEF Heap, more

\* A turn of websocket_be_read, as far as it concerns the frame.
Turn(n, length) ==
  /\ net' = SubSeq(net, n + 1, Len(net))
  /\ ws'.life = ws.life /\ ws'.open = ws.open /\ ws'.timer = ws.timer
  /\ ~ ws'.mixed => ~ ws.mixed /\ ~ ws.busy
  /\ ~ ws'.burst => ~ ws.burst /\ \A i \in 1..n - 1 : net[i].part # "rest"
  /\ length \in 1..Far
  /\ ws.length # -1 => length = ws.length
  /\ ws.length = -1 /\ Heap(n)[1].part = "head" =>
       length = IF Heap(n)[1].frame \in long THEN 1 ELSE 2
  /\ \/ /\ ws'.status = "READ" /\ ws'.fn = ws.fn
        /\ ws'.buf = Heap(n) /\ ws'.length = length /\ given' = given
        /\ \/ ws.length = -1 /\ (Heap(n)[1].part = "head" => Heap(n)[1] = Close)
           \/ /\ Len(Heap(n)) < length
              /\ ws.length = -1 /\ Heap(n)[1].part = "head" => Heap(n)[1] # Close
     \/ /\ ws'.status \in {"WAIT", "SEND"} /\ ws'.buf = <<>> /\ ws'.length = -1
        /\ given' = Append(given, SubSeq(Heap(n), 1, length))
        /\ Len(Heap(n)) >= length
        /\ ws.length = -1 /\ Heap(n)[1].part = "head" => Heap(n)[1] # Close

LEMMA ReceivedHeap ==
  ASSUME ws \in Socket, wk \in Counts, net \in Seq(Piece), NEW n \in 1..Len(net)
  PROVE  LET x == Received(n).e
         IN  /\ x \in Socket /\ x.buf = Heap(n) /\ x.length = ws.length
             /\ x.status = "READ" /\ x.life = ws.life /\ x.fn = ws.fn
             /\ x.open = ws.open /\ x.timer = ws.timer
             /\ x.mixed = ws.mixed /\ x.burst = ws.burst /\ Received(n).k \in Counts
<1> DEFINE more == ws.buf \o SubSeq(net, 1, n)
           short == SubSeq(more, 1, n)
<1>1. Heap(n) \in Seq(Piece)
  BY HeapIsPieces
<1>2. CASE ws.status = "READ"
  <2> DEFINE y == [ws EXCEPT !.buf = more]
  <2>1. Heap(n) = more
    BY <1>2 DEF Heap
  <2>2. Received(n) = [e |-> y, k |-> wk]
    BY <1>2 DEF Received
  <2> HIDE DEF more
  <2>3. /\ y \in Socket /\ y.buf = Heap(n) /\ y.length = ws.length
        /\ y.status = "READ" /\ y.life = ws.life /\ y.fn = ws.fn
        /\ y.open = ws.open /\ y.timer = ws.timer
        /\ y.mixed = ws.mixed /\ y.burst = ws.burst
    BY <1>1, <1>2, <2>1 DEF Socket
  <2> HIDE DEF y
  <2> QED  BY <2>2, <2>3
<1>3. CASE ws.status # "READ"
  <2> DEFINE y == [ws EXCEPT !.status = "READ", !.buf = short]
  <2>1. Heap(n) = short
    BY <1>3 DEF Heap
  <2>2. Received(n) = [e |-> y, k |-> Reading(wk, 1)]
    BY <1>3 DEF Received
  <2>3. Reading(wk, 1) \in Counts
    <3>1. 1 \in Int
      OBVIOUS
    <3> QED  BY <3>1, Counters
  <2> HIDE DEF short
  <2>4. /\ y \in Socket /\ y.buf = Heap(n) /\ y.length = ws.length
        /\ y.status = "READ" /\ y.life = ws.life /\ y.fn = ws.fn
        /\ y.open = ws.open /\ y.timer = ws.timer
        /\ y.mixed = ws.mixed /\ y.burst = ws.burst
    BY <1>1, <1>3, <2>1 DEF Socket
  <2> HIDE DEF y
  <2> QED  BY <2>2, <2>3, <2>4
<1> QED  BY <1>2, <1>3

LEMMA FarFacts == Far \in Nat /\ 1 \in 1..Far /\ 2 \in 1..Far
<1>1. PICK m \in Nat : m = MaxFrames
  BY BoundsAssumption DEF BoundsAssumption
<1> QED  BY <1>1 DEF Far

LEMMA BeReadTurns ==
  ASSUME IInv, ws.length \in {-1} \cup 1..Far, BeRead
  PROVE  \E n \in 1..Len(net), length \in 1..Far : Turn(n, length)
<1>1. PICK n \in 1..Len(net) :
        LET got == Received(n)
            e0  == [got.e EXCEPT !.mixed = @ \/ ws.busy,
                                 !.burst = @ \/ \E i \in 1..n - 1 : net[i].part = "rest"]
        IN  /\ got.k.reading <= MaxDrift
            /\ net' = SubSeq(net, n + 1, Len(net))
            /\ \E length \in Lengths(e0), close \in SaysClose(e0) :
                 LET e    == [e0 EXCEPT !.length = length]
                     full == Complete(e, got.k)
                 IN  IF close
                     THEN /\ ws' = [e EXCEPT !.ended = TRUE]
                          /\ wk' = got.k
                          /\ again' = FALSE
                          /\ UNCHANGED given
                     ELSE IF Len(e.buf) < length
                     THEN /\ ws' = e
                          /\ wk' = got.k
                          /\ UNCHANGED <<again, given>>
                     ELSE /\ given' = Append(given, SubSeq(e.buf, 1, length))
                          /\ \E r \in Calls(full.e, full.k) :
                               ws' = r.e /\ wk' = r.k
                                 /\ again' = (again \/ r.e.fn = "write")
  BY DEF BeRead
<1> DEFINE x    == Received(n).e
           k    == Received(n).k
           rest == \E i \in 1..n - 1 : net[i].part = "rest"
           e0   == [x EXCEPT !.mixed = @ \/ ws.busy, !.burst = @ \/ rest]
<1>2. PICK length \in Lengths(e0), close \in SaysClose(e0) :
        LET e    == [e0 EXCEPT !.length = length]
            full == Complete(e, k)
        IN  IF close
            THEN /\ ws' = [e EXCEPT !.ended = TRUE]
                 /\ wk' = k
                 /\ again' = FALSE
                 /\ UNCHANGED given
            ELSE IF Len(e.buf) < length
            THEN /\ ws' = e
                 /\ wk' = k
                 /\ UNCHANGED <<again, given>>
            ELSE /\ given' = Append(given, SubSeq(e.buf, 1, length))
                 /\ \E r \in Calls(full.e, full.k) :
                      ws' = r.e /\ wk' = r.k /\ again' = (again \/ r.e.fn = "write")
  BY <1>1
<1> DEFINE e    == [e0 EXCEPT !.length = length]
           full == Complete(e, k)
<1>3. ws \in Socket /\ wk \in Counts /\ net \in Seq(Piece)
  BY SocketFacts DEF IInv
<1>4. /\ x \in Socket /\ x.buf = Heap(n) /\ x.length = ws.length
      /\ x.status = "READ" /\ x.life = ws.life /\ x.fn = ws.fn
      /\ x.open = ws.open /\ x.timer = ws.timer
      /\ x.mixed = ws.mixed /\ x.burst = ws.burst /\ k \in Counts
  BY <1>3, ReceivedHeap
<1>5. Heap(n) \in Seq(Piece) /\ Len(Heap(n)) >= 1 /\ Heap(n)[1] \in Piece
  <2>1. Heap(n) \in Seq(Piece) /\ Len(Heap(n)) >= 1
    BY <1>3, HeapIsPieces
  <2> QED  BY <2>1
<1>6. ws.busy \in BOOLEAN /\ ws.burst \in BOOLEAN /\ ws.mixed \in BOOLEAN
      /\ rest \in BOOLEAN
  BY <1>3 DEF Socket
<1>7. net' = SubSeq(net, n + 1, Len(net))
  BY <1>1
<1>8. ~ rest => \A i \in 1..n - 1 : net[i].part # "rest"
  OBVIOUS
<1> HIDE DEF x, k, rest
<1>9. e0 \in Socket /\ e0.buf = Heap(n) /\ e0.length = ws.length
  BY <1>4, <1>6 DEF Socket
<1>10. /\ length \in 1..Far
       /\ ws.length # -1 => length = ws.length
       /\ ws.length = -1 /\ Heap(n)[1].part = "head" =>
            length = IF Heap(n)[1].frame \in long THEN 1 ELSE 2
  <2>1. length \in IF ws.length # -1 THEN {ws.length}
                   ELSE IF Heap(n)[1].part = "rest" THEN 1..Far
                   ELSE IF Heap(n)[1].frame \in long THEN {1} ELSE {2}
    BY <1>9 DEF Lengths
  <2> HIDE DEF e0
  <2>2. length \in 1..Far
    BY <2>1, FarFacts
  <2> QED  BY <2>1, <2>2
<1>11. /\ close \in BOOLEAN /\ (close => ws.length = -1)
       /\ ws.length = -1 /\ Heap(n)[1].part = "head" => close = (Heap(n)[1] = Close)
  BY <1>9 DEF SaysClose
<1>12. length \in Int
  BY <1>10, FarFacts
<1>13. /\ e \in Socket /\ e.buf = Heap(n) /\ e.length = length /\ e.status = "READ"
       /\ e.life = ws.life /\ e.fn = ws.fn /\ e.open = ws.open /\ e.timer = ws.timer
       /\ e.mixed = (ws.mixed \/ ws.busy) /\ e.burst = (ws.burst \/ rest)
  BY <1>4, <1>6, <1>12 DEF Socket
<1> HIDE DEF e0
<1>14. CASE close
  <2>1. ws' = [e EXCEPT !.ended = TRUE] /\ given' = given
    BY <1>2, <1>14
  <2> HIDE DEF e, full
  <2>2. /\ ws'.buf = Heap(n) /\ ws'.length = length /\ ws'.status = "READ"
        /\ ws'.life = ws.life /\ ws'.fn = ws.fn /\ ws'.open = ws.open
        /\ ws'.timer = ws.timer
        /\ ws'.mixed = (ws.mixed \/ ws.busy) /\ ws'.burst = (ws.burst \/ rest)
    BY <1>13, <2>1 DEF Socket
  <2> QED  BY <1>7, <1>8, <1>10, <1>11, <1>14, <2>1, <2>2 DEF Turn
<1>15. CASE ~ close /\ Len(e.buf) < length
  <2>1. ws' = e /\ given' = given
    BY <1>2, <1>15
  <2> HIDE DEF e, full
  <2>2. Len(Heap(n)) < length
    BY <1>13, <1>15
  <2> QED  BY <1>7, <1>8, <1>10, <1>11, <1>13, <1>15, <2>1, <2>2 DEF Turn
<1>16. CASE ~ close /\ ~ (Len(e.buf) < length)
  <2>1. PICK r \in Calls(full.e, full.k) : ws' = r.e
    BY <1>2, <1>16
  <2>2. given' = Append(given, SubSeq(e.buf, 1, length))
    BY <1>2, <1>16
  <2> DEFINE y == [e EXCEPT !.status = "WAIT", !.buf = <<>>, !.length = -1]
             q == Reading(k, -1)
  <2>3. full.e = y /\ full.k = q
    BY DEF Complete
  <2> HIDE DEF e, full
  <2>4. /\ y \in Socket /\ y.status = "WAIT" /\ y.buf = <<>> /\ y.length = -1
        /\ y.life = ws.life /\ y.open = ws.open /\ y.timer = ws.timer
        /\ y.mixed = e.mixed /\ y.burst = e.burst
    <3>1. <<>> \in Seq(Piece) /\ -1 \in Int
      OBVIOUS
    <3> QED  BY <1>13, <3>1 DEF Socket
  <2>5. q \in Counts
    <3>1. -1 \in Int
      OBVIOUS
    <3> QED  BY <1>4, <3>1, Counters
  <2> HIDE DEF y, q
  <2>6. r \in Calls(y, q)
    BY <2>1, <2>3
  <2>7. /\ r.e.life = y.life /\ r.e.open = y.open /\ r.e.timer = y.timer
        /\ r.e.buf = y.buf /\ r.e.length = y.length /\ r.e.burst = y.burst
        /\ y.mixed => r.e.mixed
        /\ r.e.status \in {"WAIT", "SEND"}
    BY <2>4, <2>5, <2>6, CallsSteady
  <2>8. Len(Heap(n)) \in Nat /\ Len(Heap(n)) >= length
    BY <1>5, <1>10, <1>13, <1>16
  <2>9. /\ ws'.status \in {"WAIT", "SEND"} /\ ws'.buf = <<>> /\ ws'.length = -1
        /\ given' = Append(given, SubSeq(Heap(n), 1, length))
        /\ ws'.life = ws.life /\ ws'.open = ws.open /\ ws'.timer = ws.timer
        /\ (ws.mixed \/ ws.busy => ws'.mixed) /\ ws'.burst = (ws.burst \/ rest)
    BY <1>13, <2>1, <2>2, <2>4, <2>7
  <2> QED  BY <1>7, <1>8, <1>10, <1>11, <1>16, <2>8, <2>9 DEF Turn
<1> QED  BY <1>14, <1>15, <1>16

-----------------------------------------------------------------------------
(* Types. *)

\* A step that neither receives nor sends pieces.  Where it leaves the connection
\* able to receive the first piece of a frame, it was able before.
SameFrame ==
  /\ UNCHANGED <<long, net, sent, given>>
  /\ ws'.buf = ws.buf /\ ws'.length = ws.length /\ ws'.burst = ws.burst
  /\ client' \in {client, "gone"}
  /\ ws.mixed => ws'.mixed
  /\ ~ ws'.mixed /\ Fresh' => Fresh

\* Typed, without the frames.
Shape ==
  /\ ws.status = "PROCESS" => ws.life = "http"
  /\ ws.open => ws.timer
  /\ main \in {"http", "on", "done"} \cup Suspended
  /\ watcher \in {"none", "loop", "check", "done"} \cup Suspended
  /\ watcher = "done" => ws.life = "closed"
  /\ ops \in 0..MaxOps
  /\ exiting \in BOOLEAN /\ stale \in BOOLEAN

LEMMA CloseClientSame ==
  ASSUME NEW e \in Socket, NEW k, CloseClient(e, k)
  PROVE  /\ ws'.buf = e.buf /\ ws'.length = e.length /\ ws'.burst = e.burst
         /\ ws'.mixed = e.mixed /\ ws'.life = "cut" /\ ~ ws'.open
         /\ ws'.fn = "none" /\ ws'.status = "WAIT"
  BY DEF CloseClient, Socket

LEMMA LeaveEarlySame ==
  ASSUME IInv, Typed, LeaveEarly
  PROVE  SameFrame /\ Shape'
<1>1. /\ ws.fn = "processing" /\ ws' = [ws EXCEPT !.open = FALSE, !.fn = "none"]
      /\ UNCHANGED <<main, watcher, ops, long, net, client, sent, given, exiting, stale>>
  BY DEF LeaveEarly, Loop, coroutines, peer
<1>2. ws.life = "http" /\ ws \in Socket
  BY <1>1, SocketFacts DEF Callback
<1>3. /\ ws'.buf = ws.buf /\ ws'.length = ws.length /\ ws'.burst = ws.burst
      /\ ws'.mixed = ws.mixed /\ ws'.life = "http" /\ ~ ws'.open
  BY <1>1, <1>2 DEF Socket
<1> QED  BY <1>1, <1>2, <1>3 DEF SameFrame, Shape, Typed, Fresh

LEMMA UpgradeSame ==
  ASSUME IInv, Typed, Upgrade
  PROVE  SameFrame /\ Shape'
<1>1. /\ ws.life = "http" /\ ws \in Socket /\ watcher = "none"
      /\ UNCHANGED <<ops, long, net, client, sent, given, exiting>>
  BY SocketFacts DEF Upgrade, coroutines, peer, IInv
<1>2. CASE exiting
  <2>1. CloseClient(ws, wk) /\ stale' = TRUE /\ UNCHANGED <<main, watcher>>
    BY <1>2 DEF Upgrade, coroutines
  <2>2. /\ ws'.buf = ws.buf /\ ws'.length = ws.length /\ ws'.burst = ws.burst
        /\ ws'.mixed = ws.mixed /\ ws'.life = "cut" /\ ~ ws'.open
        /\ ws'.fn = "none" /\ ws'.status = "WAIT"
    BY <1>1, <2>1, CloseClientSame
  <2> QED  BY <1>1, <2>1, <2>2 DEF SameFrame, Shape, Typed, Fresh
<1>3. CASE ~ exiting
  <2>1. /\ ws' = [ws EXCEPT !.life = "ws", !.status = "WAIT",
                            !.fn = IF ws.open THEN "read" ELSE "none"]
        /\ main' = "on" /\ watcher' = "loop" /\ stale' = stale
    BY <1>3 DEF Upgrade
  <2>2. /\ ws'.buf = ws.buf /\ ws'.length = ws.length /\ ws'.burst = ws.burst
        /\ ws'.mixed = ws.mixed /\ ws'.life = "ws" /\ ws'.open = ws.open
        /\ ws'.timer = ws.timer /\ ws'.status = "WAIT"
    BY <1>1, <2>1 DEF Socket
  <2> QED  BY <1>1, <2>1, <2>2 DEF SameFrame, Shape, Typed, Fresh
<1> QED  BY <1>2, <1>3

LEMMA ReadEndSame ==
  ASSUME IInv, Typed, ReadEnd
  PROVE  SameFrame /\ Shape'
<1>1. /\ ws' = [ws EXCEPT !.ended = TRUE] /\ ws \in Socket
      /\ UNCHANGED <<main, watcher, ops, long, net, client, sent, given, exiting, stale>>
  BY SocketFacts DEF ReadEnd, coroutines, peer
<1>2. /\ ws'.buf = ws.buf /\ ws'.length = ws.length /\ ws'.burst = ws.burst
      /\ ws'.mixed = ws.mixed /\ ws'.life = ws.life /\ ws'.open = ws.open
      /\ ws'.timer = ws.timer /\ ws'.status = ws.status /\ ws'.fn = ws.fn
  BY <1>1 DEF Socket
<1> QED  BY <1>1, <1>2 DEF SameFrame, Shape, Typed, Fresh

LEMMA WriteSame ==
  ASSUME IInv, Typed, WriteDone \/ WriteFail
  PROVE  SameFrame /\ Shape'
<1>1. /\ ws.open /\ ws.fn = "write" /\ main' \in {main, "on"} /\ ws \in Socket
      /\ UNCHANGED <<watcher, ops, long, net, client, sent, given, exiting, stale>>
  BY SocketFacts DEF WriteDone, WriteFail, Loop, ResumeMain, peer
<1>2. ws.life = "ws" /\ (~ ws.mixed => ws.status = "SEND")
  BY <1>1, WriterFacts
<1>3. \/ ws' = [ws EXCEPT !.status = "WAIT", !.busy = FALSE, !.fn = "read"]
      \/ ws' = [ws EXCEPT !.open = FALSE, !.timer = FALSE, !.fn = "none"]
  BY DEF WriteDone, WriteFail
<1>4. /\ ws'.buf = ws.buf /\ ws'.length = ws.length /\ ws'.burst = ws.burst
      /\ ws'.mixed = ws.mixed /\ ws'.life = ws.life
      /\ (ws'.open => ws'.timer) /\ (ws'.status = "PROCESS" => ws.status = "PROCESS")
      /\ ws'.fn \in {"read", "none"}
  BY <1>1, <1>3 DEF Socket, Typed
<1>5. ~ ws'.mixed => Fresh
  BY <1>1, <1>2, <1>4 DEF Fresh
<1> QED  BY <1>1, <1>2, <1>4, <1>5 DEF SameFrame, Shape, Typed, Suspended

LEMMA AnswerSame ==
  ASSUME IInv, Typed, Answered \/ TimeoutHandle
  PROVE  SameFrame /\ Shape'
<1>1. ws \in Socket /\ ws.life = "ws"
      /\ UNCHANGED <<main, watcher, ops, long, net, client, sent, given, exiting, stale>>
  <2>1. CASE Answered
    <3>1. ws.fn = "answer" /\ ws.open
      BY <2>1 DEF Answered, Loop
    <3> QED  BY <2>1, <3>1, SocketFacts DEF Answered, Callback, Socket, coroutines, peer
  <2>2. CASE TimeoutHandle
    BY <2>2, SocketFacts DEF TimeoutHandle, coroutines, peer
  <2> QED  BY <2>1, <2>2
<1>2. \/ CloseClient(ws, wk) \/ CloseClient(ws, Sending(wk, -1))
      \/ ws' = [ws EXCEPT !.status = "SEND", !.fn = "answer"]
  BY DEF Answered, TimeoutHandle
<1>3. CASE CloseClient(ws, wk) \/ CloseClient(ws, Sending(wk, -1))
  <2>1. /\ ws'.buf = ws.buf /\ ws'.length = ws.length /\ ws'.burst = ws.burst
        /\ ws'.mixed = ws.mixed /\ ws'.life = "cut" /\ ~ ws'.open
        /\ ws'.fn = "none" /\ ws'.status = "WAIT"
    BY <1>1, <1>3, CloseClientSame
  <2> QED  BY <1>1, <2>1 DEF SameFrame, Shape, Typed, Fresh
<1>4. CASE ws' = [ws EXCEPT !.status = "SEND", !.fn = "answer"]
  <2>1. /\ ws'.buf = ws.buf /\ ws'.length = ws.length /\ ws'.burst = ws.burst
        /\ ws'.mixed = ws.mixed /\ ws'.life = ws.life /\ ws'.open = ws.open
        /\ ws'.timer = ws.timer /\ ws'.fn = "answer" /\ ws'.status = "SEND"
    BY <1>1, <1>4 DEF Socket
  <2> QED  BY <1>1, <2>1 DEF SameFrame, Shape, Typed, Fresh
<1> QED  BY <1>2, <1>3, <1>4

\* A call of a coroutine.
LEMMA CallSame ==
  ASSUME IInv, Typed, NEW r \in Calls(ws, wk), ws' = r.e, ws.life = "ws",
         UNCHANGED <<long, net, sent, client, given>>
  PROVE  /\ SameFrame /\ r.who \in {"on"} \cup Suspended
         /\ ws'.life = "ws" /\ ws'.open = ws.open /\ ws'.timer = ws.timer
         /\ ws'.status # "PROCESS"
<1>1. ws \in Socket /\ wk \in Counts /\ Callback(ws)
  BY SocketFacts
<1>2. /\ r.e.life = ws.life /\ r.e.open = ws.open /\ r.e.timer = ws.timer
      /\ r.e.buf = ws.buf /\ r.e.length = ws.length /\ r.e.burst = ws.burst
      /\ r.who \in {"on"} \cup Suspended
      /\ ws.mixed => r.e.mixed
      /\ \/ r.e.fn = ws.fn /\ r.e.status = ws.status
         \/ /\ r.e.fn = "write" /\ r.e.status = "SEND" /\ ~ ws.busy /\ ws.open
            /\ ~ r.e.mixed => ws.status = "WAIT"
  BY <1>1, CallsSteady
<1>3. ~ ws'.mixed /\ Fresh' => Fresh
  <2>1. CASE r.e.fn = ws.fn /\ r.e.status = ws.status
    BY <1>2, <2>1 DEF Fresh
  <2>2. CASE ~ ws.busy /\ ws.open /\ (~ r.e.mixed => ws.status = "WAIT")
    <3>1. ~ r.e.mixed => ws.fn = "read"
      BY <1>1, <2>2 DEF Callback, Socket
    <3> QED  BY <2>2, <3>1 DEF Fresh
  <2> QED  BY <1>2, <2>1, <2>2
<1>4. ws'.status # "PROCESS"
  BY <1>2 DEF Typed
<1> QED  BY <1>2, <1>3, <1>4 DEF SameFrame

\* A step that leaves the socket alone.
LEMMA SocketSame ==
  ASSUME UNCHANGED <<ws, long, net, sent, given>>, client' \in {client, "gone"}
  PROVE  SameFrame
  BY DEF SameFrame, Fresh

LEMMA MainSame ==
  ASSUME IInv, Typed, MainCall \/ MainEnd
  PROVE  SameFrame /\ Shape'
<1>1. /\ main = "on" /\ UNCHANGED <<watcher, long, net, client, sent, given, exiting>>
      /\ ops' \in 0..MaxOps
  <2>1. CASE MainCall
    BY <2>1, BoundsAssumption DEF MainCall, peer, Typed, BoundsAssumption
  <2>2. CASE MainEnd
    BY <2>2 DEF MainEnd, peer, Typed
  <2> QED  BY <2>1, <2>2
<1>2. CASE MainCall /\ Freed
  <2>1. stale' = TRUE /\ UNCHANGED <<ws, main>>
    BY <1>2 DEF MainCall
  <2> QED  BY <1>1, <2>1, SocketSame DEF Typed, Shape
<1>3. CASE MainCall /\ ~ Freed
  <2>1. PICK r \in Calls(ws, wk) : ws' = r.e /\ main' = r.who /\ stale' = stale
    BY <1>3 DEF MainCall
  <2>2. ws.life = "ws"
    BY <1>1, <1>3, SocketFacts DEF Freed, IInv, Socket
  <2>3. /\ SameFrame /\ r.who \in {"on"} \cup Suspended
        /\ ws'.life = "ws" /\ ws'.open = ws.open /\ ws'.timer = ws.timer
        /\ ws'.status # "PROCESS"
    BY <1>1, <2>1, <2>2, CallSame
  <2> QED  BY <1>1, <2>1, <2>2, <2>3 DEF Typed, Shape
<1>4. CASE MainEnd
  <2>1. main' = "done" /\ ws' = ws /\ stale' \in BOOLEAN
    BY <1>4 DEF MainEnd
  <2> QED  BY <1>1, <2>1, SocketSame DEF Typed, Shape
<1> QED  BY <1>2, <1>3, <1>4

LEMMA WatcherSame ==
  ASSUME IInv, Typed, Watcher
  PROVE  SameFrame /\ Shape'
<1>1. /\ watcher \in {"loop", "check"}
      /\ UNCHANGED <<main, ops, long, net, client, sent, given, exiting>>
  BY DEF Watcher, WatcherLoop, CheckClose, peer
<1>2. ws.life # "http" /\ ws \in Socket
  BY <1>1, SocketFacts DEF IInv
<1>3. CASE Freed
  <2>1. stale' = TRUE /\ UNCHANGED <<ws, watcher>>
    BY <1>3 DEF Watcher, WatcherLoop, CheckClose
  <2> QED  BY <1>1, <2>1, SocketSame DEF Typed, Shape
<1>4. CASE WatcherLoop /\ ~ Freed
  <2>1. PICK r \in Calls(ws, wk) :
          /\ ws' = r.e /\ stale' = stale
          /\ watcher' = IF r.who = "on" THEN "check" ELSE r.who
    BY <1>4 DEF WatcherLoop
  <2>2. ws.life = "ws"
    BY <1>2, <1>4 DEF Freed, Socket
  <2>3. /\ SameFrame /\ r.who \in {"on"} \cup Suspended
        /\ ws'.life = "ws" /\ ws'.open = ws.open /\ ws'.timer = ws.timer
        /\ ws'.status # "PROCESS"
    BY <1>1, <2>1, <2>2, CallSame
  <2>4. watcher' \in {"check"} \cup Suspended
    BY <2>1, <2>3 DEF Suspended
  <2> QED  BY <1>1, <2>1, <2>2, <2>3, <2>4 DEF Typed, Shape, Suspended
<1>5. CASE CheckClose /\ ~ Freed
  <2>1. stale' = stale
    BY <1>5 DEF CheckClose
  <2>2. CASE watcher' = "loop" /\ ws' = ws
    BY <1>1, <2>1, <2>2, SocketSame DEF Typed, Shape
  <2>3. CASE /\ ws' = [ws EXCEPT !.life = "closed", !.fn = "none",
                                 !.open = FALSE, !.timer = FALSE]
             /\ watcher' = "done"
    <3>1. /\ ws'.buf = ws.buf /\ ws'.length = ws.length /\ ws'.burst = ws.burst
          /\ ws'.mixed = ws.mixed /\ ws'.life = "closed" /\ ~ ws'.open
          /\ ws'.fn = "none" /\ ws'.status = ws.status
      BY <1>2, <2>3 DEF Socket
    <3> QED  BY <1>1, <1>2, <2>1, <2>3, <3>1 DEF SameFrame, Shape, Typed, Fresh
  <2> QED  BY <1>5, <2>2, <2>3 DEF CheckClose
<1> QED  BY <1>3, <1>4, <1>5 DEF Watcher

LEMMA OthersSame ==
  ASSUME IInv, Typed, ReadNoMore \/ ClientLeave \/ BeginExit \/ UNCHANGED vars
  PROVE  SameFrame /\ Shape'
<1>1. /\ UNCHANGED <<ws, main, watcher, ops, long, net, sent, given, stale>>
      /\ client' \in {client, "gone"} /\ exiting' \in {exiting, TRUE}
  BY DEF ReadNoMore, ClientLeave, BeginExit, vars, coroutines, peer
<1> QED  BY <1>1, SocketSame DEF Typed, Shape

\* Every step but those that receive and send.
LEMMA StepsSame ==
  ASSUME IInv, Typed, [Next]_vars, ~ BeRead, ~ ClientSend
  PROVE  SameFrame /\ Shape'
<1>1. CASE Next
  BY <1>1, LeaveEarlySame, UpgradeSame, ReadEndSame, WriteSame, AnswerSame, MainSame,
     WatcherSame, OthersSame, Zenon DEF Next
<1>2. CASE UNCHANGED vars
  BY <1>2, OthersSame
<1> QED  BY <1>1, <1>2

LEMMA TypedKeeps ==
  ASSUME IInv, Typed, given \in Seq(Seq(Piece)), [Next]_vars
  PROVE  Typed' /\ given' \in Seq(Seq(Piece))
<1>1. /\ ws \in Socket /\ net \in Seq(Piece) /\ ws.buf \in Seq(Piece)
      /\ Len(ws.buf) \in Nat /\ Len(net) \in Nat /\ sent \in Nat /\ MaxFrames \in Nat
  <2>1. ws \in Socket /\ net \in Seq(Piece) /\ sent \in Nat
    BY SocketFacts DEF IInv
  <2>2. MaxFrames \in Nat
    BY BoundsAssumption DEF BoundsAssumption
  <2> QED  BY <2>1, <2>2 DEF Socket
<1>2. CASE BeRead
  <2>1. PICK n \in 1..Len(net), length \in 1..Far : Turn(n, length)
    BY <1>2, BeReadTurns DEF Typed
  <2>2. UNCHANGED <<main, watcher, ops, long, client, sent, exiting, stale>>
    BY <1>2 DEF BeRead, coroutines
  <2>3. Heap(n) \in Seq(Piece) /\ Len(Heap(n)) <= Len(ws.buf) + n
        /\ Len(Heap(n)) \in Nat
    BY <1>1, HeapIsPieces
  <2>4. /\ net' = SubSeq(net, n + 1, Len(net))
        /\ ws'.life = ws.life /\ ws'.open = ws.open /\ ws'.timer = ws.timer
        /\ ws'.length \in {-1} \cup 1..Far /\ ws'.status # "PROCESS"
        /\ ws'.buf \in {Heap(n), <<>>}
        /\ given' = given \/ (given' = Append(given, SubSeq(Heap(n), 1, length))
                                /\ Len(Heap(n)) >= length)
    BY <2>1 DEF Turn
  <2>5. Len(net') = Len(net) - n
    BY <1>1, <2>4
  <2>6. Len(ws'.buf) + Len(net') <= Len(ws.buf) + Len(net)
    <3>1. CASE ws'.buf = Heap(n)
      BY <1>1, <2>3, <2>5, <3>1
    <3>2. CASE ws'.buf = <<>>
      BY <1>1, <2>5, <3>2
    <3> QED  BY <2>4, <3>1, <3>2
  <2>7. given' \in Seq(Seq(Piece))
    <3>1. CASE given' = given
      BY <3>1
    <3>2. CASE given' = Append(given, SubSeq(Heap(n), 1, length))
                 /\ Len(Heap(n)) >= length
      <4>1. SubSeq(Heap(n), 1, length) \in Seq(Piece)
        BY <2>3, <3>2
      <4> QED  BY <3>2, <4>1
    <3> QED  BY <2>4, <3>1, <3>2
  <2>8. Len(ws'.buf) + Len(net') <= sent' + (IF client' = "on" THEN 0 ELSE 1)
    <3>1. Len(ws.buf) + Len(net) <= sent + (IF client = "on" THEN 0 ELSE 1)
      BY DEF Typed
    <3>2. Len(ws'.buf) \in Nat /\ Len(net') \in Nat
      <4>1. ws'.buf \in Seq(Piece)
        <5>1. <<>> \in Seq(Piece)
          OBVIOUS
        <5> QED  BY <2>3, <2>4, <5>1
      <4> QED  BY <1>1, <2>5, <4>1
    <3> QED  BY <1>1, <2>2, <2>6, <3>1, <3>2
  <2> QED  BY <2>2, <2>4, <2>7, <2>8 DEF Typed
<1>3. CASE ClientSend
  <2>1. /\ client = "on"
        /\ UNCHANGED <<ws, main, watcher, ops, long, given, exiting, stale>>
    BY <1>3 DEF ClientSend, coroutines
  <2>2. PICK a \in Nat, b \in Nat : a = Len(ws.buf) /\ b = Len(net) /\ a + b <= sent
    BY <1>1, <2>1 DEF Typed
  <2>3. CASE /\ sent < 2 * MaxFrames /\ sent' = sent + 1 /\ client' = client
             /\ \E p : net' = Append(net, p)
    <3>1. Len(net') = b + 1 /\ Len(ws'.buf) = a
      BY <1>1, <2>1, <2>2, <2>3
    <3>2. sent' \in 0..2 * MaxFrames /\ sent' = sent + 1
      BY <1>1, <2>3
    <3>3. a + (b + 1) <= sent + 1
      <4>1. a + b <= sent /\ sent \in Nat
        BY <1>1, <2>2
      <4> QED  BY <4>1
    <3>4. client' = "on" /\ Len(ws'.buf) + Len(net') <= sent'
      BY <2>1, <2>3, <3>1, <3>2, <3>3, Zenon
    <3> QED  BY <2>1, <3>2, <3>4 DEF Typed
  <2>4. CASE sent' = sent /\ client' = "closing" /\ net' = Append(net, Close)
    <3>1. Len(net') = b + 1 /\ Len(ws'.buf) = a
      BY <1>1, <2>1, <2>2, <2>4
    <3>2. a + (b + 1) <= sent + 1
      <4>1. a + b <= sent /\ sent \in Nat
        BY <1>1, <2>2
      <4> QED  BY <4>1
    <3>3. Len(ws'.buf) + Len(net') <= sent' + 1
      BY <2>4, <3>1, <3>2, Zenon
    <3> QED  BY <2>1, <2>4, <3>3 DEF Typed
  <2> QED  BY <1>3, <2>3, <2>4 DEF ClientSend
<1>4. CASE ~ BeRead /\ ~ ClientSend
  <2>1. SameFrame /\ Shape'
    BY <1>4, StepsSame
  <2>2. /\ UNCHANGED <<long, net, sent, given>> /\ client' \in {client, "gone"}
        /\ ws'.buf = ws.buf /\ ws'.length = ws.length
    BY <2>1 DEF SameFrame
  <2>3. Len(ws'.buf) + Len(net') <= sent' + (IF client' = "on" THEN 0 ELSE 1)
    BY <1>1, <2>2 DEF Typed
  <2> QED  BY <2>1, <2>2, <2>3 DEF Typed, Shape
<1> QED  BY <1>2, <1>3, <1>4

-----------------------------------------------------------------------------
(* The messages. *)

\* The stream is header, rest, header, rest.
LEMMA StreamPieces ==
  ASSUME NEW g \in Nat
  PROVE  Stream(2 * g + 1) = Pieces(g + 1)[1] /\ Stream(2 * g + 2) = Pieces(g + 1)[2]
<1>1. ((2 * g + 1) - 1) \div 2 = g /\ ((2 * g + 1) - 1) % 2 = 0
  OBVIOUS
<1>2. ((2 * g + 2) - 1) \div 2 = g /\ ((2 * g + 2) - 1) % 2 = 1
  OBVIOUS
<1> QED  BY <1>1, <1>2 DEF Stream

\* When m more pieces are received the rest is still on its way.
LEMMA PendingReceived ==
  ASSUME NEW r \in Nat, NEW m \in 1..Len(net), net \in Seq(Piece), sent \in Nat,
         Pending(r), r + m <= sent,
         net' = SubSeq(net, m + 1, Len(net)), UNCHANGED <<sent, client>>
  PROVE  Pending(r + m)'
<1>1. Len(net') = Len(net) - m /\ \A i \in 1..Len(net') : net'[i] = net[i + m]
  OBVIOUS
<1>2. Len(net') = sent' - (r + m)
        \/ (Len(net') = sent' - (r + m) + 1 /\ client' # "on" /\ sent' % 2 = 0)
  BY <1>1 DEF Pending
<1>3. ASSUME NEW i \in 1..Len(net')
      PROVE  net'[i] = IF (r + m) + i <= sent' THEN Stream((r + m) + i) ELSE Close
  <2>1. i + m \in 1..Len(net) /\ r + (i + m) = (r + m) + i
    BY <1>1
  <2>2. net[i + m] = IF r + (i + m) <= sent THEN Stream(r + (i + m)) ELSE Close
    BY <2>1 DEF Pending
  <2> QED  BY <1>1, <2>1, <2>2
<1> QED  BY <1>2, <1>3 DEF Pending

\* With one more message given, the messages are still the frames.
LEMMA GivenGrows ==
  ASSUME given \in Seq(Seq(Piece)), given = [i \in 1..Len(given) |-> Pieces(i)],
         given' = Append(given, Pieces(Len(given) + 1))
  PROVE  given' = [i \in 1..Len(given') |-> Pieces(i)] /\ Len(given') = Len(given) + 1
<1>1. Len(given) \in Nat
  OBVIOUS
<1>2. Len(given') = Len(given) + 1
  OBVIOUS
<1>3. \A i \in 1..Len(given') : given'[i] = Pieces(i)
  BY <1>1, <1>2
<1>4. given' = [i \in 1..Len(given') |-> given'[i]]
  OBVIOUS
<1> QED  BY <1>2, <1>3, <1>4

\* What was given stays given, and nothing is claimed of what comes after.
LEMMA LostStays ==
  ASSUME given \in Seq(Seq(Piece)), Lost, long' = long,
         given' = given \/ \E m : given' = Append(given, m)
  PROVE  Lost'
<1>1. PICK g \in Nat : g = Len(given)
  OBVIOUS
<1>2. PICK lost \in 1..g : lost \in long
  BY <1>1 DEF Lost
<1>3. PICK h \in Nat : /\ h = Len(given') /\ h \in {g, g + 1}
                      /\ \A i \in 1..g : given'[i] = given[i]
  <2>1. CASE given' = given
    BY <1>1, <2>1
  <2>2. CASE \E m : given' = Append(given, m)
    BY <1>1, <2>2
  <2> QED  BY <2>1, <2>2
<1>4. ASSUME NEW i \in 1..h, \A j \in 1..i : j \notin long
      PROVE  given'[i] = Pieces(i)
  <2>1. i \in 1..g
    BY <1>2, <1>3, <1>4
  <2> QED  BY <1>1, <1>3, <1>4, <2>1 DEF Lost
<1>5. lost \in 1..h
  BY <1>2, <1>3
<1> QED  BY <1>2, <1>3, <1>4, <1>5 DEF Lost

\* A long message is given: whatever it is, those before it were right.
LEMMA LongGiven ==
  ASSUME given \in Seq(Seq(Piece)), given = [i \in 1..Len(given) |-> Pieces(i)],
         NEW g \in Nat, g = Len(given), g + 1 \in long, long' = long,
         NEW m, given' = Append(given, m)
  PROVE  Lost'
<1>1. Len(given') = g + 1 /\ \A i \in 1..g : given'[i] = Pieces(i)
  OBVIOUS
<1>2. ASSUME NEW i \in 1..g + 1, \A j \in 1..i : j \notin long
      PROVE  given'[i] = Pieces(i)
  <2>1. i \in 1..g
    BY <1>2
  <2> QED  BY <1>1, <2>1
<1>3. g + 1 \in 1..g + 1
  OBVIOUS
<1> QED  BY <1>1, <1>2, <1>3 DEF Lost

LEMMA SameKeeps ==
  ASSUME FInv, SameFrame
  PROVE  FInv'
<1>1. UNCHANGED <<long, net, sent, given>>
      /\ ws'.buf = ws.buf /\ ws'.length = ws.length
      /\ ws'.burst = ws.burst /\ client' \in {client, "gone"}
      /\ (ws.mixed => ws'.mixed) /\ (~ ws'.mixed /\ Fresh' => Fresh)
  BY DEF SameFrame
<1>2. ASSUME ~ ws'.mixed, ~ ws'.burst, Whole
      PROVE  Whole'
  <2>1. Whole
    BY <1>2
  <2>2. ASSUME NEW r, Pending(r)
        PROVE  Pending(r)'
    BY <1>1, <2>2 DEF Pending
  <2>3. (Between \/ Inside \/ Closed)'
    <3>1. CASE Between
      <4>1. Pending(2 * Len(given))'
        BY <1>1, <2>2, <3>1 DEF Between
      <4> QED  BY <1>1, <3>1, <4>1 DEF Between
    <3>2. CASE Inside
      <4>1. Pending(2 * Len(given) + 1)'
        BY <1>1, <2>2, <3>2 DEF Inside
      <4> QED  BY <1>1, <3>2, <4>1 DEF Inside
    <3>3. CASE Closed
      BY <1>1, <3>3 DEF Closed
    <3> QED  BY <2>1, <3>1, <3>2, <3>3 DEF Whole
  <2> QED  BY <1>1, <1>2, <2>1, <2>3 DEF Whole
<1>3. ASSUME Lost
      PROVE  Lost'
  BY <1>1, <1>3 DEF Lost
<1> QED  BY <1>1, <1>2, <1>3 DEF FInv

\* What is left after a whole number of frames: both pieces of the next.
LEMMA NextFrame ==
  ASSUME NEW g \in Nat, NEW s \in Nat, NEW l \in Nat,
         l = s - 2 * g \/ (l = s - 2 * g + 1 /\ s % 2 = 0)
  PROVE  /\ 2 * g < s /\ l >= 2 => 2 * g + 2 <= s
         /\ s <= 2 * g /\ l >= 1 /\ 2 * g <= s => l = 1 /\ s = 2 * g
  OBVIOUS

LEMMA EvenAfterOdd ==
  ASSUME NEW g \in Nat, NEW s \in Nat, 2 * g + 1 <= s, s % 2 = 0
  PROVE  2 * g + 2 <= s
  OBVIOUS

\* Frames in two pieces.
LEMMA PiecesFacts ==
  ASSUME NEW i \in Nat
  PROVE  /\ Pieces(i) = <<Pieces(i)[1], Pieces(i)[2]>>
         /\ Pieces(i)[1].part = "head" /\ Pieces(i)[2].part = "rest"
         /\ Pieces(i)[1].frame = i
         /\ Pieces(i)[1] \in Piece
         /\ i # 0 => Pieces(i)[1] # Close
<1> DEFINE a == [frame |-> i, part |-> "head"]
           b == [frame |-> i, part |-> "rest"]
<1>1. a \in Piece /\ a.part = "head" /\ a.frame = i /\ b.part = "rest"
  BY DEF Piece
<1>2. i # 0 => a # Close
  BY DEF Close
<1> HIDE DEF a, b
<1>3. Pieces(i) = <<a, b>>
  BY DEF Pieces, a, b
<1> QED  BY <1>1, <1>2, <1>3

\* Sequences of one and of two elements.
LEMMA OneElement ==
  ASSUME NEW S, NEW s \in Seq(S), Len(s) = 1
  PROVE  s = <<s[1]>>
  OBVIOUS

LEMMA TwoElements ==
  ASSUME NEW S, NEW s \in Seq(S), Len(s) = 2
  PROVE  s = <<s[1], s[2]>>
  OBVIOUS

LEMMA FirstOne ==
  ASSUME NEW S, NEW s \in Seq(S), Len(s) >= 1
  PROVE  SubSeq(s, 1, 1) = <<s[1]>>
<1> DEFINE t == SubSeq(s, 1, 1)
<1>1. t \in Seq(S) /\ Len(t) = 1 /\ t[1] = s[1]
  OBVIOUS
<1> HIDE DEF t
<1>2. t = <<t[1]>>
  BY <1>1, OneElement
<1> QED  BY <1>1, <1>2 DEF t

LEMMA FirstTwo ==
  ASSUME NEW S, NEW s \in Seq(S), Len(s) >= 2
  PROVE  SubSeq(s, 1, 2) = <<s[1], s[2]>>
<1> DEFINE t == SubSeq(s, 1, 2)
<1>1. t \in Seq(S) /\ Len(t) = 2 /\ t[1] = s[1] /\ t[2] = s[2]
  OBVIOUS
<1> HIDE DEF t
<1>2. t = <<t[1], t[2]>>
  BY <1>1, TwoElements
<1> QED  BY <1>1, <1>2 DEF t

LEMMA Pair ==
  ASSUME NEW S, NEW a \in S, NEW b \in S
  PROVE  /\ <<a>> \o <<b>> = <<a, b>> /\ SubSeq(<<a, b>>, 1, 2) = <<a, b>>
         /\ Len(<<a, b>>) = 2
<1> DEFINE x == <<a>>
           y == <<b>>
           t == x \o y
           p == <<a, b>>
<1>1. /\ x \in Seq(S) /\ Len(x) = 1 /\ x[1] = a
      /\ y \in Seq(S) /\ Len(y) = 1 /\ y[1] = b
      /\ p \in Seq(S) /\ Len(p) = 2 /\ p[1] = a /\ p[2] = b
  OBVIOUS
<1> HIDE DEF x, y
<1>2. t \in Seq(S) /\ Len(t) = 2 /\ t[1] = a /\ t[2] = b
  BY <1>1 DEF x, y
<1> HIDE DEF t
<1>3. t = <<a, b>>
  BY <1>2, TwoElements
<1> HIDE DEF p
<1>4. SubSeq(p, 1, 2) = <<a, b>>
  BY <1>1, FirstTwo
<1> QED  BY <1>1, <1>3, <1>4 DEF t, x, y, p

\* What is received between two frames, and behind a header.
LEMMA HeapBetween ==
  ASSUME ws.buf = <<>>, net \in Seq(Piece), NEW n \in 1..Len(net)
  PROVE  Heap(n) = SubSeq(net, 1, n)
<1> DEFINE p == SubSeq(net, 1, n)
<1>1. p \in Seq(Piece) /\ Len(p) = n
  OBVIOUS
<1>2. ws.buf \o p = p
  BY <1>1
<1>3. SubSeq(p, 1, n) = p
  BY <1>1
<1> QED  BY <1>2, <1>3 DEF Heap

LEMMA HeapInside ==
  ASSUME NEW h \in Piece, ws.buf = <<h>>, ws.status = "READ", net \in Seq(Piece),
         1 \in 1..Len(net)
  PROVE  Heap(1) = <<h, net[1]>>
<1>1. SubSeq(net, 1, 1) = <<net[1]>>
  BY FirstOne
<1>2. <<h>> \o <<net[1]>> = <<h, net[1]>>
  <2>1. net[1] \in Piece
    OBVIOUS
  <2> QED  BY <2>1, Pair
<1> QED  BY <1>1, <1>2 DEF Heap

\* The state of the reader between two frames, as it is after a turn.
LEMMA BetweenNext ==
  ASSUME NEW g \in Nat, Len(given') = g, ws'.buf = <<>>, ws'.length = -1,
         Pending(2 * g)'
  PROVE  Between'
  BY DEF Between

\* A turn that completes a frame.
LEMMA FrameGiven ==
  ASSUME given \in Seq(Seq(Piece)), given = [i \in 1..Len(given) |-> Pieces(i)],
         NEW g \in Nat, g = Len(given), ws'.buf = <<>>, ws'.length = -1,
         given' = Append(given, Pieces(g + 1)), Pending(2 * (g + 1))'
  PROVE  Whole'
<1>1. given' = [i \in 1..Len(given') |-> Pieces(i)] /\ Len(given') = g + 1
  BY GivenGrows
<1>2. g + 1 \in Nat
  OBVIOUS
<1>3. Between'
  BY <1>1, <1>2, BetweenNext
<1> QED  BY <1>1, <1>3 DEF Whole

LEMMA BeReadWhole ==
  ASSUME IInv, Typed, FInv, BeRead, ~ ws'.mixed, ~ ws'.burst, Whole
  PROVE  Whole' \/ Lost'
<1>1. PICK n \in 1..Len(net), length \in 1..Far : Turn(n, length)
  BY BeReadTurns DEF Typed
<1>2. PICK g \in Nat : g = Len(given)
  BY DEF FInv
<1>3. ~ ws.mixed /\ ~ ws.burst /\ ~ ws.busy
      /\ \A i \in 1..n - 1 : net[i].part # "rest"
  BY <1>1 DEF Turn, FInv
<1>4. /\ ws.fn = "read" /\ ws.life = "ws" /\ ws.status \in {"WAIT", "READ"}
  <2>1. ws.open /\ (ws.fn = "read" \/ again)
    BY DEF BeRead
  <2>2. /\ ws.life = "ws" /\ ws.fn \in {"read", "write"}
        /\ ws.fn = "read" => (ws.status = "SEND" => ws.mixed)
        /\ ws.fn = "write" => ws.busy
    BY <2>1, ReaderFacts
  <2> QED  BY <1>3, <2>2, SocketFacts DEF Typed, Socket
<1>5. UNCHANGED <<long, sent, client>> /\ net \in Seq(Piece) /\ sent \in Nat
      /\ Len(net) \in Nat /\ Len(net) >= n /\ n >= 1
      /\ net' = SubSeq(net, n + 1, Len(net)) /\ ws'.life = "ws"
  <2>1. UNCHANGED <<long, sent, client>> /\ net \in Seq(Piece) /\ sent \in Nat
    BY DEF BeRead, IInv
  <2>2. net' = SubSeq(net, n + 1, Len(net)) /\ ws'.life = "ws"
    BY <1>1, <1>4 DEF Turn
  <2> QED  BY <2>1, <2>2
<1>6. given = [i \in 1..Len(given) |-> Pieces(i)] /\ given \in Seq(Seq(Piece))
  BY DEF Whole, FInv
<1>7. /\ g + 1 \in Nat /\ g + 1 # 0 /\ 2 * g \in Nat /\ 2 * g + 1 \in Nat
      /\ Stream(2 * g + 1) = Pieces(g + 1)[1] /\ Stream(2 * g + 2) = Pieces(g + 1)[2]
      /\ 2 * (g + 1) = 2 * g + 2
  BY StreamPieces
<1>8. /\ Pieces(g + 1) = <<Pieces(g + 1)[1], Pieces(g + 1)[2]>>
      /\ Pieces(g + 1)[1].part = "head" /\ Pieces(g + 1)[2].part = "rest"
      /\ Pieces(g + 1)[1] # Close /\ Pieces(g + 1)[1] \in Piece
      /\ Pieces(g + 1)[1].frame = g + 1
  BY <1>7, PiecesFacts
<1>9. CASE Between
  <2>1. /\ ws.buf = <<>> /\ ws.length = -1 /\ 2 * g <= sent
        /\ Len(net) = sent - 2 * g
             \/ (Len(net) = sent - 2 * g + 1 /\ client # "on" /\ sent % 2 = 0)
        /\ \A i \in 1..Len(net) :
             net[i] = IF 2 * g + i <= sent THEN Stream(2 * g + i) ELSE Close
        /\ Pending(2 * g)
    BY <1>2, <1>9 DEF Between, Pending
  <2>2. Heap(n) = SubSeq(net, 1, n)
    BY <1>5, <2>1, HeapBetween
  <2>3. Heap(n)[1] = net[1] /\ Len(Heap(n)) = n
    BY <1>5, <2>2
  <2>4. PICK l \in Nat : l = Len(net)
    BY <1>5
  <2>5. /\ 2 * g < sent /\ l >= 2 => 2 * g + 2 <= sent
        /\ sent <= 2 * g => l = 1 /\ sent = 2 * g
    <3>1. l >= 1 /\ sent \in Nat
      BY <1>5, <2>4
    <3>2. 2 * g <= sent /\ (l = sent - 2 * g \/ (l = sent - 2 * g + 1 /\ sent % 2 = 0))
      BY <2>1, <2>4
    <3> QED  BY <3>1, <3>2, NextFrame
  <2>6. CASE 2 * g < sent
    <3>1. net[1] = Pieces(g + 1)[1]
      <4>1. 1 \in 1..Len(net) /\ 2 * g + 1 <= sent
        BY <1>5, <1>7, <2>6
      <4> QED  BY <1>7, <2>1, <4>1
    <3>2. length = IF g + 1 \in long THEN 1 ELSE 2
      BY <1>1, <1>8, <2>1, <2>3, <3>1 DEF Turn
    <3>3. CASE g + 1 \in long
      <4>1. ~ (Len(Heap(n)) < length) /\ Heap(n)[1].part = "head" /\ Heap(n)[1] # Close
        BY <1>5, <1>8, <2>3, <3>1, <3>2, <3>3
      <4>2. given' = Append(given, SubSeq(Heap(n), 1, length))
        BY <1>1, <4>1, Zenon DEF Turn
      <4> QED  BY <1>2, <1>5, <1>6, <3>3, <4>2, LongGiven
    <3>4. CASE g + 1 \notin long /\ n = 1
      <4>1. Heap(n) = <<Pieces(g + 1)[1]>>
        <5>1. SubSeq(net, 1, 1) = <<net[1]>>
          BY <1>5, <3>4, FirstOne
        <5> QED  BY <2>2, <3>1, <3>4, <5>1
      <4>2. /\ ws'.status = "READ" /\ ws'.buf = <<Pieces(g + 1)[1]>>
            /\ ws'.length = 2 /\ given' = given
        BY <1>1, <1>8, <2>1, <2>3, <3>1, <3>2, <3>4, <4>1 DEF Turn
      <4>3. Pending(2 * g + 1)'
        BY <1>5, <1>7, <2>1, <2>6, <3>4, PendingReceived
      <4>4. Inside'
        BY <1>2, <4>2, <4>3 DEF Inside
      <4>5. ~ Fresh'
        BY <1>5, <4>2 DEF Fresh
      <4> QED  BY <1>6, <4>2, <4>4, <4>5 DEF Whole
    <3>5. CASE g + 1 \notin long /\ n >= 2
      <4>1. 2 * g + 2 <= sent
        BY <1>5, <2>4, <2>5, <2>6, <3>5
      <4>2. net[2] = Pieces(g + 1)[2]
        <5>1. 2 \in 1..Len(net)
          BY <1>5, <3>5
        <5> QED  BY <1>7, <2>1, <4>1, <5>1
      <4>3. n = 2
        <5>1. ~ (2 \in 1..n - 1)
          BY <1>3, <1>8, <4>2
        <5> QED  BY <1>5, <3>5, <5>1
      <4>4. SubSeq(Heap(n), 1, length) = Pieces(g + 1)
        <5>1. SubSeq(net, 1, 2) = <<net[1], net[2]>>
          BY <1>5, <4>3, FirstTwo
        <5>2. SubSeq(<<net[1], net[2]>>, 1, 2) = <<net[1], net[2]>>
          <6>1. net[1] \in Piece /\ net[2] \in Piece
            BY <1>5, <4>3
          <6> QED  BY <6>1, Pair
        <5>3. Heap(n) = <<net[1], net[2]>>
          BY <2>2, <4>3, <5>1
        <5>4. length = 2
          BY <3>2, <3>5
        <5> QED  BY <1>8, <3>1, <4>2, <5>2, <5>3, <5>4
      <4>5. /\ ws'.buf = <<>> /\ ws'.length = -1
            /\ given' = Append(given, Pieces(g + 1))
        <5>1. ~ (Len(Heap(n)) < length) /\ Heap(n)[1].part = "head" /\ Heap(n)[1] # Close
          BY <1>8, <2>3, <3>1, <3>2, <4>3
        <5>2. given' = Append(given, SubSeq(Heap(n), 1, length))
                /\ ws'.buf = <<>> /\ ws'.length = -1
          BY <1>1, <5>1, Zenon DEF Turn
        <5> QED  BY <4>4, <5>2
      <4>6. Pending(2 * g + 2)'
        BY <1>5, <1>7, <2>1, <4>1, <4>3, PendingReceived
      <4> QED  BY <1>2, <1>6, <1>7, <4>5, <4>6, FrameGiven
    <3> QED  BY <1>5, <3>3, <3>4, <3>5
  <2>7. CASE ~ (2 * g < sent)
    <3>1. Len(net) = 1 /\ sent = 2 * g /\ n = 1
      BY <1>5, <1>7, <2>1, <2>4, <2>5, <2>7
    <3>2. net[1] = Close /\ client # "on"
      BY <1>5, <1>7, <2>1, <3>1
    <3>3. Close.part = "head"
      BY DEF Close
    <3>4. ws'.status = "READ" /\ ws'.buf = Heap(n) /\ given' = given
      BY <1>1, <2>1, <2>3, <3>2, <3>3 DEF Turn
    <3>5. ws'.buf # <<>> /\ net' = <<>>
      BY <1>5, <2>3, <3>1, <3>4
    <3>6. Closed' /\ ~ Fresh'
      BY <1>5, <3>2, <3>4, <3>5 DEF Closed, Fresh
    <3> QED  BY <1>6, <3>4, <3>6 DEF Whole
  <2> QED  BY <2>6, <2>7
<1>10. CASE Inside
  <2>1. /\ ws.buf = <<Pieces(g + 1)[1]>> /\ ws.length = 2 /\ 2 * g + 1 <= sent
        /\ Len(net) = sent - (2 * g + 1)
             \/ (Len(net) = sent - (2 * g + 1) + 1 /\ client # "on" /\ sent % 2 = 0)
        /\ \A i \in 1..Len(net) :
             net[i] = IF (2 * g + 1) + i <= sent THEN Stream((2 * g + 1) + i) ELSE Close
        /\ Pending(2 * g + 1)
    BY <1>2, <1>10 DEF Inside, Pending
  <2>2. ws.status = "READ"
    <3>1. ws.buf # <<>>
      BY <2>1
    <3> QED  BY <1>3, <1>4, <3>1 DEF Whole, Fresh
  <2>3. 2 * g + 2 <= sent
    <3>1. sent % 2 = 0 => 2 * g + 2 <= sent
      <4>1. 2 * g + 1 <= sent
        BY <2>1
      <4> QED  BY <1>5, <4>1, EvenAfterOdd
    <3>2. PICK l \in Nat : l = Len(net)
      BY <1>5
    <3>3. /\ l >= 1 /\ 2 * g + 1 <= sent
          /\ l = sent - (2 * g + 1) \/ sent % 2 = 0
      BY <1>5, <2>1, <3>2
    <3>4. l = sent - (2 * g + 1) => 2 * g + 2 <= sent
      <4>1. sent \in Nat
        BY <1>5
      <4> QED  BY <3>3, <4>1
    <3> QED  BY <3>1, <3>3, <3>4
  <2>4. net[1] = Pieces(g + 1)[2]
    <3>1. 1 \in 1..Len(net) /\ (2 * g + 1) + 1 = 2 * g + 2
      BY <1>5, <1>7
    <3> QED  BY <1>7, <2>1, <2>3, <3>1
  <2>5. n = 1
    <3>1. ~ (1 \in 1..n - 1)
      BY <1>3, <1>8, <2>4
    <3> QED  BY <1>5, <3>1
  <2>6. length = 2
    BY <1>1, <2>1 DEF Turn
  <2>7. Heap(n) = Pieces(g + 1)
    <3>1. 1 \in 1..Len(net)
      BY <1>5
    <3> QED  BY <1>5, <1>8, <2>1, <2>2, <2>4, <2>5, <3>1, HeapInside
  <2>8. SubSeq(Heap(n), 1, length) = Pieces(g + 1) /\ Len(Heap(n)) = 2
    <3> DEFINE a == Pieces(g + 1)[1]
               b == Pieces(g + 1)[2]
    <3>1. Pieces(g + 1) = <<a, b>>
      BY <1>8
    <3> HIDE DEF a, b
    <3>2. SubSeq(<<a, b>>, 1, 2) = <<a, b>> /\ Len(<<a, b>>) = 2
      <4>1. a \in {a, b} /\ b \in {a, b}
        OBVIOUS
      <4> QED  BY <4>1, Pair
    <3> QED  BY <2>6, <2>7, <3>1, <3>2
  <2>9. /\ ws'.buf = <<>> /\ ws'.length = -1
        /\ given' = Append(given, Pieces(g + 1))
    <3>1. ~ (Len(Heap(n)) < length) /\ ws.length # -1
      BY <2>1, <2>6, <2>8
    <3>2. given' = Append(given, SubSeq(Heap(n), 1, length))
            /\ ws'.buf = <<>> /\ ws'.length = -1
      BY <1>1, <3>1, Zenon DEF Turn
    <3> QED  BY <2>8, <3>2
  <2>10. Pending(2 * g + 2)'
    <3>1. (2 * g + 1) + 1 = 2 * g + 2 /\ 2 * g + 1 \in Nat /\ 1 \in 1..Len(net)
      BY <1>5, <1>7
    <3>2. Pending((2 * g + 1) + 1)'
      BY <1>5, <2>1, <2>3, <2>5, <3>1, PendingReceived
    <3> QED  BY <3>1, <3>2
  <2> QED  BY <1>2, <1>6, <1>7, <2>9, <2>10, FrameGiven
<1>11. CASE Closed
  BY <1>5, <1>11 DEF Closed
<1> QED  BY <1>3, <1>9, <1>10, <1>11 DEF Whole

\* The client sends its stream in order, and nothing after a close frame.
LEMMA PendingSent ==
  ASSUME NEW r \in Nat, Pending(r), ClientSend, net \in Seq(Piece), sent \in Nat
  PROVE  Pending(r)'
<1>1. PICK l \in Nat : l = Len(net)
  OBVIOUS
<1>2. client = "on"
  BY DEF ClientSend
<1>3. l = sent - r /\ r <= sent
  BY <1>1, <1>2 DEF Pending
<1>4. \A i \in 1..l : net[i] = Stream(r + i)
  <2>1. TAKE i \in 1..l
  <2>2. r + i <= sent
    BY <1>3
  <2> QED  BY <1>1, <2>2 DEF Pending
<1>5. PICK p : net' = Append(net, p) /\ \/ /\ sent' = sent + 1 /\ client' = client
                                           /\ p = Stream(sent + 1)
                                        \/ /\ sent' = sent /\ client' = "closing"
                                           /\ p = Close /\ sent % 2 = 0
  <2>1. CASE /\ net' = Append(net, Pieces((sent \div 2) + 1)[(sent % 2) + 1])
             /\ sent' = sent + 1 /\ client' = client
    <3>1. (sent + 1) - 1 = sent
      OBVIOUS
    <3>2. Stream(sent + 1) = Pieces((sent \div 2) + 1)[(sent % 2) + 1]
      BY <3>1 DEF Stream
    <3> QED  BY <2>1, <3>2
  <2>2. CASE net' = Append(net, Close) /\ sent % 2 = 0 /\ sent' = sent
               /\ client' = "closing"
    BY <2>2
  <2> QED  BY <2>1, <2>2 DEF ClientSend
<1>6. /\ Len(net') = l + 1 /\ net'[l + 1] = p
      /\ \A i \in 1..l : net'[i] = net[i]
  BY <1>1, <1>5
<1>7. CASE sent' = sent + 1 /\ p = Stream(sent + 1)
  <2>1. r <= sent' /\ l + 1 = sent' - r
    BY <1>3, <1>7
  <2>2. ASSUME NEW i \in 1..l + 1
        PROVE  net'[i] = IF r + i <= sent' THEN Stream(r + i) ELSE Close
    <3>1. r + i <= sent'
      BY <1>3, <1>7
    <3>2. CASE i = l + 1
      <4>1. r + i = sent + 1
        BY <1>3, <3>2
      <4> QED  BY <1>6, <1>7, <3>1, <3>2, <4>1
    <3>3. CASE i # l + 1
      <4>1. i \in 1..l
        BY <3>3
      <4> QED  BY <1>4, <1>6, <3>1, <4>1
    <3> QED  BY <3>2, <3>3
  <2> QED  BY <1>6, <2>1, <2>2 DEF Pending
<1>8. CASE sent' = sent /\ client' = "closing" /\ p = Close /\ sent % 2 = 0
  <2>1. r <= sent' /\ l + 1 = sent' - r + 1 /\ client' # "on" /\ sent' % 2 = 0
    BY <1>3, <1>8
  <2>2. ASSUME NEW i \in 1..l + 1
        PROVE  net'[i] = IF r + i <= sent' THEN Stream(r + i) ELSE Close
    <3>1. CASE i = l + 1
      <4>1. ~ (r + i <= sent')
        BY <1>3, <1>8, <3>1
      <4> QED  BY <1>6, <1>8, <3>1, <4>1
    <3>2. CASE i # l + 1
      <4>1. i \in 1..l /\ r + i <= sent'
        BY <1>3, <1>8, <3>2
      <4> QED  BY <1>4, <1>6, <4>1
    <3> QED  BY <3>1, <3>2
  <2> QED  BY <1>6, <2>1, <2>2 DEF Pending
<1> QED  BY <1>5, <1>7, <1>8

LEMMA ClientSendWhole ==
  ASSUME IInv, FInv, ClientSend, Whole
  PROVE  Whole'
<1>1. client = "on" /\ UNCHANGED <<ws, given>> /\ Whole
  BY DEF ClientSend
<1>2. net \in Seq(Piece) /\ sent \in Nat
  BY DEF IInv
<1>3. PICK g \in Nat : g = Len(given) /\ 2 * g \in Nat /\ 2 * g + 1 \in Nat
  BY DEF FInv
<1>4. Fresh' => Fresh
  BY <1>1 DEF Fresh
<1>5. CASE Between
  <2>1. Pending(2 * g)'
    BY <1>2, <1>3, <1>5, PendingSent DEF Between
  <2>2. Between'
    BY <1>1, <1>3, <1>5, <2>1 DEF Between
  <2> QED  BY <1>1, <1>4, <2>2 DEF Whole
<1>6. CASE Inside
  <2>1. Pending(2 * g + 1)'
    BY <1>2, <1>3, <1>6, PendingSent DEF Inside
  <2>2. Inside'
    BY <1>1, <1>3, <1>6, <2>1 DEF Inside
  <2> QED  BY <1>1, <1>4, <2>2 DEF Whole
<1> QED  BY <1>1, <1>5, <1>6 DEF Whole, Closed

-----------------------------------------------------------------------------
(* The theorems about frames and types. *)

LEMMA InitTyped == Init => Typed /\ FInv
<1> SUFFICES ASSUME Init
             PROVE  Typed /\ FInv
  OBVIOUS
<1>1. /\ ws = Upgrading /\ main = "http" /\ watcher = "none" /\ ops = MaxOps
      /\ net = <<>> /\ client = "on" /\ sent = 0 /\ given = <<>>
      /\ exiting = FALSE /\ stale = FALSE /\ long \subseteq 1..MaxFrames
  BY DEF Init
<1>2. /\ ws.status = "PROCESS" /\ ws.life = "http" /\ ws.timer /\ ws.length = -1
      /\ ws.buf = <<>> /\ ~ ws.mixed
  BY <1>1 DEF Upgrading
<1>3. MaxOps \in 0..MaxOps /\ 0 \in 0..2 * MaxFrames
  BY BoundsAssumption DEF BoundsAssumption
<1>4. Typed
  <2>1. Len(ws.buf) + Len(net) <= sent + 0
    BY <1>1, <1>2
  <2> QED  BY <1>1, <1>2, <1>3, <2>1 DEF Typed
<1>5. Len(given) = 0 /\ given \in Seq(Seq(Piece)) /\ 2 * 0 = 0
  BY <1>1
<1>6. Pending(0)
  BY <1>1 DEF Pending
<1>7. Between
  BY <1>2, <1>5, <1>6 DEF Between
<1>8. given = [i \in 1..Len(given) |-> Pieces(i)]
  BY <1>1, <1>5
<1> QED  BY <1>2, <1>4, <1>5, <1>7, <1>8 DEF FInv, Whole

LEMMA NextTyped ==
  IInv /\ Typed /\ FInv /\ [Next]_vars => Typed' /\ FInv'
<1> SUFFICES ASSUME IInv, Typed, FInv, [Next]_vars
             PROVE  Typed' /\ FInv'
  OBVIOUS
<1>1. Typed' /\ given' \in Seq(Seq(Piece))
  BY TypedKeeps DEF FInv
<1>2. CASE BeRead
  <2>1. PICK n \in 1..Len(net), length \in 1..Far : Turn(n, length)
    BY <1>2, BeReadTurns DEF Typed
  <2>2. /\ long' = long /\ (given' = given \/ \E m : given' = Append(given, m))
        /\ (~ ws'.mixed => ~ ws.mixed) /\ (~ ws'.burst => ~ ws.burst)
    BY <1>2, <2>1 DEF BeRead, Turn
  <2>3. Lost => Lost'
    BY <2>2, LostStays DEF FInv
  <2> QED  BY <1>1, <1>2, <2>2, <2>3, BeReadWhole DEF FInv
<1>3. CASE ClientSend
  <2>1. UNCHANGED <<ws, long, given>>
    BY <1>3 DEF ClientSend
  <2>2. Lost => Lost'
    BY <2>1, LostStays DEF FInv
  <2> QED  BY <1>1, <1>3, <2>1, <2>2, ClientSendWhole DEF FInv
<1>4. CASE ~ BeRead /\ ~ ClientSend
  BY <1>1, <1>4, StepsSame, SameKeeps
<1> QED  BY <1>1, <1>2, <1>3, <1>4

\* The invariants of the gauges, the types and the frames hold together.
THEOREM FramesInOrder == Spec => [](IInv /\ Typed /\ FInv)
<1>1. Init => IInv /\ Typed /\ FInv
  BY InitIInv, InitTyped
<1>2. (IInv /\ Typed /\ FInv) /\ [Next]_vars => (IInv /\ Typed /\ FInv)'
  BY NextIInv, NextTyped
<1> QED  BY <1>1, <1>2, PTL DEF Spec

\* Every variable has its type, the callback is one its state allows, and what
\* websocket_be_read has received is no more than the client sent: TypeOK.
THEOREM TypeCorrect == Spec => []TypeOK
<1>1. IInv /\ Typed => TypeOK
  <2> SUFFICES ASSUME IInv, Typed
               PROVE  TypeOK
    OBVIOUS
  <2>1. ws \in Socket /\ Callback(ws) /\ again \in BOOLEAN /\ net \in Seq(Piece)
    BY SocketFacts DEF IInv
  <2>2. ws.fn \in IF ~ ws.open THEN {"none"}
                  ELSE IF ws.life = "http" THEN {"processing"}
                  ELSE {"read", "write", "answer"}
    BY <2>1 DEF Callback, Socket
  <2>3. Len(ws.buf) <= 2 * MaxFrames + 1
    <3>1. PICK a \in Nat, b \in Nat, m \in Nat :
            a = Len(ws.buf) /\ b = Len(net) /\ m = 2 * MaxFrames
      <4>1. Len(ws.buf) \in Nat /\ Len(net) \in Nat
        BY <2>1 DEF Socket
      <4>2. 2 * MaxFrames \in Nat
        BY BoundsAssumption DEF BoundsAssumption
      <4> QED  BY <4>1, <4>2
    <3>2. sent \in 0..m /\ a + b <= sent + (IF client = "on" THEN 0 ELSE 1)
      BY <3>1 DEF Typed
    <3>3. a <= m + 1
      BY <3>2
    <3> QED  BY <3>1, <3>3
  <2>4. {again, exiting, stale} \subseteq BOOLEAN
    BY <2>1 DEF Typed
  <2>5. /\ ws.life \in {"http", "ws", "closed", "cut"}
        /\ ws.status \in {"PROCESS", "WAIT", "READ", "SEND"}
    BY <2>1 DEF Socket
  <2> QED  BY <2>2, <2>3, <2>4, <2>5 DEF Typed, TypeOK
<1> QED  BY <1>1, FramesInOrder, PTL

\* However the pieces of frames shorter than 64 KiB arrive, and whatever scripts send
\* meanwhile, the handler gets the messages of the client whole, each once and in
\* order: as long as none was 64 KiB or longer, no recv goes past the end of a frame
\* and no payload is sent with a frame half read.  FramesWhole.
THEOREM FramesAreWhole == Spec => []FramesWhole
<1>1. FInv => FramesWhole
  BY DEF FInv, Whole, Lost, FramesWhole
<1> QED  BY <1>1, FramesInOrder, PTL

=============================================================================
