----------------------- MODULE ConnectionPool_proofs ------------------------
(***************************************************************************)
(* The pool that the connections of module Connection use is the one of    *)
(* ThreadPool, which the linked list of LuaThreads implements: with every  *)
(* move of clients, timers and scripts, a step of the worker takes the     *)
(* thread released first, makes one when none waits, gives one back, or    *)
(* leaves the pool alone, and never does two of these.                     *)
(***************************************************************************)
EXTENDS ConnectionScripts_proofs

Pool == INSTANCE ThreadPool WITH pool <- wk.pool, made <- wk.made

PoolSpec == Pool!Spec

-----------------------------------------------------------------------------
(* What a step does to the pool. *)

Same(k) == k.pool = wk.pool /\ k.made = wk.made

\* It gives back thread t, or none.
Gives(t) == /\ wk'.made = wk.made
            /\ wk'.pool = wk.pool \/ (t # NoThread /\ wk'.pool = Append(wk.pool, t))

\* It takes one that new_lua_thread returns.
Takes == \E t \in Available(wk) : /\ wk'.pool = NewLuaThread(wk, t).pool
                                  /\ wk'.made = NewLuaThread(wk, t).made

LEMMA GivesStep ==
  ASSUME IInv, NEW c \in Conns, Gives(epd[c].L)
  PROVE  [Pool!Next]_<<wk.pool, wk.made>>
<1>1. CASE wk'.pool = wk.pool
  BY <1>1 DEF Gives
<1>2. CASE epd[c].L # NoThread /\ wk'.pool = Append(wk.pool, epd[c].L)
  <2>1. epd[c].L \in wk.made /\ epd[c].L \notin PoolThreads
    BY <1>2 DEF IInv, ThreadsConserved, Owned
  <2>2. epd[c].L \in wk.made \ Pool!Waiting
    BY <2>1 DEF PoolThreads, Pool!Waiting
  <2>3. Pool!Release
    BY <1>2, <2>2 DEF Gives, Pool!Release
  <2>. QED
    BY <2>3 DEF Pool!Next
<1>. QED
  BY <1>1, <1>2 DEF Gives

LEMMA TakesStep ==
  ASSUME IInv, Takes
  PROVE  [Pool!Next]_<<wk.pool, wk.made>>
<1>1. PICK t \in Available(wk) : /\ wk'.pool = NewLuaThread(wk, t).pool
                                 /\ wk'.made = NewLuaThread(wk, t).made
  BY DEF Takes
<1>2. wk \in Worker
  BY DEF IInv, TypeOK
<1>3. CASE wk.pool # <<>>
  <2>1. wk'.pool = Tail(wk.pool) /\ wk'.made = wk.made
    BY <1>1, <1>2, <1>3 DEF NewLuaThread, Worker
  <2>. QED
    BY <1>3, <2>1 DEF Pool!Take, Pool!Next
<1>4. CASE wk.pool = <<>>
  <2>1. wk'.pool = wk.pool /\ wk'.made = wk.made \cup {t} /\ t \in Threads \ wk.made
    BY <1>1, <1>2, <1>4 DEF NewLuaThread, Worker, Available
  <2>. QED
    BY <1>4, <2>1 DEF Pool!Make, Pool!Next
<1>. QED
  BY <1>3, <1>4

-----------------------------------------------------------------------------
(* The functions that end a request give back the thread of its connection. *)

LEMMA CloseGives ==
  ASSUME NEW c, NEW e \in Epdata, NEW k \in Worker, Same(k), CloseClient(c, e, k)
  PROVE  Gives(e.L)
<1>. DEFINE reader == IF e.status = "READ" THEN 1 ELSE 0
            sender == IF e.status = "SEND" THEN 1 ELSE 0
            client == IF e.open THEN 1 ELSE 0
            k1 == Reading(k, -reader)
            k2 == Sending(k1, -sender)
            k3 == Active(k2, -client)
<1>1. wk' = Release(k3, e.L)
  BY DEF CloseClient, Put
<1>2. -reader \in Int /\ -sender \in Int /\ -client \in Int
  OBVIOUS
<1>. HIDE DEF reader, sender, client
<1>3. k1 \in Worker /\ k1.pool = k.pool /\ k1.made = k.made
  BY <1>2, ReadingType
<1>. HIDE DEF k1
<1>4. k2 \in Worker /\ k2.pool = k.pool /\ k2.made = k.made
  BY <1>2, <1>3, SendingType
<1>. HIDE DEF k2
<1>5. k3 \in Worker /\ k3.pool = k.pool /\ k3.made = k.made
  BY <1>2, <1>4, ActiveType
<1>. HIDE DEF k3
<1>6. /\ Release(k3, e.L).made = k3.made
      /\ Release(k3, e.L).pool = IF e.L = NoThread THEN k3.pool ELSE Append(k3.pool, e.L)
  BY <1>5 DEF Release, Worker
<1>. QED
  BY <1>1, <1>5, <1>6 DEF Gives, Same

LEMMA EndProcessGives ==
  ASSUME NEW c, NEW e \in Epdata, NEW k \in Worker, Same(k), EndProcess(c, e, k)
  PROVE  Gives(e.L)
<1>. DEFINE w == [e EXCEPT !.status = "WAIT"]
<1>1. w \in Epdata /\ w.L = e.L
  BY DEF Epdata, Status
<1>2. Put(c, FreeRequest(w), k) \/ CloseClient(c, w, k)
  BY DEF EndProcess
<1>. HIDE DEF w
<1>3. CASE Put(c, FreeRequest(w), k)
  BY <1>3 DEF Put, Gives, Same
<1>. QED
  BY <1>1, <1>2, <1>3, CloseGives

LEMMA StartSendGives ==
  ASSUME NEW c, NEW e \in Epdata, NEW k \in Worker, Same(k), StartSend(c, e, k)
  PROVE  Gives(e.L)
<1>1. wk' = Sending(k, 1) \/ EndProcess(c, e, k)
  BY DEF StartSend, Put
<1>2. CASE wk' = Sending(k, 1)
  BY <1>2, SendingType DEF Gives, Same
<1>. QED
  BY <1>1, <1>2, EndProcessGives

LEMMA BeEndGives ==
  ASSUME NEW c, NEW e \in Epdata, NEW k \in Worker, Same(k), BeEnd(c, e, k)
  PROVE  Gives(e.L)
<1>1. CASE e.open /\ ~e.rto /\ e.rest > 0
  <2>. DEFINE n == IF e.status = "READ" THEN 0 ELSE 1
  <2>1. wk' = Reading(k, n) /\ n \in Int
    BY <1>1 DEF BeEnd, Put
  <2>. HIDE DEF n
  <2>. QED
    BY <2>1, ReadingType DEF Gives, Same
<1>2. CASE ~(e.open /\ ~e.rto /\ e.rest > 0) /\ e.hdr = 0
  <2>. DEFINE out == CASE e.out = "empty"   -> "head"
                       [] e.out = "missing" -> "body"
                       [] OTHER             -> e.out
              x == [e EXCEPT !.out = out]
  <2>1. out \in Output
    BY DEF Epdata, Output
  <2>2. EndProcess(c, x, k) \/ StartSend(c, x, k)
    BY <1>2 DEF BeEnd
  <2>. HIDE DEF out
  <2>3. x \in Epdata /\ x.L = e.L
    BY <2>1 DEF Epdata
  <2>. HIDE DEF x
  <2>. QED
    BY <2>2, <2>3, EndProcessGives, StartSendGives
<1>3. CASE ~(e.open /\ ~e.rto /\ e.rest > 0) /\ e.hdr # 0
  <2>. DEFINE last == [e EXCEPT !.hdr = 2]
              x == [last EXCEPT !.out = "body"]
  <2>1. EndProcess(c, last, k) \/ StartSend(c, x, k)
    BY <1>3 DEF BeEnd
  <2>2. last \in Epdata /\ last.L = e.L /\ x \in Epdata /\ x.L = e.L
    BY DEF Epdata, Output
  <2>. HIDE DEF x, last
  <2>. QED
    BY <2>1, <2>2, EndProcessGives, StartSendGives
<1>. QED
  BY <1>1, <1>2, <1>3

LEMMA SendErrorGives ==
  ASSUME NEW c, NEW e \in Epdata, NEW k \in Worker, Same(k), NEW hasMsg,
         SendError(c, e, k, hasMsg)
  PROVE  Gives(e.L)
<1>. DEFINE out == CASE e.out \in {"file", "missing", "body"} -> e.out
                     [] OTHER -> IF hasMsg THEN "body" ELSE "head"
            x == [e EXCEPT !.out = out]
<1>1. BeEnd(c, x, k)
  BY DEF SendError
<1>2. out \in Output
  BY DEF Output
<1>. HIDE DEF out
<1>3. x \in Epdata /\ x.L = e.L
  BY <1>2 DEF Epdata
<1>. HIDE DEF x
<1>. QED
  BY <1>1, <1>3, BeEndGives

\* An error that is answered to an open connection, whose header is not sent, ends
\* nothing yet.
LEMMA SendErrorKeeps ==
  ASSUME NEW c, NEW e \in Epdata, NEW k \in Worker, e.open, e.hdr = 0,
         SendError(c, e, k, TRUE)
  PROVE  wk'.pool = k.pool /\ wk'.made = k.made
<1>. DEFINE out == CASE e.out \in {"file", "missing", "body"} -> e.out
                     [] OTHER -> "body"
            x == [e EXCEPT !.out = out]
<1>1. BeEnd(c, x, k)
  BY DEF SendError
<1>2. out \in {"file", "missing", "body"}
  OBVIOUS
<1>. HIDE DEF out
<1>3. x.open /\ x.hdr = 0 /\ x.out = out /\ x \in Epdata
  BY <1>2 DEF Epdata, Output
<1>. HIDE DEF x
<1>4. CASE x.open /\ ~x.rto /\ x.rest > 0
  <2>. DEFINE n == IF x.status = "READ" THEN 0 ELSE 1
  <2>1. wk' = Reading(k, n) /\ n \in Int
    BY <1>1, <1>4 DEF BeEnd, Put
  <2>. HIDE DEF n
  <2>. QED
    BY <2>1, ReadingType
<1>5. CASE ~(x.open /\ ~x.rto /\ x.rest > 0)
  <2>. DEFINE last == CASE x.out = "empty"   -> "head"
                        [] x.out = "missing" -> "body"
                        [] OTHER             -> x.out
              y == [x EXCEPT !.out = last]
  <2>1. last \in {"file", "body"}
    BY <1>2, <1>3
  <2>2. StartSend(c, y, k)
    BY <1>1, <1>3, <1>5, <2>1 DEF BeEnd
  <2>3. y.open
    BY <1>3 DEF Epdata
  <2>. HIDE DEF y
  <2>4. wk' = Sending(k, 1)
    BY <2>2, <2>3 DEF StartSend, Put
  <2>. QED
    BY <2>4, SendingType
<1>. QED
  BY <1>4, <1>5

-----------------------------------------------------------------------------
(* worker_process takes a thread or ends the request, never both. *)

LEMMA TakenType ==
  ASSUME NEW k \in Worker, NEW t \in Available(k)
  PROVE  t \in Threads /\ NewLuaThread(k, t) \in Worker
<1>1. k.pool \in Seq(Threads) /\ k.made \in SUBSET Threads
  BY DEF Worker
<1>2. k.pool # <<>> => Head(k.pool) \in Threads /\ Tail(k.pool) \in Seq(Threads)
  BY <1>1
<1>3. t \in Threads
  BY <1>2 DEF Available
<1>4. [k EXCEPT !.made = k.made \cup {t}] \in Worker
  BY <1>1, <1>3 DEF Worker
<1>5. k.pool # <<>> => [k EXCEPT !.pool = Tail(k.pool)] \in Worker
  BY <1>2 DEF Worker
<1>. QED
  BY <1>3, <1>4, <1>5 DEF NewLuaThread

LEMMA WorkerProcessPool ==
  ASSUME NEW c, NEW e \in Epdata, NEW k \in Worker, wk \in Worker, Same(k),
         e.open, e.hdr = 0, WorkerProcess(c, e, k)
  PROVE  Gives(e.L) \/ Takes
<1>1. CASE SendError(c, e, k, TRUE)
  BY <1>1, SendErrorGives
<1>2. ASSUME NEW t \in IF e.L = NoThread THEN Available(k) ELSE {e.L},
             LET own == [e EXCEPT !.L = t]
                 k2  == IF e.L = NoThread THEN NewLuaThread(k, t) ELSE k
             IN  \/ /\ co[t] = "dead" \/ "badrequest" \in Moves
                    /\ SendError(c, own, k2, TRUE) /\ SameScript
                 \/ co[t] # "dead" /\ Put(c, own, k2) /\ Start(c, own)
      PROVE  Gives(e.L) \/ Takes
  <2>. DEFINE own == [e EXCEPT !.L = t]
              k2  == IF e.L = NoThread THEN NewLuaThread(k, t) ELSE k
  <2>1. SendError(c, own, k2, TRUE) \/ wk' = k2
    BY <1>2 DEF Put
  <2>2. t \in Threads
    <3>1. CASE e.L = NoThread
      BY <3>1, TakenType
    <3>2. CASE e.L # NoThread
      BY <3>2 DEF Epdata
    <3>. QED
      BY <3>1, <3>2
  <2>3. own \in Epdata /\ own.open /\ own.hdr = 0
    BY <2>2 DEF Epdata
  <2>4. k2 \in Worker
    BY TakenType
  <2>5. wk'.pool = k2.pool /\ wk'.made = k2.made
    <3>. HIDE DEF own, k2
    <3>. QED
      BY <2>1, <2>3, <2>4, SendErrorKeeps
  <2>6. CASE e.L # NoThread
    BY <2>5, <2>6 DEF Gives, Same
  <2>7. CASE e.L = NoThread
    <3>1. t \in Available(wk)
      BY <2>7 DEF Available, Same
    <3>2. /\ NewLuaThread(k, t).pool = NewLuaThread(wk, t).pool
          /\ NewLuaThread(k, t).made = NewLuaThread(wk, t).made
      BY DEF NewLuaThread, Same, Worker
    <3>. QED
      BY <2>5, <2>7, <3>1, <3>2 DEF Takes
  <2>. QED
    BY <2>6, <2>7
<1>. QED
  BY <1>1, <1>2 DEF WorkerProcess

-----------------------------------------------------------------------------
(* The actions. *)

\* What an action starts from.
LEMMA Before ==
  ASSUME Safe, NEW c \in Conns
  PROVE  /\ epd[c] \in Epdata /\ wk \in Worker /\ Same(wk) /\ Sequenced(epd[c])
         /\ \A n \in Int : /\ Reading(wk, n) \in Worker /\ Same(Reading(wk, n))
                           /\ Sending(wk, n) \in Worker /\ Same(Sending(wk, n))
                           /\ Active(wk, n) \in Worker /\ Same(Active(wk, n))
BY Here, ReadingType, SendingType, ActiveType DEF Same

LEMMA PutGives ==
  ASSUME NEW c, NEW e, NEW k, Same(k), Put(c, e, k), NEW t
  PROVE  Gives(t)
BY DEF Put, Same, Gives

LEMMA AcceptPool ==
  ASSUME Safe, NEW c \in Conns, Accept(c)
  PROVE  Gives(epd[c].L) \/ Takes
<1>1. wk \in Worker /\ Same(Active(wk, 1))
  BY Before
<1>2. PICK fn : LET e == [Freed EXCEPT !.status = "WAIT", !.fn = fn, !.open = TRUE]
                IN  \/ Put(c, e, Active(wk, 1))
                    \/ \E t \in Available(wk) :
                         Put(c, [e EXCEPT !.L = t], Active(NewLuaThread(wk, t), 1))
  BY DEF Accept
<1>3. wk' = Active(wk, 1) \/ \E t \in Available(wk) : wk' = Active(NewLuaThread(wk, t), 1)
  BY <1>2 DEF Put
<1>4. CASE wk' = Active(wk, 1)
  BY <1>1, <1>4 DEF Gives, Same
<1>5. ASSUME NEW t \in Available(wk), wk' = Active(NewLuaThread(wk, t), 1)
      PROVE  Takes
  <2>1. NewLuaThread(wk, t) \in Worker /\ 1 \in Int
    BY <1>1, TakenType
  <2>. QED
    BY <1>5, <2>1, ActiveType DEF Takes
<1>. QED
  BY <1>3, <1>4, <1>5

\* Callbacks that end a request at most.
LEMMA SslAcceptPool ==
  ASSUME Safe, NEW c \in Conns, SslAccept(c)
  PROVE  Gives(epd[c].L)
BY Before, PutGives, CloseGives DEF SslAccept

LEMMA ReadSomePool ==
  ASSUME Safe, NEW c \in Conns, ReadSome(c)
  PROVE  Gives(epd[c].L)
BY Before, PutGives DEF ReadSome

LEMMA ReadEndPool ==
  ASSUME Safe, NEW c \in Conns, ReadEnd(c)
  PROVE  Gives(epd[c].L)
<1>. DEFINE x == [epd[c] EXCEPT !.keep = FALSE, !.status = "PROCESS"]
<1>1. CloseClient(c, epd[c], wk) \/ EndProcess(c, x, Reading(wk, -1))
  BY DEF ReadEnd
<1>2. epd[c] \in Epdata /\ wk \in Worker /\ Same(wk)
      /\ Reading(wk, -1) \in Worker /\ Same(Reading(wk, -1))
  BY Before
<1>3. x \in Epdata /\ x.L = epd[c].L
  BY <1>2 DEF Epdata, Status
<1>. HIDE DEF x
<1>. QED
  BY <1>1, <1>2, <1>3, CloseGives, EndProcessGives

LEMMA ReadRefusedPool ==
  ASSUME Safe, NEW c \in Conns, ReadRefused(c)
  PROVE  Gives(epd[c].L)
<1>. DEFINE n == IF epd[c].status = "READ" THEN 0 ELSE 1
            e == [epd[c] EXCEPT !.status = "READ"]
            k == Reading(wk, n)
<1>1. \/ SendError(c, e, k, TRUE) \/ SendError(c, e, k, FALSE)
      \/ \E r \in 1..MaxBody : SendError(c, [e EXCEPT !.rest = r], k, TRUE)
  BY DEF ReadRefused
<1>2. epd[c] \in Epdata /\ k \in Worker /\ Same(k)
  <2>1. n \in Int
    OBVIOUS
  <2>. HIDE DEF n
  <2>. QED
    BY <2>1, Before
<1>3. e \in Epdata /\ e.L = epd[c].L
  BY <1>2 DEF Epdata, Status
<1>. HIDE DEF e, k
<1>4. \A r \in 1..MaxBody : [e EXCEPT !.rest = r] \in Epdata /\ [e EXCEPT !.rest = r].L = e.L
  BY <1>3 DEF Epdata
<1>. QED
  BY <1>1, <1>2, <1>3, <1>4, SendErrorGives

LEMMA ReadOnProcessingPool ==
  ASSUME Safe, NEW c \in Conns, ReadOnProcessing(c)
  PROVE  Gives(epd[c].L)
BY Before, PutGives DEF ReadOnProcessing

LEMMA ReadOnClearPool ==
  ASSUME Safe, NEW c \in Conns, ReadOnClear(c)
  PROVE  Gives(epd[c].L)
<1>. DEFINE e == epd[c]
            x == [e EXCEPT !.status = "PROCESS", !.fn = "none", !.rest = 0]
            y == [e EXCEPT !.open = FALSE, !.fn = "none"]
            z == [y EXCEPT !.status = "PROCESS", !.keep = FALSE]
            k == Reading(Active(wk, -1), -1)
<1>1. \/ Put(c, [e EXCEPT !.rest = @ - 1], wk)
      \/ BeEnd(c, x, Reading(wk, -1))
      \/ BeEnd(c, z, k)
  BY DEF ReadOnClear, Discard, Gone
<1>2. /\ e \in Epdata /\ Same(wk) /\ Reading(wk, -1) \in Worker /\ Same(Reading(wk, -1))
      /\ Active(wk, -1) \in Worker /\ Same(Active(wk, -1))
  BY Before
<1>3. k \in Worker /\ Same(k)
  BY <1>2, ReadingType DEF Same
<1>4. x \in Epdata /\ x.L = e.L
  <2>1. 0 \in 0..MaxBody
    BY BoundsAssumption DEF BoundsAssumption
  <2>. QED
    BY <1>2, <2>1 DEF Epdata, Status, Handler
<1>5. y \in Epdata /\ y.L = e.L
  BY <1>2 DEF Epdata, Handler
<1>6. z \in Epdata /\ z.L = e.L
  <2>. HIDE DEF y
  <2>. QED
    BY <1>5 DEF Epdata, Status
<1>. HIDE DEF x, y, z, k
<1>. QED
  BY <1>1, <1>2, <1>3, <1>4, <1>6, PutGives, BeEndGives

LEMMA ReadRequestBodyPool ==
  ASSUME Safe, NEW c \in Conns, ReadRequestBody(c)
  PROVE  Gives(epd[c].L)
<1>. DEFINE n == IF epd[c].status = "READ" THEN -1 ELSE 0
            k == Reading(wk, n)
<1>1. wk' = k \/ wk' = Active(k, -1) \/ wk' = Active(k, -2)
  BY DEF ReadRequestBody, Put
<1>2. k \in Worker /\ Same(k)
  <2>1. n \in Int
    OBVIOUS
  <2>. HIDE DEF n
  <2>. QED
    BY <2>1, Before
<1>. HIDE DEF k
<1>3. Same(Active(k, -1)) /\ Same(Active(k, -2))
  BY <1>2, ActiveType DEF Same
<1>. QED
  BY <1>1, <1>2, <1>3 DEF Same, Gives

\* A whole header: the request is started, or answered at once.
LEMMA ReadRequestPool ==
  ASSUME Safe, NEW c \in Conns, ReadRequest(c)
  PROVE  Gives(epd[c].L) \/ Takes
<1>. DEFINE p == epd[c]
            n == IF p.status = "READ" THEN -1 ELSE 0
            k == Reading(wk, n)
<1>1. p \in Epdata /\ wk \in Worker /\ p.open
  BY Before DEF ReadRequest, Loop
<1>2. HeaderRead(c) = k
  BY DEF HeaderRead
<1>3. PICK rest \in 0..MaxBody, ka \in BOOLEAN :
        LET e == AwaitScript([p EXCEPT !.status = "PROCESS", !.keep = p.keep \/ ka, !.hdr = 0,
                                       !.rest = rest, !.contents = TRUE, !.ops = MaxOps])
        IN  \/ WorkerProcess(c, e, k)
            \/ BeEnd(c, [e EXCEPT !.out = "body"], k) /\ SameScript
            \/ /\ Put(c, [e EXCEPT !.status = "SEND", !.fn = "write",
                                   !.out = "head", !.next = "process"], Sending(k, 1))
               /\ SameScript
  BY <1>2, Zenon DEF ReadRequest
<1>. DEFINE keep == p.keep \/ ka
            y == [p EXCEPT !.status = "PROCESS", !.keep = keep, !.hdr = 0,
                           !.rest = rest, !.contents = TRUE, !.ops = MaxOps]
            e == AwaitScript(y)
            body == [e EXCEPT !.out = "body"]
<1>4. WorkerProcess(c, e, k) \/ BeEnd(c, body, k) \/ wk' = Sending(k, 1)
  BY <1>3 DEF Put
<1>. HIDE DEF p
<1>5. keep \in BOOLEAN
  BY <1>1 DEF Epdata
<1>. HIDE DEF keep
<1>6. MaxOps \in 0..MaxOps
  BY BoundsAssumption DEF BoundsAssumption
<1>7. y \in Epdata /\ y.status = "PROCESS" /\ y.L = p.L /\ y.hdr = 0 /\ y.open = p.open
  BY <1>1, <1>5, <1>6 DEF Epdata, Status
<1>. HIDE DEF y
<1>8. n \in Int
  OBVIOUS
<1>. HIDE DEF n
<1>9. k \in Worker /\ Same(k) /\ Same(Sending(k, 1))
  BY <1>1, <1>8, ReadingType, SendingType DEF Same
<1>. HIDE DEF k
<1>10. e \in Epdata /\ e.L = p.L /\ e.hdr = 0 /\ e.open
  <2>1. e.hdr = y.hdr /\ e.open = y.open
    BY <1>7 DEF AwaitScript, Listen, Epdata
  <2>. QED
    BY <1>1, <1>7, <2>1, AwaitScriptType
<1>. HIDE DEF e
<1>11. body \in Epdata /\ body.L = e.L
  BY <1>10 DEF Epdata, Output
<1>. HIDE DEF body
<1>12. CASE WorkerProcess(c, e, k)
  BY <1>1, <1>9, <1>10, <1>12, WorkerProcessPool DEF p
<1>13. CASE BeEnd(c, body, k)
  BY <1>9, <1>10, <1>11, <1>13, BeEndGives DEF p
<1>14. CASE wk' = Sending(k, 1)
  BY <1>9, <1>14 DEF Same, Gives
<1>. QED
  BY <1>4, <1>12, <1>13, <1>14

\* The end of a write, with the request that had to wait for its "100 Continue".
LEMMA WrittenPool ==
  ASSUME NEW c, NEW e \in Epdata, NEW k \in Worker, wk \in Worker, Same(k), e.open,
         e.next = "process" => e.hdr = 0, Written(c, e, k)
  PROVE  Gives(e.L) \/ Takes
<1>1. e.next \in {"none", "process", "send"}
  BY DEF Epdata
<1>2. CASE e.next = "process"
  <2>. DEFINE x == [e EXCEPT !.next = "none", !.out = "empty"]
  <2>1. WorkerProcess(c, x, k)
    BY <1>2 DEF Written
  <2>2. x \in Epdata /\ x.L = e.L /\ x.open /\ x.hdr = 0
    BY <1>2 DEF Epdata, Output
  <2>. HIDE DEF x
  <2>. QED
    BY <2>1, <2>2, WorkerProcessPool
<1>3. CASE e.next = "send"
  <2>1. SendThenSend(c, e, k)
    BY <1>3 DEF Written
  <2>2. wk' = Sending(k, 1) \/ wk' = k
    BY <2>1 DEF SendThenSend, Put
  <2>. QED
    BY <2>2, SendingType DEF Same, Gives
<1>4. CASE e.next = "none"
  <2>1. wk' = k \/ EndProcess(c, e, k)
    BY <1>4 DEF Written, Put
  <2>. QED
    BY <2>1, EndProcessGives DEF Same, Gives
<1>. QED
  BY <1>1, <1>2, <1>3, <1>4

LEMMA WritePool ==
  ASSUME Safe, NEW c \in Conns, WriteDone(c) \/ WriteFail(c) \/ WriteNothing(c)
  PROVE  Gives(epd[c].L) \/ Takes
<1>. DEFINE e == epd[c]
            hdr == IF e.hdr = 5 THEN 1 ELSE e.hdr
            x == [e EXCEPT !.status = "PROCESS", !.hdr = hdr]
            y == [e EXCEPT !.status = "PROCESS", !.keep = FALSE]
            k == Sending(wk, -1)
<1>1. /\ e \in Epdata /\ wk \in Worker /\ k \in Worker /\ Same(k) /\ Sequenced(e) /\ e.open
  BY Before DEF WriteDone, WriteFail, WriteNothing, Loop
<1>2. Written(c, x, k) \/ Written(c, y, k) \/ wk' = wk
  BY <1>1 DEF WriteDone, WriteFail, WriteNothing, Epdata
<1>. HIDE DEF e
<1>3. hdr \in {0, 1, 2, 5} /\ (e.hdr = 0 => hdr = 0)
  BY <1>1 DEF Epdata
<1>. HIDE DEF hdr
<1>4. x \in Epdata /\ x.L = e.L /\ x.open /\ x.next = e.next /\ x.hdr = hdr
  BY <1>1, <1>3 DEF Epdata, Status
<1>5. y \in Epdata /\ y.L = e.L /\ y.open /\ y.next = e.next /\ y.hdr = e.hdr
  BY <1>1 DEF Epdata, Status
<1>. HIDE DEF x, y, k
<1>6. e.next = "process" => hdr = 0 /\ e.hdr = 0
  BY <1>1, <1>3 DEF Sequenced
<1>7. CASE Written(c, x, k)
  BY <1>1, <1>4, <1>6, <1>7, WrittenPool DEF e
<1>8. CASE Written(c, y, k)
  BY <1>1, <1>5, <1>6, <1>8, WrittenPool DEF e
<1>9. CASE wk' = wk
  BY <1>9 DEF Gives
<1>. QED
  BY <1>2, <1>7, <1>8, <1>9

LEMMA TimeoutPool ==
  ASSUME Safe, NEW c \in Conns, TimeoutHandle(c)
  PROVE  Gives(epd[c].L)
<1>. DEFINE e == epd[c]
            x == [e EXCEPT !.keep = FALSE, !.status = "PROCESS", !.rto = TRUE]
            y == [e EXCEPT !.status = "WAIT"]
<1>1. \/ SendError(c, x, Reading(wk, -1), TRUE)
      \/ CloseClient(c, y, Sending(wk, -1)) \/ CloseClient(c, y, wk)
  BY DEF TimeoutHandle, ReadTimeout, SendTimeout, IdleTimeout
<1>2. /\ e \in Epdata /\ wk \in Worker /\ Same(wk)
      /\ Reading(wk, -1) \in Worker /\ Same(Reading(wk, -1))
      /\ Sending(wk, -1) \in Worker /\ Same(Sending(wk, -1))
  BY Before
<1>3. x \in Epdata /\ x.L = e.L
  BY <1>2 DEF Epdata, Status
<1>4. y \in Epdata /\ y.L = e.L
  BY <1>2 DEF Epdata, Status
<1>. HIDE DEF x, y
<1>. QED
  BY <1>1, <1>2, <1>3, <1>4, SendErrorGives, CloseGives

\* The calls of a script, its end and its return.
LEMMA ScriptPool ==
  ASSUME Safe, NEW c \in Conns, Script(c) \/ Wake(c)
  PROVE  Gives(epd[c].L)
<1>1. /\ epd[c] \in Epdata /\ wk \in Worker /\ Same(wk)
      /\ Same(Reading(wk, 1)) /\ Same(Sending(wk, 1))
  BY Before
<1>2. CASE Header(c) \/ Echo(c) \/ SendFile(c) \/ Sleep(c) \/ Wake(c)
  <2>1. wk' = wk
    BY <1>2 DEF Header, Echo, SendFile, Sleep, Wake, Put
  <2>. QED
    BY <2>1 DEF Gives
<1>3. CASE EchoMore(c) \/ Flush(c)
  <2>1. wk' = wk \/ wk' = Sending(wk, 1)
    BY <1>3 DEF EchoMore, Flush, NetworkFlush, Put
  <2>. QED
    BY <1>1, <2>1 DEF Gives, Same
<1>4. CASE LuaReadRequestBody(c)
  <2>1. wk' = wk \/ wk' = Reading(wk, 1)
    BY <1>4 DEF LuaReadRequestBody, Put
  <2>. QED
    BY <1>1, <2>1 DEF Gives, Same
<1>5. CASE End(c)
  BY <1>1, <1>5, BeEndGives DEF End
<1>6. CASE Throw(c)
  <2>1. SendError(c, epd[c], wk, TRUE) \/ wk' = wk
    BY <1>6 DEF Throw
  <2>. QED
    BY <1>1, <2>1, SendErrorGives DEF Gives
<1>. QED
  BY <1>2, <1>3, <1>4, <1>5, <1>6 DEF Script

-----------------------------------------------------------------------------
(* The theorem. *)

LEMMA ServePool ==
  ASSUME Safe, NEW c \in Conns, Serve(c)
  PROVE  Gives(epd[c].L) \/ Takes
<1>1. CASE Accept(c) \/ TimeoutHandle(c) \/ Script(c) \/ Wake(c)
  BY <1>1, AcceptPool, TimeoutPool, ScriptPool
<1>2. CASE SslAccept(c) \/ ReadSome(c) \/ ReadEnd(c) \/ ReadRefused(c) \/ ReadRequest(c)
  BY <1>2, SslAcceptPool, ReadSomePool, ReadEndPool, ReadRefusedPool, ReadRequestPool
<1>3. CASE ReadOnProcessing(c) \/ ReadOnClear(c) \/ ReadRequestBody(c)
  BY <1>3, ReadOnProcessingPool, ReadOnClearPool, ReadRequestBodyPool
<1>4. CASE WriteDone(c) \/ WriteFail(c) \/ WriteNothing(c)
  BY <1>4, WritePool
<1>. QED
  BY <1>1, <1>2, <1>3, <1>4 DEF Serve, Network

LEMMA NextPool == Safe /\ [Next]_vars => [Pool!Next]_<<wk.pool, wk.made>>
<1>. SUFFICES ASSUME Safe, [Next]_vars PROVE [Pool!Next]_<<wk.pool, wk.made>>
  OBVIOUS
<1>1. ASSUME NEW c \in Conns, Serve(c)
      PROVE  [Pool!Next]_<<wk.pool, wk.made>>
  BY <1>1, ServePool, GivesStep, TakesStep DEF Safe
<1>2. CASE wk' = wk
  BY <1>2
<1>3. BeginExit \/ UNCHANGED vars => wk' = wk
  BY DEF BeginExit, vars
<1>. QED
  BY <1>1, <1>2, <1>3 DEF Next

LEMMA InitPoolInit == Init => Pool!Init
<1>. SUFFICES ASSUME Init PROVE Pool!Init
  OBVIOUS
<1>1. wk.pool = InitPool /\ wk.made = {InitPool[i] : i \in 1..Len(InitPool)}
  BY DEF Init
<1>2. /\ InitPool \in Seq(Threads)
      /\ \A i, j \in 1..Len(InitPool) : InitPool[i] = InitPool[j] => i = j
  BY PoolAssumption DEF PoolAssumption
<1>. QED
  BY <1>1, <1>2 DEF Pool!Init, Pool!Waiting

\* Whatever clients, timers and scripts do, connections use the pool as ThreadPool
\* allows: a step takes the thread that was released first or gives one back that
\* does not wait, one at a time, so the list of lua-threads.c can serve them.
THEOREM PoolIsThreadPool == Spec => PoolSpec
<1>1. Safe /\ [Next]_vars => [Pool!Next]_<<wk.pool, wk.made>>
  BY NextPool
<1>2. Init => Pool!Init
  BY InitPoolInit
<1>. QED
  BY <1>1, <1>2, ScriptInvariant, PTL DEF Spec, PoolSpec, Pool!Spec

=============================================================================
