------------------------- MODULE Connection_proofs -------------------------
(***************************************************************************)
(* Theorems about Connection, for every set of connections and threads and *)
(* every bound.                                                            *)
(*                                                                         *)
(* All of them come from one inductive invariant, IInv.  A handler changes *)
(* one connection c and the worker; what the other connections contribute  *)
(* to the gauges and own of the threads stays.  So IInv is restated from   *)
(* the point of view of c (Good), each function of the code is shown to    *)
(* turn a good pair of arguments into a good next state (Outcome), and the *)
(* two views are related once.                                             *)
(***************************************************************************)
EXTENDS Connection, TLAPS, FiniteSetTheorems

-----------------------------------------------------------------------------
(* The point of view of one connection. *)

One(b) == IF b THEN 1 ELSE 0

OthersIn(c, s) == Cardinality({d \in Conns \ {c} : epd[d].status = s})
OthersOpen(c)  == Cardinality({d \in Conns \ {c} : epd[d].open})

\* What the clients do not do where a gauge is exact: a request refused while its
\* header is read, the end of file in a body the script waits for.
RefusesNone == {"oversize", "nolength"} \cap Moves = {}
BodiesWhole == "bodyeof" \notin Moves

\* The gauges of k count e and the other connections.
Balanced(c, e, k) ==
  /\ k.sending = OthersIn(c, "SEND") + One(e.status = "SEND")
  /\ k.reading >= OthersIn(c, "READ") + One(e.status = "READ")
  /\ k.active =< OthersOpen(c) + One(e.open)
  /\ RefusesNone => k.reading = OthersIn(c, "READ") + One(e.status = "READ")
  /\ BodiesWhole => k.active = OthersOpen(c) + One(e.open)

Elements(q) == {q[i] : i \in 1..Len(q)}

OthersThreads(c) == {epd[d].L : d \in Conns \ {c}} \ {NoThread}

\* With thread t at c, every thread made is in the pool once or at one place.
Conserved(c, t, pool, made) ==
  /\ \A i, j \in 1..Len(pool) : pool[i] = pool[j] => i = j
  /\ \A d1, d2 \in Conns \ {c} : epd[d1].L = epd[d2].L /\ epd[d1].L # NoThread => d1 = d2
  /\ t \notin OthersThreads(c)
  /\ Elements(pool) \cap ({t} \cup OthersThreads(c)) = {}
  /\ made = (Elements(pool) \cup {t} \cup OthersThreads(c)) \ {NoThread}

Good(c, e, k) ==
  /\ e \in Epdata
  /\ k \in Worker
  /\ Balanced(c, e, k)
  /\ Conserved(c, e.L, k.pool, k.made)

\* A step that changed c and the worker only, and left both as they should be.
Outcome(c) ==
  /\ epd' = [epd EXCEPT ![c] = epd'[c]]
  /\ Good(c, epd'[c], wk')
  /\ Fits(epd'[c])

IInv == /\ TypeOK /\ CallbackFits /\ SendingIsCounted /\ GaugesDriftOneWay
        /\ RefusesNone => ReadingIsCounted
        /\ BodiesWhole => ActiveIsCounted
        /\ ThreadsConserved

-----------------------------------------------------------------------------
(* The functions that end a request. *)

LEMMA PutOutcome ==
  ASSUME TypeOK, NEW c \in Conns, NEW e, NEW k, Good(c, e, k), Fits(e), Put(c, e, k)
  PROVE  Outcome(c)
BY DEF Put, Outcome, TypeOK

LEMMA OthersAreCounted ==
  ASSUME ConnsAssumption, NEW c \in Conns, NEW s
  PROVE  OthersIn(c, s) \in Nat /\ OthersOpen(c) \in Nat
<1>1. IsFiniteSet(Conns \ {c})
  BY ConnsAssumption, FS_Difference DEF ConnsAssumption
<1>2. /\ IsFiniteSet({d \in Conns \ {c} : epd[d].status = s})
      /\ IsFiniteSet({d \in Conns \ {c} : epd[d].open})
  BY <1>1, FS_Subset
<1>. QED
  BY <1>2, FS_CardinalityType DEF OthersIn, OthersOpen

LEMMA ReleaseType ==
  ASSUME NEW k \in Worker, NEW t \in Threads \cup {NoThread}
  PROVE  /\ Release(k, t) \in Worker
         /\ Release(k, t).sending = k.sending
         /\ Release(k, t).reading = k.reading
         /\ Release(k, t).active = k.active
         /\ Release(k, t).pool = IF t = NoThread THEN k.pool ELSE Append(k.pool, t)
         /\ Release(k, t).made = k.made
<1>. DEFINE q == IF t = NoThread THEN k.pool ELSE Append(k.pool, t)
<1>1. q \in Seq(Threads)
  BY DEF Worker
<1>2. Release(k, t) = [k EXCEPT !.pool = q]
  BY DEF Release
<1>. HIDE DEF q
<1>3. [k EXCEPT !.pool = q] \in Worker /\ [k EXCEPT !.pool = q].pool = q
  BY <1>1 DEF Worker
<1>4. /\ Release(k, t).sending = k.sending
      /\ Release(k, t).reading = k.reading
      /\ Release(k, t).active = k.active
      /\ Release(k, t).made = k.made
  BY <1>2 DEF Worker
<1>. QED
  BY <1>2, <1>3, <1>4 DEF q

LEMMA ReadingType ==
  ASSUME NEW k \in Worker, NEW n \in Int
  PROVE  /\ Reading(k, n) \in Worker
         /\ Reading(k, n).reading = k.reading + n
         /\ Reading(k, n).sending = k.sending
         /\ Reading(k, n).active = k.active
         /\ Reading(k, n).pool = k.pool
         /\ Reading(k, n).made = k.made
<1>1. Reading(k, n) \in Worker
  BY DEF Worker, Reading
<1>. QED
  BY <1>1 DEF Worker, Reading

LEMMA SendingType ==
  ASSUME NEW k \in Worker, NEW n \in Int
  PROVE  /\ Sending(k, n) \in Worker
         /\ Sending(k, n).reading = k.reading
         /\ Sending(k, n).sending = k.sending + n
         /\ Sending(k, n).active = k.active
         /\ Sending(k, n).pool = k.pool
         /\ Sending(k, n).made = k.made
<1>1. Sending(k, n) \in Worker
  BY DEF Worker, Sending
<1>. QED
  BY <1>1 DEF Worker, Sending

LEMMA ActiveType ==
  ASSUME NEW k \in Worker, NEW n \in Int
  PROVE  /\ Active(k, n) \in Worker
         /\ Active(k, n).reading = k.reading
         /\ Active(k, n).sending = k.sending
         /\ Active(k, n).active = k.active + n
         /\ Active(k, n).pool = k.pool
         /\ Active(k, n).made = k.made
<1>1. Active(k, n) \in Worker
  BY DEF Worker, Active
<1>. QED
  BY <1>1 DEF Worker, Active

\* What close_client does to the worker.
LEMMA CountedOut ==
  ASSUME NEW k \in Worker, NEW r \in Int, NEW s \in Int, NEW a \in Int,
         NEW t \in Threads \cup {NoThread}
  PROVE  LET q == Release(Active(Sending(Reading(k, r), s), a), t)
         IN  /\ q \in Worker
             /\ q.reading = k.reading + r
             /\ q.sending = k.sending + s
             /\ q.active = k.active + a
             /\ q.pool = IF t = NoThread THEN k.pool ELSE Append(k.pool, t)
             /\ q.made = k.made
<1>1. PICK k1 \in Worker : k1 = Reading(k, r)
  BY ReadingType
<1>2. PICK k2 \in Worker : k2 = Sending(k1, s)
  BY SendingType
<1>3. PICK k3 \in Worker : k3 = Active(k2, a)
  BY ActiveType
<1>4. /\ k1.reading = k.reading + r /\ k1.sending = k.sending /\ k1.active = k.active
      /\ k1.pool = k.pool /\ k1.made = k.made
  BY <1>1, ReadingType
<1>5. /\ k2.reading = k1.reading /\ k2.sending = k1.sending + s /\ k2.active = k1.active
      /\ k2.pool = k1.pool /\ k2.made = k1.made
  BY <1>2, SendingType
<1>6. /\ k3.reading = k2.reading /\ k3.sending = k2.sending /\ k3.active = k2.active + a
      /\ k3.pool = k2.pool /\ k3.made = k2.made
  BY <1>3, ActiveType
<1>7. /\ Release(k3, t) \in Worker /\ Release(k3, t).reading = k3.reading
      /\ Release(k3, t).sending = k3.sending /\ Release(k3, t).active = k3.active
      /\ Release(k3, t).pool = (IF t = NoThread THEN k3.pool ELSE Append(k3.pool, t))
      /\ Release(k3, t).made = k3.made
  BY ReleaseType
<1>. QED
  BY <1>1, <1>2, <1>3, <1>4, <1>5, <1>6, <1>7

\* A handler that moves the gauges by what it does to its connection, and the
\* reading gauge up and the active gauge down at most, keeps the balance.
LEMMA Recount ==
  ASSUME ConnsAssumption, NEW c \in Conns, NEW e, NEW k, Good(c, e, k),
         NEW e2 \in Epdata, NEW k2 \in Worker,
         k2.sending = k.sending + One(e2.status = "SEND") - One(e.status = "SEND"),
         k2.reading >= k.reading + One(e2.status = "READ") - One(e.status = "READ"),
         k2.active =< k.active + One(e2.open) - One(e.open),
         RefusesNone => k2.reading = k.reading + One(e2.status = "READ") - One(e.status = "READ"),
         BodiesWhole => k2.active = k.active + One(e2.open) - One(e.open)
  PROVE  Balanced(c, e2, k2)
<1>1. /\ k.sending \in Int /\ k.reading \in Int /\ k.active \in Int
      /\ k2.sending \in Int /\ k2.reading \in Int /\ k2.active \in Int
  BY DEF Good, Worker
<1>2. \A b : One(b) \in Int
  BY DEF One
<1>3. OthersIn(c, "SEND") \in Int /\ OthersIn(c, "READ") \in Int /\ OthersOpen(c) \in Int
  BY OthersAreCounted
<1>. QED
  BY <1>1, <1>2, <1>3 DEF Good, Balanced

LEMMA RecountGood ==
  ASSUME ConnsAssumption, NEW c \in Conns, NEW e, NEW k, Good(c, e, k),
         NEW e2 \in Epdata, NEW k2 \in Worker,
         k2.sending = k.sending + One(e2.status = "SEND") - One(e.status = "SEND"),
         k2.reading >= k.reading + One(e2.status = "READ") - One(e.status = "READ"),
         k2.active =< k.active + One(e2.open) - One(e.open),
         RefusesNone => k2.reading = k.reading + One(e2.status = "READ") - One(e.status = "READ"),
         BodiesWhole => k2.active = k.active + One(e2.open) - One(e.open),
         e2.L = e.L, k2.pool = k.pool, k2.made = k.made
  PROVE  Good(c, e2, k2)
<1>1. Balanced(c, e2, k2)
  BY ConnsAssumption, Recount
<1>. QED
  BY <1>1 DEF Good

\* Giving the thread of c back to the pool.
LEMMA ReleaseConserved ==
  ASSUME NEW c \in Conns, NEW t \in Threads \cup {NoThread}, NEW pool \in Seq(Threads),
         NEW made, ThreadsAssumption, Conserved(c, t, pool, made)
  PROVE  Conserved(c, NoThread, IF t = NoThread THEN pool ELSE Append(pool, t), made)
<1>1. CASE t = NoThread
  BY <1>1 DEF Conserved
<1>2. CASE t # NoThread
  <2>. DEFINE q == Append(pool, t)
  <2>1. t \in Threads
    BY <1>2
  <2>2. Len(q) = Len(pool) + 1 /\ Len(pool) \in Nat
    BY <2>1
  <2>3. \A i \in 1..Len(q) : q[i] = IF i =< Len(pool) THEN pool[i] ELSE t
    BY <2>1
  <2>4. \A i \in 1..Len(pool) : pool[i] \in Threads
    OBVIOUS
  <2>. HIDE DEF q
  <2>5. Elements(q) = Elements(pool) \cup {t}
    BY <2>2, <2>3 DEF Elements
  <2>6. \A i, j \in 1..Len(q) : q[i] = q[j] => i = j
    <3>1. \A i \in 1..Len(pool) : pool[i] # t
      BY DEF Conserved, Elements
    <3>. QED
      BY <2>2, <2>3, <3>1 DEF Conserved
  <2>7. NoThread \notin Elements(q) /\ NoThread \notin OthersThreads(c)
    BY <2>1, <2>4, <2>5, ThreadsAssumption DEF Elements, OthersThreads, ThreadsAssumption
  <2>8. Elements(q) \cap ({NoThread} \cup OthersThreads(c)) = {}
    BY <2>5, <2>7 DEF Conserved
  <2>9. made = (Elements(q) \cup {NoThread} \cup OthersThreads(c)) \ {NoThread}
    BY <2>5 DEF Conserved
  <2>10. Conserved(c, NoThread, q, made)
    BY <2>6, <2>7, <2>8, <2>9 DEF Conserved
  <2>. QED
    BY <1>2, <2>10 DEF q
<1>. QED
  BY <1>1, <1>2

LEMMA CloseClientOutcome ==
  ASSUME TypeOK, NEW c \in Conns, NEW e, NEW k, Good(c, e, k), CloseClient(c, e, k)
  PROVE  Outcome(c)
<1>. DEFINE reader == IF e.status = "READ" THEN 1 ELSE 0
            sender == IF e.status = "SEND" THEN 1 ELSE 0
            client == IF e.open THEN 1 ELSE 0
            q == Release(Active(Sending(Reading(k, -reader), -sender), -client), e.L)
<1>1. Freed \in Epdata /\ Fits(Freed)
  BY BoundsAssumption DEF Freed, Epdata, Status, Handler, Output, Fits, BoundsAssumption
<1>2. /\ -reader \in Int /\ -sender \in Int /\ -client \in Int
      /\ -reader = One(Freed.status = "READ") - One(e.status = "READ")
      /\ -sender = One(Freed.status = "SEND") - One(e.status = "SEND")
      /\ -client = One(Freed.open) - One(e.open)
  BY DEF One, Freed
<1>3. e.L \in Threads \cup {NoThread} /\ k \in Worker
  BY DEF Good, Epdata
<1>4. Put(c, Freed, q)
  BY DEF CloseClient
<1>. HIDE DEF reader, sender, client
<1>5. /\ q \in Worker
      /\ q.reading = k.reading + -reader
      /\ q.sending = k.sending + -sender
      /\ q.active = k.active + -client
      /\ q.pool = IF e.L = NoThread THEN k.pool ELSE Append(k.pool, e.L)
      /\ q.made = k.made
  BY <1>2, <1>3, CountedOut
<1>. HIDE DEF q
<1>6. /\ q.reading = k.reading + One(Freed.status = "READ") - One(e.status = "READ")
      /\ q.sending = k.sending + One(Freed.status = "SEND") - One(e.status = "SEND")
      /\ q.active = k.active + One(Freed.open) - One(e.open)
  <2>1. k.sending \in Int /\ k.reading \in Int /\ k.active \in Int
    BY <1>3 DEF Worker
  <2>2. \A b : One(b) \in Int
    BY DEF One
  <2>. QED
    BY <1>2, <1>5, <2>1, <2>2
<1>10. q.reading \in Int /\ q.active \in Int
  BY <1>5 DEF Worker
<1>7. Balanced(c, Freed, q)
  <2>1. \A x, y : x \in Int /\ x = y => x >= y /\ x =< y
    OBVIOUS
  <2>. QED
    BY <1>1, <1>5, <1>6, <1>10, <2>1, ConnsAssumption, Recount
<1>8. Conserved(c, Freed.L, q.pool, q.made)
  <2>1. k.pool \in Seq(Threads) /\ Freed.L = NoThread
    BY <1>3 DEF Worker, Freed
  <2>2. Conserved(c, e.L, k.pool, k.made)
    BY DEF Good
  <2>. QED
    BY <1>3, <1>5, <2>1, <2>2, ThreadsAssumption, ReleaseConserved
<1>9. Good(c, Freed, q)
  BY <1>1, <1>5, <1>7, <1>8 DEF Good
<1>. QED
  BY <1>1, <1>4, <1>9, PutOutcome

LEMMA FreeRequestType ==
  ASSUME NEW e \in Epdata
  PROVE  /\ FreeRequest(e) \in Epdata
         /\ FreeRequest(e).status = e.status
         /\ FreeRequest(e).open = e.open
         /\ FreeRequest(e).L = e.L
         /\ FreeRequest(e).fn = IF e.open THEN "read" ELSE "none"
<1>1. e.rest \in 0..MaxBody /\ 0 \in 0..MaxBody
  BY BoundsAssumption DEF BoundsAssumption, Epdata
<1>. QED
  BY <1>1 DEF FreeRequest, Listen, Epdata, Handler, Output

LEMMA EndProcessOutcome ==
  ASSUME TypeOK, NEW c \in Conns, NEW e, NEW k, Good(c, e, k), e.status # "SEND",
         RefusesNone => e.status # "READ",
         EndProcess(c, e, k)
  PROVE  Outcome(c)
<1>. DEFINE w == [e EXCEPT !.status = "WAIT"]
<1>1. e \in Epdata /\ k \in Worker
  BY DEF Good
<1>2. w \in Epdata /\ w.status = "WAIT" /\ w.open = e.open /\ w.L = e.L
  BY <1>1 DEF Epdata, Status
<1>3. \A x \in Epdata : x.status = "WAIT" /\ x.open = e.open /\ x.L = e.L => Good(c, x, k)
  <2>. SUFFICES ASSUME NEW x \in Epdata, x.status = "WAIT", x.open = e.open, x.L = e.L
                PROVE  Good(c, x, k)
    OBVIOUS
  <2>1. k.sending \in Int /\ k.reading \in Int /\ k.active \in Int
    BY <1>1 DEF Worker
  <2>2. /\ One(x.status = "SEND") = 0 /\ One(e.status = "SEND") = 0
        /\ One(x.status = "READ") = 0 /\ One(e.status = "READ") \in {0, 1}
        /\ RefusesNone => One(e.status = "READ") = 0
        /\ One(x.open) = One(e.open) /\ One(e.open) \in {0, 1}
    BY DEF One
  <2>. QED
    BY <1>1, <2>1, <2>2, ConnsAssumption, RecountGood
<1>. HIDE DEF w
<1>4. CASE e.keep /\ ~exiting
  <2>1. Put(c, FreeRequest(w), k)
    BY <1>4 DEF EndProcess, w
  <2>2. Good(c, FreeRequest(w), k)
    BY <1>2, <1>3, FreeRequestType
  <2>3. Fits(FreeRequest(w))
    BY <1>2, FreeRequestType DEF Fits
  <2>. QED
    BY <2>1, <2>2, <2>3, PutOutcome
<1>5. CASE ~(e.keep /\ ~exiting)
  <2>1. CloseClient(c, w, k)
    BY <1>5 DEF EndProcess, w
  <2>. QED
    BY <1>2, <1>3, <2>1, CloseClientOutcome
<1>. QED
  BY <1>4, <1>5

\* Counting a connection into STEP_SEND.
LEMMA SendingGood ==
  ASSUME ConnsAssumption, NEW c \in Conns, NEW e, NEW k, Good(c, e, k),
         e.status # "SEND", RefusesNone => e.status # "READ",
         NEW x \in Epdata, x.status = "SEND", x.open = e.open, x.L = e.L
  PROVE  Good(c, x, Sending(k, 1))
<1>1. k \in Worker
  BY DEF Good
<1>2. /\ Sending(k, 1) \in Worker
      /\ Sending(k, 1).sending = k.sending + 1
      /\ Sending(k, 1).reading = k.reading
      /\ Sending(k, 1).active = k.active
      /\ Sending(k, 1).pool = k.pool /\ Sending(k, 1).made = k.made
  BY <1>1, SendingType
<1>3. k.sending \in Int /\ k.reading \in Int /\ k.active \in Int
  BY <1>1 DEF Worker
<1>4. /\ One(x.status = "SEND") = 1 /\ One(e.status = "SEND") = 0
      /\ One(x.status = "READ") = 0 /\ One(e.status = "READ") \in {0, 1}
      /\ RefusesNone => One(e.status = "READ") = 0
      /\ One(x.open) = One(e.open) /\ One(e.open) \in {0, 1}
  BY DEF One
<1>. QED
  BY <1>1, <1>2, <1>3, <1>4, ConnsAssumption, RecountGood

LEMMA StartSendOutcome ==
  ASSUME TypeOK, NEW c \in Conns, NEW e, NEW k, Good(c, e, k), e.status # "SEND",
         RefusesNone => e.status # "READ",
         StartSend(c, e, k)
  PROVE  Outcome(c)
<1>. DEFINE x == [e EXCEPT !.status = "SEND", !.fn = "write"]
<1>1. CASE e.open
  <2>1. x \in Epdata /\ x.status = "SEND" /\ x.open = e.open /\ x.L = e.L /\ x.fn = "write"
    BY DEF Good, Epdata, Status, Handler
  <2>2. Put(c, x, Sending(k, 1))
    BY <1>1 DEF StartSend
  <2>. HIDE DEF x
  <2>3. Good(c, x, Sending(k, 1))
    BY <2>1, ConnsAssumption, SendingGood
  <2>4. Fits(x)
    BY <1>1, <2>1 DEF Fits
  <2>. QED
    BY <2>2, <2>3, <2>4, PutOutcome
<1>2. CASE ~e.open
  BY <1>2, EndProcessOutcome DEF StartSend
<1>. QED
  BY <1>1, <1>2

\* What is queued for the client does not matter to the gauges.
LEMMA OutputGood ==
  ASSUME ConnsAssumption, NEW c \in Conns, NEW e, NEW k, Good(c, e, k),
         NEW x \in Epdata, x.status = e.status, x.open = e.open, x.L = e.L
  PROVE  Good(c, x, k)
BY DEF Good, Balanced

LEMMA BeEndOutcome ==
  ASSUME TypeOK, NEW c \in Conns, NEW e, NEW k, Good(c, e, k), e.status # "SEND",
         RefusesNone => e.status # "READ",
         BeEnd(c, e, k)
  PROVE  Outcome(c)
<1>1. e \in Epdata /\ k \in Worker
  BY DEF Good
<1>2. CASE e.open /\ ~e.rto /\ e.rest > 0
  <2>. DEFINE x == Listen([e EXCEPT !.status = "READ"], "clear")
              n == IF e.status = "READ" THEN 0 ELSE 1
  <2>1. Put(c, x, Reading(k, n))
    BY <1>2 DEF BeEnd
  <2>2. /\ x \in Epdata /\ x.status = "READ" /\ x.open = e.open /\ x.L = e.L
        /\ x.fn = "clear"
    BY <1>1, <1>2 DEF Listen, Epdata, Status, Handler
  <2>3. n \in Int /\ n = One(x.status = "READ") - One(e.status = "READ")
    BY <2>2 DEF One
  <2>. HIDE DEF x, n
  <2>4. /\ Reading(k, n) \in Worker
        /\ Reading(k, n).reading = k.reading + n
        /\ Reading(k, n).sending = k.sending
        /\ Reading(k, n).active = k.active
        /\ Reading(k, n).pool = k.pool /\ Reading(k, n).made = k.made
    BY <1>1, <2>3, ReadingType
  <2>5. Good(c, x, Reading(k, n))
    <3>1. k.sending \in Int /\ k.reading \in Int /\ k.active \in Int
      BY <1>1 DEF Worker
    <3>2. /\ One(x.status = "SEND") = 0 /\ One(e.status = "SEND") = 0
          /\ One(x.status = "READ") \in Int /\ One(e.status = "READ") \in Int
          /\ One(x.open) = One(e.open) /\ One(e.open) \in Int
      BY <2>2 DEF One
    <3>. QED
      BY <2>2, <2>3, <2>4, <3>1, <3>2, ConnsAssumption, RecountGood
  <2>6. Fits(x)
    BY <1>2, <2>2 DEF Fits
  <2>. QED
    BY <2>1, <2>5, <2>6, PutOutcome
<1>3. CASE ~(e.open /\ ~e.rto /\ e.rest > 0) /\ e.hdr = 0
  <2>. DEFINE out == CASE e.out = "empty"   -> "head"
                       [] e.out = "missing" -> "body"
                       [] OTHER             -> e.out
              x == [e EXCEPT !.out = out]
  <2>1. out \in Output
    BY <1>1 DEF Epdata, Output
  <2>2. EndProcess(c, x, k) \/ StartSend(c, x, k)
    BY <1>3 DEF BeEnd
  <2>. HIDE DEF out
  <2>3. x \in Epdata /\ x.status = e.status /\ x.open = e.open /\ x.L = e.L
    BY <1>1, <2>1 DEF Epdata
  <2>. HIDE DEF x
  <2>4. Good(c, x, k)
    BY <2>3, ConnsAssumption, OutputGood
  <2>. QED
    BY <2>2, <2>3, <2>4, EndProcessOutcome, StartSendOutcome
<1>4. CASE ~(e.open /\ ~e.rto /\ e.rest > 0) /\ e.hdr # 0
  <2>. DEFINE last == [e EXCEPT !.hdr = 2]
              x == [last EXCEPT !.out = "body"]
  <2>1. EndProcess(c, last, k) \/ StartSend(c, x, k)
    BY <1>4 DEF BeEnd
  <2>2. /\ last \in Epdata /\ last.status = e.status /\ last.open = e.open /\ last.L = e.L
        /\ x \in Epdata /\ x.status = e.status /\ x.open = e.open /\ x.L = e.L
    BY <1>1 DEF Epdata, Output
  <2>. HIDE DEF x, last
  <2>3. Good(c, x, k) /\ Good(c, last, k)
    BY <2>2, ConnsAssumption, OutputGood
  <2>. QED
    BY <2>1, <2>2, <2>3, EndProcessOutcome, StartSendOutcome
<1>. QED
  BY <1>2, <1>3, <1>4

LEMMA SendErrorOutcome ==
  ASSUME TypeOK, NEW c \in Conns, NEW e, NEW k, Good(c, e, k), e.status # "SEND",
         RefusesNone => e.status # "READ",
         NEW hasMsg, SendError(c, e, k, hasMsg)
  PROVE  Outcome(c)
<1>. DEFINE out == CASE e.out \in {"file", "missing", "body"} -> e.out
                     [] OTHER -> IF hasMsg THEN "body" ELSE "head"
            x == [e EXCEPT !.out = out]
<1>1. BeEnd(c, x, k)
  BY DEF SendError
<1>2. out \in Output
  BY DEF Output
<1>. HIDE DEF out
<1>3. x \in Epdata /\ x.status = e.status /\ x.open = e.open /\ x.L = e.L
  BY <1>2 DEF Good, Epdata
<1>. HIDE DEF x
<1>4. Good(c, x, k)
  BY <1>3, ConnsAssumption, OutputGood
<1>. QED
  BY <1>1, <1>3, <1>4, BeEndOutcome

-----------------------------------------------------------------------------
(* Threads. *)

ScriptOK == run' \in Conns \cup {NoConn} /\ co' \in [Threads -> CoState]

LEMMA ScriptMoves ==
  ASSUME TypeOK, NEW c \in Conns, NEW e, NEW s \in CoState,
         Start(c, e) \/ Resume(c, e) \/ Leave(e, s) \/ SameScript
  PROVE  ScriptOK
BY DEF TypeOK, ScriptOK, Start, Resume, Leave, SameScript, CoState

\* Taking a thread from the pool for c, or making one.
LEMMA TakeConserved ==
  ASSUME ThreadsAssumption, NEW c \in Conns, NEW k \in Worker,
         Conserved(c, NoThread, k.pool, k.made), NEW t \in Available(k)
  PROVE  /\ t \in Threads
         /\ NewLuaThread(k, t) \in Worker
         /\ NewLuaThread(k, t).sending = k.sending
         /\ NewLuaThread(k, t).reading = k.reading
         /\ NewLuaThread(k, t).active = k.active
         /\ Conserved(c, t, NewLuaThread(k, t).pool, NewLuaThread(k, t).made)
<1>1. k.pool \in Seq(Threads) /\ k.made \in SUBSET Threads
  BY DEF Worker
<1>2. CASE k.pool # <<>>
  <2>. DEFINE q == Tail(k.pool)
  <2>1. t = Head(k.pool) /\ t = k.pool[1] /\ t \in Threads
    BY <1>1, <1>2 DEF Available
  <2>2. Len(k.pool) \in Nat \ {0} /\ Len(q) = Len(k.pool) - 1 /\ q \in Seq(Threads)
    BY <1>1, <1>2
  <2>3. \A i \in 1..Len(q) : q[i] = k.pool[i + 1]
    BY <1>1, <1>2
  <2>4. NewLuaThread(k, t) = [k EXCEPT !.pool = q]
    BY <1>2 DEF NewLuaThread
  <2>. HIDE DEF q
  <2>5. [k EXCEPT !.pool = q] \in Worker /\ [k EXCEPT !.pool = q].pool = q
    BY <2>2 DEF Worker
  <2>6. /\ NewLuaThread(k, t).sending = k.sending
        /\ NewLuaThread(k, t).reading = k.reading
        /\ NewLuaThread(k, t).active = k.active
        /\ NewLuaThread(k, t).made = k.made
    BY <2>4 DEF Worker
  <2>7. \A i \in 1..Len(q) : i + 1 \in 1..Len(k.pool) /\ i + 1 # 1
    BY <2>2
  <2>8. \A i \in 1..Len(q) : q[i] # t
    BY <2>1, <2>2, <2>3, <2>7 DEF Conserved
  <2>9. Elements(k.pool) = Elements(q) \cup {t}
    <3>1. Elements(q) \cup {t} \subseteq Elements(k.pool)
      BY <2>1, <2>2, <2>3, <2>7 DEF Elements
    <3>2. \A j \in 1..Len(k.pool) : j = 1 \/ j - 1 \in 1..Len(q)
      BY <2>2
    <3>3. \A j \in 1..Len(k.pool) : j = 1 \/ q[j - 1] = k.pool[j]
      <4>1. SUFFICES ASSUME NEW j \in 1..Len(k.pool), j # 1
                     PROVE  q[j - 1] = k.pool[j]
        OBVIOUS
      <4>2. j - 1 \in 1..Len(q) /\ (j - 1) + 1 = j
        BY <4>1, <3>2
      <4>. QED
        BY <4>2, <2>3
    <3>4. Elements(k.pool) \subseteq Elements(q) \cup {t}
      BY <2>1, <3>2, <3>3 DEF Elements
    <3>. QED
      BY <3>1, <3>4
  <2>10. \A i, j \in 1..Len(q) : q[i] = q[j] => i = j
    <3>1. SUFFICES ASSUME NEW i \in 1..Len(q), NEW j \in 1..Len(q), q[i] = q[j]
                   PROVE  i = j
      OBVIOUS
    <3>2. k.pool[i + 1] = k.pool[j + 1]
      BY <2>3, <3>1
    <3>3. i + 1 = j + 1
      BY <2>7, <3>2 DEF Conserved
    <3>. QED
      BY <3>3
  <2>11. t \notin Elements(q) /\ t # NoThread
    BY <2>1, <2>8, ThreadsAssumption DEF Elements, ThreadsAssumption
  <2>12. Conserved(c, t, q, k.made)
    BY <2>9, <2>10, <2>11 DEF Conserved
  <2>. QED
    BY <2>1, <2>4, <2>5, <2>6, <2>12
<1>3. CASE k.pool = <<>>
  <2>1. t \in Threads /\ t \notin k.made
    BY <1>3 DEF Available
  <2>2. NewLuaThread(k, t) = [k EXCEPT !.made = k.made \cup {t}]
    BY <1>3 DEF NewLuaThread
  <2>3. k.made \cup {t} \in SUBSET Threads
    BY <1>1, <2>1
  <2>4. NewLuaThread(k, t) \in Worker
    BY <2>2, <2>3 DEF Worker
  <2>5. /\ NewLuaThread(k, t).sending = k.sending
        /\ NewLuaThread(k, t).reading = k.reading
        /\ NewLuaThread(k, t).active = k.active
        /\ NewLuaThread(k, t).pool = k.pool
        /\ NewLuaThread(k, t).made = k.made \cup {t}
    BY <2>2 DEF Worker
  <2>6. Elements(k.pool) = {}
    BY <1>3 DEF Elements
  <2>7. t # NoThread /\ t \notin OthersThreads(c)
    BY <2>1, ThreadsAssumption DEF Conserved, OthersThreads, ThreadsAssumption
  <2>8. Conserved(c, t, k.pool, k.made \cup {t})
    BY <2>6, <2>7 DEF Conserved
  <2>. QED
    BY <2>1, <2>4, <2>5, <2>8
<1>. QED
  BY <1>2, <1>3

LEMMA WorkerProcessOutcome ==
  ASSUME TypeOK, NEW c \in Conns, NEW e, NEW k, Good(c, e, k), Fits(e),
         e.status = "PROCESS", WorkerProcess(c, e, k)
  PROVE  Outcome(c) /\ ScriptOK
<1>1. ASSUME NEW x, Good(c, x, k), x.status = "PROCESS", SendError(c, x, k, TRUE), SameScript
      PROVE  Outcome(c) /\ ScriptOK
  BY <1>1, SendErrorOutcome DEF ScriptOK, TypeOK, SameScript
<1>2. CASE \/ "badcert" \in Moves /\ SendError(c, e, k, TRUE) /\ SameScript
           \/ Available(k) = {} /\ SendError(c, e, k, TRUE) /\ SameScript
  BY <1>1, <1>2
<1>3. ASSUME NEW t, NEW k2,
             e.L = NoThread => t \in Available(k) /\ k2 = NewLuaThread(k, t),
             e.L # NoThread => t = e.L /\ k2 = k
      PROVE  LET own == [e EXCEPT !.L = t]
             IN  Good(c, own, k2) /\ Fits(own) /\ own.status = "PROCESS"
  <2>. DEFINE own == [e EXCEPT !.L = t]
  <2>1. e \in Epdata /\ k \in Worker /\ Balanced(c, e, k) /\ Conserved(c, e.L, k.pool, k.made)
    BY DEF Good
  <2>2. e.L \in Threads \cup {NoThread}
    BY <2>1 DEF Epdata
  <2>3. /\ t \in Threads /\ k2 \in Worker
        /\ k2.sending = k.sending /\ k2.reading = k.reading /\ k2.active = k.active
        /\ Conserved(c, t, k2.pool, k2.made)
    <3>1. CASE e.L = NoThread
      BY <1>3, <2>1, <3>1, ThreadsAssumption, TakeConserved
    <3>2. CASE e.L # NoThread
      BY <1>3, <2>1, <2>2, <3>2
    <3>. QED
      BY <3>1, <3>2
  <2>4. /\ own \in Epdata /\ own.L = t /\ own.status = e.status /\ own.open = e.open
        /\ own.fn = e.fn /\ own.rest = e.rest
    BY <2>1, <2>3 DEF Epdata
  <2>. HIDE DEF own
  <2>5. Good(c, own, k2)
    BY <2>1, <2>3, <2>4 DEF Good, Balanced
  <2>6. Fits(own)
    BY <2>4 DEF Fits
  <2>. QED
    BY <2>4, <2>5, <2>6 DEF own
<1>4. ASSUME NEW t \in IF e.L = NoThread THEN Available(k) ELSE {e.L},
             LET own == [e EXCEPT !.L = t]
                 k2  == IF e.L = NoThread THEN NewLuaThread(k, t) ELSE k
             IN  \/ /\ co[t] = "dead" \/ "badrequest" \in Moves
                    /\ SendError(c, own, k2, TRUE) /\ SameScript
                 \/ co[t] # "dead" /\ Put(c, own, k2) /\ Start(c, own)
      PROVE  Outcome(c) /\ ScriptOK
  <2>. DEFINE own == [e EXCEPT !.L = t]
              k2  == IF e.L = NoThread THEN NewLuaThread(k, t) ELSE k
  <2>1. Good(c, own, k2) /\ Fits(own) /\ own.status = "PROCESS"
    BY <1>3, <1>4
  <2>2. \/ SendError(c, own, k2, TRUE) /\ SameScript
        \/ Put(c, own, k2) /\ Start(c, own)
    BY <1>4
  <2>. HIDE DEF own, k2
  <2>3. CASE SendError(c, own, k2, TRUE) /\ SameScript
    BY <2>1, <2>3, SendErrorOutcome DEF ScriptOK, TypeOK, SameScript
  <2>4. CASE Put(c, own, k2) /\ Start(c, own)
    <3>1. Outcome(c)
      BY <2>1, <2>4, PutOutcome
    <3>2. ScriptOK
      BY <2>4, ScriptMoves DEF CoState
    <3>. QED
      BY <3>1, <3>2
  <2>. QED
    BY <2>2, <2>3, <2>4
<1>. QED
  BY <1>2, <1>4 DEF WorkerProcess

-----------------------------------------------------------------------------
(* Writing. *)

\* A connection that is open and being worked for may wait for its script.
LEMMA AwaitScriptType ==
  ASSUME NEW e \in Epdata, e.status = "PROCESS"
  PROVE  /\ AwaitScript(e) \in Epdata
         /\ AwaitScript(e).status = "PROCESS"
         /\ AwaitScript(e).open = e.open
         /\ AwaitScript(e).L = e.L
         /\ Fits(AwaitScript(e))
<1>. DEFINE fn == IF e.open THEN IF e.rest = 0 THEN "processing" ELSE "none" ELSE "none"
            x == [e EXCEPT !.fn = fn]
<1>1. AwaitScript(e) = x
  BY DEF AwaitScript, Listen
<1>2. /\ x \in Epdata /\ x.status = e.status /\ x.open = e.open /\ x.L = e.L
      /\ x.fn = fn /\ x.rest = e.rest
  BY DEF Epdata, Handler
<1>3. Fits(x)
  BY <1>2 DEF Fits
<1>. QED
  BY <1>1, <1>2, <1>3

LEMMA SendThenSendOutcome ==
  ASSUME TypeOK, NEW c \in Conns, NEW e, NEW k, Good(c, e, k), Fits(e),
         e.status = "PROCESS", e.fn = "write", SendThenSend(c, e, k)
  PROVE  Outcome(c) /\ ScriptOK
<1>1. e \in Epdata
  BY DEF Good
<1>2. CASE /\ e.hdr = 1 => e.ops > 0
           /\ Put(c, [e EXCEPT !.status = "SEND",
                               !.ops = IF e.hdr = 1 THEN e.ops - 1 ELSE e.ops],
                  Sending(k, 1))
           /\ SameScript
  <2>. DEFINE n == IF e.hdr = 1 THEN e.ops - 1 ELSE e.ops
              x == [e EXCEPT !.status = "SEND", !.ops = n]
  <2>1. e.ops \in 0..MaxOps
    BY <1>1 DEF Epdata
  <2>2. n \in 0..MaxOps
    BY <1>2, <2>1, BoundsAssumption DEF BoundsAssumption
  <2>. HIDE DEF n
  <2>3. /\ x \in Epdata /\ x.status = "SEND" /\ x.open = e.open /\ x.L = e.L
        /\ x.fn = e.fn
    BY <1>1, <2>2 DEF Epdata, Status
  <2>4. Put(c, x, Sending(k, 1))
    BY <1>2 DEF n
  <2>. HIDE DEF x
  <2>5. Good(c, x, Sending(k, 1))
    BY <2>3, ConnsAssumption, SendingGood
  <2>6. Fits(x)
    BY <2>3 DEF Fits
  <2>. QED
    BY <1>2, <2>4, <2>5, <2>6, PutOutcome DEF ScriptOK, TypeOK, SameScript
<1>3. CASE Put(c, [e EXCEPT !.next = "none"], k) /\ Resume(c, e)
  <2>. DEFINE x == [e EXCEPT !.next = "none"]
  <2>1. /\ x \in Epdata /\ x.status = e.status /\ x.open = e.open /\ x.L = e.L
        /\ x.fn = e.fn /\ x.rest = e.rest
    BY <1>1 DEF Epdata
  <2>2. Put(c, x, k)
    BY <1>3
  <2>. HIDE DEF x
  <2>3. Good(c, x, k)
    BY <2>1, ConnsAssumption, OutputGood
  <2>4. Fits(x)
    BY <2>1 DEF Fits
  <2>5. ScriptOK
    BY <1>3, ScriptMoves DEF CoState
  <2>. QED
    BY <2>2, <2>3, <2>4, <2>5, PutOutcome
<1>. QED
  BY <1>2, <1>3 DEF SendThenSend

LEMMA WrittenOutcome ==
  ASSUME TypeOK, NEW c \in Conns, NEW e, NEW k, Good(c, e, k), Fits(e),
         e.status = "PROCESS", e.fn = "write", Written(c, e, k)
  PROVE  Outcome(c) /\ ScriptOK
<1>1. e \in Epdata
  BY DEF Good
<1>2. CASE e.next = "process"
  <2>. DEFINE x == [e EXCEPT !.next = "none", !.out = "empty"]
  <2>1. WorkerProcess(c, x, k)
    BY <1>2 DEF Written
  <2>2. /\ x \in Epdata /\ x.status = e.status /\ x.open = e.open /\ x.L = e.L
        /\ x.fn = e.fn /\ x.rest = e.rest
    BY <1>1 DEF Epdata, Output
  <2>. HIDE DEF x
  <2>3. Good(c, x, k)
    BY <2>2, ConnsAssumption, OutputGood
  <2>4. Fits(x)
    BY <2>2 DEF Fits
  <2>. QED
    BY <2>1, <2>2, <2>3, <2>4, WorkerProcessOutcome
<1>3. CASE e.next = "send"
  <2>1. SendThenSend(c, e, k)
    BY <1>3 DEF Written
  <2>. QED
    BY <2>1, SendThenSendOutcome
<1>4. CASE e.next = "none" /\ e.hdr = 1
  <2>. DEFINE x == [e EXCEPT !.out = "empty"]
  <2>1. Put(c, AwaitScript(x), k) /\ Resume(c, e)
    BY <1>4 DEF Written
  <2>2. /\ x \in Epdata /\ x.status = "PROCESS" /\ x.open = e.open /\ x.L = e.L
    BY <1>1 DEF Epdata, Output
  <2>. HIDE DEF x
  <2>3. Good(c, AwaitScript(x), k) /\ Fits(AwaitScript(x))
    BY <2>2, ConnsAssumption, AwaitScriptType, OutputGood
  <2>4. ScriptOK
    BY <2>1, ScriptMoves DEF CoState
  <2>. QED
    BY <2>1, <2>3, <2>4, PutOutcome
<1>5. CASE e.next = "none" /\ e.hdr # 1
  <2>1. EndProcess(c, e, k) /\ SameScript
    BY <1>5 DEF Written
  <2>. QED
    BY <2>1, EndProcessOutcome DEF ScriptOK, TypeOK, SameScript
<1>6. e.next \in {"none", "process", "send"}
  BY <1>1 DEF Epdata
<1>. QED
  BY <1>2, <1>3, <1>4, <1>5, <1>6

LEMMA NetworkFlushOutcome ==
  ASSUME TypeOK, NEW c \in Conns, NEW e, NEW k, Good(c, e, k),
         e.status = "PROCESS", NetworkFlush(c, e, k)
  PROVE  Outcome(c) /\ ScriptOK
<1>. DEFINE h == IF e.hdr = 0 THEN 5 ELSE e.hdr
            fn == IF e.open THEN "write" ELSE "none"
            x == [e EXCEPT !.status = "SEND", !.hdr = h, !.fn = fn]
<1>1. e \in Epdata /\ h \in {0, 1, 2, 5} /\ fn \in Handler
  BY DEF Good, Epdata, Handler
<1>2. Put(c, x, Sending(k, 1)) /\ Leave(e, "flush")
  BY <1>1 DEF NetworkFlush, Listen, Epdata
<1>. HIDE DEF h
<1>3. /\ x \in Epdata /\ x.status = "SEND" /\ x.open = e.open /\ x.L = e.L
      /\ x.fn = IF e.open THEN "write" ELSE "none"
  BY <1>1 DEF Epdata, Status
<1>. HIDE DEF x
<1>4. Good(c, x, Sending(k, 1))
  BY <1>3, ConnsAssumption, SendingGood
<1>5. Fits(x)
  BY <1>3 DEF Fits
<1>6. ScriptOK
  BY <1>2, ScriptMoves DEF CoState
<1>. QED
  BY <1>2, <1>4, <1>5, <1>6, PutOutcome

-----------------------------------------------------------------------------
(* From the invariant to the point of view of a connection, and back. *)

LEMMA CountSplit ==
  ASSUME ConnsAssumption, NEW c, NEW T \in SUBSET Conns
  PROVE  Cardinality(T) = Cardinality(T \ {c}) + One(c \in T)
<1>1. IsFiniteSet(T)
  BY FS_Subset DEF ConnsAssumption
<1>2. Cardinality(T) \in Nat
  BY <1>1, FS_CardinalityType
<1>3. CASE c \in T
  <2>1. Cardinality(T \ {c}) = Cardinality(T) - 1
    BY <1>1, <1>3, FS_RemoveElement
  <2>. QED
    BY <1>2, <1>3, <2>1 DEF One
<1>4. CASE c \notin T
  <2>1. T \ {c} = T
    BY <1>4
  <2>. QED
    BY <1>2, <1>4, <2>1 DEF One
<1>. QED
  BY <1>3, <1>4

LEMMA CountedFrom ==
  ASSUME ConnsAssumption, TypeOK, NEW c \in Conns
  PROVE  /\ \A s : Cardinality(In(s)) = OthersIn(c, s) + One(epd[c].status = s)
         /\ Cardinality(OpenConns) = OthersOpen(c) + One(epd[c].open)
<1>1. ASSUME NEW s
      PROVE  Cardinality(In(s)) = OthersIn(c, s) + One(epd[c].status = s)
  <2>1. In(s) \in SUBSET Conns /\ In(s) \ {c} = {d \in Conns \ {c} : epd[d].status = s}
    BY DEF In
  <2>2. (c \in In(s)) <=> epd[c].status = s
    BY DEF In
  <2>. QED
    BY <2>1, <2>2, ConnsAssumption, CountSplit DEF OthersIn, One
<1>2. Cardinality(OpenConns) = OthersOpen(c) + One(epd[c].open)
  <2>1. /\ OpenConns \in SUBSET Conns
        /\ OpenConns \ {c} = {d \in Conns \ {c} : epd[d].open}
    BY DEF OpenConns
  <2>2. (c \in OpenConns) <=> epd[c].open
    BY DEF OpenConns
  <2>. QED
    BY <2>1, <2>2, ConnsAssumption, CountSplit DEF OthersOpen, One
<1>. QED
  BY <1>1, <1>2

LEMMA GoodFrom ==
  ASSUME ConnsAssumption, ThreadsAssumption, IInv, NEW c \in Conns
  PROVE  Good(c, epd[c], wk) /\ Fits(epd[c]) /\ epd[c] \in Epdata /\ wk \in Worker
<1>1. TypeOK /\ epd[c] \in Epdata /\ wk \in Worker /\ Fits(epd[c])
  BY DEF IInv, TypeOK, CallbackFits
<1>2. Balanced(c, epd[c], wk)
  <2>1. /\ wk.sending = Cardinality(In("SEND"))
        /\ wk.reading >= Cardinality(In("READ"))
        /\ wk.active =< Cardinality(OpenConns)
        /\ RefusesNone => wk.reading = Cardinality(In("READ"))
        /\ BodiesWhole => wk.active = Cardinality(OpenConns)
    BY DEF IInv, SendingIsCounted, GaugesDriftOneWay, ReadingIsCounted, ActiveIsCounted
  <2>. QED
    BY <1>1, <2>1, ConnsAssumption, CountedFrom DEF Balanced
<1>3. Conserved(c, epd[c].L, wk.pool, wk.made)
  <2>1. ThreadsConserved
    BY DEF IInv
  <2>2. PoolThreads = Elements(wk.pool)
    BY DEF PoolThreads, Elements
  <2>3. Owned = (OthersThreads(c) \cup {epd[c].L}) \ {NoThread}
    BY DEF Owned, OthersThreads
  <2>4. epd[c].L \notin OthersThreads(c)
    BY <2>1 DEF ThreadsConserved, OthersThreads
  <2>5. NoThread \notin Elements(wk.pool)
    <3>1. wk.pool \in Seq(Threads)
      BY <1>1 DEF Worker
    <3>. QED
      BY <3>1, ThreadsAssumption DEF Elements, ThreadsAssumption
  <2>6. Elements(wk.pool) \cap ({epd[c].L} \cup OthersThreads(c)) = {}
    BY <2>1, <2>2, <2>3, <2>5 DEF ThreadsConserved
  <2>7. wk.made = (Elements(wk.pool) \cup {epd[c].L} \cup OthersThreads(c)) \ {NoThread}
    BY <2>1, <2>2, <2>3, <2>5 DEF ThreadsConserved
  <2>. QED
    BY <2>1, <2>4, <2>6, <2>7 DEF ThreadsConserved, Conserved
<1>. QED
  BY <1>1, <1>2, <1>3 DEF Good

LEMMA GoodTo ==
  ASSUME ConnsAssumption, ThreadsAssumption, IInv, NEW c \in Conns, Outcome(c), ScriptOK,
         exiting' \in BOOLEAN
  PROVE  IInv'
<1>1. TypeOK /\ epd \in [Conns -> Epdata]
  BY DEF IInv, TypeOK
<1>2. /\ epd' = [epd EXCEPT ![c] = epd'[c]]
      /\ epd'[c] \in Epdata /\ wk' \in Worker /\ Fits(epd'[c])
      /\ Balanced(c, epd'[c], wk') /\ Conserved(c, epd'[c].L, wk'.pool, wk'.made)
  BY DEF Outcome, Good
<1>3. epd' \in [Conns -> Epdata] /\ \A d \in Conns \ {c} : epd'[d] = epd[d]
  BY <1>1, <1>2
<1>4. TypeOK'
  BY <1>2, <1>3 DEF TypeOK, ScriptOK
<1>5. CallbackFits'
  <2>1. \A d \in Conns : Fits(epd'[d])
    BY <1>2, <1>3 DEF IInv, CallbackFits
  <2>. QED
    BY <2>1 DEF CallbackFits, Fits
<1>6. /\ (SendingIsCounted /\ GaugesDriftOneWay)'
      /\ RefusesNone => ReadingIsCounted'
      /\ BodiesWhole => ActiveIsCounted'
  <2>1. /\ \A s : Cardinality({d \in Conns : epd'[d].status = s})
                   = OthersIn(c, s) + One(epd'[c].status = s)
        /\ Cardinality({d \in Conns : epd'[d].open}) = OthersOpen(c) + One(epd'[c].open)
    <3>1. ASSUME NEW s
          PROVE  Cardinality({d \in Conns : epd'[d].status = s})
                 = OthersIn(c, s) + One(epd'[c].status = s)
      <4>. DEFINE T == {d \in Conns : epd'[d].status = s}
      <4>1. T \in SUBSET Conns /\ T \ {c} = {d \in Conns \ {c} : epd[d].status = s}
        BY <1>3
      <4>2. (c \in T) <=> epd'[c].status = s
        OBVIOUS
      <4>. QED
        BY <4>1, <4>2, ConnsAssumption, CountSplit DEF OthersIn, One
    <3>2. Cardinality({d \in Conns : epd'[d].open}) = OthersOpen(c) + One(epd'[c].open)
      <4>. DEFINE T == {d \in Conns : epd'[d].open}
      <4>1. T \in SUBSET Conns /\ T \ {c} = {d \in Conns \ {c} : epd[d].open}
        BY <1>3
      <4>2. (c \in T) <=> epd'[c].open
        OBVIOUS
      <4>. QED
        BY <4>1, <4>2, ConnsAssumption, CountSplit DEF OthersOpen, One
    <3>. QED
      BY <3>1, <3>2
  <2>. QED
    BY <1>2, <2>1 DEF Balanced, SendingIsCounted, GaugesDriftOneWay, ReadingIsCounted,
                      ActiveIsCounted, In, OpenConns
<1>7. ThreadsConserved'
  <2>. DEFINE pool == wk'.pool
              made == wk'.made
  <2>1. /\ \A i, j \in 1..Len(pool) : pool[i] = pool[j] => i = j
        /\ \A d1, d2 \in Conns \ {c} : epd[d1].L = epd[d2].L /\ epd[d1].L # NoThread => d1 = d2
        /\ epd'[c].L \notin OthersThreads(c)
        /\ Elements(pool) \cap ({epd'[c].L} \cup OthersThreads(c)) = {}
        /\ made = (Elements(pool) \cup {epd'[c].L} \cup OthersThreads(c)) \ {NoThread}
    BY <1>2 DEF Conserved
  <2>2. Owned' = (OthersThreads(c) \cup {epd'[c].L}) \ {NoThread}
    BY <1>3 DEF Owned, OthersThreads
  <2>3. PoolThreads' = Elements(pool)
    BY DEF PoolThreads, Elements
  <2>4. NoThread \notin Elements(pool)
    <3>1. pool \in Seq(Threads)
      BY <1>2 DEF Worker
    <3>. QED
      BY <3>1, ThreadsAssumption DEF Elements, ThreadsAssumption
  <2>5. \A d1, d2 \in Conns : epd'[d1].L = epd'[d2].L /\ epd'[d1].L # NoThread => d1 = d2
    BY <1>3, <2>1 DEF OthersThreads
  <2>6. PoolThreads' \cap Owned' = {} /\ made = PoolThreads' \cup Owned'
    BY <2>1, <2>2, <2>3, <2>4
  <2>. QED
    BY <2>1, <2>5, <2>6 DEF ThreadsConserved
<1>. QED
  BY <1>4, <1>5, <1>6, <1>7 DEF IInv, RefusesNone, BodiesWhole

-----------------------------------------------------------------------------
(* The handlers of the event loop. *)

LEMMA StayOutcome ==
  ASSUME ConnsAssumption, ThreadsAssumption, IInv, NEW c \in Conns, UNCHANGED <<epd, wk>>
  PROVE  Outcome(c)
<1>1. TypeOK
  BY DEF IInv
<1>2. Put(c, epd[c], wk)
  BY <1>1 DEF Put, TypeOK
<1>. QED
  BY <1>1, <1>2, GoodFrom, PutOutcome

\* Moving a gauge along with the connection: into and out of STEP_READ, and
\* closing the socket.
LEMMA ReadingGood ==
  ASSUME ConnsAssumption, NEW c \in Conns, NEW e, NEW k, Good(c, e, k),
         NEW x \in Epdata, x.open = e.open, x.L = e.L, NEW n \in Int,
         x.status # "SEND", e.status # "SEND",
         n = One(x.status = "READ") - One(e.status = "READ")
  PROVE  Good(c, x, Reading(k, n))
<1>1. k \in Worker
  BY DEF Good
<1>2. /\ Reading(k, n) \in Worker
      /\ Reading(k, n).reading = k.reading + n
      /\ Reading(k, n).sending = k.sending
      /\ Reading(k, n).active = k.active
      /\ Reading(k, n).pool = k.pool /\ Reading(k, n).made = k.made
  BY <1>1, ReadingType
<1>3. k.sending \in Int /\ k.reading \in Int /\ k.active \in Int
  BY <1>1 DEF Worker
<1>4. /\ One(x.status = "SEND") = 0 /\ One(e.status = "SEND") = 0
      /\ One(x.status = "READ") \in Int /\ One(e.status = "READ") \in Int
      /\ One(x.open) = One(e.open) /\ One(e.open) \in Int
  BY DEF One
<1>5. PICK q : q = Reading(k, n)
  OBVIOUS
<1>6. /\ q \in Worker
      /\ q.sending = k.sending + One(x.status = "SEND") - One(e.status = "SEND")
      /\ q.reading = k.reading + One(x.status = "READ") - One(e.status = "READ")
      /\ q.active = k.active + One(x.open) - One(e.open)
      /\ q.pool = k.pool /\ q.made = k.made
  <2>1. q \in Worker /\ q.pool = k.pool /\ q.made = k.made
    BY <1>2, <1>5
  <2>2. q.sending = k.sending + One(x.status = "SEND") - One(e.status = "SEND")
    BY <1>2, <1>3, <1>4, <1>5
  <2>3. q.reading = k.reading + One(x.status = "READ") - One(e.status = "READ")
    BY <1>2, <1>3, <1>4, <1>5
  <2>4. q.active = k.active + One(x.open) - One(e.open)
    BY <1>2, <1>3, <1>4, <1>5
  <2>. QED
    BY <2>1, <2>2, <2>3, <2>4
<1>7. Good(c, x, q)
  <2>1. q.reading \in Int /\ q.active \in Int
    BY <1>6 DEF Worker
  <2>2. \A a, b : a \in Int /\ a = b => a >= b /\ a =< b
    OBVIOUS
  <2>. QED
    BY <1>6, <2>1, <2>2, ConnsAssumption, RecountGood
<1>. QED
  BY <1>5, <1>7

LEMMA GoneGood ==
  ASSUME ConnsAssumption, NEW c \in Conns, NEW e, NEW k, Good(c, e, k), e.open,
         NEW x \in Epdata, ~x.open, x.L = e.L, x.status = e.status,
         NEW n \in Int, n =< -1, BodiesWhole => n = -1
  PROVE  Good(c, x, Active(k, n))
<1>1. k \in Worker
  BY DEF Good
<1>2. /\ Active(k, n) \in Worker
      /\ Active(k, n).reading = k.reading
      /\ Active(k, n).sending = k.sending
      /\ Active(k, n).active = k.active + n
      /\ Active(k, n).pool = k.pool /\ Active(k, n).made = k.made
  BY <1>1, ActiveType
<1>3. k.sending \in Int /\ k.reading \in Int /\ k.active \in Int
  BY <1>1 DEF Worker
<1>4. /\ One(x.status = "SEND") = One(e.status = "SEND") /\ One(e.status = "SEND") \in Int
      /\ One(x.status = "READ") = One(e.status = "READ") /\ One(e.status = "READ") \in Int
      /\ One(x.open) = 0 /\ One(e.open) = 1
  BY DEF One
<1>. DEFINE k2 == Active(k, n)
<1>5. /\ k2.sending = k.sending + One(x.status = "SEND") - One(e.status = "SEND")
      /\ k2.reading >= k.reading + One(x.status = "READ") - One(e.status = "READ")
      /\ k2.active =< k.active + One(x.open) - One(e.open)
      /\ RefusesNone => k2.reading = k.reading + One(x.status = "READ") - One(e.status = "READ")
      /\ BodiesWhole => k2.active = k.active + One(x.open) - One(e.open)
  <2>1. k2.sending = k.sending + One(x.status = "SEND") - One(e.status = "SEND")
    BY <1>2, <1>3, <1>4
  <2>2. /\ k2.reading >= k.reading + One(x.status = "READ") - One(e.status = "READ")
        /\ k2.reading = k.reading + One(x.status = "READ") - One(e.status = "READ")
    BY <1>2, <1>3, <1>4
  <2>3. k2.active = k.active + n
    BY <1>2
  <2>4. /\ k.active + n =< k.active + One(x.open) - One(e.open)
        /\ BodiesWhole => k.active + n = k.active + One(x.open) - One(e.open)
    <3>. DEFINE p == One(x.open)
                q == One(e.open)
    <3>1. p = 0 /\ q = 1
      BY <1>4
    <3>. HIDE DEF p, q
    <3>2. k.active + n =< k.active + p - q
      BY <1>3, <3>1
    <3>3. BodiesWhole => k.active + n = k.active + p - q
      BY <1>3, <3>1
    <3>. QED
      BY <3>2, <3>3 DEF p, q
  <2>. QED
    BY <2>1, <2>2, <2>3, <2>4
<1>6. k2 \in Worker /\ k2.pool = k.pool /\ k2.made = k.made
  BY <1>2
<1>. HIDE DEF k2
<1>7. Good(c, x, k2)
  BY <1>5, <1>6, ConnsAssumption, RecountGood
<1>. QED
  BY <1>7 DEF k2

\* What a callback of the event loop starts from.
LEMMA LoopFacts ==
  ASSUME IInv, NEW c \in Conns, NEW fn, Loop(c, fn)
  PROVE  /\ TypeOK /\ Good(c, epd[c], wk) /\ Fits(epd[c]) /\ epd[c] \in Epdata /\ wk \in Worker
         /\ epd[c].open /\ epd[c].fn = fn
BY ConnsAssumption, ThreadsAssumption, GoodFrom DEF Loop, IInv

\* Leaving STEP_SEND.
LEMMA SentGood ==
  ASSUME NEW c \in Conns, NEW e, NEW k, Good(c, e, k), e.status = "SEND",
         NEW x \in Epdata, x.open = e.open, x.L = e.L, x.status \notin {"SEND", "READ"}
  PROVE  Good(c, x, Sending(k, -1))
<1>1. k \in Worker
  BY DEF Good
<1>2. /\ Sending(k, -1) \in Worker
      /\ Sending(k, -1).reading = k.reading
      /\ Sending(k, -1).sending = k.sending + -1
      /\ Sending(k, -1).active = k.active
      /\ Sending(k, -1).pool = k.pool /\ Sending(k, -1).made = k.made
  BY <1>1, SendingType
<1>3. k.sending \in Int /\ k.reading \in Int /\ k.active \in Int
  BY <1>1 DEF Worker
<1>4. /\ One(x.status = "SEND") = 0 /\ One(e.status = "SEND") = 1
      /\ One(x.status = "READ") = 0 /\ One(e.status = "READ") = 0
      /\ One(x.open) = One(e.open) /\ One(e.open) \in Int
  BY DEF One
<1>. QED
  BY <1>1, <1>2, <1>3, <1>4, ConnsAssumption, RecountGood

\* Between states that no gauge counts.
LEMMA QuietGood ==
  ASSUME NEW c \in Conns, NEW e, NEW k, Good(c, e, k), e.status \notin {"SEND", "READ"},
         NEW x \in Epdata, x.open = e.open, x.L = e.L, x.status \notin {"SEND", "READ"}
  PROVE  Good(c, x, k)
<1>1. k \in Worker
  BY DEF Good
<1>2. k.sending \in Int /\ k.reading \in Int /\ k.active \in Int
  BY <1>1 DEF Worker
<1>3. /\ One(x.status = "SEND") = 0 /\ One(e.status = "SEND") = 0
      /\ One(x.status = "READ") = 0 /\ One(e.status = "READ") = 0
      /\ One(x.open) = One(e.open) /\ One(e.open) \in Int
  BY DEF One
<1>. QED
  BY <1>1, <1>2, <1>3, ConnsAssumption, RecountGood

\* Steps that neither move nor close the connection.
LEMMA SameOutcome ==
  ASSUME TypeOK, NEW c \in Conns, NEW e, NEW k, Good(c, e, k), Fits(e),
         NEW x \in Epdata, x.status = e.status, x.open = e.open, x.L = e.L, x.fn = e.fn,
         x.rest = e.rest, Put(c, x, k)
  PROVE  Outcome(c)
<1>1. Good(c, x, k)
  BY ConnsAssumption, OutputGood
<1>2. Fits(x)
  BY DEF Fits
<1>. QED
  BY <1>1, <1>2, PutOutcome

LEMMA SameScriptOK ==
  ASSUME TypeOK, SameScript
  PROVE  ScriptOK
BY DEF TypeOK, SameScript, ScriptOK

LEMMA AcceptOutcome ==
  ASSUME IInv, NEW c \in Conns, Accept(c)
  PROVE  Outcome(c) /\ ScriptOK
<1>1. TypeOK /\ epd[c].status = "FREE"
  BY DEF IInv, Accept
<1>2. Good(c, epd[c], wk) /\ epd[c] \in Epdata /\ wk \in Worker
  BY ConnsAssumption, ThreadsAssumption, GoodFrom
<1>3. PICK fn \in {"read", "ssl"} :
        LET e == [Freed EXCEPT !.status = "WAIT", !.fn = fn, !.open = TRUE]
        IN  \/ Available(wk) = {} /\ Put(c, e, Active(wk, 1))
            \/ \E t \in Available(wk) :
                 Put(c, [e EXCEPT !.L = t], Active(NewLuaThread(wk, t), 1))
  BY DEF Accept
<1>4. ScriptOK
  BY <1>1 DEF Accept, SameScript, ScriptOK, TypeOK
<1>. DEFINE e == [Freed EXCEPT !.status = "WAIT", !.fn = fn, !.open = TRUE]
<1>5. epd[c].L = NoThread /\ ~epd[c].open
  BY <1>1, ConnsAssumption, ThreadsAssumption, GoodFrom DEF Fits
<1>6. Freed \in Epdata
  BY BoundsAssumption DEF Freed, Epdata, Status, Handler, Output, BoundsAssumption
<1>7. /\ e \in Epdata /\ e.status = "WAIT" /\ e.fn = fn /\ e.open /\ e.L = NoThread
  BY <1>6 DEF Freed, Epdata, Status, Handler
<1>. HIDE DEF e
\* With one more open connection, on whatever thread it owns.
<1>8. ASSUME NEW x \in Epdata, x.status = "WAIT", x.fn = fn, x.open,
             NEW k \in Worker, k.sending = wk.sending, k.reading = wk.reading,
             k.active = wk.active, Conserved(c, x.L, k.pool, k.made),
             Put(c, x, Active(k, 1))
      PROVE  Outcome(c)
  <2>1. /\ Active(k, 1) \in Worker
        /\ Active(k, 1).sending = wk.sending /\ Active(k, 1).reading = wk.reading
        /\ Active(k, 1).active = wk.active + 1
        /\ Active(k, 1).pool = k.pool /\ Active(k, 1).made = k.made
    <3>1. /\ Active(k, 1) \in Worker
          /\ Active(k, 1).sending = k.sending /\ Active(k, 1).reading = k.reading
          /\ Active(k, 1).active = k.active + 1
          /\ Active(k, 1).pool = k.pool /\ Active(k, 1).made = k.made
      <4>1. k \in Worker /\ 1 \in Int
        BY <1>8
      <4>. QED
        BY <4>1, ActiveType
    <3>. QED
      BY <1>8, <3>1
  <2>. DEFINE k2 == Active(k, 1)
  <2>2. wk.sending \in Int /\ wk.reading \in Int /\ wk.active \in Int
    BY <1>2 DEF Worker
  <2>3. /\ One(x.status = "SEND") = 0 /\ One(epd[c].status = "SEND") = 0
        /\ One(x.status = "READ") = 0 /\ One(epd[c].status = "READ") = 0
        /\ One(x.open) = 1 /\ One(epd[c].open) = 0
    BY <1>1, <1>5, <1>8 DEF One
  <2>4. k2 \in Worker /\ Conserved(c, x.L, k2.pool, k2.made)
    BY <1>8, <2>1
  <2>5. /\ k2.sending = wk.sending + One(x.status = "SEND") - One(epd[c].status = "SEND")
        /\ k2.reading >= wk.reading + One(x.status = "READ") - One(epd[c].status = "READ")
        /\ k2.active =< wk.active + One(x.open) - One(epd[c].open)
        /\ k2.reading = wk.reading + One(x.status = "READ") - One(epd[c].status = "READ")
        /\ k2.active = wk.active + One(x.open) - One(epd[c].open)
    BY <2>1, <2>2, <2>3
  <2>. HIDE DEF k2
  <2>6. Good(c, x, k2)
    BY <1>2, <1>8, <2>4, <2>5, ConnsAssumption, Recount DEF Good
  <2>7. Fits(x)
    BY <1>8 DEF Fits
  <2>. QED
    BY <1>1, <1>8, <2>6, <2>7, PutOutcome DEF k2
<1>9. Conserved(c, NoThread, wk.pool, wk.made)
  BY <1>2, <1>5 DEF Good
<1>10. CASE Put(c, e, Active(wk, 1))
  BY <1>2, <1>4, <1>7, <1>8, <1>9, <1>10
<1>11. ASSUME NEW t \in Available(wk), Put(c, [e EXCEPT !.L = t], Active(NewLuaThread(wk, t), 1))
       PROVE  Outcome(c)
  <2>. DEFINE x == [e EXCEPT !.L = t]
              k == NewLuaThread(wk, t)
  <2>1. /\ t \in Threads /\ k \in Worker
        /\ k.sending = wk.sending /\ k.reading = wk.reading /\ k.active = wk.active
        /\ Conserved(c, t, k.pool, k.made)
    BY <1>2, <1>9, ThreadsAssumption, TakeConserved
  <2>2. x \in Epdata /\ x.status = "WAIT" /\ x.fn = fn /\ x.open /\ x.L = t
    BY <1>7, <2>1 DEF Epdata
  <2>3. Put(c, x, Active(k, 1))
    BY <1>11
  <2>. HIDE DEF x, k
  <2>. QED
    BY <1>8, <2>1, <2>2, <2>3
<1>. QED
  BY <1>3, <1>4, <1>10, <1>11 DEF e

LEMMA SslAcceptOutcome ==
  ASSUME IInv, NEW c \in Conns, SslAccept(c)
  PROVE  Outcome(c) /\ ScriptOK
<1>. DEFINE e == epd[c]
            x == [e EXCEPT !.fn = "read"]
<1>1. /\ TypeOK /\ Good(c, e, wk) /\ Fits(e) /\ e \in Epdata
      /\ e.open /\ e.fn = "ssl"
  BY LoopFacts DEF SslAccept
<1>2. ScriptOK
  BY <1>1, SameScriptOK DEF SslAccept
<1>3. Put(c, x, wk) \/ CloseClient(c, e, wk)
  BY DEF SslAccept
<1>. HIDE DEF e
<1>4. CASE Put(c, x, wk)
  <2>1. /\ x \in Epdata /\ x.status = e.status /\ x.open = e.open /\ x.L = e.L
        /\ x.fn = "read" /\ e.status = "WAIT"
    BY <1>1 DEF Epdata, Handler, Fits
  <2>. HIDE DEF x
  <2>2. Good(c, x, wk)
    BY <1>1, <2>1, ConnsAssumption, OutputGood
  <2>3. Fits(x)
    BY <1>1, <2>1 DEF Fits
  <2>. QED
    BY <1>1, <1>2, <1>4, <2>2, <2>3, PutOutcome
<1>5. CASE CloseClient(c, e, wk)
  BY <1>1, <1>2, <1>5, CloseClientOutcome
<1>. QED
  BY <1>3, <1>4, <1>5

LEMMA ReadSomeOutcome ==
  ASSUME IInv, NEW c \in Conns, ReadSome(c)
  PROVE  Outcome(c) /\ ScriptOK
<1>. DEFINE e == epd[c]
            x == [e EXCEPT !.status = "READ"]
<1>1. /\ TypeOK /\ Good(c, e, wk) /\ Fits(e) /\ e \in Epdata
      /\ e.open /\ e.fn = "read"
  BY LoopFacts DEF ReadSome
<1>2. ScriptOK
  BY <1>1, SameScriptOK DEF ReadSome
<1>3. Put(c, x, Reading(wk, 1)) /\ e.status = "WAIT"
  BY DEF ReadSome
<1>. HIDE DEF e
<1>8. e.status # "SEND" /\ 1 \in Int
  BY <1>3
<1>4. /\ x \in Epdata /\ x.status = "READ" /\ x.open = e.open /\ x.L = e.L
      /\ x.fn = "read"
  BY <1>1 DEF Epdata, Status
<1>. HIDE DEF x
<1>5. 1 = One(x.status = "READ") - One(e.status = "READ")
  BY <1>3, <1>4 DEF One
<1>6. Good(c, x, Reading(wk, 1))
  <2>1. x.status # "SEND"
    BY <1>4
  <2>. QED
    BY <1>1, <1>4, <1>5, <1>8, <2>1, ConnsAssumption, ReadingGood
<1>7. Fits(x)
  BY <1>1, <1>4 DEF Fits
<1>. QED
  BY <1>1, <1>2, <1>3, <1>6, <1>7, PutOutcome

LEMMA ReadEndOutcome ==
  ASSUME IInv, NEW c \in Conns, ReadEnd(c)
  PROVE  Outcome(c) /\ ScriptOK
<1>. DEFINE e == epd[c]
            x == [e EXCEPT !.keep = FALSE, !.status = "PROCESS"]
<1>1. TypeOK /\ Good(c, e, wk) /\ e \in Epdata
  BY LoopFacts DEF ReadEnd
<1>2. ScriptOK
  BY <1>1, SameScriptOK DEF ReadEnd
<1>3. CloseClient(c, e, wk) \/ (e.status = "READ" /\ EndProcess(c, x, Reading(wk, -1)))
  BY DEF ReadEnd
<1>. HIDE DEF e
<1>4. CASE CloseClient(c, e, wk)
  BY <1>1, <1>2, <1>4, CloseClientOutcome
<1>5. CASE e.status = "READ" /\ EndProcess(c, x, Reading(wk, -1))
  <2>1. x \in Epdata /\ x.status = "PROCESS" /\ x.open = e.open /\ x.L = e.L
    BY <1>1 DEF Epdata, Status
  <2>. HIDE DEF x
  <2>2. -1 = One(x.status = "READ") - One(e.status = "READ")
    BY <1>5, <2>1 DEF One
  <2>3. Good(c, x, Reading(wk, -1))
    BY <1>1, <1>5, <2>1, <2>2, ConnsAssumption, ReadingGood
  <2>. QED
    BY <1>1, <1>2, <1>5, <2>1, <2>3, EndProcessOutcome
<1>. QED
  BY <1>3, <1>4, <1>5

LEMMA ReadRefusedOutcome ==
  ASSUME IInv, NEW c \in Conns, ReadRefused(c)
  PROVE  Outcome(c) /\ ScriptOK
<1>. DEFINE p == epd[c]
            e == [p EXCEPT !.status = "READ"]
            n == IF p.status = "READ" THEN 0 ELSE 1
            k == Reading(wk, n)
<1>1. TypeOK /\ Good(c, p, wk) /\ p \in Epdata /\ Fits(p) /\ p.open /\ p.fn = "read"
  BY LoopFacts DEF ReadRefused
<1>2. ScriptOK
  BY <1>1, SameScriptOK DEF ReadRefused
<1>3. /\ \/ SendError(c, e, k, TRUE)
         \/ \E r \in 1..MaxBody : SendError(c, [e EXCEPT !.rest = r], k, TRUE)
         \/ SendError(c, e, k, FALSE)
      /\ ~ RefusesNone
  BY DEF ReadRefused, RefusesNone
<1>. HIDE DEF p
<1>4. e \in Epdata /\ e.status = "READ" /\ e.open = p.open /\ e.L = p.L
  BY <1>1 DEF Epdata, Status
<1>5. n \in Int /\ n = One(e.status = "READ") - One(p.status = "READ")
  BY <1>4 DEF One
<1>6. p.status # "SEND"
  BY <1>1 DEF Fits
<1>. HIDE DEF e, n
<1>7. Good(c, e, k)
  BY <1>1, <1>4, <1>5, <1>6, ConnsAssumption, ReadingGood
<1>. HIDE DEF k
<1>8. ASSUME NEW x, Good(c, x, k), x.status = "READ", NEW hasMsg, SendError(c, x, k, hasMsg)
      PROVE  Outcome(c)
  BY <1>1, <1>3, <1>8, SendErrorOutcome
<1>9. ASSUME NEW r \in 1..MaxBody, SendError(c, [e EXCEPT !.rest = r], k, TRUE)
      PROVE  Outcome(c)
  <2>. DEFINE x == [e EXCEPT !.rest = r]
  <2>1. r \in 0..MaxBody
    BY <1>9, BoundsAssumption DEF BoundsAssumption
  <2>2. x \in Epdata /\ x.status = e.status /\ x.open = e.open /\ x.L = e.L
    BY <1>4, <2>1 DEF Epdata
  <2>3. SendError(c, x, k, TRUE)
    BY <1>9
  <2>. HIDE DEF x
  <2>4. Good(c, x, k)
    BY <1>7, <2>2, ConnsAssumption, OutputGood
  <2>. QED
    BY <1>4, <1>8, <2>2, <2>3, <2>4
<1>. QED
  BY <1>2, <1>3, <1>4, <1>7, <1>8, <1>9

LEMMA ReadRequestOutcome ==
  ASSUME IInv, NEW c \in Conns, ReadRequest(c)
  PROVE  Outcome(c) /\ ScriptOK
<1>. DEFINE p == epd[c]
            n == IF p.status = "READ" THEN -1 ELSE 0
            k == Reading(wk, n)
<1>1. TypeOK /\ Good(c, p, wk) /\ p \in Epdata /\ Fits(p) /\ p.open /\ p.fn = "read"
  BY LoopFacts DEF ReadRequest
<1>2. HeaderRead(c) = k
  BY DEF HeaderRead
<1>3. PICK rest \in 0..MaxBody, ka \in BOOLEAN :
        LET e == AwaitScript([p EXCEPT !.status = "PROCESS", !.keep = p.keep \/ ka, !.hdr = 0,
                                       !.rest = rest, !.contents = TRUE, !.ops = MaxOps])
        IN  \/ WorkerProcess(c, e, k)
            \/ BeEnd(c, [e EXCEPT !.out = "body"], k) /\ SameScript
            \/ /\ Put(c, [e EXCEPT !.status = "SEND", !.fn = "write",
                                   !.out = "head", !.next = "process"], Sending(k, 1))
               /\ SameScript
  BY <1>2, Zenon DEF ReadRequest
<1>. DEFINE keep == p.keep \/ ka
            y == [p EXCEPT !.status = "PROCESS", !.keep = keep, !.hdr = 0,
                           !.rest = rest, !.contents = TRUE, !.ops = MaxOps]
            e == AwaitScript(y)
            body == [e EXCEPT !.out = "body"]
            cont == [e EXCEPT !.status = "SEND", !.fn = "write",
                              !.out = "head", !.next = "process"]
<1>4. \/ WorkerProcess(c, e, k)
      \/ BeEnd(c, body, k) /\ SameScript
      \/ Put(c, cont, Sending(k, 1)) /\ SameScript
  BY <1>3
<1>. HIDE DEF p
<1>5. keep \in BOOLEAN
  BY <1>1 DEF Epdata
<1>. HIDE DEF keep
<1>6. MaxOps \in 0..MaxOps
  BY BoundsAssumption DEF BoundsAssumption
<1>7. y \in Epdata /\ y.status = "PROCESS" /\ y.open = p.open /\ y.L = p.L
  BY <1>1, <1>5, <1>6 DEF Epdata, Status
<1>. HIDE DEF y
<1>8. n \in Int /\ n = One(y.status = "READ") - One(p.status = "READ")
  BY <1>7 DEF One
<1>9. p.status # "SEND"
  BY <1>1 DEF Fits
<1>. HIDE DEF n
<1>10. Good(c, y, k)
  BY <1>1, <1>7, <1>8, <1>9, ConnsAssumption, ReadingGood
<1>. HIDE DEF k
<1>11. /\ e \in Epdata /\ e.status = "PROCESS" /\ e.open /\ e.open = y.open /\ e.L = y.L
       /\ Fits(e)
  BY <1>1, <1>7, AwaitScriptType
<1>. HIDE DEF e
<1>12. Good(c, e, k)
  BY <1>7, <1>10, <1>11, ConnsAssumption, OutputGood
<1>13. CASE WorkerProcess(c, e, k)
  BY <1>1, <1>11, <1>12, <1>13, WorkerProcessOutcome
<1>14. CASE BeEnd(c, body, k) /\ SameScript
  <2>1. body \in Epdata /\ body.status = e.status /\ body.open = e.open /\ body.L = e.L
    BY <1>11 DEF Epdata, Output
  <2>. HIDE DEF body
  <2>2. Good(c, body, k)
    BY <1>12, <2>1, ConnsAssumption, OutputGood
  <2>. QED
    BY <1>1, <1>11, <1>14, <2>1, <2>2, BeEndOutcome, SameScriptOK
<1>15. CASE Put(c, cont, Sending(k, 1)) /\ SameScript
  <2>1. /\ cont \in Epdata /\ cont.status = "SEND" /\ cont.open = e.open /\ cont.L = e.L
        /\ cont.fn = "write"
    BY <1>11 DEF Epdata, Output, Status, Handler
  <2>. HIDE DEF cont
  <2>2. Good(c, cont, Sending(k, 1))
    BY <1>11, <1>12, <2>1, ConnsAssumption, SendingGood
  <2>3. Fits(cont)
    BY <1>11, <2>1 DEF Fits
  <2>. QED
    BY <1>1, <1>15, <2>2, <2>3, PutOutcome, SameScriptOK
<1>. QED
  BY <1>4, <1>13, <1>14, <1>15

LEMMA ReadOnProcessingOutcome ==
  ASSUME IInv, NEW c \in Conns, ReadOnProcessing(c)
  PROVE  Outcome(c) /\ ScriptOK
<1>. DEFINE e == epd[c]
            x == [e EXCEPT !.open = FALSE, !.fn = "none", !.keep = FALSE]
<1>1. /\ TypeOK /\ Good(c, e, wk) /\ e \in Epdata /\ Fits(e)
      /\ e.open /\ e.fn = "processing"
  BY LoopFacts DEF ReadOnProcessing
<1>2. ScriptOK
  BY <1>1, SameScriptOK DEF ReadOnProcessing
<1>3. Put(c, x, Active(wk, -1))
  BY DEF ReadOnProcessing, Gone
<1>. HIDE DEF e
<1>4. /\ x \in Epdata /\ ~x.open /\ x.status = e.status /\ x.L = e.L /\ x.fn = "none"
      /\ e.status = "PROCESS"
  BY <1>1 DEF Epdata, Handler, Fits
<1>. HIDE DEF x
<1>5. Good(c, x, Active(wk, -1))
  BY <1>1, <1>4, ConnsAssumption, GoneGood
<1>6. Fits(x)
  BY <1>4 DEF Fits
<1>. QED
  BY <1>1, <1>2, <1>3, <1>5, <1>6, PutOutcome

LEMMA ReadOnClearOutcome ==
  ASSUME IInv, NEW c \in Conns, ReadOnClear(c)
  PROVE  Outcome(c) /\ ScriptOK
<1>. DEFINE e == epd[c]
            n == e.rest - 1
            less == [e EXCEPT !.rest = n]
            done == [e EXCEPT !.status = "PROCESS", !.fn = "none", !.rest = 0]
            gone == Gone(e)
            left == [gone EXCEPT !.status = "PROCESS", !.keep = FALSE]
            k == Active(wk, -1)
<1>1. /\ TypeOK /\ Good(c, e, wk) /\ e \in Epdata /\ Fits(e)
      /\ e.open /\ e.fn = "clear" /\ e.status = "READ"
  BY LoopFacts DEF ReadOnClear, Fits
<1>2. ScriptOK
  BY <1>1, SameScriptOK DEF ReadOnClear
<1>3. \/ e.rest > 1 /\ Put(c, less, wk)
      \/ BeEnd(c, done, Reading(wk, -1))
      \/ BeEnd(c, left, Reading(k, -1))
  BY <1>1 DEF ReadOnClear, Discard, Epdata
<1>. HIDE DEF e
<1>4. CASE e.rest > 1 /\ Put(c, less, wk)
  <2>1. n \in 0..MaxBody
    BY <1>1, <1>4, BoundsAssumption DEF Epdata, BoundsAssumption
  <2>. HIDE DEF n
  <2>2. /\ less \in Epdata /\ less.status = e.status /\ less.open = e.open /\ less.L = e.L
        /\ less.fn = e.fn
    BY <1>1, <2>1 DEF Epdata
  <2>. HIDE DEF less
  <2>3. Good(c, less, wk)
    BY <1>1, <2>2, ConnsAssumption, OutputGood
  <2>4. Fits(less)
    BY <1>1, <2>2 DEF Fits
  <2>. QED
    BY <1>1, <1>2, <1>4, <2>3, <2>4, PutOutcome
<1>5. CASE BeEnd(c, done, Reading(wk, -1))
  <2>1. done \in Epdata /\ done.status = "PROCESS" /\ done.open = e.open /\ done.L = e.L
    <3>1. 0 \in 0..MaxBody
      BY BoundsAssumption DEF BoundsAssumption
    <3>. QED
      BY <1>1, <3>1 DEF Epdata, Status, Handler
  <2>. HIDE DEF done
  <2>2. -1 = One(done.status = "READ") - One(e.status = "READ")
    BY <1>1, <2>1 DEF One
  <2>3. Good(c, done, Reading(wk, -1))
    <3>1. done.status # "SEND" /\ e.status # "SEND" /\ -1 \in Int
      BY <1>1, <2>1
    <3>2. Good(c, e, wk)
      BY <1>1
    <3>. QED
      BY <2>1, <2>2, <3>1, <3>2, ConnsAssumption, ReadingGood
  <2>. QED
    BY <1>1, <1>2, <1>5, <2>1, <2>3, BeEndOutcome
<1>6. CASE BeEnd(c, left, Reading(k, -1))
  <2>1. gone \in Epdata /\ ~gone.open /\ gone.status = "READ" /\ gone.L = e.L
    BY <1>1 DEF Gone, Epdata, Handler
  <2>. HIDE DEF gone
  <2>2. Good(c, gone, k)
    BY <1>1, <2>1, ConnsAssumption, GoneGood
  <2>3. left \in Epdata /\ left.status = "PROCESS" /\ left.open = gone.open /\ left.L = gone.L
    BY <2>1 DEF Epdata, Status
  <2>. HIDE DEF left, k
  <2>4. -1 = One(left.status = "READ") - One(gone.status = "READ")
    BY <2>1, <2>3 DEF One
  <2>5. Good(c, left, Reading(k, -1))
    BY <2>1, <2>2, <2>3, <2>4, ConnsAssumption, ReadingGood
  <2>. QED
    BY <1>1, <1>2, <1>6, <2>3, <2>5, BeEndOutcome
<1>. QED
  BY <1>3, <1>4, <1>5, <1>6

LEMMA ReadRequestBodyOutcome ==
  ASSUME IInv, NEW c \in Conns, ReadRequestBody(c)
  PROVE  Outcome(c) /\ ScriptOK
<1>. DEFINE e == epd[c]
            ok == [e EXCEPT !.status = "PROCESS"]
            k == Reading(wk, -1)
            gone == Gone(ok)
<1>1. /\ TypeOK /\ Good(c, e, wk) /\ e \in Epdata /\ Fits(e)
      /\ e.open /\ e.fn = "body" /\ e.status = "READ"
  BY LoopFacts DEF ReadRequestBody, Fits
<1>2. Resume(c, e)
  BY DEF ReadRequestBody
<1>3. ScriptOK
  BY <1>1, <1>2, ScriptMoves DEF CoState
<1>4. PICK n \in 0..e.rest - 1 \cup {0} :
        \/ n \in 0..e.rest - 1 /\ Put(c, [ok EXCEPT !.rest = n, !.fn = "none"], k)
        \/ n \in 0..e.rest - 1 /\ Put(c, [gone EXCEPT !.rest = n], Active(k, -1))
        \/ Put(c, gone, Active(k, -1))
        \/ ~ BodiesWhole /\ Put(c, gone, Active(k, -2))
  BY <1>1 DEF ReadRequestBody, BodiesWhole
<1>. HIDE DEF e
<1>5. ok \in Epdata /\ ok.status = "PROCESS" /\ ok.open /\ ok.open = e.open /\ ok.L = e.L
  BY <1>1 DEF Epdata, Status
<1>. HIDE DEF ok, k
<1>6. Good(c, ok, k)
  <2>1. -1 = One(ok.status = "READ") - One(e.status = "READ")
    BY <1>1, <1>5 DEF One
  <2>2. ok.status # "SEND" /\ e.status # "SEND" /\ -1 \in Int
    BY <1>1, <1>5
  <2>3. Good(c, e, wk)
    BY <1>1
  <2>. QED
    BY <1>5, <2>1, <2>2, <2>3, ConnsAssumption, ReadingGood DEF k
<1>7. /\ gone \in Epdata /\ ~gone.open /\ gone.fn = "none" /\ gone.status = "PROCESS"
      /\ gone.L = ok.L
  BY <1>5 DEF Gone, Epdata, Handler
<1>. HIDE DEF gone
<1>8. Good(c, gone, Active(k, -1)) /\ (~ BodiesWhole => Good(c, gone, Active(k, -2)))
  BY <1>5, <1>6, <1>7, ConnsAssumption, GoneGood
<1>9. CASE n \in 0..e.rest - 1 /\ Put(c, [ok EXCEPT !.rest = n, !.fn = "none"], k)
  <2>. DEFINE x == [ok EXCEPT !.rest = n, !.fn = "none"]
  <2>1. n \in 0..MaxBody
    BY <1>1, <1>9, BoundsAssumption DEF Epdata, BoundsAssumption
  <2>2. /\ x \in Epdata /\ x.status = ok.status /\ x.open = ok.open /\ x.L = ok.L
        /\ x.fn = "none"
    BY <1>5, <2>1 DEF Epdata, Handler
  <2>3. Put(c, x, k)
    BY <1>9
  <2>. HIDE DEF x
  <2>4. Good(c, x, k)
    BY <1>6, <2>2, ConnsAssumption, OutputGood
  <2>5. Fits(x)
    BY <1>5, <2>2 DEF Fits
  <2>. QED
    BY <1>1, <1>3, <2>3, <2>4, <2>5, PutOutcome
<1>10. CASE n \in 0..e.rest - 1 /\ Put(c, [gone EXCEPT !.rest = n], Active(k, -1))
  <2>. DEFINE x == [gone EXCEPT !.rest = n]
  <2>1. n \in 0..MaxBody
    BY <1>1, <1>10, BoundsAssumption DEF Epdata, BoundsAssumption
  <2>2. /\ x \in Epdata /\ x.status = gone.status /\ x.open = gone.open /\ x.L = gone.L
        /\ x.fn = "none"
    BY <1>7, <2>1 DEF Epdata
  <2>3. Put(c, x, Active(k, -1))
    BY <1>10
  <2>. HIDE DEF x
  <2>4. Good(c, x, Active(k, -1))
    BY <1>8, <2>2, ConnsAssumption, OutputGood
  <2>5. Fits(x)
    BY <1>7, <2>2 DEF Fits
  <2>. QED
    BY <1>1, <1>3, <2>3, <2>4, <2>5, PutOutcome
<1>11. Fits(gone)
  BY <1>7 DEF Fits
<1>12. CASE Put(c, gone, Active(k, -1)) \/ (~ BodiesWhole /\ Put(c, gone, Active(k, -2)))
  BY <1>1, <1>3, <1>8, <1>11, <1>12, PutOutcome
<1>. QED
  BY <1>4, <1>9, <1>10, <1>12

-----------------------------------------------------------------------------
(* Writing and timers. *)

LEMMA WriteDoneOutcome ==
  ASSUME IInv, NEW c \in Conns, WriteDone(c)
  PROVE  Outcome(c) /\ ScriptOK
<1>. DEFINE e == epd[c]
            hdr == IF e.hdr = 5 THEN 1 ELSE e.hdr
            x == [e EXCEPT !.status = "PROCESS", !.hdr = hdr]
<1>1. /\ TypeOK /\ Good(c, e, wk) /\ e \in Epdata /\ e.open /\ e.fn = "write"
  BY LoopFacts DEF WriteDone
<1>2. e.status = "SEND" /\ Written(c, x, Sending(wk, -1))
  BY <1>1 DEF WriteDone, Epdata
<1>. HIDE DEF e
<1>3. hdr \in {0, 1, 2, 5}
  BY <1>1 DEF Epdata
<1>. HIDE DEF hdr
<1>4. /\ x \in Epdata /\ x.status = "PROCESS" /\ x.open = e.open /\ x.L = e.L
      /\ x.fn = "write"
  BY <1>1, <1>3 DEF Epdata, Status
<1>. HIDE DEF x
<1>5. Good(c, x, Sending(wk, -1))
  BY <1>1, <1>2, <1>4, SentGood
<1>6. Fits(x)
  BY <1>1, <1>4 DEF Fits
<1>. QED
  BY <1>1, <1>2, <1>4, <1>5, <1>6, WrittenOutcome

LEMMA WriteFailOutcome ==
  ASSUME IInv, NEW c \in Conns, WriteFail(c)
  PROVE  Outcome(c) /\ ScriptOK
<1>. DEFINE e == epd[c]
            x == [e EXCEPT !.status = "PROCESS", !.keep = FALSE]
<1>1. /\ TypeOK /\ Good(c, e, wk) /\ e \in Epdata /\ e.open /\ e.fn = "write"
  BY LoopFacts DEF WriteFail
<1>2. e.status = "SEND" /\ Written(c, x, Sending(wk, -1))
  BY DEF WriteFail
<1>. HIDE DEF e
<1>4. /\ x \in Epdata /\ x.status = "PROCESS" /\ x.open = e.open /\ x.L = e.L
      /\ x.fn = "write"
  BY <1>1 DEF Epdata, Status
<1>. HIDE DEF x
<1>5. Good(c, x, Sending(wk, -1))
  BY <1>1, <1>2, <1>4, SentGood
<1>6. Fits(x)
  BY <1>1, <1>4 DEF Fits
<1>. QED
  BY <1>1, <1>2, <1>4, <1>5, <1>6, WrittenOutcome

LEMMA WriteNothingOutcome ==
  ASSUME IInv, NEW c \in Conns, WriteNothing(c)
  PROVE  Outcome(c) /\ ScriptOK
<1>1. Outcome(c)
  BY ConnsAssumption, ThreadsAssumption, StayOutcome DEF WriteNothing
<1>2. ScriptOK
  BY DEF WriteNothing, ScriptOK, IInv, TypeOK
<1>. QED
  BY <1>1, <1>2

LEMMA TimeoutHandleOutcome ==
  ASSUME IInv, NEW c \in Conns, TimeoutHandle(c)
  PROVE  Outcome(c) /\ ScriptOK
<1>. DEFINE e == epd[c]
<1>1. TypeOK /\ Good(c, e, wk) /\ e \in Epdata
  BY ConnsAssumption, ThreadsAssumption, GoodFrom DEF IInv
<1>2. ScriptOK
  BY <1>1, SameScriptOK DEF TimeoutHandle
<1>3. ReadTimeout(c, e) \/ SendTimeout(c, e) \/ IdleTimeout(c, e)
  BY DEF TimeoutHandle
<1>. HIDE DEF e
<1>4. CASE ReadTimeout(c, e)
  <2>. DEFINE x == [e EXCEPT !.keep = FALSE, !.status = "PROCESS", !.rto = TRUE]
  <2>1. e.status = "READ" /\ SendError(c, x, Reading(wk, -1), TRUE)
    BY <1>4 DEF ReadTimeout
  <2>2. x \in Epdata /\ x.status = "PROCESS" /\ x.open = e.open /\ x.L = e.L
    BY <1>1 DEF Epdata, Status
  <2>. HIDE DEF x
  <2>3. -1 = One(x.status = "READ") - One(e.status = "READ")
    BY <2>1, <2>2 DEF One
  <2>4. x.status # "SEND" /\ e.status # "SEND" /\ -1 \in Int
    BY <2>1, <2>2
  <2>5. Good(c, x, Reading(wk, -1))
    BY <1>1, <2>2, <2>3, <2>4, ConnsAssumption, ReadingGood
  <2>. QED
    BY <1>1, <1>2, <2>1, <2>2, <2>4, <2>5, SendErrorOutcome
<1>5. [e EXCEPT !.status = "WAIT"] \in Epdata
  BY <1>1 DEF Epdata, Status
<1>6. PICK x \in Epdata : x = [e EXCEPT !.status = "WAIT"]
  BY <1>5
<1>7. x.status = "WAIT" /\ x.open = e.open /\ x.L = e.L
  BY <1>1, <1>6 DEF Epdata
<1>8. CASE SendTimeout(c, e)
  <2>1. e.status = "SEND" /\ CloseClient(c, x, Sending(wk, -1))
    BY <1>6, <1>8 DEF SendTimeout
  <2>2. Good(c, x, Sending(wk, -1))
    BY <1>1, <1>7, <2>1, SentGood
  <2>. QED
    BY <1>1, <1>2, <2>1, <2>2, CloseClientOutcome
<1>9. CASE IdleTimeout(c, e)
  <2>1. e.status \notin {"SEND", "READ"} /\ CloseClient(c, x, wk)
    BY <1>6, <1>9 DEF IdleTimeout
  <2>2. Good(c, x, wk)
    BY <1>1, <1>7, <2>1, QuietGood
  <2>. QED
    BY <1>1, <1>2, <2>1, <2>2, CloseClientOutcome
<1>. QED
  BY <1>3, <1>4, <1>8, <1>9

-----------------------------------------------------------------------------
(* The calls of a script. *)

LEMMA SpentType ==
  ASSUME IInv, NEW c \in Conns, run = c, epd[c].status = "PROCESS", epd[c].ops > 0
  PROVE  /\ TypeOK /\ Good(c, Spent(c), wk) /\ Fits(Spent(c)) /\ Spent(c) \in Epdata
         /\ Spent(c).status = "PROCESS"
         /\ Spent(c).keep = epd[c].keep /\ Spent(c).hdr = epd[c].hdr
         /\ Spent(c).L = epd[c].L
<1>. DEFINE e == epd[c]
            n == e.ops - 1
            x == [e EXCEPT !.ops = n]
<1>1. TypeOK /\ Good(c, e, wk) /\ e \in Epdata /\ Fits(e)
  BY ConnsAssumption, ThreadsAssumption, GoodFrom DEF IInv
<1>2. n \in 0..MaxOps
  BY <1>1, BoundsAssumption DEF Epdata, BoundsAssumption
<1>3. Spent(c) = x
  BY DEF Spent
<1>. HIDE DEF e, n
<1>4. /\ x \in Epdata /\ x.status = e.status /\ x.open = e.open /\ x.L = e.L
      /\ x.fn = e.fn /\ x.rest = e.rest /\ x.keep = e.keep /\ x.hdr = e.hdr
  BY <1>1, <1>2 DEF Epdata
<1>. HIDE DEF x
<1>5. Good(c, x, wk)
  BY <1>1, <1>4, ConnsAssumption, OutputGood
<1>6. Fits(x)
  BY <1>1, <1>4 DEF Fits
<1>. QED
  BY <1>1, <1>3, <1>4, <1>5, <1>6 DEF e

LEMMA HeaderOutcome ==
  ASSUME IInv, NEW c \in Conns, Header(c)
  PROVE  Outcome(c) /\ ScriptOK
<1>. DEFINE e == Spent(c)
<1>1. TypeOK /\ Good(c, e, wk) /\ Fits(e) /\ e \in Epdata /\ e.keep = epd[c].keep
  BY SpentType DEF Header, Calls
<1>2. ScriptOK
  BY <1>1, SameScriptOK DEF Header
<1>3. PICK keep \in {epd[c].keep, FALSE} :
        Put(c, [e EXCEPT !.keep = keep,
                         !.out = IF epd[c].hdr = 0 /\ e.out = "empty" THEN "head" ELSE e.out], wk)
  BY <1>1 DEF Header, Epdata
<1>. DEFINE out == IF epd[c].hdr = 0 /\ e.out = "empty" THEN "head" ELSE e.out
            x == [e EXCEPT !.keep = keep, !.out = out]
<1>4. Put(c, x, wk)
  BY <1>3
<1>. HIDE DEF e
<1>5. out \in Output /\ keep \in BOOLEAN
  BY <1>1, <1>3 DEF Epdata, Output
<1>. HIDE DEF out
<1>6. /\ x \in Epdata /\ x.status = e.status /\ x.open = e.open /\ x.L = e.L
      /\ x.fn = e.fn /\ x.rest = e.rest
  BY <1>1, <1>5 DEF Epdata
<1>. HIDE DEF x
<1>. QED
  BY <1>1, <1>2, <1>4, <1>6, SameOutcome

\* Queueing something for the client.
LEMMA QueueOutcome ==
  ASSUME TypeOK, NEW c \in Conns, NEW e, NEW k, Good(c, e, k), Fits(e),
         NEW out \in Output, Put(c, [e EXCEPT !.out = out], k)
  PROVE  Outcome(c)
<1>. DEFINE x == [e EXCEPT !.out = out]
<1>1. /\ x \in Epdata /\ x.status = e.status /\ x.open = e.open /\ x.L = e.L
      /\ x.fn = e.fn /\ x.rest = e.rest
  BY DEF Good, Epdata
<1>2. Put(c, x, k)
  OBVIOUS
<1>. HIDE DEF x
<1>. QED
  BY <1>1, <1>2, SameOutcome

LEMMA EchoOutcome ==
  ASSUME IInv, NEW c \in Conns, Echo(c)
  PROVE  Outcome(c) /\ ScriptOK
<1>1. TypeOK /\ Good(c, Spent(c), wk) /\ Fits(Spent(c))
  BY SpentType DEF Echo, Calls
<1>2. Put(c, [Spent(c) EXCEPT !.out = "body"], wk) /\ SameScript
  BY DEF Echo
<1>3. "body" \in Output
  BY DEF Output
<1>. QED
  BY <1>1, <1>2, <1>3, QueueOutcome, SameScriptOK

LEMMA EchoMoreOutcome ==
  ASSUME IInv, NEW c \in Conns, EchoMore(c)
  PROVE  Outcome(c) /\ ScriptOK
<1>. DEFINE e == Spent(c)
            x == [e EXCEPT !.out = "body", !.next = "send"]
<1>1. TypeOK /\ Good(c, e, wk) /\ e \in Epdata /\ e.status = "PROCESS"
  BY SpentType DEF EchoMore, Calls
<1>2. NetworkFlush(c, x, wk)
  BY DEF EchoMore
<1>. HIDE DEF e
<1>3. x \in Epdata /\ x.status = e.status /\ x.open = e.open /\ x.L = e.L
  BY <1>1 DEF Epdata, Output
<1>. HIDE DEF x
<1>4. Good(c, x, wk)
  BY <1>1, <1>3, ConnsAssumption, OutputGood
<1>. QED
  BY <1>1, <1>2, <1>3, <1>4, NetworkFlushOutcome

LEMMA FlushOutcome ==
  ASSUME IInv, NEW c \in Conns, Flush(c)
  PROVE  Outcome(c) /\ ScriptOK
<1>. DEFINE e == Spent(c)
            x == [e EXCEPT !.out = "head"]
<1>1. TypeOK /\ Good(c, e, wk) /\ Fits(e) /\ e \in Epdata /\ e.status = "PROCESS"
  BY SpentType DEF Flush, Calls
<1>2. \/ NetworkFlush(c, e, wk)
      \/ NetworkFlush(c, x, wk)
      \/ Put(c, e, wk) /\ SameScript
  BY DEF Flush
<1>. HIDE DEF e
<1>3. x \in Epdata /\ x.status = e.status /\ x.open = e.open /\ x.L = e.L
  BY <1>1 DEF Epdata, Output
<1>. HIDE DEF x
<1>4. Good(c, x, wk)
  BY <1>1, <1>3, ConnsAssumption, OutputGood
<1>5. CASE NetworkFlush(c, e, wk)
  BY <1>1, <1>5, NetworkFlushOutcome
<1>6. CASE NetworkFlush(c, x, wk)
  BY <1>1, <1>3, <1>4, <1>6, NetworkFlushOutcome
<1>7. CASE Put(c, e, wk) /\ SameScript
  BY <1>1, <1>7, PutOutcome, SameScriptOK
<1>. QED
  BY <1>2, <1>5, <1>6, <1>7

LEMMA SendFileOutcome ==
  ASSUME IInv, NEW c \in Conns, SendFile(c)
  PROVE  Outcome(c) /\ ScriptOK
<1>1. TypeOK /\ Good(c, Spent(c), wk) /\ Fits(Spent(c))
  BY SpentType DEF SendFile, Calls
<1>2. PICK out \in {"file", "body", "head", "missing"} :
        Put(c, [Spent(c) EXCEPT !.out = out], wk)
  BY DEF SendFile
<1>3. out \in Output
  BY DEF Output
<1>4. SameScript
  BY DEF SendFile
<1>. QED
  BY <1>1, <1>2, <1>3, <1>4, QueueOutcome, SameScriptOK

LEMMA LuaReadRequestBodyOutcome ==
  ASSUME IInv, NEW c \in Conns, LuaReadRequestBody(c)
  PROVE  Outcome(c) /\ ScriptOK
<1>. DEFINE e == Spent(c)
            first == [e EXCEPT !.contents = FALSE]
            x == Listen([e EXCEPT !.status = "READ"], "body")
<1>1. TypeOK /\ Good(c, e, wk) /\ Fits(e) /\ e \in Epdata /\ e.status = "PROCESS"
  BY SpentType DEF LuaReadRequestBody, Calls
<1>2. \/ Put(c, first, wk) /\ SameScript
      \/ Put(c, e, wk) /\ SameScript
      \/ e.open /\ Put(c, x, Reading(wk, 1)) /\ Leave(e, "body")
  BY DEF LuaReadRequestBody
<1>. HIDE DEF e
<1>3. CASE Put(c, first, wk) /\ SameScript
  <2>1. /\ first \in Epdata /\ first.status = e.status /\ first.open = e.open
        /\ first.L = e.L /\ first.fn = e.fn /\ first.rest = e.rest
    BY <1>1 DEF Epdata
  <2>. HIDE DEF first
  <2>. QED
    BY <1>1, <1>3, <2>1, SameOutcome, SameScriptOK
<1>4. CASE Put(c, e, wk) /\ SameScript
  BY <1>1, <1>4, PutOutcome, SameScriptOK
<1>5. CASE e.open /\ Put(c, x, Reading(wk, 1)) /\ Leave(e, "body")
  <2>1. /\ x \in Epdata /\ x.status = "READ" /\ x.open = e.open /\ x.L = e.L
        /\ x.fn = "body"
    BY <1>1, <1>5 DEF Listen, Epdata, Status, Handler
  <2>. HIDE DEF x
  <2>2. 1 = One(x.status = "READ") - One(e.status = "READ")
    BY <1>1, <2>1 DEF One
  <2>3. x.status # "SEND" /\ e.status # "SEND" /\ 1 \in Int
    BY <1>1, <2>1
  <2>4. Good(c, x, Reading(wk, 1))
    BY <1>1, <2>1, <2>2, <2>3, ConnsAssumption, ReadingGood
  <2>5. Fits(x)
    BY <1>5, <2>1 DEF Fits
  <2>6. ScriptOK
    BY <1>1, <1>5, ScriptMoves DEF CoState
  <2>. QED
    BY <1>1, <1>5, <2>4, <2>5, <2>6, PutOutcome
<1>. QED
  BY <1>2, <1>3, <1>4, <1>5

LEMMA SleepOutcome ==
  ASSUME IInv, NEW c \in Conns, Sleep(c)
  PROVE  Outcome(c) /\ ScriptOK
<1>1. TypeOK /\ Good(c, Spent(c), wk) /\ Fits(Spent(c))
  BY SpentType DEF Sleep, Calls
<1>2. Put(c, Spent(c), wk) /\ Leave(epd[c], "sleep")
  BY DEF Sleep
<1>3. ScriptOK
  BY <1>1, <1>2, ScriptMoves DEF CoState
<1>. QED
  BY <1>1, <1>2, <1>3, PutOutcome

LEMMA WakeOutcome ==
  ASSUME IInv, NEW c \in Conns, Wake(c)
  PROVE  Outcome(c) /\ ScriptOK
<1>1. Outcome(c)
  BY ConnsAssumption, ThreadsAssumption, StayOutcome DEF Wake
<1>2. TypeOK /\ Resume(c, epd[c])
  BY DEF IInv, Wake
<1>3. ScriptOK
  BY <1>2, ScriptMoves DEF CoState
<1>. QED
  BY <1>1, <1>3

LEMMA EndOutcome ==
  ASSUME IInv, NEW c \in Conns, End(c)
  PROVE  Outcome(c) /\ ScriptOK
<1>1. TypeOK /\ Good(c, epd[c], wk) /\ epd[c].status = "PROCESS"
  BY ConnsAssumption, ThreadsAssumption, GoodFrom DEF IInv, End
<1>2. BeEnd(c, epd[c], wk) /\ Leave(epd[c], "idle")
  BY DEF End
<1>3. ScriptOK
  BY <1>1, <1>2, ScriptMoves DEF CoState
<1>. QED
  BY <1>1, <1>2, <1>3, BeEndOutcome

LEMMA ThrowOutcome ==
  ASSUME IInv, NEW c \in Conns, Throw(c)
  PROVE  Outcome(c) /\ ScriptOK
<1>1. TypeOK /\ Good(c, epd[c], wk) /\ epd[c].status = "PROCESS"
  BY ConnsAssumption, ThreadsAssumption, GoodFrom DEF IInv, Throw
<1>2. Leave(epd[c], "dead") /\ (SendError(c, epd[c], wk, TRUE) \/ UNCHANGED <<epd, wk>>)
  BY DEF Throw
<1>3. ScriptOK
  BY <1>1, <1>2, ScriptMoves DEF CoState
<1>4. CASE SendError(c, epd[c], wk, TRUE)
  BY <1>1, <1>3, <1>4, SendErrorOutcome
<1>5. CASE UNCHANGED <<epd, wk>>
  BY <1>3, <1>5, ConnsAssumption, ThreadsAssumption, StayOutcome
<1>. QED
  BY <1>2, <1>4, <1>5

-----------------------------------------------------------------------------
(* The invariant. *)

LEMMA InitInvariant == Init => IInv
<1>. SUFFICES ASSUME Init PROVE IInv
  OBVIOUS
<1>1. Freed \in Epdata /\ Fits(Freed)
  BY BoundsAssumption DEF Freed, Epdata, Status, Handler, Output, Fits, BoundsAssumption
<1>. DEFINE made == {InitPool[i] : i \in 1..Len(InitPool)}
<1>2. /\ epd = [c \in Conns |-> Freed]
      /\ wk = [reading |-> 0, sending |-> 0, active |-> 0, pool |-> InitPool, made |-> made]
      /\ co = [t \in Threads |-> "idle"] /\ run = NoConn /\ exiting = FALSE
  BY DEF Init
<1>3. InitPool \in Seq(Threads) /\ made \in SUBSET Threads
  BY PoolAssumption DEF PoolAssumption
<1>4. /\ wk \in Worker /\ wk.pool = InitPool /\ wk.made = made
      /\ wk.sending = 0 /\ wk.reading = 0 /\ wk.active = 0
  <2>. HIDE DEF made
  <2>. QED
    BY <1>2, <1>3 DEF Worker
<1>5. TypeOK
  BY <1>1, <1>2, <1>4 DEF TypeOK, CoState
<1>6. CallbackFits
  BY <1>1, <1>2 DEF CallbackFits
<1>7. In("SEND") = {} /\ In("READ") = {} /\ OpenConns = {}
  BY <1>2 DEF In, OpenConns, Freed
<1>8. SendingIsCounted /\ GaugesDriftOneWay /\ ReadingIsCounted /\ ActiveIsCounted
  <2>1. Cardinality({}) = 0
    BY FS_EmptySet
  <2>2. Cardinality(In("SEND")) = 0 /\ Cardinality(In("READ")) = 0 /\ Cardinality(OpenConns) = 0
    BY <1>7, <2>1
  <2>. QED
    BY <1>4, <2>2 DEF SendingIsCounted, GaugesDriftOneWay, ReadingIsCounted, ActiveIsCounted
<1>9. Owned = {} /\ \A c \in Conns : epd[c].L = NoThread
  BY <1>2 DEF Owned, Freed
<1>10. PoolThreads = made
  BY <1>4 DEF PoolThreads
<1>11. ThreadsConserved
  BY <1>4, <1>9, <1>10, PoolAssumption DEF ThreadsConserved, PoolAssumption
<1>. QED
  BY <1>5, <1>6, <1>8, <1>11 DEF IInv

\* Every action of the worker for c does what Outcome says.
LEMMA ServeOutcome ==
  ASSUME IInv, NEW c \in Conns, Serve(c)
  PROVE  Outcome(c) /\ ScriptOK
<1>1. CASE Accept(c)
  BY <1>1, AcceptOutcome
<1>2. CASE SslAccept(c)
  BY <1>2, SslAcceptOutcome
<1>3. CASE ReadSome(c)
  BY <1>3, ReadSomeOutcome
<1>4. CASE ReadEnd(c)
  BY <1>4, ReadEndOutcome
<1>5. CASE ReadRefused(c)
  BY <1>5, ReadRefusedOutcome
<1>6. CASE ReadRequest(c)
  BY <1>6, ReadRequestOutcome
<1>7. CASE ReadOnProcessing(c)
  BY <1>7, ReadOnProcessingOutcome
<1>8. CASE ReadOnClear(c)
  BY <1>8, ReadOnClearOutcome
<1>9. CASE ReadRequestBody(c)
  BY <1>9, ReadRequestBodyOutcome
<1>10. CASE WriteDone(c)
  BY <1>10, WriteDoneOutcome
<1>11. CASE WriteFail(c)
  BY <1>11, WriteFailOutcome
<1>12. CASE WriteNothing(c)
  BY <1>12, WriteNothingOutcome
<1>13. CASE TimeoutHandle(c)
  BY <1>13, TimeoutHandleOutcome
<1>14. CASE Header(c)
  BY <1>14, HeaderOutcome
<1>15. CASE Echo(c)
  BY <1>15, EchoOutcome
<1>16. CASE EchoMore(c)
  BY <1>16, EchoMoreOutcome
<1>17. CASE Flush(c)
  BY <1>17, FlushOutcome
<1>18. CASE SendFile(c)
  BY <1>18, SendFileOutcome
<1>19. CASE LuaReadRequestBody(c)
  BY <1>19, LuaReadRequestBodyOutcome
<1>20. CASE Sleep(c)
  BY <1>20, SleepOutcome
<1>21. CASE End(c)
  BY <1>21, EndOutcome
<1>22. CASE Throw(c)
  BY <1>22, ThrowOutcome
<1>23. CASE Wake(c)
  BY <1>23, WakeOutcome
<1>. QED
  BY <1>1, <1>2, <1>3, <1>4, <1>5, <1>6, <1>7, <1>8, <1>9, <1>10, <1>11, <1>12, <1>13,
     <1>14, <1>15, <1>16, <1>17, <1>18, <1>19, <1>20, <1>21, <1>22, <1>23
     DEF Serve, Network, Script

LEMMA ServeInvariant ==
  ASSUME IInv, NEW c \in Conns, Serve(c), UNCHANGED exiting
  PROVE  IInv'
<1>1. exiting' \in BOOLEAN
  BY DEF IInv, TypeOK
<1>2. Outcome(c) /\ ScriptOK
  BY ServeOutcome
<1>. QED
  BY <1>1, <1>2, ConnsAssumption, ThreadsAssumption, GoodTo

LEMMA NextInvariant == IInv /\ [Next]_vars => IInv'
<1>. SUFFICES ASSUME IInv, [Next]_vars PROVE IInv'
  OBVIOUS
<1>1. ASSUME NEW c \in Conns, Serve(c), UNCHANGED exiting
      PROVE  IInv'
  BY <1>1, ServeInvariant
<1>2. CASE UNCHANGED <<epd, wk, co, run>> /\ exiting' \in BOOLEAN
  <2>1. TypeOK'
    BY <1>2 DEF IInv, TypeOK
  <2>2. CallbackFits'
    BY <1>2 DEF IInv, CallbackFits, Fits
  <2>3. /\ (SendingIsCounted /\ GaugesDriftOneWay)'
        /\ RefusesNone => ReadingIsCounted'
        /\ BodiesWhole => ActiveIsCounted'
    BY <1>2 DEF IInv, SendingIsCounted, GaugesDriftOneWay, ReadingIsCounted, ActiveIsCounted,
                In, OpenConns
  <2>4. ThreadsConserved'
    BY <1>2 DEF IInv, ThreadsConserved, PoolThreads, Owned
  <2>. QED
    BY <2>1, <2>2, <2>3, <2>4 DEF IInv, RefusesNone, BodiesWhole
<1>3. BeginExit => UNCHANGED <<epd, wk, co, run>> /\ exiting' \in BOOLEAN
  BY DEF BeginExit
<1>4. UNCHANGED vars => UNCHANGED <<epd, wk, co, run>> /\ exiting' \in BOOLEAN
  BY DEF vars, IInv, TypeOK
<1>. QED
  BY <1>1, <1>2, <1>3, <1>4 DEF Next

\* IInv holds in every state of the worker.
THEOREM Invariant == Spec => []IInv
BY InitInvariant, NextInvariant, PTL DEF Spec

\* Every field of every epdata_t, the pool and the gauges keep their ranges,
\* through every order of callbacks, timers and script calls.
THEOREM TypeCorrect == Spec => []TypeOK
<1>1. IInv => TypeOK
  BY DEF IInv
<1>. QED
  BY <1>1, Invariant, PTL

\* The callback a connection is registered with is always one its status can
\* handle, and a closed socket has none: what network_be_end, the flushes, the
\* readers and the timers leave on se_ptr fits what they leave in status.
THEOREM CallbacksFit == Spec => []CallbackFits
<1>1. IInv => CallbackFits
  BY DEF IInv
<1>. QED
  BY <1>1, Invariant, PTL

\* sending_counts is exactly the number of connections in STEP_SEND, for any
\* number of connections, whatever fails or times out.
THEOREM WritingGaugeIsExact == Spec => []SendingIsCounted
<1>1. IInv => SendingIsCounted
  BY DEF IInv
<1>. QED
  BY <1>1, Invariant, PTL

\* The two gauges that can go wrong (early refusals, the double decrement of an
\* end of file) go wrong in one direction only.
THEOREM GaugesErrOneWay == Spec => []GaugesDriftOneWay
<1>1. IInv => GaugesDriftOneWay
  BY DEF IInv
<1>. QED
  BY <1>1, Invariant, PTL

\* Unless a request is refused while its header is read, reading_counts is exactly
\* the number of connections in STEP_READ, whatever else clients, timers and
\* scripts do.
THEOREM ReadingGaugeIsExact ==
  ASSUME {"oversize", "nolength"} \cap Moves = {}
  PROVE  Spec => []ReadingIsCounted
<1>1. IInv => ReadingIsCounted
  BY DEF IInv, RefusesNone
<1>. QED
  BY <1>1, Invariant, PTL

\* Unless a client stops in the middle of a body its script waits for,
\* active_counts is exactly the number of open client sockets.
THEOREM ActiveGaugeIsExact ==
  ASSUME "bodyeof" \notin Moves
  PROVE  Spec => []ActiveIsCounted
<1>1. IInv => ActiveIsCounted
  BY DEF IInv, BodiesWhole
<1>. QED
  BY <1>1, Invariant, PTL

\* No way to end a connection loses a Lua thread, puts it into the pool twice or
\* gives it to two connections.
THEOREM NoThreadLost == Spec => []ThreadsConserved
<1>1. IInv => ThreadsConserved
  BY DEF IInv
<1>. QED
  BY <1>1, Invariant, PTL

=============================================================================
