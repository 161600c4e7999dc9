----------------------------- MODULE ServStatus -----------------------------
(***************************************************************************)
(* The server status the workers share: what each worker counts            *)
(* (serv_status), what it has published of that (tmp_status), and the sums *)
(* in shared memory that /serv-status reports.                             *)
(*                                                                         *)
(* Three counters stand for all: gauge for reading, sending, waiting and   *)
(* active_counts, total for connect, success and process_counts, and sec   *)
(* for the ring sec_process_counts.  What a request does to its gauges is  *)
(* in module Connection; here they go up and down.                         *)
(*                                                                         *)
(* Seconds are counted modulo 5: last_sync is never ahead of now, so       *)
(* "now > last_sync" is a flag that the next second sets.                  *)
(*                                                                         *)
(* External: the event loop, which reads the clock and calls               *)
(* other_simple_jobs once per turn, the supervisor that starts workers,    *)
(* and the lock around the sums.                                           *)
(***************************************************************************)
EXTENDS Integers, FiniteSets, Functions

CONSTANTS
  Workers,    \* places for worker processes
  MaxEvents,  \* connections that are ever accepted (bound)
  MaxAsked,   \* requests in one slot; at the bound no worker gets another (bound)
  MaxStarts,  \* how often workers are started (bound)
  MaxJump     \* seconds one turn of the event loop takes at most

ASSUME WorkersAssumption == IsFiniteSet(Workers)
ASSUME BoundsAssumption == {MaxEvents, MaxAsked, MaxStarts, MaxJump} \subseteq Nat

VARIABLES
  up,        \* the workers that run
  serv,      \* [Workers -> Counts]: serv_status
  tmp,       \* [Workers -> Counts]: tmp_status
  now,       \* [Workers -> 0..4]: now % 5
  due,       \* the workers with now > last_sync
  shm,       \* Counts: shm_serv_status
  starts,    \* auxiliary: workers started so far
  accepted,  \* auxiliary: connections accepted so far
  asked,     \* auxiliary: the requests of each worker in its last five seconds
  gone       \* auxiliary: what workers that ended have left behind

vars == <<up, serv, tmp, now, due, shm, starts, accepted, asked, gone>>

Slot   == 0..4
Counts == [gauge : Int, total : Int, sec : [Slot -> Int]]
Zero   == [gauge |-> 0, total |-> 0, sec |-> [i \in Slot |-> 0]]

-----------------------------------------------------------------------------
\* be_accept: the connection is open and was accepted.
Connect(w) ==
  /\ w \in up
  /\ accepted < MaxEvents
  /\ serv' = [serv EXCEPT ![w].gauge = @ + 1, ![w].total = @ + 1]
  /\ accepted' = accepted + 1
  /\ UNCHANGED <<up, tmp, now, due, shm, starts, asked, gone>>

Leave(w) ==
  /\ w \in up
  /\ serv[w].gauge > 0
  /\ serv' = [serv EXCEPT ![w].gauge = @ - 1]
  /\ UNCHANGED <<up, tmp, now, due, shm, starts, accepted, asked, gone>>

\* network_be_read: a request is counted in the current second.
Request(w) ==
  /\ w \in up
  /\ \A v \in Workers, i \in Slot : asked[v][i] < MaxAsked
  /\ serv' = [serv EXCEPT ![w].sec[now[w]] = @ + 1]
  /\ asked' = [asked EXCEPT ![w][now[w]] = @ + 1]
  /\ UNCHANGED <<up, tmp, now, due, shm, starts, accepted, gone>>

\* Wrong: the ring is indexed without its modulus.
ClockUnwrapped(w) ==
  /\ w \in up \ due
  /\ now' = [now EXCEPT ![w] = @ + 1]
  /\ due' = due \cup {w}
  /\ UNCHANGED <<up, serv, tmp, shm, starts, accepted, asked, gone>>

\* A turn of the event loop finds that time has passed.  The turn before has
\* called sync_serv_status.
Clock(w) ==
  /\ w \in up \ due
  /\ \E n \in 1..MaxJump :
       /\ now' = [now EXCEPT ![w] = (@ + n) % 5]
       /\ asked' = [asked EXCEPT ![w] =
            [i \in Slot |-> IF \E k \in 1..n : i = (now[w] + k) % 5 THEN 0 ELSE @[i]]]
  /\ due' = due \cup {w}
  /\ UNCHANGED <<up, serv, tmp, shm, starts, accepted, gone>>

\* Wrong: the slot keeps what it had five seconds ago.
Uncleared(w, s) == s

\* (now - 5) % 5 is the slot of the second that begins.
Cleared(w, s) == [s EXCEPT !.sec[now[w]] = 0]

\* Wrong: the slot is cleared after its change was published.
SumsBefore(w, s) == [gauge |-> shm.gauge + s.gauge - tmp[w].gauge,
                     total |-> shm.total + s.total,
                     sec   |-> [i \in Slot |-> shm.sec[i] + s.sec[i] - tmp[w].sec[i]]]

\* The sums once worker w has published s, and what it keeps of s.
Sums(w, s) ==
  LET sec == Cleared(w, s).sec
  IN  [gauge |-> shm.gauge + s.gauge - tmp[w].gauge,
       total |-> shm.total + s.total,
       sec   |-> [i \in Slot |-> shm.sec[i] + sec[i] - tmp[w].sec[i]]]

\* Wrong: a total is published but not started again.
KeptTotal(w, s) == Cleared(w, s)

Kept(w, s) == [Cleared(w, s) EXCEPT !.total = 0]

\* Wrong: nothing is published while no connection is open.
SyncOpen(w) ==
  /\ w \in up \cap due
  /\ IF serv[w].gauge > 0
     THEN /\ shm' = Sums(w, serv[w])
          /\ serv' = [serv EXCEPT ![w] = Kept(w, @)] /\ tmp' = [tmp EXCEPT ![w] = Kept(w, serv[w])]
     ELSE UNCHANGED <<shm, serv, tmp>>
  /\ due' = due \ {w}
  /\ UNCHANGED <<up, now, starts, accepted, asked, gone>>

\* sync_serv_status, called by other_simple_jobs in each turn.
Sync(w) ==
  /\ w \in up \cap due
  /\ shm' = Sums(w, serv[w])
  /\ serv' = [serv EXCEPT ![w] = Kept(w, @)]
  /\ tmp' = [tmp EXCEPT ![w] = Kept(w, serv[w])]
  /\ due' = due \ {w}
  /\ UNCHANGED <<up, now, starts, accepted, asked, gone>>

\* The process ends: its memory is gone, and left is what stays of it in shm or
\* was never published.
Ended(w, left) ==
  /\ up' = up \ {w} /\ due' = due \ {w}
  /\ serv' = [serv EXCEPT ![w] = Zero] /\ tmp' = [tmp EXCEPT ![w] = Zero]
  /\ now' = [now EXCEPT ![w] = 0]
  /\ asked' = [asked EXCEPT ![w] = Zero.sec]
  /\ gone' = [gauge |-> gone.gauge + left.gauge, total |-> gone.total + left.total,
              sec |-> [i \in Slot |-> gone.sec[i] + left.sec[i]]]
  /\ UNCHANGED <<starts, accepted>>

\* Wrong: the last sync obeys the once-a-second guard.
ExitIfDue(w) ==
  LET last == [serv[w] EXCEPT !.gauge = 0]
  IN  /\ w \in up
      /\ IF w \in due THEN shm' = Sums(w, last) /\ Ended(w, Kept(w, last))
                      ELSE UNCHANGED shm /\ Ended(w, [tmp[w] EXCEPT !.gauge = 0])

\* on_exit_handler: ten seconds on, which is the same slot, all gauges at zero.
\* What the other slots of the ring have published stays.
Exit(w) ==
  LET last == [serv[w] EXCEPT !.gauge = 0]
  IN  /\ w \in up
      /\ shm' = Sums(w, last)
      /\ Ended(w, Kept(w, last))

\* A worker is killed: no exit handler runs.
Crash(w) ==
  /\ w \in up
  /\ Ended(w, [tmp[w] EXCEPT !.total = serv[w].total])
  /\ UNCHANGED shm

\* The supervisor forks a worker, whose statics are zero, last_sync too.
Start(w) ==
  /\ w \notin up
  /\ starts < MaxStarts
  /\ starts' = starts + 1
  /\ up' = up \cup {w}
  /\ due' = due \cup {w}
  /\ UNCHANGED <<serv, tmp, now, shm, accepted, asked, gone>>

-----------------------------------------------------------------------------
Init ==
  /\ up = {} /\ due = {}
  /\ serv = [w \in Workers |-> Zero] /\ tmp = [w \in Workers |-> Zero]
  /\ now = [w \in Workers |-> 0]
  /\ shm = Zero /\ gone = Zero
  /\ starts = 0 /\ accepted = 0
  /\ asked = [w \in Workers |-> Zero.sec]

Next == \E w \in Workers :
  \/ Connect(w) \/ Leave(w) \/ Request(w)
  \/ Clock(w) \/ Sync(w) \/ Exit(w) \/ Crash(w) \/ Start(w)

Spec == Init /\ [][Next]_vars

\* Time passes, and each turn of a worker's event loop ends with its other jobs.
FairSpec == Spec /\ \A w \in Workers : WF_vars(Clock(w)) /\ WF_vars(Sync(w))

-----------------------------------------------------------------------------
(* Properties. *)

TypeOK ==
  /\ up \subseteq Workers /\ due \subseteq up
  /\ {serv[w] : w \in Workers} \cup {tmp[w] : w \in Workers} \cup {shm, gone} \subseteq Counts
  /\ now \in [Workers -> Slot]
  /\ starts \in 0..MaxStarts /\ accepted \in 0..MaxEvents
  /\ asked \in [Workers -> [Slot -> 0..MaxAsked]]

\* One counter of all workers.
Gauges(counts)    == [w \in Workers |-> counts[w].gauge]
Totals(counts)    == [w \in Workers |-> counts[w].total]
Second(counts, i) == [w \in Workers |-> counts[w].sec[i]]

\* The published gauge is the sum of what the running workers have published,
\* plus what killed ones had: a worker that exits takes its share back, however
\* shortly after a sync, and one that is started again begins at nothing
\* (network-util.c:164-199, worker.c:30-35).
GaugeIsSum == shm.gauge = gone.gauge + SumFunctionOnSet(Gauges(tmp), up)

\* Likewise each slot of the ring, except that workers that exit leave theirs.
RingIsSum == \A i \in Slot :
  shm.sec[i] = gone.sec[i] + SumFunctionOnSet(Second(tmp, i), up)

\* Every accepted connection is in the published total once, or waits in the
\* worker that accepted it, or was lost with it.
TotalIsSum ==
  shm.total + SumFunctionOnSet(Totals(serv), up) + gone.total = accepted

\* What a worker has published for a second that is over is never more than the
\* requests it got in that second, the one of five seconds before forgotten.
\* Not so if a turn of its event loop takes more than a second.
RateNotOver == \A w \in up, i \in Slot : i # now[w] => tmp[w].sec[i] =< asked[w][i]

\* What a worker counts is published in the end: again and again nothing is
\* left to publish, if the worker lives.
Published == \A w \in Workers :
  []<>(w \in up => tmp[w].gauge = serv[w].gauge /\ serv[w].total = 0)

=============================================================================
