------------------------- MODULE LuaThreads_proofs --------------------------
(***************************************************************************)
(* Theorems about LuaThreads, for every set of threads, cells and names:   *)
(* the linked list is a chain that holds each free thread once, and it is  *)
(* the queue of ThreadPool.                                                *)
(*                                                                         *)
(* The list is followed by the auxiliary variable order, so that nothing   *)
(* has to be said by recursion along next.                                 *)
(***************************************************************************)
EXTENDS LuaThreads, TLAPS

\* o is the chain from h to tl through the cells lk.
IsChain(o, h, tl, lk) ==
  LET n == Len(o)
  IN  /\ h = IF n = 0 THEN Null ELSE o[1]
      /\ tl = IF n = 0 THEN Null ELSE o[n]
      /\ \A i \in 1..n : lk[o[i]].next = IF i = n THEN Null ELSE o[i + 1]
      /\ \A i, j \in 1..n : o[i] = o[j] => i = j
      /\ {o[i] : i \in 1..n} = {x \in Cells : lk[x].L # NoThread}

IInv == TypeOK /\ ListIsChain /\ ListedOnce

LEMMA ChainTake ==
  ASSUME NEW o \in Seq(Cells), NEW h \in Cells, NEW tl, NEW lk \in [Cells -> Cell],
         IsChain(o, h, tl, lk)
  PROVE  LET q   == Tail(o)
             lk2 == [lk EXCEPT ![h] = Unused]
             h2  == IF tl = h THEN Null ELSE lk[h].next
             tl2 == IF tl = h THEN Null ELSE tl
         IN  /\ IsChain(q, h2, tl2, lk2)
             /\ q \in Seq(Cells) /\ o # <<>> /\ h = o[1] /\ Len(o) = Len(q) + 1
             /\ \A i \in 1..Len(q) : q[i] = o[i + 1] /\ lk2[q[i]] = lk[o[i + 1]]
<1>. DEFINE n == Len(o)
            q == Tail(o)
            lk2 == [lk EXCEPT ![h] = Unused]
            h2  == IF tl = h THEN Null ELSE lk[h].next
            tl2 == IF tl = h THEN Null ELSE tl
<1>1. n \in Nat /\ n > 0 /\ h = o[1] /\ tl = o[n]
  <2>1. n \in Nat
    OBVIOUS
  <2>2. n # 0
    BY CellsAssumption DEF IsChain, CellsAssumption
  <2>. QED
    BY <2>1, <2>2 DEF IsChain
<1>2. o # <<>> /\ q \in Seq(Cells) /\ Len(q) = n - 1
  BY <1>1
<1>3. \A i \in 1..n-1 : q[i] = o[i + 1]
  BY <1>1, <1>2
<1>4. /\ \A i, j \in 1..n : o[i] = o[j] => i = j
      /\ \A i \in 1..n : lk[o[i]].next = IF i = n THEN Null ELSE o[i + 1]
      /\ {o[i] : i \in 1..n} = {x \in Cells : lk[x].L # NoThread}
      /\ \A i \in 1..n : o[i] \in Cells
  BY DEF IsChain
<1>. HIDE DEF q, n
<1>5. \A i \in 1..n-1 : i + 1 \in 1..n /\ o[i + 1] # h /\ o[i + 1] \in Cells
  BY <1>1, <1>4
<1>6. \A i \in 1..n-1 : lk2[q[i]] = lk[o[i + 1]]
  <2>1. \A x \in Cells : x # h => lk2[x] = lk[x]
    OBVIOUS
  <2>. HIDE DEF lk2
  <2>. QED
    BY <1>3, <1>5, <2>1
<1>7. tl = h <=> n = 1
  <2>1. 1 \in 1..n /\ n \in 1..n
    BY <1>1
  <2>. QED
    BY <1>1, <1>4, <2>1
<1>8. h2 = IF n - 1 = 0 THEN Null ELSE q[1]
  <2>1. CASE n = 1
    BY <1>7, <2>1
  <2>2. CASE n # 1
    <3>1. 1 \in 1..n /\ 1 \in 1..n-1 /\ n - 1 # 0
      BY <1>1, <2>2
    <3>2. lk[o[1]].next = o[1 + 1]
      BY <1>4, <2>2, <3>1
    <3>3. q[1] = o[1 + 1]
      BY <1>3, <3>1
    <3>. QED
      BY <1>1, <1>7, <2>2, <3>1, <3>2, <3>3
  <2>. QED
    BY <2>1, <2>2
<1>9. tl2 = IF n - 1 = 0 THEN Null ELSE q[n - 1]
  <2>1. CASE n = 1
    BY <1>7, <2>1
  <2>2. CASE n # 1
    <3>1. n - 1 \in 1..n-1 /\ (n - 1) + 1 = n /\ n - 1 # 0
      BY <1>1, <2>2
    <3>2. q[n - 1] = o[n]
      BY <1>3, <3>1
    <3>. QED
      BY <1>1, <1>7, <2>2, <3>1, <3>2
  <2>. QED
    BY <2>1, <2>2
<1>10. \A i \in 1..n-1 : lk2[q[i]].next = IF i = n - 1 THEN Null ELSE q[i + 1]
  <2>. SUFFICES ASSUME NEW i \in 1..n-1
                PROVE  lk2[q[i]].next = IF i = n - 1 THEN Null ELSE q[i + 1]
    OBVIOUS
  <2>1. i + 1 \in 1..n
    BY <1>5
  <2>2. lk[o[i + 1]].next = IF i + 1 = n THEN Null ELSE o[(i + 1) + 1]
    BY <1>4, <2>1
  <2>3. CASE i = n - 1
    BY <1>1, <1>6, <2>2, <2>3
  <2>4. CASE i # n - 1
    <3>1. i + 1 \in 1..n-1 /\ i + 1 # n
      BY <1>1, <2>4
    <3>2. q[i + 1] = o[(i + 1) + 1]
      BY <1>3, <3>1
    <3>. QED
      BY <1>6, <2>2, <2>4, <3>1, <3>2
  <2>. QED
    BY <2>3, <2>4
<1>11. \A i, j \in 1..n-1 : q[i] = q[j] => i = j
  <2>. SUFFICES ASSUME NEW i \in 1..n-1, NEW j \in 1..n-1, q[i] = q[j]
                PROVE  i = j
    OBVIOUS
  <2>1. i + 1 = j + 1
    BY <1>3, <1>4, <1>5
  <2>. QED
    BY <2>1
<1>12. {q[i] : i \in 1..n-1} = {x \in Cells : lk2[x].L # NoThread}
  <2>1. {o[i] : i \in 1..n} = {x \in Cells : lk[x].L # NoThread}
    BY <1>4
  <2>2. {x \in Cells : lk2[x].L # NoThread} = {x \in Cells : lk[x].L # NoThread} \ {h}
    BY DEF Unused
  <2>3. \A j \in 1..n : j = 1 \/ o[j] \in {q[i] : i \in 1..n-1}
    <3>. SUFFICES ASSUME NEW j \in 1..n, j # 1
                  PROVE  o[j] \in {q[i] : i \in 1..n-1}
      OBVIOUS
    <3>1. j - 1 \in 1..n-1 /\ (j - 1) + 1 = j
      BY <1>1
    <3>. QED
      BY <1>3, <3>1
  <2>4. \A i \in 1..n-1 : q[i] \in {o[j] : j \in 1..n} /\ q[i] # h
    BY <1>3, <1>5
  <2>5. {o[j] : j \in 1..n} \ {h} \subseteq {q[i] : i \in 1..n-1}
    BY <1>1, <2>3
  <2>6. {q[i] : i \in 1..n-1} \subseteq {o[j] : j \in 1..n} \ {h}
    BY <2>4
  <2>. QED
    BY <2>1, <2>2, <2>5, <2>6
<1>. HIDE DEF lk2, h2, tl2
<1>13. IsChain(q, h2, tl2, lk2)
  BY <1>2, <1>8, <1>9, <1>10, <1>11, <1>12 DEF IsChain
<1>. QED
  BY <1>1, <1>2, <1>3, <1>6, <1>13 DEF n, q, lk2, h2, tl2

LEMMA ChainAdd ==
  ASSUME NEW o \in Seq(Cells), NEW h, NEW tl, NEW lk \in [Cells -> Cell],
         IsChain(o, h, tl, lk), NEW t \in Threads, NEW x \in Cells, lk[x].L = NoThread
  PROVE  LET q   == Append(o, x)
             lk2 == [y \in Cells |->
                       CASE y = x           -> [L |-> t, next |-> Null]
                         [] y = tl /\ y # x -> [lk[y] EXCEPT !.next = x]
                         [] OTHER           -> lk[y]]
             h2  == IF tl = Null THEN x ELSE h
         IN  /\ IsChain(q, h2, x, lk2)
             /\ q \in Seq(Cells) /\ lk2 \in [Cells -> Cell]
             /\ Len(q) = Len(o) + 1 /\ lk2[q[Len(q)]].L = t
             /\ \A i \in 1..Len(o) : q[i] = o[i] /\ lk2[q[i]].L = lk[o[i]].L
<1>. DEFINE n == Len(o)
            q == Append(o, x)
            lk2 == [y \in Cells |->
                      CASE y = x           -> [L |-> t, next |-> Null]
                        [] y = tl /\ y # x -> [lk[y] EXCEPT !.next = x]
                        [] OTHER           -> lk[y]]
            h2  == IF tl = Null THEN x ELSE h
<1>1. /\ n \in Nat /\ q \in Seq(Cells) /\ Len(q) = n + 1 /\ q[n + 1] = x
      /\ \A i \in 1..n : q[i] = o[i]
  OBVIOUS
<1>2. /\ h = IF n = 0 THEN Null ELSE o[1]
      /\ tl = IF n = 0 THEN Null ELSE o[n]
      /\ \A i \in 1..n : lk[o[i]].next = IF i = n THEN Null ELSE o[i + 1]
      /\ \A i, j \in 1..n : o[i] = o[j] => i = j
      /\ {o[i] : i \in 1..n} = {y \in Cells : lk[y].L # NoThread}
      /\ \A i \in 1..n : o[i] \in Cells
  BY DEF IsChain
<1>3. \A i \in 1..n : o[i] # x
  BY <1>2
<1>4. t # NoThread /\ Null \notin Cells
  BY ThreadsAssumption, CellsAssumption DEF ThreadsAssumption, CellsAssumption
<1>5. /\ lk2[x] = [L |-> t, next |-> Null]
      /\ \A y \in Cells : y # x => lk2[y] = IF y = tl THEN [lk[y] EXCEPT !.next = x] ELSE lk[y]
  OBVIOUS
<1>6. /\ \A y \in Cells : lk2[y] \in Cell
      /\ lk2[x].L = t /\ lk2[x].next = Null
      /\ \A y \in Cells : y # x => /\ lk2[y].L = lk[y].L
                                   /\ lk2[y].next = IF y = tl THEN x ELSE lk[y].next
  <2>. HIDE DEF lk2
  <2>1. lk2[x] \in Cell /\ lk2[x].L = t /\ lk2[x].next = Null
    BY <1>5 DEF Cell
  <2>. SUFFICES ASSUME NEW y \in Cells, y # x
                PROVE  /\ lk2[y] \in Cell /\ lk2[y].L = lk[y].L
                       /\ lk2[y].next = IF y = tl THEN x ELSE lk[y].next
    BY <2>1
  <2>2. lk[y] \in Cell
    OBVIOUS
  <2>3. lk2[y] = IF y = tl THEN [lk[y] EXCEPT !.next = x] ELSE lk[y]
    BY <1>5
  <2>. QED
    BY <2>2, <2>3 DEF Cell
<1>7. lk2 \in [Cells -> Cell]
  <2>1. \A y \in Cells : lk2[y] \in Cell
    BY <1>6
  <2>. QED
    BY <2>1
<1>. HIDE DEF lk2, q, n
<1>8. \A i \in 1..n : lk2[q[i]].L = lk[o[i]].L
  BY <1>1, <1>2, <1>3, <1>6
<1>9. h2 = q[1]
  <2>1. CASE n = 0
    BY <1>1, <1>2, <2>1
  <2>2. CASE n # 0
    <3>1. 1 \in 1..n /\ n \in 1..n
      BY <1>1, <2>2
    <3>2. tl # Null /\ h = o[1]
      BY <1>2, <1>4, <2>2, <3>1
    <3>. QED
      BY <1>1, <3>1, <3>2
  <2>. QED
    BY <2>1, <2>2
<1>. HIDE DEF h2
<1>10. \A i \in 1..n+1 : lk2[q[i]].next = IF i = n + 1 THEN Null ELSE q[i + 1]
  <2>. SUFFICES ASSUME NEW i \in 1..n+1
                PROVE  lk2[q[i]].next = IF i = n + 1 THEN Null ELSE q[i + 1]
    OBVIOUS
  <2>1. CASE i = n + 1
    BY <1>1, <1>6, <2>1
  <2>2. CASE i = n
    <3>1. i \in 1..n /\ n # 0 /\ i # n + 1
      BY <1>1, <2>2
    <3>2. o[i] = tl /\ o[i] \in Cells /\ o[i] # x /\ q[i] = o[i]
      BY <1>1, <1>2, <1>3, <2>2, <3>1
    <3>3. lk2[q[i]].next = x
      BY <1>6, <3>2
    <3>. QED
      BY <1>1, <2>2, <3>1, <3>3
  <2>3. CASE i # n + 1 /\ i # n
    <3>1. i \in 1..n /\ n \in 1..n /\ i + 1 \in 1..n
      BY <1>1, <2>3
    <3>2. o[i] \in Cells /\ o[i] # x /\ q[i] = o[i] /\ q[i + 1] = o[i + 1]
      BY <1>1, <1>2, <1>3, <3>1
    <3>3. o[i] # tl
      <4>1. tl = o[n]
        BY <1>1, <1>2, <3>1
      <4>. QED
        BY <1>2, <2>3, <3>1, <4>1
    <3>4. lk2[q[i]].next = lk[o[i]].next
      BY <1>6, <3>2, <3>3
    <3>5. lk[o[i]].next = o[i + 1]
      BY <1>2, <2>3, <3>1
    <3>. QED
      BY <2>3, <3>2, <3>4, <3>5
  <2>. QED
    BY <2>1, <2>2, <2>3
<1>11. \A i, j \in 1..n+1 : q[i] = q[j] => i = j
  <2>. SUFFICES ASSUME NEW i \in 1..n+1, NEW j \in 1..n+1, q[i] = q[j]
                PROVE  i = j
    OBVIOUS
  <2>1. \A k \in 1..n+1 : k = n + 1 \/ k \in 1..n
    BY <1>1
  <2>. QED
    BY <1>1, <1>2, <1>3, <2>1
<1>12. {q[i] : i \in 1..n+1} = {y \in Cells : lk2[y].L # NoThread}
  <2>1. {q[i] : i \in 1..n+1} = {o[i] : i \in 1..n} \cup {x}
    <3>1. \A k \in 1..n+1 : k = n + 1 \/ k \in 1..n
      BY <1>1
    <3>2. {q[i] : i \in 1..n+1} \subseteq {o[i] : i \in 1..n} \cup {x}
      BY <1>1, <3>1
    <3>3. \A i \in 1..n : i \in 1..n+1
      BY <1>1
    <3>4. n + 1 \in 1..n+1
      BY <1>1
    <3>5. {o[i] : i \in 1..n} \cup {x} \subseteq {q[i] : i \in 1..n+1}
      BY <1>1, <3>3, <3>4
    <3>. QED
      BY <3>2, <3>5
  <2>2. {y \in Cells : lk2[y].L # NoThread} = {y \in Cells : lk[y].L # NoThread} \cup {x}
    BY <1>4, <1>6
  <2>. QED
    BY <1>2, <2>1, <2>2
<1>13. IsChain(q, h2, x, lk2)
  BY <1>1, <1>9, <1>10, <1>11, <1>12 DEF IsChain
<1>. QED
  BY <1>1, <1>6, <1>7, <1>8, <1>13 DEF n, q, h2, lk2

-----------------------------------------------------------------------------
(* The invariant, and the step of ThreadPool that each step is. *)

PoolOf == [i \in 1..Len(order) |-> link[order[i]].L]

LEMMA PoolType ==
  ASSUME NEW o \in Seq(Cells), NEW lk \in [Cells -> Cell]
  PROVE  LET p == [i \in 1..Len(o) |-> lk[o[i]].L]
         IN  /\ p \in Seq(Threads \cup {NoThread})
             /\ Len(p) = Len(o) /\ Len(o) \in Nat
             /\ \A i \in 1..Len(o) : p[i] = lk[o[i]].L
<1>1. Len(o) \in Nat /\ \A i \in 1..Len(o) : lk[o[i]].L \in Threads \cup {NoThread}
  BY DEF Cell
<1>. QED
  BY <1>1

LEMMA PoolOfType ==
  ASSUME TypeOK
  PROVE  /\ PoolOf \in Seq(Threads \cup {NoThread})
         /\ Len(PoolOf) = Len(order) /\ Len(order) \in Nat
         /\ \A i \in 1..Len(order) : PoolOf[i] = link[order[i]].L
BY PoolType DEF TypeOK, PoolOf

\* The threads that wait, as ThreadPool names them.
LEMMA WaitingIs ==
  ASSUME TypeOK, ListedOnce
  PROVE  {PoolOf[i] : i \in 1..Len(PoolOf)} = made \ held
<1>1. {PoolOf[i] : i \in 1..Len(PoolOf)} = {link[order[i]].L : i \in 1..Len(order)}
  BY PoolOfType
<1>. QED
  BY <1>1 DEF ListedOnce

LEMMA TakeStep ==
  ASSUME IInv, TakeHead, NEW t, t = link[head].L, UNCHANGED made, held' = held \cup {t},
         UNCHANGED <<busy, env, gk>>
  PROVE  IInv' /\ Pool!Take
<1>1. /\ order \in Seq(Cells) /\ head \in Cells /\ link \in [Cells -> Cell]
      /\ IsChain(order, head, tail, link)
  BY DEF IInv, TypeOK, ListIsChain, IsChain, TakeHead
<1>. DEFINE n == Len(order)
            m == Len(order')
<1>2. /\ head' = IF tail = head THEN Null ELSE link[head].next
      /\ tail' = IF tail = head THEN Null ELSE tail
      /\ link' = [link EXCEPT ![head] = Unused]
      /\ order' = Tail(order)
  BY DEF TakeHead
<1>3. /\ IsChain(order', head', tail', link')
      /\ order' \in Seq(Cells) /\ order # <<>> /\ head = order[1] /\ n = m + 1
      /\ \A i \in 1..m : order'[i] = order[i + 1] /\ link'[order'[i]] = link[order[i + 1]]
  <2>. DEFINE q   == Tail(order)
              lk2 == [link EXCEPT ![head] = Unused]
              h2  == IF tail = head THEN Null ELSE link[head].next
              tl2 == IF tail = head THEN Null ELSE tail
  <2>1. /\ IsChain(q, h2, tl2, lk2)
        /\ q \in Seq(Cells) /\ order # <<>> /\ head = order[1] /\ Len(order) = Len(q) + 1
        /\ \A i \in 1..Len(q) : q[i] = order[i + 1] /\ lk2[q[i]] = link[order[i + 1]]
    BY <1>1, ChainTake
  <2>2. order' = q /\ link' = lk2 /\ head' = h2 /\ tail' = tl2
    BY <1>2
  <2>. HIDE DEF q, lk2, h2, tl2
  <2>. QED
    BY <2>1, <2>2
<1>4. n \in Nat /\ m \in Nat
  BY <1>1, <1>3
<1>. HIDE DEF n, m
<1>5. 1 \in 1..n /\ \A i \in 1..m : i + 1 \in 1..n /\ i + 1 # 1
  BY <1>3, <1>4
<1>6. ListIsChain'
  BY <1>3 DEF ListIsChain, IsChain
<1>7. /\ \A i, j \in 1..n : link[order[i]].L = link[order[j]].L => i = j
      /\ {link[order[i]].L : i \in 1..n} = made \ held
  BY DEF IInv, ListedOnce, n
<1>8. t \in made \ held
  BY <1>3, <1>5, <1>7
<1>9. \A i, j \in 1..m : link'[order'[i]].L = link'[order'[j]].L => i = j
  <2>. SUFFICES ASSUME NEW i \in 1..m, NEW j \in 1..m,
                       link'[order'[i]].L = link'[order'[j]].L
                PROVE  i = j
    OBVIOUS
  <2>1. link[order[i + 1]].L = link[order[j + 1]].L
    BY <1>3
  <2>2. i + 1 = j + 1
    BY <1>5, <1>7, <2>1
  <2>. QED
    BY <2>2
<1>10. {link'[order'[i]].L : i \in 1..m} = made' \ held'
  <2>. DEFINE A == {link'[order'[i]].L : i \in 1..m}
              B == {link[order[i]].L : i \in 1..n}
  <2>1. A \subseteq B \ {t}
    <3>1. \A i \in 1..m : link'[order'[i]].L = link[order[i + 1]].L
      BY <1>3
    <3>2. \A i \in 1..m : link[order[i + 1]].L # t
      BY <1>3, <1>5, <1>7
    <3>. QED
      BY <1>5, <3>1, <3>2
  <2>2. B \ {t} \subseteq A
    <3>1. \A j \in 1..n : j = 1 \/ (j - 1 \in 1..m /\ (j - 1) + 1 = j)
      BY <1>3, <1>4
    <3>2. \A j \in 1..n : j = 1 \/ link'[order'[j - 1]].L = link[order[j]].L
      BY <1>3, <3>1
    <3>3. \A j \in 1..n : link[order[j]].L = t \/ link[order[j]].L \in A
      BY <1>3, <3>1, <3>2
    <3>. QED
      BY <3>3
  <2>. HIDE DEF A, B
  <2>3. B = made \ held
    BY <1>7 DEF B
  <2>. QED
    BY <2>1, <2>2, <2>3 DEF A
<1>11. ListedOnce'
  BY <1>9, <1>10 DEF ListedOnce, m
<1>12. TypeOK'
  <2>1. /\ head' \in Cells \cup {Null} /\ tail' \in Cells \cup {Null}
    <3>1. /\ head \in Cells \cup {Null} /\ tail \in Cells \cup {Null}
          /\ link[head].next \in Cells \cup {Null}
      BY <1>1 DEF IInv, TypeOK, Cell
    <3>. QED
      BY <1>2, <3>1
  <2>2. link' \in [Cells -> Cell]
    BY <1>1, <1>2 DEF Unused, Cell
  <2>. QED
    BY <1>3, <1>8, <2>1, <2>2 DEF IInv, TypeOK
<1>13. Pool!Take
  <2>1. PoolOf # <<>> /\ Tail(PoolOf) \in Seq(Threads \cup {NoThread})
        /\ Len(PoolOf) = n /\ Len(Tail(PoolOf)) = m
        /\ \A i \in 1..m : Tail(PoolOf)[i] = PoolOf[i + 1]
    <3>1. PoolOf \in Seq(Threads \cup {NoThread}) /\ Len(PoolOf) = n
      BY PoolOfType DEF IInv, n
    <3>2. PoolOf # <<>>
      BY <1>3, <1>4, <3>1
    <3>. QED
      BY <1>3, <1>4, <3>1, <3>2
  <2>2. PoolOf' \in Seq(Threads \cup {NoThread}) /\ Len(PoolOf') = m
        /\ \A i \in 1..m : PoolOf'[i] = link'[order'[i]].L
    <3>1. link' \in [Cells -> Cell]
      BY <1>12 DEF TypeOK
    <3>. QED
      BY <1>3, <3>1, PoolType DEF PoolOf, m
  <2>3. \A i \in 1..m : PoolOf'[i] = Tail(PoolOf)[i]
    <3>1. \A i \in 1..m : PoolOf[i + 1] = link[order[i + 1]].L
      BY <1>5, PoolOfType DEF IInv, n
    <3>. QED
      BY <1>3, <2>1, <2>2, <3>1
  <2>4. PoolOf' = Tail(PoolOf)
    BY <2>1, <2>2, <2>3
  <2>. QED
    BY <2>1, <2>4 DEF Pool!Take, PoolOf
<1>. QED
  BY <1>6, <1>11, <1>12, <1>13 DEF IInv

LEMMA ReleaseStep ==
  ASSUME IInv, NEW t \in held, NEW x \in Cells, link[x].L = NoThread, AddTail(x, t),
         held' = held \ {t}, busy' = busy \ {t}, UNCHANGED <<made, env, gk>>
  PROVE  IInv' /\ Pool!Release
<1>1. /\ order \in Seq(Cells) /\ link \in [Cells -> Cell] /\ held \subseteq made
      /\ made \subseteq Threads /\ IsChain(order, head, tail, link)
  BY DEF IInv, TypeOK, ListIsChain, IsChain
<1>. DEFINE n == Len(order)
            m == Len(order')
            q == Append(order, x)
            lk2 == [y \in Cells |->
                      CASE y = x             -> [L |-> t, next |-> Null]
                        [] y = tail /\ y # x -> [link[y] EXCEPT !.next = x]
                        [] OTHER             -> link[y]]
            h2 == IF tail = Null THEN x ELSE head
<1>2. head' = h2 /\ tail' = x /\ link' = lk2 /\ order' = q
  BY DEF AddTail
<1>3. /\ IsChain(order', head', tail', link')
      /\ order' \in Seq(Cells) /\ link' \in [Cells -> Cell] /\ m = n + 1
      /\ link'[order'[m]].L = t
      /\ \A i \in 1..n : order'[i] = order[i] /\ link'[order'[i]].L = link[order[i]].L
  <2>1. t \in Threads
    BY <1>1
  <2>2. /\ IsChain(q, h2, x, lk2)
        /\ q \in Seq(Cells) /\ lk2 \in [Cells -> Cell]
        /\ Len(q) = n + 1 /\ lk2[q[Len(q)]].L = t
        /\ \A i \in 1..n : q[i] = order[i] /\ lk2[q[i]].L = link[order[i]].L
    BY <1>1, <2>1, ChainAdd
  <2>. HIDE DEF q, lk2, h2
  <2>. QED
    BY <1>2, <2>2
<1>4. n \in Nat
  BY <1>1
<1>5. /\ \A i, j \in 1..n : link[order[i]].L = link[order[j]].L => i = j
      /\ {link[order[i]].L : i \in 1..n} = made \ held
  BY DEF IInv, ListedOnce
<1>6. ListIsChain'
  BY <1>3 DEF ListIsChain, IsChain
<1>. HIDE DEF n, m
<1>7. \A i \in 1..m : i = m \/ i \in 1..n
  BY <1>3, <1>4
<1>8. \A i \in 1..n : i \in 1..m /\ link[order[i]].L # t
  BY <1>3, <1>4, <1>5
<1>9. \A i, j \in 1..m : link'[order'[i]].L = link'[order'[j]].L => i = j
  BY <1>3, <1>5, <1>7, <1>8
<1>10. {link'[order'[i]].L : i \in 1..m} = made' \ held'
  <2>. DEFINE A == {link'[order'[i]].L : i \in 1..m}
              B == {link[order[i]].L : i \in 1..n}
  <2>1. A \subseteq B \cup {t}
    BY <1>3, <1>7
  <2>2. B \subseteq A
    BY <1>3, <1>8
  <2>3. t \in A
    <3>1. m \in 1..m
      BY <1>3, <1>4
    <3>. QED
      BY <1>3, <3>1
  <2>. HIDE DEF A, B
  <2>4. B = made \ held
    BY <1>5 DEF B
  <2>5. A = (made \ held) \cup {t}
    BY <2>1, <2>2, <2>3, <2>4
  <2>. QED
    BY <1>1, <2>5 DEF A
<1>11. ListedOnce'
  BY <1>9, <1>10 DEF ListedOnce, m
<1>12. TypeOK'
  <2>1. /\ head \in Cells \cup {Null} /\ busy \subseteq held
        /\ env \in [Threads -> SUBSET Names]
        /\ gk \in [Threads -> [Coroutine -> SUBSET Names]]
    BY DEF IInv, TypeOK
  <2>2. head' \in Cells \cup {Null} /\ tail' \in Cells \cup {Null}
    BY <1>2, <2>1
  <2>3. made' \subseteq Threads /\ held' \subseteq made' /\ busy' \subseteq held'
    BY <1>1, <2>1
  <2>. QED
    BY <1>3, <2>1, <2>2, <2>3 DEF TypeOK
<1>13. Pool!Release
  <2>1. /\ PoolOf \in Seq(Threads \cup {NoThread}) /\ Len(PoolOf) = n
        /\ \A i \in 1..n : PoolOf[i] = link[order[i]].L
    BY PoolOfType DEF IInv, n
  <2>2. /\ PoolOf' \in Seq(Threads \cup {NoThread}) /\ Len(PoolOf') = m
        /\ \A i \in 1..m : PoolOf'[i] = link'[order'[i]].L
    BY <1>3, PoolType DEF PoolOf, m
  <2>3. t \in Threads \cup {NoThread} /\ t \in made \ (made \ held)
    BY <1>1
  <2>. DEFINE p == Append(PoolOf, t)
  <2>4. /\ p \in Seq(Threads \cup {NoThread}) /\ Len(p) = n + 1 /\ p[n + 1] = t
        /\ \A i \in 1..n : p[i] = PoolOf[i]
    BY <1>4, <2>1, <2>3
  <2>. HIDE DEF p
  <2>5. \A i \in 1..m : PoolOf'[i] = p[i]
    <3>1. SUFFICES ASSUME NEW i \in 1..m PROVE link'[order'[i]].L = p[i]
      BY <2>2
    <3>2. CASE i = m
      BY <1>3, <1>4, <2>4, <3>2
    <3>3. CASE i \in 1..n
      BY <1>3, <2>1, <2>4, <3>3
    <3>. QED
      BY <1>7, <3>2, <3>3
  <2>6. PoolOf' = p
    BY <1>3, <2>2, <2>4, <2>5
  <2>7. {PoolOf[i] : i \in 1..Len(PoolOf)} = made \ held
    BY WaitingIs DEF IInv
  <2>. QED
    BY <2>3, <2>6, <2>7 DEF Pool!Release, Pool!Waiting, PoolOf, p
<1>. QED
  BY <1>6, <1>11, <1>12, <1>13 DEF IInv

\* Everything that leaves the list alone.
LEMMA StayStep ==
  ASSUME IInv, UNCHANGED <<head, tail, link, made, held, order>>, busy' \subseteq held,
         env' \in [Threads -> SUBSET Names], gk' \in [Threads -> [Coroutine -> SUBSET Names]]
  PROVE  IInv' /\ UNCHANGED <<PoolOf, made>>
BY DEF IInv, TypeOK, ListIsChain, ListedOnce, PoolOf

LEMMA MakeStep ==
  ASSUME IInv, NEW t \in Threads, head = Null, t \notin made, made' = made \cup {t},
         held' = held \cup {t}, UNCHANGED <<head, tail, link, order, busy, env, gk>>
  PROVE  IInv' /\ Pool!Make
<1>1. Len(order) = 0 /\ order = <<>>
  BY CellsAssumption DEF IInv, TypeOK, ListIsChain, CellsAssumption
<1>2. TypeOK' /\ ListIsChain'
  BY DEF IInv, TypeOK, ListIsChain
<1>3. held \subseteq made
  BY DEF IInv, TypeOK
<1>4. made' \ held' = made \ held
  BY <1>3
<1>5. ListedOnce'
  BY <1>4 DEF IInv, ListedOnce
<1>6. PoolOf = <<>> /\ PoolOf' = PoolOf
  BY <1>1 DEF PoolOf
<1>7. Pool!Make
  BY <1>6 DEF Pool!Make, PoolOf
<1>. QED
  BY <1>2, <1>5, <1>7 DEF IInv

LEMMA NewLuaThreadStep ==
  ASSUME IInv, NEW t \in Threads, NewLuaThread(t)
  PROVE  IInv' /\ Pool!Next
<1>1. CASE TakeHead /\ t = link[head].L /\ UNCHANGED made
  BY <1>1, TakeStep DEF NewLuaThread, Pool!Next
<1>2. CASE /\ head = Null /\ t \notin made /\ made' = made \cup {t}
           /\ UNCHANGED <<head, tail, link, order>>
  BY <1>2, MakeStep DEF NewLuaThread, Pool!Next
<1>. QED
  BY <1>1, <1>2 DEF NewLuaThread

LEMMA CloseClientStep ==
  ASSUME IInv, NEW t \in Threads, CloseClient(t)
  PROVE  IInv' /\ Pool!Next
<1>1. PICK x \in Cells : link[x].L = NoThread /\ AddTail(x, t)
  BY DEF CloseClient
<1>. QED
  BY <1>1, ReleaseStep DEF CloseClient, Pool!Next

LEMMA GlobalsStep ==
  ASSUME IInv, NEW t \in Threads,
         \/ StartRequest(t) \/ EndProcess(t)
         \/ \E name \in Names : Forget(t, name) \/ \E who \in Coroutine : NewIndex(t, name, who)
  PROVE  IInv' /\ UNCHANGED <<PoolOf, made>>
<1>1. /\ env \in [Threads -> SUBSET Names] /\ gk \in [Threads -> [Coroutine -> SUBSET Names]]
      /\ busy \subseteq held
  BY DEF IInv, TypeOK
<1>2. CASE StartRequest(t)
  BY <1>1, <1>2, StayStep DEF StartRequest
<1>3. CASE EndProcess(t)
  <2>1. env' \in [Threads -> SUBSET Names]
    BY <1>1, <1>3 DEF EndProcess, ReinitLuaThreadEnv
  <2>2. gk' \in [Threads -> [Coroutine -> SUBSET Names]]
    BY <1>1, <1>3 DEF EndProcess, ReinitLuaThreadEnv, Coroutine
  <2>. QED
    BY <1>1, <1>3, <2>1, <2>2, StayStep DEF EndProcess
<1>4. ASSUME NEW name \in Names, Forget(t, name)
      PROVE  IInv' /\ UNCHANGED <<PoolOf, made>>
  <2>1. env' \in [Threads -> SUBSET Names]
    BY <1>1, <1>4 DEF Forget
  <2>. QED
    BY <1>1, <1>4, <2>1, StayStep DEF Forget
<1>5. ASSUME NEW name \in Names, NEW who \in Coroutine, NewIndex(t, name, who)
      PROVE  IInv' /\ UNCHANGED <<PoolOf, made>>
  <2>1. env' \in [Threads -> SUBSET Names]
    BY <1>1, <1>5 DEF NewIndex
  <2>2. gk' \in [Threads -> [Coroutine -> SUBSET Names]]
    <3>. DEFINE g == IF name \in Unnoted THEN gk[t][who] ELSE gk[t][who] \cup {name}
    <3>1. g \in SUBSET Names
      BY <1>1, <1>5
    <3>2. gk' = [gk EXCEPT ![t][who] = g]
      BY <1>1, <1>5 DEF NewIndex
    <3>. HIDE DEF g
    <3>. QED
      BY <1>1, <1>5, <3>1, <3>2
  <2>. QED
    BY <1>1, <1>5, <2>1, <2>2, StayStep DEF NewIndex
<1>. QED
  BY <1>2, <1>3, <1>4, <1>5

LEMMA InitInvariant == Init => IInv /\ Pool!Init
<1>. SUFFICES ASSUME Init PROVE IInv /\ Pool!Init
  OBVIOUS
<1>1. order = <<>> /\ Len(order) = 0
  BY DEF Init
<1>2. TypeOK
  BY DEF Init, TypeOK, Cell, Unused, Coroutine
<1>3. ListIsChain
  BY <1>1 DEF Init, ListIsChain, Unused
<1>4. ListedOnce
  BY <1>1 DEF Init, ListedOnce
<1>5. Pool!Init
  <2>1. PoolOf = <<>>
    BY <1>1 DEF PoolOf
  <2>2. <<>> \in Seq(Threads) /\ Len(<<>>) = 0
    OBVIOUS
  <2>3. made = {}
    BY DEF Init
  <2>4. PoolOf \in Seq(Threads) /\ {PoolOf[i] : i \in 1..Len(PoolOf)} = made
        /\ \A i, j \in 1..Len(PoolOf) : PoolOf[i] = PoolOf[j] => i = j
    BY <2>1, <2>2, <2>3
  <2>. QED
    BY <2>4 DEF Pool!Init, Pool!Waiting, PoolOf
<1>. QED
  BY <1>2, <1>3, <1>4, <1>5 DEF IInv

LEMMA NextStep == IInv /\ [Next]_vars => IInv' /\ [Pool!Next]_<<PoolOf, made>>
<1>. SUFFICES ASSUME IInv, [Next]_vars
              PROVE  IInv' /\ [Pool!Next]_<<PoolOf, made>>
  OBVIOUS
<1>1. ASSUME NEW t \in Threads, NewLuaThread(t) \/ CloseClient(t)
      PROVE  IInv' /\ Pool!Next
  BY <1>1, NewLuaThreadStep, CloseClientStep
<1>2. ASSUME NEW t \in Threads,
             \/ StartRequest(t) \/ EndProcess(t)
             \/ \E name \in Names : \/ Forget(t, name)
                                    \/ \E who \in Coroutine : NewIndex(t, name, who)
      PROVE  IInv' /\ UNCHANGED <<PoolOf, made>>
  BY <1>2, GlobalsStep
<1>3. CASE UNCHANGED vars
  <2>1. /\ env \in [Threads -> SUBSET Names] /\ gk \in [Threads -> [Coroutine -> SUBSET Names]]
        /\ busy \subseteq held
    BY DEF IInv, TypeOK
  <2>. QED
    BY <1>3, <2>1, StayStep DEF vars
<1>. QED
  BY <1>1, <1>2, <1>3 DEF Next

\* IInv holds in every state.
THEOREM Invariant == Spec => []IInv
<1>1. IInv /\ [Next]_vars => IInv'
  BY NextStep
<1>. QED
  BY <1>1, InitInvariant, PTL DEF Spec

\* Variables keep their types, connections own only threads that were made, and
\* only owned threads serve requests, however cells are allocated: TypeOK.
THEOREM TypeCorrect == Spec => []TypeOK
<1>1. IInv => TypeOK
  BY DEF IInv
<1>. QED
  BY <1>1, Invariant, PTL

\* Every cell that is allocated can be reached from lua_thread_head, in the order
\* of release, and lua_thread_tail is the last: releases and takes in any order
\* neither leak nor dangle.
THEOREM ListNeverBreaks == Spec => []ListIsChain
<1>1. IInv => ListIsChain
  BY DEF IInv
<1>. QED
  BY <1>1, Invariant, PTL

\* A thread waits in the list once if no connection owns it, and else not at all.
THEOREM ThreadsListedOnce == Spec => []ListedOnce
<1>1. IInv => ListedOnce
  BY DEF IInv
<1>. QED
  BY <1>1, Invariant, PTL

\* The linked list implements the first-in first-out queue that the rest of the
\* worker (module Connection) is specified with.
THEOREM ListIsQueue == Spec => PoolSpec
<1>1. IInv /\ [Next]_vars => [Pool!Next]_<<PoolOf, made>>
  BY NextStep
<1>. QED
  BY <1>1, InitInvariant, Invariant, PTL DEF Spec, PoolSpec, Pool!Spec, PoolOf

\* However requests end, a global of a thread that __newindex does not leave out
\* is in the list of the thread or of one of its children.
THEOREM GlobalsAreNoted == Spec => []EveryGlobalNoted
<1>1. Init => EveryGlobalNoted
  BY DEF Init, EveryGlobalNoted, Coroutine
<1>2. TypeOK /\ EveryGlobalNoted /\ [Next]_vars => EveryGlobalNoted'
  <2>. SUFFICES ASSUME TypeOK, EveryGlobalNoted, [Next]_vars
                PROVE  EveryGlobalNoted'
    OBVIOUS
  <2>1. /\ env \in [Threads -> SUBSET Names] /\ gk \in [Threads -> [Coroutine -> SUBSET Names]]
    BY DEF TypeOK
  <2>2. CASE UNCHANGED <<env, gk>>
    BY <2>2 DEF EveryGlobalNoted
  <2>3. ASSUME NEW t \in Threads, EndProcess(t)
        PROVE  EveryGlobalNoted'
    <3>1. "self" \in Coroutine /\ "child" \in Coroutine /\ "self" # "child"
      BY DEF Coroutine
    <3>2. /\ \A u \in Threads \ {t} : env'[u] = env[u] /\ gk'[u] = gk[u]
          /\ env'[t] = env[t] \ gk[t]["self"]
          /\ gk'[t]["self"] = {} /\ gk'[t]["child"] = gk[t]["child"]
      BY <2>1, <2>3, <3>1 DEF EndProcess, ReinitLuaThreadEnv
    <3>. QED
      BY <3>2 DEF EveryGlobalNoted
  <2>4. ASSUME NEW t \in Threads, NEW name \in Names, Forget(t, name)
        PROVE  EveryGlobalNoted'
    <3>1. /\ \A u \in Threads \ {t} : env'[u] = env[u]
          /\ env'[t] = env[t] \ {name} /\ gk' = gk
      BY <2>1, <2>4 DEF Forget
    <3>. QED
      BY <3>1 DEF EveryGlobalNoted
  <2>5. ASSUME NEW t \in Threads, NEW name \in Names, NEW who \in Coroutine,
               NewIndex(t, name, who)
        PROVE  EveryGlobalNoted'
    <3>. DEFINE g == IF name \in Unnoted THEN gk[t][who] ELSE gk[t][who] \cup {name}
    <3>1. gk' = [gk EXCEPT ![t][who] = g] /\ env' = [env EXCEPT ![t] = env[t] \cup {name}]
      BY <2>1, <2>5 DEF NewIndex
    <3>2. gk[t][who] \subseteq g /\ (name \notin Unnoted => name \in g)
      OBVIOUS
    <3>. HIDE DEF g
    <3>3. /\ \A u \in Threads \ {t} : env'[u] = env[u] /\ gk'[u] = gk[u]
          /\ env'[t] = env[t] \cup {name}
          /\ gk'[t][who] = g
          /\ \A w \in Coroutine \ {who} : gk'[t][w] = gk[t][w]
      BY <2>1, <2>5, <3>1
    <3>4. who = "self" \/ who = "child"
      BY <2>5 DEF Coroutine
    <3>5. "self" \in Coroutine /\ "child" \in Coroutine
      BY DEF Coroutine
    <3>6. gk[t]["self"] \cup gk[t]["child"] \subseteq gk'[t]["self"] \cup gk'[t]["child"]
      BY <3>2, <3>3, <3>4, <3>5
    <3>7. name \notin Unnoted => name \in gk'[t]["self"] \cup gk'[t]["child"]
      BY <3>2, <3>3, <3>4
    <3>8. env[t] \ Unnoted \subseteq gk[t]["self"] \cup gk[t]["child"]
      BY <2>5 DEF EveryGlobalNoted
    <3>9. env'[t] \ Unnoted \subseteq gk'[t]["self"] \cup gk'[t]["child"]
      BY <3>3, <3>6, <3>7, <3>8
    <3>. QED
      BY <3>3, <3>9 DEF EveryGlobalNoted
  <2>6. ASSUME NEW t \in Threads, NewLuaThread(t) \/ CloseClient(t) \/ StartRequest(t)
        PROVE  UNCHANGED <<env, gk>>
    BY <2>6 DEF NewLuaThread, CloseClient, StartRequest
  <2>. QED
    BY <2>2, <2>3, <2>4, <2>5, <2>6 DEF Next, vars
<1>3. IInv => TypeOK
  BY DEF IInv
<1>. QED
  BY <1>1, <1>2, <1>3, Invariant, PTL DEF Spec

\* The end of a request removes every noted global of its thread, so what is
\* left in it is what was never noted or was noted for a child coroutine.
THEOREM EndOfRequestCleans == Spec => EndLeavesClean
<1>1. ASSUME TypeOK, EveryGlobalNoted, Next, NEW t \in busy, t \in held' \ busy'
      PROVE  env'[t] \subseteq Unnoted \cup gk'[t]["child"]
  <2>1. t \in Threads
    BY <1>1 DEF TypeOK
  <2>2. EndProcess(t)
    <3>1. PICK u \in Threads :
            \/ NewLuaThread(u) \/ CloseClient(u) \/ StartRequest(u) \/ EndProcess(u)
            \/ \E name \in Names :
                 Forget(u, name) \/ \E who \in Coroutine : NewIndex(u, name, who)
      BY <1>1 DEF Next
    <3>2. u = t /\ (CloseClient(u) \/ EndProcess(u))
      BY <1>1, <3>1 DEF NewLuaThread, CloseClient, StartRequest, EndProcess, Forget, NewIndex
    <3>3. ~ CloseClient(t)
      BY <1>1 DEF CloseClient
    <3>. QED
      BY <3>2, <3>3
  <2>3. "self" \in Coroutine /\ "child" \in Coroutine /\ "self" # "child"
    BY DEF Coroutine
  <2>4. env'[t] = env[t] \ gk[t]["self"] /\ gk'[t]["child"] = gk[t]["child"]
    BY <1>1, <2>1, <2>2, <2>3 DEF EndProcess, ReinitLuaThreadEnv, TypeOK
  <2>5. env[t] \ Unnoted \subseteq gk[t]["self"] \cup gk[t]["child"]
    BY <1>1, <2>1 DEF EveryGlobalNoted
  <2>. QED
    BY <2>4, <2>5
<1>2. ASSUME TypeOK, EveryGlobalNoted, [Next]_vars
      PROVE  [\A t \in busy : t \in held' \ busy' =>
                env'[t] \subseteq Unnoted \cup gk'[t]["child"]]_vars
  BY <1>1, <1>2
<1>3. IInv => TypeOK
  BY DEF IInv
<1>. QED
  BY <1>2, <1>3, Invariant, GlobalsAreNoted, PTL DEF Spec, EndLeavesClean

=============================================================================
