--------------------------- MODULE Vhosts_proofs ---------------------------
(***************************************************************************)
(* Theorems about Vhosts, for every set of rules, roots and cells and      *)
(* every sequence of configurations: the list stays whole and in order     *)
(* over all reloads, and answers like the table of VhostTable with the     *)
(* rules that are in it.  Only wildcards that are inserted while '*' is    *)
(* alone are not (Vhosts, EveryRuleAnswers): TableIsLoaded says when that  *)
(* may be.                                                                 *)
(*                                                                         *)
(* As in LuaThreads_proofs the list is followed by order, so that nothing  *)
(* has to be said by recursion along next.                                 *)
(***************************************************************************)
EXTENDS Vhosts, TLAPS

-----------------------------------------------------------------------------
(* The inductive invariant. *)

Cell == [host : Hosts \cup {<<>>}, root : Roots \cup {Default},
         mtype : {-1, 0, 1}, prev : Cells \cup {Null}, next : Cells \cup {Null}]

\* The cells in use that are not in the list o.
Lost(o, mem) == {x \in Cells : mem[x].host # <<>> /\ \A i \in 1..Len(o) : o[i] # x}

\* The cells mem, from h on, are the list o, and only wildcards are lost.
IsList(o, h, mem) ==
  LET n == Len(o)
  IN  /\ o \in Seq(Cells) /\ mem \in [Cells -> Cell]
      /\ h = IF n = 0 THEN Null ELSE o[1]
      /\ \A i \in 1..n : mem[o[i]].next = IF i = n THEN Null ELSE o[i + 1]
      /\ \A i \in 1..n : i # 1 => mem[o[i]].prev = o[i - 1]
      /\ n # 0 => mem[o[1]].prev \in Lost(o, mem) \cup {Null}
      /\ \A i, j \in 1..n : o[i] = o[j] => i = j
      /\ \A i \in 1..n : mem[o[i]].host # <<>>
      /\ \A x \in Lost(o, mem) : IsWild(mem[x].host) /\ mem[x].host # Star

\* Exact names, wildcards, '*', each once.
InOrder(o, mem) ==
  \A i, j \in 1..Len(o) :
    i < j => /\ mem[o[i]].host # mem[o[j]].host /\ mem[o[i]].host # Star
             /\ IsWild(mem[o[i]].host) => IsWild(mem[o[j]].host)

\* A cell that is in use is of the kind its name says.
KindsRight(mem) ==
  \A x \in Cells : mem[x].mtype # -1 => mem[x].host # <<>> /\ mem[x].mtype = Kind(mem[x].host)

\* Of the configuration c the list o has the hosts not in left, and no others: only
\* if it is l, alone when the load began, may a wildcard be missing.
IsLoaded(o, mem, c, left, l) ==
  /\ \A i \in 1..Len(o) : mem[o[i]].mtype # -1 =>
       mem[o[i]].host \in DOMAIN c \ left /\ mem[o[i]].root = c[mem[o[i]].host]
  /\ \A h \in DOMAIN c \ left :
       \/ \E i \in 1..Len(o) : mem[o[i]].host = h /\ mem[o[i]].mtype # -1
       \/ /\ l /\ IsWild(h) /\ h # Star
          /\ \E i \in 1..Len(o) : mem[o[i]].host = Star

\* While a load is under way last_vcf is the end of the list.
LastRight == todo # {} => last = IF order = <<>> THEN Null ELSE order[Len(order)]

\* Without a name but '*' the list is as it was when the load began, or has got '*'.
LoneRight == (\A i \in 1..Len(order) : node[order[i]].host = Star) => lone

\* A walk has passed only cells that do not match.
WalkRight ==
  /\ walk # NoWalk =>
       \/ at = Null /\ \A j \in 1..Len(order) : ~ Matches(order[j])
       \/ \E i \in 1..Len(order) : at = order[i] /\ \A j \in 1..i - 1 : ~ Matches(order[j])
  /\ walk = NoWalk => at = Null

\* What the other variables hold.  A walk is for a host to load, or one asked for.
Others ==
  /\ file \in Files /\ conf \in Table!Configs /\ todo \subseteq DOMAIN conf
  /\ walk # NoWalk =>
       \/ walk = [ask |-> FALSE, host |-> walk.host] /\ walk.host \in todo
       \/ walk = [ask |-> TRUE, host |-> walk.host] /\ walk.host \in Asked /\ todo = {}
  /\ auto \in Nat /\ timer \in BOOLEAN /\ answer \in Roots \cup {Default} /\ edits \in Nat
  /\ last \in Cells \cup {Null} /\ lone \in BOOLEAN

IInv ==
  /\ IsList(order, head, node) /\ InOrder(order, node)
  /\ KindsRight(node) /\ IsLoaded(order, node, conf, todo, lone)
  /\ LastRight /\ LoneRight /\ WalkRight /\ Others

-----------------------------------------------------------------------------
(* A cell is inserted into the list. *)

\* q is o with x inserted before its p-th element.
IsInsert(o, q, x, p) ==
  /\ q \in Seq(Cells) /\ Len(q) = Len(o) + 1 /\ p \in 1..Len(o) + 1
  /\ q[p] = x
  /\ \A i \in 1..Len(o) : IF i < p THEN q[i] = o[i] ELSE q[i + 1] = o[i]

\* The memory m is mem with x in use as new, and the other cells keep what they hold.
Holds(mem, m, x, new) ==
  /\ m \in [Cells -> Cell]
  /\ m[x].host = new.host /\ m[x].root = new.root /\ m[x].mtype = new.mtype
  /\ \A y \in Cells \ {x} : /\ m[y].host = mem[y].host /\ m[y].root = mem[y].root
                            /\ m[y].mtype = mem[y].mtype

\* The links around x are the new ones, and the others as they were.
IsLinked(o, mem, m, x, p) ==
  /\ m[x].next = IF p = Len(o) + 1 THEN Null ELSE o[p]
  /\ m[x].prev = IF p = 1 THEN Null ELSE o[p - 1]
  /\ \A i \in 1..Len(o) :
       /\ m[o[i]].next = IF i = p - 1 THEN x ELSE mem[o[i]].next
       /\ m[o[i]].prev = IF i = p THEN x ELSE mem[o[i]].prev

\* Every place of the longer list is a place of the shorter one, or that of x.
LEMMA InsertPlaces ==
  ASSUME NEW o \in Seq(Cells), NEW q, NEW x, NEW p, IsInsert(o, q, x, p),
         NEW k \in 1..Len(q)
  PROVE  \/ k < p /\ k \in 1..Len(o) /\ q[k] = o[k]
         \/ k = p /\ q[k] = x
         \/ k > p /\ k - 1 \in 1..Len(o) /\ q[k] = o[k - 1]
<1> DEFINE n == Len(o)
<1>1. n \in Nat /\ p \in 1..n + 1 /\ Len(q) = n + 1 /\ q[p] = x
      /\ \A i \in 1..n : IF i < p THEN q[i] = o[i] ELSE q[i + 1] = o[i]
  BY DEF IsInsert
<1> HIDE DEF n
<1>2. CASE k < p
  BY <1>1, <1>2 DEF n
<1>3. CASE k = p
  BY <1>1, <1>3
<1>4. CASE k > p
  <2>1. k - 1 \in 1..n /\ ~ (k - 1 < p) /\ (k - 1) + 1 = k
    BY <1>1, <1>4
  <2> QED  BY <1>1, <1>4, <2>1 DEF n
<1> QED  BY <1>1, <1>2, <1>3, <1>4

LEMMA ListInsert ==
  ASSUME NEW o, NEW h, NEW mem, IsList(o, h, mem),
         NEW q, NEW x \in Cells, NEW p, IsInsert(o, q, x, p), mem[x].host = <<>>,
         NEW m, NEW new, Holds(mem, m, x, new), new.host # <<>>,
         IsLinked(o, mem, m, x, p)
  PROVE  IsList(q, q[1], m)
<1> DEFINE n == Len(o)
<1>1. /\ o \in Seq(Cells) /\ n \in Nat
      /\ \A i \in 1..n : mem[o[i]].next = IF i = n THEN Null ELSE o[i + 1]
      /\ \A i \in 1..n : i # 1 => mem[o[i]].prev = o[i - 1]
      /\ n # 0 => mem[o[1]].prev \in Lost(o, mem) \cup {Null}
      /\ \A i, j \in 1..n : o[i] = o[j] => i = j
      /\ \A i \in 1..n : mem[o[i]].host # <<>>
      /\ \A y \in Lost(o, mem) : IsWild(mem[y].host) /\ mem[y].host # Star
      /\ \A i \in 1..n : o[i] \in Cells
  BY DEF IsList
<1>2. /\ q \in Seq(Cells) /\ Len(q) = n + 1 /\ p \in 1..n + 1 /\ q[p] = x
      /\ \A i \in 1..n : i < p => q[i] = o[i]
      /\ \A i \in 1..n : ~ (i < p) => q[i + 1] = o[i]
  BY DEF IsInsert
<1>3. /\ m[x].next = IF p = n + 1 THEN Null ELSE o[p]
      /\ m[x].prev = IF p = 1 THEN Null ELSE o[p - 1]
      /\ \A i \in 1..n : m[o[i]].next = IF i = p - 1 THEN x ELSE mem[o[i]].next
      /\ \A i \in 1..n : m[o[i]].prev = IF i = p THEN x ELSE mem[o[i]].prev
  BY DEF IsLinked
<1>4. \A i \in 1..n : o[i] # x
  BY <1>1
<1>5. \A k \in 1..n + 1 : \/ k < p /\ k \in 1..n /\ q[k] = o[k]
                          \/ k = p /\ q[k] = x
                          \/ k > p /\ k - 1 \in 1..n /\ q[k] = o[k - 1]
  BY <1>1, <1>2, InsertPlaces
<1> HIDE DEF n
<1>6. \A k \in 1..n + 1 : m[q[k]].next = IF k = n + 1 THEN Null ELSE q[k + 1]
  <2> SUFFICES ASSUME NEW k \in 1..n + 1
               PROVE  m[q[k]].next = IF k = n + 1 THEN Null ELSE q[k + 1]
    OBVIOUS
  <2>1. CASE k < p /\ k \in 1..n /\ q[k] = o[k]
    <3>1. CASE k = p - 1
      BY <1>1, <1>2, <1>3, <2>1, <3>1
    <3>2. CASE k # p - 1
      <4>1. k + 1 \in 1..n /\ k + 1 < p /\ k # n
        BY <1>1, <1>2, <2>1, <3>2
      <4>2. m[q[k]].next = o[k + 1]
        BY <1>1, <1>3, <2>1, <3>2, <4>1
      <4> QED  BY <1>1, <1>2, <4>1, <4>2
    <3> QED  BY <3>1, <3>2
  <2>2. CASE k = p /\ q[k] = x
    <3>1. CASE p = n + 1
      BY <1>3, <2>2, <3>1
    <3>2. CASE p # n + 1
      <4>1. p \in 1..n /\ ~ (p < p)
        BY <1>1, <1>2, <3>2
      <4> QED  BY <1>2, <1>3, <2>2, <3>2, <4>1
    <3> QED  BY <3>1, <3>2
  <2>3. CASE k > p /\ k - 1 \in 1..n /\ q[k] = o[k - 1]
    <3>1. k - 1 # p - 1
      BY <1>2, <2>3
    <3>2. m[q[k]].next = IF k - 1 = n THEN Null ELSE o[(k - 1) + 1]
      BY <1>1, <1>3, <2>3, <3>1
    <3>3. CASE k = n + 1
      BY <1>1, <3>2, <3>3
    <3>4. CASE k # n + 1
      <4>1. k \in 1..n /\ ~ (k < p) /\ (k - 1) + 1 = k /\ k - 1 # n
        BY <1>1, <1>2, <2>3, <3>4
      <4> QED  BY <1>2, <3>2, <3>4, <4>1
    <3> QED  BY <3>3, <3>4
  <2> QED  BY <1>5, <2>1, <2>2, <2>3
<1>7. \A k \in 1..n + 1 : k # 1 => m[q[k]].prev = q[k - 1]
  <2> SUFFICES ASSUME NEW k \in 1..n + 1, k # 1
               PROVE  m[q[k]].prev = q[k - 1]
    OBVIOUS
  <2>1. CASE k < p /\ k \in 1..n /\ q[k] = o[k]
    <3>1. m[q[k]].prev = o[k - 1]
      BY <1>1, <1>2, <1>3, <2>1
    <3>2. k - 1 \in 1..n /\ k - 1 < p
      BY <1>1, <1>2, <2>1
    <3> QED  BY <1>2, <3>1, <3>2
  <2>2. CASE k = p /\ q[k] = x
    <3>1. p - 1 \in 1..n /\ p - 1 < p
      BY <1>1, <1>2, <2>2
    <3> QED  BY <1>2, <1>3, <2>2, <3>1
  <2>3. CASE k > p /\ k - 1 \in 1..n /\ q[k] = o[k - 1]
    <3>1. CASE k - 1 = p
      BY <1>2, <1>3, <2>3, <3>1
    <3>2. CASE k - 1 # p
      <4>1. k - 2 \in 1..n /\ ~ (k - 2 < p) /\ (k - 2) + 1 = k - 1 /\ k - 1 # 1 /\ k # 1
            /\ (k - 1) - 1 = k - 2
        BY <1>1, <1>2, <2>3, <3>2
      <4>2. m[q[k]].prev = o[(k - 1) - 1]
        BY <1>1, <1>3, <2>3, <3>2, <4>1
      <4>3. q[(k - 2) + 1] = o[k - 2]
        BY <1>2, <4>1
      <4> QED  BY <4>1, <4>2, <4>3
    <3> QED  BY <3>1, <3>2
  <2> QED  BY <1>5, <2>1, <2>2, <2>3
<1>8. \A k, l \in 1..n + 1 : q[k] = q[l] => k = l
  <2> SUFFICES ASSUME NEW k \in 1..n + 1, NEW l \in 1..n + 1, q[k] = q[l]
               PROVE  k = l
    OBVIOUS
  <2>1. CASE q[k] = x
    BY <1>4, <1>5, <2>1
  <2>2. CASE q[k] # x
    <3>1. \/ k < p /\ k \in 1..n /\ q[k] = o[k]
          \/ k > p /\ k - 1 \in 1..n /\ q[k] = o[k - 1]
      BY <1>5, <2>2
    <3>2. \/ l < p /\ l \in 1..n /\ q[l] = o[l]
          \/ l > p /\ l - 1 \in 1..n /\ q[l] = o[l - 1]
      BY <1>5, <2>2
    <3>3. CASE k < p /\ l < p
      BY <1>1, <3>1, <3>2, <3>3, <1>2
    <3>4. CASE k > p /\ l > p
      <4>1. k - 1 = l - 1
        BY <1>1, <1>2, <3>1, <3>2, <3>4
      <4> QED  BY <4>1
    <3>5. CASE k < p /\ l > p
      <4>1. k = l - 1
        BY <1>1, <1>2, <3>1, <3>2, <3>5
      <4> QED  BY <1>2, <3>5, <4>1
    <3>6. CASE k > p /\ l < p
      <4>1. k - 1 = l
        BY <1>1, <1>2, <3>1, <3>2, <3>6
      <4> QED  BY <1>2, <3>6, <4>1
    <3> QED  BY <3>1, <3>2, <3>3, <3>4, <3>5, <3>6
  <2> QED  BY <2>1, <2>2
<1>9. Lost(q, m) = Lost(o, mem) /\ \A y \in Lost(o, mem) : m[y].host = mem[y].host
  <2>1. m[x].host # <<>> /\ \A y \in Cells \ {x} : m[y].host = mem[y].host
    BY DEF Holds
  <2>2. \A k \in 1..n + 1 : q[k] = x \/ \E i \in 1..n : q[k] = o[i]
    BY <1>5
  <2>3. \A i \in 1..n : \E k \in 1..n + 1 : q[k] = o[i]
    <3> SUFFICES ASSUME NEW i \in 1..n
                 PROVE  \E k \in 1..n + 1 : q[k] = o[i]
      OBVIOUS
    <3>1. i \in 1..n + 1 /\ i + 1 \in 1..n + 1
      BY <1>1
    <3> QED  BY <1>2, <3>1
  <2>4. \A y \in Cells : (\A k \in 1..n + 1 : q[k] # y)
                        <=> y # x /\ \A i \in 1..n : o[i] # y
    <3>1. p \in 1..n + 1 /\ q[p] = x
      BY <1>2
    <3> QED  BY <2>2, <2>3, <3>1
  <2>5. \A y \in Cells : y \in Lost(q, m) <=> y \in Lost(o, mem)
    BY <1>2, <2>1, <2>4 DEF Lost, n
  <2>6. x \notin Lost(o, mem) /\ Lost(o, mem) \subseteq Cells /\ Lost(q, m) \subseteq Cells
    BY DEF Lost
  <2> QED  BY <2>1, <2>5, <2>6
<1>10. m \in [Cells -> Cell]
  BY DEF Holds
<1>11. m[q[1]].prev \in Lost(q, m) \cup {Null}
  <2>1. CASE p = 1
    BY <1>2, <1>3, <2>1
  <2>2. CASE p # 1
    <3>1. 1 < p /\ 1 \in 1..n /\ n # 0
      BY <1>1, <1>2, <2>2
    <3>2. q[1] = o[1] /\ m[o[1]].prev = mem[o[1]].prev
      BY <1>2, <1>3, <2>2, <3>1
    <3> QED  BY <1>1, <1>9, <3>1, <3>2
  <2> QED  BY <2>1, <2>2
<1>12. \A k \in 1..n + 1 : m[q[k]].host # <<>>
  <2>1. m[x].host # <<>> /\ \A y \in Cells \ {x} : m[y].host = mem[y].host
    BY DEF Holds
  <2>2. \A i \in 1..n : m[o[i]].host # <<>>
    BY <1>1, <1>4, <2>1
  <2> QED  BY <1>5, <2>1, <2>2
<1>13. \A y \in Lost(q, m) : IsWild(m[y].host) /\ m[y].host # Star
  BY <1>1, <1>9
<1>14. q[1] = (IF n + 1 = 0 THEN Null ELSE q[1]) /\ n + 1 # 0
  BY <1>1
<1> QED
  BY <1>2, <1>6, <1>7, <1>8, <1>10, <1>11, <1>12, <1>13, <1>14 DEF IsList

\* The longer list is in order if the new name has its place among the others.
LEMMA OrderInsert ==
  ASSUME NEW o \in Seq(Cells), NEW mem, InOrder(o, mem),
         NEW q, NEW x \in Cells, NEW p, IsInsert(o, q, x, p),
         NEW m, NEW new, Holds(mem, m, x, new),
         \A i \in 1..Len(o) : o[i] # x /\ mem[o[i]].host # new.host,
         \A i \in 1..Len(o) : i < p =>
           mem[o[i]].host # Star /\ (IsWild(mem[o[i]].host) => IsWild(new.host)),
         \A i \in 1..Len(o) : ~ (i < p) =>
           new.host # Star /\ (IsWild(new.host) => IsWild(mem[o[i]].host))
  PROVE  InOrder(q, m)
<1> SUFFICES ASSUME NEW k \in 1..Len(q), NEW l \in 1..Len(q), k < l
             PROVE  /\ m[q[k]].host # m[q[l]].host /\ m[q[k]].host # Star
                    /\ IsWild(m[q[k]].host) => IsWild(m[q[l]].host)
  BY DEF InOrder
<1>1. /\ m[x].host = new.host
      /\ \A i \in 1..Len(o) : m[o[i]].host = mem[o[i]].host
  BY DEF Holds
<1>2. \A i, j \in 1..Len(o) :
        i < j => /\ mem[o[i]].host # mem[o[j]].host /\ mem[o[i]].host # Star
                 /\ IsWild(mem[o[i]].host) => IsWild(mem[o[j]].host)
  BY DEF InOrder
<1>3. /\ Len(o) \in Nat /\ p \in Nat /\ k \in Nat /\ l \in Nat
      /\ \/ k < p /\ k \in 1..Len(o) /\ q[k] = o[k]
         \/ k = p /\ q[k] = x
         \/ k > p /\ k - 1 \in 1..Len(o) /\ q[k] = o[k - 1]
      /\ \/ l < p /\ l \in 1..Len(o) /\ q[l] = o[l]
         \/ l = p /\ q[l] = x
         \/ l > p /\ l - 1 \in 1..Len(o) /\ q[l] = o[l - 1]
  <2>1. p \in Nat /\ Len(q) \in Nat
    BY DEF IsInsert
  <2> QED  BY <2>1, InsertPlaces
<1>4. CASE k < p /\ l < p
  BY <1>1, <1>2, <1>3, <1>4
<1>5. CASE k < p /\ l = p
  BY <1>1, <1>3, <1>5
<1>6. CASE k < p /\ l > p
  <2>1. k < l - 1
    BY <1>3, <1>6
  <2> QED  BY <1>1, <1>2, <1>3, <1>6, <2>1
<1>7. CASE k = p
  <2>1. l > p /\ ~ (l - 1 < p)
    BY <1>3, <1>7
  <2> QED  BY <1>1, <1>3, <1>7, <2>1
<1>8. CASE k > p
  <2>1. l > p /\ k - 1 < l - 1
    BY <1>3, <1>8
  <2> QED  BY <1>1, <1>2, <1>3, <1>8, <2>1
<1> QED  BY <1>3, <1>4, <1>5, <1>6, <1>7, <1>8

LEMMA KindType ==
  ASSUME NEW g
  PROVE  Kind(g) \in {0, 1} /\ Kind(g) # -1
  BY DEF Kind

\* The new cell is one more host of the configuration.
LEMMA LoadedInsert ==
  ASSUME NEW o \in Seq(Cells), NEW mem, NEW c, NEW left, NEW l,
         IsLoaded(o, mem, c, left, l), KindsRight(mem),
         NEW m, NEW x \in Cells, NEW new, Holds(mem, m, x, new), mem[x].host = <<>>,
         \A i \in 1..Len(o) : o[i] # x,
         NEW q, NEW p, IsInsert(o, q, x, p),
         new.host \in left, left \subseteq DOMAIN c, new.host # <<>>,
         new.mtype = Kind(new.host), new.root = c[new.host]
  PROVE  IsLoaded(q, m, c, left \ {new.host}, l) /\ KindsRight(m)
<1> DEFINE g == new.host
<1>1. /\ m[x].host = g /\ m[x].root = c[g] /\ m[x].mtype = Kind(g) /\ Kind(g) # -1
      /\ \A y \in Cells \ {x} : /\ m[y].host = mem[y].host /\ m[y].root = mem[y].root
                                /\ m[y].mtype = mem[y].mtype
  BY KindType DEF Holds
<1>2. \A i \in 1..Len(o) : /\ m[o[i]].host = mem[o[i]].host /\ m[o[i]].root = mem[o[i]].root
                           /\ m[o[i]].mtype = mem[o[i]].mtype
  BY <1>1
<1>3. \A k \in 1..Len(q) : q[k] = x \/ \E i \in 1..Len(o) : q[k] = o[i]
  BY InsertPlaces
<1>4. \A i \in 1..Len(o) : \E k \in 1..Len(q) : q[k] = o[i]
  <2> SUFFICES ASSUME NEW i \in 1..Len(o)
               PROVE  \E k \in 1..Len(q) : q[k] = o[i]
    OBVIOUS
  <2>1. /\ Len(q) = Len(o) + 1
        /\ IF i < p THEN q[i] = o[i] ELSE q[i + 1] = o[i]
    BY DEF IsInsert
  <2>2. i \in 1..Len(q) /\ i + 1 \in 1..Len(q)
    BY <2>1
  <2> QED  BY <2>1, <2>2
<1>5. \E k \in 1..Len(q) : q[k] = x
  BY DEF IsInsert
<1>6. \A k \in 1..Len(q) : m[q[k]].mtype # -1 =>
        m[q[k]].host \in DOMAIN c \ (left \ {g}) /\ m[q[k]].root = c[m[q[k]].host]
  <2> SUFFICES ASSUME NEW k \in 1..Len(q), m[q[k]].mtype # -1
               PROVE  m[q[k]].host \in DOMAIN c \ (left \ {g})
                      /\ m[q[k]].root = c[m[q[k]].host]
    OBVIOUS
  <2>1. CASE q[k] = x
    BY <1>1, <2>1
  <2>2. CASE q[k] # x
    <3>1. PICK i \in 1..Len(o) : q[k] = o[i]
      BY <1>3, <2>2
    <3> QED  BY <1>2, <3>1 DEF IsLoaded
  <2> QED  BY <2>1, <2>2
<1>7. \A h \in DOMAIN c \ (left \ {g}) :
        \/ \E k \in 1..Len(q) : m[q[k]].host = h /\ m[q[k]].mtype # -1
        \/ l /\ IsWild(h) /\ h # Star /\ \E k \in 1..Len(q) : m[q[k]].host = Star
  <2> SUFFICES ASSUME NEW h \in DOMAIN c \ (left \ {g})
               PROVE  \/ \E k \in 1..Len(q) : m[q[k]].host = h /\ m[q[k]].mtype # -1
                      \/ /\ l /\ IsWild(h) /\ h # Star
                         /\ \E k \in 1..Len(q) : m[q[k]].host = Star
    OBVIOUS
  <2>1. CASE h = g
    BY <1>1, <1>5, <2>1
  <2>2. CASE h # g
    <3>1. h \in DOMAIN c \ left
      BY <2>2
    <3>2. CASE \E i \in 1..Len(o) : mem[o[i]].host = h /\ mem[o[i]].mtype # -1
      BY <1>2, <1>4, <3>2
    <3>3. CASE l /\ IsWild(h) /\ h # Star /\ \E i \in 1..Len(o) : mem[o[i]].host = Star
      BY <1>2, <1>4, <3>3
    <3> QED  BY <3>1, <3>2, <3>3 DEF IsLoaded
  <2> QED  BY <2>1, <2>2
<1>8. KindsRight(m)
  BY <1>1 DEF KindsRight
<1> QED  BY <1>6, <1>7, <1>8 DEF IsLoaded

\* What the assumptions say of names.
LEMMA NameFacts ==
  /\ Star # <<>> /\ IsWild(Star) /\ Len(Star) = 1
  /\ \A h \in Hosts : h # <<>> /\ (Len(h) > 1 \/ h = Star) /\ h \in Seq(STRING)
  /\ \A h \in Asked : h # <<>> /\ ~ IsWild(h)
<1>1. Star = <<"*">> /\ \A h : IsWild(h) <=> h[1] = "*"
  BY DEF Star, IsWild, Table!Star, Table!IsWild
<1>2. <<"*">>[1] = "*" /\ Len(<<"*">>) = 1 /\ <<"*">> # <<>> /\ Len(<<>>) = 0
  OBVIOUS
<1>3. \A h \in Hosts : h # <<>> /\ (Len(h) > 1 \/ h = Star) /\ h \in Seq(STRING)
  <2> SUFFICES ASSUME NEW h \in Hosts
               PROVE  h # <<>> /\ (Len(h) > 1 \/ h = Star) /\ h \in Seq(STRING)
    OBVIOUS
  <2>1. h \in Seq(STRING) /\ Len(h) > 0 /\ (Len(h) = 1 => h = Star)
    BY HostsAssumption
  <2>2. Len(h) \in Nat /\ \A n \in Nat : n > 0 => n = 1 \/ n > 1
    BY <2>1
  <2>3. h # <<>>
    BY <1>2, <2>1
  <2>4. Len(h) = 1 \/ Len(h) > 1
    BY <2>1, <2>2, Zenon
  <2> QED  BY <2>1, <2>3, <2>4, Zenon
<1>4. \A h \in Asked : h # <<>> /\ ~ IsWild(h)
  BY <1>2, AskedAssumption
<1> QED  BY <1>1, <1>2, <1>3, <1>4

-----------------------------------------------------------------------------
(* The steps of a load. *)

\* What the invariant says of the list as a sequence.
LEMMA ListFacts ==
  ASSUME IInv
  PROVE  /\ order \in Seq(Cells) /\ Len(order) \in Nat /\ node \in [Cells -> Cell]
         /\ \A i \in 1..Len(order) : order[i] \in Cells /\ node[order[i]].host \in Hosts
         /\ \A x \in Cells : node[x].host \in Hosts \cup {<<>>}
         /\ \A i, j \in 1..Len(order) : order[i] = order[j] => i = j
         /\ \A i \in 1..Len(order) : order[i] # Null
<1>1. /\ order \in Seq(Cells) /\ node \in [Cells -> Cell]
      /\ \A i \in 1..Len(order) : node[order[i]].host # <<>>
      /\ \A i, j \in 1..Len(order) : order[i] = order[j] => i = j
  BY DEF IInv, IsList
<1>2. \A x \in Cells : node[x].host \in Hosts \cup {<<>>}
  BY <1>1 DEF Cell
<1>3. \A i \in 1..Len(order) : order[i] \in Cells /\ node[order[i]].host # <<>>
  BY <1>1
<1>4. \A i \in 1..Len(order) : order[i] # Null
  BY <1>3, CellsAssumption
<1>5. Len(order) \in Nat
  BY <1>1
<1> QED  BY <1>1, <1>2, <1>3, <1>4, <1>5

\* A load that has come to the end of the list has found no cell of that name.
LEMMA NotListed ==
  ASSUME IInv, walk # NoWalk, ~ walk.ask, at = Null
  PROVE  /\ \A i \in 1..Len(order) : node[order[i]].host # walk.host
         /\ walk.host \in todo /\ walk.host \in Hosts /\ todo \subseteq DOMAIN conf
         /\ conf[walk.host] \in Roots
<1>1. \A i \in 1..Len(order) : ~ Matches(order[i])
  <2>1. \/ at = Null /\ \A j \in 1..Len(order) : ~ Matches(order[j])
        \/ \E i \in 1..Len(order) : at = order[i]
    BY DEF IInv, WalkRight
  <2> QED  BY <2>1, ListFacts
<1>2. \A i \in 1..Len(order) : node[order[i]].host # walk.host
  BY <1>1 DEF Matches
<1>3. walk.host \in todo
  BY DEF IInv, Others
<1>4. conf \in Table!Configs /\ todo \subseteq DOMAIN conf
  BY DEF IInv, Others
<1>5. PICK S \in SUBSET Hosts : conf \in [S -> Roots]
  BY <1>4 DEF Table!Configs
<1> QED  BY <1>2, <1>3, <1>4, <1>5

\* A cell that is inserted at a place its name may have leaves all in order.
LEMMA InsertKeeps ==
  ASSUME IInv, walk # NoWalk, ~ walk.ask, at = Null, EndEntry,
         NEW x \in Cells, node[x].host = <<>>,
         NEW p, IsInsert(order, order', x, p),
         NEW new, new.host = walk.host, new.root = conf[walk.host],
         new.mtype = Kind(walk.host),
         Holds(node, node', x, new), IsLinked(order, node, node', x, p),
         head' = order'[1], last' = order'[Len(order')],
         \A i \in 1..Len(order) : i < p =>
           node[order[i]].host # Star /\ (IsWild(node[order[i]].host) => IsWild(walk.host)),
         \A i \in 1..Len(order) : ~ (i < p) =>
           walk.host # Star /\ (IsWild(walk.host) => IsWild(node[order[i]].host))
  PROVE  IInv'
<1> DEFINE g == walk.host
<1>1. /\ \A i \in 1..Len(order) : node[order[i]].host # g
      /\ g \in todo /\ g \in Hosts /\ g # <<>> /\ todo \subseteq DOMAIN conf
  BY NotListed, NameFacts
<1>2. /\ todo' = todo \ {g} /\ walk' = NoWalk /\ at' = Null
      /\ UNCHANGED <<file, auto, timer, conf, answer, edits, lone>>
  BY DEF EndEntry
<1>3. IsList(order', head', node')
  BY <1>1, ListInsert DEF IInv
<1>4. InOrder(order', node')
  <2>1. \A i \in 1..Len(order) : order[i] # x
    BY ListFacts, <1>1, NameFacts
  <2>2. order \in Seq(Cells) /\ InOrder(order, node)
    BY ListFacts DEF IInv
  <2> QED  BY <1>1, <2>1, <2>2, OrderInsert
<1>5. IsLoaded(order', node', conf', todo', lone') /\ KindsRight(node')
  <2>1. IsLoaded(order, node, conf, todo, lone) /\ KindsRight(node)
    BY DEF IInv
  <2>2. \A i \in 1..Len(order) : order[i] # x
    BY ListFacts, <1>1, NameFacts
  <2>3. /\ new.host \in todo /\ todo \subseteq DOMAIN conf /\ new.host # <<>>
        /\ new.mtype = Kind(new.host) /\ new.root = conf[new.host]
        /\ order \in Seq(Cells)
    BY <1>1, ListFacts
  <2>4. /\ IsLoaded(order', node', conf, todo \ {new.host}, lone) /\ KindsRight(node')
    BY <2>1, <2>2, <2>3, LoadedInsert
  <2> QED  BY <1>2, <2>4
<1>6. order' # <<>> /\ Len(order') = Len(order) + 1 /\ order' \in Seq(Cells)
      /\ last' \in Cells
  <2>1. /\ order' \in Seq(Cells) /\ Len(order') = Len(order) + 1 /\ Len(order) \in Nat
    BY ListFacts DEF IsInsert
  <2>2. order' # <<>> /\ Len(order') \in 1..Len(order')
    BY <2>1
  <2>3. order'[Len(order')] \in Cells
    BY <2>1, <2>2
  <2> QED  BY <2>1, <2>2, <2>3
<1>7. LastRight'
  BY <1>6 DEF LastRight
<1>8. LoneRight'
  <2> SUFFICES ASSUME \A k \in 1..Len(order') : node'[order'[k]].host = Star,
                      NEW i \in 1..Len(order)
               PROVE  node[order[i]].host = Star
    BY <1>2 DEF IInv, LoneRight
  <2>1. IF i < p THEN order'[i] = order[i] ELSE order'[i + 1] = order[i]
    BY DEF IsInsert
  <2>2. i \in 1..Len(order') /\ i + 1 \in 1..Len(order')
    BY <1>6, ListFacts
  <2>3. order[i] \in Cells \ {x}
    BY ListFacts, NameFacts
  <2> QED  BY <2>1, <2>2, <2>3 DEF Holds
<1>9. WalkRight'
  BY <1>2 DEF WalkRight
<1>10. Others'
  BY <1>1, <1>2, <1>6 DEF IInv, Others
<1> QED  BY <1>3, <1>4, <1>5, <1>7, <1>8, <1>9, <1>10 DEF IInv

\* The cell malloc returned, filled in.
New == [Free EXCEPT !.host = walk.host, !.root = conf[walk.host], !.mtype = Kind(walk.host)]

LEMMA NewFacts ==
  ASSUME IInv, walk # NoWalk, ~ walk.ask, at = Null
  PROVE  /\ New \in Cell /\ New.host = walk.host /\ New.root = conf[walk.host]
         /\ New.mtype = Kind(walk.host) /\ New.prev = Null /\ New.next = Null
<1>1. walk.host \in Hosts /\ conf[walk.host] \in Roots /\ Kind(walk.host) \in {0, 1}
  BY NotListed, KindType
<1> QED  BY <1>1 DEF New, Free, Cell

\* The end of the list while a load is under way.
LEMMA LastFacts ==
  ASSUME IInv, walk # NoWalk, ~ walk.ask, at = Null, head # Null
  PROVE  /\ Len(order) \in 1..Len(order) /\ Len(order) >= 1 /\ 1 \in 1..Len(order)
         /\ head = order[1] /\ last = order[Len(order)]
         /\ \A i \in 1..Len(order) : i < Len(order) => node[order[i]].host # Star
<1>1. head = (IF Len(order) = 0 THEN Null ELSE order[1]) /\ Len(order) \in Nat
  BY ListFacts DEF IInv, IsList
<1>2. Len(order) >= 1 /\ head = order[1]
  BY <1>1
<1>3. last = order[Len(order)]
  <2>1. todo # {} /\ order # <<>>
    BY <1>2, NotListed
  <2> QED  BY <2>1 DEF IInv, LastRight
<1>4. \A i \in 1..Len(order) : i < Len(order) => node[order[i]].host # Star
  <2>1. Len(order) \in 1..Len(order)
    BY <1>1, <1>2
  <2> QED  BY <2>1 DEF IInv, InOrder
<1> QED  BY <1>1, <1>2, <1>3, <1>4

LEMMA AddFirstKeeps ==
  ASSUME IInv, walk # NoWalk, ~ walk.ask, at = Null, EndEntry,
         NEW x \in Cells, node[x].host = <<>>, head = Null, AddFirst(x, New)
  PROVE  IInv'
<1>1. order = <<>> /\ Len(order) = 0
  <2>1. Len(order) = 0
    <3>1. head = (IF Len(order) = 0 THEN Null ELSE order[1]) /\ Len(order) \in Nat
      BY ListFacts DEF IInv, IsList
    <3>2. Len(order) # 0 => 1 \in 1..Len(order)
      BY <3>1
    <3> QED  BY <3>1, <3>2, ListFacts
  <2> QED  BY <2>1, ListFacts
<1>2. node' = [node EXCEPT ![x] = New] /\ head' = x /\ last' = x /\ order' = <<x>>
  BY DEF AddFirst
<1>3. IsInsert(order, order', x, 1) /\ order'[1] = x /\ Len(order') = 1
  BY <1>1, <1>2 DEF IsInsert
<1>4. Holds(node, node', x, New)
  BY <1>2, NewFacts, ListFacts DEF Holds
<1>5. IsLinked(order, node, node', x, 1)
  <2>1. node'[x] = New
    BY <1>2, ListFacts
  <2> QED  BY <1>1, <2>1, NewFacts DEF IsLinked
<1>6. head' = order'[1] /\ last' = order'[Len(order')]
  BY <1>2, <1>3
<1>7. 1..Len(order) = {}
  BY <1>1
<1> QED  BY <1>3, <1>4, <1>5, <1>6, <1>7, NewFacts, InsertKeeps

LEMMA AddHeadKeeps ==
  ASSUME IInv, walk # NoWalk, ~ walk.ask, at = Null, EndEntry,
         NEW x \in Cells, node[x].host = <<>>, head # Null, ~ IsWild(walk.host),
         AddHead(x, New)
  PROVE  IInv'
<1> DEFINE n == Len(order)
<1>1. /\ node' = [node EXCEPT ![x] = [New EXCEPT !.next = head], ![head].prev = x]
      /\ head' = x /\ order' = <<x>> \o order /\ last' = last
  BY DEF AddHead
<1>2. /\ n \in Nat /\ n >= 1 /\ n \in 1..n /\ 1 \in 1..n
      /\ head = order[1] /\ last = order[n]
      /\ order \in Seq(Cells) /\ node \in [Cells -> Cell]
      /\ \A i \in 1..n : order[i] \in Cells /\ order[i] # x
      /\ \A i, j \in 1..n : order[i] = order[j] => i = j
  BY ListFacts, LastFacts, NameFacts
<1>3. /\ order' \in Seq(Cells) /\ Len(order') = n + 1 /\ order'[1] = x
      /\ \A i \in 1..n : order'[i + 1] = order[i]
  BY <1>1, <1>2
<1>4. IsInsert(order, order', x, 1)
  BY <1>2, <1>3 DEF IsInsert
<1>5. /\ node' \in [Cells -> Cell]
      /\ node'[x].host = New.host /\ node'[x].root = New.root /\ node'[x].mtype = New.mtype
      /\ node'[x].next = head /\ node'[x].prev = Null
      /\ \A y \in Cells \ {x} :
           /\ node'[y].host = node[y].host /\ node'[y].root = node[y].root
           /\ node'[y].mtype = node[y].mtype /\ node'[y].next = node[y].next
           /\ node'[y].prev = IF y = head THEN x ELSE node[y].prev
  BY <1>1, <1>2, NewFacts DEF Cell
<1>6. Holds(node, node', x, New)
  BY <1>5 DEF Holds
<1>7. IsLinked(order, node, node', x, 1)
  <2>1. \A i \in 1..n : order[i] = head <=> i = 1
    BY <1>2
  <2> HIDE DEF n
  <2>2. \A i \in 1..n : i # 1 - 1
    BY <1>2
  <2>3. 1 # n + 1
    BY <1>2
  <2> QED  BY <1>2, <1>5, <2>1, <2>2, <2>3 DEF IsLinked, n
<1>8. head' = order'[1] /\ last' = order'[Len(order')]
  BY <1>1, <1>2, <1>3
<1>9. walk.host # Star /\ \A i \in 1..n : ~ (i < 1)
  BY NameFacts
<1> QED  BY <1>4, <1>6, <1>7, <1>8, <1>9, NewFacts, InsertKeeps

LEMMA AddTailKeeps ==
  ASSUME IInv, walk # NoWalk, ~ walk.ask, at = Null, EndEntry,
         NEW x \in Cells, node[x].host = <<>>, head # Null, IsWild(walk.host),
         Len(node[last].host) > 1, AddTail(x, New)
  PROVE  IInv'
<1> DEFINE n == Len(order)
<1>1. /\ node' = [node EXCEPT ![x] = [New EXCEPT !.prev = last], ![last].next = x]
      /\ last' = x /\ order' = Append(order, x) /\ head' = head
  BY DEF AddTail
<1>2. /\ n \in Nat /\ n >= 1 /\ n \in 1..n /\ 1 \in 1..n
      /\ head = order[1] /\ last = order[n]
      /\ order \in Seq(Cells) /\ node \in [Cells -> Cell]
      /\ \A i \in 1..n : order[i] \in Cells /\ order[i] # x
      /\ \A i, j \in 1..n : order[i] = order[j] => i = j
      /\ \A i \in 1..n : i < n => node[order[i]].host # Star
  BY ListFacts, LastFacts, NameFacts
<1>3. /\ order' \in Seq(Cells) /\ Len(order') = n + 1 /\ order'[n + 1] = x
      /\ \A i \in 1..n : order'[i] = order[i]
  BY <1>1, <1>2
<1>4. IsInsert(order, order', x, n + 1)
  <2> HIDE DEF n
  <2>1. n + 1 \in 1..n + 1 /\ \A i \in 1..n : i < n + 1
    BY <1>2
  <2> QED  BY <1>2, <1>3, <2>1 DEF IsInsert, n
<1>5. /\ node' \in [Cells -> Cell]
      /\ node'[x].host = New.host /\ node'[x].root = New.root /\ node'[x].mtype = New.mtype
      /\ node'[x].next = Null /\ node'[x].prev = last
      /\ \A y \in Cells \ {x} :
           /\ node'[y].host = node[y].host /\ node'[y].root = node[y].root
           /\ node'[y].mtype = node[y].mtype /\ node'[y].prev = node[y].prev
           /\ node'[y].next = IF y = last THEN x ELSE node[y].next
  BY <1>1, <1>2, NewFacts DEF Cell
<1>6. Holds(node, node', x, New)
  BY <1>5 DEF Holds
<1>7. IsLinked(order, node, node', x, n + 1)
  <2> HIDE DEF n
  <2>1. \A i \in 1..n : order[i] = last <=> i = n
    BY <1>2
  <2>2. \A i \in 1..n : i # n + 1
    BY <1>2
  <2>3. n + 1 # 1 /\ (n + 1) - 1 = n
    BY <1>2
  <2>4. \A i \in 1..n : order[i] \in Cells \ {x}
    BY <1>2
  <2>5. \A i \in 1..n : node'[order[i]].next = IF i = n THEN x ELSE node[order[i]].next
    BY <1>5, <2>1, <2>4
  <2>6. \A i \in 1..n : node'[order[i]].prev = IF i = n + 1 THEN x ELSE node[order[i]].prev
    BY <1>5, <2>2, <2>4
  <2>7. node'[x].next = Null /\ node'[x].prev = order[(n + 1) - 1]
    BY <1>2, <1>5, <2>3
  <2> QED  BY <2>3, <2>5, <2>6, <2>7 DEF IsLinked, n
<1>8. head' = order'[1] /\ last' = order'[Len(order')]
  BY <1>1, <1>2, <1>3
<1>9. \A i \in 1..n : node[order[i]].host # Star
  <2>1. node[order[n]].host # Star
    <3>1. ~ (Len(Star) > 1)
      BY NameFacts
    <3> QED  BY <1>2, <3>1, Zenon
  <2> HIDE DEF n
  <2>2. \A i \in 1..n : i < n \/ i = n
    BY <1>2
  <2> QED  BY <1>2, <2>1, <2>2
<1>10. \A i \in 1..n : i < n + 1
  BY <1>2
<1> QED  BY <1>4, <1>6, <1>7, <1>8, <1>9, <1>10, NewFacts, InsertKeeps

\* Before the last cell, which is '*' and not alone.
LEMMA AddBeforeLastKeeps ==
  ASSUME IInv, walk # NoWalk, ~ walk.ask, at = Null, EndEntry,
         NEW x \in Cells, node[x].host = <<>>, head # Null, IsWild(walk.host),
         ~ (Len(node[last].host) > 1), last # head, AddBeforeLast(x, New)
  PROVE  IInv'
<1> DEFINE n == Len(order)
           p == node[last].prev
<1>1. /\ n \in Nat /\ n >= 1 /\ n \in 1..n
      /\ head = order[1] /\ last = order[n]
      /\ order \in Seq(Cells) /\ node \in [Cells -> Cell]
      /\ \A i \in 1..n : order[i] \in Cells /\ order[i] # x /\ order[i] # Null
      /\ \A i, j \in 1..n : order[i] = order[j] => i = j
      /\ \A i \in 1..n : i < n => node[order[i]].host # Star
  BY ListFacts, LastFacts, NameFacts
<1>2. node[last].host = Star
  BY <1>1, ListFacts, NameFacts
<1>3. n # 1
  BY <1>1
<1>4. /\ n - 1 \in 1..n /\ n - 1 # n /\ p = order[n - 1] /\ p \in Cells /\ p # Null
      /\ p # x /\ p # last /\ last # x /\ last \in Cells
  <2>1. n - 1 \in 1..n /\ n - 1 # n
    <3> HIDE DEF n, p
    <3> QED  BY <1>1, <1>3
  <2>2. \A i \in 1..n : i # 1 => node[order[i]].prev = order[i - 1]
    BY DEF IInv, IsList
  <2>3. p = order[n - 1]
    BY <1>1, <1>3, <2>2
  <2> HIDE DEF p, n
  <2> QED  BY <1>1, <2>1, <2>3
<1>5. /\ node' = [y \in Cells |->
                    CASE y = x    -> [New EXCEPT !.prev = p, !.next = last]
                      [] y = last -> [node[y] EXCEPT !.prev = x]
                      [] y = p /\ y # x /\ y # last -> [node[y] EXCEPT !.next = x]
                      [] OTHER    -> node[y]]
      /\ order' = SubSeq(order, 1, n - 1) \o <<x, last>>
      /\ head' = head /\ last' = last
  BY <1>4 DEF AddBeforeLast
<1>6. /\ order' \in Seq(Cells) /\ Len(order') = n + 1
      /\ order'[n] = x /\ order'[n + 1] = last
      /\ \A i \in 1..n - 1 : order'[i] = order[i]
  <2> DEFINE a == SubSeq(order, 1, n - 1)
             b == <<x, last>>
  <2>1. a \in Seq(Cells) /\ Len(a) = n - 1 /\ \A i \in 1..n - 1 : a[i] = order[i]
    BY <1>1, <1>4
  <2>2. b \in Seq(Cells) /\ Len(b) = 2 /\ b[1] = x /\ b[2] = last
    BY <1>4
  <2> HIDE DEF a, b, n
  <2>3. order' = a \o b
    BY <1>5 DEF a, b
  <2>4. /\ order' \in Seq(Cells) /\ Len(order') = (n - 1) + 2
        /\ \A i \in 1..n - 1 : order'[i] = a[i]
        /\ \A i \in 1..2 : order'[(n - 1) + i] = b[i]
    <3>1. /\ a \o b \in Seq(Cells) /\ Len(a \o b) = Len(a) + Len(b)
          /\ \A i \in 1..Len(a) : (a \o b)[i] = a[i]
          /\ \A i \in 1..Len(b) : (a \o b)[Len(a) + i] = b[i]
      <4>1. a \in Seq(Cells) /\ b \in Seq(Cells)
        BY <2>1, <2>2
      <4> QED  BY <4>1
    <3> QED  BY <2>1, <2>2, <2>3, <3>1
  <2>5. \A i \in 1..n - 1 : order'[i] = a[i]
    BY <2>4
  <2>6. order'[(n - 1) + 1] = b[1] /\ order'[(n - 1) + 2] = b[2]
    BY <2>4
  <2> QED  BY <1>1, <2>1, <2>2, <2>4, <2>5, <2>6
<1>7. IsInsert(order, order', x, n)
  <2>1. \A i \in 1..n : (i < n /\ i \in 1..n - 1) \/ i = n
    BY <1>1
  <2>2. n \in 1..n + 1
    BY <1>1
  <2> HIDE DEF n
  <2>3. \A i \in 1..n : IF i < n THEN order'[i] = order[i] ELSE order'[i + 1] = order[i]
    BY <1>1, <1>6, <2>1
  <2> QED  BY <1>6, <2>2, <2>3 DEF IsInsert, n
<1> HIDE DEF p
<1>8. /\ node' \in [Cells -> Cell]
      /\ node'[x].host = New.host /\ node'[x].root = New.root /\ node'[x].mtype = New.mtype
      /\ node'[x].next = last /\ node'[x].prev = p
      /\ \A y \in Cells \ {x} :
           /\ node'[y].host = node[y].host /\ node'[y].root = node[y].root
           /\ node'[y].mtype = node[y].mtype
           /\ node'[y].prev = IF y = last THEN x ELSE node[y].prev
           /\ node'[y].next = IF y = p THEN x ELSE node[y].next
  <2>1. /\ node'[x] = [New EXCEPT !.prev = p, !.next = last]
        /\ node'[last] = [node[last] EXCEPT !.prev = x]
        /\ node'[p] = [node[p] EXCEPT !.next = x]
        /\ \A y \in Cells : y \notin {x, last, p} => node'[y] = node[y]
    BY <1>4, <1>5
  <2>2. DOMAIN node' = Cells /\ node' = [y \in Cells |-> node'[y]]
    BY <1>5
  <2>3. /\ node'[x] \in Cell /\ node'[x].host = New.host /\ node'[x].root = New.root
        /\ node'[x].mtype = New.mtype /\ node'[x].next = last /\ node'[x].prev = p
    BY <1>4, <2>1, NewFacts DEF Cell
  <2>4. /\ node'[last] \in Cell /\ node'[last].host = node[last].host
        /\ node'[last].root = node[last].root /\ node'[last].mtype = node[last].mtype
        /\ node'[last].prev = x /\ node'[last].next = node[last].next
    <3>1. node[last] \in Cell /\ node'[last] = [node[last] EXCEPT !.prev = x]
      BY <1>1, <1>4, <2>1
    <3> QED  BY <3>1 DEF Cell
  <2>5. /\ node'[p] \in Cell /\ node'[p].host = node[p].host
        /\ node'[p].root = node[p].root /\ node'[p].mtype = node[p].mtype
        /\ node'[p].prev = node[p].prev /\ node'[p].next = x
    <3>1. node[p] \in Cell /\ node'[p] = [node[p] EXCEPT !.next = x]
      BY <1>1, <1>4, <2>1
    <3> QED  BY <3>1 DEF Cell
  <2>6. \A y \in Cells : node'[y] \in Cell
    BY <1>1, <2>1, <2>3, <2>4, <2>5
  <2> QED  BY <1>4, <2>1, <2>2, <2>3, <2>4, <2>5, <2>6
<1>9. Holds(node, node', x, New)
  BY <1>8 DEF Holds
<1>10. IsLinked(order, node, node', x, n)
  <2> HIDE DEF n
  <2>1. \A i \in 1..n : order[i] = last <=> i = n
    BY <1>1
  <2>2. \A i \in 1..n : order[i] = p <=> i = n - 1
    BY <1>1, <1>4
  <2>3. n # n + 1 /\ n # 1
    BY <1>1, <1>3
  <2>4. \A i \in 1..n : order[i] \in Cells \ {x}
    BY <1>1
  <2> QED  BY <1>1, <1>4, <1>8, <2>1, <2>2, <2>3, <2>4 DEF IsLinked, n
<1>11. head' = order'[1] /\ last' = order'[Len(order')]
  <2> HIDE DEF n
  <2>1. 1 \in 1..n - 1
    BY <1>1, <1>3
  <2> QED  BY <1>1, <1>5, <1>6, <2>1
<1>12. \A i \in 1..n : ~ (i < n) => i = n
  BY <1>1
<1>13. walk.host # Star
  BY <1>1, <1>2, NotListed
<1> QED  BY <1>1, <1>2, <1>7, <1>9, <1>10, <1>11, <1>12, <1>13, NewFacts, NameFacts, InsertKeeps

\* Before '*' alone: the list stays as it is, and the cell is lost.
LEMMA LostKeeps ==
  ASSUME IInv, walk # NoWalk, ~ walk.ask, at = Null, EndEntry,
         NEW x \in Cells, node[x].host = <<>>, head # Null, IsWild(walk.host),
         ~ (Len(node[last].host) > 1), last = head, AddBeforeLast(x, New)
  PROVE  IInv'
<1> DEFINE g == walk.host
           p == node[last].prev
<1>1. /\ Len(order) = 1 /\ last = order[1] /\ head = order[1]
      /\ order[1] \in Cells /\ order[1] # x /\ node[order[1]].host = Star
      /\ node \in [Cells -> Cell]
  <2>1. /\ Len(order) \in Nat /\ Len(order) \in 1..Len(order) /\ 1 \in 1..Len(order)
        /\ head = order[1] /\ last = order[Len(order)]
        /\ \A i, j \in 1..Len(order) : order[i] = order[j] => i = j
        /\ \A i \in 1..Len(order) : order[i] \in Cells /\ node[order[i]].host \in Hosts
        /\ node \in [Cells -> Cell]
    BY ListFacts, LastFacts
  <2>2. Len(order) = 1
    BY <2>1
  <2> QED  BY <2>1, <2>2, NameFacts
<1>2. /\ \A i \in 1..Len(order) : node[order[i]].host # g
      /\ g \in todo /\ g \in Hosts /\ g # <<>> /\ todo \subseteq DOMAIN conf /\ g # Star
  <2>1. \A i \in 1..Len(order) : node[order[i]].host # g
    BY NotListed
  <2>2. 1 \in 1..Len(order)
    BY <1>1
  <2> QED  BY <1>1, <2>1, <2>2, NotListed, NameFacts
<1>3. /\ p = Null \/ (p \in Cells /\ p # x /\ p # last)
      /\ \A y \in Lost(order, node) : IsWild(node[y].host) /\ node[y].host # Star
  <2>1. p \in Lost(order, node) \cup {Null}
    BY <1>1 DEF IInv, IsList
  <2>2. 1 \in 1..Len(order)
    BY <1>1
  <2>3. Lost(order, node) \subseteq Cells /\ x \notin Lost(order, node) /\ last \notin Lost(order, node)
    BY <1>1, <2>2 DEF Lost
  <2>4. \A y \in Lost(order, node) : IsWild(node[y].host) /\ node[y].host # Star
    BY DEF IInv, IsList
  <2> QED  BY <2>1, <2>3, <2>4
<1>4. /\ node' = [y \in Cells |->
                    CASE y = x    -> [New EXCEPT !.prev = p, !.next = last]
                      [] y = last -> [node[y] EXCEPT !.prev = x]
                      [] y = p /\ y # x /\ y # last -> [node[y] EXCEPT !.next = x]
                      [] OTHER    -> node[y]]
      /\ order' = order /\ head' = head /\ last' = last
      /\ todo' = todo \ {g} /\ walk' = NoWalk /\ at' = Null
      /\ UNCHANGED <<file, auto, timer, conf, answer, edits, lone>>
  BY DEF AddBeforeLast, EndEntry
<1> HIDE DEF p
<1>5. /\ \A y \in Cells : node'[y] \in Cell
      /\ node'[x].host = g /\ node'[x].mtype = Kind(g)
      /\ node'[last].prev = x /\ node'[last].next = node[last].next
      /\ \A y \in Cells \ {x} :
           /\ node'[y].host = node[y].host /\ node'[y].root = node[y].root
           /\ node'[y].mtype = node[y].mtype
  <2>1. /\ node'[x] = [New EXCEPT !.prev = p, !.next = last]
        /\ node'[last] = [node[last] EXCEPT !.prev = x]
        /\ \A y \in Cells \ {x, last} :
             node'[y] = [node[y] EXCEPT !.next = x] \/ node'[y] = node[y]
    BY <1>1, <1>4
  <2>2. /\ node'[x] \in Cell /\ node'[x].host = g /\ node'[x].mtype = Kind(g)
    BY <1>1, <1>3, <2>1, NewFacts DEF Cell
  <2>3. /\ node'[last] \in Cell /\ node'[last].host = node[last].host
        /\ node'[last].root = node[last].root /\ node'[last].mtype = node[last].mtype
        /\ node'[last].prev = x /\ node'[last].next = node[last].next
    <3>1. node[last] \in Cell
      BY <1>1
    <3> QED  BY <2>1, <3>1 DEF Cell
  <2>4. \A y \in Cells \ {x, last} :
          /\ node'[y] \in Cell /\ node'[y].host = node[y].host
          /\ node'[y].root = node[y].root /\ node'[y].mtype = node[y].mtype
    <3> SUFFICES ASSUME NEW y \in Cells \ {x, last}
                 PROVE  /\ node'[y] \in Cell /\ node'[y].host = node[y].host
                        /\ node'[y].root = node[y].root /\ node'[y].mtype = node[y].mtype
      OBVIOUS
    <3>1. node[y] \in Cell /\ (node'[y] = [node[y] EXCEPT !.next = x] \/ node'[y] = node[y])
      BY <1>1, <2>1
    <3> QED  BY <3>1 DEF Cell
  <2> QED  BY <2>2, <2>3, <2>4
<1>6. node' \in [Cells -> Cell]
  BY <1>4, <1>5
<1>7. \A i \in 1..Len(order) : i = 1
  BY <1>1
<1>8. IsList(order', head', node')
  <2>1. Lost(order, node') = Lost(order, node) \cup {x}
    <3>1. \A y \in Cells : y \in Lost(order, node') <=> y \in Lost(order, node) \/ y = x
      BY <1>1, <1>2, <1>5, <1>7 DEF Lost
    <3>2. Lost(order, node') \subseteq Cells /\ Lost(order, node) \subseteq Cells
      BY DEF Lost
    <3> QED  BY <3>1, <3>2
  <2>2. \A y \in Lost(order, node') : IsWild(node'[y].host) /\ node'[y].host # Star
    <3>1. Lost(order, node) \subseteq Cells \ {x}
      BY DEF Lost
    <3> QED  BY <1>2, <1>3, <1>5, <2>1, <3>1
  <2>3. node'[order[1]].next = node[order[1]].next /\ node'[order[1]].prev = x
        /\ node'[order[1]].host # <<>>
    BY <1>1, <1>5, NameFacts
  <2>4. /\ order \in Seq(Cells) /\ head = order[1]
        /\ \A i \in 1..Len(order) :
             node[order[i]].next = IF i = Len(order) THEN Null ELSE order[i + 1]
    BY <1>1 DEF IInv, IsList
  <2>5. \A i \in 1..Len(order) :
          node'[order[i]].next = IF i = Len(order) THEN Null ELSE order[i + 1]
    BY <1>7, <2>3, <2>4
  <2>6. IsList(order, head, node')
    BY <1>1, <1>6, <1>7, <2>1, <2>2, <2>3, <2>4, <2>5 DEF IsList
  <2> QED  BY <1>4, <2>6
<1>9. InOrder(order', node')
  BY <1>4, <1>7 DEF InOrder
<1>10. KindsRight(node')
  BY <1>2, <1>5 DEF IInv, KindsRight
<1>11. lone
  BY <1>1, <1>7 DEF IInv, LoneRight
<1>12. IsLoaded(order', node', conf', todo', lone')
  <2>1. \A i \in 1..Len(order) :
          /\ node'[order[i]].host = node[order[i]].host /\ node'[order[i]].root = node[order[i]].root
          /\ node'[order[i]].mtype = node[order[i]].mtype
    BY <1>1, <1>5, <1>7
  <2>2. IsLoaded(order, node, conf, todo, lone)
    BY DEF IInv
  <2>3. \E i \in 1..Len(order) : node'[order[i]].host = Star
    BY <1>1, <2>1
  <2>4. IsLoaded(order, node', conf, todo \ {g}, lone)
    BY <1>2, <1>11, <2>1, <2>2, <2>3 DEF IsLoaded
  <2> QED  BY <1>4, <2>4
<1>13. LastRight' /\ LoneRight' /\ WalkRight'
  <2>1. order # <<>>
    <3> DEFINE n == Len(order)
    <3>1. order \in Seq(Cells) /\ n = 1
      BY <1>1, ListFacts
    <3> QED  BY <3>1
  <2> QED  BY <1>1, <1>4, <1>11, <2>1 DEF LastRight, LoneRight, WalkRight
<1>14. Others'
  BY <1>4 DEF IInv, Others
<1> QED  BY <1>8, <1>9, <1>10, <1>12, <1>13, <1>14 DEF IInv

LEMMA InsertActionKeeps ==
  ASSUME IInv, Insert
  PROVE  IInv'
<1>1. PICK x \in Cells :
        /\ node[x].host = <<>>
        /\ IF head = Null THEN AddFirst(x, New)
           ELSE IF ~ IsWild(walk.host) THEN AddHead(x, New)
           ELSE IF Len(node[last].host) > 1 THEN AddTail(x, New)
           ELSE AddBeforeLast(x, New)
  BY DEF Insert, New
<1>2. walk # NoWalk /\ ~ walk.ask /\ at = Null /\ EndEntry
  BY DEF Insert
<1>3. CASE head = Null
  BY <1>1, <1>2, <1>3, AddFirstKeeps
<1>4. CASE head # Null /\ ~ IsWild(walk.host)
  BY <1>1, <1>2, <1>4, AddHeadKeeps
<1>5. CASE head # Null /\ IsWild(walk.host) /\ Len(node[last].host) > 1
  BY <1>1, <1>2, <1>5, AddTailKeeps
<1>6. CASE head # Null /\ IsWild(walk.host) /\ ~ (Len(node[last].host) > 1) /\ last # head
  BY <1>1, <1>2, <1>6, AddBeforeLastKeeps
<1>7. CASE head # Null /\ IsWild(walk.host) /\ ~ (Len(node[last].host) > 1) /\ last = head
  BY <1>1, <1>2, <1>7, LostKeeps
<1> QED  BY <1>3, <1>4, <1>5, <1>6, <1>7

\* A cell that is looked at is one of the list, and the first that matches.
LEMMA AtFacts ==
  ASSUME IInv, walk # NoWalk, at # Null
  PROVE  \E i \in 1..Len(order) :
           at = order[i] /\ \A j \in 1..i - 1 : ~ Matches(order[j])
  BY DEF IInv, WalkRight

\* The list depends on names and links only.
LEMMA SameList ==
  ASSUME IInv, NEW m \in [Cells -> Cell],
         \A y \in Cells : /\ m[y].host = node[y].host
                          /\ m[y].prev = node[y].prev /\ m[y].next = node[y].next
  PROVE  IsList(order, head, m) /\ InOrder(order, m)
<1>1. \A i \in 1..Len(order) : order[i] \in Cells
  BY ListFacts
<1>2. InOrder(order, m)
  BY <1>1 DEF IInv, InOrder
<1>3. Lost(order, m) = Lost(order, node) /\ Lost(order, node) \subseteq Cells
  BY DEF Lost
<1>4. IsList(order, head, m)
  <2>1. IsList(order, head, node)
    BY DEF IInv
  <2> QED  BY <1>1, <1>3, <2>1 DEF IsList
<1> QED  BY <1>2, <1>4

LEMMA UpdateKeeps ==
  ASSUME IInv, Update
  PROVE  IInv'
<1> DEFINE g == walk.host
<1>1. /\ walk # NoWalk /\ ~ walk.ask /\ at # Null /\ Matches(at)
      /\ node' = [node EXCEPT ![at].mtype = Kind(g), ![at].root = conf[g]]
      /\ todo' = todo \ {g} /\ walk' = NoWalk /\ at' = Null
      /\ UNCHANGED <<head, last, order, file, auto, timer, conf, answer, edits, lone>>
  BY DEF Update, EndEntry
<1>2. PICK i \in 1..Len(order) : at = order[i]
  BY <1>1, AtFacts
<1>3. at \in Cells /\ node[at].host = g /\ node \in [Cells -> Cell]
  BY <1>1, <1>2, ListFacts DEF Matches
<1>4. /\ g \in todo /\ todo \subseteq DOMAIN conf /\ conf \in Table!Configs
  BY <1>1 DEF IInv, Others
<1>5. conf[g] \in Roots /\ g \in Hosts /\ g # <<>>
  <2>1. PICK S \in SUBSET Hosts : conf \in [S -> Roots]
    BY <1>4 DEF Table!Configs
  <2> QED  BY <1>4, <2>1, NameFacts
<1>6. /\ node' \in [Cells -> Cell]
      /\ node'[at].mtype = Kind(g) /\ node'[at].root = conf[g]
      /\ \A y \in Cells : /\ node'[y].host = node[y].host
                          /\ node'[y].prev = node[y].prev /\ node'[y].next = node[y].next
                          /\ y # at => /\ node'[y].mtype = node[y].mtype
                                       /\ node'[y].root = node[y].root
  BY <1>1, <1>3, <1>5, KindType DEF Cell
<1>7. IsList(order', head', node') /\ InOrder(order', node')
  BY <1>1, <1>6, SameList
<1>8. KindsRight(node')
  BY <1>3, <1>5, <1>6 DEF IInv, KindsRight
<1>9. IsLoaded(order', node', conf', todo', lone')
  <2>1. IsLoaded(order, node, conf, todo, lone)
    BY DEF IInv
  <2>2. \A k \in 1..Len(order) : order[k] \in Cells
    BY ListFacts
  <2>3. \A k \in 1..Len(order) : node'[order[k]].mtype # -1 =>
          /\ node'[order[k]].host \in DOMAIN conf \ (todo \ {g})
          /\ node'[order[k]].root = conf[node'[order[k]].host]
    BY <1>3, <1>4, <1>6, <2>1, <2>2 DEF IsLoaded
  <2>4. \A h \in DOMAIN conf \ (todo \ {g}) :
          \/ \E k \in 1..Len(order) : node'[order[k]].host = h /\ node'[order[k]].mtype # -1
          \/ lone /\ IsWild(h) /\ h # Star /\ \E k \in 1..Len(order) : node'[order[k]].host = Star
    <3> SUFFICES ASSUME NEW h \in DOMAIN conf \ (todo \ {g})
                 PROVE  \/ \E k \in 1..Len(order) :
                             node'[order[k]].host = h /\ node'[order[k]].mtype # -1
                        \/ /\ lone /\ IsWild(h) /\ h # Star
                           /\ \E k \in 1..Len(order) : node'[order[k]].host = Star
      OBVIOUS
    <3>1. CASE h = g
      BY <1>2, <1>3, <1>6, <3>1, KindType
    <3>2. CASE h # g /\ \E k \in 1..Len(order) : node[order[k]].host = h /\ node[order[k]].mtype # -1
      BY <1>3, <1>6, <2>2, <3>2
    <3>3. CASE lone /\ IsWild(h) /\ h # Star /\ \E k \in 1..Len(order) : node[order[k]].host = Star
      BY <1>6, <2>2, <3>3
    <3>4. CASE h # g
      <4>1. h \in DOMAIN conf \ todo
        BY <3>4
      <4> QED  BY <2>1, <3>2, <3>3, <3>4, <4>1 DEF IsLoaded
    <3> QED  BY <3>1, <3>4
  <2>5. IsLoaded(order, node', conf, todo \ {g}, lone)
    BY <2>3, <2>4 DEF IsLoaded
  <2> QED  BY <1>1, <2>5
<1>10. LastRight'
  BY <1>1, <1>4 DEF IInv, LastRight
<1>11. LoneRight'
  <2>1. \A k \in 1..Len(order) : node'[order[k]].host = node[order[k]].host
    BY <1>6, ListFacts
  <2> QED  BY <1>1, <2>1 DEF IInv, LoneRight
<1>12. WalkRight' /\ Others'
  BY <1>1 DEF IInv, WalkRight, Others
<1> QED  BY <1>7, <1>8, <1>9, <1>10, <1>11, <1>12 DEF IInv

\* A load begins with every host removed, at the end of the list.
LEMMA TimeoutKeeps ==
  ASSUME IInv, Timeout
  PROVE  IInv'
<1>1. /\ todo = {} /\ walk = NoWalk
      /\ last' = (IF head = Null THEN Null ELSE CHOOSE x \in Listed : node[x].next = Null)
      /\ auto' = file.auto /\ conf' = file.hosts /\ todo' = DOMAIN file.hosts
      /\ node' = [x \in Cells |-> IF x \in Listed THEN [node[x] EXCEPT !.mtype = -1] ELSE node[x]]
      /\ lone' = \A x \in Listed : node[x].host = Star
      /\ UNCHANGED <<head, file, timer, walk, at, answer, edits, order>>
  BY DEF Timeout, Idle
<1>2. node \in [Cells -> Cell] /\ \A i \in 1..Len(order) : order[i] \in Cells
  BY ListFacts
<1>3. /\ node' \in [Cells -> Cell]
      /\ \A y \in Cells : /\ node'[y].host = node[y].host
                          /\ node'[y].prev = node[y].prev /\ node'[y].next = node[y].next
                          /\ node'[y].mtype = IF y \in Listed THEN -1 ELSE node[y].mtype
  BY <1>1, <1>2 DEF Cell
<1>4. IsList(order', head', node') /\ InOrder(order', node')
  BY <1>1, <1>3, SameList
<1>5. KindsRight(node')
  BY <1>3 DEF IInv, KindsRight
<1>6. IsLoaded(order', node', conf', todo', lone')
  <2>1. \A i \in 1..Len(order) : node'[order[i]].mtype = -1
    BY <1>2, <1>3 DEF Listed
  <2> QED  BY <1>1, <2>1 DEF IsLoaded
<1>7. last' = (IF order = <<>> THEN Null ELSE order[Len(order)]) /\ last' \in Cells \cup {Null}
  <2> DEFINE n == Len(order)
  <2>1. /\ head = (IF n = 0 THEN Null ELSE order[1])
        /\ \A i \in 1..n : node[order[i]].next = IF i = n THEN Null ELSE order[i + 1]
        /\ n \in Nat /\ (n = 0 <=> order = <<>>)
        /\ \A i \in 1..n : order[i] \in Cells /\ order[i] # Null
        /\ Listed = {order[i] : i \in 1..n}
    BY ListFacts DEF IInv, IsList, Listed
  <2> HIDE DEF n
  <2>2. CASE n = 0
    BY <1>1, <2>1, <2>2
  <2>3. CASE n # 0
    <3>1. n \in 1..n /\ 1 \in 1..n
      BY <2>1, <2>3
    <3>2. order[n] \in Listed /\ node[order[n]].next = Null
      BY <2>1, <3>1
    <3>3. \A x \in Listed : node[x].next = Null => x = order[n]
      <4> SUFFICES ASSUME NEW x \in Listed, node[x].next = Null
                   PROVE  x = order[n]
        OBVIOUS
      <4>1. PICK i \in 1..n : x = order[i]
        BY <2>1
      <4>2. i # n => i + 1 \in 1..n
        BY <2>1
      <4> QED  BY <2>1, <4>1, <4>2
    <3>4. last' = CHOOSE x \in Listed : node[x].next = Null
      BY <1>1, <2>1, <2>3, <3>1
    <3>5. last' = order[n]
      BY <3>2, <3>3, <3>4
    <3> QED  BY <2>1, <2>3, <3>1, <3>5 DEF n
  <2> QED  BY <2>2, <2>3
<1>8. LastRight'
  BY <1>1, <1>7 DEF LastRight
<1>9. LoneRight'
  <2>1. \A i \in 1..Len(order) : node'[order[i]].host = node[order[i]].host
    BY <1>2, <1>3
  <2> QED  BY <1>1, <2>1 DEF LoneRight, Listed
<1>10. file.auto \in Nat /\ file.hosts \in Table!Configs /\ lone' \in BOOLEAN
  BY <1>1, FilesAssumption DEF IInv, Others
<1>11. WalkRight' /\ Others'
  BY <1>1, <1>7, <1>10 DEF IInv, WalkRight, Others
<1> QED  BY <1>4, <1>5, <1>6, <1>8, <1>9, <1>11 DEF IInv

-----------------------------------------------------------------------------
(* The walk, and the steps that leave the list alone. *)

\* A walk that begins has passed no cell.
LEMMA WalkBegins ==
  ASSUME IInv, at' = head, UNCHANGED <<node, order>>
  PROVE  \/ at' = Null /\ \A j \in 1..Len(order') : ~ Matches(order[j])'
         \/ \E i \in 1..Len(order') : at' = order'[i] /\ \A j \in 1..i - 1 : ~ Matches(order[j])'
<1>1. head = (IF Len(order) = 0 THEN Null ELSE order[1]) /\ Len(order) \in Nat
  BY ListFacts DEF IInv, IsList
<1>2. CASE Len(order) = 0
  BY <1>1, <1>2
<1>3. CASE Len(order) # 0
  <2>1. 1 \in 1..Len(order) /\ \A j \in 1..1 - 1 : FALSE
    BY <1>1, <1>3
  <2> QED  BY <1>1, <1>3, <2>1
<1> QED  BY <1>2, <1>3

\* Nothing but the walk and the answer changes.
LEMMA SameTable ==
  ASSUME IInv, UNCHANGED <<node, head, last, file, auto, timer, conf, todo, edits, order, lone>>
  PROVE  /\ IsList(order', head', node') /\ InOrder(order', node')
         /\ KindsRight(node') /\ IsLoaded(order', node', conf', todo', lone')
         /\ LastRight' /\ LoneRight'
  BY DEF IInv, LastRight, LoneRight

LEMMA LoadEntryKeeps ==
  ASSUME IInv, LoadEntry
  PROVE  IInv'
<1>1. PICK h \in todo : walk' = [ask |-> FALSE, host |-> h]
  BY DEF LoadEntry
<1>2. /\ at' = head
      /\ UNCHANGED <<node, head, last, file, auto, timer, conf, todo, answer, edits, order, lone>>
  BY DEF LoadEntry
<1>3. h \in Hosts /\ h # <<>>
  <2>1. conf \in Table!Configs /\ todo \subseteq DOMAIN conf
    BY DEF IInv, Others
  <2>2. PICK S \in SUBSET Hosts : conf \in [S -> Roots]
    BY <2>1 DEF Table!Configs
  <2> QED  BY <2>1, <2>2, NameFacts
<1>4. walk'.host = h /\ walk' # NoWalk
  BY <1>1, <1>3 DEF NoWalk
<1>5. WalkRight'
  BY <1>2, <1>4, WalkBegins DEF WalkRight
<1>6. Others'
  BY <1>1, <1>2, <1>4 DEF IInv, Others
<1> QED  BY <1>2, <1>5, <1>6, SameTable DEF IInv

LEMMA AskKeeps ==
  ASSUME IInv, NEW host \in Asked, Ask(host)
  PROVE  IInv'
<1>1. /\ walk' = [ask |-> TRUE, host |-> host] /\ at' = head /\ todo = {}
      /\ UNCHANGED <<node, head, last, file, auto, timer, conf, todo, answer, edits, order, lone>>
  BY DEF Ask, Idle
<1>2. walk'.host = host /\ walk'.ask = TRUE /\ walk' # NoWalk
  BY <1>1 DEF NoWalk
<1>3. WalkRight'
  BY <1>1, <1>2, WalkBegins DEF WalkRight
<1>4. Others'
  BY <1>1, <1>2 DEF IInv, Others
<1> QED  BY <1>1, <1>3, <1>4, SameTable DEF IInv

LEMMA AdvanceKeeps ==
  ASSUME IInv, Advance
  PROVE  IInv'
<1>1. /\ walk # NoWalk /\ at # Null /\ ~ Matches(at)
      /\ at' = node[at].next
      /\ UNCHANGED <<node, head, last, file, auto, timer, conf, todo, walk, answer, edits, order, lone>>
  BY DEF Advance
<1>2. PICK i \in 1..Len(order) : at = order[i] /\ \A j \in 1..i - 1 : ~ Matches(order[j])
  BY <1>1, AtFacts
<1>3. at' = (IF i = Len(order) THEN Null ELSE order[i + 1]) /\ Len(order) \in Nat
  BY <1>1, <1>2, ListFacts DEF IInv, IsList
<1>4. \A j \in 1..i : ~ Matches(order[j])
  <2>1. \A j \in 1..i : j \in 1..i - 1 \/ j = i
    BY <1>3
  <2> QED  BY <1>1, <1>2, <2>1
<1>5. \A x : Matches(x)' <=> Matches(x)
  BY <1>1 DEF Matches
<1>6. \A j \in 1..i : ~ Matches(order[j])'
  BY <1>1, <1>4, <1>5 DEF Matches
<1>7. WalkRight'
  <2>1. CASE i = Len(order)
    BY <1>1, <1>3, <1>6, <2>1 DEF WalkRight
  <2>2. CASE i # Len(order)
    <3>1. i + 1 \in 1..Len(order) /\ (i + 1) - 1 = i
      BY <1>3, <2>2
    <3> QED  BY <1>1, <1>3, <1>6, <2>2, <3>1 DEF WalkRight
  <2> QED  BY <2>1, <2>2
<1>8. Others'
  BY <1>1 DEF IInv, Others
<1> QED  BY <1>1, <1>7, <1>8, SameTable DEF IInv

LEMMA AnswerKeeps ==
  ASSUME IInv, Answer
  PROVE  IInv'
<1>1. /\ walk' = NoWalk /\ at' = Null
      /\ answer' = (IF at = Null THEN Default ELSE node[at].root)
      /\ UNCHANGED <<node, head, last, file, auto, timer, conf, todo, edits, order, lone>>
  BY DEF Answer
<1>2. at # Null => at \in Cells
  BY ListFacts DEF IInv, WalkRight
<1>3. answer' \in Roots \cup {Default}
  BY <1>1, <1>2, ListFacts DEF Cell
<1>4. WalkRight' /\ Others'
  BY <1>1, <1>3 DEF IInv, WalkRight, Others
<1> QED  BY <1>1, <1>4, SameTable DEF IInv

LEMMA EditKeeps ==
  ASSUME IInv, Edit
  PROVE  IInv'
<1>1. /\ file' \in Files /\ edits' = edits + 1
      /\ UNCHANGED <<node, head, last, auto, timer, conf, todo, walk, at, answer, order, lone>>
  BY DEF Edit
<1>2. edits' \in Nat
  BY <1>1 DEF IInv, Others
<1> QED
  BY <1>1, <1>2 DEF IInv, LastRight, LoneRight, WalkRight, Matches, Others

LEMMA InitIInv ==
  ASSUME Init
  PROVE  IInv
<1>1. /\ node = [x \in Cells |-> Free] /\ head = Null /\ last = Null /\ order = <<>>
      /\ file \in Firsts /\ auto = file.auto /\ timer = (file.auto >= 10)
      /\ conf = file.hosts /\ todo = DOMAIN file.hosts
      /\ walk = NoWalk /\ at = Null /\ answer = Default /\ edits = 0 /\ lone = TRUE
  BY DEF Init
<1>2. file \in Files /\ file.auto \in Nat /\ conf \in Table!Configs
  BY <1>1, FilesAssumption
<1>3. Free \in Cell /\ Free.host = <<>> /\ Free.mtype = -1
  BY DEF Free, Cell
<1>4. Len(order) = 0 /\ order \in Seq(Cells)
  BY <1>1
<1>5. IsList(order, head, node) /\ InOrder(order, node)
  <2>1. Lost(order, node) = {} /\ node \in [Cells -> Cell]
    BY <1>1, <1>3 DEF Lost
  <2> QED  BY <1>1, <1>4, <2>1 DEF IsList, InOrder
<1>6. KindsRight(node) /\ IsLoaded(order, node, conf, todo, lone)
  BY <1>1, <1>3, <1>4 DEF KindsRight, IsLoaded
<1>7. LastRight /\ LoneRight /\ WalkRight
  BY <1>1, <1>2, <1>4 DEF LastRight, LoneRight, WalkRight
<1>8. Others
  BY <1>1, <1>2 DEF Others
<1> QED  BY <1>5, <1>6, <1>7, <1>8 DEF IInv

LEMMA NextIInv ==
  ASSUME IInv, [Next]_vars
  PROVE  IInv'
<1>1. CASE Edit
  BY <1>1, EditKeeps
<1>2. CASE Timeout
  BY <1>2, TimeoutKeeps
<1>3. CASE LoadEntry
  BY <1>3, LoadEntryKeeps
<1>4. CASE Update
  BY <1>4, UpdateKeeps
<1>5. CASE Insert
  BY <1>5, InsertActionKeeps
<1>6. CASE Advance
  BY <1>6, AdvanceKeeps
<1>7. CASE Answer
  BY <1>7, AnswerKeeps
<1>8. ASSUME NEW host \in Asked, Ask(host)
      PROVE  IInv'
  BY <1>8, AskKeeps
<1>9. CASE UNCHANGED vars
  BY <1>9 DEF vars, IInv, LastRight, LoneRight, WalkRight, Matches, Others
<1> QED
  BY <1>1, <1>2, <1>3, <1>4, <1>5, <1>6, <1>7, <1>8, <1>9 DEF Next, Load

LEMMA Always == Spec => []IInv
<1>1. Init => IInv
  BY InitIInv
<1>2. IInv /\ [Next]_vars => IInv'
  BY NextIInv
<1> QED  BY <1>1, <1>2, PTL DEF Spec

-----------------------------------------------------------------------------
(* The list over all reloads. *)

\* No reload puts a value of another kind into a variable, and a cell in use is of
\* the kind its name says (TypeOK).
THEOREM TypeCorrect == Spec => []TypeOK
<1>1. IInv => TypeOK
  <2> SUFFICES ASSUME IInv PROVE TypeOK
    OBVIOUS
  <2>1. node \in [Cells -> Cell] /\ order \in Seq(Cells) /\ head \in Cells \cup {Null}
    <3>1. head = (IF Len(order) = 0 THEN Null ELSE order[1])
      BY DEF IInv, IsList
    <3>2. Len(order) # 0 => 1 \in 1..Len(order)
      BY ListFacts
    <3> QED  BY <3>1, <3>2, ListFacts
  <2>2. \A x \in Cells : node[x].mtype # -1 =>
          node[x].host # <<>> /\ node[x].mtype = Kind(node[x].host)
    BY DEF IInv, KindsRight
  <2>3. at \in Cells \cup {Null}
    BY ListFacts DEF IInv, WalkRight
  <2>4. walk \in [ask : BOOLEAN, host : Hosts \cup Asked \cup {<<>>}]
    <3>1. CASE walk = NoWalk
      BY <3>1 DEF NoWalk
    <3>2. CASE walk # NoWalk
      <4>1. conf \in Table!Configs /\ todo \subseteq DOMAIN conf
        BY DEF IInv, Others
      <4>2. todo \subseteq Hosts
        BY <4>1 DEF Table!Configs
      <4>3. \/ walk = [ask |-> FALSE, host |-> walk.host] /\ walk.host \in todo
            \/ walk = [ask |-> TRUE, host |-> walk.host] /\ walk.host \in Asked
        BY <3>2 DEF IInv, Others
      <4> DEFINE h == walk.host
      <4>4. h \in Hosts \cup Asked \cup {<<>>}
        BY <4>2, <4>3
      <4>5. walk = [ask |-> FALSE, host |-> h] \/ walk = [ask |-> TRUE, host |-> h]
        BY <4>3
      <4>6. \A b \in BOOLEAN : \A g \in Hosts \cup Asked \cup {<<>>} :
              [ask |-> b, host |-> g] \in [ask : BOOLEAN, host : Hosts \cup Asked \cup {<<>>}]
        OBVIOUS
      <4>7. TRUE \in BOOLEAN /\ FALSE \in BOOLEAN
        OBVIOUS
      <4> HIDE DEF h
      <4> QED  BY <4>4, <4>5, <4>6, <4>7, Zenon
    <3> QED  BY <3>1, <3>2
  <2> QED  BY <2>1, <2>2, <2>3, <2>4 DEF IInv, Others, TypeOK, Cell
<1> QED  BY <1>1, Always, PTL

\* The links agree and only wildcards put before a lone '*' are lost, over any number
\* of loads in which Lua lists the hosts in any order (ListIsWhole).
THEOREM ListStaysWhole == Spec => []ListIsWhole
<1>1. IInv => ListIsWhole
  <2> SUFFICES ASSUME IInv PROVE ListIsWhole
    OBVIOUS
  <2>1. {x \in Cells : node[x].host # <<>>} \ Listed = Lost(order, node)
    BY DEF Lost, Listed
  <2>2. IsList(order, head, node) /\ Len(order) \in Nat
    BY ListFacts DEF IInv
  <2>3. \A i \in 1..Len(order) :
          IF i = 1 THEN node[order[i]].prev \in Lost(order, node) \cup {Null}
          ELSE node[order[i]].prev = order[i - 1]
    BY <2>2 DEF IsList
  <2>4. \A x \in Listed : node[x].host # <<>>
    BY <2>2 DEF IsList, Listed
  <2>5. \A i \in 1..Len(order) : node[order[i]].next = IF i = Len(order) THEN Null ELSE order[i + 1]
    BY <2>2 DEF IsList
  <2>6. \A x \in Lost(order, node) : IsWild(node[x].host) /\ node[x].host # Star
    BY <2>2 DEF IsList
  <2>7. /\ head = IF Len(order) = 0 THEN Null ELSE order[1]
        /\ \A i, j \in 1..Len(order) : order[i] = order[j] => i = j
    BY <2>2 DEF IsList
  <2> QED  BY <2>1, <2>3, <2>4, <2>5, <2>6, <2>7 DEF ListIsWhole
<1> QED  BY <1>1, Always, PTL

\* Hosts that are removed and come back never put a wildcard before an exact name,
\* nor anything behind '*', and no name is in the list twice (ListInOrder).
THEOREM ListStaysInOrder == Spec => []ListInOrder
<1>1. IInv => ListInOrder
  BY DEF IInv, InOrder, ListInOrder
<1> QED  BY <1>1, Always, PTL

\* Between loads the list answers for the hosts of the last configuration without an
\* error, with the roots it names, and may lack a wildcard of it only after a load
\* that began with no name but '*' in the list (TableIsLoaded).
THEOREM LastLoadAnswers == Spec => []TableIsLoaded
<1>1. IInv => TableIsLoaded
  <2> SUFFICES ASSUME IInv, todo = {} PROVE TableIsLoaded
    BY DEF Idle, TableIsLoaded
  <2>1. IsLoaded(order, node, conf, {}, lone)
    BY DEF IInv
  <2> QED  BY <2>1 DEF IsLoaded, TableIsLoaded, Listed, Found
<1> QED  BY <1>1, Always, PTL

-----------------------------------------------------------------------------
(* The list implements the table. *)

\* A part of a configuration is one.
LEMMA PartIsConfig ==
  ASSUME NEW c \in Table!Configs, NEW D \in SUBSET DOMAIN c
  PROVE  [h \in D |-> c[h]] \in Table!Configs
<1>1. PICK S \in SUBSET Hosts : c \in [S -> Roots]
  BY DEF Table!Configs
<1>2. D \in SUBSET Hosts /\ [h \in D |-> c[h]] \in [D -> Roots]
  BY <1>1
<1> QED  BY <1>2 DEF Table!Configs

LEMMA LiveType ==
  ASSUME IInv
  PROVE  Live \in Table!Configs
<1>1. conf \in Table!Configs /\ {g \in DOMAIN conf : g \in todo \/ Found(g)} \in SUBSET DOMAIN conf
  BY DEF IInv, Others
<1> QED  BY <1>1, PartIsConfig DEF Live

\* Between loads the rules of the table are those some cell of the list answers for.
LEMMA LiveFacts ==
  ASSUME todo = {}
  PROVE  /\ \A g : g \in DOMAIN Live <=> g \in DOMAIN conf /\ Found(g)
         /\ \A g \in DOMAIN Live : Live[g] = conf[g]
  BY DEF Live

\* The first cell that matches is a rule the table lets answer.
LEMMA FirstIsBest ==
  ASSUME IInv, walk.ask, walk # NoWalk, at # Null, Matches(at)
  PROVE  /\ node[at].host \in Table!Best(walk.host) /\ Table!Serving(walk.host) # {}
         /\ node[at].root = Live[node[at].host]
<1> DEFINE g == node[at].host
           S == Table!Serving(walk.host)
<1>1. walk.host \in Asked /\ todo = {} /\ ~ IsWild(walk.host)
  BY NameFacts DEF IInv, Others
<1>2. PICK i \in 1..Len(order) : at = order[i] /\ \A j \in 1..i - 1 : ~ Matches(order[j])
  BY AtFacts
<1>3. at \in Cells /\ node[at].mtype # -1
  BY <1>2, ListFacts DEF Matches
<1>4. g \in DOMAIN Live /\ node[at].root = Live[g]
  <2>1. g \in DOMAIN conf /\ node[at].root = conf[g]
    BY <1>1, <1>2, <1>3 DEF IInv, IsLoaded
  <2>2. Found(g)
    BY <1>2, <1>3 DEF Found, Listed
  <2> QED  BY <1>1, <2>1, <2>2, LiveFacts
<1>5. g = walk.host \/ Table!Covers(g, walk.host)
  BY DEF Matches
<1>6. g \in S
  BY <1>4, <1>5 DEF Table!Serving
<1>7. \A w \in S : w # g => g # Star /\ (IsWild(g) => IsWild(w))
  <2> SUFFICES ASSUME NEW w \in S, w # g
               PROVE  g # Star /\ (IsWild(g) => IsWild(w))
    OBVIOUS
  <2>1. w \in DOMAIN Live /\ (w = walk.host \/ Table!Covers(w, walk.host))
    BY DEF Table!Serving
  <2>2. PICK x \in Listed : node[x].host = w /\ node[x].mtype # -1
    BY <1>1, <2>1, LiveFacts DEF Found
  <2>3. PICK k \in 1..Len(order) : x = order[k]
    BY <2>2 DEF Listed
  <2>4. node[x].host # <<>> /\ node[x].mtype = Kind(w)
    BY <2>2, <2>3, ListFacts DEF IInv, KindsRight
  <2>5. Table!Covers(w, walk.host) => Kind(w) = 1
    BY DEF Table!Covers, Kind, IsWild
  <2>6. Matches(x)
    BY <2>1, <2>2, <2>4, <2>5 DEF Matches
  <2>7. k # i /\ ~ (k \in 1..i - 1)
    BY <1>2, <2>2, <2>3, <2>6
  <2>8. i < k
    BY <2>7, ListFacts
  <2> QED  BY <1>2, <2>2, <2>3, <2>8 DEF IInv, InOrder
<1>8. walk.host \in DOMAIN Live => g = walk.host
  <2> SUFFICES ASSUME walk.host \in DOMAIN Live, g # walk.host
               PROVE  FALSE
    OBVIOUS
  <2>1. walk.host \in S
    BY DEF Table!Serving
  <2>2. IsWild(g)
    BY <1>5 DEF Table!Covers, IsWild
  <2> QED  BY <1>1, <1>7, <2>1, <2>2
<1>9. g = Star => S = {Star}
  BY <1>6, <1>7
<1>10. g \in Table!Best(walk.host)
  <2> HIDE DEF g, S
  <2>1. Table!Best(walk.host) = IF walk.host \in DOMAIN Live THEN {walk.host}
                                ELSE IF S = {Star} THEN {Star} ELSE S \ {Star}
    BY DEF Table!Best, S, Star
  <2> QED  BY <1>6, <1>8, <1>9, <2>1
<1> QED  BY <1>4, <1>6, <1>10

\* No cell matches only if no rule serves the host.
LEMMA NoneServes ==
  ASSUME IInv, walk.ask, walk # NoWalk, at = Null
  PROVE  Table!Serving(walk.host) = {}
<1> SUFFICES ASSUME NEW w \in Table!Serving(walk.host)
             PROVE  FALSE
  OBVIOUS
<1>1. todo = {}
  BY DEF IInv, Others
<1>2. \A j \in 1..Len(order) : ~ Matches(order[j])
  BY ListFacts DEF IInv, WalkRight
<1>3. w \in DOMAIN Live /\ (w = walk.host \/ Table!Covers(w, walk.host))
  BY DEF Table!Serving
<1>4. PICK i \in 1..Len(order) : node[order[i]].host = w /\ node[order[i]].mtype # -1
  BY <1>1, <1>3, LiveFacts DEF Found, Listed
<1>5. node[order[i]].host # <<>> /\ node[order[i]].mtype = Kind(w)
  BY <1>4, ListFacts DEF IInv, KindsRight
<1>6. Table!Covers(w, walk.host) => Kind(w) = 1
  BY DEF Table!Covers, Kind, IsWild
<1>7. Matches(order[i])
  BY <1>3, <1>4, <1>5, <1>6 DEF Matches
<1> QED  BY <1>2, <1>7

LEMMA AnswerIsAsk ==
  ASSUME IInv, Answer
  PROVE  walk.host \in Asked /\ Table!Ask(walk.host)
<1>1. /\ walk.ask /\ (at # Null => Matches(at))
      /\ UNCHANGED <<node, conf, todo, order>>
      /\ answer' = (IF at = Null THEN Default ELSE node[at].root)
  BY DEF Answer
<1>2. walk # NoWalk
  BY <1>1 DEF NoWalk
<1>3. walk.host \in Asked
  BY <1>1, <1>2 DEF IInv, Others
<1>4. UNCHANGED Live
  BY <1>1 DEF Live, Found, Listed
<1>5. CASE at = Null
  BY <1>1, <1>2, <1>3, <1>4, <1>5, NoneServes DEF Table!Ask
<1>6. CASE at # Null
  <2>1. /\ node[at].host \in Table!Best(walk.host) /\ Table!Serving(walk.host) # {}
        /\ answer' = Live[node[at].host]
    BY <1>1, <1>2, <1>6, FirstIsBest
  <2> QED  BY <1>3, <1>4, <2>1 DEF Table!Ask
<1> QED  BY <1>3, <1>5, <1>6

\* Every request is answered as the table allows of the rules the list has: by the
\* rule of its very name, else by a wildcard that covers it, '*' only if no other of
\* them does (TableSpec; LastLoadAnswers says which rules the list may lack).
THEOREM TableIsKept == Spec => TableSpec
<1>1. Init => Table!Init
  <2> SUFFICES ASSUME Init PROVE Table!Init
    OBVIOUS
  <2>1. Live \in Table!Configs
    BY InitIInv, LiveType
  <2> QED  BY <2>1 DEF Init, Table!Init
<1>2. IInv /\ [Next]_vars => [Table!Next]_<<Live, answer>>
  <2> SUFFICES ASSUME IInv, [Next]_vars
               PROVE  Table!Next \/ UNCHANGED <<Live, answer>>
    OBVIOUS
  <2>1. CASE Timeout \/ Update \/ Insert
    <3>1. answer' = answer
      BY <2>1 DEF Timeout, Update, Insert, EndEntry
    <3>2. conf' \in Table!Configs
      BY NextIInv DEF IInv, Others
    <3>3. Live' \in Table!Configs
      <4>1. {g \in DOMAIN conf : g \in todo \/ Found(g)}' \in SUBSET DOMAIN conf'
        OBVIOUS
      <4> QED  BY <3>2, <4>1, PartIsConfig DEF Live
    <3> QED  BY <3>1, <3>3 DEF Table!Next, Table!Load
  <2>2. CASE Answer
    BY <2>2, AnswerIsAsk DEF Table!Next
  <2>3. CASE Edit \/ LoadEntry \/ Advance
    BY <2>3 DEF Edit, LoadEntry, Advance, Live, Found, Listed
  <2>4. ASSUME NEW host \in Asked, Ask(host)
        PROVE  UNCHANGED <<Live, answer>>
    BY <2>4 DEF Ask, Live, Found, Listed
  <2>5. CASE UNCHANGED vars
    BY <2>5 DEF vars, Live, Found, Listed
  <2> QED  BY <2>1, <2>2, <2>3, <2>4, <2>5 DEF Next, Load
<1> QED  BY <1>1, <1>2, Always, PTL DEF Spec, TableSpec, Table!Spec

=============================================================================
