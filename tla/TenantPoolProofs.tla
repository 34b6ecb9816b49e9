-------------------------- MODULE TenantPoolProofs --------------------------
(***************************************************************************)
(* The isolation of TenantPool's requests, for any number of requests,     *)
(* connections and tenants, and any lost connections.                      *)
(***************************************************************************)
EXTENDS TenantPool, TLAPS

\* The phases in which a request holds a connection.
Holding == {"held", "scoped", "inserted", "ran", "replied"}

\* A connection has one user at most, and a waiter one place in the queue.
HoldInv ==
    /\ Exclusive
    /\ \A r \in Reqs : conn[r] # NoConn <=> phase[r] \in Holding
    /\ IsInjective(waiting) /\ \A r \in ToSet(waiting) : phase[r] = "waiting"

Unused(c) == setting[c] = Blank /\ ~open[c] /\ pending[c] = {}

\* A lost connection lost its transaction with it.
FreshInv == FreshIsBlank /\ \A c \in Conns : ~alive[c] => Unused(c)

(***************************************************************************)
(* A row is of its request's tenant and table, is written by the request   *)
(* that holds the connection, once, and is committed once.                 *)
(***************************************************************************)
RowOf(x) ==
    /\ x \in Rows /\ x.tenant = job[x.by].tenant
    /\ job[x.by].kind \in {"ingest", "create", "patch"}
    /\ x.table = IF job[x.by].kind = "ingest" THEN "events" ELSE "rules"

RowInv ==
    /\ \A r \in Reqs, c \in Conns :
          conn[r] = c /\ phase[r] = "scoped" /\ alive[c] => setting[c] = job[r].tenant
    /\ \A c \in Conns : \A x \in pending[c] :
          RowOf(x) /\ conn[x.by] = c /\ phase[x.by] \in {"inserted", "ran", "replied"}
    /\ \A x \in store : RowOf(x) /\ phase[x.by] \in {"ran", "replied", "left", "done"}
    /\ \A c \in Conns : \A x \in pending[c], y \in store : x.by # y.by
-----------------------------------------------------------------------------
(* Sequences                                                               *)

\* Where the items of a concatenation come from.
LEMMA ConcatFacts ==
    ASSUME NEW S, NEW p \in Seq(S), NEW q \in Seq(S)
    PROVE  /\ p \o q \in Seq(S) /\ Len(p \o q) = Len(p) + Len(q)
           /\ \A i \in 1..Len(p) : (p \o q)[i] = p[i]
           /\ \A i \in (Len(p) + 1)..(Len(p) + Len(q)) : (p \o q)[i] = q[i - Len(p)]
  OBVIOUS

\* Leaving a queue from any place,
LEMMA RemoveKeeps ==
    ASSUME NEW S, NEW q \in Seq(S), NEW k \in DOMAIN q, IsInjective(q)
    PROVE  /\ RemoveAt(q, k) \in Seq(S) /\ IsInjective(RemoveAt(q, k))
           /\ ToSet(RemoveAt(q, k)) = ToSet(q) \ {q[k]}
<1> DEFINE a == SubSeq(q, 1, k - 1)
           b == SubSeq(q, k + 1, Len(q))
           t == RemoveAt(q, k)
<1>1. /\ Len(q) \in Nat /\ k \in 1..Len(q) /\ DOMAIN q = 1..Len(q)
  OBVIOUS
<1>2. /\ a \in Seq(S) /\ Len(a) = k - 1 /\ \A i \in 1..(k - 1) : a[i] = q[i]
  BY <1>1
<1>3. /\ b \in Seq(S) /\ Len(b) = Len(q) - k /\ \A i \in 1..(Len(q) - k) : b[i] = q[i + k]
  BY <1>1
<1>4. t = a \o b
  BY DEF RemoveAt
<1> HIDE DEF a, b, t
<1>5. /\ t \in Seq(S) /\ Len(t) = Len(a) + Len(b)
      /\ \A i \in 1..Len(a) : t[i] = a[i]
      /\ \A i \in (Len(a) + 1)..(Len(a) + Len(b)) : t[i] = b[i - Len(a)]
  BY <1>2, <1>3, <1>4, ConcatFacts
<1>6. Len(t) = Len(q) - 1 /\ DOMAIN t = 1..(Len(q) - 1)
  BY <1>1, <1>2, <1>3, <1>5
<1>7. ASSUME NEW i \in 1..(Len(q) - 1) PROVE t[i] = IF i < k THEN q[i] ELSE q[i + 1]
  <2>1. CASE i < k
    <3>1. i \in 1..Len(a) /\ i \in 1..(k - 1)
      BY <1>1, <1>2, <2>1
    <3> QED
      BY <1>2, <1>5, <2>1, <3>1
  <2>2. CASE ~(i < k)
    <3>1. i \in (Len(a) + 1)..(Len(a) + Len(b)) /\ i - Len(a) \in 1..(Len(q) - k) /\ i - Len(a) + k = i + 1
      BY <1>1, <1>2, <1>3, <2>2
    <3> QED
      BY <1>3, <1>5, <2>2, <3>1
  <2> QED
    BY <2>1, <2>2
<1>8. IsInjective(t)
  <2>1. ASSUME NEW i \in 1..(Len(q) - 1)
        PROVE  \E o \in 1..Len(q) : /\ t[i] = q[o] /\ (o = i \/ o = i + 1)
                                  /\ (o = i <=> i < k)
    BY <1>1, <1>7
  <2>2. ASSUME NEW i \in 1..(Len(q) - 1), NEW j \in 1..(Len(q) - 1), t[i] = t[j]
        PROVE  i = j
    <3>1. PICK o \in 1..Len(q) : t[i] = q[o] /\ (o = i \/ o = i + 1) /\ (o = i <=> i < k)
      BY <2>1
    <3>2. PICK u \in 1..Len(q) : t[j] = q[u] /\ (u = j \/ u = j + 1) /\ (u = j <=> j < k)
      BY <2>1
    <3>3. o = u
      BY <1>1, <2>2, <3>1, <3>2 DEF IsInjective
    <3> QED
      BY <1>1, <3>1, <3>2, <3>3
  <2> QED
    BY <1>6, <2>2 DEF IsInjective
<1>9. ToSet(t) = ToSet(q) \ {q[k]}
  <2>1. ASSUME NEW x \in ToSet(t) PROVE x \in ToSet(q) \ {q[k]}
    <3>1. PICK i \in 1..(Len(q) - 1) : x = t[i]
      BY <1>6, <2>1 DEF ToSet
    <3>2. PICK j \in 1..Len(q) : x = q[j] /\ j # k
      BY <1>1, <1>7, <3>1
    <3> QED
      BY <1>1, <3>2 DEF ToSet, IsInjective
  <2>2. ASSUME NEW x \in ToSet(q) \ {q[k]} PROVE x \in ToSet(t)
    <3>1. PICK j \in 1..Len(q) : x = q[j] /\ j # k
      BY <1>1, <2>2 DEF ToSet
    <3>2. PICK i \in 1..(Len(q) - 1) : x = t[i]
      <4>1. CASE j < k
        BY <1>1, <1>7, <3>1, <4>1
      <4>2. CASE j > k
        <5>1. j - 1 \in 1..(Len(q) - 1) /\ ~(j - 1 < k) /\ j - 1 + 1 = j
          BY <1>1, <4>2
        <5> QED
          BY <1>7, <3>1, <5>1
      <4> QED
        BY <1>1, <3>1, <4>1, <4>2
    <3> QED
      BY <1>6, <3>2 DEF ToSet
  <2> QED
    BY <2>1, <2>2
<1> QED
  BY <1>5, <1>8, <1>9 DEF t

\* joining it,
LEMMA AppendKeeps ==
    ASSUME NEW S, NEW q \in Seq(S), NEW m \in S, IsInjective(q), m \notin ToSet(q)
    PROVE  /\ Append(q, m) \in Seq(S) /\ IsInjective(Append(q, m)) /\ Append(q, m) # <<>>
           /\ ToSet(Append(q, m)) = ToSet(q) \cup {m}
<1>1. /\ DOMAIN Append(q, m) = 1..(Len(q) + 1) /\ DOMAIN q = 1..Len(q) /\ Len(q) \in Nat
      /\ \A i \in 1..Len(q) : Append(q, m)[i] = q[i]
      /\ Append(q, m)[Len(q) + 1] = m /\ Append(q, m) \in Seq(S) /\ Append(q, m) # <<>>
  OBVIOUS
<1>2. 1..(Len(q) + 1) = 1..Len(q) \cup {Len(q) + 1}
  BY <1>1
<1>3. ToSet(Append(q, m)) = ToSet(q) \cup {m}
  BY <1>1, <1>2, ZenonT(60) DEF ToSet
<1>4. \A i \in 1..Len(q) : q[i] # m
  BY <1>1 DEF ToSet
<1>5. IsInjective(Append(q, m))
  BY <1>1, <1>2, <1>4 DEF IsInjective
<1> QED
  BY <1>1, <1>3, <1>5

\* and being the first to be served.
LEMMA TailKeeps ==
    ASSUME NEW S, NEW q \in Seq(S), q # <<>>, IsInjective(q)
    PROVE  /\ Head(q) \in S /\ Tail(q) \in Seq(S) /\ IsInjective(Tail(q))
           /\ Head(q) \in ToSet(q) /\ ToSet(Tail(q)) = ToSet(q) \ {Head(q)}
<1>1. /\ Len(q) \in Nat \ {0} /\ DOMAIN q = 1..Len(q) /\ DOMAIN Tail(q) = 1..(Len(q) - 1)
      /\ \A i \in 1..(Len(q) - 1) : Tail(q)[i] = q[i + 1] /\ i + 1 \in 1..Len(q) /\ i + 1 # 1
      /\ Head(q) = q[1] /\ 1 \in 1..Len(q) /\ Head(q) \in S /\ Tail(q) \in Seq(S)
  OBVIOUS
<1>2. \A i, j \in 1..(Len(q) - 1) : i + 1 = j + 1 => i = j
  OBVIOUS
<1>3. IsInjective(Tail(q))
  BY <1>1, <1>2 DEF IsInjective
<1>4. ASSUME NEW x \in ToSet(q), x # Head(q) PROVE x \in ToSet(Tail(q))
  <2>1. PICK j \in 1..Len(q) : x = q[j] /\ j # 1
    BY <1>1, <1>4 DEF ToSet
  <2>2. j - 1 \in 1..(Len(q) - 1) /\ j - 1 + 1 = j
    BY <1>1, <2>1
  <2> QED
    BY <1>1, <2>1, <2>2 DEF ToSet
<1>5. ASSUME NEW x \in ToSet(Tail(q)) PROVE x \in ToSet(q) /\ x # Head(q)
  <2>1. PICK i \in 1..(Len(q) - 1) : x = q[i + 1]
    BY <1>1, <1>5 DEF ToSet
  <2> QED
    BY <1>1, <2>1 DEF ToSet, IsInjective
<1>6. Head(q) \in ToSet(q)
  BY <1>1 DEF ToSet
<1> QED
  BY <1>1, <1>3, <1>4, <1>5, <1>6

\* Nobody is in an empty queue.
LEMMA EmptyKeeps == IsInjective(<<>>) /\ ToSet(<<>>) = {}
  BY DEF IsInjective, ToSet
-----------------------------------------------------------------------------
(* Connections and their users                                             *)

HoldTypes ==
    /\ phase \in [Reqs -> Phases] /\ conn \in [Reqs -> Conns \cup {NoConn}]
    /\ waiting \in Seq(Reqs) /\ pool \in Seq(Conns)

Stays(q) == conn'[q] = conn[q] /\ phase'[q] = phase[q]

\* Having no connection is not a connection.
LEMMA NoConnApart == NoConn \notin Conns
  BY PoolAssumption DEF NoConn, Conns

\* A request goes on without touching the pool.
LEMMA HoldAdvance ==
    ASSUME HoldTypes, HoldInv, NEW r \in Reqs, NEW ph \in Phases,
           phase' = [phase EXCEPT ![r] = ph], UNCHANGED <<conn, waiting, pool>>,
           phase[r] \in Holding <=> ph \in Holding, phase[r] # "waiting"
    PROVE  HoldTypes' /\ HoldInv'
<1>1. /\ phase' \in [Reqs -> Phases] /\ phase'[r] = ph
      /\ \A q \in Reqs : q # r => phase'[q] = phase[q]
  BY DEF HoldTypes
<1>2. \A q \in ToSet(waiting) : q \in Reqs /\ phase'[q] = "waiting"
  BY <1>1 DEF HoldInv, HoldTypes, ToSet
<1>3. \A q \in Reqs : conn'[q] # NoConn <=> phase'[q] \in Holding
  BY <1>1 DEF HoldInv
<1>4. Exclusive'
  BY DEF HoldInv, Exclusive, IsInjective, ToSet
<1>5. IsInjective(waiting)' /\ ToSet(waiting)' = ToSet(waiting)
  BY DEF HoldInv, IsInjective, ToSet
<1> QED
  BY <1>1, <1>2, <1>3, <1>4, <1>5 DEF HoldInv, HoldTypes

\* It gives its connection back, to the first waiter if there is one.
LEMMA HoldGiveBack ==
    ASSUME HoldTypes, HoldInv, NEW r \in Reqs, NEW c \in Conns, conn[r] = c,
           NEW ph \in {"left", "done"}, NEW good, GiveBack(r, c, ph, good)
    PROVE  /\ HoldTypes' /\ HoldInv' /\ conn'[r] = NoConn /\ phase'[r] = ph
           /\ \A q \in Reqs : \/ q = r \/ Stays(q)
                              \/ phase[q] = "waiting" /\ phase'[q] = "held" /\ conn'[q] = c
<1>0. phase[r] \in Holding /\ \A q \in Reqs : q # r => conn[q] # c
  BY NoConnApart DEF HoldInv, Exclusive
<1>a. ph \in Phases /\ ph \notin Holding /\ "held" \in Holding /\ "held" \in Phases
  BY DEF Phases, Holding
<1>1. CASE good /\ waiting # <<>>
  <2> DEFINE w == Head(waiting)
  <2>1. /\ w \in Reqs /\ waiting' \in Seq(Reqs) /\ IsInjective(waiting') /\ phase[w] = "waiting"
        /\ ToSet(waiting') = ToSet(waiting) \ {w} /\ ToSet(waiting') \subseteq Reqs
    <3>1. waiting \in Seq(Reqs) /\ waiting' = Tail(waiting) /\ IsInjective(waiting)
      BY <1>1 DEF GiveBack, HoldTypes, HoldInv
    <3>2. /\ w \in Reqs /\ Tail(waiting) \in Seq(Reqs) /\ IsInjective(Tail(waiting))
          /\ w \in ToSet(waiting) /\ ToSet(Tail(waiting)) = ToSet(waiting) \ {w}
      BY <1>1, <3>1, TailKeeps
    <3>3. ToSet(waiting) \subseteq Reqs
      BY <3>1 DEF ToSet
    <3> QED
      BY <3>1, <3>2, <3>3 DEF HoldInv
  <2>2. w # r /\ conn[w] = NoConn
    BY <1>0, <2>1 DEF HoldInv, Holding
  <2>3. /\ conn' = [conn EXCEPT ![r] = NoConn, ![w] = c]
        /\ phase' = [phase EXCEPT ![r] = ph, ![w] = "held"] /\ pool' = pool
    BY <1>1 DEF GiveBack
  <2> HIDE DEF w
  <2>4. /\ conn' \in [Reqs -> Conns \cup {NoConn}] /\ phase' \in [Reqs -> Phases]
        /\ conn'[r] = NoConn /\ phase'[r] = ph /\ conn'[w] = c /\ phase'[w] = "held"
        /\ \A q \in Reqs : q # r /\ q # w => Stays(q)
    BY <1>a, <2>1, <2>2, <2>3 DEF HoldTypes, Stays
  <2>5. HoldTypes'
    BY <2>1, <2>3, <2>4 DEF HoldTypes
  <2>6. \A q \in Reqs : conn'[q] # NoConn <=> phase'[q] \in Holding
    BY <1>a, <2>1, <2>4, NoConnApart DEF HoldInv, Stays
  <2>7. \A q \in ToSet(waiting') : phase'[q] = "waiting"
    BY <1>0, <2>1, <2>4 DEF HoldInv, Stays, Holding
  <2>8. Exclusive'
    <3>1. \A q \in Reqs, p \in Reqs : q # p /\ conn'[q] # NoConn => conn'[q] # conn'[p]
      <4>1. \A q \in Reqs : conn'[q] = IF q = r THEN NoConn ELSE IF q = w THEN c ELSE conn[q]
        BY <2>2, <2>4 DEF Stays
      <4>2. \A q, p \in Reqs : q # p /\ conn[q] # NoConn => conn[q] # conn[p]
        BY DEF HoldInv, Exclusive
      <4> QED
        BY <1>0, <4>1, <4>2, NoConnApart
    <3>2. pool = <<>>
      BY <1>1 DEF HoldInv, Exclusive
    <3> QED
      BY <2>3, <3>1, <3>2, EmptyKeeps DEF Exclusive
  <2>9. IsInjective(waiting)' /\ \A q \in ToSet(waiting)' : phase'[q] = "waiting"
    BY <2>1, <2>7 DEF IsInjective, ToSet
  <2> QED
    BY <2>1, <2>4, <2>5, <2>6, <2>8, <2>9 DEF HoldInv
<1>2. CASE ~(good /\ waiting # <<>>)
  <2>1. /\ conn' = [conn EXCEPT ![r] = NoConn] /\ phase' = [phase EXCEPT ![r] = ph]
        /\ waiting' = waiting /\ pool' = IF good THEN Append(pool, c) ELSE pool
    BY <1>2 DEF GiveBack
  <2>2. /\ conn' \in [Reqs -> Conns \cup {NoConn}] /\ phase' \in [Reqs -> Phases]
        /\ conn'[r] = NoConn /\ phase'[r] = ph /\ \A q \in Reqs : q # r => Stays(q)
    BY <1>a, <2>1 DEF HoldTypes, Stays
  <2>3. /\ pool' \in Seq(Conns) /\ IsInjective(pool') /\ ToSet(pool') \subseteq ToSet(pool) \cup {c}
        /\ good \/ pool' = pool
    <3>1. pool \in Seq(Conns) /\ IsInjective(pool) /\ c \notin ToSet(pool)
      BY DEF HoldTypes, HoldInv, Exclusive
    <3> QED
      BY <2>1, <3>1, AppendKeeps
  <2>4. \A q \in Reqs : conn'[q] # NoConn <=> phase'[q] \in Holding
    BY <1>a, <2>2 DEF HoldInv, Stays
  <2>5. \A q \in Reqs : conn'[q] \notin ToSet(pool')
    <3>1. ToSet(pool) \subseteq Conns
      BY DEF HoldTypes, ToSet
    <3> QED
      BY <1>0, <2>2, <2>3, <3>1, NoConnApart DEF HoldInv, Exclusive, Stays
  <2>6. Exclusive'
    <3>1. \A q \in Reqs, p \in Reqs : q # p /\ conn'[q] # NoConn => conn'[q] # conn'[p]
      BY <2>2 DEF HoldInv, Exclusive, Stays
    <3>2. pool' # <<>> => waiting' = <<>>
      BY <1>2, <2>1, <2>3 DEF HoldInv, Exclusive
    <3> QED
      BY <2>3, <2>5, <3>1, <3>2 DEF Exclusive, IsInjective, ToSet
  <2>7. IsInjective(waiting)' /\ \A q \in ToSet(waiting)' : phase'[q] = "waiting"
    <3>1. ToSet(waiting)' = ToSet(waiting) /\ ToSet(waiting) \subseteq Reqs
      BY <2>1 DEF ToSet, HoldTypes
    <3> QED
      BY <1>0, <2>1, <2>2, <3>1 DEF HoldInv, IsInjective, Stays, Holding
  <2>8. HoldTypes'
    BY <2>1, <2>2, <2>3 DEF HoldTypes
  <2> QED
    BY <2>2, <2>4, <2>6, <2>7, <2>8 DEF HoldInv
<1> QED
  BY <1>1, <1>2

\* An idle or replaced connection goes to a request that has none.
LEMMA HoldTake ==
    ASSUME HoldTypes, HoldInv, NEW r \in Reqs, NEW c \in Conns, conn[r] = NoConn,
           Take(r, c), \A q \in Reqs : conn[q] # c, c \notin ToSet(pool'),
           waiting' \in Seq(Reqs), IsInjective(waiting'), ToSet(waiting') \subseteq ToSet(waiting) \ {r},
           pool' \in Seq(Conns), IsInjective(pool'), ToSet(pool') \subseteq ToSet(pool),
           pool' # <<>> => waiting' = <<>>
    PROVE  /\ HoldTypes' /\ HoldInv' /\ conn'[r] = c /\ phase'[r] = "held"
           /\ \A q \in Reqs : q = r \/ Stays(q)
<1>1. /\ conn' \in [Reqs -> Conns \cup {NoConn}] /\ phase' \in [Reqs -> Phases]
      /\ conn'[r] = c /\ phase'[r] = "held" /\ \A q \in Reqs : q # r => Stays(q)
  BY DEF Take, HoldTypes, Phases, Stays
<1>2. \A q \in Reqs : conn'[q] # NoConn <=> phase'[q] \in Holding
  BY <1>1, NoConnApart DEF HoldInv, Stays, Holding
<1>3. \A q \in Reqs, p \in Reqs : q # p /\ conn'[q] # NoConn => conn'[q] # conn'[p]
  BY <1>1, NoConnApart DEF HoldInv, Exclusive, Stays
<1>4. \A q \in Reqs : conn'[q] \notin ToSet(pool')
  BY <1>1 DEF HoldInv, Exclusive, Stays
<1>5. Exclusive'
  BY <1>3, <1>4 DEF Exclusive, IsInjective, ToSet
<1>6. IsInjective(waiting)' /\ \A q \in ToSet(waiting)' : phase'[q] = "waiting"
  <2>1. ToSet(waiting)' = ToSet(waiting') /\ ToSet(waiting') \subseteq Reqs
    BY DEF ToSet
  <2> QED
    BY <1>1, <2>1 DEF HoldInv, IsInjective, Stays
<1> QED
  BY <1>1, <1>2, <1>5, <1>6 DEF HoldInv, HoldTypes

\* A request that arrives takes an idle connection or waits.
LEMMA HoldArrive ==
    ASSUME HoldTypes, HoldInv, NEW r \in Reqs, Arrive(r)
    PROVE  /\ HoldTypes' /\ HoldInv' /\ phase'[r] \in {"held", "waiting"}
           /\ phase'[r] = "waiting" => conn'[r] = NoConn
           /\ conn[r] = NoConn /\ \A q \in Reqs : q = r \/ Stays(q)
<1>0. phase[r] = "new" /\ conn[r] = NoConn
  BY DEF Arrive, HoldInv, Holding
<1>1. CASE pool # <<>> /\ Take(r, Head(pool)) /\ pool' = Tail(pool) /\ UNCHANGED waiting
  <2>1. pool \in Seq(Conns) /\ IsInjective(pool) /\ waiting = <<>>
    BY <1>1 DEF HoldTypes, HoldInv, Exclusive
  <2>2. /\ Head(pool) \in Conns /\ Tail(pool) \in Seq(Conns) /\ IsInjective(Tail(pool))
        /\ Head(pool) \in ToSet(pool) /\ ToSet(Tail(pool)) = ToSet(pool) \ {Head(pool)}
    BY <1>1, <2>1, TailKeeps
  <2>3. \A q \in Reqs : conn[q] # Head(pool)
    BY <2>2 DEF HoldInv, Exclusive
  <2>4. waiting' = <<>> /\ waiting' \in Seq(Reqs) /\ IsInjective(waiting') /\ ToSet(waiting') = {}
    BY <1>1, <2>1, EmptyKeeps
  <2>5. PICK c \in Conns : c = Head(pool)
    BY <2>2
  <2> QED
    BY <1>0, <1>1, <2>2, <2>3, <2>4, <2>5, HoldTake
<1>2. CASE /\ pool = <<>> /\ waiting' = Append(waiting, r)
           /\ phase' = [phase EXCEPT ![r] = "waiting"] /\ UNCHANGED <<conn, pool>>
  <2>1. waiting \in Seq(Reqs) /\ IsInjective(waiting) /\ r \notin ToSet(waiting)
    BY <1>0 DEF HoldTypes, HoldInv
  <2>2. /\ waiting' \in Seq(Reqs) /\ IsInjective(waiting') /\ ToSet(waiting') = ToSet(waiting) \cup {r}
    BY <1>2, <2>1, AppendKeeps
  <2>3. /\ phase' \in [Reqs -> Phases] /\ phase'[r] = "waiting" /\ conn'[r] = NoConn
        /\ \A q \in Reqs : q # r => Stays(q)
    BY <1>0, <1>2 DEF HoldTypes, Phases, Stays
  <2>4. \A q \in Reqs : conn'[q] # NoConn <=> phase'[q] \in Holding
    BY <2>3 DEF HoldInv, Stays, Holding
  <2>5. Exclusive'
    BY <1>2 DEF HoldInv, Exclusive, IsInjective, ToSet
  <2>6. IsInjective(waiting)' /\ \A q \in ToSet(waiting)' : phase'[q] = "waiting"
    <3>1. ToSet(waiting)' = ToSet(waiting') /\ ToSet(waiting) \subseteq Reqs
      BY <2>1 DEF ToSet
    <3> QED
      BY <2>2, <2>3, <3>1 DEF HoldInv, IsInjective, Stays
  <2> QED
    BY <1>0, <1>2, <2>2, <2>3, <2>4, <2>5, <2>6 DEF HoldInv, HoldTypes
<1> QED
  BY <1>1, <1>2 DEF Arrive

\* A timeout takes one waiter out of the queue.
LEMMA HoldTimeout ==
    ASSUME HoldTypes, HoldInv, NEW r \in Reqs, PoolTimeout(r)
    PROVE  HoldTypes' /\ HoldInv' /\ phase'[r] = "done" /\ \A q \in Reqs : q = r \/ Stays(q)
<1>1. PICK i \in DOMAIN waiting : waiting[i] = r /\ waiting' = RemoveAt(waiting, i)
  BY DEF PoolTimeout
<1>2. /\ waiting' \in Seq(Reqs) /\ IsInjective(waiting') /\ ToSet(waiting') = ToSet(waiting) \ {r}
      /\ ToSet(waiting) \subseteq Reqs
  <2>1. waiting \in Seq(Reqs) /\ IsInjective(waiting)
    BY DEF HoldTypes, HoldInv
  <2>2. ToSet(waiting) \subseteq Reqs
    BY <2>1 DEF ToSet
  <2> QED
    BY <1>1, <2>1, <2>2, RemoveKeeps
<1>3. /\ phase' \in [Reqs -> Phases] /\ phase'[r] = "done" /\ phase[r] = "waiting"
      /\ conn' = conn /\ pool' = pool /\ \A q \in Reqs : q # r => Stays(q)
  BY DEF PoolTimeout, HoldTypes, Phases, Stays
<1>4. \A q \in Reqs : conn'[q] # NoConn <=> phase'[q] \in Holding
  BY <1>3 DEF HoldInv, Stays, Holding
<1>5. Exclusive'
  <2>1. pool = <<>>
    <3>1. waiting # <<>>
      BY <1>1
    <3> QED
      BY <3>1 DEF HoldInv, Exclusive
  <2> QED
    BY <1>3, <2>1 DEF HoldInv, Exclusive, IsInjective, ToSet
<1>6. IsInjective(waiting)' /\ \A q \in ToSet(waiting)' : phase'[q] = "waiting"
  <2>1. ToSet(waiting)' = ToSet(waiting')
    BY DEF ToSet
  <2> QED
    BY <1>2, <1>3, <2>1 DEF HoldInv, IsInjective, Stays
<1> QED
  BY <1>2, <1>3, <1>4, <1>5, <1>6 DEF HoldInv, HoldTypes

\* A replaced connection goes to the first waiter or becomes idle.
LEMMA HoldReplace ==
    ASSUME HoldTypes, HoldInv, NEW c \in Conns, Replace(c)
    PROVE  /\ HoldTypes' /\ HoldInv'
           /\ \A q \in Reqs : \/ Stays(q)
                              \/ phase[q] = "waiting" /\ phase'[q] = "held" /\ conn'[q] = c
<1>0. c \notin ToSet(pool) /\ \A q \in Reqs : conn[q] # c
  BY DEF Replace, Discarded
<1>1. CASE waiting # <<>> /\ waiting' = Tail(waiting) /\ Take(Head(waiting), c) /\ UNCHANGED pool
  <2>1. waiting \in Seq(Reqs) /\ IsInjective(waiting) /\ pool = <<>>
    BY <1>1 DEF HoldTypes, HoldInv, Exclusive
  <2>2. /\ Head(waiting) \in Reqs /\ Tail(waiting) \in Seq(Reqs) /\ IsInjective(Tail(waiting))
        /\ Head(waiting) \in ToSet(waiting)
        /\ ToSet(Tail(waiting)) = ToSet(waiting) \ {Head(waiting)}
    BY <1>1, <2>1, TailKeeps
  <2>3. PICK w \in Reqs : w = Head(waiting)
    BY <2>2
  <2>4. phase[w] = "waiting" /\ conn[w] = NoConn
    BY <2>2, <2>3 DEF HoldInv, Holding
  <2>5. pool' = <<>> /\ pool' \in Seq(Conns) /\ IsInjective(pool') /\ ToSet(pool') = {}
    BY <1>1, <2>1, EmptyKeeps
  <2> QED
    BY <1>0, <1>1, <2>2, <2>3, <2>4, <2>5, HoldTake
<1>2. CASE waiting = <<>> /\ pool' = Append(pool, c) /\ UNCHANGED <<waiting, conn, phase>>
  <2>1. /\ pool' \in Seq(Conns) /\ IsInjective(pool') /\ ToSet(pool') = ToSet(pool) \cup {c}
    <3>1. pool \in Seq(Conns) /\ IsInjective(pool)
      BY DEF HoldTypes, HoldInv, Exclusive
    <3> QED
      BY <1>0, <1>2, <3>1, AppendKeeps
  <2>2. Exclusive'
    BY <1>0, <1>2, <2>1 DEF HoldInv, Exclusive, IsInjective, ToSet
  <2>3. IsInjective(waiting)' /\ ToSet(waiting)' = ToSet(waiting)
    BY <1>2 DEF HoldInv, IsInjective, ToSet
  <2> QED
    BY <1>2, <2>1, <2>2, <2>3 DEF HoldInv, HoldTypes, Stays
<1> QED
  BY <1>1, <1>2 DEF Replace

\* A commit that is not acknowledged ends its request.
LEMMA HoldDrop ==
    ASSUME HoldTypes, HoldInv, NEW r \in Reqs, NEW c \in Conns, CommitUnacknowledged(r, c)
    PROVE  /\ HoldTypes' /\ HoldInv' /\ conn'[r] = NoConn /\ phase'[r] = "done"
           /\ \A q \in Reqs : q = r \/ Stays(q)
<1>1. /\ conn' = [conn EXCEPT ![r] = NoConn] /\ phase' = [phase EXCEPT ![r] = "done"]
      /\ UNCHANGED <<waiting, pool>> /\ phase[r] \in Holding
  BY DEF CommitUnacknowledged, On, Holding
<1>2. /\ conn' \in [Reqs -> Conns \cup {NoConn}] /\ phase' \in [Reqs -> Phases]
      /\ conn'[r] = NoConn /\ phase'[r] = "done" /\ \A q \in Reqs : q # r => Stays(q)
  BY <1>1 DEF HoldTypes, Phases, Stays
<1>3. \A q \in Reqs : conn'[q] # NoConn <=> phase'[q] \in Holding
  BY <1>2 DEF HoldInv, Stays, Holding
<1>4. \A q \in Reqs, p \in Reqs : q # p /\ conn'[q] # NoConn => conn'[q] # conn'[p]
  BY <1>2 DEF HoldInv, Exclusive, Stays
<1>5. \A q \in Reqs : conn'[q] \notin ToSet(pool)
  <2>1. ToSet(pool) \subseteq Conns
    BY DEF HoldTypes, ToSet
  <2> QED
    BY <1>2, <2>1, NoConnApart DEF HoldInv, Exclusive, Stays
<1>6. Exclusive'
  BY <1>1, <1>4, <1>5 DEF HoldInv, Exclusive, IsInjective, ToSet
<1>7. IsInjective(waiting)' /\ \A q \in ToSet(waiting)' : phase'[q] = "waiting"
  <2>1. ToSet(waiting)' = ToSet(waiting) /\ ToSet(waiting) \subseteq Reqs
    BY <1>1 DEF ToSet, HoldTypes
  <2> QED
    BY <1>1, <1>2, <2>1 DEF HoldInv, IsInjective, Stays, Holding
<1> QED
  BY <1>1, <1>2, <1>3, <1>6, <1>7 DEF HoldInv, HoldTypes

\* Where a request's own step leaves it: in a phase, with its connection or
\* without, and its connection with the first waiter.
Moved(r, c) ==
    \A q \in Reqs : \/ q = r \/ Stays(q)
                    \/ phase[q] = "waiting" /\ phase'[q] = "held" /\ conn'[q] = c

\* A statement leaves the request its connection.
LEMMA HoldPhase ==
    ASSUME HoldTypes, HoldInv, NEW r \in Reqs, NEW c \in Conns, NEW ph \in Phases,
           On(r, c, ph), ph \in Holding, NEW to \in Holding,
           phase' = [phase EXCEPT ![r] = to], UNCHANGED <<conn, waiting, pool>>
    PROVE  HoldTypes' /\ HoldInv' /\ Moved(r, c) /\ conn'[r] = c /\ phase'[r] = to
<1>1. phase[r] = ph /\ conn[r] = c /\ to \in Phases /\ ph # "waiting"
  BY DEF On, Holding, Phases
<1>2. phase'[r] = to /\ Moved(r, c)
  BY <1>1 DEF Moved, Stays, HoldTypes
<1> QED
  BY <1>1, <1>2, HoldAdvance

\* The steps of a request on its connection, in four forms: it goes on, it
\* enters or writes, it ends its transaction and goes on, or it leaves.
GoesOn(r, c) == EnterScope(r, c) \/ Read(r, c) \/ InsertEvent(r, c) \/ Login(r, c)
                \/ CreateRule(r, c) \/ PatchRule(r, c) \/ CommitEvent(r, c)

\* So does every step in which it goes on.
LEMMA HoldGoesOn ==
    ASSUME HoldTypes, HoldInv, NEW r \in Reqs, NEW c \in Conns, GoesOn(r, c)
    PROVE  /\ HoldTypes' /\ HoldInv' /\ Moved(r, c) /\ conn[r] = c /\ conn'[r] = c
           /\ phase'[r] \in {"scoped", "ran", "inserted"}
<1>1. UNCHANGED <<conn, waiting, pool>>
  BY DEF GoesOn, EnterScope, Read, InsertEvent, Login, CreateRule, PatchRule, WriteRule, CommitEvent
<1>2. ASSUME NEW ph \in {"held", "scoped", "inserted"}, NEW to \in {"scoped", "ran", "inserted"},
             On(r, c, ph), phase' = [phase EXCEPT ![r] = to]
      PROVE  /\ HoldTypes' /\ HoldInv' /\ Moved(r, c) /\ conn[r] = c /\ conn'[r] = c
             /\ phase'[r] \in {"scoped", "ran", "inserted"}
  <2>1. ph \in Phases /\ ph \in Holding /\ to \in Holding
    BY DEF Phases, Holding
  <2> QED
    BY <1>1, <1>2, <2>1, HoldPhase DEF On
<1>3. \E ph \in {"held", "scoped", "inserted"}, to \in {"scoped", "ran", "inserted"} :
         On(r, c, ph) /\ phase' = [phase EXCEPT ![r] = to]
  BY DEF GoesOn, EnterScope, Read, InsertEvent, Login, CreateRule, PatchRule, WriteRule, CommitEvent
<1> QED
  BY <1>2, <1>3

Raises(r, c) == Refuse(r, c) \/ CreateConflicts(r, c) \/ PatchMissing(r, c)

\* Every HTTPException ends the transaction and gives the connection back.
LEMMA RaiseFacts ==
    ASSUME NEW r \in Reqs, NEW c \in Conns, Raises(r, c)
    PROVE  /\ conn[r] = c /\ EndTx(c) /\ UNCHANGED <<job, seen, before, alive, store, breaks>>
           /\ \E good \in BOOLEAN : GiveBack(r, c, "done", good)
           /\ \E a \in {"error", "conflict", "missing"} : reply' = [reply EXCEPT ![r] = a]
<1>1. \E a \in {"error", "conflict", "missing"} : Raise(r, c, a) /\ conn[r] = c
  BY DEF Raises, Refuse, CreateConflicts, PatchMissing, On
<1>2. (alive[c] \/ ~InTx(r)) \in BOOLEAN
  OBVIOUS
<1> QED
  BY <1>1, <1>2 DEF Raise

Leaves(r, c) == Raises(r, c) \/ StatementFails(r, c) \/ Leave(r, c) \/ LeaveFails(r, c)

\* Whichever way a request leaves, its connection is given back.
LEMMA HoldLeaves ==
    ASSUME HoldTypes, HoldInv, NEW r \in Reqs, NEW c \in Conns, Leaves(r, c)
    PROVE  /\ HoldTypes' /\ HoldInv' /\ Moved(r, c) /\ conn[r] = c /\ conn'[r] = NoConn
           /\ phase'[r] \in {"left", "done"}
<1>1. conn[r] = c
  <2>1. CASE Raises(r, c)
    BY <2>1, RaiseFacts
  <2>2. CASE StatementFails(r, c) \/ Leave(r, c) \/ LeaveFails(r, c)
    BY <2>2 DEF StatementFails, Leave, LeaveFails, On
  <2> QED
    BY <2>1, <2>2 DEF Leaves
<1>2. \E ph \in {"left", "done"} : \E good \in BOOLEAN : GiveBack(r, c, ph, good)
  <2>1. CASE Raises(r, c)
    BY <2>1, RaiseFacts
  <2>2. CASE StatementFails(r, c) \/ Leave(r, c) \/ LeaveFails(r, c)
    BY <2>2 DEF StatementFails, Leave, LeaveFails
  <2> QED
    BY <2>1, <2>2 DEF Leaves
<1>3. /\ HoldTypes' /\ HoldInv' /\ conn'[r] = NoConn /\ phase'[r] \in {"left", "done"}
      /\ \A q \in Reqs : \/ q = r \/ Stays(q)
                         \/ phase[q] = "waiting" /\ phase'[q] = "held" /\ conn'[q] = c
  <2>1. PICK ph \in {"left", "done"}, good \in BOOLEAN : GiveBack(r, c, ph, good)
    BY <1>2
  <2>2. /\ HoldTypes' /\ HoldInv' /\ conn'[r] = NoConn /\ phase'[r] = ph
        /\ \A q \in Reqs : \/ q = r \/ Stays(q)
                           \/ phase[q] = "waiting" /\ phase'[q] = "held" /\ conn'[q] = c
    BY <1>1, <2>1, HoldGiveBack
  <2> QED
    BY <2>2
<1> QED
  BY <1>1, <1>3 DEF Moved

\* A reply changes no holder.
LEMMA HoldReply ==
    ASSUME HoldTypes, HoldInv, NEW r \in Reqs, Reply(r)
    PROVE  /\ HoldTypes' /\ HoldInv' /\ conn' = conn /\ \A q \in Reqs : q = r \/ Stays(q)
           /\ phase'[r] = IF phase[r] = "ran" THEN "replied" ELSE "done"
<1>1. /\ phase' = [phase EXCEPT ![r] = IF phase[r] = "ran" THEN "replied" ELSE "done"]
      /\ UNCHANGED <<conn, waiting, pool>> /\ phase[r] \in {"ran", "left"}
  BY DEF Reply
<1>2. \E ph \in Phases : /\ phase' = [phase EXCEPT ![r] = ph] /\ phase[r] # "waiting"
                         /\ phase[r] \in Holding <=> ph \in Holding
  BY <1>1 DEF Phases, Holding
<1>3. HoldTypes' /\ HoldInv'
  BY <1>1, <1>2, HoldAdvance
<1> QED
  BY <1>1, <1>3 DEF Stays, HoldTypes

\* Nor does a step that only the server sees.
LEMMA HoldSame ==
    ASSUME HoldTypes, HoldInv, UNCHANGED <<phase, conn, waiting, pool>>
    PROVE  HoldTypes' /\ HoldInv'
  BY DEF HoldTypes, HoldInv, Exclusive, IsInjective, ToSet

\* A handler's steps are of these forms.
LEMMA HandlerForms ==
    ASSUME NEW r \in Reqs, Handler(r)
    PROVE  Reply(r) \/ \E c \in Conns : GoesOn(r, c) \/ Leaves(r, c)
  BY DEF Handler, Proceed, GoesOn, Leaves, Raises

\* Every step keeps holders and waiters.
LEMMA HoldStep == ASSUME HoldTypes, HoldInv, [Next]_vars PROVE HoldTypes' /\ HoldInv'
<1>1. CASE \E r \in Reqs : Arrive(r) \/ PoolTimeout(r) \/ \E c \in Conns : CommitUnacknowledged(r, c)
  BY <1>1, HoldArrive, HoldTimeout, HoldDrop
<1>2. CASE \E r \in Reqs : Handler(r)
  BY <1>2, HandlerForms, HoldReply, HoldGoesOn, HoldLeaves
<1>3. CASE \E c \in Conns : Replace(c)
  BY <1>3, HoldReplace
<1>4. CASE (\E c \in Conns : Break(c)) \/ UNCHANGED vars
  <2>1. UNCHANGED <<phase, conn, waiting, pool>>
    BY <1>4 DEF Break, vars, client
  <2> QED
    BY <2>1, HoldSame
<1> QED
  BY <1>1, <1>2, <1>3, <1>4 DEF Next
-----------------------------------------------------------------------------
(* Types                                                                   *)

DbTypes ==
    /\ job \in [Reqs -> [kind : AllKinds, tenant : Tenants, target : Tenants] \cup {NoJob}]
    /\ reply \in [Reqs -> {"none", "ok", "error", "conflict", "missing"}]
    /\ seen \in [Reqs -> SUBSET Rows] /\ before \in [Reqs -> SUBSET Rows]
    /\ setting \in [Conns -> Tenants \cup {Blank}] /\ open \in [Conns -> BOOLEAN]
    /\ pending \in [Conns -> SUBSET Rows] /\ alive \in [Conns -> BOOLEAN]
    /\ store \subseteq Rows /\ breaks \in 0..MaxBreaks

\* The types, without and with the database.
LEMMA TypeParts == TypeOK <=> HoldTypes /\ DbTypes
  BY DEF TypeOK, HoldTypes, DbTypes

\* A request that came has a tenant, and names a tenant's rule.
LEMMA JobType ==
    ASSUME DbTypes, NEW r \in Reqs, job[r].kind \in AllKinds
    PROVE  job[r].tenant \in Tenants /\ job[r].target \in Tenants
<1>1. "none" \notin AllKinds
  BY DEF AllKinds
<1>2. job[r] # NoJob
  BY <1>1 DEF NoJob
<1> QED
  BY <1>2 DEF DbTypes

\* What a request writes is a row.
LEMMA RowType ==
    ASSUME NEW table \in {"events", "rules"}, NEW t \in Tenants, NEW r \in Reqs
    PROVE  [table |-> table, tenant |-> t, by |-> r] \in Rows
  BY DEF Rows

\* A commit leaves rows,
LEMMA CommittedType == ASSUME DbTypes, NEW c \in Conns PROVE Committed(c) \subseteq Rows
  BY DEF DbTypes, Committed

\* the end of a transaction nothing of it,
LEMMA EndTxFacts ==
    ASSUME DbTypes, NEW c \in Conns, EndTx(c)
    PROVE  /\ setting' \in [Conns -> Tenants \cup {Blank}] /\ open' \in [Conns -> BOOLEAN]
           /\ pending' \in [Conns -> SUBSET Rows]
           /\ setting'[c] = Blank /\ ~open'[c] /\ pending'[c] = {}
           /\ \A d \in Conns : d # c => /\ setting'[d] = setting[d] /\ open'[d] = open[d]
                                        /\ pending'[d] = pending[d]
  BY DEF DbTypes, EndTx, SettingEnds

\* and what was acknowledged are rows.
LEMMA AckedType == ASSUME DbTypes PROVE Acked \subseteq Rows
<1>1. ASSUME NEW r \in Reqs, job[r].kind = "ingest"
      PROVE  [table |-> "events", tenant |-> job[r].tenant, by |-> r] \in Rows
  <2>1. job[r].tenant \in Tenants
    BY <1>1, JobType DEF AllKinds
  <2> QED
    BY <2>1, RowType
<1> QED
  BY <1>1 DEF Acked

\* Every step keeps the types.
LEMMA TypeStep == ASSUME HoldTypes, DbTypes, HoldInv, [Next]_vars PROVE DbTypes'
<1> USE DEF DbTypes
<1>1. ASSUME NEW r \in Reqs, Arrive(r) PROVE DbTypes'
  <2>1. PICK k \in Kinds[r], t \in Tenants, u \in Tenants :
           job' = [job EXCEPT ![r] = [kind |-> k, tenant |-> t, target |-> u]]
    BY <1>1 DEF Arrive
  <2>2. k \in AllKinds
    BY PoolAssumption DEF Reqs
  <2>3. job' \in [Reqs -> [kind : AllKinds, tenant : Tenants, target : Tenants] \cup {NoJob}]
    BY <2>1, <2>2
  <2>4. before' \in [Reqs -> SUBSET Rows]
    BY <1>1, AckedType DEF Arrive
  <2> QED
    BY <1>1, <2>3, <2>4 DEF Arrive, db
<1>2. ASSUME NEW r \in Reqs, PoolTimeout(r) \/ Reply(r) PROVE DbTypes'
  BY <1>2 DEF PoolTimeout, Reply, db
<1>3. ASSUME NEW r \in Reqs, NEW c \in Conns, GoesOn(r, c) PROVE DbTypes'
  <2>1. CASE EnterScope(r, c)
    <3>1. job[r].tenant \in Tenants
      BY <2>1, JobType DEF EnterScope, Scoped, AllKinds
    <3> QED
      BY <2>1, <3>1 DEF EnterScope
  <2>2. CASE Read(r, c)
    BY <2>2 DEF Read, db, Visible
  <2>3. CASE InsertEvent(r, c)
    <3>1. job[r].tenant \in Tenants
      BY <2>3, JobType DEF InsertEvent, AllKinds
    <3>2. [table |-> "events", tenant |-> job[r].tenant, by |-> r] \in Rows
      BY <3>1, RowType
    <3> QED
      BY <2>3, <3>1, <3>2 DEF InsertEvent
  <2>4. CASE Login(r, c)
    BY <2>4 DEF Login
  <2>5. ASSUME NEW t \in Tenants, WriteRule(r, c, t) PROVE DbTypes'
    <3>1. [table |-> "rules", tenant |-> t, by |-> r] \in Rows
      BY RowType
    <3> QED
      BY <2>5, <3>1 DEF WriteRule
  <2>6. CASE CreateRule(r, c) \/ PatchRule(r, c)
    <3>1. job[r].tenant \in Tenants /\ job[r].target \in Tenants
      BY <2>6, JobType DEF CreateRule, PatchRule, AllKinds
    <3> QED
      BY <2>5, <2>6, <3>1 DEF CreateRule, PatchRule
  <2>7. CASE CommitEvent(r, c)
    BY <2>7, EndTxFacts, CommittedType DEF CommitEvent
  <2> QED
    BY <1>3, <2>1, <2>2, <2>3, <2>4, <2>6, <2>7 DEF GoesOn
<1>4. ASSUME NEW r \in Reqs, NEW c \in Conns, Leaves(r, c) PROVE DbTypes'
  <2>1. CASE Raises(r, c)
    BY <2>1, RaiseFacts, EndTxFacts
  <2>2. CASE StatementFails(r, c) \/ LeaveFails(r, c)
    BY <2>2 DEF StatementFails, LeaveFails, db
  <2>3. CASE Leave(r, c)
    BY <2>3, EndTxFacts, CommittedType DEF Leave
  <2> QED
    BY <1>4, <2>1, <2>2, <2>3 DEF Leaves
<1>5. ASSUME NEW r \in Reqs, NEW c \in Conns, CommitUnacknowledged(r, c) PROVE DbTypes'
  <2>1. breaks' \in 0..MaxBreaks
    BY <1>5, PoolAssumption DEF CommitUnacknowledged
  <2>2. EndTx(c) /\ store' \subseteq Rows
    BY <1>5, CommittedType DEF CommitUnacknowledged
  <2>3. reply' \in [Reqs -> {"none", "ok", "error", "conflict", "missing"}]
    BY <1>5 DEF CommitUnacknowledged
  <2>4. alive' \in [Conns -> BOOLEAN] /\ UNCHANGED <<job, seen, before>>
    BY <1>5 DEF CommitUnacknowledged
  <2>5. /\ setting' \in [Conns -> Tenants \cup {Blank}] /\ open' \in [Conns -> BOOLEAN]
        /\ pending' \in [Conns -> SUBSET Rows]
    BY <2>2, EndTxFacts
  <2> QED
    BY <2>1, <2>2, <2>3, <2>4, <2>5
<1>6. ASSUME NEW c \in Conns, Replace(c) PROVE DbTypes'
  BY <1>6 DEF Replace
<1>7. ASSUME NEW c \in Conns, Break(c) PROVE DbTypes'
  <2>1. breaks' \in 0..MaxBreaks
    BY <1>7, PoolAssumption DEF Break
  <2> QED
    BY <1>7, <2>1, EndTxFacts DEF Break, client
<1>8. CASE UNCHANGED vars
  BY <1>8 DEF vars, client, db
<1>9. ASSUME NEW r \in Reqs, Handler(r) PROVE DbTypes'
  BY <1>2, <1>3, <1>4, <1>9, HandlerForms
<1> QED
  BY <1>1, <1>2, <1>5, <1>6, <1>7, <1>8, <1>9 DEF Next
-----------------------------------------------------------------------------
(* A connection nobody uses is blank.                                      *)

SameConn(d) ==
    /\ setting'[d] = setting[d] /\ open'[d] = open[d] /\ pending'[d] = pending[d]
    /\ alive[d] => alive'[d]

StillUsed(d) == \A q \in Reqs : conn[q] = d /\ phase[q] # "held" => conn'[q] = d /\ phase'[q] # "held"

\* A connection stays blank if it ends, stays as it was, or is in use.
LEMMA FreshFrom ==
    ASSUME FreshInv,
           \A d \in Conns : \/ setting'[d] = Blank /\ ~open'[d] /\ pending'[d] = {}
                            \/ SameConn(d) /\ StillUsed(d)
                            \/ alive'[d] /\ \E q \in Reqs : conn'[q] = d /\ phase'[q] # "held"
    PROVE  FreshInv'
<1>1. ASSUME NEW d \in Conns, SameConn(d), StillUsed(d)
      PROVE  /\ (\A q \in Reqs : conn'[q] = d => phase'[q] = "held")
                   => setting'[d] = Blank /\ ~open'[d] /\ pending'[d] = {}
             /\ ~alive'[d] => setting'[d] = Blank /\ ~open'[d] /\ pending'[d] = {}
  BY <1>1 DEF FreshInv, FreshIsBlank, Unused, SameConn, StillUsed
<1>2. ASSUME NEW d \in Conns
      PROVE  /\ (\A q \in Reqs : conn'[q] = d => phase'[q] = "held")
                   => setting'[d] = Blank /\ ~open'[d] /\ pending'[d] = {}
             /\ ~alive'[d] => setting'[d] = Blank /\ ~open'[d] /\ pending'[d] = {}
  BY <1>1, <1>2
<1> QED
  BY <1>2 DEF FreshInv, FreshIsBlank, Unused

\* The connections a request's step leaves alone keep their users.
LEMMA MovedUsed ==
    ASSUME HoldTypes, HoldInv, NEW r \in Reqs, NEW c \in Conns, Moved(r, c), conn[r] \in {c, NoConn}
    PROVE  \A d \in Conns : d # c => StillUsed(d)
<1>1. ASSUME NEW d \in Conns, d # c, NEW q \in Reqs, conn[q] = d, phase[q] # "held"
      PROVE  conn'[q] = d /\ phase'[q] # "held"
  <2>1. q # r /\ conn[q] # NoConn
    BY <1>1, NoConnApart
  <2>2. phase[q] # "waiting"
    BY <2>1 DEF HoldInv, Holding
  <2> QED
    BY <1>1, <2>1, <2>2 DEF Moved, Stays
<1> QED
  BY <1>1 DEF StillUsed

\* Every step keeps unused and lost connections blank.
LEMMA FreshStep ==
    ASSUME HoldTypes, DbTypes, HoldInv, FreshInv, [Next]_vars
    PROVE  FreshInv'
<1>0. ASSUME UNCHANGED <<setting, open, pending, alive>>, NEW r \in Reqs, conn[r] = NoConn,
             \A q \in Reqs : q = r \/ Stays(q)
      PROVE  FreshInv'
  BY <1>0, NoConnApart, FreshFrom DEF SameConn, StillUsed, Stays
<1>1. CASE \E r \in Reqs : Arrive(r)
  <2>1. UNCHANGED <<setting, open, pending, alive>>
    BY <1>1 DEF Arrive, db
  <2> QED
    BY <1>0, <1>1, <2>1, HoldArrive
<1>2. CASE \E r \in Reqs : PoolTimeout(r)
  <2>1. PICK r \in Reqs : PoolTimeout(r)
    BY <1>2
  <2>2. UNCHANGED <<setting, open, pending, alive>> /\ conn[r] = NoConn
    BY <2>1 DEF PoolTimeout, db, HoldInv, Holding
  <2> QED
    BY <1>0, <2>1, <2>2, HoldTimeout
<1>3. ASSUME NEW r \in Reqs, Reply(r) PROVE FreshInv'
  <2>1. UNCHANGED <<setting, open, pending, alive>> /\ phase'[r] # "held"
    BY <1>3, HoldReply DEF Reply, db
  <2>2. \A d \in Conns : SameConn(d) /\ StillUsed(d)
    BY <1>3, <2>1, HoldReply DEF SameConn, StillUsed, Stays
  <2> QED
    BY <2>2, FreshFrom
<1>4. ASSUME NEW r \in Reqs, NEW c \in Conns, GoesOn(r, c) PROVE FreshInv'
  <2>1. /\ conn[r] = c /\ conn'[r] = c /\ phase'[r] # "held"
        /\ \A d \in Conns : d # c => StillUsed(d)
    BY <1>4, HoldGoesOn, MovedUsed
  <2>2. CASE CommitEvent(r, c)
    <3>1. /\ setting'[c] = Blank /\ ~open'[c] /\ pending'[c] = {} /\ alive' = alive
          /\ \A d \in Conns : d # c => SameConn(d)
      BY <2>2, EndTxFacts DEF CommitEvent, SameConn
    <3> QED
      BY <2>1, <3>1, FreshFrom
  <2>3. CASE ~CommitEvent(r, c)
    <3>1. alive[c] /\ alive' = alive
      BY <1>4, <2>3 DEF GoesOn, EnterScope, Read, InsertEvent, Login, CreateRule, PatchRule,
                        WriteRule, db
    <3>2. \A d \in Conns : d # c => SameConn(d)
      BY <1>4, <2>3 DEF GoesOn, EnterScope, Read, InsertEvent, Login, CreateRule, PatchRule,
                        WriteRule, db, SameConn, DbTypes
    <3> QED
      BY <2>1, <3>1, <3>2, FreshFrom
  <2> QED
    BY <2>2, <2>3
<1>5. ASSUME NEW r \in Reqs, NEW c \in Conns, Leaves(r, c) PROVE FreshInv'
  <2>1. \A d \in Conns : d # c => StillUsed(d)
    BY <1>5, HoldLeaves, MovedUsed
  <2>2. CASE Raises(r, c) \/ Leave(r, c)
    <3>1. EndTx(c) /\ alive' = alive
      BY <2>2, RaiseFacts DEF Leave
    <3>2. /\ setting'[c] = Blank /\ ~open'[c] /\ pending'[c] = {}
          /\ \A d \in Conns : d # c => SameConn(d)
      BY <3>1, EndTxFacts DEF SameConn
    <3> QED
      BY <2>1, <3>2, FreshFrom
  <2>3. CASE StatementFails(r, c) \/ LeaveFails(r, c)
    <3>1. ~alive[c] /\ UNCHANGED <<setting, open, pending, alive>>
      BY <2>3 DEF StatementFails, LeaveFails, db
    <3>2. /\ setting'[c] = Blank /\ ~open'[c] /\ pending'[c] = {}
          /\ \A d \in Conns : d # c => SameConn(d)
      BY <3>1 DEF FreshInv, Unused, SameConn
    <3> QED
      BY <2>1, <3>2, FreshFrom
  <2> QED
    BY <1>5, <2>2, <2>3 DEF Leaves
<1>6. ASSUME NEW r \in Reqs, NEW c \in Conns, CommitUnacknowledged(r, c) PROVE FreshInv'
  <2>1. conn[r] = c /\ EndTx(c) /\ alive' = [alive EXCEPT ![c] = FALSE]
    BY <1>6 DEF CommitUnacknowledged, On
  <2>2. \A d \in Conns : d # c => StillUsed(d)
    BY <1>6, <2>1, HoldDrop, MovedUsed DEF Moved
  <2>3. /\ setting'[c] = Blank /\ ~open'[c] /\ pending'[c] = {}
        /\ \A d \in Conns : d # c => SameConn(d)
    BY <2>1, EndTxFacts DEF SameConn, DbTypes
  <2> QED
    BY <2>2, <2>3, FreshFrom
<1>7. ASSUME NEW c \in Conns, Replace(c) PROVE FreshInv'
  <2>1. /\ ~alive[c] /\ alive' = [alive EXCEPT ![c] = TRUE] /\ UNCHANGED <<setting, open, pending>>
    BY <1>7 DEF Replace, Discarded
  <2>2. /\ setting'[c] = Blank /\ ~open'[c] /\ pending'[c] = {}
        /\ \A d \in Conns : d # c => SameConn(d)
    BY <2>1 DEF FreshInv, Unused, SameConn, DbTypes
  <2>3. \A d \in Conns : d # c => StillUsed(d)
    <3>1. ASSUME NEW q \in Reqs, conn[q] # NoConn PROVE Stays(q)
      <4>1. phase[q] # "waiting"
        BY <3>1 DEF HoldInv, Holding
      <4> QED
        BY <1>7, <4>1, HoldReplace
    <3> QED
      BY <3>1, NoConnApart DEF StillUsed, Stays
  <2> QED
    BY <2>2, <2>3, FreshFrom
<1>8. ASSUME NEW c \in Conns, Break(c) PROVE FreshInv'
  <2>1. EndTx(c) /\ alive' = [alive EXCEPT ![c] = FALSE] /\ UNCHANGED <<phase, conn>>
    BY <1>8 DEF Break, client
  <2>2. /\ setting'[c] = Blank /\ ~open'[c] /\ pending'[c] = {}
        /\ \A d \in Conns : d # c => SameConn(d) /\ StillUsed(d)
    BY <2>1, EndTxFacts DEF SameConn, StillUsed, DbTypes
  <2> QED
    BY <2>2, FreshFrom
<1>9. CASE UNCHANGED vars
  <2>1. \A d \in Conns : SameConn(d) /\ StillUsed(d)
    BY <1>9 DEF vars, client, db, SameConn, StillUsed
  <2> QED
    BY <2>1, FreshFrom
<1>10. ASSUME NEW r \in Reqs, Handler(r) PROVE FreshInv'
  BY <1>3, <1>4, <1>5, <1>10, HandlerForms
<1> QED
  BY <1>1, <1>2, <1>6, <1>7, <1>8, <1>9, <1>10 DEF Next
-----------------------------------------------------------------------------
(* Whose rows a connection writes                                          *)

JobKept == \A q \in Reqs : phase[q] # "new" => job'[q] = job[q]

\* The request whose transaction has rows on c is the one that holds c.
LEMMA PendingOf ==
    ASSUME HoldInv, RowInv, NEW r \in Reqs, NEW c \in Conns, conn[r] = c
    PROVE  /\ \A x \in pending[c] : x.by = r /\ RowOf(x) /\ phase[r] \in {"inserted", "ran", "replied"}
           /\ \A d \in Conns \ {c} : \A x \in pending[d] : x.by # r
<1>1. \A d \in Conns : \A x \in pending[d] : x.by \in Reqs /\ conn[x.by] = d
  BY DEF RowInv, RowOf, Rows
<1>2. \A q \in Reqs : conn[q] = c => q = r
  BY NoConnApart DEF HoldInv, Exclusive
<1> QED
  BY <1>1, <1>2 DEF RowInv

\* A row stays of its request, which does not change.
LEMMA RowOfKept ==
    ASSUME JobKept, RowInv, NEW x, x \in store \/ \E d \in Conns : x \in pending[d]
    PROVE  RowOf(x) /\ RowOf(x)' /\ x.by \in Reqs
<1>1. RowOf(x) /\ x.by \in Reqs /\ phase[x.by] # "new"
  BY DEF RowInv, RowOf, Rows
<1> QED
  BY <1>1 DEF JobKept, RowOf

\* Steps that change no row.
Settles(q) ==
    /\ phase'[q] # "scoped"
    /\ phase[q] \in {"ran", "replied", "left", "done"}
          => phase'[q] \in {"ran", "replied", "left", "done"}
    /\ \A d \in Conns : \A x \in pending[d] :
          x.by = q => conn'[q] = d /\ phase'[q] \in {"inserted", "ran", "replied"}

\* A step that writes no row keeps them.
LEMMA RowIdle ==
    ASSUME DbTypes, RowInv, UNCHANGED <<setting, pending, store>>, JobKept,
           \A q \in Reqs : Stays(q) \/ Settles(q),
           \A d \in Conns : alive'[d] /\ ~alive[d]
                               => \A q \in Reqs : conn'[q] = d => phase'[q] # "scoped"
    PROVE  RowInv'
<1>1. ASSUME NEW r \in Reqs, NEW c \in Conns, conn'[r] = c, phase'[r] = "scoped", alive'[c]
      PROVE  setting'[c] = job'[r].tenant
  <2>1. alive[c] /\ conn[r] = c /\ phase[r] = "scoped"
    BY <1>1 DEF Stays, Settles
  <2> QED
    BY <2>1 DEF RowInv, JobKept
<1>2. ASSUME NEW c \in Conns, NEW x \in pending[c]
      PROVE  RowOf(x)' /\ conn'[x.by] = c /\ phase'[x.by] \in {"inserted", "ran", "replied"}
  <2>1. RowOf(x)' /\ x.by \in Reqs
    BY <1>2, RowOfKept
  <2> QED
    BY <1>2, <2>1 DEF RowInv, Stays, Settles
<1>3. ASSUME NEW x \in store
      PROVE  RowOf(x)' /\ phase'[x.by] \in {"ran", "replied", "left", "done"}
  <2>1. RowOf(x)' /\ x.by \in Reqs
    BY <1>3, RowOfKept
  <2> QED
    BY <1>3, <2>1 DEF RowInv, Stays, Settles
<1> QED
  BY <1>1, <1>2, <1>3 DEF RowInv

\* A request enters its scope or writes its row.
LEMMA RowWrite ==
    ASSUME DbTypes, HoldTypes, HoldInv, RowInv, UNCHANGED <<store, job, alive>>,
           NEW r \in Reqs, NEW c \in Conns, conn[r] = c, conn'[r] = c, Moved(r, c),
           phase[r] \in {"held", "scoped"}, phase'[r] \in {"scoped", "inserted", "ran"},
           phase'[r] = "scoped" => setting'[c] = job[r].tenant,
           \A d \in Conns : d # c => setting'[d] = setting[d] /\ pending'[d] = pending[d],
           \A x \in pending'[c] : \/ x \in pending[c]
                                  \/ RowOf(x) /\ x.by = r /\ phase'[r] # "scoped"
    PROVE  RowInv'
<1>1. pending[c] = {} /\ \A d \in Conns \ {c} : \A x \in pending[d] : x.by # r
  BY PendingOf
<1>2. \A x \in store : x.by # r
  BY DEF RowInv
<1>3. JobKept
  BY DEF JobKept
<1>4. \A q \in Reqs : q # r /\ phase[q] # "waiting" => Stays(q) /\ conn[q] # c
  BY NoConnApart DEF Moved, HoldInv, Exclusive
<1>5. ASSUME NEW q \in Reqs, NEW d \in Conns, conn'[q] = d, phase'[q] = "scoped", alive'[d]
      PROVE  setting'[d] = job'[q].tenant
  <2>1. CASE q = r
    BY <1>5, <2>1
  <2>2. CASE q # r
    <3>1. Stays(q) /\ phase[q] = "scoped"
      BY <1>5, <2>2 DEF Moved, Stays
    <3>2. conn[q] = d /\ d # c
      BY <1>4, <1>5, <2>2, <3>1 DEF Stays
    <3> QED
      BY <1>5, <3>1, <3>2 DEF RowInv
  <2> QED
    BY <2>1, <2>2
<1>6. ASSUME NEW d \in Conns, NEW x \in pending'[d]
      PROVE  /\ RowOf(x)' /\ conn'[x.by] = d /\ phase'[x.by] \in {"inserted", "ran", "replied"}
             /\ \A y \in store : x.by # y.by
  <2>1. CASE d = c
    <3>1. RowOf(x) /\ x.by = r /\ phase'[r] # "scoped"
      BY <1>1, <1>6, <2>1
    <3>2. RowOf(x)'
      BY <3>1 DEF RowOf
    <3> QED
      BY <1>2, <2>1, <3>1, <3>2
  <2>2. CASE d # c
    <3>1. x \in pending[d] /\ RowOf(x)' /\ x.by \in Reqs /\ x.by # r
      BY <1>1, <1>3, <1>6, <2>2, RowOfKept
    <3>2. Stays(x.by)
      BY <1>4, <3>1 DEF RowInv
    <3> QED
      BY <3>1, <3>2 DEF RowInv, Stays
  <2> QED
    BY <2>1, <2>2
<1>7. ASSUME NEW x \in store
      PROVE  RowOf(x)' /\ phase'[x.by] \in {"ran", "replied", "left", "done"}
  <2>1. RowOf(x)' /\ x.by \in Reqs /\ x.by # r
    BY <1>2, <1>3, <1>7, RowOfKept
  <2>2. Stays(x.by)
    BY <1>4, <1>7, <2>1 DEF RowInv
  <2> QED
    BY <1>7, <2>1, <2>2 DEF RowInv, Stays
<1> QED
  BY <1>5, <1>6, <1>7 DEF RowInv

\* A transaction ends, and with it what its connection carried.
LEMMA RowEnd ==
    ASSUME DbTypes, HoldTypes, HoldInv, RowInv, UNCHANGED job, \A d \in Conns : alive'[d] => alive[d],
           NEW r \in Reqs, NEW c \in Conns, conn[r] = c, EndTx(c), Moved(r, c),
           phase'[r] \in {"ran", "left", "done"}, store' = store \/ store' = Committed(c)
    PROVE  RowInv'
<1>1. /\ \A x \in pending[c] : x.by = r /\ RowOf(x)
      /\ \A d \in Conns \ {c} : \A x \in pending[d] : x.by # r
  BY PendingOf
<1>2. \A x \in store' : x \in store \/ x \in pending[c]
  BY DEF Committed
<1>3. JobKept
  BY DEF JobKept
<1>4. \A q \in Reqs : q # r /\ phase[q] # "waiting" => Stays(q) /\ conn[q] # c
  BY NoConnApart DEF Moved, HoldInv, Exclusive
<1>e. pending'[c] = {} /\ \A d \in Conns : d # c => setting'[d] = setting[d] /\ pending'[d] = pending[d]
  BY EndTxFacts
<1>5. ASSUME NEW q \in Reqs, NEW d \in Conns, conn'[q] = d, phase'[q] = "scoped", alive'[d]
      PROVE  setting'[d] = job'[q].tenant
  <2>1. Stays(q) /\ phase[q] = "scoped" /\ q # r
    BY <1>5 DEF Moved, Stays
  <2>2. conn[q] = d /\ d # c
    BY <1>4, <1>5, <2>1 DEF Stays
  <2> QED
    BY <1>5, <1>e, <2>1, <2>2 DEF RowInv
<1>6. ASSUME NEW d \in Conns, NEW x \in pending'[d]
      PROVE  /\ RowOf(x)' /\ conn'[x.by] = d /\ phase'[x.by] \in {"inserted", "ran", "replied"}
             /\ \A y \in store' : x.by # y.by
  <2>1. d # c /\ x \in pending[d]
    BY <1>6, <1>e
  <2>2. RowOf(x)' /\ x.by \in Reqs /\ x.by # r
    BY <1>1, <1>3, <2>1, RowOfKept
  <2>3. Stays(x.by)
    BY <1>4, <2>1, <2>2 DEF RowInv
  <2>4. \A y \in store' : x.by # y.by
    BY <1>1, <1>2, <2>1, <2>2 DEF RowInv
  <2> QED
    BY <2>1, <2>2, <2>3, <2>4 DEF RowInv, Stays
<1>7. ASSUME NEW x \in store'
      PROVE  RowOf(x)' /\ phase'[x.by] \in {"ran", "replied", "left", "done"}
  <2>1. RowOf(x)' /\ x.by \in Reqs
    BY <1>2, <1>3, <1>7, RowOfKept
  <2>2. CASE x.by = r
    BY <2>1, <2>2
  <2>3. CASE x.by # r
    <3>1. x \in store
      BY <1>1, <1>2, <1>7, <2>3
    <3>2. Stays(x.by)
      BY <1>4, <2>1, <2>3, <3>1 DEF RowInv
    <3> QED
      BY <2>1, <3>1, <3>2 DEF RowInv, Stays
  <2> QED
    BY <2>2, <2>3
<1> QED
  BY <1>5, <1>6, <1>7 DEF RowInv

\* A rule that a request may PATCH is its own tenant's.
LEMMA PatchOwn ==
    ASSUME RowInv, NEW r \in Reqs, NEW c \in Conns, PatchRule(r, c)
    PROVE  job[r].target = job[r].tenant
<1>1. setting[c] = job[r].tenant
  BY DEF PatchRule, On, RowInv
<1>2. \E x \in store : x.tenant = job[r].target /\ x.tenant = setting[c]
  BY DEF PatchRule, RuleOf, Visible
<1> QED
  BY <1>1, <1>2

\* A written row is of its request's tenant and table.
LEMMA NewRow ==
    ASSUME DbTypes, NEW r \in Reqs, job[r].kind \in {"ingest", "create", "patch"}
    PROVE  RowOf([table |-> IF job[r].kind = "ingest" THEN "events" ELSE "rules",
                  tenant |-> job[r].tenant, by |-> r])
<1> DEFINE table == IF job[r].kind = "ingest" THEN "events" ELSE "rules"
           x == [table |-> table, tenant |-> job[r].tenant, by |-> r]
<1>1. job[r].tenant \in Tenants /\ table \in {"events", "rules"}
  BY JobType DEF AllKinds
<1>2. x.table = table /\ x.tenant = job[r].tenant /\ x.by = r
  OBVIOUS
<1>3. x \in Rows
  BY <1>1, RowType
<1> QED
  BY <1>2, <1>3 DEF RowOf

\* What each step of a request's own does to its connection.
LEMMA WritesOne ==
    ASSUME DbTypes, HoldTypes, RowInv, NEW r \in Reqs, NEW c \in Conns, GoesOn(r, c), ~CommitEvent(r, c)
    PROVE  /\ UNCHANGED <<store, job, alive>> /\ phase[r] \in {"held", "scoped"} /\ alive[c]
           /\ phase'[r] = "scoped" => setting'[c] = job[r].tenant
           /\ \A d \in Conns : d # c => setting'[d] = setting[d] /\ pending'[d] = pending[d]
           /\ \A x \in pending'[c] : \/ x \in pending[c]
                                     \/ RowOf(x) /\ x.by = r /\ phase'[r] # "scoped"
           /\ pending'[c] # pending[c] => \E x : pending'[c] = {x}
<1> USE DEF HoldTypes
<1>1. CASE EnterScope(r, c)
  BY <1>1 DEF EnterScope, On, DbTypes
<1>2. CASE Read(r, c) \/ Login(r, c)
  <2>1. UNCHANGED <<setting, pending, store, job, alive>> /\ alive[c] /\ phase[r] \in {"held", "scoped"}
    BY <1>2 DEF Read, Login, db, On
  <2>2. phase' = [phase EXCEPT ![r] = "ran"]
    BY <1>2 DEF Read, Login
  <2> QED
    BY <2>1, <2>2
<1>3. CASE InsertEvent(r, c)
  <2>1. RowOf([table |-> "events", tenant |-> job[r].tenant, by |-> r])
    BY <1>3, NewRow DEF InsertEvent
  <2>2. PICK x : RowOf(x) /\ x.by = r /\ pending' = [pending EXCEPT ![c] = {x}]
    BY <1>3, <2>1 DEF InsertEvent
  <2>3. /\ phase'[r] = "inserted" /\ phase[r] = "held" /\ alive[c] /\ UNCHANGED <<store, job, alive>>
        /\ \A d \in Conns : d # c => setting'[d] = setting[d]
    BY <1>3 DEF InsertEvent, On, DbTypes
  <2>4. pending'[c] = {x} /\ \A d \in Conns : d # c => pending'[d] = pending[d]
    BY <2>2 DEF DbTypes
  <2> QED
    BY <2>2, <2>3, <2>4
<1>4. CASE CreateRule(r, c) \/ PatchRule(r, c)
  <2>1. WriteRule(r, c, job[r].tenant) /\ On(r, c, "scoped") /\ job[r].kind \in {"create", "patch"} /\ alive[c]
    BY <1>4, PatchOwn DEF CreateRule, PatchRule
  <2>2. RowOf([table |-> "rules", tenant |-> job[r].tenant, by |-> r])
    BY <2>1, NewRow
  <2>3. PICK x : RowOf(x) /\ x.by = r /\ pending' = [pending EXCEPT ![c] = {x}]
    BY <2>1, <2>2 DEF WriteRule
  <2>4. /\ phase'[r] = "ran" /\ phase[r] = "scoped" /\ alive[c]
        /\ UNCHANGED <<store, job, alive, setting>>
    BY <2>1 DEF WriteRule, On
  <2>5. pending'[c] = {x} /\ \A d \in Conns : d # c => pending'[d] = pending[d]
    BY <2>3 DEF DbTypes
  <2> QED
    BY <2>3, <2>4, <2>5
<1> QED
  BY <1>1, <1>2, <1>3, <1>4 DEF GoesOn

\* Every step keeps rows with their requests.
LEMMA RowStep ==
    ASSUME HoldTypes, DbTypes, HoldInv, FreshInv, RowInv, [Next]_vars
    PROVE  RowInv'
<1>1. ASSUME NEW r \in Reqs, Arrive(r) PROVE RowInv'
  <2>1. /\ UNCHANGED <<setting, pending, store, alive>> /\ phase[r] = "new"
        /\ \A q \in Reqs : q # r => job'[q] = job[q]
    BY <1>1 DEF Arrive, db, DbTypes
  <2>2. JobKept
    BY <2>1 DEF JobKept
  <2>3. phase'[r] \in {"held", "waiting"} /\ \A q \in Reqs : q = r \/ Stays(q)
    BY <1>1, HoldArrive
  <2>4. Settles(r)
    BY <2>1, <2>3 DEF Settles, RowInv
  <2> QED
    BY <2>1, <2>2, <2>3, <2>4, RowIdle
<1>2. ASSUME NEW r \in Reqs, PoolTimeout(r) PROVE RowInv'
  <2>1. UNCHANGED <<setting, pending, store, alive, job>> /\ phase[r] = "waiting"
    BY <1>2 DEF PoolTimeout, db
  <2>2. phase'[r] = "done" /\ \A q \in Reqs : q = r \/ Stays(q)
    BY <1>2, HoldTimeout
  <2>3. JobKept /\ Settles(r)
    BY <2>1, <2>2 DEF Settles, RowInv, JobKept
  <2> QED
    BY <2>1, <2>2, <2>3, RowIdle
<1>3. ASSUME NEW r \in Reqs, Reply(r) PROVE RowInv'
  <2>1. UNCHANGED <<setting, pending, store, alive, job>> /\ phase[r] \in {"ran", "left"}
    BY <1>3 DEF Reply, db
  <2>2. /\ phase'[r] = IF phase[r] = "ran" THEN "replied" ELSE "done"
        /\ conn' = conn /\ \A q \in Reqs : q = r \/ Stays(q)
    BY <1>3, HoldReply
  <2>3. JobKept /\ Settles(r)
    BY <2>1, <2>2 DEF Settles, RowInv, JobKept
  <2> QED
    BY <2>1, <2>2, <2>3, RowIdle
<1>4. ASSUME NEW r \in Reqs, NEW c \in Conns, GoesOn(r, c) PROVE RowInv'
  <2>1. /\ conn[r] = c /\ conn'[r] = c /\ Moved(r, c)
        /\ phase'[r] \in {"scoped", "ran", "inserted"}
    BY <1>4, HoldGoesOn
  <2>2. CASE CommitEvent(r, c)
    <3>1. EndTx(c) /\ store' = Committed(c) /\ UNCHANGED <<job, alive>> /\ phase'[r] = "ran"
      BY <2>2 DEF CommitEvent, HoldTypes
    <3> QED
      BY <2>1, <3>1, RowEnd
  <2>3. CASE ~CommitEvent(r, c)
    BY <1>4, <2>1, <2>3, WritesOne, RowWrite
  <2> QED
    BY <2>2, <2>3
<1>5. ASSUME NEW r \in Reqs, NEW c \in Conns, Leaves(r, c) PROVE RowInv'
  <2>1. conn[r] = c /\ conn'[r] = NoConn /\ Moved(r, c) /\ phase'[r] \in {"left", "done"}
    BY <1>5, HoldLeaves
  <2>2. CASE Raises(r, c) \/ Leave(r, c)
    <3>1. EndTx(c) /\ UNCHANGED <<job, alive>> /\ (store' = store \/ store' = Committed(c))
      BY <2>2, RaiseFacts DEF Leave
    <3> QED
      BY <2>1, <3>1, RowEnd
  <2>3. CASE StatementFails(r, c) \/ LeaveFails(r, c)
    <3>1. UNCHANGED <<setting, pending, store, alive, job>> /\ ~alive[c]
      BY <2>3 DEF StatementFails, LeaveFails, db
    <3>2. \A d \in Conns : \A x \in pending[d] : x.by # r
      BY <2>1, <3>1, PendingOf DEF FreshInv, Unused
    <3>3. JobKept /\ Settles(r)
      BY <2>1, <3>1, <3>2 DEF Settles, JobKept
    <3>4. ASSUME NEW q \in Reqs PROVE Stays(q) \/ Settles(q)
      <4>1. CASE phase[q] = "waiting" /\ phase'[q] = "held"
        BY <4>1 DEF Settles, RowInv
      <4> QED
        BY <2>1, <3>3, <4>1 DEF Moved
    <3> QED
      BY <3>1, <3>3, <3>4, RowIdle
  <2> QED
    BY <1>5, <2>2, <2>3 DEF Leaves
<1>6. ASSUME NEW r \in Reqs, NEW c \in Conns, CommitUnacknowledged(r, c) PROVE RowInv'
  <2>1. /\ conn[r] = c /\ EndTx(c) /\ store' = Committed(c) /\ UNCHANGED job
        /\ alive' = [alive EXCEPT ![c] = FALSE]
    BY <1>6 DEF CommitUnacknowledged, On
  <2>2. phase'[r] = "done" /\ Moved(r, c)
    BY <1>6, HoldDrop DEF Moved
  <2>3. \A d \in Conns : alive'[d] => alive[d]
    BY <2>1 DEF DbTypes
  <2> QED
    BY <2>1, <2>2, <2>3, RowEnd
<1>7. ASSUME NEW c \in Conns, Replace(c) PROVE RowInv'
  <2>1. /\ UNCHANGED <<setting, pending, store, job>> /\ alive' = [alive EXCEPT ![c] = TRUE]
        /\ \A q \in Reqs : conn[q] # c
    BY <1>7 DEF Replace, Discarded
  <2>2. JobKept
    BY <2>1 DEF JobKept
  <2>3. ASSUME NEW q \in Reqs PROVE (Stays(q) \/ Settles(q)) /\ (conn'[q] = c => phase'[q] # "scoped")
    <3>1. CASE phase[q] = "waiting" /\ phase'[q] = "held" /\ conn'[q] = c
      BY <3>1 DEF Settles, RowInv
    <3>2. CASE Stays(q)
      BY <2>1, <3>2 DEF Stays
    <3> QED
      BY <1>7, <3>1, <3>2, HoldReplace
  <2>4. \A d \in Conns : alive'[d] /\ ~alive[d] => d = c
    BY <2>1 DEF DbTypes
  <2> QED
    BY <2>1, <2>2, <2>3, <2>4, RowIdle
<1>8. ASSUME NEW c \in Conns, Break(c) PROVE RowInv'
  <2>1. /\ EndTx(c) /\ alive' = [alive EXCEPT ![c] = FALSE]
        /\ UNCHANGED <<phase, conn, job, store>>
    BY <1>8 DEF Break, client
  <2>2. /\ pending'[c] = {} /\ ~alive'[c]
        /\ \A d \in Conns : d # c => setting'[d] = setting[d] /\ pending'[d] = pending[d]
                                     /\ alive'[d] = alive[d]
    BY <2>1, EndTxFacts DEF DbTypes
  <2>3. \A x : RowOf(x)' = RowOf(x)
    BY <2>1 DEF RowOf
  <2>4. ASSUME NEW r \in Reqs, NEW d \in Conns, conn[r] = d, phase[r] = "scoped", alive'[d]
        PROVE  setting'[d] = job[r].tenant
    BY <2>2, <2>4 DEF RowInv
  <2>5. \A d \in Conns : pending'[d] \subseteq pending[d]
    BY <2>2
  <2> QED
    BY <2>1, <2>3, <2>4, <2>5 DEF RowInv
<1>9. CASE UNCHANGED vars
  <2>1. UNCHANGED <<setting, pending, store, alive, job, phase, conn>>
    BY <1>9 DEF vars, client, db
  <2> QED
    BY <2>1 DEF RowInv, RowOf
<1>10. ASSUME NEW r \in Reqs, Handler(r) PROVE RowInv'
  BY <1>3, <1>4, <1>5, <1>10, HandlerForms
<1> QED
  BY <1>1, <1>2, <1>6, <1>7, <1>8, <1>9, <1>10 DEF Next
-----------------------------------------------------------------------------
(* What a request was answered and shown                                   *)

\* A request that has not come has neither reply nor rows; what a request was
\* shown is of its own tenant.
SeenInv ==
    \A r \in Reqs : /\ phase[r] = "new" => seen[r] = {} /\ reply[r] = "none"
                    /\ \A x \in seen[r] : x.tenant = job[r].tenant

\* Only an arrival fixes what a request is, and only once.
LEMMA JobStep ==
    ASSUME HoldTypes, DbTypes, HoldInv, [Next]_vars
    PROVE  JobKept /\ \A q \in Reqs : phase'[q] = "new" => phase[q] = "new"
<1>1. ASSUME NEW r \in Reqs, Arrive(r) PROVE JobKept
  BY <1>1 DEF Arrive, JobKept, DbTypes
<1>2. ASSUME ~\E r \in Reqs : Arrive(r) PROVE job' = job
  <2>1. CASE \E r \in Reqs : PoolTimeout(r) \/ Reply(r) \/ \E c \in Conns : CommitUnacknowledged(r, c)
    BY <2>1 DEF PoolTimeout, Reply, CommitUnacknowledged
  <2>2. CASE \E r \in Reqs, c \in Conns : GoesOn(r, c)
    BY <2>2 DEF GoesOn, EnterScope, Read, InsertEvent, Login, CreateRule, PatchRule, WriteRule, CommitEvent
  <2>3. CASE \E r \in Reqs, c \in Conns : Leaves(r, c)
    BY <2>3, RaiseFacts DEF Leaves, StatementFails, Leave, LeaveFails
  <2>4. CASE (\E c \in Conns : Replace(c) \/ Break(c)) \/ UNCHANGED vars
    BY <2>4 DEF Replace, Break, vars, client
  <2> QED
    BY <1>2, <2>1, <2>2, <2>3, <2>4, HandlerForms DEF Next
<1>3. ASSUME NEW q \in Reqs, phase'[q] = "new" PROVE phase[q] = "new"
  <2>1. CASE \E r \in Reqs : Arrive(r) \/ PoolTimeout(r) \/ Reply(r)
    BY <1>3, <2>1, HoldArrive, HoldTimeout, HoldReply DEF Stays
  <2>2. CASE \E r \in Reqs, c \in Conns : GoesOn(r, c) \/ Leaves(r, c)
    BY <1>3, <2>2, HoldGoesOn, HoldLeaves DEF Moved, Stays
  <2>3. CASE \E r \in Reqs, c \in Conns : CommitUnacknowledged(r, c)
    BY <1>3, <2>3, HoldDrop DEF Stays
  <2>4. CASE \E c \in Conns : Replace(c)
    BY <1>3, <2>4, HoldReplace DEF Stays
  <2>5. CASE (\E c \in Conns : Break(c)) \/ UNCHANGED vars
    BY <1>3, <2>5 DEF Break, vars, client
  <2> QED
    BY <2>1, <2>2, <2>3, <2>4, <2>5, HandlerForms DEF Next
<1>4. JobKept
  BY <1>1, <1>2 DEF JobKept
<1> QED
  BY <1>3, <1>4

\* Only a read is shown rows, and only a request at work is answered.
LEMMA ReplyStep ==
    ASSUME HoldTypes, DbTypes, HoldInv, [Next]_vars
    PROVE  /\ \A q \in Reqs : reply'[q] = reply[q] \/ phase'[q] # "new"
           /\ seen' = seen \/ \E r \in Reqs, c \in Conns : Read(r, c)
<1>1. CASE \E r \in Reqs : Arrive(r)
  BY <1>1 DEF Arrive
<1>2. CASE \E r \in Reqs : PoolTimeout(r) \/ Reply(r)
  <2>1. PICK r \in Reqs : PoolTimeout(r) \/ Reply(r)
    BY <1>2
  <2>2. /\ phase'[r] # "new" /\ seen' = seen /\ \E a : reply' = [reply EXCEPT ![r] = a]
    BY <2>1, HoldTimeout, HoldReply DEF PoolTimeout, Reply
  <2> QED
    BY <2>2 DEF DbTypes
<1>3. CASE \E r \in Reqs, c \in Conns : GoesOn(r, c)
  BY <1>3 DEF GoesOn, EnterScope, Read, InsertEvent, Login, CreateRule, PatchRule, WriteRule, CommitEvent
<1>4. ASSUME NEW r \in Reqs, NEW c \in Conns, Leaves(r, c) \/ CommitUnacknowledged(r, c)
      PROVE  seen' = seen /\ \A q \in Reqs : reply'[q] = reply[q] \/ phase'[q] # "new"
  <2>1. phase'[r] # "new"
    BY <1>4, HoldLeaves, HoldDrop
  <2>2. seen' = seen /\ \A q \in Reqs : q # r => reply'[q] = reply[q]
    <3>1. CASE Raises(r, c)
      BY <3>1, RaiseFacts DEF DbTypes
    <3>2. CASE ~Raises(r, c)
      BY <1>4, <3>2 DEF Leaves, StatementFails, Leave, LeaveFails, CommitUnacknowledged, DbTypes
    <3> QED
      BY <3>1, <3>2
  <2> QED
    BY <2>1, <2>2
<1>5. CASE (\E c \in Conns : Replace(c) \/ Break(c)) \/ UNCHANGED vars
  BY <1>5 DEF Replace, Break, vars, client
<1> QED
  BY <1>1, <1>2, <1>3, <1>4, <1>5, HandlerForms DEF Next

\* Every step keeps what the clients were told.
LEMMA SeenStep ==
    ASSUME HoldTypes, DbTypes, HoldInv, RowInv, SeenInv, [Next]_vars
    PROVE  SeenInv'
<1>1. JobKept /\ \A q \in Reqs : phase'[q] = "new" => phase[q] = "new"
  BY JobStep
<1>2. \A q \in Reqs : phase'[q] = "new" => reply'[q] = "none"
  BY <1>1, ReplyStep DEF SeenInv
<1>3. CASE seen' = seen
  BY <1>1, <1>2, <1>3 DEF SeenInv, JobKept
<1>4. ASSUME NEW r \in Reqs, NEW c \in Conns, Read(r, c) PROVE SeenInv'
  <2>1. /\ seen'[r] = Visible(c) /\ phase'[r] = "ran" /\ \A q \in Reqs : q # r => seen'[q] = seen[q]
        /\ phase[r] = "scoped" /\ setting[c] = job[r].tenant
    BY <1>4 DEF Read, On, DbTypes, HoldTypes, RowInv
  <2>2. \A x \in seen'[r] : x.tenant = job'[r].tenant
    BY <1>1, <2>1 DEF Visible, JobKept
  <2> QED
    BY <1>1, <1>2, <2>1, <2>2 DEF SeenInv, JobKept
<1> QED
  BY <1>3, <1>4, ReplyStep
-----------------------------------------------------------------------------
(* The rules of a tenant                                                   *)

\* The unique key, the lock on it, and what a creation found before it wrote.
RuleInv ==
    /\ OneRule
    /\ \A c, d \in Conns : \A x \in pending[c], y \in pending[d] :
          x.table = "rules" /\ y.table = "rules" /\ x.tenant = y.tenant => c = d
    /\ \A c \in Conns : \A x \in pending[c] :
          x.table = "rules" /\ job[x.by].kind = "create" => RuleOf(x.tenant) = {}

\* A new answer of 409 has a rule behind it.
ConflictsHold ==
    \A q \in Reqs : \/ reply'[q] = reply[q]
                    \/ phase[q] # "new" /\ (reply'[q] = "conflict" => RuleOf(job[q].tenant) # {})

\* A 409 that was answered stays true.
LEMMA ConflictsStay ==
    ASSUME SeenInv, RuleInv, JobKept, ConflictsHold, NEW q \in Reqs, reply'[q] = "conflict"
    PROVE  job'[q] = job[q] /\ RuleOf(job[q].tenant) # {}
<1>1. phase[q] # "new"
  BY DEF SeenInv, ConflictsHold
<1> QED
  BY <1>1 DEF ConflictsHold, RuleInv, OneRule, JobKept

\* A step that commits nothing, and writes no rule that another may meet.
LEMMA RuleIdle ==
    ASSUME DbTypes, RowInv, SeenInv, RuleInv, JobKept, store' = store, ConflictsHold,
           \A d \in Conns : \A x \in pending'[d] : x \in pending[d] \/ x.table # "rules"
    PROVE  RuleInv'
<1>1. \A t : RuleOf(t)' = RuleOf(t)
  BY DEF RuleOf
<1>2. OneRule'
  BY <1>1, ConflictsStay DEF OneRule, RuleInv
<1>3. ASSUME NEW d \in Conns, NEW x \in pending'[d], x.table = "rules"
      PROVE  x \in pending[d] /\ job'[x.by] = job[x.by]
  BY <1>3 DEF RowInv, RowOf, Rows, JobKept
<1>4. \A c, d \in Conns : \A x \in pending'[c], y \in pending'[d] :
          x.table = "rules" /\ y.table = "rules" /\ x.tenant = y.tenant => c = d
  BY <1>3 DEF RuleInv
<1>5. \A c \in Conns : \A x \in pending'[c] :
          x.table = "rules" /\ job'[x.by].kind = "create" => RuleOf(x.tenant) = {}
  BY <1>3 DEF RuleInv
<1> QED
  BY <1>1, <1>2, <1>4, <1>5 DEF RuleInv

\* A rule is written where nobody else has one open, and created where there
\* is none.
LEMMA RuleWrite ==
    ASSUME DbTypes, RowInv, SeenInv, RuleInv, JobKept, store' = store, reply' = reply,
           NEW r \in Reqs, NEW c \in Conns, NEW x, x.by = r, job'[r] = job[r],
           ~Locked(c, x.tenant), pending' = [pending EXCEPT ![c] = {x}],
           job[r].kind = "create" => RuleOf(x.tenant) = {}
    PROVE  RuleInv'
<1>1. \A t : RuleOf(t)' = RuleOf(t)
  BY DEF RuleOf
<1>2. OneRule'
  <2>1. ConflictsHold
    BY DEF ConflictsHold
  <2> QED
    BY <1>1, <2>1, ConflictsStay DEF OneRule, RuleInv
<1>3. pending'[c] = {x} /\ \A d \in Conns : d # c => pending'[d] = pending[d]
  BY DEF DbTypes
<1>4. \A d \in Conns : \A y \in pending[d] : y.table = "rules" /\ y.tenant = x.tenant => d = c
  BY DEF Locked
<1>5. \A d \in Conns : \A y \in pending[d] : job'[y.by] = job[y.by]
  BY DEF RowInv, RowOf, Rows, JobKept
<1>6. \A d, e \in Conns : \A y \in pending'[d], z \in pending'[e] :
          y.table = "rules" /\ z.table = "rules" /\ y.tenant = z.tenant => d = e
  BY <1>3, <1>4 DEF RuleInv
<1>7. \A d \in Conns : \A y \in pending'[d] :
          y.table = "rules" /\ job'[y.by].kind = "create" => RuleOf(y.tenant) = {}
  BY <1>3, <1>5 DEF RuleInv
<1> QED
  BY <1>1, <1>2, <1>6, <1>7 DEF RuleInv

\* The rules of a commit: the one that was written, in the place of the one
\* its tenant had, and every other.
LEMMA CommitRules ==
    ASSUME DbTypes, HoldInv, RowInv, RuleInv, NEW r \in Reqs, NEW c \in Conns, conn[r] = c,
           store' = Committed(c)
    PROVE  /\ \A x \in pending[c], y \in pending[c] : x = y
           /\ \A t : (\A x \in pending[c] : x.table = "rules" => x.tenant # t)
                        => RuleOf(t)' = RuleOf(t)
           /\ \A x \in pending[c] : x.table = "rules" => RuleOf(x.tenant)' = {x}
<1>1. \A x \in pending[c] : x \in Rows /\ x.by = r /\ RowOf(x)
  BY PendingOf DEF RowOf
<1>2. ASSUME NEW x \in pending[c], NEW y \in pending[c] PROVE x = y
  <2>1. x.table = y.table /\ x.tenant = y.tenant /\ x.by = y.by
    BY <1>1, <1>2 DEF RowOf
  <2> QED
    BY <1>1, <1>2, <2>1 DEF Rows
<1>3. ASSUME NEW t, \A x \in pending[c] : x.table = "rules" => x.tenant # t
      PROVE  RuleOf(t)' = RuleOf(t)
  <2>1. ASSUME NEW y \in RuleOf(t)' PROVE y \in RuleOf(t)
    BY <1>3, <2>1 DEF RuleOf, Committed
  <2>2. ASSUME NEW y \in RuleOf(t) PROVE y \in RuleOf(t)'
    <3>1. \A w \in pending[c] : job[w.by].kind = "patch" => w.table = "rules"
      BY <1>1 DEF RowOf
    <3> QED
      BY <1>3, <2>2, <3>1 DEF RuleOf, Committed
  <2> QED
    BY <2>1, <2>2
<1>4. ASSUME NEW x \in pending[c], x.table = "rules" PROVE RuleOf(x.tenant)' = {x}
  <2>1. x \in RuleOf(x.tenant)'
    BY <1>4 DEF RuleOf, Committed
  <2>2. ASSUME NEW y \in RuleOf(x.tenant)', y # x PROVE FALSE
    <3>1. y \in store /\ y.table = "rules" /\ y.tenant = x.tenant
      BY <1>2, <1>4, <2>2 DEF RuleOf, Committed
    <3>2. job[x.by].kind # "patch"
      BY <1>2, <1>4, <2>2, <3>1 DEF RuleOf, Committed
    <3>3. job[x.by].kind = "create"
      BY <1>1, <1>4, <3>2 DEF RowOf
    <3> QED
      BY <1>4, <3>1, <3>3 DEF RuleInv, RuleOf
  <2> QED
    BY <2>1, <2>2
<1> QED
  BY <1>2, <1>3, <1>4

\* A commit replaces the rule of its tenant, or is the first.
LEMMA RuleCommit ==
    ASSUME DbTypes, HoldInv, RowInv, SeenInv, RuleInv, JobKept, ConflictsHold,
           NEW r \in Reqs, NEW c \in Conns, conn[r] = c, store' = Committed(c), EndTx(c)
    PROVE  RuleInv'
<1>1. /\ \A t : (\A x \in pending[c] : x.table = "rules" => x.tenant # t) => RuleOf(t)' = RuleOf(t)
      /\ \A x \in pending[c] : x.table = "rules" => RuleOf(x.tenant)' = {x}
  BY CommitRules
<1>2. pending'[c] = {} /\ \A d \in Conns : d # c => pending'[d] = pending[d]
  BY EndTxFacts
<1>3. \A t : (\A x, y \in RuleOf(t)' : x = y) /\ (RuleOf(t) # {} => RuleOf(t)' # {})
  <2>1. \A t : \A x, y \in RuleOf(t) : x = y
    BY DEF RuleInv, OneRule, RuleOf
  <2> QED
    BY <1>1, <2>1
<1>4. ASSUME NEW x \in store', NEW y \in store', x.table = "rules", y.table = "rules", x.tenant = y.tenant
      PROVE  x = y
  <2>1. x \in RuleOf(x.tenant)' /\ y \in RuleOf(x.tenant)'
    BY <1>4 DEF RuleOf
  <2> QED
    BY <1>3, <2>1
<1>5. OneRule'
  <2>1. \A q \in Reqs : reply'[q] = "conflict" => job'[q] = job[q]
    BY ConflictsStay
  <2>2. ASSUME NEW q \in Reqs, reply'[q] = "conflict", NEW t, t = job[q].tenant
        PROVE  RuleOf(t)' # {}
    BY <1>3, <2>2, ConflictsStay
  <2>3. \A q \in Reqs : reply'[q] = "conflict" =>
           {x \in store' : x.table = "rules" /\ x.tenant = job'[q].tenant} # {}
    BY <2>1, <2>2 DEF RuleOf
  <2> QED
    BY <1>4, <2>3 DEF OneRule, RuleOf
<1>6. \A d \in Conns : \A x \in pending'[d] : x \in pending[d] /\ d # c /\ job'[x.by] = job[x.by]
  BY <1>2 DEF RowInv, RowOf, Rows, JobKept
<1>7. ASSUME NEW d \in Conns, NEW x \in pending'[d], x.table = "rules", job'[x.by].kind = "create"
      PROVE  RuleOf(x.tenant)' = {}
  <2>1. x \in pending[d] /\ d # c /\ RuleOf(x.tenant) = {}
    BY <1>6, <1>7 DEF RuleInv
  <2>2. \A y \in pending[c] : y.table = "rules" => y.tenant # x.tenant
    BY <1>7, <2>1 DEF RuleInv
  <2> QED
    BY <1>1, <2>1, <2>2
<1> QED
  BY <1>5, <1>6, <1>7 DEF RuleInv

\* Every step keeps rules unique.
LEMMA RuleStep ==
    ASSUME HoldTypes, DbTypes, HoldInv, RowInv, SeenInv, RuleInv, [Next]_vars
    PROVE  RuleInv'
<1>0. JobKept
  BY JobStep
<1>1. CASE \E r \in Reqs : Arrive(r)
  BY <1>0, <1>1, RuleIdle DEF Arrive, db, ConflictsHold
<1>2. ASSUME NEW r \in Reqs, PoolTimeout(r) \/ Reply(r) PROVE RuleInv'
  <2>1. UNCHANGED <<store, pending>> /\ phase[r] # "new" /\ \E a \in {"ok", "error"} : reply' = [reply EXCEPT ![r] = a]
    BY <1>2 DEF PoolTimeout, Reply, db
  <2>2. ConflictsHold
    BY <2>1 DEF ConflictsHold, DbTypes
  <2> QED
    BY <1>0, <2>1, <2>2, RuleIdle
<1>3. ASSUME NEW r \in Reqs, NEW c \in Conns, GoesOn(r, c) PROVE RuleInv'
  <2>1. reply' = reply /\ job' = job /\ ConflictsHold
    BY <1>3 DEF GoesOn, EnterScope, Read, InsertEvent, Login, CreateRule, PatchRule, WriteRule,
                CommitEvent, ConflictsHold
  <2>2. CASE EnterScope(r, c) \/ Read(r, c) \/ Login(r, c)
    <3>1. UNCHANGED <<store, pending>>
      BY <2>2 DEF EnterScope, Read, Login, db
    <3> QED
      BY <1>0, <2>1, <3>1, RuleIdle
  <2>3. CASE InsertEvent(r, c)
    <3>1. /\ store' = store
          /\ \A d \in Conns : \A x \in pending'[d] : x \in pending[d] \/ x.table # "rules"
      BY <2>3 DEF InsertEvent, DbTypes
    <3> QED
      BY <1>0, <2>1, <3>1, RuleIdle
  <2>4. CASE CreateRule(r, c) \/ PatchRule(r, c)
    <3>1. PICK t : /\ WriteRule(r, c, t) /\ ~Locked(c, t)
                   /\ job[r].kind = "create" => RuleOf(t) = {}
      BY <2>4 DEF CreateRule, PatchRule
    <3>2. PICK x : /\ x = [table |-> "rules", tenant |-> t, by |-> r]
                   /\ pending' = [pending EXCEPT ![c] = {x}] /\ store' = store
      BY <3>1 DEF WriteRule
    <3>3. x.tenant = t /\ x.by = r
      BY <3>2
    <3> QED
      BY <1>0, <2>1, <3>1, <3>2, <3>3, RuleWrite
  <2>5. CASE CommitEvent(r, c)
    <3>1. conn[r] = c /\ store' = Committed(c) /\ EndTx(c)
      BY <2>5 DEF CommitEvent, On
    <3> QED
      BY <1>0, <2>1, <3>1, RuleCommit
  <2> QED
    BY <1>3, <2>2, <2>3, <2>4, <2>5 DEF GoesOn
<1>4. ASSUME NEW r \in Reqs, NEW c \in Conns, Raises(r, c) PROVE RuleInv'
  <2>1. EndTx(c) /\ store' = store
    BY <1>4, RaiseFacts
  <2>2. \A d \in Conns : pending'[d] \subseteq pending[d]
    BY <2>1, EndTxFacts
  <2>3. phase[r] # "new"
    BY <1>4 DEF Raises, Refuse, CreateConflicts, PatchMissing, On
  <2>4. \A a : Raise(r, c, a) => reply'[r] = a /\ \A q \in Reqs : q # r => reply'[q] = reply[q]
    BY DEF Raise, DbTypes
  <2>5. /\ \A q \in Reqs : q # r => reply'[q] = reply[q]
        /\ reply'[r] = "conflict" => RuleOf(job[r].tenant) # {}
    BY <1>4, <2>4 DEF Raises, Refuse, CreateConflicts, PatchMissing
  <2>6. ConflictsHold
    BY <2>3, <2>5 DEF ConflictsHold
  <2> QED
    BY <1>0, <2>1, <2>2, <2>6, RuleIdle
<1>5. ASSUME NEW r \in Reqs, NEW c \in Conns, Leave(r, c) PROVE RuleInv'
  <2>1. conn[r] = c /\ store' = Committed(c) /\ EndTx(c) /\ ConflictsHold
    BY <1>5 DEF Leave, On, ConflictsHold
  <2> QED
    BY <1>0, <2>1, RuleCommit
<1>6. ASSUME NEW r \in Reqs, NEW c \in Conns, StatementFails(r, c) \/ LeaveFails(r, c) \/ CommitUnacknowledged(r, c)
      PROVE  RuleInv'
  <2>1. /\ phase[r] # "new" /\ conn[r] = c /\ \A q \in Reqs : q # r => reply'[q] = reply[q]
        /\ reply'[r] = "error" \/ reply'[r] = reply[r]
    BY <1>6 DEF StatementFails, LeaveFails, CommitUnacknowledged, On, DbTypes
  <2>2. ConflictsHold
    BY <2>1 DEF ConflictsHold
  <2>3. UNCHANGED <<store, pending>> \/ (store' = Committed(c) /\ EndTx(c))
    BY <1>6 DEF StatementFails, LeaveFails, CommitUnacknowledged, db
  <2> QED
    BY <1>0, <2>1, <2>2, <2>3, RuleIdle, RuleCommit
<1>7. CASE (\E c \in Conns : Replace(c)) \/ UNCHANGED vars
  BY <1>0, <1>7, RuleIdle DEF Replace, vars, client, db, ConflictsHold
<1>8. ASSUME NEW c \in Conns, Break(c) PROVE RuleInv'
  <2>1. EndTx(c) /\ UNCHANGED <<store, reply>>
    BY <1>8 DEF Break, client
  <2>2. ConflictsHold /\ \A d \in Conns : pending'[d] \subseteq pending[d]
    BY <2>1, EndTxFacts DEF ConflictsHold
  <2> QED
    BY <1>0, <2>1, <2>2, RuleIdle
<1>9. ASSUME NEW r \in Reqs, Handler(r) PROVE RuleInv'
  BY <1>2, <1>3, <1>4, <1>5, <1>6, <1>9, HandlerForms DEF Leaves
<1> QED
  BY <1>1, <1>2, <1>6, <1>7, <1>8, <1>9 DEF Next
-----------------------------------------------------------------------------
(* Acknowledged events                                                     *)

Shown == {"ran", "replied", "left"}
EventOf(r) == [table |-> "events", tenant |-> job[r].tenant, by |-> r]

\* An event is committed before its request is past its handler, written
\* before that; what was acknowledged to an earlier request is in the store,
\* and a later read of that tenant found it there.
AckOf(r) ==
    /\ job[r].kind = "ingest" /\ (phase[r] \in Shown \/ reply[r] = "ok") => EventOf(r) \in store
    /\ phase[r] = "inserted" => /\ job[r].kind = "ingest"
                                /\ alive[conn[r]] => EventOf(r) \in pending[conn[r]]
    /\ \A x \in before[r] : x \in store /\ x.table = "events"
    /\ job[r].kind = "read" /\ phase[r] \in Shown =>
          {x \in before[r] : x.tenant = job[r].tenant} \subseteq seen[r]

AckInv == \A r \in Reqs : AckOf(r)

EventsKept == \A x \in store : x.table = "events" => x \in store'

\* No commit removes an event.
LEMMA CommitKeeps == ASSUME NEW c \in Conns, store' = Committed(c) PROVE EventsKept
  BY DEF EventsKept, Committed

\* A step that tells q nothing new.
Kept(q) ==
    /\ before'[q] = before[q] /\ seen'[q] = seen[q] /\ job'[q] = job[q]
    /\ phase'[q] \in Shown => phase[q] \in Shown
    /\ reply'[q] = "ok" => reply[q] = "ok" \/ phase[q] \in Shown
    /\ phase'[q] = "inserted" =>
          /\ phase[q] = "inserted" /\ conn'[q] = conn[q]
          /\ alive'[conn[q]] => alive[conn[q]] /\ pending'[conn[q]] = pending[conn[q]]

\* So an acknowledged event stays, and a reader that saw it has seen it.
LEMMA AckKept == ASSUME AckInv, EventsKept, NEW q \in Reqs, Kept(q) PROVE AckOf(q)'
<1>1. AckOf(q)
  BY DEF AckInv
<1>2. EventOf(q)' = EventOf(q)
  BY DEF EventOf, Kept
<1>3. /\ job'[q].kind = "ingest" /\ (phase'[q] \in Shown \/ reply'[q] = "ok") => EventOf(q)' \in store'
      /\ \A x \in before'[q] : x \in store' /\ x.table = "events"
  BY <1>1, <1>2 DEF AckOf, Kept, EventsKept, EventOf
<1>4. phase'[q] = "inserted" => /\ job'[q].kind = "ingest"
                                /\ alive'[conn'[q]] => EventOf(q)' \in pending'[conn'[q]]
  BY <1>1, <1>2 DEF AckOf, Kept
<1>5. job'[q].kind = "read" /\ phase'[q] \in Shown =>
          {x \in before'[q] : x.tenant = job'[q].tenant} \subseteq seen'[q]
  BY <1>1 DEF AckOf, Kept
<1> QED
  BY <1>3, <1>4, <1>5 DEF AckOf, Shown

\* A request's step on c is nothing to the others.
LEMMA OthersKept ==
    ASSUME HoldTypes, HoldInv, NEW r \in Reqs, NEW c \in Conns, Moved(r, c), conn[r] = c,
           UNCHANGED <<job, before>>, \A q \in Reqs : q # r => reply'[q] = reply[q] /\ seen'[q] = seen[q],
           \A d \in Conns : d # c => alive'[d] = alive[d] /\ pending'[d] = pending[d],
           NEW q \in Reqs, q # r
    PROVE  Kept(q)
<1>1. CASE phase'[q] = "held"
  BY <1>1 DEF Kept, Shown
<1>2. CASE Stays(q)
  <2>1. phase[q] = "inserted" => conn[q] \in Conns /\ conn[q] # c
    BY NoConnApart DEF HoldTypes, HoldInv, Holding, Exclusive
  <2> QED
    BY <1>2, <2>1 DEF Kept, Stays
<1> QED
  BY <1>1, <1>2 DEF Moved

\* A read shows what was acknowledged before it came.
LEMMA AckGoesOn ==
    ASSUME HoldTypes, DbTypes, HoldInv, RowInv, AckInv, NEW r \in Reqs, NEW c \in Conns, GoesOn(r, c)
    PROVE  AckInv'
<1>1. /\ Moved(r, c) /\ conn[r] = c /\ conn'[r] = c
      /\ UNCHANGED <<job, before, reply, alive>> /\ alive[c]
      /\ \A q \in Reqs : q # r => seen'[q] = seen[q]
  <2>1. UNCHANGED <<job, before, reply, alive>> /\ alive[c]
    BY DEF GoesOn, EnterScope, Read, InsertEvent, Login, CreateRule, PatchRule, WriteRule, CommitEvent, db
  <2>2. \A q \in Reqs : q # r => seen'[q] = seen[q]
    BY DEF GoesOn, EnterScope, Read, InsertEvent, Login, CreateRule, PatchRule, WriteRule, CommitEvent, DbTypes
  <2> QED
    BY <2>1, <2>2, HoldGoesOn
<1>2. \A d \in Conns : d # c => pending'[d] = pending[d]
  <2>1. CASE CommitEvent(r, c)
    BY <2>1, EndTxFacts DEF CommitEvent
  <2> QED
    BY <2>1, WritesOne
<1>3. EventsKept
  <2>1. store' = store \/ store' = Committed(c)
    BY DEF GoesOn, EnterScope, Read, InsertEvent, Login, CreateRule, PatchRule, WriteRule, CommitEvent, db
  <2> QED
    BY <2>1, CommitKeeps DEF EventsKept
<1>4. \A q \in Reqs : q # r => AckOf(q)'
  BY <1>1, <1>2, <1>3, OthersKept, AckKept
<1>5. AckOf(r) /\ EventOf(r)' = EventOf(r)
  BY <1>1 DEF AckInv, EventOf
<1>6. CASE EnterScope(r, c)
  <2>1. phase'[r] = "scoped" /\ seen' = seen
    BY <1>6 DEF EnterScope, HoldTypes
  <2>2. Kept(r)
    BY <1>1, <2>1 DEF Kept, Shown
  <2> QED
    BY <1>3, <1>4, <2>2, AckKept DEF AckInv
<1>7. CASE Read(r, c)
  <2>1. /\ seen'[r] = Visible(c) /\ phase'[r] = "ran" /\ setting[c] = job[r].tenant
        /\ job[r].kind = "read" /\ store' = store
    BY <1>7 DEF Read, DbTypes, HoldTypes, RowInv, On, db
  <2>2. {x \in before[r] : x.tenant = job[r].tenant} \subseteq seen'[r]
    BY <1>5, <2>1 DEF AckOf, Visible
  <2>3. AckOf(r)'
    BY <1>1, <1>5, <2>1, <2>2 DEF AckOf, Shown
  <2> QED
    BY <1>4, <2>3 DEF AckInv
<1>8. CASE Login(r, c) \/ CreateRule(r, c) \/ PatchRule(r, c)
  <2>1. phase'[r] = "ran" /\ job[r].kind \in {"login", "create", "patch"} /\ store' = store
    BY <1>8 DEF Login, CreateRule, PatchRule, WriteRule, HoldTypes
  <2>2. AckOf(r)'
    BY <1>1, <1>5, <2>1 DEF AckOf, Shown
  <2> QED
    BY <1>4, <2>2 DEF AckInv
<1>9. CASE InsertEvent(r, c)
  <2>1. phase'[r] = "inserted" /\ job[r].kind = "ingest" /\ store' = store /\ EventOf(r) \in pending'[c]
    BY <1>9 DEF InsertEvent, HoldTypes, DbTypes, EventOf
  <2>2. phase[r] = "held" /\ reply' = reply /\ before' = before
    BY <1>1, <1>9 DEF InsertEvent, On
  <2>3. AckOf(r)'
    BY <1>1, <1>5, <2>1, <2>2 DEF AckOf, Shown
  <2> QED
    BY <1>4, <2>3 DEF AckInv
<1>10. CASE CommitEvent(r, c)
  <2>1. phase[r] = "inserted" /\ phase'[r] = "ran" /\ store' = Committed(c)
    BY <1>10 DEF CommitEvent, On, HoldTypes
  <2>2. EventOf(r) \in store' /\ job[r].kind = "ingest"
    BY <1>1, <1>5, <2>1 DEF AckOf, Committed
  <2>3. \A x \in before'[r] : x \in store' /\ x.table = "events"
    BY <1>1, <1>3, <1>5 DEF AckOf, EventsKept
  <2>4. AckOf(r)'
    BY <1>1, <1>5, <2>1, <2>2, <2>3 DEF AckOf, Shown
  <2> QED
    BY <1>4, <2>4 DEF AckInv
<1> QED
  BY <1>6, <1>7, <1>8, <1>9, <1>10 DEF GoesOn

\* A request that leaves was acknowledged only after its commit.
LEMMA AckLeaves ==
    ASSUME HoldTypes, DbTypes, HoldInv, AckInv, NEW r \in Reqs, NEW c \in Conns,
           Leaves(r, c) \/ CommitUnacknowledged(r, c)
    PROVE  AckInv'
<1>1. Moved(r, c) /\ conn[r] = c /\ phase'[r] \in {"left", "done"}
  BY HoldLeaves, HoldDrop DEF Moved, CommitUnacknowledged, On
<1>2. /\ UNCHANGED <<job, before, seen>> /\ \A q \in Reqs : q # r => reply'[q] = reply[q]
      /\ \A d \in Conns : d # c => alive'[d] = alive[d]
      /\ reply'[r] = "ok" => reply[r] = "ok"
      /\ EndTx(c) \/ UNCHANGED pending
      /\ store' = store \/ store' = Committed(c)
  <2>1. CASE Raises(r, c)
    BY <2>1, RaiseFacts DEF DbTypes
  <2>2. CASE ~Raises(r, c)
    BY <2>2 DEF Leaves, StatementFails, Leave, LeaveFails, CommitUnacknowledged, DbTypes, db
  <2> QED
    BY <2>1, <2>2
<1>3. phase'[r] = "left" => phase[r] \in {"ran", "replied"}
  <2>1. ASSUME NEW ph \in {"left", "done"}, NEW good \in BOOLEAN, GiveBack(r, c, ph, good)
        PROVE  phase'[r] = ph
    BY <1>1, <2>1, HoldGiveBack
  <2>2. CASE Leave(r, c)
    BY <2>2 DEF Leave, On
  <2>3. CASE StatementFails(r, c) \/ LeaveFails(r, c)
    <3>1. GiveBack(r, c, "done", FALSE)
      BY <2>3 DEF StatementFails, LeaveFails
    <3> QED
      BY <2>1, <3>1
  <2>4. CASE Raises(r, c)
    BY <2>1, <2>4, RaiseFacts
  <2>5. CASE CommitUnacknowledged(r, c)
    BY <2>5, HoldDrop
  <2> QED
    BY <2>2, <2>3, <2>4, <2>5 DEF Leaves
<1>4. \A d \in Conns : d # c => pending'[d] = pending[d]
  BY <1>2, EndTxFacts
<1>5. EventsKept
  BY <1>2, CommitKeeps DEF EventsKept
<1>6. Kept(r)
  BY <1>1, <1>2, <1>3 DEF Kept, Shown
<1>7. \A q \in Reqs : q # r => Kept(q)
  BY <1>1, <1>2, <1>4, OthersKept
<1> QED
  BY <1>5, <1>6, <1>7, AckKept DEF AckInv

\* Every step keeps acknowledged events readable.
LEMMA AckStep ==
    ASSUME HoldTypes, DbTypes, HoldInv, RowInv, SeenInv, AckInv, [Next]_vars
    PROVE  AckInv'
<1>1. ASSUME NEW r \in Reqs, Arrive(r) PROVE AckInv'
  <2>1. /\ UNCHANGED <<reply, seen, store, alive, pending>> /\ before' = [before EXCEPT ![r] = Acked]
        /\ phase[r] = "new" /\ \A q \in Reqs : q # r => job'[q] = job[q]
    BY <1>1 DEF Arrive, db, DbTypes
  <2>2. phase'[r] \in {"held", "waiting"} /\ \A q \in Reqs : q = r \/ Stays(q)
    BY <1>1, HoldArrive
  <2>3. EventsKept
    BY <2>1 DEF EventsKept
  <2>4. \A q \in Reqs : q # r => AckOf(q)'
    <3>1. \A q \in Reqs : q # r => Kept(q)
      BY <2>1, <2>2 DEF Kept, Stays, DbTypes
    <3> QED
      BY <2>3, <3>1, AckKept
  <2>5. \A x \in Acked : x \in store /\ x.table = "events"
    BY DEF Acked, AckInv, AckOf, EventOf
  <2>6. before'[r] = Acked /\ reply'[r] = "none"
    BY <2>1 DEF DbTypes, SeenInv
  <2>7. AckOf(r)'
    BY <2>1, <2>2, <2>5, <2>6 DEF AckOf, Shown
  <2> QED
    BY <2>4, <2>7 DEF AckInv
<1>2. ASSUME NEW r \in Reqs, PoolTimeout(r) \/ Reply(r) PROVE AckInv'
  <2>1. /\ UNCHANGED <<job, seen, before, store, alive, pending, conn>>
        /\ \A q \in Reqs : q # r => reply'[q] = reply[q]
        /\ reply'[r] = "ok" => phase[r] \in Shown
    BY <1>2 DEF PoolTimeout, Reply, db, DbTypes, Shown
  <2>2. /\ \A q \in Reqs : q = r \/ Stays(q)
        /\ phase'[r] = "done" \/ (phase[r] \in Shown /\ phase'[r] = "replied")
    <3>1. CASE PoolTimeout(r)
      BY <3>1, HoldTimeout
    <3>2. CASE Reply(r)
      BY <3>2, HoldReply DEF Reply, Shown
    <3> QED
      BY <1>2, <3>1, <3>2
  <2>3. \A q \in Reqs : Kept(q)
    BY <2>1, <2>2 DEF Kept, Stays, Shown
  <2>4. EventsKept
    BY <2>1 DEF EventsKept
  <2> QED
    BY <2>3, <2>4, AckKept DEF AckInv
<1>3. ASSUME NEW c \in Conns, Replace(c) PROVE AckInv'
  <2>1. /\ UNCHANGED <<job, reply, seen, before, store, pending>>
        /\ alive' = [alive EXCEPT ![c] = TRUE] /\ \A q \in Reqs : conn[q] # c
    BY <1>3 DEF Replace, Discarded
  <2>2. ASSUME NEW q \in Reqs PROVE Kept(q)
    <3>1. CASE phase'[q] = "held"
      BY <2>1, <3>1 DEF Kept, Shown
    <3>2. CASE Stays(q)
      <4>1. phase[q] = "inserted" => conn[q] \in Conns /\ conn[q] # c
        BY <2>1, NoConnApart DEF HoldTypes, HoldInv, Holding
      <4> QED
        BY <2>1, <3>2, <4>1 DEF Kept, Stays, DbTypes
    <3> QED
      BY <1>3, <3>1, <3>2, HoldReplace
  <2>3. EventsKept
    BY <2>1 DEF EventsKept
  <2> QED
    BY <2>2, <2>3, AckKept DEF AckInv
<1>4. ASSUME NEW c \in Conns, Break(c) PROVE AckInv'
  <2>1. /\ EndTx(c) /\ alive' = [alive EXCEPT ![c] = FALSE]
        /\ UNCHANGED <<phase, conn, job, reply, seen, before, store>>
    BY <1>4 DEF Break, client
  <2>2. /\ ~alive'[c]
        /\ \A d \in Conns : d # c => alive'[d] = alive[d] /\ pending'[d] = pending[d]
    BY <2>1, EndTxFacts DEF DbTypes
  <2>3. \A q \in Reqs : phase[q] = "inserted" => conn[q] \in Conns
    BY NoConnApart DEF HoldTypes, HoldInv, Holding
  <2>4. \A q \in Reqs : Kept(q)
    BY <2>1, <2>2, <2>3 DEF Kept
  <2>5. EventsKept
    BY <2>1 DEF EventsKept
  <2> QED
    BY <2>4, <2>5, AckKept DEF AckInv
<1>5. CASE UNCHANGED vars
  BY <1>5 DEF vars, client, db, AckInv, AckOf, EventOf
<1>6. ASSUME NEW r \in Reqs, Handler(r) PROVE AckInv'
  BY <1>2, <1>6, HandlerForms, AckGoesOn, AckLeaves
<1> QED
  BY <1>1, <1>2, <1>3, <1>4, <1>5, <1>6, AckLeaves DEF Next
-----------------------------------------------------------------------------
(* Refinement of TenantStores                                              *)

\* Nobody but an arriving request stops being new.
LEMMA NewStays ==
    ASSUME HoldTypes, DbTypes, HoldInv, [Next]_vars, ~\E r \in Reqs : Arrive(r),
           NEW q \in Reqs, phase[q] = "new"
    PROVE  phase'[q] = "new"
<1>1. ASSUME NEW r \in Reqs, PoolTimeout(r) \/ Reply(r) PROVE phase'[q] = "new"
  <2>1. r # q
    BY <1>1 DEF PoolTimeout, Reply
  <2> QED
    BY <1>1, <2>1, HoldTimeout, HoldReply DEF Stays
<1>2. ASSUME NEW r \in Reqs, NEW c \in Conns, GoesOn(r, c) \/ Leaves(r, c) PROVE phase'[q] = "new"
  <2>1. Moved(r, c) /\ conn[r] = c
    BY <1>2, HoldGoesOn, HoldLeaves
  <2>2. r # q
    BY <2>1, NoConnApart DEF HoldInv, Holding
  <2> QED
    BY <2>1, <2>2 DEF Moved, Stays
<1>3. ASSUME NEW r \in Reqs, NEW c \in Conns, CommitUnacknowledged(r, c) PROVE phase'[q] = "new"
  <2>1. r # q
    BY <1>3 DEF CommitUnacknowledged, On
  <2> QED
    BY <1>3, <2>1, HoldDrop DEF Stays
<1>4. ASSUME NEW c \in Conns, Replace(c) PROVE phase'[q] = "new"
  BY <1>4, HoldReplace DEF Stays
<1>5. CASE (\E c \in Conns : Break(c)) \/ UNCHANGED vars
  BY <1>5 DEF Break, vars, client
<1> QED
  BY <1>1, <1>2, <1>3, <1>4, <1>5, HandlerForms DEF Next

Came == {q \in Reqs : phase[q] # "new"}
Owner == [r \in Came |-> job[r].tenant]
RowsIn(s, t) == {[table |-> x.table, by |-> x.by] : x \in {y \in s : y.tenant = t}}
Stores == [t \in Tenants |-> RowsIn(store, t)]

\* Only an arrival changes who owns what.
LEMMA SameOwner ==
    ASSUME HoldTypes, DbTypes, HoldInv, [Next]_vars, ~\E r \in Reqs : Arrive(r)
    PROVE  Owner' = Owner
<1>1. Came' = Came
  BY JobStep, NewStays DEF Came
<1>2. \A q \in Came : job'[q].tenant = job[q].tenant
  BY JobStep DEF JobKept, Came
<1> QED
  BY <1>1, <1>2 DEF Owner

\* The steps that commit are those of a request that holds a connection.
LEMMA StoreStep ==
    ASSUME [Next]_vars
    PROVE  \/ store' = store
           \/ /\ \E r \in Reqs, c \in Conns : conn[r] = c /\ store' = Committed(c)
              /\ ~\E r \in Reqs : Arrive(r)
<1>1. CASE \E r \in Reqs : Arrive(r) \/ PoolTimeout(r) \/ Reply(r)
  BY <1>1 DEF Arrive, PoolTimeout, Reply, db
<1>2. CASE (\E c \in Conns : Replace(c) \/ Break(c)) \/ UNCHANGED vars
  BY <1>2 DEF Replace, Break, vars, db
<1>3. ASSUME NEW r \in Reqs, NEW c \in Conns, GoesOn(r, c) \/ Leaves(r, c) \/ CommitUnacknowledged(r, c)
      PROVE  store' = store \/ (conn[r] = c /\ store' = Committed(c))
  <2>1. CASE GoesOn(r, c)
    BY <2>1 DEF GoesOn, EnterScope, Read, InsertEvent, Login, CreateRule, PatchRule, WriteRule,
                CommitEvent, On, db
  <2>2. CASE Raises(r, c)
    BY <2>2, RaiseFacts
  <2>3. CASE StatementFails(r, c) \/ Leave(r, c) \/ LeaveFails(r, c) \/ CommitUnacknowledged(r, c)
    BY <2>3 DEF StatementFails, Leave, LeaveFails, CommitUnacknowledged, On, db
  <2> QED
    BY <1>3, <2>1, <2>2, <2>3 DEF Leaves
<1> QED
  BY <1>1, <1>2, <1>3, HandlerForms DEF Next

\* A row of a store is a committed row of its tenant.
LEMMA RowsInFacts ==
    ASSUME NEW s, NEW t
    PROVE  /\ \A y \in s : y.tenant = t => [table |-> y.table, by |-> y.by] \in RowsIn(s, t)
           /\ \A z \in RowsIn(s, t) : \E y \in s : y.tenant = t /\ z = [table |-> y.table, by |-> y.by]
  BY DEF RowsIn

\* A commit is the write of one row, or of none.
LEMMA CommitWrites ==
    ASSUME DbTypes, HoldInv, RowInv, RuleInv, NEW r \in Reqs, NEW c \in Conns, conn[r] = c,
           store' = Committed(c), Owner' = Owner
    PROVE  Isolated!Next \/ UNCHANGED <<Owner, Stores>>
<1>1. CASE pending[c] = {}
  <2>1. store' = store
    BY <1>1 DEF Committed
  <2> QED
    BY <2>1 DEF Stores, RowsIn
<1>2. CASE pending[c] # {}
  <2>1. PICK x \in pending[c] : TRUE
    BY <1>2
  <2>2. /\ pending[c] = {x} /\ x.by = r /\ RowOf(x) /\ phase[r] # "new"
    BY <2>1, PendingOf, CommitRules
  <2> DEFINE t == job[r].tenant
             old == RowsIn(store, t)
             kept == IF x.table = "rules" THEN {z \in old : z.table # "rules"} ELSE old
             new == [table |-> x.table, by |-> r]
  <2>3. /\ t \in Tenants /\ x.tenant = t /\ x.table \in {"events", "rules"}
        /\ job[r].kind \in {"ingest", "create", "patch"}
        /\ x.table = IF job[r].kind = "ingest" THEN "events" ELSE "rules"
    BY <2>2, JobType DEF RowOf, AllKinds
  <2>4. \A y : y \in store' <=> y = x \/ (y \in store /\ ~(/\ job[r].kind = "patch"
                                                          /\ y.table = "rules" /\ y.tenant = t))
    BY <2>2, <2>3 DEF Committed
  <2>5. x.table = "rules" /\ job[r].kind # "patch" => \A y \in store : ~(y.table = "rules" /\ y.tenant = t)
    BY <2>1, <2>2, <2>3 DEF RuleInv, RuleOf
  <2>6. \A y : y \in store' <=> y = x \/ (y \in store /\ ~(/\ x.table = "rules"
                                                          /\ y.table = "rules" /\ y.tenant = t))
    BY <2>3, <2>4, <2>5
  <2>7. \A q \in Tenants : \A z \in Stores[q] : z.by # r
    <3>1. \A y \in store : y.by # r
      BY <2>1, <2>2 DEF RowInv
    <3> QED
      BY <3>1 DEF Stores, RowsIn
  <2>8. RowsIn(store', t) = kept \cup {new}
    <3>1. ASSUME NEW z \in RowsIn(store', t) PROVE z \in kept \cup {new}
      <4>1. PICK y \in store' : y.tenant = t /\ z = [table |-> y.table, by |-> y.by]
        BY <3>1, RowsInFacts
      <4>2. CASE y = x
        BY <2>2, <4>1, <4>2
      <4>3. CASE y # x
        <5>1. y \in store /\ ~(x.table = "rules" /\ y.table = "rules") /\ z.table = y.table
          BY <2>6, <4>1, <4>3
        <5>2. z \in old
          BY <4>1, <5>1, RowsInFacts
        <5> QED
          BY <5>1, <5>2
      <4> QED
        BY <4>2, <4>3
    <3>2. new \in RowsIn(store', t)
      <4>1. x \in store' /\ new = [table |-> x.table, by |-> x.by]
        BY <2>2, <2>6
      <4> QED
        BY <2>3, <4>1, RowsInFacts
    <3>3. ASSUME NEW z \in kept PROVE z \in RowsIn(store', t)
      <4>1. z \in old /\ (x.table = "rules" => z.table # "rules")
        BY <3>3
      <4>2. PICK y \in store : y.tenant = t /\ z = [table |-> y.table, by |-> y.by]
        BY <4>1, RowsInFacts
      <4>3. z.table = y.table
        BY <4>2
      <4>4. y \in store'
        BY <2>6, <4>1, <4>2, <4>3
      <4> QED
        BY <4>2, <4>4, RowsInFacts
    <3> QED
      BY <3>1, <3>2, <3>3
  <2>9. ASSUME NEW q \in Tenants, q # t PROVE RowsIn(store', q) = RowsIn(store, q)
    <3>1. {y \in store' : y.tenant = q} = {y \in store : y.tenant = q}
      BY <2>3, <2>6, <2>9
    <3> QED
      BY <3>1 DEF RowsIn
  <2>10. r \in DOMAIN Owner /\ Owner[r] = t /\ Stores[t] = old
    BY <2>2, <2>3 DEF Owner, Came, Stores
  <2>11. Stores' = [Stores EXCEPT ![t] = kept \cup {new}]
    BY <2>3, <2>8, <2>9 DEF Stores
  <2>12. Isolated!Write(r, x.table)
    BY <2>7, <2>10, <2>11 DEF Isolated!Write, Owner, Came, Stores, RowsIn
  <2> QED
    BY <2>3, <2>12 DEF Isolated!Next
<1> QED
  BY <1>1, <1>2

\* An arrival gives the request its tenant.
LEMMA ArriveOwns ==
    ASSUME HoldTypes, DbTypes, HoldInv, NEW r \in Reqs, Arrive(r)
    PROVE  Isolated!Next
<1>1. PICK k \in Kinds[r], t \in Tenants, u \in Tenants :
         job' = [job EXCEPT ![r] = [kind |-> k, tenant |-> t, target |-> u]]
  BY DEF Arrive
<1>2. /\ job'[r].tenant = t /\ \A q \in Reqs : q # r => job'[q] = job[q]
      /\ phase[r] = "new" /\ store' = store
  BY <1>1 DEF Arrive, DbTypes, db
<1>3. phase'[r] # "new" /\ \A q \in Reqs : q # r => phase'[q] = phase[q]
  BY HoldArrive DEF Stays
<1>4. Came' = Came \cup {r} /\ r \notin Came
  BY <1>2, <1>3 DEF Came
<1>5. DOMAIN Owner = Came /\ \A q \in Came : Owner[q] = job[q].tenant /\ q \in Reqs
  BY DEF Owner, Came
<1>6. Owner' = [q \in Came \cup {r} |-> IF q = r THEN t ELSE Owner[q]]
  <2>1. Owner' = [q \in Came \cup {r} |-> job'[q].tenant]
    BY <1>4 DEF Owner
  <2>2. \A q \in Came \cup {r} : job'[q].tenant = IF q = r THEN t ELSE Owner[q]
    BY <1>2, <1>5
  <2> QED
    BY <2>1, <2>2
<1>7. Stores' = Stores
  BY <1>2 DEF Stores, RowsIn
<1>8. Isolated!Arrive(r, t)
  BY <1>4, <1>5, <1>6, <1>7 DEF Isolated!Arrive, Owner, Came, Stores, RowsIn
<1> QED
  BY <1>8 DEF Isolated!Next

\* Each step is one of TenantStores, or one that it does not see.
LEMMA StoresStep ==
    ASSUME HoldTypes, DbTypes, HoldInv, RowInv, RuleInv, [Next]_vars
    PROVE  Isolated!Next \/ UNCHANGED <<Owner, Stores>>
<1>1. CASE \E r \in Reqs : Arrive(r)
  BY <1>1, ArriveOwns
<1>2. CASE ~\E r \in Reqs : Arrive(r)
  <2>1. Owner' = Owner
    BY <1>2, SameOwner
  <2>2. CASE store' = store
    BY <2>1, <2>2 DEF Stores, RowsIn
  <2> QED
    BY <1>2, <2>1, <2>2, StoreStep, CommitWrites
<1> QED
  BY <1>1, <1>2
-----------------------------------------------------------------------------
(* Nothing is lost: connections and places in the queue                    *)

\* A connection is idle, or used, or lost and to be replaced; and a request
\* that waits is in the queue.
Accounted(c) == c \in ToSet(pool) \/ ~alive[c] \/ \E r \in Reqs : conn[r] = c

LeakInv ==
    /\ \A r \in Reqs : phase[r] = "waiting" => r \in ToSet(waiting)
    /\ \A c \in Conns : Accounted(c)

\* A request that arrives takes a place or a connection.
LEMMA LeakArrive ==
    ASSUME HoldTypes, HoldInv, LeakInv, NEW r \in Reqs, Arrive(r)
    PROVE  LeakInv'
<1>0. /\ phase'[r] \in {"held", "waiting"} /\ conn[r] = NoConn /\ alive' = alive
      /\ \A q \in Reqs : q = r \/ Stays(q)
  BY HoldArrive DEF Arrive, db
<1>1. CASE pool # <<>> /\ Take(r, Head(pool)) /\ pool' = Tail(pool) /\ UNCHANGED waiting
  <2>1. pool \in Seq(Conns) /\ IsInjective(pool)
    BY DEF HoldTypes, HoldInv, Exclusive
  <2>2. ToSet(pool') = ToSet(pool) \ {Head(pool)}
    BY <1>1, <2>1, TailKeeps
  <2>3. conn'[r] = Head(pool) /\ phase'[r] = "held"
    BY <1>1 DEF Take, HoldTypes
  <2>4. ASSUME NEW d \in Conns PROVE Accounted(d)'
    <3>1. CASE d = Head(pool)
      BY <2>3, <3>1 DEF Accounted
    <3>2. CASE d # Head(pool) /\ d \in ToSet(pool)
      BY <2>2, <3>2 DEF Accounted, ToSet
    <3>3. CASE ~alive[d] \/ \E q \in Reqs : conn[q] = d
      BY <1>0, <3>3, NoConnApart DEF Accounted, Stays
    <3> QED
      BY <3>1, <3>2, <3>3 DEF LeakInv, Accounted
  <2>5. ToSet(waiting)' = ToSet(waiting)
    BY <1>1 DEF ToSet
  <2> QED
    BY <1>0, <2>3, <2>4, <2>5 DEF LeakInv, Stays
<1>2. CASE pool = <<>> /\ waiting' = Append(waiting, r) /\ UNCHANGED <<conn, pool>>
  <2>1. waiting \in Seq(Reqs) /\ IsInjective(waiting) /\ r \notin ToSet(waiting)
    BY DEF HoldTypes, HoldInv, Arrive
  <2>2. ToSet(waiting') = ToSet(waiting) \cup {r}
    BY <1>2, <2>1, AppendKeeps
  <2>3. ToSet(waiting)' = ToSet(waiting') /\ ToSet(pool)' = ToSet(pool)
    BY <1>2 DEF ToSet
  <2> QED
    BY <1>0, <1>2, <2>2, <2>3 DEF LeakInv, Accounted, Stays
<1> QED
  BY <1>1, <1>2 DEF Arrive

\* One that times out leaves the queue, and nobody else.
LEMMA LeakTimeout ==
    ASSUME HoldTypes, HoldInv, LeakInv, NEW r \in Reqs, PoolTimeout(r)
    PROVE  LeakInv'
<1>1. PICK i \in DOMAIN waiting : waiting[i] = r /\ waiting' = RemoveAt(waiting, i)
  BY DEF PoolTimeout
<1>2. waiting \in Seq(Reqs) /\ IsInjective(waiting)
  BY DEF HoldTypes, HoldInv
<1>3. ToSet(waiting') = ToSet(waiting) \ {r}
  BY <1>1, <1>2, RemoveKeeps
<1>4. UNCHANGED <<conn, pool, alive>> /\ phase'[r] = "done" /\ \A q \in Reqs : q = r \/ Stays(q)
  BY HoldTimeout DEF PoolTimeout, db
<1>5. ToSet(waiting)' = ToSet(waiting') /\ ToSet(pool)' = ToSet(pool)
  BY <1>4 DEF ToSet
<1> QED
  BY <1>3, <1>4, <1>5 DEF LeakInv, Accounted, Stays

\* One that gives its connection back hands it over, leaves it idle, or leaves
\* it for the worker, which it does with a lost connection only.
LEMMA LeakGiveBack ==
    ASSUME HoldTypes, HoldInv, LeakInv, NEW r \in Reqs, NEW c \in Conns, conn[r] = c,
           NEW ph \in {"left", "done"}, NEW good, GiveBack(r, c, ph, good),
           alive' = alive, good \/ ~alive[c]
    PROVE  LeakInv'
<1>0. /\ conn'[r] = NoConn /\ phase'[r] = ph
      /\ \A q \in Reqs : \/ q = r \/ Stays(q)
                         \/ phase[q] = "waiting" /\ phase'[q] = "held" /\ conn'[q] = c
  BY HoldGiveBack
<1>1. \A q \in Reqs : conn[q] # NoConn => phase[q] # "waiting"
  BY DEF HoldInv, Holding
<1>2. ASSUME NEW d \in Conns, d # c, NEW q \in Reqs, conn[q] = d PROVE conn'[q] = d
  BY <1>0, <1>1, <1>2, NoConnApart DEF Stays
<1>3. CASE good /\ waiting # <<>>
  <2> DEFINE w == Head(waiting)
  <2>1. waiting \in Seq(Reqs) /\ IsInjective(waiting) /\ waiting' = Tail(waiting) /\ pool' = pool
    BY <1>3 DEF GiveBack, HoldTypes, HoldInv
  <2>2. /\ w \in Reqs /\ w \in ToSet(waiting) /\ ToSet(waiting') = ToSet(waiting) \ {w}
    BY <1>3, <2>1, TailKeeps
  <2>3. conn' = [conn EXCEPT ![r] = NoConn, ![w] = c]
        /\ phase' = [phase EXCEPT ![r] = ph, ![w] = "held"]
    BY <1>3 DEF GiveBack
  <2> HIDE DEF w
  <2>4. conn'[w] = c /\ phase'[w] = "held"
    BY <2>2, <2>3 DEF HoldTypes
  <2>5. ToSet(waiting)' = ToSet(waiting') /\ ToSet(pool)' = ToSet(pool)
    BY <2>1 DEF ToSet
  <2>6. ASSUME NEW d \in Conns PROVE Accounted(d)'
    BY <1>2, <2>2, <2>4, <2>5 DEF LeakInv, Accounted
  <2>7. ASSUME NEW q \in Reqs, phase'[q] = "waiting" PROVE q \in ToSet(waiting)'
    <3>1. q # w /\ q # r /\ phase[q] = "waiting"
      BY <1>0, <2>4, <2>7 DEF Stays
    <3> QED
      BY <2>2, <2>5, <3>1 DEF LeakInv
  <2> QED
    BY <2>6, <2>7 DEF LeakInv
<1>4. CASE ~(good /\ waiting # <<>>)
  <2>1. waiting' = waiting /\ pool' = IF good THEN Append(pool, c) ELSE pool
    BY <1>4 DEF GiveBack
  <2>2. ToSet(pool)' = IF good THEN ToSet(pool) \cup {c} ELSE ToSet(pool)
    <3>1. pool \in Seq(Conns) /\ IsInjective(pool) /\ c \notin ToSet(pool)
      BY DEF HoldTypes, HoldInv, Exclusive
    <3>2. ToSet(pool)' = ToSet(pool')
      BY DEF ToSet
    <3>3. ToSet(Append(pool, c)) = ToSet(pool) \cup {c}
      BY <3>1, AppendKeeps
    <3>4. CASE good
      BY <2>1, <3>2, <3>3, <3>4
    <3>5. CASE ~good
      BY <2>1, <3>2, <3>5
    <3> QED
      BY <3>4, <3>5
  <2>3. ToSet(waiting)' = ToSet(waiting)
    BY <2>1 DEF ToSet
  <2>4. ASSUME NEW d \in Conns PROVE Accounted(d)'
    BY <1>2, <2>2 DEF LeakInv, Accounted
  <2>5. ASSUME NEW q \in Reqs, phase'[q] = "waiting" PROVE q \in ToSet(waiting)'
    BY <1>0, <2>3, <2>5 DEF LeakInv, Stays
  <2> QED
    BY <2>4, <2>5 DEF LeakInv
<1> QED
  BY <1>3, <1>4

\* Every way out of a handler gives the connection back, a live one to use.
LEMMA LeakLeaves ==
    ASSUME HoldTypes, HoldInv, LeakInv, NEW r \in Reqs, NEW c \in Conns, Leaves(r, c)
    PROVE  LeakInv'
<1>1. conn[r] = c
  BY HoldLeaves
<1>2. /\ alive' = alive
      /\ \E ph \in {"left", "done"}, good \in BOOLEAN : GiveBack(r, c, ph, good) /\ (good \/ ~alive[c])
  <2>1. ASSUME NEW a, Raise(r, c, a)
        PROVE  /\ alive' = alive
               /\ \E good \in BOOLEAN : GiveBack(r, c, "done", good) /\ (good \/ ~alive[c])
    <3>1. (alive[c] \/ ~InTx(r)) \in BOOLEAN
      OBVIOUS
    <3> QED
      BY <2>1, <3>1 DEF Raise
  <2>2. CASE Raises(r, c)
    BY <2>1, <2>2 DEF Raises, Refuse, CreateConflicts, PatchMissing
  <2>3. CASE StatementFails(r, c) \/ LeaveFails(r, c)
    BY <2>3 DEF StatementFails, LeaveFails, db
  <2>4. CASE Leave(r, c)
    BY <2>4 DEF Leave
  <2> QED
    BY <2>2, <2>3, <2>4 DEF Leaves
<1> QED
  BY <1>1, <1>2, LeakGiveBack

\* The worker's new connection is used or idle.
LEMMA LeakReplace ==
    ASSUME HoldTypes, HoldInv, LeakInv, NEW c \in Conns, Replace(c),
           alive \in [Conns -> BOOLEAN]
    PROVE  LeakInv'
<1>0. /\ c \notin ToSet(pool) /\ \A q \in Reqs : conn[q] # c
      /\ \A d \in Conns : d # c => alive'[d] = alive[d]
  BY DEF Replace, Discarded
<1>1. CASE waiting # <<>> /\ waiting' = Tail(waiting) /\ Take(Head(waiting), c) /\ UNCHANGED pool
  <2>1. waiting \in Seq(Reqs) /\ IsInjective(waiting)
    BY DEF HoldTypes, HoldInv
  <2>2. /\ Head(waiting) \in Reqs /\ Head(waiting) \in ToSet(waiting)
        /\ ToSet(Tail(waiting)) = ToSet(waiting) \ {Head(waiting)}
    BY <1>1, <2>1, TailKeeps
  <2>3. PICK w \in Reqs : w = Head(waiting)
    BY <2>2
  <2>4. phase[w] = "waiting" /\ conn[w] = NoConn
    BY <2>2, <2>3 DEF HoldInv, Holding
  <2>5. conn'[w] = c /\ phase'[w] = "held" /\ \A q \in Reqs : q # w => Stays(q)
    BY <1>1, <2>3 DEF Take, HoldTypes, Stays
  <2>6. ToSet(waiting)' = ToSet(waiting) \ {w} /\ ToSet(pool)' = ToSet(pool)
    <3>1. ToSet(waiting)' = ToSet(waiting') /\ ToSet(pool)' = ToSet(pool)
      BY <1>1 DEF ToSet
    <3> QED
      BY <1>1, <2>2, <2>3, <3>1
  <2>7. ASSUME NEW d \in Conns PROVE Accounted(d)'
    BY <1>0, <2>4, <2>5, <2>6, NoConnApart DEF LeakInv, Accounted, Stays
  <2>8. ASSUME NEW q \in Reqs, phase'[q] = "waiting" PROVE q \in ToSet(waiting)'
    BY <2>5, <2>6, <2>8 DEF LeakInv, Stays
  <2> QED
    BY <2>7, <2>8 DEF LeakInv
<1>2. CASE waiting = <<>> /\ pool' = Append(pool, c) /\ UNCHANGED <<waiting, conn, phase>>
  <2>1. pool \in Seq(Conns) /\ IsInjective(pool)
    BY DEF HoldTypes, HoldInv, Exclusive
  <2>2. ToSet(pool') = ToSet(pool) \cup {c}
    BY <1>0, <1>2, <2>1, AppendKeeps
  <2>3. ToSet(pool)' = ToSet(pool) \cup {c} /\ ToSet(waiting)' = ToSet(waiting)
    BY <1>2, <2>2 DEF ToSet
  <2> QED
    BY <1>0, <1>2, <2>3 DEF LeakInv, Accounted
<1> QED
  BY <1>1, <1>2 DEF Replace

\* Every step keeps connections and waiters accounted for.
LEMMA LeakStep ==
    ASSUME HoldTypes, DbTypes, HoldInv, LeakInv, [Next]_vars
    PROVE  LeakInv'
<1>1. ASSUME NEW r \in Reqs, Arrive(r) \/ PoolTimeout(r) PROVE LeakInv'
  BY <1>1, LeakArrive, LeakTimeout
<1>2. ASSUME NEW r \in Reqs, Reply(r) PROVE LeakInv'
  <2>1. UNCHANGED <<conn, waiting, pool, alive>>
    BY <1>2 DEF Reply, db
  <2>2. phase'[r] # "waiting" /\ \A q \in Reqs : q = r \/ Stays(q)
    BY <1>2, HoldReply
  <2> QED
    BY <2>1, <2>2 DEF LeakInv, Accounted, ToSet, Stays
<1>3. ASSUME NEW r \in Reqs, NEW c \in Conns, GoesOn(r, c) PROVE LeakInv'
  <2>1. UNCHANGED <<conn, waiting, pool, alive>>
    BY <1>3 DEF GoesOn, EnterScope, Read, InsertEvent, Login, CreateRule, PatchRule, WriteRule,
                CommitEvent, db
  <2>2. phase'[r] # "waiting" /\ Moved(r, c)
    BY <1>3, HoldGoesOn
  <2>3. \A q \in Reqs : phase'[q] = "waiting" => phase[q] = "waiting"
    BY <2>2 DEF Moved, Stays
  <2> QED
    BY <2>1, <2>3 DEF LeakInv, Accounted, ToSet
<1>4. ASSUME NEW r \in Reqs, NEW c \in Conns, Leaves(r, c) PROVE LeakInv'
  BY <1>4, LeakLeaves
<1>5. ASSUME NEW r \in Reqs, NEW c \in Conns, CommitUnacknowledged(r, c) PROVE LeakInv'
  <2>1. /\ conn[r] = c /\ alive' = [alive EXCEPT ![c] = FALSE] /\ UNCHANGED <<waiting, pool>>
        /\ phase'[r] = "done" /\ \A q \in Reqs : q = r \/ Stays(q)
    BY <1>5, HoldDrop DEF CommitUnacknowledged, On
  <2>2. \A d \in Conns : ~alive'[d] <=> d = c \/ ~alive[d]
    BY <2>1 DEF DbTypes
  <2>3. ToSet(waiting)' = ToSet(waiting) /\ ToSet(pool)' = ToSet(pool)
    BY <2>1 DEF ToSet
  <2>4. ASSUME NEW d \in Conns PROVE Accounted(d)'
    BY <2>1, <2>2, <2>3 DEF LeakInv, Accounted, Stays
  <2> QED
    BY <2>1, <2>3, <2>4 DEF LeakInv, Stays
<1>6. ASSUME NEW c \in Conns, Replace(c) PROVE LeakInv'
  BY <1>6, LeakReplace DEF DbTypes
<1>7. ASSUME NEW c \in Conns, Break(c) PROVE LeakInv'
  <2>1. UNCHANGED <<conn, phase, waiting, pool>> /\ \A d \in Conns : ~alive[d] => ~alive'[d]
    BY <1>7 DEF Break, client, DbTypes
  <2> QED
    BY <2>1 DEF LeakInv, Accounted, ToSet
<1>8. CASE UNCHANGED vars
  <2>1. UNCHANGED <<conn, phase, waiting, pool, alive>>
    BY <1>8 DEF vars, client, db
  <2> QED
    BY <2>1 DEF LeakInv, Accounted, ToSet
<1> QED
  BY <1>1, <1>2, <1>3, <1>4, <1>5, <1>6, <1>7, <1>8, HandlerForms DEF Next

\* Who holds a connection is at work.
LEMMA HoldersWork ==
    ASSUME HoldInv, NEW r \in Reqs, conn[r] # NoConn PROVE AtWork(r)
  BY DEF HoldInv, Holding, AtWork

\* The wait for a connection is a wait for the users of all of them.
LEMMA ConnectionsMove ==
    ASSUME HoldInv, LeakInv, NEW r \in Reqs, phase[r] = "waiting", NEW c \in Conns
    PROVE  Discarded(c) \/ \E q \in Reqs : conn[q] = c /\ AtWork(q)
<1>1. waiting # <<>>
  BY EmptyKeeps DEF LeakInv
<1>2. c \notin ToSet(pool)
  BY <1>1, EmptyKeeps DEF HoldInv, Exclusive
<1>3. CASE \E q \in Reqs : conn[q] = c
  BY <1>3, HoldersWork, NoConnApart
<1>4. CASE ~\E q \in Reqs : conn[q] = c
  BY <1>2, <1>4 DEF LeakInv, Accounted, Discarded
<1> QED
  BY <1>3, <1>4

\* The wait for a lock is a wait for one that has written, and ends.
LEMMA LocksMove ==
    ASSUME HoldInv, RowInv, NEW r \in Reqs, WaitsForLock(r)
    PROVE  \E q \in Reqs : /\ conn[q] # NoConn /\ Locks(q, job[r].target)
                          /\ AtWork(q) /\ ~WaitsForLock(q)
<1>0. PICK d \in Conns : \E y \in pending[d] : y.table = "rules" /\ y.tenant = job[r].target
  BY DEF WaitsForLock, Locked
<1>1. PICK x \in pending[d] : x.table = "rules" /\ x.tenant = job[r].target
  BY <1>0
<1>2. RowOf(x) /\ conn[x.by] = d /\ phase[x.by] \in {"inserted", "ran", "replied"}
  BY DEF RowInv
<1>3. x.by \in Reqs
  BY <1>2 DEF RowOf, Rows
<1>4. AtWork(x.by) /\ conn[x.by] # NoConn
  BY <1>2, <1>3, HoldersWork, NoConnApart
<1>5. ~WaitsForLock(x.by)
  BY <1>2 DEF WaitsForLock, On
<1> QED
  BY <1>1, <1>2, <1>3, <1>4, <1>5 DEF Locks
-----------------------------------------------------------------------------
(* The invariant of every run                                              *)

PoolInv ==
    HoldTypes /\ DbTypes /\ HoldInv /\ FreshInv /\ RowInv /\ SeenInv /\ RuleInv /\ AckInv
        /\ LeakInv

\* All connections are idle and blank.
LEMMA PoolInit == Init => PoolInv
<1> SUFFICES ASSUME Init PROVE PoolInv
  OBVIOUS
<1>1. \A r \in Reqs : /\ phase[r] = "new" /\ job[r] = NoJob /\ conn[r] = NoConn /\ reply[r] = "none"
                      /\ seen[r] = {} /\ before[r] = {}
  BY DEF Init
<1>2. \A c \in Conns : setting[c] = Blank /\ open[c] = FALSE /\ pending[c] = {} /\ alive[c] = TRUE
  BY DEF Init
<1>3. pool = [c \in Conns |-> c] /\ waiting = <<>> /\ store = {} /\ breaks = 0
  BY DEF Init
<1>4. pool \in Seq(Conns) /\ IsInjective(pool) /\ ToSet(pool) = Conns
  <2>1. pool \in [1..NConns -> Conns] /\ NConns \in Nat
    BY <1>3, PoolAssumption DEF Conns
  <2>2. DOMAIN pool = Conns /\ \A c \in Conns : pool[c] = c
    BY <1>3
  <2> QED
    BY <2>1, <2>2 DEF IsInjective, ToSet
<1>5. HoldTypes
  BY <1>3, <1>4 DEF Init, HoldTypes, Phases
<1>6. DbTypes
  <2>1. breaks \in 0..MaxBreaks
    BY <1>3, PoolAssumption
  <2> QED
    BY <1>3, <2>1 DEF Init, DbTypes
<1>7. HoldInv
  <2>1. Exclusive
    BY <1>1, <1>3, <1>4, NoConnApart DEF Exclusive
  <2> QED
    BY <1>1, <1>3, <2>1, EmptyKeeps DEF HoldInv, Holding
<1>8. FreshInv
  BY <1>2 DEF FreshInv, FreshIsBlank, Unused
<1>9. RowInv /\ SeenInv
  BY <1>1, <1>2, <1>3 DEF RowInv, SeenInv
<1>10. RuleInv
  BY <1>1, <1>2, <1>3 DEF RuleInv, OneRule
<1>11. AckInv
  BY <1>1 DEF AckInv, AckOf, NoJob, Shown
<1>12. LeakInv
  BY <1>1, <1>4 DEF LeakInv, Accounted
<1> QED
  BY <1>5, <1>6, <1>7, <1>8, <1>9, <1>10, <1>11, <1>12 DEF PoolInv

\* Every step keeps all parts of the invariant.
LEMMA PoolStep == PoolInv /\ [Next]_vars => PoolInv'
  BY HoldStep, TypeStep, FreshStep, RowStep, SeenStep, RuleStep, AckStep, LeakStep DEF PoolInv

\* The invariant of the theorems below.
LEMMA PoolInvariant == Spec => []PoolInv
  BY PoolInit, PoolStep, PTL DEF Spec
-----------------------------------------------------------------------------

(***************************************************************************)
(* The state keeps its types, through every hand-over of a connection and  *)
(* every way out of a handler.                                             *)
(***************************************************************************)
THEOREM TypeCorrect == Spec => []TypeOK
<1>1. PoolInv => TypeOK
  BY TypeParts DEF PoolInv
<1> QED
  BY <1>1, PoolInvariant, PTL

(***************************************************************************)
(* No two requests use one connection, and none is idle while somebody     *)
(* waits (db.py:52-53, 84-87: a request leaves its connection only through *)
(* the exits of its context managers).                                    *)
(***************************************************************************)
THEOREM ConnectionsExclusive == Spec => []Exclusive
<1>1. PoolInv => Exclusive
  BY DEF PoolInv, HoldInv
<1> QED
  BY <1>1, PoolInvariant, PTL

(***************************************************************************)
(* A connection is handed over with no tenant, no transaction and no row:  *)
(* app.tenant ends with the transaction, whichever way that ends.          *)
(***************************************************************************)
THEOREM HandOverBlank == Spec => []FreshIsBlank
<1>1. PoolInv => FreshIsBlank
  BY DEF PoolInv, FreshInv
<1> QED
  BY <1>1, PoolInvariant, PTL

(***************************************************************************)
(* Every row that a request is shown or that is committed for it is of the *)
(* tenant in its claims (get_tenant_conn, write_event_async).              *)
(***************************************************************************)
THEOREM TenantsApart == Spec => []OwnRowsOnly
<1>1. PoolInv => OwnRowsOnly
  BY DEF PoolInv, RowInv, RowOf, SeenInv, OwnRowsOnly
<1> QED
  BY <1>1, PoolInvariant, PTL

(***************************************************************************)
(* Events that were acknowledged before a read came are in its answer      *)
(* (ingest.py commits before it returns 201).                              *)
(***************************************************************************)
THEOREM AcknowledgedSeen == Spec => []AckedEventsRead
<1>1. PoolInv => AckedEventsRead
  BY DEF PoolInv, AckInv, AckOf, AckedEventsRead, Shown
<1> QED
  BY <1>1, PoolInvariant, PTL

(***************************************************************************)
(* A tenant has one rule at most, and one when it is told so with a 409    *)
(* (the UNIQUE key and its lock, alert_rules.py:61-87).                    *)
(***************************************************************************)
THEOREM OneRuleEach == Spec => []OneRule
<1>1. PoolInv => OneRule
  BY DEF PoolInv, RuleInv
<1> QED
  BY <1>1, PoolInvariant, PTL

(***************************************************************************)
(* No wait is for nobody: while a request waits for a connection, each one *)
(* is being replaced or has a user at work, and the holder of the lock     *)
(* that a handler waits for waits for no lock itself.  So no connection is *)
(* leaked on a way out of a handler (db.py:52-53, 64-73, 84-87).           *)
(***************************************************************************)
THEOREM WaitsEnd == Spec => []NoWaitCycle
<1>1. PoolInv => NoWaitCycle
  BY ConnectionsMove, LocksMove DEF PoolInv, NoWaitCycle
<1> QED
  BY <1>1, PoolInvariant, PTL

(***************************************************************************)
(* Requests on shared connections are requests on a store of each tenant's *)
(* own: every step is an arrival, one write into the own store, or nothing.*)
(***************************************************************************)
THEOREM TenantStoresImplemented == Spec => ImplementsTenantStores
<1>1. Init => Isolated!Init
  <2> SUFFICES ASSUME Init PROVE Isolated!Init
    OBVIOUS
  <2>1. Came = {} /\ store = {}
    BY DEF Init, Came
  <2>2. Owner = [r \in {} |-> 0] /\ Stores = [t \in Tenants |-> {}]
    BY <2>1 DEF Owner, Stores, RowsIn
  <2> QED
    BY <2>2 DEF Isolated!Init, Owner, Came, Stores, RowsIn
<1>2. PoolInv /\ [Next]_vars => [Isolated!Next]_<<Owner, Stores>>
  BY StoresStep DEF PoolInv
<1>3. PoolInv /\ [Next]_vars => [Isolated!Next]_<<[r \in {q \in Reqs : phase[q] # "new"} |-> job[r].tenant],
         [t \in Tenants |-> {[table |-> x.table, by |-> x.by] : x \in {y \in store : y.tenant = t}}]>>
  BY <1>2 DEF Owner, Came, Stores, RowsIn
<1> QED
  BY <1>1, <1>3, PoolInvariant, PTL DEF Spec, ImplementsTenantStores, Isolated!Spec
=============================================================================
