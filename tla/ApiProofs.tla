------------------------------- MODULE ApiProofs -------------------------------
(***************************************************************************)
(* Proofs about Api, for any accounts, samples, page size and ranges.      *)
(***************************************************************************)
EXTENDS Api, FiniteSetTheorems, SequenceTheorems, TLAPS

\* How many rows of S come before r.
Rank(S, r) == Cardinality({x \in S : x.time > r.time})

Timed(S) == IsFiniteSet(S) /\ \A x \in S : x.time \in Int

\* No other row of S has r's time.
Alone(S, r) == \A x \in S \ {r} : x.time # r.time

\* C holds the newest rows of S.
Leads(C, S) == C \subseteq S /\ \A x \in C, y \in S \ C : x.time >= y.time

(***************************************************************************)
(* What ORDER BY ... LIMIT n returns: the newest rows, n of them unless    *)
(* there are fewer.                                                        *)
(***************************************************************************)
LEMMA NewestFacts ==
    ASSUME NEW S, Timed(S), NEW n \in Nat, NEW T \in Newest(S, n)
    PROVE  /\ Leads(T, S) /\ Timed(T) /\ Timed(S \ T)
           /\ Cardinality(T) \in Nat /\ Cardinality(T) <= n
           /\ S \ T # {} => Cardinality(T) = n
<1>1. T \subseteq S /\ Leads(T, S)
  BY DEF Newest, Leads
<1>2. IsFiniteSet(T) /\ IsFiniteSet(S \ T)
  BY <1>1, FS_Subset DEF Timed
<1>3. Cardinality(T) \in Nat /\ Cardinality(S) \in Nat
  BY <1>2, FS_CardinalityType DEF Timed
<1>4. Cardinality(T) = Cardinality(S) => S = T
  BY <1>1, FS_Subset DEF Timed
<1>5. Cardinality(T) = IF Cardinality(S) < n THEN Cardinality(S) ELSE n
  BY DEF Newest
<1> QED
  BY <1>1, <1>2, <1>3, <1>4, <1>5 DEF Timed

(***************************************************************************)
(* A row among the leading rows has a rank below their number, any other   *)
(* row one that is not, unless its time is not its own.                    *)
(***************************************************************************)
LEMMA RankInside ==
    ASSUME NEW S, Timed(S), NEW C, Leads(C, S), NEW r \in C, Alone(S, r)
    PROVE  Rank(S, r) < Cardinality(C) /\ Rank(S, r) \in Nat
<1> DEFINE newer == {x \in S : x.time > r.time}
<1>1. r \in S /\ r.time \in Int /\ \A x \in S : x.time \in Int
  BY DEF Leads, Timed
<1>2. newer \subseteq C \ {r}
  BY <1>1 DEF Leads
<1>3. IsFiniteSet(C) /\ Cardinality(C) \in Nat
  BY FS_Subset, FS_CardinalityType DEF Leads, Timed
<1>4. IsFiniteSet(C \ {r}) /\ Cardinality(C \ {r}) = Cardinality(C) - 1
  BY <1>3, FS_RemoveElement
<1>5. IsFiniteSet(newer) /\ Cardinality(newer) <= Cardinality(C \ {r})
  BY <1>2, <1>4, FS_Subset
<1>6. Cardinality(newer) \in Nat
  BY <1>5, FS_CardinalityType
<1> QED
  BY <1>3, <1>4, <1>5, <1>6 DEF Rank

\* A row behind the shown ones ranks after all of them.
LEMMA RankOutside ==
    ASSUME NEW S, Timed(S), NEW C, Leads(C, S), NEW r \in S \ C, Alone(S, r)
    PROVE  Rank(S, r) >= Cardinality(C) /\ Rank(S, r) \in Nat
<1> DEFINE newer == {x \in S : x.time > r.time}
<1>1. \A x \in S : x.time \in Int
  BY DEF Timed
<1>2. C \subseteq newer
  BY <1>1 DEF Leads, Alone
<1>3. IsFiniteSet(newer)
  BY FS_Subset DEF Timed
<1>4. Cardinality(C) <= Cardinality(newer)
  BY <1>2, <1>3, FS_Subset
<1>5. Cardinality(newer) \in Nat
  BY <1>3, FS_CardinalityType
<1> QED
  BY <1>4, <1>5 DEF Rank

(***************************************************************************)
(* Rows of a page at an offset have the ranks from the offset on, and rows *)
(* with a rank from there on are on the page or after it.                  *)
(***************************************************************************)
LEMMA PageRanks ==
    ASSUME NEW S, Timed(S), NEW o \in Nat, NEW skipped \in Newest(S, o),
           NEW fetched \in Newest(S \ skipped, Limit + 1), NEW page \in Newest(fetched, Limit),
           NEW r \in S, Alone(S, r)
    PROVE  /\ Rank(S, r) \in Nat
           /\ r \in page => o <= Rank(S, r) /\ Rank(S, r) < o + Limit
           /\ r \notin page /\ o <= Rank(S, r) =>
                 Cardinality(fetched) > Limit /\ o + Limit <= Rank(S, r)
<1>0. Limit \in Nat /\ Limit + 1 \in Nat
  BY ApiAssumption
<1>1. /\ Leads(skipped, S) /\ Timed(skipped) /\ Timed(S \ skipped)
      /\ Cardinality(skipped) \in Nat /\ Cardinality(skipped) <= o
      /\ S \ skipped # {} => Cardinality(skipped) = o
  BY NewestFacts
<1>2. /\ Leads(fetched, S \ skipped) /\ Timed(fetched)
      /\ Cardinality(fetched) \in Nat
      /\ (S \ skipped) \ fetched # {} => Cardinality(fetched) = Limit + 1
  BY <1>0, <1>1, NewestFacts
<1>3. /\ Leads(page, fetched) /\ Timed(page)
      /\ Cardinality(page) \in Nat /\ Cardinality(page) <= Limit
      /\ fetched \ page # {} => Cardinality(page) = Limit
  BY <1>0, <1>2, NewestFacts
<1> DEFINE C == skipped \cup page
<1>4. page \subseteq fetched /\ fetched \subseteq S \ skipped /\ skipped \subseteq S
  BY <1>1, <1>2, <1>3 DEF Leads
<1>5. Leads(C, S)
  BY <1>1, <1>2, <1>3, <1>4 DEF Leads
<1>6. Cardinality(C) = Cardinality(skipped) + Cardinality(page)
  <2>1. skipped \cap page = {}
    BY <1>4
  <2>2. Cardinality(skipped \cap page) = 0
    BY <2>1, FS_EmptySet
  <2>3. Cardinality(C) = Cardinality(skipped) + Cardinality(page) - Cardinality(skipped \cap page)
    BY <1>1, <1>3, FS_Union DEF Timed
  <2> QED
    BY <1>1, <1>3, <2>2, <2>3
<1>7. CASE r \in page
  <2>1. r \in S \ skipped /\ r \in C
    BY <1>4, <1>7
  <2>2. Rank(S, r) >= Cardinality(skipped) /\ Rank(S, r) \in Nat
    BY <1>1, <2>1, RankOutside
  <2>3. Rank(S, r) < Cardinality(C)
    BY <1>5, <2>1, RankInside
  <2> QED
    BY <1>0, <1>1, <1>3, <1>6, <1>7, <2>1, <2>2, <2>3
<1>8. CASE r \in skipped
  <2>1. Rank(S, r) < Cardinality(skipped) /\ Rank(S, r) \in Nat
    BY <1>1, <1>8, RankInside
  <2> QED
    BY <1>0, <1>1, <1>4, <1>8, <2>1
<1>9. CASE r \notin C
  <2>1. Rank(S, r) >= Cardinality(C) /\ Rank(S, r) \in Nat
    BY <1>5, <1>9, RankOutside
  <2>2. Cardinality(skipped) = o
    BY <1>1, <1>9
  <2>3. Cardinality(page) = Limit
    <3>1. CASE r \in fetched
      BY <1>3, <1>9, <3>1
    <3>2. CASE r \notin fetched
      <4>1. Cardinality(fetched) = Limit + 1
        BY <1>2, <1>9, <3>2
      <4>2. fetched # page
        BY <1>0, <1>3, <4>1
      <4> QED
        BY <1>0, <1>3, <1>4, <4>2
    <3> QED
      BY <3>1, <3>2
  <2>4. Cardinality(fetched) > Limit
    <3>1. CASE r \in fetched
      <4>1. IsFiniteSet(fetched) /\ page \in SUBSET fetched /\ fetched # page
        BY <1>2, <1>4, <1>9, <3>1 DEF Timed
      <4>2. Cardinality(page) <= Cardinality(fetched) /\ Cardinality(page) # Cardinality(fetched)
        BY <4>1, FS_Subset
      <4> QED
        BY <1>0, <1>2, <1>3, <2>3, <4>2
    <3>2. CASE r \notin fetched
      BY <1>0, <1>2, <1>9, <3>2
    <3> QED
      BY <3>1, <3>2
  <2> QED
    BY <1>0, <1>6, <1>9, <2>1, <2>2, <2>3, <2>4
<1> QED
  BY <1>7, <1>8, <1>9
-----------------------------------------------------------------------------
(* Pages over a table that changes                                         *)

TableInv ==
    /\ IsFiniteSet(rows) /\ ids \in Nat
    /\ \A r \in rows : r.id \in Nat /\ r.id <= ids /\ r.time \in Int

NewerCame(r) == \E c \in came : c.tenant = r.tenant /\ c.time > r.time
NewerGone(r) == \E g \in gone : g.tenant = r.tenant /\ g.time > r.time

\* Between two pages: what has been shown lies before the next page and what
\* has not lies on it or after it, unless a change is to blame.
Between ==
    LET S == InRange(walk.range)
        next == walk.offset + Limit
    IN  /\ S \subseteq base \cup came /\ base \cap rows \subseteq S
        /\ \A r \in S : ~Tied(r) =>
               /\ r \in shown => NewerCame(r) \/ Rank(S, r) < next
               /\ r \in base \ shown => NewerGone(r) \/ next <= Rank(S, r)

WalkInv ==
    /\ walk.offset \in Nat
    /\ session = NoToken => walk = NoWalk
    /\ \A r \in base \cup shown : r.id \in Nat /\ r.id <= ids
    /\ walk.more => Between
    /\ PagesComplete /\ RepeatsExplained

readerVars == <<session, walk, base, shown, twice, came, gone>>

(***************************************************************************)
(* What a query ranks: a finite set of timed rows, in which a row without  *)
(* a tie is alone while the walk goes on.                                  *)
(***************************************************************************)
LEMMA RangeTimed == ASSUME TableInv, NEW g PROVE Timed(InRange(g))
<1>1. InRange(g) \subseteq rows
  BY DEF InRange
<1> QED
  BY <1>1, FS_Subset DEF TableInv, Timed

\* A row that is tied with none has its time to itself in every range.
LEMMA UntiedAlone ==
    ASSUME NEW g, InRange(g) \subseteq base \cup came, NEW r \in InRange(g), ~Tied(r)
    PROVE  Alone(InRange(g), r)
  BY DEF Tied, Alone, InRange

(***************************************************************************)
(* A rank is a number, it grows with the set, and it only changes by newer *)
(* rows.                                                                   *)
(***************************************************************************)
LEMMA RankGrows ==
    ASSUME NEW S, NEW T, Timed(T), S \subseteq T, NEW r
    PROVE  /\ Rank(S, r) \in Nat /\ Rank(T, r) \in Nat /\ Rank(S, r) <= Rank(T, r)
           /\ (\A x \in T \ S : ~(x.time > r.time)) => Rank(S, r) = Rank(T, r)
<1> DEFINE inS == {x \in S : x.time > r.time}
           inT == {x \in T : x.time > r.time}
<1>1. IsFiniteSet(inT) /\ inS \in SUBSET inT
  BY FS_Subset DEF Timed
<1>2. IsFiniteSet(inS) /\ Cardinality(inS) <= Cardinality(inT)
  BY <1>1, FS_Subset
<1>3. Cardinality(inS) \in Nat /\ Cardinality(inT) \in Nat
  BY <1>1, <1>2, FS_CardinalityType
<1>4. (\A x \in T \ S : ~(x.time > r.time)) => inS = inT
  OBVIOUS
<1> QED
  BY <1>2, <1>3, <1>4 DEF Rank

(***************************************************************************)
(* An event that comes in, by whatever way, moves rows to later pages and  *)
(* is remembered for it.                                                   *)
(***************************************************************************)
LEMMA InsertKeepsWalk ==
    ASSUME TableInv, WalkInv, NEW t, NEW time \in Int, Insert(Row(t, time)),
           UNCHANGED <<session, walk, base, shown, twice, gone>>
    PROVE  TableInv' /\ WalkInv'
<1> DEFINE new == Row(t, time)
<1>0. /\ rows' = rows \cup {new} /\ ids' = ids + 1 /\ came \subseteq came'
      /\ walk.more => came' = came \cup {new}
      /\ ~walk.more => came' = came
      /\ new.id = ids + 1 /\ new.time = time /\ new.tenant = t
  BY DEF Insert, Row
<1>1. TableInv'
  <2>1. IsFiniteSet(rows')
    BY <1>0, FS_AddElement DEF TableInv
  <2> QED
    BY <1>0, <2>1 DEF TableInv
<1>2. new \notin base /\ new \notin shown /\ new \notin rows
  BY <1>0 DEF WalkInv, TableInv
<1>3. \A r : Tied(r) => Tied(r)'
  BY <1>0 DEF Tied
<1>4. \A r : NewerCame(r) => NewerCame(r)'
  BY <1>0 DEF NewerCame
<1>5. RepeatsExplained'
  BY <1>3, <1>4 DEF WalkInv, RepeatsExplained, NewerCame
<1>6. PagesComplete'
  BY <1>0, <1>2, <1>3 DEF WalkInv, PagesComplete, WalkOver
<1>7. ASSUME walk.more PROVE Between'
  <2> DEFINE S == InRange(walk.range)
             T == InRange(walk.range)'
             next == walk.offset + Limit
  <2>1. Between /\ S \subseteq T /\ T \ S \subseteq {new} /\ new \notin S
    BY <1>0, <1>2, <1>7 DEF WalkInv, InRange
  <2>2. T \subseteq base' \cup came' /\ base' \cap rows' \subseteq T
    BY <1>0, <1>2, <1>7, <2>1 DEF Between
  <2>3. Timed(T)
    <3>1. T \in SUBSET rows' /\ IsFiniteSet(rows') /\ \A x \in rows' : x.time \in Int
      BY <1>1 DEF TableInv, InRange
    <3> QED
      BY <3>1, FS_Subset DEF Timed
  <2>4. next \in Nat
    BY ApiAssumption DEF WalkInv
  <2>5. ASSUME NEW r \in T, ~Tied(r)', r \in shown
        PROVE  NewerCame(r)' \/ Rank(T, r) < next
    <3>1. r \in S /\ ~Tied(r)
      BY <1>2, <1>3, <2>1, <2>5
    <3>2. NewerCame(r) \/ Rank(S, r) < next
      BY <2>1, <2>5, <3>1 DEF Between
    <3>3. CASE \A x \in T \ S : ~(x.time > r.time)
      <4>1. Rank(S, r) = Rank(T, r)
        BY <2>1, <2>3, <3>3, RankGrows
      <4> QED
        BY <1>4, <3>2, <4>1
    <3>4. CASE \E x \in T \ S : x.time > r.time
      <4>1. new \in T /\ new.time > r.time
        BY <2>1, <3>4
      <4>2. new.tenant = r.tenant
        BY <3>1, <4>1 DEF InRange
      <4> QED
        BY <1>0, <1>7, <4>1, <4>2 DEF NewerCame
    <3> QED
      BY <3>3, <3>4
  <2>6. ASSUME NEW r \in T, ~Tied(r)', r \in base \ shown
        PROVE  NewerGone(r) \/ next <= Rank(T, r)
    <3>1. r \in S /\ ~Tied(r)
      BY <1>2, <1>3, <2>1, <2>6
    <3>2. NewerGone(r) \/ next <= Rank(S, r)
      BY <2>1, <2>6, <3>1 DEF Between
    <3>3. Rank(S, r) \in Nat /\ Rank(T, r) \in Nat /\ Rank(S, r) <= Rank(T, r)
      BY <2>1, <2>3, RankGrows
    <3> QED
      BY <2>4, <3>2, <3>3
  <2> QED
    BY <2>2, <2>5, <2>6 DEF Between, NewerGone
<1>8. \A r \in base \cup shown : r.id \in Nat /\ r.id <= ids'
  BY <1>0 DEF WalkInv, TableInv
<1> QED
  BY <1>1, <1>5, <1>6, <1>7, <1>8 DEF WalkInv

(***************************************************************************)
(* Retention moves rows to earlier pages, and what it took is remembered.  *)
(***************************************************************************)
LEMMA RetireKeepsWalk ==
    ASSUME TableInv, WalkInv, Retire
    PROVE  TableInv' /\ WalkInv'
<1> DEFINE dropped == {r \in rows : r.time <= oldest /\ ~r.stray}
<1>0. /\ rows' = rows \ dropped /\ ids' = ids /\ came' = came /\ gone \subseteq gone'
      /\ walk.more => gone' = gone \cup dropped
      /\ UNCHANGED <<session, walk, base, shown, twice>>
  BY DEF Retire, reader
<1>1. TableInv'
  <2>1. IsFiniteSet(rows')
    BY <1>0, FS_Subset DEF TableInv
  <2> QED
    BY <1>0, <2>1 DEF TableInv
<1>2. \A r : Tied(r)' <=> Tied(r)
  BY <1>0 DEF Tied
<1>3. \A r : (NewerGone(r) => NewerGone(r)') /\ (NewerCame(r)' <=> NewerCame(r))
  BY <1>0 DEF NewerGone, NewerCame
<1>4. RepeatsExplained'
  BY <1>0, <1>2, <1>3 DEF WalkInv, RepeatsExplained, NewerCame
<1>5. PagesComplete'
  BY <1>0, <1>2, <1>3 DEF WalkInv, PagesComplete, WalkOver, NewerGone
<1>6. ASSUME walk.more PROVE Between'
  <2> DEFINE S == InRange(walk.range)
             T == InRange(walk.range)'
             next == walk.offset + Limit
  <2>1. Between /\ T \subseteq S /\ S \ T \subseteq dropped
    BY <1>0, <1>6 DEF WalkInv, InRange
  <2>2. T \subseteq base' \cup came' /\ base' \cap rows' \subseteq T
    <3>1. base \cap rows \subseteq S /\ S \subseteq base \cup came
      BY <2>1 DEF Between
    <3>2. \A r \in S : r \in rows' => r \in T
      BY <1>0 DEF InRange
    <3> QED
      BY <1>0, <2>1, <3>1, <3>2
  <2>3. Timed(S)
    BY RangeTimed
  <2>4. next \in Nat
    BY ApiAssumption DEF WalkInv
  <2>5. ASSUME NEW r \in T, ~Tied(r), r \in shown
        PROVE  NewerCame(r) \/ Rank(T, r) < next
    <3>1. NewerCame(r) \/ Rank(S, r) < next
      BY <2>1, <2>5 DEF Between
    <3>2. Rank(T, r) \in Nat /\ Rank(S, r) \in Nat /\ Rank(T, r) <= Rank(S, r)
      BY <2>1, <2>3, RankGrows
    <3> QED
      BY <2>4, <3>1, <3>2
  <2>6. ASSUME NEW r \in T, ~Tied(r), r \in base \ shown
        PROVE  NewerGone(r)' \/ next <= Rank(T, r)
    <3>1. NewerGone(r) \/ next <= Rank(S, r)
      BY <2>1, <2>6 DEF Between
    <3>2. CASE \A x \in S \ T : ~(x.time > r.time)
      <4>1. Rank(T, r) = Rank(S, r)
        BY <2>1, <2>3, <3>2, RankGrows
      <4> QED
        BY <1>3, <3>1, <4>1
    <3>3. CASE \E x \in S \ T : x.time > r.time
      <4>1. PICK x \in S \ T : x.time > r.time
        BY <3>3
      <4>2. x \in gone' /\ x.tenant = r.tenant
        BY <1>0, <1>6, <2>1, <2>6, <4>1 DEF InRange
      <4> QED
        BY <4>1, <4>2 DEF NewerGone
    <3> QED
      BY <3>2, <3>3
  <2> QED
    BY <1>0, <1>2, <1>3, <2>2, <2>5, <2>6 DEF Between
<1> QED
  BY <1>0, <1>1, <1>4, <1>5, <1>6 DEF WalkInv

(***************************************************************************)
(* The first page begins a walk; each further page leaves what is shown    *)
(* before the next one; the last leaves nothing.                           *)
(***************************************************************************)
LEMMA SearchKeepsWalk ==
    ASSUME TableInv, WalkInv, clock \in Nat, NEW g \in Ranges, Search(g)
    PROVE  TableInv' /\ WalkInv'
<1> DEFINE S == InRange(g)
<1>0. /\ UNCHANGED <<rows, ids, session>> /\ base' = S /\ twice' = {}
      /\ came' = {} /\ gone' = {}
  BY DEF Search, table
<1>1. PICK page \in SUBSET S : Page(g, 0, page) /\ shown' = page
  BY DEF Search
<1>2. PICK fetched \in Fetch(S, 0) :
         /\ page \in Newest(fetched, Limit)
         /\ walk' = [range |-> g, offset |-> 0, more |-> Cardinality(fetched) > Limit]
  BY <1>1 DEF Page
<1>3. PICK skipped \in Newest(S, 0) : fetched \in Newest(S \ skipped, Limit + 1)
  BY DEF Fetch
<1>4. Timed(S) /\ Limit \in Nat
  BY RangeTimed, ApiAssumption
<1>5. \A r \in S : Tied(r)' \/ Alone(S, r)
  BY <1>0 DEF Tied, Alone, InRange
<1>6. ASSUME NEW r \in S, ~Tied(r)'
      PROVE  /\ Rank(S, r) \in Nat
             /\ r \in page => Rank(S, r) < 0 + Limit
             /\ r \notin page => Cardinality(fetched) > Limit /\ 0 + Limit <= Rank(S, r)
  BY <1>2, <1>3, <1>4, <1>5, <1>6, PageRanks
<1>7. S = InRange(walk.range)'
  BY <1>0, <1>2 DEF InRange
<1>8. Between'
  BY <1>0, <1>1, <1>2, <1>6, <1>7 DEF Between
<1>9. PagesComplete'
  BY <1>0, <1>1, <1>2, <1>6 DEF PagesComplete, WalkOver
<1>10. RepeatsExplained' /\ TableInv'
  BY <1>0 DEF RepeatsExplained, TableInv
<1>11. \A r \in base' \cup shown' : r.id \in Nat /\ r.id <= ids'
  BY <1>0, <1>1 DEF TableInv, InRange
<1>12. session' # NoToken
  <2>1. clock < session.exp
    BY <1>1 DEF Page, Valid
  <2>2. NoToken.exp = 0
    BY DEF NoToken
  <2>3. session # NoToken
    BY <2>1, <2>2
  <2> QED
    BY <1>0, <2>3
<1> QED
  BY <1>2, <1>8, <1>9, <1>10, <1>11, <1>12 DEF WalkInv

\* The next page takes the ranks that follow the shown ones.
LEMMA NextPageKeepsWalk ==
    ASSUME TableInv, WalkInv, clock \in Nat, NextPage
    PROVE  TableInv' /\ WalkInv'
<1> DEFINE g == walk.range
           S == InRange(g)
           o == walk.offset + Limit
<1>0. /\ UNCHANGED <<rows, ids, session, base, came, gone>>
      /\ walk.more /\ Between
  BY DEF NextPage, table, WalkInv
<1>1. PICK page \in SUBSET S :
         /\ Page(g, o, page)
         /\ shown' = shown \cup page /\ twice' = twice \cup (shown \cap page)
  BY DEF NextPage
<1>2. PICK fetched \in Fetch(S, o) :
         /\ page \in Newest(fetched, Limit)
         /\ walk' = [range |-> g, offset |-> o, more |-> Cardinality(fetched) > Limit]
  BY <1>1 DEF Page
<1>3. PICK skipped \in Newest(S, o) : fetched \in Newest(S \ skipped, Limit + 1)
  BY DEF Fetch
<1>4. Timed(S) /\ Limit \in Nat /\ o \in Nat
  BY RangeTimed, ApiAssumption DEF WalkInv
<1>5. ASSUME NEW r \in S, ~Tied(r)
      PROVE  /\ Rank(S, r) \in Nat
             /\ r \in page => o <= Rank(S, r) /\ Rank(S, r) < o + Limit
             /\ r \notin page /\ o <= Rank(S, r) =>
                   Cardinality(fetched) > Limit /\ o + Limit <= Rank(S, r)
             /\ r \in shown => NewerCame(r) \/ Rank(S, r) < o
             /\ r \in base \ shown => NewerGone(r) \/ o <= Rank(S, r)
  <2>1. Alone(S, r)
    BY <1>0, <1>5, UntiedAlone DEF Between
  <2>2. /\ r \in shown => NewerCame(r) \/ Rank(S, r) < o
        /\ r \in base \ shown => NewerGone(r) \/ o <= Rank(S, r)
    BY <1>0, <1>5 DEF Between
  <2> QED
    BY <1>2, <1>3, <1>4, <2>1, <2>2, PageRanks
<1>6. S = InRange(walk.range)'
  BY <1>0, <1>2 DEF InRange
<1>7. /\ \A r : Tied(r)' <=> Tied(r)
      /\ \A r : NewerCame(r)' <=> NewerCame(r)
      /\ \A r : NewerGone(r)' <=> NewerGone(r)
  <2>1. \A r : Tied(r)' <=> Tied(r)
    BY <1>0 DEF Tied
  <2>2. \A r : NewerCame(r)' <=> NewerCame(r)
    BY <1>0 DEF NewerCame
  <2>3. \A r : NewerGone(r)' <=> NewerGone(r)
    BY <1>0 DEF NewerGone
  <2> QED
    BY <2>1, <2>2, <2>3
<1>8. Between'
  <2>1. S \subseteq base' \cup came' /\ base' \cap rows' \subseteq S
    BY <1>0 DEF Between
  <2>2. ASSUME NEW r \in S, ~Tied(r), r \in shown'
        PROVE  NewerCame(r) \/ Rank(S, r) < o + Limit
    BY <1>1, <1>4, <1>5, <2>2
  <2>3. ASSUME NEW r \in S, ~Tied(r), r \in base \ shown'
        PROVE  NewerGone(r) \/ o + Limit <= Rank(S, r)
    BY <1>1, <1>5, <2>3
  <2> QED
    BY <1>0, <1>2, <1>6, <1>7, <2>1, <2>2, <2>3 DEF Between
<1>9. PagesComplete'
  <2> SUFFICES ASSUME ~walk'.more, NEW r \in (base' \cap rows') \ shown', ~Tied(r)'
               PROVE  NewerGone(r)'
    BY DEF PagesComplete, WalkOver, NewerGone
  <2>1. r \in S /\ r \in base \ shown /\ r \notin page /\ ~Tied(r)
    BY <1>0, <1>1, <1>7 DEF Between
  <2>2. ~(Cardinality(fetched) > Limit)
    BY <1>2
  <2> QED
    BY <1>5, <1>7, <2>1, <2>2
<1>10. RepeatsExplained'
  <2> SUFFICES ASSUME NEW r \in twice', ~Tied(r)'
               PROVE  NewerCame(r)'
    BY DEF RepeatsExplained, NewerCame
  <2>1. CASE r \in twice
    BY <1>7, <2>1 DEF WalkInv, RepeatsExplained, NewerCame
  <2>2. CASE r \in shown \cap page
    <3>1. r \in S /\ ~Tied(r)
      BY <1>1, <1>7, <2>2
    <3>2. Rank(S, r) \in Nat /\ o <= Rank(S, r) /\ (NewerCame(r) \/ Rank(S, r) < o)
      BY <1>5, <2>2, <3>1
    <3> QED
      BY <1>4, <1>7, <3>2
  <2> QED
    BY <1>1, <2>1, <2>2
<1>11. TableInv'
  BY <1>0 DEF TableInv
<1>12. \A r \in base' \cup shown' : r.id \in Nat /\ r.id <= ids'
  BY <1>0, <1>1 DEF TableInv, InRange, WalkInv
<1>13. session' # NoToken
  <2>1. clock < session.exp
    BY <1>1 DEF Page, Valid
  <2>2. NoToken.exp = 0
    BY DEF NoToken
  <2>3. session # NoToken
    BY <2>1, <2>2
  <2> QED
    BY <1>0, <2>3
<1> QED
  BY <1>2, <1>4, <1>8, <1>9, <1>10, <1>11, <1>12, <1>13 DEF WalkInv

(***************************************************************************)
(* A session begins and ends without a walk; what touches neither the table*)
(* nor the reader keeps its invariants.                                    *)
(***************************************************************************)
LEMMA SessionKeepsWalk ==
    ASSUME TableInv, WalkInv, SessionEnds \/ \E l \in Credentials : ReaderLogin(l)
    PROVE  TableInv' /\ WalkInv'
<1>1. CASE SessionEnds
  BY <1>1 DEF SessionEnds, table, TableInv, WalkInv, NoWalk, PagesComplete, WalkOver,
              RepeatsExplained
<1>2. CASE \E l \in Credentials : ReaderLogin(l)
  <2>1. /\ session = NoToken /\ walk = NoWalk
        /\ UNCHANGED <<rows, ids, walk, base, shown, twice, came, gone>>
    BY <1>2 DEF ReaderLogin, table, WalkInv
  <2> QED
    BY <2>1 DEF TableInv, WalkInv, NoWalk, PagesComplete, WalkOver, RepeatsExplained, Tied
<1> QED
  BY <1>1, <1>2

\* Accounts, tokens and the posting client leave the pages alone.
LEMMA OthersKeepWalk ==
    ASSUME TableInv, WalkInv, UNCHANGED <<rows, ids, readerVars>>
    PROVE  TableInv' /\ WalkInv'
  BY DEF readerVars, TableInv, WalkInv, Between, InRange, Tied, NewerCame, NewerGone,
         PagesComplete, WalkOver, RepeatsExplained
-----------------------------------------------------------------------------
(* Accounts, tokens and posts                                              *)

AccountsInv == clock \in Nat /\ \A u, v \in users : u.name = v.name => u = v

Attempts == [name : {l.name : l \in Credentials}, password : {l.password : l \in Credentials},
             login : Nat]

Refusals == {"401", "403"}
Statuses == Refusals \cup {"201", "500"}

\* Token t is that of run n, whose password opened an account with its claims.
Backed(t, n) ==
    /\ n \in 1..Run /\ t.exp = runs[n].login + Expire
    /\ \E u \in users : /\ u.name = t.sub /\ u.role = t.role /\ u.tenant = t.tenant
                        /\ runs[n].name = u.name /\ runs[n].password = u.password

PosterInv ==
    /\ runs \in Seq(Attempts) /\ report \in Seq(Statuses \cup {"unreachable"})
    /\ at \in {"idle", "ready", "sent"} /\ token.exp \in Int
    /\ at # "idle" => Backed(token, Run) /\ Len(report) < Len(Samples)

\* A request is of an index of its own, the run's next one; it is not
\* admitted once the run was refused.
RequestsInv ==
    \A q \in requests :
        /\ q = [run |-> q.run, index |-> q.index, token |-> q.token, admitted |-> q.admitted]
        /\ Backed(q.token, q.run) /\ q.index \in 1..Len(Samples)
        /\ q.admitted # NotAdmitted => q.admitted < q.token.exp /\ q.token.role = "admin"
        /\ \A p \in requests : p.run = q.run /\ p.index = q.index => p = q
        /\ \A w \in journal : ~(w.run = q.run /\ w.index = q.index)
        /\ q.run = Run => /\ q.index = Index /\ q.token = token /\ at # "ready"
                          /\ (\E i \in DOMAIN report : report[i] \in Refusals) =>
                                q.admitted = NotAdmitted

JournalInv ==
    \A w \in journal :
        /\ w.run \in 1..Run /\ w.index \in Nat
        /\ \A v \in journal : v.run = w.run /\ v.index = w.index => v = w
        /\ w.run = Run => w.index <= Index /\ (w.index = Index => at # "ready")

ReportInv ==
    \A i \in DOMAIN report :
        /\ report[i] = "201" => \E w \in journal : w.run = Run /\ w.index = i
        /\ report[i] \in Refusals \cup {"unreachable"} =>
              \A w \in journal : ~(w.run = Run /\ w.index = i)
        /\ report[i] = "401" => clock >= token.exp
        /\ report[i] = "403" => token.role # "admin"
        /\ report[i] \in Refusals =>
              \A j \in DOMAIN report : j > i => report[j] \in {report[i], "401", "unreachable"}

PostInv == AccountsInv /\ PosterInv /\ RequestsInv /\ JournalInv /\ ReportInv /\ WritesBacked

ApiInv == TableInv /\ WalkInv /\ PostInv

(***************************************************************************)
(* Accounts are never changed and runs never forgotten: a token stays      *)
(* backed, and so does what was written with it.                           *)
(***************************************************************************)
LEMMA BackedStays ==
    ASSUME PosterInv, users \subseteq users',
           runs' = runs \/ \E e \in Attempts : runs' = Append(runs, e)
    PROVE  \A t, n : Backed(t, n) => Backed(t, n)'
<1>1. Len(runs) <= Len(runs)' /\ \A n \in 1..Len(runs) : runs'[n] = runs[n]
  BY DEF PosterInv
<1>2. Len(runs) \in Nat /\ Len(runs)' \in Nat
  BY DEF PosterInv
<1> QED
  BY <1>1, <1>2 DEF Backed, Run

\* Accounts and runs only grow, so what backs a journal entry stays.
LEMMA WritesStay ==
    ASSUME PosterInv, JournalInv, WritesBacked, AccountsInv', users \subseteq users',
           runs' = runs \/ \E e \in Attempts : runs' = Append(runs, e),
           journal' = journal
    PROVE  WritesBacked'
<1>1. \A n \in 1..Len(runs) : runs'[n] = runs[n]
  BY DEF PosterInv
<1>2. \A w \in journal : w.run \in 1..Len(runs)
  BY DEF JournalInv, Run
<1> QED
  BY <1>1, <1>2 DEF WritesBacked, AccountsInv

(***************************************************************************)
(* create_user adds an account under a new name; time passes; a run begins *)
(* with a token that its password opened, or ends.                         *)
(***************************************************************************)
LEMMA CreateUserKeepsPosts ==
    ASSUME PostInv, NEW c \in Commands, CreateUser(c)
    PROVE  PostInv'
<1>1. /\ UNCHANGED <<clock, poster, server>> /\ users \subseteq users'
      /\ users' = users \/ (users' = users \cup {c} /\ ~Taken(c))
  BY DEF CreateUser
<1>2. AccountsInv'
  BY <1>1 DEF PostInv, AccountsInv, Taken
<1>3. \A t, n : Backed(t, n) => Backed(t, n)'
  BY <1>1, BackedStays DEF PostInv, poster
<1>4. WritesBacked'
  BY <1>1, <1>2, WritesStay DEF PostInv, poster, server
<1>5. PosterInv'
  BY <1>1, <1>3 DEF PostInv, PosterInv, poster, Run
<1>6. RequestsInv'
  BY <1>1, <1>3 DEF PostInv, RequestsInv, poster, server, Run, Index
<1>7. JournalInv' /\ ReportInv'
  BY <1>1 DEF PostInv, JournalInv, ReportInv, poster, server, Run, Index
<1> QED
  BY <1>2, <1>4, <1>5, <1>6, <1>7 DEF PostInv

\* Time passes: tokens expire, and nothing written changes.
LEMMA TickKeepsPosts ==
    ASSUME PostInv, Tick
    PROVE  PostInv'
<1>1. clock' = clock + 1 /\ UNCHANGED <<users, poster, server>>
  BY DEF Tick, accounts
<1>2. AccountsInv' /\ clock \in Nat
  BY <1>1 DEF PostInv, AccountsInv
<1>3. \A t, n : Backed(t, n) => Backed(t, n)'
  BY <1>1, BackedStays DEF PostInv, poster
<1>4. WritesBacked'
  BY <1>1, <1>2, WritesStay DEF PostInv, poster, server
<1>5. PosterInv'
  BY <1>1, <1>3 DEF PostInv, PosterInv, poster, Run
<1>6. RequestsInv' /\ JournalInv'
  BY <1>1, <1>3 DEF PostInv, RequestsInv, JournalInv, poster, server, Run, Index
<1>7. ReportInv'
  <2>1. token.exp \in Int
    BY DEF PostInv, PosterInv
  <2> QED
    BY <1>1, <1>2, <2>1 DEF PostInv, ReportInv, poster, server, Run
<1> QED
  BY <1>2, <1>4, <1>5, <1>6, <1>7 DEF PostInv

\* The client's login begins or ends a run.
LEMMA PostLoginKeepsPosts ==
    ASSUME PostInv, NEW l \in Credentials, PostLogin(l)
    PROVE  PostInv'
<1> DEFINE e == [name |-> l.name, password |-> l.password, login |-> clock]
<1>1. /\ runs' = Append(runs, e) /\ report' = <<>>
      /\ UNCHANGED <<users, clock, server>> /\ e \in Attempts
  BY DEF PostLogin, accounts, PostInv, AccountsInv, Attempts
<1>2. PICK t \in {NoToken} \cup {TokenOf(u) : u \in users} :
         /\ LoginAnswer(l, t) \/ t = NoToken
         /\ token' = t /\ at' = IF t = NoToken THEN "idle" ELSE "ready"
  BY DEF PostLogin
<1>3. AccountsInv'
  BY <1>1 DEF PostInv, AccountsInv
<1>4. \A u, n : Backed(u, n) => Backed(u, n)'
  BY <1>1, BackedStays DEF PostInv
<1>5. WritesBacked'
  BY <1>1, <1>3, WritesStay DEF PostInv, server
<1>6. runs \in Seq(Attempts) /\ runs' \in Seq(Attempts) /\ Run' = Run + 1 /\ Run \in Nat
      /\ runs'[Run + 1] = e
  BY <1>1 DEF PostInv, PosterInv, Run
<1>7. t # NoToken => Backed(t, Run)'
  <2> SUFFICES ASSUME t # NoToken PROVE Backed(t, Run)'
    OBVIOUS
  <2>1. PICK u \in users : Found(l, u) /\ t = IF u.password = l.password THEN TokenOf(u) ELSE NoToken
    BY <1>2 DEF LoginAnswer
  <2>2. u.password = l.password /\ t = TokenOf(u) /\ u.name = l.name
    BY <2>1 DEF Found
  <2>3. /\ Run' \in 1..Run' /\ runs'[Run'].login = clock
        /\ runs'[Run'].name = l.name /\ runs'[Run'].password = l.password
    BY <1>6
  <2>4. /\ t.exp = clock + Expire /\ t.sub = u.name /\ t.role = u.role
        /\ t.tenant = u.tenant
    BY <2>2 DEF TokenOf
  <2> QED
    BY <1>1, <2>2, <2>3, <2>4 DEF Backed
<1>8. Len(Samples) \in Nat /\ 0 < Len(Samples)
  BY ApiAssumption
<1>9. PosterInv'
  <2>1. t.exp \in Int
    <3>1. Expire \in Nat /\ clock \in Nat
      BY ApiAssumption DEF PostInv, AccountsInv
    <3>2. NoToken.exp = 0
      BY DEF NoToken
    <3>3. CASE \E u \in users : t = TokenOf(u)
      BY <3>1, <3>3 DEF TokenOf
    <3> QED
      BY <1>2, <3>2, <3>3
  <2>2. report' \in Seq(Statuses \cup {"unreachable"}) /\ Len(report') = 0
    BY <1>1
  <2>3. t # NoToken => Backed(token, Run)'
    BY <1>2, <1>7 DEF Backed
  <2> QED
    BY <1>2, <1>6, <1>8, <2>1, <2>2, <2>3 DEF PosterInv
<1>10. RequestsInv' /\ JournalInv'
  <2>1. \A q \in requests : Backed(q.token, q.run) /\ q.run \in 1..Run
    BY DEF PostInv, RequestsInv, Backed
  <2>2. \A w \in journal : w.run \in 1..Run
    BY DEF PostInv, JournalInv
  <2>3. requests' = requests /\ journal' = journal
    BY <1>1 DEF server
  <2>4. \A n \in 1..Run : n # Run' /\ n \in 1..Run'
    BY <1>6
  <2>5. RequestsInv'
    <3> SUFFICES ASSUME NEW q \in requests
                 PROVE  /\ q = [run |-> q.run, index |-> q.index, token |-> q.token,
                                admitted |-> q.admitted]
                        /\ q.index \in 1..Len(Samples)
                        /\ q.admitted # NotAdmitted =>
                              q.admitted < q.token.exp /\ q.token.role = "admin"
                        /\ \A p \in requests : p.run = q.run /\ p.index = q.index => p = q
                        /\ \A w \in journal : ~(w.run = q.run /\ w.index = q.index)
      BY <1>4, <2>1, <2>3, <2>4 DEF RequestsInv
    <3> QED
      BY DEF PostInv, RequestsInv
  <2> QED
    BY <2>2, <2>3, <2>4, <2>5 DEF PostInv, JournalInv
<1>11. ReportInv'
  BY <1>1 DEF ReportInv
<1> QED
  BY <1>3, <1>5, <1>9, <1>10, <1>11 DEF PostInv

\* The reader and the other writers leave the posting client alone.
LEMMA OthersKeepPosts ==
    ASSUME PostInv, UNCHANGED <<users, clock, poster, server>>
    PROVE  PostInv'
<1>1. \A t, n : Backed(t, n) <=> Backed(t, n)'
  BY DEF Backed, Run, poster
<1> QED
  BY <1>1 DEF PostInv, AccountsInv, PosterInv, RequestsInv, JournalInv, ReportInv, WritesBacked,
              poster, server, Run, Index

(***************************************************************************)
(* The client sends the next sample, cannot, or gives up waiting.          *)
(***************************************************************************)
LEMMA ClientKeepsPosts ==
    ASSUME PostInv, Send \/ Unreachable \/ Dies
    PROVE  PostInv'
<1>0. /\ UNCHANGED <<users, clock, runs, token, journal>>
      /\ report \in Seq(Statuses \cup {"unreachable"}) /\ Len(report) \in Nat
  BY DEF Send, Unreachable, Dies, accounts, server, PostInv, PosterInv
<1>1. AccountsInv'
  BY <1>0 DEF PostInv, AccountsInv
<1>2. \A t, n : Backed(t, n) => Backed(t, n)'
  BY <1>0, BackedStays DEF PostInv
<1>3. WritesBacked'
  BY <1>0, <1>1, WritesStay DEF PostInv
<1>4. CASE Send
  <2> DEFINE new == [run |-> Run, index |-> Index, token |-> token, admitted |-> NotAdmitted]
  <2>1. /\ at = "ready" /\ at' = "sent" /\ report' = report
        /\ requests' = requests \cup {new}
    BY <1>4 DEF Send
  <2>2. Backed(token, Run) /\ Len(report) < Len(Samples) /\ Len(Samples) \in Nat
    BY <2>1, ApiAssumption DEF PostInv, PosterInv
  <2>3. PosterInv'
    BY <1>0, <1>2, <2>1, <2>2 DEF PostInv, PosterInv, Backed, Run
  <2>4. \A q \in requests : q.run # Run
    BY <2>1 DEF PostInv, RequestsInv
  <2>5. \A w \in journal : w.run = Run => w.index # Index
    BY <2>1 DEF PostInv, JournalInv
  <2>6. RequestsInv'
    <3>1. Run' = Run /\ Index' = Index /\ Index \in 1..Len(Samples)
      BY <1>0, <2>1, <2>2 DEF Run, Index
    <3>2. ASSUME NEW q \in requests
          PROVE  /\ q = [run |-> q.run, index |-> q.index, token |-> q.token,
                          admitted |-> q.admitted]
                 /\ Backed(q.token, q.run)' /\ q.index \in 1..Len(Samples)
                 /\ q.admitted # NotAdmitted =>
                       q.admitted < q.token.exp /\ q.token.role = "admin"
                 /\ \A p \in requests' : p.run = q.run /\ p.index = q.index => p = q
                 /\ \A w \in journal : ~(w.run = q.run /\ w.index = q.index)
      BY <1>2, <2>1, <2>4 DEF PostInv, RequestsInv
    <3>3. /\ Backed(new.token, new.run)' /\ new.index \in 1..Len(Samples)
          /\ \A p \in requests' : p.run = new.run /\ p.index = new.index => p = new
          /\ \A w \in journal : ~(w.run = new.run /\ w.index = new.index)
      <4>1. Backed(new.token, new.run)'
        BY <1>0, <2>2, <3>1 DEF Backed
      <4> QED
        BY <2>1, <2>4, <2>5, <3>1, <4>1
    <3> QED
      BY <1>0, <2>1, <2>4, <3>1, <3>2, <3>3 DEF RequestsInv
  <2>7. JournalInv' /\ ReportInv'
    BY <1>0, <2>1 DEF PostInv, JournalInv, ReportInv, Run, Index
  <2> QED
    BY <1>1, <1>3, <2>3, <2>6, <2>7 DEF PostInv
<1>5. CASE Unreachable
  <2>1. /\ at = "ready" /\ report' = Append(report, "unreachable") /\ requests' = requests
        /\ at' = IF Index = Len(Samples) THEN "idle" ELSE "ready"
    BY <1>5 DEF Unreachable, Says, server
  <2>2. Backed(token, Run) /\ Len(report) < Len(Samples) /\ Len(Samples) \in Nat
    BY <2>1, ApiAssumption DEF PostInv, PosterInv
  <2>3. /\ report' \in Seq(Statuses \cup {"unreachable"}) /\ Len(report') = Len(report) + 1
        /\ \A i \in DOMAIN report : report'[i] = report[i] /\ i < Index
        /\ report'[Index] = "unreachable"
        /\ DOMAIN report' = DOMAIN report \cup {Index}
    BY <1>0, <2>1 DEF Index
  <2>4. PosterInv'
    <3>1. Backed(token, Run)'
      BY <1>0, <2>2 DEF Backed, Run
    <3> QED
      BY <1>0, <2>1, <2>2, <2>3, <3>1 DEF PostInv, PosterInv, Index
  <2>5. \A q \in requests : q.run # Run
    BY <2>1 DEF PostInv, RequestsInv
  <2>6. RequestsInv'
    BY <1>0, <1>2, <2>1, <2>5 DEF PostInv, RequestsInv, Run
  <2>7. Run' = Run /\ Index' = Index + 1 /\ Index \in Nat
    BY <1>0, <2>3 DEF Run, Index
  <2>8. \A w \in journal : w.run = Run => w.index < Index
    BY <2>1, <2>7 DEF PostInv, JournalInv
  <2>9. JournalInv'
    BY <1>0, <2>7, <2>8 DEF PostInv, JournalInv
  <2>10. ReportInv'
    BY <1>0, <2>3, <2>7, <2>8 DEF PostInv, ReportInv, Refusals
  <2> QED
    BY <1>1, <1>3, <2>4, <2>6, <2>9, <2>10 DEF PostInv
<1>6. CASE Dies
  <2>1. at' = "idle" /\ UNCHANGED <<report, requests>>
    BY <1>6 DEF Dies, server
  <2>2. PosterInv' /\ JournalInv' /\ ReportInv'
    BY <1>0, <2>1 DEF PostInv, PosterInv, JournalInv, ReportInv, Run, Index
  <2>3. RequestsInv'
    BY <1>0, <1>2, <2>1 DEF PostInv, RequestsInv, Run, Index
  <2> QED
    BY <1>1, <1>3, <2>2, <2>3 DEF PostInv
<1> QED
  BY <1>4, <1>5, <1>6

(***************************************************************************)
(* A request leaves the backend with or without its event stored, and with *)
(* or without its client hearing of it.                                    *)
(***************************************************************************)
LEMMA SettledKeepsPosts ==
    ASSUME PostInv, NEW q \in requests, NEW s \in Statuses,
           requests' = requests \ {q}, UNCHANGED <<users, clock, runs, token>>,
           (Awaited(q) /\ Says(s)) \/ UNCHANGED <<at, report>>,
           s \in Refusals => Status(q.token, "admin") = s /\ journal' = journal,
           s \notin Refusals => q.admitted # NotAdmitted,
           s = "201" => \E w \in journal' : w.run = q.run /\ w.index = q.index,
           journal' = journal
              \/ \E n : journal' = journal \cup
                     {[run |-> q.run, index |-> q.index, sub |-> q.token.sub,
                       tenant |-> q.token.tenant, admitted |-> q.admitted, id |-> n]}
    PROVE  PostInv'
<1>0. /\ report \in Seq(Statuses \cup {"unreachable"}) /\ Len(report) \in Nat
      /\ Run' = Run /\ Run \in Nat /\ Len(Samples) \in Nat
  BY ApiAssumption DEF PostInv, PosterInv, Run
<1>1. AccountsInv'
  BY DEF PostInv, AccountsInv
<1>2. \A t, n : Backed(t, n) => Backed(t, n)'
  BY BackedStays DEF PostInv
<1>3. /\ Backed(q.token, q.run) /\ q.run \in 1..Run /\ q.index \in 1..Len(Samples)
      /\ q.admitted # NotAdmitted => q.admitted < q.token.exp /\ q.token.role = "admin"
      /\ \A p \in requests : p.run = q.run /\ p.index = q.index => p = q
      /\ \A w \in journal : ~(w.run = q.run /\ w.index = q.index)
      /\ q.run = Run => /\ q.index = Index /\ q.token = token /\ at # "ready"
                        /\ (\E i \in DOMAIN report : report[i] \in Refusals) =>
                              q.admitted = NotAdmitted
  BY DEF PostInv, RequestsInv, Backed
<1>4. /\ journal \subseteq journal'
      /\ \A w \in journal' \ journal :
            /\ w.run = q.run /\ w.index = q.index /\ w.sub = q.token.sub
            /\ w.tenant = q.token.tenant /\ w.admitted = q.admitted
      /\ \A v, w \in journal' \ journal : v = w
      /\ journal' # journal => q.admitted # NotAdmitted
  OBVIOUS
<1>5. WritesBacked'
  <2>1. ASSUME NEW w \in journal' \ journal
        PROVE  \E u \in users :
                  /\ u.name = w.sub /\ u.role = "admin" /\ u.tenant = w.tenant
                  /\ \A v \in users : v.name = u.name => v = u
                  /\ runs[w.run].name = u.name /\ runs[w.run].password = u.password
                  /\ w.admitted < runs[w.run].login + Expire
    BY <1>3, <1>4, <2>1 DEF Backed, PostInv, AccountsInv
  <2> QED
    BY <2>1 DEF PostInv, WritesBacked
<1>6. \A p \in requests' :
         /\ p \in requests /\ p # q
         /\ \A w \in journal' : ~(w.run = p.run /\ w.index = p.index)
  BY <1>3, <1>4 DEF PostInv, RequestsInv
<1>7. \A w \in journal' :
         /\ w.run \in 1..Run /\ w.index \in Nat
         /\ \A v \in journal' : v.run = w.run /\ v.index = w.index => v = w
         /\ w.run = Run => w.index <= Index /\ (w.index = Index => at # "ready")
  <2>1. ASSUME NEW w \in journal' \ journal
        PROVE  /\ w.run \in 1..Run /\ w.index \in Nat
               /\ \A v \in journal' : v.run = w.run /\ v.index = w.index => v = w
               /\ w.run = Run => w.index <= Index /\ (w.index = Index => at # "ready")
    BY <1>0, <1>3, <1>4, <2>1 DEF Index
  <2>2. ASSUME NEW w \in journal
        PROVE  /\ w.run \in 1..Run /\ w.index \in Nat
               /\ \A v \in journal' : v.run = w.run /\ v.index = w.index => v = w
               /\ w.run = Run => w.index <= Index /\ (w.index = Index => at # "ready")
    BY <1>3, <1>4, <2>2 DEF PostInv, JournalInv
  <2> QED
    BY <2>1, <2>2
<1>8. CASE UNCHANGED <<at, report>>
  <2>1. PosterInv'
    BY <1>2, <1>8 DEF PostInv, PosterInv, Run, Backed
  <2>2. RequestsInv'
    BY <1>0, <1>2, <1>6, <1>8 DEF PostInv, RequestsInv, Index
  <2>3. JournalInv'
    BY <1>0, <1>7, <1>8 DEF JournalInv, Index
  <2>4. \A i \in DOMAIN report : \A w \in journal' \ journal : ~(w.run = Run /\ w.index = i)
    BY <1>0, <1>3, <1>4 DEF Index
  <2>5. ReportInv'
    BY <1>0, <1>4, <1>8, <2>4 DEF PostInv, ReportInv
  <2> QED
    BY <1>1, <1>5, <2>1, <2>2, <2>3, <2>5 DEF PostInv
<1>9. CASE Awaited(q) /\ Says(s)
  <2>1. /\ at = "sent" /\ q.run = Run /\ q.index = Index /\ report' = Append(report, s)
        /\ at' = IF Index = Len(Samples) THEN "idle" ELSE "ready"
    BY <1>9 DEF Awaited, Says
  <2>2. /\ report' \in Seq(Statuses \cup {"unreachable"}) /\ Len(report') = Len(report) + 1
        /\ \A i \in DOMAIN report : report'[i] = report[i] /\ i < Index /\ i \in Nat
        /\ report'[Index] = s /\ DOMAIN report' = DOMAIN report \cup {Index}
    BY <1>0, <2>1 DEF Index
  <2>3. Index' = Index + 1 /\ Index \in Nat
    BY <1>0, <2>2 DEF Index
  <2>4. PosterInv'
    <3>1. Backed(token, Run) /\ Len(report) < Len(Samples)
      BY <2>1 DEF PostInv, PosterInv
    <3>2. Backed(token, Run)'
      BY <3>1 DEF Backed, Run
    <3> QED
      BY <1>0, <2>1, <2>2, <3>1, <3>2 DEF PostInv, PosterInv, Index
  <2>5. \A p \in requests' : p.run # Run
    BY <1>3, <1>6, <2>1 DEF PostInv, RequestsInv
  <2>6. RequestsInv'
    BY <1>0, <1>2, <1>6, <2>5 DEF PostInv, RequestsInv
  <2>7. JournalInv'
    BY <1>0, <1>7, <2>3 DEF JournalInv
  <2>8. ReportInv'
    <3>1. ASSUME NEW i \in DOMAIN report
          PROVE  /\ report[i] = "201" => \E w \in journal' : w.run = Run /\ w.index = i
                 /\ report[i] \in Refusals \cup {"unreachable"} =>
                       \A w \in journal' : ~(w.run = Run /\ w.index = i)
                 /\ report[i] = "401" => clock >= token.exp
                 /\ report[i] = "403" => token.role # "admin"
                 /\ report[i] \in Refusals =>
                       /\ \A j \in DOMAIN report :
                             j > i => report[j] \in {report[i], "401", "unreachable"}
                       /\ s \in {report[i], "401"}
      <4>1. \A w \in journal' \ journal : w.index # i
        BY <1>4, <2>1, <2>2
      <4>2. report[i] \in Refusals => s \in {report[i], "401"}
        <5>1. clock \in Nat /\ token.exp \in Int
          BY DEF PostInv, AccountsInv, PosterInv
        <5>2. report[i] \in Refusals => s = Status(token, "admin") /\ s \in Refusals
          BY <1>3, <2>1
        <5>3. report[i] = "401" => clock >= token.exp
          BY DEF PostInv, ReportInv
        <5> QED
          BY <5>1, <5>2, <5>3 DEF Status, Valid, Refusals
      <4> QED
        BY <1>4, <4>1, <4>2 DEF PostInv, ReportInv
    <3>2. /\ s = "201" => \E w \in journal' : w.run = Run /\ w.index = Index
          /\ s \in Refusals => \A w \in journal' : ~(w.run = Run /\ w.index = Index)
          /\ s # "unreachable"
          /\ s = "401" => clock >= token.exp
          /\ s = "403" => token.role # "admin"
      <4>1. clock \in Nat /\ token.exp \in Int
        BY DEF PostInv, AccountsInv, PosterInv
      <4>2. s \in Refusals => Status(token, "admin") = s /\ journal' = journal
        BY <1>3, <2>1
      <4>3. (s = "401" => clock >= token.exp) /\ (s = "403" => token.role # "admin")
        BY <4>1, <4>2 DEF Status, Valid, Refusals
      <4> QED
        BY <1>3, <2>1, <4>2, <4>3 DEF Statuses, Refusals
    <3> QED
      BY <1>0, <2>2, <2>3, <3>1, <3>2 DEF ReportInv
  <2> QED
    BY <1>1, <1>5, <2>4, <2>6, <2>7, <2>8 DEF PostInv
<1> QED
  BY <1>8, <1>9

(***************************************************************************)
(* The backend admits a request while its token is valid, or answers it.   *)
(***************************************************************************)
LEMMA AnswerSettles ==
    ASSUME NEW q, NEW s, Answer(q, s)
    PROVE  /\ requests' = requests \ {q}
           /\ (Awaited(q) /\ Says(s)) \/ UNCHANGED <<at, report>>
  BY DEF Answer

\* A request is admitted under the token it brought.
LEMMA AdmitKeepsPosts ==
    ASSUME PostInv, NEW q \in requests, Admit(q)
    PROVE  PostInv'
<1> DEFINE st == Status(q.token, "admin")
<1>0. UNCHANGED <<users, clock, runs, token, journal>>
  BY DEF Admit, accounts
<1>1. CASE st # "ok"
  <2>1. Answer(q, st)
    BY <1>1 DEF Admit
  <2>2. st \in Refusals /\ st \in Statuses /\ st # "201"
    BY <1>1 DEF Status, Refusals, Statuses
  <2> QED
    BY <1>0, <2>1, <2>2, AnswerSettles, SettledKeepsPosts
<1>2. CASE st = "ok"
  <2> DEFINE new == [q EXCEPT !.admitted = clock]
  <2>1. /\ requests' = (requests \ {q}) \cup {new} /\ UNCHANGED <<at, report>>
        /\ clock < q.token.exp /\ q.token.role = "admin"
    BY <1>2 DEF Admit, Status, Valid
  <2>2. /\ new = [run |-> q.run, index |-> q.index, token |-> q.token, admitted |-> clock]
        /\ new.run = q.run /\ new.index = q.index /\ new.token = q.token
        /\ new.admitted = clock
    <3>1. q = [run |-> q.run, index |-> q.index, token |-> q.token, admitted |-> q.admitted]
      BY DEF PostInv, RequestsInv
    <3> QED
      BY <3>1
  <2>3. \A t, n : Backed(t, n) => Backed(t, n)'
    BY <1>0, BackedStays DEF PostInv
  <2>4. WritesBacked'
    <3>1. AccountsInv'
      BY <1>0 DEF PostInv, AccountsInv
    <3> QED
      BY <1>0, <3>1, WritesStay DEF PostInv
  <2>5. AccountsInv' /\ PosterInv' /\ JournalInv' /\ ReportInv'
    BY <1>0, <2>1, <2>3
       DEF PostInv, AccountsInv, PosterInv, JournalInv, ReportInv, Run, Index
  <2>6. q.run = Run => \A i \in DOMAIN report : report[i] \notin Refusals
    <3>1. clock \in Nat /\ token.exp \in Int
      BY DEF PostInv, AccountsInv, PosterInv
    <3>2. q.run = Run => q.token = token
      BY DEF PostInv, RequestsInv
    <3> QED
      BY <2>1, <3>1, <3>2 DEF PostInv, ReportInv, Refusals
  <2>7. RequestsInv'
    <3>1. Run' = Run /\ Index' = Index
      BY <1>0, <2>1 DEF Run, Index
    <3>2. \A p \in requests' \ {new} : p \in requests /\ p # q
      BY <2>1
    <3>3. ASSUME NEW p \in requests' \ {new}
          PROVE  /\ p = [run |-> p.run, index |-> p.index, token |-> p.token,
                          admitted |-> p.admitted]
                 /\ Backed(p.token, p.run)' /\ p.index \in 1..Len(Samples)
                 /\ p.admitted # NotAdmitted => p.admitted < p.token.exp /\ p.token.role = "admin"
                 /\ \A r \in requests' : r.run = p.run /\ r.index = p.index => r = p
                 /\ \A w \in journal : ~(w.run = p.run /\ w.index = p.index)
                 /\ p.run = Run => /\ p.index = Index /\ p.token = token /\ at # "ready"
                                   /\ (\E i \in DOMAIN report : report[i] \in Refusals) =>
                                         p.admitted = NotAdmitted
      BY <2>1, <2>2, <2>3, <3>2, <3>3 DEF PostInv, RequestsInv
    <3>4. /\ Backed(q.token, q.run)' /\ q.index \in 1..Len(Samples)
          /\ \A r \in requests' : r.run = q.run /\ r.index = q.index => r = new
          /\ \A w \in journal : ~(w.run = q.run /\ w.index = q.index)
          /\ q.run = Run => q.index = Index /\ q.token = token /\ at # "ready"
      BY <2>1, <2>2, <2>3, <3>2 DEF PostInv, RequestsInv
    <3> QED
      BY <1>0, <2>1, <2>2, <2>6, <3>1, <3>3, <3>4 DEF RequestsInv
  <2> QED
    BY <2>4, <2>5, <2>7 DEF PostInv
<1> QED
  BY <1>1, <1>2

\* A stored or failed request is answered, to a client that may be gone.
LEMMA StoreKeepsPosts ==
    ASSUME PostInv, NEW q \in requests, Store(q) \/ StoreFails(q)
    PROVE  PostInv'
<1>0. q.admitted # NotAdmitted /\ UNCHANGED <<users, clock, runs, token>>
  BY DEF Store, StoreFails, accounts
<1>1. "201" \in Statuses \ Refusals /\ "500" \in Statuses \ Refusals /\ "500" # "201"
  BY DEF Statuses, Refusals
<1>2. CASE Store(q)
  <2> DEFINE new == [run |-> q.run, index |-> q.index, sub |-> q.token.sub,
                     tenant |-> q.token.tenant, admitted |-> q.admitted, id |-> ids + 1]
  <2>1. journal' = journal \cup {new} /\ new.run = q.run /\ new.index = q.index
    BY <1>2 DEF Store, EventTenant
  <2>2. \E s \in {"201", "500"} : /\ requests' = requests \ {q}
                                  /\ (Awaited(q) /\ Says(s)) \/ UNCHANGED <<at, report>>
    BY <1>2, AnswerSettles DEF Store
  <2>3. new \in journal'
    BY <2>1
  <2> QED
    BY <1>0, <1>1, <2>1, <2>2, <2>3, SettledKeepsPosts
<1>3. CASE StoreFails(q)
  <2>1. journal' = journal /\ Answer(q, "500")
    BY <1>3 DEF StoreFails
  <2> QED
    BY <1>0, <1>1, <2>1, AnswerSettles, SettledKeepsPosts
<1> QED
  BY <1>2, <1>3
-----------------------------------------------------------------------------
\* Nobody has an account, a token or a page yet.
LEMMA ApiInvInit == Init => ApiInv
<1> SUFFICES ASSUME Init PROVE ApiInv
  OBVIOUS
<1>1. TableInv
  BY FS_EmptySet DEF Init, TableInv
<1>2. WalkInv
  BY DEF Init, WalkInv, NoWalk, PagesComplete, WalkOver, RepeatsExplained
<1>3. AccountsInv /\ RequestsInv /\ JournalInv /\ ReportInv /\ WritesBacked
  BY DEF Init, AccountsInv, RequestsInv, JournalInv, ReportInv, WritesBacked
<1>4. PosterInv
  <2>1. NoToken.exp = 0
    BY DEF NoToken
  <2> QED
    BY <2>1 DEF Init, PosterInv
<1> QED
  BY <1>1, <1>2, <1>3, <1>4 DEF ApiInv, PostInv

\* Every step of Api keeps the three parts.
LEMMA ApiInvStep == ApiInv /\ [Next]_vars => ApiInv'
<1> SUFFICES ASSUME ApiInv, [Next]_vars PROVE ApiInv'
  OBVIOUS
<1> USE DEF ApiInv
<1>0. clock \in Nat
  BY DEF PostInv, AccountsInv
<1>1. ASSUME NEW c \in Commands, CreateUser(c) PROVE ApiInv'
  BY <1>1, CreateUserKeepsPosts, OthersKeepWalk DEF CreateUser, table, reader, readerVars
<1>2. CASE Tick
  BY <1>2, TickKeepsPosts, OthersKeepWalk DEF Tick, table, reader, readerVars
<1>3. CASE Retire
  BY <1>3, RetireKeepsWalk, OthersKeepPosts DEF Retire, accounts
<1>4. ASSUME NEW e \in Others, Arrive(e) PROVE ApiInv'
  <2>1. e.time \in Int
    BY ApiAssumption
  <2> QED
    BY <1>4, <2>1, InsertKeepsWalk, OthersKeepPosts DEF Arrive, accounts, reader
<1>5. ASSUME NEW l \in Credentials, PostLogin(l) PROVE ApiInv'
  BY <1>5, PostLoginKeepsPosts, OthersKeepWalk DEF PostLogin, table, reader, readerVars
<1>6. ASSUME NEW l \in Credentials, ReaderLogin(l) PROVE ApiInv'
  BY <1>6, SessionKeepsWalk, OthersKeepPosts DEF ReaderLogin, accounts
<1>7. CASE Send \/ Unreachable \/ Dies
  BY <1>7, ClientKeepsPosts, OthersKeepWalk DEF Send, Unreachable, Dies, table, reader, readerVars
<1>8. ASSUME NEW q \in requests, Admit(q) PROVE ApiInv'
  BY <1>8, AdmitKeepsPosts, OthersKeepWalk DEF Admit, table, reader, readerVars
<1>9. ASSUME NEW q \in requests, Store(q) PROVE ApiInv'
  <2>0. q.index \in 1..Len(Samples)
    BY DEF PostInv, RequestsInv
  <2>1. Samples[q.index] \in [tenant : Tenants, time : Int]
    BY <2>0, ApiAssumption, ElementOfSeq
  <2>2. Samples[q.index].time \in Int
    BY <2>1
  <2> QED
    BY <1>9, <2>2, InsertKeepsWalk, StoreKeepsPosts DEF Store, reader
<1>10. ASSUME NEW q \in requests, StoreFails(q) PROVE ApiInv'
  BY <1>10, StoreKeepsPosts, OthersKeepWalk DEF StoreFails, table, reader, readerVars
<1>11. ASSUME NEW g \in Ranges, Search(g) PROVE ApiInv'
  BY <1>0, <1>11, SearchKeepsWalk, OthersKeepPosts DEF Search, accounts
<1>12. CASE NextPage
  BY <1>0, <1>12, NextPageKeepsWalk, OthersKeepPosts DEF NextPage, accounts
<1>13. CASE SessionEnds
  BY <1>13, SessionKeepsWalk, OthersKeepPosts DEF SessionEnds, accounts
<1>14. CASE UNCHANGED vars
  BY <1>14, OthersKeepWalk, OthersKeepPosts DEF vars, accounts, table, reader, readerVars
<1> QED
  BY <1>1, <1>2, <1>3, <1>4, <1>5, <1>6, <1>7, <1>8, <1>9, <1>10, <1>11, <1>12, <1>13, <1>14
     DEF Next

\* What the theorems below rest on, for all budgets and page sizes.
THEOREM ApiInvariant == Spec => []ApiInv
  BY ApiInvInit, ApiInvStep, PTL DEF Spec

(***************************************************************************)
(* What is stored by POST /ingest was asked for by an administrator of that*)
(* tenant before the token expired, for any accounts, roles and expiry.    *)
(***************************************************************************)
THEOREM PostsBacked == Spec => []WritesBacked
<1>1. ApiInv => WritesBacked
  BY DEF ApiInv, PostInv
<1> QED
  BY <1>1, ApiInvariant, PTL

(***************************************************************************)
(* What post_logs prints is true, for any list of samples and any faults.  *)
(***************************************************************************)
THEOREM ReportsHonest == Spec => []PostsHonest
<1>1. ApiInv => PostsHonest
  <2> SUFFICES ASSUME ApiInv, NEW i \in DOMAIN report
               PROVE  LET copies == {w \in journal : w.run = Run /\ w.index = i}
                      IN  /\ Cardinality(copies) <= 1
                          /\ report[i] = "201" => copies # {}
                          /\ report[i] \in {"401", "403", "unreachable"} =>
                                /\ copies = {}
                                /\ \A q \in requests : q.run = Run => q.index # i
                          /\ report[i] \in {"401", "403"} =>
                                \A j \in DOMAIN report :
                                   j > i => report[j] \in {report[i], "401", "unreachable"}
    BY DEF PostsHonest
  <2> DEFINE copies == {w \in journal : w.run = Run /\ w.index = i}
  <2>1. \A v, w \in copies : v = w
    BY DEF ApiInv, PostInv, JournalInv
  <2>2. Cardinality(copies) <= 1
    <3>1. CASE copies = {}
      BY <3>1, FS_EmptySet
    <3>2. ASSUME NEW w \in copies PROVE Cardinality(copies) <= 1
      <4>1. copies = {w}
        BY <2>1, <3>2
      <4>2. Cardinality({w}) = 1
        BY FS_Singleton
      <4> QED
        BY <4>1, <4>2
    <3> QED
      BY <3>1, <3>2
  <2>3. \A q \in requests : q.run = Run => q.index # i
    BY DEF ApiInv, PostInv, PosterInv, RequestsInv, Index
  <2> QED
    BY <2>2, <2>3 DEF ApiInv, PostInv, ReportInv, Refusals
<1> QED
  BY <1>1, ApiInvariant, PTL

(***************************************************************************)
(* No page size, range or interleaving of ingest and retention makes a walk*)
(* pass over an event that has its time to itself, unless retention took a *)
(* newer one.                                                              *)
(***************************************************************************)
THEOREM WalksComplete == Spec => []PagesComplete
<1>1. ApiInv => PagesComplete
  BY DEF ApiInv, WalkInv
<1> QED
  BY <1>1, ApiInvariant, PTL

(***************************************************************************)
(* Nor does it show one twice, unless a newer one came in.                 *)
(***************************************************************************)
THEOREM WalksRepeat == Spec => []RepeatsExplained
<1>1. ApiInv => RepeatsExplained
  BY DEF ApiInv, WalkInv
<1> QED
  BY <1>1, ApiInvariant, PTL
=============================================================================
