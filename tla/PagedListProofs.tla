-------------------------- MODULE PagedListProofs --------------------------
(***************************************************************************)
(* The pages of a list join up, for any rows and page size, any number of  *)
(* pages asked for and any number of rows added, closed or raised.         *)
(***************************************************************************)
EXTENDS PagedList, FiniteInduction, FunctionTheorems, SequenceTheorems

-----------------------------------------------------------------------------
(* Keys, and the places they give to rows.                                 *)

\* Keys are numbers, and no two rows that are there share one.
Keys(k) ==
  /\ k \in [Rows -> Nat]
  /\ \A r, s \in Rows : k[r] = k[s] /\ k[r] > 0 => r = s

\* How many rows of S come before r.
Rank(k, r, S) == Cardinality({s \in S : k[s] > k[r]})

(* Some row has the greatest key.                                          *)
LEMMA GreatestKey ==
  ASSUME Keys(key), Rows # {}
  PROVE  \E x \in Rows : \A r \in Rows : key[x] >= key[r]
<1> DEFINE G == {T \in SUBSET Rows : T = {} \/ \E x \in T : \A r \in T : key[x] >= key[r]}
<1>1. IsFiniteSet(Rows) /\ key \in [Rows -> Nat]
  BY PagedListAssumption DEF Keys
<1>2. {} \in G
  OBVIOUS
<1>3. ASSUME NEW T \in SUBSET Rows, T # {}, \A x \in T : T \ {x} \in G PROVE T \in G
  <2>1. PICK x \in T : TRUE
    BY <1>3
  <2>2. CASE T \ {x} = {}
    BY <1>1, <1>3, <2>1, <2>2
  <2>3. CASE T \ {x} # {}
    <3>1. T \ {x} \in G
      BY <1>3
    <3>2. PICK hi \in T \ {x} : \A r \in T \ {x} : key[hi] >= key[r]
      BY <2>3, <3>1
    <3>3. CASE key[x] >= key[hi]
      BY <1>1, <2>1, <3>2, <3>3
    <3>4. CASE key[hi] >= key[x]
      BY <1>1, <2>1, <3>2, <3>4
    <3> QED BY <1>1, <3>3, <3>4
  <2> QED BY <2>2, <2>3
<1>4. G \in SUBSET SUBSET Rows
  OBVIOUS
<1>5. G = SUBSET Rows
  <2> HIDE DEF G
  <2> QED BY <1>1, <1>2, <1>3, <1>4, SetInduction
<1>6. Rows \in G
  BY <1>5
<1> QED BY <1>6

(* The next key is above all others.                                       *)
LEMMA TopIsAbove ==
  ASSUME Keys(key), Rows # {}
  PROVE  Top \in Nat /\ Top > 0 /\ \A r \in Rows : key[r] < Top
<1> DEFINE K == {key[r] : r \in Rows}
<1>1. PICK x \in Rows : \A r \in Rows : key[x] >= key[r]
  BY GreatestKey
<1>2. key \in [Rows -> Nat]
  BY DEF Keys
<1>3. key[x] \in K /\ \A k \in K : k \in Nat /\ key[x] >= k
  BY <1>1, <1>2
<1> HIDE DEF K
<1>4. Max(K) \in K /\ \A k \in K : Max(K) >= k
  BY <1>3 DEF Max
<1>5. Top = Max(K) + 1
  BY DEF Top, K
<1>6. \A r \in Rows : key[r] \in K
  BY DEF K
<1> QED BY <1>2, <1>3, <1>4, <1>5, <1>6

(* A newer row has a smaller rank, no two rows have the same, and every    *)
(* rank below the number of rows is taken.                                 *)
LEMMA Ranks ==
  ASSUME NEW k, Keys(k), NEW S \in SUBSET Rows, \A r \in S : k[r] > 0
  PROVE  /\ Cardinality(S) \in Nat
         /\ \A r \in S : Rank(k, r, S) \in 0..(Cardinality(S) - 1)
         /\ \A r, s \in S : k[r] > k[s] <=> Rank(k, r, S) < Rank(k, s, S)
         /\ \A r, s \in S : Rank(k, r, S) = Rank(k, s, S) => r = s
         /\ \A i \in 1..Cardinality(S) : \E r \in S : Rank(k, r, S) = i - 1
<1> DEFINE n == Cardinality(S)
           place == [r \in S |-> Rank(k, r, S) + 1]
           Before(r) == {s \in S : k[s] > k[r]}
<1>1. IsFiniteSet(S) /\ n \in Nat /\ \A r \in S : k[r] \in Nat
  BY PagedListAssumption, FS_Subset, FS_CardinalityType DEF Keys
<1>2. IsFiniteSet(1..n) /\ Cardinality(1..n) = n
  BY <1>1, FS_Interval
<1>3. ASSUME NEW r \in S PROVE IsFiniteSet(Before(r)) /\ Rank(k, r, S) \in 0..(n - 1)
  <2>1. Before(r) \subseteq S /\ r \notin Before(r)
    BY <1>1
  <2>2. Rank(k, r, S) = Cardinality(Before(r))
    BY DEF Rank
  <2> HIDE DEF Before
  <2> QED BY <1>1, <2>1, <2>2, FS_Subset, FS_CardinalityType
<1>4. ASSUME NEW r \in S, NEW s \in S, k[r] > k[s] PROVE Rank(k, r, S) < Rank(k, s, S)
  <2>1. Before(r) \subseteq Before(s) /\ r \in Before(s) /\ r \notin Before(r)
    BY <1>1, <1>4
  <2>2. Rank(k, r, S) = Cardinality(Before(r)) /\ Rank(k, s, S) = Cardinality(Before(s))
    BY DEF Rank
  <2>3. IsFiniteSet(Before(s))
    BY <1>3
  <2> HIDE DEF Before
  <2> QED BY <1>3, <2>1, <2>2, <2>3, FS_Subset
<1> HIDE DEF n, Before
<1>5. \A r \in S : Rank(k, r, S) \in Int /\ 0 <= Rank(k, r, S) /\ Rank(k, r, S) < n
  BY <1>1, <1>3
<1>6. \A r, s \in S : k[r] > k[s] => Rank(k, r, S) < Rank(k, s, S)
  BY <1>4
<1>7. \A r, s \in S : r = s \/ k[r] > k[s] \/ k[s] > k[r]
  BY <1>1 DEF Keys
<1>8. \A r, s \in S : k[r] > k[s] <=> Rank(k, r, S) < Rank(k, s, S)
  BY <1>5, <1>6, <1>7
<1>9. \A r, s \in S : Rank(k, r, S) = Rank(k, s, S) => r = s
  BY <1>5, <1>6, <1>7
<1>10. \A i \in 1..n : \E r \in S : Rank(k, r, S) = i - 1
  <2>1. place \in [S -> 1..n]
    BY <1>1, <1>5
  <2>2. \A r \in S : place[r] = Rank(k, r, S) + 1
    OBVIOUS
  <2> HIDE DEF place
  <2>3. \A r, s \in S : place[r] = place[s] => r = s
    BY <1>5, <1>9, <2>2
  <2>4. place \in Injection(S, 1..n)
    BY <2>1, <2>3 DEF Injection, IsInjective
  <2>5. place \in Surjection(S, 1..n)
    BY <1>1, <1>2, <2>4, FS_Injection DEF n
  <2>6. \A i \in 1..n : \E r \in S : place[r] = i
    BY <2>5 DEF Surjection
  <2> QED BY <1>5, <2>2, <2>6
<1> QED BY <1>1, <1>3, <1>8, <1>9, <1>10 DEF n

(* What the server sorts is every row of the set once, newest first (ORDER *)
(* BY ... DESC of the list handlers).                                      *)
LEMMA NewestFirstRanks ==
  ASSUME Keys(key), NEW S \in SUBSET Rows, \A r \in S : key[r] > 0
  PROVE  /\ NewestFirst(S) \in [1..Cardinality(S) -> S]
         /\ \A i \in 1..Cardinality(S) : Rank(key, NewestFirst(S)[i], S) = i - 1
<1> DEFINE n == Cardinality(S)
           q == NewestFirst(S)
<1>1. \A i \in 1..n : \E r \in S : Rank(key, r, S) = i - 1
  BY Ranks
<1>2. \A i \in 1..n : q[i] = CHOOSE r \in S : Rank(key, r, S) = i - 1
  BY DEF NewestFirst, Newer, Rank
<1>3. q = [i \in 1..n |-> q[i]]
  BY DEF NewestFirst
<1> HIDE DEF q, n
<1>4. \A i \in 1..n : q[i] \in S /\ Rank(key, q[i], S) = i - 1
  BY <1>1, <1>2
<1> QED BY <1>3, <1>4 DEF q, n

-----------------------------------------------------------------------------
(* What a page is.                                                         *)

Filters == {"all", "open"}
Items   == [row : Rows, at : Nat]
Answers == [items : Seq(Items), next : Nat]

\* Visible, for keys k and open rows o.
Within(k, o, filter) == {r \in Rows : k[r] > 0 /\ (filter = "open" => r \in o)}

\* No row twice; no row shown at a key it has not reached.
Single(q)   == \A i, j \in DOMAIN q : q[i].row = q[j].row => i = j
Dated(k, q) == \A i \in DOMAIN q : q[i].at > 0 /\ q[i].at <= k[q[i].row]

\* No row of the filter is missing between the top of q, or the cursor it was
\* asked for with, and its end.
Covers(k, o, q, filter, after) ==
  \A r \in Within(k, o, filter) :
    /\ after > k[r] \/ \E i \in DOMAIN q : q[i].at >= k[r]
    /\ \E j \in DOMAIN q : k[r] >= q[j].at
    => \E i \in DOMAIN q : q[i].row = r

\* A cursor is the key of the last row.
EndsAt(q, c) == c # 0 => /\ \A i \in DOMAIN q : q[i].at >= c
                         /\ \E i \in DOMAIN q : q[i].at = c

\* A page by keyset, and one by offset.
Keyed(k, o, a, filter, after) ==
  /\ Single(a.items) /\ Dated(k, a.items) /\ Covers(k, o, a.items, filter, after)
  /\ after # 0 => \A i \in DOMAIN a.items : a.items[i].at < after
  /\ EndsAt(a.items, a.next)
Placed(k, o, q, filter, after) ==
  \A i \in DOMAIN q :
    /\ q[i].row \in Within(k, o, filter) /\ q[i].at = k[q[i].row]
    /\ Rank(k, q[i].row, Within(k, o, filter)) = after + i - 1

(* What lies after the first a of b rows.                                  *)
LEMMA RestOf ==
  ASSUME NEW S, NEW rows, NEW a \in Nat, NEW b \in Nat, \A i \in (a + 1)..b : rows[i] \in S,
         NEW q, q = SubSeq(rows, a + 1, b)
  PROVE  /\ q \in Seq(S)
         /\ Len(q) = IF a < b THEN b - a ELSE 0
         /\ \A i \in 1..(b - a) : q[i] = rows[a + i]
BY SubSeqProperties

(* The first PageSize rows, or all of them.                                *)
LEMMA PageSized ==
  ASSUME NEW n \in Nat
  PROVE  /\ Min({PageSize, n}) \in Nat /\ Min({PageSize, n}) <= n
         /\ n > PageSize => Min({PageSize, n}) = PageSize
<1> DEFINE m == Min({PageSize, n})
<1>1. PageSize \in Nat
  BY PagedListAssumption
<1>2. m \in {PageSize, n} /\ m <= PageSize /\ m <= n
  BY <1>1 DEF Min
<1> HIDE DEF m
<1>3. m \in Nat /\ m <= n /\ (n > PageSize => m = PageSize)
  BY <1>1, <1>2
<1> QED BY <1>3 DEF m

(* They are what is shown.                                                  *)
LEMMA PageCut ==
  ASSUME NEW S, NEW n \in Nat, NEW rows \in [1..n -> S], NEW m \in Nat, m <= n,
         NEW page, page = SubSeq(rows, 1, m)
  PROVE  /\ page \in Seq(S) /\ Len(page) = m
         /\ \A i \in 1..m : page[i] = rows[i]
BY SubSeqProperties

(* Rows shown with their keys.                                             *)
LEMMA Shows ==
  ASSUME Keys(key), NEW S \in SUBSET Rows, NEW page \in Seq(S), NEW q,
         q = [i \in DOMAIN page |-> [row |-> page[i], at |-> key[page[i]]]]
  PROVE  /\ q \in Seq(Items) /\ Len(q) = Len(page) /\ DOMAIN q = 1..Len(page)
         /\ \A i \in DOMAIN q : q[i].row = page[i] /\ q[i].at = key[page[i]] /\ page[i] \in S
<1>1. Len(page) \in Nat /\ DOMAIN page = 1..Len(page) /\ \A i \in 1..Len(page) : page[i] \in S
  OBVIOUS
<1>2. \A i \in 1..Len(page) : [row |-> page[i], at |-> key[page[i]]] \in Items
  BY <1>1 DEF Keys, Items
<1>3. q \in [1..Len(page) -> Items]
  BY <1>1, <1>2
<1>4. q \in Seq(Items) /\ Len(q) = Len(page) /\ DOMAIN q = 1..Len(page)
  BY <1>1, <1>3
<1> QED BY <1>1, <1>4

(* A page by keyset: of the rows below the cursor, the newest (paging.go). *)
LEMMA KeysetPage ==
  ASSUME Keys(key), list.kind # "market", NEW l, l.after \in Nat
  PROVE  /\ pageResult(l) \in Answers
         /\ Keyed(key, open, pageResult(l), l.filter, l.after)
         /\ \A i \in DOMAIN pageResult(l).items :
              /\ pageResult(l).items[i].at = key[pageResult(l).items[i].row]
              /\ pageResult(l).items[i].row \in Rows
<1> DEFINE S == {r \in Visible(l.filter) : l.after = 0 \/ key[r] < l.after}
           n == Cardinality(S)
           rows == keyset(l)
           page == SubSeq(rows, 1, Min({PageSize, Len(rows)}))
           q == [i \in DOMAIN page |-> [row |-> page[i], at |-> key[page[i]]]]
           c == IF Len(rows) <= PageSize THEN 0 ELSE key[page[PageSize]]
<1>1. pageResult(l) = [items |-> q, next |-> c]
  BY DEF pageResult
<1>2. /\ S \in SUBSET Rows /\ \A r \in S : key[r] > 0 /\ key[r] \in Nat
      /\ \A r \in S : l.after # 0 => key[r] < l.after
      /\ \A r \in Visible(l.filter) : l.after = 0 \/ key[r] < l.after => r \in S
  BY DEF Visible, Keys
<1>3. rows = NewestFirst(S)
  BY DEF keyset
<1>4. PageSize \in Nat \ {0}
  BY PagedListAssumption
<1> HIDE DEF S, rows
<1>5. /\ n \in Nat
      /\ \A r \in S : Rank(key, r, S) \in 0..(n - 1)
      /\ \A r, s \in S : key[r] > key[s] <=> Rank(key, r, S) < Rank(key, s, S)
      /\ \A r, s \in S : Rank(key, r, S) = Rank(key, s, S) => r = s
  BY <1>2, Ranks
<1>6. rows \in [1..n -> S] /\ \A i \in 1..n : Rank(key, rows[i], S) = i - 1
  BY <1>2, <1>3, NewestFirstRanks
<1> HIDE DEF n, page
<1>7. /\ page \in Seq(S) /\ Len(page) \in Nat /\ Len(page) <= n /\ Len(rows) = n
      /\ n > PageSize => Len(page) = PageSize
      /\ \A i \in 1..Len(page) : page[i] = rows[i]
  <2> DEFINE m == Min({PageSize, n})
  <2>1. Len(rows) = n
    BY <1>5, <1>6
  <2>2. page = SubSeq(rows, 1, m)
    BY <2>1 DEF page
  <2>3. m \in Nat /\ m <= n /\ (n > PageSize => m = PageSize)
    BY <1>5, PageSized
  <2> HIDE DEF m
  <2>4. page \in Seq(S) /\ Len(page) = m /\ \A i \in 1..m : page[i] = rows[i]
    BY <1>5, <1>6, <2>2, <2>3, PageCut
  <2> QED BY <2>1, <2>3, <2>4
<1>8. /\ q \in Seq(Items) /\ DOMAIN q = 1..Len(page)
      /\ \A i \in DOMAIN q : q[i].row = page[i] /\ q[i].at = key[page[i]] /\ page[i] \in S
  BY <1>2, <1>7, Shows
<1> HIDE DEF q
<1>9. DOMAIN q \subseteq 1..n /\ Len(page) \in Nat
  BY <1>5, <1>7, <1>8
<1>10. ASSUME NEW i \in DOMAIN q
       PROVE  /\ q[i].row \in S /\ q[i].at = key[q[i].row]
              /\ Rank(key, q[i].row, S) = i - 1 /\ i \in 1..n
  BY <1>6, <1>7, <1>8, <1>9
<1>11. Single(q)
  BY <1>9, <1>10 DEF Single
<1>12. Dated(key, q)
  BY <1>2, <1>10 DEF Dated
<1>13. Covers(key, open, q, l.filter, l.after)
  <2> SUFFICES ASSUME NEW r \in Within(key, open, l.filter),
                      l.after > key[r] \/ \E i \in DOMAIN q : q[i].at >= key[r],
                      NEW j \in DOMAIN q, key[r] >= q[j].at
               PROVE  \E i \in DOMAIN q : q[i].row = r
    BY DEF Covers
  <2>1. r \in Visible(l.filter) /\ key[r] \in Nat
    BY DEF Within, Visible, Keys
  <2>2. l.after = 0 \/ key[r] < l.after
    BY <1>2, <1>10, <2>1
  <2>3. r \in S
    BY <1>2, <2>1, <2>2
  <2>4. Rank(key, r, S) <= j - 1 /\ Rank(key, r, S) \in Nat
    <3>1. q[j].row \in S /\ q[j].at = key[q[j].row] /\ Rank(key, q[j].row, S) = j - 1
      BY <1>10
    <3>2. ~ (key[q[j].row] > key[r])
      BY <1>2, <2>1, <3>1
    <3> QED BY <1>5, <1>10, <2>3, <3>1, <3>2
  <2>5. Rank(key, r, S) + 1 \in DOMAIN q
    BY <1>8, <1>9, <2>4
  <2>6. q[Rank(key, r, S) + 1].row = r
    BY <1>5, <1>10, <2>3, <2>4, <2>5
  <2> QED BY <2>5, <2>6
<1>14. l.after # 0 => \A i \in DOMAIN q : q[i].at < l.after
  BY <1>2, <1>10
<1>15. c \in Nat /\ EndsAt(q, c)
  <2>1. CASE n <= PageSize
    BY <1>7, <2>1 DEF EndsAt
  <2>2. CASE ~ (n <= PageSize)
    <3>1. Len(page) = PageSize /\ PageSize \in DOMAIN q
      BY <1>4, <1>5, <1>7, <1>8, <2>2
    <3>2. c = q[PageSize].at /\ q[PageSize].at \in Nat
      BY <1>2, <1>7, <1>8, <1>10, <2>2, <3>1
    <3>3. ASSUME NEW i \in DOMAIN q PROVE q[i].at >= q[PageSize].at
      <4>1. i <= PageSize
        BY <1>8, <3>1
      <4>2. ~ (key[q[PageSize].row] > key[q[i].row])
        BY <1>4, <1>5, <1>10, <3>1, <4>1
      <4> QED BY <1>2, <1>10, <3>1, <4>2
    <3> QED BY <3>1, <3>2, <3>3 DEF EndsAt
  <2> QED BY <1>4, <1>5, <2>1, <2>2
<1> HIDE DEF c
<1> QED BY <1>1, <1>2, <1>8, <1>10, <1>11, <1>12, <1>13, <1>14, <1>15 DEF Keyed, Answers

(* A page by offset: the rows after as many as the offset says             *)
(* (talents.go).                                                           *)
LEMMA OffsetPage ==
  ASSUME Keys(key), list.kind = "market", NEW l, l.after \in Nat
  PROVE  pageResult(l) \in Answers /\ Placed(key, open, pageResult(l).items, l.filter, l.after)
<1> DEFINE S == Visible(l.filter)
           n == Cardinality(S)
           all == NewestFirst(S)
           rows == SubSeq(all, l.after + 1, Len(all))
           m == Len(rows)
           page == SubSeq(rows, 1, Min({PageSize, Len(rows)}))
           q == [i \in DOMAIN page |-> [row |-> page[i], at |-> key[page[i]]]]
           c == IF m <= PageSize THEN 0 ELSE l.after + PageSize
<1>1. pageResult(l) = [items |-> q, next |-> c]
  BY DEF pageResult, offset
<1>2. S \in SUBSET Rows /\ (\A r \in S : key[r] > 0) /\ S = Within(key, open, l.filter)
  BY DEF Visible, Within
<1>3. PageSize \in Nat \ {0}
  BY PagedListAssumption
<1> HIDE DEF S, all
<1>4. n \in Nat
  BY <1>2, Ranks
<1>5. all \in [1..n -> S] /\ \A i \in 1..n : Rank(key, all[i], S) = i - 1
  BY <1>2, NewestFirstRanks DEF all
<1>6. Len(all) = n
  BY <1>4, <1>5
<1> HIDE DEF n, rows
<1>7. /\ rows \in Seq(S)
      /\ Len(rows) = IF l.after < n THEN n - l.after ELSE 0
      /\ \A i \in 1..(n - l.after) : rows[i] = all[l.after + i]
  <2>1. \A i \in (l.after + 1)..n : all[i] \in S
    BY <1>4, <1>5
  <2>2. rows = SubSeq(all, l.after + 1, n)
    BY <1>6 DEF rows
  <2> QED BY <1>4, <2>1, <2>2, RestOf
<1>8. /\ m \in Nat /\ rows \in [1..m -> S]
      /\ \A i \in 1..m : l.after + i \in 1..n /\ rows[i] = all[l.after + i]
  <2>1. m \in Nat /\ rows \in [1..m -> S]
    BY <1>7
  <2>2. \A i \in 1..m : i \in 1..(n - l.after) /\ l.after + i \in 1..n
    BY <1>4, <1>7
  <2> QED BY <1>7, <2>1, <2>2
<1> HIDE DEF m, page
<1>9. /\ page \in Seq(S) /\ Len(page) \in Nat /\ Len(page) <= m
      /\ \A i \in 1..Len(page) : page[i] = rows[i]
  <2> DEFINE p == Min({PageSize, m})
  <2>1. Len(rows) = m
    BY <1>8
  <2>2. page = SubSeq(rows, 1, p)
    BY <2>1 DEF page
  <2>3. p \in Nat /\ p <= m
    BY <1>8, PageSized
  <2> HIDE DEF p
  <2>4. page \in Seq(S) /\ Len(page) = p /\ \A i \in 1..p : page[i] = rows[i]
    BY <1>8, <2>2, <2>3, PageCut
  <2> QED BY <2>3, <2>4
<1>10. /\ q \in Seq(Items) /\ DOMAIN q = 1..Len(page)
       /\ \A i \in DOMAIN q : q[i].row = page[i] /\ q[i].at = key[page[i]] /\ page[i] \in S
  BY <1>2, <1>9, Shows
<1> HIDE DEF q
<1>11. ASSUME NEW i \in DOMAIN q
       PROVE  /\ q[i].row \in S /\ q[i].at = key[q[i].row]
              /\ Rank(key, q[i].row, S) = l.after + i - 1
  <2>1. i \in 1..m /\ i \in 1..Len(page)
    BY <1>8, <1>9, <1>10
  <2>2. q[i].row = all[l.after + i] /\ l.after + i \in 1..n
    BY <1>8, <1>9, <1>10, <2>1
  <2> QED BY <1>5, <1>10, <2>2
<1>12. c \in Nat
  BY <1>3
<1> HIDE DEF c
<1> QED BY <1>1, <1>2, <1>10, <1>11, <1>12 DEF Placed, Answers
-----------------------------------------------------------------------------
(* The invariant.                                                          *)

LoadRecs == [nr : Nat, after : Nat, filter : Filters, answer : {Unanswered} \cup Answers]
Lists    == [kind : Kinds, filter : Filters, under : Filters, items : Seq(Items), cursor : Nat,
             busy : BOOLEAN, disturbed : BOOLEAN, asked : Nat, moves : Nat,
             loads : SUBSET LoadRecs]

\* No cursor is above every row.
Reached(k, c) == c = 0 \/ \E r \in Rows : c <= k[r]
Apart(p, q)   == \A i \in DOMAIN p, j \in DOMAIN q : p[i].row # q[j].row

\* A list that nothing disturbed has one load under way at most, asked for
\* with the filter that is set and from the end of what is shown, if not from
\* the top.
Quiet(x) ==
  ~ x.disturbed =>
    /\ \A l, m \in x.loads : l = m
    /\ x.loads # {} /\ x.kind \in Disabling => x.busy
    /\ x.loads = {} => x.under = x.filter
    /\ \A l \in x.loads : l.filter = x.filter
    /\ \A l \in x.loads : l.after # 0 => l.after = x.cursor /\ x.under = x.filter

\* Lists by keyset: answers stay right whatever happens to the rows, and one
\* that continues the list has none of its rows.
ByKeys(k, o, x) ==
  /\ Reached(k, x.cursor) /\ \A l \in x.loads : Reached(k, l.after)
  /\ \A l \in x.loads : l.answer # Unanswered => Keyed(k, o, l.answer, l.filter, l.after)
  /\ ~ x.disturbed =>
       /\ Single(x.items) /\ Dated(k, x.items) /\ Covers(k, o, x.items, x.under, 0)
       /\ EndsAt(x.items, x.cursor)
       /\ \A l \in x.loads : l.after # 0 /\ l.answer # Unanswered => Apart(x.items, l.answer.items)

\* Lists by offset: answers are right as long as nothing happens to the rows.
ByPlaces(k, o, x) ==
  ~ x.disturbed =>
    /\ Placed(k, o, x.items, x.under, 0) /\ x.cursor \in {0, Len(x.items)}
    /\ \A l \in x.loads :
         l.answer # Unanswered => Placed(k, o, l.answer.items, l.filter, l.after)

ListTypes == Keys(key) /\ open \subseteq Rows /\ list \in Lists
ListInv ==
  /\ ListTypes /\ Quiet(list)
  /\ list.kind = "market" => ByPlaces(key, open, list)
  /\ list.kind # "market" => ByKeys(key, open, list)

(* A list opens with its first page asked for.                             *)
LEMMA ListStarts == ListInit => ListInv
<1> SUFFICES ASSUME ListInit PROVE ListInv
  OBVIOUS
<1> DEFINE l == [nr |-> 1, after |-> 0, filter |-> "all", answer |-> Unanswered]
<1>1. PICK k \in Kinds :
        list = [kind |-> k, filter |-> "all", under |-> "all", items |-> <<>>, cursor |-> 0,
                busy |-> k \in Disabling, disturbed |-> FALSE, asked |-> 1, moves |-> 0,
                loads |-> {l}]
  BY DEF ListInit
<1>2. l \in LoadRecs /\ l.after = 0 /\ l.filter = "all" /\ l.answer = Unanswered
  BY DEF LoadRecs, Filters
<1>3. <<>> \in Seq(Items) /\ DOMAIN <<>> = {} /\ Len(<<>>) = 0
  OBVIOUS
<1>4. (k \in Disabling) \in BOOLEAN
  OBVIOUS
<1> HIDE DEF l
<1>5. /\ list.kind = k /\ list.filter = "all" /\ list.under = "all" /\ list.items = <<>>
      /\ list.cursor = 0 /\ list.loads = {l} /\ (k \in Disabling => list.busy)
  BY <1>1
<1>6. list \in Lists
  BY <1>1, <1>2, <1>3, <1>4 DEF Lists, Filters
<1>7. Keys(key) /\ open \subseteq Rows
  BY PagedListAssumption DEF ListInit, Keys
<1>8. Quiet(list)
  BY <1>2, <1>5 DEF Quiet
<1>9. ByPlaces(key, open, list)
  BY <1>2, <1>3, <1>5 DEF ByPlaces, Placed
<1>10. ByKeys(key, open, list)
  BY <1>2, <1>3, <1>5 DEF ByKeys, Reached, Single, Dated, Covers, EndsAt
<1> QED BY <1>6, <1>7, <1>8, <1>9, <1>10 DEF ListInv, ListTypes

(* A load is asked for: from the top, or from the end of a list that has   *)
(* nothing else under way (the load functions of the pages).               *)
LEMMA Asks ==
  ASSUME ListInv, NEW l \in LoadRecs, l.answer = Unanswered, l.after \in {0, list.cursor},
         list' \in Lists, UNCHANGED <<key, open>>,
         list'.kind = list.kind, list'.items = list.items, list'.cursor = list.cursor,
         list'.under = list.under, list'.loads = list.loads \cup {l}, list'.filter = l.filter,
         l.after # 0 => list'.filter = list.filter,
         list.kind \in Disabling => list'.busy,
         ~ list'.disturbed => ~ list.disturbed /\ list.loads = {}
  PROVE  ListInv'
<1>1. /\ Keys(key) /\ open \subseteq Rows /\ list \in Lists /\ Quiet(list)
      /\ list.kind = "market" => ByPlaces(key, open, list)
      /\ list.kind # "market" => ByKeys(key, open, list)
  BY DEF ListInv, ListTypes
<1>2. Quiet(list')
  BY <1>1 DEF Quiet
<1>3. list'.kind = "market" => ByPlaces(key', open', list')
  BY <1>1 DEF ByPlaces
<1>4. list'.kind # "market" => ByKeys(key', open', list')
  <2> SUFFICES ASSUME list'.kind # "market" PROVE ByKeys(key, open, list')
    OBVIOUS
  <2>1. Reached(key, l.after)
    BY <1>1 DEF ByKeys, Reached
  <2> QED BY <1>1, <2>1 DEF ByKeys
<1> QED BY <1>1, <1>2, <1>3, <1>4 DEF ListInv, ListTypes

(* The first page is asked for.                                            *)
LEMMA FetchFirstKeeps ==
  ASSUME ListInv, NEW filter \in Filters, FetchFirst(filter), UNCHANGED <<key, open>>
  PROVE  ListInv'
<1> DEFINE l == Load(0, filter)
<1>1. list \in Lists
  BY DEF ListInv, ListTypes
<1>2. l \in LoadRecs /\ l.answer = Unanswered /\ l.after = 0 /\ l.filter = filter
  BY <1>1 DEF Load, LoadRecs, Lists
<1> DEFINE b == list.busy \/ list.kind \in Disabling
           d == list.disturbed \/ list.loads # {}
           s == list.loads \cup {l}
<1>3. list' = [list EXCEPT !.filter = filter, !.asked = list.asked + 1, !.busy = b,
                           !.disturbed = d, !.loads = s]
  BY DEF FetchFirst
<1>4. b \in BOOLEAN /\ d \in BOOLEAN
  OBVIOUS
<1>5. s \subseteq LoadRecs /\ list.asked + 1 \in Nat
  BY <1>1, <1>2 DEF Lists
<1> HIDE DEF l, b, d, s
<1>6. list' \in Lists
  BY <1>1, <1>3, <1>4, <1>5 DEF Lists
<1>7. /\ list'.kind = list.kind /\ list'.items = list.items /\ list'.cursor = list.cursor
      /\ list'.under = list.under /\ list'.loads = list.loads \cup {l} /\ list'.filter = filter
      /\ list.kind \in Disabling => list'.busy
      /\ ~ list'.disturbed => ~ list.disturbed /\ list.loads = {}
  BY <1>1, <1>3 DEF Lists, b, d, s
<1> QED BY <1>2, <1>6, <1>7, Asks

(* A further page is asked for.                                            *)
LEMMA FetchMoreKeeps ==
  ASSUME ListInv, FetchMore, UNCHANGED <<key, open>>
  PROVE  ListInv'
<1> DEFINE l == Load(list.cursor, list.filter)
<1>1. list \in Lists /\ Quiet(list)
  BY DEF ListInv, ListTypes
<1>2. l \in LoadRecs /\ l.answer = Unanswered /\ l.after = list.cursor /\ l.filter = list.filter
  BY <1>1 DEF Load, LoadRecs, Lists
<1> DEFINE b == list.kind \in Disabling \cup {"market"}
           d == list.disturbed \/ (list.kind \notin Disabling /\ list.loads # {})
           s == list.loads \cup {l}
<1>3. /\ ~ list.busy
      /\ list' = [list EXCEPT !.asked = list.asked + 1, !.busy = b, !.disturbed = d, !.loads = s]
  BY DEF FetchMore
<1>4. b \in BOOLEAN /\ d \in BOOLEAN
  OBVIOUS
<1>5. s \subseteq LoadRecs /\ list.asked + 1 \in Nat
  BY <1>1, <1>2 DEF Lists
<1> HIDE DEF l, b, d, s
<1>6. list' \in Lists
  BY <1>1, <1>3, <1>4, <1>5 DEF Lists
<1>7. /\ list'.kind = list.kind /\ list'.items = list.items /\ list'.cursor = list.cursor
      /\ list'.under = list.under /\ list'.loads = list.loads \cup {l}
      /\ list'.filter = list.filter
      /\ list.kind \in Disabling => list'.busy
      /\ ~ list'.disturbed => ~ list.disturbed /\ (list.kind \in Disabling \/ list.loads = {})
  BY <1>1, <1>3 DEF Lists, b, d, s
<1>8. ~ list'.disturbed => ~ list.disturbed /\ list.loads = {}
  BY <1>1, <1>3, <1>7 DEF Quiet
<1> QED BY <1>2, <1>6, <1>7, <1>8, Asks

(* A load fails: what is shown stays.                                      *)
LEMMA FailedKeeps ==
  ASSUME ListInv, NEW l \in list.loads, Failed(l), UNCHANGED <<key, open>>
  PROVE  ListInv'
<1>1. /\ Keys(key) /\ open \subseteq Rows /\ list \in Lists /\ Quiet(list)
      /\ list.kind = "market" => ByPlaces(key, open, list)
      /\ list.kind # "market" => ByKeys(key, open, list)
  BY DEF ListInv, ListTypes
<1>2. list' \in Lists
  BY <1>1 DEF Failed, Lists
<1>3. /\ list'.kind = list.kind /\ list'.items = list.items /\ list'.cursor = list.cursor
      /\ list'.under = list.under /\ list'.loads = list.loads \ {l} /\ list'.filter = list.filter
      /\ ~ list'.disturbed => ~ list.disturbed /\ (l.after # 0 \/ l.filter = list.under)
  BY <1>1 DEF Failed, Lists
<1>4. Quiet(list')
  BY <1>1, <1>3 DEF Quiet
<1>5. list'.kind = "market" => ByPlaces(key', open', list')
  BY <1>1, <1>3 DEF ByPlaces
<1>6. list'.kind # "market" => ByKeys(key', open', list')
  BY <1>1, <1>3 DEF ByKeys
<1> QED BY <1>1, <1>2, <1>4, <1>5, <1>6 DEF ListInv, ListTypes

(* What a list shows are rows with keys.                                   *)
LEMMA ItemsOf ==
  ASSUME NEW q \in Seq(Items)
  PROVE  \A i \in DOMAIN q : q[i].row \in Rows /\ q[i].at \in Nat
<1>1. \A i \in DOMAIN q : q[i] \in Items
  OBVIOUS
<1> QED BY <1>1 DEF Items

(* The server answers a load.                                              *)
LEMMA ServedKeeps ==
  ASSUME ListInv, NEW l \in list.loads, Served(l), UNCHANGED <<key, open>>
  PROVE  ListInv'
<1> DEFINE a == pageResult(l)
           m == [l EXCEPT !.answer = a]
<1>1. /\ Keys(key) /\ open \subseteq Rows /\ list \in Lists /\ Quiet(list)
      /\ list.kind = "market" => ByPlaces(key, open, list)
      /\ list.kind # "market" => ByKeys(key, open, list)
  BY DEF ListInv, ListTypes
<1>2. l \in LoadRecs /\ l.after \in Nat
  BY <1>1 DEF Lists, LoadRecs
<1>3. list.kind = "market" => a \in Answers /\ Placed(key, open, a.items, l.filter, l.after)
  BY <1>1, <1>2, OffsetPage
<1>4. list.kind # "market" =>
        /\ a \in Answers /\ Keyed(key, open, a, l.filter, l.after)
        /\ \A i \in DOMAIN a.items :
             a.items[i].at = key[a.items[i].row] /\ a.items[i].row \in Rows
  BY <1>1, <1>2, KeysetPage
<1> HIDE DEF a
<1>5. m \in LoadRecs /\ m.after = l.after /\ m.filter = l.filter /\ m.answer = a
  BY <1>2, <1>3, <1>4 DEF LoadRecs
<1>6. list' = [list EXCEPT !.loads = (list.loads \ {l}) \cup {m}]
  BY DEF Served, a
<1> HIDE DEF m
<1>7. /\ list'.kind = list.kind /\ list'.items = list.items /\ list'.cursor = list.cursor
      /\ list'.under = list.under /\ list'.filter = list.filter /\ list'.busy = list.busy
      /\ list'.disturbed = list.disturbed /\ list'.loads = (list.loads \ {l}) \cup {m}
  BY <1>1, <1>6 DEF Lists
<1>8. list' \in Lists
  BY <1>1, <1>5, <1>6 DEF Lists
<1>9. Quiet(list')
  BY <1>1, <1>5, <1>7 DEF Quiet
<1>10. list'.kind = "market" => ByPlaces(key', open', list')
  BY <1>1, <1>3, <1>5, <1>7 DEF ByPlaces
<1>11. ASSUME list.kind # "market", ~ list.disturbed, l.after # 0
       PROVE  Apart(list.items, a.items)
  <2>1. l.after = list.cursor /\ Dated(key, list.items) /\ EndsAt(list.items, list.cursor)
    BY <1>1, <1>11 DEF Quiet, ByKeys
  <2> SUFFICES ASSUME NEW i \in DOMAIN list.items, NEW j \in DOMAIN a.items,
                      list.items[i].row = a.items[j].row
               PROVE  FALSE
    BY DEF Apart
  <2>2. list.items[i].row \in Rows /\ list.items[i].at \in Nat
    BY <1>1, ItemsOf DEF Lists
  <2>3. key[list.items[i].row] \in Nat /\ list.items[i].at <= key[list.items[i].row]
    BY <1>1, <2>1, <2>2 DEF Dated, Keys
  <2>4. list.items[i].at >= l.after
    BY <1>11, <2>1 DEF EndsAt
  <2>5. key[a.items[j].row] < l.after
    BY <1>4, <1>11 DEF Keyed
  <2> QED BY <1>2, <2>2, <2>3, <2>4, <2>5
<1>12. list'.kind # "market" => ByKeys(key', open', list')
  <2> SUFFICES ASSUME list.kind # "market" PROVE ByKeys(key, open, list')
    BY <1>7
  <2> QED BY <1>1, <1>4, <1>5, <1>7, <1>11 DEF ByKeys
<1> QED BY <1>1, <1>8, <1>9, <1>10, <1>12 DEF ListInv, ListTypes

(* A further page by keyset after what is shown.                           *)
LEMMA KeysJoin ==
  ASSUME NEW k, Keys(k), NEW o, NEW p \in Seq(Items), NEW a \in Answers, NEW filter,
         NEW c \in Nat \ {0},
         Single(p), Dated(k, p), Covers(k, o, p, filter, 0), EndsAt(p, c),
         Keyed(k, o, a, filter, c), Apart(p, a.items)
  PROVE  /\ Single(p \o a.items) /\ Dated(k, p \o a.items)
         /\ Covers(k, o, p \o a.items, filter, 0) /\ EndsAt(p \o a.items, a.next)
<1> DEFINE q == p \o a.items
           e == a.items
<1>1. e \in Seq(Items) /\ a.next \in Nat /\ Len(p) \in Nat /\ Len(e) \in Nat
  BY DEF Answers
<1>2. /\ DOMAIN p = 1..Len(p) /\ DOMAIN e = 1..Len(e) /\ DOMAIN q = 1..(Len(p) + Len(e))
      /\ \A i \in 1..Len(p) : q[i] = p[i]
      /\ \A i \in 1..Len(e) : q[Len(p) + i] = e[i]
  BY <1>1
<1>3. /\ \A i \in DOMAIN p : p[i].row \in Rows /\ p[i].at \in Nat
      /\ \A i \in DOMAIN e : e[i].row \in Rows /\ e[i].at \in Nat
      /\ \A r \in Rows : k[r] \in Nat
  BY <1>1, ItemsOf DEF Keys
<1> HIDE DEF q, e
<1>4. ASSUME NEW i \in DOMAIN q
      PROVE  \/ i \in DOMAIN p /\ q[i] = p[i]
             \/ \E j \in DOMAIN e : i = Len(p) + j /\ q[i] = e[j]
  <2>1. CASE i <= Len(p)
    BY <1>1, <1>2, <2>1
  <2>2. CASE i > Len(p)
    <3>1. i - Len(p) \in 1..Len(e) /\ i = Len(p) + (i - Len(p))
      BY <1>1, <1>2, <2>2
    <3> QED BY <1>2, <3>1
  <2> QED BY <1>1, <1>2, <2>1, <2>2
<1>5. /\ \A i \in DOMAIN p : i \in DOMAIN q /\ q[i] = p[i]
      /\ \A j \in DOMAIN e : Len(p) + j \in DOMAIN q /\ q[Len(p) + j] = e[j]
  BY <1>1, <1>2
<1>6. Keyed(k, o, a, filter, c) /\ Apart(p, e)
  BY DEF e
<1>7. /\ Single(e) /\ Dated(k, e) /\ Covers(k, o, e, filter, c) /\ EndsAt(e, a.next)
      /\ \A j \in DOMAIN e : e[j].at < c
  BY DEF Keyed, e
<1>8. (\A i \in DOMAIN p : p[i].at >= c) /\ \E i \in DOMAIN p : p[i].at = c
  BY DEF EndsAt
<1>9. Single(q)
  <2> SUFFICES ASSUME NEW i \in DOMAIN q, NEW j \in DOMAIN q, q[i].row = q[j].row PROVE i = j
    BY DEF Single
  <2> QED BY <1>4, <1>6, <1>7 DEF Single, Apart
<1>10. Dated(k, q)
  BY <1>4, <1>7 DEF Dated
<1>11. Covers(k, o, q, filter, 0)
  <2> SUFFICES ASSUME NEW r \in Within(k, o, filter),
                      0 > k[r] \/ \E i \in DOMAIN q : q[i].at >= k[r],
                      NEW j \in DOMAIN q, k[r] >= q[j].at
               PROVE  \E i \in DOMAIN q : q[i].row = r
    BY DEF Covers
  <2>1. r \in Rows /\ k[r] \in Nat
    BY <1>3 DEF Within
  <2>2. PICK i \in DOMAIN q : q[i].at >= k[r]
    BY <2>1
  <2>3. CASE \E n \in DOMAIN p : k[r] >= p[n].at
    <3>1. \E n \in DOMAIN p : p[n].at >= k[r]
      <4>1. CASE i \in DOMAIN p /\ q[i] = p[i]
        BY <2>2, <4>1
      <4>2. CASE \E n \in DOMAIN e : q[i] = e[n]
        BY <1>3, <1>7, <1>8, <2>1, <2>2, <2>3, <4>2
      <4> QED BY <1>4, <4>1, <4>2
    <3>2. \E n \in DOMAIN p : p[n].row = r
      BY <2>3, <3>1 DEF Covers
    <3> QED BY <1>5, <3>2
  <2>4. CASE ~ \E n \in DOMAIN p : k[r] >= p[n].at
    <3>1. c > k[r]
      BY <1>3, <1>8, <2>1, <2>4
    <3>2. \E n \in DOMAIN e : k[r] >= e[n].at
      BY <1>4, <2>4
    <3>3. \E n \in DOMAIN e : e[n].row = r
      BY <1>7, <3>1, <3>2 DEF Covers
    <3> QED BY <1>5, <3>3
  <2> QED BY <2>3, <2>4
<1>12. EndsAt(q, a.next)
  <2> SUFFICES ASSUME a.next # 0
               PROVE  (\A i \in DOMAIN q : q[i].at >= a.next) /\ \E i \in DOMAIN q : q[i].at = a.next
    BY DEF EndsAt
  <2>1. (\A j \in DOMAIN e : e[j].at >= a.next) /\ \E j \in DOMAIN e : e[j].at = a.next
    BY <1>7 DEF EndsAt
  <2>2. a.next < c
    BY <1>1, <1>7, <2>1
  <2>3. \A i \in DOMAIN p : p[i].at >= a.next
    BY <1>1, <1>3, <1>8, <2>2
  <2> QED BY <1>4, <1>5, <2>1, <2>3
<1> QED BY <1>9, <1>10, <1>11, <1>12 DEF q, e

(* A further page by offset after what is shown.                           *)
LEMMA PlacesJoin ==
  ASSUME NEW k, NEW o, NEW p \in Seq(Items), NEW e \in Seq(Items), NEW filter,
         Placed(k, o, p, filter, 0), Placed(k, o, e, filter, Len(p))
  PROVE  Placed(k, o, p \o e, filter, 0)
<1> DEFINE q == p \o e
<1>1. /\ Len(p) \in Nat /\ Len(e) \in Nat
      /\ DOMAIN p = 1..Len(p) /\ DOMAIN e = 1..Len(e) /\ DOMAIN q = 1..(Len(p) + Len(e))
      /\ \A i \in 1..Len(p) : q[i] = p[i]
      /\ \A i \in 1..Len(e) : q[Len(p) + i] = e[i]
  OBVIOUS
<1> HIDE DEF q
<1>2. ASSUME NEW i \in DOMAIN q
      PROVE  /\ q[i].row \in Within(k, o, filter) /\ q[i].at = k[q[i].row]
             /\ Rank(k, q[i].row, Within(k, o, filter)) = 0 + i - 1
  <2>1. CASE i <= Len(p)
    BY <1>1, <2>1 DEF Placed
  <2>2. CASE i > Len(p)
    <3>1. i - Len(p) \in 1..Len(e) /\ i = Len(p) + (i - Len(p))
      BY <1>1, <2>2
    <3>2. q[i] = e[i - Len(p)]
      BY <1>1, <3>1
    <3>3. Rank(k, q[i].row, Within(k, o, filter)) = Len(p) + (i - Len(p)) - 1
      BY <1>1, <3>1, <3>2 DEF Placed
    <3> QED BY <1>1, <3>1, <3>2, <3>3 DEF Placed
  <2> QED BY <1>1, <2>1, <2>2
<1> QED BY <1>2 DEF Placed, q

(* An answer is shown, in place of the list or after it.                   *)
LEMMA ShownKeeps ==
  ASSUME ListInv, NEW l \in list.loads, Shown(l), UNCHANGED <<key, open>>
  PROVE  ListInv'
<1> DEFINE a == l.answer
           q == (IF l.after = 0 THEN <<>> ELSE list.items) \o a.items
           u == IF l.after = 0 THEN l.filter ELSE list.under
           d == list.disturbed /\ ~ Settles(l)
           c == IF list.kind = "market" /\ a.next # 0 THEN Len(q) ELSE a.next
<1>1. /\ Keys(key) /\ open \subseteq Rows /\ list \in Lists /\ Quiet(list)
      /\ list.kind = "market" => ByPlaces(key, open, list)
      /\ list.kind # "market" => ByKeys(key, open, list)
  BY DEF ListInv, ListTypes
<1>2. /\ l.after \in Nat /\ l.filter \in Filters /\ a \in Answers /\ l.answer # Unanswered
      /\ list.items \in Seq(Items) /\ list.under \in Filters /\ list.cursor \in Nat
  BY <1>1 DEF Lists, LoadRecs, Shown
<1>3. a.items \in Seq(Items) /\ a.next \in Nat
  BY <1>2 DEF Answers
<1>4. /\ l.after = 0 => q = a.items /\ u = l.filter
      /\ l.after # 0 => q = list.items \o a.items /\ u = list.under
  <2> DEFINE e == a.items
  <2>1. e \in Seq(Items)
    BY <1>3
  <2> HIDE DEF e
  <2>2. <<>> \o e = e
    BY <2>1
  <2> QED BY <2>2 DEF e
<1>5. q \in Seq(Items) /\ u \in Filters /\ Len(q) \in Nat
  <2>1. CASE l.after = 0
    <3>1. q = a.items /\ u = l.filter
      BY <1>4, <2>1
    <3> HIDE DEF q, u
    <3> QED BY <1>2, <1>3, <3>1
  <2>2. CASE l.after # 0
    <3>1. q = list.items \o a.items /\ u = list.under
      BY <1>4, <2>2
    <3>2. list.items \o a.items \in Seq(Items)
      BY <1>2, <1>3, ConcatProperties
    <3> HIDE DEF q, u
    <3>3. q \in Seq(Items)
      BY <3>1, <3>2
    <3>4. u \in Filters
      BY <1>2, <3>1
    <3>5. Len(q) \in Nat
      BY <3>3, LenProperties
    <3> QED BY <3>3, <3>4, <3>5
  <2> QED BY <2>1, <2>2
<1>6. list' = [list EXCEPT !.items = q, !.busy = FALSE, !.loads = list.loads \ {l},
                           !.under = u, !.disturbed = d, !.cursor = c]
  BY DEF Shown
<1>7. d \in BOOLEAN /\ c \in Nat
  BY <1>3, <1>5
<1>8. ~ d => ~ list.disturbed \/ Settles(l)
  OBVIOUS
<1>9. /\ list.kind # "market" => c = a.next
      /\ list.kind = "market" => c \in {0, Len(q)}
  OBVIOUS
<1> HIDE DEF q, u, d, c, a
<1>10. list' \in Lists
  BY <1>1, <1>5, <1>6, <1>7 DEF Lists
<1>11. /\ list'.kind = list.kind /\ list'.filter = list.filter /\ list'.items = q
       /\ list'.loads = list.loads \ {l} /\ list'.under = u /\ list'.disturbed = d
       /\ list'.cursor = c
  BY <1>1, <1>6 DEF Lists
<1>12. ASSUME ~ d
       PROVE  /\ list'.loads = {} /\ u = list.filter
              /\ list.disturbed => l.after = 0
              /\ l.after # 0 => l.filter = list.under /\ l.after = list.cursor
  <2>1. CASE ~ list.disturbed
    <3>1. /\ \A m \in list.loads : m = l
          /\ l.filter = list.filter
          /\ l.after # 0 => l.after = list.cursor /\ list.under = list.filter
      BY <1>1, <2>1 DEF Quiet
    <3> QED BY <1>4, <1>11, <2>1, <3>1
  <2>2. CASE list.disturbed
    <3>1. l.after = 0 /\ l.filter = list.filter /\ list.loads = {l}
      BY <1>8, <1>12, <2>2 DEF Settles
    <3> QED BY <1>4, <1>11, <3>1
  <2> QED BY <2>1, <2>2
<1>13. Quiet(list')
  BY <1>11, <1>12 DEF Quiet
<1>14. ASSUME list.kind = "market" PROVE ByPlaces(key, open, list')
  <2> SUFFICES ASSUME ~ d PROVE Placed(key, open, q, u, 0)
    BY <1>9, <1>11, <1>12, <1>14 DEF ByPlaces
  <2>1. Placed(key, open, a.items, l.filter, l.after)
    <3>1. CASE ~ list.disturbed
      BY <1>1, <1>2, <1>14, <3>1 DEF ByPlaces, a
    <3>2. CASE list.disturbed
      <4>1. a = pageResult(l)
        BY <1>8, <1>14, <3>2 DEF Settles, a
      <4> QED BY <1>1, <1>2, <1>14, <4>1, OffsetPage
    <3> QED BY <3>1, <3>2
  <2>2. CASE l.after = 0
    BY <1>4, <2>1, <2>2
  <2>3. CASE l.after # 0
    <3>1. Placed(key, open, list.items, list.under, 0) /\ list.cursor \in {0, Len(list.items)}
      BY <1>1, <1>12, <1>14, <2>3 DEF ByPlaces
    <3>2. l.after = Len(list.items) /\ l.filter = list.under
      BY <1>12, <2>3, <3>1
    <3> QED BY <1>2, <1>3, <1>4, <2>1, <2>3, <3>1, <3>2, PlacesJoin
  <2> QED BY <2>2, <2>3
<1>15. ASSUME list.kind # "market" PROVE ByKeys(key, open, list')
  <2>1. Keyed(key, open, a, l.filter, l.after)
    BY <1>1, <1>2, <1>15 DEF ByKeys, a
  <2>2. Reached(key, c)
    <3> SUFFICES ASSUME a.next # 0 PROVE Reached(key, a.next)
      BY <1>9, <1>15 DEF Reached
    <3>1. PICK i \in DOMAIN a.items : a.items[i].at = a.next
      BY <2>1 DEF Keyed, EndsAt
    <3>2. a.items[i].row \in Rows /\ a.items[i].at <= key[a.items[i].row]
      BY <1>3, <2>1, ItemsOf DEF Keyed, Dated
    <3> QED BY <3>1, <3>2 DEF Reached
  <2>3. \A m \in list'.loads : /\ Reached(key, m.after)
                               /\ m.answer # Unanswered => Keyed(key, open, m.answer, m.filter, m.after)
    BY <1>1, <1>11, <1>15 DEF ByKeys
  <2>4. ASSUME ~ d
        PROVE  Single(q) /\ Dated(key, q) /\ Covers(key, open, q, u, 0) /\ EndsAt(q, c)
    <3>1. CASE l.after = 0
      <4>1. q = a.items /\ u = l.filter /\ c = a.next
        BY <1>4, <1>9, <1>15, <3>1
      <4> QED BY <2>1, <3>1, <4>1 DEF Keyed
    <3>2. CASE l.after # 0
      <4>1. ~ list.disturbed /\ l.filter = list.under /\ l.after = list.cursor
        BY <1>12, <2>4, <3>2
      <4>2. /\ Single(list.items) /\ Dated(key, list.items)
            /\ Covers(key, open, list.items, list.under, 0) /\ EndsAt(list.items, list.cursor)
            /\ Apart(list.items, a.items)
        BY <1>1, <1>2, <1>15, <3>2, <4>1 DEF ByKeys, a
      <4>3. list.cursor \in Nat \ {0} /\ Keyed(key, open, a, list.under, list.cursor)
        BY <1>2, <2>1, <3>2, <4>1
      <4>4. /\ Single(list.items \o a.items) /\ Dated(key, list.items \o a.items)
            /\ Covers(key, open, list.items \o a.items, list.under, 0)
            /\ EndsAt(list.items \o a.items, a.next)
        BY <1>1, <1>2, <4>2, <4>3, KeysJoin
      <4> QED BY <1>4, <1>9, <1>15, <3>2, <4>4
    <3> QED BY <3>1, <3>2
  <2> QED BY <1>11, <1>12, <2>2, <2>3, <2>4 DEF ByKeys
<1> QED BY <1>1, <1>10, <1>11, <1>13, <1>14, <1>15 DEF ListInv, ListTypes

(* A row comes, rises or leaves the filter: its key changes to one above   *)
(* all others, if at all, and the filter only loses rows.                  *)
LEMMA RowsMove ==
  ASSUME Keys(key), open \subseteq Rows, NEW r \in Rows, Added(r) \/ Raised(r) \/ Closed(r)
  PROVE  /\ Keys(key') /\ open' \subseteq open
         /\ \A s \in Rows : key'[s] >= key[s]
         /\ \A s, t \in Rows : key'[s] <= key[t] => key'[s] = key[s]
<1>1. key \in [Rows -> Nat] /\ \A s, t \in Rows : key[s] = key[t] /\ key[s] > 0 => s = t
  BY DEF Keys
<1>2. Top \in Nat /\ Top > 0 /\ \A s \in Rows : key[s] < Top
  BY TopIsAbove
<1>3. CASE key' = key /\ open' \subseteq open
  BY <1>1, <1>3 DEF Keys
<1>4. CASE key' = [key EXCEPT ![r] = Top] /\ open' = open
  <2>1. /\ key' \in [Rows -> Nat] /\ key'[r] = Top
        /\ \A s \in Rows \ {r} : key'[s] = key[s]
    BY <1>1, <1>2, <1>4
  <2>2. Keys(key')
    BY <1>1, <1>2, <2>1 DEF Keys
  <2>3. \A s \in Rows : key'[s] >= key[s]
    BY <1>1, <1>2, <2>1
  <2>4. \A s, t \in Rows : key'[s] <= key[t] => key'[s] = key[s]
    BY <1>1, <1>2, <2>1
  <2> QED BY <1>4, <2>2, <2>3, <2>4
<1> QED BY <1>3, <1>4 DEF Added, Raised, Closed

(* What a list shows stays right when its rows move.                       *)
LEMMA ShownStays ==
  ASSUME NEW k, Keys(k), NEW m, Keys(m), NEW o, NEW p, p \subseteq o,
         \A s \in Rows : m[s] >= k[s],
         \A s, t \in Rows : m[s] <= k[t] => m[s] = k[s],
         NEW q \in Seq(Items), Dated(k, q), NEW filter, NEW after \in Nat, Reached(k, after),
         Covers(k, o, q, filter, after)
  PROVE  Dated(m, q) /\ Covers(m, p, q, filter, after)
<1>1. \A s \in Rows : k[s] \in Nat /\ m[s] \in Nat
  BY DEF Keys
<1>2. \A i \in DOMAIN q : q[i].row \in Rows /\ q[i].at \in Nat
  BY ItemsOf
<1>3. Dated(m, q)
  BY <1>1, <1>2 DEF Dated
<1>4. Covers(m, p, q, filter, after)
  <2> SUFFICES ASSUME NEW r \in Within(m, p, filter),
                      after > m[r] \/ \E i \in DOMAIN q : q[i].at >= m[r],
                      \E j \in DOMAIN q : m[r] >= q[j].at
               PROVE  \E i \in DOMAIN q : q[i].row = r
    BY DEF Covers
  <2>1. r \in Rows /\ m[r] > 0 /\ (filter = "open" => r \in o)
    BY DEF Within
  <2>2. \E t \in Rows : m[r] <= k[t]
    <3>1. CASE after > m[r]
      <4>1. PICK t \in Rows : after <= k[t]
        BY <1>1, <2>1, <3>1 DEF Reached
      <4> QED BY <1>1, <2>1, <3>1, <4>1
    <3>2. CASE \E i \in DOMAIN q : q[i].at >= m[r]
      <4>1. PICK i \in DOMAIN q : q[i].at >= m[r]
        BY <3>2
      <4>2. q[i].row \in Rows /\ q[i].at <= k[q[i].row] /\ q[i].at \in Nat
        BY <1>2 DEF Dated
      <4> QED BY <1>1, <2>1, <4>1, <4>2
    <3> QED BY <3>1, <3>2
  <2>3. m[r] = k[r]
    BY <2>1, <2>2
  <2>4. r \in Within(k, o, filter)
    BY <2>1, <2>3 DEF Within
  <2> QED BY <2>3, <2>4 DEF Covers
<1> QED BY <1>3, <1>4

(* Everyone else's changes: a list by keyset stays right, one by offset is *)
(* disturbed.                                                              *)
LEMMA ChangeKeeps ==
  ASSUME ListInv, Changed, NEW r \in Rows, Added(r) \/ Raised(r) \/ Closed(r)
  PROVE  ListInv'
<1>1. /\ Keys(key) /\ open \subseteq Rows /\ list \in Lists /\ Quiet(list)
      /\ list.kind # "market" => ByKeys(key, open, list)
  BY DEF ListInv, ListTypes
<1>2. /\ Keys(key') /\ open' \subseteq open
      /\ \A s \in Rows : key'[s] >= key[s]
      /\ \A s, t \in Rows : key'[s] <= key[t] => key'[s] = key[s]
  BY <1>1, RowsMove
<1> DEFINE d == list.disturbed \/ list.kind = "market"
<1>3. list' = [list EXCEPT !.moves = list.moves + 1, !.disturbed = d] /\ d \in BOOLEAN
  BY DEF Changed
<1>4. list'.disturbed = d
  BY <1>1, <1>3 DEF Lists
<1>5. ~ list'.disturbed => ~ list.disturbed /\ list.kind # "market"
  BY <1>4
<1> HIDE DEF d
<1>6. /\ list' \in Lists
      /\ list'.kind = list.kind /\ list'.items = list.items /\ list'.cursor = list.cursor
      /\ list'.under = list.under /\ list'.filter = list.filter /\ list'.busy = list.busy
      /\ list'.loads = list.loads
  <2>1. list.moves + 1 \in Nat
    BY <1>1 DEF Lists
  <2> QED BY <1>1, <1>3, <2>1 DEF Lists
<1>7. Quiet(list')
  BY <1>1, <1>5, <1>6 DEF Quiet
<1>8. list'.kind = "market" => ByPlaces(key', open', list')
  BY <1>5, <1>6 DEF ByPlaces
<1>9. ASSUME list.kind # "market" PROVE ByKeys(key', open', list')
  <2>1. \A s \in Rows : key[s] \in Nat /\ key'[s] \in Nat
    BY <1>1, <1>2 DEF Keys
  <2>2. ASSUME NEW n \in Nat, Reached(key, n) PROVE Reached(key', n)
    BY <1>2, <2>1, <2>2 DEF Reached
  <2>3. list.cursor \in Nat /\ list.items \in Seq(Items)
    BY <1>1 DEF Lists
  <2>4. ASSUME NEW l \in list.loads
        PROVE  /\ Reached(key', l.after)
               /\ l.answer # Unanswered => Keyed(key', open', l.answer, l.filter, l.after)
    <3>1. l.after \in Nat /\ Reached(key, l.after)
      BY <1>1, <1>9 DEF ByKeys, Lists, LoadRecs
    <3>2. ASSUME l.answer # Unanswered
          PROVE  Keyed(key', open', l.answer, l.filter, l.after)
      <4>1. l.answer \in Answers /\ l.answer.items \in Seq(Items)
        BY <1>1, <3>2 DEF Lists, LoadRecs, Answers
      <4>2. Keyed(key, open, l.answer, l.filter, l.after)
        BY <1>1, <1>9, <3>2 DEF ByKeys
      <4>3. Dated(key', l.answer.items) /\ Covers(key', open', l.answer.items, l.filter, l.after)
        BY <1>1, <1>2, <3>1, <4>1, <4>2, ShownStays DEF Keyed
      <4> QED BY <4>2, <4>3 DEF Keyed
    <3> QED BY <2>2, <3>1, <3>2
  <2>5. ASSUME ~ list.disturbed
        PROVE  /\ Dated(key', list.items) /\ Covers(key', open', list.items, list.under, 0)
    <3>1. Reached(key, 0)
      BY DEF Reached
    <3> QED BY <1>1, <1>2, <1>9, <2>3, <2>5, <3>1, ShownStays DEF ByKeys
  <2> QED BY <1>1, <1>5, <1>6, <1>9, <2>2, <2>3, <2>4, <2>5 DEF ByKeys
<1> QED BY <1>2, <1>1, <1>6, <1>7, <1>8, <1>9 DEF ListInv, ListTypes

(* The pages that ask, each with the buttons it has (OrdersPage.tsx,       *)
(* MarketplacePage.tsx, ...).                                              *)
LEMMA PagesAsk ==
  ASSUME ListInv, UNCHANGED <<key, open>>,
         \/ OrdersPage \/ EarningsPage \/ OrdersAdmin \/ AuditAdmin \/ SellerReviews
         \/ InquiriesPage \/ TalentReviews \/ SellerPage \/ MarketplacePage
  PROVE  ListInv'
<1>1. list.filter \in Filters
  BY DEF ListInv, ListTypes, Lists
<1>2. FetchMore \/ \E f \in Filters : FetchFirst(f)
  BY <1>1 DEF OrdersPage, EarningsPage, OrdersAdmin, AuditAdmin, SellerReviews, InquiriesPage,
              TalentReviews, SellerPage, MarketplacePage, SetFilter, ReloadFirst, Filters
<1> QED BY <1>2, FetchFirstKeeps, FetchMoreKeeps

(* Every step of a page, the server and everyone else keeps the invariant. *)
LEMMA ListStep == ASSUME ListInv, [ListNext]_paging PROVE ListInv'
<1>1. CASE /\ UNCHANGED <<key, open>>
           /\ \/ OrdersPage \/ EarningsPage \/ OrdersAdmin \/ AuditAdmin \/ SellerReviews
              \/ InquiriesPage \/ TalentReviews \/ SellerPage \/ MarketplacePage
  BY <1>1, PagesAsk
<1>2. ASSUME NEW l \in list.loads, Served(l) \/ Shown(l) \/ Failed(l), UNCHANGED <<key, open>>
      PROVE  ListInv'
  BY <1>2, ServedKeeps, ShownKeeps, FailedKeeps
<1>3. ASSUME NEW r \in Rows, Changed, Added(r) \/ Raised(r) \/ Closed(r) PROVE ListInv'
  BY <1>3, ChangeKeeps
<1>4. CASE UNCHANGED paging
  BY <1>4 DEF paging, ListInv, ListTypes
<1> QED BY <1>1, <1>2, <1>3, <1>4 DEF ListNext

(* What the invariant says of a list that nothing disturbed.               *)
LEMMA QuietListsJoin == ListInv => PagesJoinUp
<1> SUFFICES ASSUME ListInv, ~ list.disturbed PROVE PagesJoinUp
  BY DEF PagesJoinUp
<1> DEFINE q == list.items
           V == Visible(list.under)
<1>1. /\ Keys(key) /\ list \in Lists /\ Quiet(list)
      /\ list.kind = "market" => ByPlaces(key, open, list)
      /\ list.kind # "market" => ByKeys(key, open, list)
  BY DEF ListInv, ListTypes
<1>2. list.loads = {} => list.under = list.filter
  BY <1>1 DEF Quiet
<1>3. V = Within(key, open, list.under) /\ V \in SUBSET Rows /\ \A r \in V : key[r] > 0 /\ key[r] \in Nat
  BY <1>1 DEF Visible, Within, Keys
<1>4. q \in Seq(Items) /\ DOMAIN q = 1..Len(q) /\ Len(q) \in Nat
  BY <1>1 DEF Lists
<1>5. \A i \in DOMAIN q : q[i].row \in Rows /\ q[i].at \in Nat
  BY <1>4, ItemsOf
<1> HIDE DEF q, V
<1>6. CASE list.kind # "market"
  <2>1. Single(q) /\ Covers(key, open, q, list.under, 0)
    BY <1>1, <1>6 DEF ByKeys, q
  <2>2. \A r \in V : (\E i, j \in DOMAIN q : q[i].at >= key[r] /\ key[r] >= q[j].at)
          => \E i \in DOMAIN q : q[i].row = r
    BY <1>3, <2>1 DEF Covers
  <2> QED BY <1>2, <2>1, <2>2 DEF PagesJoinUp, Single, q, V
<1>7. CASE list.kind = "market"
  <2>1. \A i \in DOMAIN q : /\ q[i].row \in V /\ q[i].at = key[q[i].row]
                            /\ Rank(key, q[i].row, V) = i - 1
    <3>1. Placed(key, open, q, list.under, 0)
      BY <1>1, <1>7 DEF ByPlaces, q
    <3>2. \A i \in DOMAIN q : 0 + i - 1 = i - 1
      BY <1>4
    <3> QED BY <1>3, <3>1, <3>2 DEF Placed
  <2>2. /\ Cardinality(V) \in Nat
        /\ \A r \in V : Rank(key, r, V) \in 0..(Cardinality(V) - 1)
        /\ \A r, s \in V : key[r] > key[s] <=> Rank(key, r, V) < Rank(key, s, V)
        /\ \A r, s \in V : Rank(key, r, V) = Rank(key, s, V) => r = s
    BY <1>1, <1>3, Ranks
  <2>3. \A i, j \in DOMAIN q : q[i].row = q[j].row => i = j
    BY <1>4, <2>1
  <2>4. ASSUME NEW r \in V, NEW j \in DOMAIN q, key[r] >= q[j].at
        PROVE  \E i \in DOMAIN q : q[i].row = r
    <3>1. q[j].row \in V /\ q[j].at = key[q[j].row] /\ Rank(key, q[j].row, V) = j - 1
      BY <2>1
    <3>2. ~ (key[q[j].row] > key[r])
      BY <1>3, <2>4, <3>1
    <3>3. Rank(key, r, V) \in Nat /\ Rank(key, r, V) <= j - 1
      BY <1>4, <2>2, <3>1, <3>2
    <3>4. Rank(key, r, V) + 1 \in DOMAIN q
      BY <1>4, <3>3
    <3>5. q[Rank(key, r, V) + 1].row = r
      BY <2>1, <2>2, <3>3, <3>4
    <3> QED BY <3>4, <3>5
  <2> QED BY <1>2, <2>3, <2>4 DEF PagesJoinUp, q, V
<1> QED BY <1>6, <1>7

(* No list that nothing disturbed shows a row twice or misses one between  *)
(* its first and its last, for any rows, page size, changes and loads.     *)
THEOREM PagesAlwaysJoinUp == Paging => []PagesJoinUp
BY ListStarts, ListStep, QuietListsJoin, PTL DEF Paging
=============================================================================
