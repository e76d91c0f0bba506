----------------------------- MODULE WalkProofs -----------------------------
(***************************************************************************)
(* A client that pages through a connection misses nothing, for every page *)
(* size, every number of rows and whatever is written between the pages;   *)
(* and reading one row more than the page makes such pages.                *)
(***************************************************************************)
EXTENDS Walk, Paging, TLAPS, FiniteSetTheorems

\* What was there all the while is shown already or comes after all that was
\* shown: a row that is overtaken is one that came later.
WalkInv ==
    /\ rows \in SUBSET Int
    /\ shown \in SUBSET Int
    /\ always \subseteq rows
    /\ \A k \in always : k \in shown \/ \A s \in shown : s < k
    /\ size = 0 => shown = {} /\ done = FALSE
    /\ done => always \subseteq shown

LEMMA PageKeepsWalkInv == WalkInv /\ Page => WalkInv'
<1> SUFFICES ASSUME WalkInv, Page PROVE WalkInv'
  OBVIOUS
<1>1. PICK page \in SUBSET Ahead :
         /\ \A k \in page, q \in Ahead \ page : k < q
         /\ shown' = shown \cup page
         /\ done' = (page = Ahead)
  BY DEF Page
<1>2. UNCHANGED <<size, rows, always>> /\ size # 0
  BY DEF Page
<1>3. ASSUME NEW k \in always, k \notin shown PROVE k \in Ahead
  BY <1>3 DEF WalkInv, Ahead
<1>4. ASSUME NEW k \in always PROVE k \in shown' \/ \A s \in shown' : s < k
  <2>1. CASE k \in shown \/ k \in page
    BY <1>1, <2>1
  <2>2. CASE k \notin shown /\ k \notin page
    <3>1. k \in Ahead \ page
      BY <1>3, <1>4, <2>2
    <3> QED
      BY <1>1, <3>1 DEF Ahead
  <2> QED
    BY <2>1, <2>2
<1>5. ASSUME done' PROVE always \subseteq shown'
  BY <1>1, <1>3, <1>5
<1>6. shown' \in SUBSET Int
  BY <1>1 DEF WalkInv, Ahead
<1> QED
  BY <1>2, <1>4, <1>5, <1>6 DEF WalkInv

LEMMA WalkInvStep == WalkInv /\ [Next]_vars => WalkInv'
<1> SUFFICES ASSUME WalkInv, [Next]_vars PROVE WalkInv'
  OBVIOUS
<1>1. CASE Begin
  BY <1>1 DEF Begin, WalkInv
<1>2. CASE Write
  BY <1>2 DEF Write, WalkInv
<1>3. CASE Page
  BY <1>3, PageKeepsWalkInv
<1>4. CASE End
  BY <1>4 DEF End, WalkInv
<1>5. CASE UNCHANGED vars
  BY <1>5 DEF vars, WalkInv
<1> QED
  BY <1>1, <1>2, <1>3, <1>4, <1>5 DEF Next

\* sqlgen, connection_expr: pages that keep the promise of Walk, as the run
\* data checks of those the code makes, add up to every row that was there
\* from the first page to the last, for any page size and any writes between
\* the pages.
THEOREM PagesAddUp == Spec => []Complete
<1>1. Init => WalkInv
  BY DEF Init, WalkInv
<1>2. WalkInv => Complete
  BY DEF WalkInv, Complete
<1> QED
  BY <1>1, <1>2, WalkInvStep, PTL DEF Spec

----------------------------------------------------------------------------
(* A page that is read as connection_expr reads it is a page of Walk.       *)

\* The rows that the cursor's condition leaves.
After(cursor) == {k \in rows : cursor = None \/ cursor < k}

\* The cursor is that of the last row shown, or there is none yet.
CursorAt(cursor, keys) ==
    IF cursor = None THEN keys = {} ELSE cursor \in keys /\ \A s \in keys : s <= cursor

InOrder(ks) == \A i, j \in DOMAIN ks : i < j => ks[i] < ks[j]

\* endCursor of a page that follows cursor.
EndCursor(cursor, ks) == IF ks = <<>> THEN cursor ELSE ks[Len(ks)]

\* One request for a page: q is its query, all the rows after the cursor in
\* key order, raw what LIMIT leaves of them.
ReadsPage(page, q, cursor, all, raw) ==
    /\ size # 0 /\ ~done
    /\ page # None /\ page.size = size
    /\ q.offset = None /\ q.limit = PageLimit(page, None)
    /\ all \in Seq(Int) /\ InOrder(all) /\ Range(all) = After(cursor)
    /\ raw = Window(q, all)
    /\ shown' = shown \cup Range(PageRows(page, raw))
    /\ done' = ~PageHasMore(page, raw)
    /\ UNCHANGED <<size, rows, always>>

LEMMA MinOfTwo ==
    ASSUME NEW a \in Nat, NEW b \in Nat
    PROVE  Min({a, b}) = IF a <= b THEN a ELSE b
<1> DEFINE m == IF a <= b THEN a ELSE b
<1>1. m \in {a, b} /\ \A y \in {a, b} : m <= y
  OBVIOUS
<1>2. \A x \in {a, b} : (\A y \in {a, b} : x <= y) => x = m
  OBVIOUS
<1> HIDE DEF m
<1>3. Min({a, b}) = m
  BY <1>1, <1>2 DEF Min
<1> QED
  BY <1>3 DEF m

\* What is shown is the first of all the rows, and one row more tells
\* whether there are others.
LEMMA PageIsAPrefix ==
    ASSUME NEW page, NEW q, NEW cursor, NEW all, NEW raw, ReadsPage(page, q, cursor, all, raw),
           size \in Nat, None \notin Nat
    PROVE  LET n == IF Len(all) <= size THEN Len(all) ELSE size
           IN /\ PageRows(page, raw) = SubSeq(all, 1, n)
              /\ PageHasMore(page, raw) <=> Len(all) > size
<1>0. /\ all \in Seq(Int) /\ Len(all) \in Nat /\ page # None /\ page.size = size
      /\ q.offset = None /\ q.limit = size + 1 /\ q.limit # None /\ size # None
  BY DEF ReadsPage, PageLimit
<1> DEFINE m == IF Len(all) <= size + 1 THEN Len(all) ELSE size + 1
<1>1. raw = SubSeq(all, 1, m)
  <2>1. raw = SubSeq(all, 1, Min({Len(all), 1 + q.limit - 1}))
    BY <1>0 DEF ReadsPage, Window
  <2>2. 1 + q.limit - 1 = size + 1
    BY <1>0
  <2>3. Min({Len(all), size + 1}) = m
    BY <1>0, MinOfTwo
  <2> QED
    BY <2>1, <2>2, <2>3
<1>2. raw \in Seq(Int) /\ Len(raw) = m /\ \A i \in 1..m : raw[i] = all[i]
  BY <1>0, <1>1
<1>3. PageHasMore(page, raw) <=> Len(all) > size
  BY <1>0, <1>2 DEF PageHasMore
<1> DEFINE n == IF Len(all) <= size THEN Len(all) ELSE size
<1>4. PageRows(page, raw) = SubSeq(raw, 1, n)
  <2>1. PageRows(page, raw) = SubSeq(raw, 1, Min({size, Len(raw)}))
    BY <1>0 DEF PageRows, FirstRows
  <2>2. Min({size, Len(raw)}) = n
    BY <1>0, <1>2, MinOfTwo
  <2> QED
    BY <2>1, <2>2
<1>5. SubSeq(raw, 1, n) = SubSeq(all, 1, n)
  <2>1. n \in Nat /\ n <= m /\ n <= Len(all) /\ m <= Len(all)
    BY <1>0
  <2>2. SubSeq(raw, 1, n) = [i \in 1..n |-> raw[i]]
    BY <1>2, <2>1
  <2>3. SubSeq(all, 1, n) = [i \in 1..n |-> all[i]]
    BY <1>0, <2>1
  <2> HIDE DEF n, m
  <2>4. \A i \in 1..n : raw[i] = all[i]
    BY <1>2, <2>1
  <2> QED
    BY <2>2, <2>3, <2>4
<1> QED
  BY <1>3, <1>4, <1>5

\* The number of the first n of a list in strict order.
LEMMA PrefixSize ==
    ASSUME NEW ks \in Seq(Int), InOrder(ks), NEW n \in Nat, n <= Len(ks)
    PROVE  IsFiniteSet({ks[i] : i \in 1..n}) /\ Cardinality({ks[i] : i \in 1..n}) = n
<1> DEFINE S == {ks[i] : i \in 1..n}
           f == [i \in 1..n |-> ks[i]]
<1>1. f \in Surjection(1..n, S)
  BY DEF Surjection
<1>2. \A i, j \in 1..n : f[i] = f[j] => i = j
  <2> SUFFICES ASSUME NEW i \in 1..n, NEW j \in 1..n, ks[i] = ks[j], i # j PROVE FALSE
    OBVIOUS
  <2>1. i \in DOMAIN ks /\ j \in DOMAIN ks /\ ks[i] \in Int /\ ks[j] \in Int
    OBVIOUS
  <2>2. ks[i] < ks[j] \/ ks[j] < ks[i]
    BY <2>1 DEF InOrder
  <2> QED
    BY <2>1, <2>2
<1>3. f \in Injection(1..n, S)
  BY <1>1, <1>2 DEF Injection, Surjection, IsInjective
<1>4. IsFiniteSet(1..n) /\ Cardinality(1..n) = n
  BY FS_Interval
<1> HIDE DEF f, S
<1>5. IsFiniteSet(S) /\ Cardinality(S) = Cardinality(1..n)
  BY <1>1, <1>3, <1>4, FS_Surjection
<1> QED
  BY <1>4, <1>5 DEF S

\* plan.rs and sqlgen, connection arguments and connection_expr: for any page
\* size, rows and cursor, a request that asks for size + 1 rows after the last
\* cursor, shows the first size and reports more when the extra one is there,
\* makes the page that Walk promises, and hands out the cursor of the last
\* row shown.  So a client that follows endCursor until hasNextPage is false
\* misses no row that stays (PagesAddUp).
THEOREM ReadingKeepsThePromise ==
    ASSUME rows \in SUBSET Int, shown \in SUBSET Int, size \in Nat, None \notin Int,
           NEW cursor, CursorAt(cursor, shown),
           NEW page, NEW q, NEW all, NEW raw, ReadsPage(page, q, cursor, all, raw)
    PROVE  Page /\ CursorAt(EndCursor(cursor, PageRows(page, raw)), shown')
<1> DEFINE L == Len(all)
           n == IF L <= size THEN L ELSE size
           keys == {all[i] : i \in 1..n}
<1>0. /\ all \in Seq(Int) /\ L \in Nat /\ DOMAIN all = 1..L /\ InOrder(all)
      /\ Range(all) = After(cursor) /\ size # 0 /\ ~done /\ UNCHANGED <<size, rows, always>>
      /\ \A i \in 1..L : all[i] \in Int
  BY DEF ReadsPage
<1>1. PageRows(page, raw) = SubSeq(all, 1, n) /\ (PageHasMore(page, raw) <=> L > size)
  <2>1. None \notin Nat
    OBVIOUS
  <2> QED
    BY <2>1, PageIsAPrefix
<1> HIDE DEF L
<1>2. L \in Nat /\ n \in Nat /\ n <= L /\ n <= size /\ (n # L => n = size) /\ (n = L <=> ~(L > size))
  BY <1>0
<1> HIDE DEF n
<1>3. After(cursor) = Ahead
  <2>1. CASE cursor = None
    BY <2>1 DEF After, Ahead, CursorAt
  <2>2. CASE cursor # None
    <3>1. cursor \in Int /\ cursor \in shown /\ \A s \in shown : s \in Int /\ s <= cursor
      BY <2>2 DEF CursorAt
    <3>2. ASSUME NEW k \in rows PROVE (\A s \in shown : s < k) <=> cursor < k
      <4>1. k \in Int
        OBVIOUS
      <4> QED
        BY <3>1, <4>1
    <3> QED
      BY <2>2, <3>2 DEF After, Ahead
  <2> QED
    BY <2>1, <2>2
<1>4. Ahead = {all[i] : i \in 1..L}
  BY <1>0, <1>3 DEF Range
<1>5. /\ SubSeq(all, 1, n) \in Seq(Int) /\ Len(SubSeq(all, 1, n)) = n
      /\ \A i \in 1..n : SubSeq(all, 1, n)[i] = all[i]
  <2>1. n \in Nat /\ n <= Len(all)
    BY <1>2 DEF L
  <2> QED
    BY <1>0, <2>1
<1>6. Range(SubSeq(all, 1, n)) = keys
  BY <1>5 DEF Range
<1>7. shown' = shown \cup keys /\ done' = ~(L > size)
  BY <1>1, <1>6 DEF ReadsPage
<1>8. \A i \in 1..L, j \in 1..L : i < j => all[i] < all[j]
  BY <1>0 DEF InOrder
<1>9. keys \in SUBSET Ahead
  BY <1>2, <1>4
<1>10. \A i \in 1..L : all[i] \in keys => i <= n
  <2> SUFFICES ASSUME NEW i \in 1..L, NEW j \in 1..n, all[i] = all[j], ~(i <= n) PROVE FALSE
    OBVIOUS
  <2>1. j \in 1..L /\ j < i
    BY <1>2
  <2> QED
    BY <1>0, <1>8, <2>1
<1>11. keys = Ahead <=> ~(L > size)
  <2>1. CASE n = L
    BY <1>2, <1>4, <2>1
  <2>2. CASE n # L
    <3>1. n + 1 \in 1..L
      BY <1>0, <1>2, <2>2
    <3>2. all[n + 1] \in Ahead /\ all[n + 1] \notin keys
      BY <1>2, <1>4, <1>10, <3>1
    <3> QED
      BY <1>2, <2>2, <3>2
  <2> QED
    BY <2>1, <2>2
<1>12. \A k \in keys, x \in Ahead \ keys : k < x
  <2> SUFFICES ASSUME NEW i \in 1..n, NEW j \in 1..L, all[j] \notin keys PROVE all[i] < all[j]
    BY <1>4
  <2>1. i \in 1..L /\ i < j
    BY <1>2
  <2> QED
    BY <1>8, <2>1
<1>13. IsFiniteSet(keys) /\ Cardinality(keys) = n
  BY <1>0, <1>2, PrefixSize DEF L
<1>14. Page
  <2> HIDE DEF keys
  <2>1. done' = (keys = Ahead)
    BY <1>7, <1>11
  <2>2. Cardinality(keys) <= size /\ (keys # Ahead => Cardinality(keys) = size)
    BY <1>0, <1>2, <1>11, <1>13
  <2> QED
    BY <1>0, <1>7, <1>9, <1>12, <1>13, <2>1, <2>2 DEF Page
<1>15. CursorAt(EndCursor(cursor, PageRows(page, raw)), shown')
  <2>1. CASE n = 0
    <3>1. keys = {} /\ SubSeq(all, 1, n) = <<>>
      BY <1>5, <2>1
    <3> QED
      BY <1>1, <1>7, <3>1 DEF EndCursor
  <2>2. CASE n # 0
    <3>1. n \in 1..L /\ n \in 1..n
      BY <1>2, <2>2
    <3>2. SubSeq(all, 1, n) # <<>> /\ SubSeq(all, 1, n)[n] = all[n]
      BY <1>5, <2>2, <3>1
    <3>3. EndCursor(cursor, PageRows(page, raw)) = all[n]
      BY <1>1, <1>5, <3>2 DEF EndCursor
    <3>4. all[n] \in shown' /\ all[n] \in Int /\ all[n] \in Ahead
      BY <1>0, <1>4, <1>7, <3>1
    <3>5. \A s \in shown : s <= all[n]
      BY <3>4 DEF Ahead
    <3>6. \A i \in 1..n : all[i] <= all[n]
      <4> TAKE i \in 1..n
      <4>1. i \in 1..L /\ (i = n \/ i < n)
        BY <1>2
      <4> QED
        BY <1>0, <1>8, <3>1, <4>1
    <3>7. all[n] # None
      BY <3>4
    <3> QED
      BY <1>7, <3>3, <3>4, <3>5, <3>6, <3>7 DEF CursorAt
  <2> QED
    BY <2>1, <2>2
<1> QED
  BY <1>14, <1>15
=============================================================================
