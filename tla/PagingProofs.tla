---------------------------- MODULE PagingProofs ----------------------------
(***************************************************************************)
(* What paginate returns, for every listing, offset and limit: the pages   *)
(* of a listing that does not change are its records, each on one of them, *)
(* all but the last of them full, and has_more tells when the last one has *)
(* been reached.                                                           *)
(***************************************************************************)
EXTENDS Paging, FiniteSetTheorems, FunctionTheorems, TLAPS

\* The one page that Pages knows of.
PageAt(records, offset, limit) ==
  {r \in records : Position(records, r) \in offset .. (offset + limit - 1)}

\* The records before r in the sorted array.
Before(records, r) == {q \in records : q < r}

\* Positions are the indices of the sorted array: they keep the order of the keys.
LEMMA PositionsInOrder ==
  ASSUME NEW S \in SUBSET Nat, IsFiniteSet(S)
  PROVE  /\ Cardinality(S) \in Nat
         /\ \A r \in S : Position(S, r) \in 0 .. (Cardinality(S) - 1)
         /\ \A q, r \in S : q < r => Position(S, q) < Position(S, r)
  <1>1. Cardinality(S) \in Nat
    BY FS_CardinalityType
  <1>2. ASSUME NEW r \in S
        PROVE  /\ IsFiniteSet(Before(S, r)) /\ Cardinality(Before(S, r)) \in Nat
               /\ Cardinality(Before(S, r)) < Cardinality(S)
    <2>1. Before(S, r) \in SUBSET S /\ r \notin Before(S, r)
      BY DEF Before
    <2>2. IsFiniteSet(Before(S, r)) /\ Cardinality(Before(S, r)) <= Cardinality(S)
          /\ (Cardinality(S) = Cardinality(Before(S, r)) => S = Before(S, r))
      BY <2>1, FS_Subset
    <2>3. Cardinality(Before(S, r)) \in Nat
      BY <2>2, FS_CardinalityType
    <2> QED
      BY <1>1, <2>1, <2>2, <2>3
  <1>3. ASSUME NEW q \in S, NEW r \in S, q < r
        PROVE  Cardinality(Before(S, q)) < Cardinality(Before(S, r))
    <2>0. q \in Nat /\ r \in Nat /\ \A p \in Before(S, q) : p \in Nat /\ p \in S /\ p < q
      BY DEF Before
    <2>3. \A p \in Before(S, q) : p < r
      BY <1>3, <2>0
    <2>5. q \in Before(S, r)
      BY <1>3 DEF Before
    <2>6. q \notin Before(S, q)
      BY <2>0
    <2>7. \A p \in Before(S, q) : p \in Before(S, r)
      BY <2>0, <2>3 DEF Before
    <2>1. Before(S, q) \in SUBSET Before(S, r) /\ q \in Before(S, r) /\ q \notin Before(S, q)
      BY <2>5, <2>6, <2>7
    <2>2. /\ Cardinality(Before(S, q)) <= Cardinality(Before(S, r))
          /\ Cardinality(Before(S, r)) = Cardinality(Before(S, q)) =>
               Before(S, r) = Before(S, q)
      BY <1>2, <2>1, FS_Subset
    <2>4. Cardinality(Before(S, q)) \in Nat /\ Cardinality(Before(S, r)) \in Nat
      BY <1>2
    <2> QED
      BY <2>1, <2>2, <2>4
  <1>4. \A r : Position(S, r) = Cardinality(Before(S, r))
    BY DEF Position, Before
  <1>5. ASSUME NEW r \in S
        PROVE  Position(S, r) \in 0 .. (Cardinality(S) - 1)
    BY <1>1, <1>2, <1>4
  <1> QED
    BY <1>1, <1>3, <1>4, <1>5

\* No two records share a position, and none is empty: the array has no holes.
LEMMA PositionsAreAll ==
  ASSUME NEW S \in SUBSET Nat, IsFiniteSet(S)
  PROVE  /\ \A q, r \in S : Position(S, q) = Position(S, r) => q = r
         /\ \A p \in 0 .. (Cardinality(S) - 1) : \E r \in S : Position(S, r) = p
  <1> DEFINE n == Cardinality(S)
             at == [r \in S |-> Position(S, r)]
             T == 0 .. (n - 1)
  <1>1. /\ n \in Nat
        /\ \A r \in S : Position(S, r) \in T
        /\ \A q, r \in S : q < r => Position(S, q) < Position(S, r)
    BY PositionsInOrder
  <1>2. ASSUME NEW q \in S, NEW r \in S, Position(S, q) = Position(S, r)
        PROVE  q = r
    <2>1. q \in Nat /\ r \in Nat /\ Position(S, q) \in Nat /\ Position(S, r) \in Nat
      BY <1>1
    <2> QED
      BY <1>1, <1>2, <2>1
  <1>3. at \in [S -> T]
    BY <1>1
  <1>4. at \in Injection(S, T)
    <2>1. \A a, b \in S : at[a] = at[b] => a = b
      BY <1>2
    <2> QED
      BY <1>3, <2>1, Fun_IsInj
  <1>5. IsFiniteSet(T) /\ Cardinality(T) = n
    BY <1>1, FS_Interval
  <1>6. at \in Surjection(S, T)
    BY <1>4, <1>5, FS_Injection
  <1>7. ASSUME NEW p \in T
        PROVE  \E r \in S : Position(S, r) = p
    <2>1. \A t \in T : \E r \in S : at[r] = t
      <3> HIDE DEF at, T
      <3> QED
        BY <1>6, Fun_SurjectionProperties
    <2> QED
      BY <2>1
  <1> QED
    BY <1>2, <1>7

\* The indices that a page takes.
Slice(records, offset, limit) ==
  offset .. ((IF offset + limit <= Cardinality(records) THEN offset + limit
              ELSE Cardinality(records)) - 1)

\* What a page holds: as many records as there are indices for it.
LEMMA PageIsSlice ==
  ASSUME NEW S \in SUBSET Nat, IsFiniteSet(S), NEW offset \in Nat, NEW limit \in Nat
  PROVE  /\ IsFiniteSet(PageAt(S, offset, limit))
         /\ Cardinality(PageAt(S, offset, limit)) = Cardinality(Slice(S, offset, limit))
  <1> DEFINE page == PageAt(S, offset, limit)
             slice == Slice(S, offset, limit)
             at == [r \in page |-> Position(S, r)]
  <1>1. /\ Cardinality(S) \in Nat
        /\ \A r \in S : Position(S, r) \in 0 .. (Cardinality(S) - 1)
    BY PositionsInOrder
  <1>2. at \in [page -> slice]
    <2>1. ASSUME NEW r \in page
          PROVE  Position(S, r) \in slice
      <3>1. /\ Position(S, r) \in 0 .. (Cardinality(S) - 1)
            /\ Position(S, r) \in offset .. (offset + limit - 1)
        BY <1>1 DEF PageAt
      <3> QED
        BY <1>1, <3>1 DEF Slice
    <2> QED
      BY <2>1
  <1>3. \A a, b \in page : at[a] = at[b] => a = b
    BY PositionsAreAll DEF PageAt
  <1>4. ASSUME NEW t \in slice
        PROVE  \E r \in page : at[r] = t
    <2>1. t \in 0 .. (Cardinality(S) - 1) /\ t \in offset .. (offset + limit - 1)
      BY <1>1, <1>4 DEF Slice
    <2>2. PICK r \in S : Position(S, r) = t
      BY <2>1, PositionsAreAll
    <2>3. r \in page
      BY <2>1, <2>2 DEF PageAt
    <2> QED
      BY <2>2, <2>3
  <1>5. ExistsBijection(page, slice)
    <2>1. at \in Bijection(page, slice)
      <3> HIDE DEF at, page, slice
      <3> QED
        BY <1>2, <1>3, <1>4, Fun_IsBij
    <2> QED
      BY <2>1, Fun_ExistsBij
  <1>6. page \in SUBSET S
    BY DEF PageAt
  <1>7. IsFiniteSet(page)
    BY <1>6, FS_Subset
  <1>8. Cardinality(slice) = Cardinality(page)
    <2> HIDE DEF page, slice
    <2> QED
      BY <1>5, <1>7, FS_Bijection
  <1> QED
    BY <1>7, <1>8

-----------------------------------------------------------------------------
(***************************************************************************)
(* A page is as long as it may be: full where the listing reaches that     *)
(* far, else what is left of it, and empty on and past its end             *)
(* (server/mod.rs:706-709).                                                *)
(***************************************************************************)
THEOREM PagesAreFull ==
  ASSUME NEW records \in SUBSET Nat, IsFiniteSet(records), NEW offset \in Nat,
         NEW limit \in Nat, NEW page \in Pages(records, offset, limit)
  PROVE  Cardinality(page) =
           IF offset + limit <= Cardinality(records) THEN limit
           ELSE IF offset <= Cardinality(records) THEN Cardinality(records) - offset
           ELSE 0
  <1>1. page = PageAt(records, offset, limit)
    BY DEF Pages, PageAt
  <1>2. Cardinality(records) \in Nat
    BY FS_CardinalityType
  <1>3. PICK end : end = IF offset + limit <= Cardinality(records) THEN offset + limit
                         ELSE Cardinality(records)
    OBVIOUS
  <1>4. end - 1 \in Int /\ end \in Nat
    BY <1>2, <1>3
  <1>5. Cardinality(offset .. (end - 1)) = IF offset > end - 1 THEN 0 ELSE (end - 1) - offset + 1
    BY <1>4, FS_Interval
  <1>6. Cardinality(page) = Cardinality(offset .. (end - 1))
    BY <1>1, <1>3, PageIsSlice DEF Slice
  <1> QED
    BY <1>2, <1>3, <1>4, <1>5, <1>6

(***************************************************************************)
(* has_more is exact: it is said of a page that is full and that some      *)
(* record comes after, so that a client which follows it is never handed   *)
(* an empty page, and leaves off at the true end (server/mod.rs:633-646).  *)
(***************************************************************************)
THEOREM HasMoreIsExact ==
  ASSUME NEW records \in SUBSET Nat, IsFiniteSet(records), NEW offset \in Nat,
         NEW limit \in Nat \ {0}
  PROVE  /\ HasMore(records, offset, limit) <=>
              \E r \in records : Position(records, r) >= offset + limit
         /\ HasMore(records, offset, limit) <=>
              \A next \in Pages(records, offset + limit, limit) : next # {}
         /\ HasMore(records, offset, limit) =>
              \A page \in Pages(records, offset, limit) : Cardinality(page) = limit
  <1>1. /\ Cardinality(records) \in Nat
        /\ \A r \in records : Position(records, r) \in 0 .. (Cardinality(records) - 1)
    BY PositionsInOrder
  <1>2. HasMore(records, offset, limit) => \E r \in records : Position(records, r) = offset + limit
    <2> SUFFICES ASSUME HasMore(records, offset, limit)
                 PROVE  \E r \in records : Position(records, r) = offset + limit
      OBVIOUS
    <2>1. offset + limit \in 0 .. (Cardinality(records) - 1)
      BY <1>1 DEF HasMore
    <2> QED
      BY <2>1, PositionsAreAll
  <1>3. (\E r \in records : Position(records, r) >= offset + limit)
          => HasMore(records, offset, limit)
    BY <1>1 DEF HasMore
  <1>4. HasMore(records, offset, limit)
          => \A next \in Pages(records, offset + limit, limit) : next # {}
    <2> SUFFICES ASSUME HasMore(records, offset, limit)
                 PROVE  PageAt(records, offset + limit, limit) # {}
      BY DEF Pages, PageAt
    <2>1. PICK r \in records : Position(records, r) = offset + limit
      BY <1>2
    <2>2. offset + limit \in (offset + limit) .. (offset + limit + limit - 1)
      OBVIOUS
    <2> QED
      BY <2>1, <2>2 DEF PageAt
  <1>5. (\A next \in Pages(records, offset + limit, limit) : next # {})
          => \E r \in records : Position(records, r) >= offset + limit
    <2> SUFFICES ASSUME PageAt(records, offset + limit, limit) # {}
                 PROVE  \E r \in records : Position(records, r) >= offset + limit
      BY DEF Pages, PageAt
    <2>1. PICK r \in PageAt(records, offset + limit, limit) : TRUE
      OBVIOUS
    <2>2. Position(records, r) >= offset + limit /\ r \in records
      BY <2>1 DEF PageAt
    <2> QED
      BY <2>2
  <1>6. HasMore(records, offset, limit) =>
          \A page \in Pages(records, offset, limit) : Cardinality(page) = limit
    <2>1. HasMore(records, offset, limit) => offset + limit <= Cardinality(records)
      BY <1>1 DEF HasMore
    <2> QED
      BY <2>1, PagesAreFull
  <1>7. (\E r \in records : Position(records, r) = offset + limit)
          => \E r \in records : Position(records, r) >= offset + limit
    <2> SUFFICES ASSUME NEW r \in records, Position(records, r) = offset + limit
                 PROVE  Position(records, r) >= offset + limit
      OBVIOUS
    <2> QED
      OBVIOUS
  <1> QED
    BY <1>2, <1>3, <1>4, <1>5, <1>6, <1>7

\* Two windows of one width, one behind the other, do not overlap.
LEMMA WindowsApart ==
  ASSUME NEW limit \in Nat \ {0}, NEW j \in Nat, NEW k \in Nat, j < k
  PROVE  j * limit + limit <= k * limit
  <1>1. PICK d \in Nat : k = j + 1 + d
    <2>1. k - j - 1 \in Nat /\ k = j + 1 + (k - j - 1)
      OBVIOUS
    <2> QED
      BY <2>1
  <1>2. k * limit = j * limit + limit + d * limit
    BY <1>1
  <1>3. d * limit \in Nat /\ j * limit \in Nat
    OBVIOUS
  <1> QED
    BY <1>2, <1>3

(***************************************************************************)
(* The pages at the offsets 0, limit, twice the limit and so on share out  *)
(* the listing: every record is on one of them, and on one only.           *)
(***************************************************************************)
THEOREM PagesShareOutTheListing ==
  ASSUME NEW records \in SUBSET Nat, IsFiniteSet(records), NEW limit \in Nat \ {0},
         NEW r \in records
  PROVE  \E k \in Nat : \A j \in Nat :
           \A page \in Pages(records, j * limit, limit) : r \in page <=> j = k
  <1>1. Position(records, r) \in Nat
    BY PositionsInOrder
  <1>2. PICK p \in Nat : p = Position(records, r)
    BY <1>1
  <1>3. PICK k \in Nat : k * limit <= p /\ p < k * limit + limit
    <2>1. p \div limit \in Nat /\ (p \div limit) * limit <= p
          /\ p < (p \div limit) * limit + limit
      OBVIOUS
    <2> QED
      BY <2>1
  <1>4. ASSUME NEW j \in Nat
        PROVE  p \in (j * limit) .. (j * limit + limit - 1) <=> j = k
    <2>1. j * limit \in Nat /\ k * limit \in Nat
      OBVIOUS
    <2>2. CASE j < k
      <3>1. j * limit + limit <= k * limit
        BY <2>2, WindowsApart
      <3> QED
        BY <1>3, <2>1, <2>2, <3>1
    <2>3. CASE k < j
      <3>1. k * limit + limit <= j * limit
        BY <2>3, WindowsApart
      <3> QED
        BY <1>3, <2>1, <2>3, <3>1
    <2>4. CASE j = k
      BY <1>3, <2>1, <2>4
    <2> QED
      BY <2>2, <2>3, <2>4
  <1> QED
    BY <1>2, <1>4 DEF Pages
=============================================================================
