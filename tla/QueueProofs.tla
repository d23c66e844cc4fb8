----------------------------- MODULE QueueProofs -----------------------------
(***************************************************************************)
(* Proofs about the queue, for every table, filter, sort and page size:    *)
(* ORDER BY is a strict total order, so that the pages partition what a    *)
(* query selects and a page holds its rows in order; and what the screen   *)
(* shows is always one whole listing of the query in its URL.              *)
(***************************************************************************)
EXTENDS QueueScreen, TLAPS, FiniteSetTheorems

(* A case does not precede itself, whatever the sort.                      *)
LEMMA KeysAreNumbers ==
  ASSUME NEW field \in SortFields, NEW c \in Cases, NEW row \in Rows
  PROVE  SortKey(field, c, row) \in Int
<1>1. /\ row.priority \in Int /\ row.updated \in Int /\ c \in Int
      /\ row.oldest # None => row.oldest \in Int
  BY CasesAssumption DEF Rows, Priorities
<1>2. (CHOOSE i \in 1..7 : StatusOrder[i] = row.status) \in Int
  <2>1. \E i \in 1..7 : StatusOrder[i] = row.status
    BY DEF Rows, Statuses
  <2>2. PICK n : n = CHOOSE i \in 1..7 : StatusOrder[i] = row.status
    OBVIOUS
  <2>3. n \in 1..7
    BY <2>1, <2>2
  <2>4. n \in Int
    BY <2>3
  <2>5. QED
    BY <2>2, <2>4
<1>3. CASE field = "priority"
  BY <1>1, <1>3 DEF SortKey
<1>4. CASE field = "age"
  BY <1>1, <1>4 DEF SortKey
<1>5. CASE field = "updated_at"
  BY <1>1, <1>5 DEF SortKey
<1>6. CASE field = "shipment_id"
  BY <1>1, <1>6 DEF SortKey
<1>7. CASE field = "status"
  BY <1>2, <1>7 DEF SortKey
<1>8. QED
  BY <1>3, <1>4, <1>5, <1>6, <1>7 DEF SortFields

LEMMA NoSelfPrecedence ==
  ASSUME NEW sort \in Seq(Terms), NEW t \in [Cases -> Rows], NEW c \in Cases
  PROVE  ~Precedes(sort, t, c, c)
<1>1. ASSUME NEW i \in DOMAIN sort PROVE ~Before(sort[i], t, c, c)
  <2>1. sort[i] \in Terms
    OBVIOUS
  <2>2. sort[i].field \in SortFields
    BY <2>1 DEF Terms
  <2>3. SortKey(sort[i].field, c, t[c]) \in Int
    BY <2>2, KeysAreNumbers
  <2>4. QED
    BY <2>3 DEF Before
<1>2. ~(c < c)
  BY CasesAssumption
<1>3. QED
  BY <1>1, <1>2 DEF Precedes

(* The place of a selected case is one of the places there are.            *)
LEMMA PlaceInside ==
  ASSUME NEW q, q.sort \in Seq(Terms), NEW t \in [Cases -> Rows],
         NEW c \in Selected(q, t)
  PROVE  Total(q, t) \in Nat /\ Position(q, t, c) \in 1..Total(q, t)
<1> DEFINE S == Selected(q, t)
           A == {d \in S : Precedes(q.sort, t, d, c)}
<1>1. S \subseteq Cases /\ c \in Cases
  BY DEF Selected
<1>2. IsFiniteSet(S) /\ Cardinality(S) \in Nat
  BY <1>1, CasesAssumption, FS_Subset, FS_CardinalityType
<1>3. c \notin A
  BY <1>1, NoSelfPrecedence
<1>4. IsFiniteSet(S \ {c}) /\ Cardinality(S \ {c}) = Cardinality(S) - 1
  BY <1>2, FS_RemoveElement
<1>5. A \subseteq S \ {c}
  BY <1>3
<1> HIDE DEF S, A
<1>6. IsFiniteSet(A) /\ Cardinality(A) <= Cardinality(S \ {c}) /\ Cardinality(A) \in Nat
  BY <1>4, <1>5, FS_Subset, FS_CardinalityType
<1>7. Position(q, t, c) = 1 + Cardinality(A) /\ Total(q, t) = Cardinality(S)
  BY DEF Position, Total, A, S
<1>8. QED
  BY <1>2, <1>4, <1>6, <1>7

-----------------------------------------------------------------------------
(* ORDER BY is a strict total order on the cases, whatever the sort.       *)
(* One term compares integers: its order is strict, and the cases it does  *)
(* not tell apart are interchangeable in it.                               *)
LEMMA TermOrders ==
  ASSUME NEW term \in Terms, NEW t \in [Cases -> Rows],
         NEW c \in Cases, NEW d \in Cases, NEW e \in Cases
  PROVE  /\ Differs(term, t, c, d) <=> Before(term, t, c, d) \/ Before(term, t, d, c)
         /\ Differs(term, t, c, d) <=> Differs(term, t, d, c)
         /\ Before(term, t, c, d) /\ Before(term, t, d, e) => Before(term, t, c, e)
         /\ ~Differs(term, t, c, d) =>
              /\ Before(term, t, d, e) <=> Before(term, t, c, e)
              /\ Before(term, t, e, d) <=> Before(term, t, e, c)
              /\ Differs(term, t, d, e) <=> Differs(term, t, c, e)
<1>1. term.field \in SortFields
  BY DEF Terms
<1>2. /\ SortKey(term.field, c, t[c]) \in Int
      /\ SortKey(term.field, d, t[d]) \in Int
      /\ SortKey(term.field, e, t[e]) \in Int
  BY <1>1, KeysAreNumbers
<1>3. QED
  BY <1>2 DEF Differs, Before

(* Some numbers have a first: the first term that tells two cases apart.   *)
LEMMA FirstOf ==
  ASSUME NEW T, T \subseteq Nat, T # {}
  PROVE  \E i \in T : \A j \in T : i <= j
<1>1. PICK x \in T : \A y \in T : ~(<<y, x>> \in OpToRel(<, Nat))
  BY NatLessThanWellFounded, WFMin, Zenon
<1>2. \A y \in T : x <= y
  <2> SUFFICES ASSUME NEW y \in T, ~(x <= y) PROVE FALSE
    OBVIOUS
  <2>1. y < x /\ x \in Nat /\ y \in Nat
    OBVIOUS
  <2>2. <<y, x>> \in OpToRel(<, Nat)
    BY <2>1 DEF OpToRel
  <2>3. QED
    BY <1>1, <2>2
<1>3. QED
  BY <1>2

LEMMA PrecedenceTransitive ==
  ASSUME NEW sort \in Seq(Terms), NEW t \in [Cases -> Rows],
         NEW c \in Cases, NEW d \in Cases, NEW e \in Cases,
         Precedes(sort, t, c, d), Precedes(sort, t, d, e)
  PROVE  Precedes(sort, t, c, e)
<1>1. \A i \in DOMAIN sort : sort[i] \in Terms
  OBVIOUS
<1>2. \A i \in DOMAIN sort : i \in Nat /\ \A j \in 1..(i - 1) : j \in DOMAIN sort /\ j \in Nat
  OBVIOUS
<1>3. CASE \A i \in DOMAIN sort : ~Differs(sort[i], t, c, d)
  <2>1. c < d
    BY <1>1, <1>3, TermOrders DEF Precedes
  <2>2. CASE \A i \in DOMAIN sort : ~Differs(sort[i], t, d, e)
    <3>1. d < e
      BY <1>1, <2>2, TermOrders DEF Precedes
    <3>2. c < e
      BY <2>1, <3>1, CasesAssumption
    <3>3. \A i \in DOMAIN sort : ~Differs(sort[i], t, c, e)
      BY <1>1, <1>3, <2>2, TermOrders
    <3>4. QED
      BY <3>2, <3>3 DEF Precedes
  <2>3. ASSUME NEW i \in DOMAIN sort, Before(sort[i], t, d, e),
               \A j \in 1..(i - 1) : ~Differs(sort[j], t, d, e)
        PROVE  Precedes(sort, t, c, e)
    <3>1. Before(sort[i], t, c, e)
      BY <1>1, <1>3, <2>3, TermOrders
    <3>2. \A j \in 1..(i - 1) : ~Differs(sort[j], t, c, e)
      BY <1>1, <1>2, <1>3, <2>3, TermOrders
    <3>3. QED
      BY <3>1, <3>2 DEF Precedes
  <2>4. QED
    BY <2>2, <2>3 DEF Precedes
<1>4. ASSUME NEW i \in DOMAIN sort, Before(sort[i], t, c, d),
             \A j \in 1..(i - 1) : ~Differs(sort[j], t, c, d)
      PROVE  Precedes(sort, t, c, e)
  <2>1. CASE \A k \in DOMAIN sort : ~Differs(sort[k], t, d, e)
    <3>1. ~Differs(sort[i], t, e, d)
      BY <1>1, <2>1, TermOrders
    <3>2. Before(sort[i], t, c, e)
      BY <1>1, <1>4, <2>1, <3>1, TermOrders
    <3>3. \A j \in 1..(i - 1) : ~Differs(sort[j], t, c, e)
      BY <1>1, <1>2, <1>4, <2>1, TermOrders
    <3>4. QED
      BY <3>2, <3>3 DEF Precedes
  <2>2. ASSUME NEW k \in DOMAIN sort, Before(sort[k], t, d, e),
               \A j \in 1..(k - 1) : ~Differs(sort[j], t, d, e)
        PROVE  Precedes(sort, t, c, e)
    <3>1. CASE i < k
      <4>1. ~Differs(sort[i], t, d, e) /\ ~Differs(sort[i], t, e, d)
        <5>1. i \in 1..(k - 1)
          BY <3>1, <1>2
        <5>2. QED
          BY <1>1, <2>2, <5>1, TermOrders
      <4>2. Before(sort[i], t, c, e)
        BY <1>1, <1>4, <4>1, TermOrders
      <4>3. \A j \in 1..(i - 1) : j \in 1..(k - 1) /\ j \in DOMAIN sort
        BY <1>2, <3>1
      <4>4. \A j \in 1..(i - 1) : ~Differs(sort[j], t, c, e)
        BY <1>1, <1>4, <2>2, <4>3, TermOrders
      <4>5. QED
        BY <4>2, <4>4 DEF Precedes
    <3>2. CASE k < i
      <4>1. ~Differs(sort[k], t, c, d)
        <5>1. k \in 1..(i - 1)
          BY <3>2, <1>2
        <5>2. QED
          BY <1>4, <5>1
      <4>2. Before(sort[k], t, c, e)
        BY <1>1, <2>2, <4>1, TermOrders
      <4>3. \A j \in 1..(k - 1) : j \in 1..(i - 1) /\ j \in DOMAIN sort
        BY <1>2, <3>2
      <4>4. \A j \in 1..(k - 1) : ~Differs(sort[j], t, c, e)
        BY <1>1, <1>4, <2>2, <4>3, TermOrders
      <4>5. QED
        BY <4>2, <4>4 DEF Precedes
    <3>3. CASE i = k
      <4>1. Before(sort[i], t, c, e)
        BY <1>1, <1>4, <2>2, <3>3, TermOrders
      <4>2. \A j \in 1..(i - 1) : ~Differs(sort[j], t, c, e)
        BY <1>1, <1>2, <1>4, <2>2, <3>3, TermOrders
      <4>3. QED
        BY <4>1, <4>2 DEF Precedes
    <3>4. QED
      BY <1>2, <3>1, <3>2, <3>3
  <2>3. QED
    BY <2>1, <2>2 DEF Precedes
<1>5. QED
  BY <1>3, <1>4 DEF Precedes

LEMMA PrecedenceTotal ==
  ASSUME NEW sort \in Seq(Terms), NEW t \in [Cases -> Rows],
         NEW c \in Cases, NEW d \in Cases, c # d
  PROVE  Precedes(sort, t, c, d) \/ Precedes(sort, t, d, c)
<1> DEFINE T == {i \in DOMAIN sort : Differs(sort[i], t, c, d)}
<1>1. \A i \in DOMAIN sort : sort[i] \in Terms /\ i \in Nat
  OBVIOUS
<1>2. CASE T = {}
  <2>1. \A i \in DOMAIN sort : ~Differs(sort[i], t, c, d) /\ ~Differs(sort[i], t, d, c)
    BY <1>1, <1>2, TermOrders
  <2>2. c < d \/ d < c
    BY CasesAssumption
  <2>3. QED
    BY <2>1, <2>2 DEF Precedes
<1>3. CASE T # {}
  <2>1. T \subseteq Nat
    BY <1>1
  <2> HIDE DEF T
  <2>2. PICK i \in T : \A j \in T : i <= j
    BY <1>3, <2>1, FirstOf
  <2>3. i \in DOMAIN sort /\ Differs(sort[i], t, c, d)
    BY DEF T
  <2>4. \A j \in 1..(i - 1) : ~Differs(sort[j], t, c, d) /\ ~Differs(sort[j], t, d, c)
    <3> SUFFICES ASSUME NEW j \in 1..(i - 1)
                 PROVE  ~Differs(sort[j], t, c, d) /\ ~Differs(sort[j], t, d, c)
      OBVIOUS
    <3>1. j \in DOMAIN sort /\ ~(i <= j)
      BY <2>3
    <3>2. j \notin T
      BY <2>2, <3>1
    <3>3. ~Differs(sort[j], t, c, d)
      BY <3>1, <3>2 DEF T
    <3>4. QED
      BY <1>1, <3>1, <3>3, TermOrders
  <2>5. Before(sort[i], t, c, d) \/ Before(sort[i], t, d, c)
    BY <1>1, <2>3, TermOrders
  <2>6. QED
    BY <2>3, <2>4, <2>5 DEF Precedes
<1>4. QED
  BY <1>2, <1>3

-----------------------------------------------------------------------------
(* Places are given in the order, and each to one case.                    *)
LEMMA PlacesFollowOrder ==
  ASSUME NEW q, q.sort \in Seq(Terms), NEW t \in [Cases -> Rows],
         NEW c \in Selected(q, t), NEW d \in Selected(q, t), Precedes(q.sort, t, c, d)
  PROVE  Position(q, t, c) < Position(q, t, d)
<1> DEFINE S == Selected(q, t)
           A == {e \in S : Precedes(q.sort, t, e, c)}
           B == {e \in S : Precedes(q.sort, t, e, d)}
<1>1. S \subseteq Cases /\ c \in Cases /\ d \in Cases
  BY DEF Selected
<1>2. A \subseteq B
  BY <1>1, PrecedenceTransitive
<1>3. c \in B /\ c \notin A
  BY <1>1, NoSelfPrecedence
<1>4. IsFiniteSet(B)
  BY <1>1, CasesAssumption, FS_Subset
<1> HIDE DEF S, A, B
<1>5. /\ IsFiniteSet(A) /\ Cardinality(A) <= Cardinality(B)
      /\ Cardinality(B) = Cardinality(A) => B = A
  BY <1>2, <1>4, FS_Subset
<1>6. Cardinality(A) \in Nat /\ Cardinality(B) \in Nat
  BY <1>4, <1>5, FS_CardinalityType
<1>7. Position(q, t, c) = 1 + Cardinality(A) /\ Position(q, t, d) = 1 + Cardinality(B)
  BY DEF Position, A, B, S
<1>8. QED
  BY <1>3, <1>5, <1>6, <1>7

LEMMA PlacesTellOrder ==
  ASSUME NEW q, q.sort \in Seq(Terms), NEW t \in [Cases -> Rows],
         NEW c \in Selected(q, t), NEW d \in Selected(q, t)
  PROVE  /\ Position(q, t, c) = Position(q, t, d) => c = d
         /\ Position(q, t, c) < Position(q, t, d) => Precedes(q.sort, t, c, d)
<1>1. c \in Cases /\ d \in Cases
  BY DEF Selected
<1>2. /\ Position(q, t, c) \in Int /\ Position(q, t, d) \in Int
  BY PlaceInside
<1>3. c = d \/ Precedes(q.sort, t, c, d) \/ Precedes(q.sort, t, d, c)
  BY <1>1, PrecedenceTotal
<1>4. CASE Precedes(q.sort, t, c, d)
  BY <1>2, <1>4, PlacesFollowOrder
<1>5. CASE Precedes(q.sort, t, d, c)
  BY <1>2, <1>5, PlacesFollowOrder
<1>6. QED
  BY <1>2, <1>3, <1>4, <1>5

(* Every place from 1 to the number of selected cases is taken.            *)
LEMMA EveryPlaceTaken ==
  ASSUME NEW q, q.sort \in Seq(Terms), NEW t \in [Cases -> Rows],
         NEW n \in 1..Total(q, t)
  PROVE  \E c \in Selected(q, t) : Position(q, t, c) = n
<1> DEFINE S == Selected(q, t)
           place == [c \in S |-> Position(q, t, c)]
<1>1. S \in SUBSET Cases
  BY DEF Selected
<1>2. IsFiniteSet(S) /\ Total(q, t) = Cardinality(S) /\ Total(q, t) \in Nat
  BY <1>1, CasesAssumption, FS_Subset, FS_CardinalityType DEF Total
<1>3. place \in [S -> 1..Total(q, t)]
  BY PlaceInside
<1>4. \A c, d \in S : place[c] = place[d] => c = d
  BY PlacesTellOrder
<1> HIDE DEF place, S
<1>5. place \in Injection(S, 1..Total(q, t))
  BY <1>3, <1>4 DEF Injection, IsInjective
<1>6. IsFiniteSet(1..Total(q, t)) /\ Cardinality(1..Total(q, t)) = Cardinality(S)
  <2>1. Cardinality(1..Total(q, t)) = IF 1 > Total(q, t) THEN 0 ELSE Total(q, t) - 1 + 1
    BY <1>2, FS_Interval
  <2>2. IsFiniteSet(1..Total(q, t))
    BY <1>2, FS_Interval
  <2>3. QED
    BY <1>2, <2>1, <2>2
<1>7. place \in Surjection(S, 1..Total(q, t))
  BY <1>5, <1>6, FS_Injection
<1>8. PICK c \in S : place[c] = n
  BY <1>7 DEF Surjection
<1>9. QED
  BY <1>8 DEF place, S

-----------------------------------------------------------------------------
(* Arithmetic of pages.                                                    *)
LEMMA Grows ==
  ASSUME NEW a \in Int, NEW b \in Int, NEW s \in Nat, a <= b
  PROVE  a * s <= b * s
BY SMTT(30)

(* Every place is on one page, and only on that one.                       *)
LEMMA OnePage ==
  ASSUME NEW s \in Nat \ {0}, NEW n \in Nat \ {0}
  PROVE  \E p \in Nat \ {0} : /\ (p - 1) * s < n /\ n <= (p - 1) * s + s
                              /\ \A k \in Nat \ {0} :
                                   (k - 1) * s < n /\ n <= (k - 1) * s + s => k = p
<1> DEFINE d == (n - 1) \div s
<1>1. d \in Nat /\ d * s <= n - 1 /\ n - 1 < d * s + s
  BY SMTT(30)
<1> HIDE DEF d
<1>2. \A k \in Nat \ {0} : (k - 1) * s < n /\ n <= (k - 1) * s + s => k = d + 1
  <2> SUFFICES ASSUME NEW k \in Nat \ {0}, (k - 1) * s < n, n <= (k - 1) * s + s,
                      k # d + 1
               PROVE  FALSE
    OBVIOUS
  <2>1. /\ k - 1 \in Int /\ d \in Int /\ k \in Int /\ d + 1 \in Int
        /\ (k - 1) * s + s = k * s /\ d * s + s = (d + 1) * s
        /\ k * s \in Int /\ d * s \in Int /\ (k - 1) * s \in Int /\ (d + 1) * s \in Int
    BY <1>1
  <2>2. CASE k - 1 < d
    <3>1. k * s <= d * s
      BY <2>1, <2>2, Grows
    <3>2. QED
      BY <1>1, <2>1, <3>1
  <2>3. CASE d < k - 1
    <3>1. (d + 1) * s <= (k - 1) * s
      BY <2>1, <2>3, Grows
    <3>2. QED
      BY <1>1, <2>1, <3>1
  <2>4. QED
    BY <2>1, <2>2, <2>3
<1>3. d + 1 \in Nat \ {0} /\ (d + 1) - 1 = d
  BY <1>1
<1>4. d * s < n /\ n <= d * s + s
  BY <1>1
<1>5. QED
  BY <1>2, <1>3, <1>4

(* It is one of the pages that are counted.                                *)
LEMMA PageCounted ==
  ASSUME NEW s \in Nat \ {0}, NEW n \in Nat \ {0}, NEW p \in Nat \ {0}, (p - 1) * s < n
  PROVE  p <= (n + s - 1) \div s
<1> DEFINE m == n + s - 1
           d == m \div s
<1>1. m \in Nat /\ d \in Nat /\ m < (d + 1) * s
  BY SMTT(30)
<1> HIDE DEF d
<1>2. p * s <= m
  <2>1. (p - 1) * s + s = p * s /\ (p - 1) * s \in Int /\ p * s \in Int
    OBVIOUS
  <2>2. QED
    BY <2>1
<1> HIDE DEF m
<1>3. ASSUME d < p PROVE FALSE
  <2>1. (d + 1) * s <= p * s
    BY <1>1, <1>3, Grows
  <2>2. (d + 1) * s \in Int /\ p * s \in Int
    BY <1>1
  <2>3. QED
    BY <1>1, <1>2, <2>1, <2>2
<1>4. QED
  BY <1>1, <1>3 DEF d, m

-----------------------------------------------------------------------------
(* The table holds rows, and a URL has the parameters the screen knows.    *)
ScreenInv ==
  /\ table \in [Cases -> Rows]
  /\ DOMAIN url = DOMAIN NoFilter

LEMMA StepKeepsScreen == ScreenInv /\ [Next]_vars => ScreenInv'
<1> SUFFICES ASSUME ScreenInv, [Next]_vars PROVE ScreenInv'
  OBVIOUS
<1> USE DEF ScreenInv
<1>1. ASSUME NEW u, DOMAIN u = DOMAIN NoFilter, Visit(u) PROVE ScreenInv'
  BY <1>1 DEF Visit
<1>2. ASSUME NEW u, DOMAIN u = DOMAIN NoFilter, Update(u) PROVE ScreenInv'
  <2>1. DOMAIN [u EXCEPT !.page = None] = DOMAIN NoFilter
    BY <1>2
  <2>2. QED
    BY <1>1, <1>2, <2>1 DEF Update
<1>3. ASSUME NEW v, ToggleStatus(v) \/ ToggleExceptionType(v) \/ TogglePriority(v)
      PROVE  ScreenInv'
  BY <1>2, <1>3 DEF ToggleStatus, ToggleExceptionType, TogglePriority
<1>4. ASSUME ToggleIncludeClean \/ ToggleIncludeCleared PROVE ScreenInv'
  BY <1>2, <1>4 DEF ToggleIncludeClean, ToggleIncludeCleared
<1>5. CASE Click
  <2>1. ASSUME NEW term, SetSort(term) PROVE ScreenInv'
    BY <1>2, <2>1 DEF SetSort
  <2>2. CASE ClearAll
    BY <1>1, <2>2 DEF ClearAll
  <2>3. CASE RemoveChip
    BY <1>3, <1>4, <2>3 DEF RemoveChip
  <2>4. CASE Previous \/ Next_
    BY <1>2, <2>4 DEF Previous, Next_
  <2>5. CASE Open
    BY <1>1, <2>5, BookmarksAssumption DEF Open
  <2>6. QED
    BY <1>3, <1>4, <1>5, <2>1, <2>2, <2>3, <2>4, <2>5 DEF Click
<1>6. CASE Refetch
  BY <1>6 DEF Refetch
<1>7. ASSUME NEW q \in asked, Respond(q) \/ Reject(q) \/ Lose(q) PROVE ScreenInv'
  BY <1>7 DEF Respond, Reject, Lose, Keep
<1>8. ASSUME NEW c \in Cases, NEW row \in Writes, Write(c, row) PROVE ScreenInv'
  BY <1>8, TablesAssumption DEF Write
<1>9. CASE UNCHANGED vars
  BY <1>9 DEF vars
<1>10. QED
  BY <1>5, <1>6, <1>7, <1>8, <1>9 DEF Next

(* The page a query asks for decides nothing else.                         *)
LEMMA PageOnly ==
  ASSUME ScreenInv, NEW k
  PROVE  LET q == [Query EXCEPT !.page = k]
         IN /\ q.page = k /\ q.size = Query.size /\ q.sort = Query.sort
            /\ Selected(q, table) = Selected(Query, table)
<1> DEFINE q == [Query EXCEPT !.page = k]
<1>1. DOMAIN Query = DOMAIN NoFilter
  BY DEF ScreenInv, Query, readQuery
<1>2. /\ q.page = k /\ q.size = Query.size /\ q.sort = Query.sort
      /\ q.clean = Query.clean /\ q.cleared = Query.cleared
      /\ q.status = Query.status /\ q.priority = Query.priority /\ q.type = Query.type
  BY <1>1 DEF NoFilter
<1> HIDE DEF q
<1>3. Selected(q, table) = Selected(Query, table)
  BY <1>2 DEF Selected, Selects
<1>4. QED
  BY <1>2, <1>3 DEF q

(* Every selected case is on exactly one page of the listing: LIMIT and    *)
(* OFFSET over an ORDER BY that ends in shipment_id skip and repeat none.  *)
THEOREM PagesArePartition == Spec => []PagesPartition
<1>1. ScreenInv => PagesPartition
  <2> SUFFICES ASSUME ScreenInv, Accepts(Query), NEW c \in Selected(Query, table)
               PROVE  LET last  == TotalPages(Query, table)
                          shown == [k \in 1..(last + 1) |->
                                      OnPage([Query EXCEPT !.page = k], table)]
                      IN \E p \in 1..last : {k \in DOMAIN shown : c \in shown[k]} = {p}
    BY DEF PagesPartition
  <2> DEFINE n    == Position(Query, table, c)
             s    == Query.size
             last == TotalPages(Query, table)
  <2>1. s \in Nat \ {0} /\ Query.sort \in Seq(Terms)
    BY SizesAssumption DEF Accepts
  <2>2. Total(Query, table) \in Nat /\ n \in 1..Total(Query, table)
    BY <2>1, PlaceInside DEF ScreenInv
  <2>3. ASSUME NEW k \in Nat \ {0}
        PROVE  c \in OnPage([Query EXCEPT !.page = k], table) <=>
                 (k - 1) * s < n /\ n <= (k - 1) * s + s
    <3> DEFINE q == [Query EXCEPT !.page = k]
    <3>1. q.page = k /\ q.size = s /\ q.sort = Query.sort
            /\ Selected(q, table) = Selected(Query, table)
      BY PageOnly
    <3> HIDE DEF q
    <3>2. Position(q, table, c) = n /\ Offset(q) = (k - 1) * s
      BY <3>1 DEF Position, Offset
    <3>3. (k - 1) * s \in Int /\ n \in Int
      BY <2>1, <2>2
    <3> HIDE DEF n, s
    <3>4. c \in OnPage(q, table) <=> n > (k - 1) * s /\ n <= (k - 1) * s + s
      BY <3>1, <3>2 DEF OnPage
    <3>5. QED
      BY <3>3, <3>4 DEF q
  <2> HIDE DEF n
  <2>4. PICK p \in Nat \ {0} :
          /\ (p - 1) * s < n /\ n <= (p - 1) * s + s
          /\ \A k \in Nat \ {0} : (k - 1) * s < n /\ n <= (k - 1) * s + s => k = p
    <3>1. n \in Nat \ {0}
      BY <2>2
    <3> HIDE DEF s
    <3>2. QED
      BY <2>1, <3>1, OnePage, Zenon
  <2>5. last \in Nat /\ p <= last
    <3> DEFINE t == Total(Query, table)
    <3>1. t \in Nat \ {0} /\ last = (t + s - 1) \div s
      BY <2>2 DEF TotalPages
    <3>2. (p - 1) * s < t
      <4>1. (p - 1) * s \in Int
        BY <2>1
      <4>2. QED
        BY <2>2, <2>4, <3>1, <4>1
    <3> HIDE DEF t, last, s
    <3>3. (t + s - 1) \div s \in Nat
      <4>1. t + s - 1 \in Nat
        BY <2>1, <3>1
      <4>2. QED
        BY <2>1, <4>1
    <3>4. QED
      BY <2>1, <3>1, <3>2, <3>3, PageCounted
  <2> HIDE DEF s, last
  <2>6. \A k \in 1..(last + 1) : k \in Nat \ {0}
    BY <2>5
  <2>7. p \in 1..last /\ p \in 1..(last + 1)
    BY <2>5
  <2>8. {k \in 1..(last + 1) : c \in OnPage([Query EXCEPT !.page = k], table)} = {p}
    BY <2>3, <2>4, <2>6, <2>7
  <2>9. QED
    BY <2>7, <2>8 DEF last
<1>2. Init => ScreenInv
  BY TablesAssumption, BookmarksAssumption DEF Init, ScreenInv
<1>3. QED
  BY <1>1, <1>2, StepKeepsScreen, PTL DEF Spec

-----------------------------------------------------------------------------
(* A page of a listing: row i is the case at place Offset + i, as the      *)
(* table has it; a page beyond the last is empty.                          *)
LEMMA PageContents ==
  ASSUME NEW q, Accepts(q), NEW t \in [Cases -> Rows]
  PROVE  LET l == Listing(q, t)
         IN /\ DOMAIN l \subseteq Nat
            /\ \A i \in DOMAIN l :
                 /\ l[i].case \in Selected(q, t)
                 /\ l[i].row = t[l[i].case]
                 /\ Position(q, t, l[i].case) = Offset(q) + i
            /\ q.page <= TotalPages(q, t) \/ l = << >>
<1> DEFINE S     == Selected(q, t)
           shown == OnPage(q, t)
           place == [c \in shown |-> Position(q, t, c)]
           n     == Total(q, t)
           o     == Offset(q)
           m     == IF o + q.size <= n THEN o + q.size ELSE n
           l     == Listing(q, t)
<1>1. q.sort \in Seq(Terms) /\ q.page \in Nat \ {0} /\ q.size \in Nat \ {0}
  BY SizesAssumption DEF Accepts
<1>2. n \in Nat /\ o \in Nat
  <2>1. S \in SUBSET Cases
    BY DEF Selected
  <2>2. n \in Nat
    BY <2>1, CasesAssumption, FS_Subset, FS_CardinalityType DEF Total
  <2>3. o \in Nat
    BY <1>1 DEF Offset
  <2>4. QED
    BY <2>2, <2>3
<1>3. \A c \in S : Position(q, t, c) \in 1..n
  BY <1>1, PlaceInside
<1>4. \A c \in S : c \in shown <=> Position(q, t, c) \in (o + 1)..m
  BY <1>1, <1>2, <1>3 DEF OnPage
<1>5. shown \subseteq S
  BY DEF OnPage
<1> HIDE DEF o, n, S
<1>6. m \in Nat /\ m <= n /\ (o + 1)..m \subseteq 1..n
  BY <1>1, <1>2
<1> HIDE DEF m, shown
<1>7. place \in Injection(shown, (o + 1)..m)
  <2>1. place \in [shown -> (o + 1)..m]
    BY <1>4, <1>5
  <2>2. \A c, d \in shown : place[c] = place[d] => c = d
    BY <1>1, <1>5, PlacesTellOrder DEF S
  <2>3. QED
    BY <2>1, <2>2 DEF Injection, IsInjective
<1>8. /\ Cardinality(shown) \in Nat
      /\ Cardinality(shown) <= IF o + 1 > m THEN 0 ELSE m - (o + 1) + 1
  <2>1. IsFiniteSet((o + 1)..m) /\
        Cardinality((o + 1)..m) = IF o + 1 > m THEN 0 ELSE m - (o + 1) + 1
    BY <1>2, <1>6, FS_Interval
  <2> HIDE DEF place
  <2>2. IsFiniteSet(shown) /\ Cardinality(shown) <= Cardinality((o + 1)..m)
    BY <1>7, <2>1, FS_Injection
  <2>3. QED
    BY <2>1, <2>2, FS_CardinalityType
<1>9. ASSUME NEW i \in 1..Cardinality(shown)
      PROVE  \E x \in shown : place[x] = o + i
  <2>1. o + i \in (o + 1)..m
    BY <1>2, <1>6, <1>8
  <2>2. PICK c \in S : Position(q, t, c) = o + i
    BY <1>1, <1>6, <2>1, EveryPlaceTaken DEF S, n
  <2>3. c \in shown
    BY <1>4, <2>1, <2>2
  <2>4. QED
    BY <2>2, <2>3
<1>10. l = [i \in 1..Cardinality(shown) |->
              [case |-> CHOOSE x \in shown : place[x] = o + i,
               row |-> t[CHOOSE x \in shown : place[x] = o + i]]]
  BY DEF Listing, shown, o
<1>11. DOMAIN l = 1..Cardinality(shown)
  BY <1>10
<1>12. ASSUME NEW i \in DOMAIN l
       PROVE  /\ l[i].case \in Selected(q, t)
              /\ l[i].row = t[l[i].case]
              /\ Position(q, t, l[i].case) = Offset(q) + i
  <2>1. PICK c : c = CHOOSE x \in shown : place[x] = o + i
    OBVIOUS
  <2>2. c \in shown /\ place[c] = o + i
    BY <1>9, <1>11, <2>1
  <2>3. l[i] = [case |-> c, row |-> t[c]]
    BY <1>10, <1>11, <2>1
  <2>4. QED
    BY <1>5, <2>2, <2>3 DEF S, o
<1>13. ASSUME ~(q.page <= TotalPages(q, t)) PROVE l = << >>
  <2>1. n <= o
    <3> DEFINE s == q.size
               p == q.page
               w == TotalPages(q, t)
    <3>1. CASE n = 0
      BY <1>2, <3>1
    <3>2. CASE n # 0
      <4>1. w = (n + s - 1) \div s
        BY <3>2 DEF TotalPages, n
      <4>2. n + s - 1 \in Nat /\ s \in Nat \ {0} /\ p \in Nat \ {0}
        BY <1>1, <1>2
      <4>3. ~(p <= w)
        BY <1>13
      <4>4. o = (p - 1) * s
        BY DEF Offset, o
      <4> HIDE DEF w, s, p
      <4>5. w \in Nat
        BY <4>1, <4>2
      <4>6. SUFFICES ASSUME o < n PROVE FALSE
        BY <1>2
      <4>7. p <= (n + s - 1) \div s
        BY <1>2, <3>2, <4>2, <4>4, <4>6, PageCounted
      <4>8. QED
        BY <4>1, <4>3, <4>7
    <3>3. QED
      BY <3>1, <3>2
  <2>2. o + 1 > m
    BY <1>2, <1>6, <2>1
  <2>3. Cardinality(shown) = 0
    BY <1>8, <2>2
  <2>4. DOMAIN l = {}
    BY <1>11, <2>3
  <2> HIDE DEF l
  <2>5. l = [i \in 1..0 |-> l[i]]
    BY <1>10, <1>11, <2>3 DEF l
  <2>6. QED
    BY <2>5
<1>14. QED
  BY <1>11, <1>12, <1>13

(* Rows of a page stand in the order of their cases.                       *)
LEMMA PageOrdered ==
  ASSUME NEW q, Accepts(q), NEW t \in [Cases -> Rows],
         NEW i \in DOMAIN Listing(q, t), NEW j \in DOMAIN Listing(q, t), i < j
  PROVE  Precedes(q.sort, t, Listing(q, t)[i].case, Listing(q, t)[j].case)
<1> DEFINE c == Listing(q, t)[i].case
           d == Listing(q, t)[j].case
<1>1. /\ c \in Selected(q, t) /\ Position(q, t, c) = Offset(q) + i
      /\ d \in Selected(q, t) /\ Position(q, t, d) = Offset(q) + j
      /\ i \in Nat /\ j \in Nat
  BY PageContents
<1>2. q.sort \in Seq(Terms) /\ Offset(q) \in Int
  BY SizesAssumption DEF Accepts, Offset
<1>3. Position(q, t, c) < Position(q, t, d)
  BY <1>1, <1>2
<1> HIDE DEF c, d
<1>4. Precedes(q.sort, t, c, d)
  BY <1>1, <1>2, <1>3, PlacesTellOrder
<1>5. QED
  BY <1>4 DEF c, d

-----------------------------------------------------------------------------
(* What the query cache holds.                                             *)
DatedTables == {t \in [Cases -> Rows] : \A c \in Cases : Dated(t[c])}

AnswerTo(q, t) ==
  LET a == listQueue(q, t)
  IN  [kind |-> "listed", data |-> a.data, page |-> a.page, pages |-> a.pages,
       total |-> a.total, filters |-> a.filters]

(* Every answer that is kept is the listing of its own query, all of it of *)
(* one table; and a query that has no answer is in flight.                 *)
KeptInv ==
  /\ table \in DatedTables
  /\ \A k \in DOMAIN kept : kept[k].kind = "listed" =>
       Accepts(k) /\ \E t \in DatedTables : kept[k] = AnswerTo(k, t)

InFlight == ~Shown => Query \in asked

LEMMA StepKeepsAnswers == KeptInv /\ [Next]_vars => KeptInv'
<1> SUFFICES ASSUME KeptInv, [Next]_vars PROVE KeptInv'
  OBVIOUS
<1>1. ASSUME UNCHANGED <<table, kept>> PROVE KeptInv'
  BY <1>1 DEF KeptInv
<1>2. ASSUME NEW u, Visit(u) PROVE UNCHANGED <<table, kept>>
  BY <1>2 DEF Visit
<1>3. CASE Click
  BY <1>1, <1>2, <1>3 DEF Click, ToggleStatus, ToggleExceptionType, TogglePriority,
    ToggleIncludeClean, ToggleIncludeCleared, SetSort, ClearAll, RemoveChip, Previous,
    Next_, Open, Update
<1>4. CASE Refetch
  BY <1>1, <1>4 DEF Refetch
<1>5. ASSUME NEW q \in asked, Respond(q) PROVE KeptInv'
  <2>1. Accepts(q) /\ Keep(q, AnswerTo(q, table))
    BY <1>5 DEF Respond, AnswerTo
  <2>2. table' = table /\ kept' = [k \in DOMAIN kept \cup {q} |->
                                     IF k = q THEN AnswerTo(q, table) ELSE kept[k]]
    BY <2>1 DEF Keep, Key
  <2>3. QED
    BY <2>1, <2>2 DEF KeptInv
<1>6. ASSUME NEW q \in asked, Reject(q) \/ Lose(q) PROVE KeptInv'
  <2>1. Keep(q, [kind |-> "error"])
    BY <1>6 DEF Reject, Lose
  <2>2. table' = table /\ kept' = [k \in DOMAIN kept \cup {q} |->
                                     IF k = q THEN [kind |-> "error"] ELSE kept[k]]
    BY <2>1 DEF Keep, Key
  <2>3. QED
    BY <2>2 DEF KeptInv
<1>7. ASSUME NEW c \in Cases, NEW row \in Writes, Write(c, row) PROVE KeptInv'
  <2>1. row \in Rows /\ Dated(row)
    BY TablesAssumption, DatedAssumption
  <2>2. table' = [table EXCEPT ![c] = row] /\ kept' = kept
    BY <1>7 DEF Write
  <2>3. table' \in DatedTables
    BY <2>1, <2>2 DEF KeptInv, DatedTables
  <2>4. QED
    BY <2>2, <2>3 DEF KeptInv
<1>8. CASE UNCHANGED vars
  BY <1>1, <1>8 DEF vars
<1>9. QED
  BY <1>3, <1>4, <1>5, <1>6, <1>7, <1>8 DEF Next

LEMMA StartsWithAnswers == Init => KeptInv
<1>1. ASSUME Init PROVE KeptInv
  <2>1. table \in Tables /\ DOMAIN kept = {}
    BY <1>1 DEF Init
  <2>2. QED
    BY <2>1, TablesAssumption, DatedAssumption DEF KeptInv, DatedTables
<1>2. QED
  BY <1>1

(* However clicks, answers, losses and writes interleave, what useQueue    *)
(* keeps under a query is listQueue's answer to that query on one table:   *)
(* rows, total and page count never come from two moments or two queries.  *)
THEOREM AnswersAreListings == Spec => []KeptInv
BY StartsWithAnswers, StepKeepsAnswers, PTL DEF Spec

(* A screen that shows nothing yet has its query in flight: no order of    *)
(* clicks and answers leaves it waiting for a request nobody sent.         *)
THEOREM NothingIsForgotten == Spec => []InFlight
<1>1. Init => InFlight
  BY DEF Init, InFlight
<1>2. InFlight /\ [Next]_vars => InFlight'
  <2> SUFFICES ASSUME InFlight, [Next]_vars PROVE InFlight'
    OBVIOUS
  <2> USE DEF InFlight, Shown, Query, Key
  <2>1. ASSUME NEW u, Visit(u) PROVE InFlight'
    BY <2>1 DEF Visit
  <2>2. CASE Click
    BY <2>1, <2>2 DEF Click, ToggleStatus, ToggleExceptionType, TogglePriority,
      ToggleIncludeClean, ToggleIncludeCleared, SetSort, ClearAll, RemoveChip, Previous,
      Next_, Open, Update
  <2>3. CASE Refetch
    BY <2>3 DEF Refetch
  <2>4. ASSUME NEW q \in asked, Respond(q) \/ Reject(q) \/ Lose(q) PROVE InFlight'
    <3>1. /\ asked' = asked \ {q} /\ DOMAIN kept' = DOMAIN kept \cup {q} /\ url' = url
      BY <2>4 DEF Respond, Reject, Lose, Keep
    <3>2. QED
      BY <3>1
  <2>5. ASSUME NEW c \in Cases, NEW row \in Writes, Write(c, row) PROVE InFlight'
    BY <2>5 DEF Write
  <2>6. CASE UNCHANGED vars
    BY <2>6 DEF vars
  <2>7. QED
    BY <2>2, <2>3, <2>4, <2>5, <2>6 DEF Next
<1>3. QED
  BY <1>1, <1>2, PTL DEF Spec

(* The screen shows what its URL asks for.                                 *)
THEOREM ScreenShowsWhatIsAsked == Spec => []ShownAsAsked
<1>1. KeptInv => ShownAsAsked
  <2> SUFFICES ASSUME KeptInv, Listed
               PROVE  /\ Answer.filters = Filters(Query) /\ Answer.page = Query.page
                      /\ Answer.page <= Answer.pages \/ Answer.data = << >>
                      /\ \A i \in DOMAIN Answer.data : Selects(Query, Answer.data[i].row)
    BY DEF ShownAsAsked
  <2>1. Accepts(Query) /\ \E t \in DatedTables : Answer = AnswerTo(Query, t)
    BY DEF KeptInv, Listed, Shown, Answer, Key
  <2>2. PICK t \in [Cases -> Rows] : Answer = AnswerTo(Query, t)
    BY <2>1 DEF DatedTables
  <2>3. /\ Answer.filters = Filters(Query) /\ Answer.page = Query.page
        /\ Answer.pages = TotalPages(Query, t) /\ Answer.data = Listing(Query, t)
    BY <2>2 DEF AnswerTo, listQueue
  <2>4. Answer.page <= Answer.pages \/ Answer.data = << >>
    BY <2>1, <2>3, PageContents
  <2>5. ASSUME NEW i \in DOMAIN Answer.data PROVE Selects(Query, Answer.data[i].row)
    <3>1. /\ Answer.data[i].case \in Selected(Query, t)
          /\ Answer.data[i].row = t[Answer.data[i].case]
      BY <2>1, <2>3, PageContents
    <3>2. QED
      BY <3>1 DEF Selected
  <2>6. QED
    BY <2>3, <2>4, <2>5
<1>2. QED
  BY <1>1, AnswersAreListings, PTL

(* The two keys of the default sort.                                       *)
LEMMA DefaultOrder ==
  ASSUME NEW t \in DatedTables, NEW c \in Cases, NEW d \in Cases,
         t[c].queued, t[d].queued, Precedes(DefaultSort, t, c, d)
  PROVE  \/ t[c].priority > t[d].priority
         \/ t[c].priority = t[d].priority /\ t[c].oldest # None /\ t[c].oldest <= t[d].oldest
<1>1. /\ t[c] \in Rows /\ t[d] \in Rows
      /\ t[c].oldest # None /\ t[d].oldest # None
  BY DEF DatedTables, Dated
<1>2. /\ t[c].priority \in Int /\ t[d].priority \in Int
      /\ t[c].oldest \in Int /\ t[d].oldest \in Int
  BY <1>1 DEF Rows, Priorities
<1>3. /\ DOMAIN DefaultSort = {1, 2}
      /\ DefaultSort[1].field = "priority" /\ DefaultSort[1].dir = "desc"
      /\ DefaultSort[2].field = "age" /\ DefaultSort[2].dir = "desc"
  BY DEF DefaultSort
<1>4. /\ Differs(DefaultSort[1], t, c, d) <=> t[c].priority # t[d].priority
      /\ Before(DefaultSort[1], t, c, d) <=> t[c].priority > t[d].priority
  BY <1>3 DEF Differs, Before, Ascending, SortKey
<1>5. /\ Differs(DefaultSort[2], t, c, d) <=> t[c].oldest # t[d].oldest
      /\ Before(DefaultSort[2], t, c, d) <=> t[c].oldest < t[d].oldest
  BY <1>1, <1>3 DEF Differs, Before, Ascending, SortKey
<1>6. CASE \E i \in DOMAIN DefaultSort :
             /\ Before(DefaultSort[i], t, c, d)
             /\ \A j \in 1..(i - 1) : ~Differs(DefaultSort[j], t, c, d)
  <2>1. CASE Before(DefaultSort[1], t, c, d)
    BY <1>4, <2>1
  <2>2. CASE Before(DefaultSort[2], t, c, d) /\ \A j \in 1..(2 - 1) : ~Differs(DefaultSort[j], t, c, d)
    <3>1. ~Differs(DefaultSort[1], t, c, d)
      BY <2>2
    <3>2. QED
      BY <1>1, <1>2, <1>4, <1>5, <2>2, <3>1
  <2>3. QED
    BY <1>3, <1>6, <2>1, <2>2
<1>7. CASE \A i \in DOMAIN DefaultSort : ~Differs(DefaultSort[i], t, c, d)
  <2>1. ~Differs(DefaultSort[1], t, c, d) /\ ~Differs(DefaultSort[2], t, c, d)
    BY <1>3, <1>7
  <2>2. QED
    BY <1>1, <1>2, <1>4, <1>5, <2>1
<1>8. QED
  BY <1>6, <1>7 DEF Precedes

(* The default work list never shows an older case below a newer one of    *)
(* the same priority.                                                      *)
THEOREM WorkListOldestFirst == Spec => []OldestFirst
<1>1. KeptInv => OldestFirst
  <2> SUFFICES ASSUME KeptInv, Listed, Query.sort = DefaultSort, ~Query.clean, ~Query.cleared,
                      NEW i \in DOMAIN Answer.data, NEW j \in DOMAIN Answer.data, i < j
               PROVE  LET a == Answer.data[i].row  b == Answer.data[j].row IN
                      \/ a.priority > b.priority
                      \/ a.priority = b.priority /\ a.oldest # None /\ a.oldest <= b.oldest
    BY DEF OldestFirst
  <2>1. Accepts(Query) /\ \E t \in DatedTables : Answer = AnswerTo(Query, t)
    BY DEF KeptInv, Listed, Shown, Answer, Key
  <2>2. PICK t \in DatedTables : Answer = AnswerTo(Query, t)
    BY <2>1
  <2>3. t \in [Cases -> Rows]
    BY DEF DatedTables
  <2>4. Answer.data = Listing(Query, t)
    BY <2>2 DEF AnswerTo, listQueue
  <2> DEFINE c == Answer.data[i].case
             d == Answer.data[j].case
  <2>5. /\ c \in Selected(Query, t) /\ Answer.data[i].row = t[c]
        /\ d \in Selected(Query, t) /\ Answer.data[j].row = t[d]
    BY <2>1, <2>3, <2>4, PageContents
  <2>6. c \in Cases /\ d \in Cases /\ t[c].queued /\ t[d].queued
    BY <2>5 DEF Selected, Selects
  <2>7. Precedes(DefaultSort, t, c, d)
    BY <2>1, <2>3, <2>4, PageOrdered
  <2> HIDE DEF c, d
  <2>8. QED
    BY <2>5, <2>6, <2>7, DefaultOrder
<1>2. QED
  BY <1>1, AnswersAreListings, PTL
=============================================================================
