----------------------------- MODULE PagesProofs -----------------------------
(***************************************************************************)
(* Theorems about Pages, for any rows, page size, requests and bounds.     *)
(***************************************************************************)
EXTENDS PagesInv, TLAPS, FiniteSetTheorems

-----------------------------------------------------------------------------
(* The rows of a page: ORDER BY ... DESC LIMIT ... OFFSET *)

LEMMA Least ==
    ASSUME NEW T \in SUBSET Nat, T # {}
    PROVE  \E x \in T : \A y \in T : x <= y
  <1>1. PICK x \in T : \A y \in T : ~(<<y, x>> \in OpToRel(<, Nat))
    BY NatLessThanWellFounded, WFMin
  <1>2. \A y \in T : y \in Nat /\ ~(y < x)
    BY <1>1 DEF OpToRel
  <1> QED BY <1>2

LEMMA RankType ==
    ASSUME NEW S \in SUBSET Nat, IsFiniteSet(S), NEW r \in Nat
    PROVE  /\ Rank(S, r) \in Nat
           /\ IsFiniteSet(Before(S, r))
           /\ r \in S => Rank(S, r) < Cardinality(S)
  <1> DEFINE T == Before(S, r)
  <1>1. T \in SUBSET S
    BY DEF Before
  <1>2. IsFiniteSet(T) /\ Cardinality(T) <= Cardinality(S)
        /\ (Cardinality(S) = Cardinality(T) => S = T)
    BY <1>1, FS_Subset
  <1>3. Cardinality(T) \in Nat /\ Cardinality(S) \in Nat
    BY <1>2, FS_CardinalityType
  <1>4. r \in S => S # T
    BY DEF Before
  <1>5. Rank(S, r) = Cardinality(T)
    BY DEF Rank
  <1>6. IsFiniteSet(Before(S, r))
    BY <1>2
  <1> HIDE DEF T
  <1>7. r \in S => Cardinality(T) < Cardinality(S)
    BY <1>2, <1>3, <1>4
  <1>8. Rank(S, r) \in Nat
    BY <1>3, <1>5
  <1>9. r \in S => Rank(S, r) < Cardinality(S)
    BY <1>5, <1>7
  <1> QED BY <1>6, <1>8, <1>9, Zenon

\* A smaller row comes later.
LEMMA RankLess ==
    ASSUME NEW S \in SUBSET Nat, IsFiniteSet(S), NEW r \in S, NEW q \in S, r < q
    PROVE  Rank(S, q) < Rank(S, r)
  <1> DEFINE T == Before(S, r)
             U == Before(S, q)
  <1>0. \A s \in S : s \in Nat
    OBVIOUS
  <1>1. IsFiniteSet(T) /\ U \in SUBSET T /\ q \in T \ U
    <2>1. IsFiniteSet(T)
      <3>1. T \in SUBSET S
        BY DEF Before
      <3> HIDE DEF T
      <3> QED BY <3>1, FS_Subset
    <2>2. U \in SUBSET T
      <3>1. ASSUME NEW s \in S, s > q PROVE s > r
        BY <1>0, <3>1
      <3> QED BY <3>1 DEF Before
    <2>3. q \in T \ U
      BY <1>0 DEF Before
    <2> QED BY <2>1, <2>2, <2>3
  <1>2. /\ IsFiniteSet(U) /\ Cardinality(U) <= Cardinality(T)
        /\ Cardinality(T) = Cardinality(U) => T = U
    BY <1>1, FS_Subset
  <1>3. T # U
    BY <1>1
  <1>4. Cardinality(T) \in Nat /\ Cardinality(U) \in Nat
    BY <1>1, <1>2, FS_CardinalityType
  <1> QED BY <1>2, <1>3, <1>4 DEF Rank

\* Rows that are stored push others back, and never forward.
LEMMA RankGrows ==
    ASSUME NEW S, NEW S2 \in SUBSET Nat, IsFiniteSet(S2), S \subseteq S2,
           NEW r \in Nat
    PROVE  Rank(S, r) <= Rank(S2, r)
  <1> DEFINE T == Before(S, r)
             U == Before(S2, r)
  <1>1. IsFiniteSet(U) /\ T \in SUBSET U
    BY RankType DEF Before
  <1> QED BY <1>1, FS_Subset DEF Rank

\* There is a row at each rank.
LEMMA RankReached ==
    ASSUME NEW S \in SUBSET Nat, IsFiniteSet(S), NEW k \in Nat,
           k < Cardinality(S)
    PROVE  \E r \in S : Rank(S, r) = k
  <1> DEFINE T == {r \in S : Rank(S, r) >= k}
  <1>0. \A r \in S : Rank(S, r) \in Nat
    BY RankType
  <1>1. T # {}
    <2>1. S # {}
      BY FS_EmptySet
    <2>2. PICK r \in S : \A s \in S : r <= s
      BY <2>1, Least
    <2>3. Before(S, r) = S \ {r}
      <3>1. ASSUME NEW s \in S PROVE s > r <=> s # r
        BY <2>2
      <3> QED BY <3>1 DEF Before
    <2>4. Cardinality(S \ {r}) = Cardinality(S) - 1
      BY FS_RemoveElement
    <2>5. Rank(S, r) = Cardinality(S) - 1
      BY <2>3, <2>4 DEF Rank
    <2>6. Cardinality(S) \in Nat
      BY FS_CardinalityType
    <2>7. r \in T
      BY <2>5, <2>6
    <2> QED BY <2>7
  <1>2. PICK r \in T : \A q \in T : Rank(S, r) <= Rank(S, q)
    <2> DEFINE R == {Rank(S, q) : q \in T}
    <2>1. R \in SUBSET Nat /\ R # {}
      BY <1>0, <1>1
    <2>2. PICK x \in R : \A y \in R : x <= y
      BY <2>1, Least
    <2> QED BY <2>2
  <1>3. r \in S /\ Rank(S, r) >= k /\ Rank(S, r) \in Nat
    BY <1>0
  <1>4. ASSUME Rank(S, r) > k PROVE FALSE
    <2> DEFINE U == Before(S, r)
    <2>1. IsFiniteSet(U) /\ Cardinality(U) = Rank(S, r)
      BY RankType DEF Rank
    <2>2. U # {}
      BY <1>3, <1>4, <2>1, FS_EmptySet
    <2>3. PICK q \in U : \A s \in U : q <= s
      BY <2>2, Least DEF Before
    <2>4. Before(S, q) = U \ {q}
      <3>1. ASSUME NEW s \in S PROVE s > q <=> s > r /\ s # q
        <4>1. q \in Nat /\ r \in Nat /\ s \in Nat /\ q > r
          BY <1>3, <2>3 DEF Before
        <4>2. s > r => q <= s
          BY <2>3 DEF Before
        <4> QED BY <4>1, <4>2
      <3> QED BY <3>1 DEF Before
    <2>5. Rank(S, q) = Rank(S, r) - 1
      <3>1. Cardinality(U \ {q}) = Cardinality(U) - 1
        BY <2>1, FS_RemoveElement
      <3> QED BY <2>1, <2>4, <3>1 DEF Rank
    <2>6. q \in T
      BY <1>3, <1>4, <2>3, <2>5 DEF Before
    <2> QED BY <1>2, <1>3, <2>5, <2>6
  <1> QED BY <1>3, <1>4

\* A page has at most PageSize rows.
LEMMA NewestSize ==
    ASSUME NEW S \in SUBSET Nat, IsFiniteSet(S), NEW o \in Nat
    PROVE  /\ Newest(S, o) \subseteq S
           /\ Cardinality(Newest(S, o)) <= PageSize
  <1> DEFINE N == Newest(S, o)
             I == o .. (o + PageSize - 1)
             f == [r \in N |-> Rank(S, r)]
  <1>0. PageSize \in Nat \ {0}
    BY RowsAssumption
  <1>1. N \subseteq S /\ \A r \in N : Rank(S, r) >= o /\ Rank(S, r) < o + PageSize
    BY DEF Newest, Rank, Before
  <1>2. \A r \in N : Rank(S, r) \in I
    <2>1. ASSUME NEW r \in N PROVE Rank(S, r) \in I
      <3>1. r \in Nat
        BY <1>1
      <3>2. Rank(S, r) \in Nat
        BY <3>1, RankType
      <3> QED BY <1>0, <1>1, <3>2
    <2> QED BY <2>1
  <1>3. \A r, q \in N : Rank(S, r) = Rank(S, q) => r = q
    <2>1. ASSUME NEW r \in N, NEW q \in N, Rank(S, r) = Rank(S, q), r < q
          PROVE  FALSE
      <3>1. Rank(S, q) < Rank(S, r) /\ Rank(S, r) \in Nat
        BY <1>1, <2>1, RankLess, RankType
      <3> QED BY <2>1, <3>1
    <2>2. \A r \in N : r \in Nat
      BY <1>1
    <2> QED BY <2>1, <2>2
  <1> HIDE DEF N, I
  <1>4. f \in Injection(N, I)
    BY <1>2, <1>3 DEF Injection, IsInjective
  <1>5. IsFiniteSet(I) /\ Cardinality(I) = PageSize
    BY <1>0, FS_Interval DEF I
  <1>6. Cardinality(N) <= Cardinality(I)
    BY <1>4, <1>5, FS_Injection
  <1> QED BY <1>1, <1>5, <1>6 DEF N

\* A page that is asked for has a row, if the ones before do not show all.
LEMMA NewestSome ==
    ASSUME NEW S \in SUBSET Nat, IsFiniteSet(S), NEW o \in Nat,
           o < Cardinality(S)
    PROVE  Newest(S, o) # {}
  <1>1. PICK r \in S : Rank(S, r) = o
    BY RankReached
  <1>2. r \in Newest(S, o)
    BY <1>1, RowsAssumption DEF Newest, Rank, Before
  <1> QED BY <1>2

\* What comes after page n - 1 and is not on page n comes after page n.
LEMMA BeyondPage ==
    ASSUME NEW S \in SUBSET Nat, IsFiniteSet(S), NEW n \in Nat \ {0}
    PROVE  /\ Beyond(S, n - 1) \ Newest(S, Offset(n)) \subseteq Beyond(S, n)
           /\ S \ Newest(S, Offset(1)) \subseteq Beyond(S, 1)
           /\ Offset(n) \in Nat
  <1>1. PageSize \in Nat /\ \A r \in S : Rank(S, r) \in Nat
    BY RowsAssumption, RankType
  <1>2. Offset(n) \in Nat /\ n * PageSize = Offset(n) + PageSize
    BY <1>1 DEF Offset
  <1>3. Offset(1) = 0 /\ 1 * PageSize = PageSize
    BY <1>1 DEF Offset
  <1>4. ASSUME NEW o \in Nat, NEW r \in S, r \notin Newest(S, o), Rank(S, r) >= o
        PROVE  Rank(S, r) >= o + PageSize
    BY <1>1, <1>4 DEF Newest, Rank, Before
  <1>5. ASSUME NEW r \in Beyond(S, n - 1) \ Newest(S, Offset(n))
        PROVE  r \in Beyond(S, n)
    BY <1>2, <1>4 DEF Beyond, Offset
  <1>6. ASSUME NEW r \in S \ Newest(S, Offset(1))
        PROVE  r \in Beyond(S, 1)
    BY <1>1, <1>3, <1>4 DEF Beyond
  <1> QED BY <1>2, <1>5, <1>6

LEMMA BeyondGrows ==
    ASSUME NEW S, NEW S2 \in SUBSET Nat, IsFiniteSet(S2), S \subseteq S2,
           NEW n \in Nat
    PROVE  /\ Beyond(S, n) \subseteq Beyond(S2, n)
           /\ Cardinality(S) <= Cardinality(S2)
  <1>1. IsFiniteSet(S) /\ S \in SUBSET Nat /\ Cardinality(S) <= Cardinality(S2)
    BY FS_Subset
  <1>2. \A r \in S : Rank(S, r) <= Rank(S2, r)
                     /\ Rank(S, r) \in Nat /\ Rank(S2, r) \in Nat
    BY <1>1, RankGrows, RankType
  <1>3. PICK m \in Nat : m = n * PageSize
    BY RowsAssumption
  <1>4. ASSUME NEW r \in Beyond(S, n) PROVE r \in Beyond(S2, n)
    <2>1. r \in S /\ Rank(S, r) >= m
      BY <1>3 DEF Beyond
    <2>2. Rank(S2, r) >= m
      BY <1>2, <2>1
    <2> QED BY <1>3, <2>1, <2>2 DEF Beyond
  <1> QED BY <1>1, <1>4

\* If something comes after page n, the table has more than n pages hold.
LEMMA BeyondCount ==
    ASSUME NEW S \in SUBSET Nat, IsFiniteSet(S), NEW n \in Nat,
           Beyond(S, n) # {}
    PROVE  n * PageSize < Cardinality(S)
  <1>1. PICK r \in S : Rank(S, r) >= n * PageSize
    BY DEF Beyond
  <1>2. Rank(S, r) \in Nat /\ Rank(S, r) < Cardinality(S)
    BY RankType
  <1>3. Cardinality(S) \in Nat
    BY FS_CardinalityType
  <1>4. n * PageSize \in Nat
    BY RowsAssumption
  <1> QED BY <1>1, <1>2, <1>3, <1>4

-----------------------------------------------------------------------------
(* Requests and their statements *)

LEMMA NoRequestFields ==
    /\ NoRequest = [f \in Fields |-> NoRequest[f]]
    /\ NoRequest.op = "none"
    /\ NoRequest.n = 1
    /\ NoRequest.link = FALSE
    /\ NoRequest.todo = <<>>
    /\ NoRequest.failed = FALSE
    /\ NoRequest.due = {} /\ NoRequest.raced = {}
    /\ NoRequest.gone = FALSE /\ NoRequest.live = FALSE
    /\ GotType(NoRequest.got)
    /\ NoRequest.got["rows"] = {}
    /\ NoRequest.got["count"] = 0
  <1> DEFINE g == [s \in Statements |->
                      CASE s = "count" -> 0 [] s = "first" -> TRUE
                        [] s = "date" -> FALSE [] OTHER -> {}]
  <1>1. g["count"] = 0
    BY DEF Statements
  <1>2. g["first"] = TRUE /\ g["date"] = FALSE
    BY DEF Statements
  <1>3. g["rows"] = {} /\ g["charges"] = {} /\ g["payouts"] = {} /\ g["pending"] = {}
    BY DEF Statements
  <1>4. g = [s \in Statements |-> g[s]]
    OBVIOUS
  <1> HIDE DEF g
  <1>5. GotType(g)
    <2>1. g["count"] \in Nat
      BY <1>1
    <2>2. g["first"] \in BOOLEAN /\ g["date"] \in BOOLEAN
      BY <1>2
    <2>3. /\ g["rows"] \subseteq pulled /\ g["charges"] \subseteq pulled
          /\ g["payouts"] \subseteq pulled
          /\ g["pending"] \subseteq Table("payouts") \cap Ready
      BY <1>3
    <2> QED BY <1>4, <2>1, <2>2, <2>3, Zenon DEF GotType
  <1>6. NoRequest = [op |-> "none", n |-> 1, link |-> FALSE, todo |-> <<>>,
                     got |-> g, failed |-> FALSE, due |-> {}, raced |-> {},
                     gone |-> FALSE, live |-> FALSE]
    BY DEF NoRequest, g
  <1> QED BY <1>1, <1>3, <1>5, <1>6 DEF Fields

\* The fields of a request that was made.
LEMMA RequestFields ==
    ASSUME NEW op \in PageOps \cup {"retry"}, NEW n \in Nat,
           NEW link \in BOOLEAN, NEW r, r = Request(op, n, link)
    PROVE  /\ r = [f \in Fields |-> r[f]]
           /\ r.op = op
           /\ r.todo = Handler(op)
           /\ r.got = NoRequest.got
           /\ r.raced = {}
  BY NoRequestFields DEF Request, Fields

LEMMA RequestNumber ==
    ASSUME NEW op \in PageOps \cup {"retry"}, NEW n \in Nat,
           NEW link \in BOOLEAN, NEW r, r = Request(op, n, link)
    PROVE  r.n = n
  BY NoRequestFields DEF Request, Fields

LEMMA RequestFlags ==
    ASSUME NEW op \in PageOps \cup {"retry"}, NEW n \in Nat,
           NEW link \in BOOLEAN, NEW r, r = Request(op, n, link)
    PROVE  r.link = link /\ r.failed = FALSE /\ r.gone = FALSE /\ r.live = TRUE
  BY NoRequestFields DEF Request, Fields

LEMMA RequestDue ==
    ASSUME NEW op \in PageOps \cup {"retry"}, NEW n \in Nat,
           NEW link \in BOOLEAN, NEW r, r = Request(op, n, link)
    PROVE  /\ op \in {"sync", "status"} => r.due = Unsettled
           /\ op \notin {"sync", "status"} => r.due = {}
  BY NoRequestFields DEF Request, Fields

\* A handler begins with all of its statements.
LEMMA HandlerRests ==
    ASSUME NEW op \in PageOps \cup {"retry"}
    PROVE  Handler(op) \in Rests(op)
  BY DEF PageOps, Handler, Rests, Tables, StripeTables, Listing, Dashboard,
         SyncPage, RetryPendingVoucher, Settings, RenderSyncStatus

\* The statement a handler has next, and the ones after it.
LEMMA TodoFacts ==
    ASSUME NEW op \in PageOps \cup {"retry", "none"}, NEW todo \in Rests(op),
           todo # <<>>
    PROVE  /\ Head(todo) \in Statements
           /\ Tail(todo) \in Rests(op)
           /\ Head(todo) \in {"rows", "count"} <=> op \in Tables
  <1> USE DEF Statements
  <1>1. CASE op \in Tables
    <2>0. Rests(op) = {<<"rows", "count">>,
                      <<"count">>,
                      <<>>}
      BY <1>1 DEF Rests, Tables, StripeTables
    <2>1. CASE todo = <<"rows", "count">>
      <3>1. Head(todo) = "rows" /\ Tail(todo) = <<"count">>
        BY <2>1
      <3> QED BY <2>0, <1>1, <3>1
    <2>2. CASE todo = <<"count">>
      <3>1. Head(todo) = "count" /\ Tail(todo) = <<>>
        BY <2>2
      <3> QED BY <2>0, <1>1, <3>1
    <2> QED BY <2>0, <2>1, <2>2
  <1>2. CASE op = "sync"
    <2>0. Rests(op) = {<<"charges", "payouts", "pending", "first">>,
                      <<"payouts", "pending", "first">>,
                      <<"pending", "first">>,
                      <<"first">>,
                      <<>>}
      BY <1>2 DEF Rests, Tables, StripeTables
    <2>10. op \notin Tables
      BY <1>2 DEF Tables, StripeTables
    <2>1. CASE todo = <<"charges", "payouts", "pending", "first">>
      <3>1. Head(todo) = "charges" /\ Tail(todo) = <<"payouts", "pending", "first">>
        BY <2>1
      <3> QED BY <2>0, <2>10, <3>1
    <2>2. CASE todo = <<"payouts", "pending", "first">>
      <3>1. Head(todo) = "payouts" /\ Tail(todo) = <<"pending", "first">>
        BY <2>2
      <3> QED BY <2>0, <2>10, <3>1
    <2>3. CASE todo = <<"pending", "first">>
      <3>1. Head(todo) = "pending" /\ Tail(todo) = <<"first">>
        BY <2>3
      <3> QED BY <2>0, <2>10, <3>1
    <2>4. CASE todo = <<"first">>
      <3>1. Head(todo) = "first" /\ Tail(todo) = <<>>
        BY <2>4
      <3> QED BY <2>0, <2>10, <3>1
    <2> QED BY <2>0, <2>1, <2>2, <2>3, <2>4
  <1>3. CASE op = "status"
    <2>0. Rests(op) = {<<"charges", "payouts", "pending", "first", "date">>,
                      <<"payouts", "pending", "first", "date">>,
                      <<"pending", "first", "date">>,
                      <<"first", "date">>,
                      <<"date">>,
                      <<>>}
      BY <1>3 DEF Rests, Tables, StripeTables
    <2>10. op \notin Tables
      BY <1>3 DEF Tables, StripeTables
    <2>1. CASE todo = <<"charges", "payouts", "pending", "first", "date">>
      <3>1. Head(todo) = "charges" /\ Tail(todo) = <<"payouts", "pending", "first", "date">>
        BY <2>1
      <3> QED BY <2>0, <2>10, <3>1
    <2>2. CASE todo = <<"payouts", "pending", "first", "date">>
      <3>1. Head(todo) = "payouts" /\ Tail(todo) = <<"pending", "first", "date">>
        BY <2>2
      <3> QED BY <2>0, <2>10, <3>1
    <2>3. CASE todo = <<"pending", "first", "date">>
      <3>1. Head(todo) = "pending" /\ Tail(todo) = <<"first", "date">>
        BY <2>3
      <3> QED BY <2>0, <2>10, <3>1
    <2>4. CASE todo = <<"first", "date">>
      <3>1. Head(todo) = "first" /\ Tail(todo) = <<"date">>
        BY <2>4
      <3> QED BY <2>0, <2>10, <3>1
    <2>5. CASE todo = <<"date">>
      <3>1. Head(todo) = "date" /\ Tail(todo) = <<>>
        BY <2>5
      <3> QED BY <2>0, <2>10, <3>1
    <2> QED BY <2>0, <2>1, <2>2, <2>3, <2>4, <2>5
  <1>4. CASE op = "dashboard"
    <2>0. Rests(op) = {<<"charges", "payouts">>,
                      <<"payouts">>,
                      <<>>}
      BY <1>4 DEF Rests, Tables, StripeTables
    <2>10. op \notin Tables
      BY <1>4 DEF Tables, StripeTables
    <2>1. CASE todo = <<"charges", "payouts">>
      <3>1. Head(todo) = "charges" /\ Tail(todo) = <<"payouts">>
        BY <2>1
      <3> QED BY <2>0, <2>10, <3>1
    <2>2. CASE todo = <<"payouts">>
      <3>1. Head(todo) = "payouts" /\ Tail(todo) = <<>>
        BY <2>2
      <3> QED BY <2>0, <2>10, <3>1
    <2> QED BY <2>0, <2>1, <2>2
  <1>5. CASE op = "retry"
    <2>0. Rests(op) = {<<"pending">>,
                      <<>>}
      BY <1>5 DEF Rests, Tables, StripeTables
    <2>10. op \notin Tables
      BY <1>5 DEF Tables, StripeTables
    <2>1. CASE todo = <<"pending">>
      <3>1. Head(todo) = "pending" /\ Tail(todo) = <<>>
        BY <2>1
      <3> QED BY <2>0, <2>10, <3>1
    <2> QED BY <2>0, <2>1
  <1>6. CASE op \in {"settings", "none"}
    <2>1. Rests(op) = {<<>>}
      BY <1>6 DEF Rests, Tables, StripeTables
    <2> QED BY <2>1
  <1> QED BY <1>1, <1>2, <1>3, <1>4, <1>5, <1>6 DEF PageOps

\* The tables are finite sets of times.
LEMMA TableFacts ==
    ASSUME TypeInv, NEW t \in Tables
    PROVE  /\ Table(t) \in SUBSET Nat /\ Table(t) \subseteq pulled
           /\ IsFiniteSet(Table(t))
           /\ Cardinality(Table(t)) \in Nat
  <1>1. pulled \in SUBSET Nat /\ IsFiniteSet(pulled) /\ vouchers \subseteq pulled
    BY RowsAssumption DEF TypeInv, TypeOK, TablesInv
  <1>2. Table(t) \subseteq pulled
    BY <1>1 DEF Table
  <1>3. IsFiniteSet(Table(t))
    BY <1>1, <1>2, FS_Subset
  <1> QED BY <1>1, <1>2, <1>3, FS_CardinalityType

\* A page of vouchers is no longer than a page.
LEMMA AnyOrderSize ==
    ASSUME NEW S, IsFiniteSet(S), NEW o \in Nat, NEW N \in AnyOrder(S, o)
    PROVE  N \subseteq S /\ Cardinality(N) <= PageSize
  <1>1. PageSize \in Nat /\ Cardinality(S) \in Nat
    BY RowsAssumption, FS_CardinalityType
  <1> DEFINE a == Cardinality(S) - o
             m == Min({a, PageSize})
  <1>2. m \in {a, PageSize} /\ m <= PageSize
    <2>1. \E x \in {a, PageSize} : \A y \in {a, PageSize} : x <= y
      BY <1>1
    <2> QED BY <1>1, <2>1 DEF Min
  <1>3. m \in Int
    BY <1>1, <1>2
  <1> HIDE DEF m
  <1>4. Max({0, m}) \in {0, m}
    <2>1. \E x \in {0, m} : \A y \in {0, m} : x >= y
      BY <1>3
    <2> QED BY <2>1 DEF Max
  <1>5. Max({0, m}) <= PageSize
    BY <1>1, <1>2, <1>4
  <1>6. N \in {s \in SUBSET S : Cardinality(s) = Max({0, m})}
    BY DEF AnyOrder, kSubset, m
  <1> QED BY <1>5, <1>6

\* What the statements find.
LEMMA ResultType ==
    ASSUME TypeInv, NEW q, ReqType(q),
           NEW s \in Statements, NEW result \in Results(q, s),
           s \in {"rows", "count"} <=> q.op \in Tables
    PROVE  /\ s = "rows" => /\ result \subseteq pulled
                            /\ Cardinality(result) <= PageSize
           /\ s = "count" => result \in Nat
           /\ s \in {"charges", "payouts"} => result \subseteq pulled
           /\ s = "pending" => result \subseteq Table("payouts") \cap Ready
           /\ s \in {"first", "date"} => result \in BOOLEAN
  <1>1. CASE s = "rows"
    <2>1. q.op \in Tables /\ q.n \in Nat \ {0}
      BY <1>1 DEF ReqType
    <2>2. PICK o \in Nat : o = Offset(q.n)
      BY <2>1, RowsAssumption DEF Offset
    <2>3. CASE q.op = "vouchers"
      <3>1. result \in AnyOrder(vouchers, o)
        BY <1>1, <2>2, <2>3 DEF Results
      <3>2. IsFiniteSet(vouchers) /\ vouchers \subseteq pulled
        BY TableFacts DEF Table, Tables, TypeInv, TypeOK
      <3> QED BY <1>1, <3>1, <3>2, AnyOrderSize
    <2>4. CASE q.op # "vouchers"
      <3>1. result = Newest(Table(q.op), o)
        BY <1>1, <2>2, <2>4 DEF Results
      <3> QED BY <1>1, <2>1, <3>1, TableFacts, NewestSize
    <2> QED BY <2>3, <2>4
  <1>2. CASE s = "count"
    BY <1>2, TableFacts DEF Results
  <1>3. CASE s = "charges"
    BY <1>3 DEF Results, UnsyncedCharges, Table
  <1>4. CASE s = "payouts"
    BY <1>4 DEF Results, UnsyncedPayouts, Table
  <1>5. CASE s = "pending"
    <2>1. result \subseteq PendingVouchers
      BY <1>5 DEF Results
    <2> QED BY <1>5, <2>1 DEF PendingVouchers, TypeInv, TablesInv
  <1>6. CASE s = "first"
    BY <1>6 DEF Results
  <1>7. CASE s = "date"
    BY <1>7 DEF Results, TypeInv, TypeOK
  <1> QED BY <1>1, <1>2, <1>3, <1>4, <1>5, <1>6, <1>7 DEF Statements

-----------------------------------------------------------------------------
(* Type correctness *)

PageType(p) ==
    /\ p.kind \in Tables \cup {"login", "sync", "dashboard", "settings"}
    /\ p.n \in Nat \ {0}
    /\ p.shown \subseteq pulled /\ p.pending \subseteq pulled
    /\ p.kind \in Tables => Cardinality(p.shown) <= PageSize
    /\ p.next => p.kind \in Tables

TablesType ==
    /\ pulled \subseteq Rows /\ invoiced \subseteq Ready
    /\ confirmed \subseteq vouchers /\ vouchers \subseteq pulled
    /\ IsFiniteSet(pulled)
    /\ vouchers \subseteq Table("payouts") \cap Ready

\* What is due is unsettled.
DueIn(R, S) == \A c \in Conns : R[c].due \subseteq S

LEMMA TypeInvParts ==
    TypeInv <=> /\ TablesType
                /\ dated \in BOOLEAN
                /\ PageType(page)
                /\ Reqs(req) /\ DueIn(req, Unsettled)
                /\ owed \subseteq pulled
                /\ faults \in 0..MaxFaults
  <1>1. Reqs(req) => DOMAIN req = Conns
    BY DEF Reqs
  <1> QED BY <1>1 DEF TypeInv, TypeOK, TablesInv, TablesType, PageType, DueIn

LEMMA TypeInvPartsNext ==
    ASSUME TablesType', dated' \in BOOLEAN, PageType(page)', Reqs(req)',
           DueIn(req, Unsettled)', (owed \subseteq pulled)',
           (faults \in 0..MaxFaults)'
    PROVE  TypeInv'
  <1>1. (DOMAIN req = Conns)'
    BY DEF Reqs
  <1> QED BY <1>1 DEF TypeInv, TypeOK, TablesInv, TablesType, PageType, DueIn

LEMMA TablesSame ==
    ASSUME UNCHANGED tableVars
    PROVE  /\ Unsettled' = Unsettled
           /\ TablesType => TablesType'
           /\ UNCHANGED pulled
           /\ \A t : Table(t)' = Table(t)
  BY DEF tableVars, Unsettled, UnsyncedCharges, UnsyncedPayouts,
         PendingVouchers, Table, TablesType

LEMMA BlankFields ==
    ASSUME NEW kind
    PROVE  /\ Blank(kind).kind = kind
           /\ Blank(kind).n = 1
           /\ Blank(kind).shown = {}
           /\ Blank(kind).pending = {}
           /\ Blank(kind).next = FALSE
           /\ Blank(kind).hint = FALSE
  BY DEF Blank

LEMMA BlankType ==
    ASSUME NEW kind \in Tables \cup {"login", "sync", "dashboard", "settings"}
    PROVE  PageType(Blank(kind))
  <1>1. Cardinality({}) <= PageSize
    BY FS_EmptySet, RowsAssumption
  <1>2. PICK p : p = Blank(kind)
    OBVIOUS
  <1>3. p.kind = kind /\ p.shown = {} /\ p.pending = {}
    BY <1>2, BlankFields
  <1>4. p.n \in Nat \ {0}
    BY <1>2 DEF Blank
  <1>5. ~p.next
    BY <1>2 DEF Blank
  <1>6. PageType(p)
    BY <1>1, <1>3, <1>4, <1>5 DEF PageType
  <1> QED BY <1>2, <1>6

LEMMA ReqSame ==
    ASSUME NEW R, Reqs(R), pulled \subseteq pulled', req' = R
    PROVE  Reqs(req)'
  <1>1. ASSUME NEW r, ReqType(r)
        PROVE  ReqType(r)'
    BY <1>1 DEF ReqType, GotType, Table
  <1>2. R = [c \in Conns |-> R[c]] /\ \A c \in Conns : ReqType(R[c])
    BY DEF Reqs
  <1>3. \A c \in Conns : ReqType(R[c])'
    BY <1>1, <1>2
  <1>4. Reqs(R)'
    BY <1>2, <1>3 DEF Reqs
  <1> QED BY <1>4

\* A step that leaves the tables alone.
LEMMA StepType ==
    ASSUME TypeInv, UNCHANGED tableVars, dated' \in BOOLEAN,
           NEW p, PageType(p), page' = p,
           NEW R, Reqs(R), DueIn(R, Unsettled), req' = R,
           owed' \subseteq pulled, faults' \in 0..MaxFaults
    PROVE  TypeInv'
  <1>1. TablesType' /\ Unsettled' = Unsettled /\ UNCHANGED pulled
    BY TablesSame, TypeInvParts
  <1>2. Reqs(req)'
    BY <1>1, ReqSame
  <1>3. DueIn(req, Unsettled)'
    BY <1>1 DEF DueIn
  <1>4. PageType(page)'
    BY <1>1 DEF PageType
  <1>5. (owed \subseteq pulled)'
    BY <1>1
  <1> QED BY <1>1, <1>2, <1>3, <1>4, <1>5, TypeInvPartsNext

LEMMA RequestType ==
    ASSUME NEW op \in PageOps \cup {"retry"}, NEW n \in Nat,
           op \in Tables => n > 0, NEW link \in BOOLEAN
    PROVE  ReqType(Request(op, n, link))
  <1>0. PICK r : r = Request(op, n, link)
    OBVIOUS
  <1>a. /\ r = [f \in Fields |-> r[f]] /\ r.op = op
        /\ r.todo = Handler(op) /\ r.got = NoRequest.got
    BY <1>0, RequestFields
  <1>b. r.n = n
    BY <1>0, RequestNumber
  <1>1. r.link \in BOOLEAN /\ r.gone \in BOOLEAN /\ r.live \in BOOLEAN
    BY <1>0, RequestFlags
  <1>2. r.failed \in BOOLEAN
    BY <1>0, RequestFlags
  <1>3. r.todo \in Rests(op)
    BY <1>a, HandlerRests
  <1>4. GotType(r.got)
    BY <1>a, NoRequestFields
  <1>5. Cardinality(r.got["rows"]) <= PageSize
    <2>1. r.got["rows"] = {}
      BY <1>a, NoRequestFields
    <2> QED BY <2>1, FS_EmptySet, RowsAssumption
  <1>6. ReqType(r)
    BY <1>a, <1>b, <1>1, <1>2, <1>3, <1>4, <1>5, Zenon DEF ReqType
  <1> QED BY <1>0, <1>6

LEMMA NoRequestType == ReqType(NoRequest)
  <1> DEFINE r == NoRequest
  <1>1. r = [f \in Fields |-> r[f]] /\ r.op = "none" /\ r.n \in Nat
    BY NoRequestFields
  <1>2. r.link \in BOOLEAN /\ r.failed \in BOOLEAN
        /\ r.gone \in BOOLEAN /\ r.live \in BOOLEAN
    BY NoRequestFields
  <1>3. r.todo \in Rests("none") /\ "none" \notin Tables
    BY NoRequestFields DEF Rests, Tables, StripeTables
  <1>4. GotType(r.got)
    BY NoRequestFields
  <1> HIDE DEF r
  <1>5. ReqType(r)
    BY <1>1, <1>2, <1>3, <1>4, Zenon DEF ReqType
  <1> QED BY <1>5 DEF r

\* Changes of what is due, of what was deleted, and of what waits.
LEMMA DueType ==
    ASSUME NEW r, ReqType(r), NEW d, NEW q, q = [r EXCEPT !.due = d]
    PROVE  /\ ReqType(q) /\ q.due = d
           /\ q.op = r.op /\ q.n = r.n /\ q.link = r.link /\ q.todo = r.todo
           /\ q.got = r.got /\ q.failed = r.failed /\ q.raced = r.raced
           /\ q.gone = r.gone /\ q.live = r.live
  <1>1. r = [f \in Fields |-> r[f]]
    BY DEF ReqType
  <1>2. /\ q = [f \in Fields |-> q[f]]
        /\ q.op = r.op /\ q.n = r.n /\ q.link = r.link
        /\ q.todo = r.todo /\ q.got = r.got
        /\ q.failed = r.failed /\ q.raced = r.raced
        /\ q.gone = r.gone /\ q.live = r.live
    BY <1>1 DEF Fields
  <1>3. q.due = d
    BY <1>1 DEF Fields
  <1>4. ReqType(q)
    BY <1>2, Zenon DEF ReqType
  <1> QED BY <1>2, <1>3, <1>4

LEMMA DeadType ==
    ASSUME NEW r, ReqType(r), NEW l \in BOOLEAN, NEW q, q = [r EXCEPT !.live = l]
    PROVE  ReqType(q) /\ q.live = l /\ q.op = r.op /\ q.due = r.due
  <1>1. r = [f \in Fields |-> r[f]]
    BY DEF ReqType
  <1>2. /\ q = [f \in Fields |-> q[f]]
        /\ q.op = r.op /\ q.n = r.n /\ q.link = r.link
        /\ q.todo = r.todo /\ q.got = r.got
        /\ q.failed = r.failed /\ q.due = r.due
        /\ q.gone = r.gone
    BY <1>1 DEF Fields
  <1>3. q.live = l
    BY <1>1 DEF Fields
  <1>4. ReqType(q)
    BY <1>2, <1>3, Zenon DEF ReqType
  <1> QED BY <1>2, <1>3, <1>4

\* What is left of the requests when the tab shows another page.
LEMMA AbandonedFields ==
    ASSUME NEW c \in Conns, ReqType(req[c])
    PROVE  /\ ReqType(Abandoned[c])
           /\ Abandoned[c].due \subseteq req[c].due
           /\ Abandoned[c].op \in {"none", "retry"}
           /\ Abandoned[c].op = "retry" => req[c].op = "retry" /\ ~Abandoned[c].live
  <1>1. PICK r, q : r = req[c] /\ q = Abandoned[c]
    OBVIOUS
  <1>2. CASE r.op = "retry"
    <2>1. PICK l \in BOOLEAN : l = FALSE
      OBVIOUS
    <2>2. q = [r EXCEPT !.live = FALSE]
      BY <1>1, <1>2 DEF Abandoned
    <2>3. q = [r EXCEPT !.live = l]
      BY <2>1, <2>2
    <2>5. ReqType(q) /\ q.live = l /\ q.op = r.op /\ q.due = r.due
      BY <1>1, <2>3, DeadType
    <2> QED BY <1>1, <1>2, <2>1, <2>5
  <1>3. CASE r.op # "retry"
    <2>1. q = NoRequest
      BY <1>1, <1>3 DEF Abandoned
    <2> QED BY <1>1, <2>1, NoRequestType, NoRequestFields
  <1> QED BY <1>1, <1>2, <1>3

LEMMA AbandonedType ==
    ASSUME Reqs(req), NEW S, DueIn(req, S)
    PROVE  Reqs(Abandoned) /\ DueIn(Abandoned, S)
  <1>1. Abandoned = [c \in Conns |-> Abandoned[c]]
    BY DEF Abandoned
  <1>2. \A c \in Conns : ReqType(Abandoned[c]) /\ Abandoned[c].due \subseteq req[c].due
    BY AbandonedFields DEF Reqs
  <1> QED BY <1>1, <1>2 DEF Reqs, DueIn

\* One request in place of another.
LEMMA PutType ==
    ASSUME NEW R, Reqs(R), NEW S, DueIn(R, S), NEW c \in Conns,
           NEW q, ReqType(q), q.due \subseteq S
    PROVE  Reqs([R EXCEPT ![c] = q]) /\ DueIn([R EXCEPT ![c] = q], S)
  <1>1. PICK Q : Q = [R EXCEPT ![c] = q]
    OBVIOUS
  <1>2. R = [d \in Conns |-> R[d]]
    BY DEF Reqs
  <1>3. Q = [d \in Conns |-> Q[d]]
    BY <1>1, <1>2
  <1>4. ASSUME NEW d \in Conns
        PROVE  ReqType(Q[d]) /\ Q[d].due \subseteq S
    <2>1. Q[d] = IF d = c THEN q ELSE R[d]
      BY <1>1, <1>2
    <2>2. ReqType(R[d]) /\ R[d].due \subseteq S
      BY DEF Reqs, DueIn
    <2> QED BY <2>1, <2>2
  <1> QED BY <1>1, <1>3, <1>4 DEF Reqs, DueIn

LEMMA NoneType ==
    /\ Reqs([c \in Conns |-> NoRequest])
    /\ \A S : DueIn([c \in Conns |-> NoRequest], S)
  <1>1. PICK R : R = [c \in Conns |-> NoRequest]
    OBVIOUS
  <1>2. \A c \in Conns : R[c] = NoRequest
    BY <1>1
  <1>3. R = [c \in Conns |-> R[c]]
    BY <1>1
  <1> QED BY <1>1, <1>2, <1>3, NoRequestType, NoRequestFields DEF Reqs, DueIn

\* What RequireAuth does.
LEMMA RequireAuthType ==
    ASSUME TypeInv, NEW c \in Conns, NEW q, ReqType(q), q.due \subseteq Unsettled,
           RequireAuth(c, q), owed' \in {owed, {}}
    PROVE  TypeInv'
  <1>1. UNCHANGED <<tableVars, dated, faults>>
    BY DEF RequireAuth
  <1>2. /\ PageType(page) /\ Reqs(req) /\ DueIn(req, Unsettled)
        /\ dated' \in BOOLEAN /\ owed' \subseteq pulled /\ faults' \in 0..MaxFaults
    BY <1>1, TypeInvParts
  <1>3. CASE req' = [req EXCEPT ![c] = q] /\ UNCHANGED page
    <2>1. PICK R, p : R = req' /\ p = page'
      OBVIOUS
    <2>2. Reqs(R) /\ DueIn(R, Unsettled)
      BY <1>2, <1>3, <2>1, PutType
    <2> QED BY <1>1, <1>2, <1>3, <2>1, <2>2, StepType
  <1>4. CASE req' = Abandoned /\ page' = Blank("login")
    <2>1. PICK R, p : R = req' /\ p = page'
      OBVIOUS
    <2>2. Reqs(R) /\ DueIn(R, Unsettled)
      BY <1>2, <1>4, <2>1, AbandonedType
    <2>3. PageType(p)
      BY <1>4, <2>1, BlankType
    <2> QED BY <1>1, <1>2, <2>1, <2>2, <2>3, StepType
  <1> QED BY <1>3, <1>4 DEF RequireAuth

\* A request that is asked for and nothing else.
LEMMA AskType ==
    ASSUME TypeInv, NEW c \in Conns, NEW op \in PageOps \cup {"retry"},
           NEW n \in Nat, op \in Tables => n > 0, NEW link \in BOOLEAN,
           RequireAuth(c, Request(op, n, link)), owed' \in {owed, {}}
    PROVE  TypeInv'
  <1>1. PICK q : q = Request(op, n, link)
    OBVIOUS
  <1>2. ReqType(q) /\ q.due \subseteq Unsettled
    BY <1>1, RequestType, RequestDue
  <1> QED BY <1>1, <1>2, RequireAuthType

LEMMA ConnsFacts == "link" \in Conns /\ "poll" \in Conns
                    /\ Buttons \subseteq Conns /\ Tabs \subseteq Conns
  BY DEF Conns

LEMMA NavigateType ==
    ASSUME TypeInv, NEW op \in PageOps, NEW n \in Nat \ {0},
           NEW link \in BOOLEAN, Navigate(op, n, link)
    PROVE  TypeInv'
  <1>1. RequireAuth("link", Request(op, n, link)) /\ owed' \in {owed, {}}
    BY DEF Navigate
  <1> QED BY <1>1, AskType, ConnsFacts

\* The retry's request.
LEMMA RetryFields ==
    ASSUME NEW p \in Rows, NEW gone \in BOOLEAN, NEW live \in BOOLEAN,
           NEW q, q = [Request("retry", p, FALSE) EXCEPT !.gone = gone, !.live = live]
    PROVE  /\ ReqType(q) /\ q.due = {} /\ q.op = "retry" /\ q.live = live
  <1>1. PICK op \in {"retry"}, link \in BOOLEAN : op = "retry" /\ link = FALSE
    OBVIOUS
  <1>2. PICK r : r = Request(op, p, link)
    OBVIOUS
  <1>3. p \in Nat /\ op \notin Tables
    BY <1>1, RowsAssumption DEF Tables, StripeTables
  <1>4. ReqType(r) /\ r.due = {} /\ r.op = op
    BY <1>1, <1>2, <1>3, RequestType, RequestDue, RequestFields
  <1>5. q = [r EXCEPT !.gone = gone, !.live = live]
    BY <1>1, <1>2, Zenon
  <1>6. r = [f \in Fields |-> r[f]]
    BY <1>4 DEF ReqType
  <1>7. /\ q = [f \in Fields |-> q[f]]
        /\ q.op = r.op /\ q.n = r.n /\ q.link = r.link
        /\ q.todo = r.todo /\ q.got = r.got
        /\ q.failed = r.failed /\ q.due = r.due
    BY <1>5, <1>6 DEF Fields
  <1>8. q.live = live /\ q.gone = gone
    BY <1>5, <1>6 DEF Fields
  <1>9. ReqType(q)
    BY <1>4, <1>7, <1>8, Zenon DEF ReqType
  <1> QED BY <1>1, <1>4, <1>7, <1>8, <1>9

\* A retry that is asked for.
LEMMA RetrySplits ==
    ASSUME NEW c, NEW p \in Rows, Retry(c, p)
    PROVE  \E q : /\ ReqType(q) /\ q.due = {} /\ q.op = "retry"
                  /\ (q.live <=> c \in Buttons)
                  /\ RequireAuth(c, q)
  <1>1. PICK gone \in BOOLEAN :
            RequireAuth(c, [Request("retry", p, FALSE) EXCEPT
                                !.gone = gone, !.live = (c \in Buttons)])
    BY DEF Retry
  <1> DEFINE live == c \in Buttons
  <1>a. live \in BOOLEAN
    BY SMT
  <1>b. live <=> c \in Buttons
    OBVIOUS
  <1>2. live \in BOOLEAN /\ (live <=> c \in Buttons)
    BY <1>a, <1>b, Zenon
  <1>3. RequireAuth(c, [Request("retry", p, FALSE) EXCEPT
                            !.gone = gone, !.live = live])
    BY <1>1, Zenon
  <1> HIDE DEF live
  <1>4. PICK q : q = [Request("retry", p, FALSE) EXCEPT
                         !.gone = gone, !.live = live]
    OBVIOUS
  <1>5. RequireAuth(c, q)
    BY <1>3, <1>4, Zenon
  <1>6. ReqType(q) /\ q.due = {} /\ q.op = "retry" /\ q.live = live
    BY <1>2, <1>4, RetryFields
  <1>7. q.live <=> c \in Buttons
    BY <1>2, <1>6, Zenon
  <1> QED BY <1>5, <1>6, <1>7, Zenon

LEMMA ClickType ==
    ASSUME TypeInv, Click \/ SyncStatus
    PROVE  TypeInv'
  <1>0. /\ page.kind \in Tables \cup {"login", "sync", "dashboard", "settings"}
        /\ page.n \in Nat \ {0}
        /\ Reqs(req) /\ DueIn(req, Unsettled) /\ PageType(page)
    BY TypeInvParts DEF TypeInv, TypeOK
  <1>f. PICK false \in BOOLEAN : false = FALSE
    OBVIOUS
  <1>t. PICK true \in BOOLEAN : true = TRUE
    OBVIOUS
  <1>o. PICK one \in Nat \ {0} : one = 1
    OBVIOUS
  <1>1. ASSUME NEW op \in Tables \cup {"sync", "dashboard", "settings"}, Open(op)
        PROVE  TypeInv'
    <2>1. op \in PageOps
      BY DEF PageOps
    <2>2. Navigate(op, one, false)
      BY <1>1, <1>f, <1>o, Zenon DEF Open
    <2> QED BY <2>1, <2>2, NavigateType
  <1>2. ASSUME NextPage PROVE TypeInv'
    <2>1. page.next /\ Navigate(page.kind, page.n + 1, TRUE)
      BY <1>2, Zenon DEF NextPage
    <2>2. PICK op \in Tables : op = page.kind
      BY <2>1 DEF TypeInv, TablesInv
    <2>3. PICK n \in Nat \ {0} : n = page.n + 1
      BY <1>0
    <2>4. Navigate(op, n, true)
      BY <1>t, <2>1, <2>2, <2>3, Zenon
    <2>5. op \in PageOps
      BY DEF PageOps
    <2> QED BY <2>4, <2>5, NavigateType
  <1>3. ASSUME PreviousPage PROVE TypeInv'
    <2>1. PICK op \in Tables : op = page.kind
      BY <1>3 DEF PreviousPage
    <2>2. PICK n \in Nat \ {0} : n = page.n - 1
      BY <1>0, <1>3 DEF PreviousPage
    <2>3. Navigate(page.kind, page.n - 1, FALSE)
      BY <1>3, Zenon DEF PreviousPage
    <2>4. Navigate(op, n, false)
      BY <1>f, <2>1, <2>2, <2>3, Zenon
    <2>5. op \in PageOps
      BY DEF PageOps
    <2> QED BY <2>4, <2>5, NavigateType
  <1>a. /\ "status" \in PageOps \cup {"retry"} /\ "status" \notin Tables
        /\ "dashboard" \in PageOps \cup {"retry"} /\ "dashboard" \notin Tables
    BY DEF PageOps, Tables, StripeTables
  <1>s. PICK op \in PageOps \cup {"retry"} : op = "status" /\ op \notin Tables
    BY <1>a, Zenon
  <1>4. ASSUME NEW c \in Conns, RequireAuth(c, Request("status", 1, FALSE)),
               UNCHANGED owed
        PROVE  TypeInv'
    <2>1. RequireAuth(c, Request(op, one, false))
      BY <1>4, <1>f, <1>o, <1>s, Zenon
    <2> QED BY <1>4, <1>s, <2>1, AskType
  <1>5. ASSUME SyncStatus PROVE TypeInv'
    <2>1. RequireAuth("poll", Request("status", 1, FALSE)) /\ UNCHANGED owed
      BY <1>5, Zenon DEF SyncStatus
    <2> QED BY <1>4, <2>1, ConnsFacts
  <1>6. ASSUME NEW b \in Buttons, SyncFortnox(b) PROVE TypeInv'
    <2>1. RequireAuth(b, Request("status", 1, FALSE)) /\ UNCHANGED owed
      BY <1>6, Zenon DEF SyncFortnox
    <2> QED BY <1>4, <2>1, ConnsFacts
  <1>7. ASSUME NEW c \in Buttons \cup Tabs, NEW p \in Rows, Retry(c, p)
        PROVE  TypeInv'
    <2>1. PICK q : ReqType(q) /\ q.due = {} /\ RequireAuth(c, q)
      BY <1>7, RetrySplits
    <2>2. UNCHANGED owed
      BY <1>7 DEF Retry
    <2> QED BY <2>1, <2>2, RequireAuthType, ConnsFacts
  <1>8. ASSUME NEW b \in BOOLEAN, SaveSyncFromDate(b) PROVE TypeInv'
    <2>1. /\ UNCHANGED <<tableVars, faults>> /\ dated' \in BOOLEAN
          /\ owed' \subseteq pulled /\ faults' \in 0..MaxFaults
          /\ page' \in {page, Blank("login")}
          /\ req' = req \/ req' = Abandoned
      BY <1>8, TypeInvParts DEF SaveSyncFromDate
    <2>2. PICK R, p : R = req' /\ p = page'
      OBVIOUS
    <2>3. PageType(p)
      BY <1>0, <2>1, <2>2, BlankType
    <2>4. Reqs(R) /\ DueIn(R, Unsettled)
      BY <1>0, <2>1, <2>2, AbandonedType
    <2> QED BY <2>1, <2>2, <2>3, <2>4, StepType
  <1>9. ASSUME LoginPost PROVE TypeInv'
    <2>1. PICK d \in PageOps \cup {"retry"} : d = "dashboard" /\ d \notin Tables
      BY <1>a, Zenon
    <2>2. PICK q : q = Request(d, one, false)
      OBVIOUS
    <2>3. ReqType(q) /\ q.due = {}
      BY <2>1, <2>2, RequestType, RequestDue
    <2>4. PICK R, p : R = req' /\ p = page'
      OBVIOUS
    <2>5. /\ R = [req EXCEPT !["link"] = q] /\ p = page /\ owed' = {}
          /\ UNCHANGED <<tableVars, dated, faults>>
      BY <1>9, <1>f, <1>o, <2>1, <2>2, <2>4, Zenon DEF LoginPost
    <2>6. Reqs(R) /\ DueIn(R, Unsettled)
      BY <1>0, <2>3, <2>5, PutType, ConnsFacts
    <2>7. dated' \in BOOLEAN /\ faults' \in 0..MaxFaults
      BY <2>5, TypeInvParts
    <2> QED BY <1>0, <2>4, <2>5, <2>6, <2>7, StepType
  <1>10. ASSUME Logout PROVE TypeInv'
    <2>1. PICK R, p : R = req' /\ p = page'
      OBVIOUS
    <2>2. /\ R = Abandoned /\ p = Blank("login") /\ owed' = {}
          /\ UNCHANGED <<tableVars, dated, faults>>
      BY <1>10, <2>1 DEF Logout
    <2>3. Reqs(R) /\ DueIn(R, Unsettled) /\ PageType(p)
      BY <1>0, <2>2, AbandonedType, BlankType
    <2>4. dated' \in BOOLEAN /\ faults' \in 0..MaxFaults
      BY <2>2, TypeInvParts
    <2> QED BY <2>1, <2>2, <2>3, <2>4, StepType
  <1> QED BY <1>1, <1>2, <1>3, <1>5, <1>6, <1>7, <1>8, <1>9, <1>10,
             LinksAssumption, UserAssumption, Zenon DEF Click

\* One more result.
LEMMA GotUpdate ==
    ASSUME NEW g, GotType(g), NEW s \in Statements, NEW result,
           s = "rows" => result \subseteq pulled,
           s = "count" => result \in Nat,
           s \in {"charges", "payouts"} => result \subseteq pulled,
           s = "pending" => result \subseteq Table("payouts") \cap Ready,
           s \in {"first", "date"} => result \in BOOLEAN
    PROVE  GotType([g EXCEPT ![s] = result])
  <1>1. PICK h : h = [g EXCEPT ![s] = result]
    OBVIOUS
  <1>2. g = [t \in Statements |-> g[t]]
    BY DEF GotType
  <1>3. h = [t \in Statements |-> h[t]]
    BY <1>1, <1>2
  <1>4. \A t \in Statements : h[t] = IF t = s THEN result ELSE g[t]
    BY <1>1, <1>2
  <1>5. h["rows"] \subseteq pulled
    <2>1. h["rows"] = IF "rows" = s THEN result ELSE g["rows"]
      BY <1>4 DEF Statements
    <2> QED BY <2>1 DEF GotType
  <1>6. h["count"] \in Nat
    <2>1. h["count"] = IF "count" = s THEN result ELSE g["count"]
      BY <1>4 DEF Statements
    <2> QED BY <2>1 DEF GotType
  <1>7. h["charges"] \subseteq pulled
    <2>1. h["charges"] = IF "charges" = s THEN result ELSE g["charges"]
      BY <1>4 DEF Statements
    <2> QED BY <2>1 DEF GotType
  <1>8. h["payouts"] \subseteq pulled
    <2>1. h["payouts"] = IF "payouts" = s THEN result ELSE g["payouts"]
      BY <1>4 DEF Statements
    <2> QED BY <2>1 DEF GotType
  <1>9. h["pending"] \subseteq Table("payouts") \cap Ready
    <2>1. h["pending"] = IF "pending" = s THEN result ELSE g["pending"]
      BY <1>4 DEF Statements
    <2> QED BY <2>1 DEF GotType
  <1>10. h["first"] \in BOOLEAN
    <2>1. h["first"] = IF "first" = s THEN result ELSE g["first"]
      BY <1>4 DEF Statements
    <2> QED BY <2>1 DEF GotType
  <1>11. h["date"] \in BOOLEAN
    <2>1. h["date"] = IF "date" = s THEN result ELSE g["date"]
      BY <1>4 DEF Statements
    <2> QED BY <2>1 DEF GotType
  <1>12. GotType(h)
    BY <1>3, <1>5, <1>6, <1>7, <1>8, <1>9, <1>10, <1>11, Zenon DEF GotType
  <1> QED BY <1>1, <1>12

\* The two outcomes of Read.
Found(c, s, result) ==
    /\ s = Head(req[c].todo) /\ result \in Results(req[c], s)
    /\ req' = [req EXCEPT ![c] =
                  [[req[c] EXCEPT !.todo = Tail(req[c].todo)]
                      EXCEPT !.got = [req[c].got EXCEPT ![s] = result]]]
    /\ owed' = IF s = "rows" /\ req[c].op \in StripeTables
               THEN (IF req[c].n = 1 THEN Table(req[c].op) ELSE owed) \ result
               ELSE owed
    /\ UNCHANGED faults

ReadFailed(c) ==
    /\ faults < MaxFaults
    /\ faults' = faults + 1
    /\ req' = [req EXCEPT ![c] = [[req[c] EXCEPT !.todo = Tail(req[c].todo)]
                                     EXCEPT !.failed = TRUE]]
    /\ owed' = IF c = "link" THEN {} ELSE owed

LEMMA ReadSplits ==
    ASSUME NEW c, Read(c)
    PROVE  /\ req[c].todo # <<>>
           /\ ReadFailed(c) \/ \E result \in Results(req[c], Head(req[c].todo)) :
                                Found(c, Head(req[c].todo), result)
           /\ UNCHANGED <<tableVars, dated, page>>
  BY DEF Read, ReadFailed, Found

LEMMA FailedFields ==
    ASSUME NEW r, ReqType(r),
           NEW q, q = [[r EXCEPT !.todo = Tail(r.todo)] EXCEPT !.failed = TRUE]
    PROVE  /\ q = [f \in Fields |-> q[f]]
           /\ q.op = r.op /\ q.n = r.n /\ q.link = r.link
           /\ q.todo = Tail(r.todo) /\ q.got = r.got
           /\ q.failed = TRUE /\ q.due = r.due
           /\ q.gone = r.gone /\ q.live = r.live
  <1>1. r = [f \in Fields |-> r[f]]
    BY DEF ReqType
  <1>2. q.failed = TRUE
    BY <1>1 DEF Fields
  <1>3. /\ q = [f \in Fields |-> q[f]]
        /\ q.op = r.op /\ q.n = r.n /\ q.link = r.link
        /\ q.todo = Tail(r.todo) /\ q.got = r.got
        /\ q.due = r.due /\ q.gone = r.gone /\ q.live = r.live
    BY <1>1 DEF Fields
  <1> QED BY <1>2, <1>3

LEMMA ReadType ==
    ASSUME TypeInv, NEW c \in Conns, Read(c)
    PROVE  TypeInv'
  <1>1. PICK r : r = req[c]
    OBVIOUS
  <1>0. /\ r.todo # <<>>
        /\ ReadFailed(c) \/ \E result \in Results(r, Head(r.todo)) :
                             Found(c, Head(r.todo), result)
        /\ UNCHANGED <<tableVars, dated, page>>
    BY <1>1, ReadSplits
  <1>2. /\ PageType(page) /\ Reqs(req) /\ DueIn(req, Unsettled)
        /\ dated' \in BOOLEAN
    BY <1>0, TypeInvParts
  <1>3. ReqType(r) /\ r.due \subseteq Unsettled
    BY <1>1, <1>2 DEF Reqs, DueIn
  <1>4. /\ Head(r.todo) \in Statements
        /\ Tail(r.todo) \in Rests(r.op)
        /\ Head(r.todo) \in {"rows", "count"} <=> r.op \in Tables
    <2>1. r.op \in PageOps \cup {"retry", "none"} /\ r.todo \in Rests(r.op)
          /\ r.todo # <<>>
      BY <1>0, <1>3 DEF ReqType
    <2> QED BY <2>1, TodoFacts
  <1>5. ASSUME NEW q, ReqType(q), q.due = r.due, req' = [req EXCEPT ![c] = q],
               owed' \subseteq pulled, faults' \in 0..MaxFaults
        PROVE  TypeInv'
    <2>1. PICK R, p : R = req' /\ p = page'
      OBVIOUS
    <2>2. q.due \subseteq Unsettled
      BY <1>3, <1>5
    <2>3. Reqs(R) /\ DueIn(R, Unsettled)
      BY <1>2, <1>5, <2>1, <2>2, PutType
    <2> QED BY <1>0, <1>2, <1>5, <2>1, <2>3, StepType
  <1>6. ASSUME NEW s \in Statements, s = Head(r.todo),
               NEW result \in Results(r, s), Found(c, s, result)
        PROVE  TypeInv'
    <2>2. PICK g : g = [r.got EXCEPT ![s] = result]
      OBVIOUS
    <2>3. PICK q : q = [[r EXCEPT !.todo = Tail(r.todo)] EXCEPT !.got = g]
      OBVIOUS
    <2>4. req' = [req EXCEPT ![c] = q]
      BY <1>1, <1>6, <2>2, <2>3 DEF Found
    <2>5. r = [f \in Fields |-> r[f]] /\ r.got = [t \in Statements |-> r.got[t]]
      BY <1>3 DEF ReqType, GotType
    <2>a. \A t \in Statements : g[t] = IF t = s THEN result ELSE r.got[t]
      BY <2>2, <2>5
    <2>6. /\ q = [f \in Fields |-> q[f]]
          /\ q.op = r.op /\ q.n = r.n /\ q.link = r.link
          /\ q.todo = Tail(r.todo) /\ q.got = g
          /\ q.failed = r.failed /\ q.due = r.due
          /\ q.gone = r.gone /\ q.live = r.live
      BY <2>3, <2>5 DEF Fields
    <2>7. /\ s = "rows" => /\ result \subseteq pulled
                           /\ Cardinality(result) <= PageSize
          /\ s = "count" => result \in Nat
          /\ s \in {"charges", "payouts"} => result \subseteq pulled
          /\ s = "pending" => result \subseteq Table("payouts") \cap Ready
          /\ s \in {"first", "date"} => result \in BOOLEAN
      BY <1>3, <1>4, <1>6, ResultType
    <2>8. GotType(g)
      <3>1. GotType(r.got)
        BY <1>3 DEF ReqType
      <3> QED BY <2>2, <2>7, <3>1, GotUpdate
    <2>9. r.op \in Tables => Cardinality(g["rows"]) <= PageSize
      <3>1. r.op \in Tables => Cardinality(r.got["rows"]) <= PageSize
        BY <1>3 DEF ReqType
      <3>3. g["rows"] = IF "rows" = s THEN result ELSE r.got["rows"]
        BY <2>a DEF Statements
      <3> QED BY <2>7, <3>1, <3>3
    <2>10. ReqType(q)
      <3>1. q.op \in PageOps \cup {"retry", "none"}
        BY <1>3, <2>6 DEF ReqType
      <3>2. q.n \in Nat /\ (q.op \in Tables => q.n > 0)
        BY <1>3, <2>6 DEF ReqType
      <3>3. /\ q.link \in BOOLEAN /\ q.failed \in BOOLEAN
            /\ q.gone \in BOOLEAN /\ q.live \in BOOLEAN
        BY <1>3, <2>6, Zenon DEF ReqType
      <3>4. q.todo \in Rests(q.op)
        BY <1>4, <2>6
      <3>5. GotType(q.got)
        BY <2>6, <2>8
      <3>6. q.op \in Tables => Cardinality(q.got["rows"]) <= PageSize
        BY <2>6, <2>9
      <3> QED BY <2>6, <3>1, <3>2, <3>3, <3>4, <3>5, <3>6, Zenon DEF ReqType
    <2>13. owed' \subseteq pulled
      <3>1. r.op \in StripeTables => Table(r.op) \subseteq pulled
        BY TableFacts DEF Tables
      <3>2. owed \subseteq pulled
        BY TypeInvParts
      <3> QED BY <1>1, <1>6, <3>1, <3>2 DEF Found
    <2>14. faults' \in 0..MaxFaults
      BY <1>6, TypeInvParts DEF Found
    <2>15. q.due = r.due
      BY <2>6
    <2> QED BY <1>5, <2>4, <2>10, <2>13, <2>14, <2>15
  <1>7. ASSUME ReadFailed(c) PROVE TypeInv'
    <2>3. PICK q : q = [[r EXCEPT !.todo = Tail(r.todo)] EXCEPT !.failed = TRUE]
      OBVIOUS
    <2>4. req' = [req EXCEPT ![c] = q]
      BY <1>1, <1>7, <2>3 DEF ReadFailed
    <2>6. /\ q = [f \in Fields |-> q[f]]
          /\ q.op = r.op /\ q.n = r.n /\ q.link = r.link
          /\ q.todo = Tail(r.todo) /\ q.got = r.got
          /\ q.failed = TRUE /\ q.due = r.due
          /\ q.gone = r.gone /\ q.live = r.live
      BY <1>3, <2>3, FailedFields
    <2>10. ReqType(q)
      <3>1. q.op \in PageOps \cup {"retry", "none"}
        BY <1>3, <2>6 DEF ReqType
      <3>2. q.n \in Nat /\ (q.op \in Tables => q.n > 0)
        BY <1>3, <2>6 DEF ReqType
      <3>3. /\ q.link \in BOOLEAN /\ q.failed \in BOOLEAN
            /\ q.gone \in BOOLEAN /\ q.live \in BOOLEAN
        BY <1>3, <2>6, Zenon DEF ReqType
      <3>4. q.todo \in Rests(q.op)
        BY <1>4, <2>6
      <3>5. GotType(q.got)
        BY <1>3, <2>6 DEF ReqType
      <3>6. q.op \in Tables => Cardinality(q.got["rows"]) <= PageSize
        BY <1>3, <2>6 DEF ReqType
      <3> QED BY <2>6, <3>1, <3>2, <3>3, <3>4, <3>5, <3>6, Zenon DEF ReqType
    <2>13. owed' \subseteq pulled
      BY <1>7, TypeInvParts DEF ReadFailed
    <2>14. faults' \in 0..MaxFaults
      BY <1>7, TypeInvParts, FaultsAssumption DEF ReadFailed
    <2>15. q.due = r.due
      BY <2>6
    <2> QED BY <1>5, <2>4, <2>10, <2>13, <2>14, <2>15
  <1> QED BY <1>0, <1>4, <1>6, <1>7

\* The pages the views make.
LEMMA ViewType ==
    ASSUME NEW r, ReqType(r),
           r.op \in Tables \cup {"dashboard", "sync", "status", "settings"}
    PROVE  PageType(View(r))
  <1>3. GotType(r.got)
    BY DEF ReqType
  <1>4. CASE r.op \in Tables
    <2>0. r.op \notin {"dashboard", "sync", "status", "settings"}
      BY <1>4 DEF Tables, StripeTables
    <2>1. View(r) = List(r)
      BY <1>4, <2>0 DEF View
    <2>2. PICK p : p = List(r)
      OBVIOUS
    <2>3. p.kind = r.op
      BY <2>2 DEF List, Blank
    <2>4. p.n = r.n
      BY <2>2 DEF List, Blank
    <2>5. p.shown = r.got["rows"] /\ p.pending = {}
      BY <2>2 DEF List, Blank
    <2>6. r.n \in Nat \ {0} /\ r.got["rows"] \subseteq pulled
          /\ Cardinality(r.got["rows"]) <= PageSize
      BY <1>3, <1>4 DEF ReqType, GotType
    <2> QED BY <1>4, <2>1, <2>2, <2>3, <2>4, <2>5, <2>6 DEF PageType
  <1>5. CASE r.op = "dashboard"
    <2>1. View(r) = DashboardView(r)
      BY <1>5 DEF View, Tables, StripeTables
    <2>2. PICK p : p = DashboardView(r)
      OBVIOUS
    <2>3. p.kind = "dashboard"
      BY <2>2 DEF DashboardView, Blank
    <2>4. p.n = 1
      BY <2>2 DEF DashboardView, Blank
    <2>5. p.shown = r.got["charges"] \cup r.got["payouts"] /\ p.pending = {}
      BY <2>2 DEF DashboardView, Blank
    <2>6. ~p.next
      BY <2>2 DEF DashboardView, Blank
    <2>7. "dashboard" \notin Tables
      BY DEF Tables, StripeTables
    <2> QED BY <1>3, <2>1, <2>2, <2>3, <2>4, <2>5, <2>6, <2>7
            DEF PageType, GotType
  <1>6. CASE r.op \in {"sync", "status"}
    <2>1. View(r) = SyncStatusSection(r)
      BY <1>6 DEF View, Tables, StripeTables
    <2>2. PICK p : p = SyncStatusSection(r)
      OBVIOUS
    <2>3. p.kind = "sync"
      BY <2>2 DEF SyncStatusSection, Blank
    <2>4. p.n = 1
      BY <2>2 DEF SyncStatusSection, Blank
    <2>5. p.shown = r.got["charges"] \cup r.got["payouts"]
          /\ p.pending = r.got["pending"]
      BY <2>2 DEF SyncStatusSection, Blank, NotSent, NotConfirmed,
         UnsyncedChargeList, UnsyncedPayoutList
    <2>6. ~p.next
      BY <2>2 DEF SyncStatusSection, Blank
    <2>7. "sync" \notin Tables
      BY DEF Tables, StripeTables
    <2>8. p.shown \subseteq pulled /\ p.pending \subseteq pulled
      BY <1>3, <2>5 DEF GotType, Table
    <2> QED BY <2>1, <2>2, <2>3, <2>4, <2>6, <2>7, <2>8 DEF PageType
  <1>7. CASE r.op = "settings"
    <2>1. View(r) = Blank("settings")
      BY <1>7 DEF View, Tables, StripeTables
    <2> QED BY <2>1, BlankType
  <1> QED BY <1>4, <1>5, <1>6, <1>7

LEMMA RenderType ==
    ASSUME TypeInv, NEW c \in Conns, Render(c)
    PROVE  TypeInv'
  <1>1. PICK R, p, r : R = req' /\ p = page' /\ r = req[c]
    OBVIOUS
  <1>2. /\ r.op \in Tables \cup {"dashboard", "sync", "status", "settings"}
        /\ p = View(r)
        /\ R = Abandoned \/ R = [Abandoned EXCEPT !["link"] = req["link"]]
             \/ R = [req EXCEPT ![c] = NoRequest]
        /\ UNCHANGED <<tableVars, dated, owed, faults>>
    BY <1>1 DEF Render, Awaits, Swap
  <1>3. /\ Reqs(req) /\ DueIn(req, Unsettled)
        /\ dated' \in BOOLEAN /\ owed' \subseteq pulled /\ faults' \in 0..MaxFaults
    BY <1>2, TypeInvParts
  <1>4. ReqType(r)
    BY <1>1, <1>3 DEF Reqs
  <1>5. PageType(p)
    BY <1>2, <1>4, ViewType
  <1>6. Reqs(Abandoned) /\ DueIn(Abandoned, Unsettled)
    BY <1>3, AbandonedType
  <1>7. ReqType(req["link"]) /\ req["link"].due \subseteq Unsettled
    BY <1>3, ConnsFacts DEF Reqs, DueIn
  <1>8. ReqType(NoRequest) /\ NoRequest.due \subseteq Unsettled
    BY NoRequestType, NoRequestFields
  <1>9. Reqs(R) /\ DueIn(R, Unsettled)
    <2>1. CASE R = Abandoned
      BY <1>6, <2>1
    <2>2. CASE R = [Abandoned EXCEPT !["link"] = req["link"]]
      <3>1. PICK l, A : l = req["link"] /\ A = Abandoned
        OBVIOUS
      <3>2. PICK k \in Conns : k = "link"
        BY ConnsFacts
      <3>3. R = [A EXCEPT ![k] = l]
        BY <2>2, <3>1, <3>2
      <3> QED BY <1>6, <1>7, <3>1, <3>3, PutType
    <2>3. CASE R = [req EXCEPT ![c] = NoRequest]
      BY <1>3, <1>8, <2>3, PutType
    <2> QED BY <1>2, <2>1, <2>2, <2>3
  <1> QED BY <1>1, <1>2, <1>3, <1>5, <1>9, StepType

LEMMA RestartType ==
    ASSUME TypeInv, Restart
    PROVE  TypeInv'
  <1>1. PICK R, p : R = req' /\ p = page'
    OBVIOUS
  <1>2. /\ owed' = {} /\ R = [c \in Conns |-> NoRequest] /\ p = page
        /\ faults < MaxFaults /\ faults' = faults + 1
        /\ UNCHANGED <<tableVars, dated>>
    BY <1>1 DEF Restart
  <1>3. PageType(p) /\ dated' \in BOOLEAN /\ faults' \in 0..MaxFaults
    BY <1>2, TypeInvParts, FaultsAssumption
  <1>4. Reqs(R) /\ DueIn(R, Unsettled)
    BY <1>2, NoneType
  <1> QED BY <1>1, <1>2, <1>3, <1>4, StepType

\* What other requests learn of a deleted row.
LEMMA DeletedFields ==
    ASSUME NEW p, NEW d \in Conns, ReqType(req[d]),
           NEW q, q = Deleted(p)[d]
    PROVE  /\ ReqType(q)
           /\ q.op = req[d].op /\ q.n = req[d].n /\ q.link = req[d].link
           /\ q.todo = req[d].todo /\ q.got = req[d].got
           /\ q.failed = req[d].failed /\ q.due = req[d].due
           /\ q.live = req[d].live
           /\ q.raced = req[d].raced \cup (req[d].due \cap {p})
  <1>1. PICK r : r = req[d]
    OBVIOUS
  <1>2. q = [r EXCEPT !.gone = r.gone \/ (r.op = "retry" /\ r.n = p),
                      !.raced = r.raced \cup (r.due \cap {p})]
    BY <1>1 DEF Deleted
  <1>3. PICK w : w = r.raced \cup (r.due \cap {p})
    OBVIOUS
  <1> DEFINE g == r.gone \/ (r.op = "retry" /\ r.n = p)
  <1>4. g \in BOOLEAN
    BY SMT
  <1>5. q = [r EXCEPT !.gone = g, !.raced = w]
    BY <1>2, <1>3, Zenon
  <1> HIDE DEF g
  <1>6. r = [f \in Fields |-> r[f]]
    BY <1>1 DEF ReqType
  <1>7. /\ q = [f \in Fields |-> q[f]]
        /\ q.op = r.op /\ q.n = r.n /\ q.link = r.link
        /\ q.todo = r.todo /\ q.got = r.got
        /\ q.failed = r.failed /\ q.due = r.due /\ q.live = r.live
    BY <1>5, <1>6 DEF Fields
  <1>8. q.raced = w
    BY <1>5, <1>6 DEF Fields
  <1>9. q.gone = g
    BY <1>5, <1>6 DEF Fields
  <1>10. q.gone \in BOOLEAN
    BY <1>4, <1>9
  <1>11. ReqType(q)
    BY <1>1, <1>7, <1>10, Zenon DEF ReqType
  <1> QED BY <1>1, <1>3, <1>7, <1>8, <1>11

\* The answer to a retry: an error, the sync page or its status.
Answer(q, a, due) ==
    \/ a = NoRequest
    \/ /\ q.live
       /\ \/ a = Request("sync", 1, FALSE) \/ a = Request("status", 1, FALSE)
          \/ a = [Request("status", 1, FALSE) EXCEPT !.due = due]

\* A retry that deletes nothing, and one that deletes its row.
Spares(c, a) ==
    /\ req' = [req EXCEPT ![c] = a]
    /\ UNCHANGED <<vouchers, confirmed>>
    /\ \/ UNCHANGED faults
       \/ faults < MaxFaults /\ faults' = faults + 1

Deletes(c, a) ==
    /\ req[c].n \in req[c].got["pending"]
    /\ vouchers' = vouchers \ {req[c].n}
    /\ confirmed' = confirmed \ {req[c].n}
    /\ req' = [Deleted(req[c].n) EXCEPT ![c] = a]
    /\ UNCHANGED faults

LEMMA DeleteSplits ==
    ASSUME NEW c, DeletePending(c)
    PROVE  /\ req[c].op = "retry"
           /\ UNCHANGED <<pulled, invoiced, dated, page, owed>>
           /\ \E a : \/ Spares(c, a) /\ Answer(req[c], a, Unsettled)
                     \/ Deletes(c, a)
                        /\ Answer(req[c], a, Unsettled \cup {req[c].n})
  <1>1. req[c].op = "retry" /\ UNCHANGED <<pulled, invoiced, dated, page, owed>>
    BY DEF DeletePending, Awaits
  <1>2. PICK q, s, t, u : /\ q = req[c] /\ s = Request("sync", 1, FALSE)
                          /\ t = Request("status", 1, FALSE)
                          /\ u = [Request("status", 1, FALSE) EXCEPT
                                    !.due = Unsettled \cup {req[c].n}]
    OBVIOUS
  <1>3. PICK x, y, z : /\ x = IF q.live THEN s ELSE NoRequest
                       /\ y = IF q.live THEN t ELSE NoRequest
                       /\ z = IF q.live THEN u ELSE NoRequest
    OBVIOUS
  <1>4. Spares(c, NoRequest) \/ Spares(c, x) \/ Spares(c, y) \/ Deletes(c, z)
    <2>1. \/ Spares(c, NoRequest)
          \/ Spares(c, IF req[c].live THEN Request("sync", 1, FALSE) ELSE NoRequest)
          \/ Spares(c, IF req[c].live THEN Request("status", 1, FALSE) ELSE NoRequest)
          \/ Deletes(c, IF req[c].live
                        THEN [Request("status", 1, FALSE) EXCEPT
                                !.due = Unsettled \cup {req[c].n}]
                        ELSE NoRequest)
      <3>1. \/ /\ req' = [req EXCEPT ![c] = NoRequest]
               /\ UNCHANGED <<vouchers, confirmed, faults>>
            \/ /\ req' = [req EXCEPT ![c] =
                             IF req[c].live THEN Request("sync", 1, FALSE)
                             ELSE NoRequest]
               /\ UNCHANGED <<vouchers, confirmed, faults>>
            \/ /\ req' = [req EXCEPT ![c] =
                             IF req[c].live THEN Request("status", 1, FALSE)
                             ELSE NoRequest]
               /\ UNCHANGED <<vouchers, confirmed, faults>>
            \/ /\ req[c].n \in req[c].got["pending"]
               /\ vouchers' = vouchers \ {req[c].n}
               /\ confirmed' = confirmed \ {req[c].n}
               /\ req' = [Deleted(req[c].n) EXCEPT ![c] =
                             IF req[c].live
                             THEN [Request("status", 1, FALSE) EXCEPT
                                     !.due = Unsettled \cup {req[c].n}]
                             ELSE NoRequest]
               /\ UNCHANGED faults
            \/ /\ faults < MaxFaults /\ faults' = faults + 1
               /\ req' = [req EXCEPT ![c] = NoRequest]
               /\ UNCHANGED <<vouchers, confirmed>>
        BY Zenon DEF DeletePending
      <3>2. ASSUME NEW a, req' = [req EXCEPT ![c] = a],
                   UNCHANGED <<vouchers, confirmed, faults>>
            PROVE  Spares(c, a)
        <4>1. UNCHANGED <<vouchers, confirmed>> /\ UNCHANGED faults
          BY <3>2
        <4> QED BY <3>2, <4>1, Zenon DEF Spares
      <3>3. ASSUME NEW a, req' = [req EXCEPT ![c] = a], faults < MaxFaults,
                   faults' = faults + 1, UNCHANGED <<vouchers, confirmed>>
            PROVE  Spares(c, a)
        BY <3>3 DEF Spares
      <3>4. ASSUME NEW a, req[c].n \in req[c].got["pending"],
                   vouchers' = vouchers \ {req[c].n},
                   confirmed' = confirmed \ {req[c].n},
                   req' = [Deleted(req[c].n) EXCEPT ![c] = a],
                   UNCHANGED faults
            PROVE  Deletes(c, a)
        BY <3>4, Zenon DEF Deletes
      <3> QED BY <3>1, <3>2, <3>3, <3>4, Zenon
    <2> QED BY <1>2, <1>3, <2>1, Zenon
  <1>5. /\ Answer(req[c], NoRequest, Unsettled) /\ Answer(req[c], x, Unsettled)
        /\ Answer(req[c], y, Unsettled)
        /\ Answer(req[c], z, Unsettled \cup {req[c].n})
    BY <1>2, <1>3, Zenon DEF Answer
  <1> QED BY <1>1, <1>4, <1>5, Zenon

LEMMA AnswerFields ==
    ASSUME NEW q, NEW S, Unsettled \subseteq S, NEW a, Answer(q, a, S)
    PROVE  /\ ReqType(a) /\ a.due \subseteq S
           /\ a.op \in {"none", "sync", "status"}
           /\ a.op # "none" => q.live /\ a.todo = Handler(a.op)
  <1>1. PICK one \in Nat \ {0} : one = 1
    OBVIOUS
  <1>2. PICK false \in BOOLEAN : false = FALSE
    OBVIOUS
  <1>3. ASSUME NEW op \in {"sync", "status"}, NEW r, r = Request(op, 1, FALSE)
        PROVE  ReqType(r) /\ r.due = Unsettled /\ r.op = op /\ r.todo = Handler(op)
    <2>1. op \in PageOps \cup {"retry"}
      BY DEF PageOps
    <2>2. r = Request(op, one, false)
      BY <1>1, <1>2, <1>3, Zenon
    <2> QED BY <2>1, <2>2, RequestType, RequestFields, RequestDue
  <1>4. CASE a = NoRequest
    BY <1>4, NoRequestType, NoRequestFields
  <1>5. CASE a = Request("sync", 1, FALSE)
    BY <1>3, <1>5, NoRequestFields DEF Answer
  <1>6. CASE a = Request("status", 1, FALSE)
    BY <1>3, <1>6, NoRequestFields DEF Answer
  <1>7. CASE a = [Request("status", 1, FALSE) EXCEPT !.due = S]
    <2>1. PICK r : r = Request("status", 1, FALSE)
      OBVIOUS
    <2>2. a = [r EXCEPT !.due = S]
      BY <1>7, <2>1, Zenon
    <2>3. ReqType(r) /\ r.op = "status" /\ r.todo = Handler("status")
      BY <1>3, <2>1
    <2>4. ReqType(a) /\ a.due = S /\ a.op = r.op /\ a.todo = r.todo
      BY <2>2, <2>3, DueType
    <2>5. q.live
      <3>1. a # NoRequest
        BY <2>3, <2>4, NoRequestFields
      <3> QED BY <3>1 DEF Answer
    <2> QED BY <2>3, <2>4, <2>5
  <1>8. a = NoRequest \/ q.live
    BY DEF Answer
  <1> QED BY <1>4, <1>5, <1>6, <1>7 DEF Answer

LEMMA DeleteType ==
    ASSUME TypeInv, NEW c \in Conns, DeletePending(c)
    PROVE  TypeInv'
  <1>1. PICK a : \/ Spares(c, a) /\ Answer(req[c], a, Unsettled)
                 \/ Deletes(c, a) /\ Answer(req[c], a, Unsettled \cup {req[c].n})
    BY DeleteSplits
  <1>2. /\ UNCHANGED <<pulled, invoiced, dated, page, owed>>
        /\ PageType(page) /\ Reqs(req) /\ DueIn(req, Unsettled) /\ TablesType
        /\ dated' \in BOOLEAN /\ owed' \subseteq pulled /\ faults \in 0..MaxFaults
    BY DeleteSplits, TypeInvParts
  <1>3. CASE Spares(c, a) /\ Answer(req[c], a, Unsettled)
    <2>1. ReqType(a) /\ a.due \subseteq Unsettled
      BY <1>3, AnswerFields
    <2>2. PICK R, p : R = req' /\ p = page'
      OBVIOUS
    <2>3. Reqs(R) /\ DueIn(R, Unsettled)
      BY <1>2, <1>3, <2>1, <2>2, PutType DEF Spares
    <2>4. UNCHANGED tableVars /\ faults' \in 0..MaxFaults
      BY <1>2, <1>3, FaultsAssumption DEF Spares, tableVars
    <2> QED BY <1>2, <2>2, <2>3, <2>4, StepType
  <1>4. CASE Deletes(c, a) /\ Answer(req[c], a, Unsettled \cup {req[c].n})
    <2>1. PICK n, S : n = req[c].n /\ S = Unsettled \cup {n}
      OBVIOUS
    <2>2. ReqType(a) /\ a.due \subseteq S
      BY <1>4, <2>1, AnswerFields
    <2>3. n \in Table("payouts") \cap Ready
      BY <1>2, <1>4, <2>1 DEF Deletes, Reqs, ReqType, GotType
    <2>4. PICK R, D : R = req' /\ D = Deleted(n)
      OBVIOUS
    <2>5. D = [d \in Conns |-> D[d]]
      BY <2>4 DEF Deleted
    <2>6. ASSUME NEW d \in Conns PROVE ReqType(D[d]) /\ D[d].due \subseteq S
      <3>1. ReqType(req[d]) /\ req[d].due \subseteq Unsettled
        BY <1>2 DEF Reqs, DueIn
      <3>2. ReqType(D[d]) /\ D[d].due = req[d].due
        BY <2>4, <3>1, DeletedFields
      <3> QED BY <2>1, <3>1, <3>2
    <2>7. Reqs(D) /\ DueIn(D, S)
      BY <2>5, <2>6 DEF Reqs, DueIn
    <2>8. R = [D EXCEPT ![c] = a]
      BY <1>4, <2>1, <2>4 DEF Deletes
    <2>9. Reqs(R) /\ DueIn(R, S)
      BY <2>2, <2>7, <2>8, PutType
    <2>10. Table("payouts")' = Table("payouts") /\ Table("charges")' = Table("charges")
      BY <1>2 DEF Table
    <2>11. vouchers' = vouchers \ {n} /\ confirmed' = confirmed \ {n} /\ UNCHANGED faults
      BY <1>4, <2>1 DEF Deletes
    <2>12. TablesType'
      BY <1>2, <2>10, <2>11 DEF TablesType
    <2>13. S \subseteq Unsettled'
      BY <1>2, <2>1, <2>3, <2>10, <2>11
         DEF Unsettled, UnsyncedCharges, UnsyncedPayouts, PendingVouchers
    <2>14. Reqs(req)'
      BY <1>2, <2>4, <2>9, ReqSame
    <2>15. DueIn(req, Unsettled)'
      BY <2>4, <2>9, <2>13 DEF DueIn
    <2>16. PageType(page)' /\ (owed \subseteq pulled)' /\ (faults \in 0..MaxFaults)'
      BY <1>2, <2>11 DEF PageType
    <2> QED BY <1>2, <2>12, <2>14, <2>15, <2>16, TypeInvPartsNext
  <1> QED BY <1>1, <1>3, <1>4

\* What a pass settles is not due any more.
LEMMA SettleFields ==
    ASSUME NEW r, NEW d \in Conns, ReqType(req[d]),
           NEW R, R = [c \in Conns |-> [req[c] EXCEPT !.due = req[c].due \ {r}]]
    PROVE  /\ ReqType(R[d]) /\ R[d].due = req[d].due \ {r}
           /\ R[d].op = req[d].op /\ R[d].n = req[d].n /\ R[d].link = req[d].link
           /\ R[d].todo = req[d].todo /\ R[d].got = req[d].got
           /\ R[d].failed = req[d].failed /\ R[d].raced = req[d].raced
           /\ R[d].live = req[d].live
  <1>1. PICK q, w, s : q = req[d] /\ w = q.due \ {r} /\ s = R[d]
    OBVIOUS
  <1>2. s = [q EXCEPT !.due = w]
    BY <1>1
  <1>3. /\ ReqType(s) /\ s.due = w
        /\ s.op = q.op /\ s.n = q.n /\ s.link = q.link /\ s.todo = q.todo
        /\ s.got = q.got /\ s.failed = q.failed /\ s.raced = q.raced
        /\ s.live = q.live
    BY <1>1, <1>2, DueType
  <1> QED BY <1>1, <1>3

\* What the passes do.
LEMMA PassType ==
    ASSUME TypeInv, NEW r \in Rows,
           Pull(r) \/ Invoice(r) \/ Reserve(r) \/ Confirm(r)
    PROVE  TypeInv'
  <1> USE DEF browserVars
  <1>1. /\ UNCHANGED <<dated, page, owed, faults>>
        /\ pulled \subseteq pulled' /\ dated' \in BOOLEAN /\ (owed \subseteq pulled)'
        /\ (faults \in 0..MaxFaults)'
    BY TypeInvParts DEF Pull, Invoice, Reserve, Confirm
  <1>2. PageType(page)'
    BY <1>1, TypeInvParts DEF PageType
  <1>3. PICK old, R : old = req /\ R = req'
    OBVIOUS
  <1>4. Reqs(old) /\ DueIn(old, Unsettled)
    BY <1>3, TypeInvParts
  <1>5. ASSUME R = old, Unsettled \subseteq Unsettled'
        PROVE  Reqs(req)' /\ DueIn(req, Unsettled)'
    <2>1. Reqs(req)'
      BY <1>1, <1>3, <1>4, <1>5, ReqSame
    <2>2. DueIn(req, Unsettled)'
      BY <1>3, <1>4, <1>5 DEF DueIn
    <2> QED BY <2>1, <2>2
  <1>6. ASSUME Settle(r), Unsettled \ {r} \subseteq Unsettled'
        PROVE  Reqs(req)' /\ DueIn(req, Unsettled)'
    <2>1. R = [c \in Conns |-> [req[c] EXCEPT !.due = req[c].due \ {r}]]
      BY <1>3, <1>6 DEF Settle
    <2>2. R = [c \in Conns |-> R[c]]
      BY <2>1
    <2>3. ASSUME NEW d \in Conns
          PROVE  ReqType(R[d]) /\ R[d].due = req[d].due \ {r}
                 /\ req[d].due \subseteq Unsettled
      <3>1. ReqType(req[d]) /\ req[d].due \subseteq Unsettled
        BY <1>3, <1>4 DEF Reqs, DueIn
      <3> QED BY <2>1, <3>1, SettleFields
    <2>4. Reqs(R)
      BY <2>2, <2>3 DEF Reqs
    <2>5. Reqs(req)'
      BY <1>1, <1>3, <2>4, ReqSame
    <2>6. \A d \in Conns : R[d].due \subseteq Unsettled'
      BY <1>6, <2>3
    <2>7. DueIn(req, Unsettled)'
      BY <1>3, <2>6 DEF DueIn
    <2> QED BY <2>5, <2>7
  <1>7. CASE Pull(r)
    <2>1. /\ r \notin pulled /\ pulled' = pulled \cup {r}
          /\ UNCHANGED <<invoiced, vouchers, confirmed, req>>
      BY <1>7 DEF Pull
    <2>2. IsFiniteSet(pulled')
      BY <2>1, TypeInvParts, FS_AddElement DEF TablesType
    <2>3. TablesType'
      BY <2>1, <2>2, TypeInvParts DEF TablesType, Table
    <2>4. Unsettled \subseteq Unsettled'
      BY <2>1 DEF Unsettled, UnsyncedCharges, UnsyncedPayouts,
                  PendingVouchers, Table
    <2> QED BY <1>1, <1>2, <1>3, <1>5, <2>1, <2>3, <2>4, TypeInvPartsNext
  <1>8. CASE Invoice(r)
    <2>1. /\ r \in UnsyncedCharges /\ invoiced' = invoiced \cup {r}
          /\ UNCHANGED <<pulled, vouchers, confirmed>> /\ Settle(r)
      BY <1>8 DEF Invoice
    <2>2. TablesType'
      BY <2>1, TypeInvParts DEF TablesType, Table, UnsyncedCharges
    <2>3. Unsettled \ {r} \subseteq Unsettled'
      BY <2>1 DEF Unsettled, UnsyncedCharges, UnsyncedPayouts,
                  PendingVouchers, Table
    <2> QED BY <1>1, <1>2, <1>6, <2>1, <2>2, <2>3, TypeInvPartsNext
  <1>9. CASE Reserve(r)
    <2>1. /\ r \in UnsyncedPayouts /\ vouchers' = vouchers \cup {r}
          /\ UNCHANGED <<pulled, invoiced, confirmed, req>>
      BY <1>9 DEF Reserve
    <2>2. TablesType'
      BY <2>1, TypeInvParts DEF TablesType, Table, UnsyncedPayouts
    <2>3. confirmed \subseteq vouchers
      BY TypeInvParts DEF TablesType
    <2>4. Unsettled \subseteq Unsettled'
      BY <2>1, <2>3 DEF Unsettled, UnsyncedCharges, UnsyncedPayouts,
                        PendingVouchers, Table
    <2> QED BY <1>1, <1>2, <1>3, <1>5, <2>1, <2>2, <2>4, TypeInvPartsNext
  <1>10. CASE Confirm(r)
    <2>1. /\ r \in PendingVouchers /\ confirmed' = confirmed \cup {r}
          /\ UNCHANGED <<pulled, invoiced, vouchers>> /\ Settle(r)
      BY <1>10 DEF Confirm
    <2>2. TablesType'
      BY <2>1, TypeInvParts DEF TablesType, Table, PendingVouchers
    <2>3. Unsettled \ {r} \subseteq Unsettled'
      BY <2>1 DEF Unsettled, UnsyncedCharges, UnsyncedPayouts,
                  PendingVouchers, Table
    <2> QED BY <1>1, <1>2, <1>6, <2>1, <2>2, <2>3, TypeInvPartsNext
  <1> QED BY <1>7, <1>8, <1>9, <1>10

LEMMA TypeInit ==
    Init => TypeInv
  <1> SUFFICES ASSUME Init PROVE TypeInv
    OBVIOUS
  <1>1. TablesType
    BY FS_EmptySet DEF Init, TablesType
  <1>2. dated \in BOOLEAN
    BY DEF Init
  <1>3. PageType(page)
    BY BlankType DEF Init
  <1>4. Reqs(req) /\ DueIn(req, Unsettled)
    BY NoneType DEF Init
  <1>5. owed \subseteq pulled
    BY DEF Init
  <1>6. faults \in 0..MaxFaults
    BY FaultsAssumption DEF Init
  <1> QED BY <1>1, <1>2, <1>3, <1>4, <1>5, <1>6, TypeInvParts

LEMMA TypeNext ==
    TypeInv /\ [Next]_vars => TypeInv'
  <1> SUFFICES ASSUME TypeInv, [Next]_vars PROVE TypeInv'
    OBVIOUS
  <1>1. CASE UNCHANGED vars
    <2>1. UNCHANGED <<tableVars, dated, page, req, owed, faults>>
      BY <1>1 DEF vars, tableVars
    <2>2. PICK R, p : R = req' /\ p = page'
      OBVIOUS
    <2>3. /\ PageType(p) /\ Reqs(R) /\ DueIn(R, Unsettled) /\ dated' \in BOOLEAN
          /\ owed' \subseteq pulled /\ faults' \in 0..MaxFaults
      BY <2>1, <2>2, TypeInvParts
    <2> QED BY <2>1, <2>2, <2>3, StepType
  <1> QED BY <1>1, ClickType, ReadType, RenderType, DeleteType,
             PassType, RestartType DEF Next, Serve

-----------------------------------------------------------------------------
(* What is under way beside a navigation *)

\* The next requests and page, named.
LEMMA OthersNamed ==
    ASSUME NEW R, NEW p, req' = R, page' = p, R["link"].op # "retry",
           \A c \in Conns \ {"link"} : Beside(p, R[c])
    PROVE  OthersInv'
  BY DEF OthersInv, Beside

\* What keeps its operation, while the page stays.
LEMMA OthersSame ==
    ASSUME OthersInv, NEW R, req' = R, page'.kind = page.kind,
           \A c \in Conns : R[c].op = req[c].op /\ R[c].live = req[c].live
    PROVE  OthersInv'
  <1>1. PICK p : p = page'
    OBVIOUS
  <1>2. R["link"].op # "retry"
    BY ConnsFacts DEF OthersInv
  <1>3. ASSUME NEW c \in Conns \ {"link"} PROVE Beside(p, R[c])
    <2>1. Beside(page, req[c])
      BY DEF OthersInv
    <2>2. R[c].op = req[c].op /\ R[c].live = req[c].live
      OBVIOUS
    <2> QED BY <1>1, <2>1, <2>2 DEF Beside
  <1> QED BY <1>1, <1>2, <1>3, OthersNamed

LEMMA OthersPut ==
    ASSUME TypeInv, OthersInv, NEW c \in Conns, NEW q,
           req' = [req EXCEPT ![c] = q], UNCHANGED page,
           c = "link" => q.op # "retry", c # "link" => Beside(page, q)
    PROVE  OthersInv'
  <1>1. PICK R, p : R = req' /\ p = page'
    OBVIOUS
  <1>2. \A d \in Conns : R[d] = IF d = c THEN q ELSE req[d]
    BY <1>1 DEF TypeInv, Reqs
  <1>3. R["link"].op # "retry"
    <2>1. R["link"] = IF "link" = c THEN q ELSE req["link"]
      BY <1>2, ConnsFacts
    <2> QED BY <2>1 DEF OthersInv
  <1>4. ASSUME NEW d \in Conns \ {"link"} PROVE Beside(p, R[d])
    BY <1>1, <1>2 DEF OthersInv
  <1> QED BY <1>1, <1>3, <1>4, OthersNamed

LEMMA OthersAbandoned ==
    ASSUME TypeInv, OthersInv,
           req' = Abandoned \/ req' = [Abandoned EXCEPT !["link"] = req["link"]]
    PROVE  OthersInv'
  <1>1. PICK R, p, A : R = req' /\ p = page' /\ A = Abandoned
    OBVIOUS
  <1>2. A = [c \in Conns |-> A[c]]
    BY <1>1 DEF Abandoned
  <1>3. \A c \in Conns \ {"link"} : R[c] = A[c]
    BY <1>1, <1>2
  <1>4. ASSUME NEW c \in Conns \ {"link"} PROVE Beside(p, R[c])
    <2>1. ReqType(req[c])
      BY DEF TypeInv, Reqs
    <2>2. A[c].op \in {"none", "retry"} /\ (A[c].op = "retry" => ~A[c].live)
      BY <1>1, <2>1, AbandonedFields
    <2>3. R[c].op \in {"none", "retry"} /\ (R[c].op = "retry" => ~R[c].live)
      BY <1>3, <2>2
    <2> QED BY <2>3 DEF Beside
  <1>5. R["link"].op # "retry"
    <2>1. req["link"].op # "retry" /\ ReqType(req["link"])
      BY ConnsFacts DEF OthersInv, TypeInv, Reqs
    <2>2. A["link"].op # "retry"
      BY <1>1, <2>1, ConnsFacts, AbandonedFields
    <2>3. R["link"] \in {A["link"], req["link"]}
      BY <1>1, <1>2, ConnsFacts
    <2> QED BY <2>1, <2>2, <2>3
  <1> QED BY <1>1, <1>4, <1>5, OthersNamed

\* A navigation or another request is asked for.
LEMMA OthersAsk ==
    ASSUME TypeInv, OthersInv, NEW c \in Conns, NEW q, RequireAuth(c, q),
           c = "link" => q.op # "retry", c # "link" => Beside(page, q)
    PROVE  OthersInv'
  <1>1. CASE req' = [req EXCEPT ![c] = q] /\ UNCHANGED page
    BY <1>1, OthersPut
  <1>2. CASE req' = Abandoned
    BY <1>2, OthersAbandoned
  <1> QED BY <1>1, <1>2 DEF RequireAuth

LEMMA OthersNavigate ==
    ASSUME TypeInv, OthersInv, NEW op \in PageOps, NEW n, NEW link,
           Navigate(op, n, link)
    PROVE  OthersInv'
  <1>1. PICK q : q = Request(op, n, link)
    OBVIOUS
  <1>2. q.op = op
    BY <1>1, NoRequestFields DEF Request, Fields
  <1>3. RequireAuth("link", q)
    BY <1>1, Zenon DEF Navigate
  <1>4. q.op # "retry"
    BY <1>2 DEF PageOps, Tables, StripeTables
  <1> QED BY <1>3, <1>4, ConnsFacts, OthersAsk

LEMMA ClickOthers ==
    ASSUME TypeInv, OthersInv, Click \/ SyncStatus
    PROVE  OthersInv'
  <1>1. ASSUME NEW op \in Tables \cup {"sync", "dashboard", "settings"}, Open(op)
        PROVE  OthersInv'
    <2>1. op \in PageOps
      BY DEF PageOps
    <2>2. Navigate(op, 1, FALSE)
      BY <1>1, Zenon DEF Open
    <2> QED BY <2>1, <2>2, OthersNavigate
  <1>2. ASSUME NextPage PROVE OthersInv'
    <2>1. page.next /\ Navigate(page.kind, page.n + 1, TRUE)
      BY <1>2, Zenon DEF NextPage
    <2>2. page.kind \in PageOps
      BY <2>1 DEF TypeInv, TablesInv, PageOps
    <2> QED BY <2>1, <2>2, OthersNavigate
  <1>3. ASSUME PreviousPage PROVE OthersInv'
    <2>1. page.kind \in Tables /\ Navigate(page.kind, page.n - 1, FALSE)
      BY <1>3, Zenon DEF PreviousPage
    <2>2. page.kind \in PageOps
      BY <2>1 DEF PageOps
    <2> QED BY <2>1, <2>2, OthersNavigate
  <1>4. ASSUME NEW c \in Conns \ {"link"}, page.kind = "sync",
               RequireAuth(c, Request("status", 1, FALSE))
        PROVE  OthersInv'
    <2>1. PICK q : q = Request("status", 1, FALSE)
      OBVIOUS
    <2>2. q.op = "status"
      BY <2>1, NoRequestFields DEF Request, Fields
    <2>3. Beside(page, q)
      BY <1>4, <2>2 DEF Beside, StripeTables
    <2>4. RequireAuth(c, q)
      BY <1>4, <2>1, Zenon
    <2> QED BY <2>3, <2>4, OthersAsk
  <1>c. "poll" \in Conns \ {"link"} /\ Buttons \cup Tabs \subseteq Conns \ {"link"}
    BY ConnsFacts, ConnsAssumption
  <1>5. ASSUME SyncStatus PROVE OthersInv'
    <2>1. RequireAuth("poll", Request("status", 1, FALSE)) /\ page.kind = "sync"
      BY <1>5, Zenon DEF SyncStatus
    <2> QED BY <1>4, <1>c, <2>1
  <1>6. ASSUME NEW b \in Buttons, SyncFortnox(b) PROVE OthersInv'
    <2>1. RequireAuth(b, Request("status", 1, FALSE)) /\ page.kind = "sync"
      BY <1>6, Zenon DEF SyncFortnox
    <2> QED BY <1>4, <1>c, <2>1
  <1>7. ASSUME NEW c \in Buttons \cup Tabs, NEW p \in Rows, Retry(c, p)
        PROVE  OthersInv'
    <2>1. PICK q : /\ q.op = "retry" /\ (q.live <=> c \in Buttons)
                   /\ RequireAuth(c, q)
      BY <1>7, RetrySplits
    <2>2. c \in Buttons => page.kind = "sync"
      BY <1>7 DEF Retry
    <2>3. Beside(page, q)
      BY <2>1, <2>2 DEF Beside, StripeTables
    <2> QED BY <1>c, <2>1, <2>3, OthersAsk
  <1>8. ASSUME NEW b \in BOOLEAN, SaveSyncFromDate(b) PROVE OthersInv'
    <2>1. (req' = req /\ page' = page) \/ req' = Abandoned
      BY <1>8 DEF SaveSyncFromDate
    <2>2. ASSUME req' = req, page' = page PROVE OthersInv'
      BY <2>2, OthersSame
    <2> QED BY <2>1, <2>2, OthersAbandoned
  <1>9. ASSUME LoginPost PROVE OthersInv'
    <2>1. PICK q : q = Request("dashboard", 1, FALSE)
      OBVIOUS
    <2>2. q.op = "dashboard"
      BY <2>1, NoRequestFields DEF Request, Fields
    <2>3. req' = [req EXCEPT !["link"] = q] /\ UNCHANGED page
      BY <1>9, <2>1, Zenon DEF LoginPost
    <2> QED BY <2>2, <2>3, ConnsFacts, OthersPut
  <1>10. ASSUME Logout PROVE OthersInv'
    BY <1>10, OthersAbandoned DEF Logout
  <1> QED BY <1>1, <1>2, <1>3, <1>5, <1>6, <1>7, <1>8, <1>9, <1>10,
             LinksAssumption, UserAssumption, Zenon DEF Click

\* The page an answer beside a navigation makes.
LEMMA SyncView ==
    ASSUME NEW r, r.op \in {"sync", "status"}
    PROVE  View(r).kind = "sync"
  <1>1. View(r) = SyncStatusSection(r)
    BY DEF View, Tables, StripeTables
  <1>2. PICK p : p = SyncStatusSection(r)
    OBVIOUS
  <1>3. p.kind = "sync"
    BY <1>2 DEF SyncStatusSection, Blank
  <1> QED BY <1>1, <1>2, <1>3

LEMMA RenderOthers ==
    ASSUME TypeInv, OthersInv, NEW c \in Conns, Render(c)
    PROVE  OthersInv'
  <1>1. PICK R, p, r : R = req' /\ p = page' /\ r = req[c]
    OBVIOUS
  <1>2. /\ r.op \in Tables \cup {"dashboard", "sync", "status", "settings"}
        /\ p = View(r)
        /\ \/ R = Abandoned \/ R = [Abandoned EXCEPT !["link"] = req["link"]]
           \/ c # "link" /\ R = [req EXCEPT ![c] = NoRequest]
    BY <1>1 DEF Render, Awaits, Swap
  <1>3. CASE c # "link" /\ R = [req EXCEPT ![c] = NoRequest]
    <2>1. Beside(page, r)
      BY <1>1, <1>3 DEF OthersInv
    <2>2. r.op \in {"sync", "status"}
      BY <1>2, <2>1 DEF Beside, Tables, StripeTables
    <2>3. p.kind = "sync"
      BY <1>2, <2>2, SyncView
    <2>4. \A d \in Conns : R[d] = IF d = c THEN NoRequest ELSE req[d]
      BY <1>3 DEF TypeInv, Reqs
    <2>5. R["link"].op # "retry"
      BY <1>3, <2>4, ConnsFacts DEF OthersInv
    <2>6. ASSUME NEW d \in Conns \ {"link"} PROVE Beside(p, R[d])
      <3>1. Beside(page, req[d]) /\ NoRequest.op = "none"
        BY NoRequestFields DEF OthersInv
      <3>2. R[d].op \in {"none", "sync", "status", "retry"}
        BY <2>4, <3>1 DEF Beside
      <3> QED BY <2>3, <3>2 DEF Beside, StripeTables
    <2> QED BY <1>1, <2>5, <2>6, OthersNamed
  <1> QED BY <1>1, <1>2, <1>3, OthersAbandoned

LEMMA ReadOthers ==
    ASSUME TypeInv, OthersInv, NEW c \in Conns, Read(c)
    PROVE  OthersInv'
  <1>1. PICK r, R : r = req[c] /\ R = req'
    OBVIOUS
  <1>2. ReqType(r)
    BY <1>1 DEF TypeInv, Reqs
  <1>3. \E q : R = [req EXCEPT ![c] = q] /\ q.op = r.op /\ q.live = r.live
    <2>1. ASSUME ReadFailed(c)
          PROVE  \E q : R = [req EXCEPT ![c] = q] /\ q.op = r.op /\ q.live = r.live
      <3>1. PICK q : q = [[r EXCEPT !.todo = Tail(r.todo)] EXCEPT !.failed = TRUE]
        OBVIOUS
      <3>2. R = [req EXCEPT ![c] = q]
        BY <1>1, <2>1, <3>1 DEF ReadFailed
      <3>3. q.op = r.op /\ q.live = r.live
        BY <1>2, <3>1, FailedFields
      <3> QED BY <3>2, <3>3
    <2>2. ASSUME NEW s, NEW result, Found(c, s, result)
          PROVE  \E q : R = [req EXCEPT ![c] = q] /\ q.op = r.op /\ q.live = r.live
      <3>1. PICK g : g = [r.got EXCEPT ![s] = result]
        OBVIOUS
      <3>2. PICK q : q = [[r EXCEPT !.todo = Tail(r.todo)] EXCEPT !.got = g]
        OBVIOUS
      <3>3. R = [req EXCEPT ![c] = q]
        BY <1>1, <2>2, <3>1, <3>2 DEF Found
      <3>4. r = [f \in Fields |-> r[f]]
        BY <1>2 DEF ReqType
      <3>5. q.op = r.op /\ q.live = r.live
        BY <3>2, <3>4 DEF Fields
      <3> QED BY <3>3, <3>5
    <2> QED BY <2>1, <2>2, ReadSplits
  <1>4. PICK q : R = [req EXCEPT ![c] = q] /\ q.op = r.op /\ q.live = r.live
    BY <1>3
  <1>5. ASSUME NEW d \in Conns PROVE R[d].op = req[d].op /\ R[d].live = req[d].live
    <2>1. R[d] = IF d = c THEN q ELSE req[d]
      BY <1>4 DEF TypeInv, Reqs
    <2> QED BY <1>1, <1>4, <2>1
  <1>6. UNCHANGED page
    BY ReadSplits
  <1> QED BY <1>1, <1>5, <1>6, OthersSame

LEMMA DeleteOthers ==
    ASSUME TypeInv, OthersInv, NEW c \in Conns, DeletePending(c)
    PROVE  OthersInv'
  <1>1. PICK a : \/ Spares(c, a) /\ Answer(req[c], a, Unsettled)
                 \/ Deletes(c, a) /\ Answer(req[c], a, Unsettled \cup {req[c].n})
    BY DeleteSplits
  <1>2. UNCHANGED page /\ req[c].op = "retry"
    BY DeleteSplits
  <1>3. c # "link" /\ Beside(page, req[c])
    BY <1>2, ConnsFacts DEF OthersInv
  <1>4. Beside(page, a)
    <2>1. a.op \in {"none", "sync", "status"} /\ (a.op # "none" => req[c].live)
      BY <1>1, AnswerFields
    <2> QED BY <1>2, <1>3, <2>1 DEF Beside
  <1>5. CASE Spares(c, a)
    BY <1>2, <1>3, <1>4, <1>5, OthersPut DEF Spares
  <1>6. CASE Deletes(c, a)
    <2>1. PICK n, D, R : n = req[c].n /\ D = Deleted(n) /\ R = req'
      OBVIOUS
    <2>2. D = [d \in Conns |-> D[d]]
      BY <2>1 DEF Deleted
    <2>3. R = [D EXCEPT ![c] = a]
      BY <1>6, <2>1 DEF Deletes
    <2>4. \A d \in Conns : R[d] = IF d = c THEN a ELSE D[d]
      BY <2>2, <2>3
    <2>5. ASSUME NEW d \in Conns PROVE D[d].op = req[d].op /\ D[d].live = req[d].live
      <3>1. ReqType(req[d])
        BY DEF TypeInv, Reqs
      <3> QED BY <2>1, <3>1, DeletedFields
    <2>6. R["link"].op # "retry"
      BY <1>3, <2>4, <2>5, ConnsFacts DEF OthersInv
    <2>7. ASSUME NEW d \in Conns \ {"link"} PROVE Beside(page, R[d])
      <3>1. CASE d = c
        BY <1>4, <2>4, <3>1
      <3>2. CASE d # c
        <4>1. Beside(page, req[d]) /\ R[d].op = req[d].op /\ R[d].live = req[d].live
          BY <2>4, <2>5, <3>2 DEF OthersInv
        <4> QED BY <4>1 DEF Beside
      <3> QED BY <3>1, <3>2
    <2>8. PICK p : p = page' /\ p = page
      BY <1>2
    <2> QED BY <2>1, <2>6, <2>7, <2>8, OthersNamed
  <1> QED BY <1>1, <1>5, <1>6

LEMMA PassOthers ==
    ASSUME TypeInv, OthersInv, NEW r \in Rows,
           Pull(r) \/ Invoice(r) \/ Reserve(r) \/ Confirm(r)
    PROVE  OthersInv'
  <1>1. UNCHANGED page /\ (UNCHANGED req \/ Settle(r))
    BY DEF Pull, Invoice, Reserve, Confirm, browserVars
  <1>2. PICK R : R = req'
    OBVIOUS
  <1>3. ASSUME Settle(r), NEW d \in Conns
        PROVE  R[d].op = req[d].op /\ R[d].live = req[d].live
    <2>1. ReqType(req[d])
      BY DEF TypeInv, Reqs
    <2>2. R = [c \in Conns |-> [req[c] EXCEPT !.due = req[c].due \ {r}]]
      BY <1>2, <1>3 DEF Settle
    <2>3. PICK q, w, s : q = req[d] /\ w = q.due \ {r} /\ s = R[d]
      OBVIOUS
    <2>4. s = [q EXCEPT !.due = w]
      BY <2>2, <2>3
    <2>5. s.op = q.op /\ s.live = q.live
      BY <2>1, <2>3, <2>4 DEF ReqType, Fields
    <2> QED BY <2>3, <2>5
  <1>4. \A d \in Conns : R[d].op = req[d].op /\ R[d].live = req[d].live
    BY <1>1, <1>2, <1>3
  <1> QED BY <1>1, <1>2, <1>4, OthersSame

LEMMA NoneOthers ==
    ASSUME NEW R, R = [c \in Conns |-> NoRequest], NEW p
    PROVE  R["link"].op # "retry" /\ \A c \in Conns : Beside(p, R[c])
  <1>1. \A c \in Conns : R[c] = NoRequest
    OBVIOUS
  <1>2. NoRequest.op = "none"
    BY NoRequestFields
  <1> QED BY <1>1, <1>2, ConnsFacts DEF Beside

LEMMA OthersInit ==
    Init => OthersInv
  BY NoneOthers DEF Init, OthersInv

LEMMA OthersNext ==
    TypeInv /\ OthersInv /\ [Next]_vars => OthersInv'
  <1> SUFFICES ASSUME TypeInv, OthersInv, [Next]_vars PROVE OthersInv'
    OBVIOUS
  <1>1. CASE UNCHANGED vars
    <2>1. UNCHANGED <<req, page>>
      BY <1>1 DEF vars
    <2> QED BY <2>1, OthersSame
  <1>2. ASSUME Restart PROVE OthersInv'
    <2>1. PICK R, p : R = req' /\ p = page'
      OBVIOUS
    <2>2. R = [c \in Conns |-> NoRequest]
      BY <1>2, <2>1 DEF Restart
    <2> QED BY <2>1, <2>2, NoneOthers, OthersNamed
  <1> QED BY <1>1, <1>2, ClickOthers, ReadOthers, RenderOthers, DeleteOthers,
             PassOthers DEF Next, Serve

-----------------------------------------------------------------------------
(* The walk along the "next" links *)

\* Tables that grow leave what is owed behind the pages that were shown.
LEMMA ShownGrows ==
    ASSUME NEW S, NEW S2 \in SUBSET Nat, IsFiniteSet(S2), S \subseteq S2,
           NEW p, p.n \in Nat, NEW op, NEW o, Shown(p, op, o, S)
    PROVE  Shown(p, op, o, S2)
  <1>1. PICK n \in Nat : n = p.n
    OBVIOUS
  <1>2. Beyond(S, n) \subseteq Beyond(S2, n) /\ Cardinality(S) <= Cardinality(S2)
    BY BeyondGrows
  <1>3. IsFiniteSet(S)
    BY FS_Subset
  <1>4. PICK m \in Nat : m = n * PageSize
    BY RowsAssumption
  <1>5. Cardinality(S) \in Nat /\ Cardinality(S2) \in Nat
    BY <1>3, FS_CardinalityType
  <1>6. p.next => m < Cardinality(S2)
    <2>1. p.next => m < Cardinality(S)
      BY <1>1, <1>4 DEF Shown
    <2> QED BY <1>2, <1>5, <2>1
  <1>7. op = "none" => o \subseteq Beyond(S2, n) /\ (~p.next => o = {})
    <2>1. op = "none" => o \subseteq Beyond(S, n) /\ (~p.next => o = {})
      BY <1>1 DEF Shown
    <2> QED BY <1>2, <2>1
  <1>8. p.next => p.n * PageSize < Cardinality(S2)
    BY <1>1, <1>4, <1>6
  <1> QED BY <1>1, <1>7, <1>8 DEF Shown

LEMMA AskedGrows ==
    ASSUME NEW S, NEW S2 \in SUBSET Nat, IsFiniteSet(S2), S \subseteq S2,
           NEW r, ReqType(r), r.op \in Tables, NEW o, Asked(r, o, S)
    PROVE  Asked(r, o, S2)
  <1>1. PICK n \in Nat \ {0} : n = r.n
    BY DEF ReqType
  <1>2. /\ Beyond(S, n) \subseteq Beyond(S2, n)
        /\ Beyond(S, n - 1) \subseteq Beyond(S2, n - 1)
        /\ Cardinality(S) <= Cardinality(S2)
    <2>1. PICK k \in Nat : k = n - 1
      BY <1>1
    <2>2. Beyond(S, k) \subseteq Beyond(S2, k)
      BY BeyondGrows
    <2> QED BY <2>1, <2>2, BeyondGrows
  <1>3. IsFiniteSet(S)
    BY FS_Subset
  <1>4. PICK m \in Nat : m = (n - 1) * PageSize
    BY <1>1, RowsAssumption
  <1>5. Cardinality(S) \in Nat /\ Cardinality(S2) \in Nat
    BY <1>3, FS_CardinalityType
  <1>6. r.got["count"] <= Cardinality(S2)
    <2>1. r.got["count"] <= Cardinality(S) /\ r.got["count"] \in Nat
      BY DEF Asked, ReqType, GotType
    <2> QED BY <1>2, <1>5, <2>1
  <1>7. r.todo = Listing => AskedFirst(r, o, S2)
    <2> SUFFICES ASSUME r.todo = Listing PROVE AskedFirst(r, o, S2)
      OBVIOUS
    <2>1. AskedFirst(r, o, S)
      BY DEF Asked
    <2>2. r.n > 1 => o \subseteq Beyond(S2, r.n - 1)
      BY <1>1, <1>2, <2>1 DEF AskedFirst
    <2>3. r.link => r.n > 1 /\ (r.n - 1) * PageSize < Cardinality(S2)
      <3>1. r.link => r.n > 1 /\ m < Cardinality(S)
        BY <1>1, <1>4, <2>1 DEF AskedFirst
      <3>2. r.link => m < Cardinality(S2)
        BY <1>2, <1>5, <3>1
      <3> QED BY <1>1, <1>4, <3>1, <3>2
    <2>4. ~r.failed
      BY <2>1 DEF AskedFirst
    <2> QED BY <2>2, <2>3, <2>4, Zenon DEF AskedFirst
  <1>8. r.todo # Listing => AskedThen(r, o, S2)
    <2> SUFFICES ASSUME r.todo # Listing PROVE AskedThen(r, o, S2)
      OBVIOUS
    <2>1. AskedThen(r, o, S)
      BY DEF Asked
    <2>2. o \subseteq Beyond(S2, r.n)
      BY <1>1, <1>2, <2>1 DEF AskedThen
    <2> QED BY <2>1, <2>2, Zenon DEF AskedThen
  <1>9. r.todo = <<>> /\ o # {} => r.n * PageSize < r.got["count"]
    BY Zenon DEF Asked
  <1> QED BY <1>6, <1>7, <1>8, <1>9, Zenon DEF Asked

\* Only the fields of a request that a walk depends on.
LEMMA AskedSame ==
    ASSUME NEW S, NEW r, NEW o, Asked(r, o, S), NEW q,
           q.n = r.n, q.link = r.link, q.todo = r.todo, q.got = r.got,
           q.failed = r.failed
    PROVE  Asked(q, o, S)
  BY Zenon DEF Asked, AskedFirst, AskedThen

\* WalkInv of a page p, a navigation l and what is owed, o.
WalkOf(p, l, o) ==
    /\ p.kind \in StripeTables => Shown(p, l.op, o, Table(p.kind))
    /\ l.op \in StripeTables => Asked(l, o, Table(l.op))

\* A step that leaves the tables alone.
LEMMA WalkStep ==
    ASSUME UNCHANGED tableVars, NEW p, page' = p, NEW l, req'["link"] = l,
           NEW o, owed' = o, WalkOf(p, l, o)
    PROVE  WalkInv'
  <1>1. \A t : Table(t)' = Table(t)
    BY TablesSame
  <1>2. ShownInv'
    <2> SUFFICES ASSUME page'.kind \in StripeTables
                 PROVE  Shown(page, req["link"].op, owed, Table(page.kind))'
      BY DEF ShownInv
    <2>1. PICK t, T, op : t = p.kind /\ T = Table(t) /\ op = l.op
      OBVIOUS
    <2>2. T = Table(t)' /\ t = page'.kind
      BY <1>1, <2>1
    <2>3. Shown(p, op, o, T)
      BY <2>1, <2>2 DEF WalkOf
    <2> QED BY <2>1, <2>2, <2>3
  <1>3. AskedInv'
    <2> SUFFICES ASSUME req'["link"].op \in StripeTables
                 PROVE  Asked(req["link"], owed, Table(req["link"].op))'
      BY DEF AskedInv
    <2>1. PICK t, T : t = l.op /\ T = Table(t)
      OBVIOUS
    <2>2. T = Table(t)' /\ t = req'["link"].op
      BY <1>1, <2>1
    <2>3. Asked(l, o, T)
      BY <2>1, <2>2 DEF WalkOf
    <2> QED BY <2>1, <2>2, <2>3
  <1> QED BY <1>2, <1>3 DEF WalkInv

\* A step that neither makes a navigation nor answers one, while the list on
\* the screen stays or a page that is no list takes its place.
LEMMA WalkSame ==
    ASSUME TypeInv, TypeInv', WalkInv, UNCHANGED owed, pulled \subseteq pulled',
           page' = page \/ page'.kind \notin StripeTables,
           NEW q, req'["link"] = q,
           q.op = req["link"].op, q.n = req["link"].n, q.link = req["link"].link,
           q.todo = req["link"].todo, q.got = req["link"].got,
           q.failed = req["link"].failed
    PROVE  WalkInv'
  <1>1. ASSUME NEW t \in StripeTables
        PROVE  /\ Table(t) \subseteq Table(t)'
               /\ Table(t)' \in SUBSET Nat /\ IsFiniteSet(Table(t)')
    <2>1. pulled' \in SUBSET Nat /\ IsFiniteSet(pulled')
      BY RowsAssumption DEF TypeInv, TypeOK, TablesInv
    <2>2. Table(t) \subseteq Table(t)' /\ Table(t)' \subseteq pulled'
      BY DEF Table, StripeTables
    <2> QED BY <2>1, <2>2, FS_Subset
  <1>2. ShownInv'
    <2> SUFFICES ASSUME page'.kind \in StripeTables
                 PROVE  Shown(page, req["link"].op, owed, Table(page.kind))'
      BY DEF ShownInv
    <2>1. PICK t, T, p, o, op :
              /\ t \in StripeTables /\ t = page'.kind /\ T = Table(t)'
              /\ p = page' /\ o = owed /\ op = q.op
      OBVIOUS
    <2>2. Shown(p, op, o, Table(t)) /\ p.n \in Nat
      BY <2>1 DEF WalkInv, ShownInv, TypeInv, TypeOK
    <2>3. Shown(p, op, o, T)
      BY <1>1, <2>1, <2>2, ShownGrows
    <2> QED BY <2>1, <2>3
  <1>3. AskedInv'
    <2> SUFFICES ASSUME req'["link"].op \in StripeTables
                 PROVE  Asked(req["link"], owed, Table(req["link"].op))'
      BY DEF AskedInv
    <2>1. PICK t, T, r, o :
              t \in StripeTables /\ t = q.op /\ T = Table(t)'
              /\ r = req["link"] /\ o = owed
      OBVIOUS
    <2>2. Asked(r, o, Table(t)) /\ ReqType(r) /\ r.op \in Tables
      BY <2>1, ConnsFacts DEF WalkInv, AskedInv, TypeInv, Reqs, Tables
    <2>3. Asked(r, o, T)
      BY <1>1, <2>1, <2>2, AskedGrows
    <2>4. Asked(q, o, T)
      BY <2>1, <2>3, AskedSame
    <2> QED BY <2>1, <2>4
  <1> QED BY <1>2, <1>3 DEF WalkInv

\* While no list is on the screen or asked for, there is nothing to say.
LEMMA WalkIdle ==
    ASSUME page'.kind \notin StripeTables, req'["link"].op \notin StripeTables
    PROVE  WalkInv'
  BY DEF WalkInv, ShownInv, AskedInv

\* The login page ends a walk.
LEMMA WalkLogin ==
    ASSUME TypeInv, req' = Abandoned, page'.kind \notin StripeTables
    PROVE  WalkInv'
  <1>1. PICK A : A = Abandoned
    OBVIOUS
  <1>2. A["link"].op \in {"none", "retry"}
    BY <1>1, ConnsFacts, AbandonedFields DEF TypeInv, Reqs
  <1>3. req'["link"].op \in {"none", "retry"}
    BY <1>1, <1>2
  <1> QED BY <1>3, WalkIdle DEF StripeTables

\* A navigation: a list along its link or by its address, or another page.
LEMMA NavigateWalk ==
    ASSUME TypeInv, WalkInv, NEW op \in PageOps, NEW n \in Nat \ {0},
           NEW link \in BOOLEAN, Navigate(op, n, link),
           link => page.kind = op /\ n = page.n + 1 /\ page.next
    PROVE  WalkInv'
  <1>1. PICK r, l, p, o : r = Request(op, n, link) /\ l = req["link"]
                          /\ p = page /\ o = owed'
    OBVIOUS
  <1>2. RequireAuth("link", r) /\ owed' = IF link /\ l = NoRequest THEN owed ELSE {}
    BY <1>1, Zenon DEF Navigate
  <1>3. CASE req' = Abandoned /\ page' = Blank("login")
    <2>1. page'.kind = "login"
      BY <1>3, BlankFields
    <2> QED BY <1>3, <2>1, WalkLogin DEF StripeTables
  <1>4. CASE req' = [req EXCEPT !["link"] = r] /\ UNCHANGED page
    <2>0. op \in PageOps \cup {"retry"}
      OBVIOUS
    <2>1. r.op = op /\ r.todo = Handler(op) /\ r.got = NoRequest.got
      BY <1>1, <2>0, RequestFields
    <2>2. r.n = n
      BY <1>1, <2>0, RequestNumber
    <2>3. r.link = link /\ ~r.failed
      BY <1>1, <2>0, RequestFlags
    <2>4. r.got["count"] = 0
      BY <2>1, NoRequestFields
    <2>5. req'["link"] = r /\ page' = p /\ owed' = o /\ UNCHANGED tableVars
      BY <1>1, <1>2, <1>4, ConnsFacts DEF TypeInv, Reqs, RequireAuth
    <2>6. ASSUME p.kind \in StripeTables
          PROVE  Shown(p, r.op, o, Table(p.kind))
      <3>1. PICK S, k : S = Table(p.kind) /\ k = l.op
        OBVIOUS
      <3>2. p.next => p.n * PageSize < Cardinality(S)
        BY <1>1, <2>6, <3>1 DEF WalkInv, ShownInv, Shown
      <3>3. r.op # "none"
        BY <2>1 DEF PageOps, Tables, StripeTables
      <3>4. Shown(p, r.op, o, S)
        BY <3>2, <3>3, Zenon DEF Shown
      <3> QED BY <3>1, <3>4
    <2>7. ASSUME r.op \in StripeTables
          PROVE  Asked(r, o, Table(r.op))
      <3>1. PICK S : S = Table(op)
        OBVIOUS
      <3>2. S \in SUBSET Nat /\ IsFiniteSet(S) /\ Cardinality(S) \in Nat
        BY <2>1, <2>7, <3>1, TableFacts DEF Tables
      <3>3. r.todo = Listing /\ r.todo # <<>>
        <4>1. Handler(op) = Listing
          BY <2>1, <2>7 DEF Handler, Tables, StripeTables
        <4>2. Listing # <<>>
          BY DEF Listing
        <4> QED BY <2>1, <4>1, <4>2
      <3>4. CASE link
        <4>1. p.n \in Nat \ {0} /\ n = p.n + 1 /\ p.next /\ p.kind = op
          BY <1>1, <3>4 DEF TypeInv, TypeOK
        <4>2. n - 1 = p.n /\ n > 1
          BY <4>1
        <4>3. Shown(p, l.op, owed, S)
          BY <1>1, <2>1, <2>7, <3>1, <4>1 DEF WalkInv, ShownInv
        <4>4. (n - 1) * PageSize < Cardinality(S)
          BY <4>1, <4>2, <4>3 DEF Shown
        <4>5. o \subseteq Beyond(S, n - 1)
          <5>1. CASE l = NoRequest
            <6>1. l.op = "none" /\ o = owed
              BY <1>1, <1>2, <3>4, <5>1, NoRequestFields
            <6> QED BY <4>2, <4>3, <6>1 DEF Shown
          <5>2. CASE l # NoRequest
            BY <1>1, <1>2, <5>2
          <5> QED BY <5>1, <5>2
        <4>6. AskedFirst(r, o, S)
          BY <2>2, <2>3, <4>2, <4>4, <4>5, Zenon DEF AskedFirst
        <4>7. r.got["count"] <= Cardinality(S)
          BY <2>4, <3>2
        <4>8. Asked(r, o, S)
          BY <3>3, <4>6, <4>7, Zenon DEF Asked
        <4> QED BY <2>1, <3>1, <4>8
      <3>5. CASE ~link
        <4>1. o = {}
          BY <1>1, <1>2, <3>5
        <4>2. o \subseteq Beyond(S, r.n - 1)
          BY <4>1
        <4>3. AskedFirst(r, o, S)
          BY <2>3, <3>5, <4>2, Zenon DEF AskedFirst
        <4>4. r.got["count"] <= Cardinality(S)
          BY <2>4, <3>2
        <4>5. Asked(r, o, S)
          BY <3>3, <4>3, <4>4, Zenon DEF Asked
        <4> QED BY <2>1, <3>1, <4>5
      <3> QED BY <3>4, <3>5
    <2>8. WalkOf(p, r, o)
      BY <2>6, <2>7, Zenon DEF WalkOf
    <2> QED BY <2>5, <2>8, WalkStep
  <1> QED BY <1>2, <1>3, <1>4 DEF RequireAuth

\* Another request leaves the navigation alone, or the login page ends it.
LEMMA AskWalk ==
    ASSUME TypeInv, TypeInv', WalkInv, NEW c \in Conns \ {"link"}, NEW q,
           RequireAuth(c, q), UNCHANGED owed
    PROVE  WalkInv'
  <1>1. CASE req' = Abandoned /\ page' = Blank("login")
    <2>1. page'.kind = "login"
      BY <1>1, BlankFields
    <2> QED BY <1>1, <2>1, WalkLogin DEF StripeTables
  <1>2. CASE req' = [req EXCEPT ![c] = q] /\ UNCHANGED page
    <2>1. PICK l : l = req["link"]
      OBVIOUS
    <2>2. req'["link"] = l
      BY <1>2, <2>1, ConnsFacts DEF TypeInv, Reqs
    <2>3. pulled \subseteq pulled'
      BY DEF RequireAuth, tableVars
    <2> QED BY <1>2, <2>1, <2>2, <2>3, WalkSame
  <1> QED BY <1>1, <1>2 DEF RequireAuth

LEMMA ClickWalk ==
    ASSUME TypeInv, TypeInv', WalkInv, Click \/ SyncStatus
    PROVE  WalkInv'
  <1>0. PICK one \in Nat \ {0} : one = 1
    OBVIOUS
  <1>a. PICK no \in BOOLEAN : no = FALSE
    OBVIOUS
  <1>b. PICK yes \in BOOLEAN : yes = TRUE
    OBVIOUS
  <1>1. ASSUME NEW op \in Tables \cup {"sync", "dashboard", "settings"}, Open(op)
        PROVE  WalkInv'
    <2>1. op \in PageOps
      BY DEF PageOps
    <2>2. Navigate(op, one, no)
      BY <1>0, <1>a, <1>1, Zenon DEF Open
    <2> QED BY <1>a, <2>1, <2>2, NavigateWalk
  <1>2. ASSUME NextPage PROVE WalkInv'
    <2>1. page.next /\ Navigate(page.kind, page.n + 1, TRUE)
      BY <1>2, Zenon DEF NextPage
    <2>2. PICK op \in PageOps : op = page.kind
      BY <2>1 DEF TypeInv, TablesInv, PageOps
    <2>3. PICK n \in Nat \ {0} : n = page.n + 1
      BY DEF TypeInv, TypeOK
    <2>4. Navigate(op, n, yes)
      BY <1>b, <2>1, <2>2, <2>3, Zenon
    <2> QED BY <2>1, <2>2, <2>3, <2>4, NavigateWalk
  <1>3. ASSUME PreviousPage PROVE WalkInv'
    <2>1. PICK op \in PageOps : op = page.kind
      BY <1>3 DEF PreviousPage, PageOps
    <2>2. PICK n \in Nat \ {0} : n = page.n - 1
      BY <1>3 DEF PreviousPage, TypeInv, TypeOK
    <2>3. Navigate(page.kind, page.n - 1, FALSE)
      BY <1>3, Zenon DEF PreviousPage
    <2>4. Navigate(op, n, no)
      BY <1>a, <2>1, <2>2, <2>3, Zenon
    <2> QED BY <1>a, <2>4, NavigateWalk
  <1>c. "poll" \in Conns \ {"link"} /\ Buttons \cup Tabs \subseteq Conns \ {"link"}
    BY ConnsFacts, ConnsAssumption
  <1>4. ASSUME SyncStatus PROVE WalkInv'
    <2>1. PICK c, q : c = "poll" /\ q = Request("status", 1, FALSE)
      OBVIOUS
    <2>2. RequireAuth(c, q) /\ UNCHANGED owed
      BY <1>4, <2>1, Zenon DEF SyncStatus
    <2> QED BY <1>c, <2>1, <2>2, AskWalk
  <1>5. ASSUME NEW b \in Buttons, SyncFortnox(b) PROVE WalkInv'
    <2>1. PICK q : q = Request("status", 1, FALSE)
      OBVIOUS
    <2>2. RequireAuth(b, q) /\ UNCHANGED owed
      BY <1>5, <2>1, Zenon DEF SyncFortnox
    <2> QED BY <1>c, <2>2, AskWalk
  <1>6. ASSUME NEW c \in Buttons \cup Tabs, NEW p \in Rows, Retry(c, p)
        PROVE  WalkInv'
    <2>1. PICK q : RequireAuth(c, q)
      BY <1>6, RetrySplits
    <2>2. UNCHANGED owed
      BY <1>6 DEF Retry
    <2> QED BY <1>c, <2>1, <2>2, AskWalk
  <1>7. ASSUME NEW b \in BOOLEAN, SaveSyncFromDate(b) PROVE WalkInv'
    <2>1. \/ UNCHANGED <<page, req, owed, tableVars>>
          \/ /\ page.kind = "settings" /\ req' = Abandoned
             /\ page' = page \/ page' = Blank("login")
      BY <1>7 DEF SaveSyncFromDate
    <2>2. CASE UNCHANGED <<page, req, owed, tableVars>>
      <3>1. PICK l : l = req["link"] /\ l = req'["link"]
        BY <2>2
      <3> QED BY <2>2, <3>1, WalkSame DEF tableVars
    <2>3. CASE page.kind = "settings" /\ req' = Abandoned
               /\ (page' = page \/ page' = Blank("login"))
      <3>1. page'.kind \in {"settings", "login"}
        BY <2>3, BlankFields
      <3> QED BY <2>3, <3>1, WalkLogin DEF StripeTables
    <2> QED BY <2>1, <2>2, <2>3
  <1>8. ASSUME LoginPost PROVE WalkInv'
    <2>1. PICK r : r = Request("dashboard", 1, FALSE)
      OBVIOUS
    <2>2. r.op = "dashboard"
      BY <2>1, NoRequestFields DEF Request, Fields
    <2>3. page.kind = "login" /\ UNCHANGED page /\ req' = [req EXCEPT !["link"] = r]
      BY <1>8, <2>1, Zenon DEF LoginPost
    <2>4. req'["link"] = r
      BY <2>3, ConnsFacts DEF TypeInv, Reqs
    <2> QED BY <2>2, <2>3, <2>4, WalkIdle DEF StripeTables
  <1>9. ASSUME Logout PROVE WalkInv'
    BY <1>9, BlankFields, WalkLogin DEF Logout, StripeTables
  <1> QED BY <1>1, <1>2, <1>3, <1>4, <1>5, <1>6, <1>7, <1>8, <1>9,
             LinksAssumption, UserAssumption, Zenon DEF Click

\* The rows of the page that was asked for.
LEMMA RowsRead ==
    ASSUME NEW S \in SUBSET Nat, IsFiniteSet(S), NEW r, r.n \in Nat \ {0},
           NEW o, AskedFirst(r, o, S), NEW x, x = Newest(S, Offset(r.n)),
           NEW o2, o2 = (IF r.n = 1 THEN S ELSE o) \ x
    PROVE  /\ o2 \subseteq Beyond(S, r.n)
           /\ o2 # {} \/ r.link => x # {}
  <1>1. PICK n \in Nat \ {0} : n = r.n
    OBVIOUS
  <1>2. /\ Beyond(S, n - 1) \ Newest(S, Offset(n)) \subseteq Beyond(S, n)
        /\ S \ Newest(S, Offset(1)) \subseteq Beyond(S, 1)
        /\ Offset(n) \in Nat
    BY BeyondPage
  <1>3. o2 \subseteq Beyond(S, n)
    <2>1. CASE n = 1
      <3>1. Offset(n) = Offset(1)
        BY <2>1
      <3> QED BY <1>1, <1>2, <2>1, <3>1
    <2>2. CASE n # 1
      <3>1. o \subseteq Beyond(S, n - 1)
        BY <1>1, <2>2 DEF AskedFirst
      <3> QED BY <1>1, <1>2, <2>2, <3>1
    <2> QED BY <2>1, <2>2
  <1>4. Cardinality(S) \in Nat /\ PageSize \in Nat \ {0}
    BY FS_CardinalityType, RowsAssumption
  <1>5. o2 # {} => Offset(n) < Cardinality(S)
    <2>1. o2 # {} => n * PageSize < Cardinality(S)
      BY <1>3, BeyondCount
    <2>2. n * PageSize = Offset(n) + PageSize
      BY <1>4 DEF Offset
    <2> QED BY <1>2, <1>4, <2>1, <2>2
  <1>6. r.link => Offset(n) < Cardinality(S)
    BY <1>1 DEF AskedFirst, Offset
  <1>7. Offset(n) < Cardinality(S) => x # {}
    BY <1>1, <1>2, NewestSome
  <1> QED BY <1>1, <1>3, <1>5, <1>6, <1>7

LEMMA ReadWalk ==
    ASSUME TypeInv, WalkInv, Read("link")
    PROVE  WalkInv'
  <1>1. PICK r, o, o2, q, p : /\ r = req["link"] /\ o = owed /\ o2 = owed'
                              /\ q = req'["link"] /\ p = page
    OBVIOUS
  <1>0. /\ r.todo # <<>>
        /\ ReadFailed("link") \/ \E result \in Results(r, Head(r.todo)) :
                                     Found("link", Head(r.todo), result)
        /\ UNCHANGED <<tableVars, dated, page>>
    BY <1>1, ReadSplits
  <1>2. ReqType(r)
    BY <1>1, ConnsFacts DEF TypeInv, Reqs
  <1>3. r = [f \in Fields |-> r[f]] /\ r.op \in PageOps \cup {"retry", "none"}
        /\ r.todo \in Rests(r.op)
    BY <1>2 DEF ReqType
  <1>4. r.op # "none"
    BY <1>0, <1>3 DEF Rests, Tables, StripeTables
  <1>5. \/ q = [[r EXCEPT !.todo = Tail(r.todo)] EXCEPT !.failed = TRUE] /\ o2 = {}
        \/ \E result \in Results(r, Head(r.todo)) :
               /\ q = [[r EXCEPT !.todo = Tail(r.todo)]
                          EXCEPT !.got = [r.got EXCEPT ![Head(r.todo)] = result]]
               /\ o2 = IF Head(r.todo) = "rows" /\ r.op \in StripeTables
                       THEN (IF r.n = 1 THEN Table(r.op) ELSE o) \ result
                       ELSE o
    <2>1. ASSUME ReadFailed("link")
          PROVE  q = [[r EXCEPT !.todo = Tail(r.todo)] EXCEPT !.failed = TRUE] /\ o2 = {}
      BY <1>1, <2>1, ConnsFacts DEF ReadFailed, TypeInv, Reqs
    <2>2. ASSUME NEW x \in Results(r, Head(r.todo)), Found("link", Head(r.todo), x)
          PROVE  /\ q = [[r EXCEPT !.todo = Tail(r.todo)]
                            EXCEPT !.got = [r.got EXCEPT ![Head(r.todo)] = x]]
                 /\ o2 = IF Head(r.todo) = "rows" /\ r.op \in StripeTables
                         THEN (IF r.n = 1 THEN Table(r.op) ELSE o) \ x
                         ELSE o
      BY <1>1, <2>2, ConnsFacts DEF Found, TypeInv, Reqs
    <2> QED BY <1>0, <2>1, <2>2
  <1>6. q.op = r.op
    <2>1. ASSUME q = [[r EXCEPT !.todo = Tail(r.todo)] EXCEPT !.failed = TRUE]
          PROVE  q.op = r.op
      BY <1>3, <2>1 DEF Fields
    <2>2. ASSUME NEW g, q = [[r EXCEPT !.todo = Tail(r.todo)] EXCEPT !.got = g]
          PROVE  q.op = r.op
      BY <1>3, <2>2 DEF Fields
    <2> QED BY <1>5, <2>1, <2>2
  <1>7. ASSUME p.kind \in StripeTables PROVE Shown(p, q.op, o2, Table(p.kind))
    <2>1. PICK S, k : S = Table(p.kind) /\ k = r.op
      OBVIOUS
    <2>2. p.next => p.n * PageSize < Cardinality(S)
      BY <1>1, <1>7, <2>1 DEF WalkInv, ShownInv, Shown
    <2>3. Shown(p, k, o2, S)
      BY <1>4, <2>1, <2>2, Zenon DEF Shown
    <2> QED BY <1>6, <2>1, <2>3
  <1>8. ASSUME q.op \in StripeTables => Asked(q, o2, Table(q.op))
        PROVE  WalkInv'
    <2>1. WalkOf(p, q, o2)
      BY <1>7, <1>8, Zenon DEF WalkOf
    <2> QED BY <1>0, <1>1, <2>1, WalkStep
  <1>9. CASE r.op \notin StripeTables
    BY <1>6, <1>8, <1>9
  <1>10. CASE r.op \in StripeTables
    <2>1. PICK S : S = Table(r.op)
      OBVIOUS
    <2>3. Asked(r, o, S)
      BY <1>1, <1>10, <2>1 DEF WalkInv, AskedInv
    <2>4. S \in SUBSET Nat /\ IsFiniteSet(S) /\ Cardinality(S) \in Nat
      BY <1>10, <2>1, TableFacts DEF Tables
    <2>5. r.n \in Nat \ {0} /\ r.got = [t \in Statements |-> r.got[t]]
      BY <1>2, <1>10 DEF ReqType, GotType, Tables
    <2>6. r.todo \in {<<"rows", "count">>, <<"count">>}
      BY <1>0, <1>3, <1>10 DEF Rests, Tables, StripeTables
    <2>7. Listing = <<"rows", "count">>
      BY DEF Listing
    <2>8. /\ r.todo = Listing => Head(r.todo) = "rows" /\ Tail(r.todo) = <<"count">>
          /\ r.todo # Listing => Head(r.todo) = "count" /\ Tail(r.todo) = <<>>
      <3>1. CASE r.todo = <<"rows", "count">>
        BY <2>7, <3>1
      <3>2. CASE r.todo = <<"count">>
        BY <2>7, <3>2
      <3> QED BY <2>6, <3>1, <3>2
    <2>9. Tail(r.todo) # Listing
      <3>1. <<"count">> # Listing /\ <<>> # Listing
        BY <2>7
      <3> QED BY <2>8, <3>1
    <2>10. r.got["count"] <= Cardinality(S)
      BY <2>3 DEF Asked
    <2>11. ASSUME q = [[r EXCEPT !.todo = Tail(r.todo)] EXCEPT !.failed = TRUE],
                  o2 = {}
           PROVE  Asked(q, o2, S)
      <3>1. q.todo = Tail(r.todo) /\ q.got = r.got /\ q.n = r.n
        BY <1>3, <2>11 DEF Fields
      <3>2. q.failed = TRUE
        BY <1>3, <2>11 DEF Fields
      <3>3. o2 \subseteq Beyond(S, q.n)
        BY <2>11
      <3>4. AskedThen(q, o2, S)
        BY <2>11, <3>2, <3>3, Zenon DEF AskedThen
      <3>5. q.got["count"] <= Cardinality(S)
        BY <2>10, <3>1
      <3>6. q.todo # Listing
        BY <2>9, <3>1
      <3> QED BY <2>11, <3>4, <3>5, <3>6, Zenon DEF Asked
    <2>12. ASSUME NEW x \in Results(r, Head(r.todo)), NEW g,
                  g = [r.got EXCEPT ![Head(r.todo)] = x],
                  q = [[r EXCEPT !.todo = Tail(r.todo)] EXCEPT !.got = g],
                  o2 = IF Head(r.todo) = "rows" /\ r.op \in StripeTables
                       THEN (IF r.n = 1 THEN Table(r.op) ELSE o) \ x
                       ELSE o
           PROVE  Asked(q, o2, S)
      <3>1. q.todo = Tail(r.todo) /\ q.got = g /\ q.n = r.n
            /\ q.link = r.link /\ q.failed = r.failed
        BY <1>3, <2>12 DEF Fields
      <3>2. q.todo # Listing
        BY <2>9, <3>1
      <3>3. "rows" \in Statements /\ "count" \in Statements
        BY DEF Statements
      <3>4. CASE r.todo = Listing
        <4>1. AskedFirst(r, o, S)
          BY <2>3, <3>4 DEF Asked
        <4>2. Head(r.todo) = "rows" /\ q.todo = <<"count">>
          BY <2>8, <3>1, <3>4
        <4>3. x = Newest(S, Offset(r.n))
          <5>1. "rows" \in Statements /\ r.op # "vouchers"
            BY <1>10, <3>3 DEF StripeTables
          <5>2. Results(r, "rows") = {Newest(S, Offset(r.n))}
            BY <2>1, <5>1 DEF Results
          <5> QED BY <2>12, <4>2, <5>2
        <4>4. o2 = (IF r.n = 1 THEN S ELSE o) \ x
          BY <1>10, <2>1, <2>12, <4>2
        <4>5. o2 \subseteq Beyond(S, r.n) /\ (o2 # {} \/ r.link => x # {})
          BY <2>4, <2>5, <4>1, <4>3, <4>4, RowsRead
        <4>6. g["rows"] = x /\ g["count"] = r.got["count"]
          BY <2>5, <2>12, <3>3, <4>2
        <4>7. ~q.failed
          BY <3>1, <4>1 DEF AskedFirst
        <4>8. o2 \subseteq Beyond(S, q.n)
          BY <3>1, <4>5
        <4>9. (o2 # {} \/ q.link) => q.got["rows"] # {}
          <5>1. q.link = r.link
            BY <3>1
          <5>2. q.got["rows"] = x
            BY <3>1, <4>6
          <5> QED BY <4>5, <5>1, <5>2
        <4>10. AskedThen(q, o2, S)
          BY <4>7, <4>8, <4>9, Zenon DEF AskedThen
        <4>11. q.got["count"] <= Cardinality(S)
          BY <2>10, <3>1, <4>6
        <4>12. q.todo # <<>>
          BY <4>2
        <4> QED BY <3>2, <4>10, <4>11, <4>12, Zenon DEF Asked
      <3>5. CASE r.todo # Listing
        <4>1. AskedThen(r, o, S)
          BY <2>3, <3>5 DEF Asked
        <4>2. Head(r.todo) = "count"
          BY <2>8, <3>5
        <4>3. x = Cardinality(S)
          <5>1. Results(r, "count") = {Cardinality(S)}
            BY <2>1 DEF Results
          <5> QED BY <2>12, <4>2, <5>1
        <4>4. o2 = o
          BY <2>12, <4>2
        <4>5. g["rows"] = r.got["rows"] /\ g["count"] = x
          BY <2>5, <2>12, <3>3, <4>2
        <4>6. AskedThen(q, o2, S)
          <5>1. q.got["rows"] = r.got["rows"]
            BY <3>1, <4>5
          <5>2. q.n = r.n
            BY <3>1
          <5>3. q.link = r.link
            BY <3>1
          <5>4. q.failed = r.failed
            BY <3>1
          <5> QED BY <4>1, <4>4, <5>1, <5>2, <5>3, <5>4, Zenon DEF AskedThen
        <4>7. q.got["count"] = Cardinality(S)
          BY <3>1, <4>3, <4>5
        <4>8. q.got["count"] <= Cardinality(S)
          BY <2>4, <4>7
        <4>9. o2 # {} => q.n * PageSize < q.got["count"]
          <5>1. PICK n \in Nat : n = r.n
            BY <2>5
          <5>2. o # {} => Beyond(S, n) # {}
            BY <4>1, <5>1 DEF AskedThen
          <5>3. o # {} => n * PageSize < Cardinality(S)
            BY <2>4, <5>2, BeyondCount
          <5> QED BY <3>1, <4>4, <4>7, <5>1, <5>3
        <4> QED BY <3>2, <4>6, <4>8, <4>9, Zenon DEF Asked
      <3> QED BY <3>4, <3>5
    <2>13. Asked(q, o2, S)
      BY <1>5, <2>11, <2>12
    <2> QED BY <1>6, <1>8, <2>1, <2>13
  <1> QED BY <1>9, <1>10

LEMMA RenderWalk ==
    ASSUME TypeInv, OthersInv, WalkInv, Render("link")
    PROVE  WalkInv'
  <1>1. PICK r, o, l, p : r = req["link"] /\ o = owed /\ l = req'["link"] /\ p = page'
    OBVIOUS
  <1>2. /\ r.op \in Tables \cup {"dashboard", "sync", "status", "settings"}
        /\ r.todo = <<>> /\ p = View(r) /\ req' = Abandoned
        /\ UNCHANGED <<tableVars, owed>>
    BY <1>1 DEF Render, Awaits, Swap
  <1>3. ReqType(r)
    BY <1>1, ConnsFacts DEF TypeInv, Reqs
  <1>4. l.op = "none"
    <2>1. PICK A : A = Abandoned
      OBVIOUS
    <2>2. A["link"].op \in {"none", "retry"}
          /\ (A["link"].op = "retry" => r.op = "retry")
      BY <1>1, <1>3, <2>1, ConnsFacts, AbandonedFields
    <2> QED BY <1>1, <1>2, <2>1, <2>2 DEF OthersInv
  <1>5. CASE r.op \in StripeTables
    <2>1. p = List(r)
      BY <1>2, <1>5 DEF View, Tables, StripeTables
    <2>3. p.kind = r.op
      BY <2>1 DEF List, Blank
    <2>4. p.n = r.n
      BY <2>1 DEF List, Blank
    <2>5. p.next <=> r.got["rows"] # {} /\ HasNext(r.n, r.got["count"])
      BY <2>1 DEF List, Blank
    <2>6. PICK S : S = Table(r.op)
      OBVIOUS
    <2>7. Asked(r, o, S)
      BY <1>1, <1>5, <2>6 DEF WalkInv, AskedInv
    <2>8. AskedThen(r, o, S)
      BY <1>2, <2>7 DEF Asked, Listing
    <2>9. /\ r.got["count"] <= Cardinality(S)
          /\ o # {} => r.n * PageSize < r.got["count"]
      BY <1>2, <2>7 DEF Asked
    <2>10. /\ r.n \in Nat /\ r.got["count"] \in Nat /\ Cardinality(S) \in Nat
           /\ PageSize \in Nat
      BY <1>3, <1>5, <2>6, TableFacts, RowsAssumption DEF ReqType, GotType, Tables
    <2>11. p.next => p.n * PageSize < Cardinality(S)
      <3>1. PICK m \in Nat : m = r.n * PageSize
        BY <2>10
      <3>2. p.next => m < r.got["count"]
        BY <2>5, <3>1 DEF HasNext
      <3>3. p.next => m < Cardinality(S)
        BY <2>9, <2>10, <3>2
      <3> QED BY <2>4, <3>1, <3>3
    <2>12. o \subseteq Beyond(S, p.n)
      BY <2>4, <2>8 DEF AskedThen
    <2>13. ~p.next => o = {}
      <3> SUFFICES ASSUME o # {} PROVE p.next
        OBVIOUS
      <3>1. r.got["rows"] # {}
        BY <2>8 DEF AskedThen
      <3>2. HasNext(r.n, r.got["count"])
        BY <2>9 DEF HasNext
      <3> QED BY <2>5, <3>1, <3>2
    <2>14. Shown(p, "none", o, S)
      BY <2>11, <2>12, <2>13, Zenon DEF Shown
    <2>15. WalkOf(p, l, o)
      <3>1. Shown(p, l.op, o, Table(p.kind))
        BY <1>4, <2>3, <2>6, <2>14, Zenon
      <3>2. l.op \notin StripeTables
        BY <1>4 DEF StripeTables
      <3> QED BY <3>1, <3>2, Zenon DEF WalkOf
    <2>16. page' = p /\ req'["link"] = l /\ owed' = o /\ UNCHANGED tableVars
      BY <1>1, <1>2
    <2> QED BY <2>15, <2>16, WalkStep
  <1>6. CASE r.op \notin StripeTables
    <2>1. p.kind \in {"vouchers", "dashboard", "sync", "settings"}
      <3>1. CASE r.op = "vouchers"
        BY <1>2, <3>1 DEF View, List, Blank, Tables, StripeTables
      <3>2. CASE r.op = "dashboard"
        BY <1>2, <3>2 DEF View, DashboardView, Blank, Tables, StripeTables
      <3>3. CASE r.op \in {"sync", "status"}
        BY <1>2, <3>3, SyncView
      <3>4. CASE r.op = "settings"
        BY <1>2, <3>4 DEF View, Blank, Tables, StripeTables
      <3> QED BY <1>2, <1>6, <3>1, <3>2, <3>3, <3>4 DEF Tables
    <2> QED BY <1>1, <1>4, <2>1, WalkIdle DEF StripeTables
  <1> QED BY <1>5, <1>6

\* What is beside the navigation leaves it alone.
LEMMA ServeWalk ==
    ASSUME TypeInv, TypeInv', OthersInv, WalkInv, NEW c \in Conns \ {"link"},
           Serve(c)
    PROVE  WalkInv'
  <1>1. PICK l, r : l = req["link"] /\ r = req[c]
    OBVIOUS
  <1>2. Beside(page, r) /\ \A q : [req EXCEPT ![c] = q]["link"] = l
    BY <1>1, ConnsFacts DEF OthersInv, TypeInv, Reqs
  <1>3. r.op \notin Tables
    BY <1>2 DEF Beside, Tables, StripeTables
  <1>4. ASSUME Read(c) PROVE WalkInv'
    <2>1. UNCHANGED <<tableVars, page>>
      BY <1>4, ReadSplits
    <2>2. owed' = owed /\ req'["link"] = l
      <3>1. ASSUME ReadFailed(c) PROVE owed' = owed /\ req'["link"] = l
        BY <1>2, <3>1 DEF ReadFailed
      <3>2. ASSUME NEW s, NEW x, Found(c, s, x)
            PROVE  owed' = owed /\ req'["link"] = l
        BY <1>1, <1>2, <1>3, <3>2 DEF Found, Tables
      <3> QED BY <1>4, <3>1, <3>2, ReadSplits
    <2> QED BY <1>1, <2>1, <2>2, WalkSame DEF tableVars
  <1>5. ASSUME Render(c) PROVE WalkInv'
    <2>1. /\ r.op \in Tables \cup {"dashboard", "sync", "status", "settings"}
          /\ page' = View(r)
          /\ req' = [Abandoned EXCEPT !["link"] = l] \/ req' = [req EXCEPT ![c] = NoRequest]
          /\ UNCHANGED <<tableVars, owed>>
      BY <1>1, <1>5 DEF Render, Awaits, Swap
    <2>2. r.op \in {"sync", "status"}
      BY <1>2, <2>1 DEF Beside, Tables, StripeTables
    <2>3. page'.kind = "sync"
      BY <2>1, <2>2, SyncView
    <2>4. req'["link"] = l
      <3>1. [Abandoned EXCEPT !["link"] = l]["link"] = l
        <4>1. PICK A : A = Abandoned
          OBVIOUS
        <4>2. A = [d \in Conns |-> A[d]]
          BY <4>1 DEF Abandoned
        <4> QED BY <4>1, <4>2, ConnsFacts
      <3> QED BY <1>2, <2>1, <3>1
    <2>5. page'.kind \notin StripeTables
      BY <2>3 DEF StripeTables
    <2> QED BY <1>1, <2>1, <2>4, <2>5, WalkSame DEF tableVars
  <1>6. ASSUME DeletePending(c) PROVE WalkInv'
    <2>1. PICK a : Spares(c, a) \/ Deletes(c, a)
      BY <1>6, DeleteSplits
    <2>2. UNCHANGED <<pulled, page, owed>>
      BY <1>6, DeleteSplits
    <2>3. CASE Spares(c, a)
      <3>1. req'["link"] = l
        BY <1>2, <2>3 DEF Spares
      <3> QED BY <1>1, <2>2, <3>1, WalkSame
    <2>4. CASE Deletes(c, a)
      <3>1. PICK n, D : n = r.n /\ D = Deleted(n)
        OBVIOUS
      <3>2. D = [d \in Conns |-> D[d]]
        BY <3>1 DEF Deleted
      <3>3. PICK q : q = D["link"]
        OBVIOUS
      <3>4. req'["link"] = q
        BY <1>1, <2>4, <3>1, <3>2, <3>3, ConnsFacts DEF Deletes
      <3>5. /\ q.op = l.op /\ q.n = l.n /\ q.link = l.link
            /\ q.todo = l.todo /\ q.got = l.got /\ q.failed = l.failed
        <4>1. ReqType(req["link"]) /\ q = Deleted(n)["link"]
          BY <3>1, <3>3, ConnsFacts DEF TypeInv, Reqs
        <4> QED BY <1>1, <4>1, ConnsFacts, DeletedFields
      <3> QED BY <1>1, <2>2, <3>4, <3>5, WalkSame
    <2> QED BY <2>1, <2>3, <2>4
  <1> QED BY <1>4, <1>5, <1>6 DEF Serve

\* A navigation is never a retry.
LEMMA LinkWalk ==
    ASSUME TypeInv, OthersInv, WalkInv, Serve("link")
    PROVE  WalkInv'
  <1>1. ~DeletePending("link")
    BY DeleteSplits DEF OthersInv
  <1> QED BY <1>1, ReadWalk, RenderWalk DEF Serve

LEMMA PassWalk ==
    ASSUME TypeInv, WalkInv, TypeInv', NEW r \in Rows,
           Pull(r) \/ Invoice(r) \/ Reserve(r) \/ Confirm(r)
    PROVE  WalkInv'
  <1>1. UNCHANGED <<page, owed>> /\ pulled \subseteq pulled'
        /\ (UNCHANGED req \/ Settle(r))
    BY DEF Pull, Invoice, Reserve, Confirm, browserVars
  <1>2. PICK l, q, w : l = req["link"] /\ q = req'["link"] /\ w = l.due \ {r}
    OBVIOUS
  <1>3. l = [f \in Fields |-> l[f]]
    BY <1>2, ConnsFacts DEF TypeInv, Reqs, ReqType
  <1>4. q = l \/ q = [l EXCEPT !.due = w]
    BY <1>1, <1>2, ConnsFacts DEF Settle
  <1>5. /\ q.op = l.op /\ q.n = l.n /\ q.link = l.link
        /\ q.todo = l.todo /\ q.got = l.got /\ q.failed = l.failed
    <2>1. CASE q = l
      BY <2>1
    <2>2. CASE q = [l EXCEPT !.due = w]
      BY <1>3, <2>2 DEF Fields
    <2> QED BY <1>4, <2>1, <2>2
  <1> QED BY <1>1, <1>2, <1>5, WalkSame

LEMMA RestartWalk ==
    ASSUME TypeInv, WalkInv, Restart
    PROVE  WalkInv'
  <1>1. PICK l, p, o : l = NoRequest /\ p = page /\ o = {}
    OBVIOUS
  <1>2. page' = p /\ req'["link"] = l /\ owed' = o /\ UNCHANGED tableVars
    BY <1>1, ConnsFacts DEF Restart
  <1>3. ASSUME p.kind \in StripeTables PROVE Shown(p, l.op, o, Table(p.kind))
    <2>1. PICK S : S = Table(p.kind)
      OBVIOUS
    <2>2. p.next => p.n * PageSize < Cardinality(S)
      BY <1>1, <1>3, <2>1 DEF WalkInv, ShownInv, Shown
    <2>3. o = {} /\ o \subseteq Beyond(S, p.n)
      BY <1>1
    <2>4. Shown(p, l.op, o, S)
      BY <2>2, <2>3, Zenon DEF Shown
    <2> QED BY <2>1, <2>4
  <1>4. l.op \notin StripeTables
    BY <1>1, NoRequestFields DEF StripeTables
  <1>5. WalkOf(p, l, o)
    BY <1>3, <1>4, Zenon DEF WalkOf
  <1> QED BY <1>2, <1>5, WalkStep

LEMMA WalkInit ==
    Init => WalkInv
  <1> SUFFICES ASSUME Init PROVE WalkInv
    OBVIOUS
  <1>1. page.kind = "login" /\ req["link"].op = "none"
    BY BlankFields, NoRequestFields, ConnsFacts DEF Init
  <1> QED BY <1>1 DEF WalkInv, ShownInv, AskedInv, StripeTables

LEMMA WalkNext ==
    TypeInv /\ OthersInv /\ WalkInv /\ [Next]_vars => WalkInv'
  <1> SUFFICES ASSUME TypeInv, OthersInv, WalkInv, [Next]_vars PROVE WalkInv'
    OBVIOUS
  <1>1. TypeInv'
    BY TypeNext
  <1>2. CASE UNCHANGED vars
    <2>1. UNCHANGED <<page, owed, req, pulled>>
      BY <1>2 DEF vars
    <2>2. PICK l : l = req["link"] /\ l = req'["link"]
      BY <2>1
    <2> QED BY <1>1, <2>1, <2>2, WalkSame
  <1> QED BY <1>1, <1>2, ClickWalk, LinkWalk, ServeWalk, PassWalk, RestartWalk
         DEF Next
-----------------------------------------------------------------------------
(* What the sync page shows *)

\* The statements left are a sequence.
LEMMA RestType ==
    ASSUME NEW op \in {"sync", "status"}, NEW todo \in Rests(op), todo # <<>>
    PROVE  todo \in Seq(Statements)
  <1>1. CASE op = "sync"
    <2>1. Rests(op) = {<<"charges", "payouts", "pending", "first">>,
                       <<"payouts", "pending", "first">>,
                       <<"pending", "first">>, <<"first">>, <<>>}
      BY <1>1 DEF Rests, Tables, StripeTables
    <2>2. <<"charges", "payouts", "pending", "first">> \in Seq(Statements)
      BY DEF Statements
    <2>3. <<"payouts", "pending", "first">> \in Seq(Statements)
      BY DEF Statements
    <2>4. <<"pending", "first">> \in Seq(Statements)
      BY DEF Statements
    <2>5. <<"first">> \in Seq(Statements)
      BY DEF Statements
    <2> QED BY <2>1, <2>2, <2>3, <2>4, <2>5
  <1>2. CASE op = "status"
    <2>1. Rests(op) =
              {<<"charges", "payouts", "pending", "first", "date">>,
               <<"payouts", "pending", "first", "date">>,
               <<"pending", "first", "date">>,
               <<"first", "date">>, <<"date">>, <<>>}
      BY <1>2 DEF Rests, Tables, StripeTables
    <2>2. <<"charges", "payouts", "pending", "first", "date">> \in Seq(Statements)
      BY DEF Statements
    <2>3. <<"payouts", "pending", "first", "date">> \in Seq(Statements)
      BY DEF Statements
    <2>4. <<"pending", "first", "date">> \in Seq(Statements)
      BY DEF Statements
    <2>5. <<"first", "date">> \in Seq(Statements)
      BY DEF Statements
    <2>6. <<"date">> \in Seq(Statements)
      BY DEF Statements
    <2> QED BY <2>1, <2>2, <2>3, <2>4, <2>5, <2>6
  <1> QED BY <1>1, <1>2

\* What has been read is not left, but for the statement that comes next.
LEMMA HasTail ==
    ASSUME NEW op \in {"sync", "status"}, NEW todo \in Rests(op), todo # <<>>
    PROVE  /\ Has(Tail(todo), "charges") =>
                  Has(todo, "charges") \/ Head(todo) = "charges"
           /\ Has(Tail(todo), "payouts") =>
                  Has(todo, "payouts") \/ Head(todo) = "payouts"
           /\ Has(Tail(todo), "pending") =>
                  Has(todo, "pending") \/ Head(todo) = "pending"
           /\ Head(todo) = "pending" => Has(todo, "payouts")
  <1>1. todo \in Seq(Statements)
    BY RestType
  <1>2. ASSUME NEW s, Has(Tail(todo), s)
        PROVE  Has(todo, s) \/ Head(todo) = s
    <2> SUFFICES ASSUME NEW i \in DOMAIN todo, todo[i] = s, Head(todo) # s
                 PROVE  FALSE
      BY DEF Has
    <2>1. i # 1 /\ i - 1 \in DOMAIN Tail(todo) /\ Tail(todo)[i - 1] = todo[i]
      BY <1>1
    <2> QED BY <1>2, <2>1 DEF Has
  <1>3. Head(todo) = "pending" => Has(todo, "payouts")
    <2>1. ASSUME Head(todo) = "pending"
          PROVE  todo \in {<<"pending", "first">>, <<"pending", "first", "date">>}
      <3>1. todo[1] = "pending"
        BY <1>1, <2>1
      <3> QED BY <3>1 DEF Rests, Tables, StripeTables
    <2>2. Has(<<"pending", "first">>, "payouts")
      BY DEF Has
    <2>3. Has(<<"pending", "first", "date">>, "payouts")
      BY DEF Has
    <2> QED BY <2>1, <2>2, <2>3
  <1> QED BY <1>2, <1>3

\* The pending vouchers are read after the payouts.
LEMMA PayoutsFirst ==
    ASSUME NEW op \in {"sync", "status"}, NEW todo \in Rests(op), todo # <<>>,
           Has(todo, "pending")
    PROVE  Head(todo) # "payouts"
  <1> SUFFICES ASSUME Head(todo) = "payouts" PROVE FALSE
    OBVIOUS
  <1>1. todo \in Seq(Statements)
    BY RestType
  <1>2. todo[1] = "payouts"
    BY <1>1
  <1>3. todo \in {<<"payouts", "pending", "first">>,
                  <<"payouts", "pending", "first", "date">>}
    BY <1>2 DEF Rests, Tables, StripeTables
  <1>4. todo[2] = "pending" /\ 2 \in DOMAIN todo
    <2>1. CASE todo = <<"payouts", "pending", "first">>
      BY <2>1
    <2>2. CASE todo = <<"payouts", "pending", "first", "date">>
      BY <2>2
    <2> QED BY <1>3, <2>1, <2>2
  <1> QED BY <1>4 DEF Has

\* A page that is asked for has read nothing.
LEMMA NothingRead ==
    ASSUME NEW op \in {"sync", "status"}
    PROVE  /\ ~Has(Handler(op), "charges")
           /\ ~Has(Handler(op), "payouts")
           /\ ~Has(Handler(op), "pending")
  <1>1. ~Has(SyncPage, "charges") /\ ~Has(SyncPage, "payouts") /\ ~Has(SyncPage, "pending")
    <2>1. SyncPage[1] = "charges" /\ SyncPage[2] = "payouts" /\ SyncPage[3] = "pending"
          /\ DOMAIN SyncPage = 1..4
      BY DEF SyncPage
    <2> QED BY <2>1 DEF Has
  <1>2. ~Has(RenderSyncStatus, "charges") /\ ~Has(RenderSyncStatus, "payouts")
        /\ ~Has(RenderSyncStatus, "pending")
    <2>1. /\ RenderSyncStatus[1] = "charges" /\ RenderSyncStatus[2] = "payouts"
          /\ RenderSyncStatus[3] = "pending" /\ DOMAIN RenderSyncStatus = 1..5
      BY DEF RenderSyncStatus
    <2> QED BY <2>1 DEF Has
  <1> QED BY <1>1, <1>2 DEF Handler, Tables, StripeTables

\* What is due is a charge that succeeded or a payout that is paid.
LEMMA DueFacts ==
    ASSUME TypeInv, NEW c \in Conns, NEW r \in req[c].due
    PROVE  \/ TableOf[r] = "charges" /\ r \in UnsyncedCharges
           \/ TableOf[r] = "payouts" /\ r \in UnsyncedPayouts \cup PendingVouchers
  <1>1. r \in Unsettled /\ vouchers \subseteq Table("payouts") \cap Ready
    BY DEF TypeInv, TypeOK, TablesInv
  <1> QED BY <1>1 DEF Unsettled, UnsyncedCharges, UnsyncedPayouts,
                      PendingVouchers, Table

\* The next requests and rows, named.
LEMMA HiddenNamed ==
    ASSUME NEW R, req' = R, NEW v, vouchers' = v,
           \A c \in Conns : HiddenAt(R[c], v)
    PROVE  HiddenInv'
  BY DEF HiddenInv, HiddenAt, Listed

\* Less is due, and a row that is due and was not deleted stays.
LEMMA HiddenLess ==
    ASSUME NEW q, NEW p, NEW v, NEW w, HiddenAt(q, v),
           p.op = q.op, p.todo = q.todo, p.got = q.got, p.failed = q.failed,
           p.due \ p.raced \subseteq q.due \ q.raced,
           \A r \in p.due \ p.raced : r \in v => r \in w
    PROVE  HiddenAt(p, w)
  <1> SUFFICES ASSUME p.op \in {"sync", "status"}, ~p.failed
               PROVE  Listed(p, w)
    BY DEF HiddenAt
  <1>1. q.op \in {"sync", "status"} /\ q.failed = p.failed
    OBVIOUS
  <1>2. Listed(q, v)
    BY <1>1, Zenon DEF HiddenAt
  <1>3. p.todo = q.todo /\ p.got = q.got
    OBVIOUS
  <1> QED BY <1>2, <1>3 DEF Listed

\* Nothing was read yet, or the request is for another page.
LEMMA HiddenStart ==
    ASSUME NEW p, p.op \in {"sync", "status"} => p.todo = Handler(p.op), NEW v
    PROVE  HiddenAt(p, v)
  <1> SUFFICES ASSUME p.op \in {"sync", "status"} PROVE Listed(p, v)
    BY DEF HiddenAt
  <1>1. PICK op \in {"sync", "status"} : op = p.op /\ p.todo = Handler(op)
    OBVIOUS
  <1> QED BY <1>1, NothingRead DEF Listed

LEMMA HiddenPut ==
    ASSUME TypeInv, HiddenInv, NEW c \in Conns, NEW q,
           req' = [req EXCEPT ![c] = q], UNCHANGED vouchers, HiddenAt(q, vouchers)
    PROVE  HiddenInv'
  <1>1. PICK R, v : R = req' /\ v = vouchers
    OBVIOUS
  <1>2. \A d \in Conns : R[d] = IF d = c THEN q ELSE req[d]
    BY <1>1 DEF TypeInv, Reqs
  <1>3. ASSUME NEW d \in Conns PROVE HiddenAt(R[d], v)
    <2>1. CASE d = c
      BY <1>1, <1>2, <2>1
    <2>2. CASE d # c
      BY <1>1, <1>2, <2>2 DEF HiddenInv
    <2> QED BY <2>1, <2>2
  <1> QED BY <1>1, <1>3, HiddenNamed

LEMMA HiddenAbandoned ==
    ASSUME TypeInv, HiddenInv, UNCHANGED vouchers,
           req' = Abandoned \/ req' = [Abandoned EXCEPT !["link"] = req["link"]]
    PROVE  HiddenInv'
  <1>1. PICK R, v, A : R = req' /\ v = vouchers /\ A = Abandoned
    OBVIOUS
  <1>2. A = [c \in Conns |-> A[c]]
    BY <1>1 DEF Abandoned
  <1>3. ASSUME NEW d \in Conns PROVE HiddenAt(R[d], v)
    <2>1. A[d].op \in {"none", "retry"}
      BY <1>1, AbandonedFields DEF TypeInv, Reqs
    <2>2. HiddenAt(A[d], v)
      BY <2>1 DEF HiddenAt
    <2>3. R[d] = A[d] \/ R[d] = req[d]
      BY <1>1, <1>2
    <2>4. HiddenAt(req[d], v)
      BY <1>1 DEF HiddenInv
    <2> QED BY <2>2, <2>3, <2>4
  <1> QED BY <1>1, <1>3, HiddenNamed

LEMMA AskHidden ==
    ASSUME TypeInv, HiddenInv, NEW c \in Conns, NEW q, RequireAuth(c, q),
           q.op \in {"sync", "status"} => q.todo = Handler(q.op)
    PROVE  HiddenInv'
  <1>1. UNCHANGED vouchers
    BY DEF RequireAuth, tableVars
  <1>2. HiddenAt(q, vouchers)
    BY HiddenStart
  <1>3. CASE req' = Abandoned
    BY <1>1, <1>3, HiddenAbandoned
  <1>4. CASE req' = [req EXCEPT ![c] = q]
    BY <1>1, <1>2, <1>4, HiddenPut
  <1> QED BY <1>3, <1>4 DEF RequireAuth

\* What a request for a page has left when it is made.
LEMMA RequestTodo ==
    ASSUME NEW op \in PageOps \cup {"retry"}, NEW n, NEW link,
           NEW r, r = Request(op, n, link)
    PROVE  r.op = op /\ r.todo = Handler(op)
  BY NoRequestFields DEF Request, Fields

LEMMA RequestHidden ==
    ASSUME TypeInv, HiddenInv, NEW c \in Conns, NEW op \in PageOps,
           NEW n, NEW link, RequireAuth(c, Request(op, n, link))
    PROVE  HiddenInv'
  <1>1. PICK q : q = Request(op, n, link)
    OBVIOUS
  <1>2. q.op = op /\ q.todo = Handler(op)
    BY <1>1, RequestTodo
  <1>3. RequireAuth(c, q)
    BY <1>1, Zenon
  <1> QED BY <1>2, <1>3, AskHidden

LEMMA ClickHidden ==
    ASSUME TypeInv, HiddenInv, Click \/ SyncStatus
    PROVE  HiddenInv'
  <1>1. ASSUME NEW op \in PageOps, NEW n, NEW link, Navigate(op, n, link)
        PROVE  HiddenInv'
    <2>1. RequireAuth("link", Request(op, n, link))
      BY <1>1, Zenon DEF Navigate
    <2> QED BY <2>1, ConnsFacts, RequestHidden
  <1>2. ASSUME NEW op \in Tables \cup {"sync", "dashboard", "settings"}, Open(op)
        PROVE  HiddenInv'
    <2>1. op \in PageOps
      BY DEF PageOps
    <2>2. Navigate(op, 1, FALSE)
      BY <1>2, Zenon DEF Open
    <2> QED BY <1>1, <2>1, <2>2, Zenon
  <1>3. ASSUME NextPage PROVE HiddenInv'
    <2>1. page.next /\ Navigate(page.kind, page.n + 1, TRUE)
      BY <1>3, Zenon DEF NextPage
    <2>2. page.kind \in PageOps
      BY <2>1 DEF TypeInv, TablesInv, PageOps
    <2> QED BY <1>1, <2>1, <2>2, Zenon
  <1>4. ASSUME PreviousPage PROVE HiddenInv'
    <2>1. page.kind \in Tables /\ Navigate(page.kind, page.n - 1, FALSE)
      BY <1>4, Zenon DEF PreviousPage
    <2>2. page.kind \in PageOps
      BY <2>1 DEF PageOps
    <2> QED BY <1>1, <2>1, <2>2, Zenon
  <1>s. "status" \in PageOps
    BY DEF PageOps
  <1>5. ASSUME SyncStatus PROVE HiddenInv'
    <2>1. RequireAuth("poll", Request("status", 1, FALSE))
      BY <1>5, Zenon DEF SyncStatus
    <2> QED BY <1>s, <2>1, ConnsFacts, RequestHidden
  <1>6. ASSUME NEW b \in Buttons, SyncFortnox(b) PROVE HiddenInv'
    <2>1. RequireAuth(b, Request("status", 1, FALSE)) /\ b \in Conns
      BY <1>6, ConnsFacts, Zenon DEF SyncFortnox
    <2> QED BY <1>s, <2>1, RequestHidden
  <1>7. ASSUME NEW c \in Buttons \cup Tabs, NEW p \in Rows, Retry(c, p)
        PROVE  HiddenInv'
    <2>1. PICK q : q.op = "retry" /\ RequireAuth(c, q)
      BY <1>7, RetrySplits
    <2> QED BY <2>1, ConnsFacts, AskHidden
  <1>8. ASSUME NEW b \in BOOLEAN, SaveSyncFromDate(b) PROVE HiddenInv'
    <2>1. UNCHANGED vouchers /\ (UNCHANGED req \/ req' = Abandoned)
      BY <1>8 DEF SaveSyncFromDate, tableVars
    <2>2. CASE UNCHANGED req
      <3>1. PICK R, v : R = req' /\ R = req /\ v = vouchers' /\ v = vouchers
        BY <2>1, <2>2
      <3> QED BY <3>1, HiddenNamed DEF HiddenInv
    <2> QED BY <2>1, <2>2, HiddenAbandoned
  <1>9. ASSUME LoginPost PROVE HiddenInv'
    <2>1. PICK q : q = Request("dashboard", 1, FALSE)
      OBVIOUS
    <2>2. q.op = "dashboard"
      BY <2>1, NoRequestFields DEF Request, Fields
    <2>3. req' = [req EXCEPT !["link"] = q] /\ UNCHANGED vouchers
      BY <1>9, <2>1, Zenon DEF LoginPost, tableVars
    <2>4. HiddenAt(q, vouchers)
      BY <2>2 DEF HiddenAt
    <2> QED BY <2>3, <2>4, ConnsFacts, HiddenPut
  <1>10. ASSUME Logout PROVE HiddenInv'
    BY <1>10, HiddenAbandoned DEF Logout, tableVars
  <1> QED BY <1>2, <1>3, <1>4, <1>5, <1>6, <1>7, <1>8, <1>9, <1>10,
             LinksAssumption, UserAssumption, Zenon DEF Click

\* The lists are read in an order that leaves nothing out.
LEMMA ReadHidden ==
    ASSUME TypeInv, HiddenInv, NEW c \in Conns, Read(c)
    PROVE  HiddenInv'
  <1>1. PICK r, v : r = req[c] /\ v = vouchers
    OBVIOUS
  <1>0. /\ r.todo # <<>>
        /\ ReadFailed(c) \/ \E result \in Results(r, Head(r.todo)) :
                                Found(c, Head(r.todo), result)
        /\ UNCHANGED vouchers
    BY <1>1, ReadSplits DEF tableVars
  <1>2. ReqType(r)
    BY <1>1 DEF TypeInv, Reqs
  <1>3. /\ r = [f \in Fields |-> r[f]] /\ r.todo \in Rests(r.op)
        /\ r.got = [t \in Statements |-> r.got[t]]
    BY <1>2 DEF ReqType, GotType
  <1>4. ASSUME ReadFailed(c) PROVE HiddenInv'
    <2>1. PICK q : q = [[r EXCEPT !.todo = Tail(r.todo)] EXCEPT !.failed = TRUE]
      OBVIOUS
    <2>2. req' = [req EXCEPT ![c] = q]
      BY <1>1, <1>4, <2>1 DEF ReadFailed
    <2>3. q.failed = TRUE
      BY <1>3, <2>1 DEF Fields
    <2>4. HiddenAt(q, vouchers)
      BY <2>3 DEF HiddenAt
    <2> QED BY <1>0, <2>2, <2>4, HiddenPut
  <1>5. ASSUME NEW x \in Results(r, Head(r.todo)), Found(c, Head(r.todo), x)
        PROVE  HiddenInv'
    <2>1. PICK s, g : s = Head(r.todo) /\ g = [r.got EXCEPT ![s] = x]
      OBVIOUS
    <2>2. PICK q : q = [[r EXCEPT !.todo = Tail(r.todo)] EXCEPT !.got = g]
      OBVIOUS
    <2>0. req' = [req EXCEPT ![c] = q]
      BY <1>1, <1>5, <2>1, <2>2 DEF Found
    <2>3. /\ q.op = r.op /\ q.todo = Tail(r.todo) /\ q.got = g
          /\ q.failed = r.failed /\ q.due = r.due /\ q.raced = r.raced
      BY <1>3, <2>2 DEF Fields
    <2> SUFFICES ASSUME q.op \in {"sync", "status"}, ~q.failed
                 PROVE  Listed(q, v)
      <3>1. ASSUME HiddenAt(q, vouchers) PROVE HiddenInv'
        BY <1>0, <2>0, <3>1, HiddenPut
      <3> QED BY <1>1, <3>1 DEF HiddenAt
    <2>4. PICK op \in {"sync", "status"} : op = r.op
      BY <2>3
    <2>5. /\ Has(Tail(r.todo), "charges") => Has(r.todo, "charges") \/ s = "charges"
          /\ Has(Tail(r.todo), "payouts") => Has(r.todo, "payouts") \/ s = "payouts"
          /\ Has(Tail(r.todo), "pending") => Has(r.todo, "pending") \/ s = "pending"
          /\ s = "pending" => Has(r.todo, "payouts")
      BY <1>0, <1>3, <2>1, <2>4, HasTail
    <2>6. Listed(r, v)
      <3>1. r.op \in {"sync", "status"}
        BY <2>4
      <3>2. ~r.failed
        BY <2>3
      <3>3. HiddenAt(r, v)
        BY <1>1 DEF HiddenInv
      <3> QED BY <3>1, <3>2, <3>3, Zenon DEF HiddenAt
    <2>7. /\ g["charges"] = IF s = "charges" THEN x ELSE r.got["charges"]
          /\ g["payouts"] = IF s = "payouts" THEN x ELSE r.got["payouts"]
          /\ g["pending"] = IF s = "pending" THEN x ELSE r.got["pending"]
      BY <1>3, <2>1 DEF Statements
    <2>8. /\ s = "charges" => x = UnsyncedCharges
          /\ s = "payouts" => x = UnsyncedPayouts
          /\ s = "pending" => x = PendingVouchers
      BY <1>5, <2>1, <2>4 DEF Results
    <2>9. ASSUME NEW d \in r.due \ r.raced
          PROVE  \/ TableOf[d] = "charges" /\ d \in UnsyncedCharges
                 \/ TableOf[d] = "payouts"
                    /\ d \in UnsyncedPayouts \cup PendingVouchers
      BY <1>1, <2>9, DueFacts
    <2>10. ASSUME NEW d \in r.due \ r.raced, TableOf[d] = "charges", Has(q.todo, "charges")
           PROVE  d \in q.got["charges"]
      <3>1. d \in UnsyncedCharges
        BY <2>9, <2>10
      <3>2. Has(r.todo, "charges") => d \in r.got["charges"]
        BY <2>6, <2>10 DEF Listed
      <3> QED BY <2>3, <2>5, <2>7, <2>8, <2>10, <3>1, <3>2
    <2>11. ASSUME NEW d \in r.due \ r.raced, TableOf[d] = "payouts", Has(q.todo, "payouts")
           PROVE  d \in q.got["payouts"] \cup v
      <3>1. d \in UnsyncedPayouts \cup v
        BY <1>1, <2>9, <2>11 DEF PendingVouchers
      <3>2. Has(r.todo, "payouts") => d \in r.got["payouts"] \cup v
        BY <2>6, <2>11 DEF Listed
      <3>3. CASE s = "payouts"
        BY <2>3, <2>7, <2>8, <3>1, <3>3
      <3>4. CASE s # "payouts"
        BY <2>3, <2>5, <2>7, <2>11, <3>2, <3>4
      <3> QED BY <3>3, <3>4
    <2>12. ASSUME NEW d \in r.due \ r.raced, TableOf[d] = "payouts", Has(q.todo, "pending")
           PROVE  d \in q.got["payouts"] \cup q.got["pending"]
      <3>1. d \in UnsyncedPayouts \cup PendingVouchers /\ PendingVouchers \subseteq v
            /\ (d \in v => d \notin UnsyncedPayouts)
        BY <1>1, <2>9, <2>12 DEF PendingVouchers, UnsyncedPayouts
      <3>2. CASE s = "pending"
        <4>1. d \in r.got["payouts"] \cup v
          BY <2>5, <2>6, <2>12, <3>2 DEF Listed
        <4>2. g["payouts"] = r.got["payouts"] /\ g["pending"] = PendingVouchers
          BY <2>7, <2>8, <3>2
        <4> QED BY <2>3, <3>1, <4>1, <4>2
      <3>3. CASE s # "pending"
        <4>1. Has(r.todo, "pending")
          BY <2>3, <2>5, <2>12, <3>3
        <4>2. d \in r.got["payouts"] \cup r.got["pending"]
          BY <2>6, <2>12, <4>1 DEF Listed
        <4>3. CASE s # "payouts"
          BY <2>3, <2>7, <3>3, <4>2, <4>3
        <4>4. s # "payouts"
          BY <1>0, <1>3, <2>1, <2>4, <4>1, PayoutsFirst
        <4> QED BY <4>3, <4>4
      <3> QED BY <3>2, <3>3
    <2> QED BY <2>3, <2>10, <2>11, <2>12 DEF Listed
  <1> QED BY <1>0, <1>4, <1>5

\* An answer is read no more.
LEMMA RenderHidden ==
    ASSUME TypeInv, HiddenInv, NEW c \in Conns, Render(c)
    PROVE  HiddenInv'
  <1>1. UNCHANGED vouchers
    BY DEF Render, tableVars
  <1>2. \/ req' = Abandoned \/ req' = [Abandoned EXCEPT !["link"] = req["link"]]
        \/ req' = [req EXCEPT ![c] = NoRequest]
    BY DEF Render
  <1>3. HiddenAt(NoRequest, vouchers)
    BY NoRequestFields DEF HiddenAt
  <1> QED BY <1>1, <1>2, <1>3, HiddenAbandoned, HiddenPut

\* The pages under way learn of a row that a retry deletes.
LEMMA DeleteHidden ==
    ASSUME TypeInv, HiddenInv, NEW c \in Conns, DeletePending(c)
    PROVE  HiddenInv'
  <1>1. PICK a : \/ Spares(c, a) /\ Answer(req[c], a, Unsettled)
                 \/ Deletes(c, a) /\ Answer(req[c], a, Unsettled \cup {req[c].n})
    BY DeleteSplits
  <1>2. a.op \in {"none", "sync", "status"} /\ (a.op # "none" => a.todo = Handler(a.op))
    BY <1>1, AnswerFields
  <1>3. \A v : HiddenAt(a, v)
    BY <1>2, HiddenStart
  <1>4. CASE Spares(c, a)
    <2>1. req' = [req EXCEPT ![c] = a] /\ UNCHANGED vouchers
      BY <1>4 DEF Spares
    <2> QED BY <1>3, <2>1, HiddenPut
  <1>5. CASE Deletes(c, a)
    <2>1. PICK n, D, R, w : /\ n = req[c].n /\ D = Deleted(n) /\ R = req'
                            /\ w = vouchers'
      OBVIOUS
    <2>2. D = [d \in Conns |-> D[d]]
      BY <2>1 DEF Deleted
    <2>3. R = [D EXCEPT ![c] = a] /\ w = vouchers \ {n}
      BY <1>5, <2>1 DEF Deletes
    <2>4. \A d \in Conns : R[d] = IF d = c THEN a ELSE D[d]
      BY <2>2, <2>3
    <2>5. ASSUME NEW d \in Conns PROVE HiddenAt(D[d], w)
      <3>1. PICK q, p, v : q = req[d] /\ p = D[d] /\ v = vouchers
        OBVIOUS
      <3>2. ReqType(req[d]) /\ p = Deleted(n)[d]
        BY <2>1, <3>1 DEF TypeInv, Reqs
      <3>3. /\ p.op = q.op /\ p.todo = q.todo /\ p.got = q.got
            /\ p.failed = q.failed /\ p.due = q.due
            /\ p.raced = q.raced \cup (q.due \cap {n})
        BY <3>1, <3>2, DeletedFields
      <3>4. HiddenAt(q, v)
        BY <3>1 DEF HiddenInv
      <3>5. p.due \ p.raced \subseteq q.due \ q.raced
        BY <3>3
      <3>6. \A r \in p.due \ p.raced : r \in v => r \in w
        BY <2>3, <3>1, <3>3
      <3>7. HiddenAt(p, w)
        BY <3>3, <3>4, <3>5, <3>6, HiddenLess
      <3> QED BY <3>1, <3>7
    <2>6. \A d \in Conns : HiddenAt(R[d], w)
      BY <1>3, <2>4, <2>5
    <2> QED BY <2>1, <2>6, HiddenNamed
  <1> QED BY <1>1, <1>4, <1>5

\* Rows are reserved, and what is settled is not due any more.
LEMMA PassHidden ==
    ASSUME TypeInv, HiddenInv, NEW r \in Rows,
           Pull(r) \/ Invoice(r) \/ Reserve(r) \/ Confirm(r)
    PROVE  HiddenInv'
  <1>1. vouchers \subseteq vouchers' /\ (UNCHANGED req \/ Settle(r))
    BY DEF Pull, Invoice, Reserve, Confirm, browserVars
  <1>2. PICK R, v, w : R = req' /\ v = vouchers /\ w = vouchers'
    OBVIOUS
  <1>3. ASSUME NEW d \in Conns PROVE HiddenAt(R[d], w)
    <2>1. PICK q, p, z : q = req[d] /\ p = R[d] /\ z = q.due \ {r}
      OBVIOUS
    <2>2. q = [f \in Fields |-> q[f]]
      BY <2>1 DEF TypeInv, Reqs, ReqType
    <2>3. p = q \/ p = [q EXCEPT !.due = z]
      BY <1>1, <1>2, <2>1 DEF Settle
    <2>4. /\ p.op = q.op /\ p.todo = q.todo /\ p.got = q.got
          /\ p.failed = q.failed /\ p.raced = q.raced /\ p.due \subseteq q.due
      <3>1. CASE p = q
        BY <3>1
      <3>2. CASE p = [q EXCEPT !.due = z]
        <4>1. p.due = z
          BY <2>2, <3>2 DEF Fields
        <4> QED BY <2>1, <2>2, <3>2, <4>1 DEF Fields
      <3> QED BY <2>3, <3>1, <3>2
    <2>5. HiddenAt(q, v)
      BY <1>2, <2>1 DEF HiddenInv
    <2>6. /\ p.due \ p.raced \subseteq q.due \ q.raced
          /\ \A s \in p.due \ p.raced : s \in v => s \in w
      BY <1>1, <1>2, <2>4
    <2>7. HiddenAt(p, w)
      BY <2>4, <2>5, <2>6, HiddenLess
    <2> QED BY <2>1, <2>7
  <1> QED BY <1>2, <1>3, HiddenNamed

\* No request is under way.
LEMMA NoneHidden ==
    ASSUME NEW R, R = [c \in Conns |-> NoRequest], NEW v
    PROVE  \A c \in Conns : HiddenAt(R[c], v)
  <1>1. HiddenAt(NoRequest, v)
    BY NoRequestFields DEF HiddenAt
  <1> QED BY <1>1

LEMMA HiddenInit ==
    Init => HiddenInv
  BY NoneHidden DEF Init, HiddenInv

LEMMA HiddenNext ==
    TypeInv /\ HiddenInv /\ [Next]_vars => HiddenInv'
  <1> SUFFICES ASSUME TypeInv, HiddenInv, [Next]_vars PROVE HiddenInv'
    OBVIOUS
  <1>1. PICK R, v : R = req' /\ v = vouchers'
    OBVIOUS
  <1>2. CASE UNCHANGED vars
    <2>1. R = req /\ v = vouchers
      BY <1>1, <1>2 DEF vars
    <2> QED BY <1>1, <2>1, HiddenNamed DEF HiddenInv
  <1>3. ASSUME Restart PROVE HiddenInv'
    <2>1. R = [c \in Conns |-> NoRequest]
      BY <1>1, <1>3 DEF Restart
    <2> QED BY <1>1, <2>1, NoneHidden, HiddenNamed
  <1> QED BY <1>2, <1>3, ClickHidden, ReadHidden, RenderHidden, DeleteHidden,
             PassHidden DEF Next, Serve

-----------------------------------------------------------------------------
(* The properties *)

LEMMA TypeCorrect ==
    Spec => []TypeInv
  BY TypeInit, TypeNext, PTL DEF Spec

LEMMA OthersCorrect ==
    Spec => []OthersInv
  BY OthersInit, OthersNext, TypeCorrect, PTL DEF Spec

LEMMA WalkCorrect ==
    Spec => []WalkInv
  BY WalkInit, WalkNext, TypeCorrect, OthersCorrect, PTL DEF Spec

\* The lists of customers, charges and payouts are complete, page by page and
\* along their "next" links, whatever rows are stored while the user walks
\* and whatever other requests are under way (sync.go:349-408): for any rows,
\* any page size, any buttons and tabs and any failures.
THEOREM ListsComplete ==
    Spec => []ListsAreComplete
  <1>1. TypeInv /\ WalkInv => ListsAreComplete
    <2> SUFFICES ASSUME TypeInv, WalkInv PROVE WalkShowsAll
      BY DEF TypeInv, ListsAreComplete
    <2>0. PICK l : l = req["link"]
      OBVIOUS
    <2>1. ASSUME page.kind \in StripeTables, l = NoRequest, ~page.next
          PROVE  owed = {}
      <3>1. l.op = "none"
        BY <2>1, NoRequestFields
      <3> QED BY <2>0, <2>1, <3>1 DEF WalkInv, ShownInv, Shown
    <2>2. ASSUME Awaits("link", StripeTables), l.link, ~l.failed
          PROVE  l.got["rows"] # {}
      <3>1. Asked(l, owed, Table(l.op)) /\ l.todo = <<>>
        BY <2>0, <2>2 DEF Awaits, WalkInv, AskedInv
      <3>2. AskedThen(l, owed, Table(l.op))
        BY <3>1 DEF Asked, Listing
      <3> QED BY <2>2, <3>2 DEF AskedThen
    <2> QED BY <2>0, <2>1, <2>2 DEF WalkShowsAll
  <1> QED BY <1>1, TypeCorrect, WalkCorrect, PTL

\* A charge or payout that stays unsettled from the moment a sync page or a
\* poll is asked for to its answer is in one of its lists, in whatever order
\* passes reserve and confirm rows between its statements and whatever other
\* requests are under way (sync.go:74-97, 235-256), unless one of them is a
\* retry that deletes its row in the meantime (sync.go:286): for any rows,
\* any buttons and tabs and any failures.
THEOREM SyncPageHidesNothing ==
    Spec => []NothingHidden
  <1>1. TypeInv /\ HiddenInv => NothingHidden
    <2> SUFFICES ASSUME TypeInv, HiddenInv, NEW c \in Conns, Answered(c),
                        NEW d \in req[c].due, d \notin req[c].raced
                 PROVE  d \in Shows(req[c])
      BY DEF NothingHidden
    <2>0. PICK q : q = req[c]
      OBVIOUS
    <2>1. Listed(q, vouchers) /\ q.todo = <<>>
      BY <2>0 DEF HiddenInv, HiddenAt, Answered, Awaits
    <2>2. Has(q.todo, "charges") /\ Has(q.todo, "pending")
      BY <2>1 DEF Has
    <2>3. TableOf[d] \in {"charges", "payouts"}
      BY DueFacts
    <2>4. d \in q.got["charges"] \cup q.got["payouts"] \cup q.got["pending"]
      BY <2>0, <2>1, <2>2, <2>3 DEF Listed
    <2> QED BY <2>0, <2>4 DEF Shows, NotSent, NotConfirmed, UnsyncedChargeList,
                              UnsyncedPayoutList
  <1>2. Spec => []HiddenInv
    BY HiddenInit, HiddenNext, TypeCorrect, PTL DEF Spec
  <1> QED BY <1>1, <1>2, TypeCorrect, PTL
=============================================================================
