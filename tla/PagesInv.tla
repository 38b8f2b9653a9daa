------------------------------- MODULE PagesInv -------------------------------
(***************************************************************************)
(* Inductive invariants of Pages: the properties, and what has to be known *)
(* of a request half-way through its statements for the properties to be   *)
(* preserved by every step.  PagesProofs proves them.                      *)
(***************************************************************************)
EXTENDS Pages

\* The statements a handler may have left.
Rests(op) ==
    CASE op \in Tables    -> {<<"rows", "count">>, <<"count">>, <<>>}
      [] op = "sync"      -> {<<"charges", "payouts", "pending", "first">>,
                              <<"payouts", "pending", "first">>,
                              <<"pending", "first">>, <<"first">>, <<>>}
      [] op = "status"    -> {<<"charges", "payouts", "pending", "first", "date">>,
                              <<"payouts", "pending", "first", "date">>,
                              <<"pending", "first", "date">>,
                              <<"first", "date">>, <<"date">>, <<>>}
      [] op = "dashboard" -> {<<"charges", "payouts">>, <<"payouts">>, <<>>}
      [] op = "retry"     -> {<<"pending">>, <<>>}
      [] op \in {"settings", "none"} -> {<<>>}

PageOps == Tables \cup {"dashboard", "sync", "status", "settings"}

\* What a request has read, statement by statement.
GotType(got) ==
    /\ got = [s \in Statements |-> got[s]]
    /\ got["rows"] \subseteq pulled
    /\ got["count"] \in Nat
    /\ got["charges"] \subseteq pulled
    /\ got["payouts"] \subseteq pulled
    /\ got["pending"] \subseteq Table("payouts") \cap Ready
    /\ got["first"] \in BOOLEAN
    /\ got["date"] \in BOOLEAN

Fields == {"op", "n", "link", "todo", "got", "failed", "due", "raced",
           "gone", "live"}

ReqType(r) ==
    /\ r = [f \in Fields |-> r[f]]
    /\ r.op \in PageOps \cup {"retry", "none"}
    /\ r.n \in Nat
    /\ r.op \in Tables => r.n > 0
    /\ r.link \in BOOLEAN
    /\ r.todo \in Rests(r.op)
    /\ GotType(r.got)
    /\ r.op \in Tables => Cardinality(r.got["rows"]) <= PageSize
    /\ r.failed \in BOOLEAN
    /\ r.gone \in BOOLEAN
    /\ r.live \in BOOLEAN

\* The requests under way, one for each connection.
Reqs(R) ==
    /\ R = [c \in Conns |-> R[c]]
    /\ \A c \in Conns : ReqType(R[c])

\* Rows are payouts that are paid, there are finitely many, and only lists
\* have links.
TablesInv ==
    /\ IsFiniteSet(pulled)
    /\ vouchers \subseteq Table("payouts") \cap Ready
    /\ page.next => page.kind \in Tables

TypeInv == TypeOK /\ Reqs(req) /\ TablesInv

\* What may be under way beside a navigation: while a list is on the screen,
\* only retries whose answer nobody waits for, so that nothing but an answer
\* to a navigation, or the login page, takes its place.
Beside(p, q) ==
    /\ q.op \in {"none", "sync", "status", "retry"}
    /\ p.kind \in StripeTables /\ q.op # "none" => q.op = "retry" /\ ~q.live

OthersInv ==
    /\ req["link"].op # "retry"
    /\ \A c \in Conns \ {"link"} : Beside(page, req[c])

\* The rows of S that come before r on the pages, and how many there are.
Before(S, r) == {s \in S : s > r}
Rank(S, r) == Cardinality(Before(S, r))

\* The rows that come after page n.
Beyond(S, n) == {r \in S : Rank(S, r) >= n * PageSize}

\* A list p on the screen, with a request for op under way: while there is
\* none, the link leads to what is owed.
Shown(p, op, o, S) ==
    /\ p.next => p.n * PageSize < Cardinality(S)
    /\ op = "none" => o \subseteq Beyond(S, p.n) /\ (~p.next => o = {})

\* A request r for a list, before its rows are read and after.
AskedFirst(r, o, S) ==
    /\ r.n > 1 => o \subseteq Beyond(S, r.n - 1)
    /\ r.link => r.n > 1 /\ (r.n - 1) * PageSize < Cardinality(S)
    /\ ~r.failed

AskedThen(r, o, S) ==
    /\ r.failed => o = {}
    /\ o \subseteq Beyond(S, r.n)
    /\ ~r.failed /\ (o # {} \/ r.link) => r.got["rows"] # {}

Asked(r, o, S) ==
    /\ r.got["count"] <= Cardinality(S)
    /\ r.todo = Listing => AskedFirst(r, o, S)
    /\ r.todo # Listing => AskedThen(r, o, S)
    /\ r.todo = <<>> /\ o # {} => r.n * PageSize < r.got["count"]

ShownInv ==
    page.kind \in StripeTables =>
        Shown(page, req["link"].op, owed, Table(page.kind))

AskedInv ==
    req["link"].op \in StripeTables =>
        Asked(req["link"], owed, Table(req["link"].op))

\* The inductive invariant behind WalkShowsAll: a walk owes rows of later
\* pages only, for rows that are stored push others back and never forward
\* (sync.go:349-408).
WalkInv == ShownInv /\ AskedInv

\* What of the lists of a sync page has been read.
Has(todo, s) == s \notin {todo[i] : i \in DOMAIN todo}

\* A request q has what is due and was not deleted, as far as it has read;
\* v: the rows there are.
Listed(q, v) ==
    \A r \in q.due \ q.raced :
        /\ Has(q.todo, "charges") /\ TableOf[r] = "charges" =>
               r \in q.got["charges"]
        /\ Has(q.todo, "payouts") /\ TableOf[r] = "payouts" =>
               r \in q.got["payouts"] \cup v
        /\ Has(q.todo, "pending") /\ TableOf[r] = "payouts" =>
               r \in q.got["payouts"] \cup q.got["pending"]

HiddenAt(q, v) ==
    q.op \in {"sync", "status"} /\ ~q.failed => Listed(q, v)

\* The inductive invariant behind NothingHidden: a payout that is not in the
\* list of unsynced ones any more is in the list of pending ones, which is
\* read later, if no retry deletes its row (sync.go:74-97, 235-256).
HiddenInv == \A c \in Conns : HiddenAt(req[c], vouchers)

PagesIndInv == TypeInv /\ OthersInv /\ WalkInv /\ HiddenInv
=============================================================================
