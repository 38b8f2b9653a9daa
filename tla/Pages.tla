-------------------------------- MODULE Pages --------------------------------
(***************************************************************************)
(* The web pages (handler/sync.go, dashboard.go, settings.go, auth.go and  *)
(* internal/views), and a tab of the browser that shows them.              *)
(*                                                                         *)
(* A handler reads what it shows with several statements; between them the *)
(* other handlers and the passes go on.  A step is one SQL statement of a  *)
(* handler, or one change that a pass makes to the tables.  A pass, the    *)
(* loop's or one a button started, may be under way at any time; in which  *)
(* order it makes its changes is the matter of StripeSync, Invoices and    *)
(* Vouchers.                                                               *)
(*                                                                         *)
(* Requests.  The tab has at most one navigation under way, for a new one  *)
(* takes the place of it, a poll of its sync page, and the requests of     *)
(* buttons that htmx sends.  Other tabs press retry buttons, too.  A       *)
(* session may be over whenever a request looks for it: it lives for 24 h, *)
(* in memory.                                                              *)
(*                                                                         *)
(* Data.  A row of a stripe_* table is its place in the order of the       *)
(* lists: by created_at and, within a second, the order in which SQLite    *)
(* scans the table.  A payout names its voucher too.                       *)
(***************************************************************************)
EXTENDS Integers, Sequences, FiniteSets, FiniteSetsExt

CONSTANTS
    Rows,           \* the customers, charges and payouts: places in the order
    TableOf,        \* the table of each
    Ready,          \* the charges that succeeded, the payouts that are paid
    PageSize,       \* rows on a page
    Links,          \* bound: the pages the user opens
    Reloads,        \* bound: does the user open the page that is shown
    Dates,          \* bound: does the user save a date, or none
    Buttons,        \* requests of the tab's buttons under way at once, at most
    Tabs,           \* other tabs, each with a retry under way at most
    MaxFaults       \* failed statements of handlers and restarts, at most

StripeTables == {"customers", "charges", "payouts"}
Tables == StripeTables \cup {"vouchers"}

\* The requests that may be under way.
Conns == {"link", "poll"} \cup Buttons \cup Tabs

ASSUME RowsAssumption ==
    /\ Rows \subseteq Nat
    /\ TableOf \in [Rows -> StripeTables]
    /\ Ready \subseteq {r \in Rows : TableOf[r] # "customers"}
    /\ PageSize \in Nat \ {0}
ASSUME LinksAssumption == Links \subseteq Tables \cup {"sync", "dashboard", "settings"}
ASSUME UserAssumption == Reloads \in BOOLEAN /\ Dates \subseteq BOOLEAN
ASSUME ConnsAssumption ==
    /\ Buttons \cap {"link", "poll"} = {}
    /\ Tabs \cap (Buttons \cup {"link", "poll"}) = {}
ASSUME FaultsAssumption == MaxFaults \in Nat

VARIABLES
    pulled,     \* stripe_*: the rows there are
    invoiced,   \* the charges with an invoice number
    vouchers,   \* the payouts with a row in fortnox_vouchers
    confirmed,  \* the ones whose row has a voucher number
    dated,      \* setting charges_sync_from_date has a date
    page,       \* what the tab shows
    req,        \* the requests under way
    owed,       \* rows a walk along the "next" links has still to show
    faults      \* failed statements of handlers, and restarts

vars == <<pulled, invoiced, vouchers, confirmed, dated, page, req, owed, faults>>
tableVars == <<pulled, invoiced, vouchers, confirmed>>
browserVars == <<page, req, owed, faults>>

-----------------------------------------------------------------------------
(* Values *)

\* A page without content.  n: its number; shown: its rows; pending: the
\* pending vouchers it lists; next: it has a link to the next page; hint: it
\* suggests to set a start date.
Blank(kind) == [kind |-> kind, n |-> 1, shown |-> {}, pending |-> {},
                next |-> FALSE, hint |-> FALSE]

Statements ==
    {"rows", "count", "charges", "payouts", "pending", "first", "date"}

\* got: the result of each statement, before it and if it fails what stays
\* when it fails.  due: what a sync page has to show, for it was unsettled
\* all the time; raced: whose row the retry of another request deleted in the
\* meantime.  For a retry, gone: the row it names has been deleted.
\* live: the tab waits for the answer.
NoRequest ==
    [op |-> "none", n |-> 1, link |-> FALSE, todo |-> <<>>,
     got |-> [s \in Statements |->
                CASE s = "count" -> 0 [] s = "first" -> TRUE
                  [] s = "date" -> FALSE [] OTHER -> {}],
     failed |-> FALSE, due |-> {}, raced |-> {}, gone |-> FALSE, live |-> FALSE]

Awaits(c, ops) == req[c].op \in ops /\ req[c].todo = <<>>

-----------------------------------------------------------------------------
(* Queries *)

Table(t) == IF t = "vouchers" THEN vouchers
            ELSE {r \in pulled : TableOf[r] = t}

UnsyncedCharges == (Table("charges") \cap Ready) \ invoiced

UnsyncedPayouts == (Table("payouts") \cap Ready) \ vouchers

PendingVouchers == vouchers \ confirmed

\* What is not in the books for sure.
Unsettled == UnsyncedCharges \cup UnsyncedPayouts \cup PendingVouchers

Offset(n) == (n - 1) * PageSize

\* ORDER BY created_at DESC LIMIT PageSize OFFSET offset
Newest(S, offset) ==
    {r \in S : LET before == Cardinality({s \in S : s > r})
               IN  before >= offset /\ before < offset + PageSize}

\* The same for vouchers, whose created_at has a resolution of seconds: in
\* any order.
AnyOrder(S, offset) ==
    kSubset(Max({0, Min({Cardinality(S) - offset, PageSize})}), S)

\* The results statement s of a request q may have.  A retry looks for its
\* row, by its id, among the pending ones.
Results(q, s) ==
    CASE s = "rows"    -> IF q.op = "vouchers"
                          THEN AnyOrder(vouchers, Offset(q.n))
                          ELSE {Newest(Table(q.op), Offset(q.n))}
      [] s = "count"   -> {Cardinality(Table(q.op))}
      [] s = "charges" -> {UnsyncedCharges}
      [] s = "payouts" -> {UnsyncedPayouts}
      [] s = "pending" -> {IF q.op # "retry" THEN PendingVouchers
                           ELSE IF q.gone THEN {}
                           ELSE PendingVouchers \cap {q.n}}
      [] s = "first"   -> {Table("charges") \cup Table("payouts") = {}}
      [] s = "date"    -> {dated}

-----------------------------------------------------------------------------
(* Requests *)

\* The statements of the handlers, in their order; a mutant of Listing.
CountFirst == <<"count", "rows">>
Listing == <<"rows", "count">>
Dashboard == <<"charges", "payouts">>
SyncPage == <<"charges", "payouts", "pending", "first">>
RetryPendingVoucher == <<"pending">>
Settings == <<>>

\* Mutant of RenderSyncStatus: the pending vouchers come first.
PendingFirst == <<"pending", "charges", "payouts", "first", "date">>

RenderSyncStatus == <<"charges", "payouts", "pending", "first", "date">>

Handler(op) ==
    CASE op \in Tables    -> Listing
      [] op = "sync"      -> SyncPage
      [] op = "status"    -> RenderSyncStatus
      [] op = "dashboard" -> Dashboard
      [] op = "retry"     -> RetryPendingVoucher
      [] op = "settings"  -> Settings

Request(op, n, link) ==
    [NoRequest EXCEPT !.op = op, !.n = n, !.link = link,
                      !.todo = Handler(op),
                      !.due = IF op \in {"sync", "status"}
                              THEN Unsettled ELSE {},
                      !.live = TRUE]

\* The tab shows another page: it does not wait for the answers on their way,
\* and handlers that only read do not matter any more.
Abandoned ==
    [c \in Conns |-> IF req[c].op = "retry" THEN [req[c] EXCEPT !.live = FALSE]
                     ELSE NoRequest]

\* Without a session the answer is the login page, which takes the place of
\* the sync page's section too.
RequireAuth(c, q) ==
    /\ \/ req' = [req EXCEPT ![c] = q] /\ UNCHANGED page
       \/ q.live /\ req' = Abandoned /\ page' = Blank("login")
    /\ UNCHANGED <<tableVars, dated, faults>>

\* A navigation, in place of the one under way.  A walk goes on only along
\* its links, and with a click when the page is there.
Navigate(op, n, link) ==
    /\ RequireAuth("link", Request(op, n, link))
    /\ owed' = IF link /\ req["link"] = NoRequest THEN owed ELSE {}

\* A link of the navigation, an address typed by hand.
Open(op) ==
    /\ page.kind # "login"
    /\ page.kind # op \/ Reloads
    /\ Navigate(op, 1, FALSE)

NextPage == page.next /\ Navigate(page.kind, page.n + 1, TRUE)

PreviousPage ==
    /\ page.kind \in Tables
    /\ page.shown # {} /\ page.n > 1
    /\ Navigate(page.kind, page.n - 1, FALSE)

\* hx-trigger="every 5s": the answer is the status section.
SyncStatus ==
    /\ page.kind = "sync" /\ req["poll"] = NoRequest
    /\ RequireAuth("poll", Request("status", 1, FALSE))
    /\ UNCHANGED owed

\* The buttons that start a pass, which are answered in the same way.
SyncFortnox(b) ==
    /\ page.kind = "sync" /\ req[b] = NoRequest
    /\ RequireAuth(b, Request("status", 1, FALSE))
    /\ UNCHANGED owed

\* The retry button of a voucher of payout p that this tab, or another one,
\* lists as pending: its row is still there, or it is gone.
Retry(c, p) ==
    /\ req[c] = NoRequest
    /\ p \in pulled /\ TableOf[p] = "payouts"
    /\ c \in Buttons => page.kind = "sync" /\ p \in page.pending
    /\ \E gone \in BOOLEAN :
        /\ gone \/ p \in vouchers
        /\ RequireAuth(c, [Request("retry", p, FALSE) EXCEPT
                                !.gone = gone, !.live = (c \in Buttons)])
    /\ UNCHANGED owed

\* The next statement of a handler; an error is logged or dropped, and what
\* it was to read stays empty.  A walk starts on page 1 and owes what the
\* table had then.
Read(c) ==
    /\ req[c].todo # <<>>
    /\ LET q == req[c]
           s == Head(q.todo)
           rest == [q EXCEPT !.todo = Tail(q.todo)]
       IN \/ \E result \in Results(q, s) :
                /\ req' = [req EXCEPT ![c] = [rest EXCEPT !.got[s] = result]]
                /\ owed' = IF s = "rows" /\ q.op \in StripeTables
                           THEN (IF q.n = 1 THEN Table(q.op) ELSE owed)
                                   \ result
                           ELSE owed
                /\ UNCHANGED faults
          \/ /\ faults < MaxFaults
             /\ faults' = faults + 1
             /\ req' = [req EXCEPT ![c] = [rest EXCEPT !.failed = TRUE]]
             /\ owed' = IF c = "link" THEN {} ELSE owed
    /\ UNCHANGED <<tableVars, dated, page>>

HasNext(n, total) == n * PageSize < total

\* The views of the four lists: an empty one has no links.
List(q) ==
    [Blank(q.op) EXCEPT
        !.n = q.n,
        !.shown = q.got["rows"],
        !.next = /\ q.got["rows"] # {}
                 /\ HasNext(q.n, q.got["count"])]

\* The dashboard warns when there is something to send.
DashboardView(q) ==
    [Blank("dashboard") EXCEPT
        !.shown = q.got["charges"] \cup q.got["payouts"]]

\* The lists of the sync page, and its hint before the first sync.
UnsyncedChargeList(q) == q.got["charges"]
UnsyncedPayoutList(q) == q.got["payouts"]
NotSent(q) == UnsyncedChargeList(q) \cup UnsyncedPayoutList(q)
NotConfirmed(q) == q.got["pending"]
Hint(q) == q.got["first"] /\ ~q.got["date"]

SyncStatusSection(q) ==
    [Blank("sync") EXCEPT !.shown = NotSent(q), !.pending = NotConfirmed(q),
                          !.hint = Hint(q)]

View(q) ==
    CASE q.op \in Tables              -> List(q)
      [] q.op = "dashboard"           -> DashboardView(q)
      [] q.op \in {"sync", "status"} -> SyncStatusSection(q)
      [] q.op = "settings"            -> Blank("settings")

\* Mutant of Swap: the answer to a poll is not swapped in.
SwapStatic(q) == page' = IF q.op = "status" THEN page ELSE View(q)

\* The tab shows the answer, which polls if it is the status section.
Swap(q) == page' = View(q)

\* A new page ends all that is under way.  A new section takes the place of
\* one whose poll and buttons are under way: their answers are lost, or will
\* take the place of it in turn.
Render(c) ==
    /\ Awaits(c, Tables \cup {"dashboard", "sync", "status", "settings"})
    /\ Swap(req[c])
    /\ \/ req' = IF c = "link" THEN Abandoned
                 ELSE [Abandoned EXCEPT !["link"] = req["link"]]
       \/ c # "link" /\ req' = [req EXCEPT ![c] = NoRequest]
    /\ UNCHANGED <<tableVars, dated, owed, faults>>

\* Other requests that name the row, or are about to list it, learn of its
\* end.
Deleted(p) ==
    [c \in Conns |-> [req[c] EXCEPT !.gone = @ \/ (req[c].op = "retry" /\ req[c].n = p),
                                    !.raced = @ \cup (req[c].due \cap {p})]]

\* RetryPendingVoucher goes on: without a list, or when the DELETE fails, it
\* answers with an error, which is not swapped in; a voucher that is not in
\* the list gives the sync page; otherwise the row, if it is still there, is
\* deleted, confirmed or not by now, and the status shown.  If nobody waits
\* for the answer, what it reads does not matter.
DeletePending(c) ==
    LET q == req[c]
        answer(new) == IF q.live THEN new ELSE NoRequest
    IN  /\ Awaits(c, {"retry"})
        /\ \/ /\ q.failed
              /\ req' = [req EXCEPT ![c] = NoRequest]
              /\ UNCHANGED <<vouchers, confirmed, faults>>
           \/ /\ ~q.failed /\ q.n \notin q.got["pending"]
              /\ req' = [req EXCEPT ![c] = answer(Request("sync", 1, FALSE))]
              /\ UNCHANGED <<vouchers, confirmed, faults>>
           \/ /\ q.n \in q.got["pending"] /\ q.gone
              /\ req' = [req EXCEPT ![c] = answer(Request("status", 1, FALSE))]
              /\ UNCHANGED <<vouchers, confirmed, faults>>
           \/ /\ q.n \in q.got["pending"] /\ ~q.gone
              /\ vouchers' = vouchers \ {q.n}
              /\ confirmed' = confirmed \ {q.n}
              /\ req' = [Deleted(q.n) EXCEPT ![c] =
                            answer([Request("status", 1, FALSE) EXCEPT
                                      !.due = Unsettled \cup {q.n}])]
              /\ UNCHANGED faults
           \/ /\ q.n \in q.got["pending"]
              /\ faults < MaxFaults
              /\ faults' = faults + 1
              /\ req' = [req EXCEPT ![c] = NoRequest]
              /\ UNCHANGED <<vouchers, confirmed>>
        /\ UNCHANGED <<pulled, invoiced, dated, page, owed>>

-----------------------------------------------------------------------------
(* Login and the start date *)

\* The right password: "/" is next.
LoginPost ==
    /\ page.kind = "login"
    /\ req' = [req EXCEPT !["link"] = Request("dashboard", 1, FALSE)]
    /\ owed' = {}
    /\ UNCHANGED <<tableVars, dated, page, faults>>

Logout ==
    /\ page.kind # "login"
    /\ page' = Blank("login")
    /\ req' = Abandoned
    /\ owed' = {}
    /\ UNCHANGED <<tableVars, dated, faults>>

\* A date or none is stored; anything else is refused.  The form may be one
\* of another tab; in this one the settings page is shown again, or there is
\* no session any more.
SaveSyncFromDate(b) ==
    /\ \/ dated' = b /\ UNCHANGED <<page, req, owed>>
       \/ /\ page.kind = "settings"
          /\ req' = Abandoned /\ owed' = {}
          /\ \/ dated' = b /\ UNCHANGED page
             \/ page' = Blank("login") /\ UNCHANGED dated
    /\ UNCHANGED <<tableVars, faults>>

-----------------------------------------------------------------------------
(* What passes do to the tables *)

\* What is settled is not due any more on the pages under way.
Settle(r) == req' = [c \in Conns |-> [req[c] EXCEPT !.due = @ \ {r}]]

\* A row is stored, newer or older than the ones there are.
Pull(r) ==
    /\ r \notin pulled
    /\ pulled' = pulled \cup {r}
    /\ UNCHANGED <<invoiced, vouchers, confirmed, dated, browserVars>>

\* The number of its invoice is stored with a charge.
Invoice(c) ==
    /\ c \in UnsyncedCharges
    /\ invoiced' = invoiced \cup {c}
    /\ Settle(c)
    /\ UNCHANGED <<pulled, vouchers, confirmed, dated, page, owed, faults>>

\* A payout's row is reserved.
Reserve(p) ==
    /\ p \in UnsyncedPayouts
    /\ vouchers' = vouchers \cup {p}
    /\ UNCHANGED <<pulled, invoiced, confirmed, dated, browserVars>>

\* Fortnox's answer confirms the row.  (Here a pending row may be waiting
\* for one or not.)
Confirm(p) ==
    /\ p \in PendingVouchers
    /\ confirmed' = confirmed \cup {p}
    /\ Settle(p)
    /\ UNCHANGED <<pulled, invoiced, vouchers, dated, page, owed, faults>>

\* The process is started again: requests are gone, the browser stays.
Restart ==
    /\ faults < MaxFaults
    /\ faults' = faults + 1
    /\ req' = [c \in Conns |-> NoRequest]
    /\ owed' = {}
    /\ UNCHANGED <<tableVars, dated, page>>

-----------------------------------------------------------------------------
(* Specification *)

Init ==
    /\ pulled = {} /\ invoiced = {}
    /\ vouchers = {} /\ confirmed = {}
    /\ dated = FALSE
    /\ page = Blank("login")
    /\ req = [c \in Conns |-> NoRequest]
    /\ owed = {}
    /\ faults = 0

Click ==
    \/ \E op \in Links : Open(op)
    \/ NextPage
    \/ PreviousPage
    \/ \E b \in Buttons : SyncFortnox(b)
    \/ \E c \in Buttons \cup Tabs, p \in Rows : Retry(c, p)
    \/ \E b \in Dates : SaveSyncFromDate(b)
    \/ LoginPost
    \/ Logout

Serve(c) == Read(c) \/ Render(c) \/ DeletePending(c)

Next ==
    \/ Click
    \/ SyncStatus
    \/ \E c \in Conns : Serve(c)
    \/ \E r \in Rows : Pull(r) \/ Invoice(r) \/ Reserve(r) \/ Confirm(r)
    \/ Restart

Spec == Init /\ [][Next]_vars

(***************************************************************************)
(* Statements end, for they wait for nothing but SQLite, and a sync page   *)
(* on the screen polls.  Nothing is assumed of the user, the passes, which *)
(* may hang, Fortnox or the process.                                       *)
(***************************************************************************)
Fairness == (\A c \in Conns : WF_vars(Serve(c))) /\ WF_vars(SyncStatus)

FairSpec == Spec /\ Fairness

-----------------------------------------------------------------------------
(* Properties *)

TypeOK ==
    /\ pulled \subseteq Rows /\ invoiced \subseteq Ready
    /\ confirmed \subseteq vouchers /\ vouchers \subseteq pulled
    /\ dated \in BOOLEAN
    /\ page.kind \in Tables \cup {"login", "sync", "dashboard", "settings"}
    /\ page.n \in Nat \ {0}
    /\ page.shown \subseteq pulled /\ page.pending \subseteq pulled
    /\ page.kind \in Tables => Cardinality(page.shown) <= PageSize
    /\ DOMAIN req = Conns
    /\ \A c \in Conns : req[c].due \subseteq Unsettled
    /\ owed \subseteq pulled
    /\ faults \in 0..MaxFaults

\* A walk along the "next" links of customers, charges or payouts ends only
\* when it has shown every row that was there when page 1 was read, and never
\* on an empty page, which says that nothing has been fetched yet, whatever
\* rows are stored meanwhile, unless a statement fails (sync.go:349-408).
\* (The list of vouchers makes no such promise: a retry deletes rows.)
WalkShowsAll ==
    /\ page.kind \in StripeTables /\ req["link"] = NoRequest /\ ~page.next
           => owed = {}
    /\ Awaits("link", StripeTables) /\ req["link"].link /\ ~req["link"].failed
           => req["link"].got["rows"] # {}

\* The lists are complete, page by page and along their links.
ListsAreComplete == TypeOK /\ WalkShowsAll

\* What an answer to a sync page or a poll lists.
Shows(q) == NotSent(q) \cup NotConfirmed(q)

Answered(c) == Awaits(c, {"sync", "status"}) /\ ~req[c].failed

\* A charge or payout that is not settled from the moment the sync page is
\* asked for to its answer is in one of its lists, also when a pass reserves
\* it in the middle, unless a statement fails (sync.go:74-97, 235-256).  The
\* only thing that may hide it is a retry beside it that deletes its row
\* (sync.go:286) between the two lists: then the page may say that all is
\* booked (sync.templ:63), until the next poll.
NothingHidden ==
    \A c \in Conns :
        Answered(c) => req[c].due \subseteq Shows(req[c]) \cup req[c].raced

\* A sync page that stays open catches up, while its polls go on and no login
\* page takes its place: it stops showing what has been booked for good, it
\* lists at last what a retry beside it may have hidden, in the list where it
\* stays, and the hint to set a start date goes away once it is set, though
\* SyncPage never looks at the date (sync.templ:31-32, sync.go:74-97, 235-256).
PageCatchesUp ==
    /\ \A r \in Rows :
        /\ <>[](r \in invoiced \cup confirmed /\ page.kind = "sync")
               => <>[](r \notin page.shown \cup page.pending)
        /\ <>[](r \in UnsyncedCharges \cup UnsyncedPayouts /\ page.kind = "sync")
               => <>[](r \in page.shown)
        /\ <>[](r \in PendingVouchers /\ page.kind = "sync")
               => <>[](r \in page.pending)
    /\ <>[](dated /\ page.kind = "sync" /\ \A c \in Conns : req[c].op # "sync")
           => <>[](~page.hint)
=============================================================================
