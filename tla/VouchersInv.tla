----------------------------- MODULE VouchersInv ----------------------------
(***************************************************************************)
(* Inductive invariants of Vouchers: the properties, and what has to be    *)
(* known of goroutines in the middle of a voucher for the properties to be *)
(* preserved by every step.  TLC checks them, VouchersProofs proves them.  *)
(***************************************************************************)
EXTENDS Vouchers

Running == {"lookup", "reserve", "post", "confirm", "reread"}

\* A goroutine in the middle of a voucher or a retry has a payout.
Busy ==
    \A w \in Workers :
        run[w].pc \in Running \cup {"delete", "relist"} => run[w].cur \in Payouts

TypeInv == TypeOK /\ Busy

\* Row ids come from the counter, and a row that is not there has no number.
RowIds ==
    \A k \in Keys :
        /\ row[k].id <= lastId[k]
        /\ row[k].id = 0 => row[k].num = Null

\* Phase 1 lies behind a goroutine in phase 2 or 3, phase 2 behind one in
\* phase 3, and a number in hand is one that Fortnox gave.
Phase(w) ==
    /\ run[w].pc \in {"post", "confirm", "reread"} => lastId[Key(w)] > 0
    /\ run[w].pc \in {"confirm", "reread"} => ledger[Key(w)] # <<>>
    /\ run[w].pc = "confirm" =>
           run[w].got \in {Blank} \cup DOMAIN ledger[Key(w)]

Phases == \A w \in Workers : Phase(w)

\* The inductive invariant behind WriteAhead, ConfirmedIsBooked and
\* SyncedIsBooked, for any goroutines, retries and faults
\* (voucher.go:184-210, scheduler.go:141-148).
BookedInv ==
    /\ RowIds
    /\ Phases
    /\ WriteAhead
    /\ ConfirmedIsBooked
    /\ SyncedIsBooked

\* Goroutine w may still send the payout voucher of p in its present run.
Ahead(w, p) ==
    \/ p \in run[w].todo
    \/ /\ run[w].cur = p
       /\ \/ run[w].pc \in {"lookup", "reserve", "post"}
          \/ run[w].op = "fee" /\ run[w].pc \in {"confirm", "reread"}

\* Goroutine w has booked the payout voucher of p, in whatever run.
HasBooked(w, p) ==
    \E i \in DOMAIN ledger[<<"payout", p>>] : ledger[<<"payout", p>>][i].by = w

\* The inductive invariant behind DistinctPosters, without retries: rows of
\* vouchers in flight stay, and a goroutine that booked a payout has passed
\* it for good, because the row keeps it off every later list
\* (queries.sql.go:361-362).
OnceInv ==
    /\ \A w \in Workers :
        /\ run[w].pc \notin {"delete", "relist"}
        /\ run[w].pc \in {"post", "confirm", "reread"} => row[Key(w)].id # 0
        /\ run[w].pc \in Running => run[w].cur \notin run[w].todo
    /\ \A w \in Workers, p \in Payouts :
        HasBooked(w, p) => row[<<"payout", p>>].id # 0 /\ ~Ahead(w, p)
    /\ DistinctPosters

\* The inductive invariant behind PostsCostRows, with any retries: a
\* goroutine that may still send the voucher of a payout that has a row, or
\* is about to, has not used up the rows that were inserted
\* (voucher.go:184-188, handler/sync.go:286).
RowsInv ==
    /\ \A w \in Workers :
        run[w].pc \in Running => run[w].cur \notin run[w].todo
    /\ \A w \in Workers, p \in Payouts :
        /\ Ahead(w, p)
        /\ \/ row[<<"payout", p>>].id # 0
           \/ run[w].pc = "post" /\ Key(w) = <<"payout", p>>
        => Cardinality(BookedBy(w, p)) < lastId[<<"payout", p>>]
    /\ PostsCostRows

\* The inductive invariant behind FeeReservedFirst, while no statement fails:
\* a goroutine that saw fees comes to the payout voucher only after a row of
\* the fee voucher was there (scheduler.go:135-141).
FeeInv ==
    \A w \in Workers :
        /\ run[w].pc \in Running
        /\ run[w].op = "payout"
        /\ run[w].fee # {}
        => lastId[<<"fee", run[w].cur>>] > 0

\* The inductive invariant behind PayoutEndsFees, with the scheduler alone:
\* the payouts its run has still to come to, and the one whose fees it is at,
\* are as unsynced as they were when the run listed them.
ListIsFresh ==
    \A w \in Workers :
        /\ \A p \in run[w].todo : row[<<"payout", p>>].id = 0
        /\ run[w].pc \in Running /\ run[w].op = "fee"
              => row[<<"payout", run[w].cur>>].id = 0
=============================================================================
