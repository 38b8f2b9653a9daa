------------------------------ MODULE Vouchers ------------------------------
(***************************************************************************)
(* Payouts to Fortnox vouchers: the two-phase write of                     *)
(* internal/fortnox/voucher.go, driven by the scheduler                    *)
(* (internal/scheduler/scheduler.go), by the "sync" button and by the      *)
(* "retry" button (internal/handler/sync.go), over the table               *)
(* fortnox_vouchers (internal/db/queries.sql.go).                          *)
(*                                                                         *)
(* A worker is a goroutine; a step of a worker is one SQL statement        *)
(* (database.Open allows one connection, so statements do not overlap) or  *)
(* one call to Fortnox, with the local code up to the next one.  A voucher *)
(* belongs to a key <<op, p>>: "payout" or "fee", and the payout.          *)
(*                                                                         *)
(* Data.  An amount is the set of balance transactions it sums, a voucher  *)
(* number is the position of the voucher among those of its key in         *)
(* Fortnox, and row ids count per key (ids are AUTOINCREMENT: never        *)
(* reused).  Faults happen at most MaxFaults times.                        *)
(***************************************************************************)
EXTENDS Integers, Sequences, FiniteSets

CONSTANTS
    Payouts,        \* ids of the payouts
    Txns,           \* ids of the balance transactions
    TxnsOf,         \* the balance transactions that settle in each payout
    FeeTxns,        \* the ones of type "charge" with a fee above 0
    CreatedAt,      \* created_at of each payout
    Scheduler,      \* the scheduler's goroutine
    Triggers,       \* goroutines started by the "sync" button
    Retries,        \* goroutines started by the "retry" button
    Faults,         \* kinds of fault that may happen
    MaxFaults,      \* bound: how many faults happen at most
    MaxInserts,     \* bound: a row inserted this often is not retried again
    NoPayout        \* a goroutine that works on no payout

Workers == {Scheduler} \cup Triggers \cup Retries
Ops     == {"fee", "payout"}
Keys    == Ops \X Payouts

(***************************************************************************)
(* crash: the process stops and restarts.  db: a statement fails.  reject: *)
(* Fortnox answers with an error.  lost: it books the voucher and the      *)
(* answer does not arrive (timeout, connection).  garbled: the answer has  *)
(* status 2xx and a body json.Unmarshal makes no number of.                *)
(***************************************************************************)
FaultKinds == {"crash", "db", "reject", "lost", "garbled"}

ASSUME TxnsAssumption ==
    /\ TxnsOf \in [Payouts -> SUBSET Txns]
    /\ FeeTxns \subseteq Txns
ASSUME CreatedAtAssumption == CreatedAt \in [Payouts -> Nat]
ASSUME WorkersAssumption ==
    /\ Scheduler \notin Triggers \cup Retries
    /\ Triggers \cap Retries = {}
ASSUME BoundsAssumption ==
    /\ Faults \subseteq FaultKinds
    /\ MaxFaults \in Nat
    /\ MaxInserts \in Nat
ASSUME NoPayoutAssumption == NoPayout \notin Payouts

VARIABLES
    status,     \* stripe_payouts.status as last stored
    stored,     \* the balance transactions stored for each payout
    row,        \* fortnox_vouchers, by (source_type, source_id)
    lastId,     \* id of the last row inserted for a key
    ledger,     \* the vouchers Fortnox holds for a key, oldest first
    log,        \* actions of sync_log rows of each payout
    run,        \* the goroutines
    faults      \* faults so far

vars == <<status, stored, row, lastId, ledger, log, run, faults>>

-----------------------------------------------------------------------------
(* Values *)

Null  == 0      \* fortnox_voucher_number IS NULL
Blank == -1     \* fortnox_voucher_number = ''

NoRow == [id |-> 0, num |-> Null]

\* reverted: a paid payout failed, or an older page was written over it.
Statuses == {"unpaid", "paid", "reverted"}
LogEntries == {"fortnox_synced", "fortnox_error"}
PCs == {"idle", "next", "lookup", "reserve", "post", "confirm", "reread",
        "delete", "relist"}

\* A goroutine that does not run.
Idle == [pc |-> "idle", op |-> "payout", cur |-> NoPayout, todo |-> {},
         fee |-> {}, got |-> Null, target |-> 0]

Voucher == [by : Workers, covers : SUBSET Txns]
Row     == [id : Nat, num : {Blank} \cup Nat]
Run     == [pc : PCs, op : Ops, cur : Payouts \cup {NoPayout},
            todo : SUBSET Payouts, fee : SUBSET FeeTxns,
            got : {Blank} \cup Nat, target : Nat]

\* The key a goroutine works on.
Key(w) == <<run[w].op, run[w].cur>>

\* Goroutine w goes on as r.
Becomes(w, r) == run' = [run EXCEPT ![w] = r]

\* Goroutine w goes on with statement or call pc.
Goto(w, pc) == Becomes(w, [run[w] EXCEPT !.pc = pc])

NoFault == UNCHANGED faults

Fault(kind) ==
    /\ kind \in Faults
    /\ faults < MaxFaults
    /\ faults' = faults + 1

-----------------------------------------------------------------------------
(* Queries *)

\* Mutants of Unsynced: the join sees confirmed rows only; the join wants
\* balance transactions to be there.
UnsyncedUnlessConfirmed ==
    {p \in Payouts : status[p] = "paid" /\ row[<<"payout", p>>].num = Null}
UnsyncedWithTxns ==
    {p \in Payouts : /\ status[p] = "paid"
                     /\ row[<<"payout", p>>].id = 0
                     /\ stored[p] # {}}

\* ListUnsyncedPayouts: paid, and no voucher row, not even a pending one.
Unsynced ==
    {p \in Payouts : status[p] = "paid" /\ row[<<"payout", p>>].id = 0}

\* Its ORDER BY created_at ASC; payouts of the same second in any order.
Earliest(S) == {p \in S : \A q \in S : CreatedAt[p] <= CreatedAt[q]}

\* Mutant of FeesStored: every balance transaction counts as a charge.
AnyTxnStored(p) == stored[p]

\* The fees processPayout adds up; totalFee > 0 iff there is one.
FeesStored(p) == stored[p] \cap FeeTxns

\* existing != nil && existing.FortnoxVoucherNumber.Valid
Confirmed(k) == row[k].num # Null

-----------------------------------------------------------------------------
(* A run over the payouts *)

\* The goroutine begins: ListUnsyncedPayouts is a snapshot.  (If the query
\* fails nothing changes, the run is over.)
StartRun(w) ==
    /\ w \notin Retries
    /\ run[w] = Idle
    /\ Becomes(w, [Idle EXCEPT !.pc = "next", !.todo = Unsynced])
    /\ UNCHANGED <<status, stored, row, lastId, ledger, log>>
    /\ NoFault

\* Only a run of the scheduler or of the "sync" button writes sync_log.
Log(w, p, entry) ==
    log' = IF w \in Retries THEN log ELSE [log EXCEPT ![p] = @ \cup {entry}]

\* Mutant of FirstOp: the payout voucher first.
PayoutFirst(fee) == "payout"

FirstOp(fee) == IF fee = {} THEN "payout" ELSE "fee"

\* ListBalanceTransactionsForPayout for the next payout of the snapshot.
ReadTxns(w) ==
    /\ run[w].pc = "next"
    /\ \E p \in Earliest(run[w].todo) :
        \/ /\ Becomes(w, [run[w] EXCEPT !.pc = "lookup",
                                        !.op = FirstOp(FeesStored(p)),
                                        !.cur = p,
                                        !.todo = @ \ {p},
                                        !.fee = FeesStored(p)])
           /\ UNCHANGED log
           /\ NoFault
        \/ /\ Becomes(w, [run[w] EXCEPT !.todo = @ \ {p}])
           /\ Log(w, p, "fortnox_error")
           /\ Fault("db")
    /\ UNCHANGED <<status, stored, row, lastId, ledger>>

EndRun(w) ==
    /\ run[w].pc = "next"
    /\ run[w].todo = {}
    /\ Becomes(w, Idle)
    /\ UNCHANGED <<status, stored, row, lastId, ledger, log>>
    /\ NoFault

\* CreateFeeVoucher returns, with a voucher or an error: both callers only
\* log the error and go on with the payout voucher.
FeeReturns(w) ==
    /\ run[w].op = "fee"
    /\ Becomes(w, [run[w] EXCEPT !.pc = "lookup", !.op = "payout",
                                 !.got = Null])
    /\ UNCHANGED log

\* CreatePayoutVoucher returns: the payout is done as far as this run goes.
PayoutReturns(w, entry) ==
    /\ run[w].op = "payout"
    /\ Becomes(w, [run[w] EXCEPT !.pc = "next", !.cur = NoPayout,
                                 !.fee = {}, !.got = Null])
    /\ Log(w, run[w].cur, entry)

Returns(w, entry) == FeeReturns(w) \/ PayoutReturns(w, entry)
Succeeds(w) == Returns(w, "fortnox_synced")

\* Mutant of Fails: the error is not looked at.
FailsUnseen(w) == Returns(w, "fortnox_synced")

Fails(w) == Returns(w, "fortnox_error")

-----------------------------------------------------------------------------
(* Creating one voucher *)

\* GetFortnoxVoucherBySource: only a confirmed row stops the voucher.
LookUp(w) ==
    /\ run[w].pc = "lookup"
    /\ \/ Confirmed(Key(w)) /\ Succeeds(w) /\ NoFault
       \/ /\ ~Confirmed(Key(w))
          /\ Goto(w, "reserve")
          /\ UNCHANGED log
          /\ NoFault
       \/ Fails(w) /\ Fault("db")
    /\ UNCHANGED <<status, stored, row, lastId, ledger>>

\* Mutant of InsertPending: nothing is written.
InsertNothing(k) == UNCHANGED <<row, lastId>>

\* INSERT OR IGNORE under the unique index on (source_type, source_id).
InsertPending(k) ==
    IF row[k].id = 0
    THEN /\ row' = [row EXCEPT ![k] = [id |-> lastId[k] + 1, num |-> Null]]
         /\ lastId' = [lastId EXCEPT ![k] = @ + 1]
    ELSE UNCHANGED <<row, lastId>>

\* Phase 1: reserve the row.
Reserve(w) ==
    /\ run[w].pc = "reserve"
    /\ \/ InsertPending(Key(w)) /\ Goto(w, "post")
          /\ UNCHANGED log /\ NoFault
       \/ Fails(w) /\ UNCHANGED <<row, lastId>> /\ Fault("db")
    /\ UNCHANGED <<status, stored, ledger>>

\* What Fortnox books: the fee voucher is over the fees read by the run.
Covers(w) == IF run[w].op = "fee" THEN run[w].fee ELSE {}

Book(w) ==
    ledger' = [ledger EXCEPT ![Key(w)] =
                   Append(@, [by |-> w, covers |-> Covers(w)])]

\* The answer carries a number, or none that can be read.
Answered(w, num) == Becomes(w, [run[w] EXCEPT !.pc = "confirm", !.got = num])

\* Mutant of Rejected: the error is not looked at.
RejectedUnseen(w) ==
    /\ Answered(w, Len(ledger[Key(w)]) + 1)
    /\ UNCHANGED log

Rejected(w) == Fails(w)

\* Phase 2: POST vouchers.
Post(w) ==
    /\ run[w].pc = "post"
    /\ \/ /\ Book(w)
          /\ Answered(w, Len(ledger[Key(w)]) + 1)
          /\ UNCHANGED log
          /\ NoFault
       \/ /\ Book(w)
          /\ Answered(w, Blank)
          /\ UNCHANGED log
          /\ Fault("garbled")
       \/ Book(w) /\ Fails(w) /\ Fault("lost")
       \/ Rejected(w) /\ UNCHANGED ledger /\ Fault("reject")
    /\ UNCHANGED <<status, stored, row, lastId>>

\* Mutants of SetNumber: the number is overwritten; it is not written.
Overwrite(k, num) ==
    row' = IF row[k].id # 0 THEN [row EXCEPT ![k].num = num] ELSE row
ForgetNumber(k, num) == UNCHANGED row

\* UPDATE ... WHERE ... AND fortnox_voucher_number IS NULL
SetNumber(k, num) ==
    row' = IF row[k].id # 0 /\ row[k].num = Null
           THEN [row EXCEPT ![k].num = num]
           ELSE row

\* Phase 3: ConfirmFortnoxVoucher.
Confirm(w) ==
    /\ run[w].pc = "confirm"
    /\ \/ SetNumber(Key(w), run[w].got) /\ Goto(w, "reread")
          /\ UNCHANGED log /\ NoFault
       \/ Fails(w) /\ UNCHANGED row /\ Fault("db")
    /\ UNCHANGED <<status, stored, lastId, ledger>>

\* The scheduler prints v.ID: without a row, v is nil and the process dies.
Panics(w) ==
    /\ w = Scheduler
    /\ run[w].op = "payout"
    /\ row[Key(w)].id = 0

\* The GetFortnoxVoucherBySource whose result postVoucher returns.  A
\* missing row is no error there.
Reread(w) ==
    /\ run[w].pc = "reread"
    /\ \/ ~Panics(w) /\ Succeeds(w) /\ NoFault
       \/ /\ Panics(w)
          /\ run' = [v \in Workers |-> Idle]
          /\ UNCHANGED log
          /\ NoFault
       \/ Fails(w) /\ Fault("db")
    /\ UNCHANGED <<status, stored, row, lastId, ledger>>

-----------------------------------------------------------------------------
(* The "retry" button of a pending voucher *)

\* The handler lists the pending rows and finds the one of the request.
RetryRequest(w, k) ==
    /\ w \in Retries
    /\ run[w] = Idle
    /\ row[k].id # 0
    /\ ~Confirmed(k)
    /\ lastId[k] < MaxInserts
    /\ Becomes(w, [Idle EXCEPT !.pc = "delete", !.op = k[1], !.cur = k[2],
                               !.target = row[k].id])
    /\ UNCHANGED <<status, stored, row, lastId, ledger, log>>
    /\ NoFault

\* DELETE ... WHERE id = ?, whatever has become of the row.
Delete(w) ==
    /\ run[w].pc = "delete"
    /\ \/ /\ row' = IF row[Key(w)].id = run[w].target
                    THEN [row EXCEPT ![Key(w)] = NoRow]
                    ELSE row
          /\ Becomes(w, [run[w] EXCEPT !.pc = "relist", !.target = 0])
          /\ NoFault
       \/ /\ Becomes(w, Idle)
          /\ UNCHANGED row
          /\ Fault("db")
    /\ UNCHANGED <<status, stored, lastId, ledger, log>>

\* The handler's goroutine: a payout is listed again and processed if it is
\* unsynced; for a fee nothing is done.
Relist(w) ==
    /\ run[w].pc = "relist"
    /\ \/ /\ Becomes(w, [Idle EXCEPT !.pc = "next",
                                     !.todo = IF run[w].op = "payout"
                                              THEN Unsynced \cap {run[w].cur}
                                              ELSE {}])
          /\ NoFault
       \/ /\ Becomes(w, Idle)
          /\ Fault("db")
    /\ UNCHANGED <<status, stored, row, lastId, ledger, log>>

-----------------------------------------------------------------------------
(* The process, and the Stripe side of the database *)

\* The process stops and is started again: the goroutines are gone.
Crash ==
    /\ \E w \in Workers : run[w] # Idle
    /\ run' = [w \in Workers |-> Idle]
    /\ Fault("crash")
    /\ UNCHANGED <<status, stored, row, lastId, ledger, log>>

\* SyncPayouts stores the payout's state at Stripe.  A payout that fails
\* before it was paid stays "unpaid" here: nothing reads the difference.  A
\* sync that reads an older page later than another one writes an older state
\* over a newer one, and a later sync the newer one again.
StoreStatus(p) ==
    /\ \/ status[p] # "paid" /\ status' = [status EXCEPT ![p] = "paid"]
       \/ status[p] = "paid" /\ status' = [status EXCEPT ![p] = "reverted"]
    /\ UNCHANGED <<stored, row, lastId, ledger, log, run>>
    /\ NoFault

\* The goroutine SyncPayouts starts for a paid payout stores, one by one
\* and at any later time, its balance transactions.
StoreTxn(p, t) ==
    /\ status[p] # "unpaid"
    /\ t \in TxnsOf[p] \ stored[p]
    /\ stored' = [stored EXCEPT ![p] = @ \cup {t}]
    /\ UNCHANGED <<status, row, lastId, ledger, log, run>>
    /\ NoFault

-----------------------------------------------------------------------------
(* Specification *)

Init ==
    /\ status = [p \in Payouts |-> "unpaid"]
    /\ stored = [p \in Payouts |-> {}]
    /\ row = [k \in Keys |-> NoRow]
    /\ lastId = [k \in Keys |-> 0]
    /\ ledger = [k \in Keys |-> <<>>]
    /\ log = [p \in Payouts |-> {}]
    /\ run = [w \in Workers |-> Idle]
    /\ faults = 0

\* The next statement or call of a goroutine that runs.
Continue(w) ==
    \/ ReadTxns(w)
    \/ EndRun(w)
    \/ LookUp(w)
    \/ Reserve(w)
    \/ Post(w)
    \/ Confirm(w)
    \/ Reread(w)
    \/ Delete(w)
    \/ Relist(w)

Stripe ==
    \E p \in Payouts : StoreStatus(p) \/ \E t \in Txns : StoreTxn(p, t)

Next ==
    \/ \E w \in Workers : StartRun(w) \/ Continue(w)
    \/ \E w \in Retries, k \in Keys : RetryRequest(w, k)
    \/ Crash
    \/ Stripe

Spec == Init /\ [][Next]_vars

(***************************************************************************)
(* The Go runtime runs every goroutine, calls to Fortnox end (a timeout of *)
(* 30 s) and so do statements; the scheduler's loop starts a run when its  *)
(* timer fires.  Nothing is assumed of users, of Stripe or of faults.      *)
(***************************************************************************)
Fairness ==
    /\ \A w \in Workers : WF_vars(Continue(w))
    /\ WF_vars(StartRun(Scheduler))

FairSpec == Spec /\ Fairness

-----------------------------------------------------------------------------
(* Properties: safety *)

\* Every variable keeps its shape; what a fee voucher sums are fees of
\* balance transactions of type "charge" (voucher.go, scheduler.go:128).
TypeOK ==
    /\ status \in [Payouts -> Statuses]
    /\ stored \in [Payouts -> SUBSET Txns]
    /\ row \in [Keys -> Row]
    /\ lastId \in [Keys -> Nat]
    /\ ledger \in [Keys -> Seq(Voucher)]
    /\ log \in [Payouts -> SUBSET LogEntries]
    /\ run \in [Workers -> Run]
    /\ faults \in Nat

\* Write-ahead: Fortnox holds no voucher of a key for which no row was ever
\* inserted, so whatever happened in phase 2 or 3 left a trace to look at
\* (voucher.go:184-198).
WriteAhead == \A k \in Keys : ledger[k] # <<>> => lastId[k] > 0

\* A row has a number only if Fortnox booked a voucher of its key, and a
\* number other than the blank one is the number of one of them, whatever
\* goroutines, retries and faults did in between (voucher.go:198-208).
ConfirmedIsBooked ==
    \A k \in Keys : row[k].num # Null =>
        /\ ledger[k] # <<>>
        /\ row[k].num \in {Blank} \cup DOMAIN ledger[k]

\* sync_log tells of a synced payout only if its voucher is in Fortnox, even
\* when the row was confirmed by another goroutine or deleted meanwhile
\* (scheduler.go:141-148, handler/sync.go:165-173).
SyncedIsBooked ==
    \A p \in Payouts :
        "fortnox_synced" \in log[p] => ledger[<<"payout", p>>] # <<>>

\* Without retries a goroutine books a payout at most once, over all its
\* runs, crashes and lost answers: what doubles a voucher is another
\* goroutine, never a later run (the join of ListUnsyncedPayouts).
DistinctPosters ==
    \A p \in Payouts :
        LET vouchers == ledger[<<"payout", p>>]
        IN  \A i, j \in DOMAIN vouchers :
                vouchers[i].by = vouchers[j].by => i = j

\* The payout vouchers of p that goroutine w has booked.
BookedBy(w, p) ==
    {i \in DOMAIN ledger[<<"payout", p>>] : ledger[<<"payout", p>>][i].by = w}

\* With retries, too, each payout voucher of a goroutine is covered by a row
\* of its own: over all its runs, crashes and lost answers it books a payout
\* at most once per row that was ever inserted, so that only deleting a row
\* lets it book again (voucher.go:184-188, handler/sync.go:286).
PostsCostRows ==
    \A w \in Workers, p \in Payouts :
        Cardinality(BookedBy(w, p)) <= lastId[<<"payout", p>>]

\* Fortnox gets one voucher per payout at most: "a concurrent runner
\* silently skips if the row exists" (queries.sql.go:539, voucher.go:185).
PayoutAtMostOnce ==
    \A p \in Payouts : Len(ledger[<<"payout", p>>]) <= 1

\* While no statement fails, a payout voucher of a run that saw fees is not
\* reserved or sent before the row of the fee voucher exists or existed: a
\* fee voucher that Fortnox rejects, or whose answer is lost, is left on the
\* list of pending vouchers when the payout is closed
\* (scheduler.go:135-141, handler/sync.go:195-204).
FeeReservedFirst ==
    \A w \in Workers :
        /\ run[w].op = "payout"
        /\ run[w].pc \in {"reserve", "post", "confirm"}
        /\ run[w].fee # {}
        => lastId[<<"fee", run[w].cur>>] > 0

\* One goroutine at a time: the row of the payout voucher ends the fees of
\* the payout.  A fee voucher is sent again only by runs that were stopped
\* before the payout had its row, never afterwards (the join of
\* ListUnsyncedPayouts, scheduler.go:135-141).
PayoutEndsFees ==
    [][\A p \in Payouts :
          row[<<"payout", p>>].id # 0 =>
              ledger'[<<"fee", p>>] = ledger[<<"fee", p>>]]_vars

\* A number once recorded is never replaced by another one: the row keeps
\* it until it is deleted (queries.sql.go:553-560).
ConfirmedNumberSticks ==
    [][\A k \in Keys : Confirmed(k) => row'[k] \in {row[k], NoRow}]_vars

-----------------------------------------------------------------------------
(* Properties: liveness *)

\* A paid payout gets its voucher row at last, however the runs before were
\* interrupted: it is sent, or is on the list of pending vouchers, or is
\* not paid any more.
PayoutIsAttempted ==
    \A p \in Payouts :
        status[p] = "paid" ~>
            lastId[<<"payout", p>>] > 0 \/ status[p] # "paid"

\* While no fault happens the voucher of a paid payout gets its number,
\* whatever goroutines collide.
PayoutIsConfirmed ==
    \A p \in Payouts :
        status[p] = "paid" ~>
            \/ Confirmed(<<"payout", p>>)
            \/ status[p] # "paid"
            \/ faults > 0

\* When no more faults happen, the "retry" button ends with a number on the
\* payout voucher, whatever run it collides with (handler/sync.go:258-259).
RetryConfirms ==
    \A w \in Retries, p \in Payouts :
        /\ faults = MaxFaults
        /\ run[w].pc = "delete"
        /\ Key(w) = <<"payout", p>>
        ~> Confirmed(<<"payout", p>>) \/ status[p] # "paid"

-----------------------------------------------------------------------------
(* What one goroutine at a time implements *)

\* How far the voucher of p has come, seen from the row and from Fortnox.
StageOf(p) ==
    LET k == <<"payout", p>>
    IN  CASE ledger[k] = <<>> /\ row[k].id = 0    -> "open"
          [] ledger[k] = <<>> /\ row[k].id # 0    -> "reserved"
          [] Len(ledger[k]) = 1 /\ ~Confirmed(k)  -> "booked"
          [] Len(ledger[k]) = 1 /\ Confirmed(k)   -> "confirmed"
          [] OTHER                                -> "doubled"

Abstract == INSTANCE PostOnce WITH stage <- [p \in Payouts |-> StageOf(p)]

\* With the scheduler alone the two-phase write implements PostOnce, under
\* crashes, failing statements and lost answers.
PostsOnce == Abstract!Spec
=============================================================================
