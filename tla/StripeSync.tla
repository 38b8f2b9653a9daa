----------------------------- MODULE StripeSync -----------------------------
(***************************************************************************)
(* The copy of Stripe's customers, charges and payouts in the database:    *)
(* internal/stripe/sync.go, run by the scheduler and by the "fetch from    *)
(* Stripe" button, over the stripe_* tables and sync_state.                *)
(*                                                                         *)
(* A step of a worker is one SQL statement or one call to Stripe with the  *)
(* local code up to the next one.  The goroutines that fetch the balance   *)
(* transactions of a paid payout run beside the workers.                   *)
(*                                                                         *)
(* Data.  A record is its entity, its creation second and a stage that     *)
(* only grows: 0 not visible yet, 1 as created, 2 paid, 3 failed.  Records *)
(* of an entity have different seconds.  Stripe lists newest first and may *)
(* show a record up to Lag seconds after its creation.                     *)
(***************************************************************************)
EXTENDS Naturals, FiniteSets

CONSTANTS
    Records,        \* ids of the records
    EntityOf,       \* the entity of each
    CustomerOf,     \* the customer of each charge, or NoRecord
    CreatedAt,      \* creation second of each
    LastStage,      \* the stage each record ends in
    Txns,           \* ids of the balance transactions
    TxnsOf,         \* the ones that settle in each payout
    From,           \* charges_sync_from_date, in seconds
    StartOfYear,    \* the start date when that setting cannot be read
    Overlap,        \* how far behind the newest record a pull starts
    Lag,            \* how late Stripe shows a record at most
    PageSize,       \* records on a page of a list
    Workers,        \* the goroutines that sync
    Scheduler,      \* the one of them the scheduler starts again and again
    Faults,         \* kinds of fault that may happen, each at most once
    NoRecord        \* no record

Entities == {"customers", "charges", "payouts"}
Paid == 2

(***************************************************************************)
(* crash: the process stops and restarts.  db: a statement fails.  stripe: *)
(* a call to Stripe ends with an error after the library's own retries.    *)
(***************************************************************************)
FaultKinds == {"crash", "db", "stripe"}

ASSUME RecordsAssumption ==
    /\ EntityOf \in [Records -> Entities]
    /\ CustomerOf \in [Records -> Records \cup {NoRecord}]
    /\ CreatedAt \in [Records -> Nat \ {0}]
    /\ LastStage \in [Records -> 1..3]
    /\ NoRecord \notin Records
    /\ \A r, s \in Records :
          EntityOf[r] = EntityOf[s] /\ CreatedAt[r] = CreatedAt[s] => r = s
ASSUME TxnsAssumption == TxnsOf \in [Records -> SUBSET Txns]
ASSUME BoundsAssumption ==
    /\ From \in Nat /\ StartOfYear \in Nat
    /\ Overlap \in Nat /\ Lag \in Nat
    /\ PageSize \in Nat \ {0}
    /\ Faults \subseteq FaultKinds
    /\ Scheduler \in Workers

VARIABLES
    stage,      \* Stripe: the stage of each record
    copy,       \* stripe_*: the stored stage, 0: no row
    txns,       \* stripe_balance_transactions of each payout
    pulls,      \* per payout, what its background goroutines have to store
    status,     \* sync_state.status of each entity
    sync,       \* the workers
    refused,    \* charges whose row was refused for want of the customer
    faults      \* kinds of fault that have happened

vars == <<stage, copy, txns, pulls, status, sync, refused, faults>>
stripeVars == <<copy, txns, pulls, status, sync, refused>>

-----------------------------------------------------------------------------
(* Values *)

PCs == {"off", "begin", "cursor", "fetch", "upsert", "error", "finish"}

\* A worker that does not run.  page: the records of the page in hand, in
\* the stage they were listed in; last: the last record of it.
Off == [pc |-> "off", entity |-> "customers", since |-> 0,
        page |-> <<>>, last |-> NoRecord, more |-> FALSE]

Of(e) == {r \in Records : EntityOf[r] = e}
Payouts == Of("payouts")
Visible == {r \in Records : stage[r] > 0}
Stored(e) == {r \in Of(e) : copy[r] > 0}

Newest(S) == {r \in S : \A s \in S : CreatedAt[s] <= CreatedAt[r]}

Becomes(w, s) == sync' = [sync EXCEPT ![w] = s]

\* Worker w goes on with a statement for which its list plays no part.
Goto(w, pc) == Becomes(w, [Off EXCEPT !.pc = pc, !.entity = sync[w].entity])

NoFault == UNCHANGED faults

Fault(kind) ==
    /\ kind \in Faults \ faults
    /\ faults' = faults \cup {kind}

-----------------------------------------------------------------------------
(* Stripe *)

\* Stripe shows a new record: the customer of a charge before the charge,
\* and none more than Lag seconds after a record created later.
Appears(r) ==
    /\ stage[r] = 0
    /\ CustomerOf[r] # NoRecord => stage[CustomerOf[r]] > 0
    /\ \A s \in Visible : CreatedAt[s] <= CreatedAt[r] + Lag

\* A record appears, a payout is paid, a paid payout fails.
Advance(r) ==
    /\ stage[r] < LastStage[r]
    /\ stage[r] = 0 => Appears(r)
    /\ stage' = [stage EXCEPT ![r] = @ + 1]
    /\ UNCHANGED stripeVars
    /\ NoFault

-----------------------------------------------------------------------------
(* One entity *)

\* SyncAll: customers, charges, payouts; an error of one is only logged.
NextEntity(w) ==
    Becomes(w, CASE sync[w].entity = "customers" ->
                      [Off EXCEPT !.pc = "begin", !.entity = "charges"]
                 [] sync[w].entity = "charges" ->
                      [Off EXCEPT !.pc = "begin", !.entity = "payouts"]
                 [] OTHER -> Off)

StartSync(w) ==
    /\ sync[w] = Off
    /\ Goto(w, "begin")
    /\ UNCHANGED <<stage, copy, txns, pulls, status, refused>>
    /\ NoFault

SetStatus(w, s) == status' = [status EXCEPT ![sync[w].entity] = s]

\* SetSyncStatus "running"; its error ends the entity.
Begin(w) ==
    /\ sync[w].pc = "begin"
    /\ \/ SetStatus(w, "running") /\ Goto(w, "cursor") /\ NoFault
       \/ NextEntity(w) /\ UNCHANGED status /\ Fault("db")
    /\ UNCHANGED <<stage, copy, txns, pulls, refused>>

\* Mutant of Since: the pull starts right behind the newest record.
SinceNoOverlap(e) ==
    IF Stored(e) = {} THEN From
    ELSE 1 + CreatedAt[CHOOSE r \in Newest(Stored(e)) : TRUE]

\* created[gte]: MAX(created_at) less the overlap, or the start date.
Since(e) ==
    IF Stored(e) = {} THEN From
    ELSE LET maxAt == CreatedAt[CHOOSE r \in Newest(Stored(e)) : TRUE]
         IN  IF maxAt > Overlap THEN maxAt - Overlap ELSE 0

\* Max...CreatedAt, whose error is dropped and means an empty table, and
\* the setting, whose error means the start of the year.
ReadCursor(w) ==
    /\ sync[w].pc = "cursor"
    /\ \E since \in {Since(sync[w].entity), From, StartOfYear} :
        /\ Becomes(w, [sync[w] EXCEPT !.pc = "fetch", !.since = since])
        /\ \/ since = Since(sync[w].entity) /\ NoFault
           \/ since = From /\ Fault("db")
           \/ /\ Stored(sync[w].entity) = {}
              /\ since = StartOfYear
              /\ Fault("db")
    /\ UNCHANGED <<stage, copy, txns, pulls, status, refused>>

\* What Stripe still has for the list: starting_after the last record.
Listed(w) ==
    {r \in Visible \cap Of(sync[w].entity) :
        /\ CreatedAt[r] >= sync[w].since
        /\ sync[w].last # NoRecord => CreatedAt[r] < CreatedAt[sync[w].last]}

\* The PageSize newest of S.
FirstPage(S) ==
    {r \in S : Cardinality({s \in S : CreatedAt[s] > CreatedAt[r]}) < PageSize}

\* iter.Next asks for a page.
Fetch(w) ==
    /\ sync[w].pc = "fetch"
    /\ LET page == FirstPage(Listed(w))
       IN \/ page = {} /\ Goto(w, "finish") /\ NoFault
          \/ /\ page # {}
             /\ Becomes(w, [sync[w] EXCEPT !.pc = "upsert",
                                          !.page = [r \in page |-> stage[r]],
                                          !.more = page # Listed(w)])
             /\ NoFault
          \/ Goto(w, "error") /\ Fault("stripe")
    /\ UNCHANGED <<stage, copy, txns, pulls, status, refused>>

\* The worker is done with record r of its page.
Consume(w, r) ==
    LET rest == DOMAIN sync[w].page \ {r}
    IN  IF rest = {} /\ ~sync[w].more
        THEN Goto(w, "finish")
        ELSE Becomes(w, [sync[w] EXCEPT
                 !.pc   = IF rest = {} THEN "fetch" ELSE "upsert",
                 !.page = [s \in rest |-> sync[w].page[s]],
                 !.last = r])

\* Mutants of Upsert: INSERT OR IGNORE; every listed payout counts as paid; a
\* code that is none.
InsertOnly(r, s) == copy' = [copy EXCEPT ![r] = IF @ = 0 THEN s ELSE @]
AssumePaid(r, s) ==
    copy' = [copy EXCEPT ![r] = IF r \in Payouts THEN Paid ELSE s]
WrongCode(r, s) == copy' = [copy EXCEPT ![r] = s + Paid]

\* INSERT ... ON CONFLICT(id) DO UPDATE SET status = excluded.status
Upsert(r, s) == copy' = [copy EXCEPT ![r] = s]

\* Mutant of Pulled: only for payouts that had no row.
PulledOnInsert(r, s) == r \in Payouts /\ s = Paid /\ copy[r] = 0

\* A goroutine fetches the balance transactions of the payout.
Pulled(r, s) == r \in Payouts /\ s = Paid

\* foreign_keys=ON: the customer of a charge must have its row.
CustomerIsStored(r) ==
    EntityOf[r] = "charges" /\ CustomerOf[r] # NoRecord
        => copy[CustomerOf[r]] > 0

\* Upsert... of the next record; an error is logged and the loop goes on.
Store(w) ==
    /\ sync[w].pc = "upsert"
    /\ \E r \in Newest(DOMAIN sync[w].page) :
        /\ Consume(w, r)
        /\ \/ /\ CustomerIsStored(r)
              /\ Upsert(r, sync[w].page[r])
              /\ pulls' = IF Pulled(r, sync[w].page[r])
                          THEN [pulls EXCEPT ![r] = TxnsOf[r]]
                          ELSE pulls
              /\ UNCHANGED refused
              /\ NoFault
           \/ /\ ~CustomerIsStored(r)
              /\ refused' = refused \cup {r}
              /\ UNCHANGED <<copy, pulls>>
              /\ NoFault
           \/ UNCHANGED <<copy, pulls, refused>> /\ Fault("db")
    /\ UNCHANGED <<stage, txns, status>>

\* iter.Err: SetSyncStatus "error", whose error is dropped.
ReportError(w) ==
    /\ sync[w].pc = "error"
    /\ Goto(w, "finish")
    /\ \/ SetStatus(w, "error") /\ NoFault
       \/ UNCHANGED status /\ Fault("db")
    /\ UNCHANGED <<stage, copy, txns, pulls, refused>>

\* Mutant of FinalStatus: there is no deferred statement.
KeepsStatus(old) == old

FinalStatus(old) == "idle"

\* The deferred SetSyncStatus "idle".  (A successful SyncCustomers writes it
\* twice.)
Finish(w) ==
    /\ sync[w].pc = "finish"
    /\ NextEntity(w)
    /\ \/ SetStatus(w, FinalStatus(status[sync[w].entity])) /\ NoFault
       \/ UNCHANGED status /\ Fault("db")
    /\ UNCHANGED <<stage, copy, txns, pulls, refused>>

-----------------------------------------------------------------------------
(* Balance transactions of a payout, and the process *)

\* A goroutine of SyncPayouts stores the next balance transaction, skips one
\* whose statement fails, or ends because Stripe answers with an error.
\* Goroutines of the same payout do the same statements.
Pull(p) ==
    /\ pulls[p] # {}
    /\ \/ \E t \in pulls[p] :
           /\ pulls' = [pulls EXCEPT ![p] = @ \ {t}]
           /\ \/ txns' = [txns EXCEPT ![p] = @ \cup {t}] /\ NoFault
              \/ UNCHANGED txns /\ Fault("db")
       \/ /\ pulls' = [pulls EXCEPT ![p] = {}]
          /\ UNCHANGED txns
          /\ Fault("stripe")
    /\ UNCHANGED <<stage, copy, status, sync, refused>>

\* The process stops and is started again.
Crash ==
    /\ \/ \E w \in Workers : sync[w] # Off
       \/ \E p \in Payouts : pulls[p] # {}
    /\ sync' = [w \in Workers |-> Off]
    /\ pulls' = [p \in Payouts |-> {}]
    /\ Fault("crash")
    /\ UNCHANGED <<stage, copy, txns, status, refused>>

-----------------------------------------------------------------------------
(* Specification *)

Init ==
    /\ stage = [r \in Records |-> 0]
    /\ copy = [r \in Records |-> 0]
    /\ txns = [p \in Payouts |-> {}]
    /\ pulls = [p \in Payouts |-> {}]
    /\ status = [e \in Entities |-> "idle"]
    /\ sync = [w \in Workers |-> Off]
    /\ refused = {}
    /\ faults = {}

Continue(w) ==
    \/ Begin(w)
    \/ ReadCursor(w)
    \/ Fetch(w)
    \/ Store(w)
    \/ ReportError(w)
    \/ Finish(w)

Next ==
    \/ \E w \in Workers : StartSync(w) \/ Continue(w)
    \/ \E p \in Payouts : Pull(p)
    \/ \E r \in Records : Advance(r)
    \/ Crash

Spec == Init /\ [][Next]_vars

(***************************************************************************)
(* Goroutines are scheduled, statements end, and calls to Stripe do within *)
(* its library's timeout of 80 s; the scheduler's loop starts a sync when  *)
(* its timer fires.  Nothing is assumed of Stripe, the button or faults.   *)
(***************************************************************************)
Fairness ==
    /\ \A w \in Workers : WF_vars(Continue(w))
    /\ WF_vars(StartSync(Scheduler))

FairSpec == Spec /\ Fairness

-----------------------------------------------------------------------------
(* Properties *)

TypeOK ==
    /\ stage \in [Records -> 0..3]
    /\ copy \in [Records -> 0..3]
    /\ txns \in [Payouts -> SUBSET Txns]
    /\ pulls \in [Payouts -> SUBSET Txns]
    /\ status \in [Entities -> {"idle", "running", "error"}]
    /\ \A w \in Workers :
          /\ sync[w].pc \in PCs
          /\ sync[w].entity \in Entities
          /\ sync[w].since \in Nat
          /\ DOMAIN sync[w].page \subseteq Of(sync[w].entity)
          /\ \A r \in DOMAIN sync[w].page : sync[w].page[r] \in 1..3
          /\ sync[w].last \in Records \cup {NoRecord}
          /\ sync[w].more \in BOOLEAN
    /\ refused \subseteq Records
    /\ faults \subseteq Faults

\* A record of the period that is not stored, though its row was never
\* refused for want of the customer.
Missing(r) ==
    /\ r \in Visible
    /\ CreatedAt[r] >= From
    /\ copy[r] = 0
    /\ r \notin refused

\* Worker w has r in its page, or comes to it on a later one.
Coming(w, r) ==
    /\ sync[w].entity = EntityOf[r]
    /\ \/ r \in DOMAIN sync[w].page
       \/ sync[w].pc = "fetch" /\ r \in Listed(w)
       \/ /\ sync[w].pc = "upsert"
          /\ sync[w].more
          /\ CreatedAt[r] >= sync[w].since
          /\ \A s \in DOMAIN sync[w].page : CreatedAt[r] < CreatedAt[s]

\* The cursor is the newest stored record, and lists run from the newest to
\* the oldest: while nothing fails, a record that is not stored is still
\* ahead of some sync, or younger than the cursor of the next one, whoever
\* else syncs and however late Stripe shows it (sync.go:78-86, 121-128).
NothingForgotten ==
    faults = {} =>
        \A r \in Records :
            Missing(r) =>
                \/ CreatedAt[r] >= Since(EntityOf[r])
                \/ \E w \in Workers : Coming(w, r)

\* While nothing fails, a payout that is stored as paid has its balance
\* transactions stored or a goroutine that has them to store, also when it
\* was stored before it was paid (sync.go:182-188, README.md:18).
PaidIsPulled ==
    faults = {} =>
        \A p \in Payouts :
            copy[p] = Paid => TxnsOf[p] \subseteq txns[p] \cup pulls[p]

Source == INSTANCE Mirror WITH source <- stage

\* The tables are a copy of Stripe: a row never shows a stage its record has
\* not had, and none is ever lost, whatever fails (the upserts of
\* queries.sql.go, README.md:30).
Mirrors == Source!Spec

\* While nothing fails, every record of the period is stored in the end,
\* except a charge that was refused for want of its customer.
RecordIsStored ==
    \A r \in Records :
        Missing(r) ~> copy[r] > 0 \/ r \in refused \/ faults # {}

\* The payouts that never fall behind the cursor: no other is created more
\* than the overlap later.
InWindow(p) ==
    /\ CreatedAt[p] >= From
    /\ \A q \in Payouts : CreatedAt[q] <= CreatedAt[p] + Overlap

\* While nothing fails, the copies of the latest payouts are right in the
\* end, and stay right: what an older list wrote over them is repaired.
WindowConverges ==
    \A p \in Payouts :
        InWindow(p) => <>[](copy[p] = stage[p] \/ faults # {})

\* A sync that shows as running shows as idle at last, also after the
\* process died in the middle of it (sync_state is never reset at start-up).
RunningEnds ==
    \A e \in Entities : status[e] = "running" ~> status[e] = "idle"
=============================================================================
