# stripe-to-fortnox: specifications, checks and proofs

The program copies charges and payouts from Stripe into a SQLite database and
books them in Fortnox: a charge becomes a customer, an invoice and an invoice
payment, a payout becomes a fee voucher and a payout voucher. Neither Stripe nor
Fortnox takes part in a transaction with the database. What makes the program
right or wrong is therefore the order of its statements and calls, what is left
when one of them fails, and what happens when two goroutines do the same work.
The specifications here are about that.

## The system

| Component | Source | State | Operations | Hard part | What makes it correct |
|---|---|---|---|---|---|
| Voucher writer | `internal/fortnox/voucher.go` | `fortnox_vouchers` | reserve, POST, confirm, read again | crash or lost answer between the phases; two writers | one voucher per source, a number only for a voucher that exists |
| Payout sync, retry | `internal/scheduler`, `internal/handler/sync.go` | the list a run goes over, `sync_log` | run, retry | stale lists, rows deleted under a run | every paid payout is sent, none twice |
| Invoices | `internal/fortnox/invoice.go` | number and paid flag of `stripe_charges`, number of `stripe_customers` | create customer, invoice, bookkeep, pay, reconcile | five calls and statements per charge, each may fail | one invoice and one payment per charge, in that order |
| Stripe sync | `internal/stripe/sync.go` | `stripe_*`, `sync_state` | customers, charges, payouts, background balance transactions | cursor by newest `created_at`, failing pages, statuses that change, two syncs | nothing behind the cursor is missing, copies never go back |
| OAuth tokens | `internal/fortnox/auth.go`, `client.go`, `internal/handler/settings.go` | three rows of `settings` | authorize, refresh, refresher, disconnect | concurrent refresh, rotation, three writes | the stored pair is usable, a disconnect holds |
| Account mapping and amounts | `internal/fortnox/mapping.go`, `voucher.go`, `invoice.go`, settings forms | `account_mappings`, the books | group of a country, account of a type, rows of a document, edits | mapped and hard-coded accounts, rounding, fees of other types | accounts add up, vouchers balance |
| Pages, login | `internal/handler`, `internal/views`, `internal/middleware` | what a tab shows, requests under way, the session, the start date | lists, sync page with its polls, buttons and retries, dashboard, settings | pages put together from several statements while passes and other requests run; paging; answers out of order | nothing unsettled is hidden, nothing settled stays on the screen |
| Loop | `internal/scheduler/scheduler.go`, `internal/handler/settings.go` | the interval in `settings`, the loop's timer | save, read, pause, pass | numbers that overflow, passes that hang | passes go on (not the length of the pause) |
| Configuration, setup program, migrations | the rest | - | - | - | - |

How they interact. Three kinds of goroutine write to Fortnox: the scheduler's
(one, endless), one per press of the "sync" button, one per press of the "retry"
button. Nothing keeps them apart. All share one database connection
(`SetMaxOpenConns(1)`), so statements do not overlap, but no transaction spans
two statements. The Stripe sync writes the tables the Fortnox side reads, its
balance transactions from goroutines nobody waits for. The retry handler runs in
its HTTP request up to the DELETE and goes on in a goroutine.

## Modules

| Module | What it is |
|---|---|
| `PostOnce` | abstract: each payout's voucher goes through open, reserved, booked, confirmed, once |
| `Vouchers` | the voucher writer, the payout part of a run, the retry button, crashes and failures |
| `VouchersInv` | the inductive invariants of `Vouchers` |
| `VouchersProofs` | theorems about `Vouchers`, checked by TLAPS |
| `MCVouchers` | values of its constants for TLC |
| `Invoices`, `MCInvoices` | customers, invoices and payments of charges, crashes and failures |
| `Mirror` | abstract: a copy of records that live elsewhere, that neither invents nor loses one |
| `StripeSync`, `MCStripeSync` | the copy of Stripe's records, cursors, pages, statuses; implements `Mirror` |
| `OAuthTokens`, `MCOAuthTokens` | tokens of Fortnox, the API client that uses them, the pages that obtain and remove them |
| `Books`, `MCBooks` | documents and amounts, the account mapping and its forms |
| `Pages`, `MCPages` | the web pages, the session, the requests of several tabs |
| `InvoicesInv`, `StripeSyncInv`, `OAuthTokensInv`, `BooksInv`, `PagesInv` | the inductive invariants of five of these |
| `InvoicesProofs`, `StripeSyncProofs`, `OAuthTokensProofs`, `BooksProofs`, `PagesProofs` | theorems about them, checked by TLAPS |
| `SumLemmas` | lemmas about sums over finite sets (`SumFunctionOnSet` of `Functions`), which the proofs cite |

The modules share no state: each takes what the others do to its tables as
actions of its environment (`StoreTxn` in `Vouchers`, `StoreCharge` in
`Invoices`, `Pull`, `Invoice`, `Reserve` and `Confirm` in `Pages`). Where such an
environment does less than the code may do, the module's section below says so.

### Vouchers

A worker is a goroutine: `Scheduler`, a member of `Triggers` ("sync" button) or
of `Retries` ("retry" button). `run[w]` is its local state: the statement or call
it does next (`pc`), fee or payout voucher (`op`), the payout (`cur`), the rest of
the list it read (`todo`), the fees it added up (`fee`), the number Fortnox
answered with (`got`), the row a retry deletes (`target`).

| Variable | Code |
|---|---|
| `status`, `stored` | `stripe_payouts.status`, rows of `stripe_balance_transactions` by payout |
| `row` | id and number of the `fortnox_vouchers` row of a source |
| `lastId` | last id given to a row of the source: ids are AUTOINCREMENT, so ids count the rows ever inserted |
| `ledger` | what Fortnox booked, which the code never reads back |
| `log` | actions in `sync_log` |

| Action | Code |
|---|---|
| `StartRun`, `ReadTxns`, `EndRun` | the list of unsynced payouts and the loop over it |
| `LookUp`, `Reserve`, `Post`, `Confirm`, `Reread` | `CreateFeeVoucher`, `CreatePayoutVoucher`, `postVoucher`, statement by statement |
| `RetryRequest`, `Delete`, `Relist` | `RetryPendingVoucher` |
| `Crash` | the process stops and is started again |
| `StoreStatus`, `StoreTxn` | what `SyncPayouts` and its goroutines store |

The number of a pending row is `Null`. An answer from which `json.Unmarshal`
makes no number (its error is dropped) stores the empty string, `Blank`, and an
empty string counts as confirmed. A nil voucher in the scheduler (`v.ID`) ends
the process: `Reread` with `Panics`.

A payout's status becomes paid, and may be something else again and again
(`"reverted"`): a paid payout can fail, and an older page of another sync may write
an older status over it (`stripe/sync.go:178`).

Fees are sets of balance transactions, not sums: the properties only ask which
ones a fee voucher covers. `FeeTxns` are the ones of type "charge" with a fee.

### Invoices

As `Vouchers`, without retries. `todo` holds pairs of a charge and the invoice
number it was listed with, because a run works with what it listed. There are
five calls to Fortnox (POST a customer, an invoice, a payment, PUT to bookkeep the
invoice and the payment); each may be rejected, or be carried out and its answer
lost, and the answer of a POST may be unreadable. `PUT` is not
repeated after a 429, so a full rate limit is a rejected PUT.

`TxnType` is the type of a charge's balance transaction. The lookup after an
invoice takes any type (`queries.sql.go:433`), the list of the reconciliation only
"charge" (`Joined`, `queries.sql.go:244`).

A charge that has succeeded stays so in the table here. In the code an older page
of another sync can write an older status over it, which keeps it off the list of
unsynced charges until a later sync repairs it (`WindowConverges` of `StripeSync`).

Left out because the code cannot get there: the early return of `CreateInvoice`
for a charge with a number (the list holds none), and the fetch of a customer
that is not stored (foreign keys are on, so the charge would not be stored
either).

### StripeSync

A record is its entity, its second of creation and a stage: created, paid,
failed. `stage` is Stripe's, `copy` the row's. `sync[w]` is a worker in one of the
three functions of `SyncAll`: the page in hand with the stages it was listed in,
`last` for `starting_after`, `since` for `created[gte]`. `pulls` holds what the
goroutines of `SyncPayouts` have still to store, `status` is `sync_state`.

| Action | Code |
|---|---|
| `Begin`, `ReportError`, `Finish` | the three `SetSyncStatus` of a function, the last one deferred |
| `ReadCursor` | `Max...CreatedAt` less 10 s, the start date, the start of the year, with the errors that lead from one to the next |
| `Fetch` | a page of the list, newest first |
| `Store` | the upsert of the next record, refused when the customer of a charge has no row; the goroutine of a paid payout |
| `Pull` | `SyncBalanceTransactionsForPayout`, one transaction at a time |
| `Appears`, `Advance` | Stripe: a record may show up to `Lag` seconds late, its status changes |

Records of one entity have different seconds, which makes the order of a list
definite. In `mirror` the charges are within the overlap, the payouts are not; in
`mirror_race` the payouts are. `Lag` is at most the overlap: a record that Stripe
shows later than that is lost by design.

### OAuthTokens

A pair of tokens is the number Fortnox issued it under, and the three rows
`stored` hold such numbers. `work[w]` is a goroutine inside
`GetValidAccessToken`: what it has read and which statement or request comes
next. `usable` are the refresh tokens Fortnox would take: one that was used is
replaced. An access token is fresh, in its last minute, or expired (`age`); time
passes by the action `Age`.

| Action | Code |
|---|---|
| `StartCall`, `ReadAccess`, `ReadRefresh`, `ReadExpiry` | `GetValidAccessToken` by an API call or the refresher's ticker |
| `Request` | `RefreshAccessToken`, `postToken` |
| `Save` | one statement of `SaveTokens` |
| `Use` | the request with the token; a POST answered 429 starts again |
| `Authorize`, `Callback`, `Exchange` | the login at Fortnox, with the state of the session; of any tab at any time, connected or not |
| `Disconnect`, `DeleteRow` | `FortnoxDisconnect`, row by row, connected or not; a delete may fail |

Events (`MaxEvents` = 1 of seven kinds): a crash, a failing SELECT or INSERT, a
refused request, a served one whose answer is lost, one that hangs, a disconnect.

Nothing keeps a login from a refresh or from another login: `FortnoxAuthorize` does
not ask whether the app is connected. `relogged` is a history variable that notes
a login that ended over stored tokens or beside another one (`Beside`). Then the
three rows may be of two pairs and the expiry later than the access token's, so
`PairsMatch` and `TokenAccepted` except it, but a refresh token that Fortnox takes is
kept all the same (`Recoverable`) and used (`RefreshIsUsed`).

### Books

What each document adds to the accounts of Fortnox, in hundredths of an öre so
that the reverse VAT of a fee stays exact. `mapping` is `account_mappings`;
`CreateMapping`, `OpenRow` and `UpdateMapping` edit account and VAT rate between any two steps of
the goroutine that books (`ResolveRevenue`, `PostInvoice`, `ResolveClearing`,
`PostPayment`, `BookFee`, `BookPayout`). Calls succeed here and one goroutine
books; what happens otherwise is the matter of `Vouchers` and `Invoices`.
A row has a debit and a credit side, as `VoucherRow` has: a payout with more
refunds than charges is negative, and its voucher debits and credits negative
amounts. `StoredTotal` is a set: `int64(totalDebit * 100)` cuts off towards zero
(`Cut`), and the float may lie just short of a whole number.

### Pages

One tab of a browser, and retry buttons of others. `page` is what the tab shows.
`req` holds the requests under way, one per connection: a navigation ("link"), a
poll of the sync page ("poll"), the buttons htmx sends (`Buttons`) and a retry of
each other tab (`Tabs`). net/http serves them at the same time. A request has the
statements its handler has still to do (`todo`, a sequence per handler) and the
results it has (`got`). `Read` does the next statement; a failing one leaves an
empty result, as the code does by dropping the error. `Render` shows the answer:
a new page ends what is under way (`Abandoned`), a new section may or may not. The
passes and the other requests change the tables between the statements;
`DeletePending` is the one that deletes a row. `RequireAuth` may find the session gone
at any request.

`due` is history: what was unsettled all the time since the request was made;
`raced`: what of it a retry beside the request deleted the row of. `owed` is what a
walk has still to show.

The place of a row in the order of the lists is part of the instance: by
`created_at` and, within a second, in the order in which SQLite scans the table.
Vouchers have no definite order within a second (`AnyOrder`).

The two counts behind "first" are one statement of the model: rows of Stripe are
never deleted, so reading one after the other gives what one of the moments
would give.

### Faults of Vouchers and Invoices

`Faults` names the kinds a run allows, `MaxFaults` bounds how many happen.

| Kind | Code |
|---|---|
| `crash` | the process stops; every goroutine is gone, the database stays |
| `db` | a statement returns an error, every place with its own handling |
| `reject` | an error answer, three times 429 to a POST, no token, the rate limiter's error |
| `lost` | done by Fortnox, then timeout or broken connection |
| `garbled` | 2xx and a body without a number |

An `InsertSyncLog` that fails is not modelled: its error is dropped, and the
properties only say what an entry implies.

## Runs

Passing runs:

| Run | Instance | What it shows |
|---|---|---|
| `serial` | scheduler alone, two payouts of the same second, three balance transactions, two faults (no `db`) | the code implements `PostOnce` (`PostsOnce`); a failed fee voucher leaves a row (`FeeReservedFirst`); after the payout's row no fee voucher is sent (`PayoutEndsFees`); `TypeOK` |
| `crowd` | scheduler, sync and retry button, one payout without fees, one fault of any kind, up to two rows, fair | the row is there before the POST (`WriteAhead`), what a number and a log entry imply (`ConfirmedIsBooked`, `SyncedIsBooked`, `ConfirmedNumberSticks`); a goroutine books a payout at most once per row that was inserted, over all its runs and retries (`PostsCostRows`); `PayoutIsAttempted`, `PayoutIsConfirmed` while nothing fails, `RetryConfirms` |
| `invoices_serial` | scheduler alone, three charges, two of one customer and one of none, one fault, fair | `DuplicatesCostFaults`, `PaymentsOfNumber`, and that charges are invoiced and paid at last |
| `invoices_concurrent` | scheduler and sync button, one charge, two faults | `NumberIsBooked`, `PaidIsBooked`, `RepeatsBounded` |
| `mirror` | scheduler alone, a customer, two charges, two payouts, one transaction; a crash, a failing statement, a failing call | the tables are a copy of Stripe (`Mirrors`, a refinement of `Mirror`); while nothing fails nothing falls behind the cursor (`NothingForgotten`); `TypeOK` |
| `mirror_race` | scheduler and button, two payouts, a crash, fair | transactions of paid payouts are fetched (`PaidIsPulled`), every payout is stored at last (`RecordIsStored`), stale pages are repaired (`WindowConverges`), a status left "running" becomes idle (`RunningEnds`) |
| `tokens` | a caller, the refresher, two logins that may overlap; three pairs, one event of any kind | a refresh token Fortnox takes is kept (`Recoverable`); without a second login the rows are of one pair and the expiry never later than the token's (`PairsMatch`), and no expired token is used (`TokenAccepted`); `TypeOK` |
| `tokens_live` | a caller, the refresher, a browser that may log in again; two pairs, two attempts of a Post, one event of any kind, fair | `DisconnectHolds`, `CallEnds`, `RefreshIsUsed` |
| `books` | three charges (German customer billed in Sweden; a bank payment partly captured and refunded; a small one of the USA, refunded), two payouts, the second of which Stripe takes back, edits of two rows, fair | `Reconciles`: the accounts 1510, 1521 and 3010 and the stored totals agree with what was booked (`ReceivableIsUnpaid`, `ClearingLeftover`, `RevenueOfSweden`, `TotalWithinOre`, with `TypeOK`); `ChargeHeals` |
| `pages` | one tab without buttons, two charges and a payout, one row to a page, one fault | a walk along the links shows every row (`ListsAreComplete`, with `TypeOK`); what is unsettled is in a list of the sync page and its poll (`NothingHidden`) |
| `sync_live` | the sync page of a payout that stays open, its poll, a button that syncs or retries, one fault, fair | `NothingHidden`, unless a retry deleted the row meanwhile; the page catches up (`PageCatchesUp`) |

One run ends in a counterexample, for what the repository says is not what the
code does:

| Run | Property | What happens |
|---|---|---|
| `double_payout` | `PayoutAtMostOnce` | two runs list the payout, the second one's INSERT is ignored and it sends the voucher all the same (`voucher.go:185`, `queries.sql.go:539`) |

### Disagreements without a run

Met while modelling, and not checked by a run of their own. Vouchers and
invoices:

- A crash, or a failing UPDATE, after a fee's POST: the payout has no row yet, the
  next run sends the fee again (`voucher.go:129` "One voucher per payout").
- The payout may be sent before its balance transactions are stored, and is never
  looked at again (`README.md:24`).
- The retry of a fee deletes its row, says that the voucher is sent again, and
  does nothing more; no payout sync brings the row back (`handler/sync.go:310`).
- A run may confirm a row between the handler's list and its DELETE, which then
  deletes a confirmed one (`queries.sql.go:649`); the payout is booked again.
- A charge whose balance transaction is of another type than "charge" ("payment", as
  of a bank debit) is paid when the transaction is stored before its invoice and
  nothing fails, or never: the list that is to be the fallback for every charge
  whose payment is not recorded (`queries.sql.go:234-236`) joins transactions of type
  "charge" only (line 244). `PaymentIsRecorded` is about the charges it finds.
- The sync button pressed during a run has an older list: a second invoice
  (`README.md:32`). With one goroutine and no fault there is none
  (`DuplicatesCostFaults`).
- A row that stays pending is not taken up by the next run, although
  `voucher.go:190-192` says so (`queries.sql.go:625` says it is not). A pending fee
  of a payout that has no row yet is sent again by the next run, although
  `queries.sql.go:625` and the sync page (`sync.templ:131`) say it is not.
- A row deleted between the UPDATE and the last SELECT gives the scheduler a nil
  voucher, and the process stops (`scheduler.go:147`).

Stripe sync:

- The overlap is 10 s, `README.md:16` says 60; there is no webhook (`README.md:18`).
- A payout that becomes paid after newer ones were stored is behind the cursor,
  is not listed again and never gets its transactions (`README.md:18`).
- Lists run from the newest record: when a later page fails, or the process stops
  between two pages, the rest stays behind the cursor for good. The properties
  about missing records are therefore stated for runs without a fault.
- The status "error" is overwritten at once by the deferred "idle", so the page
  hardly ever shows it.

Tokens:

- A call that reads the access token before another one's save and the expiry
  after it may use an expired token; its request fails once. (`TokenAccepted` is
  about the others.)
- A stop between the saves of the access and the refresh token leaves a valid
  access token with a refresh token that is used up: the app works until the
  expiry and then has to be connected again, as it has after a refresh whose
  answer is lost.
- Of two goroutines that refresh at once, one fails its call.
- A login over stored tokens (a stale page, or the address) beside a refresh, or
  two logins at once, can leave an access token of one pair and a refresh token or
  an expiry of another. The refresh token works, so a refresh mends it; until then
  an expired access token may be used.
- A disconnect that meets a save can leave an access token without a refresh
  token: the page says connected (`auth.go:172`) and every call fails.
- The refresher logs that it refreshed (`auth.go:164`, comment at 148) also when
  it found the token valid, as it mostly does.
- `postToken` has no timeout: with the background context the scheduler may hang
  for ever (`auth.go:88`).

Books:

- Bank, fee and reverse VAT rows of the mapping are shown and editable, but the
  vouchers use fixed accounts (`README.md:36`). Editing the clearing account moves
  the invoice payments away from the account the vouchers credit.
- Account 1521 does not match Stripe's balance "at all times" (`README.md:34`):
  refunds, parts that were not captured and fees of transactions of another type
  than "charge" stay on it (`ClearingLeftover` says so exactly).
- The VAT rate is editable, cut off to an integer, and 0 when empty
  (`README.md:20` "All charges are invoiced with 25% VAT").
- Payout vouchers carry no currency; `UpdateMapping` accepts an empty account.

Pages:

- "Alla betalningar och utbetalningar är bokförda" (`sync.templ:63`) is shown also
  when a query failed, and when vouchers are pending; and, until the next poll, when a
  retry in another tab deletes a payout's row between the two lists of a request
  (`raced` in `NothingHidden`). The dashboard hides its warning when a count fails.
- "Sätt till 0 för att inaktivera", says the settings page (`settings.templ:107`): 0
  gives the default of 60 minutes (`scheduler.go:58`), and so does any text that is no
  positive number, which is stored and shown all the same. So many minutes that the
  `Duration` overflows (line 65) give a pause that is short or none.
- `SyncPage` never looks whether the start date is set, so the hint shows until
  the first poll.
- The list of vouchers may skip rows while a retry deletes one; rows of the same
  second have no definite order.
- The setup program tells the user to register `/settings/fortnox/callback`
  (`cmd/setup/main.go:154`), the app uses `/auth/fortnox/callback` (`auth.go:35`).

### Bounds

Vouchers and invoices: payouts (charges) only meet in a worker's list, so two of them
show what the order of a list can do, and one is enough where several workers
compete for the same one. `MaxFaults` = 2 in `serial` and `invoices_concurrent` lets a
second fault hit the recovery from the first; the fair runs take one, because they
ask what happens after the last fault. `crowd` has a payout without fees, for a fee
voucher takes the same statements once more before them; fees are in `serial`, and
for several goroutines in the theorems. `MaxInserts` bounds the retries: a source
whose row was inserted that often is not retried again; two rows are enough for a
retry to meet a row that is not the one it read. No bound limits the number of
runs a goroutine makes. No symmetry is used.

`StripeSync`: each kind of fault happens once; a page of one record makes every
list of two records a list of two pages, so that another sync, a crash or a
change at Stripe can come between them. `mirror_race` leaves charges out because
customers and charges run through the same code one after the other.

`OAuthTokens`: three pairs are a login's and two more, so that in `tokens` two
goroutines can refresh with the same token, or a refresh and a second login meet,
and a third save follow; the last pair never gets old, which ends the behaviour
without a deadlock of the grant. Two authorization codes let two logins overlap.
`tokens_live` takes two pairs, so that a refresh or a second login, but not both,
follows the first one, and two attempts of a Post.

`Books`: one payout for two charges and one that is negative for the third, so that the
vouchers of two payouts mix and one of them has fees of both types; the two rows that may be edited are
one that decides between charges and the one two documents share. The accounts
entered are an existing number and none, the rate entered is one that differs from
the seeded ones. The rates are the whole per cents that `int()` leaves (`invoice.go:155`).

`Pages`: with one row to a page three rows make lists of up to two pages in each
of the three states a walk can meet (a row stored before, at and behind it). The
sync page's buttons have a run of their own, `sync_live`, because requests beside each
other multiply the states: it has one payout, which is the kind that moves between
the lists, and a button whose retry runs beside the poll as one of another tab would.
`Tabs` is empty in both runs; `SyncPageHidesNothing` is proved for any number of
them. Links, reloads and dates are bounded by constants named for it.

### Fairness

`Continue(w)` is weakly fair for each worker: goroutines are scheduled by the Go
runtime, statements wait at most for `busy_timeout`, and calls to the Fortnox API
end within the client's timeout of 30 s. (The token request, `auth.go:88`, has no
timeout; there the assumption is stronger than the code.) `StartRun(Scheduler)`
is weakly fair: the loop of `Scheduler.run` starts a run whenever the timer
fires. Nothing is assumed of the buttons, of what Stripe delivers, or of faults,
which are bounded but never forced. `Invoices` and `StripeSync` assume the same.

`OAuthTokens` does not assume that a token request is answered: that it hangs is
an event, and `CallEnds` holds in spite of it. Time passes (`Age`) and the
ticker fires. `Books` takes strong fairness of each charge, because a
run that finds an account that is no number goes on with the next charge and
comes again: what is possible again and again is tried. `Pages` assumes that
statements end and that an open sync page polls; nothing of the user, of passes or
of Fortnox.

## Proofs

Six modules of proofs, one per modelled component. Their theorems hold for all
values of the constants: any number of payouts, charges, records, goroutines,
rows, pages, tokens and faults. Each invariant a theorem rests on is in the
component's `Inv` module.

| Module | Theorem | Statement |
|---|---|---|
| `VouchersProofs` | `TypeCorrect` | `Spec => []TypeOK` |
| | `NumberSticks` | `Spec => ConfirmedNumberSticks` |
| | `BookedInvariant` | `Spec => []BookedInv` |
| | `ReservedBeforePosted`, `NumbersAreReal`, `SyncedPayoutsAreBooked` | `WriteAhead`, `ConfirmedIsBooked`, `SyncedIsBooked` always hold |
| | `FeesAreReservedFirst` | while no statement fails, `FeeReservedFirst` always holds |
| | `EveryPostCostsARow` | `PostsCostRows` always holds |
| | `NobodyPostsTwice` | with no retry button, a goroutine books a payout once (`DistinctPosters`) |
| | `AloneBooksOnce` | with the scheduler alone, `PayoutAtMostOnce` always holds |
| | `AloneImplementsPostOnce` | with the scheduler alone, `Spec => PostsOnce` |
| | `AloneEndsFees` | with the scheduler alone, `Spec => PayoutEndsFees` |
| `InvoicesProofs` | `TypeCorrect` | `Spec => []TypeOK` |
| | `StoredNumberIsBooked`, `PaidHasPayment` | `NumberIsBooked`, `PaidIsBooked` always hold |
| | `RepeatsAreBounded` | `RepeatsBounded` always holds |
| | `AlonePaysTheStoredInvoice` | with the scheduler alone, `PaymentsOfNumber` always holds |
| | `AloneDuplicatesCostFaults` | with the scheduler alone, of finitely many charges and customers, `DuplicatesCostFaults` always holds |
| `StripeSyncProofs` | `TypeCorrect` | `Spec => []TypeOK` |
| | `StripeIsMirrored` | `Spec => Mirrors` |
| | `PaidPayoutIsPulled` | `PaidIsPulled` always holds |
| | `NothingIsForgotten` | if `Lag <= Overlap`, `NothingForgotten` always holds |
| `OAuthTokensProofs` | `TypeCorrect` | `Spec => []TypeOK` |
| | `RefreshTokenIsKept`, `RowsAreOnePair`, `UsedTokenIsValid` | `Recoverable`, `PairsMatch`, `TokenAccepted` always hold |
| | `DisconnectIsKept` | `Spec => DisconnectHolds` |
| `BooksProofs` | `BooksReconcile` | of finitely many charges, `Reconciles` (with `TypeOK`) always holds |
| `PagesProofs` | `ListsComplete` | `ListsAreComplete` (with `TypeOK`) always holds |
| | `SyncPageHidesNothing` | `NothingHidden` always holds |

What they assume. The named assumptions of the modules on their constants, which
TLC evaluates in every run: that `Null` and the like are no values, that the
scheduler is no button, and bounds that are natural numbers. Where cardinalities
are used, sets are finite that are finite in the program: the buttons pressed
(`WorkersAssumption` of `Invoices`), the rows of a table (`TablesInv`, proved), the
charges that are summed up (a hypothesis of `AloneDuplicatesCostFaults` and
`BooksReconcile`).
Beyond that a theorem assumes what its statement says:

- No retry button, or the scheduler alone: with other goroutines the property is
  false, as `double_payout` shows of `PayoutAtMostOnce`.
- `Lag <= Overlap`: Stripe shows a record no later than the ten seconds by which the
  code reads back (`sync.go`). A record later than that is lost by design.
- No failing statement in `FeesAreReservedFirst`: an INSERT that fails leaves a fee
  without a row, and the run goes on to the payout's voucher. `serial` leaves out
  failing statements for the same reason.

None of the properties below is inductive. The arguments:

*Vouchers.* That `Confirm` writes a number Fortnox gave needs to be known of the
goroutine that holds it, and that a success is logged only for a booked voucher
needs to be known of every goroutine behind the POST. `Phases` says this for each
goroutine, and it is preserved because `ledger` only grows and `lastId` never
falls, whatever others do to the row. `BookedInv` adds the properties and
`RowIds`. `FeeInv`: a goroutine that has found fees comes to the payout's voucher
only after it has inserted a fee row.

`PostsCostRows` counts what a goroutine booked against the rows that were ever
inserted. `RowsInv` says that one that may still send a payout's voucher (`Ahead`)
has a row left over, once there is a row; where there is none, the Reserve before
its POST inserts one. It holds with retries, because a goroutine becomes `Ahead` of
a payout only by listing it, and lists it only when it has no row.

`DistinctPosters` needs more: why does a goroutine that booked a payout never
list it again? `OnceInv` says that the row of a voucher in flight stays (nobody
deletes rows without a retry), that a booked payout has a row, which keeps it off
every later list, and that the goroutine has it neither in its list nor before
its POST (`Ahead`). With one worker, two vouchers have the same poster, so there
is one at most. The refinement takes `StageOf` as the mapping: every action
changes the stage of at most one payout, by one stage. `ListIsFresh` is behind
`AloneEndsFees`: what a lone run has still to come to is as unsynced as when it was
listed.

*Invoices.* `InHand` is the counterpart of `Phases`. The bound on repeated invoices
is a count (`Bounded`): while no number is stored, every invoice of the charge is
in the hands of a goroutine or was lost to a fault, and a fault loses at most one
per goroutine; once the number is stored, only goroutines that listed the charge
before can add one. The proof compares the cardinalities of these sets before
and after each step. `AloneInv` says that the scheduler's list agrees with the
table, so that what it pays is what is stored, and `UnpaidInv` that what it pays is
not paid yet. `LostInv` is behind `DuplicatesCostFaults`: what Fortnox holds of a
charge or a customer that is neither stored nor in the scheduler's hands was lost,
and the sum of all that was lost is at most the number of faults. A step adds to
it for one charge or one customer at most, and only with a fault. `RecordInv` (a
stored number is of a record) ties the excess to what was lost.

*Sums.* The library defines a sum by recursion over subsets with a CHOOSE. Its
theorems on such definitions take operators as parameters, so `SumLemmas` shows
directly, with a smallest counterexample in place of induction, that there is a
function on the subsets of the set that takes their elements in any order, and
that the sum is it. What follows: a sum changes by what one of its elements
changes by, is monotone, and splits by its set and by its summands.

*StripeSync.* `BehindStripe`: no page in hand and no row is ahead of Stripe, which
makes each store a step of `Mirror`. `AheadInv`: what is behind the cursor, or
before the start of a sync, is still ahead of some sync that will store it, be
it on the rest of its page or on a page it has not asked for. The overlap is
needed where a record appears: it is at most `Lag` older than the newest one.

*OAuthTokens.* `AgeInv` says that tokens grow old in the order they were issued.
`PairInv` says where the refresh token is that Fortnox takes: stored, or in the
hands of the one worker that holds it, and what each other worker has read is
then used up. So two refreshes at once cannot both succeed, and rows are written
in the order of the pairs. A disconnect breaks all that, and so does a login over
stored tokens, hence the conditions and `relogged`. `HoldInv` is what survives a
login: a pair that a worker has to save is nobody else's, and its refresh token can
be neither read nor spent before it is in its row. `NotAgain` is behind `DisconnectHolds`: when all is quiet, only a call
that read an access token before, or a new login, could store one.

*Books.* `ClearingLeftover` speaks of the moment when all is booked; `ClearingInv`
says at any time what is on the clearing account: what was paid, less the fees and
the payouts that have a voucher. The sums over charges and the vouchers of payouts
meet in `Settled`: a voucher of a payout settles the charges in it, which no other
voucher of its kind has settled. `FeeBooked` closes the gap at the end: a payout
without a fee voucher has no fees to book. `MappingInv` says that a row has the
seeded account and rate until it is edited. `JobInv` carries this across
the gap between lookup and document: what was looked up may be of before an edit,
but is then either a seeded account or one the user entered. The documents are
opened by one lemma each (`InvoiceAdds`, `PaymentAdds`, `FeeAdds`, `PayoutAdds`: what
it adds to an account), and `FeeBalances` shows that the balance check lets every
fee voucher through.

*Pages.* A walk owes rows of later pages only (`WalkInv`): rows that are stored
meanwhile push others back and never forward. The place of a row is its rank,
the number of newer rows, and the page that shows it follows from the rank;
`PagesProofs` opens with these lemmas about ranks of finite sets. `HiddenInv`: a
payout that is no longer in the list of unsynced ones when that is read has a
row, so it is in the list of pending ones, which is read later, unless it is
confirmed, or a retry beside the request has deleted the row, which is in `raced` then.
`OthersInv` is for the lists: while one is on the screen, nothing but the answer to a
navigation can take its place.

TLC has checked every inductive invariant as an invariant of an
instance of its component before it was proved. The runs do not repeat that, they check what
follows.

Only model-checked: everything about liveness, which needs fairness and ENABLED and
is out of the prover's reach. Every safety invariant the runs check is a theorem, some under the conditions listed above.

## Plan

Done: all modules, and the proofs above. What is left is liveness, which stays with
TLC.

## Not modelled

- Configuration and wiring at start-up (`internal/config`, `cmd/server`), which run
  once, in one goroutine, before any other; the migrations, which the goose library
  runs at the same point. What the schema promises (unique index, AUTOINCREMENT,
  foreign key, seed of the mapping) is part of the modules that rely on it.
- The setup program (`cmd/setup`): it asks questions and writes a file.
- How long the scheduler's loop pauses (`SaveSyncInterval`, `interval`): a text that is
  read once per pass. That the passes go on is a fairness assumption; what is wrong
  with the numbers is listed above.
- The list of log entries, the table of sync states and the figures of the
  dashboard: single reads that nothing is derived from. Wording, formatting, dates,
  flash messages and layout of pages and documents.
- The comparison of the password hash: a wrong password changes nothing.
- `FetchAndUpsertCustomer` and LEGACY charges: the foreign key keeps a charge
  without its customer's row out of the table the invoices start from.
- Currencies other than SEK in `Books`: the documents carry the charge's currency
  and Fortnox converts.
- A composition of all parts over one database. Each module takes the others'
  writes as actions of its environment, in a freer order than the other module
  makes them, but not in every order the code allows: a charge that has succeeded
  stays so in `Invoices`. What a module shows holds under that environment; properties that need two modules at once (late fees) fail
  already where they are stated above.
- The deployment workflow and generated code other than the templates' output.
