-------------------------------- MODULE Books --------------------------------
(***************************************************************************)
(* What the app writes into the books: the rows of its vouchers            *)
(* (voucher.go), its invoices and their payments (invoice.go), the account *)
(* mapping they look accounts up in (mapping.go, account_mappings) and the *)
(* forms that edit it (handler/settings.go).                               *)
(*                                                                         *)
(* One goroutine books while the user edits; calls succeed, what happens   *)
(* when they do not is the matter of Vouchers and Invoices.  A step is one *)
(* SQL statement or one document.                                          *)
(*                                                                         *)
(* Data.  The ledger counts hundredths of an öre, debits positive.  All    *)
(* amounts are in SEK.  Fortnox splits the VAT off an invoice and credits  *)
(* account 1510 for its payment.                                           *)
(***************************************************************************)
EXTENDS Integers, FiniteSets, Functions

CONSTANTS
    Charges,        \* ids of charges
    Amount,         \* amount of each, in öre
    Captured,       \* the part of it that was captured
    Refunded,       \* what was refunded before the payout
    Fee,            \* Stripe's fee
    TxnType,        \* type of its balance transaction
    Billing,        \* country of its billing details, or ""
    Customer,       \* country of its customer, or ""
    EU,             \* the member states
    Payouts,        \* ids of payouts
    PayoutOf,       \* the payout each charge settles in
    Kontos,         \* what the user may enter as an account
    Rates,          \* what int() leaves of the VAT rates the user may enter
    Edits           \* the rows of the mapping the user may edit

Groups == {"SE", "EU", "WO"}

\* The rows of account_mappings: revenue by group, and the five with "SEK".
Keys == Groups \cup {"clearing", "bank", "fee", "vat debit", "vat credit"}

NoKonto == ""
Accounts == {"1510", "1521", "1930", "2611", "2614", "2645", "3007", "3008",
             "3010", "6065"} \cup (Kontos \ {NoKonto})

ASSUME ChargesAssumption ==
    /\ Amount \in [Charges -> Nat] /\ Captured \in [Charges -> Nat]
    /\ Refunded \in [Charges -> Nat] /\ Fee \in [Charges -> Nat]
    /\ \A c \in Charges : Captured[c] <= Amount[c]
    /\ PayoutOf \in [Charges -> Payouts]
    /\ Rates \subseteq Nat
    /\ Edits \subseteq Keys

VARIABLES
    mapping,    \* account_mappings: account and VAT rate of each row
    form,       \* the row UpdateMapping has read
    edited,     \* the rows that were ever edited
    charge,     \* "new", "booked" or "paid": fortnox_invoice_number, _paid
    failed,     \* charges whose last entry in sync_logs is "fortnox_error"
    job,        \* what the goroutine has looked up
    posted,     \* fortnox_vouchers: kinds of voucher each payout has
    total,      \* the values their stored totals may have, in öre
    ledger      \* Fortnox: balance of each account

vars == <<mapping, form, edited, charge, failed, job, posted, total, ledger>>
mappingVars == <<mapping, form, edited>>
booksVars == <<charge, failed, job, posted, total, ledger>>

-----------------------------------------------------------------------------
(* The mapping *)

Row(konto, vat) == [konto |-> konto, vat |-> vat]

\* The rows of the migration; a rate that is NULL is 0.
Seed == [key \in Keys |->
    CASE key = "SE"         -> Row("3010", 25)
      [] key = "EU"         -> Row("3007", 25)
      [] key = "WO"         -> Row("3008", 25)
      [] key = "clearing"   -> Row("1521", 0)
      [] key = "bank"       -> Row("1930", 0)
      [] key = "fee"        -> Row("6065", 25)
      [] key = "vat debit"  -> Row("2645", 0)
      [] key = "vat credit" -> Row("2614", 0)]

\* strconv.Atoi takes it.
IsNumber(konto) == konto \in Accounts

NoForm == [key |-> "SE", open |-> FALSE]

\* The form's rate replaces the row's; an empty one clears it.
Write(key, konto, vat) ==
    /\ mapping' = [mapping EXCEPT ![key] = Row(konto, vat)]
    /\ edited' = edited \cup {key}

\* CreateMapping: an account must be given; a row of the same type and code
\* is overwritten.
CreateMapping(key) ==
    /\ \E konto \in Kontos \ {NoKonto}, vat \in Rates : Write(key, konto, vat)
    /\ UNCHANGED form
    /\ UNCHANGED booksVars

\* UpdateMapping reads the row, and updates it with what was entered, which
\* may be nothing.
OpenRow(key) ==
    /\ ~form.open
    /\ form' = [key |-> key, open |-> TRUE]
    /\ UNCHANGED <<mapping, edited>>
    /\ UNCHANGED booksVars

UpdateMapping ==
    /\ form.open
    /\ \E konto \in Kontos, vat \in Rates : Write(form.key, konto, vat)
    /\ form' = NoForm
    /\ UNCHANGED booksVars

CountryCode(c) == IF Billing[c] # "" THEN Billing[c] ELSE Customer[c]

\* countryGroup
Group(country) ==
    IF country \in {"", "SE"} THEN "SE"
    ELSE IF country \in EU THEN "EU" ELSE "WO"

-----------------------------------------------------------------------------
(* Documents *)

Debit(account, amount) == [account |-> account, debit |-> amount, credit |-> 0]
Credit(account, amount) == [account |-> account, debit |-> 0, credit |-> amount]

Sum(f, S) == SumFunctionOnSet(f, S)

DebitOf(rows) == Sum([r \in rows |-> r.debit], rows)
CreditOf(rows) == Sum([r \in rows |-> r.credit], rows)

\* Books a document, a set of rows.
On(a, rows) == {r \in rows : r.account = a}
Adds(rows) == [r \in rows |-> r.debit - r.credit]
Book(rows) ==
    ledger' = [a \in Accounts |-> ledger[a] + Sum(Adds(rows), On(a, rows))]

\* What Fortnox books for an invoice of which vat per cent are included.
InvoiceRows(amount, konto, vat) ==
    LET tax == (100 * amount * vat) \div (100 + vat)
    IN  {Debit("1510", 100 * amount), Credit(konto, 100 * amount - tax),
         Credit("2611", tax)}

PaymentRows(amount, konto) ==
    {Debit(konto, 100 * amount), Credit("1510", 100 * amount)}

\* CreateFeeVoucher, with 25 per cent of reverse VAT.
FeeRows(fee) ==
    {Debit("6065", 100 * fee), Debit("2645", 25 * fee),
     Credit("2614", 25 * fee), Credit("1521", 100 * fee)}

\* CreatePayoutVoucher
PayoutRows(amount) ==
    {Debit("1930", 100 * amount), Credit("1521", 100 * amount)}

\* The balance check of postVoucher, which compares whole öre.
Balanced(rows) == (DebitOf(rows) + 50) \div 100 = (CreditOf(rows) + 50) \div 100

\* int64(totalDebit * 100): the fraction is cut off, and the float may be
\* just short of a whole number of öre.
Cut(n) == IF n >= 0 THEN n \div 100 ELSE -((-n) \div 100)

StoredTotal(rows) ==
    LET n == DebitOf(rows)
        short == IF n > 0 THEN n - 1 ELSE IF n < 0 THEN n + 1 ELSE 0
    IN  {Cut(n), Cut(short)}

\* postVoucher: the row, the call and the number.
PostVoucher(p, kind, rows) ==
    /\ Balanced(rows)
    /\ Book(rows)
    /\ posted' = [posted EXCEPT ![p] = @ \cup {kind}]
    /\ total' = [total EXCEPT ![p][kind] = StoredTotal(rows)]
    /\ UNCHANGED mappingVars
    /\ UNCHANGED <<charge, failed, job>>

-----------------------------------------------------------------------------
(* A run *)

NoJob == [kind |-> "none"]

\* Mutant of Unsynced: a charge that failed is not listed again.
UnsyncedWithoutError == {c \in Charges : charge[c] = "new"} \ failed

\* ListUnsyncedCharges
Unsynced == {c \in Charges : charge[c] = "new"}

\* CreateInvoice up to the request: the account and the rate of the group.
ResolveRevenue(c) ==
    /\ job = NoJob
    /\ c \in Unsynced
    /\ LET row == mapping[Group(CountryCode(c))]
       IN \/ /\ IsNumber(row.konto)
             /\ job' = [kind |-> "invoice", charge |-> c,
                        konto |-> row.konto, vat |-> row.vat]
             /\ UNCHANGED failed
          \/ /\ ~IsNumber(row.konto)
             /\ failed' = failed \cup {c}
             /\ UNCHANGED job
    /\ UNCHANGED mappingVars
    /\ UNCHANGED <<charge, posted, total, ledger>>

PostInvoice ==
    /\ job.kind = "invoice"
    /\ Book(InvoiceRows(Amount[job.charge], job.konto, job.vat))
    /\ charge' = [charge EXCEPT ![job.charge] = "booked"]
    /\ failed' = failed \ {job.charge}
    /\ job' = NoJob
    /\ UNCHANGED mappingVars
    /\ UNCHANGED <<posted, total>>

\* MarkInvoicePaid up to the request; an account that is no number is only
\* printed, and the payment tried again by the next run.
ResolveClearing(c) ==
    /\ job = NoJob
    /\ charge[c] = "booked"
    /\ IsNumber(mapping["clearing"].konto)
    /\ job' = [kind |-> "payment", charge |-> c,
               konto |-> mapping["clearing"].konto]
    /\ UNCHANGED mappingVars
    /\ UNCHANGED <<charge, failed, posted, total, ledger>>

\* The amount of a payment.
Paid(c) == Amount[c]

PostPayment ==
    /\ job.kind = "payment"
    /\ Book(PaymentRows(Paid(job.charge), job.konto))
    /\ charge' = [charge EXCEPT ![job.charge] = "paid"]
    /\ job' = NoJob
    /\ UNCHANGED mappingVars
    /\ UNCHANGED <<failed, posted, total>>

In(p) == {c \in Charges : PayoutOf[c] = p}

\* Mutant of TotalFee: without its filter.
FeeOfAll(p) == Sum(Fee, In(p))

\* processPayout: fees of the transactions of type "charge".
TotalFee(p) == Sum(Fee, {c \in In(p) : TxnType[c] = "charge"})

\* What Stripe pays out for each charge, and together.
Payable == [c \in Charges |-> Captured[c] - Refunded[c] - Fee[c]]

PayoutAmount(p) == Sum(Payable, In(p))

\* A voucher the check refuses is not booked; the payout goes on without it.
BookFee(p) ==
    /\ job = NoJob
    /\ posted[p] = {}
    /\ TotalFee(p) > 0
    /\ PostVoucher(p, "fee", FeeRows(TotalFee(p)))

BookPayout(p) ==
    /\ job = NoJob
    /\ "payout" \notin posted[p]
    /\ (TotalFee(p) > 0 /\ Balanced(FeeRows(TotalFee(p)))) => "fee" \in posted[p]
    /\ PostVoucher(p, "payout", PayoutRows(PayoutAmount(p)))

-----------------------------------------------------------------------------
(* Specification *)

Init ==
    /\ mapping = Seed
    /\ form = NoForm
    /\ edited = {}
    /\ charge = [c \in Charges |-> "new"]
    /\ failed = {}
    /\ job = NoJob
    /\ posted = [p \in Payouts |-> {}]
    /\ total = [p \in Payouts |-> [kind \in {"fee", "payout"} |-> {}]]
    /\ ledger = [a \in Accounts |-> 0]

BookCharge(c) == ResolveRevenue(c) \/ ResolveClearing(c)
Post == PostInvoice \/ PostPayment
Settle(p) == BookFee(p) \/ BookPayout(p)

Next ==
    \/ \E key \in Edits : CreateMapping(key) \/ OpenRow(key)
    \/ UpdateMapping
    \/ \E c \in Charges : BookCharge(c)
    \/ Post
    \/ \E p \in Payouts : Settle(p)

\* The runs come again and again, nothing is assumed of the user.
Fairness ==
    /\ \A c \in Charges : SF_vars(BookCharge(c))
    /\ WF_vars(Post)

Spec == Init /\ [][Next]_vars
FairSpec == Spec /\ Fairness

-----------------------------------------------------------------------------
(* Properties *)

TypeOK ==
    /\ \A key \in Keys : mapping[key].konto \in Accounts \cup Kontos
    /\ form.key \in Keys
    /\ edited \subseteq Edits
    /\ charge \in [Charges -> {"new", "booked", "paid"}]
    /\ failed \subseteq Charges
    /\ job.kind \in {"none", "invoice", "payment"}
    /\ posted \in [Payouts -> SUBSET {"fee", "payout"}]
    /\ \A p \in Payouts, kind \in {"fee", "payout"} : total[p][kind] \subseteq Int
    /\ ledger \in [Accounts -> Int]

Are(state) == {c \in Charges : charge[c] = state}

\* The receivables are exactly the invoices without a payment: an invoice and
\* its payment are of the same amount, whatever was captured or edited in
\* between (invoice.go:161, 223).
ReceivableIsUnpaid ==
    "1510" \notin Kontos =>
        ledger["1510"] = 100 * Sum(Amount, Are("booked"))

\* When all is booked, the clearing account is left with what no document
\* tells of, and nothing else: parts that were not captured, refunds, and
\* fees of transactions that are not of type "charge".  README.md:34 has it
\* match Stripe's balance at all times.
Leftover ==
    [c \in Charges |-> Amount[c] - Captured[c] + Refunded[c]
                       + IF TxnType[c] = "charge" THEN 0 ELSE Fee[c]]

ClearingLeftover ==
    /\ Are("paid") = Charges
    /\ \A p \in Payouts : "payout" \in posted[p]
    /\ "clearing" \notin edited /\ "1521" \notin Kontos
    => ledger["1521"] = 100 * Sum(Leftover, Charges)

\* Swedish by its billing country, by its customer's if that is not known, or
\* because nothing is known.
Swedish(c) ==
    Billing[c] = "SE" \/ (Billing[c] = "" /\ Customer[c] \in {"", "SE"})

\* Net of 25 per cent of VAT.
Net == [c \in Charges |-> 100 * Amount[c] - (100 * Amount[c] * 25) \div 125]

\* Unless somebody edited where they go, the revenue of Sweden is that of the
\* Swedish charges, and of no other (README.md:20, invoice.go:135-140, mapping.go:44-52).
RevenueOfSweden ==
    edited \cap Groups = {} /\ "3010" \notin Kontos =>
        ledger["3010"] =
            -Sum(Net, {c \in Charges \ Are("new") : Swedish(c)})

Voucher(p, kind) ==
    DebitOf(IF kind = "fee" THEN FeeRows(TotalFee(p))
                            ELSE PayoutRows(PayoutAmount(p)))

\* The total the app stores falls short of the voucher Fortnox has by an öre
\* at most, though it is cut off and floats are inexact (voucher.go:173).
TotalWithinOre ==
    \A p \in Payouts, kind \in {"fee", "payout"} :
        \A t \in total[p][kind] :
            LET missing == Voucher(p, kind) - 100 * t
            IN  IF Voucher(p, kind) >= 0 THEN missing \in 0..100
                                         ELSE missing \in -100..0

\* The books reconcile after every document, whatever the user edits meanwhile:
\* the receivables with the charges, the clearing account with what no
\* document tells of, the revenue with the countries, and the totals the app
\* stores with the vouchers (invoice.go:123-249, voucher.go:104-211).
Reconciles ==
    /\ TypeOK
    /\ ReceivableIsUnpaid
    /\ ClearingLeftover
    /\ RevenueOfSweden
    /\ TotalWithinOre

\* An account that is no number stops the charges of its group only until it
\* is corrected: they fail, are listed again and are booked at last
\* (invoice.go:147, UpdateMapping lets an empty account through).
ChargeHeals ==
    \A c \in Charges :
        <>[]IsNumber(mapping[Group(CountryCode(c))].konto)
            => <>(charge[c] # "new")
=============================================================================
