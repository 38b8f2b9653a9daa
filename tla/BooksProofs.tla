----------------------------- MODULE BooksProofs -----------------------------
(***************************************************************************)
(* Proofs about Books, for any charges, amounts, payouts and edits: what   *)
(* each document adds to an account, and that the books reconcile.         *)
(***************************************************************************)
EXTENDS BooksInv, SumLemmas

-----------------------------------------------------------------------------
(* Documents *)

IsDocument(rows) ==
    IsFiniteSet(rows) /\ \A r \in rows : r.debit \in Int /\ r.credit \in Int

\* What a document adds to account a.
Added(a, rows) == Sum(Adds(rows), On(a, rows))

LEMMA AddedType ==
    ASSUME NEW rows, IsDocument(rows), NEW a
    PROVE  Added(a, rows) \in Int /\ DebitOf(rows) \in Int /\ CreditOf(rows) \in Int
  <1>1. On(a, rows) \in SUBSET rows
    BY DEF On
  <1>2. Summable(Adds(rows), On(a, rows))
    BY <1>1, FS_Subset DEF Summable, Adds, IsDocument
  <1>3. Summable([r \in rows |-> r.debit], rows) /\ Summable([r \in rows |-> r.credit], rows)
    BY DEF Summable, IsDocument
  <1> QED BY <1>2, <1>3, SumType DEF Added, Sum, DebitOf, CreditOf

LEMMA AddedNone ==
    ASSUME NEW rows, NEW a, On(a, rows) = {}
    PROVE  Added(a, rows) = 0
  BY SumEmpty DEF Added, Sum

LEMMA AddedOne ==
    ASSUME NEW rows, NEW a, NEW r \in rows, On(a, rows) = {r},
           r.debit \in Int, r.credit \in Int
    PROVE  Added(a, rows) = r.debit - r.credit
  <1>1. Adds(rows)[r] = r.debit - r.credit /\ r.debit - r.credit \in Int
    BY DEF Adds
  <1>2. SumFunctionOnSet(Adds(rows), {r}) = Adds(rows)[r]
    BY <1>1, SumSingle
  <1> QED BY <1>1, <1>2 DEF Added, Sum

LEMMA FiniteRows ==
    ASSUME NEW a, NEW b, NEW c, NEW d
    PROVE  IsFiniteSet({a, b}) /\ IsFiniteSet({a, b, c}) /\ IsFiniteSet({a, b, c, d})
  <1>1. IsFiniteSet({a})
    BY FS_Singleton
  <1>2. IsFiniteSet({a} \cup {b})
    BY <1>1, FS_AddElement
  <1>3. IsFiniteSet(({a} \cup {b}) \cup {c})
    BY <1>2, FS_AddElement
  <1>4. IsFiniteSet((({a} \cup {b}) \cup {c}) \cup {d})
    BY <1>3, FS_AddElement
  <1>5. /\ {a} \cup {b} = {a, b} /\ ({a} \cup {b}) \cup {c} = {a, b, c}
        /\ (({a} \cup {b}) \cup {c}) \cup {d} = {a, b, c, d}
    OBVIOUS
  <1> QED BY <1>2, <1>3, <1>4, <1>5

LEMMA SideFacts ==
    ASSUME NEW a, NEW n \in Int
    PROVE  /\ Debit(a, n).account = a /\ Debit(a, n).debit = n /\ Debit(a, n).credit = 0
           /\ Credit(a, n).account = a /\ Credit(a, n).credit = n /\ Credit(a, n).debit = 0
  BY DEF Debit, Credit

\* An invoice adds its amount to 1510 and its net to the account of revenue.
LEMMA InvoiceAdds ==
    ASSUME NEW amount \in Nat, NEW konto, NEW vat \in Nat
    PROVE  LET rows == InvoiceRows(amount, konto, vat)
           IN  /\ IsDocument(rows)
               /\ konto # "1510" => Added("1510", rows) = 100 * amount
               /\ konto = "3010" =>
                      Added("3010", rows) =
                          -(100 * amount - (100 * amount * vat) \div (100 + vat))
               /\ konto # "3010" => Added("3010", rows) = 0
               /\ konto # "1521" => Added("1521", rows) = 0
  <1> DEFINE rows == InvoiceRows(amount, konto, vat)
             tax == (100 * amount * vat) \div (100 + vat)
             A == Debit("1510", 100 * amount)
             B == Credit(konto, 100 * amount - tax)
             C == Credit("2611", tax)
  <1>1. rows = {A, B, C}
    BY DEF InvoiceRows
  <1>2. 100 * amount \in Int /\ tax \in Int /\ 100 * amount - tax \in Int
    <2>1. 100 * amount * vat \in Int /\ 100 + vat \in Nat \ {0}
      OBVIOUS
    <2> QED BY <2>1
  <1>a. A.account = "1510" /\ B.account = konto /\ C.account = "2611"
    BY DEF Debit, Credit
  <1>3. /\ A.debit = 100 * amount /\ A.credit = 0
        /\ B.credit = 100 * amount - tax /\ B.debit = 0
        /\ C.credit = tax /\ C.debit = 0
    BY <1>2, SideFacts
  <1>b. \A r \in rows : r.debit \in Int /\ r.credit \in Int
    <2>1. /\ A.debit \in Int /\ A.credit \in Int
          /\ B.debit \in Int /\ B.credit \in Int
          /\ C.debit \in Int /\ C.credit \in Int
      BY <1>2, <1>3
    <2> HIDE DEF rows, A, B, C
    <2> QED BY <1>1, <2>1
  <1> HIDE DEF rows, tax, A, B, C
  <1>4. IsDocument(rows)
    BY <1>1, <1>b, FiniteRows DEF IsDocument
  <1>5. ASSUME konto # "1510" PROVE Added("1510", rows) = 100 * amount
    <2>1. On("1510", rows) = {A}
      BY <1>1, <1>a, <1>5 DEF On
    <2>2. Added("1510", rows) = A.debit - A.credit
      BY <1>1, <1>b, <2>1, AddedOne
    <2> QED BY <1>2, <1>3, <2>2
  <1>6. ASSUME konto = "3010"
        PROVE  Added("3010", rows) = -(100 * amount - tax)
    <2>1. On("3010", rows) = {B}
      BY <1>1, <1>a, <1>6 DEF On
    <2>2. Added("3010", rows) = B.debit - B.credit
      BY <1>1, <1>b, <2>1, AddedOne
    <2> QED BY <1>2, <1>3, <2>2
  <1>7. konto # "3010" => Added("3010", rows) = 0
    BY <1>1, <1>a, AddedNone DEF On
  <1>8. konto # "1521" => Added("1521", rows) = 0
    BY <1>1, <1>a, AddedNone DEF On
  <1> QED BY <1>4, <1>5, <1>6, <1>7, <1>8 DEF rows, tax

\* A payment moves its amount from 1510 to the account looked up for it.
LEMMA PaymentAdds ==
    ASSUME NEW amount \in Nat, NEW konto
    PROVE  LET rows == PaymentRows(amount, konto)
           IN  /\ IsDocument(rows)
               /\ konto # "1510" => Added("1510", rows) = -(100 * amount)
               /\ konto = "1521" => Added("1521", rows) = 100 * amount
               /\ konto # "1521" => Added("1521", rows) = 0
               /\ konto # "3010" => Added("3010", rows) = 0
  <1> DEFINE rows == PaymentRows(amount, konto)
             A == Debit(konto, 100 * amount)
             B == Credit("1510", 100 * amount)
  <1>1. rows = {A, B}
    BY DEF PaymentRows
  <1>2. 100 * amount \in Int
    OBVIOUS
  <1>a. A.account = konto /\ B.account = "1510"
    BY DEF Debit, Credit
  <1>3. /\ A.debit = 100 * amount /\ A.credit = 0
        /\ B.credit = 100 * amount /\ B.debit = 0
    BY <1>2, SideFacts
  <1>b. \A r \in rows : r.debit \in Int /\ r.credit \in Int
    <2>1. /\ A.debit \in Int /\ A.credit \in Int
          /\ B.debit \in Int /\ B.credit \in Int
      BY <1>2, <1>3
    <2> HIDE DEF rows, A, B
    <2> QED BY <1>1, <2>1
  <1> HIDE DEF rows, A, B
  <1>4. IsDocument(rows)
    BY <1>1, <1>b, FiniteRows DEF IsDocument
  <1>5. ASSUME konto # "1510" PROVE Added("1510", rows) = -(100 * amount)
    <2>1. On("1510", rows) = {B}
      BY <1>1, <1>a, <1>5 DEF On
    <2>2. Added("1510", rows) = B.debit - B.credit
      BY <1>1, <1>b, <2>1, AddedOne
    <2> QED BY <1>2, <1>3, <2>2
  <1>6. ASSUME konto = "1521" PROVE Added("1521", rows) = 100 * amount
    <2>1. On("1521", rows) = {A}
      BY <1>1, <1>a, <1>6 DEF On
    <2>2. Added("1521", rows) = A.debit - A.credit
      BY <1>1, <1>b, <2>1, AddedOne
    <2> QED BY <1>2, <1>3, <2>2
  <1>7. konto # "1521" => Added("1521", rows) = 0
    BY <1>1, <1>a, AddedNone DEF On
  <1>8. konto # "3010" => Added("3010", rows) = 0
    BY <1>1, <1>a, AddedNone DEF On
  <1> QED BY <1>4, <1>5, <1>6, <1>7, <1>8 DEF rows

\* The vouchers credit the clearing account and leave 1510 and 3010 alone.
LEMMA FeeAdds ==
    ASSUME NEW fee \in Int
    PROVE  /\ IsDocument(FeeRows(fee))
           /\ Added("1510", FeeRows(fee)) = 0
           /\ Added("3010", FeeRows(fee)) = 0
           /\ Added("1521", FeeRows(fee)) = -(100 * fee)
  <1> DEFINE rows == FeeRows(fee)
             A == Debit("6065", 100 * fee)
             B == Debit("2645", 25 * fee)
             C == Credit("2614", 25 * fee)
             D == Credit("1521", 100 * fee)
  <1>1. rows = {A, B, C, D}
    BY DEF FeeRows
  <1>2. 100 * fee \in Int /\ 25 * fee \in Int
    OBVIOUS
  <1>a. A.account = "6065" /\ B.account = "2645" /\ C.account = "2614" /\ D.account = "1521"
    BY DEF Debit, Credit
  <1>3. /\ A.debit = 100 * fee /\ A.credit = 0
        /\ B.debit = 25 * fee /\ B.credit = 0
        /\ C.credit = 25 * fee /\ C.debit = 0
        /\ D.credit = 100 * fee /\ D.debit = 0
    BY <1>2, SideFacts
  <1>b. \A r \in rows : r.debit \in Int /\ r.credit \in Int
    <2>1. /\ A.debit \in Int /\ A.credit \in Int
          /\ B.debit \in Int /\ B.credit \in Int
          /\ C.debit \in Int /\ C.credit \in Int
          /\ D.debit \in Int /\ D.credit \in Int
      BY <1>2, <1>3
    <2> HIDE DEF rows, A, B, C, D
    <2> QED BY <1>1, <2>1
  <1> HIDE DEF rows, A, B, C, D
  <1>4. IsDocument(rows)
    BY <1>1, <1>b, FiniteRows DEF IsDocument
  <1>5. Added("1510", rows) = 0 /\ Added("3010", rows) = 0
    BY <1>1, <1>a, AddedNone DEF On
  <1>6. Added("1521", rows) = -(100 * fee)
    <2>1. On("1521", rows) = {D}
      BY <1>1, <1>a DEF On
    <2>2. Added("1521", rows) = D.debit - D.credit
      BY <1>1, <1>b, <2>1, AddedOne
    <2> QED BY <1>2, <1>3, <2>2
  <1> QED BY <1>4, <1>5, <1>6 DEF rows

LEMMA PayoutAdds ==
    ASSUME NEW amount \in Int
    PROVE  /\ IsDocument(PayoutRows(amount))
           /\ Added("1510", PayoutRows(amount)) = 0
           /\ Added("3010", PayoutRows(amount)) = 0
           /\ Added("1521", PayoutRows(amount)) = -(100 * amount)
  <1> DEFINE rows == PayoutRows(amount)
             A == Debit("1930", 100 * amount)
             B == Credit("1521", 100 * amount)
  <1>1. rows = {A, B}
    BY DEF PayoutRows
  <1>2. 100 * amount \in Int
    OBVIOUS
  <1>a. A.account = "1930" /\ B.account = "1521"
    BY DEF Debit, Credit
  <1>3. /\ A.debit = 100 * amount /\ A.credit = 0
        /\ B.credit = 100 * amount /\ B.debit = 0
    BY <1>2, SideFacts
  <1>b. \A r \in rows : r.debit \in Int /\ r.credit \in Int
    <2>1. /\ A.debit \in Int /\ A.credit \in Int
          /\ B.debit \in Int /\ B.credit \in Int
      BY <1>2, <1>3
    <2> HIDE DEF rows, A, B
    <2> QED BY <1>1, <2>1
  <1> HIDE DEF rows, A, B
  <1>4. IsDocument(rows)
    BY <1>1, <1>b, FiniteRows DEF IsDocument
  <1>5. Added("1510", rows) = 0 /\ Added("3010", rows) = 0
    BY <1>1, <1>a, AddedNone DEF On
  <1>6. Added("1521", rows) = -(100 * amount)
    <2>1. On("1521", rows) = {B}
      BY <1>1, <1>a DEF On
    <2>2. Added("1521", rows) = B.debit - B.credit
      BY <1>1, <1>b, <2>1, AddedOne
    <2> QED BY <1>2, <1>3, <2>2
  <1> QED BY <1>4, <1>5, <1>6 DEF rows

LEMMA BookAdds ==
    ASSUME ledger \in [Accounts -> Int], NEW rows, IsDocument(rows), Book(rows)
    PROVE  /\ ledger' \in [Accounts -> Int]
           /\ \A a \in Accounts : ledger'[a] = ledger[a] + Added(a, rows)
  <1>1. \A a \in Accounts : Added(a, rows) \in Int
    BY AddedType
  <1>2. ledger' = [a \in Accounts |-> ledger[a] + Added(a, rows)]
    BY DEF Book, Added
  <1> QED BY <1>1, <1>2

\* The reverse VAT is on both sides of a fee voucher, so postVoucher takes it.
LEMMA FeeBalances ==
    ASSUME NEW fee \in Int
    PROVE  Balanced(FeeRows(fee))
  <1> DEFINE A == Debit("6065", 100 * fee)
             B == Debit("2645", 25 * fee)
             C == Credit("2614", 25 * fee)
             D == Credit("1521", 100 * fee)
             rows == {A, B, C, D}
             d == [r \in rows |-> r.debit]
             e == [r \in rows |-> r.credit]
  <1>1. FeeRows(fee) = rows
    BY DEF FeeRows
  <1>2. 100 * fee \in Int /\ 25 * fee \in Int
    OBVIOUS
  <1>3. A.account = "6065" /\ B.account = "2645" /\ C.account = "2614" /\ D.account = "1521"
    BY DEF Debit, Credit
  <1>4. A # B /\ A # C /\ A # D /\ B # C /\ B # D /\ C # D
    BY <1>3
  <1>5. /\ A.debit = 100 * fee /\ A.credit = 0
        /\ B.debit = 25 * fee /\ B.credit = 0
        /\ C.debit = 0 /\ C.credit = 25 * fee
        /\ D.debit = 0 /\ D.credit = 100 * fee
    BY <1>2, SideFacts
  <1>6. /\ d[A] = A.debit /\ d[B] = B.debit /\ d[C] = C.debit /\ d[D] = D.debit
        /\ e[A] = A.credit /\ e[B] = B.credit /\ e[C] = C.credit /\ e[D] = D.credit
    OBVIOUS
  <1>7. DebitOf(rows) = SumFunctionOnSet(d, rows) /\ CreditOf(rows) = SumFunctionOnSet(e, rows)
    BY DEF DebitOf, CreditOf, Sum
  <1> HIDE DEF A, B, C, D, d, e
  <1>8. /\ d[A] = 100 * fee /\ d[B] = 25 * fee /\ d[C] = 0 /\ d[D] = 0
        /\ e[A] = 0 /\ e[B] = 0 /\ e[C] = 25 * fee /\ e[D] = 100 * fee
    BY <1>5, <1>6
  <1>a. /\ d[A] \in Int /\ d[B] \in Int /\ d[C] \in Int /\ d[D] \in Int
        /\ e[A] \in Int /\ e[B] \in Int /\ e[C] \in Int /\ e[D] \in Int
    BY <1>2, <1>8
  <1>b. Summable(d, rows) /\ Summable(e, rows)
    BY <1>a, FiniteRows DEF Summable
  <1>9. SumFunctionOnSet(d, rows) = d[A] + d[B]
    <2>1. A \in rows /\ B \in rows /\ \A x \in rows \ {A, B} : d[x] = 0
      BY <1>8
    <2> HIDE DEF rows
    <2> QED BY <1>4, <1>b, <2>1, SumPair
  <1>10. SumFunctionOnSet(e, rows) = e[C] + e[D]
    <2>1. C \in rows /\ D \in rows /\ \A x \in rows \ {C, D} : e[x] = 0
      BY <1>8
    <2> HIDE DEF rows
    <2> QED BY <1>4, <1>b, <2>1, SumPair
  <1>11. SumFunctionOnSet(d, rows) = SumFunctionOnSet(e, rows)
    BY <1>2, <1>8, <1>9, <1>10
  <1> QED BY <1>1, <1>7, <1>11 DEF Balanced

\* The stored total falls short of the voucher by an öre at most.
LEMMA CutsOff ==
    ASSUME NEW n \in Int
    PROVE  /\ Cut(n) \in Int
           /\ n >= 0 => n - 100 * Cut(n) \in 0..99
           /\ n < 0 => n - 100 * Cut(n) \in -99..0
  BY DEF Cut

LEMMA TotalIsClose ==
    ASSUME NEW rows, DebitOf(rows) \in Int, NEW t \in StoredTotal(rows)
    PROVE  /\ t \in Int
           /\ DebitOf(rows) >= 0 => DebitOf(rows) - 100 * t \in 0..100
           /\ DebitOf(rows) < 0 => DebitOf(rows) - 100 * t \in -100..0
  <1> DEFINE n == DebitOf(rows)
             short == IF n > 0 THEN n - 1 ELSE IF n < 0 THEN n + 1 ELSE 0
  <1>1. t = Cut(n) \/ t = Cut(short)
    BY DEF StoredTotal
  <1>2. n \in Int
    OBVIOUS
  <1> HIDE DEF n
  <1>3. short \in Int
    BY <1>2
  <1>4. CASE t = Cut(n)
    BY <1>2, <1>4, CutsOff DEF n
  <1>5. CASE t = Cut(short) /\ n > 0
    <2>1. short = n - 1 /\ short >= 0
      BY <1>2, <1>5
    <2>2. Cut(short) \in Int /\ short - 100 * Cut(short) \in 0..99
      BY <1>3, <2>1, CutsOff
    <2>3. t \in Int /\ n - 100 * t \in 0..100
      BY <1>2, <1>5, <2>1, <2>2
    <2> QED BY <1>5, <2>3 DEF n
  <1>6. CASE t = Cut(short) /\ n < 0
    <2>1. short = n + 1 /\ short <= 0
      BY <1>2, <1>6
    <2>2. Cut(short) \in Int /\ short - 100 * Cut(short) \in -99..0
      BY <1>3, <2>1, CutsOff
    <2>3. t \in Int /\ n - 100 * t \in -100..0
      BY <1>2, <1>6, <2>1, <2>2
    <2> QED BY <1>6, <2>3 DEF n
  <1>7. CASE t = Cut(short) /\ n = 0
    <2>1. short = n
      BY <1>7
    <2> QED BY <1>2, <1>7, <2>1, CutsOff DEF n
  <1> QED BY <1>1, <1>2, <1>4, <1>5, <1>6, <1>7

-----------------------------------------------------------------------------
(* Charges and payouts *)

LEMMA AmountFacts ==
    ASSUME IsFiniteSet(Charges), NEW p
    PROVE  /\ \A c \in Charges : /\ Amount[c] \in Nat /\ Fee[c] \in Nat
                                 /\ Captured[c] \in Nat /\ Refunded[c] \in Nat
                                 /\ ChargeFee[c] \in Nat /\ Payable[c] \in Int
                                 /\ PayoutOf[c] \in Payouts
           /\ Summable(Payable, In(p)) /\ PayoutAmount(p) \in Int
           /\ TotalFee(p) \in Nat
           /\ Summable(ChargeFee, In(p))
           /\ TotalFee(p) = SumFunctionOnSet(ChargeFee, In(p))
  <1>1. \A c \in Charges : /\ Amount[c] \in Nat /\ Fee[c] \in Nat
                           /\ Captured[c] \in Nat /\ Refunded[c] \in Nat
                           /\ PayoutOf[c] \in Payouts
    BY ChargesAssumption
  <1>2. \A c \in Charges : ChargeFee[c] \in Nat /\ Payable[c] \in Int
    BY <1>1 DEF ChargeFee, Payable
  <1>3. In(p) \in SUBSET Charges
    BY DEF In
  <1>4. Summable(Payable, In(p)) /\ Summable(ChargeFee, In(p)) /\ IsFiniteSet(In(p))
    BY <1>2, <1>3, FS_Subset DEF Summable
  <1>5. PayoutAmount(p) \in Int
    BY <1>4, SumType DEF PayoutAmount, Sum
  <1> DEFINE T == {c \in In(p) : TxnType[c] = "charge"}
  <1>6. T \in SUBSET In(p) /\ \A c \in In(p) \ T : ChargeFee[c] = 0
    BY <1>3 DEF ChargeFee
  <1>7. \A c \in T : ChargeFee[c] = Fee[c]
    BY <1>3 DEF ChargeFee
  <1>8. TotalFee(p) = SumFunctionOnSet(Fee, T)
    BY DEF TotalFee, Sum
  <1> HIDE DEF T
  <1>9. Summable(ChargeFee, T)
        /\ SumFunctionOnSet(ChargeFee, In(p)) = SumFunctionOnSet(ChargeFee, T)
    BY <1>4, <1>6, SumSupport
  <1>10. SumFunctionOnSet(Fee, T) = SumFunctionOnSet(ChargeFee, T)
    BY <1>7, <1>9, SumAgree
  <1>11. SumFunctionOnSet(ChargeFee, In(p)) \in Nat
    BY <1>2, <1>3, <1>4, SumNat
  <1> QED BY <1>1, <1>2, <1>4, <1>5, <1>8, <1>9, <1>10, <1>11

LEMMA SeedRows ==
           /\ \A key \in Keys : Seed[key].konto \in Accounts
           /\ Seed \in [Keys -> [konto : Accounts, vat : Nat]]
           /\ Seed["clearing"].konto = "1521"
           /\ \A g \in Groups : /\ g \in Keys /\ Seed[g].vat = 25
                                /\ Seed[g].konto \in {"3010", "3007", "3008"}
                                /\ (Seed[g].konto = "3010" <=> g = "SE")
  BY DEF Seed, Row, Keys, Groups, Accounts

LEMMA GroupFacts ==
    ASSUME NEW c
    PROVE  /\ Group(CountryCode(c)) \in Groups
           /\ (Group(CountryCode(c)) = "SE" <=> Swedish(c))
  BY DEF Group, CountryCode, Swedish, Groups

-----------------------------------------------------------------------------
(* What the steps do *)

\* Edits leave the books alone, documents the mapping.
LEMMA EditStep ==
    ASSUME (\E key \in Edits : CreateMapping(key) \/ OpenRow(key)) \/ UpdateMapping
    PROVE  UNCHANGED booksVars /\ edited \subseteq edited'
  BY DEF CreateMapping, OpenRow, UpdateMapping, Write, mappingVars

LEMMA InvoiceStep ==
    ASSUME TypeOK, JobInv, PostInvoice
    PROVE  \E c \in Charges :
               /\ charge[c] = "new" /\ charge' = [charge EXCEPT ![c] = "booked"]
               /\ job' = NoJob /\ failed' = failed \ {c}
               /\ UNCHANGED mappingVars /\ UNCHANGED <<posted, total>>
               /\ ledger' \in [Accounts -> Int]
               /\ "1510" \notin Kontos => ledger'["1510"] = ledger["1510"] + 100 * Amount[c]
               /\ "1521" \notin Kontos => ledger'["1521"] = ledger["1521"]
               /\ edited \cap Groups = {} /\ "3010" \notin Kontos =>
                      ledger'["3010"] = ledger["3010"] + IF Swedish(c) THEN -Net[c] ELSE 0
  <1> DEFINE c == job.charge
             rows == InvoiceRows(Amount[c], job.konto, job.vat)
             g == Group(CountryCode(c))
  <1>1. /\ job.kind = "invoice" /\ job.vat \in Nat /\ charge[c] = "new" /\ LookedUp(g)
        /\ g \notin edited => job.vat = 25
    <2>1. job.kind = "invoice"
      BY DEF PostInvoice
    <2>2. job # NoJob /\ job.kind # "payment"
      BY <2>1 DEF NoJob
    <2> QED BY <2>1, <2>2 DEF JobInv
  <1>2. c \in Charges /\ Amount[c] \in Nat
    BY <1>1, ChargesAssumption DEF LookedUp
  <1>3. /\ Book(rows)
        /\ charge' = [charge EXCEPT ![c] = "booked"]
        /\ job' = NoJob /\ failed' = failed \ {c}
        /\ UNCHANGED mappingVars /\ UNCHANGED <<posted, total>>
    BY <1>1 DEF PostInvoice
  <1>4. /\ g \in Groups
        /\ Seed[g].konto \in {"3010", "3007", "3008"}
        /\ (Seed[g].konto = "3010" <=> Swedish(c))
    BY SeedRows, GroupFacts
  <1>5. /\ job.konto \in {Seed[g].konto} \cup Kontos
        /\ g \notin edited => job.konto = Seed[g].konto
    BY <1>1 DEF LookedUp
  <1> DEFINE k == job.konto
  <1>6. /\ IsDocument(rows)
        /\ k # "1510" => Added("1510", rows) = 100 * Amount[c]
        /\ k = "3010" =>
               Added("3010", rows) =
                   -(100 * Amount[c] - (100 * Amount[c] * job.vat) \div (100 + job.vat))
        /\ k # "3010" => Added("3010", rows) = 0
        /\ k # "1521" => Added("1521", rows) = 0
    BY <1>1, <1>2, InvoiceAdds
  <1>7. job.vat = 25 => Net[c] = 100 * Amount[c]
                                 - (100 * Amount[c] * job.vat) \div (100 + job.vat)
    BY <1>2 DEF Net
  <1>8. ledger \in [Accounts -> Int] /\ "1510" \in Accounts /\ "1521" \in Accounts
        /\ "3010" \in Accounts
    BY DEF TypeOK, Accounts
  <1> HIDE DEF rows, c, g, k
  <1>9. /\ ledger' \in [Accounts -> Int]
        /\ \A a \in Accounts : ledger'[a] = ledger[a] + Added(a, rows)
    BY <1>3, <1>6, <1>8, BookAdds
  <1>10. "1510" \notin Kontos => ledger'["1510"] = ledger["1510"] + 100 * Amount[c]
    <2>1. "1510" \notin Kontos => k # "1510"
      BY <1>4, <1>5 DEF k
    <2> QED BY <1>6, <1>8, <1>9, <2>1
  <1>11. "1521" \notin Kontos => ledger'["1521"] = ledger["1521"]
    <2>1. "1521" \notin Kontos => k # "1521"
      BY <1>4, <1>5 DEF k
    <2> QED BY <1>6, <1>8, <1>9, <2>1
  <1>12. ASSUME edited \cap Groups = {} /\ "3010" \notin Kontos
         PROVE  ledger'["3010"] = ledger["3010"] + IF Swedish(c) THEN -Net[c] ELSE 0
    <2>1. k = "3010" <=> Swedish(c)
      BY <1>4, <1>5, <1>12 DEF k
    <2>2. ledger'["3010"] = ledger["3010"] + Added("3010", rows) /\ ledger["3010"] \in Int
      BY <1>8, <1>9
    <2>3. CASE Swedish(c)
      <3>1. job.vat = 25
        BY <1>1, <1>4, <1>12
      <3>2. Added("3010", rows) = -Net[c]
        BY <1>6, <1>7, <2>1, <2>3, <3>1
      <3> QED BY <2>2, <2>3, <3>2
    <2>4. CASE ~Swedish(c)
      BY <1>6, <2>1, <2>2, <2>4
    <2> QED BY <2>3, <2>4
  <1> QED BY <1>1, <1>2, <1>3, <1>9, <1>10, <1>11, <1>12 DEF c

LEMMA PaymentStep ==
    ASSUME TypeOK, JobInv, PostPayment
    PROVE  \E c \in Charges :
               /\ charge[c] = "booked" /\ charge' = [charge EXCEPT ![c] = "paid"]
               /\ job' = NoJob
               /\ UNCHANGED mappingVars /\ UNCHANGED <<failed, posted, total>>
               /\ ledger' \in [Accounts -> Int]
               /\ "1510" \notin Kontos => ledger'["1510"] = ledger["1510"] - 100 * Amount[c]
               /\ "clearing" \notin edited =>
                      ledger'["1521"] = ledger["1521"] + 100 * Amount[c]
               /\ "3010" \notin Kontos => ledger'["3010"] = ledger["3010"]
  <1> DEFINE c == job.charge
             k == job.konto
             rows == PaymentRows(Amount[c], k)
  <1>1. job.kind = "payment" /\ charge[c] = "booked" /\ LookedUp("clearing")
    <2>1. job.kind = "payment"
      BY DEF PostPayment
    <2>2. job # NoJob /\ job.kind # "invoice"
      BY <2>1 DEF NoJob
    <2> QED BY <2>1, <2>2 DEF JobInv
  <1>2. c \in Charges /\ Amount[c] \in Nat
    BY <1>1, ChargesAssumption DEF LookedUp
  <1>3. /\ Book(rows)
        /\ charge' = [charge EXCEPT ![c] = "paid"]
        /\ job' = NoJob
        /\ UNCHANGED mappingVars /\ UNCHANGED <<failed, posted, total>>
    BY DEF PostPayment, Paid
  <1>4. /\ k \in {"1521"} \cup Kontos
        /\ "clearing" \notin edited => k = "1521"
    BY <1>1, SeedRows DEF LookedUp
  <1>5. /\ IsDocument(rows)
        /\ k # "1510" => Added("1510", rows) = -(100 * Amount[c])
        /\ k = "1521" => Added("1521", rows) = 100 * Amount[c]
        /\ k # "3010" => Added("3010", rows) = 0
    BY <1>2, PaymentAdds
  <1>6. ledger \in [Accounts -> Int] /\ "1510" \in Accounts /\ "1521" \in Accounts
        /\ "3010" \in Accounts
    BY DEF TypeOK, Accounts
  <1> HIDE DEF rows, c, k
  <1>7. /\ ledger' \in [Accounts -> Int]
        /\ \A a \in Accounts : ledger'[a] = ledger[a] + Added(a, rows)
    BY <1>3, <1>5, <1>6, BookAdds
  <1>8. "1510" \notin Kontos => ledger'["1510"] = ledger["1510"] - 100 * Amount[c]
    <2>1. "1510" \notin Kontos => k # "1510"
      BY <1>4
    <2>2. ledger'["1510"] = ledger["1510"] + Added("1510", rows) /\ ledger["1510"] \in Int
      BY <1>6, <1>7
    <2> QED BY <1>2, <1>5, <2>1, <2>2
  <1>9. "clearing" \notin edited => ledger'["1521"] = ledger["1521"] + 100 * Amount[c]
    BY <1>4, <1>5, <1>6, <1>7
  <1>10. "3010" \notin Kontos => ledger'["3010"] = ledger["3010"]
    <2>1. "3010" \notin Kontos => k # "3010"
      BY <1>4
    <2> QED BY <1>5, <1>6, <1>7, <2>1
  <1> QED BY <1>1, <1>2, <1>3, <1>7, <1>8, <1>9, <1>10 DEF c

VoucherRows(p, kind) ==
    IF kind = "fee" THEN FeeRows(TotalFee(p)) ELSE PayoutRows(PayoutAmount(p))

VoucherAmount(p, kind) == IF kind = "fee" THEN TotalFee(p) ELSE PayoutAmount(p)

LEMMA VoucherStep ==
    ASSUME IsFiniteSet(Charges), TypeOK, NEW p \in Payouts, BookFee(p) \/ BookPayout(p)
    PROVE  \E kind \in Kinds :
               /\ kind \notin posted[p]
               /\ kind = "payout" /\ TotalFee(p) > 0 => "fee" \in posted[p]
               /\ posted' = [posted EXCEPT ![p] = @ \cup {kind}]
               /\ total' = [total EXCEPT ![p][kind] = StoredTotal(VoucherRows(p, kind))]
               /\ UNCHANGED mappingVars /\ UNCHANGED <<charge, failed, job>>
               /\ ledger' \in [Accounts -> Int]
               /\ ledger'["1510"] = ledger["1510"] /\ ledger'["3010"] = ledger["3010"]
               /\ ledger'["1521"] = ledger["1521"] - 100 * VoucherAmount(p, kind)
  <1>1. /\ ledger \in [Accounts -> Int] /\ "1510" \in Accounts /\ "1521" \in Accounts
        /\ "3010" \in Accounts
    BY DEF TypeOK, Accounts
  <1>2. TotalFee(p) \in Nat /\ PayoutAmount(p) \in Int
    BY AmountFacts
  <1>3. PICK kind \in Kinds :
            /\ kind \notin posted[p]
            /\ kind = "payout" /\ TotalFee(p) > 0 => "fee" \in posted[p]
            /\ PostVoucher(p, kind, VoucherRows(p, kind))
    <2>1. CASE BookFee(p)
      BY <2>1 DEF BookFee, VoucherRows, Kinds
    <2>2. CASE BookPayout(p)
      BY <1>2, <2>2, FeeBalances DEF BookPayout, VoucherRows, Kinds
    <2> QED BY <2>1, <2>2
  <1> DEFINE rows == VoucherRows(p, kind)
             n == VoucherAmount(p, kind)
  <1>4. /\ IsDocument(rows) /\ n \in Int
        /\ Added("1510", rows) = 0 /\ Added("3010", rows) = 0
        /\ Added("1521", rows) = -(100 * n)
    BY <1>2, FeeAdds, PayoutAdds DEF VoucherRows, VoucherAmount
  <1>5. /\ Book(rows)
        /\ posted' = [posted EXCEPT ![p] = @ \cup {kind}]
        /\ total' = [total EXCEPT ![p][kind] = StoredTotal(VoucherRows(p, kind))]
        /\ UNCHANGED mappingVars /\ UNCHANGED <<charge, failed, job>>
    BY <1>3 DEF PostVoucher
  <1> HIDE DEF rows, n
  <1>6. /\ ledger' \in [Accounts -> Int]
        /\ \A a \in Accounts : ledger'[a] = ledger[a] + Added(a, rows)
    BY <1>1, <1>4, <1>5, BookAdds
  <1>7. ledger'["1510"] = ledger["1510"] /\ ledger'["3010"] = ledger["3010"]
    BY <1>1, <1>4, <1>6
  <1>8. ledger'["1521"] = ledger["1521"] - 100 * n
    <2>1. ledger'["1521"] = ledger["1521"] + Added("1521", rows) /\ ledger["1521"] \in Int
      BY <1>1, <1>6
    <2> QED BY <1>4, <2>1
  <1> QED BY <1>3, <1>5, <1>6, <1>7, <1>8 DEF n

-----------------------------------------------------------------------------
(* The balances *)

\* Sums over some of the charges.
LEMMA ChargeSums ==
    ASSUME IsFiniteSet(Charges), NEW S \in SUBSET Charges
    PROVE  /\ Summable(Amount, S) /\ Sum(Amount, S) \in Int
           /\ Summable(Net, S) /\ Sum(Net, S) \in Int
           /\ Summable(ChargeFee, S) /\ Sum(ChargeFee, S) \in Int
           /\ Summable(Payable, S) /\ Sum(Payable, S) \in Int
  <1>1. \A c \in Charges : Amount[c] \in Int /\ ChargeFee[c] \in Int /\ Payable[c] \in Int
    BY AmountFacts
  <1>2. \A c \in Charges : Net[c] \in Int
    BY <1>1 DEF Net
  <1>3. IsFiniteSet(S)
    BY FS_Subset
  <1>4. Summable(Amount, S) /\ Summable(Net, S) /\ Summable(ChargeFee, S)
        /\ Summable(Payable, S)
    BY <1>1, <1>2, <1>3 DEF Summable
  <1> QED BY <1>4, SumType DEF Sum

\* Edits and lookups change no balance.
LEMMA QuietStep ==
    ASSUME UNCHANGED <<charge, posted, total, ledger>>, edited \subseteq edited',
           ReceivableIsUnpaid, RevenueOfSweden, ClearingInv, FeeBooked, TotalWithinOre
    PROVE  /\ ReceivableIsUnpaid' /\ RevenueOfSweden' /\ ClearingInv'
           /\ FeeBooked' /\ TotalWithinOre'
  <1>1. ReceivableIsUnpaid'
    BY DEF ReceivableIsUnpaid, Are
  <1>2. RevenueOfSweden'
    BY DEF RevenueOfSweden, Are
  <1>3. ClearingInv'
    BY DEF ClearingInv, Are, Settled
  <1>4. FeeBooked'
    BY DEF FeeBooked
  <1>5. TotalWithinOre'
    BY DEF TotalWithinOre
  <1> QED BY <1>1, <1>2, <1>3, <1>4, <1>5

LEMMA InvoiceKeeps ==
    ASSUME IsFiniteSet(Charges), BooksInvariant, PostInvoice
    PROVE  /\ ReceivableIsUnpaid' /\ RevenueOfSweden' /\ ClearingInv'
           /\ FeeBooked' /\ TotalWithinOre'
  <1>0. /\ TypeOK /\ JobInv /\ ReceivableIsUnpaid /\ RevenueOfSweden /\ ClearingInv
        /\ FeeBooked /\ TotalWithinOre
    BY DEF BooksInvariant
  <1>1. PICK c \in Charges :
               /\ charge[c] = "new" /\ charge' = [charge EXCEPT ![c] = "booked"]
               /\ UNCHANGED mappingVars /\ UNCHANGED <<posted, total>>
               /\ "1510" \notin Kontos => ledger'["1510"] = ledger["1510"] + 100 * Amount[c]
               /\ "1521" \notin Kontos => ledger'["1521"] = ledger["1521"]
               /\ edited \cap Groups = {} /\ "3010" \notin Kontos =>
                      ledger'["3010"] = ledger["3010"] + IF Swedish(c) THEN -Net[c] ELSE 0
    BY <1>0, InvoiceStep
  <1>2. edited' = edited /\ posted' = posted /\ total' = total
    BY <1>1 DEF mappingVars
  <1> DEFINE B == Are("booked")
             S == {d \in Charges \ Are("new") : Swedish(d)}
  <1>3. /\ c \notin B /\ B \in SUBSET Charges
        /\ Are("booked")' = B \cup {c} /\ Are("new")' = Are("new") \ {c}
        /\ Are("paid")' = Are("paid")
    BY <1>0, <1>1 DEF TypeOK, Are
  <1>4. Amount[c] \in Int /\ Net[c] \in Int
    BY <1>0, AmountFacts DEF Net
  <1>5. ReceivableIsUnpaid'
    <2>1. Sum(Amount, B \cup {c}) = Amount[c] + Sum(Amount, B) /\ Sum(Amount, B) \in Int
      <3> HIDE DEF B
      <3> QED BY <1>3, <1>4, ChargeSums, SumAdd DEF Sum
    <2>2. "1510" \notin Kontos => ledger["1510"] = 100 * Sum(Amount, B)
      BY <1>0 DEF ReceivableIsUnpaid
    <2>3. "1510" \notin Kontos => ledger'["1510"] = 100 * Sum(Amount, B \cup {c})
      <3> HIDE DEF B
      <3> QED BY <1>1, <1>4, <2>1, <2>2
    <2> QED BY <1>3, <2>3 DEF ReceivableIsUnpaid
  <1>6. RevenueOfSweden'
    <2>1. S \in SUBSET Charges /\ c \notin S
      BY <1>1 DEF Are
    <2>2. {d \in Charges \ Are("new")' : Swedish(d)} = IF Swedish(c) THEN S \cup {c} ELSE S
      BY <1>3
    <2> SUFFICES ASSUME edited \cap Groups = {}, "3010" \notin Kontos
                 PROVE  ledger'["3010"] = -Sum(Net, {d \in Charges \ Are("new")' : Swedish(d)})
      BY <1>2 DEF RevenueOfSweden
    <2>3. ledger["3010"] = -Sum(Net, S)
      BY <1>0 DEF RevenueOfSweden
    <2> HIDE DEF S
    <2>4. Sum(Net, S) \in Int /\ Sum(Net, S \cup {c}) = Net[c] + Sum(Net, S)
      BY <1>4, <2>1, ChargeSums, SumAdd DEF Sum
    <2>5. ledger'["3010"] = -Sum(Net, IF Swedish(c) THEN S \cup {c} ELSE S)
      BY <1>1, <1>4, <2>3, <2>4
    <2> QED BY <2>2, <2>5
  <1>7. ClearingInv'
    BY <1>0, <1>1, <1>2, <1>3 DEF ClearingInv, Settled
  <1>8. FeeBooked' /\ TotalWithinOre'
    BY <1>0, <1>2 DEF FeeBooked, TotalWithinOre
  <1> QED BY <1>5, <1>6, <1>7, <1>8

LEMMA PaymentKeeps ==
    ASSUME IsFiniteSet(Charges), BooksInvariant, PostPayment
    PROVE  /\ ReceivableIsUnpaid' /\ RevenueOfSweden' /\ ClearingInv'
           /\ FeeBooked' /\ TotalWithinOre'
  <1>0. /\ TypeOK /\ JobInv /\ ReceivableIsUnpaid /\ RevenueOfSweden /\ ClearingInv
        /\ FeeBooked /\ TotalWithinOre
    BY DEF BooksInvariant
  <1>1. PICK c \in Charges :
               /\ charge[c] = "booked" /\ charge' = [charge EXCEPT ![c] = "paid"]
               /\ UNCHANGED mappingVars /\ UNCHANGED <<posted, total>>
               /\ "1510" \notin Kontos => ledger'["1510"] = ledger["1510"] - 100 * Amount[c]
               /\ "clearing" \notin edited =>
                      ledger'["1521"] = ledger["1521"] + 100 * Amount[c]
               /\ "3010" \notin Kontos => ledger'["3010"] = ledger["3010"]
    BY <1>0, PaymentStep
  <1>2. edited' = edited /\ posted' = posted /\ total' = total
    BY <1>1 DEF mappingVars
  <1> DEFINE B == Are("booked")
             P == Are("paid")
  <1>3. /\ c \in B /\ B \in SUBSET Charges /\ c \notin P /\ P \in SUBSET Charges
        /\ Are("booked")' = B \ {c} /\ Are("new")' = Are("new")
        /\ Are("paid")' = P \cup {c}
    BY <1>0, <1>1 DEF TypeOK, Are
  <1>4. Amount[c] \in Int
    BY <1>0, AmountFacts
  <1>5. ReceivableIsUnpaid'
    <2>1. Sum(Amount, B) = Amount[c] + Sum(Amount, B \ {c}) /\ Sum(Amount, B \ {c}) \in Int
      <3> HIDE DEF B
      <3> QED BY <1>3, ChargeSums, SumTake DEF Sum
    <2>2. "1510" \notin Kontos => ledger["1510"] = 100 * Sum(Amount, B)
      BY <1>0 DEF ReceivableIsUnpaid
    <2>3. "1510" \notin Kontos => ledger'["1510"] = 100 * Sum(Amount, B \ {c})
      <3> HIDE DEF B
      <3> QED BY <1>1, <1>4, <2>1, <2>2
    <2> QED BY <1>3, <2>3 DEF ReceivableIsUnpaid
  <1>6. RevenueOfSweden'
    BY <1>0, <1>1, <1>2, <1>3 DEF RevenueOfSweden
  <1>7. ClearingInv'
    <2> DEFINE F == Sum(ChargeFee, Settled("fee"))
               Y == Sum(Payable, Settled("payout"))
    <2>1. F \in Int /\ Y \in Int
      BY ChargeSums DEF Settled
    <2>2. Sum(Amount, P \cup {c}) = Amount[c] + Sum(Amount, P) /\ Sum(Amount, P) \in Int
      <3> HIDE DEF P
      <3> QED BY <1>3, <1>4, ChargeSums, SumAdd DEF Sum
    <2>3. F' = F /\ Y' = Y
      BY <1>2 DEF Settled
    <2> SUFFICES ASSUME "clearing" \notin edited, "1521" \notin Kontos
                 PROVE  ledger'["1521"] = 100 * (Sum(Amount, P \cup {c}) - F - Y)
      BY <1>2, <1>3, <2>3 DEF ClearingInv
    <2>4. ledger["1521"] = 100 * (Sum(Amount, P) - F - Y)
      BY <1>0 DEF ClearingInv
    <2> HIDE DEF F, Y, P
    <2> QED BY <1>1, <1>4, <2>1, <2>2, <2>4
  <1>8. FeeBooked' /\ TotalWithinOre'
    BY <1>0, <1>2 DEF FeeBooked, TotalWithinOre
  <1> QED BY <1>5, <1>6, <1>7, <1>8

LEMMA VoucherKeeps ==
    ASSUME IsFiniteSet(Charges), BooksInvariant,
           NEW p \in Payouts, BookFee(p) \/ BookPayout(p)
    PROVE  /\ ReceivableIsUnpaid' /\ RevenueOfSweden' /\ ClearingInv'
           /\ FeeBooked' /\ TotalWithinOre'
           /\ (total \in [Payouts -> [Kinds -> SUBSET Int]])'
  <1>0. /\ TypeOK /\ JobInv /\ ReceivableIsUnpaid /\ RevenueOfSweden /\ ClearingInv
        /\ FeeBooked /\ TotalWithinOre /\ total \in [Payouts -> [Kinds -> SUBSET Int]]
    BY DEF BooksInvariant
  <1>1. PICK kind \in Kinds :
               /\ kind \notin posted[p]
               /\ kind = "payout" /\ TotalFee(p) > 0 => "fee" \in posted[p]
               /\ posted' = [posted EXCEPT ![p] = @ \cup {kind}]
               /\ total' = [total EXCEPT ![p][kind] = StoredTotal(VoucherRows(p, kind))]
               /\ UNCHANGED mappingVars /\ UNCHANGED <<charge, failed, job>>
               /\ ledger'["1510"] = ledger["1510"] /\ ledger'["3010"] = ledger["3010"]
               /\ ledger'["1521"] = ledger["1521"] - 100 * VoucherAmount(p, kind)
    BY <1>0, VoucherStep
  <1>2. edited' = edited /\ charge' = charge
    BY <1>1 DEF mappingVars
  <1>3. ReceivableIsUnpaid' /\ RevenueOfSweden'
    <2>1. ReceivableIsUnpaid'
      BY <1>0, <1>1, <1>2 DEF ReceivableIsUnpaid, Are
    <2>2. RevenueOfSweden'
      BY <1>0, <1>1, <1>2 DEF RevenueOfSweden, Are
    <2> QED BY <2>1, <2>2
  <1>4. ClearingInv'
    <2> DEFINE F == Settled("fee")
               Y == Settled("payout")
               A == Sum(Amount, Are("paid"))
    <2>1. /\ TotalFee(p) = Sum(ChargeFee, In(p)) /\ PayoutAmount(p) = Sum(Payable, In(p))
          /\ TotalFee(p) \in Int /\ PayoutAmount(p) \in Int
      BY AmountFacts DEF Sum, PayoutAmount
    <2>2. /\ In(p) \in SUBSET Charges /\ F \in SUBSET Charges /\ Y \in SUBSET Charges
          /\ Are("paid") \in SUBSET Charges
      BY DEF In, Settled, Are
    <2>3. Sum(ChargeFee, F) \in Int /\ Sum(Payable, Y) \in Int /\ A \in Int
      BY <2>2, ChargeSums
    <2>4. A' = A
      BY <1>2 DEF Are
    <2> SUFFICES ASSUME "clearing" \notin edited, "1521" \notin Kontos
                 PROVE  ledger'["1521"] = 100 * (A - Sum(ChargeFee, F') - Sum(Payable, Y'))
      BY <1>2, <2>4 DEF ClearingInv
    <2>5. ledger["1521"] = 100 * (A - Sum(ChargeFee, F) - Sum(Payable, Y))
      BY <1>0 DEF ClearingInv
    <2>6. \A c \in Charges : PayoutOf[c] \in Payouts
      BY AmountFacts
    <2>7. CASE kind = "fee"
      <3>1. F' = F \cup In(p) /\ F \cap In(p) = {} /\ Y' = Y
        BY <1>0, <1>1, <2>6, <2>7 DEF Settled, In, TypeOK
      <3> HIDE DEF F, Y, A
      <3>2. Sum(ChargeFee, F \cup In(p)) = Sum(ChargeFee, F) + Sum(ChargeFee, In(p))
        BY <2>2, <3>1, ChargeSums, SumUnion DEF Sum
      <3>3. ledger'["1521"] = ledger["1521"] - 100 * TotalFee(p)
        BY <1>1, <2>7 DEF VoucherAmount
      <3> QED BY <2>1, <2>3, <2>5, <3>1, <3>2, <3>3
    <2>8. CASE kind = "payout"
      <3>1. Y' = Y \cup In(p) /\ Y \cap In(p) = {} /\ F' = F
        BY <1>0, <1>1, <2>6, <2>8 DEF Settled, In, TypeOK
      <3> HIDE DEF F, Y, A
      <3>2. Sum(Payable, Y \cup In(p)) = Sum(Payable, Y) + Sum(Payable, In(p))
        BY <2>2, <3>1, ChargeSums, SumUnion DEF Sum
      <3>3. ledger'["1521"] = ledger["1521"] - 100 * PayoutAmount(p)
        BY <1>1, <2>8 DEF VoucherAmount
      <3> QED BY <2>1, <2>3, <2>5, <3>1, <3>2, <3>3
    <2> QED BY <2>7, <2>8 DEF Kinds
  <1>5. FeeBooked'
    BY <1>0, <1>1 DEF FeeBooked, TypeOK
  <1> DEFINE rows == VoucherRows(p, kind)
  <1>6. DebitOf(rows) \in Int /\ rows = VoucherRows(p, kind)
    <2>1. TotalFee(p) \in Int /\ PayoutAmount(p) \in Int
      BY AmountFacts
    <2>2. IsDocument(rows)
      BY <2>1, FeeAdds, PayoutAdds DEF VoucherRows
    <2> HIDE DEF rows
    <2>3. DebitOf(rows) \in Int
      BY <2>2, AddedType
    <2> QED BY <2>3 DEF rows
  <1> HIDE DEF rows
  <1>7. \A t \in StoredTotal(rows) :
            /\ t \in Int
            /\ DebitOf(rows) >= 0 => DebitOf(rows) - 100 * t \in 0..100
            /\ DebitOf(rows) < 0 => DebitOf(rows) - 100 * t \in -100..0
    BY <1>6, TotalIsClose
  <1>8. /\ total' \in [Payouts -> [Kinds -> SUBSET Int]]
        /\ total'[p][kind] = StoredTotal(rows)
        /\ \A q \in Payouts, k \in Kinds : q # p \/ k # kind => total'[q][k] = total[q][k]
    BY <1>0, <1>1, <1>6, <1>7
  <1>9. TotalWithinOre'
    <2>1. ASSUME NEW q \in Payouts, NEW k \in Kinds, NEW t \in total'[q][k]
          PROVE  IF Voucher(q, k) >= 0 THEN Voucher(q, k) - 100 * t \in 0..100
                                       ELSE Voucher(q, k) - 100 * t \in -100..0
      <3>1. CASE q # p \/ k # kind
        <4>1. t \in total[q][k] /\ k \in {"fee", "payout"}
          BY <1>8, <3>1 DEF Kinds
        <4> QED BY <1>0, <4>1 DEF TotalWithinOre
      <3>2. CASE q = p /\ k = kind
        <4>1. Voucher(q, k) = DebitOf(rows) /\ t \in StoredTotal(rows)
          BY <1>6, <1>8, <3>2 DEF Voucher, VoucherRows
        <4>2. CASE DebitOf(rows) >= 0
          BY <1>7, <4>1, <4>2
        <4>3. CASE ~(DebitOf(rows) >= 0)
          <5>1. DebitOf(rows) < 0
            BY <1>6, <4>3
          <5> QED BY <1>7, <4>1, <4>3, <5>1
        <4> QED BY <4>2, <4>3
      <3> QED BY <3>1, <3>2
    <2> QED BY <2>1 DEF TotalWithinOre, Kinds
  <1> QED BY <1>3, <1>4, <1>5, <1>8, <1>9

-----------------------------------------------------------------------------
(* The mapping and the goroutine *)

LEMMA WriteKeeps ==
    ASSUME MappingInv, edited \subseteq Edits,
           NEW key \in Edits, NEW konto \in Kontos, NEW vat \in Rates,
           Write(key, konto, vat)
    PROVE  /\ mapping' \in [Keys -> [konto : Accounts \cup Kontos, vat : Nat]]
           /\ \A k \in Keys :
                  /\ mapping'[k].konto \in {Seed[k].konto} \cup Kontos
                  /\ k \notin edited' => mapping'[k] = Seed[k]
           /\ edited \subseteq edited' /\ edited' \subseteq Edits
  <1>1. key \in Keys
    BY ChargesAssumption
  <1>2. vat \in Nat
    BY ChargesAssumption
  <1>3. mapping' = [mapping EXCEPT ![key] = [konto |-> konto, vat |-> vat]]
        /\ edited' = edited \cup {key}
    BY DEF Write, Row
  <1>4. mapping' \in [Keys -> [konto : Accounts \cup Kontos, vat : Nat]]
    BY <1>1, <1>2, <1>3 DEF MappingInv
  <1>5. ASSUME NEW k \in Keys
        PROVE  /\ mapping'[k].konto \in {Seed[k].konto} \cup Kontos
               /\ k \notin edited' => mapping'[k] = Seed[k]
    <2>1. CASE k = key
      BY <1>1, <1>3, <2>1 DEF MappingInv
    <2>2. CASE k # key
      <3>1. mapping'[k] = mapping[k] /\ (k \notin edited' => k \notin edited)
        BY <1>3, <2>2 DEF MappingInv
      <3> QED BY <3>1 DEF MappingInv
    <2> QED BY <2>1, <2>2
  <1> QED BY <1>3, <1>4, <1>5

LEMMA EditKeeps ==
    ASSUME TypeOK, MappingInv,
           (\E key \in Edits : CreateMapping(key) \/ OpenRow(key)) \/ UpdateMapping
    PROVE  /\ MappingInv' /\ edited' \subseteq Edits /\ form'.key \in Keys
           /\ edited \subseteq edited' /\ UNCHANGED booksVars
  <1>1. edited \subseteq Edits /\ form.key \in Keys
    BY DEF TypeOK
  <1>2. ASSUME NEW key \in Edits, CreateMapping(key)
        PROVE  /\ MappingInv' /\ edited' \subseteq Edits /\ form'.key \in Keys
               /\ edited \subseteq edited'
    <2>1. PICK konto \in Kontos, vat \in Rates : Write(key, konto, vat)
      BY <1>2 DEF CreateMapping
    <2>2. form' = form
      BY <1>2 DEF CreateMapping
    <2>3. form'.key \in Edits \/ ~form'.open
      BY <2>2 DEF MappingInv
    <2> QED BY <1>1, <2>1, <2>2, <2>3, WriteKeeps DEF MappingInv
  <1>3. ASSUME NEW key \in Edits, OpenRow(key)
        PROVE  /\ MappingInv' /\ edited' \subseteq Edits /\ form'.key \in Keys
               /\ edited \subseteq edited'
    <2>1. form'.key = key /\ mapping' = mapping /\ edited' = edited /\ key \in Keys
      BY <1>3, ChargesAssumption DEF OpenRow
    <2> QED BY <1>1, <2>1 DEF MappingInv
  <1>4. ASSUME UpdateMapping
        PROVE  /\ MappingInv' /\ edited' \subseteq Edits /\ form'.key \in Keys
               /\ edited \subseteq edited'
    <2>1. form.key \in Edits
      BY <1>4 DEF UpdateMapping, MappingInv
    <2>2. PICK konto \in Kontos, vat \in Rates : Write(form.key, konto, vat)
      BY <1>4 DEF UpdateMapping
    <2>3. form'.key \in Keys /\ form'.open = FALSE
      BY <1>4 DEF UpdateMapping, NoForm, Keys, Groups
    <2> QED BY <1>1, <2>1, <2>2, <2>3, WriteKeeps DEF MappingInv
  <1>5. UNCHANGED booksVars
    BY DEF CreateMapping, OpenRow, UpdateMapping
  <1> QED BY <1>2, <1>3, <1>4, <1>5

\* What the goroutine has looked up stays what it was.
LEMMA JobStays ==
    ASSUME JobInv, UNCHANGED <<charge, job>>, edited \subseteq edited'
    PROVE  JobInv'
  <1>1. ASSUME NEW key, LookedUp(key) PROVE LookedUp(key)'
    BY <1>1 DEF LookedUp
  <1>2. CASE job = NoJob
    BY <1>2 DEF JobInv
  <1>3. CASE /\ job.kind = "invoice" /\ job.vat \in Nat /\ charge[job.charge] = "new"
             /\ LookedUp(Group(CountryCode(job.charge)))
             /\ Group(CountryCode(job.charge)) \notin edited => job.vat = 25
    BY <1>1, <1>3 DEF JobInv
  <1>4. CASE /\ job.kind = "payment" /\ charge[job.charge] = "booked"
             /\ LookedUp("clearing")
    BY <1>1, <1>4 DEF JobInv
  <1> QED BY <1>2, <1>3, <1>4 DEF JobInv

LEMMA ResolveKeeps ==
    ASSUME TypeOK, MappingInv, JobInv, NEW c \in Charges, BookCharge(c)
    PROVE  /\ JobInv' /\ job'.kind \in {"none", "invoice", "payment"}
           /\ failed' \subseteq Charges
           /\ UNCHANGED mappingVars /\ UNCHANGED <<charge, posted, total, ledger>>
  <1>1. CASE ResolveRevenue(c)
    <2> DEFINE g == Group(CountryCode(c))
    <2>1. charge[c] = "new" /\ UNCHANGED mappingVars
          /\ UNCHANGED <<charge, posted, total, ledger>>
      BY <1>1 DEF ResolveRevenue, Unsynced
    <2>2. g \in Keys /\ Seed[g].vat = 25
      BY GroupFacts, SeedRows
    <2>3. /\ mapping[g].vat \in Nat
          /\ mapping[g].konto \in {Seed[g].konto} \cup Kontos
          /\ g \notin edited => mapping[g] = Seed[g]
      BY <2>2 DEF MappingInv
    <2>4. CASE job' = job /\ failed' = failed \cup {c}
      <3>1. JobInv'
        BY <2>1, <2>4, JobStays DEF mappingVars
      <3> QED BY <2>1, <2>4, <3>1 DEF TypeOK
    <2>5. CASE /\ IsNumber(mapping[g].konto) /\ failed' = failed
               /\ job' = [kind |-> "invoice", charge |-> c,
                          konto |-> mapping[g].konto, vat |-> mapping[g].vat]
      <3>1. /\ job'.kind = "invoice" /\ job'.charge = c
            /\ job'.konto = mapping[g].konto /\ job'.vat = mapping[g].vat
        BY <2>5
      <3>2. job'.konto \in Accounts
        BY <2>5, <3>1 DEF IsNumber
      <3>3. LookedUp(g)'
        BY <2>1, <2>3, <3>1, <3>2 DEF LookedUp, mappingVars
      <3>4. /\ charge'[job'.charge] = "new" /\ job'.vat \in Nat
            /\ g \notin edited' => job'.vat = 25
        BY <2>1, <2>2, <2>3, <3>1 DEF mappingVars
      <3>5. JobInv'
        BY <3>1, <3>3, <3>4 DEF JobInv
      <3> QED BY <2>1, <2>5, <3>1, <3>5 DEF TypeOK
    <2> QED BY <1>1, <2>4, <2>5 DEF ResolveRevenue
  <1>2. CASE ResolveClearing(c)
    <2> DEFINE k == mapping["clearing"].konto
    <2>1. /\ charge[c] = "booked" /\ IsNumber(k)
          /\ job' = [kind |-> "payment", charge |-> c, konto |-> k]
          /\ UNCHANGED mappingVars /\ UNCHANGED <<charge, failed, posted, total, ledger>>
      BY <1>2 DEF ResolveClearing
    <2>2. "clearing" \in Keys
      BY DEF Keys
    <2>3. /\ k \in {Seed["clearing"].konto} \cup Kontos
          /\ "clearing" \notin edited => k = Seed["clearing"].konto
      BY <2>2 DEF MappingInv
    <2>4. job'.kind = "payment" /\ job'.charge = c /\ job'.konto = k
      BY <2>1
    <2>5. k \in Accounts
      BY <2>1 DEF IsNumber
    <2> HIDE DEF k
    <2>6. LookedUp("clearing")'
      BY <2>1, <2>3, <2>4, <2>5 DEF LookedUp, mappingVars
    <2>7. JobInv'
      BY <2>1, <2>4, <2>6 DEF JobInv
    <2> QED BY <2>1, <2>4, <2>7 DEF TypeOK
  <1> QED BY <1>1, <1>2 DEF BookCharge

-----------------------------------------------------------------------------
(* The inductive invariant *)

LEMMA BooksInit ==
    ASSUME Init
    PROVE  BooksInvariant
  <1>1. /\ Seed \in [Keys -> [konto : Accounts, vat : Nat]]
        /\ \A key \in Keys : Seed[key].konto \in Accounts
        /\ "1510" \in Accounts /\ "1521" \in Accounts /\ "3010" \in Accounts
    BY SeedRows DEF Accounts
  <1>2. total \in [Payouts -> [Kinds -> SUBSET Int]]
    BY DEF Init, Kinds
  <1>3. TypeOK
    <2>1. /\ \A key \in Keys : mapping[key].konto \in Accounts \cup Kontos
          /\ form.key \in Keys
      BY <1>1 DEF Init, NoForm, Keys, Groups
    <2>2. /\ edited \subseteq Edits /\ failed \subseteq Charges
          /\ charge \in [Charges -> {"new", "booked", "paid"}]
          /\ posted \in [Payouts -> SUBSET {"fee", "payout"}]
      BY DEF Init
    <2>3. job.kind = "none" /\ ledger \in [Accounts -> Int]
      BY DEF Init, NoJob
    <2> QED BY <1>2, <2>1, <2>2, <2>3 DEF TypeOK, Kinds
  <1>4. MappingInv
    <2>1. mapping = Seed /\ form.open = FALSE
      BY DEF Init, NoForm
    <2>2. mapping \in [Keys -> [konto : Accounts \cup Kontos, vat : Nat]]
      BY <1>1, <2>1
    <2> QED BY <2>1, <2>2 DEF MappingInv
  <1>5. JobInv
    BY DEF Init, JobInv
  <1>6. Are("booked") = {} /\ Are("paid") = {} /\ Charges \ Are("new") = {}
        /\ Settled("fee") = {} /\ Settled("payout") = {}
    BY ChargesAssumption DEF Init, Are, Settled
  <1>7. ledger["1510"] = 0 /\ ledger["1521"] = 0 /\ ledger["3010"] = 0
    BY <1>1 DEF Init
  <1>8. ReceivableIsUnpaid
    BY <1>6, <1>7, SumEmpty DEF ReceivableIsUnpaid, Sum
  <1>9. RevenueOfSweden
    <2> DEFINE S == {c \in Charges \ Are("new") : Swedish(c)}
    <2>1. S = {}
      BY <1>6
    <2> SUFFICES ledger["3010"] = -Sum(Net, S)
      BY DEF RevenueOfSweden
    <2> HIDE DEF S
    <2>2. Sum(Net, S) = 0
      BY <2>1, SumEmpty DEF Sum
    <2>3. /\ ledger["3010"] \in Int /\ Sum(Net, S) \in Int
          /\ ledger["3010"] + Sum(Net, S) = 0
      BY <1>7, <2>2
    <2> QED BY <2>3
  <1>10. ClearingInv
    BY <1>6, <1>7, SumEmpty DEF ClearingInv, Sum
  <1>11. FeeBooked /\ TotalWithinOre
    BY DEF Init, FeeBooked, TotalWithinOre
  <1> QED BY <1>2, <1>3, <1>4, <1>5, <1>8, <1>9, <1>10, <1>11 DEF BooksInvariant

LEMMA BooksStep ==
    ASSUME IsFiniteSet(Charges), BooksInvariant, [Next]_vars
    PROVE  BooksInvariant'
  <1>0. /\ TypeOK /\ MappingInv /\ JobInv /\ total \in [Payouts -> [Kinds -> SUBSET Int]]
        /\ ReceivableIsUnpaid /\ RevenueOfSweden /\ ClearingInv /\ FeeBooked /\ TotalWithinOre
    BY DEF BooksInvariant
  <1> DEFINE Balances == /\ ReceivableIsUnpaid /\ RevenueOfSweden /\ ClearingInv
                         /\ FeeBooked /\ TotalWithinOre
             Typed == total \in [Payouts -> [Kinds -> SUBSET Int]]
  <1>1. ASSUME Typed', MappingInv', JobInv', Balances',
               (form.key \in Keys)', (edited \subseteq Edits)',
               (charge \in [Charges -> {"new", "booked", "paid"}])',
               (failed \subseteq Charges)',
               (job.kind \in {"none", "invoice", "payment"})',
               (posted \in [Payouts -> SUBSET {"fee", "payout"}])',
               (ledger \in [Accounts -> Int])'
        PROVE  BooksInvariant'
    <2>1. (\A key \in Keys : mapping[key].konto \in Accounts \cup Kontos)'
      BY <1>1 DEF MappingInv
    <2>2. (\A p \in Payouts, kind \in {"fee", "payout"} : total[p][kind] \subseteq Int)'
      BY <1>1 DEF Kinds
    <2>3. TypeOK'
      BY <1>1, <2>1, <2>2 DEF TypeOK
    <2> QED BY <1>1, <2>3 DEF BooksInvariant
  <1>2. CASE (\E key \in Edits : CreateMapping(key) \/ OpenRow(key)) \/ UpdateMapping
    <2>1. /\ MappingInv' /\ edited' \subseteq Edits /\ form'.key \in Keys
          /\ edited \subseteq edited' /\ UNCHANGED booksVars
      BY <1>0, <1>2, EditKeeps
    <2>2. UNCHANGED <<charge, failed, job, posted, total, ledger>>
      BY <2>1 DEF booksVars
    <2>3. JobInv'
      BY <1>0, <2>1, <2>2, JobStays
    <2>4. Balances'
      BY <1>0, <2>1, <2>2, QuietStep
    <2> QED BY <1>0, <1>1, <2>1, <2>2, <2>3, <2>4 DEF TypeOK
  <1>3. ASSUME NEW c \in Charges, BookCharge(c) PROVE BooksInvariant'
    <2>1. /\ JobInv' /\ job'.kind \in {"none", "invoice", "payment"}
          /\ failed' \subseteq Charges
          /\ UNCHANGED mappingVars /\ UNCHANGED <<charge, posted, total, ledger>>
      BY <1>0, <1>3, ResolveKeeps
    <2>2. mapping' = mapping /\ form' = form /\ edited' = edited
      BY <2>1 DEF mappingVars
    <2>3. Balances'
      BY <1>0, <2>1, <2>2, QuietStep
    <2>4. MappingInv'
      BY <1>0, <2>2 DEF MappingInv
    <2> QED BY <1>0, <1>1, <2>1, <2>2, <2>3, <2>4 DEF TypeOK
  <1>4. CASE PostInvoice
    <2>1. Balances'
      BY <1>4, InvoiceKeeps
    <2>2. PICK c \in Charges :
               /\ charge' = [charge EXCEPT ![c] = "booked"]
               /\ job' = NoJob /\ failed' = failed \ {c}
               /\ UNCHANGED mappingVars /\ UNCHANGED <<posted, total>>
               /\ ledger' \in [Accounts -> Int]
      BY <1>0, <1>4, InvoiceStep
    <2>3. mapping' = mapping /\ form' = form /\ edited' = edited
      BY <2>2 DEF mappingVars
    <2>4. MappingInv'
      BY <1>0, <2>3 DEF MappingInv
    <2>5. JobInv' /\ job'.kind = "none"
      BY <2>2 DEF JobInv, NoJob
    <2>6. charge' \in [Charges -> {"new", "booked", "paid"}]
      BY <1>0, <2>2 DEF TypeOK
    <2> QED BY <1>0, <1>1, <2>1, <2>2, <2>3, <2>4, <2>5, <2>6 DEF TypeOK
  <1>5. CASE PostPayment
    <2>1. Balances'
      BY <1>5, PaymentKeeps
    <2>2. PICK c \in Charges :
               /\ charge' = [charge EXCEPT ![c] = "paid"]
               /\ job' = NoJob
               /\ UNCHANGED mappingVars /\ UNCHANGED <<failed, posted, total>>
               /\ ledger' \in [Accounts -> Int]
      BY <1>0, <1>5, PaymentStep
    <2>3. mapping' = mapping /\ form' = form /\ edited' = edited
      BY <2>2 DEF mappingVars
    <2>4. MappingInv'
      BY <1>0, <2>3 DEF MappingInv
    <2>5. JobInv' /\ job'.kind = "none"
      BY <2>2 DEF JobInv, NoJob
    <2>6. charge' \in [Charges -> {"new", "booked", "paid"}]
      BY <1>0, <2>2 DEF TypeOK
    <2> QED BY <1>0, <1>1, <2>1, <2>2, <2>3, <2>4, <2>5, <2>6 DEF TypeOK
  <1>6. ASSUME NEW p \in Payouts, Settle(p) PROVE BooksInvariant'
    <2>0. BookFee(p) \/ BookPayout(p)
      BY <1>6 DEF Settle
    <2>1. Balances' /\ Typed'
      BY <2>0, VoucherKeeps
    <2>2. PICK kind \in Kinds :
               /\ posted' = [posted EXCEPT ![p] = @ \cup {kind}]
               /\ UNCHANGED mappingVars /\ UNCHANGED <<charge, failed, job>>
               /\ ledger' \in [Accounts -> Int]
      BY <1>0, <2>0, VoucherStep
    <2>3. mapping' = mapping /\ form' = form /\ edited' = edited
      BY <2>2 DEF mappingVars
    <2>4. MappingInv'
      BY <1>0, <2>3 DEF MappingInv
    <2>5. JobInv'
      BY <1>0, <2>2, <2>3, JobStays
    <2>6. posted' \in [Payouts -> SUBSET {"fee", "payout"}]
      BY <1>0, <2>2 DEF TypeOK, Kinds
    <2> QED BY <1>0, <1>1, <2>1, <2>2, <2>3, <2>4, <2>5, <2>6 DEF TypeOK
  <1>7. CASE UNCHANGED vars
    <2>1. /\ mapping' = mapping /\ form' = form /\ edited' = edited
          /\ UNCHANGED <<charge, failed, job, posted, total, ledger>>
      BY <1>7 DEF vars
    <2>2. MappingInv'
      BY <1>0, <2>1 DEF MappingInv
    <2>3. JobInv'
      BY <1>0, <2>1, JobStays
    <2>4. Balances'
      BY <1>0, <2>1, QuietStep
    <2> QED BY <1>0, <1>1, <2>1, <2>2, <2>3, <2>4 DEF TypeOK
  <1> QED BY <1>2, <1>3, <1>4, <1>5, <1>6, <1>7 DEF Next, Post

\* When all is booked, what was paid less what was settled is what no document
\* tells of.
LEMMA AllBooked ==
    ASSUME IsFiniteSet(Charges), BooksInvariant
    PROVE  ClearingLeftover
  <1> SUFFICES ASSUME Are("paid") = Charges,
                      \A p \in Payouts : "payout" \in posted[p],
                      "clearing" \notin edited, "1521" \notin Kontos
               PROVE  ledger["1521"] = 100 * Sum(Leftover, Charges)
    BY DEF ClearingLeftover
  <1> DEFINE F == Settled("fee")
  <1>1. ledger["1521"] = 100 * (Sum(Amount, Charges) - Sum(ChargeFee, F)
                                - Sum(Payable, Settled("payout")))
    BY DEF BooksInvariant, ClearingInv
  <1>2. /\ Settled("payout") = Charges /\ F \in SUBSET Charges
        /\ Summable(Amount, Charges) /\ Summable(ChargeFee, Charges)
        /\ Summable(Payable, Charges)
    BY ChargesAssumption, ChargeSums DEF Settled
  <1>3. \A c \in Charges \ F : ChargeFee[c] = 0
    <2> SUFFICES ASSUME NEW c \in Charges, c \notin F PROVE ChargeFee[c] = 0
      OBVIOUS
    <2> DEFINE p == PayoutOf[c]
    <2>1. p \in Payouts /\ c \in In(p) /\ In(p) \in SUBSET Charges
      BY ChargesAssumption DEF In
    <2>2. "fee" \notin posted[p] /\ "payout" \in posted[p]
      BY <2>1 DEF Settled
    <2>3. ~(TotalFee(p) > 0)
      BY <2>1, <2>2 DEF BooksInvariant, FeeBooked
    <2> HIDE DEF p
    <2>4. /\ TotalFee(p) \in Nat /\ TotalFee(p) = SumFunctionOnSet(ChargeFee, In(p))
          /\ \A d \in In(p) : ChargeFee[d] \in Nat
          /\ IsFiniteSet(In(p))
      BY <2>1, AmountFacts, FS_Subset
    <2>5. ChargeFee[c] <= TotalFee(p) /\ ChargeFee[c] \in Nat
      BY <2>1, <2>4, SumMember
    <2> QED BY <2>3, <2>4, <2>5
  <1> HIDE DEF F
  <1>4. Sum(ChargeFee, Charges) = Sum(ChargeFee, F)
    BY <1>2, <1>3, SumSupport DEF Sum
  <1> DEFINE settled == [c \in Charges |-> ChargeFee[c] + Payable[c]]
  <1>5. /\ Summable(settled, Charges)
        /\ Sum(settled, Charges) = Sum(ChargeFee, Charges) + Sum(Payable, Charges)
    <2>1. \A c \in Charges : settled[c] = ChargeFee[c] + Payable[c]
      OBVIOUS
    <2> HIDE DEF settled
    <2> QED BY <1>2, <2>1, SumPlus DEF Sum
  <1>6. \A c \in Charges : /\ Amount[c] = Leftover[c] + settled[c]
                           /\ Leftover[c] \in Int
    <2> SUFFICES ASSUME NEW c \in Charges
                 PROVE  Amount[c] = Leftover[c] + settled[c] /\ Leftover[c] \in Int
      OBVIOUS
    <2>1. /\ Amount[c] \in Nat /\ Captured[c] \in Nat /\ Refunded[c] \in Nat /\ Fee[c] \in Nat
      BY ChargesAssumption
    <2>2. settled[c] = (IF TxnType[c] = "charge" THEN Fee[c] ELSE 0)
                       + (Captured[c] - Refunded[c] - Fee[c])
      BY DEF ChargeFee, Payable
    <2>3. Leftover[c] = Amount[c] - Captured[c] + Refunded[c]
                        + IF TxnType[c] = "charge" THEN 0 ELSE Fee[c]
      BY DEF Leftover
    <2> HIDE DEF settled
    <2> QED BY <2>1, <2>2, <2>3
  <1> HIDE DEF settled
  <1>7. Sum(Amount, Charges) = Sum(Leftover, Charges) + Sum(settled, Charges)
        /\ Sum(Leftover, Charges) \in Int
    <2>1. Summable(Leftover, Charges)
      BY <1>6 DEF Summable
    <2> QED BY <1>5, <1>6, <2>1, SumPlus, SumType DEF Sum
  <1>8. Sum(ChargeFee, Charges) \in Int /\ Sum(Payable, Charges) \in Int
    BY ChargeSums
  <1> QED BY <1>1, <1>2, <1>4, <1>5, <1>7, <1>8

\* The books reconcile after every document, for any charges and any edits:
\* invoice and payment are of one amount, a payout's two vouchers take from the
\* clearing account what its charges brought in, but for what no document
\* tells of, only Swedish charges go to the Swedish account, and a stored total
\* is within an öre of its voucher (invoice.go:123-249, voucher.go:104-211).
THEOREM BooksReconcile ==
    ASSUME IsFiniteSet(Charges)
    PROVE  Spec => []Reconciles
  <1>1. Init => BooksInvariant
    BY BooksInit
  <1>2. BooksInvariant /\ [Next]_vars => BooksInvariant'
    BY BooksStep
  <1>3. BooksInvariant => Reconciles
    BY AllBooked DEF BooksInvariant, Reconciles
  <1> QED BY <1>1, <1>2, <1>3, PTL DEF Spec
=============================================================================
