-------------------------- MODULE QrSettlementProofs --------------------------
(***************************************************************************)
(* Theorems about QrSettlement, for any finite number of attempts.         *)
(***************************************************************************)
EXTENDS QrSettlement, TLAPS, FiniteSetTheorems

Required == {k \in Attempts : attempt[k].dup = "refund_required"}

\* What is owed back: for duplicate attempts, and for a second static credit.
Liabilities == Cardinality(Required) + Balance(claim = "refund_required")

\* Manual settlements and provider ones, before and after submission.
SaleInv ==
    /\ ~sale.submitted => /\ sale.channel = "none" /\ sale.transaction = None
                          /\ sale.settlement = "none" /\ sale.record = "none"
                          /\ ~sale.manual /\ ~sale.failure /\ ~sale.invoice
    /\ sale.submitted => \/ sale.channel = "maybank_qr" /\ sale.transaction \in Attempts
                         \/ sale.channel = "static_qr" /\ sale.transaction = None /\ sale.manual
    /\ sale.submitted /\ ~sale.manual => sale.settlement = "verified" /\ sale.record = "none"
    /\ sale.manual => /\ sale.settlement = sale.record
                      /\ sale.record \in {"pending", "reconciled", "failed"}
    /\ sale.failure => sale.manual /\ sale.invoice
    /\ sale.record = "failed" => sale.failure
    /\ sale.record = "reconciled" => sale.invoice
    /\ sale.record = "pending" /\ sale.failure => sale.transaction \in Paid

\* A failed confirmation that provider truth reopened is never failed again,
\* and a static sale takes an attempt only in place of a failed receipt.
PayerInv ==
    /\ later \subseteq Paid
    /\ sale.channel = "maybank_qr" => attempt[sale.transaction].claimed
    /\ \A k \in Attempts : attempt[k].claimed =>
          /\ sale.submitted /\ k \notin Owed
          /\ sale.channel = "maybank_qr" => k = sale.transaction
          /\ sale.channel = "static_qr" => k \in Paid /\ sale.record = "reconciled"
    /\ \A j, k \in Attempts : attempt[j].claimed /\ attempt[k].claimed => j = k
    /\ Owed \subseteq Paid

LedgerInv ==
    /\ ledger.suspense = Balance(sale.invoice /\ sale.settlement = "pending" /\ ~sale.failure)
    /\ ledger.variance = Balance(sale.failure /\ sale.settlement # "reconciled")
    /\ ledger.liability = Liabilities
    /\ ledger.bank = Liabilities + Balance(sale.invoice /\ sale.settlement \in {"verified", "reconciled"})

\* What has to be proven before an attempt is owed back.
ProvenFor(k) ==
    /\ sale.invoice
    /\ IF sale.channel = "static_qr" THEN sale.record = "reconciled"
       ELSE OfSale \in Paid \ {k} /\ attempt[OfSale].claimed

\* The two halves of LiabilityNeedsProvenSale.
OwedProven == \A k \in Owed : ProvenFor(k)
SecondProven == claim # "none" => sale.channel = "maybank_qr" /\ sale.invoice /\ OfSale \in Paid

SettlementInv == TypeOK /\ SaleInv /\ PayerInv /\ OwedProven /\ SecondProven /\ LedgerInv

LEMMA InvInit == Init => SettlementInv
<1> SUFFICES ASSUME Init PROVE SettlementInv
    OBVIOUS
<1>1. TypeOK
    BY DEF Init, TypeOK, SaleType, Dispositions, Channels, AttemptType, Duplicates, LedgerType,
           ClaimTypes
<1>2. SaleInv
    BY DEF Init, SaleInv
<1>3. PayerInv
    BY DEF Init, PayerInv, Owed
<1>4. OwedProven /\ SecondProven
    BY DEF Init, OwedProven, SecondProven, Owed
<1>5. LedgerInv
    <2>1. Required = {}
        BY DEF Init, Required
    <2> QED
        BY <2>1, FS_EmptySet DEF Init, LedgerInv, Liabilities, Balance
<1> QED
    BY <1>1, <1>2, <1>3, <1>4, <1>5 DEF SettlementInv

-----------------------------------------------------------------------------
\* Steps that write attempts only.
LEMMA SaleKept ==
    ASSUME SettlementInv, TypeOK', sale' = sale, claim' = claim,
           \A j \in Attempts : attempt'[j].claimed = attempt[j].claimed,
           Paid \subseteq Paid', Owed' \subseteq Paid', later' \subseteq Paid',
           \A j \in Owed' : j \in Owed \/ (~attempt[j].claimed /\ ProvenFor(j))
    PROVE  SaleInv' /\ PayerInv' /\ OwedProven' /\ SecondProven'
<1>1. SaleInv'
    BY DEF SettlementInv, SaleInv
<1>2. PayerInv'
    BY DEF SettlementInv, SaleInv, PayerInv
<1>3. OwedProven' /\ SecondProven'
    <2>1. ASSUME NEW k \in Owed' PROVE ProvenFor(k)'
        <3>1. k \in Attempts /\ ProvenFor(k)
            BY DEF SettlementInv, OwedProven, Owed
        <3> QED
            BY <3>1 DEF ProvenFor, OfSale, Paid
    <2>2. SecondProven'
        BY DEF SettlementInv, SecondProven, OfSale
    <2> QED
        BY <2>1, <2>2 DEF OwedProven
<1> QED
    BY <1>1, <1>2, <1>3

\* Steps that write the sale and its record only.
LEMMA AttemptsKept ==
    ASSUME SettlementInv, TypeOK', SaleInv', attempt' = attempt, claim' = claim,
           later' \subseteq Paid,
           sale'.submitted = sale.submitted, sale'.channel = sale.channel,
           sale'.transaction = sale.transaction, sale.invoice => sale'.invoice,
           sale.channel = "static_qr" /\ sale.record = "reconciled" => sale'.record = "reconciled"
    PROVE  PayerInv' /\ OwedProven' /\ SecondProven'
<1>1. Paid' = Paid /\ Owed' = Owed
    BY DEF Paid, Owed
<1>2. PayerInv'
    BY <1>1 DEF SettlementInv, PayerInv
<1>3. OwedProven' /\ SecondProven'
    BY <1>1 DEF SettlementInv, OwedProven, SecondProven, ProvenFor, OfSale
<1> QED
    BY <1>2, <1>3

LEMMA PaidFinite == IsFiniteSet(Paid) /\ IsFiniteSet(Owed) /\ IsFiniteSet(Required)
BY AttemptsAssumption, FS_Subset DEF Paid, Owed, Required

LEMMA BalanceType == \A c : Balance(c) \in {0, 1}
BY DEF Balance

LEMMA LiabilitiesCounted == Liabilities \in Nat
<1>1. Cardinality(Required) \in Nat
    BY PaidFinite, FS_CardinalityType
<1>2. Balance(claim = "refund_required") \in {0, 1}
    BY BalanceType
<1> QED
    BY <1>1, <1>2 DEF Liabilities

LEMMA LiabilitiesKept ==
    ASSUME Required' = Required, claim' = claim
    PROVE  Liabilities' = Liabilities
BY DEF Liabilities

LEMMA LedgerKept ==
    ASSUME SettlementInv, sale' = sale, ledger' = ledger, Required' = Required, claim' = claim
    PROVE  LedgerInv'
BY LiabilitiesKept DEF SettlementInv, LedgerInv

-----------------------------------------------------------------------------
LEMMA RecordPaidInv ==
    ASSUME SettlementInv, NEW k \in Attempts, RecordPaid(k)
    PROVE  SettlementInv'
<1>1. Cardinality(Paid) \in Nat
    BY PaidFinite, FS_CardinalityType
<1>2. /\ attempt' = [attempt EXCEPT ![k].paidAt = Cardinality(Paid) + 1]
      /\ sale' = sale /\ ledger' = ledger /\ later' = later /\ claim' = claim
    BY DEF RecordPaid
<1>3. TypeOK'
    BY <1>1, <1>2 DEF SettlementInv, TypeOK, AttemptType
<1>4. /\ attempt'[k].paidAt > 0
      /\ \A j \in Attempts : /\ attempt'[j].claimed = attempt[j].claimed
                             /\ attempt'[j].dup = attempt[j].dup
      /\ \A j \in Attempts \ {k} : attempt'[j].paidAt = attempt[j].paidAt
    BY <1>1, <1>2 DEF SettlementInv, TypeOK, AttemptType
<1>5. Paid \subseteq Paid' /\ Owed' = Owed /\ Required' = Required
    BY <1>4 DEF Paid, Owed, Required
<1>6. SaleInv' /\ PayerInv' /\ OwedProven' /\ SecondProven'
    BY <1>2, <1>3, <1>4, <1>5, SaleKept DEF SettlementInv, PayerInv
<1> QED
    BY <1>2, <1>3, <1>5, <1>6, LedgerKept DEF SettlementInv

\* One attempt's incident columns are written.
LEMMA IncidentWritten ==
    ASSUME SettlementInv, NEW k \in Attempts, NEW dup \in Duplicates,
           NEW channel \in Channels, NEW w \in Attempts \cup {None},
           attempt' = [attempt EXCEPT ![k] = [@ EXCEPT !.dup = dup, !.channel = channel,
                                                       !.winner = w]]
    PROVE  /\ attempt' \in [Attempts -> AttemptType]
           /\ attempt'[k].dup = dup
           /\ \A j \in Attempts \ {k} : attempt'[j].dup = attempt[j].dup
           /\ \A j \in Attempts : /\ attempt'[j].claimed = attempt[j].claimed
                                  /\ attempt'[j].paidAt = attempt[j].paidAt
           /\ Paid' = Paid
BY DEF SettlementInv, TypeOK, AttemptType, Paid

\* What journals move between the accounts.
Moved(from, to, suspense, variance, bank, liability) ==
    /\ to \in LedgerType
    /\ to.suspense = from.suspense + suspense
    /\ to.variance = from.variance + variance
    /\ to.bank = from.bank + bank
    /\ to.liability = from.liability + liability

LEMMA Journals ==
    ASSUME NEW books \in LedgerType
    PROVE  /\ Moved(books, PostLiability(books), 0, 0, 1, 1)
           /\ Moved(books, PostRefund(books), 0, 0, -1, -1)
           /\ Moved(books, PostFailure(books), -1, 1, 0, 0)
           /\ Moved(books, PostInvoice(TRUE, books), 1, 0, 0, 0)
           /\ Moved(books, PostInvoice(FALSE, books), 0, 0, 1, 0)
           /\ sale.failure => Moved(books, PostReclassification(books), 0, -1, 1, 0)
           /\ ~sale.failure => Moved(books, PostReclassification(books), -1, 0, 1, 0)
<1>1. /\ books.suspense \in Int /\ books.variance \in Int
      /\ books.bank \in Int /\ books.liability \in Int
    BY DEF LedgerType
<1>2. /\ books.suspense + 1 \in Int /\ books.suspense - 1 \in Int
      /\ books.variance + 1 \in Int /\ books.variance - 1 \in Int
      /\ books.bank + 1 \in Int /\ books.bank - 1 \in Int
      /\ books.liability + 1 \in Int /\ books.liability - 1 \in Int
    BY <1>1
<1>3. Moved(books, PostLiability(books), 0, 0, 1, 1)
    <2>1. PostLiability(books) \in LedgerType
        BY <1>2 DEF LedgerType, PostLiability
    <2> QED
        BY <1>1, <2>1 DEF LedgerType, Moved, PostLiability
<1>4. Moved(books, PostRefund(books), 0, 0, -1, -1)
    <2>1. PostRefund(books) \in LedgerType
        BY <1>2 DEF LedgerType, PostRefund
    <2> QED
        BY <1>1, <2>1 DEF LedgerType, Moved, PostRefund
<1>5. Moved(books, PostFailure(books), -1, 1, 0, 0)
    <2>1. PostFailure(books) \in LedgerType
        BY <1>2 DEF LedgerType, PostFailure
    <2> QED
        BY <1>1, <2>1 DEF LedgerType, Moved, PostFailure
<1>6. Moved(books, PostInvoice(TRUE, books), 1, 0, 0, 0)
    <2>1. PostInvoice(TRUE, books) \in LedgerType
        BY <1>2 DEF LedgerType, PostInvoice
    <2> QED
        BY <1>1, <2>1 DEF LedgerType, Moved, PostInvoice
<1>7. Moved(books, PostInvoice(FALSE, books), 0, 0, 1, 0)
    <2>1. PostInvoice(FALSE, books) \in LedgerType
        BY <1>2 DEF LedgerType, PostInvoice
    <2> QED
        BY <1>1, <2>1 DEF LedgerType, Moved, PostInvoice
<1>8. sale.failure => Moved(books, PostReclassification(books), 0, -1, 1, 0)
    <2>1. sale.failure => PostReclassification(books) \in LedgerType
        BY <1>2 DEF LedgerType, PostReclassification
    <2> QED
        BY <1>1, <2>1 DEF LedgerType, Moved, PostReclassification
<1>9. ~sale.failure => Moved(books, PostReclassification(books), -1, 0, 1, 0)
    <2>1. ~sale.failure => PostReclassification(books) \in LedgerType
        BY <1>2 DEF LedgerType, PostReclassification
    <2> QED
        BY <1>1, <2>1 DEF LedgerType, Moved, PostReclassification
<1> QED
    BY <1>3, <1>4, <1>5, <1>6, <1>7, <1>8, <1>9

\* A movement of the ledger that keeps the books in order.
LEMMA BooksKept ==
    ASSUME SettlementInv, NEW s \in Int, NEW v \in Int, NEW b \in Int, NEW l \in Int,
           Moved(ledger, ledger', s, v, b, l),
           Balance(sale'.invoice /\ sale'.settlement = "pending" /\ ~sale'.failure)
             = Balance(sale.invoice /\ sale.settlement = "pending" /\ ~sale.failure) + s,
           Balance(sale'.failure /\ sale'.settlement # "reconciled")
             = Balance(sale.failure /\ sale.settlement # "reconciled") + v,
           Liabilities' = Liabilities + l,
           Balance(sale'.invoice /\ sale'.settlement \in {"verified", "reconciled"}) + l
             = Balance(sale.invoice /\ sale.settlement \in {"verified", "reconciled"}) + b
    PROVE  LedgerInv' /\ ledger' \in LedgerType
<1> DEFINE B0 == Balance(sale.invoice /\ sale.settlement \in {"verified", "reconciled"})
           B1 == Balance(sale'.invoice /\ sale'.settlement \in {"verified", "reconciled"})
<1>1. Liabilities \in Int /\ B0 \in Int /\ B1 \in Int
    <2>1. Liabilities \in Int
        BY LiabilitiesCounted
    <2>2. B0 \in {0, 1} /\ B1 \in {0, 1}
        BY DEF Balance
    <2> HIDE DEF B0, B1
    <2> QED
        BY <2>1, <2>2
<1>2. ledger.bank = Liabilities + B0 /\ ledger'.bank = ledger.bank + b /\ Liabilities' = Liabilities + l /\ B1 + l = B0 + b
    BY DEF SettlementInv, LedgerInv, Moved
<1>3. ledger'.bank = Liabilities' + B1
    <2> HIDE DEF B0, B1
    <2> QED
        BY <1>1, <1>2
<1>4. /\ ledger'.suspense = ledger.suspense + s /\ ledger'.variance = ledger.variance + v
      /\ ledger'.liability = ledger.liability + l /\ ledger' \in LedgerType
    BY DEF Moved
<1> QED
    BY <1>3, <1>4 DEF SettlementInv, LedgerInv

\* A liability is posted for an attempt that was not owed.
LEMMA LiabilityPosted ==
    ASSUME SettlementInv, NEW k \in Attempts \ Owed, sale' = sale, claim' = claim,
           Required' = Required \cup {k}, ledger' = PostLiability(ledger)
    PROVE  LedgerInv' /\ ledger' \in LedgerType
<1>1. Liabilities' = Liabilities + 1
    <2>1. Cardinality(Required') = Cardinality(Required) + 1
        BY PaidFinite, FS_AddElement DEF Required, Owed
    <2>2. Cardinality(Required) \in Nat /\ Balance(claim = "refund_required") \in {0, 1}
        BY PaidFinite, FS_CardinalityType, BalanceType
    <2> QED
        BY <2>1, <2>2 DEF Liabilities
<1>2. Moved(ledger, ledger', 0, 0, 1, 1)
    BY Journals DEF SettlementInv, TypeOK
<1>3. \A c : Balance(c) = Balance(c) + 0
    BY BalanceType
<1> QED
    BY <1>1, <1>2, <1>3, BooksKept

\* register_duplicate_paid_incident, whoever calls it.
LEMMA RegisterDuplicateInv ==
    ASSUME SettlementInv, NEW k \in Paid, NEW w \in Attempts \cup {None},
           RegisterDuplicate(k, w), later' \subseteq Paid, claim' = claim,
           sale.channel = "static_qr" => sale.record = "reconciled"
    PROVE  SettlementInv'
<1> k \in Attempts
    BY DEF Paid
<1>1. PICK accounted \in BOOLEAN :
        /\ accounted => WinnerProven(w)
        /\ attempt' = [attempt EXCEPT ![k] = [@ EXCEPT
                 !.dup = IF accounted /\ k \notin Owed THEN "refund_required"
                         ELSE IF attempt[k].dup = "none" THEN "accounting_pending"
                         ELSE attempt[k].dup,
                 !.channel = WinnerChannel,
                 !.winner = w]]
        /\ ledger' = IF accounted /\ k \notin Owed THEN PostLiability(ledger) ELSE ledger
    BY DEF RegisterDuplicate
<1>2. /\ sale' = sale /\ ~attempt[k].claimed /\ w # k
      /\ sale.channel # "static_qr" => OfSale \in {None, w}
    BY DEF RegisterDuplicate
<1>3. WinnerChannel \in Channels
    BY DEF WinnerChannel, Channels
<1>4. attempt[k].dup \in Duplicates
    BY DEF SettlementInv, TypeOK, AttemptType
<1>5. CASE accounted /\ k \notin Owed
    <2>1. attempt' = [attempt EXCEPT ![k] = [@ EXCEPT !.dup = "refund_required",
                                 !.channel = WinnerChannel, !.winner = w]]
        BY <1>1, <1>5, Zenon
    <2>2. /\ attempt' \in [Attempts -> AttemptType]
          /\ attempt'[k].dup = "refund_required"
          /\ \A j \in Attempts \ {k} : attempt'[j].dup = attempt[j].dup
          /\ \A j \in Attempts : attempt'[j].claimed = attempt[j].claimed
          /\ Paid' = Paid
        BY <1>3, <2>1, IncidentWritten DEF Duplicates
    <2>3. Owed' = Owed \cup {k} /\ Required' = Required \cup {k}
        BY <2>2 DEF Owed, Required
    <2>4. LedgerInv' /\ ledger' \in LedgerType
        BY <1>1, <1>2, <1>5, <2>3, LiabilityPosted
    <2>5. TypeOK'
        BY <1>2, <2>2, <2>4 DEF SettlementInv, TypeOK, Paid
    <2>6. ProvenFor(k)
        <3>1. sale.submitted /\ sale.invoice /\ WinnerProven(w)
            BY <1>1, <1>5 DEF WinnerProven
        <3>2. CASE sale.channel = "static_qr"
            BY <3>1, <3>2 DEF ProvenFor
        <3>3. CASE sale.channel # "static_qr"
            <4>1. sale.transaction \in Attempts
                BY <3>1, <3>3 DEF SettlementInv, SaleInv
            <4>2. OfSale = w /\ w \in Paid /\ attempt[w].claimed
                BY <1>2, <3>1, <3>3, <4>1, SourcesAssumption DEF WinnerProven, OfSale
            <4> QED
                BY <1>2, <3>1, <3>3, <4>2 DEF ProvenFor
        <3> QED
            BY <3>2, <3>3
    <2>7. Owed' \subseteq Paid' /\ later' \subseteq Paid'
        BY <2>2, <2>3 DEF SettlementInv, PayerInv
    <2>8. SaleInv' /\ PayerInv' /\ OwedProven' /\ SecondProven'
        BY <1>2, <2>2, <2>3, <2>5, <2>6, <2>7, SaleKept
    <2> QED
        BY <2>4, <2>5, <2>8 DEF SettlementInv
<1>6. CASE ~(accounted /\ k \notin Owed)
    <2> DEFINE dup == IF attempt[k].dup = "none" THEN "accounting_pending" ELSE attempt[k].dup
    <2>0. dup \in Duplicates /\ (dup # attempt[k].dup => attempt[k].dup = "none" /\ dup = "accounting_pending")
        BY <1>4 DEF Duplicates
    <2>1. attempt' = [attempt EXCEPT ![k] = [@ EXCEPT !.dup = dup,
                                 !.channel = WinnerChannel, !.winner = w]]
        BY <1>1, <1>6, Zenon
    <2>9. PICK d \in Duplicates : d = dup
        BY <2>0
    <2>2. /\ attempt' \in [Attempts -> AttemptType]
          /\ attempt'[k].dup = d
          /\ \A j \in Attempts \ {k} : attempt'[j].dup = attempt[j].dup
          /\ \A j \in Attempts : attempt'[j].claimed = attempt[j].claimed
          /\ Paid' = Paid
        <3> HIDE DEF dup
        <3> QED
            BY <1>3, <2>1, <2>9, IncidentWritten
    <2>3. Owed' = Owed /\ Required' = Required
        BY <2>0, <2>2, <2>9 DEF Owed, Required
    <2>4. ledger' = ledger
        BY <1>1, <1>6
    <2>5. TypeOK'
        BY <1>2, <2>2, <2>4 DEF SettlementInv, TypeOK, Paid
    <2>6. SaleInv' /\ PayerInv' /\ OwedProven' /\ SecondProven'
        BY <1>2, <2>2, <2>3, <2>5, SaleKept DEF SettlementInv, PayerInv
    <2> QED
        BY <1>2, <2>3, <2>4, <2>5, <2>6, LedgerKept DEF SettlementInv
<1> QED
    BY <1>5, <1>6

LEMMA MarkPossibleDuplicateInv ==
    ASSUME SettlementInv, NEW k \in Attempts, MarkPossibleDuplicate(k), later' \subseteq Paid,
           claim' = claim
    PROVE  SettlementInv'
<1>1. /\ sale' = sale /\ ledger' = ledger
      /\ attempt[k].dup \in {"none", "possible_duplicate"}
      /\ attempt' = [attempt EXCEPT ![k] = [@ EXCEPT !.dup = "possible_duplicate",
                                                      !.channel = "static_qr"]]
    BY DEF MarkPossibleDuplicate
<1>2. /\ attempt' \in [Attempts -> AttemptType]
      /\ attempt'[k].dup = "possible_duplicate"
      /\ \A j \in Attempts \ {k} : attempt'[j].dup = attempt[j].dup
      /\ \A j \in Attempts : /\ attempt'[j].claimed = attempt[j].claimed
                             /\ attempt'[j].paidAt = attempt[j].paidAt
    BY <1>1 DEF SettlementInv, TypeOK, AttemptType, Duplicates, Channels
<1>3. Owed' = Owed /\ Required' = Required /\ Paid' = Paid
    BY <1>1, <1>2 DEF Owed, Required, Paid
<1>4. TypeOK'
    BY <1>1, <1>2, <1>3 DEF SettlementInv, TypeOK, Paid
<1>5. SaleInv' /\ PayerInv' /\ OwedProven' /\ SecondProven'
    BY <1>1, <1>2, <1>3, <1>4, SaleKept DEF SettlementInv, PayerInv
<1> QED
    BY <1>1, <1>3, <1>4, <1>5, LedgerKept DEF SettlementInv

LEMMA RefundInv ==
    ASSUME SettlementInv, NEW k \in Attempts, Refund(k)
    PROVE  SettlementInv'
<1>1. /\ sale' = sale /\ ledger' = PostRefund(ledger) /\ later' = later /\ claim' = claim
      /\ attempt' = [attempt EXCEPT ![k].dup = "refunded"]
      /\ attempt[k].dup = "refund_required"
    BY DEF Refund
<1>2. /\ attempt' \in [Attempts -> AttemptType]
      /\ attempt'[k].dup = "refunded"
      /\ \A j \in Attempts \ {k} : attempt'[j].dup = attempt[j].dup
      /\ \A j \in Attempts : /\ attempt'[j].claimed = attempt[j].claimed
                             /\ attempt'[j].paidAt = attempt[j].paidAt
    BY <1>1 DEF SettlementInv, TypeOK, AttemptType, Duplicates
<1>3. Owed' = Owed /\ Required' = Required \ {k} /\ Paid' = Paid /\ k \in Required
    BY <1>1, <1>2 DEF Owed, Required, Paid
<1>4. Liabilities' = Liabilities + (-1)
    <2>1. Cardinality(Required') = Cardinality(Required) + (-1)
        BY <1>3, PaidFinite, FS_RemoveElement, FS_CardinalityType
    <2>2. Cardinality(Required) \in Nat /\ Balance(claim = "refund_required") \in {0, 1}
        BY PaidFinite, FS_CardinalityType, BalanceType
    <2> QED
        BY <1>1, <2>1, <2>2 DEF Liabilities
<1>5. Moved(ledger, ledger', 0, 0, -1, -1)
    BY <1>1, Journals DEF SettlementInv, TypeOK
<1>6. LedgerInv' /\ ledger' \in LedgerType
    <2>1. \A c : Balance(c) = Balance(c) + 0
        BY BalanceType
    <2> QED
        BY <1>1, <1>4, <1>5, <2>1, BooksKept
<1>7. TypeOK'
    BY <1>1, <1>2, <1>6 DEF SettlementInv, TypeOK
<1>8. SaleInv' /\ PayerInv' /\ OwedProven' /\ SecondProven'
    BY <1>1, <1>2, <1>3, <1>7, SaleKept DEF SettlementInv, PayerInv
<1> QED
    BY <1>6, <1>7, <1>8 DEF SettlementInv

-----------------------------------------------------------------------------
\* Steps of the sale.
LEMMA SaleFields ==
    ASSUME SettlementInv
    PROVE  /\ sale.submitted \in BOOLEAN /\ sale.manual \in BOOLEAN
           /\ sale.failure \in BOOLEAN /\ sale.invoice \in BOOLEAN
           /\ sale.settlement \in Dispositions \cup {"verified"}
           /\ sale.record \in Dispositions
           /\ sale.transaction \in Attempts \cup {None}
           /\ sale.channel \in Channels
BY DEF SettlementInv, TypeOK, SaleType

\* Until the order is submitted nothing is claimed, owed or on the books.
LEMMA BeforeSubmission ==
    ASSUME SettlementInv, ~sale.submitted
    PROVE  /\ Owed = {} /\ \A k \in Attempts : ~attempt[k].claimed
           /\ sale.channel = "none" /\ sale.transaction = None
           /\ ~sale.manual /\ ~sale.failure /\ ~sale.invoice
           /\ sale.settlement = "none" /\ sale.record = "none" /\ claim = "none"
BY DEF SettlementInv, SaleInv, PayerInv, OwedProven, ProvenFor, SecondProven

LEMMA SubmitInv ==
    ASSUME SettlementInv, NEW channel, NEW k, NEW manual \in BOOLEAN,
           Submit(channel, k, manual), later' \subseteq Paid, claim' = claim,
           \/ channel = "maybank_qr" /\ k \in Attempts
           \/ channel = "static_qr" /\ k = None /\ manual
    PROVE  SettlementInv'
<1>1. PICK invoice \in BOOLEAN :
        /\ sale' = [submitted   |-> TRUE,
                    channel     |-> channel,
                    transaction |-> k,
                    manual      |-> manual,
                    settlement  |-> IF manual THEN "pending" ELSE "verified",
                    record      |-> IF manual THEN "pending" ELSE "none",
                    failure     |-> FALSE,
                    invoice     |-> invoice]
        /\ attempt' = [j \in Attempts |->
                         IF j = k THEN [attempt[k] EXCEPT !.claimed = TRUE] ELSE attempt[j]]
        /\ ledger' = IF invoice THEN PostInvoice(manual, ledger) ELSE ledger
    BY DEF Submit
<1>2. ~sale.submitted
    BY DEF Submit
<1>3. /\ sale'.submitted /\ sale'.channel = channel /\ sale'.transaction = k
      /\ sale'.manual = manual /\ sale'.failure = FALSE /\ sale'.invoice = invoice
      /\ manual => sale'.settlement = "pending" /\ sale'.record = "pending"
      /\ ~manual => sale'.settlement = "verified" /\ sale'.record = "none"
    BY <1>1
<1>4. /\ attempt' \in [Attempts -> AttemptType]
      /\ \A j \in Attempts : /\ attempt'[j].paidAt = attempt[j].paidAt
                             /\ attempt'[j].dup = attempt[j].dup
                             /\ attempt'[j].claimed = (j = k \/ attempt[j].claimed)
    <2>1. \A j \in Attempts : [attempt[j] EXCEPT !.claimed = TRUE] \in AttemptType
        BY DEF SettlementInv, TypeOK, AttemptType
    <2>2. attempt' \in [Attempts -> AttemptType]
        BY <1>1, <2>1 DEF SettlementInv, TypeOK
    <2>3. ASSUME NEW j \in Attempts
          PROVE  /\ attempt'[j].paidAt = attempt[j].paidAt
                 /\ attempt'[j].dup = attempt[j].dup
                 /\ attempt'[j].claimed = (j = k \/ attempt[j].claimed)
        <3>1. attempt[j] \in AttemptType
            BY DEF SettlementInv, TypeOK
        <3>2. CASE j = k
            BY <1>1, <3>1, <3>2 DEF AttemptType
        <3>3. CASE j # k
            BY <1>1, <3>1, <3>3 DEF AttemptType
        <3> QED
            BY <3>2, <3>3
    <2> QED
        BY <2>2, <2>3
<1>5. Paid' = Paid /\ Owed' = {} /\ Required' = Required
    BY <1>2, <1>4, BeforeSubmission DEF Paid, Owed, Required
<1>12. Liabilities' = Liabilities
    BY <1>5, LiabilitiesKept
<1>6. sale' \in SaleType
    BY <1>1 DEF SaleType, Channels, Dispositions
<1>7. SaleInv'
    BY <1>3 DEF SaleInv
<1>8. PayerInv'
    BY <1>2, <1>3, <1>4, <1>5, BeforeSubmission, SourcesAssumption DEF PayerInv
<1>9. OwedProven' /\ SecondProven'
    BY <1>2, <1>5, BeforeSubmission DEF OwedProven, SecondProven
<1>10. LedgerInv' /\ ledger' \in LedgerType
    <2>1. ledger \in LedgerType
        BY DEF SettlementInv, TypeOK
    <2>2. /\ ledger.suspense = 0 /\ ledger.variance = 0
          /\ ledger.bank = Liabilities + 0 /\ ledger.liability = Liabilities
        BY <1>2, BeforeSubmission DEF SettlementInv, LedgerInv, Balance
    <2>3. Liabilities \in Nat
        BY LiabilitiesCounted
    <2>4. CASE ~invoice
        BY <1>1, <1>3, <1>12, <2>1, <2>2, <2>3, <2>4 DEF LedgerInv, Balance
    <2>5. CASE invoice /\ manual
        <3>1. Moved(ledger, ledger', 1, 0, 0, 0)
            BY <1>1, <2>1, <2>5, Journals
        <3> QED
            BY <1>3, <1>12, <2>2, <2>3, <2>5, <3>1 DEF LedgerInv, Balance, Moved
    <2>6. CASE invoice /\ ~manual
        <3>1. Moved(ledger, ledger', 0, 0, 1, 0)
            BY <1>1, <2>1, <2>6, Journals
        <3> QED
            BY <1>3, <1>12, <2>2, <2>3, <2>6, <3>1 DEF LedgerInv, Balance, Moved
    <2> QED
        BY <2>4, <2>5, <2>6
<1>11. TypeOK'
    BY <1>4, <1>6, <1>10 DEF SettlementInv, TypeOK, Paid
<1> QED
    BY <1>7, <1>8, <1>9, <1>10, <1>11 DEF SettlementInv

LEMMA RetryInvoiceInv ==
    ASSUME SettlementInv, RetryInvoice
    PROVE  SettlementInv'
<1>1. /\ sale.submitted /\ ~sale.invoice /\ attempt' = attempt /\ later' = later
      /\ claim' = claim
      /\ sale' = [sale EXCEPT !.invoice = TRUE] /\ ledger' = PostInvoice(sale.manual, ledger)
    BY DEF RetryInvoice
<1>2. /\ sale' \in SaleType /\ sale'.invoice
      /\ sale'.submitted = sale.submitted /\ sale'.channel = sale.channel
      /\ sale'.transaction = sale.transaction /\ sale'.manual = sale.manual
      /\ sale'.settlement = sale.settlement /\ sale'.record = sale.record
      /\ sale'.failure = sale.failure
    BY <1>1 DEF SettlementInv, TypeOK, SaleType
<1>3. Paid' = Paid /\ Required' = Required
    BY <1>1 DEF Paid, Required
<1>8. Liabilities' = Liabilities
    BY <1>1, <1>3, LiabilitiesKept
<1>4. SaleInv'
    BY <1>1, <1>2, <1>3 DEF SettlementInv, SaleInv
<1>5. LedgerInv' /\ ledger' \in LedgerType
    <2>1. /\ ~sale.failure /\ sale.settlement # "reconciled"
          /\ sale.manual => sale.settlement = "pending"
          /\ ~sale.manual => sale.settlement = "verified"
        BY <1>1 DEF SettlementInv, SaleInv
    <2>2. Liabilities \in Nat /\ ledger \in LedgerType
        BY LiabilitiesCounted DEF SettlementInv, TypeOK
    <2>3. /\ ledger.suspense = 0 /\ ledger.variance = 0
          /\ ledger.bank = Liabilities + 0 /\ ledger.liability = Liabilities
        BY <1>1, <2>1 DEF SettlementInv, LedgerInv, Balance
    <2>4. CASE sale.manual
        <3>1. sale.manual = TRUE
            BY <2>4, SaleFields
        <3>2. Moved(ledger, ledger', 1, 0, 0, 0)
            BY <1>1, <2>2, <3>1, Journals
        <3> QED
            BY <1>2, <1>8, <2>1, <2>2, <2>3, <2>4, <3>2 DEF LedgerInv, Balance, Moved
    <2>5. CASE ~sale.manual
        <3>1. sale.manual = FALSE
            BY <2>5, SaleFields
        <3>2. Moved(ledger, ledger', 0, 0, 1, 0)
            BY <1>1, <2>2, <3>1, Journals
        <3> QED
            BY <1>2, <1>8, <2>1, <2>2, <2>3, <2>5, <3>2 DEF LedgerInv, Balance, Moved
    <2> QED
        BY <2>4, <2>5
<1>6. TypeOK'
    BY <1>1, <1>2, <1>5 DEF SettlementInv, TypeOK
<1>7. PayerInv' /\ OwedProven' /\ SecondProven'
    BY <1>1, <1>2, <1>4, <1>6, AttemptsKept DEF SettlementInv, PayerInv
<1> QED
    BY <1>4, <1>5, <1>6, <1>7 DEF SettlementInv

\* A manual settlement is found to be paid: in the ledger, and on the sale.
LEMMA Reclassified ==
    ASSUME SettlementInv, sale.manual, sale.invoice, sale.record \in {"pending", "failed"},
           sale' = [sale EXCEPT !.record = "reconciled", !.settlement = "reconciled"],
           ledger' = PostReclassification(ledger), Liabilities' = Liabilities
    PROVE  /\ LedgerInv' /\ ledger' \in LedgerType
           /\ SaleInv' /\ sale' \in SaleType
           /\ sale'.submitted = sale.submitted /\ sale'.channel = sale.channel
           /\ sale'.transaction = sale.transaction /\ sale'.invoice
           /\ sale'.record = "reconciled"
<1>1. /\ sale' \in SaleType
      /\ sale'.submitted = sale.submitted /\ sale'.channel = sale.channel
      /\ sale'.transaction = sale.transaction /\ sale'.invoice = sale.invoice
      /\ sale'.manual = sale.manual /\ sale'.failure = sale.failure
      /\ sale'.record = "reconciled" /\ sale'.settlement = "reconciled"
    BY DEF SettlementInv, TypeOK, SaleType, Dispositions
<1>2. SaleInv'
    BY <1>1 DEF SettlementInv, SaleInv
<1>3. LedgerInv' /\ ledger' \in LedgerType
    <2>1. sale.settlement = sale.record /\ (sale.record = "failed" => sale.failure)
        BY DEF SettlementInv, SaleInv
    <2>2. Liabilities \in Nat /\ ledger \in LedgerType
        BY LiabilitiesCounted DEF SettlementInv, TypeOK
    <2>3. ledger.bank = Liabilities + 0 /\ ledger.liability = Liabilities
        BY <2>1 DEF SettlementInv, LedgerInv, Balance
    <2>4. CASE sale.failure
        <3>1. Moved(ledger, ledger', 0, -1, 1, 0)
            BY <2>2, <2>4, Journals
        <3>2. ledger.suspense = 0 /\ ledger.variance = 1
            BY <2>1, <2>4 DEF SettlementInv, LedgerInv, Balance
        <3> QED
            BY <1>1, <2>2, <2>3, <2>4, <3>1, <3>2 DEF LedgerInv, Balance, Moved
    <2>5. CASE ~sale.failure
        <3>1. Moved(ledger, ledger', -1, 0, 1, 0)
            BY <2>2, <2>5, Journals
        <3>2. ledger.suspense = 1 /\ ledger.variance = 0
            BY <2>1, <2>5 DEF SettlementInv, LedgerInv, Balance
        <3> QED
            BY <1>1, <2>2, <2>3, <2>5, <3>1, <3>2 DEF LedgerInv, Balance, Moved
    <2> QED
        BY <2>4, <2>5
<1> QED
    BY <1>1, <1>2, <1>3

LEMMA ReclassifiedInv ==
    ASSUME SettlementInv, sale.manual, sale.invoice, sale.record \in {"pending", "failed"},
           sale' = [sale EXCEPT !.record = "reconciled", !.settlement = "reconciled"],
           ledger' = PostReclassification(ledger), attempt' = attempt, later' = later,
           claim' = claim
    PROVE  SettlementInv'
<1>1. Liabilities' = Liabilities
    BY DEF Required, Liabilities
<1>2. TypeOK'
    BY <1>1, Reclassified DEF SettlementInv, TypeOK
<1>3. PayerInv' /\ OwedProven' /\ SecondProven'
    BY <1>1, <1>2, Reclassified, AttemptsKept DEF SettlementInv, PayerInv
<1> QED
    BY <1>1, <1>2, <1>3, Reclassified DEF SettlementInv

LEMMA MarkReconciledInv ==
    ASSUME SettlementInv, MarkReconciled
    PROVE  SettlementInv'
<1>1. sale.manual
    BY SaleFields DEF SettlementInv, SaleInv, MarkReconciled
<1> QED
    BY <1>1, ReclassifiedInv DEF MarkReconciled

LEMMA MarkFailedInv ==
    ASSUME SettlementInv, MarkFailed
    PROVE  SettlementInv'
<1>1. /\ sale.record = "pending" /\ sale.invoice /\ sale.transaction \notin Paid
      /\ sale' = [sale EXCEPT !.record = "failed", !.settlement = "failed", !.failure = TRUE]
      /\ ledger' = PostFailure(ledger) /\ attempt' = attempt /\ later' = later
      /\ claim' = claim
    BY DEF MarkFailed, OfSale
<1>2. /\ sale' \in SaleType
      /\ sale'.submitted = sale.submitted /\ sale'.channel = sale.channel
      /\ sale'.transaction = sale.transaction /\ sale'.invoice = sale.invoice
      /\ sale'.manual = sale.manual /\ sale'.failure = TRUE
      /\ sale'.record = "failed" /\ sale'.settlement = "failed"
    BY <1>1 DEF SettlementInv, TypeOK, SaleType, Dispositions
<1>3. sale.manual /\ ~sale.failure /\ sale.settlement = "pending" /\ sale.submitted
    BY <1>1 DEF SettlementInv, SaleInv
<1>4. SaleInv'
    BY <1>1, <1>2, <1>3 DEF SettlementInv, SaleInv
<1>5. Liabilities' = Liabilities
    BY <1>1 DEF Required, Liabilities
<1>6. LedgerInv' /\ ledger' \in LedgerType
    <2>1. Liabilities \in Nat /\ ledger \in LedgerType
        BY LiabilitiesCounted DEF SettlementInv, TypeOK
    <2>2. Moved(ledger, ledger', -1, 1, 0, 0)
        BY <1>1, <2>1, Journals
    <2>3. /\ ledger.suspense = 1 /\ ledger.variance = 0
          /\ ledger.bank = Liabilities + 0 /\ ledger.liability = Liabilities
        BY <1>1, <1>3 DEF SettlementInv, LedgerInv, Balance
    <2> QED
        BY <1>2, <1>5, <2>1, <2>2, <2>3 DEF LedgerInv, Balance, Moved
<1>7. TypeOK'
    BY <1>1, <1>2, <1>6 DEF SettlementInv, TypeOK
<1>8. PayerInv' /\ OwedProven' /\ SecondProven'
    BY <1>1, <1>2, <1>4, <1>7, AttemptsKept DEF SettlementInv, PayerInv
<1> QED
    BY <1>4, <1>6, <1>7, <1>8 DEF SettlementInv

\* Provider truth replaces a manual result of the sale's own attempt.
LEMMA SupersedeManualInv ==
    ASSUME SettlementInv, SupersedeManual, sale.transaction \in Paid, later' = later,
           claim' = claim, sale.channel = "maybank_qr"
    PROVE  SettlementInv'
<1>1. sale.manual /\ sale.record \in {"pending", "failed"} /\ sale.submitted
    BY DEF SettlementInv, SaleInv, SupersedeManual
<1>2. CASE sale.invoice /\ ledger' = PostReclassification(ledger)
             /\ sale' = [sale EXCEPT !.record = "reconciled", !.settlement = "reconciled"]
    BY <1>1, <1>2, ReclassifiedInv DEF SupersedeManual
<1>3. CASE ledger' = ledger
             /\ sale' = [sale EXCEPT !.record = "pending", !.settlement = "pending"]
    <2>1. /\ sale' \in SaleType
          /\ sale'.submitted = sale.submitted /\ sale'.channel = sale.channel
          /\ sale'.transaction = sale.transaction /\ sale'.invoice = sale.invoice
          /\ sale'.manual = sale.manual /\ sale'.failure = sale.failure
          /\ sale'.record = "pending" /\ sale'.settlement = "pending"
        BY <1>3 DEF SettlementInv, TypeOK, SaleType, Dispositions
    <2>2. attempt' = attempt
        BY DEF SupersedeManual
    <2>3. Paid' = Paid /\ Liabilities' = Liabilities
        BY <2>2 DEF Paid, Required, Liabilities
    <2>4. SaleInv'
        BY <1>1, <2>1, <2>3 DEF SettlementInv, SaleInv
    <2>5. LedgerInv'
        <3>1. sale.settlement = sale.record /\ (sale.record = "failed" => sale.failure)
            BY <1>1 DEF SettlementInv, SaleInv
        <3> QED
            BY <1>1, <1>3, <2>1, <2>3, <3>1 DEF SettlementInv, LedgerInv, Balance
    <2>6. TypeOK'
        BY <1>3, <2>1, <2>2 DEF SettlementInv, TypeOK
    <2>7. PayerInv' /\ OwedProven' /\ SecondProven'
        BY <2>1, <2>2, <2>4, <2>6, AttemptsKept DEF SettlementInv, PayerInv
    <2> QED
        BY <2>4, <2>5, <2>6, <2>7 DEF SettlementInv
<1> QED
    BY <1>2, <1>3 DEF SupersedeManual

\* A paid attempt takes the place of a static receipt that was not found.
LEMMA SettleExistingSaleInv ==
    ASSUME SettlementInv, NEW k \in Paid, SettleExistingSale(k), later' \subseteq Paid,
           claim' = claim, sale.channel = "static_qr", sale.record = "failed"
    PROVE  SettlementInv'
<1> k \in Attempts
    BY DEF Paid
<1>1. /\ k \notin Owed
      /\ sale' = [sale EXCEPT !.record = "reconciled", !.settlement = "reconciled"]
      /\ attempt' = [attempt EXCEPT ![k] = [@ EXCEPT !.claimed = TRUE,
                                                   !.dup = "settled_existing_sale",
                                                   !.channel = "static_qr",
                                                   !.winner = None]]
      /\ ledger' = PostReclassification(ledger)
    BY DEF SettleExistingSale
<1>2. /\ attempt' \in [Attempts -> AttemptType]
      /\ attempt'[k].claimed /\ attempt'[k].dup = "settled_existing_sale"
      /\ attempt'[k].paidAt = attempt[k].paidAt
      /\ \A j \in Attempts \ {k} : attempt'[j] = attempt[j]
    BY <1>1 DEF SettlementInv, TypeOK, AttemptType, Duplicates, Channels
<1>3. Owed' = Owed /\ Required' = Required /\ Paid' = Paid
    BY <1>1, <1>2 DEF Owed, Required, Paid
<1>4. sale.failure /\ sale.manual /\ sale.invoice /\ sale.submitted
    BY DEF SettlementInv, SaleInv
<1>5. /\ LedgerInv' /\ ledger' \in LedgerType /\ SaleInv' /\ sale' \in SaleType
      /\ sale'.submitted = sale.submitted /\ sale'.channel = sale.channel
      /\ sale'.transaction = sale.transaction /\ sale'.invoice
      /\ sale'.record = "reconciled"
    BY <1>1, <1>3, <1>4, LiabilitiesKept, Reclassified
<1>6. Owed = {} /\ claim = "none" /\ \A j \in Attempts : ~attempt[j].claimed
    BY DEF SettlementInv, OwedProven, ProvenFor, SecondProven, PayerInv
<1>7. PayerInv'
    BY <1>2, <1>3, <1>4, <1>5, <1>6 DEF PayerInv
<1>8. OwedProven' /\ SecondProven'
    BY <1>3, <1>6 DEF OwedProven, SecondProven
<1>9. TypeOK'
    BY <1>2, <1>3, <1>5 DEF SettlementInv, TypeOK, Paid
<1> QED
    BY <1>5, <1>7, <1>8, <1>9 DEF SettlementInv

LEMMA ResolveLatePaidInv ==
    ASSUME SettlementInv, NEW k \in Paid, ResolveLatePaid(k), later' \subseteq Paid,
           claim' = claim, sale.channel = "static_qr"
    PROVE  SettlementInv'
<1> k \in Attempts
    BY DEF Paid
<1>1. CASE MarkPossibleDuplicate(k)
    BY <1>1, MarkPossibleDuplicateInv
<1>2. CASE sale.record = "reconciled" /\ RegisterDuplicate(k, None)
    BY <1>2, RegisterDuplicateInv
<1>3. CASE sale.record = "failed" /\ SettleExistingSale(k)
    BY <1>3, SettleExistingSaleInv
<1> QED
    BY <1>1, <1>2, <1>3 DEF ResolveLatePaid

LEMMA RegisterIncidentInv ==
    ASSUME SettlementInv, NEW k \in Paid, RegisterIncident(k), later' \subseteq Paid,
           claim' = claim
    PROVE  SettlementInv'
<1>1. CASE sale.channel = "static_qr"
    BY <1>1, ResolveLatePaidInv DEF RegisterIncident
<1>2. CASE sale.channel # "static_qr"
    BY <1>2, RegisterDuplicateInv, SaleFields DEF RegisterIncident, OfSale
<1> QED
    BY <1>1, <1>2

LEMMA UnchangedInv ==
    ASSUME SettlementInv, UNCHANGED <<sale, attempt, ledger, claim>>, later' \subseteq Paid
    PROVE  SettlementInv'
<1>1. Paid' = Paid /\ Owed' = Owed /\ Required' = Required
    BY DEF Paid, Owed, Required
<1>2. TypeOK'
    BY DEF SettlementInv, TypeOK, Paid
<1>3. SaleInv' /\ PayerInv' /\ OwedProven' /\ SecondProven'
    BY <1>1, <1>2, SaleKept DEF SettlementInv, PayerInv
<1> QED
    BY <1>1, <1>2, <1>3, LedgerKept DEF SettlementInv

LEMMA FinalizePaidSaleInv ==
    ASSUME SettlementInv, NEW k \in Attempts, FinalizePaidSale(k)
    PROVE  SettlementInv'
<1>1. k \in Paid \ Undisplayed /\ later \subseteq Paid /\ claim' = claim
    BY DEF FinalizePaidSale, SettlementInv, PayerInv
<1>2. CASE sale.submitted /\ sale.channel = "maybank_qr" /\ OfSale = k
    BY <1>1, <1>2, SupersedeManualInv DEF FinalizePaidSale, FinalizeSubmitted, OfSale
<1>3. CASE sale.submitted /\ ~(sale.channel = "maybank_qr" /\ OfSale = k)
    BY <1>1, <1>3, RegisterIncidentInv DEF FinalizePaidSale, FinalizeSubmitted
<1>4. CASE ~sale.submitted
    <2>1. PICK w \in Attempts \ Undisplayed :
             \/ w = k /\ Submit("maybank_qr", k, FALSE) /\ later' = Paid \ {k}
             \/ RegisterDuplicate(k, w) /\ later' = later
        BY <1>4 DEF FinalizePaidSale, FinalizeDraft
    <2>2. CASE Submit("maybank_qr", k, FALSE) /\ later' = Paid \ {k}
        BY <1>1, <2>2, SubmitInv
    <2>3. CASE RegisterDuplicate(k, w) /\ later' = later
        BY <1>1, <1>4, <2>3, RegisterDuplicateInv, BeforeSubmission
    <2> QED
        BY <2>1, <2>2, <2>3
<1> QED
    BY <1>2, <1>3, <1>4

\* The claim of a second static credit moves, and with it the books.
LEMMA ClaimMoved ==
    ASSUME SettlementInv, sale' = sale, attempt' = attempt, later' = later,
           claim' \in ClaimTypes, LedgerInv', ledger' \in LedgerType,
           claim # "none" \/ (WinnerProven(OfSale) /\ sale.channel = "maybank_qr")
    PROVE  SettlementInv'
<1>1. Paid' = Paid /\ Owed' = Owed
    BY DEF Paid, Owed
<1>2. TypeOK' /\ SaleInv' /\ PayerInv'
    BY <1>1 DEF SettlementInv, TypeOK, SaleInv, PayerInv
<1>3. OwedProven'
    BY <1>1 DEF SettlementInv, OwedProven, ProvenFor, OfSale
<1>4. SecondProven'
    BY <1>1 DEF SettlementInv, SecondProven, OfSale, WinnerProven
<1> QED
    BY <1>2, <1>3, <1>4 DEF SettlementInv

LEMMA ClaimLooked ==
    ASSUME SettlementInv, RegisterClaim \/ ConfirmNoSecondCredit
    PROVE  SettlementInv'
<1>1. /\ sale' = sale /\ attempt' = attempt /\ ledger' = ledger /\ later' = later
      /\ claim' \in ClaimTypes
      /\ claim # "none" \/ (WinnerProven(OfSale) /\ sale.channel = "maybank_qr")
      /\ claim # "refund_required" /\ claim' # "refund_required"
    BY DEF RegisterClaim, ConfirmNoSecondCredit, ClaimIdentity, ClaimTypes
<1>2. Liabilities' = Liabilities
    BY <1>1 DEF Liabilities, Required, Balance
<1>3. LedgerInv'
    BY <1>1, <1>2 DEF SettlementInv, LedgerInv
<1> QED
    BY <1>1, <1>3, ClaimMoved DEF SettlementInv, TypeOK

LEMMA ClaimPosted ==
    ASSUME SettlementInv, ConfirmSecondCredit \/ RecordClaimRefund
    PROVE  SettlementInv'
<1>1. /\ sale' = sale /\ attempt' = attempt /\ later' = later
      /\ claim' \in ClaimTypes /\ claim # "none"
    BY DEF ConfirmSecondCredit, RecordClaimRefund, ClaimTypes
<1>2. Required' = Required /\ \A c : Balance(c) = Balance(c) + 0
    BY <1>1, BalanceType DEF Required
<1>3. Cardinality(Required) \in Nat
    BY PaidFinite, FS_CardinalityType
<1>4. CASE ConfirmSecondCredit
    <2>1. Liabilities' = Liabilities + 1
        BY <1>2, <1>3, <1>4 DEF ConfirmSecondCredit, Liabilities, Balance
    <2>2. Moved(ledger, ledger', 0, 0, 1, 1)
        BY <1>4, Journals DEF ConfirmSecondCredit, SettlementInv, TypeOK
    <2>3. LedgerInv' /\ ledger' \in LedgerType
        BY <1>1, <1>2, <2>1, <2>2, BooksKept
    <2> QED
        BY <1>1, <2>3, ClaimMoved
<1>5. CASE RecordClaimRefund
    <2>1. Liabilities' = Liabilities + (-1)
        BY <1>2, <1>3, <1>5 DEF RecordClaimRefund, Liabilities, Balance
    <2>2. Moved(ledger, ledger', 0, 0, -1, -1)
        BY <1>5, Journals DEF RecordClaimRefund, SettlementInv, TypeOK
    <2>3. LedgerInv' /\ ledger' \in LedgerType
        BY <1>1, <1>2, <2>1, <2>2, BooksKept
    <2> QED
        BY <1>1, <2>3, ClaimMoved
<1> QED
    BY <1>4, <1>5

LEMMA InvStep == SettlementInv /\ [Next]_vars => SettlementInv'
<1> SUFFICES ASSUME SettlementInv, [Next]_vars PROVE SettlementInv'
    OBVIOUS
<1>1. later \subseteq Paid
    BY DEF SettlementInv, PayerInv
<1>2. ASSUME NEW k \in Attempts, NEW manual \in BOOLEAN, SubmitFromTill(k, manual)
      PROVE  SettlementInv'
    BY <1>1, <1>2, SubmitInv DEF SubmitFromTill
<1>3. CASE ConfirmStatic
    BY <1>3, SubmitInv DEF ConfirmStatic
<1>4. ASSUME NEW k \in Attempts, RegisterLater(k) PROVE SettlementInv'
    <2>1. k \in Paid /\ later' \subseteq Paid
        BY <1>1, <1>4 DEF RegisterLater
    <2> QED
        BY <1>4, <2>1, RegisterIncidentInv, UnchangedInv DEF RegisterLater
<1>5. CASE WorkerDies
    BY <1>5, UnchangedInv DEF WorkerDies
<1>6. CASE UNCHANGED vars
    BY <1>1, <1>6, UnchangedInv DEF vars
<1> QED
    BY <1>2, <1>3, <1>4, <1>5, <1>6, RecordPaidInv, FinalizePaidSaleInv, RefundInv,
       RetryInvoiceInv, MarkReconciledInv, MarkFailedInv, ClaimLooked, ClaimPosted DEF Next

(* The inductive invariant: what a manual settlement's record and failure    *)
(* journal allow, which attempt may hold the claim, and the four balances.   *)
THEOREM SettlementsHold == Spec => []SettlementInv
<1>1. SettlementInv /\ [Next]_vars => SettlementInv'
    BY InvStep
<1> QED
    BY InvInit, <1>1, PTL DEF Spec

THEOREM SettlementsTyped == Spec => []TypeOK
<1>1. SettlementInv => TypeOK
    BY DEF SettlementInv
<1> QED
    BY <1>1, SettlementsHold, PTL

(* The accounts show the sale's amount once, where its settlement says.      *)
THEOREM BooksBalance == Spec => []BooksMatchSettlement
<1>1. SettlementInv => BooksMatchSettlement
    BY DEF SettlementInv, SaleInv, LedgerInv, Liabilities, Required, BooksMatchSettlement
<1> QED
    BY <1>1, SettlementsHold, PTL

(* One attempt at most pays for the sale, and that one is not owed back.     *)
THEOREM OnePaymentPays == Spec => []OneAttemptPays
<1>1. SettlementInv => OneAttemptPays
    BY DEF SettlementInv, PayerInv, OneAttemptPays
<1> QED
    BY <1>1, SettlementsHold, PTL

(* Nothing is owed back before something else is proven to have paid.        *)
THEOREM NothingOwedUnproven == Spec => []LiabilityNeedsProvenSale
<1>1. SettlementInv => LiabilityNeedsProvenSale
    BY DEF SettlementInv, OwedProven, ProvenFor, SecondProven, LiabilityNeedsProvenSale
<1> QED
    BY <1>1, SettlementsHold, PTL

-----------------------------------------------------------------------------
\* What the actions come down to.
Submission ==
    \E channel \in {"maybank_qr", "static_qr"}, k \in Attempts \cup {None}, manual \in BOOLEAN :
        /\ Submit(channel, k, manual)
        /\ \/ channel = "maybank_qr" /\ k \in Attempts
           \/ channel = "static_qr" /\ k = None /\ manual

Duplicate == \E k \in Paid, w \in Attempts \cup {None} : RegisterDuplicate(k, w)

Replacement ==
    \E k \in Paid : SettleExistingSale(k) /\ sale.channel = "static_qr" /\ sale.record = "failed"

LEMMA IncidentStep ==
    ASSUME SettlementInv, NEW k \in Paid, RegisterIncident(k)
    PROVE  Duplicate \/ Replacement \/ \E j \in Attempts : MarkPossibleDuplicate(j)
<1> k \in Attempts
    BY DEF Paid
<1>1. CASE sale.channel = "static_qr"
    BY <1>1 DEF RegisterIncident, ResolveLatePaid, Duplicate, Replacement
<1>2. CASE sale.channel # "static_qr"
    BY <1>2, SaleFields DEF RegisterIncident, Duplicate, OfSale
<1> QED
    BY <1>1, <1>2

LEMMA Steps ==
    ASSUME SettlementInv, Next
    PROVE  \/ \E k \in Attempts : RecordPaid(k) \/ MarkPossibleDuplicate(k) \/ Refund(k)
           \/ Submission \/ Duplicate \/ Replacement
           \/ RetryInvoice \/ SupersedeManual \/ MarkReconciled \/ MarkFailed
           \/ UNCHANGED <<sale, attempt>>
<1>1. ASSUME NEW k \in Attempts, NEW manual \in BOOLEAN, SubmitFromTill(k, manual)
      PROVE  Submission
    BY <1>1 DEF SubmitFromTill, Submission
<1>2. ConfirmStatic => Submission
    BY DEF ConfirmStatic, Submission
<1>3. ASSUME NEW k \in Attempts, RegisterLater(k)
      PROVE  (RegisterIncident(k) /\ k \in Paid) \/ UNCHANGED <<sale, attempt>>
    BY <1>3 DEF RegisterLater, SettlementInv, PayerInv
<1>4. ASSUME NEW k \in Attempts, FinalizePaidSale(k)
      PROVE  \/ SupersedeManual \/ Submission \/ Duplicate
             \/ RegisterIncident(k) /\ k \in Paid
    <2>1. k \in Paid
        BY <1>4 DEF FinalizePaidSale
    <2>2. CASE sale.submitted
        BY <1>4, <2>1, <2>2 DEF FinalizePaidSale, FinalizeSubmitted
    <2>3. CASE ~sale.submitted
        <3>1. PICK w \in Attempts \ Undisplayed :
                 Submit("maybank_qr", k, FALSE) \/ RegisterDuplicate(k, w)
            BY <1>4, <2>3 DEF FinalizePaidSale, FinalizeDraft
        <3> QED
            BY <2>1, <3>1 DEF Submission, Duplicate
    <2> QED
        BY <2>2, <2>3
<1>5. WorkerDies \/ RegisterClaim \/ ConfirmNoSecondCredit \/ ConfirmSecondCredit
          \/ RecordClaimRefund
        => UNCHANGED <<sale, attempt>>
    BY DEF WorkerDies, RegisterClaim, ConfirmNoSecondCredit, ConfirmSecondCredit, RecordClaimRefund
<1> QED
    BY <1>1, <1>2, <1>3, <1>4, <1>5, IncidentStep DEF Next

(* What the provider has proven stays proven: no bank answer, confirmation   *)
(* or retry makes a settlement unproven or a paid attempt's record fail.     *)
THEOREM ProofIsKept == Spec => ProviderTruthKept
<1> DEFINE Kept == /\ sale.settlement \in {"verified", "reconciled"}
                           => sale'.settlement = sale.settlement
                   /\ OfSale \in Paid /\ sale.record # "failed" => sale'.record # "failed"
<1>1. ASSUME SettlementInv, Next PROVE Kept
    <2> USE <1>1
    <2>1. CASE sale' = sale
        BY <2>1
    <2>2. CASE Submission
        <3>1. ~sale.submitted /\ sale'.record \in {"pending", "none"}
            BY <2>2 DEF Submission, Submit
        <3> QED
            BY <3>1, BeforeSubmission
    <2>3. CASE RetryInvoice
        BY <2>3 DEF RetryInvoice, SettlementInv, TypeOK, SaleType
    <2>4. ASSUME sale.manual, sale.record \in {"pending", "failed"},
                 NEW r \in {"pending", "reconciled"},
                 sale' = [sale EXCEPT !.record = r, !.settlement = r]
          PROVE  Kept
        BY <2>4 DEF SettlementInv, TypeOK, SaleType, SaleInv
    <2>5. CASE MarkFailed
        <3>1. /\ sale.record = "pending" /\ OfSale \notin Paid
            BY <2>5 DEF MarkFailed
        <3>2. sale.settlement = "pending"
            BY <3>1 DEF SettlementInv, SaleInv
        <3> QED
            BY <3>1, <3>2
    <2>6. CASE SupersedeManual
        <3>1. sale.manual /\ sale.record \in {"pending", "failed"}
            BY <2>6 DEF SupersedeManual, SettlementInv, SaleInv
        <3> QED
            BY <2>4, <2>6, <3>1 DEF SupersedeManual
    <2>7. CASE MarkReconciled
        BY <2>4, <2>7 DEF MarkReconciled, SettlementInv, SaleInv
    <2>8. CASE Replacement
        BY <2>4, <2>8 DEF Replacement, SettleExistingSale, SettlementInv, SaleInv
    <2> QED
        BY <2>1, <2>2, <2>3, <2>5, <2>6, <2>7, <2>8, Steps
        DEF RecordPaid, MarkPossibleDuplicate, Refund, Duplicate, RegisterDuplicate
<1>2. SettlementInv /\ [Next]_vars => [Kept]_vars
    BY <1>1
<1> QED
    BY <1>2, SettlementsHold, PTL DEF Spec, ProviderTruthKept

-----------------------------------------------------------------------------
(* The settlement implements OneSale.                                        *)

Returned == {k \in Attempts : attempt[k].dup = "refunded"}

\* What the sale rests on, in each of the states it can be in.
SourceFacts ==
    /\ sale.channel # "static_qr" => Source = sale.transaction
    /\ sale.channel = "static_qr" /\ (\A k \in Attempts : ~attempt[k].claimed) => Source = Static
    /\ \A k \in Attempts : sale.channel = "static_qr" /\ attempt[k].claimed => Source = k

LEMMA SourceKnown == SettlementInv => SourceFacts
<1> SUFFICES ASSUME SettlementInv PROVE SourceFacts
    OBVIOUS
<1>1. ASSUME NEW k \in Attempts, sale.channel = "static_qr", attempt[k].claimed
      PROVE  Source = k
    <2>1. (CHOOSE j \in Attempts : attempt[j].claimed) \in Attempts
          /\ attempt[CHOOSE j \in Attempts : attempt[j].claimed].claimed
        BY <1>1
    <2>2. (CHOOSE j \in Attempts : attempt[j].claimed) = k
        BY <1>1, <2>1 DEF SettlementInv, PayerInv
    <2> QED
        BY <1>1, <2>2 DEF Source
<1> QED
    BY <1>1 DEF SourceFacts, Source

\* The static sale's source stays unless a claim is made.
LEMMA SourceStays ==
    ASSUME SettlementInv, SettlementInv', SourceFacts, SourceFacts',
           sale'.channel = sale.channel, sale'.transaction = sale.transaction,
           \A k \in Attempts : attempt'[k].claimed = attempt[k].claimed
    PROVE  Source' = Source
<1>1. CASE sale.channel # "static_qr"
    BY <1>1 DEF SourceFacts
<1>2. CASE sale.channel = "static_qr" /\ \A k \in Attempts : ~attempt[k].claimed
    BY <1>2 DEF SourceFacts
<1>3. ASSUME NEW k \in Attempts, sale.channel = "static_qr", attempt[k].claimed
      PROVE  Source' = Source
    BY <1>3 DEF SourceFacts
<1> QED
    BY <1>1, <1>2, <1>3

LEMMA PaySteps ==
    ASSUME SettlementInv, SettlementInv', SourceFacts, SourceFacts',
           NEW k \in Attempts, RecordPaid(k)
    PROVE  Promise!Pay(k)
<1>1. Cardinality(Paid) \in Nat
    BY PaidFinite, FS_CardinalityType
<1>2. /\ attempt' = [attempt EXCEPT ![k].paidAt = Cardinality(Paid) + 1]
      /\ sale' = sale /\ k \notin Paid
    BY DEF RecordPaid
<1>3. /\ attempt'[k].paidAt > 0
      /\ \A j \in Attempts : /\ attempt'[j].claimed = attempt[j].claimed
                             /\ attempt'[j].dup = attempt[j].dup
      /\ \A j \in Attempts \ {k} : attempt'[j].paidAt = attempt[j].paidAt
    BY <1>1, <1>2 DEF SettlementInv, TypeOK, AttemptType
<1>4. Paid' = Paid \cup {k} /\ Owed' = Owed /\ Returned' = Returned
    BY <1>3 DEF Paid, Owed, Returned
<1>5. Source' = Source
    BY <1>2, <1>3, SourceStays
<1> QED
    BY <1>2, <1>4, <1>5 DEF Promise!Pay, Returned

(* A submission claims the attempt it is paid by and writes no other column. *)
LEMMA SubmitWrites ==
    ASSUME SettlementInv, NEW k,
           attempt' = [j \in Attempts |->
                         IF j = k THEN [attempt[k] EXCEPT !.claimed = TRUE] ELSE attempt[j]]
    PROVE  /\ Paid' = Paid /\ Owed' = Owed /\ Returned' = Returned
           /\ \A j \in Attempts : j # k => attempt'[j] = attempt[j]
<1>1. ASSUME NEW j \in Attempts
      PROVE  /\ attempt'[j].paidAt = attempt[j].paidAt
             /\ attempt'[j].dup = attempt[j].dup
    <2>1. attempt[j] \in AttemptType
        BY DEF SettlementInv, TypeOK
    <2>2. attempt'[j] = IF j = k THEN [attempt[j] EXCEPT !.claimed = TRUE] ELSE attempt[j]
        OBVIOUS
    <2>3. CASE j = k
        BY <2>1, <2>2, <2>3 DEF AttemptType
    <2>4. CASE j # k
        BY <2>2, <2>4
    <2> QED
        BY <2>3, <2>4
<1>2. Paid' = Paid /\ Owed' = Owed /\ Returned' = Returned
    <2>1. Paid' = {j \in Attempts : attempt'[j].paidAt > 0}
        BY DEF Paid
    <2>2. Owed' = {j \in Attempts : attempt'[j].dup \in {"refund_required", "refunded"}}
        BY DEF Owed
    <2>3. Returned' = {j \in Attempts : attempt'[j].dup = "refunded"}
        BY DEF Returned
    <2> QED
        BY <1>1, <2>1, <2>2, <2>3 DEF Paid, Owed, Returned
<1>3. \A j \in Attempts : j # k => attempt'[j] = attempt[j]
    OBVIOUS
<1> QED
    BY <1>2, <1>3

LEMMA AcceptSteps ==
    ASSUME SettlementInv, SettlementInv', SourceFacts, SourceFacts', Submission
    PROVE  \E s \in Attempts \cup {Static} : Promise!Accept(s)
<1>1. PICK channel \in {"maybank_qr", "static_qr"}, k \in Attempts \cup {None}, manual \in BOOLEAN :
        /\ Submit(channel, k, manual)
        /\ \/ channel = "maybank_qr" /\ k \in Attempts
           \/ channel = "static_qr" /\ k = None /\ manual
    BY DEF Submission
<1>2. /\ ~sale.submitted /\ sale'.channel = channel /\ sale'.transaction = k
      /\ attempt' = [j \in Attempts |->
                       IF j = k THEN [attempt[k] EXCEPT !.claimed = TRUE] ELSE attempt[j]]
    BY <1>1 DEF Submit
<1>3. Source = None
    BY <1>2, BeforeSubmission DEF SourceFacts
<1>4. \A j \in Attempts : j # k => attempt'[j] = attempt[j]
    BY <1>2, SubmitWrites
<1>5. Paid' = Paid /\ Owed' = Owed /\ Returned' = Returned
    BY <1>2, SubmitWrites
<1>6. CASE channel = "maybank_qr" /\ k \in Attempts
    <2>1. Source' = k
        BY <1>2, <1>6 DEF SourceFacts
    <2> QED
        BY <1>3, <1>5, <1>6, <2>1 DEF Promise!Accept, Returned
<1>7. CASE channel = "static_qr" /\ k = None
    <2>1. \A j \in Attempts : ~attempt'[j].claimed
        BY <1>2, <1>4, <1>7, BeforeSubmission, SourcesAssumption
    <2>2. Source' = Static
        BY <1>2, <1>7, <2>1 DEF SourceFacts
    <2> QED
        BY <1>3, <1>5, <2>2 DEF Promise!Accept, Returned
<1> QED
    BY <1>1, <1>6, <1>7

LEMMA OweSteps ==
    ASSUME SettlementInv, SettlementInv', SourceFacts, SourceFacts', Duplicate
    PROVE  \/ \E k \in Attempts : Promise!Owe(k)
           \/ UNCHANGED Promise!vars
<1>1. PICK k \in Paid, w \in Attempts \cup {None} : RegisterDuplicate(k, w)
    BY DEF Duplicate
<1> k \in Attempts
    BY DEF Paid
<1>2. PICK accounted \in BOOLEAN :
        /\ accounted => WinnerProven(w)
        /\ attempt' = [attempt EXCEPT ![k] = [@ EXCEPT
                 !.dup = IF accounted /\ k \notin Owed THEN "refund_required"
                         ELSE IF attempt[k].dup = "none" THEN "accounting_pending"
                         ELSE attempt[k].dup,
                 !.channel = WinnerChannel,
                 !.winner = w]]
    BY <1>1 DEF RegisterDuplicate
<1>3. /\ sale' = sale /\ ~attempt[k].claimed /\ w # k
      /\ sale.channel # "static_qr" => OfSale \in {None, w}
    BY <1>1 DEF RegisterDuplicate
<1>4. WinnerChannel \in Channels /\ attempt[k].dup \in Duplicates
    BY DEF WinnerChannel, Channels, SettlementInv, TypeOK, AttemptType
<1>5. CASE accounted /\ k \notin Owed
    <2>1. attempt' = [attempt EXCEPT ![k] = [@ EXCEPT !.dup = "refund_required",
                                 !.channel = WinnerChannel, !.winner = w]]
        BY <1>2, <1>5, Zenon
    <2>2. /\ attempt'[k].dup = "refund_required"
          /\ \A j \in Attempts \ {k} : attempt'[j].dup = attempt[j].dup
          /\ \A j \in Attempts : attempt'[j].claimed = attempt[j].claimed
          /\ Paid' = Paid
        BY <1>4, <2>1, IncidentWritten DEF Duplicates
    <2>3. Owed' = Owed \cup {k} /\ Returned' = Returned
        BY <1>5, <2>2 DEF Owed, Returned
    <2>4. Source' = Source
        BY <1>3, <2>2, SourceStays
    <2>5. Source \in Paid \cup {Static} /\ Source # k
        <3>1. ProvenFor(k)'
            BY <2>3 DEF SettlementInv, OwedProven
        <3>2. CASE sale.channel # "static_qr"
            <4>1. OfSale' \in Paid' \ {k}
                BY <1>3, <3>1, <3>2 DEF ProvenFor
            <4> QED
                BY <1>3, <2>2, <3>2, <4>1 DEF OfSale, SourceFacts
        <3>3. CASE sale.channel = "static_qr" /\ \A j \in Attempts : ~attempt[j].claimed
            BY <3>3, SourcesAssumption DEF SourceFacts
        <3>4. ASSUME NEW j \in Attempts, sale.channel = "static_qr", attempt[j].claimed
              PROVE  Source \in Paid \cup {Static} /\ Source # k
            BY <1>3, <3>4 DEF SourceFacts, SettlementInv, PayerInv
        <3> QED
            BY <3>2, <3>3, <3>4
    <2> QED
        BY <1>5, <2>2, <2>3, <2>4, <2>5 DEF Promise!Owe, Returned
<1>6. CASE ~(accounted /\ k \notin Owed)
    <2> DEFINE dup == IF attempt[k].dup = "none" THEN "accounting_pending" ELSE attempt[k].dup
    <2>1. dup \in Duplicates /\ (dup # attempt[k].dup => attempt[k].dup = "none" /\ dup = "accounting_pending")
        BY <1>4 DEF Duplicates
    <2>2. attempt' = [attempt EXCEPT ![k] = [@ EXCEPT !.dup = dup,
                                 !.channel = WinnerChannel, !.winner = w]]
        BY <1>2, <1>6, Zenon
    <2>3. PICK d \in Duplicates : d = dup
        BY <2>1
    <2>4. /\ attempt'[k].dup = d
          /\ \A j \in Attempts \ {k} : attempt'[j].dup = attempt[j].dup
          /\ \A j \in Attempts : attempt'[j].claimed = attempt[j].claimed
          /\ Paid' = Paid
        <3> HIDE DEF dup
        <3> QED
            BY <1>4, <2>2, <2>3, IncidentWritten
    <2>5. Owed' = Owed /\ Returned' = Returned
        BY <2>1, <2>3, <2>4 DEF Owed, Returned
    <2>6. Source' = Source
        BY <1>3, <2>4, SourceStays
    <2> QED
        BY <2>4, <2>5, <2>6 DEF Promise!vars, Returned
<1> QED
    BY <1>5, <1>6

LEMMA ReplaceSteps ==
    ASSUME SettlementInv, SettlementInv', SourceFacts, SourceFacts', Replacement
    PROVE  \E k \in Attempts : Promise!Replace(k)
<1>1. PICK k \in Paid : SettleExistingSale(k)
    BY DEF Replacement
<1> k \in Attempts
    BY DEF Paid
<1>2. sale.channel = "static_qr" /\ sale.record = "failed"
    BY DEF Replacement
<1>3. /\ k \notin Owed
      /\ sale' = [sale EXCEPT !.record = "reconciled", !.settlement = "reconciled"]
      /\ attempt' = [attempt EXCEPT ![k] = [@ EXCEPT !.claimed = TRUE,
                                                   !.dup = "settled_existing_sale",
                                                   !.channel = "static_qr",
                                                   !.winner = None]]
    BY <1>1 DEF SettleExistingSale
<1>4. /\ attempt'[k].claimed /\ attempt'[k].dup = "settled_existing_sale"
      /\ attempt'[k].paidAt = attempt[k].paidAt
      /\ \A j \in Attempts \ {k} : attempt'[j] = attempt[j]
      /\ sale'.channel = "static_qr"
    BY <1>2, <1>3 DEF SettlementInv, TypeOK, AttemptType, SaleType
<1>5. Owed' = Owed /\ Returned' = Returned /\ Paid' = Paid
    BY <1>3, <1>4 DEF Owed, Returned, Paid
<1>6. Owed = {} /\ \A j \in Attempts : ~attempt[j].claimed
    BY <1>2 DEF SettlementInv, OwedProven, ProvenFor, PayerInv
<1>7. Source = Static /\ Source' = k
    BY <1>2, <1>4, <1>6 DEF SourceFacts
<1> QED
    BY <1>5, <1>6, <1>7 DEF Promise!Replace, Returned

LEMMA ReturnSteps ==
    ASSUME SettlementInv, SettlementInv', SourceFacts, SourceFacts',
           NEW k \in Attempts, Refund(k)
    PROVE  Promise!Return(k)
<1>1. /\ sale' = sale /\ attempt' = [attempt EXCEPT ![k].dup = "refunded"]
      /\ attempt[k].dup = "refund_required"
    BY DEF Refund
<1>2. /\ attempt'[k].dup = "refunded"
      /\ \A j \in Attempts \ {k} : attempt'[j].dup = attempt[j].dup
      /\ \A j \in Attempts : /\ attempt'[j].claimed = attempt[j].claimed
                             /\ attempt'[j].paidAt = attempt[j].paidAt
    BY <1>1 DEF SettlementInv, TypeOK, AttemptType
<1>3. /\ Owed' = Owed /\ Paid' = Paid /\ Returned' = Returned \cup {k}
      /\ k \in Owed \ Returned
    BY <1>1, <1>2 DEF Owed, Returned, Paid
<1>4. Source' = Source
    BY <1>1, <1>2, SourceStays
<1> QED
    BY <1>3, <1>4 DEF Promise!Return, Returned

\* Everything else is a stutter of the promise.
LEMMA SilentSteps ==
    ASSUME SettlementInv, SettlementInv', SourceFacts, SourceFacts',
           sale'.channel = sale.channel, sale'.transaction = sale.transaction,
           \A k \in Attempts : /\ attempt'[k].claimed = attempt[k].claimed
                              /\ attempt'[k].paidAt = attempt[k].paidAt
                              /\ \/ attempt'[k].dup = attempt[k].dup
                                 \/ /\ attempt[k].dup \notin {"refund_required", "refunded"}
                                    /\ attempt'[k].dup \notin {"refund_required", "refunded"}
    PROVE  UNCHANGED Promise!vars
<1>1. Paid' = Paid /\ Owed' = Owed /\ Returned' = Returned
    BY DEF Paid, Owed, Returned
<1>2. Source' = Source
    BY SourceStays
<1> QED
    BY <1>1, <1>2 DEF Promise!vars, Returned

LEMMA PromiseStep ==
    ASSUME SettlementInv, SettlementInv', SourceFacts, SourceFacts', [Next]_vars
    PROVE  [Promise!Next]_(Promise!vars)
<1>1. ASSUME NEW k \in Attempts, MarkPossibleDuplicate(k) PROVE UNCHANGED Promise!vars
    <2>1. /\ sale' = sale /\ attempt[k].dup \in {"none", "possible_duplicate"}
          /\ attempt' = [attempt EXCEPT ![k] = [@ EXCEPT !.dup = "possible_duplicate",
                                                      !.channel = "static_qr"]]
        BY <1>1 DEF MarkPossibleDuplicate
    <2>2. /\ attempt'[k].dup = "possible_duplicate"
          /\ \A j \in Attempts \ {k} : attempt'[j].dup = attempt[j].dup
          /\ \A j \in Attempts : /\ attempt'[j].claimed = attempt[j].claimed
                                 /\ attempt'[j].paidAt = attempt[j].paidAt
        BY <2>1 DEF SettlementInv, TypeOK, AttemptType
    <2> QED
        BY <2>1, <2>2, SilentSteps
<1>3. CASE RetryInvoice \/ SupersedeManual \/ MarkReconciled \/ MarkFailed
    <2>1. /\ attempt' = attempt /\ sale'.channel = sale.channel
          /\ sale'.transaction = sale.transaction
        BY <1>3 DEF RetryInvoice, SupersedeManual, MarkReconciled, MarkFailed, SettlementInv,
                    TypeOK, SaleType
    <2> QED
        BY <2>1, SilentSteps
<1>4. CASE UNCHANGED <<sale, attempt>> \/ UNCHANGED vars
    BY <1>4, SilentSteps DEF vars
<1> QED
    BY <1>1, <1>3, <1>4, Steps, PaySteps, AcceptSteps, OweSteps, ReplaceSteps, ReturnSteps
    DEF Promise!Next

(* Whatever order payments, confirmations and bank answers come in, the      *)
(* services keep the promise of OneSale.                                     *)
THEOREM PromiseKept == Spec => SoldOnce
<1>1. Init => Promise!Init
    BY DEF Init, Promise!Init, Paid, Owed, Source
<1>3. SettlementInv /\ SettlementInv' /\ SourceFacts /\ SourceFacts' /\ [Next]_vars
        => [Promise!Next]_(Promise!vars)
    BY PromiseStep
<1> QED
    BY <1>1, <1>3, SourceKnown, SettlementsHold, PTL DEF Spec, SoldOnce, Promise!Spec
=============================================================================
