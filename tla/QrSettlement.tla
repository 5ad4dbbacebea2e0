----------------------------- MODULE QrSettlement -----------------------------
(***************************************************************************)
(* From provider-paid attempts to a settled sale.                          *)
(*                                                                         *)
(* Several QRs may have been issued for one prepared sale, and the cashier *)
(* may also confirm it against a static QR or by hand.  The finalization   *)
(* jobs, the recovery sweep, the till's own submissions, the projection    *)
(* retry and the back office (bank reconciliation, refunds) write the same *)
(* FB Order, its payment row and the attempts; each takes the order or the *)
(* record lock first, so one database transaction is one action.           *)
(*                                                                         *)
(* A transaction that throws is rolled back and is no step here.  Journals *)
(* are kept as account balances in units of the sale's amount.             *)
(***************************************************************************)
EXTENDS Integers, FiniteSets

CONSTANTS
    Attempts,     \* Maybank QR Transactions issued for the sale
    Undisplayed,  \* those with a provider reference but no QR payload
    Static,       \* the static QR, as a source of payment
    None          \* no attempt

ASSUME AttemptsAssumption == IsFiniteSet(Attempts) /\ Undisplayed \subseteq Attempts
ASSUME SourcesAssumption == Static \notin Attempts /\ None \notin Attempts /\ Static # None

VARIABLES
    sale,      \* the FB Order, its payment row and the record behind it
    attempt,   \* the settlement columns of each Maybank QR Transaction
    ledger,    \* balances of suspense, failure variance, bank and liability
    claim,     \* finance_resolution_status of the static claim after a Maybank winner
    later      \* paid attempts the finalizing worker has still to register

vars == <<sale, attempt, ledger, claim, later>>

Dispositions == {"none", "pending", "reconciled", "failed"}
Duplicates == {"none", "possible_duplicate", "accounting_pending",
               "refund_required", "refunded", "settled_existing_sale"}
Channels == {"none", "maybank_qr", "static_qr"}

(* record is the status of what stands behind a manual settlement: the       *)
(* winning Manual QR Reconciliation, or the claimed attempt's manual status; *)
(* failure tells whether it has a failure journal entry.                     *)
SaleType == [submitted   : BOOLEAN,
             channel     : Channels,
             transaction : Attempts \cup {None},
             manual      : BOOLEAN,
             settlement  : Dispositions \cup {"verified"},
             record      : Dispositions,
             failure     : BOOLEAN,
             invoice     : BOOLEAN]

(* claimed is the consumption key; the invoice key follows with the invoice. *)
AttemptType == [paidAt  : Nat,
                claimed : BOOLEAN,
                dup     : Duplicates,
                channel : Channels,
                winner  : Attempts \cup {None}]

ClaimTypes == {"none", "pending_review", "no_second_credit", "refund_required", "refunded"}

LedgerType == [suspense : Int, variance : Int, bank : Int, liability : Int]

TypeOK ==
    /\ sale \in SaleType
    /\ attempt \in [Attempts -> AttemptType]
    /\ ledger \in LedgerType
    /\ claim \in ClaimTypes
    /\ later \in SUBSET Attempts

Init ==
    /\ sale = [submitted |-> FALSE, channel |-> "none", transaction |-> None,
               manual |-> FALSE, settlement |-> "none", record |-> "none",
               failure |-> FALSE, invoice |-> FALSE]
    /\ attempt = [k \in Attempts |-> [paidAt |-> 0, claimed |-> FALSE, dup |-> "none",
                                      channel |-> "none", winner |-> None]]
    /\ ledger = [suspense |-> 0, variance |-> 0, bank |-> 0, liability |-> 0]
    /\ claim = "none"
    /\ later = {}

-----------------------------------------------------------------------------
Paid == {k \in Attempts : attempt[k].paidAt > 0}

(* ORDER BY COALESCE(paid_at, creation) *)
Earliest(S, k) == k \in S /\ \A j \in S : attempt[k].paidAt <= attempt[j].paidAt

Owed == {k \in Attempts : attempt[k].dup \in {"refund_required", "refunded"}}

OfSale == sale.transaction

-----------------------------------------------------------------------------
(* Journals.                                                                 *)

(* The Sales Invoice debits suspense for a manual settlement, else the bank. *)
PostInvoice(manual, books) ==
    IF manual THEN [books EXCEPT !.suspense = @ + 1] ELSE [books EXCEPT !.bank = @ + 1]

(* mutant: a failure already posted is forgotten *)
PostReclassificationFromSuspense(books) ==
    [books EXCEPT !.bank = @ + 1, !.suspense = @ - 1]

(* ensure_qr_suspense_reclassification: a failure already posted is undone    *)
(* in the variance account, not taken from suspense a second time.           *)
PostReclassification(books) ==
    IF sale.failure
    THEN [books EXCEPT !.bank = @ + 1, !.variance = @ - 1]
    ELSE [books EXCEPT !.bank = @ + 1, !.suspense = @ - 1]

PostFailure(books) == [books EXCEPT !.variance = @ + 1, !.suspense = @ - 1]
PostLiability(books) == [books EXCEPT !.bank = @ + 1, !.liability = @ + 1]
PostRefund(books) == [books EXCEPT !.bank = @ - 1, !.liability = @ - 1]

-----------------------------------------------------------------------------
(* A poll records the provider's payment (paid_at is the time of recording). *)
RecordPaid(k) ==
    /\ k \notin Paid
    /\ attempt' = [attempt EXCEPT ![k].paidAt = Cardinality(Paid) + 1]
    /\ UNCHANGED <<sale, ledger, claim, later>>

-----------------------------------------------------------------------------
(* Submission of the prepared order, once.  before_submit claims the attempt *)
(* or creates the static reconciliation; on_submit posts the invoice or      *)
(* leaves it to the projection retry.                                        *)

(* mutant: a submitted order is submitted again *)
SubmitAgain(channel, k, manual) ==
    \E invoice \in BOOLEAN :
        /\ sale' = [submitted   |-> TRUE,
                    channel     |-> channel,
                    transaction |-> k,
                    manual      |-> manual,
                    settlement  |-> IF manual THEN "pending" ELSE "verified",
                    record      |-> IF manual THEN "pending" ELSE "none",
                    failure     |-> FALSE,
                    invoice     |-> invoice]
        /\ attempt' = [j \in Attempts |->
                         IF j = k THEN [attempt[k] EXCEPT !.claimed = TRUE] ELSE attempt[j]]
        /\ ledger' = IF invoice THEN PostInvoice(manual, ledger) ELSE ledger

Submit(channel, k, manual) ==
    \E invoice \in BOOLEAN :
        /\ ~sale.submitted
        /\ sale' = [submitted   |-> TRUE,
                    channel     |-> channel,
                    transaction |-> k,
                    manual      |-> manual,
                    settlement  |-> IF manual THEN "pending" ELSE "verified",
                    record      |-> IF manual THEN "pending" ELSE "none",
                    failure     |-> FALSE,
                    invoice     |-> invoice]
        /\ attempt' = [j \in Attempts |->
                         IF j = k THEN [attempt[k] EXCEPT !.claimed = TRUE] ELSE attempt[j]]
        /\ ledger' = IF invoice THEN PostInvoice(manual, ledger) ELSE ledger

(* create_sales_invoice again, from the failed projection. *)
RetryInvoice ==
    /\ sale.submitted /\ ~sale.invoice
    /\ sale' = [sale EXCEPT !.invoice = TRUE]
    /\ ledger' = PostInvoice(sale.manual, ledger)
    /\ UNCHANGED <<attempt, claim, later>>

(* _finalize_prepared_automatic_qr_order: the till submits with the attempt  *)
(* of its choice, paid or on the cashier's evidence.  The attempt is read    *)
(* before it is locked, so one just paid may still be taken as manual.       *)
SubmitFromTill(k, manual) ==
    /\ k \notin Undisplayed
    /\ manual \/ k \in Paid
    /\ Submit("maybank_qr", k, manual)
    /\ UNCHANGED <<claim, later>>

(* confirm_prepared_static_qr_payment on a draft. *)
ConfirmStatic ==
    /\ Paid \cap Undisplayed = {}
    /\ Submit("static_qr", None, TRUE)
    /\ later' = Paid
    /\ UNCHANGED claim

-----------------------------------------------------------------------------
(* Payments the sale does not need.                                          *)

(* mutant: the winner need not be paid *)
WinnerClaimed(w) ==
    /\ sale.submitted /\ sale.invoice
    /\ sale.channel # "static_qr" => attempt[w].claimed

(* register_duplicate_paid_incident posts the liability only once the sale   *)
(* has its invoice and its winner is proven.                                 *)
WinnerProven(w) ==
    /\ sale.submitted /\ sale.invoice
    /\ sale.channel # "static_qr" => w \in Paid /\ attempt[w].claimed

WinnerChannel == IF sale.channel = "static_qr" THEN "static_qr" ELSE "maybank_qr"

RegisterDuplicate(k, w) ==
    /\ ~attempt[k].claimed
    /\ w # k
    /\ sale.channel # "static_qr" => OfSale \in {None, w}
    /\ attempt[k].dup # "settled_existing_sale"
    /\ attempt[k].winner \in {None, w}
    /\ attempt[k].channel \in {"none", WinnerChannel}
    /\ \E accounted \in BOOLEAN :
          /\ accounted => WinnerProven(w)
          /\ attempt' = [attempt EXCEPT ![k] = [@ EXCEPT
                 !.dup = IF accounted /\ k \notin Owed THEN "refund_required"
                         ELSE IF attempt[k].dup = "none" THEN "accounting_pending"
                         ELSE attempt[k].dup,
                 !.channel = WinnerChannel,
                 !.winner = w]]
          /\ ledger' = IF accounted /\ k \notin Owed THEN PostLiability(ledger) ELSE ledger
    /\ UNCHANGED sale

(* _mark_possible_duplicate *)
MarkPossibleDuplicate(k) ==
    /\ attempt[k].dup \in {"none", "possible_duplicate"}
    /\ attempt[k].channel \in {"none", "static_qr"}
    /\ attempt[k].winner = None
    /\ attempt' = [attempt EXCEPT ![k] = [@ EXCEPT !.dup = "possible_duplicate",
                                                   !.channel = "static_qr"]]
    /\ UNCHANGED <<sale, ledger>>

(* _settle_existing_sale_after_failed_static *)
SettleExistingSale(k) ==
    /\ k \notin Owed
    /\ sale' = [sale EXCEPT !.record = "reconciled", !.settlement = "reconciled"]
    /\ attempt' = [attempt EXCEPT ![k] = [@ EXCEPT !.claimed = TRUE,
                                                   !.dup = "settled_existing_sale",
                                                   !.channel = "static_qr",
                                                   !.winner = None]]
    /\ ledger' = PostReclassification(ledger)

(* mutant: a liability is posted while the static payment is being checked *)
ResolveLatePaidEarly(k) ==
    /\ sale.invoice
    /\ ~attempt[k].claimed
    /\ \/ sale.record \in {"pending", "reconciled"} /\ RegisterDuplicate(k, None)
       \/ /\ sale.record = "failed"
          /\ IF Earliest({j \in Paid : ~attempt[j].claimed}, k)
             THEN SettleExistingSale(k)
             ELSE MarkPossibleDuplicate(k)

(* mutant: a payment late for a failed static QR stays a possible duplicate *)
ResolveLatePaidNever(k) ==
    /\ sale.invoice
    /\ ~attempt[k].claimed
    /\ \/ sale.record \in {"pending", "failed"} /\ MarkPossibleDuplicate(k)
       \/ sale.record = "reconciled" /\ RegisterDuplicate(k, None)

(* resolve_late_paid_after_static_winner *)
ResolveLatePaid(k) ==
    /\ sale.invoice
    /\ ~attempt[k].claimed
    /\ \/ sale.record = "pending" /\ MarkPossibleDuplicate(k)
       \/ sale.record = "reconciled" /\ RegisterDuplicate(k, None)
       \/ /\ sale.record = "failed"
          /\ IF Earliest({j \in Paid : ~attempt[j].claimed}, k)
             THEN SettleExistingSale(k)
             ELSE MarkPossibleDuplicate(k)

RegisterIncident(k) ==
    IF sale.channel = "static_qr" THEN ResolveLatePaid(k) ELSE RegisterDuplicate(k, OfSale)

(* The finalizing worker, after committing the sale: one transaction for     *)
(* each other paid attempt, which may fail.                                  *)
RegisterLater(k) ==
    /\ k \in later
    /\ RegisterIncident(k) \/ UNCHANGED <<sale, attempt, ledger>>
    /\ later' = later \ {k}
    /\ UNCHANGED claim

WorkerDies == later # {} /\ later' = {} /\ UNCHANGED <<sale, attempt, ledger, claim>>

-----------------------------------------------------------------------------
(* finalize_paid_automatic_qr_sale, queued by the poll and by the sweep.     *)

(* _reconcile_provider_paid_manual_settlement: provider truth replaces the   *)
(* manual result; the journal may have to wait.                              *)
SupersedeManual ==
    /\ sale.manual
    /\ sale.record # "reconciled"
    /\ \/ /\ sale.invoice
          /\ sale' = [sale EXCEPT !.record = "reconciled", !.settlement = "reconciled"]
          /\ ledger' = PostReclassification(ledger)
       \/ /\ sale' = [sale EXCEPT !.record = "pending", !.settlement = "pending"]
          /\ UNCHANGED ledger
    /\ UNCHANGED attempt

FinalizeDraft(k) ==
    \E w \in Attempts \ Undisplayed :
        /\ Earliest(Paid, w)
        /\ IF w = k
           THEN Submit("maybank_qr", k, FALSE) /\ later' = Paid \ {k}
           ELSE RegisterDuplicate(k, w) /\ UNCHANGED later

FinalizeSubmitted(k) ==
    /\ IF sale.channel = "maybank_qr" /\ OfSale = k
       THEN SupersedeManual
       ELSE RegisterIncident(k)
    /\ UNCHANGED later

FinalizePaidSale(k) ==
    /\ k \in Paid \ Undisplayed
    /\ IF sale.submitted THEN FinalizeSubmitted(k) ELSE FinalizeDraft(k)
    /\ UNCHANGED claim

(* mutant: the sweep looks at submitted orders only *)
InIncidentLane(k) ==
    /\ k \in Paid
    /\ \/ /\ sale.submitted /\ ~attempt[k].claimed
          /\ attempt[k].dup \in {"none", "possible_duplicate", "accounting_pending"}
       \/ /\ attempt[k].claimed /\ OfSale = k
          /\ sale.record \in {"pending", "failed"}

(* The paid attempts recover_paid_automatic_qr_sales selects. *)
InRecoveryLane(k) ==
    /\ k \in Paid
    /\ \/ ~sale.submitted
       \/ /\ ~attempt[k].claimed
          /\ attempt[k].dup \in {"none", "possible_duplicate", "accounting_pending"}
       \/ /\ attempt[k].claimed /\ OfSale = k
          /\ sale.record \in {"pending", "failed"}

Recover(k) == InRecoveryLane(k) /\ FinalizePaidSale(k)

-----------------------------------------------------------------------------
(* The back office.                                                          *)

(* mark_manual_qr_reconciled *)
MarkReconciled ==
    /\ sale.record = "pending" /\ sale.invoice
    /\ sale' = [sale EXCEPT !.record = "reconciled", !.settlement = "reconciled"]
    /\ ledger' = PostReclassification(ledger)
    /\ UNCHANGED <<attempt, claim, later>>

(* mutant: the bank statement overrules the provider *)
MarkFailedOverProvider ==
    /\ sale.record = "pending" /\ sale.invoice
    /\ sale' = [sale EXCEPT !.record = "failed", !.settlement = "failed", !.failure = TRUE]
    /\ ledger' = PostFailure(ledger)
    /\ UNCHANGED <<attempt, claim, later>>

(* mark_manual_qr_reconciliation_failed *)
MarkFailed ==
    /\ sale.record = "pending" /\ sale.invoice
    /\ OfSale \notin Paid
    /\ sale' = [sale EXCEPT !.record = "failed", !.settlement = "failed", !.failure = TRUE]
    /\ ledger' = PostFailure(ledger)
    /\ UNCHANGED <<attempt, claim, later>>

(* resolve_duplicate_paid_refund *)
Refund(k) ==
    /\ attempt[k].dup = "refund_required"
    /\ ~attempt[k].claimed
    /\ attempt[k].winner = OfSale
    /\ WinnerProven(OfSale)
    /\ attempt' = [attempt EXCEPT ![k].dup = "refunded"]
    /\ ledger' = PostRefund(ledger)
    /\ UNCHANGED <<sale, claim, later>>

-----------------------------------------------------------------------------
(* A static QR confirmed after Maybank has won: a credit that finance has to *)
(* prove or rule out before anything is posted for it.                       *)

(* confirm_prepared_static_qr_payment on a submitted sale: the claim is kept *)
(* beside the winner, of which it must find the full evidence.  A sale has   *)
(* one claim; the same one sent again is answered only.                      *)
RegisterClaim ==
    /\ claim = "none"
    /\ sale.channel = "maybank_qr" /\ sale.settlement = "verified"
    /\ WinnerProven(OfSale)
    /\ Paid \cap Undisplayed = {}
    /\ claim' = "pending_review"
    /\ UNCHANGED <<sale, attempt, ledger, later>>

(* resolve_secondary_static_claim: what is said of the winner is proven      *)
(* again for every decision.                                                 *)
ClaimIdentity == sale.channel = "maybank_qr" /\ ~sale.manual /\ WinnerProven(OfSale)

ConfirmNoSecondCredit ==
    /\ claim = "pending_review" /\ ClaimIdentity
    /\ claim' = "no_second_credit"
    /\ UNCHANGED <<sale, attempt, ledger, later>>

ConfirmSecondCreditAgain ==
    /\ claim \in {"pending_review", "refund_required"} /\ ClaimIdentity
    /\ claim' = "refund_required"
    /\ ledger' = PostLiability(ledger)
    /\ UNCHANGED <<sale, attempt, later>>

ConfirmSecondCredit ==
    /\ claim = "pending_review" /\ ClaimIdentity
    /\ claim' = "refund_required"
    /\ ledger' = PostLiability(ledger)
    /\ UNCHANGED <<sale, attempt, later>>

RecordClaimRefund ==
    /\ claim = "refund_required" /\ ClaimIdentity
    /\ claim' = "refunded"
    /\ ledger' = PostRefund(ledger)
    /\ UNCHANGED <<sale, attempt, later>>

-----------------------------------------------------------------------------
Next ==
    \/ \E k \in Attempts :
          \/ RecordPaid(k)
          \/ \E manual \in BOOLEAN : SubmitFromTill(k, manual)
          \/ FinalizePaidSale(k)
          \/ RegisterLater(k)
          \/ Refund(k)
    \/ ConfirmStatic
    \/ WorkerDies
    \/ RetryInvoice
    \/ MarkReconciled
    \/ MarkFailed
    \/ RegisterClaim
    \/ ConfirmNoSecondCredit \/ ConfirmSecondCredit \/ RecordClaimRefund

Spec == Init /\ [][Next]_vars

(* The sweep runs every scheduler tick and tries every candidate again; the  *)
(* projection retry posts the invoice; the back office answers every pending *)
(* reconciliation and the accounts it needs get configured.                  *)
Fairness ==
    /\ \A k \in Attempts : WF_vars(Recover(k))
    /\ WF_vars(RetryInvoice)
    /\ WF_vars(MarkReconciled \/ MarkFailed)

FairSpec == Spec /\ Fairness
-----------------------------------------------------------------------------
(* Safety.                                                                   *)

Balance(condition) == IF condition THEN 1 ELSE 0

(* Whatever order the confirmations and answers came in, the accounts show   *)
(* the sale's amount once: in suspense while a manual confirmation is being  *)
(* checked, in the variance account once it failed, in the bank once it is   *)
(* proven; a failed check that turns out paid is not taken from suspense a   *)
(* second time; and each unreturned liability, for a duplicate attempt or    *)
(* for a second static credit, is covered by bank money.                     *)
BooksMatchSettlement ==
    /\ sale.manual => sale.record = sale.settlement
    /\ ledger.suspense = Balance(sale.invoice /\ sale.settlement = "pending" /\ ~sale.failure)
    /\ ledger.variance = Balance(sale.failure /\ sale.settlement # "reconciled")
    /\ ledger.liability = Cardinality({k \in Attempts : attempt[k].dup = "refund_required"})
                          + Balance(claim = "refund_required")
    /\ ledger.bank = ledger.liability
                     + Balance(sale.invoice /\ sale.settlement \in {"verified", "reconciled"})

(* One attempt at most pays for the sale, and it is never also owed back:    *)
(* the till, the jobs, the sweep and the static confirmation race for it.    *)
OneAttemptPays ==
    \A j, k \in Attempts :
        attempt[j].claimed /\ attempt[k].claimed => j = k /\ k \notin Owed

(* No money is promised back before something else is proven to have paid:   *)
(* the static receipt found in the bank, or another attempt the provider     *)
(* reported paid; a cashier's word is not enough.  A static credit is taken  *)
(* for a second one only beside an attempt that is paid and invoiced.        *)
LiabilityNeedsProvenSale ==
    /\ \A k \in Owed :
          /\ sale.invoice
          /\ IF sale.channel = "static_qr"
             THEN sale.record = "reconciled"
             ELSE OfSale \in Paid \ {k} /\ attempt[OfSale].claimed
    /\ claim # "none" => sale.channel = "maybank_qr" /\ sale.invoice /\ OfSale \in Paid

(* The provider's word is monotone: a settlement proven never becomes        *)
(* unproven, and once the sale's attempt is paid no back-office answer makes *)
(* its confirmation fail.                                                    *)
ProviderTruthKept ==
    [][/\ sale.settlement \in {"verified", "reconciled"}
            => sale'.settlement = sale.settlement
       /\ OfSale \in Paid /\ sale.record # "failed" => sale'.record # "failed"]_vars

(* The services keep the promise of OneSale: the static QR stops being what  *)
(* paid for the sale only while no attempt has been promised back.           *)
Source ==
    IF sale.channel # "static_qr" THEN sale.transaction
    ELSE IF \E k \in Attempts : attempt[k].claimed
         THEN CHOOSE k \in Attempts : attempt[k].claimed
         ELSE Static

Promise == INSTANCE OneSale WITH
    paid <- Paid,
    source <- Source,
    owed <- Owed,
    returned <- {k \in Attempts : attempt[k].dup = "refunded"}

SoldOnce == Promise!Spec

-----------------------------------------------------------------------------
(* Liveness.                                                                 *)

Disposed(k) == attempt[k].claimed \/ k \in Owed

(* A payment the provider reported is turned into a sale even if the till    *)
(* never comes back, unless one that was never displayed is paid as well.    *)
PaidSaleIsSubmitted ==
    \A k \in Attempts : k \in Paid ~> sale.submitted \/ Paid \cap Undisplayed # {}

(* The incidents recorded so far name what the sale was accepted on.         *)
IncidentsAgree ==
    \A k \in Attempts : attempt[k].dup # "none" =>
        attempt[k].channel = WinnerChannel /\ attempt[k].winner = OfSale

(* Every payment ends up paying for the sale or owed to the customer once    *)
(* the sale rests on a static receipt or a paid attempt, provided no         *)
(* incident was recorded against another winner first and no attempt that    *)
(* was never displayed is paid.                                              *)
PaymentIsDisposed ==
    \A k \in Attempts :
        /\ sale.submitted /\ k \in Paid
        /\ sale.channel = "static_qr" \/ OfSale \in Paid
        /\ IncidentsAgree
        ~> Disposed(k) \/ Paid \cap Undisplayed # {}
=============================================================================
