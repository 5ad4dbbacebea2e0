---------------------------- MODULE MaybankAttempts ----------------------------
(***************************************************************************)
(* The provider attempts of one prepared Automatic QR sale.                *)
(*                                                                         *)
(* A till prepares an FB Order, then asks ERP for a Maybank QR under an    *)
(* idempotency key.  ERP writes a Maybank QR Transaction row ("attempt")   *)
(* in status creating, commits, calls Maybank without a lock, and records  *)
(* what came back in a second transaction.  Request workers, the poll      *)
(* jobs, the till's own status reads and a System Manager resolving stuck  *)
(* attempts all write the same rows; the FB Order row and the attempt rows *)
(* are locked FOR UPDATE, so a database transaction is one action here and *)
(* everything between two transactions can be interleaved.                 *)
(*                                                                         *)
(* Clocks are left out: a guard that compares times (display expiry plus   *)
(* grace, 15 minutes before an abandonment, 24 hours before a cancellation)*)
(* may be open whenever its other conditions hold.                         *)
(***************************************************************************)
EXTENDS Naturals, FiniteSets

CONSTANTS
    Keys,       \* idempotency keys the till may use for this sale
    Workers,    \* ERP request workers
    Slots,      \* concurrent status reads (poll jobs, the till's own, support's)
    UnpaidReports, \* statuses Maybank may report of a QR nobody paid
    MaxIssued,  \* MAX_PROVIDER_ISSUED_ATTEMPTS_PER_SALE
    None        \* no key

ASSUME UnpaidReportsAssumption ==
    UnpaidReports \subseteq {"pending", "scanned", "failed", "timeout"}
ASSUME NoneAssumption == None \notin Keys
ASSUME MaxIssuedAssumption == MaxIssued \in Nat \ {0}

VARIABLES
    order,       \* the FB Order: docstatus, status, automatic_qr_state, winner
    row,         \* the Maybank QR Transaction of each key
    worker,      \* what each request worker is doing
    probe,       \* the status read in flight in each slot
    bank,        \* what Maybank knows of the key's QR: nothing, unpaid, paid
    calls,       \* how often Maybank was asked to generate a QR for the key
    shown,       \* keys whose QR payload was returned for display
    discarded    \* the till was told to discard the prepared sale

vars == <<order, row, worker, probe, bank, calls, shown, discarded>>

Reusable == {"pending", "scanned"}
ProviderStatuses == {"pending", "scanned", "paid", "failed", "timeout"}
RowStatuses == ProviderStatuses \cup {"none", "creating", "unknown"}
OrderStates == {"prepared", "provider_pending", "provider_ambiguous",
                "provider_rejected", "finalized"}

(* The raw_response column, as far as the code reads it back as a release: a  *)
(* provider payload or a late-result incident is "none".                     *)
Evidence == {"none", "preflight", "absent", "cancelled"}

NoRow == [status |-> "none", known |-> FALSE, qr |-> FALSE,
          evidence |-> "none", replaces |-> None, earlier |-> {}]

Idle == [pc |-> "idle", key |-> None, result |-> "none"]
NoProbe == [kind |-> "idle", key |-> None, seen |-> "none"]

-----------------------------------------------------------------------------
(* Reading an attempt.                                                       *)

(* Mutant: a provider timeout taken for a final answer. *)
TransitionsTimeoutFinal ==
    [s \in RowStatuses |->
        CASE s \in {"creating", "unknown"} -> ProviderStatuses
          [] s = "pending" -> {"scanned", "paid", "failed", "timeout"}
          [] s = "scanned" -> {"paid", "failed", "timeout"}
          [] OTHER -> {}]

Transitions ==
    [s \in RowStatuses |->
        CASE s \in {"creating", "unknown"} -> ProviderStatuses
          [] s = "pending" -> {"scanned", "paid", "failed", "timeout"}
          [] s = "scanned" -> {"paid", "failed", "timeout"}
          [] s \in {"failed", "timeout"} -> {"paid"}
          [] OTHER -> {}]

Attempts == {k \in Keys : row[k].status # "none"}

PreflightRejected(k) ==
    /\ row[k].status = "failed"
    /\ ~row[k].known
    /\ row[k].evidence = "preflight"

ReleasedAbsent(k)    == row[k].status = "unknown" /\ row[k].evidence = "absent"
ReleasedCancelled(k) == row[k].status = "timeout" /\ row[k].evidence = "cancelled"

DurablyReleased(k) ==
    PreflightRejected(k) \/ ReleasedAbsent(k) \/ ReleasedCancelled(k)

Issued(k) == row[k].status # "none" /\ row[k].known

Pollable(k) ==
    /\ row[k].status \in {"pending", "scanned", "failed", "timeout", "unknown"}
    /\ row[k].known
    /\ ~DurablyReleased(k)

(* Rows are read ORDER BY creation: the last issued one has every other      *)
(* issued attempt among its elders.                                          *)
LatestIssued(k) == Issued(k) /\ \A j \in Keys : Issued(j) => j \in row[k].earlier \cup {k}

-----------------------------------------------------------------------------
OrderType == [docstatus : {0, 1},
              status    : {"Draft", "Cancelled", "Submitted"},
              state     : OrderStates,
              winner    : {"none", "maybank_qr", "static_qr"}]

RowType == [status   : RowStatuses,
            known    : BOOLEAN,
            qr       : BOOLEAN,
            evidence : Evidence,
            replaces : Keys \cup {None},
            earlier  : SUBSET Keys]

WorkerType == [pc     : {"idle", "reserved", "answered"},
               key    : Keys \cup {None},
               result : {"none", "qr", "noqr", "mismatch", "error"}]

ProbeType == [kind : {"idle", "poll", "found"},
              key  : Keys \cup {None},
              seen : ProviderStatuses \cup {"none"}]

TypeOK ==
    /\ order \in OrderType
    /\ row \in [Keys -> RowType]
    /\ worker \in [Workers -> WorkerType]
    /\ \A w \in Workers : worker[w].pc # "idle" => worker[w].key \in Keys
    /\ probe \in [Slots -> ProbeType]
    /\ bank \in [Keys -> {"none", "unpaid", "paid"}]
    /\ calls \in [Keys -> Nat]
    /\ shown \in SUBSET Keys
    /\ discarded \in BOOLEAN

(* A sale just prepared by the till: a draft order, no attempt. *)
Init ==
    /\ order = [docstatus |-> 0, status |-> "Draft", state |-> "prepared",
                winner |-> "none"]
    /\ row = [k \in Keys |-> NoRow]
    /\ worker = [w \in Workers |-> Idle]
    /\ probe = [s \in Slots |-> NoProbe]
    /\ bank = [k \in Keys |-> "none"]
    /\ calls = [k \in Keys |-> 0]
    /\ shown = {}
    /\ discarded = FALSE

-----------------------------------------------------------------------------
(* generate_maybank_qr: the transaction before the provider call.            *)

(* Mutant: attempts whose reference is not known yet do not block. *)
NewGenerationAllowedOverUnknown ==
    /\ order.status # "Cancelled"
    /\ order.docstatus = 0
    /\ \A j \in Attempts : DurablyReleased(j) \/ ~row[j].known

(* Mutant: the cancelled status of the order is not looked at. *)
NewGenerationAllowedOnCancelled ==
    /\ order.docstatus = 0
    /\ \A j \in Attempts : DurablyReleased(j)
    /\ order.state # "finalized"

(* _validate_new_generation_attempt, a request that replaces nothing. *)
NewGenerationAllowed ==
    /\ order.status # "Cancelled"
    /\ order.docstatus = 0
    /\ IF Attempts = {}
       THEN order.state = "prepared"
       ELSE /\ \A j \in Attempts : DurablyReleased(j)
            /\ order.state # "finalized"

(* Mutant: the maximum counted one too far. *)
ReplacementAllowedOnceMore(t) ==
    /\ order.status # "Cancelled"
    /\ order.docstatus = 0
    /\ \A j \in Attempts : row[j].status \notin {"creating", "scanned", "paid", "unknown"}
    /\ LatestIssued(t)
    /\ Cardinality({j \in Keys : Issued(j)}) <= MaxIssued
    /\ row[t].status \in {"pending", "failed", "timeout"}

(* validate_maybank_qr_display_replacement, target the QR of attempt t. *)
ReplacementAllowed(t) ==
    /\ order.status # "Cancelled"
    /\ order.docstatus = 0
    /\ \A j \in Attempts : row[j].status \notin {"creating", "scanned", "paid", "unknown"}
    /\ LatestIssued(t)
    /\ Cardinality({j \in Keys : Issued(j)}) < MaxIssued
    /\ row[t].status \in {"pending", "failed", "timeout"}

GenerationAllowed(t) ==
    IF t = None THEN NewGenerationAllowed ELSE ReplacementAllowed(t)

(* The requests answered by a durable no-provider fence: a replacement the   *)
(* validation turned down, a new generation after a static QR has won, or an *)
(* admitted one whose provider configuration or rate limit is not ready.     *)
FenceAllowed(t) ==
    \/ t # None
    \/ order.docstatus = 1 /\ order.winner = "static_qr" /\ order.state = "finalized"
    \/ NewGenerationAllowed

InsertRow(k, t, status, evidence) ==
    row' = [row EXCEPT ![k] = [NoRow EXCEPT !.status   = status,
                                            !.evidence = evidence,
                                            !.replaces = t,
                                            !.earlier  = Attempts]]

(* The reservation is committed, with the order's provider_pending state,    *)
(* before Maybank is called.                                                 *)
ReserveGeneration(w, k, t) ==
    /\ worker[w].pc = "idle"
    /\ row[k].status = "none"
    /\ GenerationAllowed(t)
    /\ InsertRow(k, t, "creating", "none")
    /\ order' = [order EXCEPT !.state = "provider_pending"]
    /\ worker' = [worker EXCEPT ![w] = [Idle EXCEPT !.pc = "reserved", !.key = k]]
    /\ UNCHANGED <<probe, bank, calls, shown, discarded>>

(* _register_preflight_rejection_fence *)
RegisterPreflightRejection(w, k, t) ==
    /\ worker[w].pc = "idle"
    /\ row[k].status = "none"
    /\ FenceAllowed(t)
    /\ InsertRow(k, t, "failed", "preflight")
    /\ order' = IF t = None /\ order.docstatus = 0
                THEN [order EXCEPT !.state = "provider_rejected"]
                ELSE order
    /\ UNCHANGED <<worker, probe, bank, calls, shown, discarded>>

(* _resolve_existing_txn for a retried key: the only replay that changes what *)
(* the till sees is a QR still within its display time.                      *)
ReplayAttempt(w, k) ==
    /\ worker[w].pc = "idle"
    /\ row[k].status \in Reusable
    /\ row[k].known /\ row[k].qr
    /\ shown' = shown \cup {k}
    /\ UNCHANGED <<order, row, worker, probe, bank, calls, discarded>>

-----------------------------------------------------------------------------
(* The provider call, made without any lock.                                 *)

(* Mutant: a call without an answer is made again. *)
CallProviderRetried(w) ==
    LET k == worker[w].key IN
    /\ worker[w].pc = "reserved"
    /\ calls' = [calls EXCEPT ![k] = @ + 1]
    /\ calls[k] < 2
    /\ \E result \in {"qr", "error"} :
          /\ worker' = [worker EXCEPT ![w].pc = IF result = "error" THEN @ ELSE "answered",
                                      ![w].result = result]
          /\ bank' = [bank EXCEPT ![k] = "unpaid"]
    /\ UNCHANGED <<order, row, probe, shown, discarded>>

(* Maybank answers with a QR, with a reference but no usable QR, with a      *)
(* reference whose amount or outlet does not match, or not at all; in the    *)
(* last case it may or may not have created the transaction.                 *)
CallProvider(w) ==
    LET k == worker[w].key IN
    /\ worker[w].pc = "reserved"
    /\ calls' = [calls EXCEPT ![k] = @ + 1]
    /\ \E result \in {"qr", "noqr", "mismatch", "error"} :
          /\ worker' = [worker EXCEPT ![w] = [@ EXCEPT !.pc = "answered", !.result = result]]
          /\ IF result = "error"
             THEN bank' \in {bank, [bank EXCEPT ![k] = "unpaid"]}
             ELSE bank' = [bank EXCEPT ![k] = "unpaid"]
    /\ UNCHANGED <<order, row, probe, shown, discarded>>

(* The worker dies, or its connection does: its reservation stays. *)
WorkerCrash(w) ==
    /\ worker[w].pc # "idle"
    /\ worker' = [worker EXCEPT ![w] = Idle]
    /\ UNCHANGED <<order, row, probe, bank, calls, shown, discarded>>

(* The customer pays a QR Maybank created, whatever ERP knows of it. *)
CustomerPays(k) ==
    /\ bank[k] = "unpaid"
    /\ bank' = [bank EXCEPT ![k] = "paid"]
    /\ UNCHANGED <<order, row, worker, probe, calls, shown, discarded>>

-----------------------------------------------------------------------------
(* generate_maybank_qr: the transaction after the provider call.             *)

Answered(w, results) == worker[w].pc = "answered" /\ worker[w].result \in results

Release(w) == worker' = [worker EXCEPT ![w] = Idle]

(* Mutant: a submitted order is not looked at. *)
SetProviderStateAlways(state) == order' = [order EXCEPT !.state = state]

(* _set_provider_state_for_unsubmitted_order *)
SetProviderState(state) ==
    order' = IF order.docstatus = 0 /\ order.winner # "static_qr"
             THEN [order EXCEPT !.state = state]
             ELSE order

(* Mutant: the release is left in place. *)
LateResultStillReleased(k, qr) ==
    [row EXCEPT ![k] = [@ EXCEPT !.known = TRUE, !.qr = qr]]

(* _record_late_provider_result_after_release *)
LateResult(k, qr) ==
    [row EXCEPT ![k] = [@ EXCEPT !.known = TRUE, !.qr = qr, !.evidence = "none"]]

KnownResult(k, qr) ==
    [row EXCEPT ![k] = [@ EXCEPT !.known = TRUE, !.qr = qr,
                                 !.status = "pending", !.evidence = "none"]]

(* _finalize_reserved_generation, where it does not throw. *)
FinalizeReservedGeneration(w) ==
    LET k == worker[w].key
        qr == worker[w].result = "qr"
    IN
    /\ Answered(w, {"qr", "noqr"})
    /\ \/ /\ row[k].known /\ row[k].status \in Reusable \cup {"paid"}
          /\ row' = row
          /\ shown' = IF row[k].status \in Reusable /\ row[k].qr
                      THEN shown \cup {k} ELSE shown
       \/ /\ ReleasedAbsent(k)
          /\ row' = LateResult(k, qr)
          /\ shown' = shown
       \/ /\ row[k].status = "creating" /\ ~row[k].known
          /\ row' = KnownResult(k, qr)
          /\ shown' = IF qr THEN shown \cup {k} ELSE shown
    /\ Release(w)
    /\ UNCHANGED <<order, probe, bank, calls, discarded>>

(* _recover_known_provider_result, after the finalization failed or threw    *)
(* and was rolled back; the request itself still fails, so nothing is shown. *)
RecoverKnownProviderResult(w) ==
    LET k == worker[w].key
        qr == worker[w].result = "qr"
    IN
    /\ Answered(w, {"qr", "noqr"})
    /\ row' = CASE ~row[k].known /\ ReleasedAbsent(k) -> LateResult(k, qr)
                [] ~row[k].known /\ row[k].status = "creating" ->
                     KnownResult(k, qr)
                [] OTHER -> row
    /\ Release(w)
    /\ UNCHANGED <<order, probe, bank, calls, shown, discarded>>

(* _mark_generation_ambiguous: no answer leaves the reservation creating; a  *)
(* mismatched answer keeps its reference under the unknown status.           *)
MarkGenerationAmbiguous(w) ==
    LET k == worker[w].key IN
    /\ Answered(w, {"mismatch", "error"})
    /\ \/ /\ row[k].status = "creating"
          /\ \/ /\ worker[w].result = "mismatch"
                /\ \E qr \in BOOLEAN :
                      row' = [row EXCEPT ![k] = [@ EXCEPT !.known = TRUE, !.qr = qr,
                                             !.status = "unknown", !.evidence = "none"]]
             \/ worker[w].result = "error" /\ row' = row
          /\ SetProviderState("provider_ambiguous")
       \/ row[k].status # "creating" /\ UNCHANGED <<row, order>>
    /\ Release(w)
    /\ UNCHANGED <<probe, bank, calls, shown, discarded>>

-----------------------------------------------------------------------------
(* Status reads: the provider is asked first, the row is locked afterwards.  *)

BankReports(k) ==
    IF bank[k] = "unpaid" THEN UnpaidReports
    ELSE IF bank[k] = "paid" THEN {"paid"} ELSE {}

StartPoll(s, k) ==
    /\ probe[s].kind = "idle"
    /\ Pollable(k)
    /\ probe' = [probe EXCEPT ![s] = [NoProbe EXCEPT !.kind = "poll", !.key = k]]
    /\ UNCHANGED <<order, row, worker, bank, calls, shown, discarded>>

BankAnswers(s) ==
    /\ probe[s].kind # "idle"
    /\ probe[s].seen = "none"
    /\ \E seen \in BankReports(probe[s].key) : probe' = [probe EXCEPT ![s].seen = seen]
    /\ UNCHANGED <<order, row, worker, bank, calls, shown, discarded>>

(* The provider call fails, or the job dies before it writes. *)
LoseProbe(s) ==
    /\ probe[s].kind # "idle"
    /\ probe' = [probe EXCEPT ![s] = NoProbe]
    /\ UNCHANGED <<order, row, worker, bank, calls, shown, discarded>>

(* Mutant: any report is written. *)
AdmissibleAlways(k, seen) == seen # "none"

Admissible(k, seen) == seen = row[k].status \/ seen \in Transitions[row[k].status]

(* Mutant: a poll may answer for support. *)
ApplyPollOverFence(s) ==
    LET k == probe[s].key
        seen == probe[s].seen
    IN
    /\ probe[s].kind = "poll" /\ seen # "none"
    /\ row' = IF Admissible(k, seen)
              THEN [row EXCEPT ![k] = [@ EXCEPT !.status = seen, !.evidence = "none"]]
              ELSE row
    /\ probe' = [probe EXCEPT ![s] = NoProbe]
    /\ UNCHANGED <<order, worker, bank, calls, shown, discarded>>

(* _apply_provider_poll_result, _transition_txn_status_locked: unknown with a *)
(* reference and inadmissible statuses are only counted as observations.     *)
ApplyProviderPollResult(s) ==
    LET k == probe[s].key
        seen == probe[s].seen
    IN
    /\ probe[s].kind = "poll" /\ seen # "none"
    /\ row' = IF row[k].status # "unknown" /\ Admissible(k, seen)
              THEN [row EXCEPT ![k] = [@ EXCEPT !.status = seen, !.evidence = "none"]]
              ELSE row
    /\ probe' = [probe EXCEPT ![s] = NoProbe]
    /\ UNCHANGED <<order, worker, bank, calls, shown, discarded>>

-----------------------------------------------------------------------------
(* resolve_maybank_qr_generation: a System Manager, row lock only.           *)

(* provider_transaction_found reads the row and asks Maybank before locking. *)
StartFound(s, k) ==
    /\ probe[s].kind = "idle"
    /\ row[k].status \in {"creating", "unknown"} \cup Reusable
    /\ probe' = [probe EXCEPT ![s] = [NoProbe EXCEPT !.kind = "found", !.key = k]]
    /\ UNCHANGED <<order, row, worker, bank, calls, shown, discarded>>

(* _resolve_generation_with_provider_reference under the lock; qr_data is    *)
(* not known to support and stays what it was.                               *)
ApplyFound(s) ==
    LET k == probe[s].key
        seen == probe[s].seen
    IN
    /\ probe[s].kind = "found" /\ seen # "none"
    /\ row' = IF row[k].status # "paid" /\ Admissible(k, seen)
              THEN [row EXCEPT ![k] = [@ EXCEPT !.known = TRUE, !.status = seen,
                                                !.evidence = "none"]]
              ELSE row
    /\ probe' = [probe EXCEPT ![s] = NoProbe]
    /\ UNCHANGED <<order, worker, bank, calls, shown, discarded>>

(* _abandon_ambiguous_generation: provider_transaction_absent. *)
AbandonAmbiguousGeneration(k) ==
    /\ row[k].status = "creating" /\ ~row[k].known
    /\ row' = [row EXCEPT ![k] = [@ EXCEPT !.status = "unknown", !.evidence = "absent"]]
    /\ UNCHANGED <<order, worker, probe, bank, calls, shown, discarded>>

(* _close_expired_reconciliation: provider_transaction_cancelled. *)
CloseExpiredReconciliation(k) ==
    /\ row[k].known /\ row[k].status \in Reusable
    /\ row' = [row EXCEPT ![k] = [@ EXCEPT !.status = "timeout", !.evidence = "cancelled"]]
    /\ UNCHANGED <<order, worker, probe, bank, calls, shown, discarded>>

-----------------------------------------------------------------------------
(* The sale around the attempts.                                             *)

(* cancel_prepared_automatic_qr_sale, the first call and its replay. *)
CancelPreparedSale ==
    /\ \A j \in Attempts : PreflightRejected(j) /\ row[j].replaces = None
    /\ order.docstatus = 0
    /\ \/ order.status = "Cancelled" /\ order.state = "provider_rejected"
       \/ /\ order.status = "Draft"
          /\ order.state = IF Attempts = {} THEN "prepared" ELSE "provider_rejected"
    /\ order' = [order EXCEPT !.status = "Cancelled", !.state = "provider_rejected"]
    /\ discarded' = TRUE
    /\ UNCHANGED <<row, worker, probe, bank, calls, shown>>

Submit(winner) ==
    order' = [docstatus |-> 1, status |-> "Submitted", state |-> "finalized",
              winner |-> winner]

(* confirm_prepared_static_qr_payment on a draft, reduced to its effect on    *)
(* the order: QrSettlement has the handler.                                  *)
ConfirmStaticQr ==
    /\ order.docstatus = 0
    /\ \A j \in Attempts : row[j].status = "paid" => row[j].known /\ row[j].qr
    /\ Submit("static_qr")
    /\ UNCHANGED <<row, worker, probe, bank, calls, shown, discarded>>

(* finalize_paid_automatic_qr_sale on a draft, reduced in the same way. *)
FinalizePaidSale ==
    /\ order.docstatus = 0
    /\ \E k \in Attempts : row[k].status = "paid" /\ row[k].qr
    /\ Submit("maybank_qr")
    /\ UNCHANGED <<row, worker, probe, bank, calls, shown, discarded>>

-----------------------------------------------------------------------------
Request(w) ==
    \/ \E k \in Keys :
          \/ \E t \in (Keys \ {k}) \cup {None} :
                ReserveGeneration(w, k, t) \/ RegisterPreflightRejection(w, k, t)
          \/ ReplayAttempt(w, k)
    \/ CallProvider(w)
    \/ WorkerCrash(w)
    \/ FinalizeReservedGeneration(w)
    \/ RecoverKnownProviderResult(w)
    \/ MarkGenerationAmbiguous(w)

Observe(s) ==
    \/ \E k \in Keys : StartPoll(s, k) \/ StartFound(s, k)
    \/ BankAnswers(s)
    \/ LoseProbe(s)
    \/ ApplyProviderPollResult(s)
    \/ ApplyFound(s)

Next ==
    \/ \E w \in Workers : Request(w)
    \/ \E s \in Slots : Observe(s)
    \/ \E k \in Keys :
          \/ CustomerPays(k)
          \/ AbandonAmbiguousGeneration(k)
          \/ CloseExpiredReconciliation(k)
    \/ CancelPreparedSale
    \/ ConfirmStaticQr
    \/ FinalizePaidSale

Spec == Init /\ [][Next]_vars

(* The scheduler starts a poll of every pollable attempt again and again and *)
(* every read ends, answered or not, because the HTTP client and the job     *)
(* queue time out.  Maybank and the database do not fail every one of them:  *)
(* of the polls of a key started without end, some are answered and written. *)
PollFairness ==
    /\ \A s \in Slots :
          WF_vars(LoseProbe(s) \/ ApplyProviderPollResult(s) \/ ApplyFound(s))
    /\ \A k \in Keys :
          /\ SF_vars(\E s \in Slots : StartPoll(s, k))
          /\ SF_vars(\E s \in Slots : probe[s].kind = "poll" /\ probe[s].key = k /\ BankAnswers(s))
          /\ SF_vars(\E s \in Slots : probe[s].key = k /\ ApplyProviderPollResult(s))

FairSpec == Spec /\ PollFairness

-----------------------------------------------------------------------------
(* Safety.                                                                   *)

(* Maybank's generation request has no idempotency key of its own, so the    *)
(* same till request, retried, raced by another worker or cut short by a     *)
(* crash, never reaches Maybank twice.                                       *)
OneProviderCallPerKey == \A k \in Keys : calls[k] <= 1

(* The order lock and the checks made under it let at most one reservation   *)
(* of the sale be waiting for Maybank's answer.                              *)
OneOpenReservation ==
    \A j, k \in Keys : row[j].status = "creating" /\ row[k].status = "creating" => j = k

(* A displayed QR has at most one successor that may reach Maybank, and a    *)
(* sale at most MaxIssued - 1 of them, even when answers are lost, arrive    *)
(* late, or are found by support.                                            *)
Successors(t) == {k \in Keys : row[k].replaces = t /\ ~PreflightRejected(k)}
ReplacementsBounded ==
    /\ \A t \in Keys : \A j, k \in Successors(t) : j = k
    /\ Cardinality({t \in Keys : Successors(t) # {}}) < MaxIssued

(* A QR that was ever put in front of a customer stays under its provider    *)
(* reference in a status from which a payment is still recorded: no late     *)
(* answer, abandonment or stale poll may drop it.                            *)
DisplayedQrStaysPayable ==
    \A k \in shown : row[k].known /\ row[k].qr /\ row[k].status \in ProviderStatuses

(* Once the till is told to discard the prepared sale, Maybank has not been  *)
(* and will not be asked for a QR for it, in particular not by a delayed     *)
(* generation request.                                                       *)
DiscardedSaleNeverContacted ==
    discarded =>
        /\ \A k \in Keys : calls[k] = 0
        /\ \A w \in Workers : worker[w].pc # "reserved"

(* A submitted sale stays finalized: a worker answering late, or a request   *)
(* fenced after the sale, never moves its provider state back.               *)
SubmittedSaleStaysFinalized == order.docstatus = 1 => order.state = "finalized"

(* An attempt released as never created hides no provider reference: the     *)
(* answer to a call that outlived the abandonment takes the release back.    *)
AbsenceHidesNoReference == \A k \in Keys : ReleasedAbsent(k) => ~row[k].known

(* Provider-paid truth is final.                                             *)
PaidIsFinal ==
    [][\A k \in Keys : row[k].status = "paid" => row'[k].status = "paid" /\ row'[k].known]_vars

(* An attempt fenced with a provider reference under the unknown status is   *)
(* left to support: neither poll nor late answer makes it payable or         *)
(* displayable again.                                                        *)
FencedUntilSupport ==
    [][\A k \in Keys :
          row[k].status = "unknown" /\ row[k].known /\ row'[k].status # "unknown"
              => \E s \in Slots : ApplyFound(s)]_vars

(* A payment Maybank has taken for an attempt ERP polls is recorded, unless  *)
(* support has closed the attempt as cancelled or has its evidence to        *)
(* reconcile.                                                                *)
PaymentIsRecorded ==
    \A k \in Keys :
        bank[k] = "paid" /\ Pollable(k) /\ row[k].status # "unknown"
            ~> row[k].status = "paid" \/ ReleasedCancelled(k)
=============================================================================
