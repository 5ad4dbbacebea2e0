------------------------ MODULE MaybankAttemptsProofs -------------------------
(***************************************************************************)
(* Theorems about MaybankAttempts, for every number of keys, request       *)
(* workers and concurrent status reads.                                    *)
(***************************************************************************)
EXTENDS MaybankAttempts, TLAPS, FiniteSetTheorems

-----------------------------------------------------------------------------
(* Typed records stay typed when their fields are written. *)

LEMMA IdleTyped == Idle \in WorkerType /\ NoProbe \in ProbeType
BY DEF Idle, WorkerType, NoProbe, ProbeType

(* A request worker that lets go of its attempt leaves the others alone. *)
LEMMA WorkerReleased ==
    ASSUME TypeOK, NEW w \in Workers, worker' = [worker EXCEPT ![w] = Idle]
    PROVE  /\ worker' \in [Workers -> WorkerType]
           /\ \A v \in Workers : worker'[v].pc # "idle" => worker'[v].key \in Keys
           /\ worker'[w] = Idle /\ worker'[w].pc = "idle"
           /\ \A v \in Workers \ {w} : worker'[v] = worker[v]
<1>1. Idle.pc = "idle"
    BY DEF Idle
<1> QED
    BY <1>1, IdleTyped DEF TypeOK

LEMMA RowWritten ==
    ASSUME NEW r \in RowType, NEW s \in RowStatuses, NEW e \in Evidence, NEW b \in BOOLEAN,
           NEW c \in BOOLEAN
    PROVE  /\ [r EXCEPT !.status = s, !.evidence = e] \in RowType
           /\ [r EXCEPT !.known = b, !.qr = c, !.evidence = e] \in RowType
           /\ [r EXCEPT !.known = b, !.qr = c, !.status = s, !.evidence = e] \in RowType
           /\ [r EXCEPT !.known = b, !.status = s, !.evidence = e] \in RowType
BY DEF RowType

LEMMA RowFields ==
    ASSUME NEW r \in RowType, NEW s, NEW e, NEW c
    PROVE  /\ [r EXCEPT !.status = s, !.evidence = e].status = s
           /\ [r EXCEPT !.status = s, !.evidence = e].known = r.known
           /\ [r EXCEPT !.known = TRUE, !.qr = c, !.evidence = e].status = r.status
           /\ [r EXCEPT !.known = TRUE, !.qr = c, !.evidence = e].known = TRUE
           /\ [r EXCEPT !.known = TRUE, !.qr = c, !.status = s, !.evidence = e].status = s
           /\ [r EXCEPT !.known = TRUE, !.qr = c, !.status = s, !.evidence = e].known = TRUE
BY DEF RowType

LEMMA OrderWritten ==
    ASSUME NEW o \in OrderType, NEW s \in OrderStates
    PROVE  /\ [o EXCEPT !.state = s] \in OrderType
           /\ [o EXCEPT !.status = "Cancelled", !.state = s] \in OrderType
BY DEF OrderType

(* What InsertRow writes for a key without a row. *)
LEMMA InsertRowTyped ==
    ASSUME row \in [Keys -> RowType], NEW k \in Keys, NEW t \in Keys \cup {None},
           NEW status \in RowStatuses, NEW evidence \in Evidence,
           InsertRow(k, t, status, evidence)
    PROVE  row' \in [Keys -> RowType]
<1> DEFINE r == [NoRow EXCEPT !.status = status, !.evidence = evidence,
                              !.replaces = t, !.earlier = Attempts]
<1>1. r \in RowType
    BY DEF NoRow, RowType, Attempts
<1> QED
    BY <1>1 DEF InsertRow

-----------------------------------------------------------------------------
(* Every variable keeps its type. *)

LEMMA TypeOKInit == Init => TypeOK
<1> SUFFICES ASSUME Init PROVE TypeOK
    OBVIOUS
<1>1. NoRow \in RowType
    BY DEF NoRow, RowType, RowStatuses, Evidence
<1>2. order \in OrderType
    BY DEF Init, OrderType, OrderStates
<1>3. Idle.pc = "idle"
    BY DEF Idle
<1> QED
    BY <1>1, <1>2, <1>3, IdleTyped DEF Init, TypeOK

LEMMA TypeOKStep == TypeOK /\ [Next]_vars => TypeOK'
<1> SUFFICES ASSUME TypeOK, [Next]_vars PROVE TypeOK'
    OBVIOUS
<1> USE DEF TypeOK
<1>a. /\ {"creating", "failed", "pending", "unknown", "timeout"} \subseteq RowStatuses
      /\ {"none", "preflight", "absent", "cancelled"} \subseteq Evidence
      /\ {"provider_pending", "provider_rejected", "provider_ambiguous"} \subseteq OrderStates
      /\ ProviderStatuses \subseteq RowStatuses
    BY DEF RowStatuses, ProviderStatuses, Evidence, OrderStates
<1>1. ASSUME NEW w \in Workers, NEW k \in Keys, NEW t \in (Keys \ {k}) \cup {None},
             ReserveGeneration(w, k, t)
      PROVE TypeOK'
    <2>1. row' \in [Keys -> RowType]
        BY <1>1, <1>a, InsertRowTyped DEF ReserveGeneration
    <2>2. /\ [Idle EXCEPT !.pc = "reserved", !.key = k] \in WorkerType
          /\ [Idle EXCEPT !.pc = "reserved", !.key = k].key = k
        BY DEF Idle, WorkerType
    <2>3. order' \in OrderType
        BY <1>1, <1>a, OrderWritten DEF ReserveGeneration
    <2>4. /\ worker' \in [Workers -> WorkerType]
          /\ \A v \in Workers : worker'[v].pc # "idle" => worker'[v].key \in Keys
        BY <1>1, <2>2 DEF ReserveGeneration
    <2> QED
        BY <1>1, <2>1, <2>3, <2>4 DEF ReserveGeneration
<1>2. ASSUME NEW w \in Workers, NEW k \in Keys, NEW t \in (Keys \ {k}) \cup {None},
             RegisterPreflightRejection(w, k, t)
      PROVE TypeOK'
    <2>1. row' \in [Keys -> RowType]
        BY <1>2, <1>a, InsertRowTyped DEF RegisterPreflightRejection
    <2> QED
        BY <1>2, <1>a, <2>1, OrderWritten DEF RegisterPreflightRejection
<1>3. ASSUME NEW w \in Workers, NEW k \in Keys, ReplayAttempt(w, k) PROVE TypeOK'
    BY <1>3 DEF ReplayAttempt
<1>4. ASSUME NEW w \in Workers, CallProvider(w) PROVE TypeOK'
    <2>1. \A result \in {"qr", "noqr", "mismatch", "error"} :
             LET v == [worker[w] EXCEPT !.pc = "answered", !.result = result] IN
             v \in WorkerType /\ v.key = worker[w].key
        BY DEF WorkerType
    <2>2. /\ worker' \in [Workers -> WorkerType]
          /\ \A v \in Workers : worker'[v].key = worker[v].key
          /\ \A v \in Workers \ {w} : worker'[v] = worker[v]
        BY <1>4, <2>1 DEF CallProvider
    <2>3. bank' \in [Keys -> {"none", "unpaid", "paid"}]
        BY <1>4 DEF CallProvider
    <2>4. calls' \in [Keys -> Nat]
        BY <1>4 DEF CallProvider
    <2> QED
        BY <1>4, <2>2, <2>3, <2>4 DEF CallProvider
<1>5. ASSUME NEW w \in Workers, WorkerCrash(w) PROVE TypeOK'
    BY <1>5, WorkerReleased DEF WorkerCrash
<1>6. ASSUME NEW w \in Workers, FinalizeReservedGeneration(w) PROVE TypeOK'
    <2> DEFINE k == worker[w].key
               qr == worker[w].result = "qr"
    <2>0. k \in Keys /\ qr \in BOOLEAN
        BY <1>6 DEF FinalizeReservedGeneration, Answered
    <2>a. LateResult(k, qr) \in [Keys -> RowType] /\ KnownResult(k, qr) \in [Keys -> RowType]
        BY <1>a, <2>0, RowWritten DEF LateResult, KnownResult
    <2>1. row' \in [Keys -> RowType]
        BY <1>6, <2>a DEF FinalizeReservedGeneration
    <2>2. shown' \in SUBSET Keys
        BY <1>6 DEF FinalizeReservedGeneration, Answered
    <2> QED
        BY <1>6, <2>1, <2>2, WorkerReleased DEF FinalizeReservedGeneration, Release
<1>7. ASSUME NEW w \in Workers, RecoverKnownProviderResult(w) PROVE TypeOK'
    <2> DEFINE k == worker[w].key
               qr == worker[w].result = "qr"
    <2>0. k \in Keys /\ qr \in BOOLEAN
        BY <1>7 DEF RecoverKnownProviderResult, Answered
    <2>a. LateResult(k, qr) \in [Keys -> RowType] /\ KnownResult(k, qr) \in [Keys -> RowType]
        BY <1>a, <2>0, RowWritten DEF LateResult, KnownResult
    <2>1. row' \in [Keys -> RowType]
        BY <1>7, <2>a DEF RecoverKnownProviderResult
    <2> QED
        BY <1>7, <2>1, WorkerReleased DEF RecoverKnownProviderResult, Release
<1>8. ASSUME NEW w \in Workers, MarkGenerationAmbiguous(w) PROVE TypeOK'
    <2> DEFINE k == worker[w].key
    <2>0. k \in Keys
        BY <1>8 DEF MarkGenerationAmbiguous, Answered
    <2>a. \A qr \in BOOLEAN :
             [row[k] EXCEPT !.known = TRUE, !.qr = qr, !.status = "unknown",
                            !.evidence = "none"] \in RowType
        BY <1>a, <2>0, RowWritten
    <2>1. row' \in [Keys -> RowType]
        BY <1>8, <2>0, <2>a DEF MarkGenerationAmbiguous
    <2>b. [order EXCEPT !.state = "provider_ambiguous"] \in OrderType
        BY <1>a, OrderWritten
    <2>2. order' \in OrderType
        BY <1>8, <2>b DEF MarkGenerationAmbiguous, SetProviderState
    <2> QED
        BY <1>8, <2>1, <2>2, WorkerReleased DEF MarkGenerationAmbiguous, Release
<1>9. ASSUME NEW s \in Slots, NEW k \in Keys, StartPoll(s, k) \/ StartFound(s, k)
      PROVE TypeOK'
    <2>1. \A kind \in {"poll", "found"} :
             [NoProbe EXCEPT !.kind = kind, !.key = k] \in ProbeType
        BY DEF NoProbe, ProbeType
    <2> QED
        BY <1>9, <2>1 DEF StartPoll, StartFound
<1>11. ASSUME NEW s \in Slots, BankAnswers(s) PROVE TypeOK'
    <2>1. BankReports(probe[s].key) \subseteq ProviderStatuses
        BY UnpaidReportsAssumption DEF BankReports, ProviderStatuses
    <2>2. \A seen \in ProviderStatuses : [probe[s] EXCEPT !.seen = seen] \in ProbeType
        BY DEF ProbeType
    <2>3. probe' \in [Slots -> ProbeType]
        BY <1>11, <2>1, <2>2 DEF BankAnswers
    <2> QED
        BY <1>11, <2>3 DEF BankAnswers
<1>12. ASSUME NEW s \in Slots, LoseProbe(s) PROVE TypeOK'
    BY <1>12, IdleTyped DEF LoseProbe
<1>13. ASSUME NEW s \in Slots, ApplyProviderPollResult(s) PROVE TypeOK'
    <2>1. probe[s].seen # "none" => probe[s].seen \in RowStatuses
        BY <1>a DEF ProbeType
    <2>2. row' \in [Keys -> RowType]
        BY <1>13, <1>a, <2>1, RowWritten DEF ApplyProviderPollResult
    <2> QED
        BY <1>13, <2>2, IdleTyped DEF ApplyProviderPollResult
<1>14. ASSUME NEW s \in Slots, ApplyFound(s) PROVE TypeOK'
    <2>1. probe[s].seen # "none" => probe[s].seen \in RowStatuses
        BY <1>a DEF ProbeType
    <2>2. row' \in [Keys -> RowType]
        BY <1>14, <1>a, <2>1, RowWritten DEF ApplyFound
    <2> QED
        BY <1>14, <2>2, IdleTyped DEF ApplyFound
<1>15. ASSUME NEW k \in Keys, CustomerPays(k) PROVE TypeOK'
    BY <1>15 DEF CustomerPays
<1>16. ASSUME NEW k \in Keys, AbandonAmbiguousGeneration(k) PROVE TypeOK'
    BY <1>16, <1>a, RowWritten DEF AbandonAmbiguousGeneration
<1>17. ASSUME NEW k \in Keys, CloseExpiredReconciliation(k) PROVE TypeOK'
    BY <1>17, <1>a, RowWritten DEF CloseExpiredReconciliation
<1>18. CASE CancelPreparedSale
    BY <1>18, <1>a, OrderWritten DEF CancelPreparedSale
<1>19. CASE ConfirmStaticQr \/ FinalizePaidSale
    <2>1. order' \in OrderType
        BY <1>19 DEF ConfirmStaticQr, FinalizePaidSale, Submit, OrderType, OrderStates
    <2> QED
        BY <1>19, <2>1 DEF ConfirmStaticQr, FinalizePaidSale
<1>21. CASE UNCHANGED vars
    BY <1>21 DEF vars
<1> QED
    BY <1>1, <1>2, <1>3, <1>4, <1>5, <1>6, <1>7, <1>8, <1>9, <1>11, <1>12,
       <1>13, <1>14, <1>15, <1>16, <1>17, <1>18, <1>19, <1>21
    DEF Next, Request, Observe

(* Every variable keeps its type. *)
THEOREM TypeCorrect == Spec => []TypeOK
BY TypeOKInit, TypeOKStep, PTL DEF Spec

-----------------------------------------------------------------------------
(* Safety.  The invariants support one another: what the workers owe         *)
(* Maybank (CallsAccounted) bounds the calls; the fence of a discarded sale  *)
(* and the single open reservation rest on it.                               *)

(* The accounting of provider calls that makes OneProviderCallPerKey          *)
(* inductive: a worker owes or has made the one call of a live attempt.      *)
CallsAccounted ==
    /\ \A w \in Workers :
          worker[w].pc # "idle" =>
              row[worker[w].key].status # "none" /\ row[worker[w].key].evidence # "preflight"
    /\ \A w \in Workers : worker[w].pc = "reserved" => calls[worker[w].key] = 0
    /\ \A v, w \in Workers :
          worker[v].pc = "reserved" /\ worker[w].pc # "idle" /\ worker[v].key = worker[w].key
              => v = w
    /\ \A k \in Keys :
          row[k].status = "none" \/ row[k].evidence = "preflight" => calls[k] = 0

(* A discarded sale can admit no further generation. *)
DiscardIsFenced == discarded => order.status = "Cancelled" \/ order.docstatus = 1

SafetyInv ==
    /\ TypeOK
    /\ CallsAccounted
    /\ OneProviderCallPerKey
    /\ OneOpenReservation
    /\ AbsenceHidesNoReference
    /\ DiscardIsFenced
    /\ DiscardedSaleNeverContacted
    /\ SubmittedSaleStaysFinalized
    /\ DisplayedQrStaysPayable

Inserts ==
    \E w \in Workers, k \in Keys : \E t \in (Keys \ {k}) \cup {None} :
        ReserveGeneration(w, k, t) \/ RegisterPreflightRejection(w, k, t)

(* What no step but an insertion does to an attempt: create it, fence it     *)
(* before Maybank, reopen it, hide a reference behind its absence, or take a *)
(* displayable one out of the provider statuses.                             *)
AttemptsKept ==
    \A k \in Keys :
        /\ row'[k].status = "none" => row[k].status = "none"
        /\ row'[k].evidence = "preflight" => row[k].evidence = "preflight"
        /\ row'[k].status = "creating" => row[k].status = "creating"
        /\ row'[k].status = "unknown" /\ row'[k].evidence = "absent" /\ row'[k].known
              => row[k].status = "unknown" /\ row[k].evidence = "absent" /\ row[k].known
        /\ row[k].known /\ row[k].qr /\ row[k].status \in ProviderStatuses
              => row'[k].known /\ row'[k].qr /\ row'[k].status \in ProviderStatuses

LEMMA RowStep ==
    ASSUME TypeOK, [Next]_vars, ~Inserts
    PROVE  AttemptsKept
<1> USE DEF AttemptsKept, TypeOK
<1>u. ASSUME row' = row PROVE AttemptsKept
    BY <1>u
<1>l. ASSUME NEW k \in Keys, NEW qr \in BOOLEAN, ReleasedAbsent(k), row' = LateResult(k, qr)
      PROVE AttemptsKept
    <2>1. /\ row'[k].status = "unknown" /\ row'[k].evidence = "none"
          /\ row[k].status = "unknown"
          /\ \A j \in Keys \ {k} : row'[j] = row[j]
        BY <1>l DEF LateResult, ReleasedAbsent, RowType
    <2> QED
        BY <2>1 DEF ProviderStatuses
<1>k. ASSUME NEW k \in Keys, NEW qr \in BOOLEAN, row[k].status = "creating",
             row' = KnownResult(k, qr)
      PROVE AttemptsKept
    <2>1. /\ row'[k].status = "pending" /\ row'[k].evidence = "none"
          /\ \A j \in Keys \ {k} : row'[j] = row[j]
        BY <1>k DEF KnownResult, RowType
    <2> QED
        BY <1>k, <2>1 DEF ProviderStatuses
<1>6. ASSUME NEW w \in Workers, FinalizeReservedGeneration(w) PROVE AttemptsKept
    <2> DEFINE k == worker[w].key
               qr == worker[w].result = "qr"
    <2>0. k \in Keys /\ qr \in BOOLEAN
        BY <1>6 DEF FinalizeReservedGeneration, Answered
    <2> QED
        BY <1>6, <2>0, <1>u, <1>l, <1>k DEF FinalizeReservedGeneration
<1>7. ASSUME NEW w \in Workers, RecoverKnownProviderResult(w) PROVE AttemptsKept
    <2> DEFINE k == worker[w].key
               qr == worker[w].result = "qr"
    <2>0. k \in Keys /\ qr \in BOOLEAN
        BY <1>7 DEF RecoverKnownProviderResult, Answered
    <2>1. \/ row' = row
          \/ ReleasedAbsent(k) /\ row' = LateResult(k, qr)
          \/ row[k].status = "creating" /\ row' = KnownResult(k, qr)
        BY <1>7 DEF RecoverKnownProviderResult
    <2> QED
        BY <2>0, <2>1, <1>u, <1>l, <1>k
<1>8. ASSUME NEW w \in Workers, MarkGenerationAmbiguous(w) PROVE AttemptsKept
    <2> DEFINE k == worker[w].key
    <2>0. k \in Keys
        BY <1>8 DEF MarkGenerationAmbiguous, Answered
    <2>1. ASSUME NEW qr \in BOOLEAN, row[k].status = "creating",
                 row' = [row EXCEPT ![k] = [@ EXCEPT !.known = TRUE, !.qr = qr,
                                             !.status = "unknown", !.evidence = "none"]]
          PROVE AttemptsKept
        <3>1. /\ row'[k].status = "unknown" /\ row'[k].evidence = "none"
              /\ \A j \in Keys \ {k} : row'[j] = row[j]
            BY <2>0, <2>1 DEF RowType
        <3> QED
            BY <2>1, <3>1 DEF ProviderStatuses
    <2>2. \/ row' = row
          \/ /\ row[k].status = "creating"
             /\ \E qr \in BOOLEAN :
                   row' = [row EXCEPT ![k] = [@ EXCEPT !.known = TRUE, !.qr = qr,
                                              !.status = "unknown", !.evidence = "none"]]
        BY <1>8, Zenon DEF MarkGenerationAmbiguous
    <2> HIDE DEF k
    <2> QED
        BY <2>1, <2>2, <1>u, Zenon
<1>13. ASSUME NEW s \in Slots, ApplyProviderPollResult(s) PROVE AttemptsKept
    BY <1>13 DEF ApplyProviderPollResult, ProbeType, ProviderStatuses, RowType
<1>14. ASSUME NEW s \in Slots, ApplyFound(s) PROVE AttemptsKept
    BY <1>14 DEF ApplyFound, ProbeType, ProviderStatuses, RowType
<1>16. ASSUME NEW k \in Keys, AbandonAmbiguousGeneration(k) PROVE AttemptsKept
    BY <1>16 DEF AbandonAmbiguousGeneration, ProviderStatuses, RowType
<1>17. ASSUME NEW k \in Keys, CloseExpiredReconciliation(k) PROVE AttemptsKept
    BY <1>17 DEF CloseExpiredReconciliation, ProviderStatuses, RowType
<1>o. \/ \E w \in Workers : \/ \E k \in Keys : ReplayAttempt(w, k)
                             \/ CallProvider(w) \/ WorkerCrash(w)
      \/ \E s \in Slots : \/ \E k \in Keys : StartPoll(s, k) \/ StartFound(s, k)
                           \/ BankAnswers(s) \/ LoseProbe(s)
      \/ \E k \in Keys : CustomerPays(k)
      \/ CancelPreparedSale \/ ConfirmStaticQr \/ FinalizePaidSale \/ UNCHANGED vars
      => row' = row
    BY DEF ReplayAttempt, CallProvider, WorkerCrash, StartPoll, StartFound, BankAnswers,
           LoseProbe, CustomerPays, CancelPreparedSale, ConfirmStaticQr,
           FinalizePaidSale, vars
<1> QED
    BY <1>6, <1>7, <1>8, <1>13, <1>14, <1>16, <1>17, <1>o, <1>u
    DEF Next, Request, Observe, Inserts

(* What no step does to a submitted order, nor to the fence of a discarded   *)
(* sale: only a draft that is not cancelled goes back to a provider state.   *)
OrderKept ==
    /\ order.docstatus = 1 => order'.docstatus = 1
    /\ order.status = "Cancelled" => order'.status = "Cancelled" \/ order'.docstatus = 1
    /\ order'.docstatus = 1 =>
          \/ order'.state = "finalized"
          \/ order'.state = order.state /\ order.docstatus = 1

LEMMA OrderStep ==
    ASSUME TypeOK, [Next]_vars
    PROVE  OrderKept
<1> USE DEF OrderKept, TypeOK
<1>1. ASSUME NEW state \in OrderStates, order' = [order EXCEPT !.state = state],
             order.docstatus = 0
      PROVE OrderKept
    BY <1>1 DEF OrderType
<1>u. ASSUME order' = order PROVE OrderKept
    BY <1>u
<1>2. ASSUME NEW w \in Workers, NEW k \in Keys, NEW t \in (Keys \ {k}) \cup {None},
             ReserveGeneration(w, k, t)
      PROVE OrderKept
    <2>1. order.docstatus = 0
        BY <1>2 DEF ReserveGeneration, GenerationAllowed, NewGenerationAllowed, ReplacementAllowed
    <2> QED
        BY <1>1, <1>2, <2>1 DEF ReserveGeneration, OrderStates
<1>3. ASSUME NEW w \in Workers, NEW k \in Keys, NEW t \in (Keys \ {k}) \cup {None},
             RegisterPreflightRejection(w, k, t)
      PROVE OrderKept
    BY <1>1, <1>3 DEF RegisterPreflightRejection, OrderStates
<1>4. ASSUME NEW w \in Workers, MarkGenerationAmbiguous(w) PROVE OrderKept
    <2>1. \/ order' = order
          \/ order.docstatus = 0 /\ order' = [order EXCEPT !.state = "provider_ambiguous"]
        BY <1>4 DEF MarkGenerationAmbiguous, SetProviderState
    <2> QED
        BY <1>1, <1>u, <2>1 DEF OrderStates
<1>5. CASE CancelPreparedSale
    BY <1>5 DEF CancelPreparedSale, OrderType
<1>6. CASE ConfirmStaticQr \/ FinalizePaidSale
    <2>1. order'.docstatus = 1 /\ order'.state = "finalized"
        BY <1>6 DEF ConfirmStaticQr, FinalizePaidSale, Submit
    <2> QED
        BY <2>1
<1>o. \/ \E w \in Workers : \/ \E k \in Keys : ReplayAttempt(w, k)
                             \/ CallProvider(w) \/ WorkerCrash(w)
                             \/ FinalizeReservedGeneration(w)
                             \/ RecoverKnownProviderResult(w)
      \/ \E s \in Slots : Observe(s)
      \/ \E k \in Keys : \/ CustomerPays(k) \/ AbandonAmbiguousGeneration(k)
                          \/ CloseExpiredReconciliation(k)
      \/ UNCHANGED vars
      => order' = order
    BY DEF ReplayAttempt, CallProvider, WorkerCrash, FinalizeReservedGeneration,
           RecoverKnownProviderResult, Observe, StartPoll, StartFound, BankAnswers,
           LoseProbe, ApplyProviderPollResult, ApplyFound, CustomerPays,
           AbandonAmbiguousGeneration, CloseExpiredReconciliation, vars
<1> QED
    <2>1. \/ \E w \in Workers : Request(w)
          \/ \E s \in Slots : Observe(s)
          \/ \E k \in Keys : \/ CustomerPays(k) \/ AbandonAmbiguousGeneration(k)
                              \/ CloseExpiredReconciliation(k)
          \/ CancelPreparedSale \/ ConfirmStaticQr \/ FinalizePaidSale \/ UNCHANGED vars
        BY DEF Next
    <2>2. ASSUME NEW w \in Workers, Request(w) PROVE OrderKept
        <3>1. CASE \E k \in Keys : \E t \in (Keys \ {k}) \cup {None} :
                      ReserveGeneration(w, k, t) \/ RegisterPreflightRejection(w, k, t)
            BY <3>1, <1>2, <1>3
        <3>2. CASE MarkGenerationAmbiguous(w)
            BY <3>2, <1>4
        <3>3. CASE \/ \E k \in Keys : ReplayAttempt(w, k)
                   \/ CallProvider(w) \/ WorkerCrash(w)
                   \/ FinalizeReservedGeneration(w) \/ RecoverKnownProviderResult(w)
            <4>1. order' = order
                BY <3>3 DEF ReplayAttempt, CallProvider, WorkerCrash, RecoverKnownProviderResult,
                            FinalizeReservedGeneration
            <4> QED
                BY <4>1, <1>u
        <3> QED
            BY <2>2, <3>1, <3>2, <3>3, Zenon DEF Request
    <2> QED
        BY <2>1, <2>2, <1>5, <1>6, <1>o, <1>u

(* A worker is left alone, lets go of its attempt, or makes its one call. *)
LEMMA WorkerStep ==
    ASSUME TypeOK, [Next]_vars, ~Inserts
    PROVE  \/ worker' = worker /\ calls' = calls
           \/ \E w \in Workers : worker' = [worker EXCEPT ![w] = Idle] /\ calls' = calls
           \/ \E w \in Workers : CallProvider(w)
BY DEF Next, Request, Inserts, ReplayAttempt, WorkerCrash, FinalizeReservedGeneration,
       RecoverKnownProviderResult, MarkGenerationAmbiguous, Release, Observe, StartPoll,
       StartFound, BankAnswers, LoseProbe, ApplyProviderPollResult, ApplyFound,
       CustomerPays, AbandonAmbiguousGeneration, CloseExpiredReconciliation,
       CancelPreparedSale, ConfirmStaticQr, FinalizePaidSale, vars

(* A QR is put on display only while its attempt can be paid. *)
LEMMA ShownStep ==
    ASSUME TypeOK, [Next]_vars
    PROVE  \/ shown' = shown
           \/ \E k \in Keys :
                 /\ shown' = shown \cup {k}
                 /\ row'[k].known /\ row'[k].qr /\ row'[k].status \in ProviderStatuses
<1> USE DEF TypeOK
<1>1. ASSUME NEW w \in Workers, NEW k \in Keys, ReplayAttempt(w, k)
      PROVE  /\ shown' = shown \cup {k}
             /\ row'[k].known /\ row'[k].qr /\ row'[k].status \in ProviderStatuses
    BY <1>1 DEF ReplayAttempt, Reusable, ProviderStatuses
<1>k. ASSUME NEW k \in Keys, NEW qr \in BOOLEAN, qr = TRUE, row' = KnownResult(k, qr)
      PROVE  row'[k].known /\ row'[k].qr /\ row'[k].status = "pending"
    <2>1. /\ row'[k].known = TRUE /\ row'[k].qr = qr /\ row'[k].status = "pending"
        BY <1>k DEF KnownResult, RowType
    <2> QED
        BY <2>1, <1>k
<1>2. ASSUME NEW w \in Workers, FinalizeReservedGeneration(w), shown' # shown
      PROVE  \E k \in Keys :
                 /\ shown' = shown \cup {k}
                 /\ row'[k].known /\ row'[k].qr /\ row'[k].status \in ProviderStatuses
    <2> DEFINE k == worker[w].key
               qr == worker[w].result = "qr"
    <2>0. k \in Keys /\ qr \in BOOLEAN
        BY <1>2 DEF FinalizeReservedGeneration, Answered
    <2>1. \/ row' = row /\ row[k].known /\ row[k].status \in Reusable /\ row[k].qr
          \/ row' = KnownResult(k, qr) /\ qr
        BY <1>2 DEF FinalizeReservedGeneration
    <2>2. shown' = shown \cup {k}
        BY <1>2 DEF FinalizeReservedGeneration
    <2>4. row'[k].known /\ row'[k].qr /\ row'[k].status \in Reusable
        BY <2>0, <2>1, <1>k DEF Reusable
    <2> QED
        BY <2>0, <2>2, <2>4 DEF Reusable, ProviderStatuses
<1>3. ASSUME NEW w \in Workers, Request(w), ~FinalizeReservedGeneration(w),
             ~\E k \in Keys : ReplayAttempt(w, k)
      PROVE  shown' = shown
    BY <1>3 DEF Request, ReserveGeneration, RegisterPreflightRejection, CallProvider,
                WorkerCrash, RecoverKnownProviderResult, MarkGenerationAmbiguous
<1>4. ASSUME NEW s \in Slots, Observe(s) PROVE shown' = shown
    BY <1>4 DEF Observe, StartPoll, StartFound, BankAnswers, LoseProbe,
                ApplyProviderPollResult, ApplyFound
<1>5. ASSUME NEW k \in Keys,
             CustomerPays(k) \/ AbandonAmbiguousGeneration(k) \/ CloseExpiredReconciliation(k)
      PROVE  shown' = shown
    BY <1>5 DEF CustomerPays, AbandonAmbiguousGeneration, CloseExpiredReconciliation
<1>6. CASE CancelPreparedSale \/ ConfirmStaticQr \/ FinalizePaidSale \/ UNCHANGED vars
    BY <1>6 DEF CancelPreparedSale, ConfirmStaticQr, FinalizePaidSale, vars
<1> QED
    BY <1>1, <1>2, <1>3, <1>4, <1>5, <1>6 DEF Next

LEMMA DiscardStep ==
    ASSUME [Next]_vars
    PROVE  discarded' = discarded \/ CancelPreparedSale
BY DEF Next, Request, Observe, ReserveGeneration, RegisterPreflightRejection, ReplayAttempt,
       CallProvider, WorkerCrash, FinalizeReservedGeneration, RecoverKnownProviderResult,
       MarkGenerationAmbiguous, StartPoll, StartFound, BankAnswers, LoseProbe,
       ApplyProviderPollResult, ApplyFound, CustomerPays, AbandonAmbiguousGeneration,
       CloseExpiredReconciliation, ConfirmStaticQr, FinalizePaidSale, vars

LEMMA SafetyInit == Init => SafetyInv
<1> SUFFICES ASSUME Init PROVE SafetyInv
    OBVIOUS
<1>1. \A k \in Keys : row[k].status = "none" /\ row[k].evidence = "none"
    BY DEF Init, NoRow
<1>2. \A w \in Workers : worker[w].pc = "idle"
    BY DEF Init, Idle
<1> QED
    BY <1>1, <1>2, TypeOKInit
    DEF Init, SafetyInv, CallsAccounted, OneProviderCallPerKey, OneOpenReservation,
        AbsenceHidesNoReference, ReleasedAbsent, DiscardIsFenced, DiscardedSaleNeverContacted,
        SubmittedSaleStaysFinalized, DisplayedQrStaysPayable

(* A key's row is inserted once, behind the order lock, by a request that no *)
(* reservation in flight and no discard of the sale can precede.             *)
LEMMA InsertionSafe ==
    ASSUME SafetyInv, NEW w \in Workers, NEW k \in Keys, NEW t \in Keys \cup {None},
           ReserveGeneration(w, k, t) \/ RegisterPreflightRejection(w, k, t)
    PROVE  /\ CallsAccounted' /\ OneProviderCallPerKey' /\ OneOpenReservation'
           /\ AbsenceHidesNoReference' /\ DiscardIsFenced' /\ DiscardedSaleNeverContacted'
           /\ DisplayedQrStaysPayable'
<1> USE DEF SafetyInv
<1>1. /\ row[k].status = "none" /\ calls[k] = 0 /\ k \notin shown
      /\ \A v \in Workers : worker[v].pc # "idle" => worker[v].key # k
    BY DEF ReserveGeneration, RegisterPreflightRejection, CallsAccounted,
           DisplayedQrStaysPayable, ProviderStatuses
<1>2. calls' = calls /\ shown' = shown /\ discarded' = discarded
    BY DEF ReserveGeneration, RegisterPreflightRejection
<1>3. /\ \A j \in Keys \ {k} : row'[j] = row[j]
      /\ row'[k].known = FALSE
    <2>1. PICK status \in {"creating", "failed"}, evidence \in {"none", "preflight"} :
             row' = [row EXCEPT ![k] = [NoRow EXCEPT !.status   = status,
                                                     !.evidence = evidence,
                                                     !.replaces = t,
                                                     !.earlier  = Attempts]]
        BY DEF ReserveGeneration, RegisterPreflightRejection, InsertRow
    <2>2. [NoRow EXCEPT !.status = status, !.evidence = evidence, !.replaces = t,
                        !.earlier = Attempts].known = FALSE
        BY DEF NoRow
    <2> QED
        BY <2>1, <2>2 DEF TypeOK
<1>4. AbsenceHidesNoReference' /\ DisplayedQrStaysPayable' /\ OneProviderCallPerKey'
    <2>1. AbsenceHidesNoReference'
        BY <1>3 DEF AbsenceHidesNoReference, ReleasedAbsent
    <2>2. DisplayedQrStaysPayable'
        BY <1>1, <1>2, <1>3 DEF DisplayedQrStaysPayable, TypeOK
    <2> QED
        BY <1>2, <2>1, <2>2 DEF OneProviderCallPerKey
<1>5. CASE ReserveGeneration(w, k, t)
    <2>1. row'[k].status = "creating" /\ row'[k].evidence = "none"
        BY <1>5 DEF ReserveGeneration, InsertRow, NoRow, TypeOK
    <2>2. /\ worker'[w].pc = "reserved" /\ worker'[w].key = k
          /\ \A v \in Workers \ {w} : worker'[v] = worker[v]
        BY <1>5 DEF ReserveGeneration, Idle, TypeOK
    <2>3. CallsAccounted'
        BY <1>1, <1>2, <1>3, <2>1, <2>2 DEF CallsAccounted, TypeOK
    <2>4. /\ order.status # "Cancelled" /\ order.docstatus = 0
          /\ \A j \in Keys : row[j].status # "creating"
        BY <1>5 DEF ReserveGeneration, GenerationAllowed, NewGenerationAllowed,
                    ReplacementAllowed, Attempts, DurablyReleased, PreflightRejected,
                    ReleasedAbsent, ReleasedCancelled
    <2>5. OneOpenReservation'
        BY <1>3, <2>4 DEF OneOpenReservation
    <2>6. ~discarded'
        BY <1>2, <2>4 DEF DiscardIsFenced, TypeOK, OrderType
    <2> QED
        BY <1>4, <2>3, <2>5, <2>6 DEF DiscardIsFenced, DiscardedSaleNeverContacted
<1>6. CASE RegisterPreflightRejection(w, k, t)
    <2>1. row'[k].status = "failed" /\ row'[k].evidence = "preflight" /\ worker' = worker
        BY <1>6 DEF RegisterPreflightRejection, InsertRow, NoRow, TypeOK
    <2>2. CallsAccounted'
        BY <1>1, <1>2, <1>3, <2>1 DEF CallsAccounted, TypeOK
    <2>3. OneOpenReservation' /\ DiscardedSaleNeverContacted'
        BY <1>2, <1>3, <2>1 DEF OneOpenReservation, DiscardedSaleNeverContacted
    <2>4. order'.status = order.status /\ order'.docstatus = order.docstatus
        BY <1>6 DEF RegisterPreflightRejection, TypeOK, OrderType
    <2> QED
        BY <1>2, <1>4, <2>2, <2>3, <2>4 DEF DiscardIsFenced
<1> QED
    BY <1>5, <1>6

(* No call is made but the one a reservation owes. *)
LEMMA CallsStep ==
    ASSUME SafetyInv, [Next]_vars, AttemptsKept, ~Inserts
    PROVE  CallsAccounted' /\ OneProviderCallPerKey'
<1> USE DEF SafetyInv
<1>1. CASE worker' = worker /\ calls' = calls
    <2>1. CallsAccounted'
        BY <1>1 DEF AttemptsKept, CallsAccounted, TypeOK
    <2> QED
        BY <1>1, <2>1 DEF OneProviderCallPerKey
<1>2. ASSUME NEW w \in Workers, worker' = [worker EXCEPT ![w] = Idle], calls' = calls
      PROVE  CallsAccounted' /\ OneProviderCallPerKey'
    <2>1. /\ worker'[w].pc = "idle"
          /\ \A v \in Workers \ {w} : worker'[v] = worker[v]
        BY <1>2, WorkerReleased
    <2>2. CallsAccounted'
        BY <1>2, <2>1 DEF AttemptsKept, CallsAccounted, TypeOK
    <2> QED
        BY <1>2, <2>2 DEF OneProviderCallPerKey
<1>3. ASSUME NEW w \in Workers, CallProvider(w)
      PROVE  CallsAccounted' /\ OneProviderCallPerKey'
    <2> DEFINE k == worker[w].key
    <2>1. /\ worker[w].pc = "reserved" /\ k \in Keys
          /\ calls[k] = 0 /\ row[k].status # "none" /\ row[k].evidence # "preflight"
        BY <1>3 DEF CallProvider, CallsAccounted, TypeOK
    <2>2. calls'[k] = 1 /\ \A j \in Keys \ {k} : calls'[j] = calls[j]
        BY <1>3, <2>1 DEF CallProvider, TypeOK
    <2>3. /\ worker'[w].pc = "answered" /\ worker'[w].key = k
          /\ \A v \in Workers \ {w} : worker'[v] = worker[v]
        BY <1>3 DEF CallProvider, TypeOK, WorkerType
    <2>4. row' = row
        BY <1>3 DEF CallProvider
    <2> HIDE DEF k
    <2>5. CallsAccounted'
        BY <2>1, <2>2, <2>3, <2>4 DEF CallsAccounted, TypeOK, k
    <2> QED
        BY <2>2, <2>5 DEF OneProviderCallPerKey
<1> QED
    BY <1>1, <1>2, <1>3, WorkerStep

(* The discard is granted only to a sale none of whose keys went to Maybank. *)
LEMMA CancelUncontacted ==
    ASSUME SafetyInv, CancelPreparedSale
    PROVE  order'.status = "Cancelled" /\ DiscardedSaleNeverContacted'
<1> USE DEF SafetyInv
<1>1. \A k \in Keys : row[k].status = "none" \/ row[k].evidence = "preflight"
    BY DEF CancelPreparedSale, Attempts, PreflightRejected
<1>2. \A k \in Keys : calls[k] = 0
    BY <1>1 DEF CallsAccounted
<1>3. \A w \in Workers : worker[w].pc = "idle"
    BY <1>1 DEF CallsAccounted, TypeOK, WorkerType
<1>4. order'.status = "Cancelled"
    BY DEF CancelPreparedSale, TypeOK, OrderType
<1> QED
    BY <1>2, <1>3, <1>4 DEF CancelPreparedSale, DiscardedSaleNeverContacted

LEMMA UncontactedKept ==
    ASSUME SafetyInv, [Next]_vars, ~Inserts, discarded' = discarded
    PROVE  DiscardedSaleNeverContacted'
<1> SUFFICES ASSUME discarded
             PROVE  /\ \A k \in Keys : calls'[k] = 0
                    /\ \A w \in Workers : worker'[w].pc # "reserved"
    BY DEF DiscardedSaleNeverContacted
<1> USE DEF SafetyInv, DiscardedSaleNeverContacted
<1>1. CASE worker' = worker /\ calls' = calls
    BY <1>1
<1>2. ASSUME NEW w \in Workers, worker' = [worker EXCEPT ![w] = Idle], calls' = calls
      PROVE  /\ \A k \in Keys : calls'[k] = 0
             /\ \A v \in Workers : worker'[v].pc # "reserved"
    <2>1. /\ worker'[w].pc = "idle"
          /\ \A v \in Workers \ {w} : worker'[v] = worker[v]
        BY <1>2, WorkerReleased
    <2> QED
        BY <1>2, <2>1
<1>3. ASSUME NEW w \in Workers, CallProvider(w) PROVE FALSE
    BY <1>3 DEF CallProvider
<1> QED
    BY <1>1, <1>2, <1>3, WorkerStep

LEMMA SafetyStep == SafetyInv /\ [Next]_vars => SafetyInv'
<1> SUFFICES ASSUME SafetyInv, [Next]_vars PROVE SafetyInv'
    OBVIOUS
<1> USE DEF SafetyInv
<1>1. TypeOK'
    BY TypeOKStep
<1>2. OrderKept
    BY OrderStep
<1>3. SubmittedSaleStaysFinalized'
    BY <1>2 DEF OrderKept, SubmittedSaleStaysFinalized
<1>4. CASE Inserts
    BY <1>1, <1>3, <1>4, InsertionSafe DEF Inserts
<1>5. CASE ~Inserts
    <2>1. AttemptsKept
        BY <1>5, RowStep
    <2>2. CallsAccounted' /\ OneProviderCallPerKey'
        BY <1>1, <1>5, <2>1, CallsStep
    <2>3. OneOpenReservation'
        BY <2>1 DEF AttemptsKept, OneOpenReservation
    <2>4. AbsenceHidesNoReference'
        BY <2>1 DEF AttemptsKept, AbsenceHidesNoReference, ReleasedAbsent
    <2>5. DisplayedQrStaysPayable'
        BY <2>1, ShownStep DEF AttemptsKept, DisplayedQrStaysPayable, TypeOK
    <2>6. DiscardIsFenced' /\ DiscardedSaleNeverContacted'
        <3>1. CASE CancelPreparedSale
            BY <3>1, CancelUncontacted DEF DiscardIsFenced
        <3>2. CASE discarded' = discarded
            BY <1>2, <1>5, <3>2, WorkerStep, UncontactedKept DEF DiscardIsFenced, OrderKept
        <3> QED
            BY <3>1, <3>2, DiscardStep
    <2> QED
        BY <1>1, <1>3, <2>2, <2>3, <2>4, <2>5, <2>6
<1> QED
    BY <1>4, <1>5

(* The safety of a sale's attempts, all parts together. *)
THEOREM Safe == Spec => []SafetyInv
BY SafetyInit, SafetyStep, PTL DEF Spec

(* However the till's request is retried, raced by other workers or cut      *)
(* short, Maybank is asked at most once under an idempotency key.            *)
THEOREM NeverAskedTwice == Spec => []OneProviderCallPerKey
BY Safe, PTL DEF SafetyInv

(* At most one reservation of the sale waits for Maybank's answer. *)
THEOREM OneReservation == Spec => []OneOpenReservation
BY Safe, PTL DEF SafetyInv

(* Maybank is never asked for a QR of a sale the till was told to discard,   *)
(* neither before nor after.                                                 *)
THEOREM DiscardSafe == Spec => []DiscardedSaleNeverContacted
BY Safe, PTL DEF SafetyInv

(* A QR once put on display can be paid, and the payment recorded, forever. *)
THEOREM DisplayedPayable == Spec => []DisplayedQrStaysPayable
BY Safe, PTL DEF SafetyInv

(* No worker, answering late, moves a submitted sale out of finalized. *)
THEOREM SubmittedFinal == Spec => []SubmittedSaleStaysFinalized
BY Safe, PTL DEF SafetyInv

(* A release of an attempt as never created hides no provider reference. *)
THEOREM AbsenceHonest == Spec => []AbsenceHidesNoReference
BY Safe, PTL DEF SafetyInv

-----------------------------------------------------------------------------
(* What a step may never do to an attempt's status.                          *)

(* A reference, once known, is kept; every poll in flight was started for a  *)
(* known one, so a payment is only ever recorded under its reference.        *)
ReferenceInv ==
    /\ TypeOK
    /\ \A k \in Keys : row[k].status = "none" => ~row[k].known
    /\ \A k \in Keys : row[k].status = "paid" => row[k].known
    /\ \A s \in Slots :
          probe[s].kind = "poll" => probe[s].key \in Keys /\ row[probe[s].key].known

(* How a step changes the attempt of one key. *)
StatusKept ==
    \A k \in Keys :
        /\ row[k].known => row'[k].known
        /\ row'[k].status = "none" => row[k].status = "none" /\ row'[k].known = row[k].known
        /\ row[k].status = "paid" => row'[k].status = "paid"
        /\ row'[k].status = "paid" /\ row[k].status # "paid" => row'[k].known
        /\ row[k].status = "unknown" /\ row[k].known /\ row'[k].status # "unknown"
              => \E s \in Slots : ApplyFound(s)

LEMMA StatusStep ==
    ASSUME ReferenceInv, [Next]_vars
    PROVE  StatusKept
<1> USE DEF ReferenceInv, StatusKept, TypeOK
<1>u. ASSUME row' = row PROVE StatusKept
    BY <1>u
<1>w. ASSUME NEW k \in Keys, NEW r \in RowType, row' = [row EXCEPT ![k] = r],
             row[k].status # "paid", row[k].known => r.known,
             r.status \notin {"none", "paid"},
             row[k].status = "unknown" => ~row[k].known \/ r.status = "unknown"
      PROVE  StatusKept
    <2>1. row'[k] = r /\ \A j \in Keys \ {k} : row'[j] = row[j]
        BY <1>w
    <2> QED
        BY <1>w, <2>1
<1>a. /\ {"creating", "failed", "pending", "unknown", "timeout"} \subseteq RowStatuses
      /\ {"none", "preflight", "absent", "cancelled"} \subseteq Evidence
    BY DEF RowStatuses, ProviderStatuses, Evidence
<1>1. ASSUME NEW k \in Keys, NEW t \in Keys \cup {None}, row[k].status = "none",
             NEW status \in {"creating", "failed"}, NEW evidence \in {"none", "preflight"},
             InsertRow(k, t, status, evidence)
      PROVE  StatusKept
    <2> DEFINE r == [NoRow EXCEPT !.status = status, !.evidence = evidence,
                                  !.replaces = t, !.earlier = Attempts]
    <2>1. r \in RowType /\ r.status = status
        BY <1>a DEF NoRow, RowType, Attempts
    <2>2. row' = [row EXCEPT ![k] = r]
        BY <1>1 DEF InsertRow
    <2> HIDE DEF r
    <2> QED
        BY <1>1, <1>w, <2>1, <2>2
<1>l. ASSUME NEW k \in Keys, NEW qr \in BOOLEAN, ReleasedAbsent(k), row' = LateResult(k, qr)
      PROVE  StatusKept
    <2> DEFINE r == [row[k] EXCEPT !.known = TRUE, !.qr = qr, !.evidence = "none"]
    <2>2. row' = [row EXCEPT ![k] = r] /\ row[k].status = "unknown"
        BY <1>l DEF LateResult, ReleasedAbsent
    <2>3. row[k] \in RowType /\ "none" \in Evidence /\ "unknown" \in RowStatuses
        BY <1>a
    <2>4. r \in RowType
        BY <2>3, RowWritten
    <2>5. r.status = row[k].status /\ r.known = TRUE
        BY <2>3, RowFields
    <2>1. r \in RowType /\ r.status = "unknown" /\ r.known
        BY <2>2, <2>4, <2>5
    <2> HIDE DEF r
    <2> QED
        BY <1>w, <2>1, <2>2
<1>k. ASSUME NEW k \in Keys, NEW qr \in BOOLEAN, row[k].status = "creating",
             row' = KnownResult(k, qr)
      PROVE  StatusKept
    <2> DEFINE r == [row[k] EXCEPT !.known = TRUE, !.qr = qr, !.status = "pending",
                                   !.evidence = "none"]
    <2>1. r \in RowType /\ r.status = "pending" /\ r.known
        BY <1>a DEF RowType
    <2>2. row' = [row EXCEPT ![k] = r]
        BY <1>k DEF KnownResult
    <2> HIDE DEF r
    <2> QED
        BY <1>k, <1>w, <2>1, <2>2
<1>2. ASSUME NEW w \in Workers, NEW k \in Keys, NEW t \in (Keys \ {k}) \cup {None},
             ReserveGeneration(w, k, t) \/ RegisterPreflightRejection(w, k, t)
      PROVE  StatusKept
    BY <1>1, <1>2 DEF ReserveGeneration, RegisterPreflightRejection
<1>6. ASSUME NEW w \in Workers, FinalizeReservedGeneration(w) PROVE StatusKept
    <2> DEFINE k == worker[w].key
               qr == worker[w].result = "qr"
    <2>0. k \in Keys /\ qr \in BOOLEAN
        BY <1>6 DEF FinalizeReservedGeneration, Answered
    <2> QED
        BY <1>6, <2>0, <1>u, <1>l, <1>k DEF FinalizeReservedGeneration
<1>7. ASSUME NEW w \in Workers, RecoverKnownProviderResult(w) PROVE StatusKept
    <2> DEFINE k == worker[w].key
               qr == worker[w].result = "qr"
    <2>0. k \in Keys /\ qr \in BOOLEAN
        BY <1>7 DEF RecoverKnownProviderResult, Answered
    <2>1. \/ row' = row
          \/ ReleasedAbsent(k) /\ row' = LateResult(k, qr)
          \/ row[k].status = "creating" /\ row' = KnownResult(k, qr)
        BY <1>7 DEF RecoverKnownProviderResult
    <2> QED
        BY <2>0, <2>1, <1>u, <1>l, <1>k
<1>8. ASSUME NEW w \in Workers, MarkGenerationAmbiguous(w) PROVE StatusKept
    <2> DEFINE k == worker[w].key
    <2>0. k \in Keys
        BY <1>8 DEF MarkGenerationAmbiguous, Answered
    <2>1. ASSUME NEW qr \in BOOLEAN, row[k].status = "creating",
                 row' = [row EXCEPT ![k] = [@ EXCEPT !.known = TRUE, !.qr = qr,
                                             !.status = "unknown", !.evidence = "none"]]
          PROVE  StatusKept
        <3> DEFINE r == [row[k] EXCEPT !.known = TRUE, !.qr = qr, !.status = "unknown",
                                       !.evidence = "none"]
        <3>3. row[k] \in RowType /\ "none" \in Evidence /\ "unknown" \in RowStatuses
            BY <2>0, <1>a
        <3>4. r \in RowType
            BY <3>3, RowWritten
        <3>5. r.status = "unknown" /\ r.known = TRUE
            BY <3>3, RowFields
        <3>1. r \in RowType /\ r.status = "unknown" /\ r.known
            BY <3>4, <3>5
        <3>2. row' = [row EXCEPT ![k] = r]
            BY <2>1
        <3> HIDE DEF r, k
        <3> QED
            BY <2>0, <2>1, <1>w, <3>1, <3>2
    <2>2. \/ row' = row
          \/ /\ row[k].status = "creating"
             /\ \E qr \in BOOLEAN :
                   row' = [row EXCEPT ![k] = [@ EXCEPT !.known = TRUE, !.qr = qr,
                                              !.status = "unknown", !.evidence = "none"]]
        BY <1>8, Zenon DEF MarkGenerationAmbiguous
    <2> HIDE DEF k
    <2> QED
        BY <2>1, <2>2, <1>u, Zenon
<1>13. ASSUME NEW s \in Slots, ApplyProviderPollResult(s) PROVE StatusKept
    <2> DEFINE k == probe[s].key
               seen == probe[s].seen
               r == [row[k] EXCEPT !.status = seen, !.evidence = "none"]
    <2>1. /\ k \in Keys /\ row[k].known
          /\ seen \in ProviderStatuses
          /\ \/ row' = row
             \/ /\ row[k].status # "unknown" /\ Admissible(k, seen)
                /\ row' = [row EXCEPT ![k] = r]
        BY <1>13 DEF ApplyProviderPollResult, ProbeType
    <2>2. row[k].status = "paid" /\ Admissible(k, seen) => seen = "paid"
        BY <2>1 DEF Admissible, Transitions, RowStatuses, ProviderStatuses
    <2>5. row[k] \in RowType
        BY <2>1
    <2>3. r.status = seen /\ r.known = row[k].known
        BY <2>5, RowFields
    <2>4. CASE row' = [row EXCEPT ![k] = r]
        <3>1. row'[k] = r /\ \A j \in Keys \ {k} : row'[j] = row[j]
            BY <2>1, <2>4
        <3> HIDE DEF k, seen, r
        <3> QED
            BY <2>1, <2>2, <2>3, <3>1, <1>u DEF ProviderStatuses
    <2> QED
        BY <2>1, <2>4, <1>u
<1>14. ASSUME NEW s \in Slots, ApplyFound(s) PROVE StatusKept
    <2> DEFINE k == probe[s].key
               seen == probe[s].seen
               r == [row[k] EXCEPT !.known = TRUE, !.status = seen, !.evidence = "none"]
    <2>1. /\ seen \in ProviderStatuses
          /\ \/ row' = row
             \/ row[k].status # "paid" /\ row' = [row EXCEPT ![k] = r]
        BY <1>14 DEF ApplyFound, ProbeType
    <2>2. CASE k \in Keys /\ row[k].status # "paid" /\ row' = [row EXCEPT ![k] = r]
        <3>1. r.status = seen /\ r.known
            BY <2>2 DEF RowType
        <3>2. row'[k] = r /\ \A j \in Keys \ {k} : row'[j] = row[j]
            BY <2>2
        <3> HIDE DEF k, seen, r
        <3> QED
            BY <1>14, <2>1, <2>2, <3>1, <3>2 DEF ProviderStatuses
    <2>3. CASE k \notin Keys /\ row' = [row EXCEPT ![k] = r]
        BY <2>3, <1>u
    <2> QED
        BY <2>1, <2>2, <2>3, <1>u
<1>16. ASSUME NEW k \in Keys, AbandonAmbiguousGeneration(k) PROVE StatusKept
    <2> DEFINE r == [row[k] EXCEPT !.status = "unknown", !.evidence = "absent"]
    <2>1. r \in RowType /\ r.status = "unknown" /\ r.known = row[k].known
        BY <1>a DEF RowType
    <2>2. row' = [row EXCEPT ![k] = r] /\ row[k].status = "creating"
        BY <1>16 DEF AbandonAmbiguousGeneration
    <2> HIDE DEF r
    <2> QED
        BY <1>w, <2>1, <2>2
<1>17. ASSUME NEW k \in Keys, CloseExpiredReconciliation(k) PROVE StatusKept
    <2> DEFINE r == [row[k] EXCEPT !.status = "timeout", !.evidence = "cancelled"]
    <2>1. r \in RowType /\ r.status = "timeout" /\ r.known = row[k].known
        BY <1>a DEF RowType
    <2>2. row' = [row EXCEPT ![k] = r] /\ row[k].status \in {"pending", "scanned"}
        BY <1>17 DEF CloseExpiredReconciliation, Reusable
    <2> HIDE DEF r
    <2> QED
        BY <1>w, <2>1, <2>2
<1> HIDE DEF StatusKept, ReferenceInv, TypeOK
<1>r. ASSUME NEW w \in Workers, Request(w) PROVE StatusKept
    <2>1. CASE \E k \in Keys : \E t \in (Keys \ {k}) \cup {None} :
                  ReserveGeneration(w, k, t) \/ RegisterPreflightRejection(w, k, t)
        BY <2>1, <1>2
    <2>2. CASE FinalizeReservedGeneration(w) \/ RecoverKnownProviderResult(w)
               \/ MarkGenerationAmbiguous(w)
        BY <2>2, <1>6, <1>7, <1>8
    <2>3. CASE (\E k \in Keys : ReplayAttempt(w, k)) \/ CallProvider(w) \/ WorkerCrash(w)
        <3>1. row' = row
            BY <2>3 DEF ReplayAttempt, CallProvider, WorkerCrash
        <3> QED
            BY <3>1, <1>u
    <2> QED
        BY <1>r, <2>1, <2>2, <2>3, Zenon DEF Request
<1>s. ASSUME NEW s \in Slots, Observe(s) PROVE StatusKept
    <2>1. CASE (\E k \in Keys : StartPoll(s, k) \/ StartFound(s, k))
               \/ BankAnswers(s) \/ LoseProbe(s)
        <3>1. row' = row
            BY <2>1 DEF StartPoll, StartFound, BankAnswers, LoseProbe
        <3> QED
            BY <3>1, <1>u
    <2> QED
        BY <1>s, <2>1, <1>13, <1>14, Zenon DEF Observe
<1>c. ASSUME NEW k \in Keys, CustomerPays(k) PROVE StatusKept
    BY <1>c, <1>u DEF CustomerPays
<1>d. CASE CancelPreparedSale \/ ConfirmStaticQr \/ FinalizePaidSale \/ UNCHANGED vars
    <2>1. row' = row
        BY <1>d DEF CancelPreparedSale, ConfirmStaticQr, FinalizePaidSale, vars
    <2> QED
        BY <2>1, <1>u
<1> QED
    BY <1>r, <1>s, <1>c, <1>d, <1>16, <1>17 DEF Next

(* A poll is started only for an attempt with a reference. *)
LEMMA ProbeStep ==
    ASSUME TypeOK, [Next]_vars
    PROVE  \A s \in Slots :
               probe'[s].kind = "poll" =>
                   \/ probe[s].kind = "poll" /\ probe'[s].key = probe[s].key
                   \/ \E k \in Keys : probe'[s].key = k /\ row[k].known
<1> DEFINE Started == \A s \in Slots :
               probe'[s].kind = "poll" =>
                   \/ probe[s].kind = "poll" /\ probe'[s].key = probe[s].key
                   \/ \E k \in Keys : probe'[s].key = k /\ row[k].known
<1> USE DEF TypeOK
<1>1. ASSUME NEW s \in Slots, NEW k \in Keys, StartPoll(s, k) PROVE Started
    BY <1>1 DEF StartPoll, Pollable, NoProbe
<1>2. ASSUME NEW s \in Slots, NEW k \in Keys, StartFound(s, k) PROVE Started
    BY <1>2 DEF StartFound, NoProbe
<1>3. ASSUME NEW s \in Slots, BankAnswers(s) PROVE Started
    BY <1>3 DEF BankAnswers, ProbeType
<1>4. ASSUME NEW s \in Slots, LoseProbe(s) \/ ApplyProviderPollResult(s) \/ ApplyFound(s)
      PROVE  Started
    BY <1>4 DEF LoseProbe, ApplyProviderPollResult, ApplyFound, NoProbe
<1>5. ASSUME probe' = probe PROVE Started
    BY <1>5
<1>6. ASSUME NEW w \in Workers, Request(w) PROVE Started
    <2>1. probe' = probe
        BY <1>6 DEF Request, ReserveGeneration, RegisterPreflightRejection, ReplayAttempt,
                    CallProvider, WorkerCrash, FinalizeReservedGeneration,
                    RecoverKnownProviderResult, MarkGenerationAmbiguous
    <2> QED
        BY <2>1, <1>5
<1>7. ASSUME NEW k \in Keys,
             CustomerPays(k) \/ AbandonAmbiguousGeneration(k) \/ CloseExpiredReconciliation(k)
      PROVE  Started
    BY <1>7, <1>5 DEF CustomerPays, AbandonAmbiguousGeneration, CloseExpiredReconciliation
<1>8. ASSUME CancelPreparedSale \/ ConfirmStaticQr \/ FinalizePaidSale \/ UNCHANGED vars
      PROVE  Started
    <2>1. probe' = probe
        BY <1>8 DEF CancelPreparedSale, ConfirmStaticQr, FinalizePaidSale, vars
    <2> QED
        BY <2>1, <1>5
<1> HIDE DEF Started, TypeOK
<1>s. ASSUME NEW s \in Slots, Observe(s) PROVE Started
    BY <1>s, <1>1, <1>2, <1>3, <1>4, Zenon DEF Observe
<1>10. Started
    BY <1>s, <1>6, <1>7, <1>8 DEF Next
<1> QED
    BY <1>10 DEF Started

LEMMA ReferenceInit == Init => ReferenceInv
<1>1. NoRow.status = "none" /\ ~NoRow.known /\ NoProbe.kind = "idle"
    BY DEF NoRow, NoProbe
<1> QED
    BY <1>1, TypeOKInit DEF Init, ReferenceInv

LEMMA ReferenceStep == ReferenceInv /\ [Next]_vars => ReferenceInv'
<1> SUFFICES ASSUME ReferenceInv, [Next]_vars PROVE ReferenceInv'
    OBVIOUS
<1>1. TypeOK'
    BY TypeOKStep DEF ReferenceInv
<1>2. StatusKept
    BY StatusStep
<1> QED
    BY <1>1, <1>2, ProbeStep DEF ReferenceInv, StatusKept

(* A payment recorded for an attempt is never taken back, and is kept under  *)
(* its provider reference.                                                   *)
THEOREM PaidFinal == Spec => PaidIsFinal
<1>1. ReferenceInv /\ [Next]_vars
      => [\A k \in Keys : row[k].status = "paid" => row'[k].status = "paid" /\ row'[k].known]_vars
    BY StatusStep DEF StatusKept, ReferenceInv
<1> QED
    BY <1>1, ReferenceInit, ReferenceStep, PTL DEF Spec, PaidIsFinal

(* An attempt fenced as unknown under a provider reference leaves that       *)
(* status only by support's own resolution.                                  *)
THEOREM FenceHeld == Spec => FencedUntilSupport
<1>1. ReferenceInv /\ [Next]_vars
      => [\A k \in Keys :
             row[k].status = "unknown" /\ row[k].known /\ row'[k].status # "unknown"
                 => \E s \in Slots : ApplyFound(s)]_vars
    BY StatusStep DEF StatusKept
<1> QED
    BY <1>1, ReferenceInit, ReferenceStep, PTL DEF Spec, FencedUntilSupport

-----------------------------------------------------------------------------
(* Replacements.  The rows of a sale are ordered by creation, an attempt     *)
(* that Maybank may know of keeps its reference and its predecessor, and a   *)
(* fenced one is never looked for again.  So whoever is to be replaced by    *)
(* another request already has a successor that is younger and issued, and   *)
(* is not the latest any more.                                               *)
RowsOrdered ==
    /\ IsFiniteSet(Attempts)
    /\ \A k \in Keys : row[k].status = "none" => row[k] = NoRow
    /\ \A k \in Keys : row[k].earlier \subseteq Attempts \ {k}
    /\ \A j, k \in Keys : j \in row[k].earlier => k \notin row[j].earlier

(* An attempt without a reference waits for one or was fenced.               *)
Referenced ==
    \A k \in Keys : \/ row[k].known
                    \/ row[k].status \in {"none", "creating", "unknown"}
                    \/ PreflightRejected(k)

NotFenced(k) == k \in Keys /\ row[k].status # "none" /\ ~PreflightRejected(k)
ProbesKnow == \A s \in Slots : probe[s].kind # "idle" => NotFenced(probe[s].key)

Replaced == {t \in Keys : Successors(t) # {}}

Chained ==
    /\ \A t \in Keys : \A k \in Successors(t) : Issued(t) /\ t \in row[k].earlier
    /\ ReplacementsBounded

ReplacementInv == RowsOrdered /\ Referenced /\ ProbesKnow /\ Chained

(* What every step but an insertion leaves of an attempt.                    *)
RowsKept ==
    \A k \in Keys :
        /\ row'[k].replaces = row[k].replaces /\ row'[k].earlier = row[k].earlier
        /\ row'[k].status = "none" <=> row[k].status = "none"
        /\ row[k].status = "none" => row'[k] = row[k]
        /\ PreflightRejected(k)' <=> PreflightRejected(k)
        /\ \/ row'[k].known
           \/ row'[k].status \in {"none", "creating", "unknown"}
           \/ PreflightRejected(k)'

LEMMA RowRewritten ==
    ASSUME TypeOK, Referenced, NEW k \in Keys, NotFenced(k), NEW r \in RowType,
           row' = [row EXCEPT ![k] = r],
           r.replaces = row[k].replaces, r.earlier = row[k].earlier,
           r.status # "none", r.known \/ r.status = "unknown"
    PROVE  RowsKept
<1>1. row'[k] = r /\ \A j \in Keys \ {k} : row'[j] = row[j]
    BY DEF TypeOK
<1>2. ~PreflightRejected(k)' /\ row[k].status # "none" /\ ~PreflightRejected(k)
    BY <1>1 DEF PreflightRejected, NotFenced
<1>3. \A j \in Keys \ {k} : PreflightRejected(j)' <=> PreflightRejected(j)
    BY <1>1 DEF PreflightRejected
<1> QED
    BY <1>1, <1>2, <1>3 DEF RowsKept, Referenced

LEMMA RowsStep ==
    ASSUME ReferenceInv, Referenced, ProbesKnow, [Next]_vars, ~Inserts
    PROVE  RowsKept
<1> USE DEF ReferenceInv
<1>u. ASSUME row' = row PROVE RowsKept
    BY <1>u DEF RowsKept, Referenced, PreflightRejected
<1>a. /\ {"creating", "failed", "pending", "unknown", "timeout"} \subseteq RowStatuses
      /\ {"none", "preflight", "absent", "cancelled"} \subseteq Evidence
      /\ ProviderStatuses \subseteq RowStatuses /\ "none" \notin ProviderStatuses
    BY DEF RowStatuses, ProviderStatuses, Evidence
<1>t. \A k \in Keys : row[k] \in RowType
    BY DEF TypeOK
<1>f. \A k \in Keys : row[k].status \in {"creating", "unknown"} \/ (row[k].known /\ row[k].status # "none")
          => NotFenced(k)
    BY DEF NotFenced, PreflightRejected
<1>l. ASSUME NEW k \in Keys, NEW qr \in BOOLEAN, ReleasedAbsent(k), row' = LateResult(k, qr)
      PROVE  RowsKept
    <2> DEFINE r == [row[k] EXCEPT !.known = TRUE, !.qr = qr, !.evidence = "none"]
    <2>1. row' = [row EXCEPT ![k] = r] /\ row[k].status = "unknown"
        BY <1>l DEF LateResult, ReleasedAbsent
    <2>2. r \in RowType
        BY <1>a, <1>t, RowWritten
    <2>3. /\ r.replaces = row[k].replaces /\ r.earlier = row[k].earlier
          /\ r.status = "unknown"
        BY <1>t, <2>1 DEF RowType
    <2> HIDE DEF r
    <2> QED
        BY <1>f, <2>1, <2>2, <2>3, RowRewritten
<1>k. ASSUME NEW k \in Keys, NEW qr \in BOOLEAN, row[k].status = "creating",
             NEW status \in {"pending", "unknown"},
             row' = [row EXCEPT ![k] = [@ EXCEPT !.known = TRUE, !.qr = qr,
                                                 !.status = status, !.evidence = "none"]]
      PROVE  RowsKept
    <2> DEFINE r == [row[k] EXCEPT !.known = TRUE, !.qr = qr, !.status = status,
                                   !.evidence = "none"]
    <2>1. row' = [row EXCEPT ![k] = r]
        BY <1>k
    <2>2. r \in RowType
        BY <1>a, <1>t, RowWritten
    <2>3. /\ r.replaces = row[k].replaces /\ r.earlier = row[k].earlier
          /\ r.status = status /\ r.known
        BY <1>t DEF RowType
    <2> HIDE DEF r
    <2> QED
        BY <1>f, <1>k, <2>1, <2>2, <2>3, RowRewritten
<1>6. ASSUME NEW w \in Workers, FinalizeReservedGeneration(w) \/ RecoverKnownProviderResult(w)
      PROVE  RowsKept
    <2> DEFINE k == worker[w].key
               qr == worker[w].result = "qr"
    <2>0. k \in Keys /\ qr \in BOOLEAN
        BY <1>6 DEF FinalizeReservedGeneration, RecoverKnownProviderResult, Answered, TypeOK
    <2>1. \/ row' = row
          \/ ReleasedAbsent(k) /\ row' = LateResult(k, qr)
          \/ row[k].status = "creating" /\ row' = KnownResult(k, qr)
        BY <1>6 DEF FinalizeReservedGeneration, RecoverKnownProviderResult
    <2>2. CASE row[k].status = "creating" /\ row' = KnownResult(k, qr)
        BY <2>0, <2>2, <1>k DEF KnownResult
    <2> QED
        BY <2>0, <2>1, <2>2, <1>u, <1>l
<1>8. ASSUME NEW w \in Workers, MarkGenerationAmbiguous(w) PROVE RowsKept
    <2> DEFINE k == worker[w].key
    <2>0. k \in Keys
        BY <1>8 DEF MarkGenerationAmbiguous, Answered, TypeOK
    <2>1. \/ row' = row
          \/ /\ row[k].status = "creating"
             /\ \E qr \in BOOLEAN :
                   row' = [row EXCEPT ![k] = [@ EXCEPT !.known = TRUE, !.qr = qr,
                                              !.status = "unknown", !.evidence = "none"]]
        BY <1>8, Zenon DEF MarkGenerationAmbiguous
    <2> HIDE DEF k
    <2> QED
        BY <2>0, <2>1, <1>k, <1>u
<1>13. ASSUME NEW s \in Slots, ApplyProviderPollResult(s) PROVE RowsKept
    <2> DEFINE k == probe[s].key
               seen == probe[s].seen
               r == [row[k] EXCEPT !.status = seen, !.evidence = "none"]
    <2>1. k \in Keys /\ row[k].known /\ NotFenced(k) /\ seen \in ProviderStatuses
        BY <1>13 DEF ApplyProviderPollResult, ProbesKnow, ProbeType, TypeOK
    <2>2. row' = row \/ row' = [row EXCEPT ![k] = r]
        BY <1>13 DEF ApplyProviderPollResult
    <2>3. r \in RowType
        BY <1>a, <1>t, <2>1, RowWritten
    <2>4. /\ r.replaces = row[k].replaces /\ r.earlier = row[k].earlier
          /\ r.status = seen /\ r.known = row[k].known
        BY <1>t, <2>1 DEF RowType
    <2> HIDE DEF r, seen, k
    <2> QED
        BY <1>a, <1>u, <2>1, <2>2, <2>3, <2>4, RowRewritten
<1>14. ASSUME NEW s \in Slots, ApplyFound(s) PROVE RowsKept
    <2> DEFINE k == probe[s].key
               seen == probe[s].seen
               r == [row[k] EXCEPT !.known = TRUE, !.status = seen, !.evidence = "none"]
    <2>1. k \in Keys /\ NotFenced(k) /\ seen \in ProviderStatuses
        BY <1>14 DEF ApplyFound, ProbesKnow, NotFenced, ProbeType, TypeOK
    <2>2. row' = row \/ row' = [row EXCEPT ![k] = r]
        BY <1>14 DEF ApplyFound
    <2>3. r \in RowType
        BY <1>a, <1>t, <2>1, RowWritten
    <2>4. /\ r.replaces = row[k].replaces /\ r.earlier = row[k].earlier
          /\ r.status = seen /\ r.known
        BY <1>t, <2>1 DEF RowType
    <2> HIDE DEF r, seen, k
    <2> QED
        BY <1>a, <1>u, <2>1, <2>2, <2>3, <2>4, RowRewritten
<1>16. ASSUME NEW k \in Keys, AbandonAmbiguousGeneration(k) \/ CloseExpiredReconciliation(k)
       PROVE  RowsKept
    <2>1. PICK status \in {"unknown", "timeout"}, evidence \in {"absent", "cancelled"} :
              /\ row' = [row EXCEPT ![k] = [@ EXCEPT !.status = status, !.evidence = evidence]]
              /\ \/ status = "unknown" /\ row[k].status = "creating"
                 \/ row[k].known /\ row[k].status \in Reusable
        BY <1>16 DEF AbandonAmbiguousGeneration, CloseExpiredReconciliation
    <2> DEFINE r == [row[k] EXCEPT !.status = status, !.evidence = evidence]
    <2>2. r \in RowType
        BY <1>a, <1>t, RowWritten
    <2>3. /\ r.replaces = row[k].replaces /\ r.earlier = row[k].earlier
          /\ r.status = status /\ r.known = row[k].known
        BY <1>t DEF RowType
    <2>4. NotFenced(k) /\ row' = [row EXCEPT ![k] = r]
        BY <1>f, <2>1 DEF Reusable
    <2>5. r.known \/ r.status = "unknown"
        BY <2>1, <2>3
    <2> HIDE DEF r
    <2> QED
        BY <2>1, <2>2, <2>3, <2>4, <2>5, RowRewritten
<1> HIDE DEF RowsKept, ReferenceInv
<1>r. ASSUME NEW w \in Workers, Request(w) PROVE RowsKept
    <2>1. CASE \E k \in Keys : \E t \in (Keys \ {k}) \cup {None} :
                  ReserveGeneration(w, k, t) \/ RegisterPreflightRejection(w, k, t)
        BY <2>1 DEF Inserts
    <2>2. CASE FinalizeReservedGeneration(w) \/ RecoverKnownProviderResult(w)
               \/ MarkGenerationAmbiguous(w)
        BY <2>2, <1>6, <1>8
    <2>3. CASE (\E k \in Keys : ReplayAttempt(w, k)) \/ CallProvider(w) \/ WorkerCrash(w)
        <3>1. row' = row
            BY <2>3 DEF ReplayAttempt, CallProvider, WorkerCrash
        <3> QED
            BY <3>1, <1>u
    <2> QED
        BY <1>r, <2>1, <2>2, <2>3, Zenon DEF Request
<1>s. ASSUME NEW s \in Slots, Observe(s) PROVE RowsKept
    <2>1. CASE (\E k \in Keys : StartPoll(s, k) \/ StartFound(s, k))
               \/ BankAnswers(s) \/ LoseProbe(s)
        <3>1. row' = row
            BY <2>1 DEF StartPoll, StartFound, BankAnswers, LoseProbe
        <3> QED
            BY <3>1, <1>u
    <2> QED
        BY <1>s, <2>1, <1>13, <1>14, Zenon DEF Observe
<1>c. ASSUME NEW k \in Keys, CustomerPays(k) PROVE RowsKept
    BY <1>c, <1>u DEF CustomerPays
<1>d. CASE CancelPreparedSale \/ ConfirmStaticQr \/ FinalizePaidSale \/ UNCHANGED vars
    <2>1. row' = row
        BY <1>d DEF CancelPreparedSale, ConfirmStaticQr, FinalizePaidSale, vars
    <2> QED
        BY <2>1, <1>u
<1> QED
    BY <1>r, <1>s, <1>c, <1>d, <1>16 DEF Next

(* A status read is started only for an attempt that is not fenced.          *)
LEMMA ReadStep ==
    ASSUME TypeOK, [Next]_vars
    PROVE  \A s \in Slots :
               probe'[s].kind # "idle" =>
                   \/ probe[s].kind # "idle" /\ probe'[s].key = probe[s].key
                   \/ ~Inserts /\ NotFenced(probe'[s].key)
<1> DEFINE Started == \A s \in Slots :
               probe'[s].kind # "idle" =>
                   \/ probe[s].kind # "idle" /\ probe'[s].key = probe[s].key
                   \/ ~Inserts /\ NotFenced(probe'[s].key)
<1> USE DEF TypeOK
<1>i. Inserts => probe' = probe
    BY DEF Inserts, ReserveGeneration, RegisterPreflightRejection
<1>5. ASSUME probe' = probe PROVE Started
    BY <1>5
<1>1. ASSUME NEW s \in Slots, NEW k \in Keys, StartPoll(s, k) \/ StartFound(s, k)
      PROVE  Started
    <2>1. NotFenced(k) /\ probe[s].kind = "idle"
        BY <1>1 DEF StartPoll, StartFound, Pollable, DurablyReleased, NotFenced,
                    PreflightRejected, Reusable
    <2>2. \E kind \in {"poll", "found"} :
              probe' = [probe EXCEPT ![s] = [NoProbe EXCEPT !.kind = kind, !.key = k]]
        BY <1>1 DEF StartPoll, StartFound
    <2>3. probe'[s].kind # "idle" /\ probe'[s].key = k
          /\ \A r \in Slots \ {s} : probe'[r] = probe[r]
        BY <2>2 DEF NoProbe
    <2> QED
        BY <1>i, <2>1, <2>3
<1>3. ASSUME NEW s \in Slots, BankAnswers(s) PROVE Started
    BY <1>3 DEF BankAnswers, ProbeType
<1>4. ASSUME NEW s \in Slots, LoseProbe(s) \/ ApplyProviderPollResult(s) \/ ApplyFound(s)
      PROVE  Started
    BY <1>4 DEF LoseProbe, ApplyProviderPollResult, ApplyFound, NoProbe
<1>6. ASSUME NEW w \in Workers, Request(w) PROVE Started
    <2>1. probe' = probe
        BY <1>6 DEF Request, ReserveGeneration, RegisterPreflightRejection, ReplayAttempt,
                    CallProvider, WorkerCrash, FinalizeReservedGeneration,
                    RecoverKnownProviderResult, MarkGenerationAmbiguous
    <2> QED
        BY <2>1, <1>5
<1>7. ASSUME NEW k \in Keys,
             CustomerPays(k) \/ AbandonAmbiguousGeneration(k) \/ CloseExpiredReconciliation(k)
      PROVE  Started
    BY <1>7, <1>5 DEF CustomerPays, AbandonAmbiguousGeneration, CloseExpiredReconciliation
<1>8. ASSUME CancelPreparedSale \/ ConfirmStaticQr \/ FinalizePaidSale \/ UNCHANGED vars
      PROVE  Started
    <2>1. probe' = probe
        BY <1>8 DEF CancelPreparedSale, ConfirmStaticQr, FinalizePaidSale, vars
    <2> QED
        BY <2>1, <1>5
<1> HIDE DEF Started, TypeOK
<1>s. ASSUME NEW s \in Slots, Observe(s) PROVE Started
    BY <1>s, <1>1, <1>3, <1>4, Zenon DEF Observe
<1>10. Started
    BY <1>s, <1>6, <1>7, <1>8 DEF Next
<1> QED
    BY <1>10 DEF Started

(* A request that inserts nothing leaves the chain of replacements as it is. *)
LEMMA ChainKept ==
    ASSUME ReferenceInv, ReplacementInv, [Next]_vars, ~Inserts
    PROVE  ReplacementInv'
<1>1. RowsKept
    BY RowsStep DEF ReplacementInv
<1>2. StatusKept
    BY StatusStep
<1>3. Attempts' = Attempts
    BY <1>1 DEF RowsKept, Attempts
<1>4. ASSUME NEW t \in Keys PROVE Successors(t)' = Successors(t)
    BY <1>1 DEF RowsKept, Successors
<1>5. Replaced' = Replaced
    BY <1>4 DEF Replaced
<1>6. RowsOrdered'
    BY <1>1, <1>3 DEF RowsKept, RowsOrdered, ReplacementInv
<1>7. Referenced'
    BY <1>1 DEF RowsKept, Referenced
<1>8. ProbesKnow'
    <2>1. \A k : NotFenced(k) => NotFenced(k)'
        BY <1>1 DEF RowsKept, NotFenced
    <2> QED
        BY <2>1, ReadStep DEF ProbesKnow, ReplacementInv, ReferenceInv
<1>9. Chained'
    <2>1. \A t \in Keys : Issued(t) => Issued(t)'
        BY <1>1, <1>2 DEF Issued, RowsKept, StatusKept
    <2>2. \A t \in Keys : \A k \in Successors(t)' : Issued(t)' /\ t \in row'[k].earlier
        BY <1>1, <1>4, <2>1 DEF RowsKept, Chained, Successors, ReplacementInv
    <2>3. \A t \in Keys : \A j, k \in Successors(t)' : j = k
        BY <1>4 DEF Chained, ReplacementsBounded, ReplacementInv
    <2>4. Cardinality({t \in Keys : Successors(t) # {}})' < MaxIssued
        BY <1>5 DEF Chained, ReplacementsBounded, ReplacementInv, Replaced
    <2> QED
        BY <2>2, <2>3, <2>4 DEF Chained, ReplacementsBounded
<1> QED
    BY <1>6, <1>7, <1>8, <1>9 DEF ReplacementInv

(* Only the latest issued attempt is replaced, and it has no successor yet:  *)
(* one would be issued, and younger.                                         *)
LEMMA LatestHasNoSuccessor ==
    ASSUME ReplacementInv, NEW t \in Keys, ReplacementAllowed(t)
    PROVE  Successors(t) = {} /\ Issued(t)
<1>1. LatestIssued(t) /\ Issued(t)
    BY DEF ReplacementAllowed, LatestIssued
<1>2. ASSUME NEW k \in Successors(t) PROVE FALSE
    <2>1. k \in Keys /\ t \in row[k].earlier /\ ~PreflightRejected(k)
        BY DEF ReplacementInv, Chained, Successors
    <2>2. k \in Attempts /\ k # t
        BY <2>1 DEF ReplacementInv, RowsOrdered, NoRow, Attempts
    <2>3. row[k].known
        BY <2>1, <2>2 DEF ReplacementInv, Referenced, ReplacementAllowed, Attempts
    <2>4. k \in row[t].earlier
        BY <1>1, <2>2, <2>3 DEF LatestIssued, Issued, Attempts
    <2> QED
        BY <2>1, <2>4 DEF ReplacementInv, RowsOrdered
<1> QED
    BY <1>1, <1>2

(* A replaced attempt and the attempt that replaces it next are all issued,  *)
(* and a replacement is admitted only while fewer than MaxIssued are.        *)
LEMMA ReplacedFew ==
    ASSUME ReplacementInv, NEW t \in Keys, ReplacementAllowed(t)
    PROVE  \A S \in SUBSET (Replaced \cup {t}) : Cardinality(S) < MaxIssued
<1> DEFINE I == {j \in Keys : Issued(j)}
<1>1. Issued(t)
    BY LatestHasNoSuccessor
<1>2. Replaced \cup {t} \subseteq I
    BY <1>1 DEF Replaced, ReplacementInv, Chained
<1>3. I \in SUBSET Attempts /\ IsFiniteSet(Attempts)
    BY DEF Attempts, Issued, ReplacementInv, RowsOrdered
<1>4. IsFiniteSet(I)
    BY <1>3, FS_Subset
<1>5. Cardinality(I) < MaxIssued /\ Cardinality(I) \in Nat
    BY <1>4, FS_CardinalityType DEF ReplacementAllowed
<1> HIDE DEF I
<1>6. ASSUME NEW S \in SUBSET (Replaced \cup {t}) PROVE Cardinality(S) < MaxIssued
    <2>1. S \in SUBSET I
        BY <1>2
    <2>2. Cardinality(S) <= Cardinality(I) /\ IsFiniteSet(S)
        BY <1>4, <2>1, FS_Subset
    <2>3. Cardinality(S) \in Nat
        BY <2>2, FS_CardinalityType
    <2> QED
        BY <1>5, <2>2, <2>3, MaxIssuedAssumption
<1> QED
    BY <1>6

(* What an insertion writes.                                                 *)
LEMMA RowInserted ==
    ASSUME TypeOK, NEW k \in Keys, NEW t \in Keys \cup {None}, NEW status, NEW evidence,
           InsertRow(k, t, status, evidence)
    PROVE  /\ row'[k].status = status /\ ~row'[k].known /\ row'[k].evidence = evidence
           /\ row'[k].replaces = t /\ row'[k].earlier = Attempts
           /\ \A j \in Keys \ {k} : row'[j] = row[j]
BY DEF InsertRow, NoRow, TypeOK

LEMMA ChainGrows ==
    ASSUME ReferenceInv, ReplacementInv, [Next]_vars, Inserts
    PROVE  ReplacementInv'
<1>0. PICK w \in Workers, k \in Keys : \E t \in (Keys \ {k}) \cup {None} :
          ReserveGeneration(w, k, t) \/ RegisterPreflightRejection(w, k, t)
    BY DEF Inserts
<1>1. PICK t \in (Keys \ {k}) \cup {None} :
          ReserveGeneration(w, k, t) \/ RegisterPreflightRejection(w, k, t)
    BY <1>0
<1>2. t \in Keys \cup {None} /\ row[k].status = "none" /\ probe' = probe
    BY <1>1 DEF ReserveGeneration, RegisterPreflightRejection
<1>3. \/ InsertRow(k, t, "creating", "none") /\ (t \in Keys => ReplacementAllowed(t))
      \/ InsertRow(k, t, "failed", "preflight")
    BY <1>1, NoneAssumption DEF ReserveGeneration, RegisterPreflightRejection, GenerationAllowed
<1>4. /\ ~row'[k].known /\ row'[k].replaces = t /\ row'[k].earlier = Attempts
      /\ \A j \in Keys \ {k} : row'[j] = row[j]
      /\ \/ row'[k].status = "creating" /\ (t \in Keys => ReplacementAllowed(t))
         \/ row'[k].status = "failed" /\ row'[k].evidence = "preflight"
    <2>1. CASE InsertRow(k, t, "creating", "none") /\ (t \in Keys => ReplacementAllowed(t))
        BY <1>2, <2>1, RowInserted DEF ReferenceInv
    <2>2. CASE InsertRow(k, t, "failed", "preflight")
        BY <1>2, <2>2, RowInserted DEF ReferenceInv
    <2> QED
        BY <1>3, <2>1, <2>2
<1> USE DEF ReplacementInv
<1>5. Attempts' = Attempts \cup {k} /\ k \notin Attempts
    BY <1>2, <1>4 DEF Attempts
<1>6. row[k] = NoRow
    BY <1>2 DEF RowsOrdered
<1>7. RowsOrdered'
    <2>1. IsFiniteSet(Attempts')
        BY <1>5, FS_AddElement DEF RowsOrdered
    <2>2. \A j \in Keys : row'[j].status = "none" => row'[j] = NoRow
        BY <1>4 DEF RowsOrdered
    <2>3. \A j \in Keys : row'[j].earlier \subseteq Attempts' \ {j}
        BY <1>4, <1>5 DEF RowsOrdered
    <2>4. \A j \in Keys : k \notin row[j].earlier
        BY <1>5 DEF RowsOrdered
    <2>5. \A i, j \in Keys : i \in row'[j].earlier => j \notin row'[i].earlier
        BY <1>4, <1>5, <2>4 DEF RowsOrdered
    <2> QED
        BY <2>1, <2>2, <2>3, <2>5 DEF RowsOrdered
<1>8. \A j \in Keys \ {k} : PreflightRejected(j)' <=> PreflightRejected(j)
    BY <1>4 DEF PreflightRejected
<1>9. Referenced'
    BY <1>4, <1>8 DEF Referenced, PreflightRejected
<1>10. ProbesKnow'
    <2>1. \A j : NotFenced(j) => NotFenced(j)'
        BY <1>2, <1>4, <1>8 DEF NotFenced
    <2> QED
        BY <1>2, <2>1 DEF ProbesKnow
<1>11. \A j \in Keys : Issued(j) => Issued(j)'
    BY <1>2, <1>4 DEF Issued
<1>12. ASSUME NEW s \in Keys, s # t \/ row'[k].status = "failed"
       PROVE  Successors(s)' = Successors(s)
    <2>1. k \notin Successors(s)'
        BY <1>4, <1>12 DEF Successors, PreflightRejected
    <2>2. k \notin Successors(s)
        BY <1>6, <1>12, NoneAssumption DEF Successors, NoRow
    <2> QED
        BY <1>4, <1>8, <2>1, <2>2 DEF Successors
<1>13. CASE row'[k].status = "failed" \/ t \notin Keys
    <2>1. \A s \in Keys : Successors(s)' = Successors(s)
        BY <1>12, <1>13
    <2>2. \A s \in Keys : \A j \in Successors(s) : j # k
        BY <1>6, NoneAssumption DEF Successors, NoRow
    <2>3. \A s \in Keys : \A j \in Successors(s)' : Issued(s)' /\ s \in row'[j].earlier
        BY <1>4, <1>11, <2>1, <2>2 DEF Chained, Successors
    <2>4. \A s \in Keys : \A i, j \in Successors(s)' : i = j
        BY <2>1 DEF Chained, ReplacementsBounded
    <2>5. {s \in Keys : Successors(s) # {}}' = {s \in Keys : Successors(s) # {}}
        BY <2>1
    <2> QED
        BY <1>7, <1>9, <1>10, <2>3, <2>4, <2>5 DEF Chained, ReplacementsBounded
<1>14. CASE t \in Keys /\ row'[k].status = "creating"
    <2>1. ReplacementAllowed(t)
        BY <1>4, <1>14
    <2>2. Successors(t) = {} /\ Issued(t) /\ t \in Attempts
        BY <2>1, <1>14, LatestHasNoSuccessor DEF Issued, Attempts
    <2>3. Successors(t)' = {k}
        <3>1. \A j \in Keys \ {k} : j \notin Successors(t)'
            BY <1>4, <1>8, <2>2 DEF Successors
        <3>2. k \in Successors(t)'
            BY <1>4, <1>14 DEF Successors, PreflightRejected
        <3> QED
            BY <3>1, <3>2 DEF Successors
    <2>4. \A s \in Keys \ {t} : Successors(s)' = Successors(s)
        BY <1>12
    <2>5. \A s \in Keys : \A j \in Successors(s) : j # k
        BY <1>6, NoneAssumption DEF Successors, NoRow
    <2>6. \A s \in Keys : \A j \in Successors(s)' : Issued(s)' /\ s \in row'[j].earlier
        BY <1>4, <1>11, <2>2, <2>3, <2>4, <2>5 DEF Chained, Successors
    <2>7. \A s \in Keys : \A i, j \in Successors(s)' : i = j
        BY <2>3, <2>4 DEF Chained, ReplacementsBounded
    <2>8. {s \in Keys : Successors(s) # {}}' \in SUBSET (Replaced \cup {t})
        BY <2>4 DEF Replaced
    <2>9. Cardinality({s \in Keys : Successors(s) # {}})' < MaxIssued
        BY <1>14, <2>1, <2>8, ReplacedFew
    <2> QED
        BY <1>7, <1>9, <1>10, <2>6, <2>7, <2>9 DEF Chained, ReplacementsBounded
<1> QED
    BY <1>4, <1>13, <1>14

LEMMA ReplacementInit == Init => ReplacementInv
<1> SUFFICES ASSUME Init PROVE ReplacementInv
    OBVIOUS
<1>1. \A k \in Keys : row[k] = NoRow
    BY DEF Init
<1>2. Attempts = {}
    BY <1>1 DEF Attempts, NoRow
<1>3. \A t \in Keys : Successors(t) = {}
    BY <1>1, NoneAssumption DEF Successors, NoRow
<1>4. {t \in Keys : Successors(t) # {}} = {}
    BY <1>3
<1>5. RowsOrdered /\ Referenced
    <2>1. \A k \in Keys : row[k].status = "none" /\ row[k].earlier = {}
        BY <1>1 DEF NoRow
    <2>2. IsFiniteSet(Attempts)
        BY <1>2, FS_EmptySet
    <2> QED
        BY <1>1, <2>1, <2>2, Zenon DEF RowsOrdered, Referenced
<1>6. ProbesKnow
    BY DEF Init, ProbesKnow, NoProbe
<1>7. Chained
    BY <1>3, <1>4, FS_EmptySet, MaxIssuedAssumption DEF Chained, ReplacementsBounded
<1> QED
    BY <1>5, <1>6, <1>7 DEF ReplacementInv

LEMMA ReplacementStep ==
    ReferenceInv /\ ReplacementInv /\ [Next]_vars => ReplacementInv'
BY ChainKept, ChainGrows

(* However answers are lost, late or found by support, a displayed QR is     *)
(* replaced once, and a sale has fewer than MaxIssued replaced attempts.     *)
THEOREM ReplacementsAreFew == Spec => []ReplacementsBounded
<1>1. ReplacementInv => ReplacementsBounded
    BY DEF ReplacementInv, Chained
<1> QED
    BY <1>1, ReferenceInit, ReferenceStep, ReplacementInit, ReplacementStep, PTL DEF Spec
=============================================================================
