---------------------------- MODULE ProjectionRetry ----------------------------
(***************************************************************************)
(* One FB Projection Log row of a submitted FB Order, its Sales Invoice or *)
(* its FB Shift projection, and everybody who retries it: the scheduler's  *)
(* batches, support's forced batches and the till.                         *)
(*                                                                         *)
(* A batch holds a Redis lock that expires, scans the failed rows without  *)
(* a lock, claims a row with a lease that expires, and commits the claim   *)
(* before it runs the projection.  Running, and recording the result, is   *)
(* one transaction under the row lock.  Clocks are left out: a lease may   *)
(* expire at any time, and a batch, whose clock stopped when it began, may *)
(* write a lease that has expired already or take an expired one as live.  *)
(***************************************************************************)
EXTENDS Naturals

CONSTANTS
    Workers,     \* scheduler and support batches; also their lease tokens
    MaxRetries,  \* kopos_projection_retry_max_attempts
    CountBound,  \* no forced batch or till retry begins from this count on
    None         \* no lease, no lock holder

ASSUME WorkersAssumption == None \notin Workers
ASSUME RetriesAssumption == MaxRetries \in Nat \ {0} /\ CountBound \in Nat

VARIABLES
    log,     \* the row: state, retry_count, lease_token and whether it is live
    holder,  \* the batch that holds the Redis lock
    batch    \* where each batch is, and what it has read of the row

retryVars == <<log, holder, batch>>

LogType == [state : {"absent", "Failed", "Succeeded"},
            count : Nat,
            token : Workers \cup {None},
            live  : BOOLEAN,
            dead  : BOOLEAN]

BatchType == [pc    : {"idle", "scanned", "claimed", "raised", "releasing"},
              force : BOOLEAN,
              count : Nat,
              held  : BOOLEAN]

NoBatch == [pc |-> "idle", force |-> FALSE, count |-> 0, held |-> FALSE]

RetryTypeOK ==
    /\ log \in LogType
    /\ holder \in Workers \cup {None}
    /\ batch \in [Workers -> BatchType]

RetryInit ==
    /\ log = [state |-> "absent", count |-> 0, token |-> None, live |-> FALSE, dead |-> FALSE]
    /\ holder = None
    /\ batch = [w \in Workers |-> NoBatch]

-----------------------------------------------------------------------------
(* FBOrder.on_submit: the row is created and gets its first result in the    *)
(* transaction of the order; a failure does not undo the sale.               *)
SubmitOrder ==
    /\ log.state = "absent"
    /\ log' \in {[log EXCEPT !.state = "Succeeded"],
                 [log EXCEPT !.state = "Failed", !.count = 1]}
    /\ UNCHANGED <<holder, batch>>

(* _acquire_worker_lock and the unlocked scan for candidates. *)
StartBatch(w, force) ==
    /\ batch[w].pc = "idle"
    /\ holder = None
    /\ log.state = "Failed"
    /\ force => log.count < CountBound
    /\ holder' = w
    /\ batch' = [batch EXCEPT ![w] = [pc |-> "scanned", force |-> force, count |-> log.count,
                                      held |-> log.dead \/ log.live]]
    /\ UNCHANGED log

(* _release_worker_lock: compare and delete. *)
EndBatch(w) ==
    /\ batch' = [batch EXCEPT ![w] = NoBatch]
    /\ holder' = IF holder = w THEN None ELSE holder

(* A candidate that is dead-lettered, leased or not due yet. *)
SkipCandidate(w) ==
    /\ batch[w].pc = "scanned" /\ ~batch[w].force
    /\ batch[w].count < MaxRetries
    /\ EndBatch(w)
    /\ UNCHANGED log

(* Mutant: an exhausted row is only skipped. *)
MarkDeadLetterNever(w) ==
    /\ batch[w].pc = "scanned" /\ ~batch[w].force
    /\ batch[w].count >= MaxRetries
    /\ EndBatch(w)
    /\ UNCHANGED log

(* _mark_dead_letter: the scan decides to come here, the locked row whether   *)
(* anything is written.                                                      *)
MarkDeadLetter(w) ==
    /\ batch[w].pc = "scanned" /\ ~batch[w].force
    /\ batch[w].count >= MaxRetries
    /\ \/ /\ log.state = "Failed" /\ log.count >= MaxRetries
          /\ ~log.dead /\ ~log.live
          /\ log' = [log EXCEPT !.dead = TRUE, !.token = None]
       \/ /\ log.state # "Failed" \/ log.count < MaxRetries \/ log.dead \/ log.token # None
          /\ UNCHANGED log
    /\ EndBatch(w)

(* Mutant: the lease is not looked at. *)
ClaimableOverLease == log.state = "Failed"

(* _claim_projection, a conditional UPDATE committed on its own. *)
Claimable == log.state = "Failed" /\ (log.token = None \/ ~log.live)

ClaimProjection(w) ==
    /\ batch[w].pc = "scanned"
    /\ batch[w].force \/ (batch[w].count < MaxRetries /\ ~batch[w].held)
    /\ \/ /\ Claimable
          /\ \E live \in BOOLEAN : log' = [log EXCEPT !.token = w, !.live = live]
          /\ batch' = [batch EXCEPT ![w].pc = "claimed"]
          /\ UNCHANGED holder
       \/ /\ log.state # "Failed" \/ log.token # None
          /\ UNCHANGED log
          /\ EndBatch(w)

Freed(row) == [row EXCEPT !.token = None, !.live = FALSE]

(* A projection handler runs, and what it leaves is recorded: the retry is    *)
(* counted whether it succeeds or not.                                       *)
Retried(row) == {[row EXCEPT !.count = @ + 1],
                 [row EXCEPT !.count = @ + 1, !.state = "Succeeded"]}

(* _finalize_projection_attempt, while the token is the batch's own. *)
Finalized(row) ==
    [Freed(row) EXCEPT !.dead = IF row.state = "Succeeded" THEN FALSE
                                ELSE row.count >= MaxRetries \/ row.dead]

(* _retry_projection_log with the lease preserved, then the finalization in  *)
(* the same transaction: a batch that lost its lease has all of it undone,   *)
(* and a success found already recorded is reported again.                   *)
RunProjection(w) ==
    /\ batch[w].pc = "claimed"
    /\ IF log.token # w THEN log' = log
       ELSE IF log.state = "Succeeded" THEN log' = Finalized(log)
       ELSE \E row \in Retried(log) : log' = Finalized(row)
    /\ EndBatch(w)

(* The run throws (a deadlock, a lock wait timeout) and is rolled back. *)
RunRaises(w) ==
    /\ batch[w].pc = "claimed"
    /\ batch' = [batch EXCEPT ![w].pc = "raised"]
    /\ UNCHANGED <<log, holder>>

(* _release_failed_claim reads the count and the token without a lock ...    *)
ReadFailedClaim(w) ==
    /\ batch[w].pc = "raised"
    /\ IF log.token = w
       THEN /\ batch' = [batch EXCEPT ![w].pc = "releasing", ![w].count = log.count]
            /\ UNCHANGED holder
       ELSE EndBatch(w)
    /\ UNCHANGED log

(* ... and then writes, without looking at the row again. *)
ReleaseFailedClaim(w) ==
    LET count == batch[w].count + 1 IN
    /\ batch[w].pc = "releasing"
    /\ log' = [Freed(log) EXCEPT !.state = "Failed",
                                 !.count = count,
                                 !.dead = count >= MaxRetries \/ @]
    /\ EndBatch(w)

(* The batch's process dies: lock and lease stay until they expire. *)
BatchCrash(w) ==
    /\ batch[w].pc # "idle"
    /\ batch' = [batch EXCEPT ![w] = NoBatch]
    /\ UNCHANGED <<log, holder>>

LockExpires == holder # None /\ holder' = None /\ UNCHANGED <<log, batch>>
LeaseExpires == log.live /\ log' = [log EXCEPT !.live = FALSE] /\ UNCHANGED <<holder, batch>>

(* Mutant: a projection that succeeded is run again. *)
RetryFromTillAgain ==
    /\ log.state # "absent"
    /\ log.count < CountBound
    /\ log' \in Retried([log EXCEPT !.state = "Failed"])
    /\ UNCHANGED <<holder, batch>>

(* retry_failed_projections of the till: under the row lock, whoever has a    *)
(* lease; a success clears the lease and the dead letter, a failure keeps    *)
(* both.                                                                     *)
RetryFromTill ==
    /\ log.state = "Failed"
    /\ log.count < CountBound
    /\ \E row \in Retried(log) :
          log' = IF row.state = "Succeeded" THEN [Freed(row) EXCEPT !.dead = FALSE] ELSE row
    /\ UNCHANGED <<holder, batch>>

-----------------------------------------------------------------------------
BatchStep(w) ==
    \/ SkipCandidate(w)
    \/ MarkDeadLetter(w)
    \/ ClaimProjection(w)
    \/ RunProjection(w)
    \/ RunRaises(w)
    \/ ReadFailedClaim(w)
    \/ ReleaseFailedClaim(w)
    \/ BatchCrash(w)

RetryNext ==
    \/ SubmitOrder
    \/ \E w \in Workers :
          \/ \E force \in BOOLEAN : StartBatch(w, force)
          \/ BatchStep(w)
    \/ LockExpires
    \/ LeaseExpires
    \/ RetryFromTill

RetrySpec == RetryInit /\ [][RetryNext]_retryVars

(* Leases and locks expire and every batch ends or dies.  The scheduler      *)
(* starts batches again and again, the backoff of a row passes, a batch that *)
(* began after a lease expired sees it expired, and not all claimed runs end *)
(* in an exception, a crash or a lost lease.                                 *)
Fairness ==
    /\ WF_retryVars(LockExpires)
    /\ WF_retryVars(LeaseExpires)
    /\ \A w \in Workers : WF_retryVars(BatchStep(w))
    /\ SF_retryVars(\E w \in Workers : StartBatch(w, FALSE))
    /\ SF_retryVars(\E w \in Workers : MarkDeadLetter(w) /\ log'.dead)
    /\ SF_retryVars(\E w \in Workers : ClaimProjection(w) /\ batch'[w].pc = "claimed")
    /\ SF_retryVars(\E w \in Workers : log.token = w /\ RunProjection(w))

FairSpec == RetrySpec /\ Fairness

-----------------------------------------------------------------------------
(* A support marker is never left on a projection that is not failed, though *)
(* the scan that leads to it is stale and a till may succeed in between.     *)
DeadLetterOnlyFailed == log.dead => log.state = "Failed"

(* A success the till or a batch recorded is undone by no other retry,       *)
(* overlapping or later.  A late release, which writes the row without the   *)
(* lock, may; but only a batch whose run threw releases.                     *)
SuccessSurvivesRetries ==
    [][log.state = "Succeeded" =>
          log'.state = "Succeeded" \/ \E w \in Workers : ReleaseFailedClaim(w)]_retryVars

(* The claim of a batch about to run is taken from it, while its lease is    *)
(* live, by a success only: not by another batch after the Redis lock        *)
(* expired, and not by a dead letter.                                        *)
ClaimNotStolen ==
    [][\A w \in Workers :
          batch[w].pc = "claimed" /\ log.token = w /\ log.live /\ log'.token # w =>
              \/ batch'[w].pc # "claimed"
              \/ log'.state = "Succeeded"
              \/ \E v \in Workers : ReleaseFailedClaim(v)]_retryVars

(* A failed projection is not forgotten: it succeeds, or is handed to people *)
(* as a dead letter, through crashed batches and stale claims.               *)
FailedIsSettled == log.state = "Failed" ~> log.state = "Succeeded" \/ log.dead

=============================================================================
