-------------------------- MODULE InventoryProjection --------------------------
(***************************************************************************)
(* The ingredient stock issue of a submitted sale and of its remakes: the  *)
(* job queued behind each FB Order, the recovery batches that run every    *)
(* five minutes, remake requests, voids, and workers that die.             *)
(*                                                                         *)
(* A projection commits three times: the claim of its log row, the frozen  *)
(* recipe of every line, and the Stock Entry together with its result.  A  *)
(* failure is recorded by a transaction of its own.  Clocks are left out:  *)
(* a lease may have lapsed whenever somebody asks, and the Redis lock of a *)
(* batch may expire under it.  Quantities are left out: an issue either    *)
(* succeeds or raises (stock is short, an account is missing).             *)
(***************************************************************************)
EXTENDS Naturals, Sequences, FiniteSets

CONSTANTS
    Orders,      \* FB Orders; also the names of their queued jobs
    KindsOf,     \* what an order may be: see Kinds
    Remakes,     \* sold lines, each remade at most once
    OrderOf,     \* the order of a remade line
    Batches,     \* runs of recover_inventory_projections
    BatchSize,   \* DEFAULT_BATCH_SIZE
    MaxRetries,  \* kopos_inventory_projection_retry_max_attempts
    MaxDeaths,   \* bound: workers that die
    None

Runners == Orders \cup Batches
Sources == Orders \cup Remakes

\* Sold before the warehouse's cutover; without, or with, recipes to issue.
Kinds == {"old", "plain", "recipe"}

ASSUME NamesAssumption ==
    /\ Orders \cap Batches = {} /\ Orders \cap Remakes = {}
    /\ None \notin Runners \cup Sources
ASSUME OrdersAssumption ==
    /\ KindsOf \in [Orders -> SUBSET Kinds]
    /\ OrderOf \in [Remakes -> Orders]
ASSUME BoundsAssumption ==
    BatchSize \in Nat \ {0} /\ MaxRetries \in Nat \ {0} /\ MaxDeaths \in Nat

VARIABLES
    order,   \* FB Order: status, stock_status, ingredient_stock_entry, frozen recipes
    age,     \* the orders by their modified stamp, oldest first
    log,     \* FB Projection Log of every order and remake
    remake,  \* FB Remake Event: inventory_status, whether it names its entry
    issues,  \* how many Material Issues were submitted for a source
    run,     \* where each job and each batch is, and at which order or remake
    batch,   \* what a batch has read: orders to do, results, remakes to do
    lock,    \* the batch that holds the Redis lock
    deaths

vars == <<order, age, log, remake, issues, run, batch, lock, deaths>>

OrderType == [status : {"absent", "Submitted", "Cancelled"},
              kind   : Kinds,
              stock  : {"Pending", "Posted", "Failed"},
              entry  : Sources \cup {None},
              frozen : BOOLEAN]

LogType == [state : {"absent", "Processing", "Failed", "Succeeded", "Dead Letter"},
            count : Nat,
            due   : BOOLEAN,
            token : Runners \cup {None}]

RemakeType == [stock : {"absent", "Posted", "Exception"}, entry : BOOLEAN]

RunType == [pc    : {"idle", "queued", "orders", "claimed", "frozen", "failed",
                     "remakes", "remake"},
            at    : Sources \cup {None}]

\* What a batch's transaction saw of a remake before it had the log's row lock.
SeenType == [count : Nat, entry : BOOLEAN, frozen : BOOLEAN]

NoLog == [state |-> "absent", count |-> 0, due |-> TRUE, token |-> None]
Idle == [pc |-> "idle", at |-> None]
NoSeen == [count |-> 0, entry |-> FALSE, frozen |-> FALSE]
NoBatch == [todo |-> <<>>, found |-> 0, remakes |-> {}, seen |-> NoSeen]

TypeOK ==
    /\ order \in [Orders -> OrderType]
    /\ age \in Seq(Orders)
    /\ log \in [Sources -> LogType]
    /\ remake \in [Remakes -> RemakeType]
    /\ issues \in [Sources -> Nat]
    /\ run \in [Runners -> RunType]
    /\ batch \in [Batches -> [todo : Seq(Orders), found : Nat, remakes : SUBSET Remakes,
                              seen : SeenType]]
    /\ lock \in Batches \cup {None}
    /\ deaths \in Nat

Init ==
    /\ order = [o \in Orders |-> [status |-> "absent", kind |-> "old", stock |-> "Pending",
                                  entry |-> None, frozen |-> FALSE]]
    /\ age = <<>>
    /\ log = [s \in Sources |-> NoLog]
    /\ remake = [r \in Remakes |-> [stock |-> "absent", entry |-> FALSE]]
    /\ issues = [s \in Sources |-> 0]
    /\ run = [p \in Runners |-> Idle]
    /\ batch = [b \in Batches |-> NoBatch]
    /\ lock = None
    /\ deaths = 0

-----------------------------------------------------------------------------
(* The sale commits, then its job is queued; a queue that is down loses it.  *)
SubmitOrder(o) ==
    /\ order[o].status = "absent"
    /\ \E k \in KindsOf[o] :
          order' = [order EXCEPT ![o] = [@ EXCEPT !.status = "Submitted", !.kind = k]]
    /\ age' = Append(age, o)
    /\ \/ run' = [run EXCEPT ![o] = [pc |-> "queued", at |-> o]]
       \/ UNCHANGED run
    /\ UNCHANGED <<log, remake, issues, batch, lock, deaths>>

(* A void takes the order out of the scan and leaves its inventory alone.    *)
VoidOrder(o) ==
    /\ order[o].status = "Submitted"
    /\ order' = [order EXCEPT ![o].status = "Cancelled"]
    /\ UNCHANGED <<age, log, remake, issues, run, batch, lock, deaths>>

(* process_remake and FBRemakeEvent.on_submit: one transaction; what goes    *)
(* wrong with the stock is kept on the event and does not undo it.           *)
RequestRemake(r) ==
    LET o == OrderOf[r] IN
    /\ order[o].status = "Submitted"
    /\ remake[r].stock = "absent"
    /\ \/ /\ order[o].frozen
          /\ remake' = [remake EXCEPT ![r] = [stock |-> "Posted", entry |-> TRUE]]
          /\ issues' = [issues EXCEPT ![r] = @ + 1]
       \/ /\ remake' = [remake EXCEPT ![r].stock = "Exception"]
          /\ UNCHANGED issues
    /\ UNCHANGED <<order, age, log, run, batch, lock, deaths>>

-----------------------------------------------------------------------------
(* project_inventory_order, run by a queued job or by a batch.               *)

\* A job ends; a batch goes on to its next order and counts the result.
Leave(p) ==
    /\ run' = [run EXCEPT ![p] = IF p \in Batches THEN [pc |-> "orders", at |-> None]
                                                  ELSE Idle]
    /\ batch' = IF p \in Batches THEN [batch EXCEPT ![p].found = @ + 1] ELSE batch

\* Mutant: a dead letter is claimed like any other row.
ClaimableForever(o) == log[o].state \in {"absent", "Failed", "Dead Letter"} /\ log[o].due

\* A lease may always have lapsed, so what stops a claim is the row's state.
Claimable(o) == log[o].state \in {"absent", "Failed"} /\ log[o].due

\* A job has one order; a batch takes the oldest it has not looked at.
Delivered(p, o) ==
    \/ p = o /\ run[p].pc = "queued"
    \/ /\ p \in Batches /\ run[p].pc = "orders"
       /\ batch[p].todo # <<>> /\ batch[p].found < BatchSize
       /\ o = Head(batch[p].todo)

(* create_projection_log and _claim_log, committed together.                 *)
Claim(p, o) ==
    /\ Delivered(p, o)
    /\ order[o].kind # "old" /\ Claimable(o)
    /\ log' = [log EXCEPT ![o] = [@ EXCEPT !.state = "Processing", !.token = p]]
    /\ order' = [order EXCEPT ![o].stock = "Pending"]
    /\ run' = [run EXCEPT ![p] = [pc |-> "claimed", at |-> o]]
    /\ batch' = IF p \in Batches THEN [batch EXCEPT ![p].todo = Tail(@)] ELSE batch
    /\ UNCHANGED <<age, remake, issues, lock, deaths>>

\* "Not Evaluated" before the cutover, else the state of a row it cannot claim.
NotClaimed(p, o) ==
    /\ Delivered(p, o)
    /\ order[o].kind = "old" \/ ~Claimable(o)
    /\ run' = [run EXCEPT ![p] = IF p \in Batches THEN [pc |-> "orders", at |-> None] ELSE Idle]
    /\ batch' = IF p \notin Batches THEN batch
                ELSE [batch EXCEPT ![p].todo = Tail(@),
                          ![p].found = IF order[o].kind = "old" \/ log[o].state \in {"Succeeded", "Failed"}
                                       THEN @ + 1 ELSE @]
    /\ UNCHANGED <<order, age, log, remake, issues, lock, deaths>>

(* _prepare_frozen_resolved_sales commits every line's recipe, or raises.    *)
Freeze(p) ==
    /\ run[p].pc = "claimed"
    /\ \/ /\ order' = [order EXCEPT ![run[p].at].frozen = order[run[p].at].kind = "recipe"]
          /\ run' = [run EXCEPT ![p].pc = "frozen"]
       \/ /\ run' = [run EXCEPT ![p].pc = "failed"]
          /\ UNCHANGED order
    /\ UNCHANGED <<age, log, remake, issues, batch, lock, deaths>>

\* The entry the order names, the one with its projection id, or any Material
\* Issue with its custom_fb_order, which a remake's entry has as well.
Found(o) ==
    IF order[o].entry # None THEN {order[o].entry}
    ELSE IF issues[o] > 0 THEN {o}
    ELSE {r \in Remakes : OrderOf[r] = o /\ issues[r] > 0}

\* Mutant: a found entry is believed.
EquivalentByOrder(o, e) == TRUE

\* _validate_stock_entry_equivalence: a remake's entry names no FB Shift.
Equivalent(o, e) == e = o

\* Moved to the end by the modified stamp of its new reference.
Touched(o) == Append(SelectSeq(age, LAMBDA a : a # o), o)

\* _finalize_success: only the run whose lease the row still carries.
Succeed(p, o, entry) ==
    /\ log[o].token = p
    /\ log' = [log EXCEPT ![o] = [@ EXCEPT !.state = "Succeeded", !.due = TRUE, !.token = None]]
    /\ order' = [order EXCEPT ![o] = [@ EXCEPT !.stock = "Posted",
                                               !.entry = IF entry = None THEN order[o].entry ELSE entry]]
    /\ age' = IF entry = None THEN age ELSE Touched(o)
    /\ Leave(p)

IssueNothing(p) ==
    LET o == run[p].at IN
    /\ run[p].pc = "frozen" /\ order[o].kind = "plain"
    /\ Succeed(p, o, None)
    /\ UNCHANGED <<remake, issues, lock, deaths>>

\* What can become the order's entry: a new one, or the one that was found.
Issuable(o) ==
    IF Found(o) = {} THEN {o} ELSE {e \in Found(o) : Found(o) = {e} /\ Equivalent(o, e)}

\* Mutant: the Stock Entry is committed before the log's result.
IssueEarly(p) ==
    LET o == run[p].at IN
    /\ run[p].pc = "frozen" /\ order[o].kind = "recipe"
    /\ Found(o) = {}
    /\ issues' = [issues EXCEPT ![o] = @ + 1]
    /\ run' = [run EXCEPT ![p].pc = "failed"]
    /\ UNCHANGED <<order, age, log, remake, batch, lock, deaths>>

(* create_ingredient_stock_entry and _finalize_success, committed together.  *)
Issue(p) ==
    LET o == run[p].at IN
    /\ run[p].pc = "frozen" /\ order[o].kind = "recipe"
    /\ \E e \in Issuable(o) : Succeed(p, o, e)
    /\ issues' = [issues EXCEPT ![o] = IF Found(o) = {} THEN @ + 1 ELSE @]
    /\ UNCHANGED <<remake, lock, deaths>>

\* Stock is short, or what was found is not the order's own issue.
IssueFails(p) ==
    /\ run[p].pc = "frozen" /\ order[run[p].at].kind = "recipe"
    /\ run' = [run EXCEPT ![p].pc = "failed"]
    /\ UNCHANGED <<order, age, log, remake, issues, batch, lock, deaths>>

\* Mutant: the retry budget is never counted.
FailedLogUncounted(l) ==
    [l EXCEPT !.state = "Failed", !.due = FALSE, !.token = None]

\* What one more failure makes of a log row: a dead letter has no next retry.
FailedLog(l) ==
    IF l.count + 1 >= MaxRetries
    THEN [state |-> "Dead Letter", count |-> l.count + 1, due |-> TRUE, token |-> None]
    ELSE [state |-> "Failed", count |-> l.count + 1, due |-> FALSE, token |-> None]

(* _record_failure, after the rollback of what was done since the recipe.    *)
RecordFailure(p) ==
    LET o == run[p].at IN
    /\ run[p].pc = "failed"
    /\ log[o].token = p
    /\ log' = [log EXCEPT ![o] = FailedLog(@)]
    /\ order' = [order EXCEPT ![o].stock =
                     IF FailedLog(log[o]).state = "Dead Letter" THEN "Failed" ELSE "Pending"]
    /\ Leave(p)
    /\ UNCHANGED <<age, remake, issues, lock, deaths>>

Project(p) ==
    \/ \E o \in Orders : Claim(p, o) \/ NotClaimed(p, o)
    \/ Freeze(p) \/ IssueNothing(p) \/ Issue(p) \/ IssueFails(p) \/ RecordFailure(p)

-----------------------------------------------------------------------------
(* recover_inventory_projections.                                            *)

\* SET NX with a TTL, then the oldest submitted orders.
StartBatch(b) ==
    /\ run[b].pc = "idle" /\ lock = None
    /\ lock' = b
    /\ run' = [run EXCEPT ![b].pc = "orders"]
    /\ LET submitted == SelectSeq(age, LAMBDA o : order[o].status = "Submitted")
           limit == IF Len(submitted) < 4 * BatchSize THEN Len(submitted) ELSE 4 * BatchSize
       IN batch' = [batch EXCEPT ![b] = [NoBatch EXCEPT !.todo = SubSeq(submitted, 1, limit)]]
    /\ UNCHANGED <<order, age, log, remake, issues, deaths>>

\* recover_remake_inventory_projections: its scan, with results of its own.
ScanRemakes(b) ==
    /\ run[b].pc = "orders"
    /\ batch[b].todo = <<>> \/ batch[b].found >= BatchSize
    /\ run' = [run EXCEPT ![b].pc = "remakes"]
    /\ batch' = [batch EXCEPT ![b] = [NoBatch EXCEPT
                     !.remakes = {r \in Remakes : remake[r].stock = "Exception"}]]
    /\ UNCHANGED <<order, age, log, remake, issues, lock, deaths>>

\* Mutant: a remake without a log is left alone.
RetriedIfLogged(r) == log[r].state = "Failed" /\ log[r].due

Retried(r) == log[r].state \notin {"Succeeded", "Dead Letter"} /\ log[r].due

SkipRemake(b, r) ==
    /\ run[b].pc = "remakes" /\ batch[b].found < BatchSize
    /\ r \in batch[b].remakes /\ ~Retried(r)
    /\ batch' = [batch EXCEPT ![b].remakes = @ \ {r}]
    /\ UNCHANGED <<order, age, log, remake, issues, run, lock, deaths>>

\* The transaction's snapshot is from before the log's row lock.
ReadRemake(b, r) ==
    /\ run[b].pc = "remakes" /\ batch[b].found < BatchSize
    /\ r \in batch[b].remakes /\ Retried(r)
    /\ run' = [run EXCEPT ![b] = [pc |-> "remake", at |-> r]]
    /\ batch' = [batch EXCEPT ![b].remakes = @ \ {r},
                              ![b].seen = [count |-> log[r].count, entry |-> remake[r].entry,
                                           frozen |-> order[OrderOf[r]].frozen]]
    /\ UNCHANGED <<order, age, log, remake, issues, lock, deaths>>

RemakeDone(b) ==
    /\ run' = [run EXCEPT ![b] = [pc |-> "remakes", at |-> None]]
    /\ batch' = [batch EXCEPT ![b].seen = NoSeen, ![b].found = @ + 1]
    /\ UNCHANGED <<order, age, lock, deaths>>

RemakePosts(b) ==
    LET r == run[b].at
        seen == batch[b].seen
    IN
    /\ run[b].pc = "remake"
    /\ seen.entry \/ seen.frozen
    /\ issues' = [issues EXCEPT ![r] = IF seen.entry THEN @ ELSE @ + 1]
    /\ remake' = [remake EXCEPT ![r] = [stock |-> "Posted", entry |-> TRUE]]
    /\ log' = [log EXCEPT ![r] = [@ EXCEPT !.state = "Succeeded", !.due = TRUE]]
    /\ RemakeDone(b)

RemakeFails(b) ==
    LET r == run[b].at
        seen == batch[b].seen
    IN
    /\ run[b].pc = "remake"
    /\ ~seen.entry
    /\ remake' = [remake EXCEPT ![r].stock = "Exception"]
    /\ log' = [log EXCEPT ![r] = FailedLog([NoLog EXCEPT !.count = seen.count])]
    /\ UNCHANGED issues
    /\ RemakeDone(b)

EndBatch(b) ==
    /\ run[b].pc = "remakes"
    /\ batch[b].remakes = {} \/ batch[b].found >= BatchSize
    /\ run' = [run EXCEPT ![b] = Idle]
    /\ batch' = [batch EXCEPT ![b] = NoBatch]
    /\ lock' = IF lock = b THEN None ELSE lock
    /\ UNCHANGED <<order, age, log, remake, issues, deaths>>

BatchStep(b) ==
    \/ ScanRemakes(b) \/ \E r \in Remakes : SkipRemake(b, r) \/ ReadRemake(b, r)
    \/ RemakePosts(b) \/ RemakeFails(b) \/ EndBatch(b)

-----------------------------------------------------------------------------
\* next_retry_at passes.
RetryDue(s) ==
    /\ log[s].state = "Failed" /\ ~log[s].due
    /\ log' = [log EXCEPT ![s].due = TRUE]
    /\ UNCHANGED <<order, age, remake, issues, run, batch, lock, deaths>>

ExpireLock ==
    /\ lock # None
    /\ lock' = None
    /\ UNCHANGED <<order, age, log, remake, issues, run, batch, deaths>>

\* A worker is killed: nothing re-queues its job, its transaction is undone.
Die(p) ==
    /\ run[p].pc # "idle"
    /\ deaths < MaxDeaths
    /\ deaths' = deaths + 1
    /\ run' = [run EXCEPT ![p] = Idle]
    /\ batch' = IF p \in Batches THEN [batch EXCEPT ![p] = NoBatch] ELSE batch
    /\ UNCHANGED <<order, age, log, remake, issues, lock>>

Next ==
    \/ \E o \in Orders : SubmitOrder(o) \/ VoidOrder(o)
    \/ \E r \in Remakes : RequestRemake(r)
    \/ \E p \in Runners : Project(p) \/ Die(p)
    \/ \E b \in Batches : StartBatch(b) \/ BatchStep(b)
    \/ \E s \in Sources : RetryDue(s)
    \/ ExpireLock

Spec == Init /\ [][Next]_vars

\* Live workers go on, the scheduler starts batches, time passes.
Fairness ==
    /\ WF_vars(\E o \in Orders : Project(o))
    /\ \A b \in Batches : WF_vars(Project(b) \/ BatchStep(b))
    /\ WF_vars(\E b \in Batches : StartBatch(b))
    /\ WF_vars(\E s \in Sources : RetryDue(s))
    /\ WF_vars(ExpireLock)

FairSpec == Spec /\ Fairness

-----------------------------------------------------------------------------
(* An order's Material Issue, its projection log and its stock status agree  *)
(* at every commit: one entry, named by the order, exactly when the log has  *)
(* succeeded, whatever died in between and whoever else ran the projection.  *)
(* No order passes off its remake's entry as its own, though                 *)
(* stock_issue_service._find_legacy_stock_issue finds that one too.          *)
BooksAgree ==
    \A o \in Orders : order[o].kind = "recipe" =>
        /\ issues[o] = IF log[o].state = "Succeeded" THEN 1 ELSE 0
        /\ order[o].entry = IF log[o].state = "Succeeded" THEN o ELSE None
        /\ order[o].stock = "Posted" <=> log[o].state = "Succeeded"
        /\ order[o].stock = "Failed" <=> log[o].state = "Dead Letter"

(* A projection that has succeeded or is a dead letter stays as it is for    *)
(* every job and batch that comes later, and the count of failures, which    *)
(* ends the retries of a sale that can never be projected, never falls.      *)
SettledStays ==
    [][\A o \in Orders : /\ log[o].state \in {"Succeeded", "Dead Letter"} => log'[o] = log[o]
                         /\ log'[o].count >= log[o].count]_vars

\* A worker died between its claim and its result.
Abandoned(o) ==
    /\ log[o].state = "Processing"
    /\ \A p \in Runners : run[p].at = o => run[p].pc \notin {"claimed", "frozen", "failed"}

Settled(o) == log[o].state \in {"Succeeded", "Dead Letter"}

\* What is still to be projected: sales after the cutover that are not voided,
\* and remakes whose ingredients could not be issued.
Pending ==
    {o \in Orders : order[o].status = "Submitted" /\ order[o].kind # "old"
                     /\ ~Settled(o) /\ ~Abandoned(o)}
    \cup {r \in Remakes : remake[r].stock = "Exception" /\ log[r].state # "Dead Letter"}

(* Every sale and every remake is projected or its failure becomes a dead    *)
(* letter, also when the queue lost a job or a batch died, unless a worker   *)
(* died with the claim of a sale, which nothing takes over.                  *)
EverythingSettles == []<>(Pending = {})

(* fb_order.py:600: when the queue is out "The recovery scheduler will       *)
(* discover the submitted order later."                                      *)
RecoveryDiscovers ==
    \A o \in Orders :
        order[o].status = "Submitted" /\ order[o].kind # "old" ~>
            log[o].state # "absent" \/ order[o].status = "Cancelled"

=============================================================================
