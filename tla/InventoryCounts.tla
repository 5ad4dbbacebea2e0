--------------------------- MODULE InventoryCounts ---------------------------
(***************************************************************************)
(* The blind counts of one stock group of one outlet: the scheduler        *)
(* assigns a task at the watermark of the stock ledger, a member of staff  *)
(* claims it and sends what they counted, a director reviews a large       *)
(* difference, and a manager's approval turns the observation into a       *)
(* submitted Stock Reconciliation.                                         *)
(*                                                                         *)
(* The watermark is the latest write to the warehouse's ledger; the book   *)
(* quantity changes with it only, so the difference between a count and    *)
(* the book is fixed when the count is sent.  A confirmation reads all its *)
(* rows in one snapshot, taken before it waits for its locks.              *)
(***************************************************************************)
EXTENDS Naturals, FiniteSets

CONSTANTS Tasks,      \* count tasks
          Commands,   \* confirmation commands of the tills
          Tokens,     \* approvals a manager may give
          Workers,    \* confirmation requests in flight
          MaxDays,    \* bound: scheduler days
          MaxMark,    \* bound: other stock moves stop at this watermark
          Null

ASSUME CountAssumption ==
    /\ MaxDays \in Nat /\ MaxMark \in Nat
    /\ Null \notin Tasks \cup Commands

VARIABLES
    day,       \* today, for the scheduler
    mark,      \* MAX(modified) of the warehouse's Stock Ledger Entries
    task,      \* FB Inventory Count Task rows
    obs,       \* FB Inventory Count Observation rows
    problem,   \* tasks with an open FB Inventory Exception
    token,     \* manager approval rows
    request,   \* confirmations in flight, with their snapshots
    confirmed, \* history: approvals that have confirmed a count
    entries    \* history: how often each correction entered the ledger

countVars == <<day, mark, task, obs, problem, token, request, confirmed, entries>>

Differences == 0 .. 2          \* none, within the ceiling, beyond it
Ceiling == 1                   \* count_variance_percent_ceiling and value ceiling

NoTask == [status |-> "none", mark |-> 0, day |-> 0]
NoObs == [status |-> "none", diff |-> 0, doc |-> "none", director |-> FALSE, command |-> Null]
Idle == [task |-> Null]

CountInit ==
    /\ day = 1
    /\ mark = 0
    /\ task = [t \in Tasks |-> NoTask]
    /\ obs = [t \in Tasks |-> NoObs]
    /\ problem = {}
    /\ token = [k \in Tokens |-> [status |-> "unknown", task |-> Null]]
    /\ request = [w \in Workers |-> Idle]
    /\ confirmed = 0
    /\ entries = [t \in Tasks |-> 0]

TaskType == [status : {"none", "Assigned", "Claimed", "Submitted", "Review", "Reviewed"},
             mark : Nat, day : 0 .. MaxDays + 1]

ObsType == [status : {"none", "Review", "Conflict", "Accepted"}, diff : Differences,
            doc : {"none", "draft", "submitted"}, director : BOOLEAN,
            command : Commands \cup {Null}]

RequestType == [task : Tasks, command : Commands, token : Tokens, mark : Nat,
                obs : ObsType, taken : BOOLEAN]

CountTypeOK ==
    /\ day \in 1 .. MaxDays + 1
    /\ mark \in Nat
    /\ task \in [Tasks -> TaskType]
    /\ obs \in [Tasks -> ObsType]
    /\ problem \subseteq Tasks
    /\ token \in [Tokens -> [status : {"unknown", "issued", "consumed"},
                             task : Tasks \cup {Null}]]
    /\ request \in [Workers -> RequestType \cup {Idle}]
    /\ confirmed \in Nat
    /\ entries \in [Tasks -> Nat]

-----------------------------------------------------------------------------
(* The stock ledger and the scheduler.                                      *)

StockOnly == UNCHANGED <<task, obs, problem, token, request, confirmed, entries>>

(* A sale, a delivery or a transfer is written to the warehouse's ledger.   *)
Move ==
    /\ mark < MaxMark
    /\ mark' = mark + 1
    /\ StockOnly /\ UNCHANGED day

NextDay ==
    /\ day \in 1 .. MaxDays
    /\ day' = day + 1
    /\ StockOnly /\ UNCHANGED mark

OpenStatuses == {"Assigned", "Claimed", "Submitted", "Review"}

(* The cadence is daily, so the key of a task is its day.  An open exception *)
(* of a count lets no second task be opened; without one, today's task is    *)
(* made though yesterday's is still open.                                    *)
ScheduleGroup(t) ==
    /\ task[t].status = "none"
    /\ mark > 0
    /\ \A u \in Tasks : task[u].day # day
    /\ problem # {} => \A u \in Tasks : task[u].status \notin OpenStatuses
    /\ task' = [task EXCEPT ![t] = [status |-> "Assigned", mark |-> mark, day |-> day]]
    /\ UNCHANGED <<day, mark, obs, problem, token, request, confirmed, entries>>

(* Back-office users close an exception on its form.                        *)
ResolveProblem(t) ==
    /\ t \in problem
    /\ problem' = problem \ {t}
    /\ UNCHANGED <<day, mark, task, obs, token, request, confirmed, entries>>

-----------------------------------------------------------------------------
(* The till: claim and count.                                               *)

(* The task row is locked, and its save is refused if it changed since it    *)
(* was read.  A repeated claim only answers.                                 *)
ClaimCountTask(t) ==
    /\ task[t].status = "Assigned"
    /\ task' = [task EXCEPT ![t].status = "Claimed"]
    /\ UNCHANGED <<day, mark, obs, problem, token, request, confirmed, entries>>

(* A mutant: every difference gets its draft at once.                        *)
SubmitAlwaysDrafts(t, diff) ==
    LET conflict == mark # task[t].mark
    IN  /\ task[t].status = "Claimed"
        /\ obs[t].status = "none"
        /\ obs' = [obs EXCEPT ![t] = [status |-> IF conflict THEN "Conflict" ELSE "Review",
                                      diff |-> diff,
                                      doc |-> IF conflict \/ diff = 0 THEN "none" ELSE "draft",
                                      director |-> FALSE,
                                      command |-> Null]]
        /\ task' = [task EXCEPT ![t].status =
                        IF conflict \/ diff > Ceiling THEN "Review" ELSE "Submitted"]
        /\ problem' = IF conflict \/ diff > Ceiling THEN problem \cup {t} ELSE problem
        /\ UNCHANGED <<day, mark, token, request, confirmed, entries>>

(* What was counted is kept whatever happened to the stock.  A difference    *)
(* within the ceiling gets its draft at once, none gets none.  A repeated    *)
(* observation only answers.                                                 *)
SubmitCountObservation(t, diff) ==
    LET conflict == mark # task[t].mark
        protected == diff > Ceiling
    IN  /\ task[t].status = "Claimed"
        /\ obs[t].status = "none"
        /\ obs' = [obs EXCEPT ![t] = [status |-> IF conflict THEN "Conflict" ELSE "Review",
                                      diff |-> diff,
                                      doc |-> IF conflict \/ protected \/ diff = 0
                                              THEN "none" ELSE "draft",
                                      director |-> FALSE,
                                      command |-> Null]]
        /\ task' = [task EXCEPT ![t].status =
                        IF conflict \/ protected THEN "Review" ELSE "Submitted"]
        /\ problem' = IF conflict \/ protected THEN problem \cup {t} ELSE problem
        /\ UNCHANGED <<day, mark, token, request, confirmed, entries>>

-----------------------------------------------------------------------------
(* The director's review.                                                   *)

(* Mutants: the conflict drops the document or leaves the task as it was.    *)
ConflictedDropsDocument(t) ==
    /\ obs' = [obs EXCEPT ![t].status = "Conflict", ![t].doc = "none"]
    /\ task' = [task EXCEPT ![t].status = "Review"]
    /\ problem' = problem \cup {t}

ConflictedKeepsTask(t) ==
    /\ obs' = [obs EXCEPT ![t].status = "Conflict"]
    /\ problem' = problem \cup {t}
    /\ UNCHANGED task

(* Stock moved: the observation is kept as a conflict for a new count.       *)
Conflicted(t) ==
    /\ obs' = [obs EXCEPT ![t].status = "Conflict"]
    /\ task' = [task EXCEPT ![t].status = "Review"]
    /\ problem' = problem \cup {t}

(* A conflict opens an exception of its own and leaves the director's open;  *)
(* either keeps the group's next task from being made.  ERPNext refuses a    *)
(* reconciliation without a difference.  With a document it only closes the  *)
(* exception of the review.                                                  *)
ReviewByDirector(t) ==
    /\ obs[t].status = "Review" /\ obs[t].doc = "none"
    /\ \/ /\ mark # task[t].mark
          /\ Conflicted(t)
       \/ /\ mark = task[t].mark
          /\ obs[t].diff # 0
          /\ obs' = [obs EXCEPT ![t] = [@ EXCEPT !.doc = "draft", !.director = TRUE]]
          /\ task' = [task EXCEPT ![t].status = "Review"]
          /\ problem' = problem \ {t}
    /\ UNCHANGED <<day, mark, token, request, confirmed, entries>>

-----------------------------------------------------------------------------
(* The manager's confirmation.                                              *)

(* A manager approves one observation at the till.                          *)
Approve(k, t) ==
    /\ token[k].status = "unknown"
    /\ obs[t].status # "none"
    /\ token' = [token EXCEPT ![k] = [status |-> "issued", task |-> t]]
    /\ UNCHANGED <<day, mark, task, obs, problem, request, confirmed, entries>>

(* A confirmation arrives, for the first time or again because its answer    *)
(* was lost, and reads.                                                      *)
BeginConfirmation(w, t, c, k) ==
    /\ request[w] = Idle
    /\ token[k].task = t
    /\ task[t].status \in {"Submitted", "Review", "Reviewed"}
    /\ obs[t].status \in {"Accepted", "Review"}
    /\ request' = [request EXCEPT ![w] =
            [task |-> t, command |-> c, token |-> k, mark |-> mark, obs |-> obs[t],
             taken |-> \E u \in Tasks \ {t} : obs[u].command = c]]
    /\ UNCHANGED <<day, mark, task, obs, problem, token, confirmed, entries>>

StockMoved(w) == request[w].mark # task[request[w].task].mark

(* The watermark is compared before the request looks whether the count was  *)
(* confirmed already.                                                        *)
RefuseMoved(w) ==
    /\ request[w] # Idle
    /\ StockMoved(w)
    /\ Conflicted(request[w].task)
    /\ request' = [request EXCEPT ![w] = Idle]
    /\ UNCHANGED <<day, mark, token, confirmed, entries>>

(* The command is the observation's own or new.                             *)
CommandFits(r) == r.obs.command \in {Null, r.command} /\ ~r.taken

Replayed(r) == r.obs.status = "Accepted" /\ r.obs.command = r.command

(* The count has what it needs: no difference, or a draft of its own.       *)
Ready(r) == r.obs.diff = 0 \/ r.obs.doc = "draft"

(* The approval row is locked when it is read, ERPNext compares the draft    *)
(* with the row in the database when it submits it, and the database keeps   *)
(* a command to one observation.                                             *)
Grantable(w) ==
    LET r == request[w]
    IN  /\ ~StockMoved(w) /\ CommandFits(r) /\ ~Replayed(r) /\ Ready(r)
        /\ token[r.token].status = "issued"
        /\ r.obs.diff # 0 => obs[r.task].doc = "draft"
        /\ \A u \in Tasks \ {r.task} : obs[u].command # r.command

ConfirmCount(w) ==
    LET r == request[w]
        t == r.task
    IN  /\ r # Idle
        /\ Grantable(w)
        /\ token' = [token EXCEPT ![r.token].status = "consumed"]
        /\ confirmed' = confirmed + 1
        /\ obs' = [obs EXCEPT ![t] = [@ EXCEPT
                       !.status = "Accepted", !.command = r.command,
                       !.doc = IF r.obs.diff = 0 THEN "none" ELSE "submitted"]]
        /\ task' = [task EXCEPT ![t].status = "Reviewed"]
        /\ mark' = IF r.obs.diff = 0 THEN mark ELSE mark + 1
        /\ entries' = [entries EXCEPT ![t] = IF r.obs.diff = 0 THEN @ ELSE @ + 1]
        /\ request' = [request EXCEPT ![w] = Idle]
        /\ UNCHANGED <<day, problem>>

(* Anything else is answered, replayed or refused, and rolled back; so is a  *)
(* request whose server dies.                                                *)
EndConfirmation(w) ==
    /\ request[w] # Idle
    /\ request' = [request EXCEPT ![w] = Idle]
    /\ UNCHANGED <<day, mark, task, obs, problem, token, confirmed, entries>>

CountNext ==
    \/ Move
    \/ NextDay
    \/ \E t \in Tasks :
          \/ ScheduleGroup(t)
          \/ ResolveProblem(t)
          \/ ClaimCountTask(t)
          \/ \E diff \in Differences : SubmitCountObservation(t, diff)
          \/ ReviewByDirector(t)
          \/ \E k \in Tokens :
                \/ Approve(k, t)
                \/ \E w \in Workers, c \in Commands : BeginConfirmation(w, t, c, k)
    \/ \E w \in Workers : RefuseMoved(w) \/ ConfirmCount(w) \/ EndConfirmation(w)

CountSpec == CountInit /\ [][CountNext]_countVars

-----------------------------------------------------------------------------
(* Properties.                                                              *)

(* However often a count is sent, reviewed and confirmed, by requests that    *)
(* read before they waited, its correction is in the ledger once: exactly    *)
(* when its document is submitted, the count accepted, and the task reviewed. *)
AppliedOnce ==
    \A t \in Tasks :
        /\ entries[t] = IF obs[t].doc = "submitted" THEN 1 ELSE 0
        /\ obs[t].doc = "submitted" => obs[t].diff # 0 /\ obs[t].command # Null
        /\ obs[t].status = "Accepted" => obs[t].diff = 0 \/ obs[t].doc = "submitted"
        /\ task[t].status = "Reviewed" <=> obs[t].status = "Accepted"

(* A difference beyond the ceiling changes the stock only after a director   *)
(* has reviewed it, whatever a manager approved in the meantime.             *)
ProtectedNeedsDirector ==
    \A t \in Tasks :
        obs[t].diff > Ceiling /\ obs[t].doc # "none" => obs[t].director

(* The approvals keep the promise of OneShotGrant: each confirms one count   *)
(* once.                                                                     *)
Approvals == INSTANCE OneShotGrant WITH
    Grants <- Tokens,
    grant <- [k \in Tokens |-> CASE token[k].status = "unknown" -> "unknown"
                                 [] token[k].status = "issued" -> "offered"
                                 [] token[k].status = "consumed" -> "used"],
    effects <- confirmed

ApprovalIsOneShot == Approvals!Spec
=============================================================================
