------------------------------ MODULE ShiftDrawer ------------------------------
(***************************************************************************)
(* Shifts and the cash in their drawers.  A shift is opened and closed by   *)
(* the till; sales, refunds and voids move cash in and out of a drawer and  *)
(* expected_cash is rebuilt from what the ledger holds.  Sales arrive late, *)
(* invoices fail and are posted again by a retry, requests are repeated and *)
(* two of them are worked on at once.  expected_cash is the set of cash     *)
(* movements it counts.                                                     *)
(***************************************************************************)
EXTENDS Naturals, FiniteSets

CONSTANTS
    Shifts,     \* shift codes of the tills' open requests
    DeviceOf,   \* the till of each shift
    StaffOf,    \* the user of each shift
    Sales,      \* orders paid in cash, or prepared and then paid by QR
    ShiftOf,    \* the shift each order names
    Workers,    \* requests to open or close a shift worked on at the same time
    None        \* no shift

ASSUME ScopeAssumption ==
    /\ None \notin Shifts
    /\ DOMAIN DeviceOf = Shifts /\ DOMAIN StaffOf = Shifts
    /\ ShiftOf \in [Sales -> Shifts]

VARIABLES
    shift,     \* status of each FB Shift
    expected,  \* expected_cash of each shift: the movements it counts
    order,     \* the FB Order of each sale
    refund,    \* the shift whose drawer paid the refund of a sale
    worker     \* open and close requests, the locks they hold and what they have read

vars == <<shift, expected, order, refund, worker>>

Idle == [at |-> "idle", shift |-> None, seen |-> {}]

OrderType == [status  : {"none", "Draft", "Released", "Submitted", "Cancelled"},
              cash    : BOOLEAN,
              invoice : {"Pending", "Failed", "Posted", "Reversed"},
              cashLog : {"none", "Failed", "Succeeded", "Reversed"},  \* the FB Shift projection
              retried : BOOLEAN,                                     \* a retry posted the invoice
              late    : BOOLEAN]                                     \* recorded_after_shift_close

NoOrder == [status |-> "none", cash |-> FALSE, invoice |-> "Pending", cashLog |-> "none",
            retried |-> FALSE, late |-> FALSE]

TypeOK ==
    /\ shift \in [Shifts -> {"none", "Open", "Closed"}]
    /\ expected \in [Shifts -> SUBSET ({"sale", "refund"} \X Sales)]
    /\ order \in [Sales -> OrderType]
    /\ refund \in [Sales -> Shifts \cup {None}]
    /\ worker \in [Workers -> [at    : {"idle", "device", "staff", "clear", "closing"},
                               shift : Shifts \cup {None},
                               seen  : SUBSET Sales]]

Init ==
    /\ shift = [s \in Shifts |-> "none"]
    /\ expected = [s \in Shifts |-> {}]
    /\ order = [o \in Sales |-> NoOrder]
    /\ refund = [o \in Sales |-> None]
    /\ worker = [w \in Workers |-> Idle]

-----------------------------------------------------------------------------
(* Row locks of the requests that are being worked on.                       *)
DeviceFree(s) ==
    \A w \in Workers : worker[w].at \in {"device", "staff", "clear"}
                          => DeviceOf[worker[w].shift] # DeviceOf[s]

(* Mutant: the user's row is not locked. *)
StaffFreeAlways(s) == TRUE

StaffFree(s) ==
    \A w \in Workers : worker[w].at \in {"staff", "clear"}
                          => StaffOf[worker[w].shift] # StaffOf[s]

(* _calculate_locked_fb_shift_cash: posted sales of the shift's submitted    *)
(* orders, and the refunds its drawer paid, whatever became of their sale.   *)
Evidence(s) ==
    {<<"sale", o>> : o \in {p \in Sales : /\ ShiftOf[p] = s /\ order[p].cash
                                          /\ order[p].status = "Submitted"
                                          /\ order[p].invoice = "Posted"}}
        \cup {<<"refund", o>> : o \in {p \in Sales : refund[p] = s}}

(* Orders that keep their shift from closing: prepared sales without proof   *)
(* that Maybank was never reached, and projections that are not settled.     *)
Blocks(o) ==
    \/ order[o].status = "Draft"
    \/ order[o].status = "Submitted" /\ (order[o].invoice = "Failed" \/ order[o].cashLog = "Failed")

Blockers(s) == {o \in Sales : ShiftOf[o] = s /\ Blocks(o)}

-----------------------------------------------------------------------------
(* open_shift: the till's row, then the user's, then the look at what is     *)
(* open, then the insert.                                                    *)
OpenLocksDevice(w, s) ==
    /\ worker[w] = Idle /\ DeviceFree(s)
    /\ worker' = [worker EXCEPT ![w] = [Idle EXCEPT !.at = "device", !.shift = s]]
    /\ UNCHANGED <<shift, expected, order, refund>>

OpenLocksStaff(w) ==
    /\ worker[w].at = "device" /\ StaffFree(worker[w].shift)
    /\ worker' = [worker EXCEPT ![w].at = "staff"]
    /\ UNCHANGED <<shift, expected, order, refund>>

(* Mutant: only the till's own shifts are looked at. *)
ConflictsOfDevice(s) == {t \in Shifts : shift[t] = "Open" /\ DeviceOf[t] = DeviceOf[s]}

(* _find_open_shift_conflicts_for_update *)
Conflicts(s) ==
    {t \in Shifts : shift[t] = "Open" /\ (DeviceOf[t] = DeviceOf[s] \/ StaffOf[t] = StaffOf[s])}

(* The shift exists already, open or closed, or another one is in the way:   *)
(* the request is answered and changes nothing.                              *)
OpenChecks(w) ==
    /\ worker[w].at = "staff"
    /\ LET s == worker[w].shift
           clear == shift[s] = "none" /\ Conflicts(s) = {}
       IN worker' = [worker EXCEPT ![w] = IF clear THEN [@ EXCEPT !.at = "clear"] ELSE Idle]
    /\ UNCHANGED <<shift, expected, order, refund>>

(* _ensure_fb_shift_for_kopos_shift: shift_code is unique. *)
OpenInserts(w) ==
    /\ worker[w].at = "clear" /\ shift[worker[w].shift] = "none"
    /\ shift' = [shift EXCEPT ![worker[w].shift] = "Open"]
    /\ worker' = [worker EXCEPT ![w] = Idle]
    /\ UNCHANGED <<expected, order, refund>>

(* The request fails, is refused or its worker dies: it is rolled back. *)
RequestEnds(w) ==
    /\ worker[w] # Idle
    /\ worker' = [worker EXCEPT ![w] = Idle]
    /\ UNCHANGED <<shift, expected, order, refund>>

(* close_shift: the transaction's plain reads, the blockers among them, are  *)
(* as of its first read, before it has waited for the till and the shift.    *)
CloseBegins(w, s) ==
    /\ worker[w] = Idle /\ shift[s] = "Open"
    /\ worker' = [worker EXCEPT ![w] = [at |-> "closing", shift |-> s, seen |-> Blockers(s)]]
    /\ UNCHANGED <<shift, expected, order, refund>>

(* Under the shift's lock the cash is rebuilt and the shift is closed; a     *)
(* shift that is closed already answers a retry.                             *)
CloseRuns(w) ==
    LET s == worker[w].shift IN
    /\ worker[w].at = "closing" /\ DeviceFree(s)
    /\ shift[s] = "Open" /\ worker[w].seen = {}
    /\ shift' = [shift EXCEPT ![s] = "Closed"]
    /\ expected' = [expected EXCEPT ![s] = Evidence(s)]
    /\ worker' = [worker EXCEPT ![w] = Idle]
    /\ UNCHANGED <<order, refund>>

-----------------------------------------------------------------------------
(* FB Order.on_submit: the invoice is posted or fails; then the shift's cash *)
(* is rebuilt, unless that fails as well.                                    *)
Submitted(o, d) ==
    \E invoice \in {"Posted", "Failed"}, cashLog \in {"Succeeded", "Failed"} :
        LET s == ShiftOf[o] IN
        /\ order' = [order EXCEPT ![o] = [d EXCEPT !.status = "Submitted", !.invoice = invoice,
                                                   !.cashLog = cashLog]]
        /\ expected' = IF cashLog = "Succeeded" THEN [expected EXCEPT ![s] = Evidence(s)'] ELSE expected

(* _validate_submit_shift: a closed shift still takes the sales it rang up.  *)
ShiftTakesSales(o) == shift[ShiftOf[o]] # "none" /\ DeviceFree(ShiftOf[o])

Late(o) == shift[ShiftOf[o]] # "Open"

(* submit_order of a cash sale; a repeated one is answered only. *)
SubmitOrder(o) ==
    /\ order[o].status = "none" /\ ShiftTakesSales(o)
    /\ UNCHANGED <<shift, refund, worker>>
    /\ Submitted(o, [NoOrder EXCEPT !.cash = TRUE, !.late = Late(o)])

(* prepare_automatic_qr_sale *)
PrepareSale(o) ==
    /\ order[o].status = "none" /\ ShiftTakesSales(o)
    /\ order' = [order EXCEPT ![o] = [NoOrder EXCEPT !.status = "Draft", !.late = Late(o)]]
    /\ UNCHANGED <<shift, expected, refund, worker>>

(* A prepared sale is proven unpaid, or submitted by the till or a job,      *)
(* which does not look at the shift again.                                   *)
ReleasePrepared(o) ==
    /\ order[o].status = "Draft"
    /\ order' = [order EXCEPT ![o].status = "Released"]
    /\ UNCHANGED <<shift, expected, refund, worker>>

SubmitPrepared(o) ==
    /\ order[o].status = "Draft"
    /\ UNCHANGED <<shift, refund, worker>>
    /\ Submitted(o, order[o])

(* _retry_projection_log of the Sales Invoice: the shift's cash is not       *)
(* rebuilt.                                                                  *)
RetryInvoice(o) ==
    /\ order[o].status = "Submitted" /\ order[o].invoice = "Failed"
    /\ order' = [order EXCEPT ![o].invoice = "Posted", ![o].retried = TRUE]
    /\ UNCHANGED <<shift, expected, refund, worker>>

RetryCash(o) ==
    /\ order[o].status = "Submitted" /\ order[o].cashLog = "Failed"
    /\ order' = [order EXCEPT ![o].cashLog = "Succeeded"]
    /\ expected' = [expected EXCEPT ![ShiftOf[o]] = Evidence(ShiftOf[o])]
    /\ UNCHANGED <<shift, refund, worker>>

(* Mutant: the drawer of the sale pays, open or closed. *)
RefundDrawersOfSale(o, chosen) == {ShiftOf[o]}

(* resolve_refund_shift: the open shift chosen on the refund, else the       *)
(* sale's while that is open, else the only open one of the sale's till.     *)
RefundDrawers(o, chosen) ==
    LET open == {s \in Shifts : shift[s] = "Open"}
        tills == {s \in open : DeviceOf[s] = DeviceOf[ShiftOf[o]]}
    IN CASE chosen # None                              -> open \cap {chosen}
         [] chosen = None /\ ShiftOf[o] \in open       -> {ShiftOf[o]}
         [] chosen = None /\ ShiftOf[o] \notin open    -> IF Cardinality(tills) = 1 THEN tills ELSE {}

(* A cash refund of the whole sale; a repeated one rebuilds the cash of the  *)
(* drawer that paid it.                                                      *)
Refund(o, chosen) ==
    /\ order[o].status = "Submitted" /\ order[o].invoice = "Posted" /\ refund[o] = None
    /\ UNCHANGED <<shift, order, worker>>
    /\ \E s \in RefundDrawers(o, chosen) :
          /\ refund' = [refund EXCEPT ![o] = s]
          /\ expected' = [expected EXCEPT ![s] = Evidence(s)']

RefundAgain(o) ==
    /\ refund[o] # None
    /\ expected' = [expected EXCEPT ![refund[o]] = Evidence(refund[o])]
    /\ UNCHANGED <<shift, order, refund, worker>>

(* Mutant: a sale is voided after its shift was counted. *)
VoidOfAnyShift(o) ==
    /\ order[o].status = "Submitted" /\ order[o].invoice = "Posted"
    /\ order' = [order EXCEPT ![o].status = "Cancelled", ![o].invoice = "Reversed",
                              ![o].cashLog = "Reversed"]
    /\ UNCHANGED <<shift, refund, worker>>
    /\ expected' = [expected EXCEPT ![ShiftOf[o]] = Evidence(ShiftOf[o])']

(* Mutant: the cash is rebuilt before the order is cancelled. *)
VoidRefreshedEarly(o) ==
    /\ order[o].status = "Submitted" /\ order[o].invoice = "Posted"
    /\ shift[ShiftOf[o]] = "Open" /\ DeviceFree(ShiftOf[o])
    /\ order' = [order EXCEPT ![o].status = "Cancelled", ![o].invoice = "Reversed",
                              ![o].cashLog = "Reversed"]
    /\ expected' = [expected EXCEPT ![ShiftOf[o]] = Evidence(ShiftOf[o])]
    /\ UNCHANGED <<shift, refund, worker>>

(* _process_sales_invoice_void_payload, only while the sale's shift is open. *)
Void(o) ==
    /\ order[o].status = "Submitted" /\ order[o].invoice = "Posted"
    /\ shift[ShiftOf[o]] = "Open" /\ DeviceFree(ShiftOf[o])
    /\ order' = [order EXCEPT ![o].status = "Cancelled", ![o].invoice = "Reversed",
                              ![o].cashLog = "Reversed"]
    /\ UNCHANGED <<shift, refund, worker>>
    /\ expected' = [expected EXCEPT ![ShiftOf[o]] = Evidence(ShiftOf[o])']

VoidAgain(o) ==
    /\ order[o].status = "Cancelled" /\ DeviceFree(ShiftOf[o])
    /\ expected' = [expected EXCEPT ![ShiftOf[o]] = Evidence(ShiftOf[o])]
    /\ UNCHANGED <<shift, order, refund, worker>>

-----------------------------------------------------------------------------
Next ==
    \/ \E w \in Workers :
          \/ \E s \in Shifts : OpenLocksDevice(w, s) \/ CloseBegins(w, s)
          \/ OpenLocksStaff(w) \/ OpenChecks(w) \/ OpenInserts(w)
          \/ CloseRuns(w) \/ RequestEnds(w)
    \/ \E o \in Sales :
          \/ SubmitOrder(o) \/ PrepareSale(o) \/ ReleasePrepared(o) \/ SubmitPrepared(o)
          \/ RetryInvoice(o) \/ RetryCash(o) \/ RefundAgain(o) \/ Void(o) \/ VoidAgain(o)
          \/ \E chosen \in Shifts \cup {None} : Refund(o, chosen)

Spec == Init /\ [][Next]_vars

-----------------------------------------------------------------------------
(* A till has one open shift and a user has one, though requests of two      *)
(* tills for one user, and repeated ones of one till, race.                  *)
OneOpenShift ==
    \A s, t \in {u \in Shifts : shift[u] = "Open"} :
        DeviceOf[s] = DeviceOf[t] \/ StaffOf[s] = StaffOf[t] => s = t

(* The cash a shift is expected to hold is what the ledger shows for it: no  *)
(* movement is counted that was not made, in the drawer that did not make    *)
(* it, or twice, and what is missing waits for a projection to be retried or *)
(* was posted by such a retry.                                               *)
CashMatchesLedger ==
    \A s \in Shifts :
        /\ expected[s] \subseteq Evidence(s)
        /\ \A m \in Evidence(s) \ expected[s] :
              m[1] = "sale" /\ (order[m[2]].retried \/ order[m[2]].cashLog = "Failed")

(* A closed shift stays as it was counted: neither a refund nor a void       *)
(* reaches back into it, and only sales rung up on it come in late.          *)
ClosedStaysCounted ==
    [][\A s \in Shifts : shift[s] = "Closed" =>
          /\ shift'[s] = "Closed"
          /\ expected[s] \subseteq expected'[s]
          /\ \A m \in expected'[s] \ expected[s] :
                m[1] = "sale" /\ (order'[m[2]].late \/ order'[m[2]].retried)]_vars
=============================================================================
