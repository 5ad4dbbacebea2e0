------------------------------ MODULE SaleRefunds ------------------------------
(***************************************************************************)
(* The refunds of one paid sale and the manager approvals they and its void *)
(* consume.  A partial refund is priced from the units refunded so far; a   *)
(* manager approves an amount that may be out of date when it is used; a    *)
(* request whose answer was lost is sent again.  Requests for one sale take *)
(* turns on its invoice, but the plain reads of one that has waited are as  *)
(* old as its transaction.  Amounts are in sen.                             *)
(***************************************************************************)
EXTENDS Integers, Sequences, FiniteSets, Functions

CONSTANTS
    Sales,    \* paid sales: qty and total of each line, tax, rounding, cash unit
    Returns,  \* return ids, the idempotency keys of refunds
    Tokens    \* ids of manager approvals

(* The sales _validate_sale accepts, lines by their domain.  What is paid in *)
(* cash comes from the till in whole 5-sen steps.                            *)
ASSUME SalesAssumption ==
    \A s \in Sales :
        LET lines == DOMAIN s.qty
            subtotal == SumFunction(s.total)
        IN /\ IsFiniteSet(lines)
           /\ s.qty \in [lines -> Nat \ {0}] /\ s.total \in [lines -> Nat]
           /\ s.tax \in Nat /\ s.rounding \in Int /\ s.unit \in {1, 5}
           /\ subtotal = 0 => s.tax = 0 /\ s.rounding = 0
           /\ s.unit = 5 => (subtotal + s.tax + s.rounding) % 5 = 0

VARIABLES
    sale,     \* the sale as it was posted
    invoice,  \* the status of its Sales Invoice
    refunds,  \* the submitted FB Return Events in the order they were posted
    token,    \* KoPOS Manager Approval rows
    manager   \* whether the approving manager still may approve

vars == <<sale, invoice, refunds, token, manager>>

Lines == DOMAIN sale.qty
Subtotal == SumFunction(sale.total)
Paid == Subtotal + sale.tax + sale.rounding   \* what the customer paid

-----------------------------------------------------------------------------
(* Mutant: shares are rounded, not floored. *)
FloorShareRounded(amount, part, whole) ==
    IF part = whole THEN amount ELSE (2 * amount * part + whole) \div (2 * whole)

FloorShare(amount, part, whole) ==
    IF part = whole THEN amount ELSE (amount * part) \div whole

(* The net of some units of each line, and the tax or rounding for a part of *)
(* the subtotal.                                                             *)
Net(units) == [l \in Lines |-> FloorShare(sale.total[l], units[l], sale.qty[l])]
Part(amount, whole) == IF Subtotal = 0 THEN 0 ELSE FloorShare(amount, whole, Subtotal)

(* Mutant: a partial amount in cash is not cut to 5 sen. *)
PayableUncut(exact, whole) == exact

Payable(exact, whole) ==
    IF sale.unit = 5 /\ whole # Subtotal THEN exact - (exact % 5) ELSE exact

(* _position: what refunding these units of each line gives back, taken      *)
(* together and not one after the other.                                     *)
Position(units) ==
    LET net == Net(units)
        whole == SumFunction(net)
        tax == Part(sale.tax, whole)
        amount == Payable(whole + tax + Part(sale.rounding, whole), whole)
    IN [net |-> net, tax |-> tax, rounding |-> amount - whole - tax, amount |-> amount]

Difference(end, start) ==
    [net      |-> [l \in Lines |-> end.net[l] - start.net[l]],
     tax      |-> end.tax - start.tax,
     rounding |-> end.rounding - start.rounding,
     amount   |-> end.amount - start.amount]

(* Mutant: units are priced as if they were the first to come back. *)
AllocationOfUnits(before, units) == Position(units)

(* allocate_refund: the position after the refund less the one before it. *)
Allocation(before, units) ==
    Difference(Position([l \in Lines |-> before[l] + units[l]]), Position(before))

(* _apply_allocated_return_items: the credit note posts a line at its rate,  *)
(* at most the one it was sold at, and the sen this leaves as a discount.    *)
Postable(units, net) ==
    \A l \in {k \in Lines : units[k] > 0} :
        LET sold == (2 * sale.total[l] * units[l] + sale.qty[l]) \div (2 * sale.qty[l])
            native == IF net[l] * sale.qty[l] <= sale.total[l] * units[l] THEN net[l] ELSE sold
        IN native <= net[l] /\ net[l] - native <= 1

-----------------------------------------------------------------------------
(* What the first n refunds returned and paid back. *)
Returned(n) == [l \in Lines |-> SumFunction([i \in 1..n |-> refunds[i].units[l]])]
PaidBack(n) == SumFunction([i \in 1..n |-> refunds[i].amount])

Fits(before, units) == \A l \in Lines : before[l] + units[l] <= sale.qty[l]

UnitChoices == {u \in [Lines -> UNION {0..sale.qty[l] : l \in Lines}] :
                  (\A l \in Lines : u[l] <= sale.qty[l]) /\ (\E l \in Lines : u[l] > 0)}

(* The action, lines and amount an approval is for, and may be used for. *)
Scope(action, units, amount) == [action |-> action, units |-> units, amount |-> amount]

VoidScope == Scope("void", sale.qty, Paid)
FullScope == Scope("full", sale.qty, Paid)

NoToken == [status |-> "none", live |-> FALSE, scope |-> VoidScope]

TypeOK ==
    /\ sale \in Sales
    /\ invoice \in {"Submitted", "Cancelled"}
    /\ Len(refunds) <= Cardinality(Returns)
    /\ \A i \in 1..Len(refunds) :
          /\ refunds[i].id \in Returns /\ refunds[i].token \in Tokens
          /\ refunds[i].amount \in 1..Paid
          /\ refunds[i].units \in UnitChoices
          /\ \A l \in Lines : refunds[i].net[l] \in 0..sale.total[l]
          /\ refunds[i].tax \in 0..sale.tax
          /\ refunds[i].rounding \in Int
    /\ \A t \in Tokens :
          /\ token[t].status \in {"none", "issued", "consumed"}
          /\ token[t].live \in BOOLEAN
          /\ token[t].scope.action \in {"void", "full", "partial"}
    /\ manager \in BOOLEAN

Init ==
    /\ sale \in Sales
    /\ invoice = "Submitted" /\ refunds = <<>>
    /\ token = [t \in Tokens |-> NoToken]
    /\ manager = TRUE

-----------------------------------------------------------------------------
(* allocate_refund and its caller: the amount must be the one asked for. *)
Priced(before, units, amount) ==
    Fits(before, units) /\ Allocation(before, units).amount = amount /\ amount > 0

(* The scopes a manager is asked for.  A partial one is priced from a plain  *)
(* read, that of a request which may have waited since the n-th refund.      *)
Approvable(n) ==
    {VoidScope, FullScope} \cup
        {s \in {Scope("partial", u, Allocation(Returned(n), u).amount) :
                    u \in {v \in UnitChoices : Fits(Returned(n), v)}} :
            Priced(Returned(n), s.units, s.amount)}

(* generate_manager_approval_token *)
Approve(t) ==
    /\ token[t].status = "none" /\ manager /\ invoice = "Submitted"
    /\ \E n \in 0..Len(refunds) : \E s \in Approvable(n) :
          token' = [token EXCEPT ![t] = [status |-> "issued", live |-> TRUE, scope |-> s]]
    /\ UNCHANGED <<sale, invoice, refunds, manager>>

(* Mutants: the status, or the amount, of the approval is not looked at. *)
UsableAgain(t, s) == token[t].status # "none" /\ token[t].live /\ token[t].scope = s /\ manager
UsableForAnyAmount(t, s) ==
    /\ token[t].status = "issued" /\ token[t].live /\ manager
    /\ token[t].scope = [s EXCEPT !.amount = token[t].scope.amount]

(* verify_manager_approval_token: the row is locked, issued, not expired and *)
(* for exactly this, and its manager still may approve.                      *)
Usable(t, s) == token[t].status = "issued" /\ token[t].live /\ token[t].scope = s /\ manager

Consumed(t) == [token EXCEPT ![t].status = "consumed"]

Event(r, t, s, a) ==
    [id |-> r, token |-> t, units |-> s.units, net |-> a.net, tax |-> a.tax,
     rounding |-> a.rounding, amount |-> a.amount]

IsNew(r) == \A i \in 1..Len(refunds) : refunds[i].id # r

(* Mutant: quantities are read plainly, as old as the transaction. *)
RefundPartStale(r, t) ==
    /\ invoice = "Submitted" /\ IsNew(r)
    /\ \E n \in 0..Len(refunds) : \E u \in UnitChoices :
          LET before == Returned(n)
              a == Allocation(before, u)
              s == Scope("partial", u, a.amount)
          IN /\ Usable(t, s) /\ Priced(before, u, s.amount)
             /\ Position(before).amount = PaidBack(n)
             /\ Postable(u, a.net)
             /\ refunds' = Append(refunds, Event(r, t, s, a))
    /\ token' = Consumed(t)
    /\ UNCHANGED <<sale, invoice, manager>>

(* process_return_payload of a partial refund, once it holds the shift and   *)
(* the invoice; one whose return id was posted before is answered only.      *)
(* Quantities and amounts of the other refunds are locking reads.            *)
RefundPart(r, t) ==
    /\ invoice = "Submitted" /\ IsNew(r)
    /\ \E u \in UnitChoices :
          LET before == Returned(Len(refunds))
              a == Allocation(before, u)
              s == Scope("partial", u, a.amount)
          IN /\ Usable(t, s) /\ Priced(before, u, s.amount)
             /\ Position(before).amount = PaidBack(Len(refunds))
             /\ Postable(u, a.net)
             /\ refunds' = Append(refunds, Event(r, t, s, a))
    /\ token' = Consumed(t)
    /\ UNCHANGED <<sale, invoice, manager>>

(* The whole sale at once, without an allocation. *)
RefundFull(r, t) ==
    /\ invoice = "Submitted" /\ IsNew(r) /\ Paid > 0
    /\ Fits(Returned(Len(refunds)), sale.qty)
    /\ Usable(t, FullScope)
    /\ refunds' = Append(refunds, Event(r, t, FullScope, Position(sale.qty)))
    /\ token' = Consumed(t)
    /\ UNCHANGED <<sale, invoice, manager>>

(* _process_sales_invoice_void_payload, while the shift is open; a repeated  *)
(* one is answered without an approval.                                      *)
Void(t) ==
    /\ invoice = "Submitted" /\ Usable(t, VoidScope)
    /\ invoice' = "Cancelled"
    /\ token' = Consumed(t)
    /\ UNCHANGED <<sale, refunds, manager>>

TokenExpires(t) ==
    /\ token[t].live
    /\ token' = [token EXCEPT ![t].live = FALSE]
    /\ UNCHANGED <<sale, invoice, refunds, manager>>

(* The manager's right to void or refund is taken away or given back. *)
ManagerChanges ==
    /\ manager' = ~manager
    /\ UNCHANGED <<sale, invoice, refunds, token>>

Next ==
    \/ \E t \in Tokens : Approve(t) \/ Void(t) \/ TokenExpires(t)
    \/ \E r \in Returns, t \in Tokens : RefundPart(r, t) \/ RefundFull(r, t)
    \/ ManagerChanges

Spec == Init /\ [][Next]_vars

-----------------------------------------------------------------------------
(* All refunds of a sale, in whatever steps, add up to exactly its total,    *)
(* line totals, tax and rounding; before the last one the customer has no    *)
(* more back than the exact share of what the returned units cost, and in    *)
(* cash every refund is paid in 5-sen steps.                                 *)
RefundsAddUp ==
    LET n == Len(refunds)
        back == [l \in Lines |-> SumFunction([i \in 1..n |-> refunds[i].net[l]])]
    IN /\ \A l \in Lines : back[l] * sale.qty[l] <= sale.total[l] * Returned(n)[l]
       /\ Subtotal > 0 => PaidBack(n) * Subtotal <= Paid * SumFunction(back)
       /\ sale.unit = 5 => \A i \in 1..n : refunds[i].amount % 5 = 0
       /\ Returned(n) = sale.qty =>
             /\ PaidBack(n) = Paid
             /\ back = sale.total
             /\ SumFunction([i \in 1..n |-> refunds[i].tax]) = sale.tax
             /\ SumFunction([i \in 1..n |-> refunds[i].rounding]) = sale.rounding

(* Partial refunds never leave a rest that cannot be given back: while       *)
(* something paid is left, all units not returned yet can be refunded for    *)
(* it, and no earlier refund disagrees with the sale's amounts.              *)
RestCanBeRefunded ==
    LET before == Returned(Len(refunds))
        rest == [l \in Lines |-> sale.qty[l] - before[l]]
        left == Paid - PaidBack(Len(refunds))
    IN invoice = "Submitted" /\ left > 0 =>
          /\ Position(before).amount = PaidBack(Len(refunds))
          /\ Priced(before, rest, left)
          /\ Postable(rest, Allocation(before, rest).net)

(* A manager's approval pays for one refund or one void, for the amount it   *)
(* was given for, however often the request is sent and whichever refunds    *)
(* come in between.                                                          *)
GrantState ==
    [t \in Tokens |-> CASE token[t].status = "none"                       -> "unknown"
                        [] token[t].status = "issued" /\ token[t].live    -> "offered"
                        [] token[t].status = "issued" /\ ~token[t].live   -> "withdrawn"
                        [] token[t].status = "consumed"                   -> "used"]

Approval == INSTANCE OneShotGrant WITH Grants <- Tokens, grant <- GrantState,
                effects <- Len(refunds) + (IF invoice = "Cancelled" THEN 1 ELSE 0)

ApprovalIsOneShot == Approval!Spec

RefundsAreApproved ==
    \A i \in 1..Len(refunds) :
        LET t == token[refunds[i].token]
        IN t.status = "consumed" /\ t.scope.units = refunds[i].units
                                 /\ t.scope.amount = refunds[i].amount
=============================================================================
