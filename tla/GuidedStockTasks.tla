-------------------------- MODULE GuidedStockTasks --------------------------
(***************************************************************************)
(* The stock work a till is guided through: preparing a batch, receiving a *)
(* delivery, sending and receiving a transfer, recording waste.  The till  *)
(* reads its tasks, composes a command from one of them and sends it until *)
(* it is answered; ERP carries the command out, posts its document and     *)
(* writes a receipt under the command's ID, in one transaction.            *)
(*                                                                         *)
(* The instance has one recipe whose stock can be low, one supplier's      *)
(* order and one approved transfer.  A request's plain reads come from the *)
(* snapshot its authentication took; it waits for the till, and for the    *)
(* document, only afterwards.  What follows the wait up to the commit is   *)
(* one step.                                                               *)
(***************************************************************************)
EXTENDS Naturals, FiniteSets, Functions

CONSTANTS Commands,  \* commands the tills of the outlet compose
          Requests,  \* requests the server works on at once
          Approved,  \* stock quantity of the Material Request's line
          Ordered,   \* quantity of the Purchase Order's line
          MaxSales,  \* bound: sales that use the prepared item
          None

ASSUME GuidedAssumption ==
    /\ Approved \in Nat \ {0} /\ Ordered \in Nat \ {0} /\ MaxSales \in Nat
    /\ Commands \cap {None, "desk", "difference"} = {}
    /\ None \notin {"desk", "difference"}

(* A Work Order is named after the command that created it; "desk" is one    *)
(* the back office has made.                                                *)
Orders == Commands \cup {"desk"}

VARIABLES
    command,  \* what each command says, None until it is composed
    erp,      \* what is committed
    request,  \* requests in flight, with what they read
    told,     \* results the till was answered for each command
    stale     \* history: work decided on a snapshot that was out of date

vars == <<command, erp, request, told, stale>>

Preparing == {"accept_alert", "accept_order", "start", "complete"}
Tasks == Preparing \cup {"receive", "dispatch", "arrive", "waste"}

(* source is the Work Order, revision what source_revision and the alert's   *)
(* fingerprint tell apart; amount is accepted, off is missing or damaged,    *)
(* and extra came in excess.                                                 *)
CommandType == [task : Tasks, source : Orders \cup {None}, revision : Nat,
                amount : Nat, off : Nat, extra : BOOLEAN]

OrderType == [status : {"none", "draft", "started", "made"}, alert : Nat, revision : Nat,
              batches : Nat]

(* stamp is the Bin's modified stamp; posts counts the documents a command   *)
(* posted, receipt is the result on its FB Inventory Command Receipt.        *)
ErpType == [stamp : Nat, low : BOOLEAN,
            order : [Orders -> OrderType],
            difference : {"none", "open", "cleared"},
            posts : [Commands -> Nat],
            receipt : [Commands -> Orders \cup {"difference", None}]]

RequestType == [command : Commands, seen : ErpType]
Idle == [command |-> None]

TypeOK ==
    /\ command \in [Commands -> CommandType \cup {None}]
    /\ erp \in ErpType
    /\ request \in [Requests -> RequestType \cup {Idle}]
    /\ told \in [Commands -> SUBSET (Orders \cup {"difference"})]
    /\ stale \subseteq {"preparation", "delivery", "transfer"}

NoOrder == [status |-> "none", alert |-> 0, revision |-> 0, batches |-> 0]
Desk(status) == [status |-> status, alert |-> 0, revision |-> 1, batches |-> 0]

Init ==
    /\ command = [c \in Commands |-> None]
    /\ erp = [stamp |-> 1, low |-> TRUE, order |-> [w \in Orders |-> NoOrder],
              difference |-> "none", posts |-> [c \in Commands |-> 0],
              receipt |-> [c \in Commands |-> None]]
    /\ request = [r \in Requests |-> Idle]
    /\ told = [c \in Commands |-> {}]
    /\ stale = {}

-----------------------------------------------------------------------------
(* What the documents say.                                                  *)

Of(task) == {c \in Commands : command[c] # None /\ command[c].task = task}

(* Amounts and numbers of submitted documents of a kind, in the state e.     *)
Amount(task, e) == SumFunction([c \in Of(task) |-> e.posts[c] * command[c].amount])
Number(task, e) == SumFunction([c \in Of(task) |-> e.posts[c]])

(* _transfer_route_progress: the route's submitted Stock Entries.           *)
Dispatched(e) == Amount("dispatch", e)
Arrived(e) == Amount("arrive", e)
Received(e) == Amount("receive", e)

(* Modified stamps: only a receipt is linked to the Material Request.        *)
TransferRevision(e) == Number("arrive", e)
DeliveryRevision(e) == Number("receive", e)

Open(e) == {w \in Orders : e.order[w].status \in {"draft", "started"}}

(* The tasks of the outlet, as commands the till can make of them: staff     *)
(* enter the amounts, and here report an excess only of a whole delivery.    *)
(* An alert is not shown beside an open Work Order.                         *)
Assigned(task, source, revision, amount) ==
    [task |-> task, source |-> source, revision |-> revision,
     amount |-> amount, off |-> 0, extra |-> FALSE]

AlertedBesideOrders(e) == {t \in {Assigned("accept_alert", None, e.stamp, 0)} : e.low}

Alerted(e) == {t \in {Assigned("accept_alert", None, e.stamp, 0)} : e.low /\ Open(e) = {}}

WorkOrders(e) ==
    {t \in {Assigned(u, w, e.order[w].revision, 0) : u \in Preparing \ {"accept_alert"},
                                                     w \in Open(e)} :
        t.task = "accept_order" => e.order[t.source].status = "draft"}

Deliveries(e) ==
    {t \in {[task |-> "receive", source |-> None, revision |-> DeliveryRevision(e),
             amount |-> n, off |-> m, extra |-> x] :
               n \in 0 .. Ordered, m \in {0, 1}, x \in BOOLEAN} :
        /\ t.amount + t.off \in 1 .. Ordered
        /\ t.extra => t.amount = Ordered
        /\ Received(e) < Ordered /\ e.difference # "open"}

Transfers(e) ==
    {t \in {Assigned(u, None, TransferRevision(e), n) : u \in {"dispatch", "arrive"},
                                                        n \in 1 .. Approved} :
        IF t.task = "dispatch" THEN Dispatched(e) < Approved ELSE Arrived(e) < Dispatched(e)}

Waste == {Assigned("waste", None, 0, 1)}

Feed(e) == Alerted(e) \cup WorkOrders(e) \cup Deliveries(e) \cup Transfers(e) \cup Waste

-----------------------------------------------------------------------------
(* The outlet and the back office.                                          *)

(* Documents of different kinds share nothing but the receipts: a behaviour  *)
(* is about one kind, which bounds the instance, and the prepared item and   *)
(* its orders change only where preparation is what it is about.            *)
Kind(task) == IF task \in Preparing THEN "preparation"
              ELSE IF task \in {"dispatch", "arrive"} THEN "transfer" ELSE task

About(kind) == \A d \in Commands : command[d] # None => Kind(command[d].task) = kind

Compose(c) ==
    /\ command[c] = None
    /\ \E t \in Feed(erp) :
       /\ About(Kind(t.task))
       /\ t.task \notin Preparing => erp.stamp = 1 /\ erp.order["desk"] = NoOrder
       /\ command' = [command EXCEPT ![c] = t]
    /\ UNCHANGED <<erp, request, told, stale>>

Sell ==
    /\ About("preparation") /\ erp.stamp <= MaxSales
    /\ \E low \in {erp.low, TRUE} :
          erp' = [erp EXCEPT !.stamp = @ + 1, !.low = low]
    /\ UNCHANGED <<command, request, told, stale>>

(* The back office makes a Work Order of its own, for the same recipe.       *)
MakeOrder ==
    /\ About("preparation") /\ erp.order["desk"] = NoOrder
    /\ \E status \in {"draft", "started"} :
          erp' = [erp EXCEPT !.order["desk"] = Desk(status)]
    /\ UNCHANGED <<command, request, told, stale>>

(* A manager closes the exception of the delivery.                          *)
ClearDifference ==
    /\ erp.difference = "open"
    /\ erp' = [erp EXCEPT !.difference = "cleared"]
    /\ UNCHANGED <<command, request, told, stale>>

-----------------------------------------------------------------------------
(* A request.                                                               *)

(* A command arrives, for the first time or again because the till has no    *)
(* answer, and is authenticated.                                            *)
RequestArrives(r, c) ==
    /\ request[r] = Idle /\ command[c] # None /\ told[c] = {}
    /\ request' = [request EXCEPT ![r] = [command |-> c, seen |-> erp]]
    /\ UNCHANGED <<command, erp, told, stale>>

(* The answer reaches the till or is lost.                                  *)
Answer(r, c, result) ==
    /\ request' = [request EXCEPT ![r] = Idle]
    /\ told' \in {told, [told EXCEPT ![c] = @ \cup {result}]}

(* The receipt is there already.                                            *)
Replay(r) ==
    /\ request[r] # Idle
    /\ LET c == request[r].command
           found == request[r].seen.receipt[c]
       IN  found # None /\ Answer(r, c, found)
    /\ UNCHANGED <<command, erp, stale>>

FreshUnlessRead(r, task) ==
    LET c == request[r].command
    IN  request[r] # Idle /\ command[c].task = task /\ request[r].seen.receipt[c] = None

(* The request reads no receipt and takes the command's ID, which is unique: *)
(* a request that lost the race to another of the command fails here.        *)
Fresh(r, task) ==
    LET c == request[r].command
    IN  /\ request[r] # Idle /\ command[c].task = task
        /\ request[r].seen.receipt[c] = None
        /\ erp.receipt[c] = None

(* The document is submitted, the receipt completed, and both committed.     *)
Commit(r, posted, result) ==
    LET c == request[r].command
    IN  /\ erp' = [posted EXCEPT !.receipt[c] = result]
        /\ Answer(r, c, result)
        /\ UNCHANGED command

Post(c, e) == [e EXCEPT !.posts[c] = @ + 1]

(* History: what the decision rests on has changed since it was read.        *)
Note(area, changed) == stale' = IF changed THEN stale \cup {area} ELSE stale
-----------------------------------------------------------------------------
(* Preparation: an alert becomes a Draft Work Order, which is started and    *)
(* completed with one Manufacture entry.                                    *)

Prepared(e, stamp) == {w \in Orders : e.order[w].status # "none" /\ e.order[w].alert = stamp}

(* Somebody accepted the alert before: its Work Order is the answer.  Else   *)
(* the alert must still be raised, and its fingerprint is unique.            *)
AcceptAlert(r) ==
    LET c == request[r].command
        s == request[r].seen
        alert == command[c].revision
    IN  /\ Fresh(r, "accept_alert")
        /\ \/ \E w \in Prepared(s, alert) : Commit(r, erp, w) /\ UNCHANGED stale
           \/ /\ Prepared(s, alert) = {} /\ Prepared(erp, alert) = {}
              /\ s.low /\ s.stamp = alert
              /\ Commit(r, [Post(c, erp) EXCEPT !.order[c] =
                        [status |-> "draft", alert |-> alert, revision |-> 1, batches |-> 0]], c)
              /\ Note("preparation", s.stamp # erp.stamp)

(* The revision is compared with what was read; saving a Work Order, ERPNext *)
(* compares that with the row in the database.                               *)
Unchanged(r) ==
    LET c == request[r].command
        w == command[c].source
    IN  request[r].seen.order[w].revision = command[c].revision

Advanced(order, status) == [order EXCEPT !.status = status, !.revision = order.revision + 1]

Saved(r, status) ==
    LET w == command[request[r].command].source
    IN  /\ erp.order[w] = request[r].seen.order[w]
        /\ Commit(r, [erp EXCEPT !.order[w] = Advanced(erp.order[w], status)], w)

AcceptOrder(r) ==
    /\ Fresh(r, "accept_order") /\ Unchanged(r)
    /\ request[r].seen.order[command[request[r].command].source].status = "draft"
    /\ Saved(r, "draft")
    /\ UNCHANGED stale

(* A submitted Work Order is answered and left alone.                       *)
StartOrder(r) ==
    LET w == command[request[r].command].source
    IN  /\ Fresh(r, "start") /\ Unchanged(r)
        /\ IF request[r].seen.order[w].status = "draft"
           THEN Saved(r, "started")
           ELSE Commit(r, erp, w)
        /\ UNCHANGED stale

(* ERPNext makes the entry, refuses to produce more than the Work Order, by  *)
(* what this request can read, and updates order and Bin.  The batch may or  *)
(* may not lift the stock over its trigger level.                            *)
CompleteBatch(r) ==
    LET c == request[r].command
        s == request[r].seen
        w == command[c].source
    IN  /\ Fresh(r, "complete") /\ Unchanged(r)
        /\ s.order[w].status = "started"
        /\ \E low \in BOOLEAN :
              Commit(r, [Post(c, erp) EXCEPT !.stamp = @ + 1, !.low = low,
                             !.order[w] = [Advanced(erp.order[w], "made") EXCEPT
                                               !.batches = @ + 1]], c)
        /\ Note("preparation", s.order[w] # erp.order[w])

-----------------------------------------------------------------------------
(* Deliveries, transfers and waste.                                         *)

(* Nothing is received while a difference is open.  What is missing, damaged *)
(* or in excess opens one, in the same transaction; its row is unique.       *)
ReceiveDelivery(r) ==
    LET c == request[r].command
        s == request[r].seen
        differs == command[c].off > 0 \/ command[c].extra
        posted == IF command[c].amount > 0 THEN Post(c, erp) ELSE erp
    IN  /\ Fresh(r, "receive")
        /\ s.difference # "open"
        /\ command[c].revision = DeliveryRevision(s)
        /\ Received(s) + command[c].amount + command[c].off <= Ordered
           \/ command[c].amount + command[c].off = 0
        /\ differs /\ s.difference = "none" => erp.difference = "none"
        /\ Commit(r, IF differs THEN [posted EXCEPT !.difference = "open"] ELSE posted,
                  IF command[c].amount > 0 THEN c ELSE "difference")
        /\ Note("delivery", Number("receive", s) # Number("receive", erp)
                            \/ s.difference # erp.difference)

(* From the outlet into transit, as much as is approved and not yet sent.    *)
DispatchTransfer(r) ==
    LET c == request[r].command
        s == request[r].seen
    IN  /\ Fresh(r, "dispatch")
        /\ command[c].revision = TransferRevision(s)
        /\ Dispatched(s) + command[c].amount <= Approved
        /\ Commit(r, Post(c, erp), c)
        /\ Note("transfer", Dispatched(s) # Dispatched(erp))

ReceiveTransferApproved(r) ==
    LET c == request[r].command
        s == request[r].seen
    IN  /\ Fresh(r, "arrive")
        /\ command[c].revision = TransferRevision(s)
        /\ Arrived(s) + command[c].amount <= Approved
        /\ Commit(r, Post(c, erp), c)
        /\ Note("transfer", Arrived(s) # Arrived(erp) \/ Dispatched(s) # Dispatched(erp))

(* From transit into the outlet, as much as was sent and has not arrived.    *)
ReceiveTransfer(r) ==
    LET c == request[r].command
        s == request[r].seen
    IN  /\ Fresh(r, "arrive")
        /\ command[c].revision = TransferRevision(s)
        /\ Arrived(s) + command[c].amount <= Dispatched(s)
        /\ Commit(r, Post(c, erp), c)
        /\ Note("transfer", Arrived(s) # Arrived(erp) \/ Dispatched(s) # Dispatched(erp))

(* The event is submitted with its Material Issue.                          *)
RecordWaste(r) ==
    LET c == request[r].command
    IN  /\ Fresh(r, "waste")
        /\ Commit(r, Post(c, erp), c)
        /\ UNCHANGED stale

(* Refused, for a revision, a member of staff or a configuration that is out *)
(* of date too, or cut off before the commit: rolled back.                  *)
EndRequest(r) ==
    /\ request[r] # Idle
    /\ request' = [request EXCEPT ![r] = Idle]
    /\ UNCHANGED <<command, erp, told, stale>>

Carry(r) ==
    \/ AcceptAlert(r) \/ AcceptOrder(r) \/ StartOrder(r) \/ CompleteBatch(r)
    \/ ReceiveDelivery(r) \/ DispatchTransfer(r) \/ ReceiveTransfer(r) \/ RecordWaste(r)

Next ==
    \/ \E c \in Commands : Compose(c) \/ \E r \in Requests : RequestArrives(r, c)
    \/ Sell \/ MakeOrder \/ ClearDifference
    \/ \E r \in Requests : Replay(r) \/ Carry(r) \/ EndRequest(r)

Spec == Init /\ [][Next]_vars

-----------------------------------------------------------------------------
(* Properties.                                                              *)

(* However often a command is sent, at once or again after its answer was    *)
(* lost, it posts one document, together with its receipt, and every answer  *)
(* names what the receipt names, which exists.                               *)
CommandOnce ==
    \A c \in Commands :
        LET result == erp.receipt[c]
        IN  /\ erp.posts[c] = IF result = c THEN 1 ELSE 0
            /\ told[c] \subseteq {result} \ {None}
            /\ result \in Orders \ {c} => erp.order[result].status # "none"
            /\ result = "difference" => erp.difference # "none"

(* Two tills never prepare the same stock twice over: one Work Order made    *)
(* from an alert of the recipe is open at a time, and each makes one batch,  *)
(* except where the stock or the order changed while the command waited.    *)
OneBatchAtATime ==
    "preparation" \notin stale =>
        /\ Cardinality({w \in Open(erp) : erp.order[w].alert # 0}) <= 1
        /\ \A w \in Orders : erp.order[w].batches <= 1

(* In parts, by several tills, no more is sent than was approved, no more    *)
(* arrives than was sent, and no more is received than was ordered, except   *)
(* where commands for the same document overlapped.                          *)
WithinAssigned ==
    /\ "transfer" \notin stale => Arrived(erp) <= Dispatched(erp) /\ Dispatched(erp) <= Approved
    /\ "delivery" \notin stale => Received(erp) <= Ordered
=============================================================================
