----------------------- MODULE GuidedStockTasksProofs -----------------------
(* Proofs about GuidedStockTasks, for any number of commands and requests,   *)
(* any quantities and any number of sales.                                   *)
EXTENDS GuidedStockTasks, FiniteSums, TLAPS, FiniteSetTheorems

(* What a command drawn from the feed is known to say.                       *)
Drawn(t) ==
    /\ t.revision \in Nat \/ t.task # "accept_alert"
    /\ t.task \in {"accept_order", "start", "complete"} =>
           t.source \in Orders /\ t.revision # 0
    /\ t.task = "receive" => t.amount > 0 \/ t.off > 0

(* What was read before is still true, but for what has been added.          *)
Earlier(s, e) ==
    /\ \A c \in Commands : s.receipt[c] \in {None, e.receipt[c]}
    /\ \A w \in Orders : s.order[w].status # "none" => e.order[w].status # "none"
    /\ e.difference = "none" => s.difference = "none"

(* A Work Order that exists has a revision.                                  *)
Revised(e) == \A w \in Orders : IF e.order[w].status = "none" THEN e.order[w] = NoOrder
                                                            ELSE e.order[w].revision # 0

(* A Work Order exists only once the command it is named after is done.      *)
OrdersOfCommands(e) == \A c \in Commands : e.order[c].status # "none" => e.receipt[c] = c

(* A receipt and the document it names stand or fall together.               *)
Receipted(e) ==
    \A c \in Commands :
        LET result == e.receipt[c]
        IN  /\ e.posts[c] = IF result = c THEN 1 ELSE 0
            /\ result \in Orders \ {c} => e.order[result].status # "none"
            /\ result = "difference" => e.difference # "none"

Sound(e) == e \in ErpType /\ Revised(e) /\ OrdersOfCommands(e) /\ Receipted(e)

Asked(q) ==
    /\ q \in RequestType \cup {Idle}
    /\ q # Idle => /\ q.command \in Commands /\ command[q.command] # None
                   /\ Revised(q.seen)

CommandInv ==
    /\ command = [c \in Commands |-> command[c]]
    /\ \A c \in Commands : command[c] # None => Drawn(command[c])
    /\ Sound(erp)
    /\ request = [r \in Requests |-> request[r]]
    /\ \A r \in Requests : Asked(request[r])
    /\ \A r \in Requests : request[r] # Idle => Earlier(request[r].seen, erp)
    /\ told \in [Commands -> SUBSET (Orders \cup {"difference"})]
    /\ \A c \in Commands : told[c] \subseteq {erp.receipt[c]} \ {None}

LEMMA CommandInvImplies == CommandInv => CommandOnce
  BY DEF CommandInv, CommandOnce, Sound, Receipted

LEMMA BusyRequest ==
    ASSUME CommandInv, NEW r \in Requests, request[r] # Idle
    PROVE  /\ request[r].command \in Commands
           /\ request[r].seen \in ErpType
           /\ command[request[r].command] # None
           /\ Drawn(command[request[r].command])
           /\ Revised(request[r].seen)
           /\ Earlier(request[r].seen, erp)
<1>1. Asked(request[r]) /\ Earlier(request[r].seen, erp)
  BY DEF CommandInv
<1>2. request[r] \in RequestType /\ request[r].command \in Commands
      /\ command[request[r].command] # None /\ Revised(request[r].seen)
  BY <1>1 DEF Asked
<1>3. Drawn(command[request[r].command])
  BY <1>2 DEF CommandInv
<1> QED
  BY <1>1, <1>2, <1>3 DEF RequestType

LEMMA EarlierTwice ==
    ASSUME NEW s, NEW e, NEW f, Earlier(s, e), Earlier(e, f)
    PROVE  Earlier(s, f)
  BY DEF Earlier

(* What the feed offers is well drawn.                                       *)
LEMMA FeedDrawn ==
    ASSUME Sound(erp), NEW t \in Feed(erp)
    PROVE  Drawn(t)
<1> USE DEF Drawn
<1>1. CASE t \in Alerted(erp)
  <2>1. t.task = "accept_alert" /\ t.revision = erp.stamp
    BY <1>1 DEF Alerted, Assigned
  <2>2. erp.stamp \in Nat
    BY DEF Sound, ErpType
  <2> QED
    BY <2>1, <2>2
<1>2. CASE t \in WorkOrders(erp)
  <2>1. PICK u \in Preparing \ {"accept_alert"}, w \in Open(erp) :
            t.task = u /\ t.source = w /\ t.revision = erp.order[w].revision
    BY <1>2 DEF WorkOrders, Assigned
  <2>2. w \in Orders /\ erp.order[w].status \in {"draft", "started"}
    BY <2>1 DEF Open
  <2> QED
    BY <2>1, <2>2 DEF Preparing, Sound, Revised
<1>3. CASE t \in Deliveries(erp)
  <2>1. PICK a \in 0 .. Ordered, b \in {0, 1}, x \in BOOLEAN :
            t = [task |-> "receive", source |-> None, revision |-> DeliveryRevision(erp),
                 amount |-> a, off |-> b, extra |-> x]
    BY <1>3 DEF Deliveries
  <2>2. t.task = "receive" /\ t.amount = a /\ t.off = b
    BY <2>1
  <2>3. t.amount + t.off \in 1 .. Ordered
    BY <1>3 DEF Deliveries
  <2> QED
    BY <2>2, <2>3, GuidedAssumption
<1>4. CASE t \in Transfers(erp)
  BY <1>4 DEF Transfers, Assigned
<1>5. CASE t \in Waste
  BY <1>5 DEF Waste, Assigned
<1> QED
  BY <1>1, <1>2, <1>3, <1>4, <1>5 DEF Feed

(* The answer that ends a request, once the receipt and the documents are    *)
(* written soundly.                                                          *)
LEMMA Carried ==
    ASSUME CommandInv, NEW r \in Requests, request[r] # Idle,
           NEW result \in Orders \cup {"difference"},
           Answer(r, request[r].command, result), UNCHANGED command,
           Sound(erp'), Earlier(erp, erp'),
           erp'.receipt[request[r].command] = result
    PROVE  CommandInv'
<1> DEFINE c == request[r].command
<1>1. c \in Commands
  BY BusyRequest
<1>2. request' = [request EXCEPT ![r] = Idle]
  BY DEF Answer
<1>3. \A q \in Requests : request'[q] = IF q = r THEN Idle ELSE request[q]
  BY <1>2 DEF CommandInv
<1>4. \A q \in Requests : Asked(request[q])
  BY DEF CommandInv
<1>5. \A q \in Requests : Asked(request[q])'
  BY <1>3, <1>4 DEF Asked
<1>6. \A q \in Requests : request'[q] # Idle => Earlier(request'[q].seen, erp')
  BY <1>3, EarlierTwice DEF CommandInv
<1>7. told' \in [Commands -> SUBSET (Orders \cup {"difference"})]
  BY <1>1 DEF CommandInv, Answer
<1>8. result # None
  BY GuidedAssumption DEF Orders
<1>9. \A d \in Commands : told'[d] \subseteq {erp'.receipt[d]} \ {None}
  <2> SUFFICES ASSUME NEW d \in Commands PROVE told'[d] \subseteq {erp'.receipt[d]} \ {None}
    OBVIOUS
  <2>1. told[d] \subseteq {erp.receipt[d]} \ {None}
    BY DEF CommandInv
  <2>2. erp.receipt[d] \in {None, erp'.receipt[d]}
    BY DEF Earlier
  <2>3. told'[d] = told[d] \/ (d = c /\ told'[d] = told[d] \cup {result})
    BY <1>1 DEF CommandInv, Answer
  <2> QED
    BY <1>8, <2>1, <2>2, <2>3
<1>10. request' = [q \in Requests |-> request'[q]]
  BY <1>2 DEF CommandInv
<1> QED
  BY <1>5, <1>6, <1>7, <1>9, <1>10 DEF CommandInv

(* Nobody has answered the command yet, so its documents do not exist.       *)
LEMMA FreshCommand ==
    ASSUME CommandInv, NEW r \in Requests, NEW task, Fresh(r, task)
    PROVE  /\ request[r] # Idle
           /\ request[r].command \in Commands
           /\ command[request[r].command].task = task
           /\ erp.receipt[request[r].command] = None
           /\ erp.posts[request[r].command] = 0
           /\ erp.order[request[r].command] = NoOrder
<1> DEFINE c == request[r].command
<1>1. request[r] # Idle /\ command[c].task = task /\ erp.receipt[c] = None
  BY DEF Fresh
<1>2. c \in Commands
  BY <1>1, BusyRequest
<1>3. None # c
  BY <1>2, GuidedAssumption
<1>4. erp.posts[c] = 0 /\ erp.order[c].status = "none"
  <2>1. Receipted(erp) /\ OrdersOfCommands(erp)
    BY DEF CommandInv, Sound
  <2> QED
    BY <1>1, <1>2, <1>3, <2>1 DEF Receipted, OrdersOfCommands
<1>5. erp.order[c] = NoOrder
  BY <1>2, <1>4 DEF CommandInv, Sound, Revised, Orders
<1> QED
  BY <1>1, <1>2, <1>4, <1>5

LEMMA ReflexiveEarlier == ASSUME NEW e PROVE Earlier(e, e)
  BY DEF Earlier
LEMMA CommandInvInit == Init => CommandInv
<1> SUFFICES ASSUME Init PROVE CommandInv
  OBVIOUS
<1>1. erp \in ErpType
  BY DEF Init, ErpType, OrderType, NoOrder
<1>2. \A w \in Orders : erp.order[w] = NoOrder
  BY DEF Init
<1>3. \A c \in Commands : erp.receipt[c] = None /\ erp.posts[c] = 0
  BY DEF Init
<1>4. \A c \in Commands : None # c
  BY GuidedAssumption
<1>5. None \notin Orders /\ None # "difference"
  BY GuidedAssumption DEF Orders
<1>6. Revised(erp) /\ OrdersOfCommands(erp) /\ Receipted(erp)
  BY <1>2, <1>3, <1>4, <1>5 DEF Revised, OrdersOfCommands, Receipted, NoOrder, Orders
<1> QED
  BY <1>1, <1>6 DEF Init, CommandInv, Sound, Asked

(* The outlet, the back office and the arrival of a request leave the        *)
(* receipts alone.                                                           *)
LEMMA ComposeStep ==
    ASSUME CommandInv, NEW c \in Commands, Compose(c) PROVE CommandInv'
<1>1. PICK t \in Feed(erp) : command' = [command EXCEPT ![c] = t]
  BY DEF Compose
<1>2. Drawn(t)
  BY FeedDrawn DEF CommandInv
<1>3. \A d \in Commands : command'[d] = IF d = c THEN t ELSE command[d]
  BY <1>1 DEF CommandInv
<1>4. UNCHANGED <<erp, request, told>> /\ command[c] = None
  BY DEF Compose
<1>5. command' = [d \in Commands |-> command'[d]]
  BY <1>1 DEF CommandInv
<1>6. \A d \in Commands : command'[d] # None => Drawn(command'[d])
  BY <1>2, <1>3 DEF CommandInv
<1>7. \A q \in Requests : Asked(request[q])'
  BY <1>3, <1>4 DEF CommandInv, Asked
<1> QED
  BY <1>4, <1>5, <1>6, <1>7 DEF CommandInv, Sound, Revised, OrdersOfCommands, Receipted, Earlier

LEMMA ArriveStep ==
    ASSUME CommandInv, NEW r \in Requests, NEW c \in Commands, RequestArrives(r, c)
    PROVE  CommandInv'
<1> DEFINE q0 == [command |-> c, seen |-> erp]
<1>1. UNCHANGED <<command, erp, told>> /\ command[c] # None
      /\ request' = [request EXCEPT ![r] = q0]
  BY DEF RequestArrives
<1>2. \A q \in Requests : request'[q] = IF q = r THEN q0 ELSE request[q]
  BY <1>1 DEF CommandInv
<1>3. q0 \in RequestType /\ q0.command = c /\ q0.seen = erp
  BY DEF CommandInv, Sound, RequestType
<1>4. Asked(q0) /\ Earlier(q0.seen, erp)
  BY <1>1, <1>3, ReflexiveEarlier DEF CommandInv, Sound, Asked
<1>5. \A q \in Requests : Asked(request'[q])
  BY <1>2, <1>4 DEF CommandInv
<1>6. \A q \in Requests : request'[q] # Idle => Earlier(request'[q].seen, erp)
  BY <1>2, <1>4 DEF CommandInv
<1>7. request' = [q \in Requests |-> request'[q]]
  BY <1>1 DEF CommandInv
<1> QED
  BY <1>1, <1>5, <1>6, <1>7 DEF CommandInv, Asked, Sound, Revised, OrdersOfCommands, Receipted

(* What changes neither receipts nor documents only lets requests read the   *)
(* past.                                                                     *)
LEMMA OutsideStep ==
    ASSUME CommandInv, UNCHANGED <<command, request, told>>,
           Sound(erp'), Earlier(erp, erp'), erp'.receipt = erp.receipt
    PROVE  CommandInv'
<1>1. \A q \in Requests : request[q] # Idle => Earlier(request[q].seen, erp')
  BY EarlierTwice DEF CommandInv
<1> QED
  BY <1>1 DEF CommandInv, Asked

LEMMA SellStep == ASSUME CommandInv, Sell PROVE CommandInv'
<1>1. PICK low \in {erp.low, TRUE} : erp' = [erp EXCEPT !.stamp = @ + 1, !.low = low]
  BY DEF Sell
<1>2. erp' \in ErpType
  <2>1. erp \in ErpType /\ erp.stamp + 1 \in Nat
    BY DEF CommandInv, Sound, ErpType
  <2>2. erp.low \in BOOLEAN
    BY <2>1 DEF ErpType
  <2>3. low \in BOOLEAN
    BY <2>2, Zenon
  <2> QED
    BY <1>1, <2>1, <2>3 DEF ErpType
<1>3. /\ erp'.receipt = erp.receipt /\ erp'.order = erp.order
      /\ erp'.posts = erp.posts /\ erp'.difference = erp.difference
  BY <1>1 DEF CommandInv, Sound, ErpType
<1>4. Sound(erp') /\ Earlier(erp, erp')
  BY <1>2, <1>3 DEF CommandInv, Sound, Revised, OrdersOfCommands, Receipted, Earlier
<1> QED
  BY <1>3, <1>4, OutsideStep DEF Sell

LEMMA MakeOrderStep == ASSUME CommandInv, MakeOrder PROVE CommandInv'
<1>1. PICK status \in {"draft", "started"} : erp' = [erp EXCEPT !.order["desk"] = Desk(status)]
  BY DEF MakeOrder
<1>2. Desk(status) \in OrderType /\ Desk(status).status = status /\ Desk(status).revision = 1
  BY DEF Desk, OrderType
<1>3. erp' \in ErpType
  BY <1>1, <1>2 DEF CommandInv, Sound, ErpType
<1>4. /\ erp'.receipt = erp.receipt /\ erp'.posts = erp.posts
      /\ erp'.difference = erp.difference
      /\ \A w \in Orders : erp'.order[w] = IF w = "desk" THEN Desk(status) ELSE erp.order[w]
  BY <1>1 DEF CommandInv, Sound, ErpType
<1>5. \A c \in Commands : c # "desk" /\ c \in Orders
  BY GuidedAssumption DEF Orders
<1>6. Revised(erp') /\ Earlier(erp, erp')
  BY <1>2, <1>4 DEF CommandInv, Sound, Revised, Earlier
<1>7. OrdersOfCommands(erp')
  BY <1>4, <1>5 DEF CommandInv, Sound, OrdersOfCommands
<1>8. Receipted(erp')
  BY <1>2, <1>4 DEF CommandInv, Sound, Receipted
<1> QED
  BY <1>3, <1>4, <1>6, <1>7, <1>8, OutsideStep DEF MakeOrder, Sound

LEMMA ClearStep == ASSUME CommandInv, ClearDifference PROVE CommandInv'
<1>1. erp' = [erp EXCEPT !.difference = "cleared"] /\ erp.difference = "open"
  BY DEF ClearDifference
<1>2. erp' \in ErpType
  BY <1>1 DEF CommandInv, Sound, ErpType
<1>3. /\ erp'.receipt = erp.receipt /\ erp'.order = erp.order
      /\ erp'.posts = erp.posts /\ erp'.difference = "cleared"
  BY <1>1 DEF CommandInv, Sound, ErpType
<1>4. Sound(erp') /\ Earlier(erp, erp')
  BY <1>2, <1>3 DEF CommandInv, Sound, Revised, OrdersOfCommands, Receipted, Earlier
<1> QED
  BY <1>3, <1>4, OutsideStep DEF ClearDifference

LEMMA EndStep == ASSUME CommandInv, NEW r \in Requests, EndRequest(r) PROVE CommandInv'
<1>1. UNCHANGED <<command, erp, told>> /\ request' = [request EXCEPT ![r] = Idle]
  BY DEF EndRequest
<1>2. \A q \in Requests : request'[q] = IF q = r THEN Idle ELSE request[q]
  BY <1>1 DEF CommandInv
<1>3. \A q \in Requests : Asked(request'[q])
  BY <1>2 DEF CommandInv, Asked
<1>4. request' = [q \in Requests |-> request'[q]]
  BY <1>1 DEF CommandInv
<1> QED
  BY <1>1, <1>2, <1>3, <1>4 DEF CommandInv, Asked, Sound, Revised, OrdersOfCommands, Receipted, Earlier

LEMMA ReplayStep == ASSUME CommandInv, NEW r \in Requests, Replay(r) PROVE CommandInv'
<1> DEFINE c == request[r].command
           found == request[r].seen.receipt[c]
<1>1. request[r] # Idle /\ found # None /\ Answer(r, c, found) /\ UNCHANGED <<command, erp>>
  BY DEF Replay
<1>2. c \in Commands /\ request[r].seen \in ErpType /\ Earlier(request[r].seen, erp)
  BY <1>1, BusyRequest
<1>3. found = erp.receipt[c] /\ found \in Orders \cup {"difference"}
  BY <1>1, <1>2 DEF Earlier, ErpType
<1>4. Sound(erp') /\ Earlier(erp, erp')
  BY <1>1, ReflexiveEarlier DEF CommandInv
<1> QED
  BY <1>1, <1>3, <1>4, Carried

(* What a command carries out.  Each writes its receipt, and its documents   *)
(* only grow.                                                                *)
LEMMA Posted ==
    ASSUME NEW e \in ErpType, NEW c \in Commands
    PROVE  /\ Post(c, e) \in ErpType
           /\ \A d \in Commands :
                  Post(c, e).posts[d] = IF d = c THEN e.posts[c] + 1 ELSE e.posts[d]
           /\ Post(c, e).receipt = e.receipt /\ Post(c, e).order = e.order
           /\ Post(c, e).difference = e.difference
           /\ Post(c, e).stamp = e.stamp /\ Post(c, e).low = e.low
<1>1. e.posts[c] + 1 \in Nat
  BY DEF ErpType
<1> QED
  BY <1>1 DEF Post, ErpType

(* The receipt of a command whose document is posted with it, or whose       *)
(* result was there already, is sound.                                       *)
LEMMA Receipts ==
    ASSUME Sound(erp), NEW c \in Commands, erp.receipt[c] = None,
           NEW posted \in ErpType, NEW result \in Orders \cup {"difference"},
           erp' = [posted EXCEPT !.receipt[c] = result],
           posted.receipt = erp.receipt,
           \A d \in Commands : posted.posts[d] =
               IF d = c /\ result = c THEN 1 ELSE erp.posts[d],
           Revised(posted),
           \A w \in Orders : erp.order[w].status # "none" => posted.order[w].status # "none",
           \A d \in Commands : posted.order[d].status # "none" =>
               erp.order[d].status # "none" \/ (d = c /\ result = c),
           erp.difference # "none" => posted.difference # "none",
           result \in Orders \ {c} => posted.order[result].status # "none",
           result = "difference" => posted.difference # "none"
    PROVE  Sound(erp') /\ Earlier(erp, erp') /\ erp'.receipt[c] = result
<1>1. \A d \in Commands : erp'.receipt[d] = IF d = c THEN result ELSE erp.receipt[d]
  BY DEF ErpType
<1>2. erp' \in ErpType
  BY DEF ErpType
<1>3. erp'.order = posted.order /\ erp'.posts = posted.posts
      /\ erp'.difference = posted.difference
  BY DEF ErpType
<1>4. \A d \in Commands : d # None /\ d \in Orders
  BY GuidedAssumption DEF Orders
<1>5. Earlier(erp, erp')
  BY <1>1, <1>3 DEF Earlier
<1>6. Revised(erp')
  BY <1>3 DEF Revised
<1>7. OrdersOfCommands(erp')
  BY <1>1, <1>3, <1>4 DEF OrdersOfCommands, Sound
<1>8. Receipted(erp')
  <2> SUFFICES ASSUME NEW d \in Commands
               PROVE  /\ erp'.posts[d] = IF erp'.receipt[d] = d THEN 1 ELSE 0
                      /\ erp'.receipt[d] \in Orders \ {d} =>
                             erp'.order[erp'.receipt[d]].status # "none"
                      /\ erp'.receipt[d] = "difference" => erp'.difference # "none"
    BY DEF Receipted
  <2>1. /\ erp.posts[d] = IF erp.receipt[d] = d THEN 1 ELSE 0
        /\ erp.receipt[d] \in Orders \ {d} => erp.order[erp.receipt[d]].status # "none"
        /\ erp.receipt[d] = "difference" => erp.difference # "none"
    BY DEF Sound, Receipted
  <2>2. CASE d = c
    BY <1>1, <1>3, <1>4, <2>1, <2>2
  <2>3. CASE d # c
    BY <1>1, <1>3, <2>1, <2>3
  <2> QED
    BY <2>2, <2>3
<1> QED
  BY <1>1, <1>2, <1>5, <1>6, <1>7, <1>8 DEF Sound

(* A Work Order that was read is not the one the command would be named      *)
(* after, and is still there.                                                *)
LEMMA OrderRead ==
    ASSUME CommandInv, NEW r \in Requests, NEW task, Fresh(r, task),
           NEW w \in Orders, request[r].seen.order[w].status # "none"
    PROVE  w # request[r].command /\ erp.order[w].status # "none"
<1>1. erp.order[w].status # "none"
  BY FreshCommand, BusyRequest DEF Earlier
<1>2. erp.order[request[r].command] = NoOrder
  BY FreshCommand
<1> QED
  BY <1>1, <1>2 DEF NoOrder

LEMMA SourceRead ==
    ASSUME CommandInv, NEW r \in Requests,
           NEW task \in {"accept_order", "start", "complete"}, Fresh(r, task), Unchanged(r)
    PROVE  LET w == command[request[r].command].source
           IN  w \in Orders /\ request[r].seen.order[w].status # "none"
<1>1. Drawn(command[request[r].command]) /\ command[request[r].command].task = task
      /\ Revised(request[r].seen)
  BY FreshCommand, BusyRequest
<1> DEFINE t == command[request[r].command]
<1>2. t.source \in Orders /\ t.revision # 0
  BY <1>1 DEF Drawn
<1>3. request[r].seen.order[t.source].revision = t.revision
  BY DEF Unchanged
<1>4. NoOrder.revision = 0
  BY DEF NoOrder
<1> QED
  BY <1>1, <1>2, <1>3, <1>4 DEF Revised

(* Answering with a Work Order that is there already changes nothing else.   *)
LEMMA NamedStep ==
    ASSUME CommandInv, NEW r \in Requests, NEW task, Fresh(r, task),
           NEW w \in Orders, request[r].seen.order[w].status # "none",
           Commit(r, erp, w)
    PROVE  CommandInv'
<1> DEFINE c == request[r].command
<1>1. w # c /\ erp.order[w].status # "none"
  BY OrderRead
<1>2. c \in Commands /\ request[r] # Idle /\ erp.receipt[c] = None /\ erp.posts[c] = 0
  BY FreshCommand
<1>3. erp' = [erp EXCEPT !.receipt[c] = w] /\ Answer(r, c, w) /\ UNCHANGED command
  BY DEF Commit
<1>4. Sound(erp') /\ Earlier(erp, erp') /\ erp'.receipt[c] = w
  <2>1. erp \in ErpType /\ Revised(erp) /\ Sound(erp)
    BY DEF CommandInv, Sound
  <2>2. w # "difference"
    BY GuidedAssumption DEF Orders
  <2> QED
    BY <1>1, <1>2, <1>3, <2>1, <2>2, Receipts
<1> QED
  BY <1>2, <1>3, <1>4, Carried

LEMMA AcceptAlertStep ==
    ASSUME CommandInv, NEW r \in Requests, AcceptAlert(r) PROVE CommandInv'
<1> DEFINE c == request[r].command
           alert == command[c].revision
           order == [status |-> "draft", alert |-> alert, revision |-> 1, batches |-> 0]
           posted == [Post(c, erp) EXCEPT !.order[c] = order]
<1>1. Fresh(r, "accept_alert")
  BY DEF AcceptAlert
<1>2. c \in Commands /\ request[r] # Idle /\ erp.receipt[c] = None /\ erp.posts[c] = 0
      /\ erp.order[c] = NoOrder /\ command[c].task = "accept_alert"
  BY <1>1, FreshCommand
<1>3. ASSUME NEW w \in Prepared(request[r].seen, alert), Commit(r, erp, w) PROVE CommandInv'
  BY <1>1, <1>3, NamedStep DEF Prepared
<1>4. CASE Commit(r, posted, c)
  <2>1. alert \in Nat
    BY <1>2, BusyRequest DEF Drawn
  <2>2. order \in OrderType /\ order.status = "draft" /\ order.revision = 1
    BY <2>1 DEF OrderType
  <2>3. erp \in ErpType /\ Revised(erp) /\ Sound(erp) /\ c \in Orders
    BY <1>2 DEF CommandInv, Sound, Orders
  <2>4. Post(c, erp) \in ErpType
    BY <1>2, <2>3, Posted
  <2>5. posted \in ErpType
    BY <2>2, <2>3, <2>4 DEF ErpType
  <2>6. /\ \A d \in Commands : posted.posts[d] = IF d = c THEN 1 ELSE erp.posts[d]
        /\ posted.receipt = erp.receipt /\ posted.difference = erp.difference
        /\ \A w \in Orders : posted.order[w] = IF w = c THEN order ELSE erp.order[w]
    <3>1. /\ posted.posts = Post(c, erp).posts /\ posted.receipt = Post(c, erp).receipt
          /\ posted.difference = Post(c, erp).difference
          /\ \A w \in Orders : posted.order[w] = IF w = c THEN order ELSE Post(c, erp).order[w]
      BY <2>4 DEF ErpType
    <3> QED
      BY <1>2, <2>3, <3>1, Posted
  <2>7. Revised(posted)
    BY <2>2, <2>3, <2>6 DEF Revised
  <2>8. c # "difference" /\ Commands \subseteq Orders
    BY <1>2, GuidedAssumption DEF Orders
  <2>9. erp' = [posted EXCEPT !.receipt[c] = c] /\ Answer(r, c, c) /\ UNCHANGED command
    BY <1>4 DEF Commit
  <2>10. Sound(erp') /\ Earlier(erp, erp') /\ erp'.receipt[c] = c
    <3> HIDE DEF c, posted, order
    <3> QED
      BY <1>2, <2>2, <2>3, <2>5, <2>6, <2>7, <2>8, <2>9, Receipts DEF NoOrder
  <2> QED
    BY <1>2, <2>3, <2>9, <2>10, Carried
<1> QED
  BY <1>1, <1>3, <1>4 DEF AcceptAlert

LEMMA AdvancedOrder ==
    ASSUME NEW order \in OrderType, NEW status \in {"draft", "started", "made"}
    PROVE  /\ Advanced(order, status) \in OrderType
           /\ Advanced(order, status).status = status
           /\ Advanced(order, status).revision # 0
           /\ [Advanced(order, status) EXCEPT !.batches = @ + 1] \in OrderType
           /\ [Advanced(order, status) EXCEPT !.batches = @ + 1].status = status
           /\ [Advanced(order, status) EXCEPT !.batches = @ + 1].revision # 0
<1>1. order.revision + 1 \in Nat /\ order.revision + 1 # 0 /\ order.batches + 1 \in Nat
  BY DEF OrderType
<1> QED
  BY <1>1 DEF Advanced, OrderType

(* Saving a Work Order keeps it.                                             *)
LEMMA SavedStep ==
    ASSUME CommandInv, NEW r \in Requests, NEW task \in {"accept_order", "start"},
           Fresh(r, task), Unchanged(r),
           NEW status \in {"draft", "started"}, Saved(r, status)
    PROVE  CommandInv'
<1> DEFINE c == request[r].command
           w == command[c].source
           order == Advanced(erp.order[w], status)
           posted == [erp EXCEPT !.order[w] = order]
<1>1. w \in Orders /\ request[r].seen.order[w].status # "none"
  BY SourceRead
<1>2. w # c /\ erp.order[w].status # "none"
  BY <1>1, OrderRead
<1>3. c \in Commands /\ request[r] # Idle /\ erp.receipt[c] = None /\ erp.posts[c] = 0
      /\ erp.order[c] = NoOrder
  BY FreshCommand
<1>4. erp \in ErpType /\ Revised(erp) /\ Sound(erp)
  BY DEF CommandInv, Sound
<1>5. erp.order[w] \in OrderType
  BY <1>1, <1>4 DEF ErpType
<1>6. order \in OrderType /\ order.status = status /\ order.revision # 0
  <2>1. status \in {"draft", "started", "made"}
    OBVIOUS
  <2>2. /\ Advanced(erp.order[w], status) \in OrderType
        /\ Advanced(erp.order[w], status).status = status
        /\ Advanced(erp.order[w], status).revision # 0
    BY <1>5, <2>1, AdvancedOrder
  <2> QED
    BY <2>2
<1>7. posted \in ErpType
  <2> HIDE DEF order, w
  <2> QED
    BY <1>1, <1>4, <1>6 DEF ErpType
<1>8. /\ posted.posts = erp.posts /\ posted.receipt = erp.receipt
      /\ posted.difference = erp.difference
      /\ \A v \in Orders : posted.order[v] = IF v = w THEN order ELSE erp.order[v]
  <2> HIDE DEF order, w
  <2> QED
    BY <1>4 DEF ErpType
<1>9. erp' = [posted EXCEPT !.receipt[c] = w] /\ Answer(r, c, w) /\ UNCHANGED command
  BY DEF Saved, Commit
<1>10. Sound(erp') /\ Earlier(erp, erp') /\ erp'.receipt[c] = w
  <2>1. Revised(posted)
    BY <1>4, <1>6, <1>8 DEF Revised
  <2>2. w # "difference" /\ Commands \subseteq Orders
    BY <1>1, GuidedAssumption DEF Orders
  <2> HIDE DEF c, w, posted, order
  <2> QED
    BY <1>1, <1>2, <1>3, <1>4, <1>6, <1>7, <1>8, <1>9, <2>1, <2>2, Receipts
<1> QED
  BY <1>1, <1>3, <1>9, <1>10, Carried

LEMMA AcceptOrderStep ==
    ASSUME CommandInv, NEW r \in Requests, AcceptOrder(r) PROVE CommandInv'
  BY SavedStep DEF AcceptOrder

LEMMA StartOrderStep ==
    ASSUME CommandInv, NEW r \in Requests, StartOrder(r) PROVE CommandInv'
<1> DEFINE w == command[request[r].command].source
<1>1. Fresh(r, "start") /\ Unchanged(r)
  BY DEF StartOrder
<1>2. CASE Saved(r, "started")
  BY <1>1, <1>2, SavedStep
<1>3. CASE Commit(r, erp, w)
  <2>1. w \in Orders /\ request[r].seen.order[w].status # "none"
    BY <1>1, SourceRead
  <2> QED
    BY <1>1, <1>3, <2>1, NamedStep
<1> QED
  BY <1>2, <1>3 DEF StartOrder

(* A document posted under the command's own name.                           *)
LEMMA PostedStep ==
    ASSUME CommandInv, NEW r \in Requests, NEW task, Fresh(r, task),
           NEW posted \in ErpType, Commit(r, posted, request[r].command),
           posted.posts = Post(request[r].command, erp).posts,
           posted.receipt = erp.receipt,
           Revised(posted),
           \A w \in Orders : posted.order[w].status # "none" <=> erp.order[w].status # "none",
           erp.difference # "none" => posted.difference # "none"
    PROVE  CommandInv'
<1> DEFINE c == request[r].command
<1>1. c \in Commands /\ request[r] # Idle /\ erp.receipt[c] = None /\ erp.posts[c] = 0
  BY FreshCommand
<1>2. erp \in ErpType /\ Sound(erp)
  BY DEF CommandInv, Sound
<1>3. \A d \in Commands : posted.posts[d] = IF d = c THEN 1 ELSE erp.posts[d]
  BY <1>1, <1>2, Posted
<1>4. c \in Orders /\ c # "difference" /\ Commands \subseteq Orders
  BY <1>1, GuidedAssumption DEF Orders
<1>5. erp' = [posted EXCEPT !.receipt[c] = c] /\ Answer(r, c, c) /\ UNCHANGED command
  BY DEF Commit
<1>6. Sound(erp') /\ Earlier(erp, erp') /\ erp'.receipt[c] = c
  <2> HIDE DEF c
  <2> QED
    BY <1>1, <1>2, <1>3, <1>4, <1>5, Receipts
<1> QED
  BY <1>1, <1>4, <1>5, <1>6, Carried

LEMMA CompleteStep ==
    ASSUME CommandInv, NEW r \in Requests, CompleteBatch(r) PROVE CommandInv'
<1> DEFINE c == request[r].command
           w == command[c].source
           e == Post(c, erp)
<1>1. Fresh(r, "complete") /\ Unchanged(r)
  BY DEF CompleteBatch
<1>2. w \in Orders /\ request[r].seen.order[w].status # "none"
  BY <1>1, SourceRead
<1>3. erp.order[w].status # "none" /\ c \in Commands
  BY <1>1, <1>2, OrderRead, FreshCommand
<1>4. erp \in ErpType /\ Revised(erp)
  BY DEF CommandInv, Sound
<1>5. e \in ErpType /\ e.receipt = erp.receipt /\ e.order = erp.order
      /\ e.difference = erp.difference
  BY <1>3, <1>4, Posted
<1>6. PICK low \in BOOLEAN :
          Commit(r, [e EXCEPT !.stamp = @ + 1, !.low = low,
                        !.order[w] = [Advanced(erp.order[w], "made") EXCEPT
                                          !.batches = @ + 1]], c)
  BY DEF CompleteBatch
<1> DEFINE order == [Advanced(erp.order[w], "made") EXCEPT !.batches = @ + 1]
           posted == [e EXCEPT !.stamp = @ + 1, !.low = low, !.order[w] = order]
<1>7. erp.order[w] \in OrderType
  BY <1>2, <1>4 DEF ErpType
<1>8. order \in OrderType /\ order.status = "made" /\ order.revision # 0
  BY <1>7, AdvancedOrder
<1>9. e.stamp + 1 \in Nat
  BY <1>5 DEF ErpType
<1>10. posted \in ErpType
  <2> HIDE DEF e, order
  <2> QED
    BY <1>5, <1>8, <1>9 DEF ErpType
<1>11. /\ posted.posts = e.posts /\ posted.receipt = e.receipt
       /\ posted.difference = e.difference
       /\ \A v \in Orders : posted.order[v] = IF v = w THEN order ELSE e.order[v]
  <2> HIDE DEF e, order
  <2> QED
    BY <1>5 DEF ErpType
<1>12. Revised(posted)
  BY <1>4, <1>5, <1>8, <1>11 DEF Revised
<1>13. \A v \in Orders : posted.order[v].status # "none" <=> erp.order[v].status # "none"
  BY <1>3, <1>5, <1>8, <1>11
<1>14. Commit(r, posted, c)
  BY <1>6
<1> HIDE DEF posted
<1> QED
  BY <1>1, <1>5, <1>10, <1>11, <1>12, <1>13, <1>14, PostedStep

LEMMA DeliveryStep ==
    ASSUME CommandInv, NEW r \in Requests, ReceiveDelivery(r) PROVE CommandInv'
<1> DEFINE c == request[r].command
           differs == command[c].off > 0 \/ command[c].extra
           e == IF command[c].amount > 0 THEN Post(c, erp) ELSE erp
           posted == IF differs THEN [e EXCEPT !.difference = "open"] ELSE e
           result == IF command[c].amount > 0 THEN c ELSE "difference"
<1>1. Fresh(r, "receive") /\ Commit(r, posted, result)
  BY DEF ReceiveDelivery
<1>2. c \in Commands /\ request[r] # Idle /\ erp.receipt[c] = None /\ erp.posts[c] = 0
      /\ command[c].task = "receive"
  BY <1>1, FreshCommand
<1>3. command[c].amount > 0 \/ command[c].off > 0
  BY <1>2, BusyRequest DEF Drawn
<1>4. erp \in ErpType /\ Revised(erp) /\ Sound(erp)
  BY DEF CommandInv, Sound
<1>5. e \in ErpType /\ e.receipt = erp.receipt /\ e.order = erp.order
      /\ e.difference = erp.difference
  BY <1>2, <1>4, Posted
<1>6. /\ posted \in ErpType /\ posted.receipt = erp.receipt /\ posted.order = erp.order
      /\ posted.posts = e.posts
      /\ posted.difference = IF differs THEN "open" ELSE erp.difference
  <2> HIDE DEF e, differs
  <2> QED
    BY <1>5 DEF ErpType
<1>7. Revised(posted)
  BY <1>4, <1>6 DEF Revised
<1>8. CASE command[c].amount > 0
  <2>1. posted.posts = Post(c, erp).posts
    BY <1>6, <1>8
  <2>2. Commit(r, posted, c)
    BY <1>1, <1>8
  <2> HIDE DEF c, posted
  <2>3. c = request[r].command
    BY DEF c
  <2> QED
    BY <1>1, <1>6, <1>7, <2>1, <2>2, <2>3, PostedStep
<1>9. CASE ~(command[c].amount > 0)
  <2>1. posted.posts = erp.posts /\ posted.difference = "open"
    BY <1>3, <1>6, <1>9
  <2>2. erp' = [posted EXCEPT !.receipt[c] = "difference"]
        /\ Answer(r, c, "difference") /\ UNCHANGED command
    BY <1>1, <1>9 DEF Commit
  <2>3. "difference" \notin Orders /\ "difference" # c
    BY <1>2, GuidedAssumption DEF Orders
  <2>4. Sound(erp') /\ Earlier(erp, erp') /\ erp'.receipt[c] = "difference"
    <3> HIDE DEF c, posted
    <3> QED
      BY <1>2, <1>4, <1>6, <1>7, <2>1, <2>2, <2>3, Receipts
  <2> QED
    BY <1>2, <2>2, <2>4, Carried
<1> QED
  BY <1>8, <1>9

(* A transfer in either direction, or waste: the document is all there is.   *)
LEMMA DocumentStep ==
    ASSUME CommandInv, NEW r \in Requests, NEW task, Fresh(r, task),
           Commit(r, Post(request[r].command, erp), request[r].command)
    PROVE  CommandInv'
<1> DEFINE c == request[r].command
           posted == Post(c, erp)
<1>1. c \in Commands
  BY FreshCommand
<1>2. erp \in ErpType /\ Revised(erp)
  BY DEF CommandInv, Sound
<1>3. posted \in ErpType /\ posted.receipt = erp.receipt /\ posted.order = erp.order
      /\ posted.difference = erp.difference
  BY <1>1, <1>2, Posted
<1>4. Revised(posted)
  BY <1>2, <1>3 DEF Revised
<1> QED
  BY <1>3, <1>4, PostedStep

LEMMA CommandInvStep == CommandInv /\ [Next]_vars => CommandInv'
<1> SUFFICES ASSUME CommandInv, [Next]_vars PROVE CommandInv'
  OBVIOUS
<1>1. ASSUME NEW c \in Commands, Compose(c) PROVE CommandInv'
  BY <1>1, ComposeStep
<1>2. ASSUME NEW c \in Commands, NEW r \in Requests, RequestArrives(r, c) PROVE CommandInv'
  BY <1>2, ArriveStep
<1>3. CASE Sell
  BY <1>3, SellStep
<1>4. CASE MakeOrder
  BY <1>4, MakeOrderStep
<1>5. CASE ClearDifference
  BY <1>5, ClearStep
<1>6. ASSUME NEW r \in Requests, Replay(r) PROVE CommandInv'
  BY <1>6, ReplayStep
<1>7. ASSUME NEW r \in Requests, EndRequest(r) PROVE CommandInv'
  BY <1>7, EndStep
<1>8. ASSUME NEW r \in Requests, Carry(r) PROVE CommandInv'
  <2>1. CASE AcceptAlert(r)
    BY <2>1, AcceptAlertStep
  <2>2. CASE AcceptOrder(r)
    BY <2>2, AcceptOrderStep
  <2>3. CASE StartOrder(r)
    BY <2>3, StartOrderStep
  <2>4. CASE CompleteBatch(r)
    BY <2>4, CompleteStep
  <2>5. CASE ReceiveDelivery(r)
    BY <2>5, DeliveryStep
  <2>6. CASE DispatchTransfer(r)
    BY <2>6, DocumentStep DEF DispatchTransfer
  <2>7. CASE ReceiveTransfer(r)
    BY <2>7, DocumentStep DEF ReceiveTransfer
  <2>8. CASE RecordWaste(r)
    BY <2>8, DocumentStep DEF RecordWaste
  <2> QED
    BY <1>8, <2>1, <2>2, <2>3, <2>4, <2>5, <2>6, <2>7, <2>8 DEF Carry
<1>9. CASE UNCHANGED vars
  BY <1>9 DEF vars, CommandInv, Asked, Sound, Revised, OrdersOfCommands, Receipted, Earlier
<1> QED
  BY <1>1, <1>2, <1>3, <1>4, <1>5, <1>6, <1>7, <1>8, <1>9 DEF Next

(* The inductive invariant: what every request has read is still so, and a   *)
(* receipt and the document it names stand or fall together.                 *)
THEOREM CommandsHold == Spec => []CommandInv
  BY CommandInvInit, CommandInvStep, PTL DEF Spec

(* Whatever the tills send again and however requests overlap, a guided      *)
(* command posts one document together with its receipt, and every answer    *)
(* names what that receipt names.                                            *)
THEOREM CommandsOnce == Spec => []CommandOnce
  BY CommandsHold, CommandInvImplies, PTL

-----------------------------------------------------------------------------
(* One batch at a time.  While nothing was decided on stock or an order that *)
(* had changed since, a Work Order is made once; one Work Order made from an *)
(* alert is open; and no till holds an alert that is younger than the open   *)
(* order, because alerts are shown only while no order is open.  An alert is *)
(* as old as the Bin's stamp it was raised at.                               *)
OneBatchEach(e) ==
    \A w \in Orders : e.order[w].batches = IF e.order[w].status = "made" THEN 1 ELSE 0

FromAlert(e) == {w \in Open(e) : e.order[w].alert # 0}

AlertsSettled(e) ==
    /\ \A w \in Orders : e.order[w].alert <= e.stamp
    /\ \A v, w \in FromAlert(e) : v = w

AlertsCarried(e) ==
    \A d \in Commands :
        command[d] # None /\ command[d].task = "accept_alert" =>
            /\ command[d].revision <= e.stamp
            /\ \A w \in FromAlert(e) : command[d].revision <= e.order[w].alert

Preparation == OneBatchEach(erp) /\ AlertsSettled(erp) /\ AlertsCarried(erp)

PreparationInv == "preparation" \notin stale => Preparation

LEMMA PreparationImplies == PreparationInv => OneBatchAtATime
<1> SUFFICES ASSUME Preparation
             PROVE  /\ Cardinality(FromAlert(erp)) <= 1
                    /\ \A w \in Orders : erp.order[w].batches <= 1
  BY DEF PreparationInv, OneBatchAtATime, FromAlert
<1>1. \A w \in Orders : erp.order[w].batches <= 1
  BY DEF Preparation, OneBatchEach
<1>2. CASE FromAlert(erp) = {}
  <2>1. Cardinality(FromAlert(erp)) = 0
    BY <1>2, FS_EmptySet
  <2> QED
    BY <1>1, <2>1
<1>3. CASE FromAlert(erp) # {}
  <2>1. PICK v \in FromAlert(erp) : TRUE
    BY <1>3
  <2>2. FromAlert(erp) = {v}
    BY <2>1 DEF Preparation, AlertsSettled
  <2>3. Cardinality({v}) = 1
    BY FS_Singleton
  <2> QED
    BY <1>1, <2>2, <2>3
<1> QED
  BY <1>2, <1>3

LEMMA ErpTyped ==
    ASSUME CommandInv
    PROVE  /\ erp.stamp \in Nat
           /\ \A w \in Orders : erp.order[w] \in OrderType /\ erp.order[w].alert \in Nat
                                /\ erp.order[w].batches \in Nat
           /\ \A d \in Commands : command[d] # None /\ command[d].task = "accept_alert"
                  => command[d].revision \in Nat
<1>1. erp \in ErpType
  BY DEF CommandInv, Sound
<1>2. \A w \in Orders : erp.order[w] \in OrderType
  BY <1>1 DEF ErpType
<1>3. \A d \in Commands : command[d] # None /\ command[d].task = "accept_alert"
          => command[d].revision \in Nat
  BY DEF CommandInv, Drawn
<1> QED
  BY <1>1, <1>2, <1>3 DEF ErpType, OrderType

(* Nothing new is opened from an alert.                                      *)
LEMMA AlertsKept ==
    ASSUME CommandInv, Preparation, UNCHANGED command,
           erp'.stamp \in Nat, erp.stamp <= erp'.stamp,
           \A w \in Orders : erp'.order[w].alert = erp.order[w].alert,
           \A w \in Orders : w \in Open(erp') => w \in Open(erp) \/ erp.order[w].alert = 0,
           OneBatchEach(erp')
    PROVE  Preparation'
<1>1. FromAlert(erp') \subseteq FromAlert(erp)
  BY DEF FromAlert, Open
<1>2. \A w \in Orders : erp.order[w].alert <= erp'.stamp
  BY ErpTyped DEF Preparation, AlertsSettled
<1>3. AlertsSettled(erp')
  BY <1>1, <1>2 DEF Preparation, AlertsSettled
<1>4. AlertsCarried(erp)'
  <2> SUFFICES ASSUME NEW d \in Commands, command[d] # None, command[d].task = "accept_alert"
               PROVE  /\ command[d].revision <= erp'.stamp
                      /\ \A w \in FromAlert(erp') :
                             command[d].revision <= erp'.order[w].alert
    BY DEF AlertsCarried
  <2>1. /\ command[d].revision <= erp.stamp
        /\ \A w \in FromAlert(erp) : command[d].revision <= erp.order[w].alert
    BY DEF Preparation, AlertsCarried
  <2>2. command[d].revision <= erp'.stamp
    BY <2>1, ErpTyped
  <2>3. \A w \in FromAlert(erp') : w \in Orders
    BY DEF FromAlert, Open
  <2> QED
    BY <1>1, <2>1, <2>2, <2>3
<1> QED
  BY <1>3, <1>4 DEF Preparation

LEMMA OrdersUntouched ==
    ASSUME CommandInv, Preparation, UNCHANGED command,
           erp'.order = erp.order, erp'.stamp = erp.stamp
    PROVE  Preparation'
<1>1. erp.stamp \in Nat /\ erp.stamp <= erp.stamp
  BY ErpTyped
<1>2. OneBatchEach(erp')
  BY DEF Preparation, OneBatchEach
<1>3. \A w \in Orders : w \in Open(erp') => w \in Open(erp)
  BY DEF Open
<1> QED
  BY <1>1, <1>2, <1>3, AlertsKept

LEMMA PreparationInit == Init => Preparation
<1> SUFFICES ASSUME Init PROVE Preparation
  OBVIOUS
<1>1. \A w \in Orders : erp.order[w] = NoOrder
  BY DEF Init
<1>2. erp.stamp = 1 /\ Open(erp) = {}
  BY <1>1 DEF Init, Open, NoOrder
<1>3. \A d \in Commands : command[d] = None
  BY DEF Init
<1> QED
  BY <1>1, <1>2, <1>3 DEF Preparation, OneBatchEach, AlertsSettled, AlertsCarried, FromAlert,
                          NoOrder

(* A till takes an alert only while no Work Order is open.                   *)
LEMMA ComposePrepares ==
    ASSUME CommandInv, Preparation, NEW c \in Commands, Compose(c) PROVE Preparation'
<1>1. PICK t \in Feed(erp) : command' = [command EXCEPT ![c] = t]
  BY DEF Compose
<1>2. \A d \in Commands : command'[d] = IF d = c THEN t ELSE command[d]
  BY <1>1 DEF CommandInv
<1>3. erp' = erp
  BY DEF Compose
<1>4. t.task = "accept_alert" => Open(erp) = {} /\ t.revision = erp.stamp
  <2>1. CASE t \in Alerted(erp)
    BY <2>1 DEF Alerted, Assigned
  <2>2. CASE t \in WorkOrders(erp)
    BY <2>2 DEF WorkOrders, Assigned
  <2>3. CASE t \in Deliveries(erp)
    BY <2>3 DEF Deliveries
  <2>4. CASE t \in Transfers(erp)
    BY <2>4 DEF Transfers, Assigned
  <2>5. CASE t \in Waste
    BY <2>5 DEF Waste, Assigned
  <2> QED
    BY <2>1, <2>2, <2>3, <2>4, <2>5 DEF Feed
<1>5. AlertsCarried(erp)'
  <2> SUFFICES ASSUME NEW d \in Commands,
                      command'[d] # None, command'[d].task = "accept_alert"
               PROVE  /\ command'[d].revision <= erp.stamp
                      /\ \A w \in FromAlert(erp) :
                             command'[d].revision <= erp.order[w].alert
    BY <1>3 DEF AlertsCarried
  <2>1. CASE d = c
    BY <1>2, <1>4, <2>1, ErpTyped DEF FromAlert
  <2>2. CASE d # c
    BY <1>2, <2>2 DEF Preparation, AlertsCarried
  <2> QED
    BY <2>1, <2>2
<1> QED
  BY <1>3, <1>5 DEF Preparation

LEMMA SellPrepares == ASSUME CommandInv, Preparation, Sell PROVE Preparation'
<1>1. PICK low \in {erp.low, TRUE} : erp' = [erp EXCEPT !.stamp = @ + 1, !.low = low]
  BY DEF Sell
<1>2. erp'.order = erp.order /\ erp'.stamp = erp.stamp + 1
  BY <1>1 DEF CommandInv, Sound, ErpType
<1>3. erp'.stamp \in Nat /\ erp.stamp <= erp'.stamp
  BY <1>2, ErpTyped
<1>4. OneBatchEach(erp')
  BY <1>2 DEF Preparation, OneBatchEach
<1>5. \A w \in Orders : w \in Open(erp') => w \in Open(erp)
  BY <1>2 DEF Open
<1> QED
  BY <1>2, <1>3, <1>4, <1>5, AlertsKept DEF Sell

LEMMA MakeOrderPrepares == ASSUME CommandInv, Preparation, MakeOrder PROVE Preparation'
<1>1. PICK status \in {"draft", "started"} : erp' = [erp EXCEPT !.order["desk"] = Desk(status)]
  BY DEF MakeOrder
<1>2. erp'.stamp = erp.stamp
      /\ \A w \in Orders : erp'.order[w] = IF w = "desk" THEN Desk(status) ELSE erp.order[w]
  BY <1>1 DEF CommandInv, Sound, ErpType
<1>3. Desk(status).status # "made" /\ Desk(status).alert = 0 /\ Desk(status).batches = 0
  BY DEF Desk
<1>4. erp.order["desk"] = NoOrder /\ NoOrder.alert = 0
  BY DEF MakeOrder, NoOrder
<1>5. OneBatchEach(erp')
  BY <1>2, <1>3 DEF Preparation, OneBatchEach
<1>6. \A w \in Orders : erp'.order[w].alert = erp.order[w].alert
  BY <1>2, <1>3, <1>4
<1>7. \A w \in Orders : w \in Open(erp') => w \in Open(erp) \/ erp.order[w].alert = 0
  BY <1>2, <1>4 DEF Open
<1>8. erp'.stamp \in Nat /\ erp.stamp <= erp'.stamp
  BY <1>2, ErpTyped
<1> QED
  BY <1>5, <1>6, <1>7, <1>8, AlertsKept DEF MakeOrder

(* What a commit leaves in ERP.                                              *)
LEMMA Committed ==
    ASSUME NEW r, NEW posted \in ErpType, NEW result, Commit(r, posted, result)
    PROVE  /\ UNCHANGED command
           /\ erp'.order = posted.order /\ erp'.stamp = posted.stamp
           /\ erp'.posts = posted.posts /\ erp'.difference = posted.difference
<1>1. erp' = [posted EXCEPT !.receipt[request[r].command] = result] /\ UNCHANGED command
  BY DEF Commit
<1> QED
  BY <1>1 DEF ErpType

(* The alert was still raised when the command was carried out, so an open   *)
(* order made from an alert would be as young, and would be its answer.      *)
LEMMA AcceptAlertPrepares ==
    ASSUME CommandInv, Preparation, NEW r \in Requests, AcceptAlert(r),
           "preparation" \notin stale'
    PROVE  Preparation'
<1> DEFINE c == request[r].command
           alert == command[c].revision
           order == [status |-> "draft", alert |-> alert, revision |-> 1, batches |-> 0]
           posted == [Post(c, erp) EXCEPT !.order[c] = order]
<1>1. Fresh(r, "accept_alert") /\ erp \in ErpType
  BY DEF AcceptAlert, CommandInv, Sound
<1>2. c \in Commands /\ c \in Orders /\ erp.order[c] = NoOrder
      /\ command[c].task = "accept_alert" /\ command[c] # None
  BY <1>1, FreshCommand, BusyRequest DEF Orders
<1>3. ASSUME NEW w \in Orders, Commit(r, erp, w) PROVE Preparation'
  BY <1>1, <1>3, Committed, OrdersUntouched
<1>4. ASSUME Prepared(erp, alert) = {}, request[r].seen.stamp = alert,
             Commit(r, posted, c), Note("preparation", request[r].seen.stamp # erp.stamp)
      PROVE  Preparation'
  <2>1. alert = erp.stamp
    BY <1>4 DEF Note
  <2>2. alert \in Nat
    BY <2>1, ErpTyped
  <2>3. order \in OrderType /\ order.status = "draft" /\ order.alert = alert
        /\ order.batches = 0
    BY <2>2 DEF OrderType
  <2>4. /\ posted \in ErpType /\ posted.stamp = erp.stamp
        /\ \A w \in Orders : posted.order[w] = IF w = c THEN order ELSE erp.order[w]
    <3>1. Post(c, erp) \in ErpType /\ Post(c, erp).order = erp.order
          /\ Post(c, erp).stamp = erp.stamp
      BY <1>1, <1>2, Posted
    <3> HIDE DEF c, order
    <3> QED
      BY <1>2, <2>3, <3>1 DEF ErpType
  <2>5. UNCHANGED command /\ erp'.stamp = erp.stamp
        /\ \A w \in Orders : erp'.order[w] = IF w = c THEN order ELSE erp.order[w]
    <3> HIDE DEF posted
    <3> QED
      BY <1>4, <2>4, Committed
  <2>6. FromAlert(erp) = {}
    <3> SUFFICES ASSUME NEW w \in FromAlert(erp) PROVE FALSE
      OBVIOUS
    <3>1. w \in Orders /\ erp.order[w].status # "none"
      BY DEF FromAlert, Open
    <3>2. alert <= erp.order[w].alert /\ erp.order[w].alert <= erp.stamp
      BY <1>2, <3>1 DEF Preparation, AlertsSettled, AlertsCarried
    <3>3. erp.order[w].alert = alert
      BY <2>1, <3>1, <3>2, ErpTyped
    <3> QED
      BY <1>4, <3>1, <3>3 DEF Prepared
  <2>7. \A w \in FromAlert(erp') : w = c /\ erp'.order[w].alert = alert
    BY <2>3, <2>5, <2>6 DEF FromAlert, Open
  <2>8. OneBatchEach(erp')
    BY <2>3, <2>5 DEF Preparation, OneBatchEach
  <2>9. AlertsSettled(erp')
    BY <2>1, <2>2, <2>3, <2>5, <2>7 DEF Preparation, AlertsSettled
  <2>10. AlertsCarried(erp)'
    BY <2>1, <2>5, <2>7 DEF Preparation, AlertsCarried
  <2> QED
    BY <2>8, <2>9, <2>10 DEF Preparation
<1>5. \A w \in Prepared(request[r].seen, alert) : w \in Orders
  BY DEF Prepared
<1> QED
  BY <1>3, <1>4, <1>5 DEF AcceptAlert

LEMMA SavedPrepares ==
    ASSUME CommandInv, Preparation, NEW r \in Requests,
           NEW task \in {"accept_order", "start"}, Fresh(r, task), Unchanged(r),
           request[r].seen.order[command[request[r].command].source].status = "draft",
           NEW status \in {"draft", "started"}, Saved(r, status)
    PROVE  Preparation'
<1> DEFINE w == command[request[r].command].source
           order == Advanced(erp.order[w], status)
           posted == [erp EXCEPT !.order[w] = order]
<1>1. w \in Orders /\ erp \in ErpType
  BY SourceRead DEF CommandInv, Sound
<1>2. erp.order[w].status = "draft" /\ erp.order[w] \in OrderType
  BY <1>1, ErpTyped DEF Saved
<1>3. order \in OrderType /\ order.status = status
      /\ order.alert = erp.order[w].alert /\ order.batches = erp.order[w].batches
  BY <1>2, AdvancedOrder DEF Advanced, OrderType
<1>4. /\ posted \in ErpType /\ posted.stamp = erp.stamp
      /\ \A v \in Orders : posted.order[v] = IF v = w THEN order ELSE erp.order[v]
  <2> HIDE DEF order, w
  <2> QED
    BY <1>1, <1>3 DEF ErpType
<1>5. Commit(r, posted, w)
  BY DEF Saved
<1>6. UNCHANGED command /\ erp'.stamp = erp.stamp
      /\ \A v \in Orders : erp'.order[v] = IF v = w THEN order ELSE erp.order[v]
  <2> HIDE DEF posted
  <2> QED
    BY <1>4, <1>5, Committed
<1>7. OneBatchEach(erp')
  BY <1>1, <1>2, <1>3, <1>6 DEF Preparation, OneBatchEach
<1>8. \A v \in Orders : erp'.order[v].alert = erp.order[v].alert
  BY <1>3, <1>6
<1>9. \A v \in Orders : v \in Open(erp') => v \in Open(erp)
  BY <1>2, <1>6 DEF Open
<1>10. erp'.stamp \in Nat /\ erp.stamp <= erp'.stamp
  BY <1>6, ErpTyped
<1> QED
  BY <1>6, <1>7, <1>8, <1>9, <1>10, AlertsKept

(* The order was as it had been read, started and with no batch.             *)
LEMMA CompletePrepares ==
    ASSUME CommandInv, Preparation, NEW r \in Requests, CompleteBatch(r),
           "preparation" \notin stale'
    PROVE  Preparation'
<1> DEFINE c == request[r].command
           w == command[c].source
           e == Post(c, erp)
           order == [Advanced(erp.order[w], "made") EXCEPT !.batches = @ + 1]
<1>1. Fresh(r, "complete") /\ Unchanged(r) /\ erp \in ErpType
  BY DEF CompleteBatch, CommandInv, Sound
<1>2. w \in Orders /\ c \in Commands
  BY <1>1, SourceRead, FreshCommand
<1>3. erp.order[w].status = "started"
  BY DEF CompleteBatch, Note
<1>4. erp.order[w] \in OrderType /\ erp.order[w].batches = 0
  BY <1>2, <1>3, ErpTyped DEF Preparation, OneBatchEach
<1>5. order \in OrderType
  BY <1>4, AdvancedOrder
<1>6. order.status = "made" /\ order.alert = erp.order[w].alert /\ order.batches = 1
  BY <1>4 DEF Advanced, OrderType
<1>7. e \in ErpType /\ e.order = erp.order /\ e.stamp = erp.stamp
  BY <1>1, <1>2, Posted
<1>8. PICK low \in BOOLEAN :
          Commit(r, [e EXCEPT !.stamp = @ + 1, !.low = low, !.order[w] = order], c)
  BY DEF CompleteBatch
<1> DEFINE posted == [e EXCEPT !.stamp = @ + 1, !.low = low, !.order[w] = order]
<1>9. e.stamp + 1 \in Nat
  BY <1>7, ErpTyped
<1>10. /\ posted \in ErpType /\ posted.stamp = erp.stamp + 1
       /\ \A v \in Orders : posted.order[v] = IF v = w THEN order ELSE erp.order[v]
  <2>1. posted \in ErpType
    <3> HIDE DEF e, order, w
    <3> QED
      BY <1>5, <1>7, <1>9 DEF ErpType
  <2>2. posted.stamp = erp.stamp + 1
    <3> HIDE DEF e, order, w
    <3> QED
      BY <1>7 DEF ErpType
  <2>3. \A v \in Orders : posted.order[v] = IF v = w THEN order ELSE erp.order[v]
    <3> HIDE DEF e, order, w
    <3> QED
      BY <1>7 DEF ErpType
  <2> QED
    BY <2>1, <2>2, <2>3
<1>11. UNCHANGED command /\ erp'.stamp = erp.stamp + 1
       /\ \A v \in Orders : erp'.order[v] = IF v = w THEN order ELSE erp.order[v]
  <2>1. Commit(r, posted, c)
    BY <1>8
  <2> HIDE DEF posted
  <2> QED
    BY <1>10, <2>1, Committed
<1>12. OneBatchEach(erp')
  BY <1>6, <1>11 DEF Preparation, OneBatchEach
<1>13. \A v \in Orders : erp'.order[v].alert = erp.order[v].alert
  BY <1>6, <1>11
<1>14. \A v \in Orders : v \in Open(erp') => v \in Open(erp)
  BY <1>6, <1>11 DEF Open
<1>15. erp'.stamp \in Nat /\ erp.stamp <= erp'.stamp
  BY <1>11, ErpTyped
<1> QED
  BY <1>11, <1>12, <1>13, <1>14, <1>15, AlertsKept

(* A document of another kind leaves the orders alone.                       *)
LEMMA PostPrepares ==
    ASSUME CommandInv, Preparation, NEW r \in Requests, NEW task, Fresh(r, task),
           Commit(r, Post(request[r].command, erp), request[r].command)
    PROVE  Preparation'
<1> DEFINE posted == Post(request[r].command, erp)
<1>1. request[r].command \in Commands /\ erp \in ErpType
  BY FreshCommand DEF CommandInv, Sound
<1>2. posted \in ErpType /\ posted.order = erp.order /\ posted.stamp = erp.stamp
  BY <1>1, Posted
<1> HIDE DEF posted
<1>3. Commit(r, posted, request[r].command)
  BY DEF posted
<1> QED
  BY <1>2, <1>3, Committed, OrdersUntouched

LEMMA DeliveryPrepares ==
    ASSUME CommandInv, Preparation, NEW r \in Requests, ReceiveDelivery(r)
    PROVE  Preparation'
<1> DEFINE c == request[r].command
           differs == command[c].off > 0 \/ command[c].extra
           e == IF command[c].amount > 0 THEN Post(c, erp) ELSE erp
           posted == IF differs THEN [e EXCEPT !.difference = "open"] ELSE e
           result == IF command[c].amount > 0 THEN c ELSE "difference"
<1>1. Fresh(r, "receive") /\ Commit(r, posted, result)
  BY DEF ReceiveDelivery
<1>2. c \in Commands /\ erp \in ErpType
  BY <1>1, FreshCommand DEF CommandInv, Sound
<1>3. e \in ErpType /\ e.order = erp.order /\ e.stamp = erp.stamp
  BY <1>2, Posted
<1>4. posted \in ErpType /\ posted.order = erp.order /\ posted.stamp = erp.stamp
  <2> HIDE DEF e, differs
  <2> QED
    BY <1>3 DEF ErpType
<1> HIDE DEF posted
<1> QED
  BY <1>1, <1>4, Committed, OrdersUntouched

LEMMA PreparationStep == CommandInv /\ PreparationInv /\ [Next]_vars => PreparationInv'
<1> SUFFICES ASSUME CommandInv, PreparationInv, [Next]_vars, "preparation" \notin stale'
             PROVE  Preparation'
  BY DEF PreparationInv
<1>1. "preparation" \notin stale
  BY DEF Next, vars, Compose, RequestArrives, Sell, MakeOrder, ClearDifference, Replay,
         EndRequest, Carry, AcceptAlert, AcceptOrder, StartOrder, CompleteBatch,
         ReceiveDelivery, DispatchTransfer, ReceiveTransfer, RecordWaste, Note
<1>2. Preparation
  BY <1>1 DEF PreparationInv
<1>3. ASSUME NEW c \in Commands, Compose(c) PROVE Preparation'
  BY <1>2, <1>3, ComposePrepares
<1>4. ASSUME NEW c \in Commands, NEW r \in Requests, RequestArrives(r, c) PROVE Preparation'
  BY <1>2, <1>4, OrdersUntouched DEF RequestArrives
<1>5. CASE Sell
  BY <1>2, <1>5, SellPrepares
<1>6. CASE MakeOrder
  BY <1>2, <1>6, MakeOrderPrepares
<1>7. CASE ClearDifference
  <2>1. erp'.order = erp.order /\ erp'.stamp = erp.stamp
    BY <1>7 DEF ClearDifference, CommandInv, Sound, ErpType
  <2> QED
    BY <1>2, <1>7, <2>1, OrdersUntouched DEF ClearDifference
<1>8. ASSUME NEW r \in Requests, Replay(r) \/ EndRequest(r) PROVE Preparation'
  BY <1>2, <1>8, OrdersUntouched DEF Replay, EndRequest
<1>9. ASSUME NEW r \in Requests, Carry(r) PROVE Preparation'
  <2>1. CASE AcceptAlert(r)
    BY <1>2, <2>1, AcceptAlertPrepares
  <2>2. CASE AcceptOrder(r)
    BY <1>2, <2>2, SavedPrepares DEF AcceptOrder
  <2>3. CASE StartOrder(r)
    <3>1. Fresh(r, "start") /\ Unchanged(r)
      BY <2>3 DEF StartOrder
    <3>2. CASE request[r].seen.order[command[request[r].command].source].status = "draft"
      BY <1>2, <2>3, <3>1, <3>2, SavedPrepares DEF StartOrder
    <3>3. CASE Commit(r, erp, command[request[r].command].source)
      <4>1. erp \in ErpType
        BY DEF CommandInv, Sound
      <4> QED
        BY <1>2, <3>3, <4>1, Committed, OrdersUntouched
    <3> QED
      BY <2>3, <3>2, <3>3 DEF StartOrder
  <2>4. CASE CompleteBatch(r)
    BY <1>2, <2>4, CompletePrepares
  <2>5. CASE ReceiveDelivery(r)
    BY <1>2, <2>5, DeliveryPrepares
  <2>6. CASE DispatchTransfer(r)
    BY <1>2, <2>6, PostPrepares DEF DispatchTransfer
  <2>7. CASE ReceiveTransfer(r)
    BY <1>2, <2>7, PostPrepares DEF ReceiveTransfer
  <2>8. CASE RecordWaste(r)
    BY <1>2, <2>8, PostPrepares DEF RecordWaste
  <2> QED
    BY <1>9, <2>1, <2>2, <2>3, <2>4, <2>5, <2>6, <2>7, <2>8 DEF Carry
<1>10. CASE UNCHANGED vars
  BY <1>2, <1>10, OrdersUntouched DEF vars
<1> QED
  BY <1>3, <1>4, <1>5, <1>6, <1>7, <1>8, <1>9, <1>10 DEF Next

(* Two tills never prepare the same stock twice over: one Work Order made    *)
(* from an alert of the recipe is open at a time and each makes one batch,   *)
(* unless a command was decided on stock or an order that had changed.       *)
THEOREM OneBatchIsPrepared == Spec => []OneBatchAtATime
<1>1. Init => PreparationInv
  BY PreparationInit DEF PreparationInv
<1>2. Spec => []PreparationInv
  BY <1>1, CommandsHold, PreparationStep, PTL DEF Spec
<1> QED
  BY <1>2, PreparationImplies, PTL
-----------------------------------------------------------------------------
(* What is sent, what arrives and what is received.                          *)

(* Commands are composed one at a time, say how much, and have posted        *)
(* nothing before they are; no request has read a document that is not       *)
(* there.                                                                    *)
Papers ==
    /\ IsFiniteSet({c \in Commands : command[c] # None})
    /\ \A c \in Commands : command[c] # None => command[c].amount \in Nat /\ command[c].off \in Nat
    /\ \A c \in Commands : command[c] = None => erp.posts[c] = 0
    /\ \A r \in Requests : request[r] # Idle =>
           \A c \in Commands : request[r].seen.posts[c] <= erp.posts[c]

TransferFits == Arrived(erp) <= Dispatched(erp) /\ Dispatched(erp) <= Approved
DeliveryFits == Received(erp) <= Ordered

LEMMA PostsTyped ==
    ASSUME CommandInv
    PROVE  /\ \A c \in Commands : erp.posts[c] \in Nat
           /\ \A r \in Requests : request[r] # Idle =>
                  \A c \in Commands : request[r].seen.posts[c] \in Nat
<1>1. erp \in ErpType
  BY DEF CommandInv, Sound
<1>2. \A r \in Requests : request[r] # Idle => request[r].seen \in ErpType
  BY BusyRequest
<1> QED
  BY <1>1, <1>2 DEF ErpType

LEMMA AmountIs ==
    ASSUME NEW task, NEW e
    PROVE  /\ Amount(task, e) =
                  Total([c \in Of(task) |-> e.posts[c] * command[c].amount], Of(task))
           /\ Number(task, e) = Total([c \in Of(task) |-> e.posts[c]], Of(task))
  BY DEF Amount, Number, SumFunction, Total

LEMMA OfFinite ==
    ASSUME Papers, NEW task
    PROVE  /\ IsFiniteSet(Of(task))
           /\ \A c \in Of(task) : c \in Commands /\ command[c] # None /\ command[c].amount \in Nat
<1>1. Of(task) \subseteq {c \in Commands : command[c] # None}
  BY DEF Of
<1> QED
  BY <1>1, FS_Subset DEF Papers

LEMMA Product == ASSUME NEW m \in Nat, NEW n \in Nat
                 PROVE  m * n \in Nat /\ 0 * n = 0 /\ 1 * n = n
  OBVIOUS

LEMMA AmountNat ==
    ASSUME Papers, NEW task, NEW e, \A c \in Commands : e.posts[c] \in Nat
    PROVE  Amount(task, e) \in Nat
<1> DEFINE f == [c \in Of(task) |-> e.posts[c] * command[c].amount]
<1>1. \A c \in Of(task) : f[c] \in Nat
  BY OfFinite, Product
<1>2. IsFiniteSet(Of(task))
  BY OfFinite
<1> HIDE DEF f
<1>3. Total(f, Of(task)) \in Nat
  BY <1>1, <1>2, TotalNat
<1> QED
  BY <1>3, AmountIs DEF f

(* A document posted adds its amount.                                        *)
LEMMA PostedAmount ==
    ASSUME CommandInv, Papers, NEW task, NEW c \in Commands, command[c] # None,
           erp.posts[c] = 0, UNCHANGED command,
           \A d \in Commands : erp'.posts[d] = IF d = c THEN 1 ELSE erp.posts[d]
    PROVE  Amount(task, erp)' =
               Amount(task, erp) + IF command[c].task = task THEN command[c].amount ELSE 0
<1> DEFINE S == Of(task)
           f == [d \in S |-> erp.posts[d] * command[d].amount]
           g == [d \in S |-> erp'.posts[d] * command[d].amount]
<1>1. Amount(task, erp) = Total(f, S)
  BY AmountIs
<1>2. Amount(task, erp)' = Total(g, S)
  BY DEF Amount, SumFunction, Total, Of
<1>3. IsFiniteSet(S) /\ \A d \in S : d \in Commands /\ command[d].amount \in Nat
  BY OfFinite
<1>4. \A d \in S : f[d] \in Nat /\ g[d] \in Nat
  BY <1>3, PostsTyped, Product
<1>5. \A d \in S : d # c => g[d] = f[d]
  BY <1>3
<1>6. CASE c \in S
  <2>1. command[c].task = task /\ command[c].amount \in Nat
    BY <1>3, <1>6 DEF Of
  <2>2. f[c] = 0 /\ g[c] = command[c].amount
    BY <1>6, <2>1, Product
  <2> HIDE DEF f, g, S
  <2>3. Total(g, S) + f[c] = Total(f, S) + g[c]
    BY <1>3, <1>4, <1>5, <1>6, TotalChanged
  <2>4. Total(f, S) \in Nat /\ Total(g, S) \in Nat
    BY <1>3, <1>4, TotalNat
  <2> QED
    BY <1>1, <1>2, <2>1, <2>2, <2>3, <2>4
<1>7. CASE c \notin S
  <2>1. command[c].task # task
    BY <1>7 DEF Of
  <2>2. \A d \in S : f[d] \in Nat /\ g[d] = f[d]
    BY <1>4, <1>5, <1>7
  <2> HIDE DEF f, g, S
  <2>3. Total(f, S) = Total(g, S) /\ Total(f, S) \in Nat
    BY <1>3, <2>2, TotalSame, TotalNat
  <2> QED
    BY <1>1, <1>2, <2>1, <2>3
<1> QED
  BY <1>6, <1>7

(* A command that is composed has posted nothing.                            *)
LEMMA ComposedAmount ==
    ASSUME CommandInv, Papers, Papers', NEW task, NEW c \in Commands, Compose(c)
    PROVE  Amount(task, erp)' = Amount(task, erp)
<1> DEFINE S == Of(task)
           T == Of(task)'
           f == [d \in S |-> erp.posts[d] * command[d].amount]
           g == [d \in T |-> erp.posts[d] * command'[d].amount]
<1>1. PICK t \in Feed(erp) : command' = [command EXCEPT ![c] = t]
  BY DEF Compose
<1>2. command[c] = None /\ erp' = erp /\ erp.posts[c] = 0
      /\ \A d \in Commands : command'[d] = IF d = c THEN t ELSE command[d]
  BY <1>1 DEF Compose, CommandInv, Papers
<1>3. Amount(task, erp) = Total(f, S)
  BY AmountIs
<1>4. Amount(task, erp)' = Total(g, T)
  BY <1>2 DEF Amount, SumFunction, Total
<1>5. IsFiniteSet(S) /\ c \notin S
      /\ \A d \in S : d \in Commands /\ command[d].amount \in Nat
  BY <1>2, OfFinite DEF Of
<1>6. T = S \/ (T = S \cup {c} /\ command'[c] # None)
  BY <1>2 DEF Of
<1>7. \A d \in S : f[d] \in Nat /\ (d \in T => g[d] = f[d])
  BY <1>2, <1>5, PostsTyped, Product
<1>8. CASE T = S
  <2> HIDE DEF f, g, S, T
  <2> QED
    BY <1>3, <1>4, <1>5, <1>7, <1>8, TotalSame
<1>9. CASE T = S \cup {c} /\ command'[c] # None
  <2>1. command'[c].amount \in Nat /\ c \in T /\ S = T \ {c}
    BY <1>5, <1>9 DEF Papers
  <2>2. g[c] = 0
    BY <1>2, <2>1, Product
  <2> HIDE DEF f, g, S, T
  <2>3. \A d \in S : f[d] \in Nat /\ g[d] = f[d]
    BY <1>7, <1>9
  <2>4. Total(g, T) = Total(f, S) + g[c]
    <3>1. g[c] \in Nat /\ IsFiniteSet(T)
      BY <1>5, <1>9, <2>2, FS_AddElement
    <3> QED
      BY <2>1, <2>3, <3>1, TotalAdded
  <2>5. Total(f, S) \in Nat
    BY <1>5, <1>7, TotalNat
  <2> QED
    BY <1>3, <1>4, <2>2, <2>4, <2>5
<1> QED
  BY <1>6, <1>8, <1>9

LEMMA SameAmount ==
    ASSUME NEW task, UNCHANGED command, erp'.posts = erp.posts
    PROVE  Amount(task, erp)' = Amount(task, erp)
  BY DEF Amount, Of

(* As many documents as were read are the documents that were read.          *)
LEMMA ReadAll ==
    ASSUME CommandInv, Papers, NEW task, NEW r \in Requests, request[r] # Idle,
           Number(task, request[r].seen) = Number(task, erp)
    PROVE  Amount(task, request[r].seen) = Amount(task, erp)
<1> DEFINE S == Of(task)
           s == request[r].seen
           f == [d \in S |-> s.posts[d]]
           g == [d \in S |-> erp.posts[d]]
<1>1. Total(f, S) = Total(g, S)
  BY AmountIs
<1>2. IsFiniteSet(S) /\ \A d \in S : d \in Commands
  BY OfFinite
<1>3. \A d \in S : f[d] \in Nat /\ g[d] \in Nat /\ f[d] <= g[d]
  BY <1>2, PostsTyped DEF Papers
<1>4. \A d \in S : f[d] = g[d]
  <2> HIDE DEF f, g, S
  <2> QED
    BY <1>1, <1>2, <1>3, TotalEqualTerms
<1>5. \A d \in S : s.posts[d] = erp.posts[d]
  BY <1>4
<1> DEFINE h == [d \in S |-> s.posts[d] * command[d].amount]
           k == [d \in S |-> erp.posts[d] * command[d].amount]
<1>6. h = k
  BY <1>5
<1>7. Amount(task, s) = Total(h, S)
  BY AmountIs, Zenon
<1>8. Amount(task, erp) = Total(k, S)
  BY AmountIs, Zenon
<1> HIDE DEF h, k
<1> QED
  BY <1>6, <1>7, <1>8

LEMMA FeedAmounts ==
    ASSUME NEW t \in Feed(erp)
    PROVE  t.amount \in Nat /\ t.off \in Nat
<1>1. CASE t \in Alerted(erp) \cup WorkOrders(erp) \cup Waste
  BY <1>1 DEF Alerted, WorkOrders, Waste, Assigned
<1>2. CASE t \in Deliveries(erp)
  <2>1. PICK n \in 0 .. Ordered, m \in {0, 1}, x \in BOOLEAN :
            t = [task |-> "receive", source |-> None, revision |-> DeliveryRevision(erp),
                 amount |-> n, off |-> m, extra |-> x]
    BY <1>2 DEF Deliveries
  <2>2. n \in Nat /\ m \in Nat
    BY GuidedAssumption
  <2> QED
    BY <2>1, <2>2
<1>3. CASE t \in Transfers(erp)
  <2>1. PICK u \in {"dispatch", "arrive"}, n \in 1 .. Approved :
            t = Assigned(u, None, TransferRevision(erp), n)
    BY <1>3 DEF Transfers
  <2>2. n \in Nat
    BY GuidedAssumption
  <2> QED
    BY <2>1, <2>2 DEF Assigned
<1> QED
  BY <1>1, <1>2, <1>3 DEF Feed

(* What a command carried out leaves of the documents: at most its own is    *)
(* new.                                                                      *)
LEMMA CarriedPosts ==
    ASSUME CommandInv, NEW r \in Requests, Carry(r)
    PROVE  LET c == request[r].command
           IN  /\ request[r] # Idle /\ c \in Commands /\ command[c] # None /\ erp.posts[c] = 0
               /\ UNCHANGED command /\ request' = [request EXCEPT ![r] = Idle]
               /\ \/ erp'.posts = erp.posts
                  \/ \A d \in Commands : erp'.posts[d] = IF d = c THEN 1 ELSE erp.posts[d]
<1> DEFINE c == request[r].command
           Own(e) == \A d \in Commands : e.posts[d] = IF d = c THEN 1 ELSE erp.posts[d]
           Result(posted, result) == Commit(r, posted, result) /\ posted \in ErpType
                                     /\ (posted.posts = erp.posts \/ Own(posted))
<1>1. PICK task : Fresh(r, task)
  BY DEF Carry, AcceptAlert, AcceptOrder, StartOrder, CompleteBatch, ReceiveDelivery,
         DispatchTransfer, ReceiveTransfer, RecordWaste
<1>2. request[r] # Idle /\ c \in Commands /\ erp.posts[c] = 0 /\ command[c] # None
  BY <1>1, FreshCommand, BusyRequest
<1>3. erp \in ErpType /\ \A w \in Orders : erp.order[w] \in OrderType
  BY ErpTyped DEF CommandInv, Sound
<1> DEFINE e == Post(c, erp)
<1>4. e \in ErpType /\ Own(e)
  BY <1>2, <1>3, Posted
<1>5. ASSUME NEW posted, NEW result, Result(posted, result)
      PROVE  /\ UNCHANGED command /\ request' = [request EXCEPT ![r] = Idle]
             /\ erp'.posts = erp.posts \/ Own(erp')
  <2>1. erp'.posts = posted.posts /\ UNCHANGED command
    BY <1>5, Committed
  <2>2. request' = [request EXCEPT ![r] = Idle]
    BY <1>5 DEF Commit, Answer
  <2> QED
    BY <1>5, <2>1, <2>2
<1>6. \E posted, result : Result(posted, result)
  <2>1. CASE AcceptAlert(r)
    <3> DEFINE order == [status |-> "draft", alert |-> command[c].revision, revision |-> 1,
                         batches |-> 0]
               posted == [e EXCEPT !.order[c] = order]
    <3>1. CASE \E w : Commit(r, erp, w)
      BY <1>3, <3>1
    <3>2. CASE Commit(r, posted, c)
      <4>1. command[c].revision \in Nat
        BY <2>1, <1>2, FreshCommand, ErpTyped DEF AcceptAlert
      <4>2. order \in OrderType
        BY <4>1 DEF OrderType
      <4>3. posted \in ErpType
        <5> HIDE DEF e, order
        <5> QED
          BY <1>4, <4>2 DEF ErpType
      <4>4. posted.posts = e.posts
        <5> HIDE DEF e, order
        <5> QED
          BY <1>4 DEF ErpType
      <4> QED
        BY <1>4, <3>2, <4>3, <4>4
    <3> QED
      BY <2>1, <3>1, <3>2 DEF AcceptAlert
  <2>2. ASSUME NEW task2 \in {"accept_order", "start"}, Fresh(r, task2), Unchanged(r),
               NEW status \in {"draft", "started"}, Saved(r, status)
        PROVE  \E posted, result : Result(posted, result)
    <3> DEFINE w == command[c].source
               order == Advanced(erp.order[w], status)
               posted == [erp EXCEPT !.order[w] = order]
    <3>1. w \in Orders
      BY <2>2, SourceRead
    <3>2. order \in OrderType
      BY <1>3, <3>1, AdvancedOrder
    <3>3. posted \in ErpType /\ posted.posts = erp.posts
      <4> HIDE DEF order
      <4> QED
        BY <1>3, <3>2 DEF ErpType
    <3> QED
      BY <2>2, <3>3 DEF Saved
  <2>3. CASE AcceptOrder(r)
    BY <2>2, <2>3 DEF AcceptOrder
  <2>4. CASE StartOrder(r)
    BY <1>3, <2>2, <2>4 DEF StartOrder
  <2>5. CASE CompleteBatch(r)
    <3> DEFINE w == command[c].source
               order == [Advanced(erp.order[w], "made") EXCEPT !.batches = @ + 1]
    <3>1. w \in Orders
      BY <2>5, SourceRead DEF CompleteBatch
    <3>2. order \in OrderType
      BY <1>3, <3>1, AdvancedOrder
    <3>3. PICK low \in BOOLEAN :
              Commit(r, [e EXCEPT !.stamp = @ + 1, !.low = low, !.order[w] = order], c)
      BY <2>5 DEF CompleteBatch
    <3> DEFINE posted == [e EXCEPT !.stamp = @ + 1, !.low = low, !.order[w] = order]
    <3>4. e.stamp + 1 \in Nat
      BY <1>4 DEF ErpType
    <3>5. posted \in ErpType
      <4> HIDE DEF e, order
      <4> QED
        BY <1>4, <3>2, <3>4 DEF ErpType
    <3>6. posted.posts = e.posts
      <4> HIDE DEF e, order
      <4> QED
        BY <1>4 DEF ErpType
    <3> QED
      BY <1>4, <3>3, <3>5, <3>6
  <2>6. CASE ReceiveDelivery(r)
    <3> DEFINE differs == command[c].off > 0 \/ command[c].extra
               e2 == IF command[c].amount > 0 THEN e ELSE erp
               posted == IF differs THEN [e2 EXCEPT !.difference = "open"] ELSE e2
    <3>1. Commit(r, posted, IF command[c].amount > 0 THEN c ELSE "difference")
      BY <2>6 DEF ReceiveDelivery
    <3>2. e2 \in ErpType /\ (e2.posts = erp.posts \/ Own(e2))
      BY <1>3, <1>4
    <3>3. posted \in ErpType /\ posted.posts = e2.posts
      <4> HIDE DEF e2, differs
      <4> QED
        BY <3>2 DEF ErpType
    <3>4. posted.posts = erp.posts \/ Own(posted)
      BY <3>2, <3>3
    <3> HIDE DEF posted
    <3> QED
      BY <3>1, <3>3, <3>4
  <2>7. CASE DispatchTransfer(r) \/ ReceiveTransfer(r) \/ RecordWaste(r)
    BY <1>4, <2>7 DEF DispatchTransfer, ReceiveTransfer, RecordWaste
  <2> QED
    BY <2>1, <2>3, <2>4, <2>5, <2>6, <2>7 DEF Carry
<1> QED
  BY <1>2, <1>5, <1>6

LEMMA PapersKept ==
    ASSUME CommandInv, Papers, UNCHANGED command,
           \A d \in Commands : erp.posts[d] <= erp'.posts[d] /\ erp'.posts[d] \in Nat,
           \A d \in Commands : command[d] = None => erp'.posts[d] = 0,
           \A q \in Requests : request'[q] \in {request[q], Idle}
    PROVE  Papers'
<1>1. ASSUME NEW q \in Requests, request'[q] # Idle, NEW d \in Commands
      PROVE  request'[q].seen.posts[d] <= erp'.posts[d]
  <2>1. request'[q] = request[q] /\ request[q] # Idle
    BY <1>1
  <2>2. /\ request[q].seen.posts[d] <= erp.posts[d] /\ erp.posts[d] <= erp'.posts[d]
        /\ request[q].seen.posts[d] \in Nat /\ erp.posts[d] \in Nat /\ erp'.posts[d] \in Nat
    BY <2>1, PostsTyped DEF Papers
  <2> QED
    BY <2>1, <2>2
<1> QED
  BY <1>1 DEF Papers

LEMMA PapersInit == Init => Papers
<1> SUFFICES ASSUME Init PROVE Papers
  OBVIOUS
<1>1. {c \in Commands : command[c] # None} = {}
  BY DEF Init
<1> QED
  BY <1>1, FS_EmptySet DEF Init, Papers

LEMMA PapersStep == CommandInv /\ Papers /\ [Next]_vars => Papers'
<1> SUFFICES ASSUME CommandInv, Papers, [Next]_vars PROVE Papers'
  OBVIOUS
<1>1. ASSUME NEW c \in Commands, Compose(c) PROVE Papers'
  <2>1. PICK t \in Feed(erp) : command' = [command EXCEPT ![c] = t]
    BY <1>1 DEF Compose
  <2>2. command[c] = None /\ UNCHANGED <<erp, request>>
        /\ \A d \in Commands : command'[d] = IF d = c THEN t ELSE command[d]
    BY <1>1, <2>1 DEF Compose, CommandInv
  <2>3. t.amount \in Nat /\ t.off \in Nat
    BY FeedAmounts
  <2> DEFINE S == {d \in Commands : command[d] # None}
             T == {d \in Commands : command'[d] # None}
  <2>4. T = S \/ T = S \cup {c}
    BY <2>2
  <2>5. IsFiniteSet(T)
    BY <2>4, FS_AddElement DEF Papers
  <2> QED
    BY <2>2, <2>3, <2>5 DEF Papers
<1>2. ASSUME NEW c \in Commands, NEW r \in Requests, RequestArrives(r, c) PROVE Papers'
  <2>1. UNCHANGED <<command, erp>> /\ request' = [request EXCEPT ![r] = [command |-> c, seen |-> erp]]
    BY <1>2 DEF RequestArrives
  <2>2. \A q \in Requests : request'[q] = IF q = r THEN [command |-> c, seen |-> erp] ELSE request[q]
    BY <2>1 DEF CommandInv
  <2>3. ASSUME NEW q \in Requests, request'[q] # Idle, NEW d \in Commands
        PROVE  request'[q].seen.posts[d] <= erp.posts[d]
    <3>1. CASE q = r
      <4>1. request'[q].seen = erp
        BY <2>2, <3>1
      <4> QED
        BY <4>1, PostsTyped
    <3>2. CASE q # r
      BY <2>2, <2>3, <3>2 DEF Papers
    <3> QED
      BY <3>1, <3>2
  <2> QED
    BY <2>1, <2>3 DEF Papers
<1>3. ASSUME UNCHANGED command, erp'.posts = erp.posts,
             \A q \in Requests : request'[q] \in {request[q], Idle}
      PROVE  Papers'
  <2>1. \A d \in Commands : erp.posts[d] <= erp'.posts[d] /\ erp'.posts[d] \in Nat
    BY <1>3, PostsTyped
  <2>2. \A d \in Commands : command[d] = None => erp'.posts[d] = 0
    BY <1>3 DEF Papers
  <2> QED
    BY <1>3, <2>1, <2>2, PapersKept
<1>4. CASE Sell \/ MakeOrder \/ ClearDifference
  <2>1. erp'.posts = erp.posts
    BY <1>4 DEF Sell, MakeOrder, ClearDifference, CommandInv, Sound, ErpType
  <2> QED
    BY <1>3, <1>4, <2>1 DEF Sell, MakeOrder, ClearDifference
<1>5. ASSUME NEW r \in Requests, Replay(r) \/ EndRequest(r) PROVE Papers'
  <2>1. UNCHANGED <<command, erp>> /\ request' = [request EXCEPT ![r] = Idle]
    BY <1>5 DEF Replay, EndRequest, Answer
  <2>2. \A q \in Requests : request'[q] \in {request[q], Idle}
    BY <2>1 DEF CommandInv
  <2> QED
    BY <1>3, <2>1, <2>2
<1>6. ASSUME NEW r \in Requests, Carry(r) PROVE Papers'
  <2> DEFINE c == request[r].command
  <2>1. /\ c \in Commands /\ command[c] # None /\ erp.posts[c] = 0
        /\ UNCHANGED command /\ request' = [request EXCEPT ![r] = Idle]
        /\ \/ erp'.posts = erp.posts
           \/ \A d \in Commands : erp'.posts[d] = IF d = c THEN 1 ELSE erp.posts[d]
    BY <1>6, CarriedPosts
  <2>2. \A q \in Requests : request'[q] \in {request[q], Idle}
    BY <2>1 DEF CommandInv
  <2> HIDE DEF c
  <2>3. CASE erp'.posts = erp.posts
    BY <1>3, <2>1, <2>2, <2>3
  <2>4. CASE \A d \in Commands : erp'.posts[d] = IF d = c THEN 1 ELSE erp.posts[d]
    <3>1. \A d \in Commands : erp.posts[d] <= erp'.posts[d] /\ erp'.posts[d] \in Nat
      BY <2>1, <2>4, PostsTyped
    <3>2. \A d \in Commands : command[d] = None => erp'.posts[d] = 0
      BY <2>1, <2>4 DEF Papers
    <3> QED
      BY <2>1, <2>2, <3>1, <3>2, PapersKept
  <2> QED
    BY <2>1, <2>3, <2>4
<1>7. CASE UNCHANGED vars
  BY <1>3, <1>7 DEF vars
<1> QED
  BY <1>1, <1>2, <1>4, <1>5, <1>6, <1>7 DEF Next

(* What a command of a task adds to what is sent, arrives or is received.    *)
LEMMA Added ==
    ASSUME CommandInv, Papers, NEW r \in Requests, Carry(r), NEW task
    PROVE  LET c == request[r].command
               n == command[c].amount
           IN  /\ Amount(task, erp) \in Nat /\ Amount(task, request[r].seen) \in Nat
               /\ n \in Nat
               /\ \/ Amount(task, erp)' = Amount(task, erp)
                  \/ command[c].task = task /\ Amount(task, erp)' = Amount(task, erp) + n
<1> DEFINE c == request[r].command
<1>1. /\ request[r] # Idle /\ c \in Commands /\ command[c] # None /\ erp.posts[c] = 0
      /\ UNCHANGED command
      /\ \/ erp'.posts = erp.posts
         \/ \A d \in Commands : erp'.posts[d] = IF d = c THEN 1 ELSE erp.posts[d]
  BY CarriedPosts
<1>2. command[c].amount \in Nat
  BY <1>1 DEF Papers
<1>3. Amount(task, erp) \in Nat /\ Amount(task, request[r].seen) \in Nat
  BY <1>1, PostsTyped, AmountNat
<1> HIDE DEF c
<1>4. CASE erp'.posts = erp.posts
  BY <1>1, <1>2, <1>3, <1>4, SameAmount DEF c
<1>5. CASE \A d \in Commands : erp'.posts[d] = IF d = c THEN 1 ELSE erp.posts[d]
  <2>1. Amount(task, erp)' =
            Amount(task, erp) + IF command[c].task = task THEN command[c].amount ELSE 0
    BY <1>1, <1>5, PostedAmount
  <2>2. Amount(task, erp) + 0 = Amount(task, erp)
    BY <1>3
  <2> QED
    BY <1>2, <1>3, <2>1, <2>2 DEF c
<1> QED
  BY <1>1, <1>4, <1>5

(* In parts, by several tills: what a command adds was checked against what  *)
(* had been sent, had arrived or had been received when it read.             *)
TransferInv == "transfer" \notin stale => TransferFits
DeliveryInv == "delivery" \notin stale => DeliveryFits

LEMMA StaleGrows == ASSUME [Next]_vars PROVE stale \subseteq stale'
  BY DEF Next, vars, Compose, RequestArrives, Sell, MakeOrder, ClearDifference, Replay,
         EndRequest, Carry, AcceptAlert, AcceptOrder, StartOrder, CompleteBatch,
         ReceiveDelivery, DispatchTransfer, ReceiveTransfer, RecordWaste, Note

LEMMA TransferCarried ==
    ASSUME CommandInv, Papers, NEW r \in Requests, Carry(r), TransferFits,
           "transfer" \notin stale'
    PROVE  TransferFits'
<1> DEFINE c == request[r].command
           s == request[r].seen
           n == command[c].amount
<1>1. /\ Dispatched(erp) \in Nat /\ Dispatched(s) \in Nat /\ n \in Nat
      /\ \/ Dispatched(erp)' = Dispatched(erp)
         \/ command[c].task = "dispatch" /\ Dispatched(erp)' = Dispatched(erp) + n
  BY Added DEF Dispatched
<1>2. /\ Arrived(erp) \in Nat /\ Arrived(s) \in Nat
      /\ \/ Arrived(erp)' = Arrived(erp)
         \/ command[c].task = "arrive" /\ Arrived(erp)' = Arrived(erp) + n
  BY Added DEF Arrived
<1>3. PICK task : Fresh(r, task) /\ command[c].task = task
  BY DEF Carry, AcceptAlert, AcceptOrder, StartOrder, CompleteBatch, ReceiveDelivery,
         DispatchTransfer, ReceiveTransfer, RecordWaste, Fresh
<1>4. command[c].task = "dispatch" => Dispatched(erp) + n <= Approved
  <2>1. command[c].task = "dispatch" => DispatchTransfer(r)
    BY DEF Carry, AcceptAlert, AcceptOrder, StartOrder, CompleteBatch, ReceiveDelivery,
           ReceiveTransfer, RecordWaste, Fresh
  <2> QED
    BY <2>1 DEF DispatchTransfer, Note
<1>5. command[c].task = "arrive" => Arrived(erp) + n <= Dispatched(erp)
  <2>1. command[c].task = "arrive" => ReceiveTransfer(r)
    BY DEF Carry, AcceptAlert, AcceptOrder, StartOrder, CompleteBatch, ReceiveDelivery,
           DispatchTransfer, RecordWaste, Fresh
  <2> QED
    BY <2>1 DEF ReceiveTransfer, Note
<1>6. Approved \in Nat /\ Arrived(erp) <= Dispatched(erp) /\ Dispatched(erp) <= Approved
  BY GuidedAssumption DEF TransferFits
<1> DEFINE a == Arrived(erp)
           d == Dispatched(erp)
           a2 == Arrived(erp)'
           d2 == Dispatched(erp)'
<1>7. a2 <= d2 /\ d2 <= Approved
  <2>1. /\ a \in Nat /\ d \in Nat /\ n \in Nat /\ a <= d /\ d <= Approved
        /\ (d2 = d \/ (command[c].task = "dispatch" /\ d2 = d + n))
        /\ (a2 = a \/ (command[c].task = "arrive" /\ a2 = a + n))
        /\ (command[c].task = "dispatch" => d + n <= Approved)
        /\ (command[c].task = "arrive" => a + n <= d)
    BY <1>1, <1>2, <1>4, <1>5, <1>6
  <2> HIDE DEF a, d, a2, d2, n, c
  <2> QED
    BY <1>6, <2>1
<1> QED
  BY <1>7 DEF TransferFits

LEMMA DeliveryCarried ==
    ASSUME CommandInv, Papers, NEW r \in Requests, Carry(r), DeliveryFits,
           "delivery" \notin stale'
    PROVE  DeliveryFits'
<1> DEFINE c == request[r].command
           s == request[r].seen
           n == command[c].amount
<1>1. /\ Received(erp) \in Nat /\ Received(s) \in Nat /\ n \in Nat
      /\ \/ Received(erp)' = Received(erp)
         \/ command[c].task = "receive" /\ Received(erp)' = Received(erp) + n
  BY Added DEF Received
<1>2. CASE command[c].task = "receive"
  <2>1. ReceiveDelivery(r)
    BY <1>2 DEF Carry, AcceptAlert, AcceptOrder, StartOrder, CompleteBatch,
           DispatchTransfer, ReceiveTransfer, RecordWaste, Fresh
  <2>2. request[r] # Idle /\ Number("receive", s) = Number("receive", erp)
    BY <2>1, FreshCommand DEF ReceiveDelivery, Note
  <2>3. Received(s) = Received(erp)
    BY <2>2, ReadAll DEF Received
  <2>4. command[c].off \in Nat /\ n \in Nat
    BY <2>2, BusyRequest DEF Papers
  <2>5. Received(s) + n + command[c].off <= Ordered \/ n + command[c].off = 0
    BY <2>1 DEF ReceiveDelivery
  <2>6. Ordered \in Nat /\ Received(erp) <= Ordered
    BY GuidedAssumption DEF DeliveryFits
  <2> DEFINE a == Received(erp)
             b == command[c].off
             a2 == Received(erp)'
  <2>7. a2 <= Ordered
    <3>1. /\ a \in Nat /\ b \in Nat /\ n \in Nat /\ a <= Ordered
          /\ (a2 = a \/ a2 = a + n) /\ (a + n + b <= Ordered \/ n + b = 0)
      BY <1>1, <2>3, <2>4, <2>5, <2>6
    <3> HIDE DEF a, b, a2, n
    <3> QED
      BY <2>6, <3>1
  <2> QED
    BY <2>7 DEF DeliveryFits
<1>3. CASE command[c].task # "receive"
  BY <1>1, <1>3 DEF DeliveryFits
<1> QED
  BY <1>2, <1>3

LEMMA FlowUntouched ==
    ASSUME \A task : Amount(task, erp)' = Amount(task, erp),
           TransferInv, DeliveryInv, stale \subseteq stale'
    PROVE  TransferInv' /\ DeliveryInv'
  BY DEF TransferInv, DeliveryInv, TransferFits, DeliveryFits, Arrived, Dispatched, Received

LEMMA FlowStep ==
    CommandInv /\ Papers /\ TransferInv /\ DeliveryInv /\ [Next]_vars
        => TransferInv' /\ DeliveryInv'
<1> SUFFICES ASSUME CommandInv, Papers, TransferInv, DeliveryInv, [Next]_vars
             PROVE  TransferInv' /\ DeliveryInv'
  OBVIOUS
<1>1. stale \subseteq stale'
  BY StaleGrows
<1>2. ASSUME NEW c \in Commands, Compose(c) PROVE TransferInv' /\ DeliveryInv'
  <2>1. Papers'
    BY PapersStep
  <2> QED
    BY <1>1, <1>2, <2>1, ComposedAmount, FlowUntouched
<1>3. ASSUME UNCHANGED command, erp'.posts = erp.posts PROVE TransferInv' /\ DeliveryInv'
  BY <1>1, <1>3, SameAmount, FlowUntouched
<1>4. ASSUME NEW c \in Commands, NEW r \in Requests, RequestArrives(r, c)
      PROVE  TransferInv' /\ DeliveryInv'
  BY <1>3, <1>4 DEF RequestArrives
<1>5. CASE Sell \/ MakeOrder \/ ClearDifference
  <2>1. erp'.posts = erp.posts
    BY <1>5 DEF Sell, MakeOrder, ClearDifference, CommandInv, Sound, ErpType
  <2> QED
    BY <1>3, <1>5, <2>1 DEF Sell, MakeOrder, ClearDifference
<1>6. ASSUME NEW r \in Requests, Replay(r) \/ EndRequest(r) PROVE TransferInv' /\ DeliveryInv'
  BY <1>3, <1>6 DEF Replay, EndRequest
<1>7. ASSUME NEW r \in Requests, Carry(r) PROVE TransferInv' /\ DeliveryInv'
  BY <1>1, <1>7, TransferCarried, DeliveryCarried DEF TransferInv, DeliveryInv
<1>8. CASE UNCHANGED vars
  BY <1>3, <1>8 DEF vars
<1> QED
  BY <1>2, <1>4, <1>5, <1>6, <1>7, <1>8 DEF Next

LEMMA FlowInit == Init => TransferInv /\ DeliveryInv
<1> SUFFICES ASSUME Init PROVE TransferFits /\ DeliveryFits
  BY DEF TransferInv, DeliveryInv
<1>1. \A task : Of(task) = {}
  BY DEF Init, Of
<1>2. \A task : Amount(task, erp) = 0
  BY <1>1, AmountIs, TotalEmpty
<1> QED
  BY <1>2, GuidedAssumption DEF TransferFits, DeliveryFits, Arrived, Dispatched, Received

(* No more is sent than was approved, no more arrives than was sent, and no  *)
(* more is received than was ordered, in however many parts and by however   *)
(* many tills, unless commands for the same document overlapped.             *)
THEOREM AssignedIsKept == Spec => []WithinAssigned
<1>1. Init => Papers /\ TransferInv /\ DeliveryInv
  BY PapersInit, FlowInit
<1>2. CommandInv /\ Papers /\ TransferInv /\ DeliveryInv /\ [Next]_vars
          => Papers' /\ TransferInv' /\ DeliveryInv'
  BY PapersStep, FlowStep
<1>3. TransferInv /\ DeliveryInv => WithinAssigned
  BY DEF TransferInv, DeliveryInv, TransferFits, DeliveryFits, WithinAssigned
<1> QED
  BY <1>1, <1>2, <1>3, CommandsHold, PTL DEF Spec
=============================================================================
