----------------------- MODULE InventoryProjectionProofs -----------------------
(***************************************************************************)
(* Theorems about InventoryProjection, for any number of orders, remakes   *)
(* and batches, any budget of retries and any number of deaths.            *)
(***************************************************************************)
EXTENDS InventoryProjection, TLAPS

\* The part of TypeOK the books rest on; what a batch has read is left out.
Typed ==
    /\ order \in [Orders -> OrderType]
    /\ run \in [Runners -> RunType]
    /\ issues \in [Sources -> Nat]
    /\ log = [s \in Sources |-> log[s]]
    /\ \A o \in Orders : log[o] \in LogType

Working == {"claimed", "frozen", "failed"}

\* Whoever is projecting an order holds its claim; a batch that is at a remake
\* is not at an order.
HoldsClaim(p) ==
    /\ run[p].pc \in Working =>
          /\ run[p].at \in Orders
          /\ order[run[p].at].kind # "old"
          /\ log[run[p].at].state = "Processing"
          /\ log[run[p].at].token = p
    /\ run[p].pc = "remake" => run[p].at \in Remakes

\* An order's books, also before it is sold and before the cutover.
Told(o) ==
    /\ order[o].status = "absent" => order[o].kind = "old"
    /\ order[o].kind = "old" => log[o].state = "absent"
    /\ order[o].kind \in {"old", "recipe"} =>
          /\ log[o].state = "Succeeded" => issues[o] = 1 /\ order[o].entry = o
          /\ log[o].state # "Succeeded" => issues[o] = 0 /\ order[o].entry = None
          /\ order[o].stock = "Posted" <=> log[o].state = "Succeeded"
          /\ order[o].stock = "Failed" <=> log[o].state = "Dead Letter"

ProjectionInv ==
    /\ Typed
    /\ \A p \in Runners : HoldsClaim(p)
    /\ \A o \in Orders : Told(o)

-----------------------------------------------------------------------------
LEMMA SameBooks ==
    ASSUME NEW o \in Orders, Told(o),
           order'[o].status = order[o].status, order'[o].kind = order[o].kind,
           order'[o].stock = order[o].stock, order'[o].entry = order[o].entry,
           log'[o] = log[o], issues'[o] = issues[o]
    PROVE  Told(o)'
BY DEF Told

\* Steps that leave every order's books alone.
LEMMA BooksUntouched ==
    ASSUME ProjectionInv, Typed', order' = order, NEW p \in Runners,
           \A o \in Orders : log'[o] = log[o] /\ issues'[o] = issues[o],
           \A q \in Runners \ {p} : run'[q] = run[q],
           HoldsClaim(p)'
    PROVE  ProjectionInv'
<1>1. \A q \in Runners : HoldsClaim(q)'
    BY DEF ProjectionInv, HoldsClaim, Working
<1>2. \A o \in Orders : Told(o)'
    BY SameBooks DEF ProjectionInv
<1> QED
    BY <1>1, <1>2 DEF ProjectionInv

\* Steps of one order, which at most one runner is at.
LEMMA OneOrderTouched ==
    ASSUME ProjectionInv, Typed', NEW o \in Orders, NEW p \in Runners,
           \A a \in Orders \ {o} : /\ order'[a] = order[a] /\ log'[a] = log[a]
                                   /\ issues'[a] = issues[a],
           \A q \in Runners \ {p} : /\ run'[q] = run[q]
                                    /\ run[q].pc \in Working => run[q].at # o,
           Told(o)', HoldsClaim(p)'
    PROVE  ProjectionInv'
<1>1. \A q \in Runners : HoldsClaim(q)'
    BY DEF ProjectionInv, HoldsClaim, Working
<1>2. \A a \in Orders : Told(a)'
    BY SameBooks DEF ProjectionInv
<1> QED
    BY <1>1, <1>2 DEF ProjectionInv

\* A claim that has not been decided admits one runner.
LEMMA OneRunner ==
    ASSUME ProjectionInv, NEW p \in Runners, run[p].pc \in Working,
           NEW q \in Runners \ {p}, run[q].pc \in Working
    PROVE  run[q].at # run[p].at
BY DEF ProjectionInv, HoldsClaim

\* What was found when nothing was issued is a remake's entry, and refused.
LEMMA OwnEntry ==
    ASSUME ProjectionInv, NEW o \in Orders, order[o].kind = "recipe",
           log[o].state # "Succeeded", NEW e \in Issuable(o)
    PROVE  e = o /\ Found(o) = {}
<1>1. order[o].entry = None /\ issues[o] = 0
    BY DEF ProjectionInv, Told
<1>2. Found(o) \subseteq Remakes
    BY <1>1 DEF Found
<1> QED
    BY <1>2, NamesAssumption DEF Issuable, Equivalent

LEMMA InvInit == Init => ProjectionInv
<1> SUFFICES ASSUME Init PROVE ProjectionInv
    OBVIOUS
<1>1. Typed
    BY NamesAssumption DEF Init, Typed, OrderType, Kinds, RunType, Idle, LogType, NoLog, Sources
<1>2. \A p \in Runners : HoldsClaim(p)
    BY DEF Init, HoldsClaim, Idle, Working
<1>3. \A o \in Orders : Told(o)
    BY DEF Init, Told, NoLog, Sources
<1> QED
    BY <1>1, <1>2, <1>3 DEF ProjectionInv

-----------------------------------------------------------------------------
\* The counters of a batch do not matter to where a runner goes.
LEMMA Left ==
    ASSUME Typed, NEW p \in Runners, Leave(p)
    PROVE  /\ run' \in [Runners -> RunType]
           /\ \A q \in Runners \ {p} : run'[q] = run[q]
           /\ run'[p].pc \in {"orders", "idle"}
BY DEF Typed, Leave, RunType, Idle

LEMMA FailedLogTyped ==
    ASSUME NEW l \in LogType
    PROVE  /\ FailedLog(l) \in LogType
           /\ FailedLog(l).state \in {"Failed", "Dead Letter"}
           /\ FailedLog(l).count = l.count + 1
<1>1. l.count \in Nat /\ l.count + 1 \in Nat
    <2>1. l.count \in Nat
        BY DEF LogType
    <2> QED
        BY <2>1
<1>2. CASE l.count + 1 >= MaxRetries
    BY <1>1, <1>2 DEF FailedLog, LogType
<1>3. CASE ~(l.count + 1 >= MaxRetries)
    BY <1>1, <1>3 DEF FailedLog, LogType
<1> QED
    BY <1>2, <1>3

LEMMA SubmitOrderInv ==
    ASSUME ProjectionInv, NEW o \in Orders, SubmitOrder(o)
    PROVE  ProjectionInv'
<1> o \in Runners /\ o \in Sources
    BY DEF Runners, Sources
<1>1. PICK k \in Kinds : order' = [order EXCEPT ![o] = [@ EXCEPT !.status = "Submitted", !.kind = k]]
    BY OrdersAssumption DEF SubmitOrder
<1>2. Typed'
    <2>1. order' \in [Orders -> OrderType]
        BY <1>1 DEF ProjectionInv, Typed, OrderType
    <2>2. run' \in [Runners -> RunType]
        BY DEF SubmitOrder, ProjectionInv, Typed, RunType
    <2> QED
        BY <2>1, <2>2 DEF SubmitOrder, ProjectionInv, Typed
<1>3. order[o].kind = "old" /\ order[o].status = "absent"
    BY DEF SubmitOrder, ProjectionInv, Told
<1>4. Told(o)'
    <2>1. /\ order'[o].status = "Submitted" /\ order'[o].kind = k
          /\ order'[o].stock = order[o].stock /\ order'[o].entry = order[o].entry
          /\ log'[o] = log[o] /\ issues'[o] = issues[o]
        BY <1>1 DEF SubmitOrder, ProjectionInv, Typed, OrderType
    <2>2. log[o].state = "absent" /\ Told(o)
        BY <1>3 DEF ProjectionInv, Told
    <2> QED
        BY <1>3, <2>1, <2>2 DEF Told
<1>5. HoldsClaim(o)'
    <2>1. CASE run' = [run EXCEPT ![o] = [pc |-> "queued", at |-> o]]
        BY <2>1 DEF HoldsClaim, Working, ProjectionInv, Typed
    <2>2. CASE run' = run
        BY <1>1, <1>3, <2>2 DEF SubmitOrder, HoldsClaim, Working, ProjectionInv, Typed
    <2> QED
        BY <2>1, <2>2 DEF SubmitOrder
<1>6. \A q \in Runners \ {o} : /\ run'[q] = run[q]
                               /\ run[q].pc \in Working => run[q].at # o
    BY <1>3 DEF SubmitOrder, ProjectionInv, HoldsClaim, Typed
<1>7. \A a \in Orders \ {o} : order'[a] = order[a] /\ log'[a] = log[a] /\ issues'[a] = issues[a]
    BY <1>1 DEF SubmitOrder, ProjectionInv, Typed
<1> QED
    BY <1>2, <1>4, <1>5, <1>6, <1>7, OneOrderTouched

LEMMA ClaimInv ==
    ASSUME ProjectionInv, NEW p \in Runners, NEW o \in Orders, Claim(p, o)
    PROVE  ProjectionInv'
<1> o \in Sources /\ p \in Runners \cup {None}
    BY DEF Sources
<1>1. /\ log' = [log EXCEPT ![o] = [@ EXCEPT !.state = "Processing", !.token = p]]
      /\ order' = [order EXCEPT ![o].stock = "Pending"]
      /\ run' = [run EXCEPT ![p] = [pc |-> "claimed", at |-> o]]
      /\ issues' = issues
      /\ order[o].kind # "old"
      /\ log[o].state \in {"absent", "Failed"}
    BY DEF Claim, Claimable
<1>2. Typed'
    <2>1. order' \in [Orders -> OrderType]
        BY <1>1 DEF ProjectionInv, Typed, OrderType
    <2>2. run' \in [Runners -> RunType]
        BY <1>1 DEF ProjectionInv, Typed, RunType
    <2>3. log' = [s \in Sources |-> log'[s]]
        BY <1>1 DEF ProjectionInv, Typed
    <2>4. \A a \in Orders : log'[a] \in LogType
        <3>1. [log[o] EXCEPT !.state = "Processing", !.token = p] \in LogType
            BY DEF ProjectionInv, Typed, LogType
        <3>2. \A a \in Sources \ {o} : log'[a] = log[a]
            BY <1>1 DEF ProjectionInv, Typed
        <3> QED
            BY <1>1, <3>1, <3>2 DEF ProjectionInv, Typed, Sources
    <2> QED
        BY <1>1, <2>1, <2>2, <2>3, <2>4 DEF ProjectionInv, Typed
<1>3. log'[o].state = "Processing" /\ log'[o].token = p
    BY <1>1 DEF ProjectionInv, Typed, LogType
<1>4. Told(o)'
    <2>1. /\ order'[o].status = order[o].status /\ order'[o].kind = order[o].kind
          /\ order'[o].stock = "Pending" /\ order'[o].entry = order[o].entry
          /\ issues'[o] = issues[o]
        BY <1>1 DEF ProjectionInv, Typed, OrderType
    <2>2. Told(o)
        BY DEF ProjectionInv
    <2> QED
        BY <1>1, <1>3, <2>1, <2>2 DEF Told
<1>5. HoldsClaim(p)'
    BY <1>1, <1>3 DEF HoldsClaim, Working, ProjectionInv, Typed, OrderType
<1>6. \A q \in Runners \ {p} : /\ run'[q] = run[q]
                               /\ run[q].pc \in Working => run[q].at # o
    BY <1>1 DEF ProjectionInv, HoldsClaim, Typed
<1>7. \A a \in Orders \ {o} : order'[a] = order[a] /\ log'[a] = log[a] /\ issues'[a] = issues[a]
    BY <1>1 DEF ProjectionInv, Typed
<1> QED
    BY <1>2, <1>4, <1>5, <1>6, <1>7, OneOrderTouched

LEMMA NotClaimedInv ==
    ASSUME ProjectionInv, NEW p \in Runners, NEW o \in Orders, NotClaimed(p, o)
    PROVE  ProjectionInv'
<1>1. /\ UNCHANGED <<order, log, issues>>
      /\ run' = [run EXCEPT ![p] = IF p \in Batches THEN [pc |-> "orders", at |-> None] ELSE Idle]
    BY DEF NotClaimed
<1>2. Typed'
    BY <1>1 DEF ProjectionInv, Typed, RunType, Idle
<1>3. HoldsClaim(p)'
    BY <1>1 DEF HoldsClaim, Working, ProjectionInv, Typed, Idle
<1>4. \A q \in Runners \ {p} : run'[q] = run[q]
    BY <1>1 DEF ProjectionInv, Typed
<1> QED
    BY <1>1, <1>2, <1>3, <1>4, BooksUntouched

\* A runner that is at an order, and everything it may rely on.
LEMMA AtOrder ==
    ASSUME ProjectionInv, NEW p \in Runners, run[p].pc \in Working
    PROVE  /\ run[p].at \in Orders /\ run[p].at \in Sources
           /\ order[run[p].at] \in OrderType /\ order[run[p].at].kind # "old"
           /\ log[run[p].at] \in LogType /\ log[run[p].at].state = "Processing"
           /\ Told(run[p].at)
           /\ \A q \in Runners \ {p} : run[q].pc \in Working => run[q].at # run[p].at
<1>1. HoldsClaim(p)
    BY DEF ProjectionInv
<1>2. run[p].at \in Orders
    BY <1>1 DEF HoldsClaim
<1> QED
    BY <1>1, <1>2, OneRunner DEF HoldsClaim, ProjectionInv, Typed, Sources

\* A runner moves on with its claim, or fails with it.
LEMMA FreezeInv ==
    ASSUME ProjectionInv, NEW p \in Runners, Freeze(p)
    PROVE  ProjectionInv'
<1>1. run[p].pc \in Working
    BY DEF Freeze, Working
<1>o. PICK o \in Orders : o = run[p].at
    BY <1>1, AtOrder
<1>2. /\ order'[o].status = order[o].status /\ order'[o].kind = order[o].kind
      /\ order'[o].stock = order[o].stock /\ order'[o].entry = order[o].entry
      /\ order' \in [Orders -> OrderType]
      /\ \A a \in Orders \ {o} : order'[a] = order[a]
    <2>1. CASE order' = order
        BY <1>o, <2>1 DEF ProjectionInv, Typed
    <2>2. CASE order' = [order EXCEPT ![o].frozen = order[o].kind = "recipe"]
        <3>1. \E f \in BOOLEAN : order' = [order EXCEPT ![o].frozen = f]
            BY <2>2, Zenon
        <3>2. PICK f \in BOOLEAN : order' = [order EXCEPT ![o].frozen = f]
            BY <3>1
        <3> QED
            BY <3>2 DEF ProjectionInv, Typed, OrderType
    <2> QED
        BY <1>o, <2>1, <2>2 DEF Freeze
<1>3. PICK to \in {"frozen", "failed"} : run' = [run EXCEPT ![p].pc = to]
    BY DEF Freeze
<1>4. /\ run' \in [Runners -> RunType] /\ run'[p].at = o /\ run'[p].pc \in {"frozen", "failed"}
      /\ \A q \in Runners \ {p} : run'[q] = run[q]
    BY <1>o, <1>3 DEF ProjectionInv, Typed, RunType
<1>5. UNCHANGED <<log, issues>>
    BY DEF Freeze
<1>6. Typed'
    BY <1>2, <1>4, <1>5 DEF ProjectionInv, Typed
<1>7. Told(o)'
    BY <1>2, <1>5, SameBooks DEF ProjectionInv
<1>8. HoldsClaim(p)'
    BY <1>o, <1>1, <1>2, <1>4, <1>5 DEF ProjectionInv, HoldsClaim, Working
<1> QED
    BY <1>o, <1>1, <1>2, <1>4, <1>5, <1>6, <1>7, <1>8, AtOrder, OneOrderTouched

LEMMA IssueFailsInv ==
    ASSUME ProjectionInv, NEW p \in Runners, IssueFails(p)
    PROVE  ProjectionInv'
<1>1. /\ run[p].pc \in Working /\ UNCHANGED <<order, log, issues>>
      /\ run' = [run EXCEPT ![p].pc = "failed"]
    BY DEF IssueFails, Working
<1>2. /\ run' \in [Runners -> RunType] /\ run'[p].at = run[p].at /\ run'[p].pc = "failed"
      /\ \A q \in Runners \ {p} : run'[q] = run[q]
    BY <1>1 DEF ProjectionInv, Typed, RunType
<1>3. Typed'
    BY <1>1, <1>2 DEF ProjectionInv, Typed
<1>4. HoldsClaim(p)'
    BY <1>1, <1>2 DEF ProjectionInv, HoldsClaim, Working
<1> QED
    BY <1>1, <1>2, <1>3, <1>4, BooksUntouched

\* What _finalize_success leaves of the order, its log and its runner.
LEMMA Succeeded ==
    ASSUME ProjectionInv, NEW p \in Runners, run[p].pc \in Working,
           NEW entry \in {None, run[p].at}, Succeed(p, run[p].at, entry)
    PROVE  /\ order' \in [Orders -> OrderType]
           /\ \A a \in Orders \ {run[p].at} : order'[a] = order[a]
           /\ order'[run[p].at].status = order[run[p].at].status
           /\ order'[run[p].at].kind = order[run[p].at].kind
           /\ order'[run[p].at].stock = "Posted"
           /\ order'[run[p].at].entry =
                 IF entry = None THEN order[run[p].at].entry ELSE entry
           /\ log' = [s \in Sources |-> log'[s]]
           /\ \A a \in Orders : log'[a] \in LogType
           /\ \A a \in Orders \ {run[p].at} : log'[a] = log[a]
           /\ log'[run[p].at].state = "Succeeded"
           /\ run' \in [Runners -> RunType]
           /\ \A q \in Runners \ {p} : run'[q] = run[q]
           /\ HoldsClaim(p)'
<1> DEFINE o == run[p].at
           e == IF entry = None THEN order[o].entry ELSE entry
<1>1. o \in Orders /\ o \in Sources /\ order[o] \in OrderType /\ log[o] \in LogType
    BY AtOrder
<1>0. e \in Sources \cup {None}
    <2>1. order[o].entry \in Sources \cup {None} /\ entry \in Sources \cup {None}
        BY <1>1 DEF OrderType
    <2> QED
        BY <2>1
<1> HIDE DEF o, e
<1>2. /\ order' = [order EXCEPT ![o] = [@ EXCEPT !.stock = "Posted", !.entry = e]]
      /\ log' = [log EXCEPT ![o] = [@ EXCEPT !.state = "Succeeded", !.due = TRUE, !.token = None]]
    <2>1. Succeed(p, o, entry)
        BY DEF o
    <2>2. log' = [log EXCEPT ![o] = [@ EXCEPT !.state = "Succeeded", !.due = TRUE, !.token = None]]
        BY <2>1 DEF Succeed
    <2>3. order' = [order EXCEPT ![o] = [@ EXCEPT !.stock = "Posted", !.entry = e]]
        BY <2>1, Zenon DEF Succeed, e
    <2> QED
        BY <2>2, <2>3
<1>3. [log[o] EXCEPT !.state = "Succeeded", !.due = TRUE, !.token = None] \in LogType
    BY <1>1 DEF LogType
<1>4. /\ log' = [s \in Sources |-> log'[s]]
      /\ \A a \in Orders : log'[a] \in LogType
      /\ \A a \in Orders \ {o} : log'[a] = log[a]
      /\ log'[o].state = "Succeeded"
    <2>1. log' = [s \in Sources |-> log'[s]]
        BY <1>2 DEF ProjectionInv, Typed
    <2>2. \A a \in Sources \ {o} : log'[a] = log[a]
        BY <1>2 DEF ProjectionInv, Typed
    <2>3. log'[o] = [log[o] EXCEPT !.state = "Succeeded", !.due = TRUE, !.token = None]
        BY <1>1, <1>2 DEF ProjectionInv, Typed
    <2>4. log'[o].state = "Succeeded"
        BY <1>1, <2>3 DEF LogType
    <2> QED
        BY <1>3, <2>1, <2>2, <2>3, <2>4 DEF ProjectionInv, Typed, Sources
<1>6. order'[o] = [order[o] EXCEPT !.stock = "Posted", !.entry = e]
    BY <1>1, <1>2 DEF ProjectionInv, Typed
<1>7. /\ order'[o] \in OrderType
      /\ order'[o].status = order[o].status /\ order'[o].kind = order[o].kind
      /\ order'[o].stock = "Posted"
      /\ order'[o].entry = e
    BY <1>0, <1>1, <1>6 DEF OrderType
<1>8. /\ order' \in [Orders -> OrderType]
      /\ \A a \in Orders \ {o} : order'[a] = order[a]
    BY <1>1, <1>2, <1>6, <1>7 DEF ProjectionInv, Typed
<1>9. /\ run' \in [Runners -> RunType]
      /\ \A q \in Runners \ {p} : run'[q] = run[q]
      /\ run'[p].pc \in {"orders", "idle"}
    BY Left DEF Succeed, ProjectionInv
<1>10. HoldsClaim(p)'
    BY <1>9 DEF HoldsClaim, Working
<1> QED
    BY <1>4, <1>7, <1>8, <1>9, <1>10 DEF o, e

LEMMA IssueNothingInv ==
    ASSUME ProjectionInv, NEW p \in Runners, IssueNothing(p)
    PROVE  ProjectionInv'
<1>1. run[p].pc \in Working /\ issues' = issues /\ order[run[p].at].kind = "plain"
    BY DEF IssueNothing, Working
<1>2. PICK o \in Orders : o = run[p].at
    BY <1>1, AtOrder
<1>3. Succeed(p, run[p].at, None)
    BY DEF IssueNothing
<1>4. /\ order' \in [Orders -> OrderType]
      /\ \A a \in Orders \ {o} : order'[a] = order[a] /\ log'[a] = log[a]
      /\ order'[o].status = order[o].status /\ order'[o].kind = "plain"
      /\ log' = [s \in Sources |-> log'[s]]
      /\ \A a \in Orders : log'[a] \in LogType
      /\ run' \in [Runners -> RunType]
      /\ \A q \in Runners \ {p} : run'[q] = run[q]
      /\ HoldsClaim(p)'
    BY <1>1, <1>2, <1>3, Succeeded
<1>5. Typed'
    BY <1>1, <1>4 DEF ProjectionInv, Typed
<1>6. Told(o)'
    <2>1. order[o].status # "absent"
        BY <1>1, <1>2 DEF ProjectionInv, Told
    <2> QED
        BY <1>4, <2>1 DEF Told
<1> QED
    BY <1>1, <1>2, <1>4, <1>5, <1>6, AtOrder, OneOrderTouched

LEMMA IssueInv ==
    ASSUME ProjectionInv, NEW p \in Runners, Issue(p)
    PROVE  ProjectionInv'
<1>1. run[p].pc \in Working /\ order[run[p].at].kind = "recipe"
    BY DEF Issue, Working
<1>2. PICK o \in Orders : o = run[p].at
    BY <1>1, AtOrder
<1>3. log[o].state = "Processing" /\ Told(o) /\ o \in Sources
    BY <1>1, <1>2, AtOrder
<1>4. Found(o) = {} /\ Succeed(p, run[p].at, run[p].at)
    <2>1. PICK e \in Issuable(o) : Succeed(p, run[p].at, e)
        BY <1>2 DEF Issue
    <2>2. e = o /\ Found(o) = {}
        BY <1>1, <1>2, <1>3, OwnEntry
    <2> QED
        BY <1>2, <2>1, <2>2
<1>5. issues' = [issues EXCEPT ![o] = @ + 1] /\ issues[o] = 0
    BY <1>1, <1>2, <1>3, <1>4 DEF Issue, Told
<1>6. None # run[p].at
    BY <1>2, <1>3, NamesAssumption
<1>7. /\ order' \in [Orders -> OrderType]
      /\ \A a \in Orders \ {o} : order'[a] = order[a] /\ log'[a] = log[a]
      /\ order'[o].status = order[o].status /\ order'[o].kind = "recipe"
      /\ order'[o].stock = "Posted" /\ order'[o].entry = o
      /\ log' = [s \in Sources |-> log'[s]]
      /\ \A a \in Orders : log'[a] \in LogType
      /\ log'[o].state = "Succeeded"
      /\ run' \in [Runners -> RunType]
      /\ \A q \in Runners \ {p} : run'[q] = run[q]
      /\ HoldsClaim(p)'
    BY <1>1, <1>2, <1>4, <1>6, Succeeded
<1>8. /\ issues' \in [Sources -> Nat] /\ issues'[o] = 1
      /\ \A a \in Orders \ {o} : issues'[a] = issues[a]
    BY <1>3, <1>5 DEF ProjectionInv, Typed, Sources
<1>9. Typed'
    BY <1>7, <1>8 DEF ProjectionInv, Typed
<1>10. Told(o)'
    <2>1. order[o].status # "absent"
        BY <1>1, <1>2, <1>3 DEF Told
    <2> QED
        BY <1>7, <1>8, <2>1 DEF Told
<1> QED
    BY <1>1, <1>2, <1>7, <1>8, <1>9, <1>10, AtOrder, OneOrderTouched

LEMMA RecordFailureInv ==
    ASSUME ProjectionInv, NEW p \in Runners, RecordFailure(p)
    PROVE  ProjectionInv'
<1>1. run[p].pc \in Working /\ issues' = issues /\ Leave(p)
    BY DEF RecordFailure, Working
<1>2. PICK o \in Orders : o = run[p].at
    BY <1>1, AtOrder
<1>3. /\ log[o].state = "Processing" /\ Told(o) /\ o \in Sources
      /\ log[o] \in LogType /\ order[o] \in OrderType /\ order[o].kind # "old"
    BY <1>1, <1>2, AtOrder
<1>4. PICK stock \in {"Failed", "Pending"} :
         /\ order' = [order EXCEPT ![o].stock = stock]
         /\ stock = "Failed" <=> FailedLog(log[o]).state = "Dead Letter"
    BY <1>2, Zenon DEF RecordFailure
<1>5. /\ log' = [s \in Sources |-> log'[s]]
      /\ log'[o] = FailedLog(log[o])
      /\ \A a \in Sources \ {o} : log'[a] = log[a]
    BY <1>2, <1>3 DEF RecordFailure, ProjectionInv, Typed
<1>6. /\ log'[o] \in LogType /\ log'[o].state \in {"Failed", "Dead Letter"}
      /\ stock = "Failed" <=> log'[o].state = "Dead Letter"
    BY <1>3, <1>4, <1>5, FailedLogTyped
<1>7. /\ order' \in [Orders -> OrderType]
      /\ \A a \in Orders \ {o} : order'[a] = order[a]
      /\ order'[o].status = order[o].status /\ order'[o].kind = order[o].kind
      /\ order'[o].stock = stock /\ order'[o].entry = order[o].entry
    BY <1>3, <1>4 DEF ProjectionInv, Typed, OrderType
<1>8. /\ run' \in [Runners -> RunType]
      /\ \A q \in Runners \ {p} : run'[q] = run[q]
      /\ HoldsClaim(p)'
    BY <1>1, Left DEF ProjectionInv, HoldsClaim, Working
<1>9. Typed'
    BY <1>1, <1>5, <1>6, <1>7, <1>8 DEF ProjectionInv, Typed, Sources
<1>10. Told(o)'
    BY <1>1, <1>3, <1>6, <1>7 DEF Told
<1>11. \A a \in Orders \ {o} : order'[a] = order[a] /\ log'[a] = log[a] /\ issues'[a] = issues[a]
    BY <1>1, <1>5, <1>7 DEF Sources
<1> QED
    BY <1>1, <1>2, <1>8, <1>9, <1>10, <1>11, AtOrder, OneOrderTouched

LEMMA ProjectInv ==
    ASSUME ProjectionInv, NEW p \in Runners, Project(p)
    PROVE  ProjectionInv'
BY ClaimInv, NotClaimedInv, FreezeInv, IssueNothingInv, IssueInv, IssueFailsInv,
   RecordFailureInv DEF Project

-----------------------------------------------------------------------------
LEMMA VoidOrderInv ==
    ASSUME ProjectionInv, NEW o \in Orders, VoidOrder(o)
    PROVE  ProjectionInv'
<1>1. /\ order' = [order EXCEPT ![o].status = "Cancelled"]
      /\ UNCHANGED <<log, issues, run>> /\ order[o].status = "Submitted"
    BY DEF VoidOrder
<1>2. /\ order' \in [Orders -> OrderType]
      /\ \A a \in Orders \ {o} : order'[a] = order[a]
      /\ order'[o].status = "Cancelled" /\ order'[o].kind = order[o].kind
      /\ order'[o].stock = order[o].stock /\ order'[o].entry = order[o].entry
    BY <1>1 DEF ProjectionInv, Typed, OrderType
<1>3. Typed'
    BY <1>1, <1>2 DEF ProjectionInv, Typed
<1>4. \A p \in Runners : HoldsClaim(p)'
    BY <1>1, <1>2 DEF ProjectionInv, HoldsClaim
<1>5. Told(o)'
    <2>1. Told(o)
        BY DEF ProjectionInv
    <2> QED
        BY <1>1, <1>2, <2>1 DEF Told
<1>6. \A a \in Orders \ {o} : Told(a)'
    BY <1>1, <1>2, SameBooks DEF ProjectionInv
<1> QED
    BY <1>3, <1>4, <1>5, <1>6 DEF ProjectionInv

\* What is done for a remake is booked under the remake.
LEMMA RemakeTouched ==
    ASSUME ProjectionInv, UNCHANGED order, NEW r \in Remakes,
           issues' \in [Sources -> Nat], \A s \in Sources \ {r} : issues'[s] = issues[s],
           log' = [s \in Sources |-> log'[s]], \A s \in Sources \ {r} : log'[s] = log[s],
           run' \in [Runners -> RunType],
           \A p \in Runners : run'[p] = run[p] \/ run'[p].pc = "remakes"
    PROVE  ProjectionInv'
<1>1. \A o \in Orders : log'[o] = log[o] /\ issues'[o] = issues[o]
    BY NamesAssumption DEF Sources
<1>2. Typed'
    BY <1>1 DEF ProjectionInv, Typed
<1>3. \A p \in Runners : HoldsClaim(p)'
    BY <1>1 DEF ProjectionInv, HoldsClaim, Working
<1>4. \A o \in Orders : Told(o)'
    BY <1>1, SameBooks DEF ProjectionInv
<1> QED
    BY <1>2, <1>3, <1>4 DEF ProjectionInv

LEMMA RequestRemakeInv ==
    ASSUME ProjectionInv, NEW r \in Remakes, RequestRemake(r)
    PROVE  ProjectionInv'
<1>1. UNCHANGED <<order, log, run>>
    BY DEF RequestRemake
<1>2. /\ issues' \in [Sources -> Nat]
      /\ \A s \in Sources \ {r} : issues'[s] = issues[s]
    BY DEF RequestRemake, ProjectionInv, Typed, Sources
<1> QED
    BY <1>1, <1>2, RemakeTouched DEF ProjectionInv, Typed

LEMMA RemakeDoneInv ==
    ASSUME ProjectionInv, NEW b \in Batches, RemakePosts(b) \/ RemakeFails(b)
    PROVE  ProjectionInv'
<1>1. b \in Runners /\ run[b].pc = "remake"
    BY DEF Runners, RemakePosts, RemakeFails
<1>2. PICK r \in Remakes : r = run[b].at
    BY <1>1 DEF ProjectionInv, HoldsClaim
<1>3. /\ issues' \in [Sources -> Nat]
      /\ \A s \in Sources \ {r} : issues'[s] = issues[s]
    BY <1>2 DEF RemakePosts, RemakeFails, ProjectionInv, Typed, Sources
<1>4. /\ log' = [s \in Sources |-> log'[s]]
      /\ \A s \in Sources \ {r} : log'[s] = log[s]
    <2>1. \E l : log' = [log EXCEPT ![r] = l]
        BY <1>2, Zenon DEF RemakePosts, RemakeFails
    <2>2. PICK l : log' = [log EXCEPT ![r] = l]
        BY <2>1
    <2> QED
        BY <2>2 DEF ProjectionInv, Typed
<1>5. /\ order' = order
      /\ run' = [run EXCEPT ![b] = [pc |-> "remakes", at |-> None]]
    BY DEF RemakePosts, RemakeFails, RemakeDone
<1>6. run' \in [Runners -> RunType] /\ \A p \in Runners : run'[p] = run[p] \/ run'[p].pc = "remakes"
    BY <1>1, <1>5 DEF ProjectionInv, Typed, RunType
<1> QED
    BY <1>3, <1>4, <1>5, <1>6, RemakeTouched

LEMMA RetryDueInv ==
    ASSUME ProjectionInv, NEW s \in Sources, RetryDue(s)
    PROVE  ProjectionInv'
<1>1. /\ UNCHANGED <<order, issues, run>> /\ log' = [log EXCEPT ![s].due = TRUE]
      /\ log[s].state = "Failed"
    BY DEF RetryDue
<1>2. log' = [a \in Sources |-> log'[a]] /\ \A a \in Sources \ {s} : log'[a] = log[a]
    BY <1>1 DEF ProjectionInv, Typed
<1>3. CASE s \in Remakes
    BY <1>1, <1>2, <1>3, RemakeTouched DEF ProjectionInv, Typed
<1>4. CASE s \in Orders
    <2>1. log[s] \in LogType /\ [log[s] EXCEPT !.due = TRUE] \in LogType
        BY <1>4 DEF ProjectionInv, Typed, LogType
    <2>2. log'[s] \in LogType /\ log'[s].state = "Failed"
        BY <1>1, <2>1 DEF ProjectionInv, Typed, LogType
    <2>3. \A a \in Orders \ {s} : log'[a] = log[a]
        BY <1>2 DEF Sources
    <2>4. Typed'
        BY <1>1, <1>2, <2>2, <2>3 DEF ProjectionInv, Typed
    <2>5. \A p \in Runners : HoldsClaim(p)'
        BY <1>1, <1>4, <2>3 DEF ProjectionInv, HoldsClaim
    <2>6. Told(s)'
        <3>1. Told(s)
            BY <1>4 DEF ProjectionInv
        <3> QED
            BY <1>1, <2>2, <3>1 DEF Told
    <2>7. \A a \in Orders \ {s} : Told(a)'
        BY <1>1, <2>3, SameBooks DEF ProjectionInv
    <2> QED
        BY <1>4, <2>4, <2>5, <2>6, <2>7 DEF ProjectionInv
<1> QED
    BY <1>3, <1>4 DEF Sources

\* A batch that starts, scans or ends, a lock that expires, a worker that dies.
LEMMA RunnerMoves ==
    ASSUME ProjectionInv, UNCHANGED <<order, log, issues>>, NEW p \in Runners,
           NEW to \in RunType, run' = [run EXCEPT ![p] = to],
           to.pc \in Working => to = run[p],
           to.pc = "remake" => to.at \in Remakes
    PROVE  ProjectionInv'
<1>1. Typed' /\ run'[p] = to /\ \A q \in Runners \ {p} : run'[q] = run[q]
    BY DEF ProjectionInv, Typed
<1>2. HoldsClaim(p)'
    BY <1>1 DEF ProjectionInv, HoldsClaim
<1> QED
    BY <1>1, <1>2, BooksUntouched

LEMMA BatchInv ==
    ASSUME ProjectionInv, NEW b \in Batches, StartBatch(b) \/ BatchStep(b)
    PROVE  ProjectionInv'
<1>1. b \in Runners /\ run[b] \in RunType
    BY DEF Runners, ProjectionInv, Typed
<1>2. \A pc \in {"orders", "remakes"} : [run[b] EXCEPT !.pc = pc] \in RunType
                                       /\ [run[b] EXCEPT !.pc = pc].pc = pc
    BY <1>1 DEF RunType
<1>3. CASE StartBatch(b)
    <2>1. UNCHANGED <<order, log, issues>> /\ run' = [run EXCEPT ![b] = [run[b] EXCEPT !.pc = "orders"]]
        BY <1>3 DEF StartBatch
    <2> QED
        BY <1>1, <1>2, <2>1, RunnerMoves DEF Working
<1>4. CASE ScanRemakes(b)
    <2>1. UNCHANGED <<order, log, issues>> /\ run' = [run EXCEPT ![b] = [run[b] EXCEPT !.pc = "remakes"]]
        BY <1>4 DEF ScanRemakes
    <2> QED
        BY <1>1, <1>2, <2>1, RunnerMoves DEF Working
<1>5. ASSUME NEW r \in Remakes, SkipRemake(b, r) PROVE ProjectionInv'
    BY <1>1, <1>5, BooksUntouched DEF SkipRemake, ProjectionInv, Typed, HoldsClaim
<1>6. ASSUME NEW r \in Remakes, ReadRemake(b, r) PROVE ProjectionInv'
    <2>1. UNCHANGED <<order, log, issues>> /\ run' = [run EXCEPT ![b] = [pc |-> "remake", at |-> r]]
        BY <1>6 DEF ReadRemake
    <2>2. [pc |-> "remake", at |-> r] \in RunType
        BY DEF RunType, Sources
    <2> QED
        BY <1>1, <2>1, <2>2, RunnerMoves DEF Working
<1>7. CASE RemakePosts(b) \/ RemakeFails(b)
    BY <1>7, RemakeDoneInv
<1>8. CASE EndBatch(b)
    <2>1. UNCHANGED <<order, log, issues>> /\ run' = [run EXCEPT ![b] = Idle]
        BY <1>8 DEF EndBatch
    <2> QED
        BY <1>1, <2>1, RunnerMoves DEF Idle, RunType, Working
<1> QED
    BY <1>3, <1>4, <1>5, <1>6, <1>7, <1>8 DEF BatchStep

LEMMA InvStep == ProjectionInv /\ [Next]_vars => ProjectionInv'
<1> SUFFICES ASSUME ProjectionInv, [Next]_vars PROVE ProjectionInv'
    OBVIOUS
<1>1. ASSUME NEW p \in Runners, Die(p) PROVE ProjectionInv'
    <2>1. UNCHANGED <<order, log, issues>> /\ run' = [run EXCEPT ![p] = Idle]
        BY <1>1 DEF Die
    <2> QED
        BY <2>1, RunnerMoves DEF Idle, RunType, Working
<1>2. CASE ExpireLock \/ UNCHANGED vars
    <2>1. UNCHANGED <<order, log, issues, run>>
        BY <1>2 DEF ExpireLock, vars
    <2>2. Typed' /\ \A p \in Runners : HoldsClaim(p)'
        BY <2>1 DEF ProjectionInv, Typed, HoldsClaim
    <2>3. \A o \in Orders : Told(o)'
        BY <2>1, SameBooks DEF ProjectionInv
    <2> QED
        BY <2>2, <2>3 DEF ProjectionInv
<1> QED
    BY <1>1, <1>2, SubmitOrderInv, VoidOrderInv, RequestRemakeInv, ProjectInv, BatchInv,
       RetryDueInv DEF Next

(* The inductive invariant: a run that is projecting an order holds the      *)
(* claim of the order's row, so no two runs are at one order, and every      *)
(* order's books agree.                                                      *)
THEOREM ProjectionsHold == Spec => []ProjectionInv
<1>1. ProjectionInv /\ [Next]_vars => ProjectionInv'
    BY InvStep
<1> QED
    BY InvInit, <1>1, PTL DEF Spec

(* A sale's Material Issue, its projection log and its stock status agree at *)
(* every commit, whatever died in between and whoever else ran.              *)
THEOREM OneIssuePerSale == Spec => []BooksAgree
<1>1. ProjectionInv => BooksAgree
    <2> SUFFICES ASSUME ProjectionInv, NEW o \in Orders, order[o].kind = "recipe"
                 PROVE  /\ issues[o] = IF log[o].state = "Succeeded" THEN 1 ELSE 0
                        /\ order[o].entry = IF log[o].state = "Succeeded" THEN o ELSE None
                        /\ order[o].stock = "Posted" <=> log[o].state = "Succeeded"
                        /\ order[o].stock = "Failed" <=> log[o].state = "Dead Letter"
        BY DEF BooksAgree
    <2> QED
        BY DEF ProjectionInv, Told
<1> QED
    BY <1>1, ProjectionsHold, PTL

\* An order's log row stays, or was open and may count one more failure.
Advances(o) ==
    \/ log'[o] = log[o]
    \/ /\ log[o].state \notin {"Succeeded", "Dead Letter"}
       /\ log'[o].count \in {log[o].count, log[o].count + 1}

\* An order's row after one of the runner's steps at it, or somebody else's.
LEMMA ProjectAdvances ==
    ASSUME ProjectionInv, NEW p \in Runners, Project(p), NEW o \in Orders
    PROVE  Advances(o)
<1> o \in Sources /\ log[o] \in LogType
    BY DEF ProjectionInv, Typed, Sources
<1>1. ASSUME NEW a \in Orders, Claim(p, a) PROVE Advances(o)
    <2>1. log' = [log EXCEPT ![a] = [@ EXCEPT !.state = "Processing", !.token = p]]
        BY <1>1 DEF Claim
    <2>2. CASE a # o
        BY <2>1, <2>2 DEF ProjectionInv, Typed, Advances
    <2>3. CASE a = o
        <3>1. log'[o].count = log[o].count
            BY <2>1, <2>3 DEF ProjectionInv, Typed, LogType
        <3>2. log[o].state \notin {"Succeeded", "Dead Letter"}
            BY <1>1, <2>3 DEF Claim, Claimable
        <3> QED
            BY <3>1, <3>2 DEF Advances
    <2> QED
        BY <2>2, <2>3
<1>2. ASSUME NEW a \in Orders, NotClaimed(p, a) PROVE Advances(o)
    BY <1>2 DEF NotClaimed, Advances
<1>3. CASE Freeze(p) \/ IssueFails(p)
    BY <1>3 DEF Freeze, IssueFails, Advances
<1>4. ASSUME NEW e, Succeed(p, run[p].at, e), run[p].pc \in Working PROVE Advances(o)
    <2>1. log' = [log EXCEPT ![run[p].at] =
                     [@ EXCEPT !.state = "Succeeded", !.due = TRUE, !.token = None]]
        BY <1>4, Zenon DEF Succeed
    <2>2. CASE run[p].at # o
        BY <2>1, <2>2 DEF ProjectionInv, Typed, Advances
    <2>3. CASE run[p].at = o
        <3>1. log'[o].count = log[o].count
            BY <2>1, <2>3 DEF ProjectionInv, Typed, LogType
        <3>2. log[o].state \notin {"Succeeded", "Dead Letter"}
            BY <1>4, <2>3, AtOrder
        <3> QED
            BY <3>1, <3>2 DEF Advances
    <2> QED
        BY <2>2, <2>3
<1>5. CASE IssueNothing(p)
    BY <1>4, <1>5 DEF IssueNothing, Working
<1>6. CASE Issue(p)
    BY <1>4, <1>6 DEF Issue, Working
<1>7. CASE RecordFailure(p)
    <2>1. log' = [log EXCEPT ![run[p].at] = FailedLog(@)]
        BY <1>7 DEF RecordFailure
    <2>2. CASE run[p].at # o
        BY <2>1, <2>2 DEF ProjectionInv, Typed, Advances
    <2>3. CASE run[p].at = o
        <3>1. log'[o].count = log[o].count + 1
            BY <2>1, <2>3, FailedLogTyped DEF ProjectionInv, Typed
        <3>2. run[p].pc \in Working
            BY <1>7 DEF RecordFailure, Working
        <3>3. log[o].state \notin {"Succeeded", "Dead Letter"}
            BY <2>3, <3>2, AtOrder
        <3> QED
            BY <3>1, <3>3 DEF Advances
    <2> QED
        BY <2>2, <2>3
<1> QED
    BY <1>1, <1>2, <1>3, <1>5, <1>6, <1>7 DEF Project

LEMMA NextAdvances ==
    ASSUME ProjectionInv, Next, NEW o \in Orders
    PROVE  Advances(o)
<1> o \in Sources /\ log[o] \in LogType
    BY DEF ProjectionInv, Typed, Sources
<1>1. CASE UNCHANGED log
    BY <1>1 DEF Advances
<1>2. ASSUME NEW s \in Sources, RetryDue(s) PROVE Advances(o)
    <2>1. log[s].state = "Failed" /\ log' = [log EXCEPT ![s].due = TRUE]
        BY <1>2 DEF RetryDue
    <2>2. CASE s # o
        BY <2>1, <2>2 DEF ProjectionInv, Typed, Advances
    <2>3. CASE s = o
        BY <2>1, <2>3 DEF ProjectionInv, Typed, LogType, Advances
    <2> QED
        BY <2>2, <2>3
<1>3. ASSUME NEW b \in Batches, RemakePosts(b) \/ RemakeFails(b) PROVE Advances(o)
    <2>1. b \in Runners /\ run[b].pc = "remake"
        BY <1>3 DEF Runners, RemakePosts, RemakeFails
    <2>2. run[b].at \in Remakes
        BY <2>1 DEF ProjectionInv, HoldsClaim
    <2>3. PICK l : log' = [log EXCEPT ![run[b].at] = l]
        BY <1>3, Zenon DEF RemakePosts, RemakeFails
    <2>4. log'[o] = log[o]
        BY <2>2, <2>3, NamesAssumption DEF ProjectionInv, Typed
    <2> QED
        BY <2>4 DEF Advances
<1> QED
    BY <1>1, <1>2, <1>3, ProjectAdvances
    DEF Next, SubmitOrder, VoidOrder, RequestRemake, Die, StartBatch, BatchStep, ScanRemakes,
        SkipRemake, ReadRemake, EndBatch, ExpireLock

(* A settled projection stays settled, and the retry budget is never given   *)
(* back.                                                                     *)
THEOREM ProjectionsStay == Spec => SettledStays
<1>1. ProjectionInv /\ [Next]_vars =>
        [\A o \in Orders : /\ log[o].state \in {"Succeeded", "Dead Letter"} => log'[o] = log[o]
                           /\ log'[o].count >= log[o].count]_vars
    <2> SUFFICES ASSUME ProjectionInv, Next, NEW o \in Orders
                 PROVE  /\ log[o].state \in {"Succeeded", "Dead Letter"} => log'[o] = log[o]
                        /\ log'[o].count >= log[o].count
        OBVIOUS
    <2>1. PICK c \in Nat : c = log[o].count
        BY DEF ProjectionInv, Typed, LogType
    <2>2. log'[o] = log[o] \/ log[o].state \notin {"Succeeded", "Dead Letter"}
        BY NextAdvances DEF Advances
    <2>3. log'[o].count \in {c, c + 1}
        BY <2>1, NextAdvances DEF Advances
    <2>4. log'[o].count >= c
        BY <2>3
    <2> QED
        BY <2>1, <2>2, <2>4
<1> QED
    BY <1>1, ProjectionsHold, PTL DEF Spec, SettledStays
=============================================================================
