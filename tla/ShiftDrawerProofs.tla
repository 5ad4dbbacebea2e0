--------------------------- MODULE ShiftDrawerProofs ---------------------------
(***************************************************************************)
(* Theorems about ShiftDrawer, for any tills, users, shifts and sales and  *)
(* any number of requests at once.                                         *)
(***************************************************************************)
EXTENDS ShiftDrawer, TLAPS

-----------------------------------------------------------------------------
(* The inductive invariant.                                                *)

LocksDevice(w) == worker[w].at \in {"device", "staff", "clear"}
LocksStaff(w) == worker[w].at \in {"staff", "clear"}

\* The row locks exclude each other, and nothing that is open stands in the
\* way of a request that looked and still holds both of its locks.
LocksHold ==
    \A w \in Workers :
        /\ worker[w].at # "idle" => worker[w].shift \in Shifts
        /\ \A v \in Workers \ {w} :
              /\ LocksDevice(v) /\ LocksDevice(w) => DeviceOf[worker[v].shift] # DeviceOf[worker[w].shift]
              /\ LocksStaff(v) /\ LocksStaff(w) => StaffOf[worker[v].shift] # StaffOf[worker[w].shift]
        /\ worker[w].at = "clear" => Conflicts(worker[w].shift) = {}

\* A sale whose cash the drawer of its shift holds.
Rung(o) == order[o].cash /\ order[o].status = "Submitted" /\ order[o].invoice = "Posted"

\* Why the cash of a sale may be missing from a shift.
Excused(o, s) ==
    /\ order[o].retried \/ order[o].cashLog = "Failed"
    /\ shift[s] = "Closed" => order[o].late \/ order[o].retried

Ledger(s) ==
    /\ expected[s] \subseteq Evidence(s)
    /\ \A m \in Evidence(s) \ expected[s] : \E o \in Sales : m = <<"sale", o>> /\ Excused(o, s)

\* Prepared sales are paid by QR: their cash is nobody's.
PreparedIsNotCash == \A o \in Sales : order[o].status = "Draft" => ~order[o].cash

ShiftInv ==
    /\ LocksHold
    /\ OneOpenShift
    /\ \A s \in Shifts : Ledger(s)
    /\ PreparedIsNotCash

-----------------------------------------------------------------------------
(* What the drawer holds.                                                  *)

LEMMA EvidenceTyped ==
    \A s : /\ Evidence(s) \in SUBSET ({"sale", "refund"} \X Sales)
           /\ Evidence(s)' \in SUBSET ({"sale", "refund"} \X Sales)
BY DEF Evidence

LEMMA EvidenceSame ==
    ASSUME NEW s, \A o \in Sales : /\ ShiftOf[o] = s => (Rung(o)' <=> Rung(o))
                                   /\ refund'[o] = s <=> refund[o] = s
    PROVE  Evidence(s)' = Evidence(s)
<1>1. {p \in Sales : ShiftOf[p] = s /\ Rung(p)'} = {p \in Sales : ShiftOf[p] = s /\ Rung(p)}
    OBVIOUS
<1>2. {p \in Sales : refund'[p] = s} = {p \in Sales : refund[p] = s}
    OBVIOUS
<1> QED
    BY <1>1, <1>2 DEF Evidence, Rung

LEMMA RebuiltLedger ==
    ASSUME NEW s, expected'[s] = Evidence(s)'
    PROVE  Ledger(s)'
BY DEF Ledger

\* The cash of a shift is left as it was counted: no cash may leave its
\* drawer, and what comes in must be excused.
LEMMA KeptLedger ==
    ASSUME NEW s, Ledger(s), expected'[s] = expected[s],
           \A o \in Sales : refund'[o] = s <=> refund[o] = s,
           \A o \in Sales : ShiftOf[o] = s /\ Rung(o) => Rung(o)' /\ (Excused(o, s) => Excused(o, s)'),
           \A o \in Sales : ShiftOf[o] = s /\ Rung(o)' /\ ~Rung(o) => Excused(o, s)'
    PROVE  Ledger(s)'
<1>1. \A m \in Evidence(s)' : \/ m \in Evidence(s)
                              \/ \E o \in Sales : m = <<"sale", o>> /\ Excused(o, s)'
    BY DEF Evidence, Rung
<1>2. Evidence(s) \subseteq Evidence(s)'
    BY DEF Evidence, Rung
<1>3. \A o \in Sales : <<"sale", o>> \in Evidence(s) => ShiftOf[o] = s /\ Rung(o)
    BY DEF Evidence, Rung
<1>4. ASSUME NEW m \in Evidence(s)' \ expected'[s]
      PROVE  \E o \in Sales : m = <<"sale", o>> /\ Excused(o, s)'
    <2>1. CASE m \in Evidence(s)
        <3>1. PICK o \in Sales : m = <<"sale", o>> /\ Excused(o, s)
            BY <1>4, <2>1 DEF Ledger
        <3>2. Excused(o, s)'
            BY <1>3, <2>1, <3>1
        <3> QED
            BY <3>1, <3>2
    <2> QED
        BY <1>1, <1>4, <2>1
<1> QED
    BY <1>2, <1>4 DEF Ledger

\* A step on one sale leaves the other shifts alone.
LEMMA OtherLedgers ==
    ASSUME NEW o \in Sales, NEW s, s # ShiftOf[o], Ledger(s),
           expected'[s] = expected[s], shift' = shift, refund' = refund,
           \A p \in Sales \ {o} : order'[p] = order[p]
    PROVE  Ledger(s)'
<1>1. \A p \in Sales : ShiftOf[p] = s => (Rung(p)' <=> Rung(p)) /\ (Excused(p, s)' <=> Excused(p, s))
    BY DEF Rung, Excused
<1> QED
    BY <1>1, KeptLedger

-----------------------------------------------------------------------------
(* Types.                                                                  *)

LEMMA NewOrderTyped ==
    /\ NoOrder \in OrderType
    /\ \A b \in BOOLEAN : /\ [NoOrder EXCEPT !.cash = TRUE, !.late = b] \in OrderType
                          /\ [NoOrder EXCEPT !.status = "Draft", !.late = b] \in OrderType
BY DEF NoOrder, OrderType

\* What Submitted writes.
LEMMA SubmittedTyped ==
    ASSUME TypeOK, NEW o \in Sales, NEW d \in OrderType, Submitted(o, d)
    PROVE  /\ order' \in [Sales -> OrderType]
           /\ expected' \in [Shifts -> SUBSET ({"sale", "refund"} \X Sales)]
           /\ \A p \in Sales \ {o} : order'[p] = order[p]
           /\ order'[o].status = "Submitted" /\ order'[o].cash = d.cash
           /\ order'[o].late = d.late /\ order'[o].retried = d.retried
           /\ \A s \in Shifts \ {ShiftOf[o]} : expected'[s] = expected[s]
           /\ \/ expected'[ShiftOf[o]] = Evidence(ShiftOf[o])'
              \/ expected'[ShiftOf[o]] = expected[ShiftOf[o]] /\ order'[o].cashLog = "Failed"
<1>1. PICK i \in {"Posted", "Failed"}, c \in {"Succeeded", "Failed"} :
          /\ order' = [order EXCEPT ![o] = [d EXCEPT !.status = "Submitted", !.invoice = i,
                                                     !.cashLog = c]]
          /\ expected' = IF c = "Succeeded"
                         THEN [expected EXCEPT ![ShiftOf[o]] = Evidence(ShiftOf[o])'] ELSE expected
    BY DEF Submitted
<1> DEFINE e == [d EXCEPT !.status = "Submitted", !.invoice = i, !.cashLog = c]
<1>2. /\ e \in OrderType /\ e.status = "Submitted" /\ e.cashLog = c
      /\ e.cash = d.cash /\ e.retried = d.retried /\ e.late = d.late
    BY DEF OrderType
<1>3. order' = [order EXCEPT ![o] = e]
    BY <1>1
<1> HIDE DEF e
<1>4. /\ order' \in [Sales -> OrderType] /\ order'[o] = e
      /\ \A p \in Sales \ {o} : order'[p] = order[p]
    BY <1>2, <1>3 DEF TypeOK
<1>5. ShiftOf[o] \in Shifts
    BY ScopeAssumption
<1>6. /\ expected' \in [Shifts -> SUBSET ({"sale", "refund"} \X Sales)]
      /\ \A s \in Shifts \ {ShiftOf[o]} : expected'[s] = expected[s]
      /\ c = "Succeeded" => expected'[ShiftOf[o]] = Evidence(ShiftOf[o])'
      /\ c # "Succeeded" => expected'[ShiftOf[o]] = expected[ShiftOf[o]]
    <2>1. Evidence(ShiftOf[o])' \in SUBSET ({"sale", "refund"} \X Sales)
        BY EvidenceTyped
    <2> QED
        BY <1>1, <1>5, <2>1 DEF TypeOK
<1> QED
    BY <1>1, <1>2, <1>4, <1>6

LEMMA InitOK == Init => TypeOK /\ ShiftInv
<1> SUFFICES ASSUME Init PROVE TypeOK /\ ShiftInv
    OBVIOUS
<1>1. TypeOK
    BY NewOrderTyped DEF Init, TypeOK, Idle
<1>2. LocksHold /\ OneOpenShift /\ PreparedIsNotCash
    BY DEF Init, LocksHold, LocksDevice, LocksStaff, OneOpenShift, PreparedIsNotCash, Idle, NoOrder
<1>3. ASSUME NEW s \in Shifts PROVE Ledger(s)
    <2>1. Evidence(s) = {}
        BY <1>3, ScopeAssumption DEF Init, Evidence, NoOrder
    <2> QED
        BY <2>1 DEF Init, Ledger
<1> QED
    BY <1>1, <1>2, <1>3 DEF ShiftInv

-----------------------------------------------------------------------------
(* Requests that open or close a shift.                                    *)

LEMMA LedgersStay ==
    ASSUME ShiftInv, expected' = expected, order' = order, refund' = refund,
           \A s \in Shifts : shift'[s] = "Closed" => shift[s] = "Closed"
    PROVE  (\A s \in Shifts : Ledger(s)') /\ PreparedIsNotCash'
<1>1. ASSUME NEW s \in Shifts PROVE Ledger(s)'
    <2>1. \A o \in Sales : (Rung(o)' <=> Rung(o)) /\ (Excused(o, s) => Excused(o, s)')
        BY DEF Rung, Excused
    <2> QED
        BY <2>1, KeptLedger DEF ShiftInv
<1> QED
    BY <1>1 DEF ShiftInv, PreparedIsNotCash

\* A request that does not take a further lock, or lets go of all.
LEMMA LocksStay ==
    ASSUME TypeOK, ShiftInv, NEW w \in Workers,
           \A v \in Workers \ {w} : worker'[v] = worker[v],
           worker'[w] = Idle \/ (worker'[w].at = "closing" /\ worker'[w].shift \in Shifts),
           \A s \in Shifts : shift'[s] = "Open" => shift[s] = "Open"
    PROVE  LocksHold' /\ OneOpenShift'
<1>1. ~LocksDevice(w)' /\ ~LocksStaff(w)' /\ worker'[w].at # "clear"
      /\ (worker'[w].at # "idle" => worker'[w].shift \in Shifts)
    BY DEF LocksDevice, LocksStaff, Idle
<1>2. \A s : Conflicts(s)' \subseteq Conflicts(s)
    BY DEF Conflicts
<1>3. LocksHold'
    <2>1. ASSUME NEW v \in Workers
          PROVE  /\ worker'[v].at # "idle" => worker'[v].shift \in Shifts
                 /\ worker'[v].at = "clear" => (Conflicts(worker[v].shift) = {})'
        BY <1>1, <1>2 DEF ShiftInv, LocksHold
    <2>2. ASSUME NEW v \in Workers, NEW u \in Workers \ {v}
          PROVE  /\ (LocksDevice(v) /\ LocksDevice(u))' =>
                        DeviceOf[worker'[v].shift] # DeviceOf[worker'[u].shift]
                 /\ (LocksStaff(v) /\ LocksStaff(u))' =>
                        StaffOf[worker'[v].shift] # StaffOf[worker'[u].shift]
        BY <1>1 DEF ShiftInv, LocksHold, LocksDevice, LocksStaff
    <2> QED
        BY <2>1, <2>2 DEF LocksHold
<1>4. OneOpenShift'
    BY DEF ShiftInv, OneOpenShift
<1> QED
    BY <1>3, <1>4

\* A request that takes a lock no other one holds.
LEMMA LockTaken ==
    ASSUME TypeOK, ShiftInv, NEW w \in Workers, shift' = shift,
           \A v \in Workers \ {w} : worker'[v] = worker[v],
           worker'[w].at \in {"device", "staff", "clear"}, worker'[w].shift \in Shifts,
           \A v \in Workers \ {w} :
              /\ LocksDevice(v) => DeviceOf[worker[v].shift] # DeviceOf[worker'[w].shift]
              /\ worker'[w].at # "device" /\ LocksStaff(v) =>
                     StaffOf[worker[v].shift] # StaffOf[worker'[w].shift],
           worker'[w].at = "clear" => Conflicts(worker'[w].shift) = {}
    PROVE  LocksHold' /\ OneOpenShift'
<1>1. \A s : Conflicts(s)' = Conflicts(s)
    BY DEF Conflicts
<1>2. ASSUME NEW v \in Workers
      PROVE  /\ worker'[v].at # "idle" => worker'[v].shift \in Shifts
             /\ worker'[v].at = "clear" => (Conflicts(worker[v].shift) = {})'
    BY <1>1 DEF ShiftInv, LocksHold
<1>3. ASSUME NEW v \in Workers, NEW u \in Workers \ {v}
      PROVE  /\ (LocksDevice(v) /\ LocksDevice(u))' =>
                    DeviceOf[worker'[v].shift] # DeviceOf[worker'[u].shift]
             /\ (LocksStaff(v) /\ LocksStaff(u))' =>
                    StaffOf[worker'[v].shift] # StaffOf[worker'[u].shift]
    BY DEF ShiftInv, LocksHold, LocksDevice, LocksStaff
<1>4. LocksHold'
    BY <1>2, <1>3 DEF LocksHold
<1> QED
    BY <1>4 DEF ShiftInv, OneOpenShift

LEMMA OpenInsertsStep ==
    ASSUME TypeOK, ShiftInv, NEW w \in Workers, OpenInserts(w)
    PROVE  TypeOK' /\ ShiftInv'
<1> DEFINE s == worker[w].shift
<1>1. s \in Shifts /\ shift[s] = "none" /\ Conflicts(s) = {} /\ LocksDevice(w) /\ LocksStaff(w)
    BY DEF OpenInserts, ShiftInv, LocksHold, LocksDevice, LocksStaff
<1>2. /\ shift' = [shift EXCEPT ![s] = "Open"] /\ worker' = [worker EXCEPT ![w] = Idle]
      /\ expected' = expected /\ order' = order /\ refund' = refund
    BY DEF OpenInserts
<1>3. /\ \A v \in Workers \ {w} : worker'[v] = worker[v]
      /\ worker'[w] = Idle /\ ~LocksDevice(w)' /\ ~LocksStaff(w)' /\ worker'[w].at = "idle"
    BY <1>2 DEF TypeOK, Idle, LocksDevice, LocksStaff
<1>4. ASSUME NEW v \in Workers \ {w}
      PROVE  /\ worker'[v].at # "idle" => worker'[v].shift \in Shifts
             /\ worker'[v].at = "clear" => (Conflicts(worker[v].shift) = {})'
    <2>1. CASE worker[v].at = "clear"
        <3> DEFINE t == worker[v].shift
        <3>1. DeviceOf[s] # DeviceOf[t] /\ StaffOf[s] # StaffOf[t] /\ Conflicts(t) = {}
            BY <1>1, <2>1 DEF ShiftInv, LocksHold, LocksDevice, LocksStaff
        <3>2. Conflicts(t)' = {}
            BY <1>1, <1>2, <3>1 DEF Conflicts, TypeOK
        <3> QED
            BY <1>3, <3>2 DEF ShiftInv, LocksHold
    <2> QED
        BY <1>3, <2>1 DEF ShiftInv, LocksHold
<1>5. LocksHold'
    BY <1>3, <1>4 DEF ShiftInv, LocksHold, LocksDevice, LocksStaff
<1>6. OneOpenShift'
    <2>1. \A t \in Shifts : shift'[t] = "Open" <=> shift[t] = "Open" \/ t = s
        BY <1>1, <1>2 DEF TypeOK
    <2>2. \A t \in Shifts : shift[t] = "Open" => DeviceOf[t] # DeviceOf[s] /\ StaffOf[t] # StaffOf[s]
        BY <1>1 DEF Conflicts
    <2> QED
        BY <2>1, <2>2 DEF ShiftInv, OneOpenShift
<1>7. TypeOK'
    BY <1>1, <1>2 DEF TypeOK, Idle
<1>8. \A t \in Shifts : shift'[t] = "Closed" => shift[t] = "Closed"
    BY <1>1, <1>2 DEF TypeOK
<1> QED
    BY <1>2, <1>5, <1>6, <1>7, <1>8, LedgersStay DEF ShiftInv

LEMMA CloseRunsStep ==
    ASSUME TypeOK, ShiftInv, NEW w \in Workers, CloseRuns(w)
    PROVE  TypeOK' /\ ShiftInv'
<1> DEFINE s == worker[w].shift
<1>1. s \in Shifts /\ shift[s] = "Open"
    BY DEF CloseRuns, ShiftInv, LocksHold
<1>2. /\ shift' = [shift EXCEPT ![s] = "Closed"] /\ worker' = [worker EXCEPT ![w] = Idle]
      /\ expected' = [expected EXCEPT ![s] = Evidence(s)] /\ order' = order /\ refund' = refund
    BY DEF CloseRuns
<1>3. \A t : Evidence(t)' = Evidence(t)
    BY <1>2 DEF Evidence
<1>4. TypeOK'
    <2>1. Evidence(s) \in SUBSET ({"sale", "refund"} \X Sales)
        BY EvidenceTyped
    <2> QED
        BY <1>1, <1>2, <2>1 DEF TypeOK, Idle
<1>5. LocksHold' /\ OneOpenShift'
    BY <1>1, <1>2, LocksStay DEF TypeOK
<1>6. ASSUME NEW t \in Shifts PROVE Ledger(t)'
    <2>1. CASE t = s
        BY <1>1, <1>2, <1>3, <2>1, RebuiltLedger DEF TypeOK
    <2>2. CASE t # s
        <3>1. \A o \in Sales : (Rung(o)' <=> Rung(o)) /\ (Excused(o, t)' <=> Excused(o, t))
            BY <1>1, <1>2, <2>2 DEF Rung, Excused, TypeOK
        <3>2. expected'[t] = expected[t]
            BY <1>1, <1>2, <2>2 DEF TypeOK
        <3> QED
            BY <1>2, <3>1, <3>2, KeptLedger DEF ShiftInv
    <2> QED
        BY <2>1, <2>2
<1> QED
    BY <1>2, <1>4, <1>5, <1>6 DEF ShiftInv, PreparedIsNotCash

LEMMA WorkerStep ==
    ASSUME TypeOK, ShiftInv, NEW w \in Workers,
           \/ \E s \in Shifts : OpenLocksDevice(w, s) \/ CloseBegins(w, s)
           \/ OpenLocksStaff(w) \/ OpenChecks(w) \/ RequestEnds(w)
    PROVE  TypeOK' /\ ShiftInv'
<1>1. UNCHANGED <<shift, expected, order, refund>>
    BY DEF OpenLocksDevice, CloseBegins, OpenLocksStaff, OpenChecks, RequestEnds
<1>2. (\A s \in Shifts : Ledger(s)') /\ PreparedIsNotCash'
    BY <1>1, LedgersStay
<1>3. ASSUME worker' \in [Workers -> [at    : {"idle", "device", "staff", "clear", "closing"},
                                      shift : Shifts \cup {None}, seen  : SUBSET Sales]],
             LocksHold', OneOpenShift'
      PROVE  TypeOK' /\ ShiftInv'
    BY <1>1, <1>2, <1>3 DEF TypeOK, ShiftInv
<1>4. ASSUME NEW s \in Shifts, OpenLocksDevice(w, s) PROVE TypeOK' /\ ShiftInv'
    <2> DEFINE q == [Idle EXCEPT !.at = "device", !.shift = s]
    <2>1. /\ q \in [at    : {"idle", "device", "staff", "clear", "closing"},
                    shift : Shifts \cup {None}, seen  : SUBSET Sales]
          /\ q.at = "device" /\ q.shift = s
        BY DEF Idle
    <2>2. worker' = [worker EXCEPT ![w] = q] /\ DeviceFree(s)
        BY <1>4 DEF OpenLocksDevice
    <2> HIDE DEF q
    <2>3. (\A v \in Workers \ {w} : worker'[v] = worker[v]) /\ worker'[w] = q
        BY <2>2 DEF TypeOK
    <2>4. LocksHold' /\ OneOpenShift'
        BY <1>1, <2>1, <2>2, <2>3, LockTaken DEF DeviceFree, LocksDevice
    <2> QED
        BY <1>3, <2>1, <2>2, <2>4 DEF TypeOK
<1>5. ASSUME NEW s \in Shifts, CloseBegins(w, s) PROVE TypeOK' /\ ShiftInv'
    <2>1. Blockers(s) \in SUBSET Sales
        BY DEF Blockers
    <2>2. /\ \A v \in Workers \ {w} : worker'[v] = worker[v]
          /\ worker'[w].at = "closing" /\ worker'[w].shift = s
        BY <1>5 DEF CloseBegins, TypeOK
    <2>3. LocksHold' /\ OneOpenShift'
        BY <1>1, <2>2, LocksStay
    <2> QED
        BY <1>3, <1>5, <2>1, <2>3 DEF TypeOK, CloseBegins
<1>6. CASE OpenLocksStaff(w)
    <2>1. /\ \A v \in Workers \ {w} : worker'[v] = worker[v]
          /\ worker'[w].at = "staff" /\ worker'[w].shift = worker[w].shift
          /\ worker[w].at = "device" /\ StaffFree(worker[w].shift)
        BY <1>6 DEF OpenLocksStaff, TypeOK
    <2>2. worker[w].shift \in Shifts /\ LocksDevice(w)
        BY <2>1 DEF ShiftInv, LocksHold, LocksDevice
    <2>3. \A v \in Workers \ {w} :
              /\ LocksDevice(v) => DeviceOf[worker[v].shift] # DeviceOf[worker[w].shift]
              /\ LocksStaff(v) => StaffOf[worker[v].shift] # StaffOf[worker[w].shift]
        BY <2>1, <2>2 DEF ShiftInv, LocksHold, StaffFree, LocksStaff
    <2>4. LocksHold' /\ OneOpenShift'
        BY <1>1, <2>1, <2>2, <2>3, LockTaken
    <2> QED
        BY <1>3, <1>6, <2>4 DEF TypeOK, OpenLocksStaff
<1>7. CASE OpenChecks(w)
    <2> DEFINE s == worker[w].shift
    <2>1. worker[w].at = "staff" /\ s \in Shifts /\ LocksDevice(w) /\ LocksStaff(w)
        BY <1>7 DEF OpenChecks, ShiftInv, LocksHold, LocksDevice, LocksStaff
    <2>2. CASE worker' = [worker EXCEPT ![w] = [worker[w] EXCEPT !.at = "clear"]] /\ Conflicts(s) = {}
        <3>1. /\ \A v \in Workers \ {w} : worker'[v] = worker[v]
              /\ worker'[w].at = "clear" /\ worker'[w].shift = s
            BY <2>2 DEF TypeOK
        <3>2. \A v \in Workers \ {w} :
                  /\ LocksDevice(v) => DeviceOf[worker[v].shift] # DeviceOf[s]
                  /\ LocksStaff(v) => StaffOf[worker[v].shift] # StaffOf[s]
            BY <2>1 DEF ShiftInv, LocksHold
        <3>3. LocksHold' /\ OneOpenShift'
            BY <1>1, <2>1, <2>2, <3>1, <3>2, LockTaken
        <3> QED
            BY <1>3, <2>2, <3>3 DEF TypeOK
    <2>3. CASE worker' = [worker EXCEPT ![w] = Idle]
        <3>1. (\A v \in Workers \ {w} : worker'[v] = worker[v]) /\ worker'[w] = Idle
            BY <2>3 DEF TypeOK
        <3>2. LocksHold' /\ OneOpenShift'
            BY <1>1, <3>1, LocksStay
        <3> QED
            BY <1>3, <2>3, <3>2 DEF TypeOK, Idle
    <2> QED
        BY <1>7, <2>2, <2>3 DEF OpenChecks
<1>8. CASE RequestEnds(w)
    <2>1. worker' = [worker EXCEPT ![w] = Idle]
        BY <1>8 DEF RequestEnds
    <2>2. (\A v \in Workers \ {w} : worker'[v] = worker[v]) /\ worker'[w] = Idle
        BY <2>1 DEF TypeOK
    <2>3. LocksHold' /\ OneOpenShift'
        BY <1>1, <2>2, LocksStay
    <2> QED
        BY <1>3, <2>1, <2>3 DEF TypeOK, Idle
<1> QED
    BY <1>4, <1>5, <1>6, <1>7, <1>8

-----------------------------------------------------------------------------
(* Sales, refunds and voids.                                               *)

\* A step on one sale that leaves the shifts and their requests alone.
LEMMA SaleMoves ==
    ASSUME TypeOK, ShiftInv, NEW o \in Sales, shift' = shift, worker' = worker, refund' = refund,
           order' \in [Sales -> OrderType], \A p \in Sales \ {o} : order'[p] = order[p],
           order'[o].status = "Draft" => ~order'[o].cash,
           expected' \in [Shifts -> SUBSET ({"sale", "refund"} \X Sales)],
           \A s \in Shifts \ {ShiftOf[o]} : expected'[s] = expected[s],
           Ledger(ShiftOf[o])'
    PROVE  TypeOK' /\ ShiftInv'
<1>1. \A s : Conflicts(s)' = Conflicts(s)
    BY DEF Conflicts
<1>2. LocksHold' /\ OneOpenShift'
    BY <1>1 DEF ShiftInv, LocksHold, LocksDevice, LocksStaff, OneOpenShift
<1>3. \A s \in Shifts : Ledger(s)'
    BY OtherLedgers DEF ShiftInv
<1>4. PreparedIsNotCash'
    BY DEF ShiftInv, PreparedIsNotCash
<1> QED
    BY <1>2, <1>3, <1>4 DEF TypeOK, ShiftInv

LEMMA SubmittedStep ==
    ASSUME TypeOK, ShiftInv, NEW o \in Sales, NEW d \in OrderType, Submitted(o, d),
           UNCHANGED <<shift, refund, worker>>, ~Rung(o),
           ~d.cash \/ (shift[ShiftOf[o]] = "Closed" => d.late)
    PROVE  TypeOK' /\ ShiftInv'
<1> DEFINE s == ShiftOf[o]
<1>1. s \in Shifts
    BY ScopeAssumption
<1>2. Ledger(s)'
    <2>1. CASE expected'[s] = Evidence(s)'
        BY <2>1, RebuiltLedger
    <2>2. CASE expected'[s] = expected[s] /\ order'[o].cashLog = "Failed"
        <3>1. Rung(o)' => Excused(o, s)'
            BY <2>2, SubmittedTyped DEF Rung, Excused
        <3>2. \A p \in Sales \ {o} : (Rung(p)' <=> Rung(p)) /\ (Excused(p, s)' <=> Excused(p, s))
            BY SubmittedTyped DEF Rung, Excused
        <3> QED
            BY <1>1, <2>2, <3>1, <3>2, KeptLedger DEF ShiftInv
    <2> QED
        BY <2>1, <2>2, SubmittedTyped
<1> QED
    BY <1>2, SubmittedTyped, SaleMoves

\* A step that rebuilds the cash of one shift and does nothing else.
LEMMA Recounted ==
    ASSUME TypeOK, ShiftInv, NEW s \in Shifts, UNCHANGED <<shift, order, refund, worker>>,
           expected' = [expected EXCEPT ![s] = Evidence(s)]
    PROVE  TypeOK' /\ ShiftInv'
<1>1. \A t : Conflicts(t)' = Conflicts(t) /\ Evidence(t)' = Evidence(t)
    BY DEF Conflicts, Evidence
<1>2. LocksHold' /\ OneOpenShift' /\ PreparedIsNotCash'
    BY <1>1 DEF ShiftInv, LocksHold, LocksDevice, LocksStaff, OneOpenShift, PreparedIsNotCash
<1>3. Evidence(s) \in SUBSET ({"sale", "refund"} \X Sales)
    BY EvidenceTyped
<1>4. TypeOK'
    BY <1>3 DEF TypeOK
<1>5. ASSUME NEW t \in Shifts PROVE Ledger(t)'
    <2>1. CASE t = s
        BY <1>1, <2>1, RebuiltLedger DEF TypeOK
    <2>2. CASE t # s
        BY <1>1, <2>2 DEF ShiftInv, Ledger, TypeOK, Excused
    <2> QED
        BY <2>1, <2>2
<1> QED
    BY <1>2, <1>4, <1>5 DEF ShiftInv

LEMMA RefundStep ==
    ASSUME TypeOK, ShiftInv, NEW o \in Sales, NEW chosen \in Shifts \cup {None}, Refund(o, chosen)
    PROVE  TypeOK' /\ ShiftInv'
<1>1. PICK s \in RefundDrawers(o, chosen) :
          /\ refund' = [refund EXCEPT ![o] = s]
          /\ expected' = [expected EXCEPT ![s] = Evidence(s)']
    BY DEF Refund
<1>2. UNCHANGED <<shift, order, worker>> /\ refund[o] = None
    BY DEF Refund
<1>3. s \in Shifts /\ None \notin Shifts
    BY ScopeAssumption DEF RefundDrawers
<1>4. \A t : Conflicts(t)' = Conflicts(t)
    BY <1>2 DEF Conflicts
<1>5. LocksHold' /\ OneOpenShift' /\ PreparedIsNotCash'
    BY <1>2, <1>4 DEF ShiftInv, LocksHold, LocksDevice, LocksStaff, OneOpenShift, PreparedIsNotCash
<1>6. Evidence(s)' \in SUBSET ({"sale", "refund"} \X Sales)
    BY EvidenceTyped
<1>7. TypeOK'
    BY <1>1, <1>2, <1>3, <1>6 DEF TypeOK
<1>8. ASSUME NEW t \in Shifts PROVE Ledger(t)'
    <2>1. CASE t = s
        BY <1>1, <1>3, <2>1, RebuiltLedger DEF TypeOK
    <2>2. CASE t # s
        <3>1. \A p \in Sales : refund'[p] = t <=> refund[p] = t
            BY <1>1, <1>2, <1>3, <2>2 DEF TypeOK
        <3>2. expected'[t] = expected[t]
            BY <1>1, <2>2 DEF TypeOK
        <3>3. \A p \in Sales : (Rung(p)' <=> Rung(p)) /\ (Excused(p, t)' <=> Excused(p, t))
            BY <1>2 DEF Rung, Excused
        <3> QED
            BY <3>1, <3>2, <3>3, KeptLedger DEF ShiftInv
    <2> QED
        BY <2>1, <2>2
<1> QED
    BY <1>5, <1>7, <1>8 DEF ShiftInv

LEMMA SaleStep ==
    ASSUME TypeOK, ShiftInv, NEW o \in Sales,
           \/ SubmitOrder(o) \/ PrepareSale(o) \/ ReleasePrepared(o) \/ SubmitPrepared(o)
           \/ RetryInvoice(o) \/ RetryCash(o) \/ RefundAgain(o) \/ Void(o) \/ VoidAgain(o)
    PROVE  TypeOK' /\ ShiftInv'
<1> DEFINE s == ShiftOf[o]
<1>0. s \in Shifts /\ order[o] \in OrderType /\ Ledger(s)
    BY ScopeAssumption DEF TypeOK, ShiftInv
<1>1. CASE SubmitOrder(o)
    <2> DEFINE d == [NoOrder EXCEPT !.cash = TRUE, !.late = Late(o)]
    <2>1. Late(o) \in BOOLEAN /\ (shift[s] = "Closed" => Late(o))
        BY DEF Late
    <2>2. d \in OrderType
        BY <2>1, NewOrderTyped
    <2>3. d.late = Late(o)
        BY DEF NoOrder
    <2>4. Submitted(o, d) /\ UNCHANGED <<shift, refund, worker>> /\ ~Rung(o)
        BY <1>1 DEF SubmitOrder, Rung
    <2> HIDE DEF d
    <2> QED
        BY <2>1, <2>2, <2>3, <2>4, SubmittedStep
<1>2. CASE PrepareSale(o)
    <2> DEFINE d == [NoOrder EXCEPT !.status = "Draft", !.late = Late(o)]
    <2>1. d \in OrderType /\ ~d.cash /\ d.status = "Draft"
        BY NewOrderTyped DEF Late, NoOrder
    <2>2. /\ order' = [order EXCEPT ![o] = d] /\ ~Rung(o)
          /\ UNCHANGED <<shift, expected, refund, worker>>
        BY <1>2 DEF PrepareSale, Rung
    <2> HIDE DEF d
    <2>3. /\ order' \in [Sales -> OrderType] /\ order'[o] = d
          /\ \A p \in Sales \ {o} : order'[p] = order[p]
        BY <2>1, <2>2 DEF TypeOK
    <2>4. \A p \in Sales : (Rung(p)' <=> Rung(p)) /\ (Rung(p) /\ Excused(p, s) => Excused(p, s)')
        BY <2>1, <2>2, <2>3 DEF Rung, Excused
    <2>5. Ledger(s)'
        BY <1>0, <2>2, <2>4, KeptLedger
    <2> QED
        BY <2>1, <2>2, <2>3, <2>5, SaleMoves DEF TypeOK
<1>3. CASE ReleasePrepared(o)
    <2> DEFINE d == [order[o] EXCEPT !.status = "Released"]
    <2>1. d \in OrderType /\ d.status = "Released"
        BY <1>0 DEF OrderType
    <2>2. /\ order' = [order EXCEPT ![o] = d] /\ ~Rung(o)
          /\ UNCHANGED <<shift, expected, refund, worker>>
        BY <1>3 DEF ReleasePrepared, Rung
    <2> HIDE DEF d
    <2>3. /\ order' \in [Sales -> OrderType] /\ order'[o] = d
          /\ \A p \in Sales \ {o} : order'[p] = order[p]
        BY <2>1, <2>2 DEF TypeOK
    <2>4. \A p \in Sales : (Rung(p)' <=> Rung(p)) /\ (Rung(p) /\ Excused(p, s) => Excused(p, s)')
        BY <2>1, <2>2, <2>3 DEF Rung, Excused
    <2>5. Ledger(s)'
        BY <1>0, <2>2, <2>4, KeptLedger
    <2> QED
        BY <2>1, <2>2, <2>3, <2>5, SaleMoves DEF TypeOK
<1>4. CASE SubmitPrepared(o)
    <2>1. Submitted(o, order[o]) /\ ~Rung(o) /\ ~order[o].cash /\ UNCHANGED <<shift, refund, worker>>
        BY <1>4 DEF SubmitPrepared, Rung, ShiftInv, PreparedIsNotCash
    <2> QED
        BY <1>0, <2>1, SubmittedStep
<1>5. CASE RetryInvoice(o)
    <2> DEFINE d == [order[o] EXCEPT !.invoice = "Posted", !.retried = TRUE]
    <2>1. d \in OrderType /\ d.status = order[o].status /\ d.retried
        BY <1>0 DEF OrderType
    <2>2. /\ order' = [order EXCEPT ![o] = d] /\ ~Rung(o) /\ order[o].status = "Submitted"
          /\ UNCHANGED <<shift, expected, refund, worker>>
        BY <1>5 DEF RetryInvoice, Rung
    <2> HIDE DEF d
    <2>3. /\ order' \in [Sales -> OrderType] /\ order'[o] = d
          /\ \A p \in Sales \ {o} : order'[p] = order[p]
        BY <2>1, <2>2 DEF TypeOK
    <2>4. Excused(o, s)'
        BY <2>1, <2>3 DEF Excused
    <2>5. \A p \in Sales \ {o} : (Rung(p)' <=> Rung(p)) /\ (Excused(p, s)' <=> Excused(p, s))
        BY <2>2, <2>3 DEF Rung, Excused
    <2>6. Ledger(s)'
        BY <1>0, <2>2, <2>4, <2>5, KeptLedger
    <2> QED
        BY <2>1, <2>2, <2>3, <2>6, SaleMoves DEF TypeOK
<1>6. CASE RetryCash(o)
    <2> DEFINE d == [order[o] EXCEPT !.cashLog = "Succeeded"]
    <2>1. d \in OrderType /\ d.status = order[o].status /\ d.cash = order[o].cash
          /\ d.invoice = order[o].invoice
        BY <1>0 DEF OrderType
    <2>2. /\ order' = [order EXCEPT ![o] = d] /\ order[o].status = "Submitted"
          /\ expected' = [expected EXCEPT ![s] = Evidence(s)]
          /\ UNCHANGED <<shift, refund, worker>>
        BY <1>6 DEF RetryCash
    <2> HIDE DEF d
    <2>3. /\ order' \in [Sales -> OrderType] /\ order'[o] = d
          /\ \A p \in Sales \ {o} : order'[p] = order[p]
        BY <2>1, <2>2 DEF TypeOK
    <2>4. Evidence(s)' = Evidence(s)
        <3>1. \A p \in Sales : Rung(p)' <=> Rung(p)
            BY <2>1, <2>3 DEF Rung
        <3> QED
            BY <2>2, <3>1, EvidenceSame
    <2>5. /\ expected' \in [Shifts -> SUBSET ({"sale", "refund"} \X Sales)]
          /\ expected'[s] = Evidence(s)' /\ \A t \in Shifts \ {s} : expected'[t] = expected[t]
        <3>1. Evidence(s) \in SUBSET ({"sale", "refund"} \X Sales)
            BY EvidenceTyped
        <3> QED
            BY <1>0, <2>2, <2>4, <3>1 DEF TypeOK
    <2> QED
        BY <2>1, <2>2, <2>3, <2>5, RebuiltLedger, SaleMoves
<1>7. CASE RefundAgain(o)
    <2>1. refund[o] \in Shifts
        BY <1>7 DEF RefundAgain, TypeOK
    <2> QED
        BY <1>7, <2>1, Recounted DEF RefundAgain
<1>8. CASE Void(o)
    <2> DEFINE d == [order[o] EXCEPT !.status = "Cancelled", !.invoice = "Reversed",
                                     !.cashLog = "Reversed"]
    <2>1. d \in OrderType /\ d.status = "Cancelled"
        BY <1>0 DEF OrderType
    <2>2. /\ order' = [order EXCEPT ![o] = d]
          /\ expected' = [expected EXCEPT ![s] = Evidence(s)']
          /\ UNCHANGED <<shift, refund, worker>>
        BY <1>8 DEF Void
    <2> HIDE DEF d
    <2>3. /\ order' \in [Sales -> OrderType] /\ order'[o] = d
          /\ \A p \in Sales \ {o} : order'[p] = order[p]
        BY <2>1, <2>2 DEF TypeOK
    <2>4. /\ expected' \in [Shifts -> SUBSET ({"sale", "refund"} \X Sales)]
          /\ expected'[s] = Evidence(s)' /\ \A t \in Shifts \ {s} : expected'[t] = expected[t]
        <3>1. Evidence(s)' \in SUBSET ({"sale", "refund"} \X Sales)
            BY EvidenceTyped
        <3> QED
            BY <1>0, <2>2, <3>1 DEF TypeOK
    <2> QED
        BY <2>1, <2>2, <2>3, <2>4, RebuiltLedger, SaleMoves
<1>9. CASE VoidAgain(o)
    BY <1>0, <1>9, Recounted DEF VoidAgain
<1> QED
    BY <1>1, <1>2, <1>3, <1>4, <1>5, <1>6, <1>7, <1>8, <1>9

LEMMA InvStep == TypeOK /\ ShiftInv /\ [Next]_vars => TypeOK' /\ ShiftInv'
<1>1. TypeOK /\ ShiftInv /\ UNCHANGED vars => TypeOK' /\ ShiftInv'
    BY DEF vars, TypeOK, ShiftInv, LocksHold, LocksDevice, LocksStaff, Conflicts, OneOpenShift,
       Ledger, Evidence, Excused, PreparedIsNotCash
<1> QED
    BY <1>1, WorkerStep, OpenInsertsStep, CloseRunsStep, SaleStep, RefundStep DEF Next

(* The invariant holds throughout. *)
THEOREM ShiftsHold == Spec => [](TypeOK /\ ShiftInv)
    BY InitOK, InvStep, PTL DEF Spec

(* A till has one open shift and a user has one, though the requests that    *)
(* open them race: each holds both rows from its look to its insert.         *)
THEOREM OneShiftIsOpen == Spec => []OneOpenShift
<1>1. ShiftInv => OneOpenShift
    BY DEF ShiftInv
<1> QED
    BY <1>1, ShiftsHold, PTL

(* The cash a shift is expected to hold is what was moved through its drawer, *)
(* but for sales whose projection failed or was retried.                      *)
THEOREM DrawersBalance == Spec => []CashMatchesLedger
<1>1. ShiftInv => CashMatchesLedger
    <2> SUFFICES ASSUME ShiftInv, NEW s \in Shifts, NEW m \in Evidence(s) \ expected[s]
                 PROVE  m[1] = "sale" /\ (order[m[2]].retried \/ order[m[2]].cashLog = "Failed")
        BY DEF ShiftInv, Ledger, CashMatchesLedger
    <2>1. PICK o \in Sales : m = <<"sale", o>> /\ Excused(o, s)
        BY DEF ShiftInv, Ledger
    <2> QED
        BY <2>1 DEF Excused
<1> QED
    BY <1>1, ShiftsHold, PTL

-----------------------------------------------------------------------------
(* Closed shifts.                                                          *)

\* What a step may do to the cash of a shift that was counted.
AsCounted(s) ==
    /\ expected[s] \subseteq expected'[s]
    /\ \A m \in expected'[s] \ expected[s] :
          m[1] = "sale" /\ (order'[m[2]].late \/ order'[m[2]].retried)

\* A closed shift is counted again, perhaps with a sale that came in late.
LEMMA CountedAgain ==
    ASSUME NEW s \in Shifts, Ledger(s), shift[s] = "Closed", expected'[s] = Evidence(s)',
           \A o \in Sales : refund'[o] = s <=> refund[o] = s,
           \A o \in Sales : ShiftOf[o] = s /\ Rung(o) =>
              Rung(o)' /\ order'[o].late = order[o].late /\ order'[o].retried = order[o].retried,
           \A o \in Sales : ShiftOf[o] = s /\ Rung(o)' /\ ~Rung(o) => order'[o].late
    PROVE  AsCounted(s)
<1>1. Evidence(s) \subseteq Evidence(s)'
    BY DEF Evidence, Rung
<1>2. ASSUME NEW m \in Evidence(s)' \ expected[s]
      PROVE  m[1] = "sale" /\ (order'[m[2]].late \/ order'[m[2]].retried)
    <2>1. CASE m \in Evidence(s)
        <3>1. PICK o \in Sales : m = <<"sale", o>> /\ Excused(o, s)
            BY <1>2, <2>1 DEF Ledger
        <3>2. ShiftOf[o] = s /\ Rung(o)
            BY <2>1, <3>1 DEF Evidence, Rung
        <3> QED
            BY <3>1, <3>2 DEF Excused
    <2>2. CASE m \notin Evidence(s)
        <3>1. PICK o \in Sales : m = <<"sale", o>> /\ ShiftOf[o] = s /\ Rung(o)' /\ ~Rung(o)
            BY <1>2, <2>2 DEF Evidence, Rung
        <3> QED
            BY <3>1
    <2> QED
        BY <2>1, <2>2
<1> QED
    BY <1>1, <1>2 DEF Ledger, AsCounted

LEMMA CountedRow ==
    ASSUME NEW s \in Shifts, expected'[s] = expected[s]
    PROVE  AsCounted(s)
BY DEF AsCounted

LEMMA ClosedSubmitted ==
    ASSUME TypeOK, ShiftInv, NEW s \in Shifts, shift[s] = "Closed", NEW o \in Sales,
           NEW d \in OrderType, Submitted(o, d), refund' = refund, ~Rung(o),
           ~d.cash \/ (shift[ShiftOf[o]] = "Closed" => d.late)
    PROVE  AsCounted(s)
<1>1. CASE expected'[s] = expected[s]
    BY <1>1, CountedRow
<1>2. CASE s = ShiftOf[o] /\ expected'[s] = Evidence(s)'
    <2>1. \A p \in Sales : ShiftOf[p] = s /\ Rung(p) =>
              Rung(p)' /\ order'[p].late = order[p].late /\ order'[p].retried = order[p].retried
        BY SubmittedTyped DEF Rung
    <2>2. \A p \in Sales : ShiftOf[p] = s /\ Rung(p)' /\ ~Rung(p) => order'[p].late
        BY <1>2, SubmittedTyped DEF Rung
    <2> QED
        BY <1>2, <2>1, <2>2, CountedAgain DEF ShiftInv
<1> QED
    BY <1>1, <1>2, SubmittedTyped

\* A step that counts one shift again and leaves what it was rung up with.
LEMMA ClosedRecounted ==
    ASSUME TypeOK, ShiftInv, NEW s \in Shifts, shift[s] = "Closed", NEW t \in Shifts,
           expected' = [expected EXCEPT ![t] = Evidence(t)], refund' = refund,
           \A p \in Sales : /\ Rung(p)' <=> Rung(p)
                            /\ order'[p].late = order[p].late /\ order'[p].retried = order[p].retried
    PROVE  AsCounted(s)
<1>1. Evidence(t)' = Evidence(t)
    BY EvidenceSame
<1>2. CASE t = s
    <2>1. expected'[s] = Evidence(s)'
        BY <1>1, <1>2 DEF TypeOK
    <2> QED
        BY <2>1, CountedAgain DEF ShiftInv
<1>3. CASE t # s
    BY <1>3, CountedRow DEF TypeOK
<1> QED
    BY <1>2, <1>3

LEMMA ClosedStep ==
    ASSUME TypeOK, ShiftInv, [Next]_vars, NEW s \in Shifts, shift[s] = "Closed"
    PROVE  shift'[s] = "Closed" /\ AsCounted(s)
<1>1. ASSUME NEW w \in Workers, OpenInserts(w) PROVE shift'[s] = "Closed" /\ AsCounted(s)
    <2>1. worker[w].shift # s
        BY <1>1 DEF OpenInserts
    <2> QED
        BY <1>1, <2>1, CountedRow DEF OpenInserts, TypeOK
<1>2. ASSUME NEW w \in Workers, CloseRuns(w) PROVE shift'[s] = "Closed" /\ AsCounted(s)
    <2>1. worker[w].shift # s
        BY <1>2 DEF CloseRuns
    <2> QED
        BY <1>2, <2>1, CountedRow DEF CloseRuns, TypeOK
<1>3. CASE expected' = expected /\ shift' = shift
    BY <1>3, CountedRow
<1>4. ASSUME NEW o \in Sales, SubmitOrder(o) PROVE shift'[s] = "Closed" /\ AsCounted(s)
    <2> DEFINE d == [NoOrder EXCEPT !.cash = TRUE, !.late = Late(o)]
    <2>1. Late(o) \in BOOLEAN /\ (shift[ShiftOf[o]] = "Closed" => Late(o))
        BY DEF Late
    <2>2. d \in OrderType
        BY <2>1, NewOrderTyped
    <2>3. d.late = Late(o)
        BY DEF NoOrder
    <2>4. Submitted(o, d) /\ shift' = shift /\ refund' = refund /\ ~Rung(o)
        BY <1>4 DEF SubmitOrder, Rung
    <2> HIDE DEF d
    <2> QED
        BY <2>1, <2>2, <2>3, <2>4, ClosedSubmitted
<1>5. ASSUME NEW o \in Sales, SubmitPrepared(o) PROVE shift'[s] = "Closed" /\ AsCounted(s)
    <2>1. /\ Submitted(o, order[o]) /\ ~Rung(o) /\ ~order[o].cash
          /\ shift' = shift /\ refund' = refund /\ order[o] \in OrderType
        BY <1>5 DEF SubmitPrepared, Rung, ShiftInv, PreparedIsNotCash, TypeOK
    <2> QED
        BY <2>1, ClosedSubmitted
<1>6. ASSUME NEW o \in Sales, RetryCash(o) PROVE shift'[s] = "Closed" /\ AsCounted(s)
    <2>1. /\ order' = [order EXCEPT ![o] = [order[o] EXCEPT !.cashLog = "Succeeded"]]
          /\ expected' = [expected EXCEPT ![ShiftOf[o]] = Evidence(ShiftOf[o])]
          /\ shift' = shift /\ refund' = refund /\ ShiftOf[o] \in Shifts
        BY <1>6, ScopeAssumption DEF RetryCash
    <2>2. \A p \in Sales : /\ order'[p].status = order[p].status /\ order'[p].cash = order[p].cash
                           /\ order'[p].invoice = order[p].invoice
                           /\ order'[p].late = order[p].late /\ order'[p].retried = order[p].retried
        <3>1. \A p \in Sales : order[p] \in OrderType
            BY DEF TypeOK
        <3>2. \A p \in Sales \ {o} : order'[p] = order[p]
            BY <2>1 DEF TypeOK
        <3>3. order'[o] = [order[o] EXCEPT !.cashLog = "Succeeded"]
            BY <2>1 DEF TypeOK
        <3> QED
            BY <3>1, <3>2, <3>3 DEF OrderType
    <2>3. \A p \in Sales : Rung(p)' <=> Rung(p)
        BY <2>2 DEF Rung
    <2> QED
        BY <2>1, <2>2, <2>3, ClosedRecounted
<1>7. ASSUME NEW o \in Sales, RefundAgain(o) \/ VoidAgain(o)
      PROVE  shift'[s] = "Closed" /\ AsCounted(s)
    <2>1. PICK t \in Shifts : expected' = [expected EXCEPT ![t] = Evidence(t)]
        BY <1>7, ScopeAssumption DEF RefundAgain, VoidAgain, TypeOK
    <2>2. shift' = shift /\ order' = order /\ refund' = refund
        BY <1>7 DEF RefundAgain, VoidAgain
    <2>3. \A p \in Sales : Rung(p)' <=> Rung(p)
        BY <2>2 DEF Rung
    <2> QED
        BY <2>1, <2>2, <2>3, ClosedRecounted
<1>8. ASSUME NEW o \in Sales, NEW chosen \in Shifts \cup {None}, Refund(o, chosen)
      PROVE  shift'[s] = "Closed" /\ AsCounted(s)
    <2>1. PICK t \in RefundDrawers(o, chosen) : expected' = [expected EXCEPT ![t] = Evidence(t)']
        BY <1>8 DEF Refund
    <2>2. shift[t] = "Open" /\ t # s
        BY <2>1 DEF RefundDrawers
    <2> QED
        BY <1>8, <2>1, <2>2, CountedRow DEF Refund, TypeOK
<1>9. ASSUME NEW o \in Sales, Void(o) PROVE shift'[s] = "Closed" /\ AsCounted(s)
    <2>1. ShiftOf[o] # s
        BY <1>9 DEF Void
    <2> QED
        BY <1>9, <2>1, CountedRow DEF Void, TypeOK
<1> QED
    BY <1>1, <1>2, <1>3, <1>4, <1>5, <1>6, <1>7, <1>8, <1>9
       DEF Next, vars, OpenLocksDevice, CloseBegins, OpenLocksStaff, OpenChecks, RequestEnds,
           PrepareSale, ReleasePrepared, RetryInvoice

(* A closed shift stays as it was counted: what is added later was rung up   *)
(* on it and came in late, or was posted by a retry.                         *)
THEOREM CountedShiftsStay == Spec => ClosedStaysCounted
<1>1. TypeOK /\ ShiftInv /\ [Next]_vars =>
          [\A s \in Shifts : shift[s] = "Closed" =>
              /\ shift'[s] = "Closed"
              /\ expected[s] \subseteq expected'[s]
              /\ \A m \in expected'[s] \ expected[s] :
                    m[1] = "sale" /\ (order'[m[2]].late \/ order'[m[2]].retried)]_vars
    BY ClosedStep DEF AsCounted
<1> QED
    BY <1>1, ShiftsHold, PTL DEF Spec, ClosedStaysCounted
=============================================================================
