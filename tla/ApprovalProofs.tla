--------------------------- MODULE ApprovalProofs ----------------------------
(***************************************************************************)
(* Proofs about the two components in which people approve what a device    *)
(* or a job asked for: the safe reset of a till (DeviceSafeReset), for any  *)
(* requests, versions and keys, and the counts of stock (InventoryCounts),  *)
(* for any tasks, commands and approvals.                                   *)
(***************************************************************************)
EXTENDS DeviceSafeReset, InventoryCounts, TLAPS, FiniteSetTheorems

LEMMA RequestsFinite == IsFiniteSet(Requests) /\ Cardinality(Requests) = MaxRequests
<1>1. /\ IsFiniteSet(1..MaxRequests)
      /\ Cardinality(1..MaxRequests) = IF 1 > MaxRequests THEN 0 ELSE MaxRequests - 1 + 1
    BY BoundsAssumption, FS_Interval
<1> QED
    BY <1>1, BoundsAssumption DEF Requests

-----------------------------------------------------------------------------
(* The inductive invariant.                                                *)

Used == {r \in Requests : Rotated(r)}

\* What the columns of one reset say of each other.
Sound(d) ==
    /\ d.status \in {"redeemed", "completed"} <=> d.issued # 0
    /\ d.cancel # None <=> d.status = "cancelled"

\* Each redemption moved the credential on by one, the latest to the one in
\* force, and only a reset redeemed last may still be incomplete.
CredentialsFollow ==
    /\ Cardinality(Used) = device.cred - 1
    /\ \A r \in Requests :
          /\ reset[r].issued <= device.cred
          /\ reset[r].status = "redeemed" => reset[r].issued = device.cred
    /\ device.cred > 1 => \E r \in Requests : reset[r].issued = device.cred

OneOpen == \A r, s \in Open : r = s

Quiet == \A r \in Requests : reset[r].status \in {"authorized", "redeemed"} => ~work.shift

Dropped == \A r \in till.released : reset[r].status = "cancelled"

ResetInv ==
    /\ \A r \in Requests : Sound(reset[r])
    /\ OneOpen
    /\ CredentialsFollow
    /\ Quiet
    /\ Dropped
    /\ missed = {}

-----------------------------------------------------------------------------
(* Types.                                                                  *)

LEMMA ActiveIs == Active = {"requested", "authorized", "redeemed"}
BY DEF Active, Statuses

LEMMA Written ==
    ASSUME NEW d \in ResetType
    PROVE  /\ \A b \in BOOLEAN : /\ [d EXCEPT !.lapsed = b] \in ResetType
                                 /\ [d EXCEPT !.late = b] \in ResetType
                                 /\ [d EXCEPT !.bound = b] \in ResetType
           /\ \A s \in Statuses : [d EXCEPT !.status = s] \in ResetType
           /\ \A by \in {"fence", "device", "manager", None} :
                 [d EXCEPT !.status = "cancelled", !.cancel = by] \in ResetType
BY DEF ResetType, Statuses

LEMMA Reissued ==
    ASSUME NEW d \in ResetType, d.gen < MaxGen
    PROVE  [d EXCEPT !.status = IF @ = "requested" THEN "authorized" ELSE @,
                     !.gen = @ + 1, !.lapsed = FALSE, !.bound = FALSE] \in ResetType
<1>1. d.gen + 1 \in 0..MaxGen
    BY BoundsAssumption DEF ResetType
<1> QED
    BY <1>1 DEF ResetType, Statuses

LEMMA Redeemed ==
    ASSUME NEW d \in ResetType, NEW v \in 0..MaxVersion + 1, NEW g \in 1..MaxGen, NEW k \in Keys,
           NEW c \in Credentials
    PROVE  [d EXCEPT !.status = "redeemed", !.new = v, !.redeemedGen = g, !.key = k, !.issued = c]
              \in ResetType
<1>1. g \in 0..MaxGen
    BY BoundsAssumption
<1> QED
    BY <1>1 DEF ResetType, Statuses

LEMMA NoResetTyped ==
    /\ NoReset \in ResetType
    /\ \A v \in 0..MaxVersion :
          /\ [NoReset EXCEPT !.status = "requested", !.prev = v] \in ResetType
          /\ [NoReset EXCEPT !.status = "cancelled", !.cancel = "fence", !.prev = v] \in ResetType
<1>1. 0 \in 0..MaxVersion /\ 0 \in 0..MaxVersion + 1 /\ 0 \in 0..MaxGen
    BY BoundsAssumption
<1>2. NoReset \in ResetType
    BY <1>1 DEF NoReset, ResetType, Statuses
<1>3. ASSUME NEW v \in 0..MaxVersion, NEW s \in Statuses, NEW c \in {"fence", None}
      PROVE  [NoReset EXCEPT !.status = s, !.cancel = c, !.prev = v] \in ResetType
    BY <1>2 DEF ResetType
<1>4. ASSUME NEW v \in 0..MaxVersion
      PROVE  [NoReset EXCEPT !.status = "requested", !.prev = v] \in ResetType
    BY <1>2 DEF ResetType, Statuses
<1> QED
    BY <1>2, <1>3, <1>4 DEF Statuses

\* A redemption finds a credential left to issue.
LEMMA CredentialLeft ==
    ASSUME TypeOK, CredentialsFollow, NEW r \in Requests, ~Rotated(r)
    PROVE  /\ device.cred + 1 \in Credentials
           /\ IsFiniteSet(Used) /\ r \notin Used
           /\ Cardinality(Used \cup {r}) = device.cred
<1>1. r \notin Used /\ Used \cup {r} \in SUBSET Requests /\ Used \in SUBSET Requests
    BY DEF Used
<1>2. IsFiniteSet(Used) /\ Cardinality(Used) \in Nat
    BY <1>1, RequestsFinite, FS_Subset, FS_CardinalityType
<1>3. Cardinality(Used \cup {r}) = Cardinality(Used) + 1
    BY <1>1, <1>2, FS_AddElement
<1>4. Cardinality(Used \cup {r}) <= MaxRequests
    BY <1>1, RequestsFinite, FS_Subset
<1>5. device.cred \in Nat \ {0}
    BY BoundsAssumption DEF TypeOK, Credentials
<1> QED
    BY <1>1, <1>2, <1>3, <1>4, <1>5, BoundsAssumption DEF CredentialsFollow, Credentials

LEMMA SaveTyped ==
    ASSUME TypeOK, NEW r \in Requests, NEW d \in ResetType, Save(r, d)
    PROVE  /\ reset' \in [Requests -> ResetType] /\ reset'[r] = d
           /\ \A s \in Requests \ {r} : reset'[s] = reset[s]
           /\ d.status \in Transitions[reset[r].status]
           /\ LifecycleFields(d) /\ ProtocolTransition(reset[r], d)
BY DEF Save, TypeOK

LEMMA MakeRoomTyped ==
    ASSUME TypeOK, NEW r \in Requests, NEW d \in ResetType, reset[r].status = "none", MakeRoom(r, d)
    PROVE  /\ reset' \in [Requests -> ResetType] /\ reset'[r] = d /\ r \notin Open
           /\ \A s \in Requests \ {r} :
                 reset'[s] = IF s \in Open THEN [reset[s] EXCEPT !.status = "expired"] ELSE reset[s]
           /\ \A s \in Open : reset[s].status = "requested"
<1>1. r \notin Open
    BY DEF Open, Active
<1>2. \A s \in Requests : [reset[s] EXCEPT !.status = "expired"] \in ResetType
    BY Written DEF TypeOK, Statuses
<1>3. reset' = [s \in Requests |-> CASE s = r -> d
                                     [] s \in Open -> [reset[s] EXCEPT !.status = "expired"]
                                     [] OTHER -> reset[s]]
    BY DEF MakeRoom
<1>4. \A s \in Requests \ {r} :
          reset'[s] = IF s \in Open THEN [reset[s] EXCEPT !.status = "expired"] ELSE reset[s]
    BY <1>3
<1>5. reset'[r] = d
    BY <1>1, <1>3
<1>6. reset' \in [Requests -> ResetType]
    BY <1>2, <1>3, <1>4, <1>5 DEF TypeOK
<1> QED
    BY <1>1, <1>4, <1>5, <1>6 DEF MakeRoom

LEMMA InitOK == Init => TypeOK /\ ResetInv
<1> SUFFICES ASSUME Init PROVE TypeOK /\ ResetInv
    OBVIOUS
<1>1. \A r \in Requests : reset[r] = NoReset
    BY DEF Init
<1>2. TypeOK
    <2>1. 1 \in Credentials /\ 1 \in 1..MaxVersion + 1 /\ 0 \in 0..MaxVersion /\ 0 \in 0..MaxVersion + 1
        BY BoundsAssumption DEF Credentials
    <2> QED
        BY <1>1, <2>1, NoResetTyped DEF Init, TypeOK
<1>3. Used = {} /\ Open = {}
    BY <1>1 DEF Used, Open, Rotated, Active, NoReset
<1>4. ResetInv
    BY <1>1, <1>3, FS_EmptySet DEF Init, ResetInv, Sound, OneOpen, CredentialsFollow, Quiet,
       Dropped, NoReset
<1> QED
    BY <1>2, <1>4

LEMMA TypeStep == TypeOK /\ CredentialsFollow /\ [Next]_vars => TypeOK'
<1> SUFFICES ASSUME TypeOK, CredentialsFollow, [Next]_vars PROVE TypeOK'
    OBVIOUS
<1> USE DEF TypeOK
<1>1. ASSUME NEW r \in Requests, Archive(r) PROVE TypeOK'
    BY <1>1 DEF Archive
<1>2. ASSUME NEW r \in Requests, Abandon(r) PROVE TypeOK'
    <2>1. till.archive[r] \in 0..MaxVersion
        OBVIOUS
    <2> DEFINE d == [NoReset EXCEPT !.status = "cancelled", !.cancel = "fence", !.prev = till.archive[r]]
    <2>5. d \in ResetType
        BY <2>1, NoResetTyped
    <2>6. reset' = [reset EXCEPT ![r] = d] \/ reset' = reset
        BY <1>2 DEF Abandon
    <2> HIDE DEF d
    <2>2. reset' \in [Requests -> ResetType]
        BY <2>5, <2>6
    <2>3. till.released \cup {r} \in SUBSET Requests
        OBVIOUS
    <2>4. till' \in [cred : Credentials, archive : [Requests -> 0..MaxVersion], released : SUBSET Requests]
        BY <1>2, <2>3 DEF Abandon
    <2> QED
        BY <1>2, <2>2, <2>4 DEF Abandon
<1>3. ASSUME NEW r \in Requests, Authorize(r) PROVE TypeOK'
    BY <1>3, Reissued, SaveTyped DEF Authorize
<1>4. ASSUME NEW r \in Requests, Complete(r) PROVE TypeOK'
    BY <1>4, Written, SaveTyped DEF Complete, Statuses
<1>5. ASSUME NEW r \in Requests, NEW recovery \in BOOLEAN, Register(r, recovery) PROVE TypeOK'
    BY <1>5, NoResetTyped, MakeRoomTyped DEF Register
<1>6. ASSUME NEW r \in Requests, NEW g \in 1..MaxGen, NEW k \in Keys, RedeemFirst(r, g, k)
      PROVE  TypeOK'
    <2>1. ~Rotated(r)
        BY <1>6 DEF RedeemFirst, Rotated
    <2>2. device.cred + 1 \in Credentials
        BY <2>1, CredentialLeft
    <2>3. device.version + 1 \in 1..MaxVersion + 1 /\ device.version + 1 \in 0..MaxVersion + 1
        BY <1>6, BoundsAssumption DEF RedeemFirst, VersionExpected, ResetType
    <2>4. reset' \in [Requests -> ResetType]
        BY <1>6, <2>2, <2>3, Redeemed, SaveTyped DEF RedeemFirst
    <2> QED
        BY <1>6, <2>2, <2>3, <2>4 DEF RedeemFirst, Answer
<1>7. ASSUME NEW r \in Requests, NEW g \in 1..MaxGen, NEW k \in Keys, RedeemAgain(r, g, k)
      PROVE  TypeOK'
    <2>1. reset[r].issued \in Credentials
        BY <1>7 DEF RedeemAgain, SetupReadable
    <2>2. reset' \in [Requests -> ResetType]
        BY <1>7, Written, SaveTyped DEF RedeemAgain
    <2>3. till' \in [cred : Credentials, archive : [Requests -> 0..MaxVersion], released : SUBSET Requests]
        BY <1>7, <2>1 DEF RedeemAgain, Answer
    <2> QED
        BY <1>7, <2>2, <2>3 DEF RedeemAgain
<1>8. ASSUME NEW r \in Requests, NEW by \in {"device", "manager"}, Cancel(r, by) PROVE TypeOK'
    BY <1>8, Written, SaveTyped DEF Cancel
<1>9. ASSUME NEW r \in Requests, RequestLapses(r) \/ ApprovalLapses(r) \/ RecoveryLapses(r)
      PROVE  TypeOK'
    <2>1. /\ [reset[r] EXCEPT !.lapsed = TRUE] \in ResetType
          /\ [reset[r] EXCEPT !.late = TRUE] \in ResetType
        BY Written
    <2>2. \/ reset' = [reset EXCEPT ![r] = [reset[r] EXCEPT !.lapsed = TRUE]]
          \/ reset' = [reset EXCEPT ![r] = [reset[r] EXCEPT !.late = TRUE]]
        BY <1>9 DEF RequestLapses, ApprovalLapses, RecoveryLapses
    <2>3. reset' \in [Requests -> ResetType]
        BY <2>1, <2>2
    <2> QED
        BY <1>9, <2>3 DEF RequestLapses, ApprovalLapses, RecoveryLapses
<1>10. CASE OperationArrives
    BY <1>10 DEF OperationArrives
<1>11. ASSUME NEW c \in waiting, OperationRuns(c) PROVE TypeOK'
    BY <1>11 DEF OperationRuns, Open
<1>12. CASE JobLeavesWork \/ BackOfficeResolves
    BY <1>12 DEF JobLeavesWork, BackOfficeResolves
<1>13. CASE ProfileChanges
    BY <1>13, BoundsAssumption DEF ProfileChanges
<1>14. CASE OpenDeviceForm
    BY <1>14, BoundsAssumption DEF OpenDeviceForm
<1>15. CASE SaveDeviceForm
    BY <1>15, BoundsAssumption DEF SaveDeviceForm
<1>16. CASE UNCHANGED vars
    BY <1>16 DEF vars
<1> QED
    BY <1>1, <1>2, <1>3, <1>4, <1>5, <1>6, <1>7, <1>8, <1>9, <1>10, <1>11, <1>12, <1>13, <1>14,
       <1>15, <1>16 DEF Next, Redeem

-----------------------------------------------------------------------------
(* The invariant is preserved.                                             *)

\* A step that issues nothing leaves the credentials as they follow.
LEMMA NothingIssued ==
    ASSUME TypeOK, TypeOK', ResetInv, device'.cred = device.cred,
           \A s \in Requests : /\ reset'[s].issued = reset[s].issued
                               /\ Sound(reset'[s])
                               /\ reset'[s].status = "redeemed" => reset[s].status = "redeemed"
    PROVE  CredentialsFollow'
<1>1. \A s \in Requests : Rotated(s)' <=> Rotated(s)
    BY DEF ResetInv, Sound, Rotated
<1>2. Used' = Used
    BY <1>1 DEF Used
<1> QED
    BY <1>2 DEF ResetInv, CredentialsFollow

\* A step on one reset that issues nothing.
LEMMA OneResetMoves ==
    ASSUME TypeOK, TypeOK', ResetInv, NEW r \in Requests,
           \A s \in Requests \ {r} : reset'[s] = reset[s],
           reset'[r].issued = reset[r].issued, Sound(reset'[r]),
           reset'[r].status \in Active => reset[r].status \in Active,
           reset'[r].status = "redeemed" => reset[r].status = "redeemed",
           reset'[r].status = "authorized" => ~work.shift,
           reset[r].status = "cancelled" => reset'[r].status = "cancelled",
           device'.cred = device.cred, work' = work, missed' = missed,
           \A s \in till'.released : s \in till.released \/ (s = r /\ reset'[r].status = "cancelled")
    PROVE  ResetInv'
<1>1. \A s \in Requests : Sound(reset'[s])
    BY DEF ResetInv
<1>2. CredentialsFollow'
    BY <1>1, NothingIssued
<1>3. Open' \subseteq Open
    BY DEF Open
<1>4. OneOpen'
    BY <1>3 DEF ResetInv, OneOpen
<1>5. Quiet'
    BY DEF ResetInv, Quiet
<1>6. Dropped'
    BY DEF ResetInv, Dropped, TypeOK
<1> QED
    BY <1>1, <1>2, <1>4, <1>5, <1>6 DEF ResetInv

\* A step that no reset sees.
LEMMA ResetsStay ==
    ASSUME TypeOK, TypeOK', ResetInv, reset' = reset, device'.cred = device.cred,
           till'.released = till.released, missed' = missed, Quiet'
    PROVE  ResetInv'
<1>1. CredentialsFollow'
    BY NothingIssued DEF ResetInv
<1>2. Open' = Open
    BY DEF Open
<1> QED
    BY <1>1, <1>2 DEF ResetInv, OneOpen, Dropped

LEMMA RegisterStep ==
    ASSUME TypeOK, TypeOK', ResetInv, NEW r \in Requests, NEW recovery \in BOOLEAN,
           Register(r, recovery)
    PROVE  ResetInv'
<1> DEFINE d == [NoReset EXCEPT !.status = "requested", !.prev = till.archive[r]]
<1>1. till.archive[r] \in 0..MaxVersion
    BY DEF TypeOK
<1>2. d \in ResetType /\ MakeRoom(r, d) /\ reset[r].status = "none"
    BY <1>1, NoResetTyped DEF Register
<1>3. d.status = "requested" /\ d.issued = 0 /\ d.cancel = None
    BY DEF NoReset
<1> HIDE DEF d
<1>4. /\ reset'[r] = d
      /\ \A s \in Requests \ {r} :
            reset'[s] = IF s \in Open THEN [reset[s] EXCEPT !.status = "expired"] ELSE reset[s]
      /\ \A s \in Open : reset[s].status = "requested"
    BY <1>2, MakeRoomTyped
<1>5. Sound(reset'[r]) /\ reset'[r].issued = reset[r].issued
    BY <1>2, <1>3, <1>4 DEF ResetInv, Sound
<1>6. ASSUME NEW s \in Requests \ {r}, s \in Open
      PROVE  Sound(reset'[s]) /\ reset'[s].issued = reset[s].issued /\ reset'[s].status = "expired"
    <2>1. reset[s] \in ResetType /\ reset[s].status = "requested" /\ Sound(reset[s])
        BY <1>4, <1>6 DEF TypeOK, ResetInv
    <2> QED
        BY <1>4, <1>6, <2>1 DEF Sound, ResetType
<1>7. \A s \in Requests : /\ Sound(reset'[s]) /\ reset'[s].issued = reset[s].issued
                          /\ reset'[s].status = "redeemed" => reset[s].status = "redeemed"
    BY <1>3, <1>4, <1>5, <1>6 DEF ResetInv
<1>8. Open' \subseteq {r}
    BY <1>4, <1>6 DEF Open, Active
<1>9. device' = device /\ till' = till /\ work' = work /\ missed' = missed
    BY DEF Register
<1>10. CredentialsFollow'
    BY <1>7, <1>9, NothingIssued
<1>11. Quiet'
    BY <1>3, <1>4, <1>6, <1>9 DEF ResetInv, Quiet
<1>12. Dropped'
    BY <1>2, <1>4, <1>9 DEF ResetInv, Dropped, TypeOK
<1> QED
    BY <1>7, <1>8, <1>9, <1>10, <1>11, <1>12 DEF ResetInv, OneOpen

LEMMA RedeemStep ==
    ASSUME TypeOK, TypeOK', ResetInv, NEW r \in Requests, NEW g \in 1..MaxGen, NEW k \in Keys,
           RedeemFirst(r, g, k)
    PROVE  ResetInv'
<1>1. ~Rotated(r) /\ reset[r].status = "authorized" /\ r \in Open
    BY ActiveIs DEF RedeemFirst, Rotated, Open
<1>2. /\ device.cred + 1 \in Credentials /\ Cardinality(Used \cup {r}) = device.cred
      /\ device.cred \in Nat /\ device.version + 1 \in 0..MaxVersion + 1
    <2>1. device.version + 1 \in 0..MaxVersion + 1
        BY BoundsAssumption DEF RedeemFirst, VersionExpected, ResetType, TypeOK
    <2> QED
        BY <1>1, <2>1, CredentialLeft DEF ResetInv, TypeOK, Credentials
<1>3. /\ reset' = [reset EXCEPT ![r] =
                      [reset[r] EXCEPT !.status = "redeemed", !.new = device.version + 1,
                                       !.redeemedGen = g, !.key = k, !.issued = device.cred + 1]]
      /\ device' = [version |-> device.version + 1, cred |-> device.cred + 1]
      /\ ~work.shift /\ work' = work /\ missed' = missed /\ till'.released = till.released
    <2>1. till'.released = till.released
        BY DEF RedeemFirst, Answer, TypeOK
    <2> QED
        BY <2>1 DEF RedeemFirst, Save, WorkClear
<1>4. /\ reset'[r].status = "redeemed" /\ reset'[r].issued = device.cred + 1
      /\ reset'[r].cancel = reset[r].cancel
      /\ \A s \in Requests \ {r} : reset'[s] = reset[s]
    BY <1>3 DEF TypeOK, ResetType
<1>5. \A s \in Requests : Sound(reset'[s])
    <2>1. Sound(reset'[r])
        BY <1>1, <1>2, <1>4 DEF ResetInv, Sound
    <2> QED
        BY <1>4, <2>1 DEF ResetInv
<1>6. Used' = Used \cup {r}
    BY <1>4 DEF Used, Rotated
<1>7. \A s \in Requests \ {r} : reset[s].status # "redeemed"
    BY <1>1, ActiveIs DEF ResetInv, OneOpen, Open
<1>8. CredentialsFollow'
    <2>1. Cardinality(Used)' = device'.cred - 1
        BY <1>2, <1>3, <1>6
    <2>2. ASSUME NEW s \in Requests
          PROVE  /\ reset'[s].issued <= device'.cred
                 /\ reset'[s].status = "redeemed" => reset'[s].issued = device'.cred
        <3>1. reset[s].issued \in Nat /\ reset[s].issued <= device.cred
            BY DEF TypeOK, ResetType, Credentials, ResetInv, CredentialsFollow
        <3> QED
            BY <1>2, <1>3, <1>4, <1>7, <3>1
    <2> QED
        BY <1>3, <1>4, <2>1, <2>2 DEF CredentialsFollow
<1>9. Open' = Open
    BY <1>1, <1>4, ActiveIs DEF Open
<1>10. Dropped'
    BY <1>1, <1>3, <1>4 DEF ResetInv, Dropped, TypeOK
<1> QED
    BY <1>3, <1>5, <1>8, <1>9, <1>10 DEF ResetInv, OneOpen, Quiet

LEMMA InvStep == TypeOK /\ TypeOK' /\ ResetInv /\ [Next]_vars => ResetInv'
<1> SUFFICES ASSUME TypeOK, TypeOK', ResetInv, [Next]_vars PROVE ResetInv'
    OBVIOUS
<1>0. \A r \in Requests : reset[r] \in ResetType /\ Sound(reset[r])
    BY DEF TypeOK, ResetInv
<1>1. ASSUME NEW r \in Requests, Archive(r) PROVE ResetInv'
    BY <1>1, ResetsStay DEF Archive, ResetInv, Quiet, TypeOK
<1>2. ASSUME NEW r \in Requests, Abandon(r) PROVE ResetInv'
    <2>1. \A s \in till'.released : s \in till.released \/ s = r
        BY <1>2 DEF Abandon, TypeOK
    <2>2. CASE reset[r].cancel = "fence" /\ UNCHANGED reset
        <3>1. reset[r].status = "cancelled"
            BY <1>0, <2>2, BoundsAssumption DEF Sound
        <3> QED
            BY <1>0, <1>2, <2>1, <2>2, <3>1, OneResetMoves DEF Abandon
    <2>3. CASE /\ reset[r].status = "none"
               /\ reset' = [reset EXCEPT ![r] = [NoReset EXCEPT !.status = "cancelled",
                                                    !.cancel = "fence", !.prev = till.archive[r]]]
        <3>1. /\ reset'[r] = [NoReset EXCEPT !.status = "cancelled", !.cancel = "fence",
                                             !.prev = till.archive[r]]
              /\ \A s \in Requests \ {r} : reset'[s] = reset[s]
            BY <2>3 DEF TypeOK
        <3>2. reset'[r].status = "cancelled" /\ reset'[r].cancel = "fence" /\ reset'[r].issued = 0
            BY <3>1 DEF NoReset
        <3>3. Sound(reset'[r]) /\ reset[r].issued = 0
            BY <1>0, <2>3, <3>2, BoundsAssumption DEF Sound
        <3> QED
            BY <1>2, <2>1, <2>3, <3>1, <3>2, <3>3, OneResetMoves DEF Abandon, Active
    <2> QED
        BY <1>2, <2>2, <2>3 DEF Abandon
<1>3. ASSUME NEW r \in Requests, Authorize(r) PROVE ResetInv'
    <2> DEFINE d == [reset[r] EXCEPT !.status = IF @ = "requested" THEN "authorized" ELSE @,
                                     !.gen = @ + 1, !.lapsed = FALSE, !.bound = FALSE]
    <2>1. /\ d.status = IF reset[r].status = "requested" THEN "authorized" ELSE reset[r].status
          /\ d.issued = reset[r].issued /\ d.cancel = reset[r].cancel
        BY <1>0 DEF ResetType
    <2>2. /\ d \in ResetType /\ Save(r, d) /\ ~work.shift
          /\ reset[r].status \in {"requested", "authorized", "redeemed"}
        BY <1>0, <1>3, Reissued DEF Authorize, WorkClear
    <2> HIDE DEF d
    <2>3. reset'[r] = d /\ \A s \in Requests \ {r} : reset'[s] = reset[s]
        BY <2>2, SaveTyped
    <2>4. Sound(reset'[r])
        BY <1>0, <2>1, <2>2, <2>3 DEF Sound
    <2>5. device' = device /\ till' = till /\ work' = work /\ missed' = missed
        BY <1>3 DEF Authorize
    <2>6. reset[r].status \in Active /\ reset[r].status # "cancelled"
        BY <2>2, ActiveIs
    <2> QED
        BY <2>1, <2>2, <2>3, <2>4, <2>5, <2>6, OneResetMoves
<1>4. ASSUME NEW r \in Requests, Complete(r) PROVE ResetInv'
    <2> DEFINE d == [reset[r] EXCEPT !.status = "completed"]
    <2>1. d.status = "completed" /\ d.issued = reset[r].issued /\ d.cancel = reset[r].cancel
        BY <1>0 DEF ResetType
    <2>2. d \in ResetType /\ Save(r, d) /\ reset[r].status = "redeemed"
        BY <1>0, <1>4, Written DEF Complete, Statuses
    <2> HIDE DEF d
    <2>3. reset'[r] = d /\ \A s \in Requests \ {r} : reset'[s] = reset[s]
        BY <2>2, SaveTyped
    <2>4. Sound(reset'[r])
        BY <1>0, <2>1, <2>2, <2>3 DEF Sound
    <2>5. device' = device /\ till' = till /\ work' = work /\ missed' = missed
        BY <1>4 DEF Complete
    <2>6. reset[r].status \in Active /\ reset[r].status # "cancelled"
        BY <2>2, ActiveIs
    <2> QED
        BY <2>1, <2>2, <2>3, <2>4, <2>5, <2>6, OneResetMoves
<1>5. ASSUME NEW r \in Requests, NEW recovery \in BOOLEAN, Register(r, recovery) PROVE ResetInv'
    BY <1>5, RegisterStep
<1>6. ASSUME NEW r \in Requests, NEW g \in 1..MaxGen, NEW k \in Keys, RedeemFirst(r, g, k)
      PROVE  ResetInv'
    BY <1>6, RedeemStep
<1>7. ASSUME NEW r \in Requests, NEW g \in 1..MaxGen, NEW k \in Keys, RedeemAgain(r, g, k)
      PROVE  ResetInv'
    <2>1. /\ till'.released = till.released
          /\ reset[r].status = "redeemed" /\ device' = device /\ work' = work /\ missed' = missed
        BY <1>7 DEF RedeemAgain, Answer, TypeOK
    <2>2. CASE UNCHANGED reset
        BY <2>1, <2>2, ResetsStay DEF ResetInv, Quiet
    <2>3. CASE Save(r, [reset[r] EXCEPT !.bound = TRUE])
        <3> DEFINE d == [reset[r] EXCEPT !.bound = TRUE]
        <3>0. reset[r] \in ResetType
            BY <1>0
        <3>1. d \in ResetType /\ d.status = reset[r].status /\ d.issued = reset[r].issued
              /\ d.cancel = reset[r].cancel
            BY <3>0, Written DEF ResetType
        <3>2. Save(r, d)
            BY <2>3
        <3> HIDE DEF d
        <3>3. reset'[r] = d /\ \A s \in Requests \ {r} : reset'[s] = reset[s]
            BY <3>1, <3>2, SaveTyped
        <3>4. Sound(reset'[r])
            BY <1>0, <3>1, <3>3 DEF Sound
        <3> QED
            BY <2>1, <3>1, <3>3, <3>4, ActiveIs, OneResetMoves
    <2> QED
        BY <1>7, <2>2, <2>3 DEF RedeemAgain
<1>8. ASSUME NEW r \in Requests, NEW by \in {"device", "manager"}, Cancel(r, by) PROVE ResetInv'
    <2> DEFINE d == [reset[r] EXCEPT !.status = "cancelled", !.cancel = by]
    <2>1. d.status = "cancelled" /\ d.issued = reset[r].issued /\ d.cancel = by
        BY <1>0 DEF ResetType
    <2>2. d \in ResetType /\ Save(r, d) /\ reset[r].status \in {"requested", "authorized"}
        BY <1>0, <1>8, Written DEF Cancel
    <2> HIDE DEF d
    <2>3. reset'[r] = d /\ \A s \in Requests \ {r} : reset'[s] = reset[s]
        BY <2>2, SaveTyped
    <2>4. Sound(reset'[r])
        BY <1>0, <2>1, <2>2, <2>3, BoundsAssumption DEF Sound
    <2> QED
        BY <1>8, <2>1, <2>2, <2>3, <2>4, OneResetMoves DEF Cancel, Active, Statuses
<1>9. ASSUME NEW r \in Requests, RequestLapses(r) \/ ApprovalLapses(r) \/ RecoveryLapses(r)
      PROVE  ResetInv'
    <2>1. \/ reset' = [reset EXCEPT ![r] = [reset[r] EXCEPT !.lapsed = TRUE]]
          \/ reset' = [reset EXCEPT ![r] = [reset[r] EXCEPT !.late = TRUE]]
        BY <1>9 DEF RequestLapses, ApprovalLapses, RecoveryLapses
    <2>2. /\ reset'[r].status = reset[r].status /\ reset'[r].issued = reset[r].issued
          /\ reset'[r].cancel = reset[r].cancel
          /\ \A s \in Requests \ {r} : reset'[s] = reset[s]
        BY <1>0, <2>1 DEF ResetType, TypeOK
    <2>3. device' = device /\ till' = till /\ work' = work /\ missed' = missed
        BY <1>9 DEF RequestLapses, ApprovalLapses, RecoveryLapses
    <2>4. Sound(reset'[r])
        BY <1>0, <2>2 DEF Sound
    <2>5. reset'[r].status = "authorized" => ~work.shift
        BY <2>2 DEF ResetInv, Quiet
    <2> QED
        BY <2>2, <2>3, <2>4, <2>5, OneResetMoves
<1>10. CASE OperationArrives
    BY <1>10, ResetsStay DEF OperationArrives, ResetInv, Quiet
<1>11. ASSUME NEW c \in waiting, OperationRuns(c) PROVE ResetInv'
    <2>1. reset' = reset /\ device' = device /\ till' = till
        BY <1>11 DEF OperationRuns
    <2>2. CASE ~OperationAllowed(c)
        BY <1>11, <2>1, <2>2, ResetsStay DEF OperationRuns, ResetInv, Quiet
    <2>3. CASE OperationAllowed(c)
        <3>1. Open = {} /\ c = device.cred
            BY <2>3 DEF OperationAllowed
        <3>2. \A r \in Requests : ~(c < reset[r].issued)
            BY <1>0, <3>1 DEF ResetInv, CredentialsFollow, TypeOK, Credentials, ResetType
        <3>3. missed' = missed
            BY <1>11, <2>3, <3>1, <3>2 DEF OperationRuns
        <3>4. Quiet'
            BY <2>1, <3>1 DEF Quiet, Open, Active, Statuses
        <3> QED
            BY <2>1, <3>3, <3>4, ResetsStay
    <2> QED
        BY <2>2, <2>3
<1>12. CASE JobLeavesWork \/ BackOfficeResolves
    BY <1>12, ResetsStay DEF JobLeavesWork, BackOfficeResolves, ResetInv, Quiet, TypeOK
<1>13. CASE ProfileChanges
    BY <1>13, ResetsStay DEF ProfileChanges, ResetInv, Quiet, TypeOK
<1>14. CASE OpenDeviceForm
    BY <1>14, ResetsStay DEF OpenDeviceForm, ResetInv, Quiet
<1>15. CASE SaveDeviceForm
    BY <1>15, ResetsStay DEF SaveDeviceForm, ResetInv, Quiet, TypeOK
<1>16. CASE UNCHANGED vars
    BY <1>16, ResetsStay DEF vars, ResetInv, Quiet
<1> QED
    BY <1>1, <1>2, <1>3, <1>4, <1>5, <1>6, <1>7, <1>8, <1>9, <1>10, <1>11, <1>12, <1>13, <1>14,
       <1>15, <1>16 DEF Next, Redeem

(* The invariant holds throughout. *)
THEOREM SafeResetInvariant == Spec => [](TypeOK /\ ResetInv)
<1>1. TypeOK /\ ResetInv /\ [Next]_vars => TypeOK' /\ ResetInv'
    BY TypeStep, InvStep DEF ResetInv
<1> QED
    BY <1>1, InitOK, PTL DEF Spec

(* At most one reset of a till is open, and from its approval until it       *)
(* completes the till has no open shift: every registration expires what is  *)
(* open or is refused, and no operation runs while a reset is open.          *)
THEOREM OneResetIsOpen == Spec => []OneOpenReset
<1>1. TypeOK /\ ResetInv => OneOpenReset
    <2> SUFFICES ASSUME TypeOK, ResetInv PROVE Cardinality(Open) <= 1
        BY DEF OneOpenReset, ResetInv, Quiet
    <2>1. CASE Open = {}
        BY <2>1, FS_EmptySet
    <2>2. ASSUME NEW r \in Open PROVE Cardinality(Open) <= 1
        <3>1. Open = {r}
            BY <2>2 DEF ResetInv, OneOpen
        <3>2. Cardinality({r}) = 1
            BY FS_Singleton
        <3> QED
            BY <3>1, <3>2
    <2> QED
        BY <2>1, <2>2
<1> QED
    BY <1>1, SafeResetInvariant, PTL

(* A request that the till was allowed to drop never becomes a reset, however *)
(* late a copy of it or a support registration arrives.                       *)
THEOREM DroppedRequestsStayDropped == Spec => []ReleasedStaysReleased
<1>1. TypeOK /\ ResetInv => ReleasedStaysReleased
    BY DEF TypeOK, ResetInv, Dropped, Sound, ReleasedStaysReleased
<1> QED
    BY <1>1, SafeResetInvariant, PTL

(* The credentials that a redemption issued stay in force until another      *)
(* reset is redeemed, and that happens only after this one has completed.    *)
THEOREM IssuedCredentialsHold == Spec => []IssuedIsInForce
<1>1. TypeOK /\ ResetInv => IssuedIsInForce
    <2> SUFFICES ASSUME TypeOK, ResetInv, NEW r \in Requests, Rotated(r), device.cred # reset[r].issued
                 PROVE  \E s \in Requests : /\ reset[s].issued > reset[r].issued
                                            /\ reset[r].status = "completed"
        BY DEF IssuedIsInForce
    <2>1. reset[r].issued \in Nat \ {0} /\ device.cred \in Nat /\ reset[r].issued <= device.cred
        BY DEF TypeOK, ResetType, Credentials, ResetInv, Sound, Rotated, CredentialsFollow
    <2>2. PICK s \in Requests : reset[s].issued = device.cred
        BY <2>1 DEF ResetInv, CredentialsFollow
    <2>3. reset[r].status = "completed"
        BY DEF ResetInv, CredentialsFollow, Rotated
    <2> QED
        BY <2>1, <2>2, <2>3
<1> QED
    BY <1>1, SafeResetInvariant, PTL

(* The archive of a reset is complete: nothing the till sent is accepted     *)
(* while the reset is open, and nothing that was authenticated with the old  *)
(* credential once it is redeemed.                                           *)
THEOREM ArchivesAreComplete == Spec => []ArchiveIsComplete
<1>1. ResetInv => ArchiveIsComplete
    BY DEF ResetInv, ArchiveIsComplete
<1> QED
    BY <1>1, SafeResetInvariant, PTL

-----------------------------------------------------------------------------
(* The refinement.                                                         *)

LEMMA GrantStates ==
    /\ GrantState = [r \in Requests |-> GrantState[r]]
    /\ \A r \in Requests :
          /\ reset[r].status = "none" => GrantState[r] = "unknown"
          /\ reset[r].status \in {"requested", "authorized"} => GrantState[r] = "offered"
          /\ reset[r].status \in {"redeemed", "completed"} => GrantState[r] = "used"
          /\ reset[r].status \in {"cancelled", "expired"} => GrantState[r] = "withdrawn"
BY DEF GrantState, Rotated

\* Two functions of the requests that differ in one or in two.
LEMMA DifferInOne ==
    ASSUME NEW F, NEW H, NEW r \in Requests, NEW v,
           F = [s \in Requests |-> F[s]], H = [s \in Requests |-> H[s]],
           H[r] = v, \A s \in Requests \ {r} : H[s] = F[s]
    PROVE  H = [F EXCEPT ![r] = v]
OBVIOUS

LEMMA DifferInTwo ==
    ASSUME NEW F, NEW H, NEW r \in Requests, NEW q \in Requests, r # q, NEW v, NEW w,
           F = [s \in Requests |-> F[s]], H = [s \in Requests |-> H[s]],
           H[r] = v, H[q] = w, \A s \in Requests \ {r, q} : H[s] = F[s]
    PROVE  H = [F EXCEPT ![r] = v, ![q] = w]
OBVIOUS

\* A step that changes the stage of no grant, and the credential neither.
LEMMA GrantStutters ==
    ASSUME device'.cred = device.cred, \A s \in Requests : GrantState'[s] = GrantState[s]
    PROVE  UNCHANGED Grant!vars
<1>1. GrantState = [s \in Requests |-> GrantState[s]] /\ GrantState' = [s \in Requests |-> GrantState'[s]]
    BY DEF GrantState
<1>2. GrantState' = GrantState
    BY <1>1
<1> QED
    BY <1>2 DEF Grant!vars

\* A step that moves one grant.
LEMMA GrantMoves ==
    ASSUME NEW r \in Requests, NEW v, GrantState'[r] = v,
           \A s \in Requests \ {r} : reset'[s] = reset[s]
    PROVE  GrantState' = [GrantState EXCEPT ![r] = v]
<1>1. GrantState = [s \in Requests |-> GrantState[s]] /\ GrantState' = [s \in Requests |-> GrantState'[s]]
    BY DEF GrantState
<1>2. \A s \in Requests \ {r} : GrantState'[s] = GrantState[s]
    BY DEF GrantState, Rotated
<1> QED
    BY <1>1, <1>2, DifferInOne

\* A registration offers its request, in the place of an expired one if any.
LEMMA RegisterOffers ==
    ASSUME TypeOK, ResetInv, NEW r \in Requests, NEW recovery \in BOOLEAN, Register(r, recovery)
    PROVE  Grant!Next
<1> DEFINE d == [NoReset EXCEPT !.status = "requested", !.prev = till.archive[r]]
<1>1. till.archive[r] \in 0..MaxVersion
    BY DEF TypeOK
<1>2. d \in ResetType /\ MakeRoom(r, d) /\ reset[r].status = "none" /\ device' = device
    BY <1>1, NoResetTyped DEF Register
<1>3. d.status = "requested"
    BY DEF NoReset
<1> HIDE DEF d
<1>4. /\ reset'[r] = d
      /\ \A s \in Requests \ {r} :
            reset'[s] = IF s \in Open THEN [reset[s] EXCEPT !.status = "expired"] ELSE reset[s]
      /\ \A s \in Open : reset[s].status = "requested"
      /\ r \notin Open
    BY <1>2, MakeRoomTyped
<1>5. GrantState[r] = "unknown" /\ GrantState'[r] = "offered"
    <2>1. reset'[r].status = "requested"
        BY <1>3, <1>4
    <2> QED
        BY <1>2, <2>1 DEF GrantState, Rotated
<1>6. CASE Open = {}
    <2>1. GrantState' = [GrantState EXCEPT ![r] = "offered"]
        BY <1>4, <1>5, <1>6, GrantMoves
    <2> QED
        BY <1>2, <1>5, <2>1 DEF Grant!Next, Grant!Offer
<1>7. ASSUME NEW q \in Open PROVE Grant!Next
    <2>1. q \in Requests /\ q # r /\ \A s \in Requests \ {q} : s \notin Open
        BY <1>4, <1>7 DEF ResetInv, OneOpen, Open
    <2>0. reset[q] \in ResetType /\ reset'[q] = [reset[q] EXCEPT !.status = "expired"]
        BY <1>4, <1>7, <2>1 DEF TypeOK
    <2>2. reset'[q].status = "expired" /\ reset[q].status = "requested"
        BY <1>4, <1>7, <2>0 DEF ResetType
    <2>3. \A s \in Requests \ {r, q} : reset'[s] = reset[s]
        BY <1>4, <2>1
    <2>4. \A s \in Requests \ {r, q} : GrantState'[s] = GrantState[s]
        BY <2>3 DEF GrantState, Rotated
    <2>5. GrantState[q] = "offered" /\ GrantState'[q] = "withdrawn"
        BY <2>1, <2>2 DEF GrantState, Rotated
    <2>6. /\ GrantState = [s \in Requests |-> GrantState[s]]
          /\ GrantState' = [s \in Requests |-> GrantState'[s]]
        BY DEF GrantState
    <2>7. GrantState' = [GrantState EXCEPT ![r] = "offered", ![q] = "withdrawn"]
        BY <1>5, <2>1, <2>4, <2>5, <2>6, DifferInTwo
    <2> QED
        BY <1>2, <1>5, <2>1, <2>5, <2>7 DEF Grant!Next, Grant!Supersede
<1> QED
    BY <1>6, <1>7

\* A step that saves one reset and redeems none: the grant stays as it is or
\* is withdrawn.
LEMMA SavedStage ==
    ASSUME TypeOK, NEW r \in Requests, NEW d \in ResetType, Save(r, d), device'.cred = device.cred,
           reset[r].status \in {"requested", "authorized", "redeemed"},
           d.status = "redeemed" => reset[r].status = "redeemed"
    PROVE  [Grant!Next]_(Grant!vars)
<1>1. /\ reset'[r] = d /\ d.status \in Transitions[reset[r].status]
      /\ \A s \in Requests \ {r} : reset'[s] = reset[s]
    BY SaveTyped
<1>2. \A s \in Requests \ {r} : GrantState'[s] = GrantState[s]
    BY <1>1 DEF GrantState, Rotated
<1>3. CASE reset[r].status \in {"requested", "authorized"} /\ d.status \in {"cancelled", "expired"}
    <2>1. GrantState[r] = "offered" /\ GrantState'[r] = "withdrawn"
        BY <1>1, <1>3 DEF GrantState, Rotated
    <2>2. GrantState' = [GrantState EXCEPT ![r] = "withdrawn"]
        BY <1>1, <2>1, GrantMoves
    <2> QED
        BY <2>1, <2>2 DEF Grant!Next, Grant!Withdraw
<1>4. CASE /\ reset[r].status \in {"requested", "authorized"}
           /\ d.status \in {"requested", "authorized"}
    <2>1. GrantState[r] = "offered" /\ GrantState'[r] = "offered"
        BY <1>1, <1>4 DEF GrantState, Rotated
    <2> QED
        BY <1>2, <2>1, GrantStutters
<1>5. CASE reset[r].status = "redeemed" /\ d.status \in {"redeemed", "completed"}
    <2>1. GrantState[r] = "used" /\ GrantState'[r] = "used"
        BY <1>1, <1>5 DEF GrantState, Rotated
    <2> QED
        BY <1>2, <2>1, GrantStutters
<1>6. /\ reset[r].status = "redeemed" => d.status \in {"redeemed", "completed"}
      /\ reset[r].status \in {"requested", "authorized"} =>
            d.status \in {"requested", "authorized", "cancelled", "expired"}
    BY <1>1 DEF Transitions
<1> QED
    BY <1>3, <1>4, <1>5, <1>6

\* A step that leaves the status of every reset, and the credential.
LEMMA StatusesStay ==
    ASSUME device'.cred = device.cred, \A s \in Requests : reset'[s].status = reset[s].status
    PROVE  [Grant!Next]_(Grant!vars)
<1>1. \A s \in Requests : GrantState'[s] = GrantState[s]
    BY DEF GrantState, Rotated
<1> QED
    BY <1>1, GrantStutters

LEMMA RedeemUses ==
    ASSUME TypeOK, NEW r \in Requests, NEW g \in 1..MaxGen, NEW k \in Keys, RedeemFirst(r, g, k)
    PROVE  Grant!Next
<1>1. /\ reset' = [reset EXCEPT ![r] =
                      [reset[r] EXCEPT !.status = "redeemed", !.new = device.version + 1,
                                       !.redeemedGen = g, !.key = k, !.issued = device.cred + 1]]
      /\ device' = [version |-> device.version + 1, cred |-> device.cred + 1]
      /\ reset[r].status = "authorized"
    BY DEF RedeemFirst, Save
<1>2. reset'[r].status = "redeemed" /\ \A s \in Requests \ {r} : reset'[s] = reset[s]
    BY <1>1 DEF TypeOK, ResetType
<1>3. GrantState[r] = "offered" /\ GrantState'[r] = "used"
    BY <1>1, <1>2 DEF GrantState, Rotated
<1>4. GrantState' = [GrantState EXCEPT ![r] = "used"]
    BY <1>2, <1>3, GrantMoves
<1>5. device'.cred - 1 = (device.cred - 1) + 1
    BY <1>1 DEF TypeOK, Credentials
<1> QED
    BY <1>3, <1>4, <1>5 DEF Grant!Next, Grant!Use

(* The safe reset implements the one-shot grant: every step offers a request, *)
(* puts it in the place of one that has expired, withdraws one, redeems one   *)
(* and rotates the credential with it, or is no step of the grant's.          *)
THEOREM ResetsAreOneShot == Spec => ResetIsOneShot
<1>1. Init => Grant!Init
    <2> SUFFICES ASSUME Init PROVE Grant!Init
        OBVIOUS
    <2>1. \A r \in Requests : reset[r].status = "none"
        BY DEF Init, NoReset
    <2>2. GrantState = [r \in Requests |-> "unknown"]
        <3>1. \A r \in Requests : GrantState[r] = "unknown"
            BY <2>1, GrantStates
        <3>2. GrantState = [r \in Requests |-> GrantState[r]]
            BY GrantStates
        <3> QED
            BY <3>1, <3>2
    <2>3. device.cred - 1 = 0
        BY DEF Init
    <2> QED
        BY <2>2, <2>3 DEF Grant!Init
<1>2. TypeOK /\ ResetInv /\ [Next]_vars => [Grant!Next]_(Grant!vars)
    <2> SUFFICES ASSUME TypeOK, ResetInv, [Next]_vars PROVE [Grant!Next]_(Grant!vars)
        OBVIOUS
    <2>0. \A r \in Requests : reset[r] \in ResetType
        BY DEF TypeOK
    <2>1. ASSUME NEW r \in Requests, Abandon(r) PROVE [Grant!Next]_(Grant!vars)
        <3>1. CASE UNCHANGED reset
            BY <2>1, <3>1, StatusesStay DEF Abandon
        <3>2. CASE /\ reset[r].status = "none"
                   /\ reset' = [reset EXCEPT ![r] = [NoReset EXCEPT !.status = "cancelled",
                                                        !.cancel = "fence", !.prev = till.archive[r]]]
            <4>1. reset'[r].status = "cancelled" /\ \A s \in Requests \ {r} : reset'[s] = reset[s]
                BY <3>2 DEF TypeOK, NoReset
            <4>2. GrantState[r] = "unknown" /\ GrantState'[r] = "withdrawn"
                BY <3>2, <4>1 DEF GrantState, Rotated
            <4>3. GrantState' = [GrantState EXCEPT ![r] = "withdrawn"]
                BY <4>1, <4>2, GrantMoves
            <4> QED
                BY <2>1, <4>2, <4>3 DEF Abandon, Grant!Next, Grant!Withdraw
        <3> QED
            BY <2>1, <3>1, <3>2 DEF Abandon
    <2>2. ASSUME NEW r \in Requests, Authorize(r) PROVE [Grant!Next]_(Grant!vars)
        <3> DEFINE d == [reset[r] EXCEPT !.status = IF @ = "requested" THEN "authorized" ELSE @,
                                         !.gen = @ + 1, !.lapsed = FALSE, !.bound = FALSE]
        <3>1. /\ d \in ResetType /\ Save(r, d) /\ device' = device
              /\ reset[r].status \in {"requested", "authorized", "redeemed"}
            BY <2>0, <2>2, Reissued DEF Authorize
        <3>2. d.status = IF reset[r].status = "requested" THEN "authorized" ELSE reset[r].status
            BY <2>0 DEF ResetType
        <3> HIDE DEF d
        <3> QED
            BY <3>1, <3>2, SavedStage
    <2>3. ASSUME NEW r \in Requests, Complete(r) PROVE [Grant!Next]_(Grant!vars)
        BY <2>0, <2>3, Written, SavedStage DEF Complete, Statuses
    <2>4. ASSUME NEW r \in Requests, NEW by \in {"device", "manager"}, Cancel(r, by)
          PROVE  [Grant!Next]_(Grant!vars)
        <3> DEFINE d == [reset[r] EXCEPT !.status = "cancelled", !.cancel = by]
        <3>1. /\ d \in ResetType /\ Save(r, d) /\ device' = device
              /\ reset[r].status \in {"requested", "authorized"}
            BY <2>0, <2>4, Written DEF Cancel
        <3>2. d.status = "cancelled"
            BY <2>0 DEF ResetType
        <3> HIDE DEF d
        <3> QED
            BY <3>1, <3>2, SavedStage
    <2>5. ASSUME NEW r \in Requests, NEW g \in 1..MaxGen, NEW k \in Keys, RedeemAgain(r, g, k)
          PROVE  [Grant!Next]_(Grant!vars)
        <3> DEFINE d == [reset[r] EXCEPT !.bound = TRUE]
        <3>0. reset[r] \in ResetType
            BY <2>0
        <3>1. d \in ResetType /\ d.status = reset[r].status
            BY <3>0, Written DEF ResetType
        <3>2. UNCHANGED reset \/ Save(r, d)
            BY <2>5 DEF RedeemAgain
        <3>3. device' = device /\ reset[r].status = "redeemed"
            BY <2>5 DEF RedeemAgain
        <3> HIDE DEF d
        <3> QED
            BY <3>1, <3>2, <3>3, SavedStage, StatusesStay
    <2>6. ASSUME NEW r \in Requests, RequestLapses(r) \/ ApprovalLapses(r) \/ RecoveryLapses(r)
          PROVE  [Grant!Next]_(Grant!vars)
        <3>1. \/ reset' = [reset EXCEPT ![r] = [reset[r] EXCEPT !.lapsed = TRUE]]
              \/ reset' = [reset EXCEPT ![r] = [reset[r] EXCEPT !.late = TRUE]]
            BY <2>6 DEF RequestLapses, ApprovalLapses, RecoveryLapses
        <3>2. \A s \in Requests : reset'[s].status = reset[s].status
            BY <2>0, <3>1 DEF ResetType, TypeOK
        <3> QED
            BY <2>6, <3>2, StatusesStay DEF RequestLapses, ApprovalLapses, RecoveryLapses
    <2>7. CASE UNCHANGED <<device, reset>>
        BY <2>7, StatusesStay
    <2>8. CASE ProfileChanges \/ SaveDeviceForm
        BY <2>8, StatusesStay DEF ProfileChanges, SaveDeviceForm, TypeOK
    <2>9. CASE UNCHANGED vars
        BY <2>7, <2>9 DEF vars
    <2> QED
        BY <2>1, <2>2, <2>3, <2>4, <2>5, <2>6, <2>7, <2>8, <2>9, RegisterOffers, RedeemUses
           DEF Next, Redeem, Archive, OperationArrives, OperationRuns, JobLeavesWork,
               BackOfficeResolves, OpenDeviceForm
<1> QED
    BY <1>1, <1>2, SafeResetInvariant, PTL DEF Spec, ResetIsOneShot, Grant!Spec

-----------------------------------------------------------------------------
-----------------------------------------------------------------------------
(* Rows and requests keep their types when their fields are written. *)

LEMMA ObsWritten ==
    ASSUME NEW o \in ObsType
    PROVE  /\ [o EXCEPT !.status = "Conflict"] \in ObsType
           /\ [o EXCEPT !.doc = "draft", !.director = TRUE] \in ObsType
           /\ \A c \in Commands, d \in {"none", "submitted"} :
                 [o EXCEPT !.status = "Accepted", !.command = c, !.doc = d] \in ObsType
BY DEF ObsType

LEMMA TaskWritten ==
    ASSUME NEW t \in TaskType,
           NEW s \in {"Assigned", "Claimed", "Submitted", "Review", "Reviewed"}
    PROVE  [t EXCEPT !.status = s] \in TaskType
BY DEF TaskType

(* A request in flight is a typed record; an idle one is not. *)
LEMMA InFlight ==
    ASSUME CountTypeOK, NEW w \in Workers, request[w] # Idle
    PROVE  /\ request[w] \in RequestType
           /\ request[w].task \in Tasks /\ request[w].command \in Commands
           /\ request[w].token \in Tokens /\ request[w].mark \in Nat
           /\ request[w].obs \in ObsType
BY DEF CountTypeOK, RequestType

LEMMA ConflictedTyped ==
    ASSUME CountTypeOK, NEW t \in Tasks, Conflicted(t)
    PROVE  /\ obs' \in [Tasks -> ObsType] /\ task' \in [Tasks -> TaskType]
           /\ problem' \subseteq Tasks
BY ObsWritten, TaskWritten DEF CountTypeOK, Conflicted

LEMMA TypeOKInit == CountInit => CountTypeOK
<1>1. NoTask \in TaskType
    BY CountAssumption DEF NoTask, TaskType
<1>2. NoObs \in ObsType
    BY DEF NoObs, ObsType, Differences
<1>3. 1 \in 1 .. MaxDays + 1
    BY CountAssumption
<1> QED
    BY <1>1, <1>2, <1>3 DEF CountInit, CountTypeOK

LEMMA TypeOKStep == CountTypeOK /\ [CountNext]_countVars => CountTypeOK'
<1> SUFFICES ASSUME CountTypeOK, [CountNext]_countVars PROVE CountTypeOK'
    OBVIOUS
<1> USE DEF CountTypeOK
<1>1. CASE Move
    BY <1>1 DEF Move, StockOnly
<1>2. CASE NextDay
    BY <1>2, CountAssumption DEF NextDay, StockOnly
<1>3. ASSUME NEW t \in Tasks, ScheduleGroup(t) PROVE CountTypeOK'
    <2>1. [status |-> "Assigned", mark |-> mark, day |-> day] \in TaskType
        BY CountAssumption DEF TaskType
    <2> QED
        BY <1>3, <2>1 DEF ScheduleGroup
<1>4. ASSUME NEW t \in Tasks, ResolveProblem(t) PROVE CountTypeOK'
    BY <1>4 DEF ResolveProblem
<1>5. ASSUME NEW t \in Tasks, ClaimCountTask(t) PROVE CountTypeOK'
    BY <1>5, TaskWritten DEF ClaimCountTask
<1>6. ASSUME NEW t \in Tasks, NEW diff \in Differences, SubmitCountObservation(t, diff)
      PROVE CountTypeOK'
    <2>1. obs'[t] \in ObsType /\ obs' = [obs EXCEPT ![t] = obs'[t]]
        BY <1>6 DEF SubmitCountObservation, ObsType
    <2>2. /\ task' \in [Tasks -> TaskType]
          /\ problem' \subseteq Tasks
        BY <1>6, TaskWritten DEF SubmitCountObservation
    <2> QED
        BY <1>6, <2>1, <2>2 DEF SubmitCountObservation
<1>7. ASSUME NEW t \in Tasks, ReviewByDirector(t) PROVE CountTypeOK'
    <2>1. CASE Conflicted(t)
        BY <1>7, <2>1, ConflictedTyped DEF ReviewByDirector
    <2>2. CASE ~Conflicted(t)
        <3>1. /\ obs' = [obs EXCEPT ![t] = [@ EXCEPT !.doc = "draft", !.director = TRUE]]
              /\ task' = [task EXCEPT ![t].status = "Review"]
              /\ problem' = problem \ {t}
            BY <1>7, <2>2, Zenon DEF ReviewByDirector
        <3>2. /\ obs' \in [Tasks -> ObsType]
              /\ task' \in [Tasks -> TaskType]
              /\ problem' \subseteq Tasks
            BY <3>1, ObsWritten, TaskWritten
        <3> QED
            BY <1>7, <3>2 DEF ReviewByDirector
    <2> QED
        BY <2>1, <2>2
<1>8. ASSUME NEW k \in Tokens, NEW t \in Tasks, Approve(k, t) PROVE CountTypeOK'
    BY <1>8 DEF Approve
<1>9. ASSUME NEW w \in Workers, NEW t \in Tasks, NEW c \in Commands, NEW k \in Tokens,
             BeginConfirmation(w, t, c, k)
      PROVE CountTypeOK'
    <2>1. [task |-> t, command |-> c, token |-> k, mark |-> mark, obs |-> obs[t],
           taken |-> \E u \in Tasks \ {t} : obs[u].command = c] \in RequestType
        BY DEF RequestType
    <2> QED
        BY <1>9, <2>1 DEF BeginConfirmation
<1>10. ASSUME NEW w \in Workers, RefuseMoved(w) PROVE CountTypeOK'
    BY <1>10, InFlight, ConflictedTyped DEF RefuseMoved
<1>11. ASSUME NEW w \in Workers, ConfirmCount(w) PROVE CountTypeOK'
    <2>1. request[w] # Idle
        BY <1>11 DEF ConfirmCount
    <2>2. obs' \in [Tasks -> ObsType] /\ task' \in [Tasks -> TaskType]
        BY <1>11, <2>1, InFlight, ObsWritten, TaskWritten DEF ConfirmCount
    <2>3. token' \in [Tokens -> [status : {"unknown", "issued", "consumed"},
                                 task : Tasks \cup {Null}]]
        BY <1>11, <2>1, InFlight DEF ConfirmCount
    <2> QED
        BY <1>11, <2>1, <2>2, <2>3, InFlight DEF ConfirmCount
<1>12. ASSUME NEW w \in Workers, EndConfirmation(w) PROVE CountTypeOK'
    BY <1>12 DEF EndConfirmation
<1>13. CASE UNCHANGED countVars
    BY <1>13 DEF countVars
<1> QED
    BY <1>1, <1>2, <1>3, <1>4, <1>5, <1>6, <1>7, <1>8, <1>9, <1>10, <1>11, <1>12, <1>13 DEF CountNext

(* Tasks, counts, approvals and requests stay in their types. *)
THEOREM CountsTyped == CountSpec => []CountTypeOK
<1> QED
    BY TypeOKInit, TypeOKStep, PTL DEF CountSpec

-----------------------------------------------------------------------------
(* The safety invariant.                                                     *)

\* What one task, its observation and the ledger say of each other.
Consistent(status, o, e) ==
    /\ e = IF o.doc = "submitted" THEN 1 ELSE 0
    /\ o.doc = "submitted" => o.diff # 0 /\ o.command # Null
    /\ o.status = "Accepted" => o.diff = 0 \/ o.doc = "submitted"
    /\ status = "Reviewed" <=> o.status = "Accepted"
    /\ o.diff > Ceiling /\ o.doc # "none" => o.director
    /\ o.diff = 0 \/ o.status = "none" => o.doc = "none"

\* A count that was sent keeps its difference: what a confirmation read of it,
\* however long ago, still holds.
SnapshotsHold ==
    \A w \in Workers :
        request[w] # Idle => /\ obs[request[w].task].status # "none"
                             /\ obs[request[w].task].diff = request[w].obs.diff

CountInv ==
    /\ \A t \in Tasks : Consistent(task[t].status, obs[t], entries[t])
    /\ SnapshotsHold

LEMMA CountInvInit == CountInit => CountInv
<1> SUFFICES ASSUME CountInit PROVE CountInv
    OBVIOUS
<1>1. \A t \in Tasks : Consistent(task[t].status, obs[t], entries[t])
    BY DEF CountInit, Consistent, NoTask, NoObs, Ceiling
<1>2. SnapshotsHold
    BY DEF CountInit, SnapshotsHold
<1> QED
    BY <1>1, <1>2 DEF CountInv

(* Actions that touch one count keep the rest, and snapshots only need its   *)
(* difference.                                                               *)
LEMMA OneCount ==
    ASSUME CountTypeOK, CountInv, NEW t \in Tasks,
           \A u \in Tasks \ {t} : /\ task'[u].status = task[u].status
                                  /\ obs'[u] = obs[u] /\ entries'[u] = entries[u],
           Consistent(task'[t].status, obs'[t], entries'[t]),
           obs[t].status # "none" => obs'[t].status # "none" /\ obs'[t].diff = obs[t].diff,
           \A w \in Workers : request'[w] = request[w] \/ request'[w] = Idle
    PROVE  CountInv'
<1>1. \A u \in Tasks : Consistent(task'[u].status, obs'[u], entries'[u])
    BY DEF CountInv
<1>2. ASSUME NEW w \in Workers, request'[w] # Idle
      PROVE  /\ obs'[request'[w].task].status # "none"
             /\ obs'[request'[w].task].diff = request'[w].obs.diff
    <2>1. request'[w] = request[w] /\ request[w] # Idle
        BY <1>2
    <2>2. request[w].task \in Tasks
        BY <2>1, InFlight
    <2> QED
        BY <2>1, <2>2 DEF CountInv, SnapshotsHold
<1> QED
    BY <1>1, <1>2 DEF CountInv, SnapshotsHold

(* A conflict keeps the document and its entry. *)
LEMMA ConflictKeeps ==
    ASSUME CountTypeOK, CountInv, NEW t \in Tasks, Conflicted(t), UNCHANGED entries,
           obs[t].status # "none",
           \A w \in Workers : request'[w] = request[w] \/ request'[w] = Idle
    PROVE  CountInv'
<1>1. /\ task'[t].status = "Review" /\ obs'[t] = [obs[t] EXCEPT !.status = "Conflict"]
      /\ \A u \in Tasks \ {t} : task'[u] = task[u] /\ obs'[u] = obs[u]
    BY DEF CountTypeOK, TaskType, Conflicted
<1>2. obs[t] \in ObsType /\ Consistent(task[t].status, obs[t], entries[t])
    BY DEF CountTypeOK, CountInv
<1>3. Consistent(task'[t].status, obs'[t], entries'[t])
    BY <1>1, <1>2 DEF Consistent, ObsType
<1>4. obs'[t].status # "none" /\ obs'[t].diff = obs[t].diff
    BY <1>1, <1>2 DEF ObsType
<1> QED
    BY <1>1, <1>3, <1>4, OneCount

LEMMA CountInvStep == CountTypeOK /\ CountInv /\ [CountNext]_countVars => CountInv'
<1> SUFFICES ASSUME CountTypeOK, CountInv, [CountNext]_countVars PROVE CountInv'
    OBVIOUS
<1>a. \A t \in Tasks : obs[t] \in ObsType /\ task[t] \in TaskType
    BY DEF CountTypeOK
<1>b. \A t \in Tasks : Consistent(task[t].status, obs[t], entries[t])
    BY DEF CountInv
<1>1. ASSUME UNCHANGED <<task, obs, entries, request>> PROVE CountInv'
    BY <1>1 DEF CountInv, SnapshotsHold
<1>2. CASE Move \/ NextDay
    BY <1>1, <1>2 DEF Move, NextDay, StockOnly
<1>3. ASSUME NEW t \in Tasks, ScheduleGroup(t) PROVE CountInv'
    <2>1. /\ task'[t].status = "Assigned" /\ obs'[t] = obs[t] /\ entries'[t] = entries[t]
          /\ \A u \in Tasks \ {t} : task'[u] = task[u] /\ obs'[u] = obs[u] /\ entries'[u] = entries[u]
        BY <1>3 DEF ScheduleGroup, CountTypeOK
    <2>2. Consistent(task'[t].status, obs'[t], entries'[t])
        BY <1>3, <1>b, <2>1 DEF ScheduleGroup, Consistent
    <2> QED
        BY <1>3, <2>1, <2>2, OneCount DEF ScheduleGroup
<1>4. ASSUME NEW t \in Tasks, ResolveProblem(t) PROVE CountInv'
    BY <1>1, <1>4 DEF ResolveProblem
<1>5. ASSUME NEW t \in Tasks, ClaimCountTask(t) PROVE CountInv'
    <2>1. /\ task'[t].status = "Claimed" /\ obs'[t] = obs[t] /\ entries'[t] = entries[t]
          /\ \A u \in Tasks \ {t} : task'[u] = task[u] /\ obs'[u] = obs[u] /\ entries'[u] = entries[u]
        BY <1>5, <1>a DEF ClaimCountTask, CountTypeOK, TaskType
    <2>2. Consistent(task'[t].status, obs'[t], entries'[t])
        BY <1>5, <1>b, <2>1 DEF ClaimCountTask, Consistent
    <2> QED
        BY <1>5, <2>1, <2>2, OneCount DEF ClaimCountTask
<1>6. ASSUME NEW t \in Tasks, NEW diff \in Differences, SubmitCountObservation(t, diff)
      PROVE CountInv'
    <2>1. /\ task'[t].status \in {"Review", "Submitted"}
          /\ obs'[t].status \in {"Conflict", "Review"} /\ obs'[t].diff = diff
          /\ obs'[t].doc \in {"none", "draft"}
          /\ obs'[t].doc = "draft" => diff # 0 /\ ~(diff > Ceiling)
          /\ entries'[t] = entries[t]
          /\ \A u \in Tasks \ {t} : task'[u] = task[u] /\ obs'[u] = obs[u] /\ entries'[u] = entries[u]
        BY <1>6, <1>a DEF SubmitCountObservation, CountTypeOK, TaskType
    <2>2. entries[t] = 0 /\ obs[t].status = "none"
        BY <1>6, <1>b DEF SubmitCountObservation, Consistent
    <2>3. Consistent(task'[t].status, obs'[t], entries'[t])
        BY <2>1, <2>2 DEF Consistent
    <2> QED
        BY <1>6, <2>1, <2>2, <2>3, OneCount DEF SubmitCountObservation
<1>7. ASSUME NEW t \in Tasks, ReviewByDirector(t) PROVE CountInv'
    <2>1. CASE Conflicted(t)
        BY <1>7, <2>1, ConflictKeeps DEF ReviewByDirector
    <2>2. CASE ~Conflicted(t)
        <3>1. /\ task'[t].status = "Review" /\ entries'[t] = entries[t]
              /\ obs'[t] = [obs[t] EXCEPT !.doc = "draft", !.director = TRUE]
              /\ \A u \in Tasks \ {t} : task'[u] = task[u] /\ obs'[u] = obs[u] /\ entries'[u] = entries[u]
            BY <1>7, <2>2, <1>a DEF ReviewByDirector, CountTypeOK, TaskType
        <3>2. /\ obs[t].status = "Review" /\ obs[t].doc = "none" /\ obs[t].diff # 0
              /\ UNCHANGED request
            BY <1>7, <2>2 DEF ReviewByDirector
        <3>3. /\ obs'[t].status = "Review" /\ obs'[t].diff = obs[t].diff
              /\ obs'[t].doc = "draft" /\ obs'[t].director
            BY <3>1, <3>2, <1>a DEF ObsType
        <3>4. Consistent(task'[t].status, obs'[t], entries'[t])
            BY <1>b, <3>1, <3>2, <3>3 DEF Consistent
        <3> QED
            BY <3>1, <3>2, <3>3, <3>4, OneCount
    <2> QED
        BY <2>1, <2>2
<1>8. ASSUME NEW k \in Tokens, NEW t \in Tasks, Approve(k, t) PROVE CountInv'
    BY <1>1, <1>8 DEF Approve
<1>9. ASSUME NEW w \in Workers, NEW t \in Tasks, NEW c \in Commands, NEW k \in Tokens,
             BeginConfirmation(w, t, c, k)
      PROVE CountInv'
    <2>1. /\ UNCHANGED <<task, obs, entries>>
          /\ request'[w].task = t /\ request'[w].obs = obs[t] /\ obs[t].status # "none"
          /\ \A v \in Workers \ {w} : request'[v] = request[v]
        BY <1>9 DEF BeginConfirmation, CountTypeOK
    <2>2. SnapshotsHold'
        BY <2>1 DEF CountInv, SnapshotsHold
    <2> QED
        BY <2>1, <2>2 DEF CountInv
<1>10. ASSUME NEW w \in Workers, RefuseMoved(w) PROVE CountInv'
    <2>1. /\ request[w].task \in Tasks /\ Conflicted(request[w].task) /\ UNCHANGED entries
          /\ obs[request[w].task].status # "none"
          /\ \A v \in Workers : request'[v] = request[v] \/ request'[v] = Idle
        BY <1>10, InFlight DEF RefuseMoved, CountInv, SnapshotsHold, CountTypeOK
    <2> QED
        BY <2>1, ConflictKeeps
<1>11. ASSUME NEW w \in Workers, ConfirmCount(w) PROVE CountInv'
    <2> DEFINE r == request[w]
               t == r.task
    <2>1. /\ r # Idle /\ Grantable(w) /\ t \in Tasks /\ r.command \in Commands
          /\ r.obs.diff = obs[t].diff /\ obs[t].status # "none"
        BY <1>11, InFlight DEF ConfirmCount, CountInv, SnapshotsHold
    <2>2. /\ task'[t].status = "Reviewed"
          /\ obs'[t] = [obs[t] EXCEPT !.status = "Accepted", !.command = r.command,
                              !.doc = IF r.obs.diff = 0 THEN "none" ELSE "submitted"]
          /\ entries'[t] = IF r.obs.diff = 0 THEN entries[t] ELSE entries[t] + 1
          /\ \A u \in Tasks \ {t} : task'[u] = task[u] /\ obs'[u] = obs[u] /\ entries'[u] = entries[u]
          /\ \A v \in Workers : request'[v] = request[v] \/ request'[v] = Idle
        BY <1>11, <1>a, <2>1 DEF ConfirmCount, CountTypeOK, TaskType
    <2>3. /\ obs'[t].status = "Accepted" /\ obs'[t].diff = obs[t].diff
          /\ obs'[t].director = obs[t].director /\ obs'[t].command = r.command
          /\ obs'[t].doc = IF r.obs.diff = 0 THEN "none" ELSE "submitted"
        BY <1>a, <2>1, <2>2 DEF ObsType
    <2>4. r.obs.diff # 0 => obs[t].doc = "draft"
        BY <2>1 DEF Grantable
    <2>5. r.command # Null
        BY <2>1, CountAssumption
    <2>6. Consistent(task'[t].status, obs'[t], entries'[t])
        BY <1>b, <2>1, <2>2, <2>3, <2>4, <2>5 DEF Consistent
    <2> QED
        BY <2>1, <2>2, <2>3, <2>6, OneCount
<1>12. ASSUME NEW w \in Workers, EndConfirmation(w) PROVE CountInv'
    BY <1>12 DEF EndConfirmation, CountInv, SnapshotsHold, CountTypeOK
<1>13. CASE UNCHANGED countVars
    BY <1>1, <1>13 DEF countVars
<1> QED
    BY <1>2, <1>3, <1>4, <1>5, <1>6, <1>7, <1>8, <1>9, <1>10, <1>11, <1>12, <1>13 DEF CountNext

THEOREM CountsConsistent == CountSpec => [](CountTypeOK /\ CountInv)
<1>1. CountInit => CountTypeOK /\ CountInv
    BY TypeOKInit, CountInvInit
<1>2. CountTypeOK /\ CountInv /\ [CountNext]_countVars => CountTypeOK' /\ CountInv'
    BY TypeOKStep, CountInvStep
<1> QED
    BY <1>1, <1>2, PTL DEF CountSpec

(* A correction enters the ledger once, exactly when its document is         *)
(* submitted, and the task, the count and the document tell one story.       *)
THEOREM CorrectedOnce == CountSpec => []AppliedOnce
<1>1. CountInv => AppliedOnce
    BY DEF CountInv, Consistent, AppliedOnce
<1> QED
    BY <1>1, CountsConsistent, PTL

(* A large difference changes the stock only after a director's review.      *)
THEOREM DirectorFirst == CountSpec => []ProtectedNeedsDirector
<1>1. CountInv => ProtectedNeedsDirector
    BY DEF CountInv, Consistent, ProtectedNeedsDirector
<1> QED
    BY <1>1, CountsConsistent, PTL

-----------------------------------------------------------------------------
(* Two functions of the approvals that differ in one. *)
LEMMA OneApproval ==
    ASSUME NEW F, NEW H, NEW k \in Tokens, NEW v,
           F = [j \in Tokens |-> F[j]], H = [j \in Tokens |-> H[j]],
           H[k] = v, \A j \in Tokens \ {k} : H[j] = F[j]
    PROVE  H = [F EXCEPT ![k] = v]
OBVIOUS

(* The approvals of counts implement the one-shot grant: a step either       *)
(* offers an approval, uses one, or stutters.                                *)
THEOREM CountApprovals == CountSpec => ApprovalIsOneShot
<1>1. CountInit => Approvals!Init
    BY DEF CountInit, Approvals!Init
<1>2. CountTypeOK /\ [CountNext]_countVars => [Approvals!Next]_(Approvals!vars)
    <2> SUFFICES ASSUME CountTypeOK, [CountNext]_countVars PROVE [Approvals!Next]_(Approvals!vars)
        OBVIOUS
    <2>1. ASSUME UNCHANGED <<token, confirmed>> PROVE [Approvals!Next]_(Approvals!vars)
        BY <2>1 DEF Approvals!vars
    <2> DEFINE Stage(r) == CASE r.status = "unknown" -> "unknown"
                             [] r.status = "issued" -> "offered"
                             [] r.status = "consumed" -> "used"
               G == [k \in Tokens |-> Stage(token[k])]
    <2>a. G = [k \in Tokens |-> G[k]] /\ G' = [k \in Tokens |-> G'[k]]
        <3> HIDE DEF Stage
        <3> QED
            OBVIOUS
    <2>2. ASSUME NEW k \in Tokens, NEW t \in Tasks, Approve(k, t)
          PROVE [Approvals!Next]_(Approvals!vars)
        <3>1. /\ G[k] = "unknown" /\ G'[k] = "offered" /\ UNCHANGED confirmed
              /\ \A j \in Tokens \ {k} : G'[j] = G[j]
            BY <2>2 DEF Approve, CountTypeOK
        <3>2. G' = [G EXCEPT ![k] = "offered"]
            <4> HIDE DEF G
            <4> QED
                BY <2>a, <3>1, OneApproval
        <3> QED
            BY <3>1, <3>2 DEF Approvals!Next, Approvals!Offer
    <2>3. ASSUME NEW w \in Workers, ConfirmCount(w) PROVE [Approvals!Next]_(Approvals!vars)
        <3> DEFINE k == request[w].token
        <3>1. k \in Tokens /\ token[k].status = "issued" /\ confirmed' = confirmed + 1
            BY <2>3, InFlight DEF ConfirmCount, Grantable
        <3>2. /\ G[k] = "offered" /\ G'[k] = "used"
              /\ \A j \in Tokens \ {k} : G'[j] = G[j]
            BY <2>3, <3>1 DEF ConfirmCount, CountTypeOK
        <3>3. G' = [G EXCEPT ![k] = "used"]
            <4> HIDE DEF G, k
            <4> QED
                BY <2>a, <3>1, <3>2, OneApproval
        <3> QED
            BY <3>1, <3>2, <3>3 DEF Approvals!Next, Approvals!Use
    <2>4. CASE UNCHANGED countVars
        BY <2>1, <2>4 DEF countVars
    <2> QED
        BY <2>1, <2>2, <2>3, <2>4 DEF CountNext, Move, NextDay, StockOnly, ScheduleGroup, ResolveProblem,
           ClaimCountTask, SubmitCountObservation, ReviewByDirector, BeginConfirmation,
           RefuseMoved, EndConfirmation
<1> QED
    BY <1>1, <1>2, CountsTyped, PTL DEF CountSpec, ApprovalIsOneShot, Approvals!Spec
=============================================================================
