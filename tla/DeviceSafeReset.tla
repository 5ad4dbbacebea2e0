---------------------------- MODULE DeviceSafeReset ----------------------------
(***************************************************************************)
(* The safe reset of one till.  The till archives its drained queue and    *)
(* registers a reset; a System Manager approves it with a QR that carries  *)
(* a challenge; the till redeems the challenge for new credentials, wipes  *)
(* itself and completes.  Every operation locks the device row first, so   *)
(* each is one action; requests are delayed and repeated, answers get lost *)
(* and the clock may pass any expiry.  While a reset is open every         *)
(* operational request of the till is refused.                             *)
(***************************************************************************)
EXTENDS Naturals, FiniteSets

CONSTANTS
    MaxRequests, \* reset requests of the till: request id, proof and archive
    Keys,        \* redemption idempotency keys
    MaxVersion,  \* configuration edits stop at this version
    MaxGen,      \* no approval is issued from this generation on
    None         \* no redemption key, not cancelled

ASSUME BoundsAssumption ==
    /\ MaxVersion \in Nat \ {0} /\ MaxGen \in Nat \ {0}
    /\ MaxRequests \in Nat /\ None \notin Keys \cup {"fence", "device", "manager"}

Requests == 1..MaxRequests    \* in the order in which the till archives them

VARIABLES
    device,    \* the device row: config_version and the credential in force
    reset,     \* the reset document of each request
    till,      \* the till: the credential it holds, the version of each archive, what it released
    desk,      \* config_version of a KoPOS Device form open in Desk, 0 for none
    work,      \* the till's business: a shift is open, something else is unresolved
    waiting,   \* credentials of authenticated operational requests waiting for the lock
    missed     \* observer: resets whose archive lacks an operation the server accepted

vars == <<device, reset, till, desk, work, waiting, missed>>

Statuses == {"none", "requested", "authorized", "redeemed", "completed", "cancelled", "expired"}

(* _find_active_reset_for_update *)
Active == Statuses \ {"none", "completed", "cancelled", "expired"}

Credentials == 1..MaxRequests + 1

ResetType == [status : Statuses,
              prev   : 0..MaxVersion,               \* previous_config_version
              new    : 0..MaxVersion + 1,           \* new_config_version
              gen    : 0..MaxGen,                   \* approval_generation
              lapsed : BOOLEAN,                     \* the request's or the approval's expiry has passed
              redeemedGen : 0..MaxGen,              \* redeemed_approval_generation
              key    : Keys \cup {None},            \* redemption_idempotency_sha256
              bound  : BOOLEAN,                     \* current_redemption_idempotency_sha256 is set
              late   : BOOLEAN,                     \* redeemed_recovery_expires_at has passed
              cancel : {"fence", "device", "manager", None},  \* whose cancellation key it is
              issued : {0} \cup Credentials]        \* issued_api_key_sha256

NoReset == [status |-> "none", prev |-> 0, new |-> 0, gen |-> 0, lapsed |-> FALSE, redeemedGen |-> 0,
            key |-> None, bound |-> FALSE, late |-> FALSE, cancel |-> None, issued |-> 0]

TypeOK ==
    /\ device \in [version : 1..MaxVersion + 1, cred : Credentials]
    /\ reset \in [Requests -> ResetType]
    /\ till \in [cred : Credentials, archive : [Requests -> 0..MaxVersion],
                 released : SUBSET Requests]
    /\ desk \in 0..MaxVersion + 1
    /\ work \in [shift : BOOLEAN, unresolved : BOOLEAN]
    /\ waiting \subseteq Credentials
    /\ missed \subseteq Requests

Init ==
    /\ device = [version |-> 1, cred |-> 1]
    /\ reset = [r \in Requests |-> NoReset]
    /\ till = [cred |-> 1, archive |-> [r \in Requests |-> 0], released |-> {}]
    /\ desk = 0
    /\ work = [shift |-> FALSE, unresolved |-> FALSE]
    /\ waiting = {}
    /\ missed = {}

Rotated(r) == reset[r].status \in {"redeemed", "completed"}
Open == {r \in Requests : reset[r].status \in Active}
LoggedIn == till.cred = device.cred

-----------------------------------------------------------------------------
(* What saving the document allows: the transition table, the immutable      *)
(* evidence, and what each part of the audit may change with.                *)
Transitions ==
    [requested  |-> {"requested", "authorized", "cancelled", "expired"},
     authorized |-> {"authorized", "redeemed", "cancelled", "expired"},
     redeemed   |-> {"redeemed", "completed"},
     completed  |-> {"completed"},
     cancelled  |-> {"cancelled"},
     expired    |-> {"expired"}]

(* _validate_lifecycle_fields and _validate_redeemed_fields *)
LifecycleFields(d) ==
    /\ (d.cancel # None) = (d.status = "cancelled")
    /\ d.status = "requested" => d.gen = 0
    /\ d.status \in {"authorized", "redeemed", "completed"} => d.gen > 0
    /\ d.status \in {"requested", "authorized", "cancelled", "expired"} => d.new = 0
    /\ d.status \in {"redeemed", "completed"} => d.key # None /\ d.new = d.prev + 1

(* _validate_protocol_transitions *)
ProtocolTransition(old, d) ==
    /\ IF old.status = "requested" /\ d.status = "authorized"
       THEN d.gen = 1
       ELSE d.gen # old.gen => /\ d.status \in {"authorized", "redeemed"}
                               /\ d.gen = old.gen + 1 /\ ~d.bound
    /\ d.gen = old.gen /\ d.bound # old.bound => d.bound /\ d.status = "redeemed"
    /\ <<d.redeemedGen, d.key, d.new, d.issued>> # <<old.redeemedGen, old.key, old.new, old.issued>>
          => old.status = "authorized" /\ d.status = "redeemed"
    /\ d.cancel # old.cancel => old.status \in {"requested", "authorized"} /\ d.status = "cancelled"

(* _apply_reset_transition *)
Save(r, d) ==
    /\ d.status \in Transitions[reset[r].status]
    /\ LifecycleFields(d)
    /\ ProtocolTransition(reset[r], d)
    /\ reset' = [reset EXCEPT ![r] = d]

(* _assert_no_open_shift_or_unresolved_projection *)
WorkClear == ~work.shift /\ ~work.unresolved

-----------------------------------------------------------------------------
(* The till archives its drained queue under the configuration it knows.     *)
Archive(r) ==
    /\ till.archive[r] = 0 /\ \A s \in 1..r - 1 : till.archive[s] > 0
    /\ device.version <= MaxVersion
    /\ till' = [till EXCEPT !.archive[r] = device.version]
    /\ UNCHANGED <<device, reset, desk, work, waiting, missed>>

(* Mutant: only a request that still waits for approval keeps others out. *)
MakeRoomBesideRedeemed(r, d) ==
    /\ \A s \in Open : reset[s].status = "redeemed" \/ reset[s].lapsed
    /\ reset' = [s \in Requests |-> CASE s = r -> d
                                      [] reset[s].status = "requested" -> [reset[s] EXCEPT !.status = "expired"]
                                      [] OTHER -> reset[s]]

(* Mutant: an expired request stays open beside the new one. *)
MakeRoomBeside(r, d) ==
    /\ \A s \in Open : reset[s].status = "requested" /\ reset[s].lapsed
    /\ reset' = [reset EXCEPT ![r] = d]

(* _expire_active_reset_if_needed, and the insert that follows.              *)
MakeRoom(r, d) ==
    /\ \A s \in Open : reset[s].status = "requested" /\ reset[s].lapsed
    /\ reset' = [s \in Requests |-> CASE s = r -> d
                                      [] s \in Open -> [reset[s] EXCEPT !.status = "expired"]
                                      [] OTHER -> reset[s]]

(* Mutant: a cancelled row does not answer a delayed request. *)
RegisterOverFence(r, recovery) ==
    /\ till.archive[r] > 0 /\ reset[r].status \in {"none", "cancelled"}
    /\ ~recovery => LoggedIn /\ WorkClear
    /\ device.version = till.archive[r]
    /\ MakeRoom(r, [NoReset EXCEPT !.status = "requested", !.prev = till.archive[r]])
    /\ UNCHANGED <<device, till, desk, work, waiting, missed>>

(* _register_safe_reset_request, by the till or, with its exported evidence, *)
(* by a System Manager.  A matching row, in whatever status, is only         *)
(* answered.                                                                 *)
Register(r, recovery) ==
    /\ till.archive[r] > 0 /\ reset[r].status = "none"
    /\ ~recovery => LoggedIn /\ WorkClear
    /\ device.version = till.archive[r]
    /\ MakeRoom(r, [NoReset EXCEPT !.status = "requested", !.prev = till.archive[r]])
    /\ UNCHANGED <<device, till, desk, work, waiting, missed>>

(* abandon_unregistered_device_safe_reset_request: a request nobody knows is *)
(* fenced by a row that is born cancelled; the answer, which may get lost,   *)
(* is what lets the till drop its archive.                                   *)
Abandon(r) ==
    /\ till.archive[r] > 0 /\ LoggedIn
    /\ \/ /\ reset[r].status = "none"
          /\ reset' = [reset EXCEPT ![r] = [NoReset EXCEPT !.status = "cancelled", !.cancel = "fence",
                                                           !.prev = till.archive[r]]]
       \/ reset[r].cancel = "fence" /\ UNCHANGED reset
    /\ till' \in {till, [till EXCEPT !.released = @ \cup {r}]}
    /\ UNCHANGED <<device, desk, work, waiting, missed>>

(* The configuration a reset was approved for is still in force.             *)
VersionExpected(r) ==
    device.version = IF reset[r].status = "redeemed" THEN reset[r].new ELSE reset[r].prev

(* Mutant: the business gate is the registration's alone. *)
AuthorizeUngated(r) ==
    /\ \/ reset[r].status = "requested" /\ ~reset[r].lapsed
       \/ reset[r].status \in {"authorized", "redeemed"}
    /\ VersionExpected(r)
    /\ reset[r].gen < MaxGen
    /\ Save(r, [reset[r] EXCEPT !.status = IF @ = "requested" THEN "authorized" ELSE @,
                                !.gen = @ + 1, !.lapsed = FALSE, !.bound = FALSE])
    /\ UNCHANGED <<device, till, desk, work, waiting, missed>>

(* authorize_device_safe_reset: the first approval, and every reissue.       *)
Authorize(r) ==
    /\ \/ reset[r].status = "requested" /\ ~reset[r].lapsed
       \/ reset[r].status \in {"authorized", "redeemed"}
    /\ VersionExpected(r)
    /\ WorkClear
    /\ reset[r].gen < MaxGen
    /\ Save(r, [reset[r] EXCEPT !.status = IF @ = "requested" THEN "authorized" ELSE @,
                                !.gen = @ + 1, !.lapsed = FALSE, !.bound = FALSE])
    /\ UNCHANGED <<device, till, desk, work, waiting, missed>>

(* _match_redemption_challenge *)
Committed(r, g) == reset[r].redeemedGen = g
Current(r, g) == reset[r].gen = g /\ reset[r].redeemedGen # g

(* The answer may be lost on its way to the till. *)
Answer(cred) == till' \in {till, [till EXCEPT !.cred = cred]}

(* redeem_device_safe_reset of an approved reset: the credentials are        *)
(* rotated and the configuration moves on in the transaction that records    *)
(* the redemption.                                                           *)
RedeemFirst(r, g, k) ==
    /\ reset[r].status = "authorized"
    /\ Current(r, g) /\ ~reset[r].lapsed
    /\ VersionExpected(r)
    /\ WorkClear
    /\ device' = [version |-> device.version + 1, cred |-> device.cred + 1]
    /\ Save(r, [reset[r] EXCEPT !.status = "redeemed", !.new = device.version + 1,
                                !.redeemedGen = g, !.key = k, !.issued = device.cred + 1])
    /\ Answer(device.cred + 1)
    /\ UNCHANGED <<desk, work, waiting, missed>>

(* _read_redeemed_setup: the stored result is answered only while it holds.  *)
SetupReadable(r) == device.version = reset[r].new /\ device.cred = reset[r].issued

(* Mutant: a reissued challenge is redeemed like the first. *)
RedeemAgainRotates(r, g, k) ==
    /\ reset[r].status = "redeemed"
    /\ Current(r, g) /\ ~reset[r].lapsed /\ k = reset[r].key
    /\ device' = [device EXCEPT !.cred = @ + 1]
    /\ reset' = [reset EXCEPT ![r].bound = TRUE, ![r].issued = device.cred + 1]
    /\ Answer(device.cred + 1)
    /\ UNCHANGED <<desk, work, waiting, missed>>

(* Mutant: only the challenge that was redeemed reads the result again. *)
RedeemAgainFirstOnly(r, g, k) ==
    /\ reset[r].status = "redeemed" /\ k = reset[r].key
    /\ SetupReadable(r)
    /\ Committed(r, g) /\ ~reset[r].late
    /\ UNCHANGED reset
    /\ Answer(reset[r].issued)
    /\ UNCHANGED <<device, desk, work, waiting, missed>>

(* _retry_redeemed_result: under the challenge that was redeemed, or under   *)
(* one reissued since, which the first retry binds.                          *)
RedeemAgain(r, g, k) ==
    /\ reset[r].status = "redeemed"
    /\ k = reset[r].key
    /\ SetupReadable(r)
    /\ \/ Committed(r, g) /\ ~reset[r].late /\ UNCHANGED reset
       \/ Current(r, g) /\ reset[r].bound /\ UNCHANGED reset
       \/ /\ Current(r, g) /\ ~reset[r].bound /\ ~reset[r].lapsed
          /\ Save(r, [reset[r] EXCEPT !.bound = TRUE])
    /\ Answer(reset[r].issued)
    /\ UNCHANGED <<device, desk, work, waiting, missed>>

Redeem(r, g, k) == RedeemFirst(r, g, k) \/ RedeemAgain(r, g, k)

(* cancel_device_safe_reset and, from Desk, ..._as_system_manager, before    *)
(* the rotation.                                                             *)
Cancel(r, by) ==
    /\ reset[r].status \in {"requested", "authorized"}
    /\ by = "device" => LoggedIn /\ device.version = reset[r].prev
    /\ Save(r, [reset[r] EXCEPT !.status = "cancelled", !.cancel = by])
    /\ UNCHANGED <<device, till, desk, work, waiting, missed>>

(* complete_device_safe_reset, with the new credential. *)
Complete(r) ==
    /\ reset[r].status = "redeemed"
    /\ LoggedIn /\ till.cred = reset[r].issued
    /\ device.version = reset[r].new
    /\ Save(r, [reset[r] EXCEPT !.status = "completed"])
    /\ UNCHANGED <<device, till, desk, work, waiting, missed>>

-----------------------------------------------------------------------------
(* The clock passes an expiry.  The last generation the model can issue does *)
(* not run out once the reset is redeemed: the manager could reissue.        *)
RequestLapses(r) ==
    /\ reset[r].status = "requested" /\ ~reset[r].lapsed
    /\ reset' = [reset EXCEPT ![r].lapsed = TRUE]
    /\ UNCHANGED <<device, till, desk, work, waiting, missed>>

ApprovalLapses(r) ==
    /\ reset[r].status \in {"authorized", "redeemed"} /\ ~reset[r].lapsed
    /\ reset[r].status = "redeemed" => reset[r].gen < MaxGen
    /\ reset' = [reset EXCEPT ![r].lapsed = TRUE]
    /\ UNCHANGED <<device, till, desk, work, waiting, missed>>

RecoveryLapses(r) ==
    /\ reset[r].status = "redeemed" /\ ~reset[r].late
    /\ reset[r].redeemedGen < MaxGen
    /\ reset' = [reset EXCEPT ![r].late = TRUE]
    /\ UNCHANGED <<device, till, desk, work, waiting, missed>>

(* An operational request passes authentication, then waits for the device:  *)
(* one at a time, whatever else happens meanwhile.                           *)
OperationArrives ==
    /\ LoggedIn /\ waiting = {}
    /\ waiting' = {till.cred}
    /\ UNCHANGED <<device, reset, till, desk, work, missed>>

(* Mutant: what was authenticated once is not looked at again. *)
OperationAllowedByLogin(c) == Open = {}

(* lock_device_for_operational_mutation *)
OperationAllowed(c) == Open = {} /\ c = device.cred

(* The request opens, closes or uses a shift, or is refused.                 *)
OperationRuns(c) ==
    /\ c \in waiting
    /\ waiting' = waiting \ {c}
    /\ \/ ~OperationAllowed(c) /\ UNCHANGED <<work, missed>>
       \/ /\ OperationAllowed(c)
          /\ missed' = missed \cup Open \cup {r \in Requests : c < reset[r].issued}
          /\ work' \in [shift : BOOLEAN, unresolved : BOOLEAN]
    /\ UNCHANGED <<device, reset, till, desk>>

(* Jobs and the back office, which do not take the operational lock.         *)
JobLeavesWork ==
    /\ work' = [work EXCEPT !.unresolved = TRUE]
    /\ UNCHANGED <<device, reset, till, desk, waiting, missed>>

BackOfficeResolves ==
    /\ work' = [work EXCEPT !.unresolved = FALSE]
    /\ UNCHANGED <<device, reset, till, desk, waiting, missed>>

(* bump_bound_device_config_versions: the POS Profile has changed; an open   *)
(* device form is outdated by the new modification time.                     *)
ProfileChanges ==
    /\ device.version < MaxVersion
    /\ device' = [device EXCEPT !.version = @ + 1]
    /\ desk' = 0
    /\ UNCHANGED <<reset, till, work, waiting, missed>>

OpenDeviceForm ==
    /\ desk' = device.version
    /\ UNCHANGED <<device, reset, till, work, waiting, missed>>

(* KoPOSDevice.validate: the version of the form is written, one higher if   *)
(* a setting has changed.  A redemption meanwhile does not outdate the form, *)
(* since it writes with update_modified=False.                               *)
SaveDeviceForm ==
    /\ desk > 0
    /\ device' \in {[device EXCEPT !.version = v] : v \in {desk, desk + 1} \cap 1..MaxVersion}
    /\ desk' = 0
    /\ UNCHANGED <<reset, till, work, waiting, missed>>

-----------------------------------------------------------------------------
Next ==
    \/ \E r \in Requests :
          \/ Archive(r) \/ Abandon(r) \/ Authorize(r) \/ Complete(r)
          \/ \E recovery \in BOOLEAN : Register(r, recovery)
          \/ \E g \in 1..MaxGen, k \in Keys : Redeem(r, g, k)
          \/ Cancel(r, "device") \/ Cancel(r, "manager")
          \/ RequestLapses(r) \/ ApprovalLapses(r) \/ RecoveryLapses(r)
    \/ OperationArrives \/ \E c \in waiting : OperationRuns(c)
    \/ JobLeavesWork \/ BackOfficeResolves
    \/ ProfileChanges \/ OpenDeviceForm \/ SaveDeviceForm

Spec == Init /\ [][Next]_vars

(* The till retries its redemption until an answer reaches it and completes, *)
(* the manager reissues, the back office resolves what jobs leave.           *)
RedemptionAnswered ==
    \E r \in Requests, g \in 1..MaxGen, k \in Keys :
        RedeemAgain(r, g, k) /\ till'.cred = reset[r].issued

Reissue ==
    \E r \in Requests : /\ reset[r].status = "redeemed" /\ (reset[r].lapsed \/ reset[r].late)
                        /\ Authorize(r)

Fairness ==
    /\ WF_vars(BackOfficeResolves)
    /\ SF_vars(\E r \in Requests : Complete(r))
    /\ SF_vars(RedemptionAnswered)
    /\ SF_vars(Reissue)

FairSpec == Spec /\ Fairness

-----------------------------------------------------------------------------
(* At most one reset of a till is open, though requests expire unnoticed and *)
(* a support registration can race the till's own.  From its approval until  *)
(* it completes the till has no open shift, though support can register a    *)
(* reset of a till that has one.                                             *)
OneOpenReset ==
    /\ Cardinality(Open) <= 1
    /\ \A r \in Requests : reset[r].status \in {"authorized", "redeemed"} => ~work.shift

(* Once the till was told that it may drop a request, no delayed copy of it, *)
(* and no support registration of its evidence, ever becomes a reset.        *)
ReleasedStaysReleased == \A r \in till.released : reset[r].status = "cancelled" /\ reset[r].issued = 0

(* What a redemption issued are the credentials in force until the next      *)
(* redemption: a lost answer can be read again, and a till that completes    *)
(* holds working credentials.                                                *)
IssuedIsInForce ==
    \A r \in Requests :
        Rotated(r) => \/ device.cred = reset[r].issued
                      \/ \E s \in Requests : reset[s].issued > reset[r].issued
                                             /\ reset[r].status = "completed"

(* The archive of a reset is complete: from its registration until it is     *)
(* withdrawn or completed nothing the till sent is accepted, and nothing the *)
(* old terminal sent ever after, though it had passed authentication before  *)
(* the rotation.                                                             *)
ArchiveIsComplete == missed = {}

(* A request is one grant: expired and cancelled ones never rotate anything, *)
(* and the credentials are rotated once per redeemed reset.                  *)
GrantState ==
    [r \in Requests |-> CASE reset[r].status = "none" -> "unknown"
                          [] reset[r].status \in {"requested", "authorized"} -> "offered"
                          [] Rotated(r) -> "used"
                          [] OTHER -> "withdrawn"]

Grant == INSTANCE OneShotGrant WITH Grants <- Requests, grant <- GrantState,
                                    effects <- device.cred - 1

ResetIsOneShot == Grant!Spec

(* A redeemed reset is completed, whatever answers get lost and whatever     *)
(* expires, unless the configuration is edited under it.                     *)
RedeemedIsCompleted ==
    (\E r \in Requests : reset[r].status = "redeemed")
        ~> \A r \in Requests : reset[r].status = "redeemed" => device.version # reset[r].new
=============================================================================
