---------------------------- MODULE AccessGrants ----------------------------
(***************************************************************************)
(* The codes of the doors (apps/api/src/modules/access, and the staff and  *)
(* Doinsport codes of modules/automation).  A confirmed booking gets one   *)
(* code on its court: the code Doinsport gave it, or a generated one that  *)
(* the local provider provisions.  Its cancellation revokes it.  Both      *)
(* handlers read and write the table with separate calls, so either one    *)
(* may overtake the other.                                                 *)
(*                                                                         *)
(* All bookings are on one court at overlapping times, the case in which   *)
(* two codes may collide; margins and encryption are left out.             *)
(***************************************************************************)
EXTENDS ClubBase

CONSTANTS
    Bookings,    \* bookings of one court whose windows overlap
    Codes,       \* door codes
    OtherCodes   \* codes given to the staff, and by Doinsport to its own bookings

ASSUME AccessAssumption == OtherCodes \subseteq Codes

VARIABLES
    booked,     \* status of each booking
    grants,     \* access_grants: one row per booking, with what its generation saw
    granting,   \* the provisioning handler of each booking
    revoking,   \* the revocation handler of each booking
    others      \* staff_access_codes, and codes of bookings known to Doinsport alone

accessVars == <<booked, grants, granting, revoking, others>>

GrantStatus == {"absent", "PENDING", "ACTIVE", "FAILED", "REVOKED"}

AccessTypeOK ==
    /\ booked \in [Bookings -> {"CHECKOUT_PENDING", "CONFIRMED", "CANCELED"}]
    /\ grants \in [Bookings -> [status : GrantStatus, code : Codes \cup {None},
                                origin : {"V2_GENERATED", "LEGACY_IMPORTED"},
                                saw : SUBSET Bookings, overtaken : BOOLEAN]]
    /\ granting \in [Bookings -> {"none", "generate", "create", "provision"}]
    /\ revoking \in [Bookings -> {"none", "find", "write"}]
    /\ others \in [staff : Codes \cup {None}, staffLate : BOOLEAN, doinsport : Codes \cup {None}]

AccessInit ==
    /\ booked = [b \in Bookings |-> "CHECKOUT_PENDING"]
    /\ grants = [b \in Bookings |-> [status |-> "absent", code |-> None, origin |-> "V2_GENERATED",
                                     saw |-> {}, overtaken |-> FALSE]]
    /\ granting = [b \in Bookings |-> "none"]
    /\ revoking = [b \in Bookings |-> "none"]
    /\ others = [staff |-> None, staffLate |-> FALSE, doinsport |-> None]

-----------------------------------------------------------------------------
(* The table *)
updateStatus(b, s) == grants' = [grants EXCEPT ![b].status = s]
Live(b) == grants[b].status \in {"PENDING", "ACTIVE"}

\* findActiveByBookingId: the row a revocation works on
findActiveByBookingId(b) == {g \in {b} : Live(g)}
\* findOverlappingActive: the live rows of the court, whose codes may not be given again
findOverlappingActive == {b \in Bookings : Live(b)}
\* mutant: only the codes the provider has activated count
CollidesWithActive(code) == \E b \in findOverlappingActive : grants[b].status = "ACTIVE" /\ grants[b].code = code

\* collidesWithExisting
Collides(code) == \E b \in findOverlappingActive : grants[b].code = code
\* findActiveInScopesWindow: what a snapshot shows
findActiveInScopesWindow == {b \in Bookings : grants[b].status = "ACTIVE"}
\* revealForBooking: the code shown to the organizer
Revealed(b) == IF Live(b) THEN {grants[b].code} ELSE {}

-----------------------------------------------------------------------------
(* Provisioning, called once the booking is CONFIRMED *)
Confirm(b) ==
    /\ Request("access")
    /\ booked[b] = "CHECKOUT_PENDING"
    /\ booked' = [booked EXCEPT ![b] = "CONFIRMED"]
    /\ granting' = [granting EXCEPT ![b] = "generate"]
    /\ UNCHANGED <<grants, revoking, others>>

\* importLegacyGrant: Doinsport's code is taken as it is, without a collision check
ImportLegacyGrant(b, code) ==
    /\ Step("access")
    /\ granting[b] = "generate"
    /\ grants' = [grants EXCEPT ![b] = [@ EXCEPT !.status = "ACTIVE", !.code = code,
                                                 !.origin = "LEGACY_IMPORTED"]]
    /\ granting' = [granting EXCEPT ![b] = "none"]
    /\ UNCHANGED <<booked, revoking, others>>

\* generateAndProvision: a candidate that no live row of the court has
GenerateCode(b, code) ==
    /\ Step("access")
    /\ granting[b] = "generate"
    /\ ~Collides(code)
    /\ grants' = [grants EXCEPT ![b] = [@ EXCEPT !.code = code, !.saw = findOverlappingActive]]
    /\ granting' = [granting EXCEPT ![b] = "create"]
    /\ UNCHANGED <<booked, revoking, others>>

\* every attempt met a code in use: the booking gets no code
GenerationExhausted(b) ==
    /\ Step("access")
    /\ granting[b] = "generate"
    /\ \E code \in Codes : Collides(code)
    /\ granting' = [granting EXCEPT ![b] = "none"]
    /\ UNCHANGED <<booked, grants, revoking, others>>

CreateGrant(b) ==
    /\ Step("access")
    /\ granting[b] = "create"
    /\ updateStatus(b, "PENDING")
    /\ granting' = [granting EXCEPT ![b] = "provision"]
    /\ UNCHANGED <<booked, revoking, others>>

\* the provider answered: the status is written whatever it has become
Provisioned(b) ==
    /\ Step("access")
    /\ granting[b] = "provision"
    /\ updateStatus(b, "ACTIVE")
    /\ granting' = [granting EXCEPT ![b] = "none"]
    /\ UNCHANGED <<booked, revoking, others>>

ProvisioningFailed(b) ==
    /\ Fault("access")
    /\ granting[b] = "provision"
    /\ updateStatus(b, "FAILED")
    /\ granting' = [granting EXCEPT ![b] = "none"]
    /\ UNCHANGED <<booked, revoking, others>>

-----------------------------------------------------------------------------
(* Revocation, called by the cancellation of the player, of the            *)
(* administrator and of the reconciliation with Doinsport                  *)
CancelBooked(b) ==
    /\ Request("access")
    /\ booked[b] = "CONFIRMED"
    /\ booked' = [booked EXCEPT ![b] = "CANCELED"]
    /\ revoking' = [revoking EXCEPT ![b] = "find"]
    /\ grants' = [grants EXCEPT ![b].overtaken = granting[b] # "none"]
    /\ UNCHANGED <<granting, others>>

RevokeFind(b) ==
    /\ Step("access")
    /\ revoking[b] = "find"
    /\ revoking' = [revoking EXCEPT ![b] = IF findActiveByBookingId(b) = {} THEN "none" ELSE "write"]
    /\ UNCHANGED <<booked, grants, granting, others>>

\* an error of the provider is logged and the row is REVOKED all the same
RevokeWrite(b) ==
    /\ Step("access")
    /\ revoking[b] = "write"
    /\ updateStatus(b, "REVOKED")
    /\ revoking' = [revoking EXCEPT ![b] = "none"]
    /\ UNCHANGED <<booked, granting, others>>

\* the process stops: nothing resumes the two handlers of this booking
AccessRestart(b) ==
    /\ Fault("access")
    /\ granting[b] # "none" \/ revoking[b] # "none"
    /\ granting' = [granting EXCEPT ![b] = "none"]
    /\ revoking' = [revoking EXCEPT ![b] = "none"]
    /\ grants' = [grants EXCEPT ![b].overtaken = TRUE]
    /\ UNCHANGED <<booked, others>>

-----------------------------------------------------------------------------
(* Codes that do not come from a booking of this system; they change while *)
(* the device polls                                                        *)
createStaffCode(code) ==
    /\ Request("device")
    /\ others.staff = None
    /\ others' = [others EXCEPT !.staff = code, !.staffLate = FALSE]
    /\ UNCHANGED <<booked, grants, granting, revoking>>

revokeStaffCode ==
    /\ Request("device")
    /\ others.staff # None
    /\ others' = [others EXCEPT !.staff = None]
    /\ UNCHANGED <<booked, grants, granting, revoking>>

StaffCodeDeadline ==
    /\ Step("device")
    /\ others.staff # None /\ ~others.staffLate
    /\ others' = [others EXCEPT !.staffLate = TRUE]
    /\ UNCHANGED <<booked, grants, granting, revoking>>

\* expireStale, at every snapshot
expireStale(o) == IF o.staffLate THEN [o EXCEPT !.staff = None, !.staffLate = FALSE] ELSE o
\* findActiveGrantsForZoneIds
findActiveForZoneIds == IF others.staffLate THEN {} ELSE {others.staff} \ {None}

\* the synchronisation brings a booking made at Doinsport, or its cancellation
DoinsportCode(code) ==
    /\ Request("device")
    /\ others.doinsport # code
    /\ others' = [others EXCEPT !.doinsport = code]
    /\ UNCHANGED <<booked, grants, granting, revoking>>

\* findActiveForScopesWindow
findDoinsportOnly == {others.doinsport} \ {None}

AccessNext ==
    \/ \E b \in Bookings :
        \/ Confirm(b) \/ GenerationExhausted(b) \/ CreateGrant(b) \/ Provisioned(b)
        \/ ProvisioningFailed(b) \/ CancelBooked(b) \/ RevokeFind(b) \/ RevokeWrite(b)
        \/ AccessRestart(b)
        \/ \E code \in Codes : ImportLegacyGrant(b, code) \/ GenerateCode(b, code)
    \/ \E code \in OtherCodes : createStaffCode(code)
    \/ revokeStaffCode \/ StaffCodeDeadline
    \/ \E code \in OtherCodes \cup {None} : DoinsportCode(code)

AccessSpec == BaseInit /\ AccessInit /\ [][AccessNext]_<<baseVars, accessVars>>

\* The codes that open the doors, each with its origin
ActiveCodes ==
    {<<grants[b].origin, grants[b].code>> : b \in findActiveInScopesWindow}
    \cup {<<"STAFF_MASTER", c>> : c \in findActiveForZoneIds}
    \cup {<<"LEGACY_ONLY", c>> : c \in findDoinsportOnly}

-----------------------------------------------------------------------------
(* The code of a canceled booking opens nothing once its revocation is     *)
(* over, except where the cancellation overtook the provisioning (the late *)
(* answer writes ACTIVE over what the cancellation did, or over nothing:   *)
(* access-grant.service.ts:117) or a restart cut one of the two.  And two  *)
(* generated codes in use at the same time are the same only if neither    *)
(* generation could see the other's row.                                   *)
CodesFollowBookings ==
    /\ \A b \in Bookings :
        booked[b] = "CANCELED" /\ revoking[b] = "none" /\ Live(b) => grants[b].overtaken
    /\ \A b, c \in Bookings :
        /\ b # c /\ Live(b) /\ Live(c) /\ grants[b].code = grants[c].code
        /\ {grants[b].origin, grants[c].origin} = {"V2_GENERATED"}
        => b \notin grants[c].saw /\ c \notin grants[b].saw
=============================================================================
