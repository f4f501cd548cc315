---------------------------- MODULE LegacyMirror ----------------------------
(***************************************************************************)
(* The copy of Doinsport's bookings (modules/legacy-doinsport): two        *)
(* importers run on their own timers, the frequent one and the             *)
(* reconciliation, each skipped while its previous run lasts but free to   *)
(* overlap the other.  A run lists the bookings, fetches them one by one,  *)
(* and for each one writes the row, deletes its participants and writes    *)
(* them again, three separate calls.  The reconciliation ends by revoking  *)
(* the codes of the bookings whose row is canceled.                        *)
(*                                                                         *)
(* The calls to Doinsport carry a stored token: on a 401 the client signs  *)
(* in again and retries once.  Doinsport is external.                      *)
(***************************************************************************)
EXTENDS ClubBase

CONSTANT LegacyBookings    \* bookings of Doinsport on the club's courts

Importers == {"fast", "reconciliation"}

VARIABLES
    doinsport,   \* external: the bookings as Doinsport has them
    mirror,      \* legacy_bookings, and how many times the participants are written
    doors,       \* access_grants of the bookings made by this system
    importers,   \* each run: what it has still to treat, the booking in hand
    token        \* legacy_auth_tokens: whether the latest one is still accepted

mirrorVars == <<doinsport, mirror, doors, importers, token>>

MirrorTypeOK ==
    /\ doinsport \in [LegacyBookings -> {"absent", "booked", "canceled"}]
    /\ mirror \in [LegacyBookings -> [canceled : BOOLEAN, known : BOOLEAN, lists : 0..2]]
    /\ doors \in [LegacyBookings -> {"none", "ACTIVE", "REVOKED"}]
    /\ importers \in [Importers ->
            [pc : {"idle", "clients", "list", "get", "upsert", "delete", "create", "find", "revoke"},
             todo : SUBSET LegacyBookings, booking : LegacyBookings \cup {None}, canceled : BOOLEAN]]
    /\ token \in {"accepted", "refused"}

NoRun == [pc |-> "idle", todo |-> {}, booking |-> None, canceled |-> FALSE]

MirrorInit ==
    /\ doinsport = [b \in LegacyBookings |-> "absent"]
    /\ mirror = [b \in LegacyBookings |-> [canceled |-> FALSE, known |-> FALSE, lists |-> 0]]
    /\ doors = [b \in LegacyBookings |-> "none"]
    /\ importers = [k \in Importers |-> NoRun]
    /\ token = "refused"

goto(k, pc) == importers' = [importers EXCEPT ![k].pc = pc]

-----------------------------------------------------------------------------
(* Doinsport: the staff books and cancels there; createBookingInLegacy     *)
(* books there for this system, and the booking gets its code              *)
AcceptBooking(b) ==
    /\ doinsport[b] = "absent"
    /\ doinsport' = [doinsport EXCEPT ![b] = "booked"]

BookAtDoinsport(b) ==
    /\ Request("mirror")
    /\ AcceptBooking(b)
    /\ UNCHANGED <<mirror, doors, importers, token>>

createBookingInLegacy(b) ==
    /\ Request("mirror")
    /\ AcceptBooking(b)
    /\ doors' = [doors EXCEPT ![b] = "ACTIVE"]
    /\ token' = "accepted"
    /\ UNCHANGED <<mirror, importers>>

CancelAtDoinsport(b) ==
    /\ Request("mirror")
    /\ doinsport[b] = "booked"
    /\ doinsport' = [doinsport EXCEPT ![b] = "canceled"]
    /\ UNCHANGED <<mirror, doors, importers, token>>

TokenExpires ==
    /\ Fault("mirror")
    /\ token = "accepted"
    /\ token' = "refused"
    /\ UNCHANGED <<doinsport, mirror, doors, importers>>

-----------------------------------------------------------------------------
(* A run *)
Calls == {"clients", "list", "get"}    \* steps that call Doinsport

runFastSync ==
    /\ Step("mirror")
    /\ importers["fast"] = NoRun
    /\ goto("fast", "list")
    /\ UNCHANGED <<doinsport, mirror, doors, token>>

runReconciliation ==
    /\ Step("mirror")
    /\ importers["reconciliation"] = NoRun
    /\ goto("reconciliation", "clients")
    /\ UNCHANGED <<doinsport, mirror, doors, token>>

\* the adapter: all the pages of the past and of the future, canceled bookings included; then one booking
BookingsListed == {b \in LegacyBookings : doinsport[b] # "absent"}
normalizeBooking(b) == doinsport[b] = "canceled"

\* authenticateClub, after a 401 or without a token
authenticateClub(k) ==
    /\ Step("mirror")
    /\ importers[k].pc \in Calls /\ token = "refused"
    /\ token' = "accepted"
    /\ UNCHANGED <<doinsport, mirror, doors, importers>>

\* importClients does not touch the bookings: see Migration
ClientsImported(k) ==
    /\ Step("mirror")
    /\ importers[k].pc = "clients" /\ token = "accepted"
    /\ goto(k, "list")
    /\ UNCHANGED <<doinsport, mirror, doors, token>>

listBookings(k) ==
    /\ Step("mirror")
    /\ importers[k].pc = "list" /\ token = "accepted"
    /\ importers' = [importers EXCEPT ![k] = [@ EXCEPT !.pc = "get", !.todo = BookingsListed]]
    /\ UNCHANGED <<doinsport, mirror, doors, token>>

getBooking(k, b) ==
    /\ Step("mirror")
    /\ importers[k].pc = "get" /\ token = "accepted" /\ b \in importers[k].todo
    /\ importers' = [importers EXCEPT ![k] = [pc |-> "upsert", todo |-> @.todo \ {b}, booking |-> b,
                                              canceled |-> normalizeBooking(b)]]
    /\ UNCHANGED <<doinsport, mirror, doors, token>>

\* an error on one booking leaves it for the next run
GetFails(k, b) ==
    /\ Fault("mirror")
    /\ importers[k].pc = "get" /\ b \in importers[k].todo
    /\ importers' = [importers EXCEPT ![k].todo = @ \ {b}]
    /\ UNCHANGED <<doinsport, mirror, doors, token>>

\* an error on a list ends the run, and the server may stop anywhere in it
RunFails(k) ==
    /\ Fault("mirror")
    /\ importers[k] # NoRun
    /\ importers' = [importers EXCEPT ![k] = NoRun]
    /\ UNCHANGED <<doinsport, mirror, doors, token>>

\* mutant: a row already known is left as it is
InsertRow(k) ==
    /\ Step("mirror")
    /\ importers[k].pc = "upsert"
    /\ mirror' = [mirror EXCEPT ![importers[k].booking] =
                    IF @.known THEN @ ELSE [@ EXCEPT !.known = TRUE, !.canceled = importers[k].canceled]]
    /\ goto(k, "delete")
    /\ UNCHANGED <<doinsport, doors, token>>

UpsertRow(k) ==
    /\ Step("mirror")
    /\ importers[k].pc = "upsert"
    /\ mirror' = [mirror EXCEPT ![importers[k].booking] = [@ EXCEPT !.known = TRUE,
                                                              !.canceled = importers[k].canceled]]
    /\ goto(k, "delete")
    /\ UNCHANGED <<doinsport, doors, token>>

DeleteParticipants(k) ==
    /\ Step("mirror")
    /\ importers[k].pc = "delete"
    /\ mirror' = [mirror EXCEPT ![importers[k].booking].lists = 0]
    /\ goto(k, "create")
    /\ UNCHANGED <<doinsport, doors, token>>

CreateParticipants(k) ==
    /\ Step("mirror")
    /\ importers[k].pc = "create"
    /\ mirror' = [mirror EXCEPT ![importers[k].booking].lists = @ + 1]
    /\ importers' = [importers EXCEPT ![k] = [@ EXCEPT !.pc = "get", !.booking = None,
                                                            !.canceled = FALSE]]
    /\ UNCHANGED <<doinsport, doors, token>>

RunEnds(k) ==
    /\ Step("mirror")
    /\ importers[k].pc = "get" /\ importers[k].todo = {}
    /\ goto(k, IF k = "reconciliation" THEN "find" ELSE "idle")
    /\ UNCHANGED <<doinsport, mirror, doors, token>>

-----------------------------------------------------------------------------
(* revokeAccessForCanceledLegacyBookings: the list, then one call for each *)
FindCanceled ==
    /\ Step("mirror")
    /\ importers["reconciliation"].pc = "find"
    /\ importers' = [importers EXCEPT !["reconciliation"] = [@ EXCEPT !.pc = "revoke",
                        !.todo = {b \in LegacyBookings : doors[b] = "ACTIVE" /\ mirror[b].canceled}]]
    /\ UNCHANGED <<doinsport, mirror, doors, token>>

RevokeCanceled(b) ==
    /\ Step("mirror")
    /\ importers["reconciliation"].pc = "revoke" /\ b \in importers["reconciliation"].todo
    /\ doors' = [doors EXCEPT ![b] = "REVOKED"]
    /\ importers' = [importers EXCEPT !["reconciliation"].todo = @ \ {b}]
    /\ UNCHANGED <<doinsport, mirror, token>>

ReconciliationEnds ==
    /\ Step("mirror")
    /\ importers["reconciliation"].pc = "revoke" /\ importers["reconciliation"].todo = {}
    /\ goto("reconciliation", "idle")
    /\ UNCHANGED <<doinsport, mirror, doors, token>>

RunStep(k) ==
    \/ authenticateClub(k) \/ ClientsImported(k) \/ listBookings(k)
    \/ UpsertRow(k) \/ DeleteParticipants(k) \/ CreateParticipants(k) \/ RunEnds(k)
    \/ \E b \in LegacyBookings : getBooking(k, b)

ReconciliationStep ==
    FindCanceled \/ ReconciliationEnds \/ \E b \in LegacyBookings : RevokeCanceled(b)

MirrorNext ==
    \/ \E b \in LegacyBookings :
        BookAtDoinsport(b) \/ createBookingInLegacy(b) \/ CancelAtDoinsport(b)
    \/ TokenExpires \/ runFastSync \/ runReconciliation \/ ReconciliationStep
    \/ \E k \in Importers :
        \/ RunStep(k) \/ RunFails(k)
        \/ \E b \in LegacyBookings : GetFails(k, b)

MirrorSpec == BaseInit /\ MirrorInit /\ [][MirrorNext]_<<baseVars, mirrorVars>>

-----------------------------------------------------------------------------
(* Once Doinsport changes no more and answers, the copy ends by telling     *)
(* what Doinsport has and keeps telling it, whatever a slower run had read, *)
(* and the code of every booking canceled there is revoked, no other        *)
(* (legacy-import.service.ts:235-261).                                      *)
Mirrored(b) ==
    /\ doinsport[b] = "absent" => ~mirror[b].known
    /\ doinsport[b] # "absent" => mirror[b].known /\ mirror[b].canceled = (doinsport[b] = "canceled")
    /\ doinsport[b] = "canceled" => doors[b] # "ACTIVE"
    /\ doors[b] = "REVOKED" => doinsport[b] = "canceled"
MirrorConverges == focus = "mirror" => <>[](\A b \in LegacyBookings : Mirrored(b))
=============================================================================
