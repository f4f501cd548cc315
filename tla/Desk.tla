-------------------------------- MODULE Desk --------------------------------
(***************************************************************************)
(* How bookings are made and filled (modules/bookings, modules/kiosk and   *)
(* the desk of modules/admin): a player books on the web, the staff books  *)
(* for a client, or a tablet opens a session that a telephone claims.      *)
(* Until its payment begins, a booking receives and loses participants.    *)
(* A handler that checks and then writes is two steps; what it checked may *)
(* have changed in between.  Payment and cancellation after payment are    *)
(* those of Checkout, reduced to the statuses they leave.                  *)
(*                                                                         *)
(* Booking b is the one made for session b, or outside of any session.     *)
(***************************************************************************)
EXTENDS ClubBase

CONSTANTS
    Slots,      \* bookings, and the sessions of the tablet they come from
    Phones,     \* users: organizers, and holders of the telephones that scan
    Players,    \* names of participants
    Writers,    \* concurrent requests that add a participant
    Capacity    \* court.capacity

ASSUME DeskAssumption ==
    /\ Capacity \in Nat \ {0}
    /\ IsFiniteSet(Writers) /\ Cardinality(Writers) >= 1
    /\ None \notin Slots

VARIABLES
    sessions,    \* kiosk_checkout_sessions
    rooms,       \* bookings, their participants and their Doinsport mapping
    claiming,    \* each telephone: the session it is claiming and its step
    adding,      \* each request that adds a participant: the booking it checked
    tablet       \* kiosk_devices: the one tablet

deskVars == <<sessions, rooms, claiming, adding, tablet>>

DeskStatus == {"absent", "DRAFT", "CHECKOUT_PENDING", "CONFIRMED", "CANCEL_PENDING", "CANCELED"}
Syncs == {"none", "PENDING", "CONFIRMED", "CANCEL_PENDING", "CANCELED"}

SessionRow == [status : {"absent", "PENDING", "CLAIMED", "CANCELED"}, late : BOOLEAN,
               by : Phones \cup {None}, booked : BOOLEAN]
RoomRow == [status : DeskStatus, owner : Phones \cup {None}, kiosk : BOOLEAN,
            players : SUBSET Players, sync : Syncs, canceling : BOOLEAN]
ClaimTask == [slot : Slots \cup {None}, pc : {"none", "claim", "book", "pending", "set"}]
AddTask == [slot : Slots \cup {None}, player : Players \cup {None}]

DeskTypeOK ==
    /\ sessions \in [Slots -> SessionRow] /\ rooms \in [Slots -> RoomRow]
    /\ claiming \in [Phones -> ClaimTask] /\ adding \in [Writers -> AddTask]
    /\ tablet \in [active : BOOLEAN, offline : BOOLEAN]

NotClaiming == [slot |-> None, pc |-> "none"]
NotAdding == [slot |-> None, player |-> None]

DeskInit ==
    /\ sessions = [s \in Slots |-> [status |-> "absent", late |-> FALSE, by |-> None, booked |-> FALSE]]
    /\ rooms = [s \in Slots |-> [status |-> "absent", owner |-> None, kiosk |-> FALSE, players |-> {},
                                 sync |-> "none", canceling |-> FALSE]]
    /\ claiming = [u \in Phones |-> NotClaiming]
    /\ adding = [w \in Writers |-> NotAdding]
    /\ tablet = [active |-> TRUE, offline |-> FALSE]

Free(s) == sessions[s].status = "absent" /\ rooms[s].status = "absent"

-----------------------------------------------------------------------------
(* The tablet: its key is checked at each call *)
kioskAuthenticated == tablet.active

revokeTablet ==
    /\ Request("desk")
    /\ tablet.active
    /\ tablet' = [tablet EXCEPT !.active = FALSE]
    /\ UNCHANGED <<sessions, rooms, claiming, adding>>

\* isOffline: the administrator reads the last call of the tablet
TabletSilent ==
    /\ Step("desk")
    /\ ~tablet.offline
    /\ tablet' = [tablet EXCEPT !.offline = TRUE]
    /\ UNCHANGED <<sessions, rooms, claiming, adding>>

createSession(s) ==
    /\ Request("desk")
    /\ kioskAuthenticated /\ Free(s)
    /\ sessions' = [sessions EXCEPT ![s].status = "PENDING"]
    /\ tablet' = [tablet EXCEPT !.offline = FALSE]
    /\ UNCHANGED <<rooms, claiming, adding>>

SessionDeadline(s) ==
    /\ Step("desk")
    /\ sessions[s].status = "PENDING" /\ ~sessions[s].late
    /\ sessions' = [sessions EXCEPT ![s].late = TRUE]
    /\ UNCHANGED <<rooms, claiming, adding, tablet>>

\* cancelIfPending
cancelSession(s) ==
    /\ Request("desk")
    /\ kioskAuthenticated /\ sessions[s].status = "PENDING"
    /\ sessions' = [sessions EXCEPT ![s].status = "CANCELED"]
    /\ tablet' = [tablet EXCEPT !.offline = FALSE]
    /\ UNCHANGED <<rooms, claiming, adding>>

\* what the tablet shows while it waits
getStatusForKiosk(s) ==
    <<sessions[s].status, IF sessions[s].booked THEN rooms[s].status ELSE None>>

-----------------------------------------------------------------------------
(* The telephone: getByToken, claimIfPending, createBooking, setBookingId *)
Scan(u, s) ==
    /\ Request("desk")
    /\ claiming[u] = NotClaiming
    /\ sessions[s].status = "PENDING" /\ ~sessions[s].late
    /\ claiming' = [claiming EXCEPT ![u] = [slot |-> s, pc |-> "claim"]]
    /\ UNCHANGED <<sessions, rooms, adding, tablet>>

\* mutant: the status is not part of the condition of the update
ClaimBlindly(u) ==
    /\ Step("desk")
    /\ claiming[u].pc = "claim"
    /\ sessions' = [sessions EXCEPT ![claiming[u].slot] = [@ EXCEPT !.status = "CLAIMED", !.by = u]]
    /\ claiming' = [claiming EXCEPT ![u].pc = "book"]
    /\ UNCHANGED <<rooms, adding, tablet>>

claimIfPending(u) ==
    /\ Step("desk")
    /\ claiming[u].pc = "claim"
    /\ LET s == claiming[u].slot
           won == sessions[s].status = "PENDING"
       IN  /\ sessions' = IF won THEN [sessions EXCEPT ![s] = [@ EXCEPT !.status = "CLAIMED", !.by = u]]
                          ELSE sessions
           /\ claiming' = [claiming EXCEPT ![u] = IF won THEN [@ EXCEPT !.pc = "book"] ELSE NotClaiming]
    /\ UNCHANGED <<rooms, adding, tablet>>

\* createBooking refuses (pilot cohort, court closed, no price): the session stays CLAIMED
ClaimRefused(u) ==
    /\ Fault("desk")
    /\ claiming[u].pc \in {"book", "pending", "set"}
    /\ claiming' = [claiming EXCEPT ![u] = NotClaiming]
    /\ UNCHANGED <<sessions, rooms, adding, tablet>>

createDraft(u, s, kiosk) ==
    rooms' = [rooms EXCEPT ![s] = [@ EXCEPT !.status = "DRAFT", !.owner = u, !.kiosk = kiosk]]

ClaimBooks(u) ==
    /\ Step("desk")
    /\ claiming[u].pc = "book"
    /\ createDraft(u, claiming[u].slot, TRUE)
    /\ claiming' = [claiming EXCEPT ![u].pc = "pending"]
    /\ UNCHANGED <<sessions, adding, tablet>>

ClaimPending(u) ==
    /\ Step("desk")
    /\ claiming[u].pc = "pending"
    /\ rooms' = [rooms EXCEPT ![claiming[u].slot].status = "CHECKOUT_PENDING"]
    /\ claiming' = [claiming EXCEPT ![u].pc = "set"]
    /\ UNCHANGED <<sessions, adding, tablet>>

setBookingId(u) ==
    /\ Step("desk")
    /\ claiming[u].pc = "set"
    /\ sessions' = [sessions EXCEPT ![claiming[u].slot].booked = TRUE]
    /\ claiming' = [claiming EXCEPT ![u] = NotClaiming]
    /\ UNCHANGED <<rooms, adding, tablet>>

-----------------------------------------------------------------------------
(* createBooking from the web, and adminCreate for a client; the quote and *)
(* the pilot cohort decide whether it is called at all                     *)
createBooking(u, s) ==
    /\ Request("desk")
    /\ Free(s)
    /\ createDraft(u, s, FALSE)
    /\ UNCHANGED <<sessions, claiming, adding, tablet>>

\* the second write of createBooking
DraftPending(s) ==
    /\ Step("desk")
    /\ rooms[s].status = "DRAFT" /\ ~rooms[s].kiosk
    /\ rooms' = [rooms EXCEPT ![s].status = "CHECKOUT_PENDING"]
    /\ UNCHANGED <<sessions, claiming, adding, tablet>>

-----------------------------------------------------------------------------
(* addParticipant and adminAddParticipant: the status and the places are   *)
(* read, then the row is written                                           *)
Open(s) == rooms[s].status \in {"DRAFT", "CHECKOUT_PENDING"}
HasRoom(s) == Cardinality(rooms[s].players) + 1 < Capacity

addParticipant(w, s, p) ==
    /\ Request("desk")
    /\ adding[w] = NotAdding
    /\ Open(s) /\ HasRoom(s)
    /\ p \notin rooms[s].players /\ \A v \in Writers : adding[v].player # p
    /\ adding' = [adding EXCEPT ![w] = [slot |-> s, player |-> p]]
    /\ UNCHANGED <<sessions, rooms, claiming, tablet>>

ParticipantAdded(w) ==
    /\ Step("desk")
    /\ adding[w] # NotAdding
    /\ rooms' = [rooms EXCEPT ![adding[w].slot].players = @ \cup {adding[w].player}]
    /\ adding' = [adding EXCEPT ![w] = NotAdding]
    /\ UNCHANGED <<sessions, claiming, tablet>>

\* removeParticipant and adminRemoveParticipant
removeParticipant(s, p) ==
    /\ Request("desk")
    /\ Open(s) /\ p \in rooms[s].players
    /\ rooms' = [rooms EXCEPT ![s].players = @ \ {p}]
    /\ UNCHANGED <<sessions, claiming, adding, tablet>>

-----------------------------------------------------------------------------
(* The payment confirms the booking; cancelBooking and adminCancel claim   *)
(* the transition, then Doinsport accepts or refuses                       *)
Paid(s) ==
    /\ Request("desk")
    /\ rooms[s].status = "CHECKOUT_PENDING"
    /\ rooms' = [rooms EXCEPT ![s] = [@ EXCEPT !.status = "CONFIRMED", !.sync = "CONFIRMED"]]
    /\ UNCHANGED <<sessions, claiming, adding, tablet>>

cancelBooking(s) ==
    /\ Request("desk")
    /\ rooms[s].status = "CONFIRMED"
    /\ rooms' = [rooms EXCEPT ![s] = [@ EXCEPT !.status = "CANCEL_PENDING", !.canceling = TRUE]]
    /\ UNCHANGED <<sessions, claiming, adding, tablet>>

CancelAccepted(s) ==
    /\ Step("desk")
    /\ rooms[s].canceling
    /\ rooms' = [rooms EXCEPT ![s] = [@ EXCEPT !.status = "CANCELED", !.sync = "CANCELED",
                                               !.canceling = FALSE]]
    /\ UNCHANGED <<sessions, claiming, adding, tablet>>

CancelRefused(s) ==
    /\ Fault("desk")
    /\ rooms[s].canceling
    /\ rooms' = [rooms EXCEPT ![s] = [@ EXCEPT !.sync = "CANCEL_PENDING", !.canceling = FALSE]]
    /\ UNCHANGED <<sessions, claiming, adding, tablet>>

\* forceResync marks the mapping for a job that does not exist yet
forceResync(s) ==
    /\ Request("desk")
    /\ rooms[s].sync # "none"
    /\ rooms' = [rooms EXCEPT ![s].sync = "PENDING"]
    /\ UNCHANGED <<sessions, claiming, adding, tablet>>

DeskNext ==
    \/ revokeTablet \/ TabletSilent
    \/ \E s \in Slots :
        \/ createSession(s) \/ SessionDeadline(s) \/ cancelSession(s) \/ DraftPending(s)
        \/ Paid(s) \/ cancelBooking(s) \/ CancelAccepted(s) \/ CancelRefused(s) \/ forceResync(s)
        \/ \E u \in Phones : Scan(u, s) \/ createBooking(u, s)
        \/ \E p \in Players :
            \/ removeParticipant(s, p)
            \/ \E w \in Writers : addParticipant(w, s, p)
    \/ \E u \in Phones :
        claimIfPending(u) \/ ClaimRefused(u) \/ ClaimBooks(u) \/ ClaimPending(u) \/ setBookingId(u)
    \/ \E w \in Writers : ParticipantAdded(w)

DeskSpec == BaseInit /\ DeskInit /\ [][DeskNext]_<<baseVars, deskVars>>

-----------------------------------------------------------------------------
(* One session makes one booking, of the telephone that claimed it, however *)
(* many scan it; a session the tablet canceled makes none                   *)
(* (kiosk-checkout-session.service.ts:60-84).                               *)
OneBookingPerSession ==
    \A s \in Slots :
        /\ rooms[s].kiosk => sessions[s].status = "CLAIMED" /\ rooms[s].owner = sessions[s].by
        /\ sessions[s].booked => rooms[s].kiosk
        /\ \A u, v \in Phones :
            claiming[u].pc \in {"book", "pending", "set"} /\ claiming[v].pc \in {"book", "pending", "set"}
            /\ claiming[u].slot = s /\ claiming[v].slot = s => u = v

\* the requests that are about to add a player
AddsTo(s) == {w \in Writers : adding[w].slot = s}

(* The organizer and the participants exceed the capacity of the court by   *)
(* at most the requests that ran beside the one that filled it: with one    *)
(* writer, never (bookings.service.ts:112-116).                             *)
CapacityKept ==
    \A s \in Slots :
        rooms[s].players # {} =>
            Cardinality(rooms[s].players) + 1 <= Capacity + Cardinality(Writers) - 1

(* What the desk promises: one booking for each session of the tablet, and *)
(* no court fuller than the requests that ran at once can make it          *)
(* (kiosk-checkout-session.service.ts:60-84, bookings.service.ts:112-116). *)
DeskKept == OneBookingPerSession /\ CapacityKept
=============================================================================
