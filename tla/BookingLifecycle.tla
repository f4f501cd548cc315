-------------------------- MODULE BookingLifecycle --------------------------
(***************************************************************************)
(* The booking state machine of booking-state-machine.ts: the table says   *)
(* which status may follow which.  The services rarely consult it          *)
(* (assertTransition is called on creation and on cancellation only), so   *)
(* it is an abstract specification that their writes must implement.       *)
(***************************************************************************)
CONSTANT Reopens    \* pairs <<from, to>> allowed besides the table

VARIABLE status

Statuses == {"DRAFT", "CHECKOUT_PENDING", "LEGACY_HOLD_PENDING", "PAYMENT_PENDING",
             "CONFIRMED", "CANCEL_PENDING", "CANCELED", "COMPLETED", "FAILED",
             "MANUAL_REVIEW"}

TRANSITIONS ==
    [s \in Statuses |->
        CASE s = "DRAFT"               -> {"CHECKOUT_PENDING", "FAILED"}
          [] s = "CHECKOUT_PENDING"    -> {"LEGACY_HOLD_PENDING", "PAYMENT_PENDING",
                                           "FAILED", "MANUAL_REVIEW"}
          [] s = "LEGACY_HOLD_PENDING" -> {"PAYMENT_PENDING", "FAILED", "MANUAL_REVIEW"}
          [] s = "PAYMENT_PENDING"     -> {"CONFIRMED", "FAILED", "MANUAL_REVIEW"}
          [] s = "CONFIRMED"           -> {"CANCEL_PENDING", "COMPLETED", "MANUAL_REVIEW"}
          [] s = "CANCEL_PENDING"      -> {"CANCELED", "MANUAL_REVIEW"}
          [] s = "MANUAL_REVIEW"       -> {"CONFIRMED", "CANCELED", "FAILED"}
          [] OTHER                     -> {}]

CanTransition(from, to) == to \in TRANSITIONS[from] \/ <<from, to>> \in Reopens

Init == status = "DRAFT"

Advance ==
    \E to \in Statuses :
        /\ CanTransition(status, to)
        /\ status' = to

Spec == Init /\ [][Advance]_status
=============================================================================
