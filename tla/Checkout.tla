------------------------------ MODULE Checkout ------------------------------
(***************************************************************************)
(* One booking paid in full (paymentMode FULL): CheckoutService and the    *)
(* Stripe webhook route, with the cancellations of BookingsService and     *)
(* BookingsAdminService.  Each member of Procs is an HTTP handler; it      *)
(* performs one database call, Stripe call or Doinsport call per step, and *)
(* any other handler may run in between.                                   *)
(*                                                                         *)
(* The credits ledger is reduced here to the holds of this booking (see    *)
(* WalletLedger), Stripe to the one PaymentIntent that the idempotency key *)
(* of the booking can create, and Doinsport to the slot.  Access codes and *)
(* notifications follow the confirmation and never influence it.           *)
(***************************************************************************)
EXTENDS Integers, FiniteSets, Functions

CONSTANTS
    Procs,          \* concurrent handlers
    Holds,          \* wallet_holds rows this booking may get
    NoHold,
    Price,          \* priceTotalCents
    Applied,        \* credits a request may apply, a subset of 0..Price
    MethodGiven,    \* whether a request brings a payment method
    LegacyModes,    \* the values of LEGACY_WRITE_ENABLED, fixed at startup
    FaultPoints,    \* calls that may raise an exception
    MaxFaults,      \* bound: exceptions, lost answers and crashes
    MaxRequests,    \* bound: checkout and cancellation requests
    MaxDeliveries,  \* bound: deliveries of one webhook event
    MaxAttempts     \* bound: authentications by the customer

ASSUME CheckoutAssumption ==
    /\ NoHold \notin Holds
    /\ Price \in Nat \ {0}
    /\ Applied \subseteq 0..Price
    /\ MethodGiven \subseteq BOOLEAN
    /\ LegacyModes \subseteq BOOLEAN
    /\ MaxFaults \in Nat /\ MaxRequests \in Nat
    /\ MaxDeliveries \in Nat /\ MaxAttempts \in Nat

VARIABLES
    writes,     \* config.LEGACY_WRITE_ENABLED
    booking,    \* bookings.status
    mapping,    \* legacy_booking_mappings: sync status, legacyBookingId set
    holds,      \* wallet_holds of the booking
    payment,    \* payments.status, "absent" before the row is inserted
    stripe,     \* the PaymentIntent: status, amount, first answer
    slot,       \* who holds the slot in Doinsport
    accepted,   \* number of bookings Doinsport accepted from us (history)
    events,     \* webhook events: deliveries left, processedAt set
    task,       \* what each handler is doing
    requests, faults, attempts      \* counters for the bounds

external == <<writes, stripe, slot, accepted, events, attempts>>
rows == <<writes, booking, mapping, holds, payment>>
vars == <<writes, booking, mapping, holds, payment, stripe, slot, accepted, events,
          task, requests, faults, attempts>>

-----------------------------------------------------------------------------
BookingStatus == {"DRAFT", "CHECKOUT_PENDING", "PAYMENT_PENDING", "CONFIRMED",
                  "CANCEL_PENDING", "CANCELED", "FAILED", "MANUAL_REVIEW"}
PaymentStatus == {"absent", "REQUIRES_ACTION", "AUTHORIZED", "SUCCEEDED",
                  "CANCELED", "FAILED"}
Answer == {"none", "requires_action", "requires_capture", "failed", "error"}
IntentStatus == {"none", "requires_action", "requires_method", "requires_capture",
                 "succeeded", "canceled"}
SyncStatus == {"none", "PENDING", "CONFIRMED", "CONFIRMATION_UNKNOWN", "FAILED",
               "CANCEL_PENDING", "CANCELED"}
Event == {"capturable", "failed"}

HoldRow == [status : {"absent", "ACTIVE", "RELEASED", "CAPTURED"}, amount : 0..Price]

\* calls of proceedAfterAuthorization, then of the branches that end it
Proceeding == {"load", "mapping", "legacy", "link", "capture", "recordSuccess",
               "captureHold", "confirm", "void", "voided", "collisionRelease",
               "collisionFail", "collisionMapping", "review", "reviewMapping",
               "captureFailed", "captureReview"}
CheckoutPc == {"credits", "giveUp", "reopen", "authorize", "insertPayment",
               "declinedRelease", "declinedFail", "catch"}
WebhookPc == {"receive", "findHold", "markAuthorized", "repend", "failPayment",
              "failFindHold", "failRelease", "failRead", "failBooking", "ack"}
CancelPc == {"cancelClaim", "cancelLegacy", "cancelMapping", "cancelUnknown", "cancelDone"}
Pc == {"idle", "claim", "catchRelease"} \cup
      Proceeding \cup CheckoutPc \cup WebhookPc \cup CancelPc

Task == [op : {"none", "checkout", "capturable", "failed", "cancel"},
         pc : Pc,
         method : BOOLEAN,          \* paymentMethodId given
         hold : Holds \cup {NoHold},
         applied : 0..Price,        \* walletAppliedCents
         card : BOOLEAN,            \* the legs include the PaymentIntent
         answer : Answer]           \* paymentRef.status

Idle == [op |-> "none", pc |-> "idle", method |-> FALSE, hold |-> NoHold,
         applied |-> 0, card |-> FALSE, answer |-> "none"]

Init ==
    /\ writes \in LegacyModes
    /\ booking = "DRAFT"
    /\ mapping = [sync |-> "none", linked |-> FALSE]
    /\ holds = [h \in Holds |-> [status |-> "absent", amount |-> 0]]
    /\ payment = "absent"
    /\ stripe = [status |-> "none", amount |-> 0, answer |-> "none"]
    /\ slot = "free"
    /\ accepted = 0
    /\ events = [e \in Event |-> [left |-> 0, processed |-> FALSE]]
    /\ task = [p \in Procs |-> Idle]
    /\ requests = 0 /\ faults = 0 /\ attempts = 0

Become(p, t) == task' = [task EXCEPT ![p] = t]
Goto(p, pc) == Become(p, [task[p] EXCEPT !.pc = pc])
At(p, pc) == task[p].pc = pc

\* An exception leaves the handler: checkout catches it, the webhook route
\* records it (markEventFailed) and answers 200, the others answer an error.
Thrown(p) == IF task[p].op = "checkout" THEN [task[p] EXCEPT !.pc = "catch"] ELSE Idle
Throw(p) == Become(p, Thrown(p))

Quietly == UNCHANGED <<requests, faults>>

\* releaseHold: the conditional transition of the ledger
Released(h) ==
    IF h # NoHold /\ holds[h].status = "ACTIVE"
    THEN [holds EXCEPT ![h] = [@ EXCEPT !.status = "RELEASED"]] ELSE holds

-----------------------------------------------------------------------------
(***************************************************************************)
(* BookingsService.createBooking inserts a DRAFT and then opens it.        *)
(***************************************************************************)
OpenBooking(p) ==
    /\ At(p, "idle") /\ booking = "DRAFT"
    /\ booking' = "CHECKOUT_PENDING"
    /\ UNCHANGED <<mapping, holds, payment, external, task>> /\ Quietly

(***************************************************************************)
(* CheckoutService.checkout, up to the authorization.                      *)
(***************************************************************************)
StartCheckout(p) ==
    /\ At(p, "idle") /\ requests < MaxRequests
    /\ booking = "CHECKOUT_PENDING"
    /\ requests' = requests + 1
    /\ \E m \in MethodGiven :
         Become(p, [Idle EXCEPT !.op = "checkout", !.pc = "claim", !.method = m])
    /\ UNCHANGED <<rows, external, faults>>

\* mutant: findById followed by updateStatus
ClaimBlindly(p) ==
    /\ At(p, "claim")
    /\ booking' = "PAYMENT_PENDING"
    /\ Goto(p, "credits")
    /\ UNCHANGED <<mapping, holds, payment, external>> /\ Quietly

Claim(p) ==
    /\ At(p, "claim")
    /\ IF booking = "CHECKOUT_PENDING"
       THEN booking' = "PAYMENT_PENDING" /\ Goto(p, "credits")
       ELSE UNCHANGED booking /\ Become(p, Idle)
    /\ UNCHANGED <<mapping, holds, payment, external>> /\ Quietly

\* where checkout goes once the credits are reserved
AfterCredits(t) ==
    IF t.applied = Price THEN "load"
    ELSE IF t.method THEN "authorize"
    ELSE IF t.hold # NoHold THEN "giveUp" ELSE "reopen"

ReserveCredits(p) ==
    /\ At(p, "credits")
    /\ \/ \E a \in Applied \ {0}, h \in Holds :
            LET t == [task[p] EXCEPT !.hold = h, !.applied = a]
            IN  /\ holds[h].status = "absent"
                /\ holds' = [holds EXCEPT ![h] = [status |-> "ACTIVE", amount |-> a]]
                /\ Become(p, [t EXCEPT !.pc = AfterCredits(t)])
       \/ /\ 0 \in Applied      \* none asked for, or none available
          /\ UNCHANGED holds
          /\ Goto(p, AfterCredits(task[p]))
    /\ UNCHANGED <<booking, mapping, payment, external>> /\ Quietly

\* createHold refuses: the credits went to another reservation meanwhile
RefuseCredits(p) ==
    /\ At(p, "credits") /\ Applied # {0}
    /\ Throw(p)
    /\ UNCHANGED <<rows, external>> /\ Quietly

GiveUp(p) ==
    /\ At(p, "giveUp")
    /\ holds' = Released(task[p].hold)
    /\ Goto(p, "reopen")
    /\ UNCHANGED <<booking, mapping, payment, external>> /\ Quietly

Reopen(p) ==
    /\ At(p, "reopen")
    /\ booking' = "CHECKOUT_PENDING"
    /\ Throw(p)
    /\ UNCHANGED <<mapping, holds, payment, external>> /\ Quietly

(***************************************************************************)
(* Stripe.  The idempotency key is checkout:<booking id>: the first        *)
(* request creates the PaymentIntent, a later one with the same parameters *)
(* gets the first answer again, one with other parameters is refused.      *)
(***************************************************************************)
Emitted(e) == [events EXCEPT ![e] = [@ EXCEPT !.left = MaxDeliveries]]
EmittedFor(answer) ==
    IF answer = "requires_capture" THEN Emitted("capturable") ELSE events

IntentFor(answer) ==
    CASE answer = "requires_action"  -> "requires_action"
      [] answer = "requires_capture" -> "requires_capture"
      [] OTHER                       -> "requires_method"

Authorize(p) ==
    /\ At(p, "authorize")
    /\ IF stripe.status = "none"
       THEN \E a \in Answer \ {"none"} :
              /\ stripe' = [status |-> IntentFor(a), amount |-> Price - task[p].applied,
                            answer |-> a]
              /\ events' = EmittedFor(a)
              /\ Become(p, IF a = "error" THEN Thrown(p)
                           ELSE [task[p] EXCEPT !.pc = "insertPayment", !.answer = a])
       ELSE /\ UNCHANGED <<stripe, events>>
            /\ \/ Throw(p)
               \/ /\ stripe.amount = Price - task[p].applied
                  /\ stripe.answer # "error"
                  /\ Become(p, [task[p] EXCEPT !.pc = "insertPayment",
                                               !.answer = stripe.answer])
    /\ UNCHANGED <<rows, slot, accepted, attempts>> /\ Quietly

toTransactionStatus(answer) ==
    CASE answer = "requires_action"  -> "REQUIRES_ACTION"
      [] answer = "requires_capture" -> "AUTHORIZED"
      [] OTHER                       -> "FAILED"

\* providerPaymentId is unique: a second row for the same intent is refused
InsertPayment(p) ==
    LET t == task[p]
    IN  /\ At(p, "insertPayment")
        /\ IF payment # "absent" THEN UNCHANGED payment /\ Throw(p)
           ELSE /\ payment' = toTransactionStatus(t.answer)
                /\ Become(p, IF t.answer = "requires_action" THEN Idle
                             ELSE IF t.answer = "failed"
                             THEN [t EXCEPT !.pc = "declinedRelease"]
                             ELSE [t EXCEPT !.pc = "load", !.card = TRUE])
        /\ UNCHANGED <<booking, mapping, holds, external>> /\ Quietly

DeclinedRelease(p) ==
    /\ At(p, "declinedRelease")
    /\ holds' = Released(task[p].hold)
    /\ Goto(p, "declinedFail")
    /\ UNCHANGED <<booking, mapping, payment, external>> /\ Quietly

DeclinedFail(p) ==
    /\ At(p, "declinedFail")
    /\ booking' = "FAILED"
    /\ Throw(p)
    /\ UNCHANGED <<mapping, holds, payment, external>> /\ Quietly

(***************************************************************************)
(* The catch block of checkout.                                            *)
(***************************************************************************)
\* mutant: updateStatus instead of the conditional transition
CatchBlindly(p) ==
    /\ At(p, "catch")
    /\ booking' = "CHECKOUT_PENDING"
    /\ Goto(p, "catchRelease")
    /\ UNCHANGED <<mapping, holds, payment, external>> /\ Quietly

\* mutant: the status is left as it is
CatchWithoutReset(p) ==
    /\ At(p, "catch")
    /\ Goto(p, "catchRelease")
    /\ UNCHANGED <<rows, external>> /\ Quietly

Catch(p) ==
    /\ At(p, "catch")
    /\ IF booking = "PAYMENT_PENDING"
       THEN booking' = "CHECKOUT_PENDING" /\ Goto(p, "catchRelease")
       ELSE UNCHANGED booking /\ Become(p, Idle)
    /\ UNCHANGED <<mapping, holds, payment, external>> /\ Quietly

CatchRelease(p) ==
    /\ At(p, "catchRelease")
    /\ holds' = Released(task[p].hold)
    /\ Become(p, Idle)
    /\ UNCHANGED <<booking, mapping, payment, external>> /\ Quietly

-----------------------------------------------------------------------------
(***************************************************************************)
(* proceedAfterAuthorization: Doinsport first, then the money, then the    *)
(* confirmation.                                                           *)
(***************************************************************************)
\* mutant: a booking paid by credits only is confirmed at once
FundingForgetsCredits(t) == IF t.card THEN "capture" ELSE "confirm"

Funding(t) == IF t.card THEN "capture" ELSE IF t.hold # NoHold THEN "captureHold" ELSE "confirm"

\* mutant: the money is taken before Doinsport is asked
LoadTakesMoney(p) ==
    /\ At(p, "load")
    /\ Goto(p, Funding(task[p]))
    /\ UNCHANGED <<rows, external>> /\ Quietly

Load(p) ==
    /\ At(p, "load")
    /\ Goto(p, IF ~writes THEN Funding(task[p])
               ELSE IF mapping.sync = "none" THEN "mapping" ELSE "legacy")
    /\ UNCHANGED <<rows, external>> /\ Quietly

\* booking_id is unique in legacy_booking_mappings
CreateMapping(p) ==
    /\ At(p, "mapping")
    /\ IF mapping.sync = "none"
       THEN /\ mapping' = [mapping EXCEPT !.sync = "PENDING"]
            /\ Goto(p, "legacy")
       ELSE UNCHANGED mapping /\ Throw(p)
    /\ UNCHANGED <<booking, holds, payment, external>> /\ Quietly

LegacyAccepts(p) ==
    /\ At(p, "legacy") /\ slot = "free"
    /\ slot' = "ours"
    /\ accepted' = accepted + 1
    /\ Goto(p, "link")
    /\ UNCHANGED <<rows, stripe, events, attempts>> /\ Quietly

\* mutant: the authorization is not voided
LegacyCollidesQuietly(p) ==
    /\ At(p, "legacy") /\ slot # "free"
    /\ Goto(p, "collisionRelease")
    /\ UNCHANGED <<rows, external>> /\ Quietly

LegacyCollides(p) ==
    /\ At(p, "legacy") /\ slot # "free"
    /\ Goto(p, IF task[p].card THEN "void" ELSE "collisionRelease")
    /\ UNCHANGED <<rows, external>> /\ Quietly

LinkMapping(p) ==
    /\ At(p, "link")
    /\ mapping' = [sync |-> "CONFIRMED", linked |-> TRUE]
    /\ Goto(p, Funding(task[p]))
    /\ UNCHANGED <<booking, holds, payment, external>> /\ Quietly

\* the slot is taken: free the authorization and the hold, fail the booking
VoidAuthorization(p) ==
    /\ At(p, "void")
    /\ IF stripe.status \in {"requires_action", "requires_method", "requires_capture"}
       THEN /\ stripe' = [stripe EXCEPT !.status = "canceled"]
            /\ Goto(p, "voided")
       ELSE UNCHANGED stripe /\ Throw(p)
    /\ UNCHANGED <<rows, slot, accepted, events, attempts>> /\ Quietly

RecordVoided(p) ==
    /\ At(p, "voided")
    /\ payment' = "CANCELED"
    /\ Goto(p, "collisionRelease")
    /\ UNCHANGED <<booking, mapping, holds, external>> /\ Quietly

CollisionRelease(p) ==
    /\ At(p, "collisionRelease")
    /\ holds' = Released(task[p].hold)
    /\ Goto(p, "collisionFail")
    /\ UNCHANGED <<booking, mapping, payment, external>> /\ Quietly

CollisionFail(p) ==
    /\ At(p, "collisionFail")
    /\ booking' = "FAILED"
    /\ Goto(p, "collisionMapping")
    /\ UNCHANGED <<mapping, holds, payment, external>> /\ Quietly

CollisionMapping(p) ==
    /\ At(p, "collisionMapping")
    /\ mapping' = [mapping EXCEPT !.sync = "FAILED"]
    /\ Throw(p)
    /\ UNCHANGED <<booking, holds, payment, external>> /\ Quietly

\* any other error: nothing is freed, an administrator decides
\* mutant: the hold is released as after a refusal
ReviewAsRefusal(p) ==
    /\ At(p, "review")
    /\ booking' = "MANUAL_REVIEW"
    /\ holds' = Released(task[p].hold)
    /\ Goto(p, "reviewMapping")
    /\ UNCHANGED <<mapping, payment, external>> /\ Quietly

Review(p) ==
    /\ At(p, "review")
    /\ booking' = "MANUAL_REVIEW"
    /\ Goto(p, "reviewMapping")
    /\ UNCHANGED <<mapping, holds, payment, external>> /\ Quietly

ReviewMapping(p) ==
    /\ At(p, "reviewMapping")
    /\ mapping' = [mapping EXCEPT !.sync = "CONFIRMATION_UNKNOWN"]
    /\ Throw(p)
    /\ UNCHANGED <<booking, holds, payment, external>> /\ Quietly

CaptureIntent(p) ==
    /\ At(p, "capture")
    /\ IF stripe.status = "requires_capture"
       THEN /\ stripe' = [stripe EXCEPT !.status = "succeeded"]
            /\ Goto(p, "recordSuccess")
       ELSE UNCHANGED stripe /\ Goto(p, "captureFailed")
    /\ UNCHANGED <<rows, slot, accepted, events, attempts>> /\ Quietly

CaptureFailed(p) ==
    /\ At(p, "captureFailed")
    /\ payment' = "FAILED"
    /\ Goto(p, "captureReview")
    /\ UNCHANGED <<booking, mapping, holds, external>> /\ Quietly

CaptureReview(p) ==
    /\ At(p, "captureReview")
    /\ booking' = "MANUAL_REVIEW"
    /\ Throw(p)
    /\ UNCHANGED <<mapping, holds, payment, external>> /\ Quietly

RecordSuccess(p) ==
    /\ At(p, "recordSuccess")
    /\ payment' = "SUCCEEDED"
    /\ Goto(p, IF task[p].hold # NoHold THEN "captureHold" ELSE "confirm")
    /\ UNCHANGED <<booking, mapping, holds, external>> /\ Quietly

\* captureHold does nothing, without an error, when the hold is not ACTIVE
Captured(h) ==
    IF holds[h].status = "ACTIVE"
    THEN [holds EXCEPT ![h] = [@ EXCEPT !.status = "CAPTURED"]] ELSE holds

CaptureHold(p) ==
    /\ At(p, "captureHold")
    /\ holds' = Captured(task[p].hold)
    /\ Goto(p, "confirm")
    /\ UNCHANGED <<booking, mapping, payment, external>> /\ Quietly

Confirm(p) ==
    /\ At(p, "confirm")
    /\ booking' = "CONFIRMED"
    /\ IF task[p].op = "checkout" THEN Become(p, Idle) ELSE Goto(p, "ack")
    /\ UNCHANGED <<mapping, holds, payment, external>> /\ Quietly

-----------------------------------------------------------------------------
(***************************************************************************)
(* The webhook route: an event whose processedAt is set is skipped, any    *)
(* other delivery is handled; a failure leaves processedAt unset but the   *)
(* answer is 200, so Stripe does not retry.                                *)
(***************************************************************************)
Sent(event) == [event EXCEPT !.left = event.left - 1]

Deliver(p) ==
    \E e \in Event :
        /\ At(p, "idle") /\ events[e].left > 0
        /\ events' = [events EXCEPT ![e] = Sent(@)]
        /\ IF events[e].processed THEN UNCHANGED task
           ELSE Become(p, [Idle EXCEPT !.op = e, !.pc = "receive"])
        /\ UNCHANGED <<rows, stripe, slot, accepted, attempts>> /\ Quietly

Ack(p) ==
    /\ At(p, "ack")
    /\ events' = [events EXCEPT ![task[p].op] = [@ EXCEPT !.processed = TRUE]]
    /\ Become(p, Idle)
    /\ UNCHANGED <<rows, stripe, slot, accepted, attempts>> /\ Quietly

\* continueAfterAuthorizationConfirmed
\* mutant: the status of the payment is not looked at
ReceiveCapturableBlindly(p) ==
    /\ At(p, "receive") /\ task[p].op = "capturable"
    /\ Goto(p, IF payment # "absent" THEN "findHold" ELSE "ack")
    /\ UNCHANGED <<rows, external>> /\ Quietly

ReceiveCapturable(p) ==
    /\ At(p, "receive") /\ task[p].op = "capturable"
    /\ Goto(p, IF payment = "REQUIRES_ACTION" THEN "findHold" ELSE "ack")
    /\ UNCHANGED <<rows, external>> /\ Quietly

ActiveHolds == {h \in Holds : holds[h].status = "ACTIVE"}
FoundHold == IF ActiveHolds = {} THEN {NoHold} ELSE ActiveHolds

FindHold(p) ==
    /\ At(p, "findHold")
    /\ \E h \in FoundHold :
         Become(p, [task[p] EXCEPT !.pc = "markAuthorized", !.hold = h, !.card = TRUE])
    /\ UNCHANGED <<rows, external>> /\ Quietly

MarkAuthorized(p) ==
    /\ At(p, "markAuthorized")
    /\ payment' = "AUTHORIZED"
    /\ Goto(p, "repend")
    /\ UNCHANGED <<booking, mapping, holds, external>> /\ Quietly

Repend(p) ==
    /\ At(p, "repend")
    /\ booking' = "PAYMENT_PENDING"
    /\ Goto(p, "load")
    /\ UNCHANGED <<mapping, holds, payment, external>> /\ Quietly

\* handlePaymentFailedViaWebhook
ReceiveFailed(p) ==
    /\ At(p, "receive") /\ task[p].op = "failed"
    /\ Goto(p, IF payment \in {"absent", "SUCCEEDED", "FAILED"} THEN "ack" ELSE "failPayment")
    /\ UNCHANGED <<rows, external>> /\ Quietly

FailPayment(p) ==
    /\ At(p, "failPayment")
    /\ payment' = "FAILED"
    /\ Goto(p, "failFindHold")
    /\ UNCHANGED <<booking, mapping, holds, external>> /\ Quietly

FailFindHold(p) ==
    /\ At(p, "failFindHold")
    /\ \E h \in FoundHold : Become(p, [task[p] EXCEPT !.pc = "failRelease", !.hold = h])
    /\ UNCHANGED <<rows, external>> /\ Quietly

FailRelease(p) ==
    /\ At(p, "failRelease")
    /\ holds' = Released(task[p].hold)
    /\ Goto(p, "failRead")
    /\ UNCHANGED <<booking, mapping, payment, external>> /\ Quietly

FailRead(p) ==
    /\ At(p, "failRead")
    /\ Goto(p, IF booking \in {"FAILED", "CANCELED", "CONFIRMED"} THEN "ack" ELSE "failBooking")
    /\ UNCHANGED <<rows, external>> /\ Quietly

FailBooking(p) ==
    /\ At(p, "failBooking")
    /\ booking' = "FAILED"
    /\ Goto(p, "ack")
    /\ UNCHANGED <<mapping, holds, payment, external>> /\ Quietly

-----------------------------------------------------------------------------
(***************************************************************************)
(* cancelBooking and adminCancel.                                          *)
(***************************************************************************)
StartCancel(p) ==
    /\ At(p, "idle") /\ requests < MaxRequests
    /\ booking = "CONFIRMED"
    /\ requests' = requests + 1
    \* card stands for the legacyBookingId that was read with the booking
    /\ Become(p, [Idle EXCEPT !.op = "cancel", !.pc = "cancelClaim",
                              !.card = mapping.linked /\ writes])
    /\ UNCHANGED <<rows, external, faults>>

\* mutant: updateStatus instead of the conditional transition
CancelClaimBlindly(p) ==
    /\ At(p, "cancelClaim")
    /\ booking' = "CANCEL_PENDING"
    /\ Goto(p, IF task[p].card THEN "cancelLegacy" ELSE "cancelDone")
    /\ UNCHANGED <<mapping, holds, payment, external>> /\ Quietly

CancelClaim(p) ==
    /\ At(p, "cancelClaim")
    /\ IF booking = "CONFIRMED"
       THEN /\ booking' = "CANCEL_PENDING"
            /\ Goto(p, IF task[p].card THEN "cancelLegacy" ELSE "cancelDone")
       ELSE UNCHANGED booking /\ Become(p, Idle)
    /\ UNCHANGED <<mapping, holds, payment, external>> /\ Quietly

CancelLegacy(p) ==
    /\ At(p, "cancelLegacy")
    /\ slot' = IF slot = "ours" THEN "free" ELSE slot
    /\ Goto(p, "cancelMapping")
    /\ UNCHANGED <<rows, stripe, accepted, events, attempts>> /\ Quietly

CancelMapping(p) ==
    /\ At(p, "cancelMapping")
    /\ mapping' = [mapping EXCEPT !.sync = "CANCELED"]
    /\ Goto(p, "cancelDone")
    /\ UNCHANGED <<booking, holds, payment, external>> /\ Quietly

\* Doinsport refused: the booking stays CANCEL_PENDING, no job resumes it
CancelUnknown(p) ==
    /\ At(p, "cancelUnknown")
    /\ mapping' = [mapping EXCEPT !.sync = "CANCEL_PENDING"]
    /\ Become(p, Idle)
    /\ UNCHANGED <<booking, holds, payment, external>> /\ Quietly

CancelDone(p) ==
    /\ At(p, "cancelDone")
    /\ booking' = "CANCELED"
    /\ Become(p, Idle)
    /\ UNCHANGED <<mapping, holds, payment, external>> /\ Quietly

-----------------------------------------------------------------------------
(***************************************************************************)
(* The world outside: another club customer takes the slot, the payer      *)
(* passes or fails 3-D Secure, possibly after a failed attempt.            *)
(***************************************************************************)
SlotTaken ==
    /\ slot = "free" /\ accepted = 0
    /\ slot' = "foreign"
    /\ UNCHANGED <<rows, stripe, accepted, events, attempts, task>> /\ Quietly

\* the payer has the client secret once a handler has recorded the answer that
\* asks for an action, and returned it
CanAuthenticate ==
    /\ stripe.answer = "requires_action" /\ payment # "absent"
    /\ stripe.status \in {"requires_action", "requires_method"}
    /\ attempts < MaxAttempts

Authenticate ==
    /\ CanAuthenticate
    /\ stripe' = [stripe EXCEPT !.status = "requires_capture"]
    /\ events' = Emitted("capturable")
    /\ attempts' = attempts + 1
    /\ UNCHANGED <<rows, slot, accepted, task>> /\ Quietly

FailAuthentication ==
    /\ CanAuthenticate
    /\ stripe' = [stripe EXCEPT !.status = "requires_method"]
    /\ events' = Emitted("failed")
    /\ attempts' = attempts + 1
    /\ UNCHANGED <<rows, slot, accepted, task>> /\ Quietly

(***************************************************************************)
(* Faults: a call raises an exception without effect; a call takes effect  *)
(* and its answer is lost; the server stops.                               *)
(***************************************************************************)
AfterException(p) ==
    LET pc == task[p].pc
    IN  CASE pc \in {"legacy", "link"} -> [task[p] EXCEPT !.pc = "review"]
          [] pc = "capture" -> [task[p] EXCEPT !.pc = "captureFailed"]
          [] pc \in {"cancelLegacy", "cancelMapping"} -> [task[p] EXCEPT !.pc = "cancelUnknown"]
          [] pc \in {"claim", "catch", "catchRelease"} -> Idle
          [] OTHER -> Thrown(p)

Fault(p) ==
    /\ task[p].pc \in FaultPoints /\ faults < MaxFaults
    /\ faults' = faults + 1
    /\ UNCHANGED requests

Exception(p) ==
    /\ Fault(p)
    /\ Become(p, AfterException(p))
    /\ UNCHANGED <<rows, external>>

LostAuthorization(p) ==
    /\ At(p, "authorize") /\ stripe.status = "none" /\ Fault(p)
    /\ \E a \in {"requires_action", "requires_capture"} :
         /\ stripe' = [status |-> IntentFor(a), amount |-> Price - task[p].applied,
                       answer |-> a]
         /\ events' = EmittedFor(a)
    /\ Throw(p)
    /\ UNCHANGED <<rows, slot, accepted, attempts>>

LostAcceptance(p) ==
    /\ At(p, "legacy") /\ slot = "free" /\ Fault(p)
    /\ slot' = "ours"
    /\ accepted' = accepted + 1
    /\ Goto(p, "review")
    /\ UNCHANGED <<rows, stripe, events, attempts>>

LostCapture(p) ==
    /\ At(p, "capture") /\ stripe.status = "requires_capture" /\ Fault(p)
    /\ stripe' = [stripe EXCEPT !.status = "succeeded"]
    /\ Goto(p, "captureFailed")
    /\ UNCHANGED <<rows, slot, accepted, events, attempts>>

LostCancellation(p) ==
    /\ At(p, "cancelLegacy") /\ slot = "ours" /\ Fault(p)
    /\ slot' = "free"
    /\ Goto(p, "cancelUnknown")
    /\ UNCHANGED <<rows, stripe, accepted, events, attempts>>

\* captureHold throws after its transition (FailCapture of WalletLedger)
LostHoldCapture(p) ==
    /\ At(p, "captureHold") /\ Fault(p)
    /\ holds' = Captured(task[p].hold)
    /\ Throw(p)
    /\ UNCHANGED <<booking, mapping, payment, external>>

Crash ==
    /\ "crash" \in FaultPoints /\ faults < MaxFaults
    /\ \E p \in Procs : ~At(p, "idle")
    /\ task' = [p \in Procs |-> Idle]
    /\ faults' = faults + 1
    /\ UNCHANGED <<rows, external, requests>>

-----------------------------------------------------------------------------
Proceed(p) ==
    \/ Load(p) \/ CreateMapping(p) \/ LegacyAccepts(p) \/ LegacyCollides(p)
    \/ LinkMapping(p) \/ VoidAuthorization(p) \/ RecordVoided(p)
    \/ CollisionRelease(p) \/ CollisionFail(p) \/ CollisionMapping(p)
    \/ Review(p) \/ ReviewMapping(p) \/ CaptureIntent(p) \/ CaptureFailed(p)
    \/ CaptureReview(p) \/ RecordSuccess(p) \/ CaptureHold(p) \/ Confirm(p)

CheckoutStep(p) ==
    \/ Claim(p) \/ ReserveCredits(p) \/ RefuseCredits(p) \/ GiveUp(p) \/ Reopen(p)
    \/ Authorize(p) \/ InsertPayment(p) \/ DeclinedRelease(p) \/ DeclinedFail(p)
    \/ Catch(p) \/ CatchRelease(p)

WebhookStep(p) ==
    \/ ReceiveCapturable(p) \/ FindHold(p) \/ MarkAuthorized(p) \/ Repend(p)
    \/ ReceiveFailed(p) \/ FailPayment(p) \/ FailFindHold(p) \/ FailRelease(p)
    \/ FailRead(p) \/ FailBooking(p) \/ Ack(p)

CancelStep(p) ==
    \/ CancelClaim(p) \/ CancelLegacy(p) \/ CancelMapping(p)
    \/ CancelUnknown(p) \/ CancelDone(p)

Request(p) == OpenBooking(p) \/ StartCheckout(p) \/ StartCancel(p)

Handle(p) == Proceed(p) \/ CheckoutStep(p) \/ WebhookStep(p) \/ CancelStep(p)

Faulty(p) ==
    \/ Exception(p) \/ LostAuthorization(p) \/ LostAcceptance(p)
    \/ LostCapture(p) \/ LostHoldCapture(p) \/ LostCancellation(p)

Environment == SlotTaken \/ Authenticate \/ FailAuthentication

Next ==
    \/ \E p \in Procs : Request(p) \/ Deliver(p) \/ Handle(p) \/ Faulty(p)
    \/ Environment
    \/ Crash

Spec == Init /\ [][Next]_vars

\* A handler that has started goes on (Node runs every pending continuation)
\* and Stripe delivers the events it has emitted.  The payer owes nothing.
Fairness == \A p \in Procs : WF_vars(Handle(p)) /\ WF_vars(Deliver(p))

FairSpec == Spec /\ Fairness

-----------------------------------------------------------------------------
TypeOK ==
    /\ writes \in BOOLEAN
    /\ booking \in BookingStatus
    /\ mapping \in [sync : SyncStatus, linked : BOOLEAN]
    /\ holds \in [Holds -> HoldRow]
    /\ payment \in PaymentStatus
    /\ stripe \in [status : IntentStatus, amount : 0..Price, answer : Answer]
    /\ slot \in {"free", "ours", "foreign"}
    /\ accepted \in Nat
    /\ events \in [Event -> [left : 0..MaxDeliveries, processed : BOOLEAN]]
    /\ task \in [Procs -> Task]
    /\ requests \in 0..MaxRequests
    /\ faults \in 0..MaxFaults
    /\ attempts \in 0..MaxAttempts

Quiet == \A p \in Procs : At(p, "idle")

\* Two webhook deliveries for the booking are never handled at once.  Nothing
\* in the route orders them: see SuccessIsRemembered, which needs it.
DeliveredApart == \A p, q \in Procs : task[p].op \in Event /\ task[q].op \in Event => p = q

HoldsClaim(p) == task[p].op = "checkout" /\ task[p].pc \notin {"claim", "catchRelease"}

\* "La reclamation atomique garantit qu'une seule passe cree un hold wallet
\* et/ou une autorisation Stripe" (checkout, ADR 0018): never two checkout
\* requests past the claim at the same time.
OnePass == \A p, q \in Procs : HoldsClaim(p) /\ HoldsClaim(q) => p = q

CardPaid == IF stripe.status = "succeeded" THEN stripe.amount ELSE 0
CapturedHolds == {h \in Holds : holds[h].status = "CAPTURED"}
CreditsIn(hs) == SumFunctionOnSet([h \in Holds |-> holds[h].amount], hs)
CreditsPaid == CreditsIn(CapturedHolds)
Sold == {"CONFIRMED", "CANCEL_PENDING", "CANCELED"}

\* paymentStatus PAID: a booking that was confirmed has been paid its exact
\* price, by the card, the credits or both.
PaidExactly == booking \in Sold => CardPaid + CreditsPaid = Price

\* "Capturer seulement si Legacy confirme" (CheckoutService): no money moves
\* before Doinsport accepted the booking.
LegacyBeforeMoney ==
    writes /\ (stripe.status = "succeeded" \/ CapturedHolds # {}) => accepted > 0

CardLocked == IF stripe.status = "requires_capture" THEN stripe.amount ELSE 0
CreditsLocked == CreditsIn(ActiveHolds)

\* "Ne jamais voider/liberer aveuglement" (proceedAfterAuthorization): what was
\* authorized, reserved or taken for a booking in MANUAL_REVIEW still covers its
\* exact price when the administrator looks at it.
ReviewKeepsFunds ==
    Quiet /\ booking = "MANUAL_REVIEW" =>
        CardLocked + CreditsLocked + CardPaid + CreditsPaid = Price

\* Two of the critical alerts of the back office (AlertsService)
capturedWithoutConfirmed ==
    payment = "SUCCEEDED" /\ booking \in {"DRAFT", "CHECKOUT_PENDING", "PAYMENT_PENDING", "FAILED"}
holdsNotReleased == booking = "CANCELED" /\ ActiveHolds # {}

\* A booking refused or reclaimable leaves neither an authorization nor a hold
\* behind ("jamais un paiement orphelin", ADR 0004), once the handlers are done.
\* Then the alerts of the back office are off: no payment taken for a booking
\* that is not confirmed, no hold kept by a canceled one (alerts.service.ts:46).
NoOrphan ==
    Quiet =>
        /\ booking = "FAILED" => stripe.status # "requires_capture" /\ ActiveHolds = {}
        /\ ~capturedWithoutConfirmed /\ ~holdsNotReleased

\* A webhook delivered twice has one effect: money that was captured and
\* recorded stays recorded.
SuccessIsRemembered == [][payment = "SUCCEEDED" => payment' = "SUCCEEDED"]_vars

\* "Jamais un retour silencieux a CHECKOUT_PENDING alors que Legacy a une
\* reservation reelle" (ADR 0018).
NoSilentReopening == [][booking' = "CHECKOUT_PENDING" => slot' # "ours"]_vars

\* Booking statuses follow the table of booking-state-machine.ts, except that
\* a checkout which could not be completed reopens the booking.
Lifecycle == INSTANCE BookingLifecycle
    WITH status <- booking, Reopens <- {<<"PAYMENT_PENDING", "CHECKOUT_PENDING">>}
FollowsLifecycle == Lifecycle!Spec

\* 3-D Secure is pending: only the payer can go on
AwaitsPayer == payment = "REQUIRES_ACTION" /\ stripe.status = "requires_action"

\* "Jamais de reservation bloquee en PAYMENT_PENDING" (catch block of checkout):
\* a booking leaves that status, or waits for the payer only.
PaymentSettles ==
    booking = "PAYMENT_PENDING" ~> booking # "PAYMENT_PENDING" \/ AwaitsPayer
=============================================================================
