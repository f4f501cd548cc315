---------------------------- MODULE SplitPayments ----------------------------
(***************************************************************************)
(* One booking paid in shares (paymentMode SPLIT): SplitCheckoutService,   *)
(* BookingShareService and BookingGuaranteeService, with the cancellation  *)
(* of the booking.  Each member of Procs is an HTTP handler; it performs   *)
(* one database, wallet, Stripe or Doinsport call per step.                *)
(*                                                                         *)
(* The credits of a payer are reduced to the outcome of the debit, those   *)
(* of the organizer to the hold of the guarantee (see WalletLedger), and   *)
(* Stripe to one PaymentIntent for each idempotency key: the organizer's,  *)
(* one for each share, and the one of the regularisation.                  *)
(***************************************************************************)
EXTENDS Integers, FiniteSets, SplitCalculator

CONSTANTS
    Procs,          \* concurrent handlers
    Price,          \* bookingBasePriceCents
    Capacity,       \* court.capacity
    Parties,        \* numbers of participants besides the organizer
    Fees,           \* serviceFeeCents, 0 when the fee is disabled
    LegacyModes,    \* the values of LEGACY_WRITE_ENABLED, fixed at startup
    ShareAnswers,   \* what Stripe may answer to the payment of a share
    Alone,          \* whether the regularisation waits for the payments
    FaultPoints,    \* calls that may raise an exception
    MaxFaults,      \* bound: exceptions and lost answers
    MaxRequests,    \* bound: checkouts and cancellations
    MaxPays,        \* bound: payments of shares started
    MaxRegularisations  \* bound

ASSUME SplitAssumption ==
    /\ Price \in Nat /\ Capacity \in Nat \ {0}
    /\ Parties \subseteq Nat /\ Fees \subseteq Nat
    /\ LegacyModes \subseteq BOOLEAN /\ Alone \in BOOLEAN
    /\ ShareAnswers \subseteq {"requires_action", "requires_capture", "failed", "error"}
    /\ MaxFaults \in Nat /\ MaxRequests \in Nat
    /\ MaxPays \in Nat /\ MaxRegularisations \in Nat

VARIABLES
    bill,       \* configuration and participants, as the checkout reads them
    booking,    \* bookings.status
    legacy,     \* the slot in Doinsport
    organizer,  \* PaymentIntent and payments row of the organizer's share
    guarantee,  \* booking_guarantees
    hold,       \* the wallet_holds row of the guarantee
    shares,     \* booking_shares of the guests; intent, payments row, money taken
    charge,     \* PaymentIntent of the regularisation
    recovered,  \* money taken from the organizer by the regularisation (history)
    task,       \* what each handler is doing
    counts      \* counters for the bounds

vars == <<bill, booking, legacy, organizer, guarantee, hold, shares, charge,
          recovered, task, counts>>

-----------------------------------------------------------------------------
Guests == 1..(Capacity - 1)
Due == computeSplitShares(Price, bill.guests + 1, bill.fee, bill.allocation)
OrganizerShare == Due[1]
DueBy(s) == Due[s + 1]

Guaranteed == SumFunction([s \in 1..bill.guests |-> DueBy(s)])

ShareStatus == {"absent", "OPEN", "INVITED", "PAYMENT_PENDING", "PAID", "COVERED_BY_ORGANIZER"}
Unpaid == {"OPEN", "INVITED", "PAYMENT_PENDING"}
Answer == {"none", "requires_action", "requires_capture", "failed", "error"}
IntentStatus == {"none", "requires_action", "requires_method", "requires_capture",
                 "succeeded", "canceled"}
PaymentStatus == {"absent", "AUTHORIZED", "SUCCEEDED", "CANCELED", "FAILED"}

CheckoutPc == {"claim", "party", "reopen", "authorize", "voidOpen", "insertPayment",
               "voidOrphan", "revert", "guarantee", "guaranteeRow", "legacy", "void",
               "cancelPayment", "releaseEntirely", "markReleased", "fail", "review",
               "capture", "captureFailed", "recordSuccess", "confirm", "createShares", "invite"}
PayPc == {"claimShare", "debit", "authorizeShare", "insertShare", "captureShare",
          "shareFailed", "recordShare", "catch", "markPaid", "findGuarantee",
          "releaseAmount", "reread", "findHold", "reduceHold", "releaseHold", "markGuarantee"}
RegularisePc == {"findUnpaid", "cover", "findRemaining", "takeHold", "charge",
                 "captureCharge", "failGuarantee", "consume"}
CancelPc == {"cancelClaim", "cancelLegacy", "cancelDone"}

Task == [op : {"none", "checkout", "pay", "regularise", "cancel"},
         pc : {"idle"} \cup CheckoutPc \cup PayPc \cup RegularisePc \cup CancelPc,
         kind : {"WALLET_RESERVE", "CARD_OFF_SESSION"},     \* input.guaranteeType
         share : {0} \cup Guests,
         answer : Answer,
         todo : SUBSET Guests,      \* shares left to cover
         amount : Nat]              \* remainingGuaranteedCents, as it was read

Idle == [op |-> "none", pc |-> "idle", kind |-> "WALLET_RESERVE", share |-> 0,
         answer |-> "none", todo |-> {}, amount |-> 0]

NoIntent == [intent |-> "none", answer |-> "none"]

Init ==
    /\ bill \in [writes : LegacyModes, guests : Parties, fee : Fees, allocation : Allocations]
    /\ booking = "CHECKOUT_PENDING"
    /\ legacy = "free"
    /\ organizer = [intent |-> "none", answer |-> "none", payment |-> "absent"]
    /\ guarantee = [status |-> "absent", kind |-> "WALLET_RESERVE", remaining |-> 0]
    /\ hold = [status |-> "absent", amount |-> 0]
    /\ shares = [s \in Guests |-> [status |-> "absent", intent |-> "none", answer |-> "none",
                                   payment |-> "absent", taken |-> 0]]
    /\ charge = [intent |-> "none", answer |-> "none", amount |-> 0]
    /\ recovered = 0
    /\ task = [p \in Procs |-> Idle]
    /\ counts = [requests |-> 0, pays |-> 0, regularisations |-> 0, faults |-> 0]

At(p, pc) == task[p].pc = pc
Become(p, t) == task' = [task EXCEPT ![p] = t]
Goto(p, pc) == Become(p, [task[p] EXCEPT !.pc = pc])
Done(p) == Become(p, Idle)
Count(c) == counts' = [counts EXCEPT ![c] = @ + 1]

Idling == \A p \in Procs : At(p, "idle")
Regularising == \E p \in Procs : task[p].op = "regularise"

\* what a step leaves alone, by the part of the state it writes
payers == <<shares, charge, recovered>>
club == <<booking, legacy, organizer>>
pledge == <<guarantee, hold>>

IntentFor(a) == CASE a = "requires_action"  -> "requires_action"
                  [] a = "requires_capture" -> "requires_capture"
                  [] OTHER                  -> "requires_method"

\* an idempotency key creates one PaymentIntent; later calls get its first
\* answer again, or an error when their parameters differ
Answers(i, possible) == IF i.answer = "none" THEN possible ELSE {i.answer, "error"}
Asked(i, a) == IF i.answer = "none" THEN [i EXCEPT !.intent = IntentFor(a), !.answer = a] ELSE i

Canceled(i) ==
    IF i.intent \in {"requires_action", "requires_capture", "requires_method"}
    THEN [i EXCEPT !.intent = "canceled"] ELSE i

-----------------------------------------------------------------------------
(***************************************************************************)
(* SplitCheckoutService.checkout: the organizer's share is authorized, the *)
(* guarantee is laid down, Doinsport is asked, the share is captured.      *)
(***************************************************************************)
StartCheckout(p) ==
    /\ At(p, "idle") /\ ~(Alone /\ Regularising)
    /\ booking = "CHECKOUT_PENDING"
    /\ counts.requests < MaxRequests /\ Count("requests")
    /\ \E k \in {"WALLET_RESERVE", "CARD_OFF_SESSION"} :
         Become(p, [Idle EXCEPT !.op = "checkout", !.pc = "claim", !.kind = k])
    /\ UNCHANGED <<bill, club, pledge, payers>>

Claim(p) ==
    /\ At(p, "claim")
    /\ IF booking = "CHECKOUT_PENDING"
       THEN booking' = "PAYMENT_PENDING" /\ Goto(p, "party")
       ELSE UNCHANGED booking /\ Done(p)
    /\ UNCHANGED <<bill, legacy, organizer, pledge, payers, counts>>

CheckParty(p) ==
    /\ At(p, "party")
    /\ Goto(p, IF bill.guests \in Guests THEN "authorize" ELSE "reopen")
    /\ UNCHANGED <<bill, club, pledge, payers, counts>>

Reopen(p) ==
    /\ At(p, "reopen")
    /\ booking' = "CHECKOUT_PENDING" /\ Done(p)
    /\ UNCHANGED <<bill, legacy, organizer, pledge, payers, counts>>

Revert(p) ==
    /\ At(p, "revert")
    /\ booking' = IF booking = "PAYMENT_PENDING" THEN "CHECKOUT_PENDING" ELSE booking
    /\ Done(p)
    /\ UNCHANGED <<bill, legacy, organizer, pledge, payers, counts>>

Authorize(p) ==
    /\ At(p, "authorize")
    /\ \E a \in Answers(organizer, Answer \ {"none"}) :
         /\ organizer' = Asked(organizer, a)
         /\ Goto(p, CASE a = "requires_capture" -> "insertPayment"
                      [] a = "requires_action"  -> "voidOpen"
                      [] a = "failed"           -> "reopen"
                      [] OTHER                  -> "revert")
    /\ UNCHANGED <<bill, booking, legacy, pledge, payers, counts>>

\* errors of these two calls are swallowed
VoidOpen(p) ==
    /\ At(p, "voidOpen")
    /\ organizer' = Canceled(organizer) /\ Goto(p, "reopen")
    /\ UNCHANGED <<bill, booking, legacy, pledge, payers, counts>>

\* mutant: the booking is reverted but the authorization stays
VoidOrphanNot(p) ==
    /\ At(p, "voidOrphan")
    /\ Goto(p, "revert")
    /\ UNCHANGED <<bill, club, pledge, payers, counts>>

VoidOrphan(p) ==
    /\ At(p, "voidOrphan")
    /\ organizer' = Canceled(organizer) /\ Goto(p, "revert")
    /\ UNCHANGED <<bill, booking, legacy, pledge, payers, counts>>

InsertPayment(p) ==
    /\ At(p, "insertPayment")
    /\ organizer' = [organizer EXCEPT !.payment = "AUTHORIZED"]
    /\ Goto(p, "guarantee")
    /\ UNCHANGED <<bill, booking, legacy, pledge, payers, counts>>

\* mutant: the money is captured before Doinsport is asked
AfterGuaranteeAtOnce == "capture"

AfterGuarantee == IF bill.writes THEN "legacy" ELSE "capture"

Pledged(k) == [status |-> "ACTIVE", kind |-> k, remaining |-> Guaranteed]

\* createWalletGuarantee: the hold, then the row
ReserveCredits(p) ==
    /\ At(p, "guarantee") /\ task[p].kind = "WALLET_RESERVE"
    /\ hold' = [status |-> "ACTIVE", amount |-> Guaranteed]
    /\ Goto(p, "guaranteeRow")
    /\ UNCHANGED <<bill, club, guarantee, payers, counts>>

\* the wallet of the organizer cannot cover the other shares: nothing catches
\* the error, the authorization and the status stay as they are
RefuseCredits(p) ==
    /\ At(p, "guarantee") /\ task[p].kind = "WALLET_RESERVE"
    /\ Done(p)
    /\ UNCHANGED <<bill, club, pledge, payers, counts>>

InsertGuarantee(p) ==
    /\ \/ At(p, "guaranteeRow")
       \/ At(p, "guarantee") /\ task[p].kind = "CARD_OFF_SESSION"
    /\ guarantee' = Pledged(task[p].kind)
    /\ Goto(p, AfterGuarantee)
    /\ UNCHANGED <<bill, club, hold, payers, counts>>

LegacyAccepts(p) ==
    /\ At(p, "legacy") /\ legacy = "free"
    /\ legacy' = "ours" /\ Goto(p, "capture")
    /\ UNCHANGED <<bill, booking, organizer, pledge, payers, counts>>

\* somebody else took the slot: BOOKING_SLOT_UNAVAILABLE
LegacyCollides(p) ==
    /\ At(p, "legacy") /\ legacy = "free"
    /\ legacy' = "taken" /\ Goto(p, "void")
    /\ UNCHANGED <<bill, booking, organizer, pledge, payers, counts>>

VoidAuthorization(p) ==
    /\ At(p, "void")
    /\ organizer' = Canceled(organizer) /\ Goto(p, "cancelPayment")
    /\ UNCHANGED <<bill, booking, legacy, pledge, payers, counts>>

CancelPayment(p) ==
    /\ At(p, "cancelPayment")
    /\ organizer' = [organizer EXCEPT !.payment = "CANCELED"]
    /\ Goto(p, "releaseEntirely")
    /\ UNCHANGED <<bill, booking, legacy, pledge, payers, counts>>

\* releaseEntirely: the hold if there is one, then the row
ReleaseEntirely(p) ==
    /\ At(p, "releaseEntirely")
    /\ hold' = [hold EXCEPT !.status = IF @ = "ACTIVE" THEN "RELEASED" ELSE @]
    /\ Goto(p, "markReleased")
    /\ UNCHANGED <<bill, club, guarantee, payers, counts>>

MarkReleased(p) ==
    /\ At(p, "markReleased")
    /\ guarantee' = [guarantee EXCEPT !.status = "RELEASED", !.remaining = 0]
    /\ Goto(p, "fail")
    /\ UNCHANGED <<bill, club, hold, payers, counts>>

FailBooking(p) ==
    /\ At(p, "fail")
    /\ booking' = "FAILED" /\ Done(p)
    /\ UNCHANGED <<bill, legacy, organizer, pledge, payers, counts>>

Review(p) ==
    /\ At(p, "review")
    /\ booking' = "MANUAL_REVIEW" /\ Done(p)
    /\ UNCHANGED <<bill, legacy, organizer, pledge, payers, counts>>

\* Stripe refuses to capture an intent which is no longer authorized
Capture(p) ==
    /\ At(p, "capture")
    /\ IF organizer.intent = "requires_capture"
       THEN organizer' = [organizer EXCEPT !.intent = "succeeded"] /\ Goto(p, "recordSuccess")
       ELSE UNCHANGED organizer /\ Goto(p, "captureFailed")
    /\ UNCHANGED <<bill, booking, legacy, pledge, payers, counts>>

CaptureFailed(p) ==
    /\ At(p, "captureFailed")
    /\ organizer' = [organizer EXCEPT !.payment = "FAILED"] /\ Goto(p, "review")
    /\ UNCHANGED <<bill, booking, legacy, pledge, payers, counts>>

RecordSuccess(p) ==
    /\ At(p, "recordSuccess")
    /\ organizer' = [organizer EXCEPT !.payment = "SUCCEEDED"] /\ Goto(p, "confirm")
    /\ UNCHANGED <<bill, booking, legacy, pledge, payers, counts>>

Confirm(p) ==
    /\ At(p, "confirm")
    /\ booking' = "CONFIRMED" /\ Goto(p, "createShares")
    /\ UNCHANGED <<bill, legacy, organizer, pledge, payers, counts>>

\* createMany: the rows of the guests; the organizer's is born PAID
CreateShares(p) ==
    /\ At(p, "createShares")
    /\ shares' = [s \in Guests |-> IF s <= bill.guests
                                   THEN [shares[s] EXCEPT !.status = "OPEN"] ELSE shares[s]]
    /\ Become(p, [task[p] EXCEPT !.pc = "invite", !.share = 1])
    /\ UNCHANGED <<bill, club, pledge, charge, recovered, counts>>

\* setInvitation and the e-mail; a guest without an address gets no link
Invite(p) ==
    LET s == task[p].share
    IN  /\ At(p, "invite")
        /\ \/ shares' = [shares EXCEPT ![s] = [@ EXCEPT !.status = "INVITED"]]
           \/ UNCHANGED shares
        /\ IF s = bill.guests THEN Done(p) ELSE Become(p, [task[p] EXCEPT !.share = s + 1])
        /\ UNCHANGED <<bill, club, pledge, charge, recovered, counts>>

-----------------------------------------------------------------------------
(***************************************************************************)
(* BookingShareService.payShare.  Only an invited guest knows a token, so  *)
(* the status read at the start, which the catch block writes back, is     *)
(* INVITED.  Nothing looks at the booking.                                 *)
(***************************************************************************)
StartPay(p) ==
    /\ At(p, "idle") /\ ~(Alone /\ Regularising)
    /\ counts.pays < MaxPays /\ Count("pays")
    /\ \E s \in Guests :
         /\ shares[s].status = "INVITED"
         /\ Become(p, [Idle EXCEPT !.op = "pay", !.pc = "claimShare", !.share = s])
    /\ UNCHANGED <<bill, club, pledge, payers>>

Share(p) == shares[task[p].share]
Write(p, row) == shares' = [shares EXCEPT ![task[p].share] = row]
OnlyShares == UNCHANGED <<bill, club, pledge, charge, recovered, counts>>
OnlyPledge == UNCHANGED <<bill, club, payers, counts>>

\* mutant: no claim before the money is taken
ClaimShareBlindly(p) ==
    /\ At(p, "claimShare")
    /\ Write(p, [Share(p) EXCEPT !.status = "PAYMENT_PENDING"])
    /\ \E pc \in {"debit", "authorizeShare"} : Goto(p, pc)
    /\ OnlyShares

ClaimShare(p) ==
    /\ At(p, "claimShare")
    /\ IF Share(p).status \in {"OPEN", "INVITED"}
       THEN /\ Write(p, [Share(p) EXCEPT !.status = "PAYMENT_PENDING"])
            /\ \E pc \in {"debit", "authorizeShare"} : Goto(p, pc)
       ELSE UNCHANGED shares /\ Done(p)
    /\ OnlyShares

Collected(p) == [Share(p) EXCEPT !.taken = @ + DueBy(task[p].share)]

\* debitForBooking, or its refusal when the payer lacks credits
Debit(p) ==
    /\ At(p, "debit")
    /\ \/ Write(p, Collected(p)) /\ Goto(p, "markPaid")
       \/ UNCHANGED shares /\ Goto(p, "catch")
    /\ OnlyShares

AuthorizeShare(p) ==
    /\ At(p, "authorizeShare")
    /\ \E a \in Answers(Share(p), ShareAnswers) :
         /\ Write(p, Asked(Share(p), a))
         /\ Become(p, [task[p] EXCEPT !.answer = a,
                         !.pc = IF a \in {"failed", "error"} THEN "catch" ELSE "insertShare"])
    /\ OnlyShares

\* provider_payment_id is unique; an intent that waits for the payer is
\* recorded as SUCCEEDED and not captured
InsertShare(p) ==
    /\ At(p, "insertShare")
    /\ IF Share(p).payment # "absent" THEN UNCHANGED shares /\ Goto(p, "catch")
       ELSE IF task[p].answer = "requires_capture"
       THEN Write(p, [Share(p) EXCEPT !.payment = "AUTHORIZED"]) /\ Goto(p, "captureShare")
       ELSE Write(p, [Share(p) EXCEPT !.payment = "SUCCEEDED"]) /\ Goto(p, "markPaid")
    /\ OnlyShares

CaptureShare(p) ==
    /\ At(p, "captureShare")
    /\ \/ /\ Write(p, [Collected(p) EXCEPT !.intent = "succeeded"])
          /\ Goto(p, "recordShare")
       \/ UNCHANGED shares /\ Goto(p, "shareFailed")
    /\ OnlyShares

ShareFailed(p) ==
    /\ At(p, "shareFailed")
    /\ Write(p, [Share(p) EXCEPT !.payment = "FAILED"]) /\ Goto(p, "catch")
    /\ OnlyShares

RecordShare(p) ==
    /\ At(p, "recordShare")
    /\ Write(p, [Share(p) EXCEPT !.payment = "SUCCEEDED"]) /\ Goto(p, "markPaid")
    /\ OnlyShares

\* mutant: the share stays claimed
CatchWithoutReset(p) ==
    /\ At(p, "catch")
    /\ Done(p)
    /\ UNCHANGED shares /\ OnlyShares

\* an unconditional updateStatus
Catch(p) ==
    /\ At(p, "catch")
    /\ Write(p, [Share(p) EXCEPT !.status = "INVITED"]) /\ Done(p)
    /\ OnlyShares

MarkPaid(p) ==
    /\ At(p, "markPaid")
    /\ IF Share(p).status \in Unpaid
       THEN Write(p, [Share(p) EXCEPT !.status = "PAID"]) /\ Goto(p, "findGuarantee")
       ELSE UNCHANGED shares /\ Done(p)
    /\ OnlyShares

(***************************************************************************)
(* BookingGuaranteeService.releaseForPaidShare.                            *)
(***************************************************************************)
FindGuarantee(p) ==
    /\ At(p, "findGuarantee")
    /\ IF guarantee.status \in {"RELEASED", "CONSUMED"} THEN Done(p)
       ELSE Goto(p, "releaseAmount")
    /\ UNCHANGED pledge /\ OnlyPledge

\* mutant: the row is read and written back as released
ReleaseEverything(p) ==
    /\ At(p, "releaseAmount")
    /\ guarantee' = [guarantee EXCEPT !.remaining = 0]
    /\ Goto(p, "reread")
    /\ UNCHANGED hold /\ OnlyPledge

ReleaseAmount(p) ==
    /\ At(p, "releaseAmount")
    /\ IF /\ guarantee.status \in {"ACTIVE", "PARTIALLY_RELEASED"}
          /\ guarantee.remaining >= DueBy(task[p].share)
       THEN /\ guarantee' = [guarantee EXCEPT !.remaining = @ - DueBy(task[p].share)]
            /\ Goto(p, "reread")
       ELSE UNCHANGED guarantee /\ Done(p)
    /\ UNCHANGED hold /\ OnlyPledge

Reread(p) ==
    /\ At(p, "reread")
    /\ Become(p, [task[p] EXCEPT !.amount = guarantee.remaining,
                    !.pc = IF guarantee.kind = "WALLET_RESERVE" THEN "findHold"
                           ELSE "markGuarantee"])
    /\ UNCHANGED pledge /\ OnlyPledge

FindHold(p) ==
    /\ At(p, "findHold")
    /\ Goto(p, IF hold.status # "ACTIVE" THEN "markGuarantee"
               ELSE IF DueBy(task[p].share) >= hold.amount THEN "releaseHold" ELSE "reduceHold")
    /\ UNCHANGED pledge /\ OnlyPledge

\* mutant: the hold keeps its amount
ReduceHoldNot(p) ==
    /\ At(p, "reduceHold")
    /\ Goto(p, "markGuarantee")
    /\ UNCHANGED pledge /\ OnlyPledge

ReduceHold(p) ==
    /\ At(p, "reduceHold")
    /\ hold' = IF hold.status = "ACTIVE" /\ hold.amount >= DueBy(task[p].share)
               THEN [hold EXCEPT !.amount = @ - DueBy(task[p].share)] ELSE hold
    /\ Goto(p, "markGuarantee")
    /\ UNCHANGED guarantee /\ OnlyPledge

ReleaseHold(p) ==
    /\ At(p, "releaseHold")
    /\ hold' = [hold EXCEPT !.status = IF @ = "ACTIVE" THEN "RELEASED" ELSE @]
    /\ Goto(p, "markGuarantee")
    /\ UNCHANGED guarantee /\ OnlyPledge

\* by the amount read before the hold was touched
MarkGuarantee(p) ==
    /\ At(p, "markGuarantee")
    /\ guarantee' = [guarantee EXCEPT !.status =
                       IF task[p].amount = 0 THEN "RELEASED" ELSE "PARTIALLY_RELEASED"]
    /\ Done(p)
    /\ UNCHANGED hold /\ OnlyPledge

-----------------------------------------------------------------------------
(***************************************************************************)
(* The regularisation at the deadline: coverUnpaidSharesWithGuarantee,     *)
(* then captureRemaining.  No route or job of the repository calls them;   *)
(* Alone says that their caller waits until no payment is under way.       *)
(***************************************************************************)
StartRegularise(p) ==
    /\ At(p, "idle") /\ (Alone => Idling)
    /\ booking = "CONFIRMED"
    /\ counts.regularisations < MaxRegularisations /\ Count("regularisations")
    /\ Become(p, [Idle EXCEPT !.op = "regularise", !.pc = "findUnpaid"])
    /\ UNCHANGED <<bill, club, pledge, payers>>

FindUnpaid(p) ==
    /\ At(p, "findUnpaid")
    /\ Become(p, [task[p] EXCEPT !.todo = {s \in Guests : shares[s].status \in Unpaid},
                                 !.pc = "cover"])
    /\ UNCHANGED shares /\ OnlyShares

Cover(p) ==
    /\ At(p, "cover")
    /\ IF task[p].todo = {} THEN UNCHANGED shares /\ Goto(p, "findRemaining")
       ELSE \E s \in task[p].todo :
              /\ shares' = [shares EXCEPT ![s] = [@ EXCEPT !.status = "COVERED_BY_ORGANIZER"]]
              /\ Become(p, [task[p] EXCEPT !.todo = @ \ {s}])
    /\ OnlyShares

FindRemaining(p) ==
    /\ At(p, "findRemaining")
    /\ IF guarantee.status \in {"absent", "RELEASED", "CONSUMED"} \/ guarantee.remaining = 0
       THEN Done(p)
       ELSE Become(p, [task[p] EXCEPT !.amount = guarantee.remaining,
                         !.pc = IF guarantee.kind = "WALLET_RESERVE" THEN "takeHold" ELSE "charge"])
    /\ UNCHANGED pledge /\ OnlyPledge

\* captureHold, which returns quietly when the hold is not active any more
TakeHold(p) ==
    /\ At(p, "takeHold")
    /\ IF hold.status = "ACTIVE"
       THEN /\ hold' = [hold EXCEPT !.status = "CAPTURED"]
            /\ recovered' = recovered + hold.amount
       ELSE UNCHANGED <<hold, recovered>>
    /\ Goto(p, "consume")
    /\ UNCHANGED <<bill, club, guarantee, shares, charge, counts>>

ChargeSavedMethod(p) ==
    /\ At(p, "charge")
    /\ \E a \in Answers(charge, Answer \ {"none"}) :
         /\ a # "error" => charge.answer = "none" \/ charge.amount = task[p].amount
         /\ charge' = IF charge.answer = "none"
                      THEN [Asked(charge, a) EXCEPT !.amount = task[p].amount] ELSE charge
         /\ CASE a = "requires_capture" -> Goto(p, "captureCharge")
              [] a = "error"            -> Done(p)
              [] OTHER                  -> Goto(p, "failGuarantee")
    /\ UNCHANGED <<bill, club, pledge, shares, recovered, counts>>

CaptureCharge(p) ==
    /\ At(p, "captureCharge")
    /\ \/ /\ charge.intent = "requires_capture"
          /\ charge' = [charge EXCEPT !.intent = "succeeded"]
          /\ recovered' = recovered + charge.amount
          /\ Goto(p, "consume")
       \/ UNCHANGED <<charge, recovered>> /\ Goto(p, "failGuarantee")
    /\ UNCHANGED <<bill, club, pledge, shares, counts>>

FailGuarantee(p) ==
    /\ At(p, "failGuarantee")
    /\ guarantee' = [guarantee EXCEPT !.status = "FAILED"] /\ Done(p)
    /\ UNCHANGED hold /\ OnlyPledge

Consume(p) ==
    /\ At(p, "consume")
    /\ guarantee' = [guarantee EXCEPT !.status = "CONSUMED", !.remaining = 0]
    /\ Done(p)
    /\ UNCHANGED hold /\ OnlyPledge

-----------------------------------------------------------------------------
(***************************************************************************)
(* BookingsService.cancelBooking: neither the shares nor the guarantee are *)
(* looked at.                                                              *)
(***************************************************************************)
StartCancel(p) ==
    /\ At(p, "idle") /\ ~(Alone /\ Regularising)
    /\ booking = "CONFIRMED"
    /\ counts.requests < MaxRequests /\ Count("requests")
    /\ Become(p, [Idle EXCEPT !.op = "cancel", !.pc = "cancelClaim"])
    /\ UNCHANGED <<bill, club, pledge, payers>>

CancelClaim(p) ==
    /\ At(p, "cancelClaim")
    /\ IF booking = "CONFIRMED"
       THEN /\ booking' = "CANCEL_PENDING"
            /\ Goto(p, IF bill.writes THEN "cancelLegacy" ELSE "cancelDone")
       ELSE UNCHANGED booking /\ Done(p)
    /\ UNCHANGED <<bill, legacy, organizer, pledge, payers, counts>>

\* when Doinsport refuses, the booking stays CANCEL_PENDING
CancelLegacy(p) ==
    /\ At(p, "cancelLegacy")
    /\ \/ legacy' = "canceled" /\ Goto(p, "cancelDone")
       \/ UNCHANGED legacy /\ Done(p)
    /\ UNCHANGED <<bill, booking, organizer, pledge, payers, counts>>

CancelDone(p) ==
    /\ At(p, "cancelDone")
    /\ booking' = "CANCELED" /\ Done(p)
    /\ UNCHANGED <<bill, legacy, organizer, pledge, payers, counts>>

-----------------------------------------------------------------------------
(***************************************************************************)
(* Exceptions: the call had no effect, or its answer was lost.             *)
(***************************************************************************)
Handler(pc) ==
    CASE pc \in {"authorize", "voidOrphan"} -> "revert"
      [] pc = "voidOpen"                    -> "reopen"
      [] pc = "insertPayment"               -> "voidOrphan"
      [] pc = "legacy"                      -> "review"
      [] pc = "capture"                     -> "captureFailed"
      [] pc \in {"debit", "authorizeShare", "insertShare", "captureShare",
                 "shareFailed", "recordShare"} -> "catch"
      [] OTHER                              -> "idle"

Raise(p) == IF Handler(task[p].pc) = "idle" THEN Done(p) ELSE Goto(p, Handler(task[p].pc))
Faulty(p, pc) == At(p, pc) /\ pc \in FaultPoints /\ counts.faults < MaxFaults /\ Count("faults")

Fault(p) ==
    /\ \E pc \in FaultPoints \ {"idle"} : Faulty(p, pc)
    /\ Raise(p)
    /\ UNCHANGED <<bill, club, pledge, payers>>

\* Doinsport created the booking, its answer was lost
LostAcceptance(p) ==
    /\ Faulty(p, "legacy") /\ legacy = "free"
    /\ legacy' = "ours" /\ Raise(p)
    /\ UNCHANGED <<bill, booking, organizer, pledge, payers>>

\* the capture went through, its answer was lost
LostCapture(p) ==
    /\ Faulty(p, "capture") /\ organizer.intent = "requires_capture"
    /\ organizer' = [organizer EXCEPT !.intent = "succeeded"] /\ Raise(p)
    /\ UNCHANGED <<bill, booking, legacy, pledge, payers>>

-----------------------------------------------------------------------------
Handle(p) ==
    \/ Claim(p) \/ CheckParty(p) \/ Reopen(p) \/ Revert(p) \/ Authorize(p) \/ VoidOpen(p)
    \/ VoidOrphan(p) \/ InsertPayment(p) \/ ReserveCredits(p) \/ RefuseCredits(p)
    \/ InsertGuarantee(p) \/ LegacyAccepts(p) \/ LegacyCollides(p) \/ VoidAuthorization(p)
    \/ CancelPayment(p) \/ ReleaseEntirely(p) \/ MarkReleased(p) \/ FailBooking(p)
    \/ Review(p) \/ Capture(p) \/ CaptureFailed(p) \/ RecordSuccess(p) \/ Confirm(p)
    \/ CreateShares(p) \/ Invite(p)
    \/ ClaimShare(p) \/ Debit(p) \/ AuthorizeShare(p) \/ InsertShare(p) \/ CaptureShare(p)
    \/ ShareFailed(p) \/ RecordShare(p) \/ Catch(p) \/ MarkPaid(p) \/ FindGuarantee(p)
    \/ ReleaseAmount(p) \/ Reread(p) \/ FindHold(p) \/ ReduceHold(p) \/ ReleaseHold(p)
    \/ MarkGuarantee(p)
    \/ FindUnpaid(p) \/ Cover(p) \/ FindRemaining(p) \/ TakeHold(p) \/ ChargeSavedMethod(p)
    \/ CaptureCharge(p) \/ FailGuarantee(p) \/ Consume(p)
    \/ CancelClaim(p) \/ CancelLegacy(p) \/ CancelDone(p)
    \/ Fault(p) \/ LostAcceptance(p) \/ LostCapture(p)

Start(p) == StartCheckout(p) \/ StartPay(p) \/ StartRegularise(p) \/ StartCancel(p)

Next == \E p \in Procs : Handle(p) \/ Start(p)

Spec == Init /\ [][Next]_vars

\* Node.js runs every handler to its end
FairSpec == Spec /\ \A p \in Procs : WF_vars(Handle(p))

-----------------------------------------------------------------------------
(***************************************************************************)
(* Properties                                                              *)
(***************************************************************************)
TypeOK ==
    /\ bill \in [writes : LegacyModes, guests : Parties, fee : Fees, allocation : Allocations]
    /\ booking \in {"CHECKOUT_PENDING", "PAYMENT_PENDING", "CONFIRMED", "CANCEL_PENDING",
                    "CANCELED", "FAILED", "MANUAL_REVIEW"}
    /\ legacy \in {"free", "ours", "taken", "canceled"}
    /\ organizer \in [intent : IntentStatus, answer : Answer, payment : PaymentStatus]
    /\ guarantee \in [status : {"absent", "ACTIVE", "PARTIALLY_RELEASED", "RELEASED",
                                "CONSUMED", "FAILED"},
                      kind : {"WALLET_RESERVE", "CARD_OFF_SESSION"}, remaining : Nat]
    /\ hold \in [status : {"absent", "ACTIVE", "RELEASED", "CAPTURED"}, amount : Nat]
    /\ shares \in [Guests -> [status : ShareStatus, intent : IntentStatus, answer : Answer,
                              payment : PaymentStatus, taken : Nat]]
    /\ charge \in [intent : IntentStatus, answer : Answer, amount : Nat]
    /\ recovered \in Nat
    /\ task \in [Procs -> Task]
    /\ counts \in [{"requests", "pays", "regularisations", "faults"} -> Nat]

Sold == \E s \in Guests : shares[s].status # "absent"
Taken == SumFunction([s \in Guests |-> shares[s].taken])
Reserved == IF hold.status = "ACTIVE" THEN hold.amount ELSE 0

(***************************************************************************)
(* "Deux paiements concurrents de la meme part ne doivent produire qu'un   *)
(* seul effet" (booking-share.repository.ts:30): whatever requests race,   *)
(* the money of a share is taken once.                                     *)
(***************************************************************************)
ShareChargedOnce == \A s \in Guests : shares[s].taken > 0 => shares[s].taken <= DueBy(s)

(***************************************************************************)
(* Once every handler has ended, what the club collected and what the      *)
(* organizer still guarantees make up the price and the service fee        *)
(* (CDC 25 and 26), unless the card of the guarantee was refused.          *)
(***************************************************************************)
MoneyConserved ==
    (Idling /\ Sold /\ guarantee.status # "FAILED")
        => OrganizerShare + Taken + recovered + guarantee.remaining = Price + bill.fee

(***************************************************************************)
(* Even in the middle of a payment the guarantee covers every share that   *)
(* is not paid: it is reduced after the share is marked, never before.     *)
(***************************************************************************)
GuaranteeCoversUnpaid ==
    (Sold /\ guarantee.status \in {"ACTIVE", "PARTIALLY_RELEASED"})
        => guarantee.remaining >=
             SumFunction([s \in Guests |-> IF shares[s].status \in Unpaid THEN DueBy(s) ELSE 0])

(***************************************************************************)
(* "Le hold wallet sous-jacent doit refleter la meme reduction que la      *)
(* garantie" (booking-guarantee.service.ts:81): when no handler runs, the  *)
(* credits reserved are the remaining guarantee, concurrent payments       *)
(* included.                                                               *)
(***************************************************************************)
HoldFollowsGuarantee ==
    (Idling /\ guarantee.status \notin {"absent", "FAILED"} /\ guarantee.kind = "WALLET_RESERVE")
        => Reserved = guarantee.remaining

(***************************************************************************)
(* With LEGACY_WRITE_ENABLED, no money moves, the organizer's or a         *)
(* guest's, before Doinsport accepted the booking (CDC 27.1).              *)
(***************************************************************************)
LegacyBeforeMoney ==
    (bill.writes /\ (organizer.intent = "succeeded" \/ \E s \in Guests : shares[s].taken > 0))
        => legacy \in {"ours", "canceled"}

(***************************************************************************)
(* "Ne jamais laisser une autorisation orpheline" (CDC 68, quoted at       *)
(* split-checkout.service.ts:196): a checkout that ended with the booking  *)
(* reopened or failed left neither an authorization nor a reservation.     *)
(***************************************************************************)
NoOrphan ==
    (Idling /\ booking \in {"CHECKOUT_PENDING", "FAILED"})
        => organizer.intent # "requires_capture" /\ hold.status # "ACTIVE"

(***************************************************************************)
(* A share claimed for payment is paid or becomes payable again            *)
(* (booking-share.service.ts:185).                                         *)
(***************************************************************************)
ShareSettles ==
    \A s \in Guests : shares[s].status = "PAYMENT_PENDING" ~> shares[s].status # "PAYMENT_PENDING"

(***************************************************************************)
(* "Il paie sa part ; le share passe PAID" (CDC 26, steps 7 and 8): the    *)
(* money of a PAID share was collected.                                    *)
(***************************************************************************)
PaidIsCollected == \A s \in Guests : shares[s].status = "PAID" => shares[s].taken = DueBy(s)

(***************************************************************************)
(* "Le lien doit devenir inutilisable apres annulation" (CDC 26.2): no     *)
(* share of a canceled booking is claimed for payment.                     *)
(***************************************************************************)
NoClaimAfterCancel ==
    [][booking = "CANCELED" =>
         \A s \in Guests : shares'[s].status = "PAYMENT_PENDING"
                             => shares[s].status = "PAYMENT_PENDING"]_vars
=============================================================================
