---------------------------- MODULE CreditPacks ----------------------------
(***************************************************************************)
(* The purchase of a credit pack (modules/credit-packs, the Stripe webhook *)
(* of modules/payments) and the refunds of payments (RefundService).  The  *)
(* handler of the purchase and the deliveries of the webhook of its        *)
(* payment intent run at the same time: Stripe announces the authorization *)
(* of every intent, the ones that needed no 3D Secure included.  Each step *)
(* is one call of the database or of Stripe.                               *)
(*                                                                         *)
(* Amounts: a pack costs PackPrice; what it gives is one PAID row and one  *)
(* BONUS row of the wallet.  Stripe captures an intent once and refunds at *)
(* most what it captured: a call that asks for more raises an error.       *)
(***************************************************************************)
EXTENDS ClubBase

CONSTANTS
    Hooks,       \* deliveries of the webhook of the authorization
    Refunders,   \* requests of refund
    PackPrice    \* purchaseAmountCents

ASSUME PackAssumption == PackPrice \in Nat \ {0} /\ "buyer" \notin Hooks

PackHandlers == {"buyer"} \cup Hooks

VARIABLES
    pack,      \* credit_pack_purchases row and its payments row
    intent,    \* the payment intent at Stripe
    ledger,    \* wallet rows of the purchase
    handler,   \* what each handler is doing
    refunds    \* refund requests and the refunds rows

packVars == <<pack, intent, ledger, handler, refunds>>

PurchaseStatus == {"absent", "PENDING", "PAID", "CREDITED", "FAILED"}
PaymentStatus == {"absent", "REQUIRES_ACTION", "AUTHORIZED", "SUCCEEDED", "FAILED"}

PackPc == {"none", "stripe", "row", "link", "event", "authorize", "capture", "failing", "succeeded",
           "paid", "credited", "grant", "bonus", "done", "over"}
PackRow == [status : PurchaseStatus, payment : PaymentStatus, linked : BOOLEAN]
Intent == [status : {"absent", "requires_action", "authorized", "succeeded", "failed"}, refunded : 0..PackPrice]
RefundTask == [pc : {"none", "ask", "row", "over"}, amount : 0..PackPrice, recorded : BOOLEAN]

PacksTypeOK ==
    /\ pack \in PackRow /\ intent \in Intent
    /\ ledger \in [paid : Nat, bonus : Nat]
    /\ handler \in [PackHandlers -> PackPc]
    /\ refunds \in [Refunders -> RefundTask]

PacksInit ==
    /\ pack = [status |-> "absent", payment |-> "absent", linked |-> FALSE]
    /\ intent = [status |-> "absent", refunded |-> 0]
    /\ ledger = [paid |-> 0, bonus |-> 0]
    /\ handler = [h \in PackHandlers |-> "none"]
    /\ refunds = [r \in Refunders |-> [pc |-> "none", amount |-> 0, recorded |-> FALSE]]

Go(h, pc) == handler' = [handler EXCEPT ![h] = pc]

\* mutant: the status of Stripe is stored as it is
StatusOfStripe(s) == s

\* toTransactionStatus
toTransactionStatus(s) == CASE s = "requires_action" -> "REQUIRES_ACTION"
                            [] s = "authorized" -> "AUTHORIZED"
                            [] s = "succeeded" -> "SUCCEEDED"
                            [] OTHER -> "FAILED"

-----------------------------------------------------------------------------
(* purchase *)
createPurchase ==
    /\ Request("packs")
    /\ handler["buyer"] = "none"
    /\ pack' = [pack EXCEPT !.status = "PENDING"]
    /\ Go("buyer", "stripe")
    /\ UNCHANGED <<intent, ledger, refunds>>

\* createPayment at Stripe
createPayment(s) ==
    /\ Step("packs")
    /\ handler["buyer"] = "stripe"
    /\ intent' = [intent EXCEPT !.status = s]
    /\ Go("buyer", "row")
    /\ UNCHANGED <<pack, ledger, refunds>>

createPaymentRow ==
    /\ Step("packs")
    /\ handler["buyer"] = "row"
    /\ pack' = [pack EXCEPT !.payment = toTransactionStatus(intent.status)]
    /\ Go("buyer", "link")
    /\ UNCHANGED <<intent, ledger, refunds>>

\* the payment is linked to the purchase, then the answer of createPayment decides
LinkPayment ==
    /\ Step("packs")
    /\ handler["buyer"] = "link"
    /\ pack' = [pack EXCEPT !.linked = TRUE,
                            !.status = IF pack.payment = "FAILED" THEN "FAILED" ELSE @]
    /\ Go("buyer", IF pack.payment \in {"FAILED", "REQUIRES_ACTION"} THEN "over" ELSE "capture")
    /\ UNCHANGED <<intent, ledger, refunds>>

\* the customer authenticates
ThreeDSecure(s) ==
    /\ Step("packs")
    /\ intent.status = "requires_action"
    /\ handler["buyer"] = "over"
    /\ intent' = [intent EXCEPT !.status = s]
    /\ UNCHANGED <<pack, ledger, handler, refunds>>

-----------------------------------------------------------------------------
(* The webhook: an event seen is not treated again, then                   *)
(* continueAfterAuthorizationConfirmed reads the payment and its purchase  *)
Delivered(h) ==
    /\ Request("packs")
    /\ handler[h] = "none" /\ intent.status \in {"authorized", "succeeded"}
    /\ Go(h, "event")
    /\ UNCHANGED <<pack, intent, ledger, refunds>>

continueAfterAuthorizationConfirmed(h) ==
    /\ Step("packs")
    /\ handler[h] = "event"
    /\ Go(h, IF pack.linked /\ pack.status = "PENDING" THEN "authorize" ELSE "over")
    /\ UNCHANGED <<pack, intent, ledger, refunds>>

MarkAuthorized(h) ==
    /\ Step("packs")
    /\ handler[h] = "authorize"
    /\ pack' = [pack EXCEPT !.payment = "AUTHORIZED"]
    /\ Go(h, "capture")
    /\ UNCHANGED <<intent, ledger, refunds>>

-----------------------------------------------------------------------------
(* captureAndCredit *)
Capture(h) ==
    /\ Step("packs")
    /\ handler[h] = "capture" /\ intent.status = "authorized"
    /\ intent' = [intent EXCEPT !.status = "succeeded"]
    /\ Go(h, "succeeded")
    /\ UNCHANGED <<pack, ledger, refunds>>

\* mutant: an intent already captured counts as captured now
CaptureAgain(h) ==
    /\ Step("packs")
    /\ handler[h] = "capture" /\ intent.status # "authorized"
    /\ Go(h, IF intent.status = "succeeded" THEN "succeeded" ELSE "over")
    /\ UNCHANGED <<pack, intent, ledger, refunds>>

\* Stripe has captured it already: an error that ends the handler
CaptureRefused(h) ==
    /\ Step("packs")
    /\ handler[h] = "capture" /\ intent.status # "authorized"
    /\ Go(h, "over")
    /\ UNCHANGED <<pack, intent, ledger, refunds>>

\* Stripe answers with another status than succeeded
CaptureFails(h) ==
    /\ Fault("packs")
    /\ handler[h] = "capture" /\ intent.status = "authorized"
    /\ intent' = [intent EXCEPT !.status = "failed"]
    /\ Go(h, "failing")
    /\ UNCHANGED <<pack, ledger, refunds>>

MarkFailed(h) ==
    /\ Step("packs")
    /\ handler[h] = "failing"
    /\ pack' = [pack EXCEPT !.payment = "FAILED", !.status = "FAILED"]
    /\ Go(h, "over")
    /\ UNCHANGED <<intent, ledger, refunds>>

MarkSucceeded(h) ==
    /\ Step("packs")
    /\ handler[h] = "succeeded"
    /\ pack' = [pack EXCEPT !.payment = "SUCCEEDED"]
    /\ Go(h, "paid")
    /\ UNCHANGED <<intent, ledger, refunds>>

MarkPaid(h) ==
    /\ Step("packs")
    /\ handler[h] = "paid"
    /\ pack' = [pack EXCEPT !.status = "PAID"]
    /\ Go(h, "credited")
    /\ UNCHANGED <<intent, ledger, refunds>>

markCreditedIfPaid(h) ==
    /\ Step("packs")
    /\ handler[h] = "credited"
    /\ pack' = [pack EXCEPT !.status = IF @ = "PAID" THEN "CREDITED" ELSE @]
    /\ Go(h, IF pack.status = "PAID" THEN "grant" ELSE "over")
    /\ UNCHANGED <<intent, ledger, refunds>>

\* creditFromPackPurchase: the PAID row, then the BONUS row
creditPaid(h) ==
    /\ Step("packs")
    /\ handler[h] = "grant"
    /\ ledger' = [ledger EXCEPT !.paid = @ + 1]
    /\ Go(h, "bonus")
    /\ UNCHANGED <<pack, intent, refunds>>

creditBonus(h) ==
    /\ Step("packs")
    /\ handler[h] = "bonus"
    /\ ledger' = [ledger EXCEPT !.bonus = @ + 1]
    /\ Go(h, "done")
    /\ UNCHANGED <<pack, intent, refunds>>

\* the server stops: no later delivery takes up what this handler left
PacksRestart(h) ==
    /\ Fault("packs")
    /\ handler[h] \notin {"none", "over", "done"}
    /\ Go(h, "over")
    /\ UNCHANGED <<pack, intent, ledger, refunds>>

-----------------------------------------------------------------------------
(* RefundService.refund: the amount is checked against the payment, not     *)
(* against what was refunded before; Stripe refuses what exceeds            *)
RefundAsked(r, amount) ==
    /\ Request("packs")
    /\ refunds[r].pc = "none" /\ pack.payment = "SUCCEEDED" /\ amount <= PackPrice
    /\ refunds' = [refunds EXCEPT ![r] = [@ EXCEPT !.pc = "ask", !.amount = amount]]
    /\ UNCHANGED <<pack, intent, ledger, handler>>

RefundAtStripe(r) ==
    /\ Step("packs")
    /\ refunds[r].pc = "ask"
    /\ LET accepted == intent.refunded + refunds[r].amount <= PackPrice
       IN  /\ intent' = [intent EXCEPT !.refunded = IF accepted THEN @ + refunds[r].amount ELSE @]
           /\ refunds' = [refunds EXCEPT ![r].pc = IF accepted THEN "row" ELSE "over"]
    /\ UNCHANGED <<pack, ledger, handler>>

RefundRecorded(r) ==
    /\ Step("packs")
    /\ refunds[r].pc = "row"
    /\ refunds' = [refunds EXCEPT ![r] = [@ EXCEPT !.pc = "over", !.recorded = TRUE]]
    /\ UNCHANGED <<pack, intent, ledger, handler>>

\* stopped between Stripe and the row: the money is back and nothing says so
RefundCut(r) ==
    /\ Fault("packs")
    /\ refunds[r].pc = "row"
    /\ refunds' = [refunds EXCEPT ![r].pc = "over"]
    /\ UNCHANGED <<pack, intent, ledger, handler>>

PacksNext ==
    \/ createPurchase \/ createPaymentRow \/ LinkPayment
    \/ \E s \in {"requires_action", "authorized", "failed"} : createPayment(s)
    \/ \E s \in {"authorized", "failed"} : ThreeDSecure(s)
    \/ \E h \in Hooks : Delivered(h) \/ continueAfterAuthorizationConfirmed(h) \/ MarkAuthorized(h)
    \/ \E h \in PackHandlers :
        \/ Capture(h) \/ CaptureRefused(h) \/ CaptureFails(h) \/ MarkFailed(h)
        \/ MarkSucceeded(h) \/ MarkPaid(h) \/ markCreditedIfPaid(h)
        \/ creditPaid(h) \/ creditBonus(h) \/ PacksRestart(h)
    \/ \E r \in Refunders :
        \/ \E amount \in 1..PackPrice : RefundAsked(r, amount)
        \/ RefundAtStripe(r) \/ RefundRecorded(r) \/ RefundCut(r)

PacksSpec == BaseInit /\ PacksInit /\ [][PacksNext]_<<baseVars, packVars>>

-----------------------------------------------------------------------------
(* A pack is credited once, by the one handler whose capture Stripe         *)
(* accepted, whatever deliveries of the webhook run beside the purchase     *)
(* (credit-pack.service.ts:120-145); a pack that is CREDITED with no        *)
(* handler at work has both rows unless a restart cut the credit; and two   *)
(* refunds recorded are two refunds that Stripe gave, within the price,     *)
(* although each request was checked against the payment alone.             *)
PackCreditedOnce ==
    /\ ledger.paid <= 1 /\ ledger.bonus <= ledger.paid
    /\ ledger.paid = 1 => pack.status = "CREDITED" /\ intent.status = "succeeded"
    /\ /\ pack.status = "CREDITED" /\ budget.faults = 0
       /\ \A h \in PackHandlers : handler[h] \notin {"grant", "bonus"}
       => ledger.bonus = 1
    /\ \A r, q \in Refunders :
        r # q /\ refunds[r].recorded /\ refunds[q].recorded =>
            refunds[r].amount + refunds[q].amount <= intent.refunded
    /\ intent.refunded <= PackPrice
=============================================================================
