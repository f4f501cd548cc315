--------------------------- MODULE CheckoutProofs ---------------------------
(***************************************************************************)
(* Theorems about Checkout, for any number of handlers, holds, requests,   *)
(* deliveries and faults: the type invariant, LegacyBeforeMoney, OnePass   *)
(* when every request brings a payment method, and with it, when moreover  *)
(* no decisive call fails and no two deliveries overlap, PaidExactly,      *)
(* SuccessIsRemembered, NoSilentReopening and FollowsLifecycle.  NoOrphan  *)
(* and ReviewKeepsFunds follow in CheckoutKeepProofs.                      *)
(***************************************************************************)
EXTENDS Checkout, Sums, TLAPS

-----------------------------------------------------------------------------
(***************************************************************************)
(* Types: what each helper writes.                                         *)
(***************************************************************************)
\* A handler at rest is a task.
LEMMA IdleTyped == Idle \in Task
  BY CheckoutAssumption DEF Idle, Task, Pc, Answer

\* Moving a handler to its next call keeps the type of the tasks.
LEMMA GotoTyped ==
    ASSUME TypeOK, NEW p \in Procs, NEW pc \in Pc, Goto(p, pc)
    PROVE  task' \in [Procs -> Task]
BY DEF TypeOK, Goto, Become, Task

\* Replacing a task by a task keeps the type of the tasks.
LEMMA BecomeTyped ==
    ASSUME TypeOK, NEW p \in Procs, NEW t \in Task, Become(p, t)
    PROVE  task' \in [Procs -> Task]
BY DEF TypeOK, Become

\* What a handler is after an exception is a task.
LEMMA ThrownTyped ==
    ASSUME TypeOK, NEW p \in Procs
    PROVE  Thrown(p) \in Task
<1>1. "catch" \in Pc  BY DEF Pc, CheckoutPc
<1>2. task[p] \in Task  BY DEF TypeOK
<1> QED  BY <1>1, <1>2, IdleTyped DEF Thrown, Task

\* An exception keeps the type of the tasks.
LEMMA ThrowTyped ==
    ASSUME TypeOK, NEW p \in Procs, Throw(p)
    PROVE  task' \in [Procs -> Task]
BY ThrownTyped, BecomeTyped DEF Throw

\* A handler may adopt a hold and the card leg (findActiveHoldForBooking).
LEMMA MovedTyped ==
    ASSUME TypeOK, NEW p \in Procs, NEW pc \in Pc, NEW h \in Holds \cup {NoHold},
           NEW c \in BOOLEAN, Become(p, [task[p] EXCEPT !.pc = pc, !.hold = h, !.card = c])
    PROVE  task' \in [Procs -> Task]
<1>1. task[p] \in Task  BY DEF TypeOK
<1>2. [task[p] EXCEPT !.pc = pc, !.hold = h, !.card = c] \in Task  BY <1>1 DEF Task
<1> QED  BY <1>2, BecomeTyped

\* The hold found for a booking is one of its holds, or none.
LEMMA FoundTyped == TypeOK => FoundHold \subseteq Holds \cup {NoHold}
BY DEF FoundHold, ActiveHolds

\* The conditional transitions of a hold keep its row typed.
LEMMA ReleasedTyped ==
    ASSUME TypeOK, NEW h
    PROVE  Released(h) \in [Holds -> HoldRow] /\ Captured(h) \in [Holds -> HoldRow]
<1>1. ASSUME NEW s \in {"RELEASED", "CAPTURED"}, h \in Holds
      PROVE  [holds EXCEPT ![h] = [@ EXCEPT !.status = s]] \in [Holds -> HoldRow]
  <2>1. holds[h] \in HoldRow  BY <1>1 DEF TypeOK
  <2>2. [holds[h] EXCEPT !.status = s] \in HoldRow  BY <2>1 DEF HoldRow
  <2> QED  BY <2>2 DEF TypeOK
<1>2. CASE h \in Holds  BY <1>1, <1>2 DEF Released, Captured, TypeOK
<1>3. CASE h \notin Holds
  <2>1. holds \in [Holds -> HoldRow]  BY DEF TypeOK
  <2>2. ASSUME NEW e PROVE [holds EXCEPT ![h] = e] = holds
    BY <2>1, <1>3
  <2> QED  BY <2>1, <2>2, <1>3 DEF Released, Captured
<1> QED  BY <1>2, <1>3

\* Every catch block leads to a task.
LEMMA AfterExceptionTyped ==
    ASSUME TypeOK, NEW p \in Procs
    PROVE  AfterException(p) \in Task
<1>1. task[p] \in Task  BY DEF TypeOK
<1>2. \A pc \in {"review", "captureFailed", "cancelUnknown"} :
        [task[p] EXCEPT !.pc = pc] \in Task
  BY <1>1 DEF Task, Pc, Proceeding, CancelPc
<1> QED  BY <1>2, ThrownTyped, IdleTyped DEF AfterException

\* Emitting an event keeps the events typed.
LEMMA EventsTyped ==
    ASSUME TypeOK
    PROVE  /\ \A e \in Event : Emitted(e) \in [Event -> [left : 0..MaxDeliveries, processed : BOOLEAN]]
           /\ \A a : EmittedFor(a) \in [Event -> [left : 0..MaxDeliveries, processed : BOOLEAN]]
<1> DEFINE Row == [left : 0..MaxDeliveries, processed : BOOLEAN]
<1>1. \A e \in Event : [events[e] EXCEPT !.left = MaxDeliveries] \in Row
  BY CheckoutAssumption DEF TypeOK
<1>2. \A e \in Event : Emitted(e) \in [Event -> Row]
  BY <1>1 DEF Emitted, TypeOK
<1> QED  BY <1>2 DEF EmittedFor, TypeOK, Event

\* markEventProcessed keeps the types.
LEMMA AckTyped ==
    ASSUME TypeOK, NEW p \in Procs, Ack(p)
    PROVE TypeOK'
<1> DEFINE Row == [left : 0..MaxDeliveries, processed : BOOLEAN]
<1>1. \A e \in Event : [events[e] EXCEPT !.processed = TRUE] \in Row
  BY DEF TypeOK
<1>2. events' \in [Event -> Row]  BY <1>1 DEF Ack, TypeOK
<1>3. task' \in [Procs -> Task]  BY IdleTyped, BecomeTyped DEF Ack
<1> QED BY <1>2, <1>3 DEF Ack, TypeOK, rows, Quietly

\* Reserving credits keeps the types: the hold never exceeds the price.
LEMMA ReserveTyped ==
    ASSUME TypeOK, NEW p \in Procs, ReserveCredits(p)
    PROVE TypeOK'
<1>1. \A t \in Task : AfterCredits(t) \in Pc
  BY DEF AfterCredits, Pc, Proceeding, CheckoutPc
<1>2. task[p] \in Task  BY DEF TypeOK
<1>3. CASE \E a \in Applied \ {0}, h \in Holds :
            LET t == [task[p] EXCEPT !.hold = h, !.applied = a]
            IN  /\ holds[h].status = "absent"
                /\ holds' = [holds EXCEPT ![h] = [status |-> "ACTIVE", amount |-> a]]
                /\ Become(p, [t EXCEPT !.pc = AfterCredits(t)])
  <2>1. PICK a \in Applied \ {0}, h \in Holds :
            /\ holds' = [holds EXCEPT ![h] = [status |-> "ACTIVE", amount |-> a]]
            /\ LET t == [task[p] EXCEPT !.hold = h, !.applied = a]
               IN  Become(p, [t EXCEPT !.pc = AfterCredits(t)])
    BY <1>3
  <2> DEFINE t == [task[p] EXCEPT !.hold = h, !.applied = a]
  <2>2. a \in 0..Price  BY CheckoutAssumption
  <2>3. t \in Task  BY <1>2, <2>2 DEF Task
  <2>4. [t EXCEPT !.pc = AfterCredits(t)] \in Task  BY <2>3, <1>1 DEF Task
  <2>5. task' \in [Procs -> Task]  BY <2>1, <2>4, BecomeTyped
  <2>6. holds' \in [Holds -> HoldRow]  BY <2>1, <2>2 DEF TypeOK, HoldRow
  <2> QED  BY <2>5, <2>6 DEF ReserveCredits, TypeOK, external, Quietly
<1>4. CASE UNCHANGED holds /\ Goto(p, AfterCredits(task[p]))
  BY <1>1, <1>2, <1>4, GotoTyped DEF ReserveCredits, TypeOK, external, Quietly
<1> QED  BY <1>3, <1>4 DEF ReserveCredits

\* createPayment keeps the types: the amount authorized is what the credits left.
LEMMA AuthorizeTyped ==
    ASSUME TypeOK, NEW p \in Procs, Authorize(p)
    PROVE TypeOK'
<1>1. task[p] \in Task  BY DEF TypeOK
<1>2. Price - task[p].applied \in 0..Price  BY <1>1, CheckoutAssumption DEF Task
<1>3. \A a \in Answer : [task[p] EXCEPT !.pc = "insertPayment", !.answer = a] \in Task
  BY <1>1 DEF Task, Pc, CheckoutPc
<1>4. stripe.answer \in Answer  BY DEF TypeOK
<1>5. task' \in [Procs -> Task]
  BY <1>3, <1>4, ThrownTyped, BecomeTyped, ThrowTyped DEF Authorize
<1>6. stripe' \in [status : IntentStatus, amount : 0..Price, answer : Answer]
  <2>1. \A a : IntentFor(a) \in IntentStatus  BY DEF IntentFor, IntentStatus
  <2>2. CASE stripe' = stripe  BY <2>2 DEF TypeOK
  <2>3. CASE \E a \in Answer \ {"none"} :
               stripe' = [status |-> IntentFor(a), amount |-> Price - task[p].applied,
                          answer |-> a]
    BY <1>2, <2>1, <2>3
  <2> QED  BY <2>2, <2>3 DEF Authorize
<1>7. events' \in [Event -> [left : 0..MaxDeliveries, processed : BOOLEAN]]
  <2>1. events' = events \/ \E a : events' = EmittedFor(a)  BY DEF Authorize
  <2> QED  BY <2>1, EventsTyped DEF TypeOK
<1> QED  BY <1>5, <1>6, <1>7 DEF Authorize, TypeOK, rows, Quietly

\* Inserting the payment row keeps the types.
LEMMA InsertTyped ==
    ASSUME TypeOK, NEW p \in Procs, InsertPayment(p)
    PROVE TypeOK'
<1>1. task[p] \in Task  BY DEF TypeOK
<1>2. [task[p] EXCEPT !.pc = "declinedRelease"] \in Task
  BY <1>1 DEF Task, Pc, CheckoutPc
<1>3. [task[p] EXCEPT !.pc = "load", !.card = TRUE] \in Task
  BY <1>1 DEF Task, Pc, Proceeding
<1>4. task' \in [Procs -> Task]
  BY <1>2, <1>3, IdleTyped, BecomeTyped, ThrowTyped DEF InsertPayment
<1>5. payment' \in PaymentStatus
  BY DEF InsertPayment, TypeOK, PaymentStatus, toTransactionStatus
<1> QED  BY <1>4, <1>5 DEF InsertPayment, TypeOK, external, Quietly

\* The start of a request keeps the types and the bound on requests.
LEMMA StartTyped ==
    ASSUME TypeOK, NEW p \in Procs, StartCheckout(p) \/ StartCancel(p)
    PROVE TypeOK'
<1>1. CASE StartCheckout(p)
  <2>1. \A m \in MethodGiven : [Idle EXCEPT !.op = "checkout", !.pc = "claim", !.method = m] \in Task
    BY IdleTyped, CheckoutAssumption DEF Task, Pc
  <2>2. task' \in [Procs -> Task]  BY <1>1, <2>1, BecomeTyped DEF StartCheckout
  <2>3. requests < MaxRequests /\ requests' = requests + 1  BY <1>1 DEF StartCheckout
  <2>4. requests' \in 0..MaxRequests  BY <2>3, CheckoutAssumption DEF TypeOK
  <2> QED  BY <1>1, <2>2, <2>4 DEF StartCheckout, TypeOK, rows, external
<1>2. CASE StartCancel(p)
  <2>1. (mapping.linked /\ writes) \in BOOLEAN  OBVIOUS
  <2>2. \A b \in BOOLEAN : [Idle EXCEPT !.op = "cancel", !.pc = "cancelClaim", !.card = b] \in Task
    BY IdleTyped DEF Task, Pc, CancelPc
  <2>3. [Idle EXCEPT !.op = "cancel", !.pc = "cancelClaim", !.card = mapping.linked /\ writes] \in Task
    BY <2>1, <2>2
  <2>4. task' \in [Procs -> Task]  BY <1>2, <2>3, BecomeTyped DEF StartCancel
  <2>5. requests' \in 0..MaxRequests  BY <1>2, CheckoutAssumption DEF StartCancel, TypeOK
  <2> QED  BY <1>2, <2>4, <2>5 DEF StartCancel, TypeOK, rows, external
<1> QED  BY <1>1, <1>2

-----------------------------------------------------------------------------
(***************************************************************************)
(* Types: every action keeps them.                                         *)
(***************************************************************************)
\* Types: the calls of proceedAfterAuthorization.
LEMMA TypedProceed ==
    ASSUME TypeOK, NEW p \in Procs, Proceed(p)
    PROVE  TypeOK'
<1> USE DEF At, Quietly, rows, external, Pc, Proceeding, CheckoutPc, WebhookPc, CancelPc
<1>1. CASE Load(p)
  BY <1>1, GotoTyped, ThrowTyped, BecomeTyped, IdleTyped, ReleasedTyped
  DEF Load, Funding, TypeOK, BookingStatus, PaymentStatus, SyncStatus, IntentStatus
<1>2. CASE CreateMapping(p)
  BY <1>2, GotoTyped, ThrowTyped, BecomeTyped, IdleTyped, ReleasedTyped
  DEF CreateMapping, TypeOK, BookingStatus, PaymentStatus, SyncStatus, IntentStatus
<1>3. CASE LegacyAccepts(p)
  BY <1>3, GotoTyped, ThrowTyped, BecomeTyped, IdleTyped, ReleasedTyped
  DEF LegacyAccepts, TypeOK, BookingStatus, PaymentStatus, SyncStatus, IntentStatus
<1>4. CASE LegacyCollides(p)
  BY <1>4, GotoTyped, ThrowTyped, BecomeTyped, IdleTyped, ReleasedTyped
  DEF LegacyCollides, TypeOK, BookingStatus, PaymentStatus, SyncStatus, IntentStatus
<1>5. CASE LinkMapping(p)
  BY <1>5, GotoTyped, ThrowTyped, BecomeTyped, IdleTyped, ReleasedTyped
  DEF LinkMapping, Funding, SyncStatus, TypeOK, BookingStatus, PaymentStatus,
     SyncStatus, IntentStatus
<1>6. CASE VoidAuthorization(p)
  BY <1>6, GotoTyped, ThrowTyped, BecomeTyped, IdleTyped, ReleasedTyped
  DEF VoidAuthorization, TypeOK, BookingStatus, PaymentStatus, SyncStatus, IntentStatus
<1>7. CASE RecordVoided(p)
  BY <1>7, GotoTyped, ThrowTyped, BecomeTyped, IdleTyped, ReleasedTyped
  DEF RecordVoided, TypeOK, BookingStatus, PaymentStatus, SyncStatus, IntentStatus
<1>8. CASE CollisionRelease(p)
  BY <1>8, GotoTyped, ThrowTyped, BecomeTyped, IdleTyped, ReleasedTyped
  DEF CollisionRelease, TypeOK, BookingStatus, PaymentStatus, SyncStatus, IntentStatus
<1>9. CASE CollisionFail(p)
  BY <1>9, GotoTyped, ThrowTyped, BecomeTyped, IdleTyped, ReleasedTyped
  DEF CollisionFail, TypeOK, BookingStatus, PaymentStatus, SyncStatus, IntentStatus
<1>10. CASE CollisionMapping(p)
  BY <1>10, GotoTyped, ThrowTyped, BecomeTyped, IdleTyped, ReleasedTyped
  DEF CollisionMapping, TypeOK, BookingStatus, PaymentStatus, SyncStatus, IntentStatus
<1>11. CASE Review(p)
  BY <1>11, GotoTyped, ThrowTyped, BecomeTyped, IdleTyped, ReleasedTyped
  DEF Review, TypeOK, BookingStatus, PaymentStatus, SyncStatus, IntentStatus
<1>12. CASE ReviewMapping(p)
  BY <1>12, GotoTyped, ThrowTyped, BecomeTyped, IdleTyped, ReleasedTyped
  DEF ReviewMapping, TypeOK, BookingStatus, PaymentStatus, SyncStatus, IntentStatus
<1>13. CASE CaptureIntent(p)
  BY <1>13, GotoTyped, ThrowTyped, BecomeTyped, IdleTyped, ReleasedTyped
  DEF CaptureIntent, TypeOK, BookingStatus, PaymentStatus, SyncStatus, IntentStatus
<1>14. CASE CaptureFailed(p)
  BY <1>14, GotoTyped, ThrowTyped, BecomeTyped, IdleTyped, ReleasedTyped
  DEF CaptureFailed, TypeOK, BookingStatus, PaymentStatus, SyncStatus, IntentStatus
<1>15. CASE CaptureReview(p)
  BY <1>15, GotoTyped, ThrowTyped, BecomeTyped, IdleTyped, ReleasedTyped
  DEF CaptureReview, TypeOK, BookingStatus, PaymentStatus, SyncStatus, IntentStatus
<1>16. CASE RecordSuccess(p)
  BY <1>16, GotoTyped, ThrowTyped, BecomeTyped, IdleTyped, ReleasedTyped
  DEF RecordSuccess, TypeOK, BookingStatus, PaymentStatus, SyncStatus, IntentStatus
<1>17. CASE CaptureHold(p)
  BY <1>17, GotoTyped, ThrowTyped, BecomeTyped, IdleTyped, ReleasedTyped
  DEF CaptureHold, TypeOK, BookingStatus, PaymentStatus, SyncStatus, IntentStatus
<1>18. CASE Confirm(p)
  BY <1>18, GotoTyped, ThrowTyped, BecomeTyped, IdleTyped, ReleasedTyped
  DEF Confirm, TypeOK, BookingStatus, PaymentStatus, SyncStatus, IntentStatus
<1> QED  BY <1>1, <1>2, <1>3, <1>4, <1>5, <1>6, <1>7, <1>8, <1>9, <1>10, <1>11, <1>12,
            <1>13, <1>14, <1>15, <1>16, <1>17, <1>18 DEF Proceed

\* Types: the calls of checkout.
LEMMA TypedCheckoutStep ==
    ASSUME TypeOK, NEW p \in Procs, CheckoutStep(p)
    PROVE  TypeOK'
<1> USE DEF At, Quietly, rows, external, Pc, Proceeding, CheckoutPc, WebhookPc, CancelPc
<1>1. CASE Claim(p)
  BY <1>1, GotoTyped, ThrowTyped, BecomeTyped, IdleTyped, ReleasedTyped
  DEF Claim, TypeOK, BookingStatus, PaymentStatus, SyncStatus, IntentStatus
<1>2. CASE ReserveCredits(p)  BY <1>2, ReserveTyped
<1>3. CASE RefuseCredits(p)
  BY <1>3, GotoTyped, ThrowTyped, BecomeTyped, IdleTyped, ReleasedTyped
  DEF RefuseCredits, TypeOK, BookingStatus, PaymentStatus, SyncStatus, IntentStatus
<1>4. CASE GiveUp(p)
  BY <1>4, GotoTyped, ThrowTyped, BecomeTyped, IdleTyped, ReleasedTyped
  DEF GiveUp, TypeOK, BookingStatus, PaymentStatus, SyncStatus, IntentStatus
<1>5. CASE Reopen(p)
  BY <1>5, GotoTyped, ThrowTyped, BecomeTyped, IdleTyped, ReleasedTyped
  DEF Reopen, TypeOK, BookingStatus, PaymentStatus, SyncStatus, IntentStatus
<1>6. CASE Authorize(p)  BY <1>6, AuthorizeTyped
<1>7. CASE InsertPayment(p)  BY <1>7, InsertTyped
<1>8. CASE DeclinedRelease(p)
  BY <1>8, GotoTyped, ThrowTyped, BecomeTyped, IdleTyped, ReleasedTyped
  DEF DeclinedRelease, TypeOK, BookingStatus, PaymentStatus, SyncStatus, IntentStatus
<1>9. CASE DeclinedFail(p)
  BY <1>9, GotoTyped, ThrowTyped, BecomeTyped, IdleTyped, ReleasedTyped
  DEF DeclinedFail, TypeOK, BookingStatus, PaymentStatus, SyncStatus, IntentStatus
<1>10. CASE Catch(p)
  BY <1>10, GotoTyped, ThrowTyped, BecomeTyped, IdleTyped, ReleasedTyped
  DEF Catch, TypeOK, BookingStatus, PaymentStatus, SyncStatus, IntentStatus
<1>11. CASE CatchRelease(p)
  BY <1>11, GotoTyped, ThrowTyped, BecomeTyped, IdleTyped, ReleasedTyped
  DEF CatchRelease, TypeOK, BookingStatus, PaymentStatus, SyncStatus, IntentStatus
<1> QED  BY <1>1, <1>2, <1>3, <1>4, <1>5, <1>6, <1>7, <1>8, <1>9, <1>10, <1>11 DEF
            CheckoutStep

\* Types: the two webhook continuations.
LEMMA TypedWebhookStep ==
    ASSUME TypeOK, NEW p \in Procs, WebhookStep(p)
    PROVE  TypeOK'
<1> USE DEF At, Quietly, rows, external, Pc, Proceeding, CheckoutPc, WebhookPc, CancelPc
<1>1. CASE ReceiveCapturable(p)
  BY <1>1, GotoTyped, ThrowTyped, BecomeTyped, IdleTyped, ReleasedTyped
  DEF ReceiveCapturable, TypeOK, BookingStatus, PaymentStatus, SyncStatus, IntentStatus
<1>2. CASE FindHold(p)
  <2>1. task' \in [Procs -> Task]
    <3>1. PICK h \in FoundHold : Become(p, [task[p] EXCEPT !.pc = "markAuthorized",
                                                            !.hold = h, !.card = TRUE])
      BY <1>2 DEF FindHold
    <3>2. h \in Holds \cup {NoHold}  BY FoundTyped
    <3> QED  BY <3>1, <3>2, MovedTyped
  <2> QED  BY <1>2, <2>1 DEF FindHold, TypeOK
<1>3. CASE MarkAuthorized(p)
  BY <1>3, GotoTyped, ThrowTyped, BecomeTyped, IdleTyped, ReleasedTyped
  DEF MarkAuthorized, TypeOK, BookingStatus, PaymentStatus, SyncStatus, IntentStatus
<1>4. CASE Repend(p)
  BY <1>4, GotoTyped, ThrowTyped, BecomeTyped, IdleTyped, ReleasedTyped
  DEF Repend, TypeOK, BookingStatus, PaymentStatus, SyncStatus, IntentStatus
<1>5. CASE ReceiveFailed(p)
  BY <1>5, GotoTyped, ThrowTyped, BecomeTyped, IdleTyped, ReleasedTyped
  DEF ReceiveFailed, TypeOK, BookingStatus, PaymentStatus, SyncStatus, IntentStatus
<1>6. CASE FailPayment(p)
  BY <1>6, GotoTyped, ThrowTyped, BecomeTyped, IdleTyped, ReleasedTyped
  DEF FailPayment, TypeOK, BookingStatus, PaymentStatus, SyncStatus, IntentStatus
<1>7. CASE FailFindHold(p)
  <2>1. task' \in [Procs -> Task]
    <3>1. PICK h \in FoundHold : Become(p, [task[p] EXCEPT !.pc = "failRelease", !.hold = h])
      BY <1>7 DEF FailFindHold
    <3>2. h \in Holds \cup {NoHold} /\ task[p] \in Task  BY FoundTyped DEF TypeOK
    <3>3. [task[p] EXCEPT !.pc = "failRelease", !.hold = h] \in Task  BY <3>2 DEF Task
    <3> QED  BY <3>1, <3>3, BecomeTyped
  <2> QED  BY <1>7, <2>1 DEF FailFindHold, TypeOK
<1>8. CASE FailRelease(p)
  BY <1>8, GotoTyped, ThrowTyped, BecomeTyped, IdleTyped, ReleasedTyped
  DEF FailRelease, TypeOK, BookingStatus, PaymentStatus, SyncStatus, IntentStatus
<1>9. CASE FailRead(p)
  BY <1>9, GotoTyped, ThrowTyped, BecomeTyped, IdleTyped, ReleasedTyped
  DEF FailRead, TypeOK, BookingStatus, PaymentStatus, SyncStatus, IntentStatus
<1>10. CASE FailBooking(p)
  BY <1>10, GotoTyped, ThrowTyped, BecomeTyped, IdleTyped, ReleasedTyped
  DEF FailBooking, TypeOK, BookingStatus, PaymentStatus, SyncStatus, IntentStatus
<1>11. CASE Ack(p)  BY <1>11, AckTyped
<1> QED  BY <1>1, <1>2, <1>3, <1>4, <1>5, <1>6, <1>7, <1>8, <1>9, <1>10, <1>11 DEF
            WebhookStep

\* Types: the calls of a cancellation.
LEMMA TypedCancelStep ==
    ASSUME TypeOK, NEW p \in Procs, CancelStep(p)
    PROVE  TypeOK'
<1> USE DEF At, Quietly, rows, external, Pc, Proceeding, CheckoutPc, WebhookPc, CancelPc
<1>1. CASE CancelClaim(p)
  BY <1>1, GotoTyped, ThrowTyped, BecomeTyped, IdleTyped, ReleasedTyped
  DEF CancelClaim, TypeOK, BookingStatus, PaymentStatus, SyncStatus, IntentStatus
<1>2. CASE CancelLegacy(p)
  BY <1>2, GotoTyped, ThrowTyped, BecomeTyped, IdleTyped, ReleasedTyped
  DEF CancelLegacy, TypeOK, BookingStatus, PaymentStatus, SyncStatus, IntentStatus
<1>3. CASE CancelMapping(p)
  BY <1>3, GotoTyped, ThrowTyped, BecomeTyped, IdleTyped, ReleasedTyped
  DEF CancelMapping, TypeOK, BookingStatus, PaymentStatus, SyncStatus, IntentStatus
<1>4. CASE CancelUnknown(p)
  BY <1>4, GotoTyped, ThrowTyped, BecomeTyped, IdleTyped, ReleasedTyped
  DEF CancelUnknown, TypeOK, BookingStatus, PaymentStatus, SyncStatus, IntentStatus
<1>5. CASE CancelDone(p)
  BY <1>5, GotoTyped, ThrowTyped, BecomeTyped, IdleTyped, ReleasedTyped
  DEF CancelDone, TypeOK, BookingStatus, PaymentStatus, SyncStatus, IntentStatus
<1> QED  BY <1>1, <1>2, <1>3, <1>4, <1>5 DEF CancelStep

\* Types: the start of a request.
LEMMA TypedRequest ==
    ASSUME TypeOK, NEW p \in Procs, Request(p)
    PROVE  TypeOK'
<1> USE DEF At, Quietly, rows, external, Pc, Proceeding, CheckoutPc, WebhookPc, CancelPc
<1>1. CASE OpenBooking(p)
  BY <1>1, GotoTyped, ThrowTyped, BecomeTyped, IdleTyped, ReleasedTyped
  DEF OpenBooking, TypeOK, BookingStatus, PaymentStatus, SyncStatus, IntentStatus
<1>2. CASE StartCheckout(p)  BY <1>2, StartTyped
<1>3. CASE StartCancel(p)  BY <1>3, StartTyped
<1> QED  BY <1>1, <1>2, <1>3 DEF Request

\* Types: the exceptions and the lost answers.
LEMMA TypedFaulty ==
    ASSUME TypeOK, NEW p \in Procs, Faulty(p)
    PROVE  TypeOK'
<1> USE DEF Fault, Quietly, rows, external
<1>1. Fault(p) => faults' \in 0..MaxFaults /\ requests' = requests
  BY CheckoutAssumption DEF TypeOK
<1>2. {"review", "cancelUnknown", "captureFailed"} \subseteq Pc
  BY DEF Pc, Proceeding, CancelPc
<1>3. CASE Exception(p)
  <2>1. task' \in [Procs -> Task]
    BY <1>3, AfterExceptionTyped, BecomeTyped DEF Exception
  <2> QED  BY <1>1, <1>3, <2>1 DEF Exception, TypeOK
<1>4. CASE LostAuthorization(p)
  <2>1. PICK a \in {"requires_action", "requires_capture"} :
          /\ stripe' = [status |-> IntentFor(a), amount |-> Price - task[p].applied,
                        answer |-> a]
          /\ events' = EmittedFor(a)
    BY <1>4 DEF LostAuthorization
  <2>2. Price - task[p].applied \in 0..Price
    BY CheckoutAssumption DEF TypeOK, Task
  <2>3. IntentFor(a) \in IntentStatus /\ a \in Answer
    BY DEF IntentFor, IntentStatus, Answer
  <2>4. stripe' \in [status : IntentStatus, amount : 0..Price, answer : Answer]
    BY <2>1, <2>2, <2>3
  <2>5. events' \in [Event -> [left : 0..MaxDeliveries, processed : BOOLEAN]]
    BY <2>1, EventsTyped
  <2>6. task' \in [Procs -> Task]  BY <1>4, ThrowTyped DEF LostAuthorization
  <2> QED  BY <1>1, <1>4, <2>4, <2>5, <2>6 DEF LostAuthorization, TypeOK
<1>5. CASE LostAcceptance(p)
  BY <1>1, <1>2, <1>5, GotoTyped DEF LostAcceptance, TypeOK
<1>6. CASE LostCapture(p)
  BY <1>1, <1>2, <1>6, GotoTyped DEF LostCapture, TypeOK, IntentStatus
<1>7. CASE LostHoldCapture(p)
  BY <1>1, <1>7, ThrowTyped, ReleasedTyped DEF LostHoldCapture, TypeOK
<1>8. CASE LostCancellation(p)
  BY <1>1, <1>2, <1>8, GotoTyped DEF LostCancellation, TypeOK
<1> QED  BY <1>3, <1>4, <1>5, <1>6, <1>7, <1>8 DEF Faulty

\* Every step keeps the types.
LEMMA TypedStep == TypeOK /\ [Next]_vars => TypeOK'
<1> SUFFICES ASSUME TypeOK, [Next]_vars PROVE TypeOK'  OBVIOUS
<1> USE DEF Quietly, rows, external
<1>1. ASSUME NEW p \in Procs, Request(p) \/ Handle(p) \/ Faulty(p) PROVE TypeOK'
  BY <1>1, TypedRequest, TypedProceed, TypedCheckoutStep, TypedWebhookStep,
     TypedCancelStep, TypedFaulty DEF Handle
<1>2. ASSUME NEW p \in Procs, Deliver(p) PROVE TypeOK'
  <2> DEFINE Row == [left : 0..MaxDeliveries, processed : BOOLEAN]
  <2>1. PICK e \in Event :
          /\ events[e].left > 0
          /\ events' = [events EXCEPT ![e] = Sent(@)]
          /\ IF events[e].processed THEN UNCHANGED task
             ELSE Become(p, [Idle EXCEPT !.op = e, !.pc = "receive"])
    BY <1>2 DEF Deliver
  <2>2. events[e] \in Row  BY DEF TypeOK
  <2>3. events[e].left - 1 \in 0..MaxDeliveries  BY <2>1, <2>2, CheckoutAssumption
  <2>4. Sent(events[e]) \in Row  BY <2>2, <2>3 DEF Sent
  <2>5. events' \in [Event -> Row]  BY <2>1, <2>4 DEF TypeOK
  <2>6. [Idle EXCEPT !.op = e, !.pc = "receive"] \in Task
    BY IdleTyped DEF Task, Event, Pc, WebhookPc
  <2>7. task' \in [Procs -> Task]  BY <2>1, <2>6, BecomeTyped DEF TypeOK
  <2> QED  BY <1>2, <2>5, <2>7 DEF Deliver, TypeOK
<1>3. CASE Environment
  <2>1. CASE SlotTaken  BY <2>1 DEF SlotTaken, TypeOK
  <2>2. CASE Authenticate \/ FailAuthentication
    <3>1. attempts' \in 0..MaxAttempts
      BY <2>2, CheckoutAssumption DEF Authenticate, FailAuthentication, CanAuthenticate,
         TypeOK
    <3>2. stripe' \in [status : IntentStatus, amount : 0..Price, answer : Answer]
      BY <2>2 DEF Authenticate, FailAuthentication, TypeOK, IntentStatus
    <3>3. events' \in [Event -> [left : 0..MaxDeliveries, processed : BOOLEAN]]
      BY <2>2, EventsTyped DEF Authenticate, FailAuthentication, Event
    <3> QED  BY <2>2, <3>1, <3>2, <3>3 DEF Authenticate, FailAuthentication, TypeOK
  <2> QED  BY <1>3, <2>1, <2>2 DEF Environment
<1>4. CASE Crash
  <2>1. faults' \in 0..MaxFaults  BY <1>4, CheckoutAssumption DEF Crash, TypeOK
  <2>2. task' \in [Procs -> Task]  BY <1>4, IdleTyped DEF Crash
  <2> QED  BY <1>4, <2>1, <2>2 DEF Crash, TypeOK
<1>5. CASE UNCHANGED vars  BY <1>5 DEF vars, TypeOK
<1> QED  BY <1>1, <1>2, <1>3, <1>4, <1>5 DEF Next

\* The initial states are typed.
LEMMA TypedInit == Init => TypeOK
BY CheckoutAssumption, IdleTyped
DEF Init, TypeOK, BookingStatus, SyncStatus, PaymentStatus, IntentStatus, Answer, HoldRow

(***************************************************************************)
(* Rows, PaymentIntent, events and what every handler remembers keep their *)
(* types: in particular the amount authorized stays within the price, and  *)
(* the bounds hold.                                                        *)
(***************************************************************************)
THEOREM CheckoutTyped == Spec => []TypeOK
BY TypedInit, TypedStep, PTL DEF Spec

-----------------------------------------------------------------------------
(***************************************************************************)
(* LegacyBeforeMoney.  The strengthening: a handler that has passed the    *)
(* Doinsport call without an error was accepted, so a crash or a handler   *)
(* that runs in between cannot separate a capture from its acceptance.     *)
(***************************************************************************)
PastLegacy == {"link", "capture", "recordSuccess", "captureHold"}
MoneyInv ==
    /\ LegacyBeforeMoney
    /\ \A p \in Procs : writes /\ task[p].pc \in PastLegacy => accepted > 0

\* A handler that moves anywhere before the Doinsport call, and touches no money,
\* keeps the invariant.
LEMMA MoneyKept ==
    ASSUME TypeOK, MoneyInv, NEW p \in Procs, NEW t, Become(p, t), t.pc \notin PastLegacy,
           UNCHANGED <<writes, accepted>>,
           stripe'.status = "succeeded" => stripe.status = "succeeded",
           CapturedHolds' \subseteq CapturedHolds
    PROVE  MoneyInv'
BY DEF TypeOK, MoneyInv, LegacyBeforeMoney, Become

\* The acceptance precedes the money: the calls of proceedAfterAuthorization.
LEMMA MoneyProceed ==
    ASSUME TypeOK, MoneyInv, NEW p \in Procs, Proceed(p)
    PROVE  MoneyInv'
<1> USE DEF TypeOK, MoneyInv, LegacyBeforeMoney, PastLegacy, CapturedHolds, At, Goto,
           Throw, Thrown, Become, Idle, rows, external
<1>1. CASE Load(p)  BY <1>1 DEF Load, Funding
<1>2. CASE CreateMapping(p)
  <2> HIDE DEF TypeOK, MoneyInv, LegacyBeforeMoney, Become
  <2>1. \E t : t.pc \notin PastLegacy /\ Become(p, t)
    BY <1>2 DEF CreateMapping, TypeOK, Task
  <2>2. /\ UNCHANGED <<writes, accepted>>
        /\ stripe'.status = "succeeded" => stripe.status = "succeeded"
        /\ CapturedHolds' \subseteq CapturedHolds
    BY <1>2 DEF CreateMapping, TypeOK
  <2> QED  BY <2>1, <2>2, MoneyKept
<1>3. CASE LegacyAccepts(p)  BY <1>3 DEF LegacyAccepts
<1>4. CASE LegacyCollides(p)  BY <1>4 DEF LegacyCollides
<1>5. CASE LinkMapping(p)  BY <1>5 DEF LinkMapping, Funding
<1>6. CASE VoidAuthorization(p)
  <2> HIDE DEF TypeOK, MoneyInv, LegacyBeforeMoney, Become
  <2>1. \E t : t.pc \notin PastLegacy /\ Become(p, t)
    BY <1>6 DEF VoidAuthorization, TypeOK, Task
  <2>2. /\ UNCHANGED <<writes, accepted>>
        /\ stripe'.status = "succeeded" => stripe.status = "succeeded"
        /\ CapturedHolds' \subseteq CapturedHolds
    BY <1>6 DEF VoidAuthorization, TypeOK
  <2> QED  BY <2>1, <2>2, MoneyKept
<1>7. CASE RecordVoided(p)  BY <1>7 DEF RecordVoided
<1>8. CASE CollisionRelease(p)  BY <1>8 DEF CollisionRelease, Released
<1>9. CASE CollisionFail(p)  BY <1>9 DEF CollisionFail
<1>10. CASE CollisionMapping(p)  BY <1>10 DEF CollisionMapping
<1>11. CASE Review(p)  BY <1>11 DEF Review
<1>12. CASE ReviewMapping(p)  BY <1>12 DEF ReviewMapping
<1>13. CASE CaptureIntent(p)  BY <1>13 DEF CaptureIntent
<1>14. CASE CaptureFailed(p)  BY <1>14 DEF CaptureFailed
<1>15. CASE CaptureReview(p)  BY <1>15 DEF CaptureReview
<1>16. CASE RecordSuccess(p)  BY <1>16 DEF RecordSuccess
<1>17. CASE CaptureHold(p)  BY <1>17 DEF CaptureHold, Captured
<1>18. CASE Confirm(p)
  <2> HIDE DEF TypeOK, MoneyInv, LegacyBeforeMoney, Become
  <2>1. \E t : t.pc \notin PastLegacy /\ Become(p, t)
    BY <1>18 DEF Confirm, TypeOK, Task
  <2>2. /\ UNCHANGED <<writes, accepted>>
        /\ stripe'.status = "succeeded" => stripe.status = "succeeded"
        /\ CapturedHolds' \subseteq CapturedHolds
    BY <1>18 DEF Confirm, TypeOK
  <2> QED  BY <2>1, <2>2, MoneyKept
<1> QED  BY <1>1, <1>2, <1>3, <1>4, <1>5, <1>6, <1>7, <1>8, <1>9, <1>10, <1>11, <1>12,
            <1>13, <1>14, <1>15, <1>16, <1>17, <1>18 DEF Proceed

\* The acceptance precedes the money: the calls of checkout.
LEMMA MoneyCheckoutStep ==
    ASSUME TypeOK, MoneyInv, NEW p \in Procs, CheckoutStep(p)
    PROVE  MoneyInv'
<1> USE DEF TypeOK, MoneyInv, LegacyBeforeMoney, PastLegacy, CapturedHolds, At, Goto,
           Throw, Thrown, Become, Idle, rows, external
<1>1. CASE Claim(p)
  <2> HIDE DEF TypeOK, MoneyInv, LegacyBeforeMoney, Become
  <2>1. \E t : t.pc \notin PastLegacy /\ Become(p, t)
    BY <1>1 DEF Claim, TypeOK, Task
  <2>2. /\ UNCHANGED <<writes, accepted>>
        /\ stripe'.status = "succeeded" => stripe.status = "succeeded"
        /\ CapturedHolds' \subseteq CapturedHolds
    BY <1>1 DEF Claim, TypeOK
  <2> QED  BY <2>1, <2>2, MoneyKept
<1>2. CASE ReserveCredits(p)
  <2> HIDE DEF TypeOK, MoneyInv, LegacyBeforeMoney, Become
  <2>1. \E t : t.pc \notin PastLegacy /\ Become(p, t)
    BY <1>2 DEF ReserveCredits, AfterCredits, TypeOK, Task
  <2>2. /\ UNCHANGED <<writes, accepted>>
        /\ stripe'.status = "succeeded" => stripe.status = "succeeded"
        /\ CapturedHolds' \subseteq CapturedHolds
    <3>1. UNCHANGED holds \/ \E h \in Holds : \E c : holds' = [holds EXCEPT ![h] = [status |-> "ACTIVE", amount |-> c]]
      BY <1>2 DEF ReserveCredits
    <3>2. holds \in [Holds -> HoldRow]  BY DEF TypeOK
    <3>3. CapturedHolds' \subseteq CapturedHolds  BY <3>1, <3>2
    <3> QED  BY <1>2, <3>3 DEF ReserveCredits
  <2> QED  BY <2>1, <2>2, MoneyKept
<1>3. CASE RefuseCredits(p)  BY <1>3 DEF RefuseCredits
<1>4. CASE GiveUp(p)  BY <1>4 DEF GiveUp, Released
<1>5. CASE Reopen(p)  BY <1>5 DEF Reopen
<1>6. CASE Authorize(p)
  <2> HIDE DEF TypeOK, MoneyInv, LegacyBeforeMoney, Become
  <2>1. \E t : t.pc \notin PastLegacy /\ Become(p, t)
    BY <1>6 DEF Authorize, TypeOK, Task
  <2>2. /\ UNCHANGED <<writes, accepted>>
        /\ stripe'.status = "succeeded" => stripe.status = "succeeded"
        /\ CapturedHolds' \subseteq CapturedHolds
    <3>1. \A c : IntentFor(c) # "succeeded"  BY DEF IntentFor
    <3>2. stripe' = stripe \/ \E c, m : stripe' = [status |-> IntentFor(c), amount |-> m, answer |-> c]
      BY <1>6 DEF Authorize
    <3>3. stripe'.status = "succeeded" => stripe.status = "succeeded"  BY <3>1, <3>2
    <3> QED  BY <1>6, <3>3 DEF Authorize
  <2> QED  BY <2>1, <2>2, MoneyKept
<1>7. CASE InsertPayment(p)
  <2> HIDE DEF TypeOK, MoneyInv, LegacyBeforeMoney, Become
  <2>1. \E t : t.pc \notin PastLegacy /\ Become(p, t)
    BY <1>7 DEF InsertPayment, TypeOK, Task
  <2>2. /\ UNCHANGED <<writes, accepted>>
        /\ stripe'.status = "succeeded" => stripe.status = "succeeded"
        /\ CapturedHolds' \subseteq CapturedHolds
    BY <1>7 DEF InsertPayment, TypeOK
  <2> QED  BY <2>1, <2>2, MoneyKept
<1>8. CASE DeclinedRelease(p)  BY <1>8 DEF DeclinedRelease, Released
<1>9. CASE DeclinedFail(p)  BY <1>9 DEF DeclinedFail
<1>10. CASE Catch(p)
  <2> HIDE DEF TypeOK, MoneyInv, LegacyBeforeMoney, Become
  <2>1. \E t : t.pc \notin PastLegacy /\ Become(p, t)
    BY <1>10 DEF Catch, TypeOK, Task
  <2>2. /\ UNCHANGED <<writes, accepted>>
        /\ stripe'.status = "succeeded" => stripe.status = "succeeded"
        /\ CapturedHolds' \subseteq CapturedHolds
    BY <1>10 DEF Catch, TypeOK
  <2> QED  BY <2>1, <2>2, MoneyKept
<1>11. CASE CatchRelease(p)  BY <1>11 DEF CatchRelease, Released
<1> QED  BY <1>1, <1>2, <1>3, <1>4, <1>5, <1>6, <1>7, <1>8, <1>9, <1>10, <1>11 DEF
            CheckoutStep

\* The acceptance precedes the money: the two webhook continuations.
LEMMA MoneyWebhookStep ==
    ASSUME TypeOK, MoneyInv, NEW p \in Procs, WebhookStep(p)
    PROVE  MoneyInv'
<1> USE DEF TypeOK, MoneyInv, LegacyBeforeMoney, PastLegacy, CapturedHolds, At, Goto,
           Throw, Thrown, Become, Idle, rows, external
<1>1. CASE ReceiveCapturable(p)  BY <1>1 DEF ReceiveCapturable
<1>2. CASE FindHold(p)  BY <1>2 DEF FindHold
<1>3. CASE MarkAuthorized(p)  BY <1>3 DEF MarkAuthorized
<1>4. CASE Repend(p)  BY <1>4 DEF Repend
<1>5. CASE ReceiveFailed(p)  BY <1>5 DEF ReceiveFailed
<1>6. CASE FailPayment(p)  BY <1>6 DEF FailPayment
<1>7. CASE FailFindHold(p)  BY <1>7 DEF FailFindHold
<1>8. CASE FailRelease(p)  BY <1>8 DEF FailRelease, Released
<1>9. CASE FailRead(p)  BY <1>9 DEF FailRead
<1>10. CASE FailBooking(p)  BY <1>10 DEF FailBooking
<1>11. CASE Ack(p)  BY <1>11 DEF Ack
<1> QED  BY <1>1, <1>2, <1>3, <1>4, <1>5, <1>6, <1>7, <1>8, <1>9, <1>10, <1>11 DEF
            WebhookStep

\* The acceptance precedes the money: the calls of a cancellation.
LEMMA MoneyCancelStep ==
    ASSUME TypeOK, MoneyInv, NEW p \in Procs, CancelStep(p)
    PROVE  MoneyInv'
<1> USE DEF TypeOK, MoneyInv, LegacyBeforeMoney, PastLegacy, CapturedHolds, At, Goto,
           Throw, Thrown, Become, Idle, rows, external
<1>1. CASE CancelClaim(p)
  <2> HIDE DEF TypeOK, MoneyInv, LegacyBeforeMoney, Become
  <2>1. \E t : t.pc \notin PastLegacy /\ Become(p, t)
    BY <1>1 DEF CancelClaim, TypeOK, Task
  <2>2. /\ UNCHANGED <<writes, accepted>>
        /\ stripe'.status = "succeeded" => stripe.status = "succeeded"
        /\ CapturedHolds' \subseteq CapturedHolds
    BY <1>1 DEF CancelClaim, TypeOK
  <2> QED  BY <2>1, <2>2, MoneyKept
<1>2. CASE CancelLegacy(p)  BY <1>2 DEF CancelLegacy
<1>3. CASE CancelMapping(p)  BY <1>3 DEF CancelMapping
<1>4. CASE CancelUnknown(p)  BY <1>4 DEF CancelUnknown
<1>5. CASE CancelDone(p)  BY <1>5 DEF CancelDone
<1> QED  BY <1>1, <1>2, <1>3, <1>4, <1>5 DEF CancelStep

\* The acceptance precedes the money: the start of a request.
LEMMA MoneyRequest ==
    ASSUME TypeOK, MoneyInv, NEW p \in Procs, Request(p)
    PROVE  MoneyInv'
<1> USE DEF TypeOK, MoneyInv, LegacyBeforeMoney, PastLegacy, CapturedHolds, At, Goto,
           Throw, Thrown, Become, Idle, rows, external
<1>1. CASE OpenBooking(p)  BY <1>1 DEF OpenBooking
<1>2. CASE StartCheckout(p)  BY <1>2 DEF StartCheckout
<1>3. CASE StartCancel(p)  BY <1>3 DEF StartCancel
<1> QED  BY <1>1, <1>2, <1>3 DEF Request

\* The acceptance precedes the money: the exceptions and the lost answers.
LEMMA MoneyFaulty ==
    ASSUME TypeOK, MoneyInv, NEW p \in Procs, Faulty(p)
    PROVE  MoneyInv'
<1> USE DEF TypeOK, MoneyInv, LegacyBeforeMoney, PastLegacy, CapturedHolds, At, Goto,
           Throw, Thrown, Become, Idle, rows, external
<1>1. CASE Exception(p)  BY <1>1 DEF Exception, AfterException
<1>2. CASE LostAuthorization(p)  BY <1>2 DEF LostAuthorization, IntentFor
<1>3. CASE LostAcceptance(p)  BY <1>3 DEF LostAcceptance
<1>4. CASE LostCapture(p)  BY <1>4 DEF LostCapture
<1>5. CASE LostHoldCapture(p)  BY <1>5 DEF LostHoldCapture, Captured
<1>6. CASE LostCancellation(p)  BY <1>6 DEF LostCancellation
<1> QED  BY <1>1, <1>2, <1>3, <1>4, <1>5, <1>6 DEF Faulty

\* Every step keeps the invariant.
LEMMA MoneyStep == TypeOK /\ MoneyInv /\ [Next]_vars => MoneyInv'
<1> SUFFICES ASSUME TypeOK, MoneyInv, [Next]_vars PROVE MoneyInv'  OBVIOUS
<1> USE DEF rows, external
<1>1. ASSUME NEW p \in Procs, Request(p) \/ Handle(p) \/ Faulty(p) PROVE MoneyInv'
  BY <1>1, MoneyRequest, MoneyProceed, MoneyCheckoutStep, MoneyWebhookStep,
     MoneyCancelStep, MoneyFaulty DEF Handle
<1>2. ASSUME NEW p \in Procs, Deliver(p) PROVE MoneyInv'
  <2>1. CASE UNCHANGED task
    BY <1>2, <2>1 DEF Deliver, MoneyInv, LegacyBeforeMoney, CapturedHolds
  <2>2. CASE \E e \in Event : Become(p, [Idle EXCEPT !.op = e, !.pc = "receive"])
    <3>1. \E t : t.pc \notin PastLegacy /\ Become(p, t)  BY <2>2 DEF Idle, PastLegacy
    <3>2. UNCHANGED <<writes, accepted, stripe, holds>>  BY <1>2 DEF Deliver
    <3> QED  BY <3>1, <3>2, MoneyKept DEF CapturedHolds
  <2> QED  BY <1>2, <2>1, <2>2 DEF Deliver
<1>3. CASE Environment
  BY <1>3 DEF Environment, SlotTaken, Authenticate, FailAuthentication, MoneyInv,
              LegacyBeforeMoney, CapturedHolds, TypeOK
<1>4. CASE Crash
  BY <1>4 DEF Crash, Idle, MoneyInv, PastLegacy, LegacyBeforeMoney, CapturedHolds
<1>5. CASE UNCHANGED vars  BY <1>5 DEF vars, MoneyInv, LegacyBeforeMoney, CapturedHolds
<1> QED  BY <1>1, <1>2, <1>3, <1>4, <1>5 DEF Next

(***************************************************************************)
(* "Capturer seulement si Legacy confirme": with LEGACY_WRITE_ENABLED, no  *)
(* card is debited and no credit is spent before Doinsport accepted the    *)
(* booking, whatever fails and however requests, events and crashes        *)
(* interleave.                                                             *)
(***************************************************************************)
THEOREM LegacyFirst == Spec => []LegacyBeforeMoney
<1>1. Init => MoneyInv
  BY DEF Init, Idle, MoneyInv, PastLegacy, LegacyBeforeMoney, CapturedHolds
<1>2. MoneyInv => LegacyBeforeMoney  BY DEF MoneyInv
<1> QED  BY <1>1, <1>2, MoneyStep, CheckoutTyped, PTL DEF Spec

-----------------------------------------------------------------------------
(***************************************************************************)
(* OnePass, when every request brings a payment method.  While a request   *)
(* holds the claim the booking is neither DRAFT nor CHECKOUT_PENDING, so   *)
(* no other can take it; only the catch block of the holder gives it back. *)
(***************************************************************************)
Methodical(t) ==
    /\ t.pc \notin {"giveUp", "reopen"}
    /\ t.pc \in {"claim", "credits"} => t.method
    /\ t.pc = "catch" => t.op = "checkout"

Claims(t) == t.op = "checkout" /\ t.pc \notin {"claim", "catchRelease"}

PassInv ==
    /\ OnePass
    /\ \A p \in Procs : HoldsClaim(p) => booking \notin {"DRAFT", "CHECKOUT_PENDING"}
    /\ \A p \in Procs : Methodical(task[p])

\* A handler that takes no claim and does not reopen the booking keeps the invariant.
LEMMA PassKept ==
    ASSUME TypeOK, PassInv, NEW p \in Procs, NEW t, Become(p, t), Methodical(t),
           Claims(t) => Claims(task[p]),
           booking' = booking \/ booking' \notin {"DRAFT", "CHECKOUT_PENDING"}
    PROVE  PassInv'
BY DEF TypeOK, PassInv, OnePass, HoldsClaim, Claims, Become

\* One pass at a time: the calls of proceedAfterAuthorization.
LEMMA PassProceed ==
    ASSUME MethodGiven = {TRUE}, TypeOK, PassInv, NEW p \in Procs, Proceed(p)
    PROVE  PassInv'
<1>0. task[p] \in Task /\ Methodical(task[p])  BY DEF TypeOK, PassInv
<1>1. CASE Load(p)
  <2>1. PICK t : /\ Become(p, t) /\ Methodical(t)
                 /\ Claims(t) => Claims(task[p])
    BY <1>0, <1>1 DEF Load, Funding, At, Goto, Throw, Thrown, Idle, Claims, Methodical, Task
  <2>2. booking' = booking \/ booking' \notin {"DRAFT", "CHECKOUT_PENDING"}
    BY <1>1 DEF Load, rows
  <2> QED  BY <2>1, <2>2, PassKept
<1>2. CASE CreateMapping(p)
  <2>1. PICK t : /\ Become(p, t) /\ Methodical(t)
                 /\ Claims(t) => Claims(task[p])
    BY <1>0, <1>2 DEF CreateMapping, At, Goto, Throw, Thrown, Idle, Claims, Methodical, Task
  <2>2. booking' = booking \/ booking' \notin {"DRAFT", "CHECKOUT_PENDING"}
    BY <1>2 DEF CreateMapping, rows
  <2> QED  BY <2>1, <2>2, PassKept
<1>3. CASE LegacyAccepts(p)
  <2>1. PICK t : /\ Become(p, t) /\ Methodical(t)
                 /\ Claims(t) => Claims(task[p])
    BY <1>0, <1>3 DEF LegacyAccepts, At, Goto, Throw, Thrown, Idle, Claims, Methodical, Task
  <2>2. booking' = booking \/ booking' \notin {"DRAFT", "CHECKOUT_PENDING"}
    BY <1>3 DEF LegacyAccepts, rows
  <2> QED  BY <2>1, <2>2, PassKept
<1>4. CASE LegacyCollides(p)
  <2>1. PICK t : /\ Become(p, t) /\ Methodical(t)
                 /\ Claims(t) => Claims(task[p])
    BY <1>0, <1>4 DEF LegacyCollides, At, Goto, Throw, Thrown, Idle, Claims, Methodical,
       Task
  <2>2. booking' = booking \/ booking' \notin {"DRAFT", "CHECKOUT_PENDING"}
    BY <1>4 DEF LegacyCollides, rows
  <2> QED  BY <2>1, <2>2, PassKept
<1>5. CASE LinkMapping(p)
  <2>1. PICK t : /\ Become(p, t) /\ Methodical(t)
                 /\ Claims(t) => Claims(task[p])
    BY <1>0, <1>5 DEF LinkMapping, Funding, At, Goto, Throw, Thrown, Idle, Claims,
       Methodical, Task
  <2>2. booking' = booking \/ booking' \notin {"DRAFT", "CHECKOUT_PENDING"}
    BY <1>5 DEF LinkMapping, rows
  <2> QED  BY <2>1, <2>2, PassKept
<1>6. CASE VoidAuthorization(p)
  <2>1. PICK t : /\ Become(p, t) /\ Methodical(t)
                 /\ Claims(t) => Claims(task[p])
    BY <1>0, <1>6 DEF VoidAuthorization, At, Goto, Throw, Thrown, Idle, Claims,
       Methodical, Task
  <2>2. booking' = booking \/ booking' \notin {"DRAFT", "CHECKOUT_PENDING"}
    BY <1>6 DEF VoidAuthorization, rows
  <2> QED  BY <2>1, <2>2, PassKept
<1>7. CASE RecordVoided(p)
  <2>1. PICK t : /\ Become(p, t) /\ Methodical(t)
                 /\ Claims(t) => Claims(task[p])
    BY <1>0, <1>7 DEF RecordVoided, At, Goto, Throw, Thrown, Idle, Claims, Methodical, Task
  <2>2. booking' = booking \/ booking' \notin {"DRAFT", "CHECKOUT_PENDING"}
    BY <1>7 DEF RecordVoided, rows
  <2> QED  BY <2>1, <2>2, PassKept
<1>8. CASE CollisionRelease(p)
  <2>1. PICK t : /\ Become(p, t) /\ Methodical(t)
                 /\ Claims(t) => Claims(task[p])
    BY <1>0, <1>8 DEF CollisionRelease, At, Goto, Throw, Thrown, Idle, Claims,
       Methodical, Task
  <2>2. booking' = booking \/ booking' \notin {"DRAFT", "CHECKOUT_PENDING"}
    BY <1>8 DEF CollisionRelease, rows
  <2> QED  BY <2>1, <2>2, PassKept
<1>9. CASE CollisionFail(p)
  <2>1. PICK t : /\ Become(p, t) /\ Methodical(t)
                 /\ Claims(t) => Claims(task[p])
    BY <1>0, <1>9 DEF CollisionFail, At, Goto, Throw, Thrown, Idle, Claims, Methodical, Task
  <2>2. booking' = booking \/ booking' \notin {"DRAFT", "CHECKOUT_PENDING"}
    BY <1>9 DEF CollisionFail, rows
  <2> QED  BY <2>1, <2>2, PassKept
<1>10. CASE CollisionMapping(p)
  <2>1. PICK t : /\ Become(p, t) /\ Methodical(t)
                 /\ Claims(t) => Claims(task[p])
    BY <1>0, <1>10 DEF CollisionMapping, At, Goto, Throw, Thrown, Idle, Claims,
       Methodical, Task
  <2>2. booking' = booking \/ booking' \notin {"DRAFT", "CHECKOUT_PENDING"}
    BY <1>10 DEF CollisionMapping, rows
  <2> QED  BY <2>1, <2>2, PassKept
<1>11. CASE Review(p)
  <2>1. PICK t : /\ Become(p, t) /\ Methodical(t)
                 /\ Claims(t) => Claims(task[p])
    BY <1>0, <1>11 DEF Review, At, Goto, Throw, Thrown, Idle, Claims, Methodical, Task
  <2>2. booking' = booking \/ booking' \notin {"DRAFT", "CHECKOUT_PENDING"}
    BY <1>11 DEF Review, rows
  <2> QED  BY <2>1, <2>2, PassKept
<1>12. CASE ReviewMapping(p)
  <2>1. PICK t : /\ Become(p, t) /\ Methodical(t)
                 /\ Claims(t) => Claims(task[p])
    BY <1>0, <1>12 DEF ReviewMapping, At, Goto, Throw, Thrown, Idle, Claims, Methodical,
       Task
  <2>2. booking' = booking \/ booking' \notin {"DRAFT", "CHECKOUT_PENDING"}
    BY <1>12 DEF ReviewMapping, rows
  <2> QED  BY <2>1, <2>2, PassKept
<1>13. CASE CaptureIntent(p)
  <2>1. PICK t : /\ Become(p, t) /\ Methodical(t)
                 /\ Claims(t) => Claims(task[p])
    BY <1>0, <1>13 DEF CaptureIntent, At, Goto, Throw, Thrown, Idle, Claims, Methodical,
       Task
  <2>2. booking' = booking \/ booking' \notin {"DRAFT", "CHECKOUT_PENDING"}
    BY <1>13 DEF CaptureIntent, rows
  <2> QED  BY <2>1, <2>2, PassKept
<1>14. CASE CaptureFailed(p)
  <2>1. PICK t : /\ Become(p, t) /\ Methodical(t)
                 /\ Claims(t) => Claims(task[p])
    BY <1>0, <1>14 DEF CaptureFailed, At, Goto, Throw, Thrown, Idle, Claims, Methodical,
       Task
  <2>2. booking' = booking \/ booking' \notin {"DRAFT", "CHECKOUT_PENDING"}
    BY <1>14 DEF CaptureFailed, rows
  <2> QED  BY <2>1, <2>2, PassKept
<1>15. CASE CaptureReview(p)
  <2>1. PICK t : /\ Become(p, t) /\ Methodical(t)
                 /\ Claims(t) => Claims(task[p])
    BY <1>0, <1>15 DEF CaptureReview, At, Goto, Throw, Thrown, Idle, Claims, Methodical,
       Task
  <2>2. booking' = booking \/ booking' \notin {"DRAFT", "CHECKOUT_PENDING"}
    BY <1>15 DEF CaptureReview, rows
  <2> QED  BY <2>1, <2>2, PassKept
<1>16. CASE RecordSuccess(p)
  <2>1. PICK t : /\ Become(p, t) /\ Methodical(t)
                 /\ Claims(t) => Claims(task[p])
    BY <1>0, <1>16 DEF RecordSuccess, At, Goto, Throw, Thrown, Idle, Claims, Methodical,
       Task
  <2>2. booking' = booking \/ booking' \notin {"DRAFT", "CHECKOUT_PENDING"}
    BY <1>16 DEF RecordSuccess, rows
  <2> QED  BY <2>1, <2>2, PassKept
<1>17. CASE CaptureHold(p)
  <2>1. PICK t : /\ Become(p, t) /\ Methodical(t)
                 /\ Claims(t) => Claims(task[p])
    BY <1>0, <1>17 DEF CaptureHold, At, Goto, Throw, Thrown, Idle, Claims, Methodical, Task
  <2>2. booking' = booking \/ booking' \notin {"DRAFT", "CHECKOUT_PENDING"}
    BY <1>17 DEF CaptureHold, rows
  <2> QED  BY <2>1, <2>2, PassKept
<1>18. CASE Confirm(p)
  <2>1. PICK t : /\ Become(p, t) /\ Methodical(t)
                 /\ Claims(t) => Claims(task[p])
    BY <1>0, <1>18 DEF Confirm, At, Goto, Throw, Thrown, Idle, Claims, Methodical, Task
  <2>2. booking' = booking \/ booking' \notin {"DRAFT", "CHECKOUT_PENDING"}
    BY <1>18 DEF Confirm, rows
  <2> QED  BY <2>1, <2>2, PassKept
<1> QED  BY <1>1, <1>2, <1>3, <1>4, <1>5, <1>6, <1>7, <1>8, <1>9, <1>10, <1>11, <1>12,
            <1>13, <1>14, <1>15, <1>16, <1>17, <1>18 DEF Proceed

\* One pass at a time: the calls of checkout.
LEMMA PassCheckoutStep ==
    ASSUME MethodGiven = {TRUE}, TypeOK, PassInv, NEW p \in Procs, CheckoutStep(p)
    PROVE  PassInv'
<1>0. task[p] \in Task /\ Methodical(task[p])  BY DEF TypeOK, PassInv
<1>1. CASE Claim(p)
  <2>1. CASE booking = "CHECKOUT_PENDING"
    <3>1. \A q \in Procs : ~HoldsClaim(q)  BY <2>1 DEF PassInv
    <3>2. /\ task' = [task EXCEPT ![p] = [task[p] EXCEPT !.pc = "credits"]]
          /\ task[p].pc = "claim" /\ booking' = "PAYMENT_PENDING"
      BY <1>1, <2>1 DEF Claim, Goto, Become, At
    <3>3. \A q \in Procs : q # p => task'[q] = task[q]  BY <3>2
    <3>4. task'[p] = [task[p] EXCEPT !.pc = "credits"]  BY <3>2 DEF TypeOK
    <3>5. Methodical(task'[p])  BY <1>0, <3>2, <3>4 DEF Methodical, Task
    <3>6. \A q \in Procs : HoldsClaim(q)' => q = p  BY <3>1, <3>3 DEF HoldsClaim
    <3> QED  BY <3>2, <3>3, <3>5, <3>6 DEF PassInv, OnePass
  <2>2. CASE booking # "CHECKOUT_PENDING"
    <3>1. Become(p, Idle) /\ booking' = booking  BY <1>1, <2>2 DEF Claim
    <3> QED  BY <3>1, PassKept DEF Idle, Methodical, Claims
  <2> QED  BY <2>1, <2>2
<1>2. CASE ReserveCredits(p)
  <2>1. PICK t : /\ Become(p, t) /\ Methodical(t)
                 /\ Claims(t) => Claims(task[p])
    <3>1. task[p].method /\ At(p, "credits")
      BY <1>0, <1>2 DEF ReserveCredits, At, Methodical
    <3>3. \A r : r.method => AfterCredits(r) \in {"load", "authorize"}  BY DEF AfterCredits
    <3>4. CASE Goto(p, AfterCredits(task[p]))
      <4>1. LET t == [task[p] EXCEPT !.pc = AfterCredits(task[p])]
            IN  t.pc \in {"load", "authorize"} /\ t.op = task[p].op
        BY <1>0, <3>1, <3>3 DEF Task
      <4> QED  BY <3>1, <3>4, <4>1 DEF Goto, Claims, Methodical, At
    <3>5. CASE \E h, c : LET t == [task[p] EXCEPT !.hold = h, !.applied = c]
                         IN  Become(p, [t EXCEPT !.pc = AfterCredits(t)])
      <4>1. PICK h, c : LET t == [task[p] EXCEPT !.hold = h, !.applied = c]
                        IN  Become(p, [t EXCEPT !.pc = AfterCredits(t)])
        BY <3>5
      <4> DEFINE t == [task[p] EXCEPT !.hold = h, !.applied = c]
      <4>2. t.method /\ t.op = task[p].op  BY <1>0, <3>1 DEF Task
      <4>3. AfterCredits(t) \in {"load", "authorize"}  BY <3>3, <4>2
      <4>4. [t EXCEPT !.pc = AfterCredits(t)].pc \in {"load", "authorize"}
        BY <1>0, <4>3 DEF Task
      <4>5. [t EXCEPT !.pc = AfterCredits(t)].op = task[p].op  BY <1>0 DEF Task
      <4> QED  BY <3>1, <4>1, <4>4, <4>5 DEF Claims, Methodical, At
    <3> QED  BY <1>2, <3>4, <3>5 DEF ReserveCredits
  <2>2. booking' = booking \/ booking' \notin {"DRAFT", "CHECKOUT_PENDING"}
    BY <1>2 DEF ReserveCredits, rows
  <2> QED  BY <2>1, <2>2, PassKept
<1>3. CASE RefuseCredits(p)
  <2>1. PICK t : /\ Become(p, t) /\ Methodical(t)
                 /\ Claims(t) => Claims(task[p])
    BY <1>0, <1>3 DEF RefuseCredits, At, Goto, Throw, Thrown, Idle, Claims, Methodical, Task
  <2>2. booking' = booking \/ booking' \notin {"DRAFT", "CHECKOUT_PENDING"}
    BY <1>3 DEF RefuseCredits, rows
  <2> QED  BY <2>1, <2>2, PassKept
<1>4. CASE GiveUp(p)  BY <1>0, <1>4 DEF GiveUp, At, Methodical
<1>5. CASE Reopen(p)  BY <1>0, <1>5 DEF Reopen, At, Methodical
<1>6. CASE Authorize(p)
  <2>1. PICK t : /\ Become(p, t) /\ Methodical(t)
                 /\ Claims(t) => Claims(task[p])
    <3>1. \/ Throw(p)
          \/ \E c : Become(p, [task[p] EXCEPT !.pc = "insertPayment", !.answer = c])
      BY <1>6 DEF Authorize, Throw
    <3>2. \A c : LET t == [task[p] EXCEPT !.pc = "insertPayment", !.answer = c]
               IN  t.pc = "insertPayment" /\ t.op = task[p].op
      BY <1>0 DEF Task
    <3>3. At(p, "authorize")  BY <1>6 DEF Authorize
    <3>4. Methodical(Thrown(p)) /\ (Claims(Thrown(p)) => Claims(task[p]))
      BY <1>0, <3>3 DEF Thrown, Idle, Methodical, Claims, Task, At
    <3> QED  BY <3>1, <3>2, <3>3, <3>4 DEF Throw, Methodical, Claims, At
  <2>2. booking' = booking \/ booking' \notin {"DRAFT", "CHECKOUT_PENDING"}
    BY <1>6 DEF Authorize, rows
  <2> QED  BY <2>1, <2>2, PassKept
<1>7. CASE InsertPayment(p)
  <2>1. PICK t : /\ Become(p, t) /\ Methodical(t)
                 /\ Claims(t) => Claims(task[p])
    <3>1. \/ Throw(p) \/ Become(p, Idle)
          \/ Become(p, [task[p] EXCEPT !.pc = "declinedRelease"])
          \/ Become(p, [task[p] EXCEPT !.pc = "load", !.card = TRUE])
      BY <1>7 DEF InsertPayment
    <3>2. At(p, "insertPayment")  BY <1>7 DEF InsertPayment
    <3>3. Methodical(Thrown(p)) /\ (Claims(Thrown(p)) => Claims(task[p]))
      BY <1>0, <3>2 DEF Thrown, Idle, Methodical, Claims, Task, At
    <3>4. Methodical(Idle) /\ ~Claims(Idle)  BY DEF Idle, Methodical, Claims
    <3>5. LET t == [task[p] EXCEPT !.pc = "declinedRelease"]
          IN  Methodical(t) /\ (Claims(t) => Claims(task[p]))
      BY <1>0, <3>2 DEF Methodical, Claims, Task, At
    <3>6. LET t == [task[p] EXCEPT !.pc = "load", !.card = TRUE]
          IN  Methodical(t) /\ (Claims(t) => Claims(task[p]))
      BY <1>0, <3>2 DEF Methodical, Claims, Task, At
    <3> QED  BY <3>1, <3>3, <3>4, <3>5, <3>6 DEF Throw
  <2>2. booking' = booking \/ booking' \notin {"DRAFT", "CHECKOUT_PENDING"}
    BY <1>7 DEF InsertPayment, rows
  <2> QED  BY <2>1, <2>2, PassKept
<1>8. CASE DeclinedRelease(p)
  <2>1. PICK t : /\ Become(p, t) /\ Methodical(t)
                 /\ Claims(t) => Claims(task[p])
    BY <1>0, <1>8 DEF DeclinedRelease, At, Goto, Throw, Thrown, Idle, Claims,
       Methodical, Task
  <2>2. booking' = booking \/ booking' \notin {"DRAFT", "CHECKOUT_PENDING"}
    BY <1>8 DEF DeclinedRelease, rows
  <2> QED  BY <2>1, <2>2, PassKept
<1>9. CASE DeclinedFail(p)
  <2>1. PICK t : /\ Become(p, t) /\ Methodical(t)
                 /\ Claims(t) => Claims(task[p])
    BY <1>0, <1>9 DEF DeclinedFail, At, Goto, Throw, Thrown, Idle, Claims, Methodical, Task
  <2>2. booking' = booking \/ booking' \notin {"DRAFT", "CHECKOUT_PENDING"}
    BY <1>9 DEF DeclinedFail, rows
  <2> QED  BY <2>1, <2>2, PassKept
<1>10. CASE Catch(p)
  <2>1. CASE booking = "PAYMENT_PENDING"
    <3>1. HoldsClaim(p)  BY <1>0, <1>10 DEF Catch, At, HoldsClaim, Methodical
    <3>2. \A q \in Procs : HoldsClaim(q) => q = p  BY <3>1 DEF PassInv, OnePass
    <3>3. task' = [task EXCEPT ![p] = [task[p] EXCEPT !.pc = "catchRelease"]]
      BY <1>10, <2>1 DEF Catch, Goto, Become
    <3>4. \A q \in Procs : q # p => task'[q] = task[q]  BY <3>3
    <3>5. task'[p] = [task[p] EXCEPT !.pc = "catchRelease"]  BY <3>3 DEF TypeOK
    <3>6. Methodical(task'[p]) /\ task'[p].pc = "catchRelease"
      BY <1>0, <3>5 DEF Methodical, Task
    <3>7. \A q \in Procs : ~HoldsClaim(q)'  BY <3>2, <3>4, <3>6 DEF HoldsClaim
    <3> QED  BY <3>4, <3>6, <3>7 DEF PassInv, OnePass
  <2>2. CASE booking # "PAYMENT_PENDING"
    <3>1. Become(p, Idle) /\ booking' = booking  BY <1>10, <2>2 DEF Catch
    <3> QED  BY <3>1, PassKept DEF Idle, Methodical, Claims
  <2> QED  BY <2>1, <2>2
<1>11. CASE CatchRelease(p)
  <2>1. PICK t : /\ Become(p, t) /\ Methodical(t)
                 /\ Claims(t) => Claims(task[p])
    BY <1>0, <1>11 DEF CatchRelease, At, Goto, Throw, Thrown, Idle, Claims, Methodical, Task
  <2>2. booking' = booking \/ booking' \notin {"DRAFT", "CHECKOUT_PENDING"}
    BY <1>11 DEF CatchRelease, rows
  <2> QED  BY <2>1, <2>2, PassKept
<1> QED  BY <1>1, <1>2, <1>3, <1>4, <1>5, <1>6, <1>7, <1>8, <1>9, <1>10, <1>11 DEF
            CheckoutStep

\* One pass at a time: the two webhook continuations.
LEMMA PassWebhookStep ==
    ASSUME MethodGiven = {TRUE}, TypeOK, PassInv, NEW p \in Procs, WebhookStep(p)
    PROVE  PassInv'
<1>0. task[p] \in Task /\ Methodical(task[p])  BY DEF TypeOK, PassInv
<1>1. CASE ReceiveCapturable(p)
  <2>1. PICK t : /\ Become(p, t) /\ Methodical(t)
                 /\ Claims(t) => Claims(task[p])
    BY <1>0, <1>1 DEF ReceiveCapturable, At, Goto, Throw, Thrown, Idle, Claims,
       Methodical, Task
  <2>2. booking' = booking \/ booking' \notin {"DRAFT", "CHECKOUT_PENDING"}
    BY <1>1 DEF ReceiveCapturable, rows
  <2> QED  BY <2>1, <2>2, PassKept
<1>2. CASE FindHold(p)
  <2>1. PICK t : /\ Become(p, t) /\ Methodical(t)
                 /\ Claims(t) => Claims(task[p])
    <3>1. PICK h \in FoundHold :
            Become(p, [task[p] EXCEPT !.pc = "markAuthorized", !.hold = h, !.card = TRUE])
      BY <1>2 DEF FindHold
    <3>2. LET t == [task[p] EXCEPT !.pc = "markAuthorized", !.hold = h, !.card = TRUE]
          IN  t.pc = "markAuthorized" /\ t.op = task[p].op
      BY <1>0 DEF Task
    <3> QED  BY <1>2, <3>1, <3>2 DEF FindHold, At, Claims, Methodical
  <2>2. booking' = booking \/ booking' \notin {"DRAFT", "CHECKOUT_PENDING"}
    BY <1>2 DEF FindHold, rows
  <2> QED  BY <2>1, <2>2, PassKept
<1>3. CASE MarkAuthorized(p)
  <2>1. PICK t : /\ Become(p, t) /\ Methodical(t)
                 /\ Claims(t) => Claims(task[p])
    BY <1>0, <1>3 DEF MarkAuthorized, At, Goto, Throw, Thrown, Idle, Claims, Methodical,
       Task
  <2>2. booking' = booking \/ booking' \notin {"DRAFT", "CHECKOUT_PENDING"}
    BY <1>3 DEF MarkAuthorized, rows
  <2> QED  BY <2>1, <2>2, PassKept
<1>4. CASE Repend(p)
  <2>1. PICK t : /\ Become(p, t) /\ Methodical(t)
                 /\ Claims(t) => Claims(task[p])
    BY <1>0, <1>4 DEF Repend, At, Goto, Throw, Thrown, Idle, Claims, Methodical, Task
  <2>2. booking' = booking \/ booking' \notin {"DRAFT", "CHECKOUT_PENDING"}
    BY <1>4 DEF Repend, rows
  <2> QED  BY <2>1, <2>2, PassKept
<1>5. CASE ReceiveFailed(p)
  <2>1. PICK t : /\ Become(p, t) /\ Methodical(t)
                 /\ Claims(t) => Claims(task[p])
    BY <1>0, <1>5 DEF ReceiveFailed, At, Goto, Throw, Thrown, Idle, Claims, Methodical, Task
  <2>2. booking' = booking \/ booking' \notin {"DRAFT", "CHECKOUT_PENDING"}
    BY <1>5 DEF ReceiveFailed, rows
  <2> QED  BY <2>1, <2>2, PassKept
<1>6. CASE FailPayment(p)
  <2>1. PICK t : /\ Become(p, t) /\ Methodical(t)
                 /\ Claims(t) => Claims(task[p])
    BY <1>0, <1>6 DEF FailPayment, At, Goto, Throw, Thrown, Idle, Claims, Methodical, Task
  <2>2. booking' = booking \/ booking' \notin {"DRAFT", "CHECKOUT_PENDING"}
    BY <1>6 DEF FailPayment, rows
  <2> QED  BY <2>1, <2>2, PassKept
<1>7. CASE FailFindHold(p)
  <2>1. PICK t : /\ Become(p, t) /\ Methodical(t)
                 /\ Claims(t) => Claims(task[p])
    <3>1. PICK h \in FoundHold : Become(p, [task[p] EXCEPT !.pc = "failRelease", !.hold = h])
      BY <1>7 DEF FailFindHold
    <3>2. LET t == [task[p] EXCEPT !.pc = "failRelease", !.hold = h]
          IN  t.pc = "failRelease" /\ t.op = task[p].op
      BY <1>0 DEF Task
    <3> QED  BY <1>7, <3>1, <3>2 DEF FailFindHold, At, Claims, Methodical
  <2>2. booking' = booking \/ booking' \notin {"DRAFT", "CHECKOUT_PENDING"}
    BY <1>7 DEF FailFindHold, rows
  <2> QED  BY <2>1, <2>2, PassKept
<1>8. CASE FailRelease(p)
  <2>1. PICK t : /\ Become(p, t) /\ Methodical(t)
                 /\ Claims(t) => Claims(task[p])
    BY <1>0, <1>8 DEF FailRelease, At, Goto, Throw, Thrown, Idle, Claims, Methodical, Task
  <2>2. booking' = booking \/ booking' \notin {"DRAFT", "CHECKOUT_PENDING"}
    BY <1>8 DEF FailRelease, rows
  <2> QED  BY <2>1, <2>2, PassKept
<1>9. CASE FailRead(p)
  <2>1. PICK t : /\ Become(p, t) /\ Methodical(t)
                 /\ Claims(t) => Claims(task[p])
    BY <1>0, <1>9 DEF FailRead, At, Goto, Throw, Thrown, Idle, Claims, Methodical, Task
  <2>2. booking' = booking \/ booking' \notin {"DRAFT", "CHECKOUT_PENDING"}
    BY <1>9 DEF FailRead, rows
  <2> QED  BY <2>1, <2>2, PassKept
<1>10. CASE FailBooking(p)
  <2>1. PICK t : /\ Become(p, t) /\ Methodical(t)
                 /\ Claims(t) => Claims(task[p])
    BY <1>0, <1>10 DEF FailBooking, At, Goto, Throw, Thrown, Idle, Claims, Methodical, Task
  <2>2. booking' = booking \/ booking' \notin {"DRAFT", "CHECKOUT_PENDING"}
    BY <1>10 DEF FailBooking, rows
  <2> QED  BY <2>1, <2>2, PassKept
<1>11. CASE Ack(p)
  <2>1. PICK t : /\ Become(p, t) /\ Methodical(t)
                 /\ Claims(t) => Claims(task[p])
    BY <1>0, <1>11 DEF Ack, At, Goto, Throw, Thrown, Idle, Claims, Methodical, Task
  <2>2. booking' = booking \/ booking' \notin {"DRAFT", "CHECKOUT_PENDING"}
    BY <1>11 DEF Ack, rows
  <2> QED  BY <2>1, <2>2, PassKept
<1> QED  BY <1>1, <1>2, <1>3, <1>4, <1>5, <1>6, <1>7, <1>8, <1>9, <1>10, <1>11 DEF
            WebhookStep

\* One pass at a time: the calls of a cancellation.
LEMMA PassCancelStep ==
    ASSUME MethodGiven = {TRUE}, TypeOK, PassInv, NEW p \in Procs, CancelStep(p)
    PROVE  PassInv'
<1>0. task[p] \in Task /\ Methodical(task[p])  BY DEF TypeOK, PassInv
<1>1. CASE CancelClaim(p)
  <2>1. PICK t : /\ Become(p, t) /\ Methodical(t)
                 /\ Claims(t) => Claims(task[p])
    BY <1>0, <1>1 DEF CancelClaim, At, Goto, Throw, Thrown, Idle, Claims, Methodical, Task
  <2>2. booking' = booking \/ booking' \notin {"DRAFT", "CHECKOUT_PENDING"}
    BY <1>1 DEF CancelClaim, rows
  <2> QED  BY <2>1, <2>2, PassKept
<1>2. CASE CancelLegacy(p)
  <2>1. PICK t : /\ Become(p, t) /\ Methodical(t)
                 /\ Claims(t) => Claims(task[p])
    BY <1>0, <1>2 DEF CancelLegacy, At, Goto, Throw, Thrown, Idle, Claims, Methodical, Task
  <2>2. booking' = booking \/ booking' \notin {"DRAFT", "CHECKOUT_PENDING"}
    BY <1>2 DEF CancelLegacy, rows
  <2> QED  BY <2>1, <2>2, PassKept
<1>3. CASE CancelMapping(p)
  <2>1. PICK t : /\ Become(p, t) /\ Methodical(t)
                 /\ Claims(t) => Claims(task[p])
    BY <1>0, <1>3 DEF CancelMapping, At, Goto, Throw, Thrown, Idle, Claims, Methodical, Task
  <2>2. booking' = booking \/ booking' \notin {"DRAFT", "CHECKOUT_PENDING"}
    BY <1>3 DEF CancelMapping, rows
  <2> QED  BY <2>1, <2>2, PassKept
<1>4. CASE CancelUnknown(p)
  <2>1. PICK t : /\ Become(p, t) /\ Methodical(t)
                 /\ Claims(t) => Claims(task[p])
    BY <1>0, <1>4 DEF CancelUnknown, At, Goto, Throw, Thrown, Idle, Claims, Methodical, Task
  <2>2. booking' = booking \/ booking' \notin {"DRAFT", "CHECKOUT_PENDING"}
    BY <1>4 DEF CancelUnknown, rows
  <2> QED  BY <2>1, <2>2, PassKept
<1>5. CASE CancelDone(p)
  <2>1. PICK t : /\ Become(p, t) /\ Methodical(t)
                 /\ Claims(t) => Claims(task[p])
    BY <1>0, <1>5 DEF CancelDone, At, Goto, Throw, Thrown, Idle, Claims, Methodical, Task
  <2>2. booking' = booking \/ booking' \notin {"DRAFT", "CHECKOUT_PENDING"}
    BY <1>5 DEF CancelDone, rows
  <2> QED  BY <2>1, <2>2, PassKept
<1> QED  BY <1>1, <1>2, <1>3, <1>4, <1>5 DEF CancelStep

\* One pass at a time: the start of a request.
LEMMA PassRequest ==
    ASSUME MethodGiven = {TRUE}, TypeOK, PassInv, NEW p \in Procs, Request(p)
    PROVE  PassInv'
<1>0. task[p] \in Task /\ Methodical(task[p])  BY DEF TypeOK, PassInv
<1>1. CASE OpenBooking(p)
  BY <1>1 DEF OpenBooking, TypeOK, PassInv, OnePass, HoldsClaim, Methodical, external
<1>2. CASE StartCheckout(p)
  <2>1. PICK t : /\ Become(p, t) /\ Methodical(t)
                 /\ Claims(t) => Claims(task[p])
    <3>1. Become(p, [Idle EXCEPT !.op = "checkout", !.pc = "claim", !.method = TRUE])
      BY <1>2 DEF StartCheckout
    <3>2. LET t == [Idle EXCEPT !.op = "checkout", !.pc = "claim", !.method = TRUE]
          IN  Methodical(t) /\ ~Claims(t)
      BY DEF Idle, Methodical, Claims
    <3> QED  BY <3>1, <3>2
  <2>2. booking' = booking \/ booking' \notin {"DRAFT", "CHECKOUT_PENDING"}
    BY <1>2 DEF StartCheckout, rows
  <2> QED  BY <2>1, <2>2, PassKept
<1>3. CASE StartCancel(p)
  <2>1. PICK t : /\ Become(p, t) /\ Methodical(t)
                 /\ Claims(t) => Claims(task[p])
    <3>1. PICK b : Become(p, [Idle EXCEPT !.op = "cancel", !.pc = "cancelClaim", !.card = b])
      BY <1>3 DEF StartCancel
    <3>2. LET t == [Idle EXCEPT !.op = "cancel", !.pc = "cancelClaim", !.card = b]
          IN  Methodical(t) /\ ~Claims(t)
      BY DEF Idle, Methodical, Claims
    <3> QED  BY <3>1, <3>2
  <2>2. booking' = booking \/ booking' \notin {"DRAFT", "CHECKOUT_PENDING"}
    BY <1>3 DEF StartCancel, rows
  <2> QED  BY <2>1, <2>2, PassKept
<1> QED  BY <1>1, <1>2, <1>3 DEF Request

\* One pass at a time: the exceptions and the lost answers.
LEMMA PassFaulty ==
    ASSUME MethodGiven = {TRUE}, TypeOK, PassInv, NEW p \in Procs, Faulty(p)
    PROVE  PassInv'
<1>0. task[p] \in Task /\ Methodical(task[p])  BY DEF TypeOK, PassInv
<1>1. CASE Exception(p)
  <2>1. PICK t : /\ Become(p, t) /\ Methodical(t)
                 /\ Claims(t) => Claims(task[p])
    BY <1>0, <1>1 DEF Exception, AfterException, At, Goto, Throw, Thrown, Idle, Claims,
       Methodical, Task
  <2>2. booking' = booking \/ booking' \notin {"DRAFT", "CHECKOUT_PENDING"}
    BY <1>1 DEF Exception, rows
  <2> QED  BY <2>1, <2>2, PassKept
<1>2. CASE LostAuthorization(p)
  <2>1. PICK t : /\ Become(p, t) /\ Methodical(t)
                 /\ Claims(t) => Claims(task[p])
    BY <1>0, <1>2 DEF LostAuthorization, At, Goto, Throw, Thrown, Idle, Claims,
       Methodical, Task
  <2>2. booking' = booking \/ booking' \notin {"DRAFT", "CHECKOUT_PENDING"}
    BY <1>2 DEF LostAuthorization, rows
  <2> QED  BY <2>1, <2>2, PassKept
<1>3. CASE LostAcceptance(p)
  <2>1. PICK t : /\ Become(p, t) /\ Methodical(t)
                 /\ Claims(t) => Claims(task[p])
    BY <1>0, <1>3 DEF LostAcceptance, At, Goto, Throw, Thrown, Idle, Claims, Methodical,
       Task
  <2>2. booking' = booking \/ booking' \notin {"DRAFT", "CHECKOUT_PENDING"}
    BY <1>3 DEF LostAcceptance, rows
  <2> QED  BY <2>1, <2>2, PassKept
<1>4. CASE LostCapture(p)
  <2>1. PICK t : /\ Become(p, t) /\ Methodical(t)
                 /\ Claims(t) => Claims(task[p])
    BY <1>0, <1>4 DEF LostCapture, At, Goto, Throw, Thrown, Idle, Claims, Methodical, Task
  <2>2. booking' = booking \/ booking' \notin {"DRAFT", "CHECKOUT_PENDING"}
    BY <1>4 DEF LostCapture, rows
  <2> QED  BY <2>1, <2>2, PassKept
<1>5. CASE LostHoldCapture(p)
  <2>1. PICK t : /\ Become(p, t) /\ Methodical(t)
                 /\ Claims(t) => Claims(task[p])
    BY <1>0, <1>5 DEF LostHoldCapture, At, Goto, Throw, Thrown, Idle, Claims,
       Methodical, Task
  <2>2. booking' = booking \/ booking' \notin {"DRAFT", "CHECKOUT_PENDING"}
    BY <1>5 DEF LostHoldCapture, rows
  <2> QED  BY <2>1, <2>2, PassKept
<1>6. CASE LostCancellation(p)
  <2>1. PICK t : /\ Become(p, t) /\ Methodical(t)
                 /\ Claims(t) => Claims(task[p])
    BY <1>0, <1>6 DEF LostCancellation, At, Goto, Throw, Thrown, Idle, Claims,
       Methodical, Task
  <2>2. booking' = booking \/ booking' \notin {"DRAFT", "CHECKOUT_PENDING"}
    BY <1>6 DEF LostCancellation, rows
  <2> QED  BY <2>1, <2>2, PassKept
<1> QED  BY <1>1, <1>2, <1>3, <1>4, <1>5, <1>6 DEF Faulty

\* Every step keeps the invariant.
LEMMA PassStep ==
    ASSUME MethodGiven = {TRUE}
    PROVE  TypeOK /\ PassInv /\ [Next]_vars => PassInv'
<1> SUFFICES ASSUME TypeOK, PassInv, [Next]_vars PROVE PassInv'  OBVIOUS
<1> USE DEF rows, external
<1>1. ASSUME NEW p \in Procs, Request(p) \/ Handle(p) \/ Faulty(p) PROVE PassInv'
  BY <1>1, PassRequest, PassProceed, PassCheckoutStep, PassWebhookStep,
     PassCancelStep, PassFaulty DEF Handle
<1>2. ASSUME NEW p \in Procs, Deliver(p) PROVE PassInv'
  <2>1. CASE UNCHANGED task
    BY <1>2, <2>1 DEF Deliver, PassInv, OnePass, HoldsClaim
  <2>2. CASE \E e \in Event : Become(p, [Idle EXCEPT !.op = e, !.pc = "receive"])
    <3>1. PICK e \in Event : Become(p, [Idle EXCEPT !.op = e, !.pc = "receive"])
      BY <2>2
    <3> DEFINE t == [Idle EXCEPT !.op = e, !.pc = "receive"]
    <3>3. Methodical(t) /\ ~Claims(t)  BY DEF Idle, Methodical, Event, Claims
    <3>2. booking' = booking  BY <1>2 DEF Deliver
    <3> QED  BY <3>1, <3>2, <3>3, PassKept
  <2> QED  BY <1>2, <2>1, <2>2 DEF Deliver
<1>3. CASE Environment
  BY <1>3 DEF Environment, SlotTaken, Authenticate, FailAuthentication, PassInv,
              OnePass, HoldsClaim
<1>4. CASE Crash
  BY <1>4 DEF Crash, Idle, PassInv, OnePass, HoldsClaim, Methodical
<1>5. CASE UNCHANGED vars  BY <1>5 DEF vars, PassInv, OnePass, HoldsClaim
<1> QED  BY <1>1, <1>2, <1>3, <1>4, <1>5 DEF Next

(***************************************************************************)
(* The atomic claim of checkout lets a single request through at a time,   *)
(* provided that every request brings a payment method: the branch for a   *)
(* request without one reopens the booking under the claim of another.     *)
(***************************************************************************)
THEOREM ClaimIsExclusive ==
    ASSUME MethodGiven = {TRUE}
    PROVE  Spec => []OnePass
<1>1. Init => PassInv
  BY DEF Init, Idle, PassInv, OnePass, HoldsClaim, Methodical
<1>2. PassInv => OnePass  BY DEF PassInv
<1>3. TypeOK /\ PassInv /\ [Next]_vars => PassInv'  BY PassStep
<1> QED  BY <1>1, <1>2, <1>3, CheckoutTyped, PTL DEF Spec

-----------------------------------------------------------------------------
(***************************************************************************)
(* What a sale rests on.  A handler works on the money from its claim, or  *)
(* from the event it accepts, until it ends; the other handlers wait for   *)
(* an answer that changes nothing, drop a hold of their own, or cancel a   *)
(* booking that was sold.                                                  *)
(***************************************************************************)
Resting == {"idle", "claim", "receive", "ack", "catchRelease"} \cup CancelPc
FailPc == {"failPayment", "failFindHold", "failRelease", "failRead", "failBooking"}
Works(t) == t.pc \notin Resting
Owns(t) == t.hold # NoHold /\ (Works(t) \/ t.pc = "catchRelease")

\* The handlers that can be at each call
Placed(t) ==
    /\ t.pc \in {"claim", "catchRelease"} \cup CheckoutPc => t.op = "checkout"
    /\ t.pc \in {"receive", "ack"} => t.op \in Event
    /\ t.pc \in {"findHold", "markAuthorized", "repend"} => t.op = "capturable"
    /\ t.pc \in FailPc => t.op = "failed"
    /\ t.pc \in Proceeding => t.op \in {"checkout", "capturable"}
    /\ t.pc \in CancelPc => t.op = "cancel"
    /\ t.pc = "idle" => t.op = "none"

\* The payer was asked for 3-D Secure: from then on only webhooks go on.
Await == stripe.answer = "requires_action" /\ payment # "absent"

\* Nothing was taken yet.
Unpaid == stripe.status # "succeeded" /\ payment # "SUCCEEDED" /\ CapturedHolds = {}

CardShare(t) == IF t.card THEN stripe.amount ELSE 0
HoldShare(h) == IF h = NoHold THEN 0 ELSE holds[h].amount
Reserved(h) == h # NoHold => holds[h].status = "ACTIVE"

\* Card and credits of the handler together are the price.
Funded(t) == CardShare(t) + HoldShare(t.hold) = Price

\* As long as Stripe has not answered, or has asked the payer, no other pass
\* has left a reservation behind.
Only(h) == stripe.answer \in {"none", "requires_action"} => ActiveHolds \subseteq {h}

\* The calls before the booking leaves PAYMENT_PENDING
Undecided == (CheckoutPc \ {"catch"}) \cup {"findHold", "markAuthorized", "repend"}
                 \cup (Proceeding \ {"collisionMapping", "reviewMapping"})
\* The calls before Doinsport or the card holder has given anything
Untouched == Undecided \ {"giveUp", "reopen", "link", "capture", "recordSuccess", "captureHold",
                          "confirm", "review", "captureFailed", "captureReview"}
Free(t) == t.pc \in Untouched \/ (t.pc = "catch" /\ booking = "PAYMENT_PENDING")

\* Where a handler stands
Stands(t) ==
    /\ Works(t) => booking \in {"PAYMENT_PENDING", "FAILED", "MANUAL_REVIEW"}
    /\ Works(t) => (t.op = "checkout" <=> ~Await)
    /\ t.pc \in Undecided => booking = "PAYMENT_PENDING"
    /\ t.pc = "collisionMapping" => booking = "FAILED"
    /\ t.pc = "reviewMapping" => booking = "MANUAL_REVIEW"
    /\ Free(t) => Unpaid /\ slot # "ours"
    /\ t.pc \in {"link", "capture"} => Unpaid
    /\ t.pc \in FailPc \cup {"captureFailed"} => payment # "SUCCEEDED"
    /\ t.pc \in CancelPc \ {"cancelClaim"} => booking = "CANCEL_PENDING"
    /\ t.op = "failed" => Await
    /\ t.pc = "mapping" => mapping.sync = "none"
    /\ Works(t) /\ t.pc \notin {"findHold", "markAuthorized", "failPayment"} => payment # "REQUIRES_ACTION"

\* The share of the card and of the credits
Shares(t) ==
    /\ t.pc \in {"claim", "credits", "receive"} => t.hold = NoHold /\ t.applied = 0
    /\ t.pc \in CheckoutPc \cup {"claim"} => (t.card => t.pc = "catch")
    /\ Works(t) /\ t.op = "checkout" /\ t.pc # "insertPayment" => stripe.answer # "requires_action"
    /\ t.pc \in {"authorize", "insertPayment"} => Reserved(t.hold) /\ t.applied = HoldShare(t.hold)
    /\ t.pc = "insertPayment" => /\ t.answer = stripe.answer /\ t.answer \notin {"none", "error"}
                                 /\ stripe.amount = Price - t.applied
                                 /\ t.answer = "requires_action" => payment = "absent"
    /\ t.pc \in {"declinedRelease", "declinedFail"} => stripe.answer = "failed"
    /\ t.op = "capturable" /\ Works(t) /\ t.pc # "findHold" => t.card
    /\ t.op = "checkout" /\ t.card => stripe.answer = "requires_capture"
    /\ Works(t) /\ t.card => payment # "absent"
    /\ t.pc \in {"findHold", "markAuthorized"} => payment = "REQUIRES_ACTION"
    /\ t.pc \in {"markAuthorized", "repend", "load", "mapping", "legacy", "link", "capture",
                 "recordSuccess", "captureHold"} => Reserved(t.hold) /\ Funded(t)
    /\ t.pc \in {"capture", "recordSuccess", "captureFailed", "captureReview", "void", "voided"} => t.card
    /\ t.pc = "recordSuccess" => stripe.status = "succeeded" /\ CapturedHolds = {}
    /\ t.pc = "captureHold" => t.hold # NoHold /\ CapturedHolds = {}
    /\ t.pc = "confirm" => Funded(t) /\ CapturedHolds = {t.hold} \ {NoHold}
    /\ t.pc \in {"captureHold", "confirm"} =>
         /\ stripe.status = "succeeded" <=> t.card
         /\ t.card => payment = "SUCCEEDED"

\* What the holds of other passes can be
Alone(t) ==
    /\ Works(t) /\ t.op # "failed" /\ t.pc \notin {"catch", "findHold"} => Only(t.hold)
    /\ t.pc \in {"credits", "collisionFail"} => Only(NoHold)
    /\ t.pc = "catch" /\ booking = "PAYMENT_PENDING" => Only(NoHold)
    /\ t.pc = "catchRelease" /\ t.hold # NoHold /\ stripe.answer \in {"none", "requires_action"} =>
         holds[t.hold].status # "ACTIVE"
    /\ Owns(t) => holds[t.hold].status # "absent"

Sound(t) == Placed(t) /\ Stands(t) /\ Shares(t) /\ Alone(t)

Open == booking \in {"DRAFT", "CHECKOUT_PENDING"} =>
            Unpaid /\ slot # "ours" /\ stripe.answer # "requires_action" /\ Only(NoHold)

\* The payment that waits for its payer is covered by what was left reserved.
Awaited == payment = "REQUIRES_ACTION" =>
    /\ booking = "PAYMENT_PENDING" /\ stripe.answer = "requires_action"
    /\ Unpaid /\ slot # "ours"
    /\ \E h \in Holds \cup {NoHold} : ActiveHolds = {h} \ {NoHold} /\ stripe.amount + HoldShare(h) = Price

SoldFor == booking \in Sold =>
    /\ Await => payment = "SUCCEEDED"
    /\ \E h \in Holds \cup {NoHold} : CapturedHolds = {h} \ {NoHold} /\ CardPaid + HoldShare(h) = Price

IntentMade ==
    /\ stripe.status = "none" <=> stripe.answer = "none"
    /\ stripe.status = "none" => payment = "absent"
    /\ events["failed"].left > 0 => Await

OwnHolds == \A p, q \in Procs : p # q /\ Owns(task[p]) /\ Owns(task[q]) => task[p].hold # task[q].hold
OneCancel == \A p, q \in Procs :
    task[p].pc \in CancelPc \ {"cancelClaim"} /\ task[q].pc \in CancelPc \ {"cancelClaim"} => p = q

SaleInv ==
    /\ TypeOK /\ PassInv /\ DeliveredApart
    /\ \A p \in Procs : Sound(task[p])
    /\ Open /\ Awaited /\ SoldFor /\ IntentMade /\ OwnHolds /\ OneCancel

\* The calls after which the catch block would reopen a booking that Doinsport
\* or Stripe has gone on with, or that is still reserved: none of them fails.
Decisive == {"load", "mapping", "authorize", "insertPayment", "recordSuccess", "captureHold",
             "confirm", "collisionRelease", "review", "captureFailed", "captureReview"}

-----------------------------------------------------------------------------
\* At most one handler works on the money.
LEMMA OneWorker ==
    ASSUME SaleInv, NEW p \in Procs, NEW q \in Procs, Works(task[p]), Works(task[q])
    PROVE  p = q
<1>1. Placed(task[p]) /\ Placed(task[q]) /\ Stands(task[p]) /\ Stands(task[q])
  BY DEF SaleInv, Sound
<1>2. task[p] \in Task /\ task[q] \in Task
  BY DEF SaleInv, TypeOK
<1>3. \A r \in {p, q} : \/ task[r].op = "checkout" /\ HoldsClaim(r) /\ ~Await
                        \/ task[r].op \in Event /\ Await
  BY <1>1, <1>2 DEF Placed, Stands, Works, Resting, HoldsClaim, Task, Pc, FailPc, Event, Proceeding,
     CheckoutPc, WebhookPc, CancelPc
<1> QED BY <1>3 DEF SaleInv, PassInv, OnePass, DeliveredApart

\* What the handlers that rest need of a step of another
Grows ==
    /\ Await => Await'
    /\ stripe.answer # "none" => stripe'.answer = stripe.answer
    /\ \A h \in Holds : holds[h].status # "absent" =>
         /\ holds'[h].status # "absent"
         /\ holds'[h].status = "ACTIVE" => holds[h].status = "ACTIVE"
    /\ booking = "CANCEL_PENDING" => booking' = "CANCEL_PENDING"

\* A handler that rests stays sound when the others go on as Grows says.
LEMMA RestKept ==
    ASSUME SaleInv, Grows, NEW q \in Procs, ~Works(task[q]), task'[q] = task[q]
    PROVE  Sound(task[q])'
<1>0. Sound(task[q]) /\ task[q] \in Task
  BY DEF SaleInv, TypeOK
<1>1. Placed(task[q])' /\ ~Works(task[q])'
  BY <1>0 DEF Sound, Placed, Works
<1>2. Stands(task[q])'
  BY <1>0, <1>1 DEF Sound, Stands, Works, Resting, Grows, Undecided, Untouched, Free, FailPc,
     Proceeding, CheckoutPc, CancelPc, Placed
<1>3. Shares(task[q])'
  BY <1>0, <1>1 DEF Sound, Shares, Works, Resting, CheckoutPc, CancelPc, Grows
<1>4. Alone(task[q])'
  BY <1>0, <1>1 DEF Sound, Alone, Works, Resting, Owns, Grows, CancelPc, Task
<1> QED BY <1>1, <1>2, <1>3, <1>4 DEF Sound

\* A handler keeps its hold, drops it, or takes one that nobody has.
TakesOwn(p, t) ==
    \/ ~Owns(t)
    \/ Owns(task[p]) /\ t.hold = task[p].hold
    \/ \A q \in Procs \ {p} : Owns(task[q]) => task[q].hold # t.hold

\* Two handlers never come to own the same hold.
LEMMA OwnHoldsKept ==
    ASSUME SaleInv, NEW p \in Procs, NEW t, Become(p, t), TakesOwn(p, t)
    PROVE  OwnHolds'
<1>1. \A q \in Procs : task'[q] = IF q = p THEN t ELSE task[q]
  BY DEF SaleInv, TypeOK, Become
<1>2. \A q \in Procs : Owns(task[q])' <=> (IF q = p THEN Owns(t) ELSE Owns(task[q]))
  BY <1>1 DEF Owns, Works
<1> QED BY <1>1, <1>2 DEF OwnHolds, TakesOwn, SaleInv

\* A step of the handler that works on the money
LEMMA WorkStep ==
    ASSUME SaleInv, TypeOK', PassInv', DeliveredApart', Grows,
           NEW p \in Procs, Works(task[p]), NEW t, Become(p, t), t.pc \notin CancelPc,
           Sound(t)', TakesOwn(p, t), Open', Awaited', SoldFor', IntentMade'
    PROVE  SaleInv'
<1>1. \A q \in Procs : task'[q] = IF q = p THEN t ELSE task[q]
  BY DEF SaleInv, TypeOK, Become
<1>2. \A q \in Procs : Sound(task[q])'
  <2> TAKE q \in Procs
  <2>1. CASE q = p
    BY <1>1, <2>1
  <2>2. CASE q # p
    BY <1>1, <2>2, OneWorker, RestKept
  <2> QED BY <2>1, <2>2
<1>3. OwnHolds'
  BY OwnHoldsKept
<1>4. OneCancel'
  BY <1>1 DEF OneCancel, SaleInv
<1> QED BY <1>2, <1>3, <1>4 DEF SaleInv

\* A step of that handler that writes no row
LEMMA QuietStep ==
    ASSUME SaleInv, TypeOK', PassInv', DeliveredApart',
           UNCHANGED <<booking, holds, payment, stripe, slot>>,
           events'["failed"].left <= events["failed"].left,
           NEW p \in Procs, Works(task[p]), NEW t, Become(p, t), t.pc \notin CancelPc,
           Sound(t)', TakesOwn(p, t)
    PROVE  SaleInv'
<1>1. Grows
  BY DEF Grows, Await
<1>2. Open' /\ Awaited' /\ SoldFor'
  BY DEF SaleInv, Open, Awaited, SoldFor, Unpaid, Only, ActiveHolds, CapturedHolds, HoldShare,
     CardPaid, Await
<1>3. IntentMade'
  BY DEF SaleInv, IntentMade, Await, TypeOK, Event
<1> QED BY <1>1, <1>2, <1>3, WorkStep


\* The handler goes on to another call, and keeps the rest.
Moves(u, t) == t.op = u.op /\ t.method = u.method /\ t.hold = u.hold /\ t.applied = u.applied
                  /\ t.card = u.card /\ t.answer = u.answer

\* Goto changes the call only.
LEMMA GoneTo ==
    ASSUME SaleInv, NEW p \in Procs, NEW pc, Goto(p, pc)
    PROVE  \E t : Become(p, t) /\ Moves(task[p], t) /\ t.pc = pc
<1>1. PICK t : t = [task[p] EXCEPT !.pc = pc] /\ Become(p, t)
  BY DEF Goto
<1>2. task[p] \in Task
  BY DEF SaleInv, TypeOK
<1> QED BY <1>1, <1>2 DEF Moves, Task

\* An exception ends in the catch block of checkout, or ends the handler.
LEMMA Threw ==
    ASSUME SaleInv, NEW p \in Procs, Throw(p)
    PROVE  \E t : /\ Become(p, t)
                  /\ \/ task[p].op = "checkout" /\ Moves(task[p], t) /\ t.pc = "catch"
                     \/ task[p].op # "checkout" /\ t = Idle
<1>1. PICK t : t = Thrown(p) /\ Become(p, t)
  BY DEF Throw
<1>2. task[p] \in Task
  BY DEF SaleInv, TypeOK
<1> QED BY <1>1, <1>2 DEF Moves, Task, Thrown

\* A released hold is no longer ACTIVE, the others stay.
LEMMA Releases ==
    ASSUME TypeOK, NEW h \in Holds \cup {NoHold}, holds' = Released(h)
    PROVE  /\ \A g \in Holds : /\ holds'[g].amount = holds[g].amount
                               /\ holds'[g].status = IF g = h /\ holds[g].status = "ACTIVE" THEN "RELEASED"
                                                     ELSE holds[g].status
           /\ ActiveHolds' = ActiveHolds \ {h} /\ CapturedHolds' = CapturedHolds
<1>1. \A g \in Holds : /\ holds'[g].amount = holds[g].amount
                       /\ holds'[g].status = IF g = h /\ holds[g].status = "ACTIVE" THEN "RELEASED"
                                             ELSE holds[g].status
  BY CheckoutAssumption DEF TypeOK, Released, HoldRow
<1> QED BY <1>1 DEF ActiveHolds, CapturedHolds

\* An ACTIVE hold becomes CAPTURED, the others stay.
LEMMA Captures ==
    ASSUME TypeOK, NEW h \in Holds, holds[h].status = "ACTIVE", holds' = Captured(h)
    PROVE  /\ \A g \in Holds : /\ holds'[g].amount = holds[g].amount
                               /\ holds'[g].status = IF g = h THEN "CAPTURED" ELSE holds[g].status
           /\ ActiveHolds' = ActiveHolds \ {h} /\ CapturedHolds' = CapturedHolds \cup {h}
<1>1. \A g \in Holds : /\ holds'[g].amount = holds[g].amount
                       /\ holds'[g].status = IF g = h THEN "CAPTURED" ELSE holds[g].status
  BY DEF TypeOK, Captured, HoldRow
<1> QED BY <1>1 DEF ActiveHolds, CapturedHolds


Canceling == CancelPc \ {"cancelClaim"}

\* A handler goes on canceling, or is the first to.
CancelsAlone(p, t) == t.pc \in Canceling =>
    task[p].pc \in Canceling \/ \A q \in Procs : task[q].pc \notin Canceling

\* Two cancellations never go on at the same time.
LEMMA CancelKept ==
    ASSUME SaleInv, NEW p \in Procs, NEW t, Become(p, t), CancelsAlone(p, t)
    PROVE  OneCancel'
<1>1. \A q \in Procs : task'[q] = IF q = p THEN t ELSE task[q]
  BY DEF SaleInv, TypeOK, Become
<1> QED BY <1>1 DEF OneCancel, CancelsAlone, Canceling, SaleInv

\* Nobody works on the money of a booking that is not being paid.
LEMMA NobodyWorks ==
    ASSUME SaleInv, booking \notin {"PAYMENT_PENDING", "FAILED", "MANUAL_REVIEW"}
    PROVE  \A q \in Procs : ~Works(task[q])
BY DEF SaleInv, Sound, Stands

\* A step of any handler that leaves the one at work sound
LEMMA RestStep ==
    ASSUME SaleInv, TypeOK', PassInv', DeliveredApart', Grows,
           NEW p \in Procs, NEW t, Become(p, t), CancelsAlone(p, t),
           Sound(t)', TakesOwn(p, t), Open', Awaited', SoldFor', IntentMade',
           \A q \in Procs \ {p} : Works(task[q]) => Sound(task[q])'
    PROVE  SaleInv'
<1>1. \A q \in Procs : task'[q] = IF q = p THEN t ELSE task[q]
  BY DEF SaleInv, TypeOK, Become
<1>2. \A q \in Procs : Sound(task[q])'
  <2> TAKE q \in Procs
  <2>1. CASE q = p
    BY <1>1, <2>1
  <2>2. CASE q # p /\ ~Works(task[q])
    BY <1>1, <2>2, RestKept
  <2>3. CASE q # p /\ Works(task[q])
    <3>1. PICK u : u = task[q]
      OBVIOUS
    <3>2. Sound(task[q])' /\ task'[q] = task[q]
      BY <1>1, <2>3
    <3> QED BY <3>2
  <2> QED BY <2>1, <2>2, <2>3
<1> QED BY <1>2, OwnHoldsKept, CancelKept DEF SaleInv

\* A step that writes nothing a sale rests on
LEMMA StillStep ==
    ASSUME SaleInv, TypeOK', PassInv', DeliveredApart',
           UNCHANGED <<booking, mapping, holds, payment, stripe, slot>>,
           events'["failed"].left <= events["failed"].left,
           NEW p \in Procs, NEW t, Become(p, t), CancelsAlone(p, t), Sound(t)', TakesOwn(p, t)
    PROVE  SaleInv'
<1>1. Grows
  BY DEF Grows, Await
<1>2. Open' /\ Awaited' /\ SoldFor'
  BY DEF SaleInv, Open, Awaited, SoldFor, Unpaid, Only, ActiveHolds, CapturedHolds, HoldShare,
     CardPaid, Await
<1>3. IntentMade'
  BY DEF SaleInv, IntentMade, Await, TypeOK, Event
<1>4. \A q \in Procs \ {p} : Sound(task[q])'
  <2>1. TAKE q \in Procs \ {p}
  <2>2. task'[q] = task[q] /\ Sound(task[q])
    BY <2>1 DEF SaleInv, TypeOK, Become
  <2> QED BY <2>2 DEF Sound, Placed, Stands, Shares, Alone, Works, Resting, Owns, Free, Undecided,
             Untouched, Proceeding, CheckoutPc, WebhookPc, CancelPc, FailPc, Await, Unpaid, Only,
             Reserved, Funded, CardShare, HoldShare, ActiveHolds, CapturedHolds, Moves, Idle, Task,
             Event
<1> QED BY <1>1, <1>2, <1>3, <1>4, RestStep

\* A handler that has ended is sound.
LEMMA IdleSound == Sound(Idle)'
BY DEF Sound, Placed, Stands, Shares, Alone, Works, Resting, Owns, Free, Undecided, Untouched,
   Proceeding, CheckoutPc, WebhookPc, CancelPc, FailPc, Await, Unpaid, Only, Reserved, Funded,
   CardShare, HoldShare, ActiveHolds, CapturedHolds, Moves, Idle, Task, Event

\* Load keeps the invariant.
LEMMA SaleLoad ==
    ASSUME SaleInv, TypeOK', PassInv', DeliveredApart', NEW p \in Procs, Load(p)
    PROVE  SaleInv'
<1>0. Sound(task[p]) /\ task[p] \in Task /\ task[p].pc = "load" /\ Works(task[p])
  BY DEF SaleInv, TypeOK, Load, At, Works, Resting, CancelPc
<1>1. PICK t : /\ Become(p, t) /\ Moves(task[p], t)
               /\ t.pc = (IF ~writes THEN Funding(task[p])
                         ELSE IF mapping.sync = "none" THEN "mapping" ELSE "legacy")
  BY <1>0, GoneTo, Threw DEF Load, Funding, At
<1>2. UNCHANGED <<booking, holds, payment, stripe, slot, events>>
  BY DEF Load, rows, external
<1>3. Sound(t)'
  BY <1>0, <1>1, <1>2, CheckoutAssumption DEF Load, Funding, At, rows, external, Sound, Placed,
     Stands, Shares, Alone, Works, Resting, Owns, Free, Undecided, Untouched, Proceeding,
     CheckoutPc, WebhookPc, CancelPc, FailPc, Await, Unpaid, Only, Reserved, Funded, CardShare,
     HoldShare, ActiveHolds, CapturedHolds, Moves, Idle, Task, Event
<1>4. TakesOwn(p, t) /\ t.pc \notin CancelPc
  BY <1>0, <1>1 DEF TakesOwn, Owns, CancelPc, Moves, Idle, Funding
<1> QED BY <1>0, <1>1, <1>2, <1>3, <1>4, QuietStep DEF TypeOK, Event

\* CreateMapping keeps the invariant.
LEMMA SaleMapping ==
    ASSUME SaleInv, TypeOK', PassInv', DeliveredApart', NEW p \in Procs, CreateMapping(p)
    PROVE  SaleInv'
<1>0. Sound(task[p]) /\ task[p] \in Task /\ task[p].pc = "mapping" /\ Works(task[p])
  BY DEF SaleInv, TypeOK, CreateMapping, At, Works, Resting, CancelPc
<1>1. PICK t : Become(p, t) /\ Moves(task[p], t) /\ t.pc = "legacy"
  BY <1>0, GoneTo, Threw DEF CreateMapping, Sound, Stands, At
<1>2. UNCHANGED <<booking, holds, payment, stripe, slot, events>>
  BY DEF CreateMapping, rows, external
<1>3. Sound(t)'
  BY <1>0, <1>1, <1>2, CheckoutAssumption DEF CreateMapping, Sound, Stands, At, rows, external, Sound,
     Placed, Stands, Shares, Alone, Works, Resting, Owns, Free, Undecided, Untouched, Proceeding,
     CheckoutPc, WebhookPc, CancelPc, FailPc, Await, Unpaid, Only, Reserved, Funded, CardShare,
     HoldShare, ActiveHolds, CapturedHolds, Moves, Idle, Task, Event
<1>4. TakesOwn(p, t) /\ t.pc \notin CancelPc
  BY <1>0, <1>1 DEF TakesOwn, Owns, CancelPc, Moves, Idle, Sound, Stands
<1> QED BY <1>0, <1>1, <1>2, <1>3, <1>4, QuietStep DEF TypeOK, Event

\* LegacyAccepts keeps the invariant.
LEMMA SaleAccepts ==
    ASSUME SaleInv, TypeOK', PassInv', DeliveredApart', NEW p \in Procs, LegacyAccepts(p)
    PROVE  SaleInv'
<1>0. Sound(task[p]) /\ task[p] \in Task /\ task[p].pc = "legacy" /\ Works(task[p])
  BY DEF SaleInv, TypeOK, LegacyAccepts, At, Works, Resting, CancelPc
<1>1. PICK t : Become(p, t) /\ Moves(task[p], t) /\ t.pc = "link"
  BY <1>0, GoneTo, Threw DEF LegacyAccepts, At, SaleInv, TypeOK
<1>2. UNCHANGED <<booking, holds, payment, stripe, events>>
  BY <1>0 DEF LegacyAccepts, rows, external, SaleInv, TypeOK, Sound, Stands, Undecided
<1>3. Sound(t)'
  BY <1>0, <1>1, <1>2, CheckoutAssumption DEF LegacyAccepts, At, rows, external, Sound, Placed,
     Stands, Shares, Alone, Works, Resting, Owns, Free, Undecided, Untouched, Proceeding,
     CheckoutPc, WebhookPc, CancelPc, FailPc, Await, Unpaid, Only, Reserved, Funded, CardShare,
     HoldShare, ActiveHolds, CapturedHolds, Moves, Idle, Task, Event
<1>4. TakesOwn(p, t) /\ t.pc \notin CancelPc
  BY <1>0, <1>1 DEF TakesOwn, Owns, CancelPc, Moves, Idle
<1>5. Grows
  BY <1>0, <1>2 DEF LegacyAccepts, Grows, Await, TypeOK, SaleInv, Sound, Stands, Works, Shares
<1>6. Open' /\ Awaited' /\ IntentMade'
  BY <1>0, <1>2 DEF LegacyAccepts, SaleInv, TypeOK, Open, Awaited, IntentMade, Sound, Placed, Stands,
     Shares, Alone, Works, Resting, Owns, Free, Undecided, Untouched, Proceeding, CheckoutPc,
     WebhookPc, CancelPc, FailPc, Await, Unpaid, Only, Reserved, Funded, CardShare, HoldShare,
     ActiveHolds, CapturedHolds, Moves, Idle, Task, Event
<1>7. SoldFor'
  BY <1>0, <1>1, <1>2 DEF LegacyAccepts, SaleInv, TypeOK, SoldFor, Sold, CardPaid, Sound, Placed,
     Stands, Shares, Alone, Works, Resting, Owns, Free, Undecided, Untouched, Proceeding,
     CheckoutPc, WebhookPc, CancelPc, FailPc, Await, Unpaid, Only, Reserved, Funded, CardShare,
     HoldShare, ActiveHolds, CapturedHolds, Moves, Idle, Task, Event
<1> QED BY <1>0, <1>1, <1>3, <1>4, <1>5, <1>6, <1>7, WorkStep

\* LegacyCollides keeps the invariant.
LEMMA SaleCollides ==
    ASSUME SaleInv, TypeOK', PassInv', DeliveredApart', NEW p \in Procs, LegacyCollides(p)
    PROVE  SaleInv'
<1>0. Sound(task[p]) /\ task[p] \in Task /\ task[p].pc = "legacy" /\ Works(task[p])
  BY DEF SaleInv, TypeOK, LegacyCollides, At, Works, Resting, CancelPc
<1>1. PICK t : Become(p, t) /\ Moves(task[p], t) /\ t.pc = (IF task[p].card THEN "void" ELSE "collisionRelease")
  BY <1>0, GoneTo, Threw DEF LegacyCollides, At
<1>2. UNCHANGED <<booking, holds, payment, stripe, slot, events>>
  BY DEF LegacyCollides, rows, external
<1>3. Sound(t)'
  BY <1>0, <1>1, <1>2, CheckoutAssumption DEF LegacyCollides, At, rows, external, Sound, Placed,
     Stands, Shares, Alone, Works, Resting, Owns, Free, Undecided, Untouched, Proceeding,
     CheckoutPc, WebhookPc, CancelPc, FailPc, Await, Unpaid, Only, Reserved, Funded, CardShare,
     HoldShare, ActiveHolds, CapturedHolds, Moves, Idle, Task, Event
<1>4. TakesOwn(p, t) /\ t.pc \notin CancelPc
  BY <1>0, <1>1 DEF TakesOwn, Owns, CancelPc, Moves, Idle
<1> QED BY <1>0, <1>1, <1>2, <1>3, <1>4, QuietStep DEF TypeOK, Event

\* LinkMapping keeps the invariant.
LEMMA SaleLink ==
    ASSUME SaleInv, TypeOK', PassInv', DeliveredApart', NEW p \in Procs, LinkMapping(p)
    PROVE  SaleInv'
<1>0. Sound(task[p]) /\ task[p] \in Task /\ task[p].pc = "link" /\ Works(task[p])
  BY DEF SaleInv, TypeOK, LinkMapping, At, Works, Resting, CancelPc
<1>1. PICK t : Become(p, t) /\ Moves(task[p], t) /\ t.pc = Funding(task[p])
  BY <1>0, GoneTo, Threw DEF LinkMapping, Funding, At
<1>2. UNCHANGED <<booking, holds, payment, stripe, slot, events>>
  BY DEF LinkMapping, rows, external
<1>3. Sound(t)'
  BY <1>0, <1>1, <1>2, CheckoutAssumption DEF LinkMapping, Funding, At, rows, external, Sound, Placed,
     Stands, Shares, Alone, Works, Resting, Owns, Free, Undecided, Untouched, Proceeding,
     CheckoutPc, WebhookPc, CancelPc, FailPc, Await, Unpaid, Only, Reserved, Funded, CardShare,
     HoldShare, ActiveHolds, CapturedHolds, Moves, Idle, Task, Event
<1>4. TakesOwn(p, t) /\ t.pc \notin CancelPc
  BY <1>0, <1>1 DEF TakesOwn, Owns, CancelPc, Moves, Idle, Funding
<1> QED BY <1>0, <1>1, <1>2, <1>3, <1>4, QuietStep DEF TypeOK, Event

\* CollisionMapping keeps the invariant.
LEMMA SaleCollisionMapping ==
    ASSUME SaleInv, TypeOK', PassInv', DeliveredApart', NEW p \in Procs, CollisionMapping(p)
    PROVE  SaleInv'
<1>0. Sound(task[p]) /\ task[p] \in Task /\ task[p].pc = "collisionMapping" /\ Works(task[p])
  BY DEF SaleInv, TypeOK, CollisionMapping, At, Works, Resting, CancelPc
<1>1. PICK t : /\ Become(p, t)
               /\ \/ task[p].op = "checkout" /\ Moves(task[p], t) /\ t.pc = "catch"
                  \/ task[p].op # "checkout" /\ t = Idle
  BY <1>0, GoneTo, Threw DEF CollisionMapping, At
<1>2. UNCHANGED <<booking, holds, payment, stripe, slot, events>>
  BY DEF CollisionMapping, rows, external
<1>3. Sound(t)'
  BY <1>0, <1>1, <1>2, CheckoutAssumption DEF CollisionMapping, At, rows, external, Sound, Placed,
     Stands, Shares, Alone, Works, Resting, Owns, Free, Undecided, Untouched, Proceeding,
     CheckoutPc, WebhookPc, CancelPc, FailPc, Await, Unpaid, Only, Reserved, Funded, CardShare,
     HoldShare, ActiveHolds, CapturedHolds, Moves, Idle, Task, Event
<1>4. TakesOwn(p, t) /\ t.pc \notin CancelPc
  BY <1>0, <1>1 DEF TakesOwn, Owns, CancelPc, Moves, Idle
<1> QED BY <1>0, <1>1, <1>2, <1>3, <1>4, QuietStep DEF TypeOK, Event

\* ReviewMapping keeps the invariant.
LEMMA SaleReviewMapping ==
    ASSUME SaleInv, TypeOK', PassInv', DeliveredApart', NEW p \in Procs, ReviewMapping(p)
    PROVE  SaleInv'
<1>0. Sound(task[p]) /\ task[p] \in Task /\ task[p].pc = "reviewMapping" /\ Works(task[p])
  BY DEF SaleInv, TypeOK, ReviewMapping, At, Works, Resting, CancelPc
<1>1. PICK t : /\ Become(p, t)
               /\ \/ task[p].op = "checkout" /\ Moves(task[p], t) /\ t.pc = "catch"
                  \/ task[p].op # "checkout" /\ t = Idle
  BY <1>0, GoneTo, Threw DEF ReviewMapping, At
<1>2. UNCHANGED <<booking, holds, payment, stripe, slot, events>>
  BY DEF ReviewMapping, rows, external
<1>3. Sound(t)'
  BY <1>0, <1>1, <1>2, CheckoutAssumption DEF ReviewMapping, At, rows, external, Sound, Placed,
     Stands, Shares, Alone, Works, Resting, Owns, Free, Undecided, Untouched, Proceeding,
     CheckoutPc, WebhookPc, CancelPc, FailPc, Await, Unpaid, Only, Reserved, Funded, CardShare,
     HoldShare, ActiveHolds, CapturedHolds, Moves, Idle, Task, Event
<1>4. TakesOwn(p, t) /\ t.pc \notin CancelPc
  BY <1>0, <1>1 DEF TakesOwn, Owns, CancelPc, Moves, Idle
<1> QED BY <1>0, <1>1, <1>2, <1>3, <1>4, QuietStep DEF TypeOK, Event

\* RecordVoided keeps the invariant.
LEMMA SaleVoided ==
    ASSUME SaleInv, TypeOK', PassInv', DeliveredApart', NEW p \in Procs, RecordVoided(p)
    PROVE  SaleInv'
<1>0. Sound(task[p]) /\ task[p] \in Task /\ task[p].pc = "voided" /\ Works(task[p])
  BY DEF SaleInv, TypeOK, RecordVoided, At, Works, Resting, CancelPc
<1>1. PICK t : Become(p, t) /\ Moves(task[p], t) /\ t.pc = "collisionRelease"
  BY <1>0, GoneTo, Threw DEF RecordVoided, At, SaleInv, TypeOK
<1>2. UNCHANGED <<booking, holds, stripe, slot, events>>
  BY <1>0 DEF RecordVoided, rows, external, SaleInv, TypeOK, Sound, Stands, Undecided
<1>3. Sound(t)'
  BY <1>0, <1>1, <1>2, CheckoutAssumption DEF RecordVoided, At, rows, external, Sound, Placed, Stands,
     Shares, Alone, Works, Resting, Owns, Free, Undecided, Untouched, Proceeding, CheckoutPc,
     WebhookPc, CancelPc, FailPc, Await, Unpaid, Only, Reserved, Funded, CardShare, HoldShare,
     ActiveHolds, CapturedHolds, Moves, Idle, Task, Event
<1>4. TakesOwn(p, t) /\ t.pc \notin CancelPc
  BY <1>0, <1>1 DEF TakesOwn, Owns, CancelPc, Moves, Idle
<1>5. Grows
  BY <1>0, <1>2 DEF RecordVoided, Grows, Await, TypeOK, SaleInv, Sound, Stands, Works, Shares
<1>6. Open' /\ Awaited' /\ IntentMade'
  BY <1>0, <1>2 DEF RecordVoided, SaleInv, TypeOK, Open, Awaited, IntentMade, Sound, Placed, Stands,
     Shares, Alone, Works, Resting, Owns, Free, Undecided, Untouched, Proceeding, CheckoutPc,
     WebhookPc, CancelPc, FailPc, Await, Unpaid, Only, Reserved, Funded, CardShare, HoldShare,
     ActiveHolds, CapturedHolds, Moves, Idle, Task, Event
<1>7. SoldFor'
  BY <1>0, <1>1, <1>2 DEF RecordVoided, SaleInv, TypeOK, SoldFor, Sold, CardPaid, Sound, Placed,
     Stands, Shares, Alone, Works, Resting, Owns, Free, Undecided, Untouched, Proceeding,
     CheckoutPc, WebhookPc, CancelPc, FailPc, Await, Unpaid, Only, Reserved, Funded, CardShare,
     HoldShare, ActiveHolds, CapturedHolds, Moves, Idle, Task, Event
<1> QED BY <1>0, <1>1, <1>3, <1>4, <1>5, <1>6, <1>7, WorkStep

\* CollisionRelease keeps the invariant.
LEMMA SaleCollisionRelease ==
    ASSUME SaleInv, TypeOK', PassInv', DeliveredApart', NEW p \in Procs, CollisionRelease(p)
    PROVE  SaleInv'
<1>0. Sound(task[p]) /\ task[p] \in Task /\ task[p].pc = "collisionRelease" /\ Works(task[p])
  BY DEF SaleInv, TypeOK, CollisionRelease, At, Works, Resting, CancelPc
<1>1. PICK t : Become(p, t) /\ Moves(task[p], t) /\ t.pc = "collisionFail"
  BY <1>0, GoneTo, Threw DEF CollisionRelease, At, SaleInv, TypeOK
<1>2. UNCHANGED <<booking, payment, stripe, slot, events>>
  BY <1>0 DEF CollisionRelease, rows, external, SaleInv, TypeOK, Sound, Stands, Undecided
<1>a. PICK h : h = task[p].hold
  OBVIOUS
<1>b. h \in Holds \cup {NoHold} /\ holds' = Released(h)
  BY <1>0, <1>a DEF CollisionRelease, At, Task, Sound, Shares, Reserved
<1>c. /\ \A g \in Holds : /\ holds'[g].amount = holds[g].amount
                          /\ holds'[g].status = IF g = h /\ holds[g].status = "ACTIVE" THEN "RELEASED" ELSE holds[g].status
      /\ ActiveHolds' = ActiveHolds \ {h} /\ CapturedHolds' = CapturedHolds
  BY <1>b, Releases DEF SaleInv
<1>3. Sound(t)'
  BY <1>0, <1>1, <1>2, <1>a, <1>b, <1>c, CheckoutAssumption DEF Sound, Placed, Stands, Shares, Alone,
     Works, Resting, Owns, Free, Undecided, Untouched, Proceeding, CheckoutPc, WebhookPc, CancelPc,
     FailPc, Await, Unpaid, Only, Reserved, Funded, CardShare, HoldShare, Moves, Idle, Task, Event
<1>4. TakesOwn(p, t) /\ t.pc \notin CancelPc
  BY <1>0, <1>1 DEF TakesOwn, Owns, CancelPc, Moves, Idle
<1>5. Grows
  BY <1>0, <1>2, <1>a, <1>b, <1>c DEF Grows, Await, TypeOK, SaleInv, Sound, Stands, Works, Shares
<1>6. Open' /\ Awaited' /\ IntentMade'
  BY <1>0, <1>2, <1>a, <1>b, <1>c DEF SaleInv, TypeOK, Open, Awaited, IntentMade, Sound, Placed,
     Stands, Shares, Alone, Works, Resting, Owns, Free, Undecided, Untouched, Proceeding,
     CheckoutPc, WebhookPc, CancelPc, FailPc, Await, Unpaid, Only, Reserved, Funded, CardShare,
     HoldShare, Moves, Idle, Task, Event
<1>7. SoldFor'
  BY <1>0, <1>1, <1>2, <1>a, <1>b, <1>c DEF SaleInv, TypeOK, SoldFor, Sold, CardPaid, Sound, Placed,
     Stands, Shares, Alone, Works, Resting, Owns, Free, Undecided, Untouched, Proceeding,
     CheckoutPc, WebhookPc, CancelPc, FailPc, Await, Unpaid, Only, Reserved, Funded, CardShare,
     HoldShare, Moves, Idle, Task, Event
<1> QED BY <1>0, <1>1, <1>3, <1>4, <1>5, <1>6, <1>7, WorkStep

\* CollisionFail keeps the invariant.
LEMMA SaleCollisionFail ==
    ASSUME SaleInv, TypeOK', PassInv', DeliveredApart', NEW p \in Procs, CollisionFail(p)
    PROVE  SaleInv'
<1>0. Sound(task[p]) /\ task[p] \in Task /\ task[p].pc = "collisionFail" /\ Works(task[p])
  BY DEF SaleInv, TypeOK, CollisionFail, At, Works, Resting, CancelPc
<1>1. PICK t : Become(p, t) /\ Moves(task[p], t) /\ t.pc = "collisionMapping"
  BY <1>0, GoneTo, Threw DEF CollisionFail, At, SaleInv, TypeOK
<1>2. UNCHANGED <<holds, payment, stripe, slot, events>>
  BY <1>0 DEF CollisionFail, rows, external, SaleInv, TypeOK, Sound, Stands, Undecided
<1>3. Sound(t)'
  BY <1>0, <1>1, <1>2, CheckoutAssumption DEF CollisionFail, At, rows, external, Sound, Placed,
     Stands, Shares, Alone, Works, Resting, Owns, Free, Undecided, Untouched, Proceeding,
     CheckoutPc, WebhookPc, CancelPc, FailPc, Await, Unpaid, Only, Reserved, Funded, CardShare,
     HoldShare, ActiveHolds, CapturedHolds, Moves, Idle, Task, Event
<1>4. TakesOwn(p, t) /\ t.pc \notin CancelPc
  BY <1>0, <1>1 DEF TakesOwn, Owns, CancelPc, Moves, Idle
<1>5. Grows
  BY <1>0, <1>2 DEF CollisionFail, Grows, Await, TypeOK, SaleInv, Sound, Stands, Works, Shares
<1>6. Open' /\ Awaited' /\ IntentMade'
  BY <1>0, <1>2 DEF CollisionFail, SaleInv, TypeOK, Open, Awaited, IntentMade, Sound, Placed, Stands,
     Shares, Alone, Works, Resting, Owns, Free, Undecided, Untouched, Proceeding, CheckoutPc,
     WebhookPc, CancelPc, FailPc, Await, Unpaid, Only, Reserved, Funded, CardShare, HoldShare,
     ActiveHolds, CapturedHolds, Moves, Idle, Task, Event
<1>7. SoldFor'
  BY <1>0, <1>1, <1>2 DEF CollisionFail, SaleInv, TypeOK, SoldFor, Sold, CardPaid, Sound, Placed,
     Stands, Shares, Alone, Works, Resting, Owns, Free, Undecided, Untouched, Proceeding,
     CheckoutPc, WebhookPc, CancelPc, FailPc, Await, Unpaid, Only, Reserved, Funded, CardShare,
     HoldShare, ActiveHolds, CapturedHolds, Moves, Idle, Task, Event
<1> QED BY <1>0, <1>1, <1>3, <1>4, <1>5, <1>6, <1>7, WorkStep

\* Review keeps the invariant.
LEMMA SaleReview ==
    ASSUME SaleInv, TypeOK', PassInv', DeliveredApart', NEW p \in Procs, Review(p)
    PROVE  SaleInv'
<1>0. Sound(task[p]) /\ task[p] \in Task /\ task[p].pc = "review" /\ Works(task[p])
  BY DEF SaleInv, TypeOK, Review, At, Works, Resting, CancelPc
<1>1. PICK t : Become(p, t) /\ Moves(task[p], t) /\ t.pc = "reviewMapping"
  BY <1>0, GoneTo, Threw DEF Review, At, SaleInv, TypeOK
<1>2. UNCHANGED <<holds, payment, stripe, slot, events>>
  BY <1>0 DEF Review, rows, external, SaleInv, TypeOK, Sound, Stands, Undecided
<1>3. Sound(t)'
  BY <1>0, <1>1, <1>2, CheckoutAssumption DEF Review, At, rows, external, Sound, Placed, Stands,
     Shares, Alone, Works, Resting, Owns, Free, Undecided, Untouched, Proceeding, CheckoutPc,
     WebhookPc, CancelPc, FailPc, Await, Unpaid, Only, Reserved, Funded, CardShare, HoldShare,
     ActiveHolds, CapturedHolds, Moves, Idle, Task, Event
<1>4. TakesOwn(p, t) /\ t.pc \notin CancelPc
  BY <1>0, <1>1 DEF TakesOwn, Owns, CancelPc, Moves, Idle
<1>5. Grows
  BY <1>0, <1>2 DEF Review, Grows, Await, TypeOK, SaleInv, Sound, Stands, Works, Shares
<1>6. Open' /\ Awaited' /\ IntentMade'
  BY <1>0, <1>2 DEF Review, SaleInv, TypeOK, Open, Awaited, IntentMade, Sound, Placed, Stands, Shares,
     Alone, Works, Resting, Owns, Free, Undecided, Untouched, Proceeding, CheckoutPc, WebhookPc,
     CancelPc, FailPc, Await, Unpaid, Only, Reserved, Funded, CardShare, HoldShare, ActiveHolds,
     CapturedHolds, Moves, Idle, Task, Event
<1>7. SoldFor'
  BY <1>0, <1>1, <1>2 DEF Review, SaleInv, TypeOK, SoldFor, Sold, CardPaid, Sound, Placed, Stands,
     Shares, Alone, Works, Resting, Owns, Free, Undecided, Untouched, Proceeding, CheckoutPc,
     WebhookPc, CancelPc, FailPc, Await, Unpaid, Only, Reserved, Funded, CardShare, HoldShare,
     ActiveHolds, CapturedHolds, Moves, Idle, Task, Event
<1> QED BY <1>0, <1>1, <1>3, <1>4, <1>5, <1>6, <1>7, WorkStep

\* CaptureFailed keeps the invariant.
LEMMA SaleCaptureFailed ==
    ASSUME SaleInv, TypeOK', PassInv', DeliveredApart', NEW p \in Procs, CaptureFailed(p)
    PROVE  SaleInv'
<1>0. Sound(task[p]) /\ task[p] \in Task /\ task[p].pc = "captureFailed" /\ Works(task[p])
  BY DEF SaleInv, TypeOK, CaptureFailed, At, Works, Resting, CancelPc
<1>1. PICK t : Become(p, t) /\ Moves(task[p], t) /\ t.pc = "captureReview"
  BY <1>0, GoneTo, Threw DEF CaptureFailed, At, SaleInv, TypeOK
<1>2. UNCHANGED <<booking, holds, stripe, slot, events>>
  BY <1>0 DEF CaptureFailed, rows, external, SaleInv, TypeOK, Sound, Stands, Undecided
<1>3. Sound(t)'
  BY <1>0, <1>1, <1>2, CheckoutAssumption DEF CaptureFailed, At, rows, external, Sound, Placed,
     Stands, Shares, Alone, Works, Resting, Owns, Free, Undecided, Untouched, Proceeding,
     CheckoutPc, WebhookPc, CancelPc, FailPc, Await, Unpaid, Only, Reserved, Funded, CardShare,
     HoldShare, ActiveHolds, CapturedHolds, Moves, Idle, Task, Event
<1>4. TakesOwn(p, t) /\ t.pc \notin CancelPc
  BY <1>0, <1>1 DEF TakesOwn, Owns, CancelPc, Moves, Idle
<1>5. Grows
  BY <1>0, <1>2 DEF CaptureFailed, Grows, Await, TypeOK, SaleInv, Sound, Stands, Works, Shares
<1>6. Open' /\ Awaited' /\ IntentMade'
  BY <1>0, <1>2 DEF CaptureFailed, SaleInv, TypeOK, Open, Awaited, IntentMade, Sound, Placed, Stands,
     Shares, Alone, Works, Resting, Owns, Free, Undecided, Untouched, Proceeding, CheckoutPc,
     WebhookPc, CancelPc, FailPc, Await, Unpaid, Only, Reserved, Funded, CardShare, HoldShare,
     ActiveHolds, CapturedHolds, Moves, Idle, Task, Event
<1>7. SoldFor'
  BY <1>0, <1>1, <1>2 DEF CaptureFailed, SaleInv, TypeOK, SoldFor, Sold, CardPaid, Sound, Placed,
     Stands, Shares, Alone, Works, Resting, Owns, Free, Undecided, Untouched, Proceeding,
     CheckoutPc, WebhookPc, CancelPc, FailPc, Await, Unpaid, Only, Reserved, Funded, CardShare,
     HoldShare, ActiveHolds, CapturedHolds, Moves, Idle, Task, Event
<1> QED BY <1>0, <1>1, <1>3, <1>4, <1>5, <1>6, <1>7, WorkStep

\* CaptureReview keeps the invariant.
LEMMA SaleCaptureReview ==
    ASSUME SaleInv, TypeOK', PassInv', DeliveredApart', NEW p \in Procs, CaptureReview(p)
    PROVE  SaleInv'
<1>0. Sound(task[p]) /\ task[p] \in Task /\ task[p].pc = "captureReview" /\ Works(task[p])
  BY DEF SaleInv, TypeOK, CaptureReview, At, Works, Resting, CancelPc
<1>1. PICK t : /\ Become(p, t)
               /\ \/ task[p].op = "checkout" /\ Moves(task[p], t) /\ t.pc = "catch"
                  \/ task[p].op # "checkout" /\ t = Idle
  BY <1>0, GoneTo, Threw DEF CaptureReview, At, SaleInv, TypeOK
<1>2. UNCHANGED <<holds, payment, stripe, slot, events>>
  BY <1>0 DEF CaptureReview, rows, external, SaleInv, TypeOK, Sound, Stands, Undecided
<1>3. Sound(t)'
  BY <1>0, <1>1, <1>2, CheckoutAssumption DEF CaptureReview, At, rows, external, Sound, Placed,
     Stands, Shares, Alone, Works, Resting, Owns, Free, Undecided, Untouched, Proceeding,
     CheckoutPc, WebhookPc, CancelPc, FailPc, Await, Unpaid, Only, Reserved, Funded, CardShare,
     HoldShare, ActiveHolds, CapturedHolds, Moves, Idle, Task, Event
<1>4. TakesOwn(p, t) /\ t.pc \notin CancelPc
  BY <1>0, <1>1 DEF TakesOwn, Owns, CancelPc, Moves, Idle
<1>5. Grows
  BY <1>0, <1>2 DEF CaptureReview, Grows, Await, TypeOK, SaleInv, Sound, Stands, Works, Shares
<1>6. Open' /\ Awaited' /\ IntentMade'
  BY <1>0, <1>2 DEF CaptureReview, SaleInv, TypeOK, Open, Awaited, IntentMade, Sound, Placed, Stands,
     Shares, Alone, Works, Resting, Owns, Free, Undecided, Untouched, Proceeding, CheckoutPc,
     WebhookPc, CancelPc, FailPc, Await, Unpaid, Only, Reserved, Funded, CardShare, HoldShare,
     ActiveHolds, CapturedHolds, Moves, Idle, Task, Event
<1>7. SoldFor'
  BY <1>0, <1>1, <1>2 DEF CaptureReview, SaleInv, TypeOK, SoldFor, Sold, CardPaid, Sound, Placed,
     Stands, Shares, Alone, Works, Resting, Owns, Free, Undecided, Untouched, Proceeding,
     CheckoutPc, WebhookPc, CancelPc, FailPc, Await, Unpaid, Only, Reserved, Funded, CardShare,
     HoldShare, ActiveHolds, CapturedHolds, Moves, Idle, Task, Event
<1> QED BY <1>0, <1>1, <1>3, <1>4, <1>5, <1>6, <1>7, WorkStep

\* RecordSuccess keeps the invariant.
LEMMA SaleRecordSuccess ==
    ASSUME SaleInv, TypeOK', PassInv', DeliveredApart', NEW p \in Procs, RecordSuccess(p)
    PROVE  SaleInv'
<1>0. Sound(task[p]) /\ task[p] \in Task /\ task[p].pc = "recordSuccess" /\ Works(task[p])
  BY DEF SaleInv, TypeOK, RecordSuccess, At, Works, Resting, CancelPc
<1>1. PICK t : Become(p, t) /\ Moves(task[p], t) /\ t.pc = (IF task[p].hold # NoHold THEN "captureHold" ELSE "confirm")
  BY <1>0, GoneTo, Threw DEF RecordSuccess, At, SaleInv, TypeOK
<1>2. UNCHANGED <<booking, holds, stripe, slot, events>>
  BY <1>0 DEF RecordSuccess, rows, external, SaleInv, TypeOK, Sound, Stands, Undecided
<1>3. Sound(t)'
  BY <1>0, <1>1, <1>2, CheckoutAssumption DEF RecordSuccess, At, rows, external, Sound, Placed,
     Stands, Shares, Alone, Works, Resting, Owns, Free, Undecided, Untouched, Proceeding,
     CheckoutPc, WebhookPc, CancelPc, FailPc, Await, Unpaid, Only, Reserved, Funded, CardShare,
     HoldShare, ActiveHolds, CapturedHolds, Moves, Idle, Task, Event
<1>4. TakesOwn(p, t) /\ t.pc \notin CancelPc
  BY <1>0, <1>1 DEF TakesOwn, Owns, CancelPc, Moves, Idle
<1>5. Grows
  BY <1>0, <1>2 DEF RecordSuccess, Grows, Await, TypeOK, SaleInv, Sound, Stands, Works, Shares
<1>6. Open' /\ Awaited' /\ IntentMade'
  BY <1>0, <1>2 DEF RecordSuccess, SaleInv, TypeOK, Open, Awaited, IntentMade, Sound, Placed, Stands,
     Shares, Alone, Works, Resting, Owns, Free, Undecided, Untouched, Proceeding, CheckoutPc,
     WebhookPc, CancelPc, FailPc, Await, Unpaid, Only, Reserved, Funded, CardShare, HoldShare,
     ActiveHolds, CapturedHolds, Moves, Idle, Task, Event
<1>7. SoldFor'
  BY <1>0, <1>1, <1>2 DEF RecordSuccess, SaleInv, TypeOK, SoldFor, Sold, CardPaid, Sound, Placed,
     Stands, Shares, Alone, Works, Resting, Owns, Free, Undecided, Untouched, Proceeding,
     CheckoutPc, WebhookPc, CancelPc, FailPc, Await, Unpaid, Only, Reserved, Funded, CardShare,
     HoldShare, ActiveHolds, CapturedHolds, Moves, Idle, Task, Event
<1> QED BY <1>0, <1>1, <1>3, <1>4, <1>5, <1>6, <1>7, WorkStep

\* CaptureHold keeps the invariant.
LEMMA SaleCaptureHold ==
    ASSUME SaleInv, TypeOK', PassInv', DeliveredApart', NEW p \in Procs, CaptureHold(p)
    PROVE  SaleInv'
<1>0. Sound(task[p]) /\ task[p] \in Task /\ task[p].pc = "captureHold" /\ Works(task[p])
  BY DEF SaleInv, TypeOK, CaptureHold, At, Works, Resting, CancelPc
<1>1. PICK t : Become(p, t) /\ Moves(task[p], t) /\ t.pc = "confirm"
  BY <1>0, GoneTo, Threw DEF CaptureHold, At, SaleInv, TypeOK
<1>2. UNCHANGED <<booking, payment, stripe, slot, events>>
  BY <1>0 DEF CaptureHold, rows, external, SaleInv, TypeOK, Sound, Stands, Undecided
<1>a. PICK h : h = task[p].hold
  OBVIOUS
<1>b. h \in Holds /\ holds[h].status = "ACTIVE" /\ holds' = Captured(h)
  BY <1>0, <1>a DEF CaptureHold, At, Task, Sound, Shares, Reserved
<1>c. /\ \A g \in Holds : /\ holds'[g].amount = holds[g].amount
                          /\ holds'[g].status = IF g = h THEN "CAPTURED" ELSE holds[g].status
      /\ ActiveHolds' = ActiveHolds \ {h} /\ CapturedHolds' = CapturedHolds \cup {h}
  BY <1>b, Captures DEF SaleInv
<1>3. Sound(t)'
  BY <1>0, <1>1, <1>2, <1>a, <1>b, <1>c, CheckoutAssumption DEF Sound, Placed, Stands, Shares, Alone,
     Works, Resting, Owns, Free, Undecided, Untouched, Proceeding, CheckoutPc, WebhookPc, CancelPc,
     FailPc, Await, Unpaid, Only, Reserved, Funded, CardShare, HoldShare, Moves, Idle, Task, Event
<1>4. TakesOwn(p, t) /\ t.pc \notin CancelPc
  BY <1>0, <1>1 DEF TakesOwn, Owns, CancelPc, Moves, Idle
<1>5. Grows
  BY <1>0, <1>2, <1>a, <1>b, <1>c DEF Grows, Await, TypeOK, SaleInv, Sound, Stands, Works, Shares
<1>6. Open' /\ Awaited' /\ IntentMade'
  BY <1>0, <1>2, <1>a, <1>b, <1>c DEF SaleInv, TypeOK, Open, Awaited, IntentMade, Sound, Placed,
     Stands, Shares, Alone, Works, Resting, Owns, Free, Undecided, Untouched, Proceeding,
     CheckoutPc, WebhookPc, CancelPc, FailPc, Await, Unpaid, Only, Reserved, Funded, CardShare,
     HoldShare, Moves, Idle, Task, Event
<1>7. SoldFor'
  BY <1>0, <1>1, <1>2, <1>a, <1>b, <1>c DEF SaleInv, TypeOK, SoldFor, Sold, CardPaid, Sound, Placed,
     Stands, Shares, Alone, Works, Resting, Owns, Free, Undecided, Untouched, Proceeding,
     CheckoutPc, WebhookPc, CancelPc, FailPc, Await, Unpaid, Only, Reserved, Funded, CardShare,
     HoldShare, Moves, Idle, Task, Event
<1> QED BY <1>0, <1>1, <1>3, <1>4, <1>5, <1>6, <1>7, WorkStep

\* Confirm keeps the invariant.
LEMMA SaleConfirm ==
    ASSUME SaleInv, TypeOK', PassInv', DeliveredApart', NEW p \in Procs, Confirm(p)
    PROVE  SaleInv'
<1>0. Sound(task[p]) /\ task[p] \in Task /\ task[p].pc = "confirm" /\ Works(task[p])
  BY DEF SaleInv, TypeOK, Confirm, At, Works, Resting, CancelPc
<1>1. PICK t : /\ Become(p, t)
               /\ t = Idle \/ (Moves(task[p], t) /\ t.pc = "ack" /\ t.op # "checkout")
  <2>1. CASE task[p].op = "checkout"
    BY <2>1 DEF Confirm
  <2>2. CASE task[p].op # "checkout"
    <3>1. Goto(p, "ack")
      BY <2>2 DEF Confirm
    <3>2. PICK t : Become(p, t) /\ Moves(task[p], t) /\ t.pc = "ack"
      BY <3>1, GoneTo
    <3> QED BY <2>2, <3>2 DEF Moves
  <2> QED BY <2>1, <2>2
<1>2. UNCHANGED <<holds, payment, stripe, slot, events>>
  BY <1>0 DEF Confirm, rows, external, SaleInv, TypeOK, Sound, Stands, Undecided
<1>3. Sound(t)'
  BY <1>0, <1>1, <1>2, CheckoutAssumption DEF Confirm, At, rows, external, Sound, Placed, Stands,
     Shares, Alone, Works, Resting, Owns, Free, Undecided, Untouched, Proceeding, CheckoutPc,
     WebhookPc, CancelPc, FailPc, Await, Unpaid, Only, Reserved, Funded, CardShare, HoldShare,
     ActiveHolds, CapturedHolds, Moves, Idle, Task, Event
<1>4. TakesOwn(p, t) /\ t.pc \notin CancelPc
  BY <1>0, <1>1 DEF TakesOwn, Owns, CancelPc, Moves, Idle
<1>5. Grows
  BY <1>0, <1>2 DEF Confirm, Grows, Await, TypeOK, SaleInv, Sound, Stands, Works, Shares
<1>6. Open' /\ Awaited' /\ IntentMade'
  BY <1>0, <1>2 DEF Confirm, SaleInv, TypeOK, Open, Awaited, IntentMade, Sound, Placed, Stands,
     Shares, Alone, Works, Resting, Owns, Free, Undecided, Untouched, Proceeding, CheckoutPc,
     WebhookPc, CancelPc, FailPc, Await, Unpaid, Only, Reserved, Funded, CardShare, HoldShare,
     ActiveHolds, CapturedHolds, Moves, Idle, Task, Event
<1>7. SoldFor'
  BY <1>0, <1>1, <1>2 DEF Confirm, SaleInv, TypeOK, SoldFor, Sold, CardPaid, Sound, Placed, Stands,
     Shares, Alone, Works, Resting, Owns, Free, Undecided, Untouched, Proceeding, CheckoutPc,
     WebhookPc, CancelPc, FailPc, Await, Unpaid, Only, Reserved, Funded, CardShare, HoldShare,
     ActiveHolds, CapturedHolds, Moves, Idle, Task, Event
<1> QED BY <1>0, <1>1, <1>3, <1>4, <1>5, <1>6, <1>7, WorkStep

\* VoidAuthorization keeps the invariant.
LEMMA SaleVoid ==
    ASSUME SaleInv, TypeOK', PassInv', DeliveredApart', NEW p \in Procs, VoidAuthorization(p)
    PROVE  SaleInv'
<1>0. Sound(task[p]) /\ task[p] \in Task /\ task[p].pc = "void" /\ Works(task[p])
  BY DEF SaleInv, TypeOK, VoidAuthorization, At, Works, Resting, CancelPc
<1>1. PICK t : /\ Become(p, t)
               /\ \/ Moves(task[p], t) /\ t.pc = "voided" /\ stripe'.status = "canceled"
                  \/ task[p].op = "checkout" /\ Moves(task[p], t) /\ t.pc = "catch" /\ stripe' = stripe
                  \/ task[p].op # "checkout" /\ t = Idle /\ stripe' = stripe
  BY <1>0, GoneTo, Threw DEF VoidAuthorization, At, SaleInv, TypeOK
<1>2. UNCHANGED <<booking, holds, payment, slot, events, stripe.answer, stripe.amount>>
  BY <1>0 DEF VoidAuthorization, rows, external, SaleInv, TypeOK, Sound, Stands, Undecided
<1>3. Sound(t)'
  BY <1>0, <1>1, <1>2, CheckoutAssumption DEF VoidAuthorization, At, rows, external, Sound, Placed,
     Stands, Shares, Alone, Works, Resting, Owns, Free, Undecided, Untouched, Proceeding,
     CheckoutPc, WebhookPc, CancelPc, FailPc, Await, Unpaid, Only, Reserved, Funded, CardShare,
     HoldShare, ActiveHolds, CapturedHolds, Moves, Idle, Task, Event
<1>4. TakesOwn(p, t) /\ t.pc \notin CancelPc
  BY <1>0, <1>1 DEF TakesOwn, Owns, CancelPc, Moves, Idle
<1>5. Grows
  BY <1>0, <1>2 DEF VoidAuthorization, Grows, Await, TypeOK, SaleInv, Sound, Stands, Works, Shares
<1>6. Open' /\ Awaited' /\ IntentMade'
  BY <1>0, <1>2 DEF VoidAuthorization, SaleInv, TypeOK, Open, Awaited, IntentMade, Sound, Placed,
     Stands, Shares, Alone, Works, Resting, Owns, Free, Undecided, Untouched, Proceeding,
     CheckoutPc, WebhookPc, CancelPc, FailPc, Await, Unpaid, Only, Reserved, Funded, CardShare,
     HoldShare, ActiveHolds, CapturedHolds, Moves, Idle, Task, Event
<1>7. SoldFor'
  BY <1>0, <1>1, <1>2 DEF VoidAuthorization, SaleInv, TypeOK, SoldFor, Sold, CardPaid, Sound, Placed,
     Stands, Shares, Alone, Works, Resting, Owns, Free, Undecided, Untouched, Proceeding,
     CheckoutPc, WebhookPc, CancelPc, FailPc, Await, Unpaid, Only, Reserved, Funded, CardShare,
     HoldShare, ActiveHolds, CapturedHolds, Moves, Idle, Task, Event
<1> QED BY <1>0, <1>1, <1>3, <1>4, <1>5, <1>6, <1>7, WorkStep

\* CaptureIntent keeps the invariant.
LEMMA SaleCapture ==
    ASSUME SaleInv, TypeOK', PassInv', DeliveredApart', NEW p \in Procs, CaptureIntent(p)
    PROVE  SaleInv'
<1>0. Sound(task[p]) /\ task[p] \in Task /\ task[p].pc = "capture" /\ Works(task[p])
  BY DEF SaleInv, TypeOK, CaptureIntent, At, Works, Resting, CancelPc
<1>1. PICK t : /\ Become(p, t) /\ Moves(task[p], t)
               /\ \/ t.pc = "recordSuccess" /\ stripe'.status = "succeeded"
                  \/ t.pc = "captureFailed" /\ stripe' = stripe
  BY <1>0, GoneTo, Threw DEF CaptureIntent, At, SaleInv, TypeOK
<1>2. UNCHANGED <<booking, holds, payment, slot, events, stripe.answer, stripe.amount>>
  BY <1>0 DEF CaptureIntent, rows, external, SaleInv, TypeOK, Sound, Stands, Undecided
<1>3. Sound(t)'
  BY <1>0, <1>1, <1>2, CheckoutAssumption DEF CaptureIntent, At, rows, external, Sound, Placed,
     Stands, Shares, Alone, Works, Resting, Owns, Free, Undecided, Untouched, Proceeding,
     CheckoutPc, WebhookPc, CancelPc, FailPc, Await, Unpaid, Only, Reserved, Funded, CardShare,
     HoldShare, ActiveHolds, CapturedHolds, Moves, Idle, Task, Event
<1>4. TakesOwn(p, t) /\ t.pc \notin CancelPc
  BY <1>0, <1>1 DEF TakesOwn, Owns, CancelPc, Moves, Idle
<1>5. Grows
  BY <1>0, <1>2 DEF CaptureIntent, Grows, Await, TypeOK, SaleInv, Sound, Stands, Works, Shares
<1>6. Open' /\ Awaited' /\ IntentMade'
  BY <1>0, <1>2 DEF CaptureIntent, SaleInv, TypeOK, Open, Awaited, IntentMade, Sound, Placed, Stands,
     Shares, Alone, Works, Resting, Owns, Free, Undecided, Untouched, Proceeding, CheckoutPc,
     WebhookPc, CancelPc, FailPc, Await, Unpaid, Only, Reserved, Funded, CardShare, HoldShare,
     ActiveHolds, CapturedHolds, Moves, Idle, Task, Event
<1>7. SoldFor'
  BY <1>0, <1>1, <1>2 DEF CaptureIntent, SaleInv, TypeOK, SoldFor, Sold, CardPaid, Sound, Placed,
     Stands, Shares, Alone, Works, Resting, Owns, Free, Undecided, Untouched, Proceeding,
     CheckoutPc, WebhookPc, CancelPc, FailPc, Await, Unpaid, Only, Reserved, Funded, CardShare,
     HoldShare, ActiveHolds, CapturedHolds, Moves, Idle, Task, Event
<1> QED BY <1>0, <1>1, <1>3, <1>4, <1>5, <1>6, <1>7, WorkStep

\* RefuseCredits keeps the invariant.
LEMMA SaleRefuse ==
    ASSUME SaleInv, TypeOK', PassInv', DeliveredApart', NEW p \in Procs, RefuseCredits(p)
    PROVE  SaleInv'
<1>0. Sound(task[p]) /\ task[p] \in Task /\ task[p].pc = "credits" /\ Works(task[p])
  BY DEF SaleInv, TypeOK, RefuseCredits, At, Works, Resting, CancelPc
<1>1. PICK t : /\ Become(p, t)
               /\ \/ task[p].op = "checkout" /\ Moves(task[p], t) /\ t.pc = "catch"
                  \/ task[p].op # "checkout" /\ t = Idle
  BY <1>0, GoneTo, Threw DEF RefuseCredits, At
<1>2. UNCHANGED <<booking, holds, payment, stripe, slot, events>>
  BY DEF RefuseCredits, rows, external
<1>3. Sound(t)'
  BY <1>0, <1>1, <1>2, CheckoutAssumption DEF RefuseCredits, At, rows, external, Sound, Placed,
     Stands, Shares, Alone, Works, Resting, Owns, Free, Undecided, Untouched, Proceeding,
     CheckoutPc, WebhookPc, CancelPc, FailPc, Await, Unpaid, Only, Reserved, Funded, CardShare,
     HoldShare, ActiveHolds, CapturedHolds, Moves, Idle, Task, Event
<1>4. TakesOwn(p, t) /\ t.pc \notin CancelPc
  BY <1>0, <1>1 DEF TakesOwn, Owns, CancelPc, Moves, Idle
<1> QED BY <1>0, <1>1, <1>2, <1>3, <1>4, QuietStep DEF TypeOK, Event

\* DeclinedRelease keeps the invariant.
LEMMA SaleDeclinedRelease ==
    ASSUME SaleInv, TypeOK', PassInv', DeliveredApart', NEW p \in Procs, DeclinedRelease(p)
    PROVE  SaleInv'
<1>0. Sound(task[p]) /\ task[p] \in Task /\ task[p].pc = "declinedRelease" /\ Works(task[p])
  BY DEF SaleInv, TypeOK, DeclinedRelease, At, Works, Resting, CancelPc
<1>1. PICK t : Become(p, t) /\ Moves(task[p], t) /\ t.pc = "declinedFail"
  BY <1>0, GoneTo, Threw DEF DeclinedRelease, At, SaleInv, TypeOK
<1>2. UNCHANGED <<booking, payment, stripe, slot, events>>
  BY <1>0 DEF DeclinedRelease, rows, external, SaleInv, TypeOK, Sound, Stands, Undecided
<1>a. PICK h : h = task[p].hold
  OBVIOUS
<1>b. h \in Holds \cup {NoHold} /\ holds' = Released(h)
  BY <1>0, <1>a DEF DeclinedRelease, At, Task, Sound, Shares, Reserved
<1>c. /\ \A g \in Holds : /\ holds'[g].amount = holds[g].amount
                          /\ holds'[g].status = IF g = h /\ holds[g].status = "ACTIVE" THEN "RELEASED" ELSE holds[g].status
      /\ ActiveHolds' = ActiveHolds \ {h} /\ CapturedHolds' = CapturedHolds
  BY <1>b, Releases DEF SaleInv
<1>3. Sound(t)'
  BY <1>0, <1>1, <1>2, <1>a, <1>b, <1>c, CheckoutAssumption DEF Sound, Placed, Stands, Shares, Alone,
     Works, Resting, Owns, Free, Undecided, Untouched, Proceeding, CheckoutPc, WebhookPc, CancelPc,
     FailPc, Await, Unpaid, Only, Reserved, Funded, CardShare, HoldShare, Moves, Idle, Task, Event
<1>4. TakesOwn(p, t) /\ t.pc \notin CancelPc
  BY <1>0, <1>1 DEF TakesOwn, Owns, CancelPc, Moves, Idle
<1>5. Grows
  BY <1>0, <1>2, <1>a, <1>b, <1>c DEF Grows, Await, TypeOK, SaleInv, Sound, Stands, Works, Shares
<1>6. Open' /\ Awaited' /\ IntentMade'
  BY <1>0, <1>2, <1>a, <1>b, <1>c DEF SaleInv, TypeOK, Open, Awaited, IntentMade, Sound, Placed,
     Stands, Shares, Alone, Works, Resting, Owns, Free, Undecided, Untouched, Proceeding,
     CheckoutPc, WebhookPc, CancelPc, FailPc, Await, Unpaid, Only, Reserved, Funded, CardShare,
     HoldShare, Moves, Idle, Task, Event
<1>7. SoldFor'
  BY <1>0, <1>1, <1>2, <1>a, <1>b, <1>c DEF SaleInv, TypeOK, SoldFor, Sold, CardPaid, Sound, Placed,
     Stands, Shares, Alone, Works, Resting, Owns, Free, Undecided, Untouched, Proceeding,
     CheckoutPc, WebhookPc, CancelPc, FailPc, Await, Unpaid, Only, Reserved, Funded, CardShare,
     HoldShare, Moves, Idle, Task, Event
<1> QED BY <1>0, <1>1, <1>3, <1>4, <1>5, <1>6, <1>7, WorkStep

\* DeclinedFail keeps the invariant.
LEMMA SaleDeclinedFail ==
    ASSUME SaleInv, TypeOK', PassInv', DeliveredApart', NEW p \in Procs, DeclinedFail(p)
    PROVE  SaleInv'
<1>0. Sound(task[p]) /\ task[p] \in Task /\ task[p].pc = "declinedFail" /\ Works(task[p])
  BY DEF SaleInv, TypeOK, DeclinedFail, At, Works, Resting, CancelPc
<1>1. PICK t : /\ Become(p, t)
               /\ \/ task[p].op = "checkout" /\ Moves(task[p], t) /\ t.pc = "catch"
                  \/ task[p].op # "checkout" /\ t = Idle
  BY <1>0, GoneTo, Threw DEF DeclinedFail, At, SaleInv, TypeOK
<1>2. UNCHANGED <<holds, payment, stripe, slot, events>>
  BY <1>0 DEF DeclinedFail, rows, external, SaleInv, TypeOK, Sound, Stands, Undecided
<1>3. Sound(t)'
  BY <1>0, <1>1, <1>2, CheckoutAssumption DEF DeclinedFail, At, rows, external, Sound, Placed, Stands,
     Shares, Alone, Works, Resting, Owns, Free, Undecided, Untouched, Proceeding, CheckoutPc,
     WebhookPc, CancelPc, FailPc, Await, Unpaid, Only, Reserved, Funded, CardShare, HoldShare,
     ActiveHolds, CapturedHolds, Moves, Idle, Task, Event
<1>4. TakesOwn(p, t) /\ t.pc \notin CancelPc
  BY <1>0, <1>1 DEF TakesOwn, Owns, CancelPc, Moves, Idle
<1>5. Grows
  BY <1>0, <1>2 DEF DeclinedFail, Grows, Await, TypeOK, SaleInv, Sound, Stands, Works, Shares
<1>6. Open' /\ Awaited' /\ IntentMade'
  BY <1>0, <1>2 DEF DeclinedFail, SaleInv, TypeOK, Open, Awaited, IntentMade, Sound, Placed, Stands,
     Shares, Alone, Works, Resting, Owns, Free, Undecided, Untouched, Proceeding, CheckoutPc,
     WebhookPc, CancelPc, FailPc, Await, Unpaid, Only, Reserved, Funded, CardShare, HoldShare,
     ActiveHolds, CapturedHolds, Moves, Idle, Task, Event
<1>7. SoldFor'
  BY <1>0, <1>1, <1>2 DEF DeclinedFail, SaleInv, TypeOK, SoldFor, Sold, CardPaid, Sound, Placed,
     Stands, Shares, Alone, Works, Resting, Owns, Free, Undecided, Untouched, Proceeding,
     CheckoutPc, WebhookPc, CancelPc, FailPc, Await, Unpaid, Only, Reserved, Funded, CardShare,
     HoldShare, ActiveHolds, CapturedHolds, Moves, Idle, Task, Event
<1> QED BY <1>0, <1>1, <1>3, <1>4, <1>5, <1>6, <1>7, WorkStep

\* Catch keeps the invariant.
LEMMA SaleCatch ==
    ASSUME SaleInv, TypeOK', PassInv', DeliveredApart', NEW p \in Procs, Catch(p)
    PROVE  SaleInv'
<1>0. Sound(task[p]) /\ task[p] \in Task /\ task[p].pc = "catch" /\ Works(task[p])
  BY DEF SaleInv, TypeOK, Catch, At, Works, Resting, CancelPc
<1>1. PICK t : /\ Become(p, t)
               /\ \/ Moves(task[p], t) /\ t.pc = "catchRelease" /\ booking = "PAYMENT_PENDING" /\ booking' = "CHECKOUT_PENDING"
                  \/ t = Idle /\ booking' = booking
  BY <1>0, GoneTo, Threw DEF Catch, At, SaleInv, TypeOK
<1>2. UNCHANGED <<holds, payment, stripe, slot, events>>
  BY <1>0 DEF Catch, rows, external, SaleInv, TypeOK, Sound, Stands, Undecided
<1>3. Sound(t)'
  BY <1>0, <1>1, <1>2, CheckoutAssumption DEF Catch, At, rows, external, Sound, Placed, Stands,
     Shares, Alone, Works, Resting, Owns, Free, Undecided, Untouched, Proceeding, CheckoutPc,
     WebhookPc, CancelPc, FailPc, Await, Unpaid, Only, Reserved, Funded, CardShare, HoldShare,
     ActiveHolds, CapturedHolds, Moves, Idle, Task, Event
<1>4. TakesOwn(p, t) /\ t.pc \notin CancelPc
  BY <1>0, <1>1 DEF TakesOwn, Owns, CancelPc, Moves, Idle
<1>5. Grows
  BY <1>0, <1>2 DEF Catch, Grows, Await, TypeOK, SaleInv, Sound, Stands, Works, Shares
<1>6. Open' /\ Awaited' /\ IntentMade'
  BY <1>0, <1>2 DEF Catch, SaleInv, TypeOK, Open, Awaited, IntentMade, Sound, Placed, Stands, Shares,
     Alone, Works, Resting, Owns, Free, Undecided, Untouched, Proceeding, CheckoutPc, WebhookPc,
     CancelPc, FailPc, Await, Unpaid, Only, Reserved, Funded, CardShare, HoldShare, ActiveHolds,
     CapturedHolds, Moves, Idle, Task, Event
<1>7. SoldFor'
  BY <1>0, <1>1, <1>2 DEF Catch, SaleInv, TypeOK, SoldFor, Sold, CardPaid, Sound, Placed, Stands,
     Shares, Alone, Works, Resting, Owns, Free, Undecided, Untouched, Proceeding, CheckoutPc,
     WebhookPc, CancelPc, FailPc, Await, Unpaid, Only, Reserved, Funded, CardShare, HoldShare,
     ActiveHolds, CapturedHolds, Moves, Idle, Task, Event
<1> QED BY <1>0, <1>1, <1>3, <1>4, <1>5, <1>6, <1>7, WorkStep

\* MarkAuthorized keeps the invariant.
LEMMA SaleMarkAuthorized ==
    ASSUME SaleInv, TypeOK', PassInv', DeliveredApart', NEW p \in Procs, MarkAuthorized(p)
    PROVE  SaleInv'
<1>0. Sound(task[p]) /\ task[p] \in Task /\ task[p].pc = "markAuthorized" /\ Works(task[p])
  BY DEF SaleInv, TypeOK, MarkAuthorized, At, Works, Resting, CancelPc
<1>1. PICK t : Become(p, t) /\ Moves(task[p], t) /\ t.pc = "repend"
  BY <1>0, GoneTo, Threw DEF MarkAuthorized, At, SaleInv, TypeOK
<1>2. UNCHANGED <<booking, holds, stripe, slot, events>>
  BY <1>0 DEF MarkAuthorized, rows, external, SaleInv, TypeOK, Sound, Stands, Undecided
<1>3. Sound(t)'
  BY <1>0, <1>1, <1>2, CheckoutAssumption DEF MarkAuthorized, At, rows, external, Sound, Placed,
     Stands, Shares, Alone, Works, Resting, Owns, Free, Undecided, Untouched, Proceeding,
     CheckoutPc, WebhookPc, CancelPc, FailPc, Await, Unpaid, Only, Reserved, Funded, CardShare,
     HoldShare, ActiveHolds, CapturedHolds, Moves, Idle, Task, Event
<1>4. TakesOwn(p, t) /\ t.pc \notin CancelPc
  BY <1>0, <1>1 DEF TakesOwn, Owns, CancelPc, Moves, Idle
<1>5. Grows
  BY <1>0, <1>2 DEF MarkAuthorized, Grows, Await, TypeOK, SaleInv, Sound, Stands, Works, Shares
<1>6. Open' /\ Awaited' /\ IntentMade'
  BY <1>0, <1>2 DEF MarkAuthorized, SaleInv, TypeOK, Open, Awaited, IntentMade, Sound, Placed, Stands,
     Shares, Alone, Works, Resting, Owns, Free, Undecided, Untouched, Proceeding, CheckoutPc,
     WebhookPc, CancelPc, FailPc, Await, Unpaid, Only, Reserved, Funded, CardShare, HoldShare,
     ActiveHolds, CapturedHolds, Moves, Idle, Task, Event
<1>7. SoldFor'
  BY <1>0, <1>1, <1>2 DEF MarkAuthorized, SaleInv, TypeOK, SoldFor, Sold, CardPaid, Sound, Placed,
     Stands, Shares, Alone, Works, Resting, Owns, Free, Undecided, Untouched, Proceeding,
     CheckoutPc, WebhookPc, CancelPc, FailPc, Await, Unpaid, Only, Reserved, Funded, CardShare,
     HoldShare, ActiveHolds, CapturedHolds, Moves, Idle, Task, Event
<1> QED BY <1>0, <1>1, <1>3, <1>4, <1>5, <1>6, <1>7, WorkStep

\* Repend keeps the invariant.
LEMMA SaleRepend ==
    ASSUME SaleInv, TypeOK', PassInv', DeliveredApart', NEW p \in Procs, Repend(p)
    PROVE  SaleInv'
<1>0. Sound(task[p]) /\ task[p] \in Task /\ task[p].pc = "repend" /\ Works(task[p])
  BY DEF SaleInv, TypeOK, Repend, At, Works, Resting, CancelPc
<1>1. PICK t : Become(p, t) /\ Moves(task[p], t) /\ t.pc = "load"
  BY <1>0, GoneTo, Threw DEF Repend, At, SaleInv, TypeOK
<1>2. UNCHANGED <<booking, holds, payment, stripe, slot, events>>
  BY <1>0 DEF Repend, rows, external, SaleInv, TypeOK, Sound, Stands, Undecided
<1>3. Sound(t)'
  BY <1>0, <1>1, <1>2, CheckoutAssumption DEF Repend, At, rows, external, Sound, Placed, Stands,
     Shares, Alone, Works, Resting, Owns, Free, Undecided, Untouched, Proceeding, CheckoutPc,
     WebhookPc, CancelPc, FailPc, Await, Unpaid, Only, Reserved, Funded, CardShare, HoldShare,
     ActiveHolds, CapturedHolds, Moves, Idle, Task, Event
<1>4. TakesOwn(p, t) /\ t.pc \notin CancelPc
  BY <1>0, <1>1 DEF TakesOwn, Owns, CancelPc, Moves, Idle
<1>5. Grows
  BY <1>0, <1>2 DEF Repend, Grows, Await, TypeOK, SaleInv, Sound, Stands, Works, Shares
<1>6. Open' /\ Awaited' /\ IntentMade'
  BY <1>0, <1>2 DEF Repend, SaleInv, TypeOK, Open, Awaited, IntentMade, Sound, Placed, Stands, Shares,
     Alone, Works, Resting, Owns, Free, Undecided, Untouched, Proceeding, CheckoutPc, WebhookPc,
     CancelPc, FailPc, Await, Unpaid, Only, Reserved, Funded, CardShare, HoldShare, ActiveHolds,
     CapturedHolds, Moves, Idle, Task, Event
<1>7. SoldFor'
  BY <1>0, <1>1, <1>2 DEF Repend, SaleInv, TypeOK, SoldFor, Sold, CardPaid, Sound, Placed, Stands,
     Shares, Alone, Works, Resting, Owns, Free, Undecided, Untouched, Proceeding, CheckoutPc,
     WebhookPc, CancelPc, FailPc, Await, Unpaid, Only, Reserved, Funded, CardShare, HoldShare,
     ActiveHolds, CapturedHolds, Moves, Idle, Task, Event
<1> QED BY <1>0, <1>1, <1>3, <1>4, <1>5, <1>6, <1>7, WorkStep

\* FailPayment keeps the invariant.
LEMMA SaleFailPayment ==
    ASSUME SaleInv, TypeOK', PassInv', DeliveredApart', NEW p \in Procs, FailPayment(p)
    PROVE  SaleInv'
<1>0. Sound(task[p]) /\ task[p] \in Task /\ task[p].pc = "failPayment" /\ Works(task[p])
  BY DEF SaleInv, TypeOK, FailPayment, At, Works, Resting, CancelPc
<1>1. PICK t : Become(p, t) /\ Moves(task[p], t) /\ t.pc = "failFindHold"
  BY <1>0, GoneTo, Threw DEF FailPayment, At, SaleInv, TypeOK
<1>2. UNCHANGED <<booking, holds, stripe, slot, events>>
  BY <1>0 DEF FailPayment, rows, external, SaleInv, TypeOK, Sound, Stands, Undecided
<1>3. Sound(t)'
  BY <1>0, <1>1, <1>2, CheckoutAssumption DEF FailPayment, At, rows, external, Sound, Placed, Stands,
     Shares, Alone, Works, Resting, Owns, Free, Undecided, Untouched, Proceeding, CheckoutPc,
     WebhookPc, CancelPc, FailPc, Await, Unpaid, Only, Reserved, Funded, CardShare, HoldShare,
     ActiveHolds, CapturedHolds, Moves, Idle, Task, Event
<1>4. TakesOwn(p, t) /\ t.pc \notin CancelPc
  BY <1>0, <1>1 DEF TakesOwn, Owns, CancelPc, Moves, Idle
<1>5. Grows
  BY <1>0, <1>2 DEF FailPayment, Grows, Await, TypeOK, SaleInv, Sound, Stands, Works, Shares
<1>6. Open' /\ Awaited' /\ IntentMade'
  BY <1>0, <1>2 DEF FailPayment, SaleInv, TypeOK, Open, Awaited, IntentMade, Sound, Placed, Stands,
     Shares, Alone, Works, Resting, Owns, Free, Undecided, Untouched, Proceeding, CheckoutPc,
     WebhookPc, CancelPc, FailPc, Await, Unpaid, Only, Reserved, Funded, CardShare, HoldShare,
     ActiveHolds, CapturedHolds, Moves, Idle, Task, Event
<1>7. SoldFor'
  BY <1>0, <1>1, <1>2 DEF FailPayment, SaleInv, TypeOK, SoldFor, Sold, CardPaid, Sound, Placed,
     Stands, Shares, Alone, Works, Resting, Owns, Free, Undecided, Untouched, Proceeding,
     CheckoutPc, WebhookPc, CancelPc, FailPc, Await, Unpaid, Only, Reserved, Funded, CardShare,
     HoldShare, ActiveHolds, CapturedHolds, Moves, Idle, Task, Event
<1> QED BY <1>0, <1>1, <1>3, <1>4, <1>5, <1>6, <1>7, WorkStep

\* FailRelease keeps the invariant.
LEMMA SaleFailRelease ==
    ASSUME SaleInv, TypeOK', PassInv', DeliveredApart', NEW p \in Procs, FailRelease(p)
    PROVE  SaleInv'
<1>0. Sound(task[p]) /\ task[p] \in Task /\ task[p].pc = "failRelease" /\ Works(task[p])
  BY DEF SaleInv, TypeOK, FailRelease, At, Works, Resting, CancelPc
<1>1. PICK t : Become(p, t) /\ Moves(task[p], t) /\ t.pc = "failRead"
  BY <1>0, GoneTo, Threw DEF FailRelease, At, SaleInv, TypeOK
<1>2. UNCHANGED <<booking, payment, stripe, slot, events>>
  BY <1>0 DEF FailRelease, rows, external, SaleInv, TypeOK, Sound, Stands, Undecided
<1>a. PICK h : h = task[p].hold
  OBVIOUS
<1>b. h \in Holds \cup {NoHold} /\ holds' = Released(h)
  BY <1>0, <1>a DEF FailRelease, At, Task, Sound, Shares, Reserved
<1>c. /\ \A g \in Holds : /\ holds'[g].amount = holds[g].amount
                          /\ holds'[g].status = IF g = h /\ holds[g].status = "ACTIVE" THEN "RELEASED" ELSE holds[g].status
      /\ ActiveHolds' = ActiveHolds \ {h} /\ CapturedHolds' = CapturedHolds
  BY <1>b, Releases DEF SaleInv
<1>3. Sound(t)'
  BY <1>0, <1>1, <1>2, <1>a, <1>b, <1>c, CheckoutAssumption DEF Sound, Placed, Stands, Shares, Alone,
     Works, Resting, Owns, Free, Undecided, Untouched, Proceeding, CheckoutPc, WebhookPc, CancelPc,
     FailPc, Await, Unpaid, Only, Reserved, Funded, CardShare, HoldShare, Moves, Idle, Task, Event
<1>4. TakesOwn(p, t) /\ t.pc \notin CancelPc
  BY <1>0, <1>1 DEF TakesOwn, Owns, CancelPc, Moves, Idle
<1>5. Grows
  BY <1>0, <1>2, <1>a, <1>b, <1>c DEF Grows, Await, TypeOK, SaleInv, Sound, Stands, Works, Shares
<1>6. Open' /\ Awaited' /\ IntentMade'
  BY <1>0, <1>2, <1>a, <1>b, <1>c DEF SaleInv, TypeOK, Open, Awaited, IntentMade, Sound, Placed,
     Stands, Shares, Alone, Works, Resting, Owns, Free, Undecided, Untouched, Proceeding,
     CheckoutPc, WebhookPc, CancelPc, FailPc, Await, Unpaid, Only, Reserved, Funded, CardShare,
     HoldShare, Moves, Idle, Task, Event
<1>7. SoldFor'
  BY <1>0, <1>1, <1>2, <1>a, <1>b, <1>c DEF SaleInv, TypeOK, SoldFor, Sold, CardPaid, Sound, Placed,
     Stands, Shares, Alone, Works, Resting, Owns, Free, Undecided, Untouched, Proceeding,
     CheckoutPc, WebhookPc, CancelPc, FailPc, Await, Unpaid, Only, Reserved, Funded, CardShare,
     HoldShare, Moves, Idle, Task, Event
<1> QED BY <1>0, <1>1, <1>3, <1>4, <1>5, <1>6, <1>7, WorkStep

\* FailRead keeps the invariant.
LEMMA SaleFailRead ==
    ASSUME SaleInv, TypeOK', PassInv', DeliveredApart', NEW p \in Procs, FailRead(p)
    PROVE  SaleInv'
<1>0. Sound(task[p]) /\ task[p] \in Task /\ task[p].pc = "failRead" /\ Works(task[p])
  BY DEF SaleInv, TypeOK, FailRead, At, Works, Resting, CancelPc
<1>1. PICK t : Become(p, t) /\ Moves(task[p], t) /\ t.pc = (IF booking \in {"FAILED", "CANCELED", "CONFIRMED"} THEN "ack" ELSE "failBooking")
  BY <1>0, GoneTo, Threw DEF FailRead, At
<1>2. UNCHANGED <<booking, holds, payment, stripe, slot, events>>
  BY DEF FailRead, rows, external
<1>3. Sound(t)'
  BY <1>0, <1>1, <1>2, CheckoutAssumption DEF FailRead, At, rows, external, Sound, Placed, Stands,
     Shares, Alone, Works, Resting, Owns, Free, Undecided, Untouched, Proceeding, CheckoutPc,
     WebhookPc, CancelPc, FailPc, Await, Unpaid, Only, Reserved, Funded, CardShare, HoldShare,
     ActiveHolds, CapturedHolds, Moves, Idle, Task, Event
<1>4. TakesOwn(p, t) /\ t.pc \notin CancelPc
  BY <1>0, <1>1 DEF TakesOwn, Owns, CancelPc, Moves, Idle
<1> QED BY <1>0, <1>1, <1>2, <1>3, <1>4, QuietStep DEF TypeOK, Event

\* FailBooking keeps the invariant.
LEMMA SaleFailBooking ==
    ASSUME SaleInv, TypeOK', PassInv', DeliveredApart', NEW p \in Procs, FailBooking(p)
    PROVE  SaleInv'
<1>0. Sound(task[p]) /\ task[p] \in Task /\ task[p].pc = "failBooking" /\ Works(task[p])
  BY DEF SaleInv, TypeOK, FailBooking, At, Works, Resting, CancelPc
<1>1. PICK t : Become(p, t) /\ Moves(task[p], t) /\ t.pc = "ack"
  BY <1>0, GoneTo, Threw DEF FailBooking, At, SaleInv, TypeOK
<1>2. UNCHANGED <<holds, payment, stripe, slot, events>>
  BY <1>0 DEF FailBooking, rows, external, SaleInv, TypeOK, Sound, Stands, Undecided
<1>3. Sound(t)'
  BY <1>0, <1>1, <1>2, CheckoutAssumption DEF FailBooking, At, rows, external, Sound, Placed, Stands,
     Shares, Alone, Works, Resting, Owns, Free, Undecided, Untouched, Proceeding, CheckoutPc,
     WebhookPc, CancelPc, FailPc, Await, Unpaid, Only, Reserved, Funded, CardShare, HoldShare,
     ActiveHolds, CapturedHolds, Moves, Idle, Task, Event
<1>4. TakesOwn(p, t) /\ t.pc \notin CancelPc
  BY <1>0, <1>1 DEF TakesOwn, Owns, CancelPc, Moves, Idle
<1>5. Grows
  BY <1>0, <1>2 DEF FailBooking, Grows, Await, TypeOK, SaleInv, Sound, Stands, Works, Shares
<1>6. Open' /\ Awaited' /\ IntentMade'
  BY <1>0, <1>2 DEF FailBooking, SaleInv, TypeOK, Open, Awaited, IntentMade, Sound, Placed, Stands,
     Shares, Alone, Works, Resting, Owns, Free, Undecided, Untouched, Proceeding, CheckoutPc,
     WebhookPc, CancelPc, FailPc, Await, Unpaid, Only, Reserved, Funded, CardShare, HoldShare,
     ActiveHolds, CapturedHolds, Moves, Idle, Task, Event
<1>7. SoldFor'
  BY <1>0, <1>1, <1>2 DEF FailBooking, SaleInv, TypeOK, SoldFor, Sold, CardPaid, Sound, Placed,
     Stands, Shares, Alone, Works, Resting, Owns, Free, Undecided, Untouched, Proceeding,
     CheckoutPc, WebhookPc, CancelPc, FailPc, Await, Unpaid, Only, Reserved, Funded, CardShare,
     HoldShare, ActiveHolds, CapturedHolds, Moves, Idle, Task, Event
<1> QED BY <1>0, <1>1, <1>3, <1>4, <1>5, <1>6, <1>7, WorkStep

\* ReceiveCapturable keeps the invariant.
LEMMA SaleReceiveCapturable ==
    ASSUME SaleInv, TypeOK', PassInv', DeliveredApart', NEW p \in Procs, ReceiveCapturable(p)
    PROVE  SaleInv'
<1>0. Sound(task[p]) /\ task[p] \in Task /\ task[p].pc = "receive"
  BY DEF SaleInv, TypeOK, ReceiveCapturable, At
<1>1. PICK t : Become(p, t) /\ Moves(task[p], t) /\ t.pc = (IF payment = "REQUIRES_ACTION" THEN "findHold" ELSE "ack")
  BY <1>0, GoneTo, Threw DEF ReceiveCapturable, At
<1>2. UNCHANGED <<booking, mapping, holds, payment, stripe, slot>>
  BY <1>0 DEF ReceiveCapturable, rows, external
<1>3. Sound(t)'
  BY <1>0, <1>1, <1>2, IdleSound, CheckoutAssumption DEF ReceiveCapturable, At, SaleInv, TypeOK, Open,
     Awaited, SoldFor, IntentMade, Sold, Sound, Placed, Stands, Shares, Alone, Works, Resting, Owns,
     Free, Undecided, Untouched, Proceeding, CheckoutPc, WebhookPc, CancelPc, FailPc, Await, Unpaid,
     Only, Reserved, Funded, CardShare, HoldShare, ActiveHolds, CapturedHolds, Moves, Idle, Task,
     Event
<1>4. TakesOwn(p, t) /\ CancelsAlone(p, t)
  BY <1>0, <1>1 DEF TakesOwn, Owns, Works, Resting, CancelsAlone, Canceling, CancelPc, Moves, Idle,
     Sound, Shares
<1>5. events'["failed"].left <= events["failed"].left
  BY <1>0 DEF ReceiveCapturable, rows, external, TypeOK, SaleInv, Event, Sent
<1> QED BY <1>1, <1>2, <1>3, <1>4, <1>5, StillStep

\* ReceiveFailed keeps the invariant.
LEMMA SaleReceiveFailed ==
    ASSUME SaleInv, TypeOK', PassInv', DeliveredApart', NEW p \in Procs, ReceiveFailed(p)
    PROVE  SaleInv'
<1>0. Sound(task[p]) /\ task[p] \in Task /\ task[p].pc = "receive"
  BY DEF SaleInv, TypeOK, ReceiveFailed, At
<1>1. PICK t : /\ Become(p, t) /\ Moves(task[p], t)
               /\ t.pc = (IF payment \in {"absent", "SUCCEEDED", "FAILED"} THEN "ack" ELSE "failPayment")
  BY <1>0, GoneTo, Threw DEF ReceiveFailed, At
<1>2. UNCHANGED <<booking, mapping, holds, payment, stripe, slot>>
  BY <1>0 DEF ReceiveFailed, rows, external
<1>3. Sound(t)'
  <2>1. CASE t.pc = "ack"
    BY <1>0, <1>1, <1>2, <2>1 DEF Sound, Placed, Stands, Shares, Alone, Works, Resting, Owns, Free,
       Undecided, Untouched, Proceeding, CheckoutPc, WebhookPc, CancelPc, FailPc, Await, Unpaid,
       Only, Reserved, Funded, CardShare, HoldShare, ActiveHolds, CapturedHolds, Moves, Idle, Task,
       Event
  <2>2. CASE t.pc = "failPayment"
    <3>1. task[p].op = "failed" /\ Await
      BY <1>0 DEF ReceiveFailed, Sound, Stands
    <3>2. payment \in {"REQUIRES_ACTION", "AUTHORIZED", "CANCELED"}
      BY <1>1, <2>2 DEF SaleInv, TypeOK, PaymentStatus
    <3>3. booking \in {"PAYMENT_PENDING", "FAILED", "MANUAL_REVIEW"}
      BY <3>1, <3>2 DEF SaleInv, TypeOK, BookingStatus, Open, SoldFor, Sold, Await
    <3> QED BY <1>0, <1>1, <1>2, <2>2, <3>1, <3>2, <3>3 DEF Sound, Placed, Stands, Shares, Alone, Works,
               Resting, Owns, Free, Undecided, Untouched, Proceeding, CheckoutPc, WebhookPc,
               CancelPc, FailPc, Await, Unpaid, Only, Reserved, Funded, CardShare, HoldShare,
               ActiveHolds, CapturedHolds, Moves, Idle, Task, Event
  <2> QED BY <1>1, <2>1, <2>2
<1>4. TakesOwn(p, t) /\ CancelsAlone(p, t)
  BY <1>0, <1>1 DEF TakesOwn, Owns, Works, Resting, CancelsAlone, Canceling, CancelPc, Moves, Idle,
     Sound, Shares
<1>5. events'["failed"].left <= events["failed"].left
  BY <1>0 DEF ReceiveFailed, rows, external, TypeOK, SaleInv, Event, Sent
<1> QED BY <1>1, <1>2, <1>3, <1>4, <1>5, StillStep

\* Ack keeps the invariant.
LEMMA SaleAck ==
    ASSUME SaleInv, TypeOK', PassInv', DeliveredApart', NEW p \in Procs, Ack(p)
    PROVE  SaleInv'
<1>0. Sound(task[p]) /\ task[p] \in Task /\ task[p].pc = "ack"
  BY DEF SaleInv, TypeOK, Ack, At
<1>1. PICK t : t = Idle /\ Become(p, t)
  BY <1>0, GoneTo, Threw DEF Ack, At
<1>2. UNCHANGED <<booking, mapping, holds, payment, stripe, slot>>
  BY <1>0 DEF Ack, rows, external
<1>3. Sound(t)'
  BY <1>0, <1>1, <1>2, IdleSound, CheckoutAssumption DEF Ack, At, SaleInv, TypeOK, Open, Awaited,
     SoldFor, IntentMade, Sold, Sound, Placed, Stands, Shares, Alone, Works, Resting, Owns, Free,
     Undecided, Untouched, Proceeding, CheckoutPc, WebhookPc, CancelPc, FailPc, Await, Unpaid, Only,
     Reserved, Funded, CardShare, HoldShare, ActiveHolds, CapturedHolds, Moves, Idle, Task, Event
<1>4. TakesOwn(p, t) /\ CancelsAlone(p, t)
  BY <1>0, <1>1 DEF TakesOwn, Owns, Works, Resting, CancelsAlone, Canceling, CancelPc, Moves, Idle,
     Sound, Shares
<1>5. events'["failed"].left <= events["failed"].left
  BY <1>0 DEF Ack, rows, external, TypeOK, SaleInv, Event, Sent
<1> QED BY <1>1, <1>2, <1>3, <1>4, <1>5, StillStep

\* StartCheckout keeps the invariant.
LEMMA SaleStartCheckout ==
    ASSUME SaleInv, TypeOK', PassInv', DeliveredApart', NEW p \in Procs, StartCheckout(p)
    PROVE  SaleInv'
<1>0. Sound(task[p]) /\ task[p] \in Task /\ task[p].pc = "idle"
  BY DEF SaleInv, TypeOK, StartCheckout, At
<1>1. PICK t : \E m \in MethodGiven : t = [Idle EXCEPT !.op = "checkout", !.pc = "claim", !.method = m] /\ Become(p, t)
  BY <1>0, GoneTo, Threw DEF StartCheckout, At
<1>2. UNCHANGED <<booking, mapping, holds, payment, stripe, slot>>
  BY <1>0 DEF StartCheckout, rows, external
<1>3. Sound(t)'
  BY <1>0, <1>1, <1>2, IdleSound, CheckoutAssumption DEF StartCheckout, At, SaleInv, TypeOK, Open,
     Awaited, SoldFor, IntentMade, Sold, Sound, Placed, Stands, Shares, Alone, Works, Resting, Owns,
     Free, Undecided, Untouched, Proceeding, CheckoutPc, WebhookPc, CancelPc, FailPc, Await, Unpaid,
     Only, Reserved, Funded, CardShare, HoldShare, ActiveHolds, CapturedHolds, Moves, Idle, Task,
     Event
<1>4. TakesOwn(p, t) /\ CancelsAlone(p, t)
  BY <1>0, <1>1 DEF TakesOwn, Owns, Works, Resting, CancelsAlone, Canceling, CancelPc, Moves, Idle,
     Sound, Shares
<1>5. events'["failed"].left <= events["failed"].left
  BY <1>0 DEF StartCheckout, rows, external, TypeOK, SaleInv, Event, Sent
<1> QED BY <1>1, <1>2, <1>3, <1>4, <1>5, StillStep

\* StartCancel keeps the invariant.
LEMMA SaleStartCancel ==
    ASSUME SaleInv, TypeOK', PassInv', DeliveredApart', NEW p \in Procs, StartCancel(p)
    PROVE  SaleInv'
<1>0. Sound(task[p]) /\ task[p] \in Task /\ task[p].pc = "idle"
  BY DEF SaleInv, TypeOK, StartCancel, At
<1>1. PICK t : \E c : t = [Idle EXCEPT !.op = "cancel", !.pc = "cancelClaim", !.card = c] /\ Become(p, t)
  BY <1>0, GoneTo, Threw DEF StartCancel, At
<1>2. UNCHANGED <<booking, mapping, holds, payment, stripe, slot>>
  BY <1>0 DEF StartCancel, rows, external
<1>3. Sound(t)'
  BY <1>0, <1>1, <1>2, IdleSound, CheckoutAssumption DEF StartCancel, At, SaleInv, TypeOK, Open,
     Awaited, SoldFor, IntentMade, Sold, Sound, Placed, Stands, Shares, Alone, Works, Resting, Owns,
     Free, Undecided, Untouched, Proceeding, CheckoutPc, WebhookPc, CancelPc, FailPc, Await, Unpaid,
     Only, Reserved, Funded, CardShare, HoldShare, ActiveHolds, CapturedHolds, Moves, Idle, Task,
     Event
<1>4. TakesOwn(p, t) /\ CancelsAlone(p, t)
  BY <1>0, <1>1 DEF TakesOwn, Owns, Works, Resting, CancelsAlone, Canceling, CancelPc, Moves, Idle,
     Sound, Shares
<1>5. events'["failed"].left <= events["failed"].left
  BY <1>0 DEF StartCancel, rows, external, TypeOK, SaleInv, Event, Sent
<1> QED BY <1>1, <1>2, <1>3, <1>4, <1>5, StillStep

\* Deliver keeps the invariant.
LEMMA SaleDeliver ==
    ASSUME SaleInv, TypeOK', PassInv', DeliveredApart', NEW p \in Procs, Deliver(p)
    PROVE  SaleInv'
<1>0. Sound(task[p]) /\ task[p] \in Task /\ task[p].pc = "idle"
  BY DEF SaleInv, TypeOK, Deliver, At
<1>1. PICK t : /\ Become(p, t)
               /\ t = task[p] \/ \E e \in Event : events[e].left > 0 /\ t = [Idle EXCEPT !.op = e, !.pc = "receive"]
  BY <1>0, GoneTo, Threw DEF Deliver, At, Become, SaleInv, TypeOK
<1>2. UNCHANGED <<booking, mapping, holds, payment, stripe, slot>>
  BY <1>0 DEF Deliver, rows, external
<1>3. Sound(t)'
  <2>1. CASE t = task[p]
    BY <1>0, <1>2, <2>1 DEF Sound, Placed, Stands, Shares, Alone, Works, Resting, Owns, Free, Undecided,
       Untouched, Proceeding, CheckoutPc, WebhookPc, CancelPc, FailPc, Await, Unpaid, Only,
       Reserved, Funded, CardShare, HoldShare, ActiveHolds, CapturedHolds, Moves, Idle, Task, Event
  <2>2. CASE t # task[p]
    <3>1. PICK e \in Event : events[e].left > 0 /\ t = [Idle EXCEPT !.op = e, !.pc = "receive"]
      BY <1>1, <2>2
    <3>2. e = "failed" => Await
      BY <3>1 DEF SaleInv, IntentMade
    <3>3. t.op = e /\ t.pc = "receive" /\ t.hold = NoHold /\ t.applied = 0 /\ t.card = FALSE
      BY <3>1 DEF Idle
    <3> QED BY <1>2, <3>2, <3>3 DEF Sound, Placed, Stands, Shares, Alone, Works, Resting, Owns, Free,
               Undecided, Untouched, Proceeding, CheckoutPc, WebhookPc, CancelPc, FailPc, Await,
               Unpaid, Only, Reserved, Funded, CardShare, HoldShare, ActiveHolds, CapturedHolds,
               Moves, Idle, Task, Event
  <2> QED BY <2>1, <2>2
<1>4. TakesOwn(p, t) /\ CancelsAlone(p, t)
  BY <1>0, <1>1 DEF TakesOwn, Owns, Works, Resting, CancelsAlone, Canceling, CancelPc, Moves, Idle,
     Sound, Shares
<1>5. events'["failed"].left <= events["failed"].left
  BY <1>0 DEF Deliver, rows, external, TypeOK, SaleInv, Event, Sent
<1> QED BY <1>1, <1>2, <1>3, <1>4, <1>5, StillStep

\* FindHold keeps the invariant.
LEMMA SaleFindHold ==
    ASSUME SaleInv, TypeOK', PassInv', DeliveredApart', NEW p \in Procs, FindHold(p)
    PROVE  SaleInv'
<1>0. Sound(task[p]) /\ task[p] \in Task /\ task[p].pc = "findHold" /\ Works(task[p])
  BY DEF SaleInv, TypeOK, FindHold, At, Works, Resting, CancelPc
<1>a. PICK h \in FoundHold : Become(p, [task[p] EXCEPT !.pc = "markAuthorized", !.hold = h, !.card = TRUE])
  BY DEF FindHold
<1>1. PICK t : t = [task[p] EXCEPT !.pc = "markAuthorized", !.hold = h, !.card = TRUE] /\ Become(p, t)
  BY <1>a
<1>2. UNCHANGED <<booking, mapping, holds, payment, stripe, slot, events>>
  BY DEF FindHold, rows, external
<1>3. payment = "REQUIRES_ACTION" /\ stripe.answer = "requires_action"
  BY <1>0 DEF Sound, Shares, Stands, Await, Placed
<1>4. PICK g \in Holds \cup {NoHold} : ActiveHolds = {g} \ {NoHold} /\ stripe.amount + HoldShare(g) = Price
  BY <1>3 DEF SaleInv, Awaited
<1>5. h = g
  BY <1>1, <1>4, CheckoutAssumption DEF FoundHold
<1>6. t.op = task[p].op /\ t.pc = "markAuthorized" /\ t.hold = h /\ t.card = TRUE /\ t.applied = task[p].applied
  BY <1>0, <1>1 DEF Task
<1>7. Sound(t)'
  BY <1>0, <1>2, <1>3, <1>4, <1>5, <1>6, CheckoutAssumption DEF Sound, Placed, Stands, Shares, Alone,
     Works, Resting, Owns, Free, Undecided, Untouched, Proceeding, CheckoutPc, WebhookPc, CancelPc,
     FailPc, Await, Unpaid, Only, Reserved, Funded, CardShare, HoldShare, ActiveHolds,
     CapturedHolds, Moves, Idle, Task, Event
<1>8. TakesOwn(p, t)
  <2>1. SUFFICES ASSUME h # NoHold, NEW q \in Procs \ {p}, Owns(task[q]), task[q].hold = h PROVE FALSE
    BY <1>6 DEF TakesOwn, Owns
  <2>2. holds[h].status = "ACTIVE"
    BY <1>4, <1>5, <2>1, CheckoutAssumption DEF ActiveHolds
  <2>3. ~Works(task[q])
    BY <1>0, <2>1, OneWorker
  <2> QED BY <1>3, <2>1, <2>2, <2>3 DEF SaleInv, Sound, Alone, Owns
<1>9. events'["failed"].left <= events["failed"].left
  BY <1>2 DEF SaleInv, TypeOK, Event
<1>10. t.pc \notin CancelPc
  BY <1>6 DEF CancelPc
<1> QED BY <1>0, <1>1, <1>2, <1>7, <1>8, <1>9, <1>10, QuietStep

\* FailFindHold keeps the invariant.
LEMMA SaleFailFindHold ==
    ASSUME SaleInv, TypeOK', PassInv', DeliveredApart', NEW p \in Procs, FailFindHold(p)
    PROVE  SaleInv'
<1>0. Sound(task[p]) /\ task[p] \in Task /\ task[p].pc = "failFindHold" /\ Works(task[p])
  BY DEF SaleInv, TypeOK, FailFindHold, At, Works, Resting, CancelPc
<1>a. PICK h \in FoundHold : Become(p, [task[p] EXCEPT !.pc = "failRelease", !.hold = h])
  BY DEF FailFindHold
<1>1. PICK t : t = [task[p] EXCEPT !.pc = "failRelease", !.hold = h] /\ Become(p, t)
  BY <1>a
<1>2. UNCHANGED <<booking, mapping, holds, payment, stripe, slot, events>>
  BY DEF FailFindHold, rows, external
<1>3. task[p].op = "failed" /\ stripe.answer = "requires_action"
  BY <1>0 DEF Sound, Stands, Await, Placed, FailPc
<1>4. h # NoHold => h \in Holds /\ holds[h].status = "ACTIVE"
  BY <1>1 DEF FoundHold, ActiveHolds
<1>6. t.op = task[p].op /\ t.pc = "failRelease" /\ t.hold = h /\ t.card = task[p].card /\ t.applied = task[p].applied
  BY <1>0, <1>1 DEF Task
<1>7. Sound(t)'
  BY <1>0, <1>2, <1>3, <1>4, <1>6, CheckoutAssumption DEF Sound, Placed, Stands, Shares, Alone, Works,
     Resting, Owns, Free, Undecided, Untouched, Proceeding, CheckoutPc, WebhookPc, CancelPc, FailPc,
     Await, Unpaid, Only, Reserved, Funded, CardShare, HoldShare, ActiveHolds, CapturedHolds, Moves,
     Idle, Task, Event
<1>8. TakesOwn(p, t)
  <2>1. SUFFICES ASSUME h # NoHold, NEW q \in Procs \ {p}, Owns(task[q]), task[q].hold = h PROVE FALSE
    BY <1>6 DEF TakesOwn, Owns
  <2>3. ~Works(task[q])
    BY <1>0, <2>1, OneWorker
  <2> QED BY <1>3, <1>4, <2>1, <2>3 DEF SaleInv, Sound, Alone, Owns
<1>9. events'["failed"].left <= events["failed"].left
  BY <1>2 DEF SaleInv, TypeOK, Event
<1>10. t.pc \notin CancelPc
  BY <1>6 DEF CancelPc
<1> QED BY <1>0, <1>1, <1>2, <1>7, <1>8, <1>9, <1>10, QuietStep

\* CatchRelease keeps the invariant.
LEMMA SaleCatchRelease ==
    ASSUME SaleInv, TypeOK', PassInv', DeliveredApart', NEW p \in Procs, CatchRelease(p)
    PROVE  SaleInv'
<1>0. Sound(task[p]) /\ task[p] \in Task /\ task[p].pc = "catchRelease" /\ Become(p, Idle)
  BY DEF SaleInv, TypeOK, CatchRelease, At
<1>1. PICK h : h = task[p].hold
  OBVIOUS
<1>2. h \in Holds \cup {NoHold} /\ holds' = Released(h)
  BY <1>0, <1>1 DEF CatchRelease, Task
<1>3. /\ \A g \in Holds : /\ holds'[g].amount = holds[g].amount
                          /\ holds'[g].status = IF g = h /\ holds[g].status = "ACTIVE" THEN "RELEASED"
                                                ELSE holds[g].status
      /\ ActiveHolds' = ActiveHolds \ {h} /\ CapturedHolds' = CapturedHolds
  BY <1>2, Releases DEF SaleInv
<1>4. UNCHANGED <<booking, mapping, payment, stripe, slot, events>>
  BY DEF CatchRelease, external
<1>5. h # NoHold /\ stripe.answer \in {"none", "requires_action"} => holds[h].status # "ACTIVE"
  BY <1>0, <1>1 DEF Sound, Alone
<1>6. \A q \in Procs \ {p} : Works(task[q]) => Sound(task[q])'
  <2>1. TAKE q \in Procs \ {p}
  <2>2. SUFFICES ASSUME Works(task[q]) PROVE Sound(task[q])'
    OBVIOUS
  <2>3. task'[q] = task[q] /\ Sound(task[q]) /\ task[q] \in Task
    BY <1>0, <2>1 DEF SaleInv, TypeOK, Become
  <2>4. task[q].hold = NoHold \/ (task[q].hold \in Holds /\ task[q].hold # h)
    BY <1>0, <1>1, <2>1, <2>2, <2>3 DEF SaleInv, OwnHolds, Owns, Task
  <2>5. Placed(task[q])' /\ Stands(task[q])' /\ Works(task[q])'
    BY <1>3, <1>4, <2>2, <2>3 DEF Sound, Placed, Stands, Works, Free, Unpaid, Await
  <2>6. HoldShare(task[q].hold)' = HoldShare(task[q].hold) /\ (Reserved(task[q].hold) => Reserved(task[q].hold)')
    BY <1>3, <2>3, <2>4 DEF HoldShare, Reserved
  <2>7. Shares(task[q])'
    BY <1>3, <1>4, <2>3, <2>6 DEF Sound, Shares, Funded, CardShare, Works
  <2>8. Alone(task[q])'
    BY <1>3, <1>4, <2>2, <2>3, <2>4 DEF Sound, Alone, Only, Owns, Works, Resting
  <2> QED BY <2>5, <2>7, <2>8 DEF Sound
<1>7. Grows
  BY <1>3, <1>4 DEF Grows, Await
<1>8. Open' /\ IntentMade'
  BY <1>3, <1>4 DEF SaleInv, Open, IntentMade, Unpaid, Only, Await
<1>9. Awaited'
  <2>1. SUFFICES ASSUME payment = "REQUIRES_ACTION" PROVE Awaited'
    BY <1>4 DEF Awaited
  <2>2. stripe.answer = "requires_action" /\ Unpaid /\ slot # "ours" /\ booking = "PAYMENT_PENDING"
    BY <2>1 DEF SaleInv, Awaited
  <2>3. ActiveHolds' = ActiveHolds
    BY <1>3, <1>5, <2>2, CheckoutAssumption DEF ActiveHolds
  <2>4. PICK g \in Holds \cup {NoHold} : ActiveHolds = {g} \ {NoHold} /\ stripe.amount + HoldShare(g) = Price
    BY <2>1 DEF SaleInv, Awaited
  <2>5. HoldShare(g)' = HoldShare(g)
    BY <1>3, <2>4 DEF HoldShare
  <2> QED BY <1>3, <1>4, <2>2, <2>3, <2>4, <2>5 DEF Awaited, Unpaid
<1>10. SoldFor'
  <2>1. \A g \in Holds \cup {NoHold} : HoldShare(g)' = HoldShare(g)
    BY <1>3 DEF HoldShare
  <2> QED BY <1>3, <1>4, <2>1 DEF SaleInv, SoldFor, Await, CardPaid
<1>11. TakesOwn(p, Idle) /\ CancelsAlone(p, Idle)
  BY DEF TakesOwn, Owns, CancelsAlone, Canceling, CancelPc, Idle
<1> QED BY <1>0, <1>6, <1>7, <1>8, <1>9, <1>10, <1>11, IdleSound, RestStep

\* CancelLegacy keeps the invariant.
LEMMA SaleCancelLegacy ==
    ASSUME SaleInv, TypeOK', PassInv', DeliveredApart', NEW p \in Procs, CancelLegacy(p)
    PROVE  SaleInv'
<1>0. Sound(task[p]) /\ task[p] \in Task /\ task[p].pc = "cancelLegacy" /\ booking = "CANCEL_PENDING"
  BY DEF SaleInv, TypeOK, CancelLegacy, At, Sound, Stands, CancelPc
<1>1. PICK t : Become(p, t) /\ Moves(task[p], t) /\ t.pc = "cancelMapping"
  BY <1>0, GoneTo, Threw DEF CancelLegacy
<1>2. UNCHANGED <<booking, holds, payment, stripe, events>>
  BY <1>0 DEF CancelLegacy, rows, external
<1>3. Sound(t)'
  BY <1>0, <1>1, <1>2, IdleSound DEF CancelLegacy, Sound, Placed, Stands, Shares, Alone, Works,
     Resting, Owns, Free, Undecided, Untouched, Proceeding, CheckoutPc, WebhookPc, CancelPc, FailPc,
     Await, Unpaid, Only, Reserved, Funded, CardShare, HoldShare, ActiveHolds, CapturedHolds, Moves,
     Idle, Task, Event
<1>4. TakesOwn(p, t) /\ CancelsAlone(p, t)
  BY <1>0, <1>1 DEF TakesOwn, Owns, Works, Resting, CancelsAlone, Canceling, CancelPc, Moves, Idle
<1>5. Grows
  BY <1>0, <1>2 DEF CancelLegacy, Grows, Await
<1>6. Open' /\ Awaited' /\ IntentMade' /\ SoldFor'
  BY <1>0, <1>2 DEF CancelLegacy, SaleInv, TypeOK, Open, Awaited, IntentMade, SoldFor, Sold, CardPaid,
     Sound, Placed, Stands, Shares, Alone, Works, Resting, Owns, Free, Undecided, Untouched,
     Proceeding, CheckoutPc, WebhookPc, CancelPc, FailPc, Await, Unpaid, Only, Reserved, Funded,
     CardShare, HoldShare, ActiveHolds, CapturedHolds, Moves, Idle, Task, Event
<1>7. \A q \in Procs : ~Works(task[q])
  BY <1>0, NobodyWorks
<1> QED BY <1>1, <1>3, <1>4, <1>5, <1>6, <1>7, RestStep

\* CancelMapping keeps the invariant.
LEMMA SaleCancelMapping ==
    ASSUME SaleInv, TypeOK', PassInv', DeliveredApart', NEW p \in Procs, CancelMapping(p)
    PROVE  SaleInv'
<1>0. Sound(task[p]) /\ task[p] \in Task /\ task[p].pc = "cancelMapping" /\ booking = "CANCEL_PENDING"
  BY DEF SaleInv, TypeOK, CancelMapping, At, Sound, Stands, CancelPc
<1>1. PICK t : Become(p, t) /\ Moves(task[p], t) /\ t.pc = "cancelDone"
  BY <1>0, GoneTo, Threw DEF CancelMapping
<1>2. UNCHANGED <<booking, holds, payment, stripe, slot, events>>
  BY <1>0 DEF CancelMapping, rows, external
<1>3. Sound(t)'
  BY <1>0, <1>1, <1>2, IdleSound DEF CancelMapping, Sound, Placed, Stands, Shares, Alone, Works,
     Resting, Owns, Free, Undecided, Untouched, Proceeding, CheckoutPc, WebhookPc, CancelPc, FailPc,
     Await, Unpaid, Only, Reserved, Funded, CardShare, HoldShare, ActiveHolds, CapturedHolds, Moves,
     Idle, Task, Event
<1>4. TakesOwn(p, t) /\ CancelsAlone(p, t)
  BY <1>0, <1>1 DEF TakesOwn, Owns, Works, Resting, CancelsAlone, Canceling, CancelPc, Moves, Idle
<1>5. Grows
  BY <1>0, <1>2 DEF CancelMapping, Grows, Await
<1>6. Open' /\ Awaited' /\ IntentMade' /\ SoldFor'
  BY <1>0, <1>2 DEF CancelMapping, SaleInv, TypeOK, Open, Awaited, IntentMade, SoldFor, Sold,
     CardPaid, Sound, Placed, Stands, Shares, Alone, Works, Resting, Owns, Free, Undecided,
     Untouched, Proceeding, CheckoutPc, WebhookPc, CancelPc, FailPc, Await, Unpaid, Only, Reserved,
     Funded, CardShare, HoldShare, ActiveHolds, CapturedHolds, Moves, Idle, Task, Event
<1>7. \A q \in Procs : ~Works(task[q])
  BY <1>0, NobodyWorks
<1> QED BY <1>1, <1>3, <1>4, <1>5, <1>6, <1>7, RestStep

\* CancelUnknown keeps the invariant.
LEMMA SaleCancelUnknown ==
    ASSUME SaleInv, TypeOK', PassInv', DeliveredApart', NEW p \in Procs, CancelUnknown(p)
    PROVE  SaleInv'
<1>0. Sound(task[p]) /\ task[p] \in Task /\ task[p].pc = "cancelUnknown" /\ booking = "CANCEL_PENDING"
  BY DEF SaleInv, TypeOK, CancelUnknown, At, Sound, Stands, CancelPc
<1>1. PICK t : t = Idle /\ Become(p, t)
  BY <1>0, GoneTo, Threw DEF CancelUnknown
<1>2. UNCHANGED <<booking, holds, payment, stripe, slot, events>>
  BY <1>0 DEF CancelUnknown, rows, external
<1>3. Sound(t)'
  BY <1>0, <1>1, <1>2, IdleSound DEF CancelUnknown, Sound, Placed, Stands, Shares, Alone, Works,
     Resting, Owns, Free, Undecided, Untouched, Proceeding, CheckoutPc, WebhookPc, CancelPc, FailPc,
     Await, Unpaid, Only, Reserved, Funded, CardShare, HoldShare, ActiveHolds, CapturedHolds, Moves,
     Idle, Task, Event
<1>4. TakesOwn(p, t) /\ CancelsAlone(p, t)
  BY <1>0, <1>1 DEF TakesOwn, Owns, Works, Resting, CancelsAlone, Canceling, CancelPc, Moves, Idle
<1>5. Grows
  BY <1>0, <1>2 DEF CancelUnknown, Grows, Await
<1>6. Open' /\ Awaited' /\ IntentMade' /\ SoldFor'
  BY <1>0, <1>2 DEF CancelUnknown, SaleInv, TypeOK, Open, Awaited, IntentMade, SoldFor, Sold,
     CardPaid, Sound, Placed, Stands, Shares, Alone, Works, Resting, Owns, Free, Undecided,
     Untouched, Proceeding, CheckoutPc, WebhookPc, CancelPc, FailPc, Await, Unpaid, Only, Reserved,
     Funded, CardShare, HoldShare, ActiveHolds, CapturedHolds, Moves, Idle, Task, Event
<1>7. \A q \in Procs : ~Works(task[q])
  BY <1>0, NobodyWorks
<1> QED BY <1>1, <1>3, <1>4, <1>5, <1>6, <1>7, RestStep

\* LostCancellation keeps the invariant.
LEMMA SaleLostCancellation ==
    ASSUME SaleInv, TypeOK', PassInv', DeliveredApart', NEW p \in Procs, LostCancellation(p)
    PROVE  SaleInv'
<1>0. Sound(task[p]) /\ task[p] \in Task /\ task[p].pc = "cancelLegacy" /\ booking = "CANCEL_PENDING"
  BY DEF SaleInv, TypeOK, LostCancellation, At, Sound, Stands, CancelPc
<1>1. PICK t : Become(p, t) /\ Moves(task[p], t) /\ t.pc = "cancelUnknown"
  BY <1>0, GoneTo, Threw DEF LostCancellation
<1>2. UNCHANGED <<booking, holds, payment, stripe, events>>
  BY <1>0 DEF LostCancellation, rows, external
<1>3. Sound(t)'
  BY <1>0, <1>1, <1>2, IdleSound DEF LostCancellation, Sound, Placed, Stands, Shares, Alone, Works,
     Resting, Owns, Free, Undecided, Untouched, Proceeding, CheckoutPc, WebhookPc, CancelPc, FailPc,
     Await, Unpaid, Only, Reserved, Funded, CardShare, HoldShare, ActiveHolds, CapturedHolds, Moves,
     Idle, Task, Event
<1>4. TakesOwn(p, t) /\ CancelsAlone(p, t)
  BY <1>0, <1>1 DEF TakesOwn, Owns, Works, Resting, CancelsAlone, Canceling, CancelPc, Moves, Idle
<1>5. Grows
  BY <1>0, <1>2 DEF LostCancellation, Grows, Await
<1>6. Open' /\ Awaited' /\ IntentMade' /\ SoldFor'
  BY <1>0, <1>2 DEF LostCancellation, SaleInv, TypeOK, Open, Awaited, IntentMade, SoldFor, Sold,
     CardPaid, Sound, Placed, Stands, Shares, Alone, Works, Resting, Owns, Free, Undecided,
     Untouched, Proceeding, CheckoutPc, WebhookPc, CancelPc, FailPc, Await, Unpaid, Only, Reserved,
     Funded, CardShare, HoldShare, ActiveHolds, CapturedHolds, Moves, Idle, Task, Event
<1>7. \A q \in Procs : ~Works(task[q])
  BY <1>0, NobodyWorks
<1> QED BY <1>1, <1>3, <1>4, <1>5, <1>6, <1>7, RestStep

\* CancelClaim keeps the invariant.
LEMMA SaleCancelClaim ==
    ASSUME SaleInv, TypeOK', PassInv', DeliveredApart', NEW p \in Procs, CancelClaim(p)
    PROVE  SaleInv'
<1>0. Sound(task[p]) /\ task[p] \in Task /\ task[p].pc = "cancelClaim"
  BY DEF SaleInv, TypeOK, CancelClaim, At
<1>1. UNCHANGED <<mapping, holds, payment, stripe, slot, events>>
  BY DEF CancelClaim, external
<1>2. CASE booking # "CONFIRMED"
  <2>1. Become(p, Idle) /\ booking' = booking
    BY <1>2 DEF CancelClaim
  <2>2. TakesOwn(p, Idle) /\ CancelsAlone(p, Idle)
    BY DEF TakesOwn, Owns, Works, Resting, CancelsAlone, Canceling, CancelPc, Idle
  <2> QED BY <1>1, <2>1, <2>2, IdleSound, StillStep DEF SaleInv, TypeOK, Event
<1>3. CASE booking = "CONFIRMED"
  <2>1. booking' = "CANCEL_PENDING" /\ Goto(p, IF task[p].card THEN "cancelLegacy" ELSE "cancelDone")
    BY <1>3 DEF CancelClaim
  <2>2. PICK t : /\ Become(p, t) /\ Moves(task[p], t)
                 /\ t.pc = IF task[p].card THEN "cancelLegacy" ELSE "cancelDone"
    BY <2>1, GoneTo
  <2>3. Sound(t)'
    BY <1>0, <1>1, <2>1, <2>2 DEF Sound, Placed, Stands, Shares, Alone, Works, Resting, Owns, Free,
       Undecided, Untouched, Proceeding, CheckoutPc, WebhookPc, CancelPc, FailPc, Await, Unpaid,
       Only, Reserved, Funded, CardShare, HoldShare, ActiveHolds, CapturedHolds, Moves, Idle, Task,
       Event
  <2>4. TakesOwn(p, t) /\ CancelsAlone(p, t)
    BY <1>0, <1>3, <2>2 DEF TakesOwn, Owns, Works, Resting, CancelsAlone, Canceling, CancelPc, Moves,
       SaleInv, Sound, Stands
  <2>5. Grows
    BY <1>1, <1>3, <2>1 DEF Grows, Await
  <2>6. Open' /\ Awaited' /\ IntentMade' /\ SoldFor'
    BY <1>1, <1>3, <2>1 DEF SaleInv, TypeOK, Open, Awaited, IntentMade, SoldFor, Sold, CardPaid, Await,
       Unpaid, CapturedHolds, HoldShare
  <2>7. \A q \in Procs : ~Works(task[q])
    BY <1>3, NobodyWorks
  <2> QED BY <2>2, <2>3, <2>4, <2>5, <2>6, <2>7, RestStep
<1> QED BY <1>2, <1>3

\* CancelDone keeps the invariant.
LEMMA SaleCancelDone ==
    ASSUME SaleInv, TypeOK', PassInv', DeliveredApart', NEW p \in Procs, CancelDone(p)
    PROVE  SaleInv'
<1>0. Sound(task[p]) /\ task[p].pc = "cancelDone" /\ booking = "CANCEL_PENDING"
  BY DEF SaleInv, CancelDone, At, Sound, Stands, CancelPc
<1>1. Become(p, Idle) /\ booking' = "CANCELED" /\ UNCHANGED <<mapping, holds, payment, stripe, slot, events>>
  BY DEF CancelDone, external
<1>2. \A q \in Procs : task'[q] = IF q = p THEN Idle ELSE task[q]
  BY <1>1 DEF SaleInv, TypeOK, Become
<1>3. \A q \in Procs : Sound(task[q])'
  <2>1. TAKE q \in Procs
  <2>2. CASE q = p
    BY <1>2, <2>2, IdleSound
  <2>3. CASE q # p
    <3>1. task'[q] = task[q] /\ Sound(task[q]) /\ ~Works(task[q])
      BY <1>0, <1>2, <2>3, NobodyWorks DEF SaleInv
    <3>2. task[q].pc \notin Canceling
      BY <1>0, <2>3 DEF SaleInv, OneCancel, Canceling, CancelPc
    <3> QED BY <1>1, <3>1, <3>2 DEF Canceling, Sound, Placed, Stands, Shares, Alone, Works, Resting,
               Owns, Free, Undecided, Untouched, Proceeding, CheckoutPc, WebhookPc, CancelPc,
               FailPc, Await, Unpaid, Only, Reserved, Funded, CardShare, HoldShare, ActiveHolds,
               CapturedHolds, Moves, Idle, Task, Event
  <2> QED BY <2>2, <2>3
<1>4. Open' /\ Awaited' /\ IntentMade' /\ SoldFor'
  BY <1>0, <1>1 DEF SaleInv, TypeOK, Open, Awaited, IntentMade, SoldFor, Sold, CardPaid, Await,
     Unpaid, CapturedHolds, HoldShare
<1>5. OwnHolds' /\ OneCancel'
  BY <1>1, OwnHoldsKept, CancelKept DEF TakesOwn, Owns, Works, Resting, CancelsAlone, Canceling,
     CancelPc, Idle
<1> QED BY <1>3, <1>4, <1>5 DEF SaleInv

\* OpenBooking keeps the invariant.
LEMMA SaleOpened ==
    ASSUME SaleInv, TypeOK', PassInv', DeliveredApart', NEW p \in Procs, OpenBooking(p)
    PROVE  SaleInv'
<1>1. UNCHANGED <<task, mapping, holds, payment, stripe, slot, events>>
  BY DEF OpenBooking, rows, external
<1>2. \A q \in Procs : Sound(task[q])'
  <2>1. TAKE q \in Procs
  <2>2. task'[q] = task[q] /\ Sound(task[q])
    BY <1>1 DEF SaleInv
  <2> QED BY <1>1, <2>2 DEF OpenBooking, CanAuthenticate, SaleInv, Sound, Placed, Stands, Shares,
             Alone, Works, Resting, Owns, Free, Undecided, Untouched, Proceeding, CheckoutPc,
             WebhookPc, CancelPc, FailPc, Await, Unpaid, Only, Reserved, Funded, CardShare,
             HoldShare, ActiveHolds, CapturedHolds, Moves, Idle, Task, Event
<1>3. Open' /\ Awaited' /\ IntentMade' /\ SoldFor'
  BY <1>1, CheckoutAssumption DEF OpenBooking, CanAuthenticate, Emitted, SaleInv, TypeOK, Open,
     Awaited, IntentMade, SoldFor, Sold, CardPaid, Await, Unpaid, CapturedHolds, ActiveHolds,
     HoldShare, Only, Event
<1>4. OwnHolds' /\ OneCancel'
  BY <1>1 DEF SaleInv, OwnHolds, OneCancel, Owns, Works
<1> QED BY <1>2, <1>3, <1>4 DEF SaleInv

\* SlotTaken keeps the invariant.
LEMMA SaleSlotTaken ==
    ASSUME SaleInv, TypeOK', PassInv', DeliveredApart', SlotTaken
    PROVE  SaleInv'
<1>1. UNCHANGED <<task, booking, mapping, holds, payment, stripe, events>>
  BY DEF SlotTaken, rows, external
<1>2. \A q \in Procs : Sound(task[q])'
  <2>1. TAKE q \in Procs
  <2>2. task'[q] = task[q] /\ Sound(task[q])
    BY <1>1 DEF SaleInv
  <2> QED BY <1>1, <2>2 DEF SlotTaken, CanAuthenticate, SaleInv, Sound, Placed, Stands, Shares, Alone,
             Works, Resting, Owns, Free, Undecided, Untouched, Proceeding, CheckoutPc, WebhookPc,
             CancelPc, FailPc, Await, Unpaid, Only, Reserved, Funded, CardShare, HoldShare,
             ActiveHolds, CapturedHolds, Moves, Idle, Task, Event
<1>3. Open' /\ Awaited' /\ IntentMade' /\ SoldFor'
  BY <1>1, CheckoutAssumption DEF SlotTaken, CanAuthenticate, Emitted, SaleInv, TypeOK, Open, Awaited,
     IntentMade, SoldFor, Sold, CardPaid, Await, Unpaid, CapturedHolds, ActiveHolds, HoldShare,
     Only, Event
<1>4. OwnHolds' /\ OneCancel'
  BY <1>1 DEF SaleInv, OwnHolds, OneCancel, Owns, Works
<1> QED BY <1>2, <1>3, <1>4 DEF SaleInv

\* Authenticate keeps the invariant.
LEMMA SaleAuthenticate ==
    ASSUME SaleInv, TypeOK', PassInv', DeliveredApart', Authenticate
    PROVE  SaleInv'
<1>1. UNCHANGED <<task, booking, mapping, holds, payment, slot>>
  BY DEF Authenticate, rows, external
<1>2. \A q \in Procs : Sound(task[q])'
  <2>1. TAKE q \in Procs
  <2>2. task'[q] = task[q] /\ Sound(task[q])
    BY <1>1 DEF SaleInv
  <2> QED BY <1>1, <2>2 DEF Authenticate, CanAuthenticate, SaleInv, Sound, Placed, Stands, Shares,
             Alone, Works, Resting, Owns, Free, Undecided, Untouched, Proceeding, CheckoutPc,
             WebhookPc, CancelPc, FailPc, Await, Unpaid, Only, Reserved, Funded, CardShare,
             HoldShare, ActiveHolds, CapturedHolds, Moves, Idle, Task, Event
<1>3. Open' /\ Awaited' /\ IntentMade' /\ SoldFor'
  BY <1>1, CheckoutAssumption DEF Authenticate, CanAuthenticate, Emitted, SaleInv, TypeOK, Open,
     Awaited, IntentMade, SoldFor, Sold, CardPaid, Await, Unpaid, CapturedHolds, ActiveHolds,
     HoldShare, Only, Event
<1>4. OwnHolds' /\ OneCancel'
  BY <1>1 DEF SaleInv, OwnHolds, OneCancel, Owns, Works
<1> QED BY <1>2, <1>3, <1>4 DEF SaleInv

\* FailAuthentication keeps the invariant.
LEMMA SaleFailAuthentication ==
    ASSUME SaleInv, TypeOK', PassInv', DeliveredApart', FailAuthentication
    PROVE  SaleInv'
<1>1. UNCHANGED <<task, booking, mapping, holds, payment, slot>>
  BY DEF FailAuthentication, rows, external
<1>2. \A q \in Procs : Sound(task[q])'
  <2>1. TAKE q \in Procs
  <2>2. task'[q] = task[q] /\ Sound(task[q])
    BY <1>1 DEF SaleInv
  <2> QED BY <1>1, <2>2 DEF FailAuthentication, CanAuthenticate, SaleInv, Sound, Placed, Stands,
             Shares, Alone, Works, Resting, Owns, Free, Undecided, Untouched, Proceeding,
             CheckoutPc, WebhookPc, CancelPc, FailPc, Await, Unpaid, Only, Reserved, Funded,
             CardShare, HoldShare, ActiveHolds, CapturedHolds, Moves, Idle, Task, Event
<1>3. Open' /\ Awaited' /\ IntentMade' /\ SoldFor'
  BY <1>1, CheckoutAssumption DEF FailAuthentication, CanAuthenticate, Emitted, SaleInv, TypeOK, Open,
     Awaited, IntentMade, SoldFor, Sold, CardPaid, Await, Unpaid, CapturedHolds, ActiveHolds,
     HoldShare, Only, Event
<1>4. OwnHolds' /\ OneCancel'
  BY <1>1 DEF SaleInv, OwnHolds, OneCancel, Owns, Works
<1> QED BY <1>2, <1>3, <1>4 DEF SaleInv

\* Crash keeps the invariant.
LEMMA SaleCrash ==
    ASSUME SaleInv, TypeOK', PassInv', DeliveredApart', Crash
    PROVE  SaleInv'
<1>1. \A q \in Procs : task'[q] = Idle
  BY DEF Crash
<1>2. UNCHANGED <<booking, mapping, holds, payment, stripe, slot, events>>
  BY DEF Crash, rows, external
<1>3. \A q \in Procs : Sound(task[q])'
  BY <1>1, IdleSound
<1>4. Open' /\ Awaited' /\ IntentMade' /\ SoldFor'
  BY <1>2 DEF SaleInv, Open, Awaited, IntentMade, SoldFor, CardPaid, Await, Unpaid, CapturedHolds,
     ActiveHolds, HoldShare, Only
<1>5. OwnHolds' /\ OneCancel'
  BY <1>1 DEF OwnHolds, OneCancel, Owns, Works, Resting, Idle, CancelPc
<1> QED BY <1>3, <1>4, <1>5 DEF SaleInv

\* vars keeps the invariant.
LEMMA SaleStutter ==
    ASSUME SaleInv, TypeOK', PassInv', DeliveredApart', UNCHANGED vars
    PROVE  SaleInv'
<1>1. UNCHANGED <<task, booking, mapping, holds, payment, stripe, slot, events>>
  BY DEF vars
<1>2. \A q \in Procs : Sound(task[q])'
  <2>1. TAKE q \in Procs
  <2>2. task'[q] = task[q] /\ Sound(task[q])
    BY <1>1 DEF SaleInv
  <2> QED BY <1>1, <2>2 DEF Sound, Placed, Stands, Shares, Alone, Works, Resting, Owns, Free,
             Undecided, Untouched, Proceeding, CheckoutPc, WebhookPc, CancelPc, FailPc, Await,
             Unpaid, Only, Reserved, Funded, CardShare, HoldShare, ActiveHolds, CapturedHolds,
             Moves, Idle, Task, Event
<1>3. Open' /\ Awaited' /\ IntentMade' /\ SoldFor'
  BY <1>1 DEF SaleInv, Open, Awaited, IntentMade, SoldFor, CardPaid, Await, Unpaid, CapturedHolds,
     ActiveHolds, HoldShare, Only
<1>4. OwnHolds' /\ OneCancel'
  BY <1>1 DEF SaleInv, OwnHolds, OneCancel, Owns, Works
<1> QED BY <1>2, <1>3, <1>4 DEF SaleInv

\* Claim keeps the invariant.
LEMMA SaleClaim ==
    ASSUME SaleInv, TypeOK', PassInv', DeliveredApart', NEW p \in Procs, Claim(p)
    PROVE  SaleInv'
<1>0. Sound(task[p]) /\ task[p] \in Task /\ task[p].pc = "claim"
  BY DEF SaleInv, TypeOK, Claim, At
<1>1. UNCHANGED <<mapping, holds, payment, stripe, slot, events>>
  BY DEF Claim, external
<1>2. CASE booking # "CHECKOUT_PENDING"
  <2>1. Become(p, Idle) /\ booking' = booking
    BY <1>2 DEF Claim
  <2>2. TakesOwn(p, Idle) /\ CancelsAlone(p, Idle)
    BY DEF TakesOwn, Owns, Works, Resting, CancelsAlone, Canceling, CancelPc, Idle
  <2> QED BY <1>1, <2>1, <2>2, IdleSound, StillStep DEF SaleInv, TypeOK, Event
<1>3. CASE booking = "CHECKOUT_PENDING"
  <2>1. booking' = "PAYMENT_PENDING" /\ Goto(p, "credits")
    BY <1>3 DEF Claim
  <2>2. PICK t : Become(p, t) /\ Moves(task[p], t) /\ t.pc = "credits"
    BY <2>1, GoneTo
  <2>3. payment # "REQUIRES_ACTION" /\ Unpaid /\ slot # "ours" /\ stripe.answer # "requires_action" /\ Only(NoHold)
    BY <1>3 DEF SaleInv, Open, Awaited
  <2>4. Sound(t)'
    BY <1>0, <1>1, <2>1, <2>2, <2>3 DEF Sound, Placed, Stands, Shares, Alone, Works, Resting, Owns,
       Free, Undecided, Untouched, Proceeding, CheckoutPc, WebhookPc, CancelPc, FailPc, Await,
       Unpaid, Only, Reserved, Funded, CardShare, HoldShare, ActiveHolds, CapturedHolds, Moves,
       Idle, Task, Event
  <2>5. TakesOwn(p, t) /\ CancelsAlone(p, t)
    BY <1>0, <2>2 DEF TakesOwn, Owns, Works, Resting, CancelsAlone, Canceling, CancelPc, Moves, Sound,
       Shares
  <2>6. Grows
    BY <1>1, <1>3, <2>1 DEF Grows, Await
  <2>7. Open' /\ Awaited' /\ IntentMade' /\ SoldFor'
    BY <1>1, <2>1, <2>3 DEF SaleInv, Open, Awaited, IntentMade, SoldFor, Sold, Await
  <2>8. \A q \in Procs : ~Works(task[q])
    BY <1>3, NobodyWorks
  <2> QED BY <2>2, <2>4, <2>5, <2>6, <2>7, <2>8, RestStep
<1> QED BY <1>2, <1>3

\* ReserveCredits keeps the invariant.
LEMMA SaleReserve ==
    ASSUME SaleInv, TypeOK', PassInv', DeliveredApart', NEW p \in Procs, ReserveCredits(p)
    PROVE  SaleInv'
<1>0. Sound(task[p]) /\ task[p] \in Task /\ task[p].pc = "credits" /\ Works(task[p])
  BY DEF SaleInv, TypeOK, ReserveCredits, At, Works, Resting, CancelPc
<1>1. UNCHANGED <<booking, mapping, payment, stripe, slot, events>>
  BY DEF ReserveCredits, external
<1>2. /\ task[p].op = "checkout" /\ task[p].hold = NoHold /\ task[p].applied = 0 /\ task[p].card = FALSE
      /\ booking = "PAYMENT_PENDING" /\ Unpaid /\ slot # "ours" /\ Only(NoHold)
      /\ payment # "REQUIRES_ACTION" /\ stripe.answer # "requires_action"
  BY <1>0 DEF Sound, Placed, Stands, Shares, Alone, Free, Undecided, Untouched, CheckoutPc, Works,
     Task
<1>3. task[p].method
  BY <1>0 DEF SaleInv, PassInv, Methodical
<1>4. ASSUME NEW a \in Applied \ {0}, NEW h \in Holds, holds[h].status = "absent",
             holds' = [holds EXCEPT ![h] = [status |-> "ACTIVE", amount |-> a]],
             NEW u, u = [task[p] EXCEPT !.hold = h, !.applied = a],
             Become(p, [u EXCEPT !.pc = AfterCredits(u)])
      PROVE  SaleInv'
  <2>1. PICK t : t = [u EXCEPT !.pc = AfterCredits(u)] /\ Become(p, t)
    BY <1>4
  <2>2. /\ t.op = "checkout" /\ t.hold = h /\ t.applied = a /\ t.card = FALSE
        /\ t.pc = IF a = Price THEN "load" ELSE "authorize"
    BY <1>0, <1>2, <1>3, <1>4, <2>1 DEF AfterCredits, Task
  <2>3. \A g \in Holds : holds'[g] = IF g = h THEN [status |-> "ACTIVE", amount |-> a] ELSE holds[g]
    BY <1>4 DEF SaleInv, TypeOK
  <2>4. ActiveHolds' = ActiveHolds \cup {h} /\ CapturedHolds' = CapturedHolds
    BY <1>4, <2>3 DEF ActiveHolds, CapturedHolds
  <2>5. a \in Int /\ h # NoHold
    BY CheckoutAssumption
  <2>6. Reserved(h)' /\ HoldShare(h)' = a /\ CardShare(t)' = 0
    BY <2>2, <2>3, <2>5 DEF Reserved, HoldShare, CardShare
  <2>7. Only(h)' /\ Unpaid'
    BY <1>1, <1>2, <2>4, CheckoutAssumption DEF Only, Unpaid, ActiveHolds
  <2>8. Sound(t)'
    <3>1. Placed(t)'
      BY <2>2 DEF Placed, CheckoutPc, Proceeding, FailPc, CancelPc, Event
    <3>2. Stands(t)'
      BY <1>0, <1>1, <1>2, <2>2, <2>7 DEF Sound, Stands, Works, Undecided, Untouched, Free, FailPc,
         CheckoutPc, Proceeding, CancelPc, Resting, Await
    <3>3. Shares(t)'
      BY <1>1, <1>2, <2>2, <2>5, <2>6 DEF Shares, Works, Resting, CheckoutPc, Funded
    <3>4. Alone(t)'
      BY <2>2, <2>3, <2>7 DEF Alone, Works, Owns
    <3> QED BY <3>1, <3>2, <3>3, <3>4 DEF Sound
  <2>9. TakesOwn(p, t) /\ t.pc \notin CancelPc
    BY <1>4, <2>2 DEF TakesOwn, CancelPc, SaleInv, Sound, Alone
  <2>10. Grows
    BY <1>1, <1>4, <2>3 DEF Grows, Await
  <2>11. Open' /\ Awaited' /\ IntentMade' /\ SoldFor'
    BY <1>1, <1>2 DEF SaleInv, Open, Awaited, IntentMade, SoldFor, Sold, Await
  <2> QED BY <1>0, <2>1, <2>8, <2>9, <2>10, <2>11, WorkStep
<1>5. ASSUME UNCHANGED holds, Goto(p, AfterCredits(task[p])) PROVE SaleInv'
  <2>1. AfterCredits(task[p]) = "authorize"
    BY <1>2, <1>3, CheckoutAssumption DEF AfterCredits
  <2>2. PICK t : Become(p, t) /\ Moves(task[p], t) /\ t.pc = "authorize"
    BY <1>5, <2>1, GoneTo
  <2>3. Sound(t)'
    BY <1>0, <1>1, <1>2, <1>5, <2>2 DEF Sound, Placed, Stands, Shares, Alone, Works, Resting, Owns,
       Free, Undecided, Untouched, Proceeding, CheckoutPc, WebhookPc, CancelPc, FailPc, Await,
       Unpaid, Only, Reserved, Funded, CardShare, HoldShare, ActiveHolds, CapturedHolds, Moves,
       Idle, Task, Event
  <2>4. TakesOwn(p, t) /\ t.pc \notin CancelPc
    BY <1>2, <2>2 DEF TakesOwn, Owns, CancelPc, Moves
  <2> QED BY <1>0, <1>1, <1>5, <2>2, <2>3, <2>4, QuietStep DEF SaleInv, TypeOK, Event
<1> QED BY <1>4, <1>5 DEF ReserveCredits

\* Authorize keeps the invariant.
LEMMA SaleAuthorize ==
    ASSUME SaleInv, TypeOK', PassInv', DeliveredApart', NEW p \in Procs, Authorize(p)
    PROVE  SaleInv'
<1>0. Sound(task[p]) /\ task[p] \in Task /\ task[p].pc = "authorize" /\ Works(task[p])
  BY DEF SaleInv, TypeOK, Authorize, At, Works, Resting, CancelPc
<1>1. UNCHANGED <<booking, mapping, holds, payment, slot>> /\ events'["failed"].left = events["failed"].left
  BY DEF Authorize, rows, Emitted, EmittedFor, SaleInv, TypeOK, Event
<1>2. /\ task[p].op = "checkout" /\ task[p].card = FALSE
      /\ booking = "PAYMENT_PENDING" /\ Unpaid /\ slot # "ours" /\ Only(task[p].hold)
      /\ payment # "REQUIRES_ACTION" /\ stripe.answer # "requires_action"
      /\ Reserved(task[p].hold) /\ task[p].applied = HoldShare(task[p].hold)
  BY <1>0 DEF Sound, Placed, Stands, Shares, Alone, Free, Undecided, Untouched, CheckoutPc, Works,
     Task
<1>3. CASE stripe.status = "none"
  <2>1. PICK a \in Answer \ {"none"} :
          /\ stripe' = [status |-> IntentFor(a), amount |-> Price - task[p].applied, answer |-> a]
          /\ Become(p, IF a = "error" THEN Thrown(p)
                       ELSE [task[p] EXCEPT !.pc = "insertPayment", !.answer = a])
    BY <1>3 DEF Authorize
  <2>2. PICK t : /\ Become(p, t)
                 /\ t.op = "checkout" /\ t.hold = task[p].hold /\ t.applied = task[p].applied /\ t.card = FALSE
                 /\ \/ a = "error" /\ t.pc = "catch"
                    \/ a # "error" /\ t.pc = "insertPayment" /\ t.answer = a
    <3>1. PICK t : /\ t = (IF a = "error" THEN Thrown(p)
                           ELSE [task[p] EXCEPT !.pc = "insertPayment", !.answer = a])
                   /\ Become(p, t)
      BY <2>1
    <3>2. CASE a = "error"
      <4>1. t.op = "checkout" /\ t.hold = task[p].hold /\ t.applied = task[p].applied /\ t.card = FALSE /\ t.pc = "catch"
        BY <1>0, <1>2, <3>1, <3>2 DEF Thrown, Task
      <4> QED BY <3>1, <3>2, <4>1
    <3>3. CASE a # "error"
      <4>1. /\ t.op = "checkout" /\ t.hold = task[p].hold /\ t.applied = task[p].applied /\ t.card = FALSE
            /\ t.pc = "insertPayment" /\ t.answer = a
        BY <1>0, <1>2, <3>1, <3>3 DEF Task
      <4> QED BY <3>1, <3>3, <4>1
    <3> QED BY <3>2, <3>3
  <2>3. /\ stripe'.answer = a /\ stripe'.amount = Price - task[p].applied
        /\ stripe'.status # "succeeded" /\ stripe'.status # "none"
    BY <2>1 DEF IntentFor
  <2>4. stripe.answer = "none" /\ payment = "absent"
    BY <1>3 DEF SaleInv, IntentMade
  <2>5. Sound(t)'
    BY <1>0, <1>1, <1>2, <2>2, <2>3, <2>4 DEF Sound, Placed, Stands, Shares, Alone, Works, Resting,
       Owns, Free, Undecided, Untouched, Proceeding, CheckoutPc, WebhookPc, CancelPc, FailPc, Await,
       Unpaid, Only, Reserved, Funded, CardShare, HoldShare, ActiveHolds, CapturedHolds, Moves,
       Idle, Task, Event
  <2>6. TakesOwn(p, t) /\ t.pc \notin CancelPc
    BY <1>0, <2>2 DEF TakesOwn, Owns, CancelPc
  <2>7. Grows
    BY <1>1, <2>3, <2>4 DEF Grows, Await
  <2>8. Open' /\ Awaited' /\ IntentMade' /\ SoldFor'
    BY <1>1, <1>2, <2>1, <2>3, <2>4 DEF SaleInv, Open, Awaited, IntentMade, SoldFor, Sold, Await
  <2> QED BY <1>0, <2>2, <2>5, <2>6, <2>7, <2>8, WorkStep
<1>4. CASE stripe.status # "none"
  <2>1. PICK t : /\ Become(p, t)
                 /\ t.op = "checkout" /\ t.hold = task[p].hold /\ t.applied = task[p].applied /\ t.card = FALSE
                 /\ \/ t.pc = "catch"
                    \/ /\ stripe.amount = Price - task[p].applied /\ stripe.answer # "error"
                       /\ t.pc = "insertPayment" /\ t.answer = stripe.answer
    <3>1. CASE Throw(p)
      BY <1>0, <1>2, <3>1, Threw DEF Moves
    <3>2. CASE stripe.amount = Price - task[p].applied /\ stripe.answer # "error"
               /\ Become(p, [task[p] EXCEPT !.pc = "insertPayment", !.answer = stripe.answer])
      <4>1. PICK t : /\ t = [task[p] EXCEPT !.pc = "insertPayment", !.answer = stripe.answer]
                     /\ Become(p, t)
        BY <3>2
      <4>2. /\ t.op = "checkout" /\ t.hold = task[p].hold /\ t.applied = task[p].applied /\ t.card = FALSE
            /\ t.pc = "insertPayment" /\ t.answer = stripe.answer
        BY <1>0, <1>2, <4>1 DEF Task
      <4> QED BY <3>2, <4>1, <4>2
    <3> QED BY <1>4, <3>1, <3>2 DEF Authorize
  <2>2. UNCHANGED <<stripe, events>>
    BY <1>4 DEF Authorize
  <2>3. stripe.answer # "none"
    BY <1>4 DEF SaleInv, IntentMade
  <2>4. Sound(t)'
    BY <1>0, <1>1, <1>2, <2>1, <2>2, <2>3 DEF Sound, Placed, Stands, Shares, Alone, Works, Resting,
       Owns, Free, Undecided, Untouched, Proceeding, CheckoutPc, WebhookPc, CancelPc, FailPc, Await,
       Unpaid, Only, Reserved, Funded, CardShare, HoldShare, ActiveHolds, CapturedHolds, Moves,
       Idle, Task, Event
  <2>5. TakesOwn(p, t) /\ t.pc \notin CancelPc
    BY <1>0, <2>1 DEF TakesOwn, Owns, CancelPc
  <2>6. events'["failed"].left <= events["failed"].left
    BY <2>2 DEF SaleInv, TypeOK, Event
  <2> QED BY <1>0, <1>1, <2>1, <2>2, <2>4, <2>5, <2>6, QuietStep
<1> QED BY <1>3, <1>4

\* InsertPayment keeps the invariant.
LEMMA SaleInsert ==
    ASSUME SaleInv, TypeOK', PassInv', DeliveredApart', NEW p \in Procs, InsertPayment(p)
    PROVE  SaleInv'
<1>0. Sound(task[p]) /\ task[p] \in Task /\ task[p].pc = "insertPayment" /\ Works(task[p])
  BY DEF SaleInv, TypeOK, InsertPayment, At, Works, Resting, CancelPc
<1>1. UNCHANGED <<booking, mapping, holds, stripe, slot, events>>
  BY DEF InsertPayment, external
<1>2. /\ task[p].op = "checkout" /\ task[p].card = FALSE
      /\ booking = "PAYMENT_PENDING" /\ Unpaid /\ slot # "ours" /\ Only(task[p].hold)
      /\ payment # "REQUIRES_ACTION"
      /\ Reserved(task[p].hold) /\ task[p].applied = HoldShare(task[p].hold)
      /\ task[p].answer = stripe.answer /\ stripe.answer \notin {"none", "error"}
      /\ stripe.amount = Price - task[p].applied
      /\ stripe.answer = "requires_action" => payment = "absent"
      /\ task[p].applied \in Int
  BY <1>0, CheckoutAssumption DEF Sound, Placed, Stands, Shares, Alone, Free, Undecided, Untouched,
     CheckoutPc, Works, Task
<1>3. CASE payment # "absent"
  <2>1. Throw(p) /\ payment' = payment
    BY <1>3 DEF InsertPayment
  <2>2. PICK t : Become(p, t) /\ Moves(task[p], t) /\ t.pc = "catch"
    BY <1>2, <2>1, Threw
  <2>3. Sound(t)'
    BY <1>0, <1>1, <1>2, <1>3, <2>1, <2>2 DEF Sound, Placed, Stands, Shares, Alone, Works, Resting,
       Owns, Free, Undecided, Untouched, Proceeding, CheckoutPc, WebhookPc, CancelPc, FailPc, Await,
       Unpaid, Only, Reserved, Funded, CardShare, HoldShare, ActiveHolds, CapturedHolds, Moves,
       Idle, Task, Event
  <2>4. TakesOwn(p, t) /\ t.pc \notin CancelPc
    BY <1>0, <2>2 DEF TakesOwn, Owns, CancelPc, Moves
  <2>5. events'["failed"].left <= events["failed"].left
    BY <1>1 DEF SaleInv, TypeOK, Event
  <2> QED BY <1>0, <1>1, <2>1, <2>2, <2>3, <2>4, <2>5, QuietStep
<1>4. CASE payment = "absent"
  <2>1. /\ payment' = toTransactionStatus(stripe.answer)
        /\ Become(p, IF stripe.answer = "requires_action" THEN Idle
                     ELSE IF stripe.answer = "failed" THEN [task[p] EXCEPT !.pc = "declinedRelease"]
                     ELSE [task[p] EXCEPT !.pc = "load", !.card = TRUE])
    BY <1>2, <1>4 DEF InsertPayment
  <2>2. stripe.answer \in {"requires_action", "failed", "requires_capture"}
    BY <1>2 DEF SaleInv, TypeOK, Answer
  <2>3. Grows
    BY <1>1, <1>4 DEF Grows, Await
  <2>4. Open' /\ IntentMade' /\ SoldFor'
    BY <1>1, <1>2, <1>4, <2>1 DEF SaleInv, Open, IntentMade, SoldFor, Sold, Await, toTransactionStatus
  <2>5. CASE stripe.answer = "requires_action"
    <3>1. Become(p, Idle) /\ payment' = "REQUIRES_ACTION"
      BY <2>1, <2>5 DEF toTransactionStatus
    <3>2. PICK h : h = task[p].hold
      OBVIOUS
    <3>3. h \in Holds \cup {NoHold} /\ ActiveHolds = {h} \ {NoHold} /\ stripe.amount + HoldShare(h) = Price
      BY <1>0, <1>2, <2>5, <3>2, CheckoutAssumption DEF Only, Reserved, ActiveHolds, Task, HoldShare
    <3>4. ActiveHolds' = ActiveHolds /\ HoldShare(h)' = HoldShare(h) /\ Unpaid'
      BY <1>1, <1>2, <3>1 DEF ActiveHolds, HoldShare, Unpaid, CapturedHolds
    <3>5. Awaited'
      BY <1>1, <1>2, <2>5, <3>3, <3>4 DEF Awaited
    <3>6. TakesOwn(p, Idle) /\ Idle.pc \notin CancelPc
      BY DEF TakesOwn, Owns, CancelPc, Idle, Works, Resting
    <3> QED BY <1>0, <2>3, <2>4, <3>1, <3>5, <3>6, IdleSound, WorkStep
  <2>6. CASE stripe.answer # "requires_action"
    <3>1. PICK t : /\ Become(p, t)
                   /\ t.op = "checkout" /\ t.hold = task[p].hold /\ t.applied = task[p].applied
                   /\ \/ stripe.answer = "failed" /\ t.pc = "declinedRelease" /\ t.card = FALSE
                      \/ stripe.answer = "requires_capture" /\ t.pc = "load" /\ t.card = TRUE
      <4>1. PICK t : /\ t = (IF stripe.answer = "failed" THEN [task[p] EXCEPT !.pc = "declinedRelease"]
                             ELSE [task[p] EXCEPT !.pc = "load", !.card = TRUE])
                     /\ Become(p, t)
        BY <2>1, <2>6
      <4>2. /\ t.op = "checkout" /\ t.hold = task[p].hold /\ t.applied = task[p].applied
            /\ \/ stripe.answer = "failed" /\ t.pc = "declinedRelease" /\ t.card = FALSE
               \/ stripe.answer = "requires_capture" /\ t.pc = "load" /\ t.card = TRUE
        BY <1>0, <1>2, <2>2, <2>6, <4>1 DEF Task
      <4> QED BY <4>1, <4>2
    <3>2. payment' \in {"FAILED", "AUTHORIZED"}
      BY <2>1, <2>2, <2>6 DEF toTransactionStatus
    <3>3. Sound(t)'
      BY <1>0, <1>1, <1>2, <2>6, <3>1, <3>2, CheckoutAssumption DEF SaleInv, TypeOK, Sound, Placed,
         Stands, Shares, Alone, Works, Resting, Owns, Free, Undecided, Untouched, Proceeding,
         CheckoutPc, WebhookPc, CancelPc, FailPc, Await, Unpaid, Only, Reserved, Funded, CardShare,
         HoldShare, ActiveHolds, CapturedHolds, Moves, Idle, Task, Event
    <3>4. TakesOwn(p, t) /\ t.pc \notin CancelPc
      BY <1>0, <3>1 DEF TakesOwn, Owns, CancelPc
    <3>5. Awaited'
      BY <3>2 DEF Awaited
    <3> QED BY <1>0, <2>3, <2>4, <3>1, <3>3, <3>4, <3>5, WorkStep
  <2> QED BY <2>5, <2>6
<1> QED BY <1>3, <1>4

\* Exception keeps the invariant.
LEMMA SaleException ==
    ASSUME SaleInv, TypeOK', PassInv', DeliveredApart', NEW p \in Procs, FaultPoints \cap Decisive = {}, Exception(p)
    PROVE  SaleInv'
<1>1. Sound(task[p]) /\ task[p] \in Task /\ task[p].pc \notin Decisive
  BY DEF SaleInv, TypeOK, Exception, Fault
<1>2. UNCHANGED <<booking, mapping, holds, payment, stripe, slot, events>>
  BY DEF Exception, rows, external
<1>3. PICK t : t = AfterException(p) /\ Become(p, t)
  BY DEF Exception
<1>4. task[p].pc \notin {"giveUp", "reopen"}
  BY DEF SaleInv, PassInv, Methodical
<1>5. \/ task[p].pc \in {"legacy", "link"} /\ Moves(task[p], t) /\ t.pc = "review"
      \/ task[p].pc = "capture" /\ Moves(task[p], t) /\ t.pc = "captureFailed"
      \/ task[p].pc \in {"cancelLegacy", "cancelMapping"} /\ Moves(task[p], t) /\ t.pc = "cancelUnknown"
      \/ t = Idle
      \/ /\ task[p].op = "checkout" /\ Moves(task[p], t) /\ t.pc = "catch"
         /\ task[p].pc \notin {"claim", "catch", "catchRelease", "legacy", "link", "capture"}
  BY <1>1, <1>3 DEF AfterException, Thrown, Moves, Task
<1>6. Sound(t)'
  <2>1. CASE t = Idle
    BY <2>1, IdleSound
  <2>2. CASE t.pc \in {"review", "captureFailed", "cancelUnknown"} /\ t # Idle
    BY <1>1, <1>2, <1>5, <2>2 DEF Sound, Placed, Stands, Shares, Alone, Works, Resting, Owns, Free,
       Undecided, Untouched, Proceeding, CheckoutPc, WebhookPc, CancelPc, FailPc, Await, Unpaid,
       Only, Reserved, Funded, CardShare, HoldShare, ActiveHolds, CapturedHolds, Moves, Idle, Task,
       Event
  <2>3. CASE t.pc = "catch"
    <3>1. /\ task[p].op = "checkout" /\ Moves(task[p], t)
          /\ task[p].pc \notin {"claim", "catch", "catchRelease", "legacy", "link", "capture", "giveUp", "reopen"}
      BY <1>4, <1>5, <2>3 DEF Idle
    <3>2. task[p].pc \in {"credits", "declinedRelease", "declinedFail", "void", "voided",
                          "collisionFail", "collisionMapping", "reviewMapping"}
      BY <1>1, <3>1 DEF Sound, Placed, Decisive, Task, Pc, Proceeding, CheckoutPc, WebhookPc, CancelPc,
         FailPc, Event
    <3> QED BY <1>1, <1>2, <2>3, <3>1, <3>2 DEF SaleInv, Sound, Placed, Stands, Shares, Alone, Works,
               Resting, Owns, Free, Undecided, Untouched, Proceeding, CheckoutPc, WebhookPc,
               CancelPc, FailPc, Await, Unpaid, Only, Reserved, Funded, CardShare, HoldShare,
               ActiveHolds, CapturedHolds, Moves, Idle, Task, Event
  <2> QED BY <1>5, <2>1, <2>2, <2>3
<1>7. TakesOwn(p, t)
  <2>1. CASE t = Idle
    BY <2>1 DEF TakesOwn, Owns, Works, Resting, Idle
  <2>2. CASE t.pc = "cancelUnknown"
    BY <2>2 DEF TakesOwn, Owns, Works, Resting, CancelPc
  <2>3. CASE t.pc \in {"review", "captureFailed", "catch"} /\ t # Idle
    BY <1>1, <1>5, <2>3 DEF TakesOwn, Owns, Works, Resting, CancelPc, Moves, Sound, Placed, Event
  <2> QED BY <1>5, <2>1, <2>2, <2>3
<1>8. CancelsAlone(p, t)
  BY <1>5 DEF CancelsAlone, Canceling, CancelPc, Idle
<1>9. events'["failed"].left <= events["failed"].left
  BY <1>2 DEF SaleInv, TypeOK, Event
<1> QED BY <1>2, <1>3, <1>6, <1>7, <1>8, <1>9, StillStep

\* LostAcceptance keeps the invariant.
LEMMA SaleLostAcceptance ==
    ASSUME SaleInv, TypeOK', PassInv', DeliveredApart', NEW p \in Procs, LostAcceptance(p)
    PROVE  SaleInv'
<1>0. Sound(task[p]) /\ task[p] \in Task /\ task[p].pc = "legacy" /\ Works(task[p])
  BY DEF SaleInv, TypeOK, LostAcceptance, At, Works, Resting, CancelPc
<1>1. PICK t : Become(p, t) /\ Moves(task[p], t) /\ t.pc = "review"
  BY <1>0, GoneTo, Threw DEF LostAcceptance, At, SaleInv, TypeOK
<1>2. UNCHANGED <<booking, holds, payment, stripe, events>>
  BY <1>0 DEF LostAcceptance, rows, external, SaleInv, TypeOK, Sound, Stands, Undecided
<1>3. Sound(t)'
  BY <1>0, <1>1, <1>2, CheckoutAssumption DEF LostAcceptance, At, rows, external, Sound, Placed,
     Stands, Shares, Alone, Works, Resting, Owns, Free, Undecided, Untouched, Proceeding,
     CheckoutPc, WebhookPc, CancelPc, FailPc, Await, Unpaid, Only, Reserved, Funded, CardShare,
     HoldShare, ActiveHolds, CapturedHolds, Moves, Idle, Task, Event
<1>4. TakesOwn(p, t) /\ t.pc \notin CancelPc
  BY <1>0, <1>1 DEF TakesOwn, Owns, CancelPc, Moves, Idle
<1>5. Grows
  BY <1>0, <1>2 DEF LostAcceptance, Grows, Await, TypeOK, SaleInv, Sound, Stands, Works, Shares
<1>6. Open' /\ Awaited' /\ IntentMade'
  BY <1>0, <1>2 DEF LostAcceptance, SaleInv, TypeOK, Open, Awaited, IntentMade, Sound, Placed, Stands,
     Shares, Alone, Works, Resting, Owns, Free, Undecided, Untouched, Proceeding, CheckoutPc,
     WebhookPc, CancelPc, FailPc, Await, Unpaid, Only, Reserved, Funded, CardShare, HoldShare,
     ActiveHolds, CapturedHolds, Moves, Idle, Task, Event
<1>7. SoldFor'
  BY <1>0, <1>1, <1>2 DEF LostAcceptance, SaleInv, TypeOK, SoldFor, Sold, CardPaid, Sound, Placed,
     Stands, Shares, Alone, Works, Resting, Owns, Free, Undecided, Untouched, Proceeding,
     CheckoutPc, WebhookPc, CancelPc, FailPc, Await, Unpaid, Only, Reserved, Funded, CardShare,
     HoldShare, ActiveHolds, CapturedHolds, Moves, Idle, Task, Event
<1> QED BY <1>0, <1>1, <1>3, <1>4, <1>5, <1>6, <1>7, WorkStep

\* LostCapture keeps the invariant.
LEMMA SaleLostCapture ==
    ASSUME SaleInv, TypeOK', PassInv', DeliveredApart', NEW p \in Procs, LostCapture(p)
    PROVE  SaleInv'
<1>0. Sound(task[p]) /\ task[p] \in Task /\ task[p].pc = "capture" /\ Works(task[p])
  BY DEF SaleInv, TypeOK, LostCapture, At, Works, Resting, CancelPc
<1>1. PICK t : Become(p, t) /\ Moves(task[p], t) /\ t.pc = "captureFailed"
  BY <1>0, GoneTo, Threw DEF LostCapture, At, SaleInv, TypeOK
<1>2. UNCHANGED <<booking, holds, payment, slot, events, stripe.answer, stripe.amount>>
  BY <1>0 DEF LostCapture, rows, external, SaleInv, TypeOK, Sound, Stands, Undecided
<1>3. Sound(t)'
  BY <1>0, <1>1, <1>2, CheckoutAssumption DEF LostCapture, At, rows, external, Sound, Placed, Stands,
     Shares, Alone, Works, Resting, Owns, Free, Undecided, Untouched, Proceeding, CheckoutPc,
     WebhookPc, CancelPc, FailPc, Await, Unpaid, Only, Reserved, Funded, CardShare, HoldShare,
     ActiveHolds, CapturedHolds, Moves, Idle, Task, Event
<1>4. TakesOwn(p, t) /\ t.pc \notin CancelPc
  BY <1>0, <1>1 DEF TakesOwn, Owns, CancelPc, Moves, Idle
<1>5. Grows
  BY <1>0, <1>2 DEF LostCapture, Grows, Await, TypeOK, SaleInv, Sound, Stands, Works, Shares
<1>6. Open' /\ Awaited' /\ IntentMade'
  BY <1>0, <1>2 DEF LostCapture, SaleInv, TypeOK, Open, Awaited, IntentMade, Sound, Placed, Stands,
     Shares, Alone, Works, Resting, Owns, Free, Undecided, Untouched, Proceeding, CheckoutPc,
     WebhookPc, CancelPc, FailPc, Await, Unpaid, Only, Reserved, Funded, CardShare, HoldShare,
     ActiveHolds, CapturedHolds, Moves, Idle, Task, Event
<1>7. SoldFor'
  BY <1>0, <1>1, <1>2 DEF LostCapture, SaleInv, TypeOK, SoldFor, Sold, CardPaid, Sound, Placed,
     Stands, Shares, Alone, Works, Resting, Owns, Free, Undecided, Untouched, Proceeding,
     CheckoutPc, WebhookPc, CancelPc, FailPc, Await, Unpaid, Only, Reserved, Funded, CardShare,
     HoldShare, ActiveHolds, CapturedHolds, Moves, Idle, Task, Event
<1> QED BY <1>0, <1>1, <1>3, <1>4, <1>5, <1>6, <1>7, WorkStep

\* A request that brings its payment method never gives up.
LEMMA NoGivingUp == ASSUME SaleInv, NEW p \in Procs PROVE ~GiveUp(p) /\ ~Reopen(p)
BY DEF SaleInv, PassInv, Methodical, GiveUp, Reopen, At

\* The calls that must not fail do not.
LEMMA Unfailing ==
    ASSUME NEW p \in Procs, FaultPoints \cap Decisive = {}
    PROVE  ~LostAuthorization(p) /\ ~LostHoldCapture(p)
BY DEF LostAuthorization, LostHoldCapture, At, Fault, Decisive


-----------------------------------------------------------------------------
(***************************************************************************)
(* Every step keeps the invariant.                                         *)
(***************************************************************************)
LEMMA SaleProceed ==
    ASSUME SaleInv, TypeOK', PassInv', DeliveredApart', NEW p \in Procs, Proceed(p)
    PROVE  SaleInv'
BY SaleLoad, SaleMapping, SaleAccepts, SaleCollides, SaleLink, SaleVoid, SaleVoided,
   SaleCollisionRelease, SaleCollisionFail, SaleCollisionMapping, SaleReview, SaleReviewMapping,
   SaleCapture, SaleCaptureFailed, SaleCaptureReview, SaleRecordSuccess, SaleCaptureHold,
   SaleConfirm, Zenon DEF Proceed

\* The calls of checkout keep the invariant.
LEMMA SaleCheckoutStep ==
    ASSUME SaleInv, TypeOK', PassInv', DeliveredApart', NEW p \in Procs, CheckoutStep(p)
    PROVE  SaleInv'
BY SaleClaim, SaleReserve, SaleRefuse, NoGivingUp, SaleAuthorize, SaleInsert, SaleDeclinedRelease,
   SaleDeclinedFail, SaleCatch, SaleCatchRelease, Zenon DEF CheckoutStep

\* The calls of the webhook route keep the invariant.
LEMMA SaleWebhookStep ==
    ASSUME SaleInv, TypeOK', PassInv', DeliveredApart', NEW p \in Procs, WebhookStep(p)
    PROVE  SaleInv'
BY SaleReceiveCapturable, SaleFindHold, SaleMarkAuthorized, SaleRepend, SaleReceiveFailed,
   SaleFailPayment, SaleFailFindHold, SaleFailRelease, SaleFailRead, SaleFailBooking, SaleAck, Zenon
   DEF WebhookStep

\* The calls of a cancellation keep the invariant.
LEMMA SaleCancelStep ==
    ASSUME SaleInv, TypeOK', PassInv', DeliveredApart', NEW p \in Procs, CancelStep(p)
    PROVE  SaleInv'
BY SaleCancelClaim, SaleCancelLegacy, SaleCancelMapping, SaleCancelUnknown, SaleCancelDone, Zenon
   DEF CancelStep

\* The faults that do not hit a decisive call keep the invariant.
LEMMA SaleFaulty ==
    ASSUME SaleInv, TypeOK', PassInv', DeliveredApart', FaultPoints \cap Decisive = {},
           NEW p \in Procs, Faulty(p)
    PROVE  SaleInv'
BY SaleException, Unfailing, SaleLostAcceptance, SaleLostCapture, SaleLostCancellation, Zenon DEF
   Faulty

\* Every step keeps the invariant, as long as deliveries do not overlap.
LEMMA SaleSteps ==
    ASSUME CheckoutAssumption, MethodGiven = {TRUE}, FaultPoints \cap Decisive = {}
    PROVE  SaleInv /\ DeliveredApart' /\ [Next]_vars => SaleInv'
<1> SUFFICES ASSUME SaleInv, DeliveredApart', [Next]_vars PROVE SaleInv'
  OBVIOUS
<1>1. TypeOK' /\ PassInv'
  BY TypedStep, PassStep DEF SaleInv
<1>2. ASSUME NEW p \in Procs, Request(p) PROVE SaleInv'
  BY <1>1, <1>2, SaleOpened, SaleStartCheckout, SaleStartCancel DEF Request
<1>3. ASSUME NEW p \in Procs, Deliver(p) PROVE SaleInv'
  BY <1>1, <1>3, SaleDeliver
<1>4. ASSUME NEW p \in Procs, Handle(p) PROVE SaleInv'
  BY <1>1, <1>4, SaleProceed, SaleCheckoutStep, SaleWebhookStep, SaleCancelStep DEF Handle
<1>5. ASSUME NEW p \in Procs, Faulty(p) PROVE SaleInv'
  BY <1>1, <1>5, SaleFaulty
<1>6. CASE Environment
  BY <1>1, <1>6, SaleSlotTaken, SaleAuthenticate, SaleFailAuthentication DEF Environment
<1>7. CASE Crash
  BY <1>1, <1>7, SaleCrash
<1>8. CASE UNCHANGED vars
  BY <1>1, <1>8, SaleStutter
<1> QED BY <1>2, <1>3, <1>4, <1>5, <1>6, <1>7, <1>8 DEF Next

\* The invariant holds at the start.
LEMMA SaleStarts == ASSUME CheckoutAssumption PROVE Init => SaleInv
<1> SUFFICES ASSUME Init PROVE SaleInv
  OBVIOUS
<1>1. TypeOK
  BY TypedInit
<1>2. \A p \in Procs : task[p] = Idle
  BY DEF Init
<1>3. PassInv /\ DeliveredApart
  BY <1>2 DEF Init, PassInv, OnePass, HoldsClaim, Methodical, Idle, DeliveredApart, Event
<1>4. \A p \in Procs : Sound(task[p])
  BY <1>2 DEF Sound, Placed, Stands, Shares, Alone, Works, Resting, Owns, Free, Undecided, Untouched,
     Proceeding, CheckoutPc, WebhookPc, CancelPc, FailPc, Await, Unpaid, Only, Reserved, Funded,
     CardShare, HoldShare, ActiveHolds, CapturedHolds, Moves, Idle, Task, Event
<1>5. ActiveHolds = {} /\ CapturedHolds = {}
  BY DEF Init, ActiveHolds, CapturedHolds
<1>6. Open /\ Awaited /\ SoldFor /\ IntentMade
  BY <1>5 DEF Init, Open, Awaited, SoldFor, IntentMade, Sold, Unpaid, Only, Event
<1>7. OwnHolds /\ OneCancel
  BY <1>2 DEF OwnHolds, OneCancel, Owns, Works, Resting, CancelPc, Idle
<1> QED BY <1>1, <1>3, <1>4, <1>6, <1>7 DEF SaleInv

-----------------------------------------------------------------------------
\* The credits of the holds of a set with at most one member
LEMMA CreditsOfOne ==
    ASSUME SaleInv, NEW h \in Holds \cup {NoHold}
    PROVE  CreditsIn({h} \ {NoHold}) = HoldShare(h)
<1>1. PICK f : f = [g \in Holds |-> holds[g].amount]
  OBVIOUS
<1>2. CASE h = NoHold
  <2>1. {h} \ {NoHold} = {}
    BY <1>2
  <2> QED BY <1>2, <2>1, SumEmpty DEF CreditsIn, HoldShare
<1>3. CASE h # NoHold
  <2>1. {h} \ {NoHold} = {} \cup {h} /\ h \notin {}
    BY <1>3
  <2>2. h \in Holds /\ f[h] = holds[h].amount /\ f[h] \in Int
    BY <1>1, <1>3, CheckoutAssumption DEF SaleInv, TypeOK, HoldRow
  <2>3. SumFunctionOnSet(f, {} \cup {h}) = f[h] + SumFunctionOnSet(f, {})
    BY <2>1, <2>2, SumAdd, FS_EmptySet
  <2>4. SumFunctionOnSet(f, {}) = 0
    BY SumEmpty
  <2>5. CreditsIn({h} \ {NoHold}) = SumFunctionOnSet(f, {} \cup {h})
    BY <1>1, <2>1 DEF CreditsIn
  <2>6. HoldShare(h) = f[h]
    BY <1>3, <2>2 DEF HoldShare
  <2> QED BY <2>2, <2>3, <2>4, <2>5, <2>6
<1> QED BY <1>2, <1>3

\* The invariant gives the property: at most one hold was captured.
LEMMA SalePaid == ASSUME CheckoutAssumption PROVE SaleInv => PaidExactly
<1> SUFFICES ASSUME SaleInv, booking \in Sold PROVE CardPaid + CreditsPaid = Price
  BY DEF PaidExactly
<1>1. PICK h \in Holds \cup {NoHold} : CapturedHolds = {h} \ {NoHold} /\ CardPaid + HoldShare(h) = Price
  BY DEF SaleInv, SoldFor
<1>2. CreditsPaid = HoldShare(h)
  BY <1>1, CreditsOfOne DEF CreditsPaid
<1> QED BY <1>1, <1>2

-----------------------------------------------------------------------------
\* What no step does to the status of the booking and of the payment
Turns == {<<"DRAFT", "CHECKOUT_PENDING">>, <<"CHECKOUT_PENDING", "PAYMENT_PENDING">>,
          <<"PAYMENT_PENDING", "CHECKOUT_PENDING">>, <<"PAYMENT_PENDING", "CONFIRMED">>,
          <<"PAYMENT_PENDING", "FAILED">>, <<"PAYMENT_PENDING", "MANUAL_REVIEW">>,
          <<"MANUAL_REVIEW", "FAILED">>, <<"CONFIRMED", "CANCEL_PENDING">>, <<"CANCEL_PENDING", "CANCELED">>}

\* Each of these changes of status is in the table.
LEMMA Table == \A s, r : <<s, r>> \in Turns => r \in Lifecycle!Statuses /\ Lifecycle!CanTransition(s, r)
BY DEF Turns, Lifecycle!Statuses, Lifecycle!CanTransition, Lifecycle!TRANSITIONS

Steady == /\ booking' = booking \/ <<booking, booking'>> \in Turns
          /\ payment = "SUCCEEDED" => payment' = "SUCCEEDED"

\* No call of proceedAfterAuthorization leaves the table or forgets a capture.
LEMMA SteadyProceed ==
    ASSUME SaleInv, NEW p \in Procs, Proceed(p)
    PROVE  Steady
<1>0. Sound(task[p])
  BY DEF SaleInv
<1>1. CASE UNCHANGED <<booking, payment>>
  BY <1>1 DEF Steady
<1>2. CASE RecordVoided(p) \/ CaptureFailed(p) \/ RecordSuccess(p)
  BY <1>0, <1>2 DEF RecordVoided, CaptureFailed, RecordSuccess, At, Steady, Sound, Stands, Free,
     Unpaid, Untouched, Undecided, Proceeding
<1>3. CASE CollisionFail(p) \/ Review(p) \/ CaptureReview(p) \/ Confirm(p)
  BY <1>0, <1>3 DEF CollisionFail, Review, CaptureReview, Confirm, At, Steady, Turns, Sound, Stands,
     Undecided, Proceeding
<1>4. CASE Load(p) \/ CreateMapping(p) \/ LegacyAccepts(p) \/ LegacyCollides(p) \/ LinkMapping(p)
           \/ VoidAuthorization(p) \/ CollisionRelease(p) \/ CollisionMapping(p) \/ ReviewMapping(p)
           \/ CaptureIntent(p) \/ CaptureHold(p)
  BY <1>1, <1>4 DEF Load, CreateMapping, LegacyAccepts, LegacyCollides, LinkMapping,
     VoidAuthorization, CollisionRelease, CollisionMapping, ReviewMapping, CaptureIntent,
     CaptureHold, rows
<1> QED BY <1>2, <1>3, <1>4 DEF Proceed

\* Nor does a call of checkout.
LEMMA SteadyCheckoutStep ==
    ASSUME SaleInv, NEW p \in Procs, CheckoutStep(p)
    PROVE  Steady
<1>0. Sound(task[p])
  BY DEF SaleInv
<1>1. CASE UNCHANGED <<booking, payment>>
  BY <1>1 DEF Steady
<1>2. CASE Claim(p) \/ DeclinedFail(p) \/ Catch(p)
  BY <1>0, <1>2 DEF Claim, DeclinedFail, Catch, At, Steady, Turns, Sound, Stands, Undecided,
     CheckoutPc
<1>3. CASE InsertPayment(p)
  BY <1>3 DEF InsertPayment, Steady
<1>4. CASE ReserveCredits(p) \/ RefuseCredits(p) \/ Authorize(p) \/ DeclinedRelease(p) \/ CatchRelease(p)
  BY <1>1, <1>4 DEF ReserveCredits, RefuseCredits, Authorize, DeclinedRelease, CatchRelease, rows
<1> QED BY <1>2, <1>3, <1>4, NoGivingUp DEF CheckoutStep

\* Nor does a call of the webhook route.
LEMMA SteadyWebhookStep ==
    ASSUME SaleInv, NEW p \in Procs, WebhookStep(p)
    PROVE  Steady
<1>0. Sound(task[p])
  BY DEF SaleInv
<1>1. CASE UNCHANGED <<booking, payment>>
  BY <1>1 DEF Steady
<1>2. CASE MarkAuthorized(p) \/ FailPayment(p)
  BY <1>0, <1>2 DEF MarkAuthorized, FailPayment, At, Steady, Sound, Stands, Shares, FailPc
<1>3. CASE Repend(p) \/ FailBooking(p)
  BY <1>0, <1>3 DEF Repend, FailBooking, At, Steady, Turns, Sound, Stands, Undecided, Works, Resting,
     CancelPc
<1>4. CASE ReceiveCapturable(p) \/ FindHold(p) \/ ReceiveFailed(p) \/ FailFindHold(p) \/ FailRelease(p)
           \/ FailRead(p) \/ Ack(p)
  BY <1>1, <1>4 DEF ReceiveCapturable, FindHold, ReceiveFailed, FailFindHold, FailRelease, FailRead,
     Ack, rows
<1> QED BY <1>2, <1>3, <1>4 DEF WebhookStep

\* Nor does any other step.
LEMMA SteadyStep ==
    ASSUME FaultPoints \cap Decisive = {}
    PROVE  SaleInv /\ [Next]_vars => Steady
<1> SUFFICES ASSUME SaleInv, [Next]_vars PROVE Steady
  OBVIOUS
<1>1. CASE UNCHANGED <<booking, payment>>
  BY <1>1 DEF Steady
<1>2. ASSUME NEW p \in Procs, Handle(p) PROVE Steady
  <2>1. CASE CancelStep(p)
    <3>1. Sound(task[p])
      BY DEF SaleInv
    <3> QED BY <2>1, <3>1 DEF CancelStep, CancelClaim, CancelLegacy, CancelMapping, CancelUnknown,
               CancelDone, At, Steady, Turns, rows, Sound, Stands, CancelPc
  <2> QED BY <1>2, <2>1, SteadyProceed, SteadyCheckoutStep, SteadyWebhookStep DEF Handle
<1>3. ASSUME NEW p \in Procs, Request(p) \/ Deliver(p) PROVE Steady
  BY <1>3 DEF Request, OpenBooking, StartCheckout, StartCancel, Deliver, rows, Steady, Turns
<1>4. ASSUME NEW p \in Procs, Faulty(p) PROVE Steady
  BY <1>1, <1>4 DEF Faulty, Exception, LostAuthorization, LostAcceptance, LostCapture,
     LostHoldCapture, LostCancellation, rows
<1>5. CASE Environment \/ Crash \/ UNCHANGED vars
  BY <1>1, <1>5 DEF Environment, SlotTaken, Authenticate, FailAuthentication, Crash, rows, vars
<1> QED BY <1>2, <1>3, <1>4, <1>5 DEF Next

(***************************************************************************)
(* A booking that was confirmed has been paid its price.                   *)
(***************************************************************************)
THEOREM SoldPaidExactly ==
    ASSUME MethodGiven = {TRUE}, FaultPoints \cap Decisive = {}
    PROVE  Spec /\ []DeliveredApart => []PaidExactly
<1>1. Init => SaleInv  BY SaleStarts, CheckoutAssumption
<1>2. SaleInv /\ DeliveredApart' /\ [Next]_vars => SaleInv'  BY SaleSteps, CheckoutAssumption
<1>3. SaleInv => PaidExactly  BY SalePaid, CheckoutAssumption
<1> QED BY <1>1, <1>2, <1>3, PTL DEF Spec

(***************************************************************************)
(* A payment that was captured and recorded stays recorded, provided that  *)
(* two deliveries of Stripe are never handled at once.                     *)
(***************************************************************************)
THEOREM CaptureIsRemembered ==
    ASSUME MethodGiven = {TRUE}, FaultPoints \cap Decisive = {}
    PROVE  Spec /\ []DeliveredApart => SuccessIsRemembered
<1>1. Init => SaleInv  BY SaleStarts, CheckoutAssumption
<1>2. SaleInv /\ DeliveredApart' /\ [Next]_vars => SaleInv'  BY SaleSteps, CheckoutAssumption
<1>3. SaleInv /\ [Next]_vars => [payment = "SUCCEEDED" => payment' = "SUCCEEDED"]_vars
  BY SteadyStep DEF Steady
<1> QED BY <1>1, <1>2, <1>3, PTL DEF Spec, SuccessIsRemembered

(***************************************************************************)
(* A booking never goes back to CHECKOUT_PENDING while Doinsport holds its *)
(* slot for it.                                                            *)
(***************************************************************************)
THEOREM ReopenedWithoutSlot ==
    ASSUME MethodGiven = {TRUE}, FaultPoints \cap Decisive = {}
    PROVE  Spec /\ []DeliveredApart => NoSilentReopening
<1>1. Init => SaleInv  BY SaleStarts, CheckoutAssumption
<1>2. SaleInv /\ DeliveredApart' /\ [Next]_vars => SaleInv'  BY SaleSteps, CheckoutAssumption
<1>3. SaleInv' => [booking' = "CHECKOUT_PENDING" => slot' # "ours"]_vars
  BY DEF SaleInv, Open
<1> QED BY <1>1, <1>2, <1>3, PTL DEF Spec, NoSilentReopening

(***************************************************************************)
(* The writes of checkout, of the webhook route and of the cancellations   *)
(* implement the table of booking-state-machine.ts.                        *)
(***************************************************************************)
THEOREM LifecycleImplemented ==
    ASSUME MethodGiven = {TRUE}, FaultPoints \cap Decisive = {}
    PROVE  Spec /\ []DeliveredApart => FollowsLifecycle
<1>1. Init => SaleInv /\ Lifecycle!Init  BY SaleStarts, CheckoutAssumption DEF Init, Lifecycle!Init
<1>2. SaleInv /\ DeliveredApart' /\ [Next]_vars => SaleInv'  BY SaleSteps, CheckoutAssumption
<1>3. SaleInv /\ [Next]_vars => [Lifecycle!Advance]_booking
  BY SteadyStep, Table DEF Steady, Lifecycle!Advance
<1> QED BY <1>1, <1>2, <1>3, PTL DEF Spec, FollowsLifecycle, Lifecycle!Spec
=============================================================================
