------------------------- MODULE CheckoutKeepProofs -------------------------
(***************************************************************************)
(* What a checkout that gives up leaves behind, for any number of          *)
(* handlers, holds, requests and deliveries: NoOrphan and ReviewKeepsFunds.*)
(* Premises, each needed (README, section 5): those of CheckoutProofs, the *)
(* payer tries 3-D Secure once, and no call that undoes a reservation or   *)
(* an authorization fails.                                                 *)
(***************************************************************************)
EXTENDS CheckoutProofs

-----------------------------------------------------------------------------
\* The handlers that still hold a reservation or the authorization
Guards(h) == \E p \in Procs : Owns(task[p]) /\ task[p].hold = h
\* A hold that a catch block is about to release
Dropped(h) == \E p \in Procs : task[p].pc = "catchRelease" /\ task[p].hold = h
Working == \E p \in Procs : Works(task[p])

\* An event that Stripe has emitted and that is not handled yet, or being handled
Reported(e) == events[e].left > 0 \/ \E p \in Procs : task[p].op = e

\* What the first answer of Stripe says of the intent and of the row
Answered ==
    /\ stripe.answer = "none" => attempts = 0 /\ ~Reported("failed") /\ ~Reported("capturable")
    /\ payment = "absent" => attempts = 0
    /\ stripe.answer \in {"failed", "error"} => stripe.status # "requires_capture"
    /\ stripe.answer = "requires_capture" /\ payment = "absent" => stripe.status = "requires_capture"

\* After 3-D Secure was asked for, the one attempt succeeded or failed, not both.
Outcome == Answered /\ (stripe.answer = "requires_action" =>
    /\ attempts = 0 => /\ ~Reported("failed") /\ ~Reported("capturable") /\ stripe.status = "requires_action"
                       /\ payment \in {"absent", "REQUIRES_ACTION"}
    /\ Reported("failed") => /\ stripe.status = "requires_method"
                          /\ payment \in {"REQUIRES_ACTION", "FAILED"}
                          /\ booking \in {"PAYMENT_PENDING", "FAILED"}
    /\ Reported("capturable") => stripe.status \in {"requires_capture", "succeeded", "canceled"}
    /\ payment = "REQUIRES_ACTION" => stripe.status # "canceled")

\* The calls made while the authorization must stand, or once it may be taken
LockedPc == {"load", "mapping", "legacy", "link", "capture", "void", "review"}
TakenPc == {"captureFailed", "captureReview", "reviewMapping"}
ReviewPc == {"review", "captureFailed", "captureReview"}

\* What a handler at work knows about the authorization and the reservation
Keeps(t) ==
    /\ t.pc \in {"findHold", "markAuthorized", "repend"} => stripe.status = "requires_capture"
    /\ t.pc = "insertPayment" /\ stripe.status = "requires_capture" => payment = "absent"
    /\ t.pc \in LockedPc /\ t.card => stripe.status = "requires_capture"
    /\ t.pc \in TakenPc /\ t.card => stripe.status \in {"requires_capture", "succeeded"}
    /\ t.pc \in TakenPc \cup {"review"} /\ ~t.card => stripe.status # "succeeded"
    /\ t.pc \in {"voided", "collisionRelease", "collisionFail"} => stripe.status # "requires_capture"
    /\ t.pc = "catch" /\ booking # "MANUAL_REVIEW" => stripe.status # "requires_capture"
    /\ t.pc \in {"void"} => t.card
    /\ t.pc \in {"captureFailed", "captureReview"} => t.card
    /\ t.pc \in ReviewPc => Reserved(t.hold) /\ Funded(t) /\ CapturedHolds = {}
    /\ t.pc \in ReviewPc => payment # "SUCCEEDED"
    /\ t.pc = "failPayment" => payment # "FAILED"
    /\ t.pc \in FailPc => booking = "PAYMENT_PENDING"
    /\ t.pc = "failFindHold" => \E h \in Holds \cup {NoHold} : ActiveHolds = {h} \ {NoHold}
    /\ t.pc = "failRelease" => Only(t.hold)
    /\ t.pc \in {"failRead", "failBooking", "collisionFail", "collisionMapping"} => Only(NoHold)
    /\ \/ t.pc \in {"declinedFail", "collisionFail", "collisionMapping"}
       \/ t.pc = "catch" /\ booking = "FAILED"
       => (t.hold # NoHold => holds[t.hold].status # "ACTIVE")

\* An ACTIVE hold has somebody who will settle it: the payer, an
\* administrator, a retry of the booking, or a handler.
Kept ==
    \/ booking = "PAYMENT_PENDING" /\ (Await \/ ~Working)
    \/ booking = "MANUAL_REVIEW"
    \/ \A h \in ActiveHolds : Guards(h)

\* So has an authorization.
Locks(t) == t.pc = "insertPayment" \/ (t.card /\ t.pc \in LockedPc \cup TakenPc)
Locked == stripe.status = "requires_capture" =>
    \/ booking = "PAYMENT_PENDING" /\ Await
    \/ booking = "MANUAL_REVIEW"
    \/ \E p \in Procs : Locks(task[p])

\* A payment that was taken is about to be followed by the confirmation.
Records(t) == t.pc \in {"captureHold", "confirm"}
Recorded == payment = "SUCCEEDED" =>
    booking \in Sold \/ \E p \in Procs : Records(task[p])

\* A booking in MANUAL_REVIEW is covered, to the cent.
InReview == booking = "MANUAL_REVIEW" =>
    /\ CapturedHolds = {}
    /\ \E h \in Holds \cup {NoHold} :
         /\ Reserved(h) /\ ~(h # NoHold /\ Dropped(h))
         /\ \A g \in ActiveHolds : g = h \/ Dropped(g)
         /\ CardLocked + CardPaid + HoldShare(h) = Price

\* The second invariant: what is locked or reserved is given back or kept.
KeepInv ==
    /\ \A p \in Procs : Keeps(task[p])
    /\ Outcome /\ Kept /\ Locked /\ Recorded /\ InReview


-----------------------------------------------------------------------------
DroppedBeside(p, h) == \E q \in Procs \ {p} : task[q].pc = "catchRelease" /\ task[q].hold = h
SentBeside(p, e) == \E q \in Procs \ {p} : task[q].op = e

\* What a step of the handler at work changes in what the others see
LEMMA BesideWork ==
    ASSUME SaleInv, NEW p \in Procs, Works(task[p]), NEW t, Become(p, t)
    PROVE  /\ Working /\ (Working' <=> Works(t))
           /\ \A h \in Holds : Guards(h) <=> task[p].hold = h \/ DroppedBeside(p, h)
           /\ \A h \in Holds : Guards(h)' <=> (Owns(t) /\ t.hold = h) \/ DroppedBeside(p, h)
           /\ \A h \in Holds : Dropped(h) <=> DroppedBeside(p, h)
           /\ \A h \in Holds : Dropped(h)' <=> (t.pc = "catchRelease" /\ t.hold = h) \/ DroppedBeside(p, h)
           /\ (\E q \in Procs : Locks(task[q])) <=> Locks(task[p])
           /\ (\E q \in Procs : Locks(task[q]))' <=> Locks(t)
           /\ (\E q \in Procs : Records(task[q])) <=> Records(task[p])
           /\ (\E q \in Procs : Records(task[q]))' <=> Records(t)
           /\ \A e \in Event : Reported(e) <=> events[e].left > 0 \/ task[p].op = e \/ SentBeside(p, e)
           /\ \A e \in Event : Reported(e)' <=> events'[e].left > 0 \/ t.op = e \/ SentBeside(p, e)
<1>1. \A q \in Procs : task'[q] = IF q = p THEN t ELSE task[q]
  BY DEF SaleInv, TypeOK, Become
<1>2. \A q \in Procs \ {p} : ~Works(task[q])
  BY OneWorker
<1>3. \A u : Locks(u) \/ Records(u) => Works(u)
  BY DEF Locks, Records, Works, Resting, LockedPc, TakenPc, CancelPc
<1>4. Working /\ (Working' <=> Works(t))
  BY <1>1, <1>2 DEF Working, Works
<1>5. \A h \in Holds : Guards(h) <=> task[p].hold = h \/ DroppedBeside(p, h)
  BY <1>1, <1>2, CheckoutAssumption DEF Guards, DroppedBeside, Owns
<1>6. \A h \in Holds : Guards(h)' <=> (Owns(t) /\ t.hold = h) \/ DroppedBeside(p, h)
  BY <1>1, <1>2, CheckoutAssumption DEF Guards, DroppedBeside, Owns, Works
<1>7. \A h \in Holds : Dropped(h) <=> DroppedBeside(p, h)
  BY <1>1, <1>2 DEF Dropped, DroppedBeside, Works, Resting
<1>8. \A h \in Holds : Dropped(h)' <=> (t.pc = "catchRelease" /\ t.hold = h) \/ DroppedBeside(p, h)
  BY <1>1, <1>2 DEF Dropped, DroppedBeside
<1>9. /\ (\E q \in Procs : Locks(task[q])) <=> Locks(task[p])
      /\ (\E q \in Procs : Records(task[q])) <=> Records(task[p])
  BY <1>2, <1>3
<1>10. (\E q \in Procs : Locks(task[q]))' <=> Locks(t)
  <2>1. \A q \in Procs : Locks(task[q])' <=> IF q = p THEN Locks(t) ELSE Locks(task[q])
    BY <1>1 DEF Locks
  <2> QED BY <1>2, <1>3, <2>1
<1>11. (\E q \in Procs : Records(task[q]))' <=> Records(t)
  <2>1. \A q \in Procs : Records(task[q])' <=> IF q = p THEN Records(t) ELSE Records(task[q])
    BY <1>1 DEF Records
  <2> QED BY <1>2, <1>3, <2>1
<1>12. \A e \in Event : Reported(e) <=> events[e].left > 0 \/ task[p].op = e \/ SentBeside(p, e)
  BY DEF Reported, SentBeside
<1>13. \A e \in Event : Reported(e)' <=> events'[e].left > 0 \/ t.op = e \/ SentBeside(p, e)
  BY <1>1 DEF Reported, SentBeside
<1> QED BY <1>4, <1>5, <1>6, <1>7, <1>8, <1>9, <1>10, <1>11, <1>12, <1>13

\* A handler that does not work on the money has nothing to keep.
LEMMA RestKeeps == ASSUME NEW t, ~Works(t) PROVE Keeps(t) /\ Keeps(t)'
BY DEF Keeps, Works, Resting, CancelPc, LockedPc, TakenPc, ReviewPc, FailPc

\* A booking in MANUAL_REVIEW stays covered when nobody touches its money.
LEMMA ReviewStays ==
    ASSUME InReview, booking = "MANUAL_REVIEW", UNCHANGED <<holds, stripe>>,
           \A g \in Holds : Dropped(g)' <=> Dropped(g)
    PROVE  InReview'
<1>1. UNCHANGED <<ActiveHolds, CapturedHolds, CardLocked, CardPaid>>
  BY DEF ActiveHolds, CapturedHolds, CardLocked, CardPaid
<1>2. PICK h \in Holds \cup {NoHold} :
        /\ Reserved(h) /\ ~(h # NoHold /\ Dropped(h))
        /\ \A g \in ActiveHolds : g = h \/ Dropped(g)
        /\ CardLocked + CardPaid + HoldShare(h) = Price
  BY DEF InReview
<1>3. UNCHANGED <<Reserved(h), HoldShare(h)>>
  BY DEF Reserved, HoldShare
<1>4. ActiveHolds \subseteq Holds
  BY DEF ActiveHolds
<1> QED BY <1>1, <1>2, <1>3, <1>4 DEF InReview

\* A booking that enters MANUAL_REVIEW is covered.
LEMMA EntersReview ==
    ASSUME SaleInv, KeepInv, NEW p \in Procs, task[p].pc \in {"review", "captureReview"},
           UNCHANGED <<holds, stripe>>, \A g \in Holds : Dropped(g)' <=> DroppedBeside(p, g)
    PROVE  InReview'
<1>0. Sound(task[p]) /\ Keeps(task[p]) /\ task[p] \in Task /\ Works(task[p])
  BY DEF SaleInv, KeepInv, TypeOK, Works, Resting, CancelPc
<1>1. PICK h : h = task[p].hold
  OBVIOUS
<1>2. h \in Holds \cup {NoHold} /\ Reserved(h) /\ CardShare(task[p]) + HoldShare(h) = Price /\ CapturedHolds = {}
  BY <1>0, <1>1 DEF Keeps, ReviewPc, Funded, Task
<1>3. CardLocked + CardPaid = CardShare(task[p])
  <2>1. CASE task[p].card
    BY <1>0, <2>1 DEF Keeps, LockedPc, TakenPc, CardLocked, CardPaid, CardShare, SaleInv, TypeOK
  <2>2. CASE ~task[p].card
    <3>1. task[p].op = "checkout" /\ task[p].pc = "review"
      BY <1>0, <2>2 DEF Sound, Placed, Shares, Keeps, Proceeding
    <3>2. ~Await /\ booking = "PAYMENT_PENDING"
      BY <1>0, <3>1 DEF Sound, Stands, Undecided, Proceeding
    <3>3. \A q \in Procs : Locks(task[q]) => q = p
      BY <1>0, OneWorker DEF Locks, Works, Resting, LockedPc, TakenPc, CancelPc
    <3>4. stripe.status # "requires_capture" /\ stripe.status # "succeeded"
      BY <1>0, <2>2, <3>1, <3>2, <3>3 DEF KeepInv, Locked, Locks, Keeps
    <3> QED BY <2>2, <3>4 DEF CardLocked, CardPaid, CardShare
  <2> QED BY <2>1, <2>2
<1>4. h # NoHold => ~DroppedBeside(p, h)
  BY <1>0, <1>1 DEF DroppedBeside, SaleInv, OwnHolds, Owns
<1>5. \A g \in ActiveHolds : g = h \/ DroppedBeside(p, g)
  <2>1. CASE Await
    <3>1. task[p].op = "capturable" /\ Only(h)
      BY <1>0, <1>1, <2>1 DEF Sound, Placed, Stands, Alone, Proceeding
    <3> QED BY <2>1, <3>1, CheckoutAssumption DEF Only, Await, ActiveHolds
  <2>2. CASE ~Await
    <3>1. booking = "PAYMENT_PENDING" /\ Working
      BY <1>0 DEF Sound, Stands, Undecided, Proceeding, Working
    <3>2. \A g \in ActiveHolds : Guards(g)
      BY <2>2, <3>1 DEF KeepInv, Kept
    <3>3. \A g \in Holds : Guards(g) => g = h \/ DroppedBeside(p, g)
      BY <1>0, <1>1, OneWorker, CheckoutAssumption DEF Guards, DroppedBeside, Owns
    <3> QED BY <3>2, <3>3 DEF ActiveHolds
  <2> QED BY <2>1, <2>2
<1>6. UNCHANGED <<ActiveHolds, CapturedHolds, CardLocked, CardPaid, Reserved(h), HoldShare(h)>>
  BY DEF ActiveHolds, CapturedHolds, CardLocked, CardPaid, Reserved, HoldShare
<1>7. CardLocked + CardPaid + HoldShare(h) = Price
  BY <1>2, <1>3
<1>8. ActiveHolds \subseteq Holds
  BY DEF ActiveHolds
<1> QED BY <1>2, <1>4, <1>5, <1>6, <1>7, <1>8 DEF InReview

\* A step of the handler at work that keeps each part keeps the whole.
LEMMA WorkKeeps ==
    ASSUME SaleInv, NEW p \in Procs, Works(task[p]), NEW t, Become(p, t), Keeps(t)',
           Outcome', Kept', Locked', Recorded', InReview'
    PROVE  KeepInv'
<1>1. \A q \in Procs : task'[q] = IF q = p THEN t ELSE task[q]
  BY DEF SaleInv, TypeOK, Become
<1>2. \A q \in Procs : Keeps(task[q])'
  <2>1. TAKE q \in Procs
  <2>2. CASE q = p
    BY <1>1, <2>2
  <2>3. CASE q # p
    <3>1. ~Works(task[q]) /\ task'[q] = task[q]
      BY <1>1, <2>3, OneWorker
    <3>2. PICK u : u = task[q]
      OBVIOUS
    <3>3. Keeps(u)' /\ task'[q] = u
      BY <3>1, <3>2, RestKeeps
    <3> QED BY <3>3
  <2> QED BY <2>2, <2>3
<1> QED BY <1>2 DEF KeepInv

\* Load keeps the second invariant.
LEMMA KeepLoad ==
    ASSUME SaleInv, SaleInv', KeepInv, MaxAttempts <= 1, NEW p \in Procs, Load(p)
    PROVE  KeepInv'
<1>0. Sound(task[p]) /\ Keeps(task[p]) /\ task[p] \in Task /\ task[p].pc = "load" /\ Works(task[p])
  BY DEF SaleInv, KeepInv, TypeOK, Load, At, Works, Resting, CancelPc
<1>1. PICK t : /\ Become(p, t) /\ Moves(task[p], t)
               /\ t.pc = (IF ~writes THEN Funding(task[p])
                         ELSE IF mapping.sync = "none" THEN "mapping" ELSE "legacy")
  BY <1>0, GoneTo, Threw DEF Load, At, SaleInv, TypeOK, Funding, Sound, Stands
<1>2. UNCHANGED <<booking, holds, payment, stripe, slot, events, attempts>>
  BY <1>0 DEF Load, rows, external, SaleInv, TypeOK, Sound, Stands, Undecided
<1>a. UNCHANGED <<ActiveHolds, CapturedHolds>>
  BY <1>2 DEF ActiveHolds, CapturedHolds
<1>3. Sound(t)'
  BY <1>1 DEF SaleInv, TypeOK, Become
<1>4. /\ Working /\ (Working' <=> Works(t))
      /\ \A g \in Holds : Guards(g) <=> task[p].hold = g \/ DroppedBeside(p, g)
      /\ \A g \in Holds : Guards(g)' <=> (Owns(t) /\ t.hold = g) \/ DroppedBeside(p, g)
      /\ \A g \in Holds : Dropped(g) <=> DroppedBeside(p, g)
      /\ \A g \in Holds : Dropped(g)' <=> (t.pc = "catchRelease" /\ t.hold = g) \/ DroppedBeside(p, g)
      /\ (\E q \in Procs : Locks(task[q])) <=> Locks(task[p])
      /\ (\E q \in Procs : Locks(task[q]))' <=> Locks(t)
      /\ (\E q \in Procs : Records(task[q])) <=> Records(task[p])
      /\ (\E q \in Procs : Records(task[q]))' <=> Records(t)
      /\ \A e \in Event : Reported(e) <=> events[e].left > 0 \/ task[p].op = e \/ SentBeside(p, e)
      /\ \A e \in Event : Reported(e)' <=> events'[e].left > 0 \/ t.op = e \/ SentBeside(p, e)
  BY <1>0, <1>1, BesideWork
<1>5. Outcome /\ Kept /\ Locked /\ Recorded /\ InReview
  BY DEF KeepInv
<1>6. Keeps(t)'
  BY <1>0, <1>1, <1>2, <1>a, <1>3, <1>4, <1>5, CheckoutAssumption DEF Load, At, rows, external,
     Funding, Locked, Locks, Keeps, LockedPc, TakenPc, ReviewPc, Outcome, Answered, Event, Sound,
     Placed, Stands, Shares, Alone, Works, Resting, Owns, Free, Undecided, Untouched, Proceeding,
     CheckoutPc, WebhookPc, CancelPc, FailPc, Await, Unpaid, Only, Reserved, Funded, CardShare,
     HoldShare, Moves, Idle, Task, Event
<1>7. Outcome'
  BY <1>0, <1>1, <1>2, <1>4, <1>5 DEF Load, At, rows, external, Funding, Outcome, Answered, Event,
     Sound, Stands, Shares, Keeps, Placed, Works, Resting, Proceeding, CheckoutPc, WebhookPc,
     CancelPc, FailPc, Await, Moves, Idle
<1>8. Kept'
  BY <1>0, <1>1, <1>2, <1>a, <1>3, <1>4, <1>5, CheckoutAssumption DEF Load, At, rows, external,
     Funding, Kept, Sound, Stands, Shares, Alone, Only, Keeps, Owns, Undecided, ActiveHolds,
     CapturedHolds, Placed, Works, Resting, Proceeding, CheckoutPc, WebhookPc, CancelPc, FailPc,
     Await, Moves, Idle
<1>9. Locked'
  BY <1>0, <1>1, <1>2, <1>4, <1>5 DEF Load, At, rows, external, Funding, Locked, Locks, Outcome,
     Answered, Event, Sound, Stands, Shares, Keeps, LockedPc, TakenPc, Undecided, Placed, Works,
     Resting, Proceeding, CheckoutPc, WebhookPc, CancelPc, FailPc, Await, Moves, Idle
<1>10. Recorded'
  BY <1>0, <1>1, <1>2, <1>4, <1>5 DEF Load, At, rows, external, Funding, Recorded, Records, Sold,
     Sound, Stands, Shares, Undecided, Untouched, Free, Unpaid, Placed, Works, Resting, Proceeding,
     CheckoutPc, WebhookPc, CancelPc, FailPc, Await, Moves, Idle
<1>11. InReview'
  BY <1>0, <1>1, <1>2, <1>a, <1>4, <1>5, CheckoutAssumption DEF Load, At, rows, external, Funding,
     InReview, Outcome, Answered, Event, CardLocked, CardPaid, Reserved, HoldShare, Keeps, LockedPc,
     TakenPc, ReviewPc, Sound, Stands, Shares, Undecided, Funded, CardShare, Placed, Works, Resting,
     Proceeding, CheckoutPc, WebhookPc, CancelPc, FailPc, Await, Moves, Idle
<1> QED BY <1>0, <1>1, <1>6, <1>7, <1>8, <1>9, <1>10, <1>11, WorkKeeps

\* CreateMapping keeps the second invariant.
LEMMA KeepMapping ==
    ASSUME SaleInv, SaleInv', KeepInv, MaxAttempts <= 1, NEW p \in Procs, CreateMapping(p)
    PROVE  KeepInv'
<1>0. Sound(task[p]) /\ Keeps(task[p]) /\ task[p] \in Task /\ task[p].pc = "mapping" /\ Works(task[p])
  BY DEF SaleInv, KeepInv, TypeOK, CreateMapping, At, Works, Resting, CancelPc
<1>1. PICK t : Become(p, t) /\ Moves(task[p], t) /\ t.pc = "legacy"
  BY <1>0, GoneTo, Threw DEF CreateMapping, At, SaleInv, TypeOK, Funding, Sound, Stands
<1>2. UNCHANGED <<booking, holds, payment, stripe, slot, events, attempts>>
  BY <1>0 DEF CreateMapping, rows, external, SaleInv, TypeOK, Sound, Stands, Undecided
<1>a. UNCHANGED <<ActiveHolds, CapturedHolds>>
  BY <1>2 DEF ActiveHolds, CapturedHolds
<1>3. Sound(t)'
  BY <1>1 DEF SaleInv, TypeOK, Become
<1>4. /\ Working /\ (Working' <=> Works(t))
      /\ \A g \in Holds : Guards(g) <=> task[p].hold = g \/ DroppedBeside(p, g)
      /\ \A g \in Holds : Guards(g)' <=> (Owns(t) /\ t.hold = g) \/ DroppedBeside(p, g)
      /\ \A g \in Holds : Dropped(g) <=> DroppedBeside(p, g)
      /\ \A g \in Holds : Dropped(g)' <=> (t.pc = "catchRelease" /\ t.hold = g) \/ DroppedBeside(p, g)
      /\ (\E q \in Procs : Locks(task[q])) <=> Locks(task[p])
      /\ (\E q \in Procs : Locks(task[q]))' <=> Locks(t)
      /\ (\E q \in Procs : Records(task[q])) <=> Records(task[p])
      /\ (\E q \in Procs : Records(task[q]))' <=> Records(t)
      /\ \A e \in Event : Reported(e) <=> events[e].left > 0 \/ task[p].op = e \/ SentBeside(p, e)
      /\ \A e \in Event : Reported(e)' <=> events'[e].left > 0 \/ t.op = e \/ SentBeside(p, e)
  BY <1>0, <1>1, BesideWork
<1>5. Outcome /\ Kept /\ Locked /\ Recorded /\ InReview
  BY DEF KeepInv
<1>6. Keeps(t)'
  BY <1>0, <1>1, <1>2, <1>a, <1>3, <1>4, <1>5, CheckoutAssumption DEF CreateMapping, At, rows,
     external, Locked, Locks, Keeps, LockedPc, TakenPc, ReviewPc, Outcome, Answered, Event, Sound,
     Placed, Stands, Shares, Alone, Works, Resting, Owns, Free, Undecided, Untouched, Proceeding,
     CheckoutPc, WebhookPc, CancelPc, FailPc, Await, Unpaid, Only, Reserved, Funded, CardShare,
     HoldShare, Moves, Idle, Task, Event
<1>7. Outcome'
  BY <1>0, <1>1, <1>2, <1>4, <1>5 DEF CreateMapping, At, rows, external, Outcome, Answered, Event,
     Sound, Stands, Shares, Keeps, Placed, Works, Resting, Proceeding, CheckoutPc, WebhookPc,
     CancelPc, FailPc, Await, Moves, Idle
<1>8. Kept'
  BY <1>0, <1>1, <1>2, <1>a, <1>3, <1>4, <1>5, CheckoutAssumption DEF CreateMapping, At, rows,
     external, Kept, Sound, Stands, Shares, Alone, Only, Keeps, Owns, Undecided, ActiveHolds,
     CapturedHolds, Placed, Works, Resting, Proceeding, CheckoutPc, WebhookPc, CancelPc, FailPc,
     Await, Moves, Idle
<1>9. Locked'
  BY <1>0, <1>1, <1>2, <1>4, <1>5 DEF CreateMapping, At, rows, external, Locked, Locks, Outcome,
     Answered, Event, Sound, Stands, Shares, Keeps, LockedPc, TakenPc, Undecided, Placed, Works,
     Resting, Proceeding, CheckoutPc, WebhookPc, CancelPc, FailPc, Await, Moves, Idle
<1>10. Recorded'
  BY <1>0, <1>1, <1>2, <1>4, <1>5 DEF CreateMapping, At, rows, external, Recorded, Records, Sold,
     Sound, Stands, Shares, Undecided, Untouched, Free, Unpaid, Placed, Works, Resting, Proceeding,
     CheckoutPc, WebhookPc, CancelPc, FailPc, Await, Moves, Idle
<1>11. InReview'
  BY <1>0, <1>1, <1>2, <1>a, <1>4, <1>5, CheckoutAssumption DEF CreateMapping, At, rows, external,
     InReview, Outcome, Answered, Event, CardLocked, CardPaid, Reserved, HoldShare, Keeps, LockedPc,
     TakenPc, ReviewPc, Sound, Stands, Shares, Undecided, Funded, CardShare, Placed, Works, Resting,
     Proceeding, CheckoutPc, WebhookPc, CancelPc, FailPc, Await, Moves, Idle
<1> QED BY <1>0, <1>1, <1>6, <1>7, <1>8, <1>9, <1>10, <1>11, WorkKeeps

\* LegacyAccepts keeps the second invariant.
LEMMA KeepAccepts ==
    ASSUME SaleInv, SaleInv', KeepInv, MaxAttempts <= 1, NEW p \in Procs, LegacyAccepts(p)
    PROVE  KeepInv'
<1>0. Sound(task[p]) /\ Keeps(task[p]) /\ task[p] \in Task /\ task[p].pc = "legacy" /\ Works(task[p])
  BY DEF SaleInv, KeepInv, TypeOK, LegacyAccepts, At, Works, Resting, CancelPc
<1>1. PICK t : Become(p, t) /\ Moves(task[p], t) /\ t.pc = "link"
  BY <1>0, GoneTo, Threw DEF LegacyAccepts, At, SaleInv, TypeOK, Funding, Sound, Stands
<1>2. UNCHANGED <<booking, holds, payment, stripe, events, attempts>>
  BY <1>0 DEF LegacyAccepts, rows, external, SaleInv, TypeOK, Sound, Stands, Undecided
<1>a. UNCHANGED <<ActiveHolds, CapturedHolds>>
  BY <1>2 DEF ActiveHolds, CapturedHolds
<1>3. Sound(t)'
  BY <1>1 DEF SaleInv, TypeOK, Become
<1>4. /\ Working /\ (Working' <=> Works(t))
      /\ \A g \in Holds : Guards(g) <=> task[p].hold = g \/ DroppedBeside(p, g)
      /\ \A g \in Holds : Guards(g)' <=> (Owns(t) /\ t.hold = g) \/ DroppedBeside(p, g)
      /\ \A g \in Holds : Dropped(g) <=> DroppedBeside(p, g)
      /\ \A g \in Holds : Dropped(g)' <=> (t.pc = "catchRelease" /\ t.hold = g) \/ DroppedBeside(p, g)
      /\ (\E q \in Procs : Locks(task[q])) <=> Locks(task[p])
      /\ (\E q \in Procs : Locks(task[q]))' <=> Locks(t)
      /\ (\E q \in Procs : Records(task[q])) <=> Records(task[p])
      /\ (\E q \in Procs : Records(task[q]))' <=> Records(t)
      /\ \A e \in Event : Reported(e) <=> events[e].left > 0 \/ task[p].op = e \/ SentBeside(p, e)
      /\ \A e \in Event : Reported(e)' <=> events'[e].left > 0 \/ t.op = e \/ SentBeside(p, e)
  BY <1>0, <1>1, BesideWork
<1>5. Outcome /\ Kept /\ Locked /\ Recorded /\ InReview
  BY DEF KeepInv
<1>6. Keeps(t)'
  BY <1>0, <1>1, <1>2, <1>a, <1>3, <1>4, <1>5, CheckoutAssumption DEF LegacyAccepts, At, rows,
     external, Locked, Locks, Keeps, LockedPc, TakenPc, ReviewPc, Outcome, Answered, Event, Sound,
     Placed, Stands, Shares, Alone, Works, Resting, Owns, Free, Undecided, Untouched, Proceeding,
     CheckoutPc, WebhookPc, CancelPc, FailPc, Await, Unpaid, Only, Reserved, Funded, CardShare,
     HoldShare, Moves, Idle, Task, Event
<1>7. Outcome'
  BY <1>0, <1>1, <1>2, <1>4, <1>5 DEF LegacyAccepts, At, rows, external, Outcome, Answered, Event,
     Sound, Stands, Shares, Keeps, Placed, Works, Resting, Proceeding, CheckoutPc, WebhookPc,
     CancelPc, FailPc, Await, Moves, Idle
<1>8. Kept'
  BY <1>0, <1>1, <1>2, <1>a, <1>3, <1>4, <1>5, CheckoutAssumption DEF LegacyAccepts, At, rows,
     external, Kept, Sound, Stands, Shares, Alone, Only, Keeps, Owns, Undecided, ActiveHolds,
     CapturedHolds, Placed, Works, Resting, Proceeding, CheckoutPc, WebhookPc, CancelPc, FailPc,
     Await, Moves, Idle
<1>9. Locked'
  BY <1>0, <1>1, <1>2, <1>4, <1>5 DEF LegacyAccepts, At, rows, external, Locked, Locks, Outcome,
     Answered, Event, Sound, Stands, Shares, Keeps, LockedPc, TakenPc, Undecided, Placed, Works,
     Resting, Proceeding, CheckoutPc, WebhookPc, CancelPc, FailPc, Await, Moves, Idle
<1>10. Recorded'
  BY <1>0, <1>1, <1>2, <1>4, <1>5 DEF LegacyAccepts, At, rows, external, Recorded, Records, Sold,
     Sound, Stands, Shares, Undecided, Untouched, Free, Unpaid, Placed, Works, Resting, Proceeding,
     CheckoutPc, WebhookPc, CancelPc, FailPc, Await, Moves, Idle
<1>11. InReview'
  BY <1>0, <1>1, <1>2, <1>a, <1>4, <1>5, CheckoutAssumption DEF LegacyAccepts, At, rows, external,
     InReview, Outcome, Answered, Event, CardLocked, CardPaid, Reserved, HoldShare, Keeps, LockedPc,
     TakenPc, ReviewPc, Sound, Stands, Shares, Undecided, Funded, CardShare, Placed, Works, Resting,
     Proceeding, CheckoutPc, WebhookPc, CancelPc, FailPc, Await, Moves, Idle
<1> QED BY <1>0, <1>1, <1>6, <1>7, <1>8, <1>9, <1>10, <1>11, WorkKeeps

\* LegacyCollides keeps the second invariant.
LEMMA KeepCollides ==
    ASSUME SaleInv, SaleInv', KeepInv, MaxAttempts <= 1, NEW p \in Procs, LegacyCollides(p)
    PROVE  KeepInv'
<1>0. Sound(task[p]) /\ Keeps(task[p]) /\ task[p] \in Task /\ task[p].pc = "legacy" /\ Works(task[p])
  BY DEF SaleInv, KeepInv, TypeOK, LegacyCollides, At, Works, Resting, CancelPc
<1>1. PICK t : Become(p, t) /\ Moves(task[p], t) /\ t.pc = (IF task[p].card THEN "void" ELSE "collisionRelease")
  BY <1>0, GoneTo, Threw DEF LegacyCollides, At, SaleInv, TypeOK, Funding, Sound, Stands
<1>2. UNCHANGED <<booking, holds, payment, stripe, slot, events, attempts>>
  BY <1>0 DEF LegacyCollides, rows, external, SaleInv, TypeOK, Sound, Stands, Undecided
<1>a. UNCHANGED <<ActiveHolds, CapturedHolds>>
  BY <1>2 DEF ActiveHolds, CapturedHolds
<1>3. Sound(t)'
  BY <1>1 DEF SaleInv, TypeOK, Become
<1>4. /\ Working /\ (Working' <=> Works(t))
      /\ \A g \in Holds : Guards(g) <=> task[p].hold = g \/ DroppedBeside(p, g)
      /\ \A g \in Holds : Guards(g)' <=> (Owns(t) /\ t.hold = g) \/ DroppedBeside(p, g)
      /\ \A g \in Holds : Dropped(g) <=> DroppedBeside(p, g)
      /\ \A g \in Holds : Dropped(g)' <=> (t.pc = "catchRelease" /\ t.hold = g) \/ DroppedBeside(p, g)
      /\ (\E q \in Procs : Locks(task[q])) <=> Locks(task[p])
      /\ (\E q \in Procs : Locks(task[q]))' <=> Locks(t)
      /\ (\E q \in Procs : Records(task[q])) <=> Records(task[p])
      /\ (\E q \in Procs : Records(task[q]))' <=> Records(t)
      /\ \A e \in Event : Reported(e) <=> events[e].left > 0 \/ task[p].op = e \/ SentBeside(p, e)
      /\ \A e \in Event : Reported(e)' <=> events'[e].left > 0 \/ t.op = e \/ SentBeside(p, e)
  BY <1>0, <1>1, BesideWork
<1>5. Outcome /\ Kept /\ Locked /\ Recorded /\ InReview
  BY DEF KeepInv
<1>6. Keeps(t)'
  BY <1>0, <1>1, <1>2, <1>a, <1>3, <1>4, <1>5, CheckoutAssumption DEF LegacyCollides, At, rows,
     external, Locked, Locks, Keeps, LockedPc, TakenPc, ReviewPc, Outcome, Answered, Event, Sound,
     Placed, Stands, Shares, Alone, Works, Resting, Owns, Free, Undecided, Untouched, Proceeding,
     CheckoutPc, WebhookPc, CancelPc, FailPc, Await, Unpaid, Only, Reserved, Funded, CardShare,
     HoldShare, Moves, Idle, Task, Event
<1>7. Outcome'
  BY <1>0, <1>1, <1>2, <1>4, <1>5 DEF LegacyCollides, At, rows, external, Outcome, Answered, Event,
     Sound, Stands, Shares, Keeps, Placed, Works, Resting, Proceeding, CheckoutPc, WebhookPc,
     CancelPc, FailPc, Await, Moves, Idle
<1>8. Kept'
  BY <1>0, <1>1, <1>2, <1>a, <1>3, <1>4, <1>5, CheckoutAssumption DEF LegacyCollides, At, rows,
     external, Kept, Sound, Stands, Shares, Alone, Only, Keeps, Owns, Undecided, ActiveHolds,
     CapturedHolds, Placed, Works, Resting, Proceeding, CheckoutPc, WebhookPc, CancelPc, FailPc,
     Await, Moves, Idle
<1>9. Locked'
  BY <1>0, <1>1, <1>2, <1>4, <1>5 DEF LegacyCollides, At, rows, external, Locked, Locks, Outcome,
     Answered, Event, Sound, Stands, Shares, Keeps, LockedPc, TakenPc, Undecided, Placed, Works,
     Resting, Proceeding, CheckoutPc, WebhookPc, CancelPc, FailPc, Await, Moves, Idle
<1>10. Recorded'
  BY <1>0, <1>1, <1>2, <1>4, <1>5 DEF LegacyCollides, At, rows, external, Recorded, Records, Sold,
     Sound, Stands, Shares, Undecided, Untouched, Free, Unpaid, Placed, Works, Resting, Proceeding,
     CheckoutPc, WebhookPc, CancelPc, FailPc, Await, Moves, Idle
<1>11. InReview'
  BY <1>0, <1>1, <1>2, <1>a, <1>4, <1>5, CheckoutAssumption DEF LegacyCollides, At, rows, external,
     InReview, Outcome, Answered, Event, CardLocked, CardPaid, Reserved, HoldShare, Keeps, LockedPc,
     TakenPc, ReviewPc, Sound, Stands, Shares, Undecided, Funded, CardShare, Placed, Works, Resting,
     Proceeding, CheckoutPc, WebhookPc, CancelPc, FailPc, Await, Moves, Idle
<1> QED BY <1>0, <1>1, <1>6, <1>7, <1>8, <1>9, <1>10, <1>11, WorkKeeps

\* LinkMapping keeps the second invariant.
LEMMA KeepLink ==
    ASSUME SaleInv, SaleInv', KeepInv, MaxAttempts <= 1, NEW p \in Procs, LinkMapping(p)
    PROVE  KeepInv'
<1>0. Sound(task[p]) /\ Keeps(task[p]) /\ task[p] \in Task /\ task[p].pc = "link" /\ Works(task[p])
  BY DEF SaleInv, KeepInv, TypeOK, LinkMapping, At, Works, Resting, CancelPc
<1>1. PICK t : Become(p, t) /\ Moves(task[p], t) /\ t.pc = Funding(task[p])
  BY <1>0, GoneTo, Threw DEF LinkMapping, At, SaleInv, TypeOK, Funding, Sound, Stands
<1>2. UNCHANGED <<booking, holds, payment, stripe, slot, events, attempts>>
  BY <1>0 DEF LinkMapping, rows, external, SaleInv, TypeOK, Sound, Stands, Undecided
<1>a. UNCHANGED <<ActiveHolds, CapturedHolds>>
  BY <1>2 DEF ActiveHolds, CapturedHolds
<1>3. Sound(t)'
  BY <1>1 DEF SaleInv, TypeOK, Become
<1>4. /\ Working /\ (Working' <=> Works(t))
      /\ \A g \in Holds : Guards(g) <=> task[p].hold = g \/ DroppedBeside(p, g)
      /\ \A g \in Holds : Guards(g)' <=> (Owns(t) /\ t.hold = g) \/ DroppedBeside(p, g)
      /\ \A g \in Holds : Dropped(g) <=> DroppedBeside(p, g)
      /\ \A g \in Holds : Dropped(g)' <=> (t.pc = "catchRelease" /\ t.hold = g) \/ DroppedBeside(p, g)
      /\ (\E q \in Procs : Locks(task[q])) <=> Locks(task[p])
      /\ (\E q \in Procs : Locks(task[q]))' <=> Locks(t)
      /\ (\E q \in Procs : Records(task[q])) <=> Records(task[p])
      /\ (\E q \in Procs : Records(task[q]))' <=> Records(t)
      /\ \A e \in Event : Reported(e) <=> events[e].left > 0 \/ task[p].op = e \/ SentBeside(p, e)
      /\ \A e \in Event : Reported(e)' <=> events'[e].left > 0 \/ t.op = e \/ SentBeside(p, e)
  BY <1>0, <1>1, BesideWork
<1>5. Outcome /\ Kept /\ Locked /\ Recorded /\ InReview
  BY DEF KeepInv
<1>6. Keeps(t)'
  BY <1>0, <1>1, <1>2, <1>a, <1>3, <1>4, <1>5, CheckoutAssumption DEF LinkMapping, At, rows, external,
     Funding, Locked, Locks, Keeps, LockedPc, TakenPc, ReviewPc, Outcome, Answered, Event, Sound,
     Placed, Stands, Shares, Alone, Works, Resting, Owns, Free, Undecided, Untouched, Proceeding,
     CheckoutPc, WebhookPc, CancelPc, FailPc, Await, Unpaid, Only, Reserved, Funded, CardShare,
     HoldShare, Moves, Idle, Task, Event
<1>7. Outcome'
  BY <1>0, <1>1, <1>2, <1>4, <1>5 DEF LinkMapping, At, rows, external, Funding, Outcome, Answered,
     Event, Sound, Stands, Shares, Keeps, Placed, Works, Resting, Proceeding, CheckoutPc, WebhookPc,
     CancelPc, FailPc, Await, Moves, Idle
<1>8. Kept'
  BY <1>0, <1>1, <1>2, <1>a, <1>3, <1>4, <1>5, CheckoutAssumption DEF LinkMapping, At, rows, external,
     Funding, Kept, Sound, Stands, Shares, Alone, Only, Keeps, Owns, Undecided, ActiveHolds,
     CapturedHolds, Placed, Works, Resting, Proceeding, CheckoutPc, WebhookPc, CancelPc, FailPc,
     Await, Moves, Idle
<1>9. Locked'
  BY <1>0, <1>1, <1>2, <1>4, <1>5 DEF LinkMapping, At, rows, external, Funding, Locked, Locks,
     Outcome, Answered, Event, Sound, Stands, Shares, Keeps, LockedPc, TakenPc, Undecided, Placed,
     Works, Resting, Proceeding, CheckoutPc, WebhookPc, CancelPc, FailPc, Await, Moves, Idle
<1>10. Recorded'
  BY <1>0, <1>1, <1>2, <1>4, <1>5 DEF LinkMapping, At, rows, external, Funding, Recorded, Records,
     Sold, Sound, Stands, Shares, Undecided, Untouched, Free, Unpaid, Placed, Works, Resting,
     Proceeding, CheckoutPc, WebhookPc, CancelPc, FailPc, Await, Moves, Idle
<1>11. InReview'
  BY <1>0, <1>1, <1>2, <1>a, <1>4, <1>5, CheckoutAssumption DEF LinkMapping, At, rows, external,
     Funding, InReview, Outcome, Answered, Event, CardLocked, CardPaid, Reserved, HoldShare, Keeps,
     LockedPc, TakenPc, ReviewPc, Sound, Stands, Shares, Undecided, Funded, CardShare, Placed,
     Works, Resting, Proceeding, CheckoutPc, WebhookPc, CancelPc, FailPc, Await, Moves, Idle
<1> QED BY <1>0, <1>1, <1>6, <1>7, <1>8, <1>9, <1>10, <1>11, WorkKeeps

\* CollisionMapping keeps the second invariant.
LEMMA KeepCollisionMapping ==
    ASSUME SaleInv, SaleInv', KeepInv, MaxAttempts <= 1, NEW p \in Procs, CollisionMapping(p)
    PROVE  KeepInv'
<1>0. Sound(task[p]) /\ Keeps(task[p]) /\ task[p] \in Task /\ task[p].pc = "collisionMapping" /\ Works(task[p])
  BY DEF SaleInv, KeepInv, TypeOK, CollisionMapping, At, Works, Resting, CancelPc
<1>1. PICK t : /\ Become(p, t)
               /\ \/ task[p].op = "checkout" /\ Moves(task[p], t) /\ t.pc = "catch"
                  \/ task[p].op # "checkout" /\ t = Idle
  BY <1>0, GoneTo, Threw DEF CollisionMapping, At, SaleInv, TypeOK, Funding, Sound, Stands
<1>2. UNCHANGED <<booking, holds, payment, stripe, slot, events, attempts>>
  BY <1>0 DEF CollisionMapping, rows, external, SaleInv, TypeOK, Sound, Stands, Undecided
<1>a. UNCHANGED <<ActiveHolds, CapturedHolds>>
  BY <1>2 DEF ActiveHolds, CapturedHolds
<1>3. Sound(t)'
  BY <1>1 DEF SaleInv, TypeOK, Become
<1>4. /\ Working /\ (Working' <=> Works(t))
      /\ \A g \in Holds : Guards(g) <=> task[p].hold = g \/ DroppedBeside(p, g)
      /\ \A g \in Holds : Guards(g)' <=> (Owns(t) /\ t.hold = g) \/ DroppedBeside(p, g)
      /\ \A g \in Holds : Dropped(g) <=> DroppedBeside(p, g)
      /\ \A g \in Holds : Dropped(g)' <=> (t.pc = "catchRelease" /\ t.hold = g) \/ DroppedBeside(p, g)
      /\ (\E q \in Procs : Locks(task[q])) <=> Locks(task[p])
      /\ (\E q \in Procs : Locks(task[q]))' <=> Locks(t)
      /\ (\E q \in Procs : Records(task[q])) <=> Records(task[p])
      /\ (\E q \in Procs : Records(task[q]))' <=> Records(t)
      /\ \A e \in Event : Reported(e) <=> events[e].left > 0 \/ task[p].op = e \/ SentBeside(p, e)
      /\ \A e \in Event : Reported(e)' <=> events'[e].left > 0 \/ t.op = e \/ SentBeside(p, e)
  BY <1>0, <1>1, BesideWork
<1>5. Outcome /\ Kept /\ Locked /\ Recorded /\ InReview
  BY DEF KeepInv
<1>6. Keeps(t)'
  BY <1>0, <1>1, <1>2, <1>a, <1>3, <1>4, <1>5, CheckoutAssumption DEF CollisionMapping, At, rows,
     external, Locked, Locks, Keeps, LockedPc, TakenPc, ReviewPc, Outcome, Answered, Event, Sound,
     Placed, Stands, Shares, Alone, Works, Resting, Owns, Free, Undecided, Untouched, Proceeding,
     CheckoutPc, WebhookPc, CancelPc, FailPc, Await, Unpaid, Only, Reserved, Funded, CardShare,
     HoldShare, Moves, Idle, Task, Event
<1>7. Outcome'
  BY <1>0, <1>1, <1>2, <1>4, <1>5 DEF CollisionMapping, At, rows, external, Outcome, Answered, Event,
     Sound, Stands, Shares, Keeps, Placed, Works, Resting, Proceeding, CheckoutPc, WebhookPc,
     CancelPc, FailPc, Await, Moves, Idle
<1>8. Kept'
  BY <1>0, <1>1, <1>2, <1>a, <1>3, <1>4, <1>5, CheckoutAssumption DEF CollisionMapping, At, rows,
     external, Kept, Sound, Stands, Shares, Alone, Only, Keeps, Owns, Undecided, ActiveHolds,
     CapturedHolds, Placed, Works, Resting, Proceeding, CheckoutPc, WebhookPc, CancelPc, FailPc,
     Await, Moves, Idle
<1>9. Locked'
  BY <1>0, <1>1, <1>2, <1>4, <1>5 DEF CollisionMapping, At, rows, external, Locked, Locks, Outcome,
     Answered, Event, Sound, Stands, Shares, Keeps, LockedPc, TakenPc, Undecided, Placed, Works,
     Resting, Proceeding, CheckoutPc, WebhookPc, CancelPc, FailPc, Await, Moves, Idle
<1>10. Recorded'
  BY <1>0, <1>1, <1>2, <1>4, <1>5 DEF CollisionMapping, At, rows, external, Recorded, Records, Sold,
     Sound, Stands, Shares, Undecided, Untouched, Free, Unpaid, Placed, Works, Resting, Proceeding,
     CheckoutPc, WebhookPc, CancelPc, FailPc, Await, Moves, Idle
<1>11. InReview'
  BY <1>0, <1>1, <1>2, <1>a, <1>4, <1>5, CheckoutAssumption DEF CollisionMapping, At, rows, external,
     InReview, Outcome, Answered, Event, CardLocked, CardPaid, Reserved, HoldShare, Keeps, LockedPc,
     TakenPc, ReviewPc, Sound, Stands, Shares, Undecided, Funded, CardShare, Placed, Works, Resting,
     Proceeding, CheckoutPc, WebhookPc, CancelPc, FailPc, Await, Moves, Idle
<1> QED BY <1>0, <1>1, <1>6, <1>7, <1>8, <1>9, <1>10, <1>11, WorkKeeps

\* ReviewMapping keeps the second invariant.
LEMMA KeepReviewMapping ==
    ASSUME SaleInv, SaleInv', KeepInv, MaxAttempts <= 1, NEW p \in Procs, ReviewMapping(p)
    PROVE  KeepInv'
<1>0. Sound(task[p]) /\ Keeps(task[p]) /\ task[p] \in Task /\ task[p].pc = "reviewMapping" /\ Works(task[p])
  BY DEF SaleInv, KeepInv, TypeOK, ReviewMapping, At, Works, Resting, CancelPc
<1>1. PICK t : /\ Become(p, t)
               /\ \/ task[p].op = "checkout" /\ Moves(task[p], t) /\ t.pc = "catch"
                  \/ task[p].op # "checkout" /\ t = Idle
  BY <1>0, GoneTo, Threw DEF ReviewMapping, At, SaleInv, TypeOK, Funding, Sound, Stands
<1>2. UNCHANGED <<booking, holds, payment, stripe, slot, events, attempts>>
  BY <1>0 DEF ReviewMapping, rows, external, SaleInv, TypeOK, Sound, Stands, Undecided
<1>a. UNCHANGED <<ActiveHolds, CapturedHolds>>
  BY <1>2 DEF ActiveHolds, CapturedHolds
<1>3. Sound(t)'
  BY <1>1 DEF SaleInv, TypeOK, Become
<1>4. /\ Working /\ (Working' <=> Works(t))
      /\ \A g \in Holds : Guards(g) <=> task[p].hold = g \/ DroppedBeside(p, g)
      /\ \A g \in Holds : Guards(g)' <=> (Owns(t) /\ t.hold = g) \/ DroppedBeside(p, g)
      /\ \A g \in Holds : Dropped(g) <=> DroppedBeside(p, g)
      /\ \A g \in Holds : Dropped(g)' <=> (t.pc = "catchRelease" /\ t.hold = g) \/ DroppedBeside(p, g)
      /\ (\E q \in Procs : Locks(task[q])) <=> Locks(task[p])
      /\ (\E q \in Procs : Locks(task[q]))' <=> Locks(t)
      /\ (\E q \in Procs : Records(task[q])) <=> Records(task[p])
      /\ (\E q \in Procs : Records(task[q]))' <=> Records(t)
      /\ \A e \in Event : Reported(e) <=> events[e].left > 0 \/ task[p].op = e \/ SentBeside(p, e)
      /\ \A e \in Event : Reported(e)' <=> events'[e].left > 0 \/ t.op = e \/ SentBeside(p, e)
  BY <1>0, <1>1, BesideWork
<1>5. Outcome /\ Kept /\ Locked /\ Recorded /\ InReview
  BY DEF KeepInv
<1>6. Keeps(t)'
  BY <1>0, <1>1, <1>2, <1>a, <1>3, <1>4, <1>5, CheckoutAssumption DEF ReviewMapping, At, rows,
     external, Locked, Locks, Keeps, LockedPc, TakenPc, ReviewPc, Outcome, Answered, Event, Sound,
     Placed, Stands, Shares, Alone, Works, Resting, Owns, Free, Undecided, Untouched, Proceeding,
     CheckoutPc, WebhookPc, CancelPc, FailPc, Await, Unpaid, Only, Reserved, Funded, CardShare,
     HoldShare, Moves, Idle, Task, Event
<1>7. Outcome'
  BY <1>0, <1>1, <1>2, <1>4, <1>5 DEF ReviewMapping, At, rows, external, Outcome, Answered, Event,
     Sound, Stands, Shares, Keeps, Placed, Works, Resting, Proceeding, CheckoutPc, WebhookPc,
     CancelPc, FailPc, Await, Moves, Idle
<1>8. Kept'
  BY <1>0, <1>1, <1>2, <1>a, <1>3, <1>4, <1>5, CheckoutAssumption DEF ReviewMapping, At, rows,
     external, Kept, Sound, Stands, Shares, Alone, Only, Keeps, Owns, Undecided, ActiveHolds,
     CapturedHolds, Placed, Works, Resting, Proceeding, CheckoutPc, WebhookPc, CancelPc, FailPc,
     Await, Moves, Idle
<1>9. Locked'
  BY <1>0, <1>1, <1>2, <1>4, <1>5 DEF ReviewMapping, At, rows, external, Locked, Locks, Outcome,
     Answered, Event, Sound, Stands, Shares, Keeps, LockedPc, TakenPc, Undecided, Placed, Works,
     Resting, Proceeding, CheckoutPc, WebhookPc, CancelPc, FailPc, Await, Moves, Idle
<1>10. Recorded'
  BY <1>0, <1>1, <1>2, <1>4, <1>5 DEF ReviewMapping, At, rows, external, Recorded, Records, Sold,
     Sound, Stands, Shares, Undecided, Untouched, Free, Unpaid, Placed, Works, Resting, Proceeding,
     CheckoutPc, WebhookPc, CancelPc, FailPc, Await, Moves, Idle
<1>11. InReview'
  <2>1. CASE booking = "MANUAL_REVIEW" /\ t.pc # "catchRelease"
    BY <1>2, <1>4, <1>5, <2>1, ReviewStays
  <2>2. CASE ~(booking = "MANUAL_REVIEW" /\ t.pc # "catchRelease")
    BY <1>0, <1>1, <1>2, <1>a, <1>4, <1>5, <2>2, CheckoutAssumption DEF ReviewMapping, At, rows,
       external, InReview, Outcome, Answered, Event, CardLocked, CardPaid, Reserved, HoldShare,
       Keeps, LockedPc, TakenPc, ReviewPc, Sound, Stands, Shares, Undecided, Funded, CardShare,
       Placed, Works, Resting, Proceeding, CheckoutPc, WebhookPc, CancelPc, FailPc, Await, Moves,
       Idle
  <2> QED BY <2>1, <2>2
<1> QED BY <1>0, <1>1, <1>6, <1>7, <1>8, <1>9, <1>10, <1>11, WorkKeeps

\* RecordVoided keeps the second invariant.
LEMMA KeepVoided ==
    ASSUME SaleInv, SaleInv', KeepInv, MaxAttempts <= 1, NEW p \in Procs, RecordVoided(p)
    PROVE  KeepInv'
<1>0. Sound(task[p]) /\ Keeps(task[p]) /\ task[p] \in Task /\ task[p].pc = "voided" /\ Works(task[p])
  BY DEF SaleInv, KeepInv, TypeOK, RecordVoided, At, Works, Resting, CancelPc
<1>1. PICK t : Become(p, t) /\ Moves(task[p], t) /\ t.pc = "collisionRelease"
  BY <1>0, GoneTo, Threw DEF RecordVoided, At, SaleInv, TypeOK, Funding, Sound, Stands
<1>2. UNCHANGED <<booking, holds, stripe, slot, events, attempts>>
  BY <1>0 DEF RecordVoided, rows, external, SaleInv, TypeOK, Sound, Stands, Undecided
<1>a. UNCHANGED <<ActiveHolds, CapturedHolds>>
  BY <1>2 DEF ActiveHolds, CapturedHolds
<1>3. Sound(t)'
  BY <1>1 DEF SaleInv, TypeOK, Become
<1>4. /\ Working /\ (Working' <=> Works(t))
      /\ \A g \in Holds : Guards(g) <=> task[p].hold = g \/ DroppedBeside(p, g)
      /\ \A g \in Holds : Guards(g)' <=> (Owns(t) /\ t.hold = g) \/ DroppedBeside(p, g)
      /\ \A g \in Holds : Dropped(g) <=> DroppedBeside(p, g)
      /\ \A g \in Holds : Dropped(g)' <=> (t.pc = "catchRelease" /\ t.hold = g) \/ DroppedBeside(p, g)
      /\ (\E q \in Procs : Locks(task[q])) <=> Locks(task[p])
      /\ (\E q \in Procs : Locks(task[q]))' <=> Locks(t)
      /\ (\E q \in Procs : Records(task[q])) <=> Records(task[p])
      /\ (\E q \in Procs : Records(task[q]))' <=> Records(t)
      /\ \A e \in Event : Reported(e) <=> events[e].left > 0 \/ task[p].op = e \/ SentBeside(p, e)
      /\ \A e \in Event : Reported(e)' <=> events'[e].left > 0 \/ t.op = e \/ SentBeside(p, e)
  BY <1>0, <1>1, BesideWork
<1>5. Outcome /\ Kept /\ Locked /\ Recorded /\ InReview
  BY DEF KeepInv
<1>6. Keeps(t)'
  BY <1>0, <1>1, <1>2, <1>a, <1>3, <1>4, <1>5, CheckoutAssumption DEF RecordVoided, At, rows,
     external, Locked, Locks, Keeps, LockedPc, TakenPc, ReviewPc, Outcome, Answered, Event, Sound,
     Placed, Stands, Shares, Alone, Works, Resting, Owns, Free, Undecided, Untouched, Proceeding,
     CheckoutPc, WebhookPc, CancelPc, FailPc, Await, Unpaid, Only, Reserved, Funded, CardShare,
     HoldShare, Moves, Idle, Task, Event
<1>7. Outcome'
  BY <1>0, <1>1, <1>2, <1>4, <1>5 DEF RecordVoided, At, rows, external, Outcome, Answered, Event,
     Sound, Stands, Shares, Keeps, Placed, Works, Resting, Proceeding, CheckoutPc, WebhookPc,
     CancelPc, FailPc, Await, Moves, Idle
<1>8. Kept'
  BY <1>0, <1>1, <1>2, <1>a, <1>3, <1>4, <1>5, CheckoutAssumption DEF RecordVoided, At, rows,
     external, Kept, Sound, Stands, Shares, Alone, Only, Keeps, Owns, Undecided, ActiveHolds,
     CapturedHolds, Placed, Works, Resting, Proceeding, CheckoutPc, WebhookPc, CancelPc, FailPc,
     Await, Moves, Idle
<1>9. Locked'
  BY <1>0, <1>1, <1>2, <1>4, <1>5 DEF RecordVoided, At, rows, external, Locked, Locks, Outcome,
     Answered, Event, Sound, Stands, Shares, Keeps, LockedPc, TakenPc, Undecided, Placed, Works,
     Resting, Proceeding, CheckoutPc, WebhookPc, CancelPc, FailPc, Await, Moves, Idle
<1>10. Recorded'
  BY <1>0, <1>1, <1>2, <1>4, <1>5 DEF RecordVoided, At, rows, external, Recorded, Records, Sold,
     Sound, Stands, Shares, Undecided, Untouched, Free, Unpaid, Placed, Works, Resting, Proceeding,
     CheckoutPc, WebhookPc, CancelPc, FailPc, Await, Moves, Idle
<1>11. InReview'
  BY <1>0, <1>1, <1>2, <1>a, <1>4, <1>5, CheckoutAssumption DEF RecordVoided, At, rows, external,
     InReview, Outcome, Answered, Event, CardLocked, CardPaid, Reserved, HoldShare, Keeps, LockedPc,
     TakenPc, ReviewPc, Sound, Stands, Shares, Undecided, Funded, CardShare, Placed, Works, Resting,
     Proceeding, CheckoutPc, WebhookPc, CancelPc, FailPc, Await, Moves, Idle
<1> QED BY <1>0, <1>1, <1>6, <1>7, <1>8, <1>9, <1>10, <1>11, WorkKeeps

\* CollisionRelease keeps the second invariant.
LEMMA KeepCollisionRelease ==
    ASSUME SaleInv, SaleInv', KeepInv, MaxAttempts <= 1, NEW p \in Procs, CollisionRelease(p)
    PROVE  KeepInv'
<1>0. Sound(task[p]) /\ Keeps(task[p]) /\ task[p] \in Task /\ task[p].pc = "collisionRelease" /\ Works(task[p])
  BY DEF SaleInv, KeepInv, TypeOK, CollisionRelease, At, Works, Resting, CancelPc
<1>1. PICK t : Become(p, t) /\ Moves(task[p], t) /\ t.pc = "collisionFail"
  BY <1>0, GoneTo, Threw DEF CollisionRelease, At, SaleInv, TypeOK, Funding, Sound, Stands
<1>2. UNCHANGED <<booking, payment, stripe, slot, events, attempts>>
  BY <1>0 DEF CollisionRelease, rows, external, SaleInv, TypeOK, Sound, Stands, Undecided
<1>a. PICK h : h = task[p].hold
  OBVIOUS
<1>b. h \in Holds \cup {NoHold} /\ holds' = Released(h)
  BY <1>0, <1>a DEF CollisionRelease, At, Task, Sound, Shares, Reserved
<1>c. /\ \A g \in Holds : /\ holds'[g].amount = holds[g].amount
                          /\ holds'[g].status = IF g = h /\ holds[g].status = "ACTIVE" THEN "RELEASED" ELSE holds[g].status
      /\ ActiveHolds' = ActiveHolds \ {h} /\ CapturedHolds' = CapturedHolds
  BY <1>b, Releases DEF SaleInv
<1>3. Sound(t)'
  BY <1>1 DEF SaleInv, TypeOK, Become
<1>4. /\ Working /\ (Working' <=> Works(t))
      /\ \A g \in Holds : Guards(g) <=> task[p].hold = g \/ DroppedBeside(p, g)
      /\ \A g \in Holds : Guards(g)' <=> (Owns(t) /\ t.hold = g) \/ DroppedBeside(p, g)
      /\ \A g \in Holds : Dropped(g) <=> DroppedBeside(p, g)
      /\ \A g \in Holds : Dropped(g)' <=> (t.pc = "catchRelease" /\ t.hold = g) \/ DroppedBeside(p, g)
      /\ (\E q \in Procs : Locks(task[q])) <=> Locks(task[p])
      /\ (\E q \in Procs : Locks(task[q]))' <=> Locks(t)
      /\ (\E q \in Procs : Records(task[q])) <=> Records(task[p])
      /\ (\E q \in Procs : Records(task[q]))' <=> Records(t)
      /\ \A e \in Event : Reported(e) <=> events[e].left > 0 \/ task[p].op = e \/ SentBeside(p, e)
      /\ \A e \in Event : Reported(e)' <=> events'[e].left > 0 \/ t.op = e \/ SentBeside(p, e)
  BY <1>0, <1>1, BesideWork
<1>5. Outcome /\ Kept /\ Locked /\ Recorded /\ InReview
  BY DEF KeepInv
<1>6. Keeps(t)'
  BY <1>0, <1>1, <1>2, <1>a, <1>b, <1>c, <1>3, <1>4, <1>5, CheckoutAssumption DEF Locked, Locks,
     Keeps, LockedPc, TakenPc, ReviewPc, Outcome, Answered, Event, Sound, Placed, Stands, Shares,
     Alone, Works, Resting, Owns, Free, Undecided, Untouched, Proceeding, CheckoutPc, WebhookPc,
     CancelPc, FailPc, Await, Unpaid, Only, Reserved, Funded, CardShare, HoldShare, Moves, Idle,
     Task, Event
<1>7. Outcome'
  BY <1>0, <1>1, <1>2, <1>4, <1>5 DEF Outcome, Answered, Event, Sound, Stands, Shares, Keeps, Placed,
     Works, Resting, Proceeding, CheckoutPc, WebhookPc, CancelPc, FailPc, Await, Moves, Idle
<1>8. Kept'
  BY <1>0, <1>1, <1>2, <1>a, <1>b, <1>c, <1>3, <1>4, <1>5, CheckoutAssumption DEF Kept, Sound, Stands,
     Shares, Alone, Only, Keeps, Owns, Undecided, ActiveHolds, CapturedHolds, Placed, Works,
     Resting, Proceeding, CheckoutPc, WebhookPc, CancelPc, FailPc, Await, Moves, Idle
<1>9. Locked'
  BY <1>0, <1>1, <1>2, <1>4, <1>5 DEF Locked, Locks, Outcome, Answered, Event, Sound, Stands, Shares,
     Keeps, LockedPc, TakenPc, Undecided, Placed, Works, Resting, Proceeding, CheckoutPc, WebhookPc,
     CancelPc, FailPc, Await, Moves, Idle
<1>10. Recorded'
  BY <1>0, <1>1, <1>2, <1>4, <1>5 DEF Recorded, Records, Sold, Sound, Stands, Shares, Undecided,
     Untouched, Free, Unpaid, Placed, Works, Resting, Proceeding, CheckoutPc, WebhookPc, CancelPc,
     FailPc, Await, Moves, Idle
<1>11. InReview'
  BY <1>0, <1>1, <1>2, <1>a, <1>b, <1>c, <1>4, <1>5, CheckoutAssumption DEF InReview, Outcome,
     Answered, Event, CardLocked, CardPaid, Reserved, HoldShare, Keeps, LockedPc, TakenPc, ReviewPc,
     Sound, Stands, Shares, Undecided, Funded, CardShare, Placed, Works, Resting, Proceeding,
     CheckoutPc, WebhookPc, CancelPc, FailPc, Await, Moves, Idle
<1> QED BY <1>0, <1>1, <1>6, <1>7, <1>8, <1>9, <1>10, <1>11, WorkKeeps

\* CollisionFail keeps the second invariant.
LEMMA KeepCollisionFail ==
    ASSUME SaleInv, SaleInv', KeepInv, MaxAttempts <= 1, NEW p \in Procs, CollisionFail(p)
    PROVE  KeepInv'
<1>0. Sound(task[p]) /\ Keeps(task[p]) /\ task[p] \in Task /\ task[p].pc = "collisionFail" /\ Works(task[p])
  BY DEF SaleInv, KeepInv, TypeOK, CollisionFail, At, Works, Resting, CancelPc
<1>1. PICK t : Become(p, t) /\ Moves(task[p], t) /\ t.pc = "collisionMapping"
  BY <1>0, GoneTo, Threw DEF CollisionFail, At, SaleInv, TypeOK, Funding, Sound, Stands
<1>2. UNCHANGED <<holds, payment, stripe, slot, events, attempts>>
  BY <1>0 DEF CollisionFail, rows, external, SaleInv, TypeOK, Sound, Stands, Undecided
<1>a. UNCHANGED <<ActiveHolds, CapturedHolds>>
  BY <1>2 DEF ActiveHolds, CapturedHolds
<1>3. Sound(t)'
  BY <1>1 DEF SaleInv, TypeOK, Become
<1>4. /\ Working /\ (Working' <=> Works(t))
      /\ \A g \in Holds : Guards(g) <=> task[p].hold = g \/ DroppedBeside(p, g)
      /\ \A g \in Holds : Guards(g)' <=> (Owns(t) /\ t.hold = g) \/ DroppedBeside(p, g)
      /\ \A g \in Holds : Dropped(g) <=> DroppedBeside(p, g)
      /\ \A g \in Holds : Dropped(g)' <=> (t.pc = "catchRelease" /\ t.hold = g) \/ DroppedBeside(p, g)
      /\ (\E q \in Procs : Locks(task[q])) <=> Locks(task[p])
      /\ (\E q \in Procs : Locks(task[q]))' <=> Locks(t)
      /\ (\E q \in Procs : Records(task[q])) <=> Records(task[p])
      /\ (\E q \in Procs : Records(task[q]))' <=> Records(t)
      /\ \A e \in Event : Reported(e) <=> events[e].left > 0 \/ task[p].op = e \/ SentBeside(p, e)
      /\ \A e \in Event : Reported(e)' <=> events'[e].left > 0 \/ t.op = e \/ SentBeside(p, e)
  BY <1>0, <1>1, BesideWork
<1>5. Outcome /\ Kept /\ Locked /\ Recorded /\ InReview
  BY DEF KeepInv
<1>6. Keeps(t)'
  BY <1>0, <1>1, <1>2, <1>a, <1>3, <1>4, <1>5, CheckoutAssumption DEF CollisionFail, At, rows,
     external, Locked, Locks, Keeps, LockedPc, TakenPc, ReviewPc, Outcome, Answered, Event, Sound,
     Placed, Stands, Shares, Alone, Works, Resting, Owns, Free, Undecided, Untouched, Proceeding,
     CheckoutPc, WebhookPc, CancelPc, FailPc, Await, Unpaid, Only, Reserved, Funded, CardShare,
     HoldShare, Moves, Idle, Task, Event
<1>7. Outcome'
  BY <1>0, <1>1, <1>2, <1>4, <1>5 DEF CollisionFail, At, rows, external, Outcome, Answered, Event,
     Sound, Stands, Shares, Keeps, Placed, Works, Resting, Proceeding, CheckoutPc, WebhookPc,
     CancelPc, FailPc, Await, Moves, Idle
<1>8. Kept'
  BY <1>0, <1>1, <1>2, <1>a, <1>3, <1>4, <1>5, CheckoutAssumption DEF CollisionFail, At, rows,
     external, Kept, Sound, Stands, Shares, Alone, Only, Keeps, Owns, Undecided, ActiveHolds,
     CapturedHolds, Placed, Works, Resting, Proceeding, CheckoutPc, WebhookPc, CancelPc, FailPc,
     Await, Moves, Idle
<1>9. Locked'
  BY <1>0, <1>1, <1>2, <1>4, <1>5 DEF CollisionFail, At, rows, external, Locked, Locks, Outcome,
     Answered, Event, Sound, Stands, Shares, Keeps, LockedPc, TakenPc, Undecided, Placed, Works,
     Resting, Proceeding, CheckoutPc, WebhookPc, CancelPc, FailPc, Await, Moves, Idle
<1>10. Recorded'
  BY <1>0, <1>1, <1>2, <1>4, <1>5 DEF CollisionFail, At, rows, external, Recorded, Records, Sold,
     Sound, Stands, Shares, Undecided, Untouched, Free, Unpaid, Placed, Works, Resting, Proceeding,
     CheckoutPc, WebhookPc, CancelPc, FailPc, Await, Moves, Idle
<1>11. InReview'
  BY <1>0, <1>1, <1>2, <1>a, <1>4, <1>5, CheckoutAssumption DEF CollisionFail, At, rows, external,
     InReview, Outcome, Answered, Event, CardLocked, CardPaid, Reserved, HoldShare, Keeps, LockedPc,
     TakenPc, ReviewPc, Sound, Stands, Shares, Undecided, Funded, CardShare, Placed, Works, Resting,
     Proceeding, CheckoutPc, WebhookPc, CancelPc, FailPc, Await, Moves, Idle
<1> QED BY <1>0, <1>1, <1>6, <1>7, <1>8, <1>9, <1>10, <1>11, WorkKeeps

\* Review keeps the second invariant.
LEMMA KeepReview ==
    ASSUME SaleInv, SaleInv', KeepInv, MaxAttempts <= 1, NEW p \in Procs, Review(p)
    PROVE  KeepInv'
<1>0. Sound(task[p]) /\ Keeps(task[p]) /\ task[p] \in Task /\ task[p].pc = "review" /\ Works(task[p])
  BY DEF SaleInv, KeepInv, TypeOK, Review, At, Works, Resting, CancelPc
<1>1. PICK t : Become(p, t) /\ Moves(task[p], t) /\ t.pc = "reviewMapping"
  BY <1>0, GoneTo, Threw DEF Review, At, SaleInv, TypeOK, Funding, Sound, Stands
<1>2. UNCHANGED <<holds, payment, stripe, slot, events, attempts>>
  BY <1>0 DEF Review, rows, external, SaleInv, TypeOK, Sound, Stands, Undecided
<1>a. UNCHANGED <<ActiveHolds, CapturedHolds>>
  BY <1>2 DEF ActiveHolds, CapturedHolds
<1>3. Sound(t)'
  BY <1>1 DEF SaleInv, TypeOK, Become
<1>4. /\ Working /\ (Working' <=> Works(t))
      /\ \A g \in Holds : Guards(g) <=> task[p].hold = g \/ DroppedBeside(p, g)
      /\ \A g \in Holds : Guards(g)' <=> (Owns(t) /\ t.hold = g) \/ DroppedBeside(p, g)
      /\ \A g \in Holds : Dropped(g) <=> DroppedBeside(p, g)
      /\ \A g \in Holds : Dropped(g)' <=> (t.pc = "catchRelease" /\ t.hold = g) \/ DroppedBeside(p, g)
      /\ (\E q \in Procs : Locks(task[q])) <=> Locks(task[p])
      /\ (\E q \in Procs : Locks(task[q]))' <=> Locks(t)
      /\ (\E q \in Procs : Records(task[q])) <=> Records(task[p])
      /\ (\E q \in Procs : Records(task[q]))' <=> Records(t)
      /\ \A e \in Event : Reported(e) <=> events[e].left > 0 \/ task[p].op = e \/ SentBeside(p, e)
      /\ \A e \in Event : Reported(e)' <=> events'[e].left > 0 \/ t.op = e \/ SentBeside(p, e)
  BY <1>0, <1>1, BesideWork
<1>5. Outcome /\ Kept /\ Locked /\ Recorded /\ InReview
  BY DEF KeepInv
<1>6. Keeps(t)'
  BY <1>0, <1>1, <1>2, <1>a, <1>3, <1>4, <1>5, CheckoutAssumption DEF Review, At, rows, external,
     Locked, Locks, Keeps, LockedPc, TakenPc, ReviewPc, Outcome, Answered, Event, Sound, Placed,
     Stands, Shares, Alone, Works, Resting, Owns, Free, Undecided, Untouched, Proceeding,
     CheckoutPc, WebhookPc, CancelPc, FailPc, Await, Unpaid, Only, Reserved, Funded, CardShare,
     HoldShare, Moves, Idle, Task, Event
<1>7. Outcome'
  BY <1>0, <1>1, <1>2, <1>4, <1>5 DEF Review, At, rows, external, Outcome, Answered, Event, Sound,
     Stands, Shares, Keeps, Placed, Works, Resting, Proceeding, CheckoutPc, WebhookPc, CancelPc,
     FailPc, Await, Moves, Idle
<1>8. Kept'
  BY <1>0, <1>1, <1>2, <1>a, <1>3, <1>4, <1>5, CheckoutAssumption DEF Review, At, rows, external,
     Kept, Sound, Stands, Shares, Alone, Only, Keeps, Owns, Undecided, ActiveHolds, CapturedHolds,
     Placed, Works, Resting, Proceeding, CheckoutPc, WebhookPc, CancelPc, FailPc, Await, Moves, Idle
<1>9. Locked'
  BY <1>0, <1>1, <1>2, <1>4, <1>5 DEF Review, At, rows, external, Locked, Locks, Outcome, Answered,
     Event, Sound, Stands, Shares, Keeps, LockedPc, TakenPc, Undecided, Placed, Works, Resting,
     Proceeding, CheckoutPc, WebhookPc, CancelPc, FailPc, Await, Moves, Idle
<1>10. Recorded'
  BY <1>0, <1>1, <1>2, <1>4, <1>5 DEF Review, At, rows, external, Recorded, Records, Sold, Sound,
     Stands, Shares, Undecided, Untouched, Free, Unpaid, Placed, Works, Resting, Proceeding,
     CheckoutPc, WebhookPc, CancelPc, FailPc, Await, Moves, Idle
<1>11. InReview'
  BY <1>0, <1>1, <1>2, <1>4, EntersReview DEF Moves, Idle
<1> QED BY <1>0, <1>1, <1>6, <1>7, <1>8, <1>9, <1>10, <1>11, WorkKeeps

\* CaptureFailed keeps the second invariant.
LEMMA KeepCaptureFailed ==
    ASSUME SaleInv, SaleInv', KeepInv, MaxAttempts <= 1, NEW p \in Procs, CaptureFailed(p)
    PROVE  KeepInv'
<1>0. Sound(task[p]) /\ Keeps(task[p]) /\ task[p] \in Task /\ task[p].pc = "captureFailed" /\ Works(task[p])
  BY DEF SaleInv, KeepInv, TypeOK, CaptureFailed, At, Works, Resting, CancelPc
<1>1. PICK t : Become(p, t) /\ Moves(task[p], t) /\ t.pc = "captureReview"
  BY <1>0, GoneTo, Threw DEF CaptureFailed, At, SaleInv, TypeOK, Funding, Sound, Stands
<1>2. UNCHANGED <<booking, holds, stripe, slot, events, attempts>>
  BY <1>0 DEF CaptureFailed, rows, external, SaleInv, TypeOK, Sound, Stands, Undecided
<1>a. UNCHANGED <<ActiveHolds, CapturedHolds>>
  BY <1>2 DEF ActiveHolds, CapturedHolds
<1>3. Sound(t)'
  BY <1>1 DEF SaleInv, TypeOK, Become
<1>4. /\ Working /\ (Working' <=> Works(t))
      /\ \A g \in Holds : Guards(g) <=> task[p].hold = g \/ DroppedBeside(p, g)
      /\ \A g \in Holds : Guards(g)' <=> (Owns(t) /\ t.hold = g) \/ DroppedBeside(p, g)
      /\ \A g \in Holds : Dropped(g) <=> DroppedBeside(p, g)
      /\ \A g \in Holds : Dropped(g)' <=> (t.pc = "catchRelease" /\ t.hold = g) \/ DroppedBeside(p, g)
      /\ (\E q \in Procs : Locks(task[q])) <=> Locks(task[p])
      /\ (\E q \in Procs : Locks(task[q]))' <=> Locks(t)
      /\ (\E q \in Procs : Records(task[q])) <=> Records(task[p])
      /\ (\E q \in Procs : Records(task[q]))' <=> Records(t)
      /\ \A e \in Event : Reported(e) <=> events[e].left > 0 \/ task[p].op = e \/ SentBeside(p, e)
      /\ \A e \in Event : Reported(e)' <=> events'[e].left > 0 \/ t.op = e \/ SentBeside(p, e)
  BY <1>0, <1>1, BesideWork
<1>5. Outcome /\ Kept /\ Locked /\ Recorded /\ InReview
  BY DEF KeepInv
<1>6. Keeps(t)'
  BY <1>0, <1>1, <1>2, <1>a, <1>3, <1>4, <1>5, CheckoutAssumption DEF CaptureFailed, At, rows,
     external, Locked, Locks, Keeps, LockedPc, TakenPc, ReviewPc, Outcome, Answered, Event, Sound,
     Placed, Stands, Shares, Alone, Works, Resting, Owns, Free, Undecided, Untouched, Proceeding,
     CheckoutPc, WebhookPc, CancelPc, FailPc, Await, Unpaid, Only, Reserved, Funded, CardShare,
     HoldShare, Moves, Idle, Task, Event
<1>7. Outcome'
  BY <1>0, <1>1, <1>2, <1>4, <1>5 DEF CaptureFailed, At, rows, external, Outcome, Answered, Event,
     Sound, Stands, Shares, Keeps, Placed, Works, Resting, Proceeding, CheckoutPc, WebhookPc,
     CancelPc, FailPc, Await, Moves, Idle
<1>8. Kept'
  BY <1>0, <1>1, <1>2, <1>a, <1>3, <1>4, <1>5, CheckoutAssumption DEF CaptureFailed, At, rows,
     external, Kept, Sound, Stands, Shares, Alone, Only, Keeps, Owns, Undecided, ActiveHolds,
     CapturedHolds, Placed, Works, Resting, Proceeding, CheckoutPc, WebhookPc, CancelPc, FailPc,
     Await, Moves, Idle
<1>9. Locked'
  BY <1>0, <1>1, <1>2, <1>4, <1>5 DEF CaptureFailed, At, rows, external, Locked, Locks, Outcome,
     Answered, Event, Sound, Stands, Shares, Keeps, LockedPc, TakenPc, Undecided, Placed, Works,
     Resting, Proceeding, CheckoutPc, WebhookPc, CancelPc, FailPc, Await, Moves, Idle
<1>10. Recorded'
  BY <1>0, <1>1, <1>2, <1>4, <1>5 DEF CaptureFailed, At, rows, external, Recorded, Records, Sold,
     Sound, Stands, Shares, Undecided, Untouched, Free, Unpaid, Placed, Works, Resting, Proceeding,
     CheckoutPc, WebhookPc, CancelPc, FailPc, Await, Moves, Idle
<1>11. InReview'
  BY <1>0, <1>1, <1>2, <1>a, <1>4, <1>5, CheckoutAssumption DEF CaptureFailed, At, rows, external,
     InReview, Outcome, Answered, Event, CardLocked, CardPaid, Reserved, HoldShare, Keeps, LockedPc,
     TakenPc, ReviewPc, Sound, Stands, Shares, Undecided, Funded, CardShare, Placed, Works, Resting,
     Proceeding, CheckoutPc, WebhookPc, CancelPc, FailPc, Await, Moves, Idle
<1> QED BY <1>0, <1>1, <1>6, <1>7, <1>8, <1>9, <1>10, <1>11, WorkKeeps

\* CaptureReview keeps the second invariant.
LEMMA KeepCaptureReview ==
    ASSUME SaleInv, SaleInv', KeepInv, MaxAttempts <= 1, NEW p \in Procs, CaptureReview(p)
    PROVE  KeepInv'
<1>0. Sound(task[p]) /\ Keeps(task[p]) /\ task[p] \in Task /\ task[p].pc = "captureReview" /\ Works(task[p])
  BY DEF SaleInv, KeepInv, TypeOK, CaptureReview, At, Works, Resting, CancelPc
<1>1. PICK t : /\ Become(p, t)
               /\ \/ task[p].op = "checkout" /\ Moves(task[p], t) /\ t.pc = "catch"
                  \/ task[p].op # "checkout" /\ t = Idle
  BY <1>0, GoneTo, Threw DEF CaptureReview, At, SaleInv, TypeOK, Funding, Sound, Stands
<1>2. UNCHANGED <<holds, payment, stripe, slot, events, attempts>>
  BY <1>0 DEF CaptureReview, rows, external, SaleInv, TypeOK, Sound, Stands, Undecided
<1>a. UNCHANGED <<ActiveHolds, CapturedHolds>>
  BY <1>2 DEF ActiveHolds, CapturedHolds
<1>3. Sound(t)'
  BY <1>1 DEF SaleInv, TypeOK, Become
<1>4. /\ Working /\ (Working' <=> Works(t))
      /\ \A g \in Holds : Guards(g) <=> task[p].hold = g \/ DroppedBeside(p, g)
      /\ \A g \in Holds : Guards(g)' <=> (Owns(t) /\ t.hold = g) \/ DroppedBeside(p, g)
      /\ \A g \in Holds : Dropped(g) <=> DroppedBeside(p, g)
      /\ \A g \in Holds : Dropped(g)' <=> (t.pc = "catchRelease" /\ t.hold = g) \/ DroppedBeside(p, g)
      /\ (\E q \in Procs : Locks(task[q])) <=> Locks(task[p])
      /\ (\E q \in Procs : Locks(task[q]))' <=> Locks(t)
      /\ (\E q \in Procs : Records(task[q])) <=> Records(task[p])
      /\ (\E q \in Procs : Records(task[q]))' <=> Records(t)
      /\ \A e \in Event : Reported(e) <=> events[e].left > 0 \/ task[p].op = e \/ SentBeside(p, e)
      /\ \A e \in Event : Reported(e)' <=> events'[e].left > 0 \/ t.op = e \/ SentBeside(p, e)
  BY <1>0, <1>1, BesideWork
<1>5. Outcome /\ Kept /\ Locked /\ Recorded /\ InReview
  BY DEF KeepInv
<1>6. Keeps(t)'
  BY <1>0, <1>1, <1>2, <1>a, <1>3, <1>4, <1>5, CheckoutAssumption DEF CaptureReview, At, rows,
     external, Locked, Locks, Keeps, LockedPc, TakenPc, ReviewPc, Outcome, Answered, Event, Sound,
     Placed, Stands, Shares, Alone, Works, Resting, Owns, Free, Undecided, Untouched, Proceeding,
     CheckoutPc, WebhookPc, CancelPc, FailPc, Await, Unpaid, Only, Reserved, Funded, CardShare,
     HoldShare, Moves, Idle, Task, Event
<1>7. Outcome'
  BY <1>0, <1>1, <1>2, <1>4, <1>5 DEF CaptureReview, At, rows, external, Outcome, Answered, Event,
     Sound, Stands, Shares, Keeps, Placed, Works, Resting, Proceeding, CheckoutPc, WebhookPc,
     CancelPc, FailPc, Await, Moves, Idle
<1>8. Kept'
  BY <1>0, <1>1, <1>2, <1>a, <1>3, <1>4, <1>5, CheckoutAssumption DEF CaptureReview, At, rows,
     external, Kept, Sound, Stands, Shares, Alone, Only, Keeps, Owns, Undecided, ActiveHolds,
     CapturedHolds, Placed, Works, Resting, Proceeding, CheckoutPc, WebhookPc, CancelPc, FailPc,
     Await, Moves, Idle
<1>9. Locked'
  BY <1>0, <1>1, <1>2, <1>4, <1>5 DEF CaptureReview, At, rows, external, Locked, Locks, Outcome,
     Answered, Event, Sound, Stands, Shares, Keeps, LockedPc, TakenPc, Undecided, Placed, Works,
     Resting, Proceeding, CheckoutPc, WebhookPc, CancelPc, FailPc, Await, Moves, Idle
<1>10. Recorded'
  BY <1>0, <1>1, <1>2, <1>4, <1>5 DEF CaptureReview, At, rows, external, Recorded, Records, Sold,
     Sound, Stands, Shares, Undecided, Untouched, Free, Unpaid, Placed, Works, Resting, Proceeding,
     CheckoutPc, WebhookPc, CancelPc, FailPc, Await, Moves, Idle
<1>11. InReview'
  BY <1>0, <1>1, <1>2, <1>4, EntersReview DEF Moves, Idle
<1> QED BY <1>0, <1>1, <1>6, <1>7, <1>8, <1>9, <1>10, <1>11, WorkKeeps

\* RecordSuccess keeps the second invariant.
LEMMA KeepRecordSuccess ==
    ASSUME SaleInv, SaleInv', KeepInv, MaxAttempts <= 1, NEW p \in Procs, RecordSuccess(p)
    PROVE  KeepInv'
<1>0. Sound(task[p]) /\ Keeps(task[p]) /\ task[p] \in Task /\ task[p].pc = "recordSuccess" /\ Works(task[p])
  BY DEF SaleInv, KeepInv, TypeOK, RecordSuccess, At, Works, Resting, CancelPc
<1>1. PICK t : Become(p, t) /\ Moves(task[p], t) /\ t.pc = (IF task[p].hold # NoHold THEN "captureHold" ELSE "confirm")
  BY <1>0, GoneTo, Threw DEF RecordSuccess, At, SaleInv, TypeOK, Funding, Sound, Stands
<1>2. UNCHANGED <<booking, holds, stripe, slot, events, attempts>>
  BY <1>0 DEF RecordSuccess, rows, external, SaleInv, TypeOK, Sound, Stands, Undecided
<1>a. UNCHANGED <<ActiveHolds, CapturedHolds>>
  BY <1>2 DEF ActiveHolds, CapturedHolds
<1>3. Sound(t)'
  BY <1>1 DEF SaleInv, TypeOK, Become
<1>4. /\ Working /\ (Working' <=> Works(t))
      /\ \A g \in Holds : Guards(g) <=> task[p].hold = g \/ DroppedBeside(p, g)
      /\ \A g \in Holds : Guards(g)' <=> (Owns(t) /\ t.hold = g) \/ DroppedBeside(p, g)
      /\ \A g \in Holds : Dropped(g) <=> DroppedBeside(p, g)
      /\ \A g \in Holds : Dropped(g)' <=> (t.pc = "catchRelease" /\ t.hold = g) \/ DroppedBeside(p, g)
      /\ (\E q \in Procs : Locks(task[q])) <=> Locks(task[p])
      /\ (\E q \in Procs : Locks(task[q]))' <=> Locks(t)
      /\ (\E q \in Procs : Records(task[q])) <=> Records(task[p])
      /\ (\E q \in Procs : Records(task[q]))' <=> Records(t)
      /\ \A e \in Event : Reported(e) <=> events[e].left > 0 \/ task[p].op = e \/ SentBeside(p, e)
      /\ \A e \in Event : Reported(e)' <=> events'[e].left > 0 \/ t.op = e \/ SentBeside(p, e)
  BY <1>0, <1>1, BesideWork
<1>5. Outcome /\ Kept /\ Locked /\ Recorded /\ InReview
  BY DEF KeepInv
<1>6. Keeps(t)'
  BY <1>0, <1>1, <1>2, <1>a, <1>3, <1>4, <1>5, CheckoutAssumption DEF RecordSuccess, At, rows,
     external, Locked, Locks, Keeps, LockedPc, TakenPc, ReviewPc, Outcome, Answered, Event, Sound,
     Placed, Stands, Shares, Alone, Works, Resting, Owns, Free, Undecided, Untouched, Proceeding,
     CheckoutPc, WebhookPc, CancelPc, FailPc, Await, Unpaid, Only, Reserved, Funded, CardShare,
     HoldShare, Moves, Idle, Task, Event
<1>7. Outcome'
  BY <1>0, <1>1, <1>2, <1>4, <1>5 DEF RecordSuccess, At, rows, external, Outcome, Answered, Event,
     Sound, Stands, Shares, Keeps, Placed, Works, Resting, Proceeding, CheckoutPc, WebhookPc,
     CancelPc, FailPc, Await, Moves, Idle
<1>8. Kept'
  BY <1>0, <1>1, <1>2, <1>a, <1>3, <1>4, <1>5, CheckoutAssumption DEF RecordSuccess, At, rows,
     external, Kept, Sound, Stands, Shares, Alone, Only, Keeps, Owns, Undecided, ActiveHolds,
     CapturedHolds, Placed, Works, Resting, Proceeding, CheckoutPc, WebhookPc, CancelPc, FailPc,
     Await, Moves, Idle
<1>9. Locked'
  BY <1>0, <1>1, <1>2, <1>4, <1>5 DEF RecordSuccess, At, rows, external, Locked, Locks, Outcome,
     Answered, Event, Sound, Stands, Shares, Keeps, LockedPc, TakenPc, Undecided, Placed, Works,
     Resting, Proceeding, CheckoutPc, WebhookPc, CancelPc, FailPc, Await, Moves, Idle
<1>10. Recorded'
  BY <1>0, <1>1, <1>2, <1>4, <1>5 DEF RecordSuccess, At, rows, external, Recorded, Records, Sold,
     Sound, Stands, Shares, Undecided, Untouched, Free, Unpaid, Placed, Works, Resting, Proceeding,
     CheckoutPc, WebhookPc, CancelPc, FailPc, Await, Moves, Idle
<1>11. InReview'
  BY <1>0, <1>1, <1>2, <1>a, <1>4, <1>5, CheckoutAssumption DEF RecordSuccess, At, rows, external,
     InReview, Outcome, Answered, Event, CardLocked, CardPaid, Reserved, HoldShare, Keeps, LockedPc,
     TakenPc, ReviewPc, Sound, Stands, Shares, Undecided, Funded, CardShare, Placed, Works, Resting,
     Proceeding, CheckoutPc, WebhookPc, CancelPc, FailPc, Await, Moves, Idle
<1> QED BY <1>0, <1>1, <1>6, <1>7, <1>8, <1>9, <1>10, <1>11, WorkKeeps

\* CaptureHold keeps the second invariant.
LEMMA KeepCaptureHold ==
    ASSUME SaleInv, SaleInv', KeepInv, MaxAttempts <= 1, NEW p \in Procs, CaptureHold(p)
    PROVE  KeepInv'
<1>0. Sound(task[p]) /\ Keeps(task[p]) /\ task[p] \in Task /\ task[p].pc = "captureHold" /\ Works(task[p])
  BY DEF SaleInv, KeepInv, TypeOK, CaptureHold, At, Works, Resting, CancelPc
<1>1. PICK t : Become(p, t) /\ Moves(task[p], t) /\ t.pc = "confirm"
  BY <1>0, GoneTo, Threw DEF CaptureHold, At, SaleInv, TypeOK, Funding, Sound, Stands
<1>2. UNCHANGED <<booking, payment, stripe, slot, events, attempts>>
  BY <1>0 DEF CaptureHold, rows, external, SaleInv, TypeOK, Sound, Stands, Undecided
<1>a. PICK h : h = task[p].hold
  OBVIOUS
<1>b. h \in Holds /\ holds[h].status = "ACTIVE" /\ holds' = Captured(h)
  BY <1>0, <1>a DEF CaptureHold, At, Task, Sound, Shares, Reserved
<1>c. /\ \A g \in Holds : /\ holds'[g].amount = holds[g].amount
                          /\ holds'[g].status = IF g = h THEN "CAPTURED" ELSE holds[g].status
      /\ ActiveHolds' = ActiveHolds \ {h} /\ CapturedHolds' = CapturedHolds \cup {h}
  BY <1>b, Captures DEF SaleInv
<1>3. Sound(t)'
  BY <1>1 DEF SaleInv, TypeOK, Become
<1>4. /\ Working /\ (Working' <=> Works(t))
      /\ \A g \in Holds : Guards(g) <=> task[p].hold = g \/ DroppedBeside(p, g)
      /\ \A g \in Holds : Guards(g)' <=> (Owns(t) /\ t.hold = g) \/ DroppedBeside(p, g)
      /\ \A g \in Holds : Dropped(g) <=> DroppedBeside(p, g)
      /\ \A g \in Holds : Dropped(g)' <=> (t.pc = "catchRelease" /\ t.hold = g) \/ DroppedBeside(p, g)
      /\ (\E q \in Procs : Locks(task[q])) <=> Locks(task[p])
      /\ (\E q \in Procs : Locks(task[q]))' <=> Locks(t)
      /\ (\E q \in Procs : Records(task[q])) <=> Records(task[p])
      /\ (\E q \in Procs : Records(task[q]))' <=> Records(t)
      /\ \A e \in Event : Reported(e) <=> events[e].left > 0 \/ task[p].op = e \/ SentBeside(p, e)
      /\ \A e \in Event : Reported(e)' <=> events'[e].left > 0 \/ t.op = e \/ SentBeside(p, e)
  BY <1>0, <1>1, BesideWork
<1>5. Outcome /\ Kept /\ Locked /\ Recorded /\ InReview
  BY DEF KeepInv
<1>6. Keeps(t)'
  BY <1>0, <1>1, <1>2, <1>a, <1>b, <1>c, <1>3, <1>4, <1>5, CheckoutAssumption DEF Locked, Locks,
     Keeps, LockedPc, TakenPc, ReviewPc, Outcome, Answered, Event, Sound, Placed, Stands, Shares,
     Alone, Works, Resting, Owns, Free, Undecided, Untouched, Proceeding, CheckoutPc, WebhookPc,
     CancelPc, FailPc, Await, Unpaid, Only, Reserved, Funded, CardShare, HoldShare, Moves, Idle,
     Task, Event
<1>7. Outcome'
  BY <1>0, <1>1, <1>2, <1>4, <1>5 DEF Outcome, Answered, Event, Sound, Stands, Shares, Keeps, Placed,
     Works, Resting, Proceeding, CheckoutPc, WebhookPc, CancelPc, FailPc, Await, Moves, Idle
<1>8. Kept'
  BY <1>0, <1>1, <1>2, <1>a, <1>b, <1>c, <1>3, <1>4, <1>5, CheckoutAssumption DEF Kept, Sound, Stands,
     Shares, Alone, Only, Keeps, Owns, Undecided, ActiveHolds, CapturedHolds, Placed, Works,
     Resting, Proceeding, CheckoutPc, WebhookPc, CancelPc, FailPc, Await, Moves, Idle
<1>9. Locked'
  BY <1>0, <1>1, <1>2, <1>4, <1>5 DEF Locked, Locks, Outcome, Answered, Event, Sound, Stands, Shares,
     Keeps, LockedPc, TakenPc, Undecided, Placed, Works, Resting, Proceeding, CheckoutPc, WebhookPc,
     CancelPc, FailPc, Await, Moves, Idle
<1>10. Recorded'
  BY <1>0, <1>1, <1>2, <1>4, <1>5 DEF Recorded, Records, Sold, Sound, Stands, Shares, Undecided,
     Untouched, Free, Unpaid, Placed, Works, Resting, Proceeding, CheckoutPc, WebhookPc, CancelPc,
     FailPc, Await, Moves, Idle
<1>11. InReview'
  BY <1>0, <1>1, <1>2, <1>a, <1>b, <1>c, <1>4, <1>5, CheckoutAssumption DEF InReview, Outcome,
     Answered, Event, CardLocked, CardPaid, Reserved, HoldShare, Keeps, LockedPc, TakenPc, ReviewPc,
     Sound, Stands, Shares, Undecided, Funded, CardShare, Placed, Works, Resting, Proceeding,
     CheckoutPc, WebhookPc, CancelPc, FailPc, Await, Moves, Idle
<1> QED BY <1>0, <1>1, <1>6, <1>7, <1>8, <1>9, <1>10, <1>11, WorkKeeps

\* Confirm keeps the second invariant.
LEMMA KeepConfirm ==
    ASSUME SaleInv, SaleInv', KeepInv, MaxAttempts <= 1, NEW p \in Procs, Confirm(p)
    PROVE  KeepInv'
<1>0. Sound(task[p]) /\ Keeps(task[p]) /\ task[p] \in Task /\ task[p].pc = "confirm" /\ Works(task[p])
  BY DEF SaleInv, KeepInv, TypeOK, Confirm, At, Works, Resting, CancelPc
<1>1. PICK t : /\ Become(p, t)
               /\ t = Idle \/ (Moves(task[p], t) /\ t.pc = "ack" /\ t.op # "checkout")
  <2>1. CASE task[p].op = "checkout"
    BY <2>1 DEF Confirm
  <2>2. CASE task[p].op # "checkout"
    <3>1. Goto(p, "ack")
      BY <2>2 DEF Confirm
    <3>2. PICK t : Become(p, t) /\ Moves(task[p], t) /\ t.pc = "ack"
      BY <3>1, GoneTo
    <3> QED BY <2>2, <3>2 DEF Moves
  <2> QED BY <2>1, <2>2
<1>2. UNCHANGED <<holds, payment, stripe, slot, events, attempts>>
  BY <1>0 DEF Confirm, rows, external, SaleInv, TypeOK, Sound, Stands, Undecided
<1>a. UNCHANGED <<ActiveHolds, CapturedHolds>>
  BY <1>2 DEF ActiveHolds, CapturedHolds
<1>3. Sound(t)'
  BY <1>1 DEF SaleInv, TypeOK, Become
<1>4. /\ Working /\ (Working' <=> Works(t))
      /\ \A g \in Holds : Guards(g) <=> task[p].hold = g \/ DroppedBeside(p, g)
      /\ \A g \in Holds : Guards(g)' <=> (Owns(t) /\ t.hold = g) \/ DroppedBeside(p, g)
      /\ \A g \in Holds : Dropped(g) <=> DroppedBeside(p, g)
      /\ \A g \in Holds : Dropped(g)' <=> (t.pc = "catchRelease" /\ t.hold = g) \/ DroppedBeside(p, g)
      /\ (\E q \in Procs : Locks(task[q])) <=> Locks(task[p])
      /\ (\E q \in Procs : Locks(task[q]))' <=> Locks(t)
      /\ (\E q \in Procs : Records(task[q])) <=> Records(task[p])
      /\ (\E q \in Procs : Records(task[q]))' <=> Records(t)
      /\ \A e \in Event : Reported(e) <=> events[e].left > 0 \/ task[p].op = e \/ SentBeside(p, e)
      /\ \A e \in Event : Reported(e)' <=> events'[e].left > 0 \/ t.op = e \/ SentBeside(p, e)
  BY <1>0, <1>1, BesideWork
<1>5. Outcome /\ Kept /\ Locked /\ Recorded /\ InReview
  BY DEF KeepInv
<1>6. Keeps(t)'
  BY <1>0, <1>1, <1>2, <1>a, <1>3, <1>4, <1>5, CheckoutAssumption DEF Confirm, At, rows, external,
     Locked, Locks, Keeps, LockedPc, TakenPc, ReviewPc, Outcome, Answered, Event, Sound, Placed,
     Stands, Shares, Alone, Works, Resting, Owns, Free, Undecided, Untouched, Proceeding,
     CheckoutPc, WebhookPc, CancelPc, FailPc, Await, Unpaid, Only, Reserved, Funded, CardShare,
     HoldShare, Moves, Idle, Task, Event
<1>7. Outcome'
  BY <1>0, <1>1, <1>2, <1>4, <1>5 DEF Confirm, At, rows, external, Outcome, Answered, Event, Sound,
     Stands, Shares, Keeps, Placed, Works, Resting, Proceeding, CheckoutPc, WebhookPc, CancelPc,
     FailPc, Await, Moves, Idle
<1>8. Kept'
  BY <1>0, <1>1, <1>2, <1>a, <1>3, <1>4, <1>5, CheckoutAssumption DEF Confirm, At, rows, external,
     Kept, Sound, Stands, Shares, Alone, Only, Keeps, Owns, Undecided, ActiveHolds, CapturedHolds,
     Placed, Works, Resting, Proceeding, CheckoutPc, WebhookPc, CancelPc, FailPc, Await, Moves, Idle
<1>9. Locked'
  BY <1>0, <1>1, <1>2, <1>4, <1>5 DEF Confirm, At, rows, external, Locked, Locks, Outcome, Answered,
     Event, Sound, Stands, Shares, Keeps, LockedPc, TakenPc, Undecided, Placed, Works, Resting,
     Proceeding, CheckoutPc, WebhookPc, CancelPc, FailPc, Await, Moves, Idle
<1>10. Recorded'
  BY <1>0, <1>1, <1>2, <1>4, <1>5 DEF Confirm, At, rows, external, Recorded, Records, Sold, Sound,
     Stands, Shares, Undecided, Untouched, Free, Unpaid, Placed, Works, Resting, Proceeding,
     CheckoutPc, WebhookPc, CancelPc, FailPc, Await, Moves, Idle
<1>11. InReview'
  BY <1>0, <1>1, <1>2, <1>a, <1>4, <1>5, CheckoutAssumption DEF Confirm, At, rows, external, InReview,
     Outcome, Answered, Event, CardLocked, CardPaid, Reserved, HoldShare, Keeps, LockedPc, TakenPc,
     ReviewPc, Sound, Stands, Shares, Undecided, Funded, CardShare, Placed, Works, Resting,
     Proceeding, CheckoutPc, WebhookPc, CancelPc, FailPc, Await, Moves, Idle
<1> QED BY <1>0, <1>1, <1>6, <1>7, <1>8, <1>9, <1>10, <1>11, WorkKeeps

\* VoidAuthorization keeps the second invariant.
LEMMA KeepVoid ==
    ASSUME SaleInv, SaleInv', KeepInv, MaxAttempts <= 1, NEW p \in Procs, VoidAuthorization(p)
    PROVE  KeepInv'
<1>0. Sound(task[p]) /\ Keeps(task[p]) /\ task[p] \in Task /\ task[p].pc = "void" /\ Works(task[p])
  BY DEF SaleInv, KeepInv, TypeOK, VoidAuthorization, At, Works, Resting, CancelPc
<1>b. stripe.status = "requires_capture" /\ stripe' = [stripe EXCEPT !.status = "canceled"] /\ Goto(p, "voided")
  BY <1>0 DEF VoidAuthorization, Keeps, LockedPc
<1>1. PICK t : Become(p, t) /\ Moves(task[p], t) /\ t.pc = "voided" /\ stripe'.status = "canceled"
  BY <1>b, GoneTo DEF SaleInv, TypeOK
<1>2. UNCHANGED <<booking, holds, payment, slot, events, stripe.answer, stripe.amount, attempts>>
  BY <1>0 DEF VoidAuthorization, rows, external, SaleInv, TypeOK, Sound, Stands, Undecided
<1>a. UNCHANGED <<ActiveHolds, CapturedHolds>>
  BY <1>2 DEF ActiveHolds, CapturedHolds
<1>3. Sound(t)'
  BY <1>1 DEF SaleInv, TypeOK, Become
<1>4. /\ Working /\ (Working' <=> Works(t))
      /\ \A g \in Holds : Guards(g) <=> task[p].hold = g \/ DroppedBeside(p, g)
      /\ \A g \in Holds : Guards(g)' <=> (Owns(t) /\ t.hold = g) \/ DroppedBeside(p, g)
      /\ \A g \in Holds : Dropped(g) <=> DroppedBeside(p, g)
      /\ \A g \in Holds : Dropped(g)' <=> (t.pc = "catchRelease" /\ t.hold = g) \/ DroppedBeside(p, g)
      /\ (\E q \in Procs : Locks(task[q])) <=> Locks(task[p])
      /\ (\E q \in Procs : Locks(task[q]))' <=> Locks(t)
      /\ (\E q \in Procs : Records(task[q])) <=> Records(task[p])
      /\ (\E q \in Procs : Records(task[q]))' <=> Records(t)
      /\ \A e \in Event : Reported(e) <=> events[e].left > 0 \/ task[p].op = e \/ SentBeside(p, e)
      /\ \A e \in Event : Reported(e)' <=> events'[e].left > 0 \/ t.op = e \/ SentBeside(p, e)
  BY <1>0, <1>1, BesideWork
<1>5. Outcome /\ Kept /\ Locked /\ Recorded /\ InReview
  BY DEF KeepInv
<1>6. Keeps(t)'
  BY <1>0, <1>1, <1>2, <1>a, <1>3, <1>4, <1>5, CheckoutAssumption DEF VoidAuthorization, At, rows,
     external, Locked, Locks, Keeps, LockedPc, TakenPc, ReviewPc, Outcome, Answered, Event, Sound,
     Placed, Stands, Shares, Alone, Works, Resting, Owns, Free, Undecided, Untouched, Proceeding,
     CheckoutPc, WebhookPc, CancelPc, FailPc, Await, Unpaid, Only, Reserved, Funded, CardShare,
     HoldShare, Moves, Idle, Task, Event
<1>7. Outcome'
  BY <1>0, <1>1, <1>2, <1>4, <1>5 DEF VoidAuthorization, At, rows, external, Outcome, Answered, Event,
     Sound, Stands, Shares, Keeps, Placed, Works, Resting, Proceeding, CheckoutPc, WebhookPc,
     CancelPc, FailPc, Await, Moves, Idle
<1>8. Kept'
  BY <1>0, <1>1, <1>2, <1>a, <1>3, <1>4, <1>5, CheckoutAssumption DEF VoidAuthorization, At, rows,
     external, Kept, Sound, Stands, Shares, Alone, Only, Keeps, Owns, Undecided, ActiveHolds,
     CapturedHolds, Placed, Works, Resting, Proceeding, CheckoutPc, WebhookPc, CancelPc, FailPc,
     Await, Moves, Idle
<1>9. Locked'
  BY <1>0, <1>1, <1>2, <1>4, <1>5 DEF VoidAuthorization, At, rows, external, Locked, Locks, Outcome,
     Answered, Event, Sound, Stands, Shares, Keeps, LockedPc, TakenPc, Undecided, Placed, Works,
     Resting, Proceeding, CheckoutPc, WebhookPc, CancelPc, FailPc, Await, Moves, Idle
<1>10. Recorded'
  BY <1>0, <1>1, <1>2, <1>4, <1>5 DEF VoidAuthorization, At, rows, external, Recorded, Records, Sold,
     Sound, Stands, Shares, Undecided, Untouched, Free, Unpaid, Placed, Works, Resting, Proceeding,
     CheckoutPc, WebhookPc, CancelPc, FailPc, Await, Moves, Idle
<1>11. InReview'
  BY <1>0, <1>1, <1>2, <1>a, <1>4, <1>5, CheckoutAssumption DEF VoidAuthorization, At, rows, external,
     InReview, Outcome, Answered, Event, CardLocked, CardPaid, Reserved, HoldShare, Keeps, LockedPc,
     TakenPc, ReviewPc, Sound, Stands, Shares, Undecided, Funded, CardShare, Placed, Works, Resting,
     Proceeding, CheckoutPc, WebhookPc, CancelPc, FailPc, Await, Moves, Idle
<1> QED BY <1>0, <1>1, <1>6, <1>7, <1>8, <1>9, <1>10, <1>11, WorkKeeps

\* CaptureIntent keeps the second invariant.
LEMMA KeepCapture ==
    ASSUME SaleInv, SaleInv', KeepInv, MaxAttempts <= 1, NEW p \in Procs, CaptureIntent(p)
    PROVE  KeepInv'
<1>0. Sound(task[p]) /\ Keeps(task[p]) /\ task[p] \in Task /\ task[p].pc = "capture" /\ Works(task[p])
  BY DEF SaleInv, KeepInv, TypeOK, CaptureIntent, At, Works, Resting, CancelPc
<1>1. PICK t : /\ Become(p, t) /\ Moves(task[p], t)
               /\ \/ t.pc = "recordSuccess" /\ stripe'.status = "succeeded"
                  \/ t.pc = "captureFailed" /\ stripe' = stripe
  BY <1>0, GoneTo, Threw DEF CaptureIntent, At, SaleInv, TypeOK, Funding, Sound, Stands
<1>2. UNCHANGED <<booking, holds, payment, slot, events, stripe.answer, stripe.amount, attempts>>
  BY <1>0 DEF CaptureIntent, rows, external, SaleInv, TypeOK, Sound, Stands, Undecided
<1>a. UNCHANGED <<ActiveHolds, CapturedHolds>>
  BY <1>2 DEF ActiveHolds, CapturedHolds
<1>3. Sound(t)'
  BY <1>1 DEF SaleInv, TypeOK, Become
<1>4. /\ Working /\ (Working' <=> Works(t))
      /\ \A g \in Holds : Guards(g) <=> task[p].hold = g \/ DroppedBeside(p, g)
      /\ \A g \in Holds : Guards(g)' <=> (Owns(t) /\ t.hold = g) \/ DroppedBeside(p, g)
      /\ \A g \in Holds : Dropped(g) <=> DroppedBeside(p, g)
      /\ \A g \in Holds : Dropped(g)' <=> (t.pc = "catchRelease" /\ t.hold = g) \/ DroppedBeside(p, g)
      /\ (\E q \in Procs : Locks(task[q])) <=> Locks(task[p])
      /\ (\E q \in Procs : Locks(task[q]))' <=> Locks(t)
      /\ (\E q \in Procs : Records(task[q])) <=> Records(task[p])
      /\ (\E q \in Procs : Records(task[q]))' <=> Records(t)
      /\ \A e \in Event : Reported(e) <=> events[e].left > 0 \/ task[p].op = e \/ SentBeside(p, e)
      /\ \A e \in Event : Reported(e)' <=> events'[e].left > 0 \/ t.op = e \/ SentBeside(p, e)
  BY <1>0, <1>1, BesideWork
<1>5. Outcome /\ Kept /\ Locked /\ Recorded /\ InReview
  BY DEF KeepInv
<1>6. Keeps(t)'
  BY <1>0, <1>1, <1>2, <1>a, <1>3, <1>4, <1>5, CheckoutAssumption DEF CaptureIntent, At, rows,
     external, Locked, Locks, Keeps, LockedPc, TakenPc, ReviewPc, Outcome, Answered, Event, Sound,
     Placed, Stands, Shares, Alone, Works, Resting, Owns, Free, Undecided, Untouched, Proceeding,
     CheckoutPc, WebhookPc, CancelPc, FailPc, Await, Unpaid, Only, Reserved, Funded, CardShare,
     HoldShare, Moves, Idle, Task, Event
<1>7. Outcome'
  BY <1>0, <1>1, <1>2, <1>4, <1>5 DEF CaptureIntent, At, rows, external, Outcome, Answered, Event,
     Sound, Stands, Shares, Keeps, Placed, Works, Resting, Proceeding, CheckoutPc, WebhookPc,
     CancelPc, FailPc, Await, Moves, Idle
<1>8. Kept'
  BY <1>0, <1>1, <1>2, <1>a, <1>3, <1>4, <1>5, CheckoutAssumption DEF CaptureIntent, At, rows,
     external, Kept, Sound, Stands, Shares, Alone, Only, Keeps, Owns, Undecided, ActiveHolds,
     CapturedHolds, Placed, Works, Resting, Proceeding, CheckoutPc, WebhookPc, CancelPc, FailPc,
     Await, Moves, Idle
<1>9. Locked'
  BY <1>0, <1>1, <1>2, <1>4, <1>5 DEF CaptureIntent, At, rows, external, Locked, Locks, Outcome,
     Answered, Event, Sound, Stands, Shares, Keeps, LockedPc, TakenPc, Undecided, Placed, Works,
     Resting, Proceeding, CheckoutPc, WebhookPc, CancelPc, FailPc, Await, Moves, Idle
<1>10. Recorded'
  BY <1>0, <1>1, <1>2, <1>4, <1>5 DEF CaptureIntent, At, rows, external, Recorded, Records, Sold,
     Sound, Stands, Shares, Undecided, Untouched, Free, Unpaid, Placed, Works, Resting, Proceeding,
     CheckoutPc, WebhookPc, CancelPc, FailPc, Await, Moves, Idle
<1>11. InReview'
  BY <1>0, <1>1, <1>2, <1>a, <1>4, <1>5, CheckoutAssumption DEF CaptureIntent, At, rows, external,
     InReview, Outcome, Answered, Event, CardLocked, CardPaid, Reserved, HoldShare, Keeps, LockedPc,
     TakenPc, ReviewPc, Sound, Stands, Shares, Undecided, Funded, CardShare, Placed, Works, Resting,
     Proceeding, CheckoutPc, WebhookPc, CancelPc, FailPc, Await, Moves, Idle
<1> QED BY <1>0, <1>1, <1>6, <1>7, <1>8, <1>9, <1>10, <1>11, WorkKeeps

\* RefuseCredits keeps the second invariant.
LEMMA KeepRefuse ==
    ASSUME SaleInv, SaleInv', KeepInv, MaxAttempts <= 1, NEW p \in Procs, RefuseCredits(p)
    PROVE  KeepInv'
<1>0. Sound(task[p]) /\ Keeps(task[p]) /\ task[p] \in Task /\ task[p].pc = "credits" /\ Works(task[p])
  BY DEF SaleInv, KeepInv, TypeOK, RefuseCredits, At, Works, Resting, CancelPc
<1>1. PICK t : /\ Become(p, t)
               /\ \/ task[p].op = "checkout" /\ Moves(task[p], t) /\ t.pc = "catch"
                  \/ task[p].op # "checkout" /\ t = Idle
  BY <1>0, GoneTo, Threw DEF RefuseCredits, At, SaleInv, TypeOK, Funding, Sound, Stands
<1>2. UNCHANGED <<booking, holds, payment, stripe, slot, events, attempts>>
  BY <1>0 DEF RefuseCredits, rows, external, SaleInv, TypeOK, Sound, Stands, Undecided
<1>a. UNCHANGED <<ActiveHolds, CapturedHolds>>
  BY <1>2 DEF ActiveHolds, CapturedHolds
<1>3. Sound(t)'
  BY <1>1 DEF SaleInv, TypeOK, Become
<1>4. /\ Working /\ (Working' <=> Works(t))
      /\ \A g \in Holds : Guards(g) <=> task[p].hold = g \/ DroppedBeside(p, g)
      /\ \A g \in Holds : Guards(g)' <=> (Owns(t) /\ t.hold = g) \/ DroppedBeside(p, g)
      /\ \A g \in Holds : Dropped(g) <=> DroppedBeside(p, g)
      /\ \A g \in Holds : Dropped(g)' <=> (t.pc = "catchRelease" /\ t.hold = g) \/ DroppedBeside(p, g)
      /\ (\E q \in Procs : Locks(task[q])) <=> Locks(task[p])
      /\ (\E q \in Procs : Locks(task[q]))' <=> Locks(t)
      /\ (\E q \in Procs : Records(task[q])) <=> Records(task[p])
      /\ (\E q \in Procs : Records(task[q]))' <=> Records(t)
      /\ \A e \in Event : Reported(e) <=> events[e].left > 0 \/ task[p].op = e \/ SentBeside(p, e)
      /\ \A e \in Event : Reported(e)' <=> events'[e].left > 0 \/ t.op = e \/ SentBeside(p, e)
  BY <1>0, <1>1, BesideWork
<1>5. Outcome /\ Kept /\ Locked /\ Recorded /\ InReview
  BY DEF KeepInv
<1>6. Keeps(t)'
  BY <1>0, <1>1, <1>2, <1>a, <1>3, <1>4, <1>5, CheckoutAssumption DEF RefuseCredits, At, rows,
     external, Locked, Locks, Keeps, LockedPc, TakenPc, ReviewPc, Outcome, Answered, Event, Sound,
     Placed, Stands, Shares, Alone, Works, Resting, Owns, Free, Undecided, Untouched, Proceeding,
     CheckoutPc, WebhookPc, CancelPc, FailPc, Await, Unpaid, Only, Reserved, Funded, CardShare,
     HoldShare, Moves, Idle, Task, Event
<1>7. Outcome'
  BY <1>0, <1>1, <1>2, <1>4, <1>5 DEF RefuseCredits, At, rows, external, Outcome, Answered, Event,
     Sound, Stands, Shares, Keeps, Placed, Works, Resting, Proceeding, CheckoutPc, WebhookPc,
     CancelPc, FailPc, Await, Moves, Idle
<1>8. Kept'
  BY <1>0, <1>1, <1>2, <1>a, <1>3, <1>4, <1>5, CheckoutAssumption DEF RefuseCredits, At, rows,
     external, Kept, Sound, Stands, Shares, Alone, Only, Keeps, Owns, Undecided, ActiveHolds,
     CapturedHolds, Placed, Works, Resting, Proceeding, CheckoutPc, WebhookPc, CancelPc, FailPc,
     Await, Moves, Idle
<1>9. Locked'
  BY <1>0, <1>1, <1>2, <1>4, <1>5 DEF RefuseCredits, At, rows, external, Locked, Locks, Outcome,
     Answered, Event, Sound, Stands, Shares, Keeps, LockedPc, TakenPc, Undecided, Placed, Works,
     Resting, Proceeding, CheckoutPc, WebhookPc, CancelPc, FailPc, Await, Moves, Idle
<1>10. Recorded'
  BY <1>0, <1>1, <1>2, <1>4, <1>5 DEF RefuseCredits, At, rows, external, Recorded, Records, Sold,
     Sound, Stands, Shares, Undecided, Untouched, Free, Unpaid, Placed, Works, Resting, Proceeding,
     CheckoutPc, WebhookPc, CancelPc, FailPc, Await, Moves, Idle
<1>11. InReview'
  BY <1>0, <1>1, <1>2, <1>a, <1>4, <1>5, CheckoutAssumption DEF RefuseCredits, At, rows, external,
     InReview, Outcome, Answered, Event, CardLocked, CardPaid, Reserved, HoldShare, Keeps, LockedPc,
     TakenPc, ReviewPc, Sound, Stands, Shares, Undecided, Funded, CardShare, Placed, Works, Resting,
     Proceeding, CheckoutPc, WebhookPc, CancelPc, FailPc, Await, Moves, Idle
<1> QED BY <1>0, <1>1, <1>6, <1>7, <1>8, <1>9, <1>10, <1>11, WorkKeeps

\* DeclinedRelease keeps the second invariant.
LEMMA KeepDeclinedRelease ==
    ASSUME SaleInv, SaleInv', KeepInv, MaxAttempts <= 1, NEW p \in Procs, DeclinedRelease(p)
    PROVE  KeepInv'
<1>0. Sound(task[p]) /\ Keeps(task[p]) /\ task[p] \in Task /\ task[p].pc = "declinedRelease" /\ Works(task[p])
  BY DEF SaleInv, KeepInv, TypeOK, DeclinedRelease, At, Works, Resting, CancelPc
<1>1. PICK t : Become(p, t) /\ Moves(task[p], t) /\ t.pc = "declinedFail"
  BY <1>0, GoneTo, Threw DEF DeclinedRelease, At, SaleInv, TypeOK, Funding, Sound, Stands
<1>2. UNCHANGED <<booking, payment, stripe, slot, events, attempts>>
  BY <1>0 DEF DeclinedRelease, rows, external, SaleInv, TypeOK, Sound, Stands, Undecided
<1>a. PICK h : h = task[p].hold
  OBVIOUS
<1>b. h \in Holds \cup {NoHold} /\ holds' = Released(h)
  BY <1>0, <1>a DEF DeclinedRelease, At, Task, Sound, Shares, Reserved
<1>c. /\ \A g \in Holds : /\ holds'[g].amount = holds[g].amount
                          /\ holds'[g].status = IF g = h /\ holds[g].status = "ACTIVE" THEN "RELEASED" ELSE holds[g].status
      /\ ActiveHolds' = ActiveHolds \ {h} /\ CapturedHolds' = CapturedHolds
  BY <1>b, Releases DEF SaleInv
<1>3. Sound(t)'
  BY <1>1 DEF SaleInv, TypeOK, Become
<1>4. /\ Working /\ (Working' <=> Works(t))
      /\ \A g \in Holds : Guards(g) <=> task[p].hold = g \/ DroppedBeside(p, g)
      /\ \A g \in Holds : Guards(g)' <=> (Owns(t) /\ t.hold = g) \/ DroppedBeside(p, g)
      /\ \A g \in Holds : Dropped(g) <=> DroppedBeside(p, g)
      /\ \A g \in Holds : Dropped(g)' <=> (t.pc = "catchRelease" /\ t.hold = g) \/ DroppedBeside(p, g)
      /\ (\E q \in Procs : Locks(task[q])) <=> Locks(task[p])
      /\ (\E q \in Procs : Locks(task[q]))' <=> Locks(t)
      /\ (\E q \in Procs : Records(task[q])) <=> Records(task[p])
      /\ (\E q \in Procs : Records(task[q]))' <=> Records(t)
      /\ \A e \in Event : Reported(e) <=> events[e].left > 0 \/ task[p].op = e \/ SentBeside(p, e)
      /\ \A e \in Event : Reported(e)' <=> events'[e].left > 0 \/ t.op = e \/ SentBeside(p, e)
  BY <1>0, <1>1, BesideWork
<1>5. Outcome /\ Kept /\ Locked /\ Recorded /\ InReview
  BY DEF KeepInv
<1>6. Keeps(t)'
  BY <1>0, <1>1, <1>2, <1>a, <1>b, <1>c, <1>3, <1>4, <1>5, CheckoutAssumption DEF Locked, Locks,
     Keeps, LockedPc, TakenPc, ReviewPc, Outcome, Answered, Event, Sound, Placed, Stands, Shares,
     Alone, Works, Resting, Owns, Free, Undecided, Untouched, Proceeding, CheckoutPc, WebhookPc,
     CancelPc, FailPc, Await, Unpaid, Only, Reserved, Funded, CardShare, HoldShare, Moves, Idle,
     Task, Event
<1>7. Outcome'
  BY <1>0, <1>1, <1>2, <1>4, <1>5 DEF Outcome, Answered, Event, Sound, Stands, Shares, Keeps, Placed,
     Works, Resting, Proceeding, CheckoutPc, WebhookPc, CancelPc, FailPc, Await, Moves, Idle
<1>8. Kept'
  BY <1>0, <1>1, <1>2, <1>a, <1>b, <1>c, <1>3, <1>4, <1>5, CheckoutAssumption DEF Kept, Sound, Stands,
     Shares, Alone, Only, Keeps, Owns, Undecided, ActiveHolds, CapturedHolds, Placed, Works,
     Resting, Proceeding, CheckoutPc, WebhookPc, CancelPc, FailPc, Await, Moves, Idle
<1>9. Locked'
  BY <1>0, <1>1, <1>2, <1>4, <1>5 DEF Locked, Locks, Outcome, Answered, Event, Sound, Stands, Shares,
     Keeps, LockedPc, TakenPc, Undecided, Placed, Works, Resting, Proceeding, CheckoutPc, WebhookPc,
     CancelPc, FailPc, Await, Moves, Idle
<1>10. Recorded'
  BY <1>0, <1>1, <1>2, <1>4, <1>5 DEF Recorded, Records, Sold, Sound, Stands, Shares, Undecided,
     Untouched, Free, Unpaid, Placed, Works, Resting, Proceeding, CheckoutPc, WebhookPc, CancelPc,
     FailPc, Await, Moves, Idle
<1>11. InReview'
  BY <1>0, <1>1, <1>2, <1>a, <1>b, <1>c, <1>4, <1>5, CheckoutAssumption DEF InReview, Outcome,
     Answered, Event, CardLocked, CardPaid, Reserved, HoldShare, Keeps, LockedPc, TakenPc, ReviewPc,
     Sound, Stands, Shares, Undecided, Funded, CardShare, Placed, Works, Resting, Proceeding,
     CheckoutPc, WebhookPc, CancelPc, FailPc, Await, Moves, Idle
<1> QED BY <1>0, <1>1, <1>6, <1>7, <1>8, <1>9, <1>10, <1>11, WorkKeeps

\* DeclinedFail keeps the second invariant.
LEMMA KeepDeclinedFail ==
    ASSUME SaleInv, SaleInv', KeepInv, MaxAttempts <= 1, NEW p \in Procs, DeclinedFail(p)
    PROVE  KeepInv'
<1>0. Sound(task[p]) /\ Keeps(task[p]) /\ task[p] \in Task /\ task[p].pc = "declinedFail" /\ Works(task[p])
  BY DEF SaleInv, KeepInv, TypeOK, DeclinedFail, At, Works, Resting, CancelPc
<1>1. PICK t : /\ Become(p, t)
               /\ \/ task[p].op = "checkout" /\ Moves(task[p], t) /\ t.pc = "catch"
                  \/ task[p].op # "checkout" /\ t = Idle
  BY <1>0, GoneTo, Threw DEF DeclinedFail, At, SaleInv, TypeOK, Funding, Sound, Stands
<1>2. UNCHANGED <<holds, payment, stripe, slot, events, attempts>>
  BY <1>0 DEF DeclinedFail, rows, external, SaleInv, TypeOK, Sound, Stands, Undecided
<1>a. UNCHANGED <<ActiveHolds, CapturedHolds>>
  BY <1>2 DEF ActiveHolds, CapturedHolds
<1>3. Sound(t)'
  BY <1>1 DEF SaleInv, TypeOK, Become
<1>4. /\ Working /\ (Working' <=> Works(t))
      /\ \A g \in Holds : Guards(g) <=> task[p].hold = g \/ DroppedBeside(p, g)
      /\ \A g \in Holds : Guards(g)' <=> (Owns(t) /\ t.hold = g) \/ DroppedBeside(p, g)
      /\ \A g \in Holds : Dropped(g) <=> DroppedBeside(p, g)
      /\ \A g \in Holds : Dropped(g)' <=> (t.pc = "catchRelease" /\ t.hold = g) \/ DroppedBeside(p, g)
      /\ (\E q \in Procs : Locks(task[q])) <=> Locks(task[p])
      /\ (\E q \in Procs : Locks(task[q]))' <=> Locks(t)
      /\ (\E q \in Procs : Records(task[q])) <=> Records(task[p])
      /\ (\E q \in Procs : Records(task[q]))' <=> Records(t)
      /\ \A e \in Event : Reported(e) <=> events[e].left > 0 \/ task[p].op = e \/ SentBeside(p, e)
      /\ \A e \in Event : Reported(e)' <=> events'[e].left > 0 \/ t.op = e \/ SentBeside(p, e)
  BY <1>0, <1>1, BesideWork
<1>5. Outcome /\ Kept /\ Locked /\ Recorded /\ InReview
  BY DEF KeepInv
<1>6. Keeps(t)'
  BY <1>0, <1>1, <1>2, <1>a, <1>3, <1>4, <1>5, CheckoutAssumption DEF DeclinedFail, At, rows,
     external, Locked, Locks, Keeps, LockedPc, TakenPc, ReviewPc, Outcome, Answered, Event, Sound,
     Placed, Stands, Shares, Alone, Works, Resting, Owns, Free, Undecided, Untouched, Proceeding,
     CheckoutPc, WebhookPc, CancelPc, FailPc, Await, Unpaid, Only, Reserved, Funded, CardShare,
     HoldShare, Moves, Idle, Task, Event
<1>7. Outcome'
  BY <1>0, <1>1, <1>2, <1>4, <1>5 DEF DeclinedFail, At, rows, external, Outcome, Answered, Event,
     Sound, Stands, Shares, Keeps, Placed, Works, Resting, Proceeding, CheckoutPc, WebhookPc,
     CancelPc, FailPc, Await, Moves, Idle
<1>8. Kept'
  BY <1>0, <1>1, <1>2, <1>a, <1>3, <1>4, <1>5, CheckoutAssumption DEF DeclinedFail, At, rows,
     external, Kept, Sound, Stands, Shares, Alone, Only, Keeps, Owns, Undecided, ActiveHolds,
     CapturedHolds, Placed, Works, Resting, Proceeding, CheckoutPc, WebhookPc, CancelPc, FailPc,
     Await, Moves, Idle
<1>9. Locked'
  BY <1>0, <1>1, <1>2, <1>4, <1>5 DEF DeclinedFail, At, rows, external, Locked, Locks, Outcome,
     Answered, Event, Sound, Stands, Shares, Keeps, LockedPc, TakenPc, Undecided, Placed, Works,
     Resting, Proceeding, CheckoutPc, WebhookPc, CancelPc, FailPc, Await, Moves, Idle
<1>10. Recorded'
  BY <1>0, <1>1, <1>2, <1>4, <1>5 DEF DeclinedFail, At, rows, external, Recorded, Records, Sold,
     Sound, Stands, Shares, Undecided, Untouched, Free, Unpaid, Placed, Works, Resting, Proceeding,
     CheckoutPc, WebhookPc, CancelPc, FailPc, Await, Moves, Idle
<1>11. InReview'
  BY <1>0, <1>1, <1>2, <1>a, <1>4, <1>5, CheckoutAssumption DEF DeclinedFail, At, rows, external,
     InReview, Outcome, Answered, Event, CardLocked, CardPaid, Reserved, HoldShare, Keeps, LockedPc,
     TakenPc, ReviewPc, Sound, Stands, Shares, Undecided, Funded, CardShare, Placed, Works, Resting,
     Proceeding, CheckoutPc, WebhookPc, CancelPc, FailPc, Await, Moves, Idle
<1> QED BY <1>0, <1>1, <1>6, <1>7, <1>8, <1>9, <1>10, <1>11, WorkKeeps

\* Catch keeps the second invariant.
LEMMA KeepCatch ==
    ASSUME SaleInv, SaleInv', KeepInv, MaxAttempts <= 1, NEW p \in Procs, Catch(p)
    PROVE  KeepInv'
<1>0. Sound(task[p]) /\ Keeps(task[p]) /\ task[p] \in Task /\ task[p].pc = "catch" /\ Works(task[p])
  BY DEF SaleInv, KeepInv, TypeOK, Catch, At, Works, Resting, CancelPc
<1>1. PICK t : /\ Become(p, t)
               /\ \/ Moves(task[p], t) /\ t.pc = "catchRelease" /\ booking = "PAYMENT_PENDING" /\ booking' = "CHECKOUT_PENDING"
                  \/ t = Idle /\ booking' = booking
  BY <1>0, GoneTo, Threw DEF Catch, At, SaleInv, TypeOK, Funding, Sound, Stands
<1>2. UNCHANGED <<holds, payment, stripe, slot, events, attempts>>
  BY <1>0 DEF Catch, rows, external, SaleInv, TypeOK, Sound, Stands, Undecided
<1>a. UNCHANGED <<ActiveHolds, CapturedHolds>>
  BY <1>2 DEF ActiveHolds, CapturedHolds
<1>3. Sound(t)'
  BY <1>1 DEF SaleInv, TypeOK, Become
<1>4. /\ Working /\ (Working' <=> Works(t))
      /\ \A g \in Holds : Guards(g) <=> task[p].hold = g \/ DroppedBeside(p, g)
      /\ \A g \in Holds : Guards(g)' <=> (Owns(t) /\ t.hold = g) \/ DroppedBeside(p, g)
      /\ \A g \in Holds : Dropped(g) <=> DroppedBeside(p, g)
      /\ \A g \in Holds : Dropped(g)' <=> (t.pc = "catchRelease" /\ t.hold = g) \/ DroppedBeside(p, g)
      /\ (\E q \in Procs : Locks(task[q])) <=> Locks(task[p])
      /\ (\E q \in Procs : Locks(task[q]))' <=> Locks(t)
      /\ (\E q \in Procs : Records(task[q])) <=> Records(task[p])
      /\ (\E q \in Procs : Records(task[q]))' <=> Records(t)
      /\ \A e \in Event : Reported(e) <=> events[e].left > 0 \/ task[p].op = e \/ SentBeside(p, e)
      /\ \A e \in Event : Reported(e)' <=> events'[e].left > 0 \/ t.op = e \/ SentBeside(p, e)
  BY <1>0, <1>1, BesideWork
<1>5. Outcome /\ Kept /\ Locked /\ Recorded /\ InReview
  BY DEF KeepInv
<1>6. Keeps(t)'
  BY <1>0, <1>1, <1>2, <1>a, <1>3, <1>4, <1>5, CheckoutAssumption DEF Catch, At, rows, external,
     Locked, Locks, Keeps, LockedPc, TakenPc, ReviewPc, Outcome, Answered, Event, Sound, Placed,
     Stands, Shares, Alone, Works, Resting, Owns, Free, Undecided, Untouched, Proceeding,
     CheckoutPc, WebhookPc, CancelPc, FailPc, Await, Unpaid, Only, Reserved, Funded, CardShare,
     HoldShare, Moves, Idle, Task, Event
<1>7. Outcome'
  BY <1>0, <1>1, <1>2, <1>4, <1>5 DEF Catch, At, rows, external, Outcome, Answered, Event, Sound,
     Stands, Shares, Keeps, Placed, Works, Resting, Proceeding, CheckoutPc, WebhookPc, CancelPc,
     FailPc, Await, Moves, Idle
<1>8. Kept'
  BY <1>0, <1>1, <1>2, <1>a, <1>3, <1>4, <1>5, CheckoutAssumption DEF Catch, At, rows, external, Kept,
     Sound, Stands, Shares, Alone, Only, Keeps, Owns, Undecided, ActiveHolds, CapturedHolds, Placed,
     Works, Resting, Proceeding, CheckoutPc, WebhookPc, CancelPc, FailPc, Await, Moves, Idle
<1>9. Locked'
  BY <1>0, <1>1, <1>2, <1>4, <1>5 DEF Catch, At, rows, external, Locked, Locks, Outcome, Answered,
     Event, Sound, Stands, Shares, Keeps, LockedPc, TakenPc, Undecided, Placed, Works, Resting,
     Proceeding, CheckoutPc, WebhookPc, CancelPc, FailPc, Await, Moves, Idle
<1>10. Recorded'
  BY <1>0, <1>1, <1>2, <1>4, <1>5 DEF Catch, At, rows, external, Recorded, Records, Sold, Sound,
     Stands, Shares, Undecided, Untouched, Free, Unpaid, Placed, Works, Resting, Proceeding,
     CheckoutPc, WebhookPc, CancelPc, FailPc, Await, Moves, Idle
<1>11. InReview'
  <2>1. CASE booking = "MANUAL_REVIEW" /\ t.pc # "catchRelease"
    BY <1>2, <1>4, <1>5, <2>1, ReviewStays
  <2>2. CASE ~(booking = "MANUAL_REVIEW" /\ t.pc # "catchRelease")
    BY <1>0, <1>1, <1>2, <1>a, <1>4, <1>5, <2>2, CheckoutAssumption DEF Catch, At, rows, external,
       InReview, Outcome, Answered, Event, CardLocked, CardPaid, Reserved, HoldShare, Keeps,
       LockedPc, TakenPc, ReviewPc, Sound, Stands, Shares, Undecided, Funded, CardShare, Placed,
       Works, Resting, Proceeding, CheckoutPc, WebhookPc, CancelPc, FailPc, Await, Moves, Idle
  <2> QED BY <2>1, <2>2
<1> QED BY <1>0, <1>1, <1>6, <1>7, <1>8, <1>9, <1>10, <1>11, WorkKeeps

\* MarkAuthorized keeps the second invariant.
LEMMA KeepMarkAuthorized ==
    ASSUME SaleInv, SaleInv', KeepInv, MaxAttempts <= 1, NEW p \in Procs, MarkAuthorized(p)
    PROVE  KeepInv'
<1>0. Sound(task[p]) /\ Keeps(task[p]) /\ task[p] \in Task /\ task[p].pc = "markAuthorized" /\ Works(task[p])
  BY DEF SaleInv, KeepInv, TypeOK, MarkAuthorized, At, Works, Resting, CancelPc
<1>1. PICK t : Become(p, t) /\ Moves(task[p], t) /\ t.pc = "repend"
  BY <1>0, GoneTo, Threw DEF MarkAuthorized, At, SaleInv, TypeOK, Funding, Sound, Stands
<1>2. UNCHANGED <<booking, holds, stripe, slot, events, attempts>>
  BY <1>0 DEF MarkAuthorized, rows, external, SaleInv, TypeOK, Sound, Stands, Undecided
<1>a. UNCHANGED <<ActiveHolds, CapturedHolds>>
  BY <1>2 DEF ActiveHolds, CapturedHolds
<1>3. Sound(t)'
  BY <1>1 DEF SaleInv, TypeOK, Become
<1>4. /\ Working /\ (Working' <=> Works(t))
      /\ \A g \in Holds : Guards(g) <=> task[p].hold = g \/ DroppedBeside(p, g)
      /\ \A g \in Holds : Guards(g)' <=> (Owns(t) /\ t.hold = g) \/ DroppedBeside(p, g)
      /\ \A g \in Holds : Dropped(g) <=> DroppedBeside(p, g)
      /\ \A g \in Holds : Dropped(g)' <=> (t.pc = "catchRelease" /\ t.hold = g) \/ DroppedBeside(p, g)
      /\ (\E q \in Procs : Locks(task[q])) <=> Locks(task[p])
      /\ (\E q \in Procs : Locks(task[q]))' <=> Locks(t)
      /\ (\E q \in Procs : Records(task[q])) <=> Records(task[p])
      /\ (\E q \in Procs : Records(task[q]))' <=> Records(t)
      /\ \A e \in Event : Reported(e) <=> events[e].left > 0 \/ task[p].op = e \/ SentBeside(p, e)
      /\ \A e \in Event : Reported(e)' <=> events'[e].left > 0 \/ t.op = e \/ SentBeside(p, e)
  BY <1>0, <1>1, BesideWork
<1>5. Outcome /\ Kept /\ Locked /\ Recorded /\ InReview
  BY DEF KeepInv
<1>6. Keeps(t)'
  BY <1>0, <1>1, <1>2, <1>a, <1>3, <1>4, <1>5, CheckoutAssumption DEF MarkAuthorized, At, rows,
     external, Locked, Locks, Keeps, LockedPc, TakenPc, ReviewPc, Outcome, Answered, Event, Sound,
     Placed, Stands, Shares, Alone, Works, Resting, Owns, Free, Undecided, Untouched, Proceeding,
     CheckoutPc, WebhookPc, CancelPc, FailPc, Await, Unpaid, Only, Reserved, Funded, CardShare,
     HoldShare, Moves, Idle, Task, Event
<1>7. Outcome'
  BY <1>0, <1>1, <1>2, <1>4, <1>5 DEF MarkAuthorized, At, rows, external, Outcome, Answered, Event,
     Sound, Stands, Shares, Keeps, Placed, Works, Resting, Proceeding, CheckoutPc, WebhookPc,
     CancelPc, FailPc, Await, Moves, Idle
<1>8. Kept'
  BY <1>0, <1>1, <1>2, <1>a, <1>3, <1>4, <1>5, CheckoutAssumption DEF MarkAuthorized, At, rows,
     external, Kept, Sound, Stands, Shares, Alone, Only, Keeps, Owns, Undecided, ActiveHolds,
     CapturedHolds, Placed, Works, Resting, Proceeding, CheckoutPc, WebhookPc, CancelPc, FailPc,
     Await, Moves, Idle
<1>9. Locked'
  BY <1>0, <1>1, <1>2, <1>4, <1>5 DEF MarkAuthorized, At, rows, external, Locked, Locks, Outcome,
     Answered, Event, Sound, Stands, Shares, Keeps, LockedPc, TakenPc, Undecided, Placed, Works,
     Resting, Proceeding, CheckoutPc, WebhookPc, CancelPc, FailPc, Await, Moves, Idle
<1>10. Recorded'
  BY <1>0, <1>1, <1>2, <1>4, <1>5 DEF MarkAuthorized, At, rows, external, Recorded, Records, Sold,
     Sound, Stands, Shares, Undecided, Untouched, Free, Unpaid, Placed, Works, Resting, Proceeding,
     CheckoutPc, WebhookPc, CancelPc, FailPc, Await, Moves, Idle
<1>11. InReview'
  BY <1>0, <1>1, <1>2, <1>a, <1>4, <1>5, CheckoutAssumption DEF MarkAuthorized, At, rows, external,
     InReview, Outcome, Answered, Event, CardLocked, CardPaid, Reserved, HoldShare, Keeps, LockedPc,
     TakenPc, ReviewPc, Sound, Stands, Shares, Undecided, Funded, CardShare, Placed, Works, Resting,
     Proceeding, CheckoutPc, WebhookPc, CancelPc, FailPc, Await, Moves, Idle
<1> QED BY <1>0, <1>1, <1>6, <1>7, <1>8, <1>9, <1>10, <1>11, WorkKeeps

\* Repend keeps the second invariant.
LEMMA KeepRepend ==
    ASSUME SaleInv, SaleInv', KeepInv, MaxAttempts <= 1, NEW p \in Procs, Repend(p)
    PROVE  KeepInv'
<1>0. Sound(task[p]) /\ Keeps(task[p]) /\ task[p] \in Task /\ task[p].pc = "repend" /\ Works(task[p])
  BY DEF SaleInv, KeepInv, TypeOK, Repend, At, Works, Resting, CancelPc
<1>1. PICK t : Become(p, t) /\ Moves(task[p], t) /\ t.pc = "load"
  BY <1>0, GoneTo, Threw DEF Repend, At, SaleInv, TypeOK, Funding, Sound, Stands
<1>2. UNCHANGED <<booking, holds, payment, stripe, slot, events, attempts>>
  BY <1>0 DEF Repend, rows, external, SaleInv, TypeOK, Sound, Stands, Undecided
<1>a. UNCHANGED <<ActiveHolds, CapturedHolds>>
  BY <1>2 DEF ActiveHolds, CapturedHolds
<1>3. Sound(t)'
  BY <1>1 DEF SaleInv, TypeOK, Become
<1>4. /\ Working /\ (Working' <=> Works(t))
      /\ \A g \in Holds : Guards(g) <=> task[p].hold = g \/ DroppedBeside(p, g)
      /\ \A g \in Holds : Guards(g)' <=> (Owns(t) /\ t.hold = g) \/ DroppedBeside(p, g)
      /\ \A g \in Holds : Dropped(g) <=> DroppedBeside(p, g)
      /\ \A g \in Holds : Dropped(g)' <=> (t.pc = "catchRelease" /\ t.hold = g) \/ DroppedBeside(p, g)
      /\ (\E q \in Procs : Locks(task[q])) <=> Locks(task[p])
      /\ (\E q \in Procs : Locks(task[q]))' <=> Locks(t)
      /\ (\E q \in Procs : Records(task[q])) <=> Records(task[p])
      /\ (\E q \in Procs : Records(task[q]))' <=> Records(t)
      /\ \A e \in Event : Reported(e) <=> events[e].left > 0 \/ task[p].op = e \/ SentBeside(p, e)
      /\ \A e \in Event : Reported(e)' <=> events'[e].left > 0 \/ t.op = e \/ SentBeside(p, e)
  BY <1>0, <1>1, BesideWork
<1>5. Outcome /\ Kept /\ Locked /\ Recorded /\ InReview
  BY DEF KeepInv
<1>6. Keeps(t)'
  BY <1>0, <1>1, <1>2, <1>a, <1>3, <1>4, <1>5, CheckoutAssumption DEF Repend, At, rows, external,
     Locked, Locks, Keeps, LockedPc, TakenPc, ReviewPc, Outcome, Answered, Event, Sound, Placed,
     Stands, Shares, Alone, Works, Resting, Owns, Free, Undecided, Untouched, Proceeding,
     CheckoutPc, WebhookPc, CancelPc, FailPc, Await, Unpaid, Only, Reserved, Funded, CardShare,
     HoldShare, Moves, Idle, Task, Event
<1>7. Outcome'
  BY <1>0, <1>1, <1>2, <1>4, <1>5 DEF Repend, At, rows, external, Outcome, Answered, Event, Sound,
     Stands, Shares, Keeps, Placed, Works, Resting, Proceeding, CheckoutPc, WebhookPc, CancelPc,
     FailPc, Await, Moves, Idle
<1>8. Kept'
  BY <1>0, <1>1, <1>2, <1>a, <1>3, <1>4, <1>5, CheckoutAssumption DEF Repend, At, rows, external,
     Kept, Sound, Stands, Shares, Alone, Only, Keeps, Owns, Undecided, ActiveHolds, CapturedHolds,
     Placed, Works, Resting, Proceeding, CheckoutPc, WebhookPc, CancelPc, FailPc, Await, Moves, Idle
<1>9. Locked'
  BY <1>0, <1>1, <1>2, <1>4, <1>5 DEF Repend, At, rows, external, Locked, Locks, Outcome, Answered,
     Event, Sound, Stands, Shares, Keeps, LockedPc, TakenPc, Undecided, Placed, Works, Resting,
     Proceeding, CheckoutPc, WebhookPc, CancelPc, FailPc, Await, Moves, Idle
<1>10. Recorded'
  BY <1>0, <1>1, <1>2, <1>4, <1>5 DEF Repend, At, rows, external, Recorded, Records, Sold, Sound,
     Stands, Shares, Undecided, Untouched, Free, Unpaid, Placed, Works, Resting, Proceeding,
     CheckoutPc, WebhookPc, CancelPc, FailPc, Await, Moves, Idle
<1>11. InReview'
  BY <1>0, <1>1, <1>2, <1>a, <1>4, <1>5, CheckoutAssumption DEF Repend, At, rows, external, InReview,
     Outcome, Answered, Event, CardLocked, CardPaid, Reserved, HoldShare, Keeps, LockedPc, TakenPc,
     ReviewPc, Sound, Stands, Shares, Undecided, Funded, CardShare, Placed, Works, Resting,
     Proceeding, CheckoutPc, WebhookPc, CancelPc, FailPc, Await, Moves, Idle
<1> QED BY <1>0, <1>1, <1>6, <1>7, <1>8, <1>9, <1>10, <1>11, WorkKeeps

\* FailPayment keeps the second invariant.
LEMMA KeepFailPayment ==
    ASSUME SaleInv, SaleInv', KeepInv, MaxAttempts <= 1, NEW p \in Procs, FailPayment(p)
    PROVE  KeepInv'
<1>0. Sound(task[p]) /\ Keeps(task[p]) /\ task[p] \in Task /\ task[p].pc = "failPayment" /\ Works(task[p])
  BY DEF SaleInv, KeepInv, TypeOK, FailPayment, At, Works, Resting, CancelPc
<1>1. PICK t : Become(p, t) /\ Moves(task[p], t) /\ t.pc = "failFindHold"
  BY <1>0, GoneTo, Threw DEF FailPayment, At, SaleInv, TypeOK, Funding, Sound, Stands
<1>2. UNCHANGED <<booking, holds, stripe, slot, events, attempts>>
  BY <1>0 DEF FailPayment, rows, external, SaleInv, TypeOK, Sound, Stands, Undecided
<1>a. UNCHANGED <<ActiveHolds, CapturedHolds>>
  BY <1>2 DEF ActiveHolds, CapturedHolds
<1>3. Sound(t)'
  BY <1>1 DEF SaleInv, TypeOK, Become
<1>4. /\ Working /\ (Working' <=> Works(t))
      /\ \A g \in Holds : Guards(g) <=> task[p].hold = g \/ DroppedBeside(p, g)
      /\ \A g \in Holds : Guards(g)' <=> (Owns(t) /\ t.hold = g) \/ DroppedBeside(p, g)
      /\ \A g \in Holds : Dropped(g) <=> DroppedBeside(p, g)
      /\ \A g \in Holds : Dropped(g)' <=> (t.pc = "catchRelease" /\ t.hold = g) \/ DroppedBeside(p, g)
      /\ (\E q \in Procs : Locks(task[q])) <=> Locks(task[p])
      /\ (\E q \in Procs : Locks(task[q]))' <=> Locks(t)
      /\ (\E q \in Procs : Records(task[q])) <=> Records(task[p])
      /\ (\E q \in Procs : Records(task[q]))' <=> Records(t)
      /\ \A e \in Event : Reported(e) <=> events[e].left > 0 \/ task[p].op = e \/ SentBeside(p, e)
      /\ \A e \in Event : Reported(e)' <=> events'[e].left > 0 \/ t.op = e \/ SentBeside(p, e)
  BY <1>0, <1>1, BesideWork
<1>5. Outcome /\ Kept /\ Locked /\ Recorded /\ InReview
  BY DEF KeepInv
<1>b. payment = "REQUIRES_ACTION" /\ stripe.answer = "requires_action"
  BY <1>0, <1>5, <1>4 DEF Keeps, Outcome, Answered, Event, Sound, Placed, Stands, Await, FailPc
<1>c. \E h \in Holds \cup {NoHold} : ActiveHolds = {h} \ {NoHold}
  BY <1>b DEF SaleInv, Awaited
<1>6. Keeps(t)'
  BY <1>0, <1>1, <1>2, <1>a, <1>3, <1>4, <1>5, <1>b, <1>c, CheckoutAssumption DEF FailPayment, At,
     rows, external, Locked, Locks, Keeps, LockedPc, TakenPc, ReviewPc, Outcome, Answered, Event,
     Sound, Placed, Stands, Shares, Alone, Works, Resting, Owns, Free, Undecided, Untouched,
     Proceeding, CheckoutPc, WebhookPc, CancelPc, FailPc, Await, Unpaid, Only, Reserved, Funded,
     CardShare, HoldShare, Moves, Idle, Task, Event
<1>7. Outcome'
  BY <1>0, <1>1, <1>2, <1>4, <1>5 DEF FailPayment, At, rows, external, Outcome, Answered, Event,
     Sound, Stands, Shares, Keeps, Placed, Works, Resting, Proceeding, CheckoutPc, WebhookPc,
     CancelPc, FailPc, Await, Moves, Idle
<1>8. Kept'
  BY <1>0, <1>1, <1>2, <1>a, <1>3, <1>4, <1>5, CheckoutAssumption DEF FailPayment, At, rows, external,
     Kept, Sound, Stands, Shares, Alone, Only, Keeps, Owns, Undecided, ActiveHolds, CapturedHolds,
     Placed, Works, Resting, Proceeding, CheckoutPc, WebhookPc, CancelPc, FailPc, Await, Moves, Idle
<1>9. Locked'
  BY <1>0, <1>1, <1>2, <1>4, <1>5 DEF FailPayment, At, rows, external, Locked, Locks, Outcome,
     Answered, Event, Sound, Stands, Shares, Keeps, LockedPc, TakenPc, Undecided, Placed, Works,
     Resting, Proceeding, CheckoutPc, WebhookPc, CancelPc, FailPc, Await, Moves, Idle
<1>10. Recorded'
  BY <1>0, <1>1, <1>2, <1>4, <1>5 DEF FailPayment, At, rows, external, Recorded, Records, Sold, Sound,
     Stands, Shares, Undecided, Untouched, Free, Unpaid, Placed, Works, Resting, Proceeding,
     CheckoutPc, WebhookPc, CancelPc, FailPc, Await, Moves, Idle
<1>11. InReview'
  BY <1>0, <1>1, <1>2, <1>a, <1>4, <1>5, CheckoutAssumption DEF FailPayment, At, rows, external,
     InReview, Outcome, Answered, Event, CardLocked, CardPaid, Reserved, HoldShare, Keeps, LockedPc,
     TakenPc, ReviewPc, Sound, Stands, Shares, Undecided, Funded, CardShare, Placed, Works, Resting,
     Proceeding, CheckoutPc, WebhookPc, CancelPc, FailPc, Await, Moves, Idle
<1> QED BY <1>0, <1>1, <1>6, <1>7, <1>8, <1>9, <1>10, <1>11, WorkKeeps

\* FailRelease keeps the second invariant.
LEMMA KeepFailRelease ==
    ASSUME SaleInv, SaleInv', KeepInv, MaxAttempts <= 1, NEW p \in Procs, FailRelease(p)
    PROVE  KeepInv'
<1>0. Sound(task[p]) /\ Keeps(task[p]) /\ task[p] \in Task /\ task[p].pc = "failRelease" /\ Works(task[p])
  BY DEF SaleInv, KeepInv, TypeOK, FailRelease, At, Works, Resting, CancelPc
<1>1. PICK t : Become(p, t) /\ Moves(task[p], t) /\ t.pc = "failRead"
  BY <1>0, GoneTo, Threw DEF FailRelease, At, SaleInv, TypeOK, Funding, Sound, Stands
<1>2. UNCHANGED <<booking, payment, stripe, slot, events, attempts>>
  BY <1>0 DEF FailRelease, rows, external, SaleInv, TypeOK, Sound, Stands, Undecided
<1>a. PICK h : h = task[p].hold
  OBVIOUS
<1>b. h \in Holds \cup {NoHold} /\ holds' = Released(h)
  BY <1>0, <1>a DEF FailRelease, At, Task, Sound, Shares, Reserved
<1>c. /\ \A g \in Holds : /\ holds'[g].amount = holds[g].amount
                          /\ holds'[g].status = IF g = h /\ holds[g].status = "ACTIVE" THEN "RELEASED" ELSE holds[g].status
      /\ ActiveHolds' = ActiveHolds \ {h} /\ CapturedHolds' = CapturedHolds
  BY <1>b, Releases DEF SaleInv
<1>3. Sound(t)'
  BY <1>1 DEF SaleInv, TypeOK, Become
<1>4. /\ Working /\ (Working' <=> Works(t))
      /\ \A g \in Holds : Guards(g) <=> task[p].hold = g \/ DroppedBeside(p, g)
      /\ \A g \in Holds : Guards(g)' <=> (Owns(t) /\ t.hold = g) \/ DroppedBeside(p, g)
      /\ \A g \in Holds : Dropped(g) <=> DroppedBeside(p, g)
      /\ \A g \in Holds : Dropped(g)' <=> (t.pc = "catchRelease" /\ t.hold = g) \/ DroppedBeside(p, g)
      /\ (\E q \in Procs : Locks(task[q])) <=> Locks(task[p])
      /\ (\E q \in Procs : Locks(task[q]))' <=> Locks(t)
      /\ (\E q \in Procs : Records(task[q])) <=> Records(task[p])
      /\ (\E q \in Procs : Records(task[q]))' <=> Records(t)
      /\ \A e \in Event : Reported(e) <=> events[e].left > 0 \/ task[p].op = e \/ SentBeside(p, e)
      /\ \A e \in Event : Reported(e)' <=> events'[e].left > 0 \/ t.op = e \/ SentBeside(p, e)
  BY <1>0, <1>1, BesideWork
<1>5. Outcome /\ Kept /\ Locked /\ Recorded /\ InReview
  BY DEF KeepInv
<1>6. Keeps(t)'
  BY <1>0, <1>1, <1>2, <1>a, <1>b, <1>c, <1>3, <1>4, <1>5, CheckoutAssumption DEF Locked, Locks,
     Keeps, LockedPc, TakenPc, ReviewPc, Outcome, Answered, Event, Sound, Placed, Stands, Shares,
     Alone, Works, Resting, Owns, Free, Undecided, Untouched, Proceeding, CheckoutPc, WebhookPc,
     CancelPc, FailPc, Await, Unpaid, Only, Reserved, Funded, CardShare, HoldShare, Moves, Idle,
     Task, Event
<1>7. Outcome'
  BY <1>0, <1>1, <1>2, <1>4, <1>5 DEF Outcome, Answered, Event, Sound, Stands, Shares, Keeps, Placed,
     Works, Resting, Proceeding, CheckoutPc, WebhookPc, CancelPc, FailPc, Await, Moves, Idle
<1>8. Kept'
  BY <1>0, <1>1, <1>2, <1>a, <1>b, <1>c, <1>3, <1>4, <1>5, CheckoutAssumption DEF Kept, Sound, Stands,
     Shares, Alone, Only, Keeps, Owns, Undecided, ActiveHolds, CapturedHolds, Placed, Works,
     Resting, Proceeding, CheckoutPc, WebhookPc, CancelPc, FailPc, Await, Moves, Idle
<1>9. Locked'
  BY <1>0, <1>1, <1>2, <1>4, <1>5 DEF Locked, Locks, Outcome, Answered, Event, Sound, Stands, Shares,
     Keeps, LockedPc, TakenPc, Undecided, Placed, Works, Resting, Proceeding, CheckoutPc, WebhookPc,
     CancelPc, FailPc, Await, Moves, Idle
<1>10. Recorded'
  BY <1>0, <1>1, <1>2, <1>4, <1>5 DEF Recorded, Records, Sold, Sound, Stands, Shares, Undecided,
     Untouched, Free, Unpaid, Placed, Works, Resting, Proceeding, CheckoutPc, WebhookPc, CancelPc,
     FailPc, Await, Moves, Idle
<1>11. InReview'
  BY <1>0, <1>1, <1>2, <1>a, <1>b, <1>c, <1>4, <1>5, CheckoutAssumption DEF InReview, Outcome,
     Answered, Event, CardLocked, CardPaid, Reserved, HoldShare, Keeps, LockedPc, TakenPc, ReviewPc,
     Sound, Stands, Shares, Undecided, Funded, CardShare, Placed, Works, Resting, Proceeding,
     CheckoutPc, WebhookPc, CancelPc, FailPc, Await, Moves, Idle
<1> QED BY <1>0, <1>1, <1>6, <1>7, <1>8, <1>9, <1>10, <1>11, WorkKeeps

\* FailRead keeps the second invariant.
LEMMA KeepFailRead ==
    ASSUME SaleInv, SaleInv', KeepInv, MaxAttempts <= 1, NEW p \in Procs, FailRead(p)
    PROVE  KeepInv'
<1>0. Sound(task[p]) /\ Keeps(task[p]) /\ task[p] \in Task /\ task[p].pc = "failRead" /\ Works(task[p])
  BY DEF SaleInv, KeepInv, TypeOK, FailRead, At, Works, Resting, CancelPc
<1>1. PICK t : Become(p, t) /\ Moves(task[p], t) /\ t.pc = (IF booking \in {"FAILED", "CANCELED", "CONFIRMED"} THEN "ack" ELSE "failBooking")
  BY <1>0, GoneTo, Threw DEF FailRead, At, SaleInv, TypeOK, Funding, Sound, Stands
<1>2. UNCHANGED <<booking, holds, payment, stripe, slot, events, attempts>>
  BY <1>0 DEF FailRead, rows, external, SaleInv, TypeOK, Sound, Stands, Undecided
<1>a. UNCHANGED <<ActiveHolds, CapturedHolds>>
  BY <1>2 DEF ActiveHolds, CapturedHolds
<1>3. Sound(t)'
  BY <1>1 DEF SaleInv, TypeOK, Become
<1>4. /\ Working /\ (Working' <=> Works(t))
      /\ \A g \in Holds : Guards(g) <=> task[p].hold = g \/ DroppedBeside(p, g)
      /\ \A g \in Holds : Guards(g)' <=> (Owns(t) /\ t.hold = g) \/ DroppedBeside(p, g)
      /\ \A g \in Holds : Dropped(g) <=> DroppedBeside(p, g)
      /\ \A g \in Holds : Dropped(g)' <=> (t.pc = "catchRelease" /\ t.hold = g) \/ DroppedBeside(p, g)
      /\ (\E q \in Procs : Locks(task[q])) <=> Locks(task[p])
      /\ (\E q \in Procs : Locks(task[q]))' <=> Locks(t)
      /\ (\E q \in Procs : Records(task[q])) <=> Records(task[p])
      /\ (\E q \in Procs : Records(task[q]))' <=> Records(t)
      /\ \A e \in Event : Reported(e) <=> events[e].left > 0 \/ task[p].op = e \/ SentBeside(p, e)
      /\ \A e \in Event : Reported(e)' <=> events'[e].left > 0 \/ t.op = e \/ SentBeside(p, e)
  BY <1>0, <1>1, BesideWork
<1>5. Outcome /\ Kept /\ Locked /\ Recorded /\ InReview
  BY DEF KeepInv
<1>6. Keeps(t)'
  BY <1>0, <1>1, <1>2, <1>a, <1>3, <1>4, <1>5, CheckoutAssumption DEF FailRead, At, rows, external,
     Locked, Locks, Keeps, LockedPc, TakenPc, ReviewPc, Outcome, Answered, Event, Sound, Placed,
     Stands, Shares, Alone, Works, Resting, Owns, Free, Undecided, Untouched, Proceeding,
     CheckoutPc, WebhookPc, CancelPc, FailPc, Await, Unpaid, Only, Reserved, Funded, CardShare,
     HoldShare, Moves, Idle, Task, Event
<1>7. Outcome'
  BY <1>0, <1>1, <1>2, <1>4, <1>5 DEF FailRead, At, rows, external, Outcome, Answered, Event, Sound,
     Stands, Shares, Keeps, Placed, Works, Resting, Proceeding, CheckoutPc, WebhookPc, CancelPc,
     FailPc, Await, Moves, Idle
<1>8. Kept'
  BY <1>0, <1>1, <1>2, <1>a, <1>3, <1>4, <1>5, CheckoutAssumption DEF FailRead, At, rows, external,
     Kept, Sound, Stands, Shares, Alone, Only, Keeps, Owns, Undecided, ActiveHolds, CapturedHolds,
     Placed, Works, Resting, Proceeding, CheckoutPc, WebhookPc, CancelPc, FailPc, Await, Moves, Idle
<1>9. Locked'
  BY <1>0, <1>1, <1>2, <1>4, <1>5 DEF FailRead, At, rows, external, Locked, Locks, Outcome, Answered,
     Event, Sound, Stands, Shares, Keeps, LockedPc, TakenPc, Undecided, Placed, Works, Resting,
     Proceeding, CheckoutPc, WebhookPc, CancelPc, FailPc, Await, Moves, Idle
<1>10. Recorded'
  BY <1>0, <1>1, <1>2, <1>4, <1>5 DEF FailRead, At, rows, external, Recorded, Records, Sold, Sound,
     Stands, Shares, Undecided, Untouched, Free, Unpaid, Placed, Works, Resting, Proceeding,
     CheckoutPc, WebhookPc, CancelPc, FailPc, Await, Moves, Idle
<1>11. InReview'
  BY <1>0, <1>1, <1>2, <1>a, <1>4, <1>5, CheckoutAssumption DEF FailRead, At, rows, external,
     InReview, Outcome, Answered, Event, CardLocked, CardPaid, Reserved, HoldShare, Keeps, LockedPc,
     TakenPc, ReviewPc, Sound, Stands, Shares, Undecided, Funded, CardShare, Placed, Works, Resting,
     Proceeding, CheckoutPc, WebhookPc, CancelPc, FailPc, Await, Moves, Idle
<1> QED BY <1>0, <1>1, <1>6, <1>7, <1>8, <1>9, <1>10, <1>11, WorkKeeps

\* FailBooking keeps the second invariant.
LEMMA KeepFailBooking ==
    ASSUME SaleInv, SaleInv', KeepInv, MaxAttempts <= 1, NEW p \in Procs, FailBooking(p)
    PROVE  KeepInv'
<1>0. Sound(task[p]) /\ Keeps(task[p]) /\ task[p] \in Task /\ task[p].pc = "failBooking" /\ Works(task[p])
  BY DEF SaleInv, KeepInv, TypeOK, FailBooking, At, Works, Resting, CancelPc
<1>1. PICK t : Become(p, t) /\ Moves(task[p], t) /\ t.pc = "ack"
  BY <1>0, GoneTo, Threw DEF FailBooking, At, SaleInv, TypeOK, Funding, Sound, Stands
<1>2. UNCHANGED <<holds, payment, stripe, slot, events, attempts>>
  BY <1>0 DEF FailBooking, rows, external, SaleInv, TypeOK, Sound, Stands, Undecided
<1>a. UNCHANGED <<ActiveHolds, CapturedHolds>>
  BY <1>2 DEF ActiveHolds, CapturedHolds
<1>3. Sound(t)'
  BY <1>1 DEF SaleInv, TypeOK, Become
<1>4. /\ Working /\ (Working' <=> Works(t))
      /\ \A g \in Holds : Guards(g) <=> task[p].hold = g \/ DroppedBeside(p, g)
      /\ \A g \in Holds : Guards(g)' <=> (Owns(t) /\ t.hold = g) \/ DroppedBeside(p, g)
      /\ \A g \in Holds : Dropped(g) <=> DroppedBeside(p, g)
      /\ \A g \in Holds : Dropped(g)' <=> (t.pc = "catchRelease" /\ t.hold = g) \/ DroppedBeside(p, g)
      /\ (\E q \in Procs : Locks(task[q])) <=> Locks(task[p])
      /\ (\E q \in Procs : Locks(task[q]))' <=> Locks(t)
      /\ (\E q \in Procs : Records(task[q])) <=> Records(task[p])
      /\ (\E q \in Procs : Records(task[q]))' <=> Records(t)
      /\ \A e \in Event : Reported(e) <=> events[e].left > 0 \/ task[p].op = e \/ SentBeside(p, e)
      /\ \A e \in Event : Reported(e)' <=> events'[e].left > 0 \/ t.op = e \/ SentBeside(p, e)
  BY <1>0, <1>1, BesideWork
<1>5. Outcome /\ Kept /\ Locked /\ Recorded /\ InReview
  BY DEF KeepInv
<1>6. Keeps(t)'
  BY <1>0, <1>1, <1>2, <1>a, <1>3, <1>4, <1>5, CheckoutAssumption DEF FailBooking, At, rows, external,
     Locked, Locks, Keeps, LockedPc, TakenPc, ReviewPc, Outcome, Answered, Event, Sound, Placed,
     Stands, Shares, Alone, Works, Resting, Owns, Free, Undecided, Untouched, Proceeding,
     CheckoutPc, WebhookPc, CancelPc, FailPc, Await, Unpaid, Only, Reserved, Funded, CardShare,
     HoldShare, Moves, Idle, Task, Event
<1>7. Outcome'
  BY <1>0, <1>1, <1>2, <1>4, <1>5 DEF FailBooking, At, rows, external, Outcome, Answered, Event,
     Sound, Stands, Shares, Keeps, Placed, Works, Resting, Proceeding, CheckoutPc, WebhookPc,
     CancelPc, FailPc, Await, Moves, Idle
<1>8. Kept'
  BY <1>0, <1>1, <1>2, <1>a, <1>3, <1>4, <1>5, CheckoutAssumption DEF FailBooking, At, rows, external,
     Kept, Sound, Stands, Shares, Alone, Only, Keeps, Owns, Undecided, ActiveHolds, CapturedHolds,
     Placed, Works, Resting, Proceeding, CheckoutPc, WebhookPc, CancelPc, FailPc, Await, Moves, Idle
<1>9. Locked'
  BY <1>0, <1>1, <1>2, <1>4, <1>5 DEF FailBooking, At, rows, external, Locked, Locks, Outcome,
     Answered, Event, Sound, Stands, Shares, Keeps, LockedPc, TakenPc, Undecided, Placed, Works,
     Resting, Proceeding, CheckoutPc, WebhookPc, CancelPc, FailPc, Await, Moves, Idle
<1>10. Recorded'
  BY <1>0, <1>1, <1>2, <1>4, <1>5 DEF FailBooking, At, rows, external, Recorded, Records, Sold, Sound,
     Stands, Shares, Undecided, Untouched, Free, Unpaid, Placed, Works, Resting, Proceeding,
     CheckoutPc, WebhookPc, CancelPc, FailPc, Await, Moves, Idle
<1>11. InReview'
  BY <1>0, <1>1, <1>2, <1>a, <1>4, <1>5, CheckoutAssumption DEF FailBooking, At, rows, external,
     InReview, Outcome, Answered, Event, CardLocked, CardPaid, Reserved, HoldShare, Keeps, LockedPc,
     TakenPc, ReviewPc, Sound, Stands, Shares, Undecided, Funded, CardShare, Placed, Works, Resting,
     Proceeding, CheckoutPc, WebhookPc, CancelPc, FailPc, Await, Moves, Idle
<1> QED BY <1>0, <1>1, <1>6, <1>7, <1>8, <1>9, <1>10, <1>11, WorkKeeps


\* What a step of a handler that rests changes in what the others see
LEMMA BesideRest ==
    ASSUME SaleInv, NEW p \in Procs, ~Works(task[p]), task[p].pc # "catchRelease",
           NEW t, Become(p, t), t.pc # "catchRelease"
    PROVE  /\ ~Works(t) => /\ Working' <=> Working
                           /\ (\E q \in Procs : Locks(task[q]))' <=> \E q \in Procs : Locks(task[q])
                           /\ (\E q \in Procs : Records(task[q]))' <=> \E q \in Procs : Records(task[q])
           /\ Works(t) => Working'
           /\ \A h \in Holds : Guards(h) => Guards(h)'
           /\ \A h \in Holds : Dropped(h)' <=> Dropped(h)
           /\ \A e \in Event : Reported(e) <=> events[e].left > 0 \/ task[p].op = e \/ SentBeside(p, e)
           /\ \A e \in Event : Reported(e)' <=> events'[e].left > 0 \/ t.op = e \/ SentBeside(p, e)
<1>1. \A q \in Procs : task'[q] = IF q = p THEN t ELSE task[q]
  BY DEF SaleInv, TypeOK, Become
<1>2. \A u : Locks(u) \/ Records(u) => Works(u)
  BY DEF Locks, Records, Works, Resting, LockedPc, TakenPc, CancelPc
<1>3. \A q \in Procs : /\ Locks(task[q])' <=> IF q = p THEN Locks(t) ELSE Locks(task[q])
                       /\ Records(task[q])' <=> IF q = p THEN Records(t) ELSE Records(task[q])
                       /\ Works(task[q])' <=> IF q = p THEN Works(t) ELSE Works(task[q])
  BY <1>1 DEF Locks, Records, Works
<1>4. ~Works(t) => /\ Working' <=> Working
                   /\ (\E q \in Procs : Locks(task[q]))' <=> \E q \in Procs : Locks(task[q])
                   /\ (\E q \in Procs : Records(task[q]))' <=> \E q \in Procs : Records(task[q])
  BY <1>2, <1>3 DEF Working
<1>5. Works(t) => Working'
  BY <1>3 DEF Working
<1>6. \A h \in Holds : Guards(h) => Guards(h)'
  BY <1>1, <1>3 DEF Guards, Owns
<1>7. \A h \in Holds : Dropped(h)' <=> Dropped(h)
  BY <1>1 DEF Dropped
<1>8. \A e \in Event : Reported(e) <=> events[e].left > 0 \/ task[p].op = e \/ SentBeside(p, e)
  BY DEF Reported, SentBeside
<1>9. \A e \in Event : Reported(e)' <=> events'[e].left > 0 \/ t.op = e \/ SentBeside(p, e)
  BY <1>1 DEF Reported, SentBeside
<1> QED BY <1>4, <1>5, <1>6, <1>7, <1>8, <1>9

\* A step of a handler that goes on resting and touches no money
LEMMA RestKeepsInv ==
    ASSUME SaleInv, KeepInv, NEW p \in Procs, ~Works(task[p]), task[p].pc # "catchRelease",
           NEW t, Become(p, t), ~Works(t), t.pc # "catchRelease",
           UNCHANGED <<holds, payment, stripe, attempts>>,
           booking' = booking \/ (booking \in Sold /\ booking' \in Sold),
           \A e \in Event : events'[e].left > 0 \/ t.op = e => events[e].left > 0 \/ task[p].op = e
    PROVE  KeepInv'
<1>1. /\ Working' <=> Working
      /\ (\E q \in Procs : Locks(task[q]))' <=> \E q \in Procs : Locks(task[q])
      /\ (\E q \in Procs : Records(task[q]))' <=> \E q \in Procs : Records(task[q])
      /\ \A h \in Holds : Guards(h) => Guards(h)'
      /\ \A h \in Holds : Dropped(h)' <=> Dropped(h)
      /\ \A e \in Event : Reported(e)' => Reported(e)
  BY BesideRest
<1>2. UNCHANGED <<ActiveHolds, CapturedHolds>> /\ ActiveHolds \subseteq Holds
  BY DEF ActiveHolds, CapturedHolds
<1>3. \A q \in Procs : Keeps(task[q])'
  <2>1. TAKE q \in Procs
  <2>2. \A r \in Procs : task'[r] = IF r = p THEN t ELSE task[r]
    BY DEF SaleInv, TypeOK, Become
  <2>3. CASE q = p
    BY <2>2, <2>3, RestKeeps
  <2>4. CASE q # p /\ ~Works(task[q])
    <3>1. PICK u : u = task[q]
      OBVIOUS
    <3>2. task'[q] = u /\ Keeps(u)'
      BY <2>2, <2>4, <3>1, RestKeeps
    <3> QED BY <3>2
  <2>5. CASE q # p /\ Works(task[q])
    <3>1. booking \notin Sold
      BY <2>5, NobodyWorks DEF Sold
    <3>2. task'[q] = task[q] /\ Keeps(task[q])
      BY <2>2, <2>5 DEF KeepInv
    <3> QED BY <1>2, <3>1, <3>2 DEF Keeps, Reserved, Funded, CardShare, HoldShare, Only, Works
  <2> QED BY <2>3, <2>4, <2>5
<1>4. Outcome'
  BY <1>1 DEF KeepInv, Outcome, Answered, Sold, Event
<1>5. Kept'
  BY <1>1, <1>2 DEF KeepInv, Kept, Await, Sold
<1>6. Locked' /\ Recorded'
  BY <1>1 DEF KeepInv, Locked, Recorded, Await, Sold
<1>7. InReview'
  BY <1>1, ReviewStays DEF KeepInv, Sold, InReview
<1> QED BY <1>3, <1>4, <1>5, <1>6, <1>7 DEF KeepInv

\* Ack keeps the second invariant.
LEMMA KeepAck ==
    ASSUME SaleInv, SaleInv', KeepInv, MaxAttempts <= 1, NEW p \in Procs, Ack(p)
    PROVE  KeepInv'
<1>0. Sound(task[p]) /\ task[p] \in Task /\ task[p].pc = "ack"
  BY DEF SaleInv, TypeOK, Ack, At
<1>1. PICK t : t = Idle /\ Become(p, t)
  BY <1>0, GoneTo, Threw DEF Ack, At
<1>2. UNCHANGED <<holds, payment, stripe, attempts>>
  BY DEF Ack, rows, external
<1>3. ~Works(task[p]) /\ ~Works(t) /\ task[p].pc # "catchRelease" /\ t.pc # "catchRelease"
  BY <1>0, <1>1 DEF Works, Resting, CancelPc, Idle, Moves
<1>4. booking' = booking \/ (booking \in Sold /\ booking' \in Sold)
  BY <1>0 DEF Ack, At, rows, Sold, Sound, Stands, CancelPc
<1>5. \A e \in Event : events'[e].left > 0 \/ t.op = e => events[e].left > 0 \/ task[p].op = e
  BY <1>0, <1>1 DEF Ack, external, Event, Idle, Moves, Sent, SaleInv, TypeOK
<1> QED BY <1>1, <1>2, <1>3, <1>4, <1>5, RestKeepsInv

\* StartCheckout keeps the second invariant.
LEMMA KeepStartCheckout ==
    ASSUME SaleInv, SaleInv', KeepInv, MaxAttempts <= 1, NEW p \in Procs, StartCheckout(p)
    PROVE  KeepInv'
<1>0. Sound(task[p]) /\ task[p] \in Task /\ task[p].pc = "idle"
  BY DEF SaleInv, TypeOK, StartCheckout, At
<1>1. PICK t : \E m \in MethodGiven : t = [Idle EXCEPT !.op = "checkout", !.pc = "claim", !.method = m] /\ Become(p, t)
  BY <1>0, GoneTo, Threw DEF StartCheckout, At
<1>2. UNCHANGED <<holds, payment, stripe, attempts>>
  BY DEF StartCheckout, rows, external
<1>3. ~Works(task[p]) /\ ~Works(t) /\ task[p].pc # "catchRelease" /\ t.pc # "catchRelease"
  BY <1>0, <1>1 DEF Works, Resting, CancelPc, Idle, Moves
<1>4. booking' = booking \/ (booking \in Sold /\ booking' \in Sold)
  BY <1>0 DEF StartCheckout, At, rows, Sold, Sound, Stands, CancelPc
<1>5. \A e \in Event : events'[e].left > 0 \/ t.op = e => events[e].left > 0 \/ task[p].op = e
  BY <1>0, <1>1 DEF StartCheckout, external, Event, Idle, Moves, Sent, SaleInv, TypeOK
<1> QED BY <1>1, <1>2, <1>3, <1>4, <1>5, RestKeepsInv

\* StartCancel keeps the second invariant.
LEMMA KeepStartCancel ==
    ASSUME SaleInv, SaleInv', KeepInv, MaxAttempts <= 1, NEW p \in Procs, StartCancel(p)
    PROVE  KeepInv'
<1>0. Sound(task[p]) /\ task[p] \in Task /\ task[p].pc = "idle"
  BY DEF SaleInv, TypeOK, StartCancel, At
<1>1. PICK t : \E c : t = [Idle EXCEPT !.op = "cancel", !.pc = "cancelClaim", !.card = c] /\ Become(p, t)
  BY <1>0, GoneTo, Threw DEF StartCancel, At
<1>2. UNCHANGED <<holds, payment, stripe, attempts>>
  BY DEF StartCancel, rows, external
<1>3. ~Works(task[p]) /\ ~Works(t) /\ task[p].pc # "catchRelease" /\ t.pc # "catchRelease"
  BY <1>0, <1>1 DEF Works, Resting, CancelPc, Idle, Moves
<1>4. booking' = booking \/ (booking \in Sold /\ booking' \in Sold)
  BY <1>0 DEF StartCancel, At, rows, Sold, Sound, Stands, CancelPc
<1>5. \A e \in Event : events'[e].left > 0 \/ t.op = e => events[e].left > 0 \/ task[p].op = e
  BY <1>0, <1>1 DEF StartCancel, external, Event, Idle, Moves, Sent, SaleInv, TypeOK
<1> QED BY <1>1, <1>2, <1>3, <1>4, <1>5, RestKeepsInv

\* Deliver keeps the second invariant.
LEMMA KeepDeliver ==
    ASSUME SaleInv, SaleInv', KeepInv, MaxAttempts <= 1, NEW p \in Procs, Deliver(p)
    PROVE  KeepInv'
<1>0. Sound(task[p]) /\ task[p] \in Task /\ task[p].pc = "idle"
  BY DEF SaleInv, TypeOK, Deliver, At
<1>1. PICK t : /\ Become(p, t)
               /\ t = task[p] \/ \E e \in Event : events[e].left > 0 /\ t = [Idle EXCEPT !.op = e, !.pc = "receive"]
  BY <1>0, GoneTo, Threw DEF Deliver, At, Become, SaleInv, TypeOK
<1>2. UNCHANGED <<holds, payment, stripe, attempts>>
  BY DEF Deliver, rows, external
<1>3. ~Works(task[p]) /\ ~Works(t) /\ task[p].pc # "catchRelease" /\ t.pc # "catchRelease"
  BY <1>0, <1>1 DEF Works, Resting, CancelPc, Idle, Moves
<1>4. booking' = booking \/ (booking \in Sold /\ booking' \in Sold)
  BY <1>0 DEF Deliver, At, rows, Sold, Sound, Stands, CancelPc
<1>5. \A e \in Event : events'[e].left > 0 \/ t.op = e => events[e].left > 0 \/ task[p].op = e
  BY <1>0, <1>1 DEF Deliver, external, Event, Idle, Moves, Sent, SaleInv, TypeOK
<1> QED BY <1>1, <1>2, <1>3, <1>4, <1>5, RestKeepsInv

\* CancelLegacy keeps the second invariant.
LEMMA KeepCancelLegacy ==
    ASSUME SaleInv, SaleInv', KeepInv, MaxAttempts <= 1, NEW p \in Procs, CancelLegacy(p)
    PROVE  KeepInv'
<1>0. Sound(task[p]) /\ task[p] \in Task /\ task[p].pc = "cancelLegacy"
  BY DEF SaleInv, TypeOK, CancelLegacy, At
<1>1. PICK t : Become(p, t) /\ Moves(task[p], t) /\ t.pc = "cancelMapping"
  BY <1>0, GoneTo, Threw DEF CancelLegacy, At
<1>2. UNCHANGED <<holds, payment, stripe, attempts>>
  BY DEF CancelLegacy, rows, external
<1>3. ~Works(task[p]) /\ ~Works(t) /\ task[p].pc # "catchRelease" /\ t.pc # "catchRelease"
  BY <1>0, <1>1 DEF Works, Resting, CancelPc, Idle, Moves
<1>4. booking' = booking \/ (booking \in Sold /\ booking' \in Sold)
  BY <1>0 DEF CancelLegacy, At, rows, Sold, Sound, Stands, CancelPc
<1>5. \A e \in Event : events'[e].left > 0 \/ t.op = e => events[e].left > 0 \/ task[p].op = e
  BY <1>0, <1>1 DEF CancelLegacy, external, Event, Idle, Moves, Sent, SaleInv, TypeOK
<1> QED BY <1>1, <1>2, <1>3, <1>4, <1>5, RestKeepsInv

\* CancelMapping keeps the second invariant.
LEMMA KeepCancelMapping ==
    ASSUME SaleInv, SaleInv', KeepInv, MaxAttempts <= 1, NEW p \in Procs, CancelMapping(p)
    PROVE  KeepInv'
<1>0. Sound(task[p]) /\ task[p] \in Task /\ task[p].pc = "cancelMapping"
  BY DEF SaleInv, TypeOK, CancelMapping, At
<1>1. PICK t : Become(p, t) /\ Moves(task[p], t) /\ t.pc = "cancelDone"
  BY <1>0, GoneTo, Threw DEF CancelMapping, At
<1>2. UNCHANGED <<holds, payment, stripe, attempts>>
  BY DEF CancelMapping, rows, external
<1>3. ~Works(task[p]) /\ ~Works(t) /\ task[p].pc # "catchRelease" /\ t.pc # "catchRelease"
  BY <1>0, <1>1 DEF Works, Resting, CancelPc, Idle, Moves
<1>4. booking' = booking \/ (booking \in Sold /\ booking' \in Sold)
  BY <1>0 DEF CancelMapping, At, rows, Sold, Sound, Stands, CancelPc
<1>5. \A e \in Event : events'[e].left > 0 \/ t.op = e => events[e].left > 0 \/ task[p].op = e
  BY <1>0, <1>1 DEF CancelMapping, external, Event, Idle, Moves, Sent, SaleInv, TypeOK
<1> QED BY <1>1, <1>2, <1>3, <1>4, <1>5, RestKeepsInv

\* CancelUnknown keeps the second invariant.
LEMMA KeepCancelUnknown ==
    ASSUME SaleInv, SaleInv', KeepInv, MaxAttempts <= 1, NEW p \in Procs, CancelUnknown(p)
    PROVE  KeepInv'
<1>0. Sound(task[p]) /\ task[p] \in Task /\ task[p].pc = "cancelUnknown"
  BY DEF SaleInv, TypeOK, CancelUnknown, At
<1>1. PICK t : t = Idle /\ Become(p, t)
  BY <1>0, GoneTo, Threw DEF CancelUnknown, At
<1>2. UNCHANGED <<holds, payment, stripe, attempts>>
  BY DEF CancelUnknown, rows, external
<1>3. ~Works(task[p]) /\ ~Works(t) /\ task[p].pc # "catchRelease" /\ t.pc # "catchRelease"
  BY <1>0, <1>1 DEF Works, Resting, CancelPc, Idle, Moves
<1>4. booking' = booking \/ (booking \in Sold /\ booking' \in Sold)
  BY <1>0 DEF CancelUnknown, At, rows, Sold, Sound, Stands, CancelPc
<1>5. \A e \in Event : events'[e].left > 0 \/ t.op = e => events[e].left > 0 \/ task[p].op = e
  BY <1>0, <1>1 DEF CancelUnknown, external, Event, Idle, Moves, Sent, SaleInv, TypeOK
<1> QED BY <1>1, <1>2, <1>3, <1>4, <1>5, RestKeepsInv

\* LostCancellation keeps the second invariant.
LEMMA KeepLostCancellation ==
    ASSUME SaleInv, SaleInv', KeepInv, MaxAttempts <= 1, NEW p \in Procs, LostCancellation(p)
    PROVE  KeepInv'
<1>0. Sound(task[p]) /\ task[p] \in Task /\ task[p].pc = "cancelLegacy"
  BY DEF SaleInv, TypeOK, LostCancellation, At
<1>1. PICK t : Become(p, t) /\ Moves(task[p], t) /\ t.pc = "cancelUnknown"
  BY <1>0, GoneTo, Threw DEF LostCancellation, At
<1>2. UNCHANGED <<holds, payment, stripe, attempts>>
  BY DEF LostCancellation, rows, external
<1>3. ~Works(task[p]) /\ ~Works(t) /\ task[p].pc # "catchRelease" /\ t.pc # "catchRelease"
  BY <1>0, <1>1 DEF Works, Resting, CancelPc, Idle, Moves
<1>4. booking' = booking \/ (booking \in Sold /\ booking' \in Sold)
  BY <1>0 DEF LostCancellation, At, rows, Sold, Sound, Stands, CancelPc
<1>5. \A e \in Event : events'[e].left > 0 \/ t.op = e => events[e].left > 0 \/ task[p].op = e
  BY <1>0, <1>1 DEF LostCancellation, external, Event, Idle, Moves, Sent, SaleInv, TypeOK
<1> QED BY <1>1, <1>2, <1>3, <1>4, <1>5, RestKeepsInv

\* CancelDone keeps the second invariant.
LEMMA KeepCancelDone ==
    ASSUME SaleInv, SaleInv', KeepInv, MaxAttempts <= 1, NEW p \in Procs, CancelDone(p)
    PROVE  KeepInv'
<1>0. Sound(task[p]) /\ task[p] \in Task /\ task[p].pc = "cancelDone"
  BY DEF SaleInv, TypeOK, CancelDone, At
<1>1. PICK t : t = Idle /\ Become(p, t)
  BY <1>0, GoneTo, Threw DEF CancelDone, At
<1>2. UNCHANGED <<holds, payment, stripe, attempts>>
  BY DEF CancelDone, rows, external
<1>3. ~Works(task[p]) /\ ~Works(t) /\ task[p].pc # "catchRelease" /\ t.pc # "catchRelease"
  BY <1>0, <1>1 DEF Works, Resting, CancelPc, Idle, Moves
<1>4. booking' = booking \/ (booking \in Sold /\ booking' \in Sold)
  BY <1>0 DEF CancelDone, At, rows, Sold, Sound, Stands, CancelPc
<1>5. \A e \in Event : events'[e].left > 0 \/ t.op = e => events[e].left > 0 \/ task[p].op = e
  BY <1>0, <1>1 DEF CancelDone, external, Event, Idle, Moves, Sent, SaleInv, TypeOK
<1> QED BY <1>1, <1>2, <1>3, <1>4, <1>5, RestKeepsInv

\* CancelClaim keeps the second invariant.
LEMMA KeepCancelClaim ==
    ASSUME SaleInv, SaleInv', KeepInv, MaxAttempts <= 1, NEW p \in Procs, CancelClaim(p)
    PROVE  KeepInv'
<1>0. Sound(task[p]) /\ task[p] \in Task /\ task[p].pc = "cancelClaim"
  BY DEF SaleInv, TypeOK, CancelClaim, At
<1>1. PICK t : Become(p, t) /\ t.op \notin Event /\ t.pc \in {"idle", "cancelLegacy", "cancelDone"}
  <2>1. task[p].op = "cancel"
    BY <1>0 DEF Sound, Placed, CancelPc
  <2>2. CASE Become(p, Idle)
    BY <2>2 DEF Idle, Event
  <2>3. CASE Goto(p, IF task[p].card THEN "cancelLegacy" ELSE "cancelDone")
    BY <2>1, <2>3, GoneTo DEF Moves, Event
  <2> QED BY <2>2, <2>3 DEF CancelClaim
<1>2. UNCHANGED <<holds, payment, stripe, attempts>>
  BY DEF CancelClaim, rows, external
<1>3. ~Works(task[p]) /\ ~Works(t) /\ task[p].pc # "catchRelease" /\ t.pc # "catchRelease"
  BY <1>0, <1>1 DEF Works, Resting, CancelPc, Idle, Moves
<1>4. booking' = booking \/ (booking \in Sold /\ booking' \in Sold)
  BY <1>0 DEF CancelClaim, At, rows, Sold, Sound, Stands, CancelPc
<1>5. \A e \in Event : events'[e].left > 0 \/ t.op = e => events[e].left > 0 \/ task[p].op = e
  BY <1>0, <1>1 DEF CancelClaim, external, Event, Idle, Moves, Sent, SaleInv, TypeOK
<1> QED BY <1>1, <1>2, <1>3, <1>4, <1>5, RestKeepsInv

\* Claim keeps the second invariant.
LEMMA KeepClaim ==
    ASSUME SaleInv, SaleInv', KeepInv, MaxAttempts <= 1, NEW p \in Procs, Claim(p)
    PROVE  KeepInv'
<1>0. Sound(task[p]) /\ task[p] \in Task /\ task[p].pc = "claim"
  BY DEF SaleInv, TypeOK, Claim, At
<1>1. UNCHANGED <<mapping, holds, payment, stripe, slot, events, attempts>>
  BY DEF Claim, external
<1>2. CASE booking # "CHECKOUT_PENDING"
  <2>1. Become(p, Idle) /\ booking' = booking
    BY <1>2 DEF Claim
  <2> QED BY <1>0, <1>1, <2>1, RestKeepsInv DEF Works, Resting, Idle, Event
<1>3. CASE booking = "CHECKOUT_PENDING"
  <2>1. booking' = "PAYMENT_PENDING" /\ Goto(p, "credits")
    BY <1>3 DEF Claim
  <2>2. PICK t : Become(p, t) /\ Moves(task[p], t) /\ t.pc = "credits"
    BY <2>1, GoneTo
  <2>3. \A q \in Procs : ~Works(task[q])
    BY <1>3, NobodyWorks
  <2>4. \A q \in Procs : ~Locks(task[q]) /\ ~Records(task[q])
    BY <2>3 DEF Locks, Records, Works, Resting, LockedPc, TakenPc, CancelPc
  <2>5. stripe.status # "requires_capture" /\ payment # "SUCCEEDED" /\ stripe.answer # "requires_action"
    BY <1>3, <2>4 DEF KeepInv, Locked, SaleInv, Open, Unpaid
  <2>6. \A h \in ActiveHolds : Guards(h)'
    <3>1. \A h \in ActiveHolds : Guards(h) /\ h \in Holds
      BY <1>3 DEF KeepInv, Kept, ActiveHolds
    <3> QED BY <1>0, <2>2, <2>3, <3>1, BesideRest
  <2>9. \A e \in Event : Reported(e)' => Reported(e)
    BY <1>0, <1>1, <2>2, <2>3, BesideRest DEF Moves
  <2>10. Outcome /\ "failed" \in Event /\ "capturable" \in Event
    BY DEF KeepInv, Event
  <2>7. Outcome' /\ Kept' /\ Locked' /\ Recorded' /\ InReview'
    BY <1>1, <2>1, <2>5, <2>6, <2>9, <2>10 DEF Outcome, Answered, Kept, Locked, Recorded, InReview,
       ActiveHolds
  <2>8. \A q \in Procs : Keeps(task[q])'
    <3>1. TAKE q \in Procs
    <3>2. \A r \in Procs : task'[r] = IF r = p THEN t ELSE task[r]
      BY <2>2 DEF SaleInv, TypeOK, Become
    <3>3. CASE q = p
      BY <2>2, <3>2, <3>3 DEF Keeps, LockedPc, TakenPc, ReviewPc, FailPc
    <3>4. CASE q # p
      <4>1. PICK u : u = task[q]
        OBVIOUS
      <4>2. task'[q] = u /\ Keeps(u)'
        BY <2>3, <3>2, <3>4, <4>1, RestKeeps
      <4> QED BY <4>2
    <3> QED BY <3>3, <3>4
  <2> QED BY <2>7, <2>8 DEF KeepInv
<1> QED BY <1>2, <1>3

\* ReceiveCapturable keeps the second invariant.
LEMMA KeepReceiveCapturable ==
    ASSUME SaleInv, SaleInv', KeepInv, MaxAttempts <= 1, NEW p \in Procs, ReceiveCapturable(p)
    PROVE  KeepInv'
<1>0. Sound(task[p]) /\ task[p] \in Task /\ task[p].pc = "receive"
  BY DEF SaleInv, TypeOK, ReceiveCapturable, At
<1>1. UNCHANGED <<booking, mapping, holds, payment, stripe, slot, events, attempts>>
  BY DEF ReceiveCapturable, rows, external
<1>2. task[p].op = "capturable"
  BY DEF ReceiveCapturable
<1>3. CASE payment # "REQUIRES_ACTION"
  <2>1. Goto(p, "ack")
    BY <1>3 DEF ReceiveCapturable
  <2>2. PICK t : Become(p, t) /\ Moves(task[p], t) /\ t.pc = "ack"
    BY <2>1, GoneTo
  <2> QED BY <1>0, <1>1, <2>2, RestKeepsInv DEF Works, Resting, Moves
<1>4. CASE ~(payment # "REQUIRES_ACTION")
  <2>1. Goto(p, "findHold")
    BY <1>4 DEF ReceiveCapturable
  <2>2. PICK t : Become(p, t) /\ Moves(task[p], t) /\ t.pc = "findHold"
    BY <2>1, GoneTo
  <2>3. Works(t) /\ t.op = "capturable" /\ Sound(t)'
    BY <1>2, <2>2 DEF Works, Resting, CancelPc, Moves, SaleInv, TypeOK, Become
  <2>4. \A r \in Procs : task'[r] = IF r = p THEN t ELSE task[r]
    BY <2>2 DEF SaleInv, TypeOK, Become
  <2>5. \A q \in Procs \ {p} : ~Works(task[q])
    <3>1. \A q \in Procs \ {p} : Works(task'[q]) <=> Works(task[q])
      BY <2>4 DEF Works
    <3>2. \A q \in Procs \ {p} : Works(task[q]) => (~Await /\ task[q].op = "checkout") \/ task[q].op \in Event
      BY DEF SaleInv, Sound, Placed, Stands, Placed, Works, Resting, Proceeding, CheckoutPc, WebhookPc,
         CancelPc, FailPc, Await, Moves, Idle, Event, TypeOK, Task, Pc
    <3>3. Await
      BY <1>1, <2>3 DEF Sound, Stands, Await
    <3>4. \A q \in Procs : task[p].op \in Event /\ task[q].op \in Event => p = q
      BY DEF SaleInv, DeliveredApart
    <3> QED BY <1>2, <3>2, <3>3, <3>4 DEF Event
  <2>6. Reported("capturable")
    BY <1>2 DEF Reported
  <2>7. payment = "REQUIRES_ACTION" /\ booking = "PAYMENT_PENDING" /\ Await /\ Unpaid
        /\ stripe.answer = "requires_action" /\ CapturedHolds = {}
    BY <1>4 DEF SaleInv, Awaited, Await, Unpaid
  <2>8. Outcome' /\ Kept' /\ Locked' /\ Recorded' /\ InReview'
    <3>1. \A e \in Event : Reported(e)' => Reported(e)
      BY <1>0, <1>1, <1>2, <2>2, <2>3, BesideRest DEF Works, Resting
    <3> QED BY <1>1, <2>7, <3>1 DEF KeepInv, Outcome, Answered, Kept, Locked, Recorded, InReview, Await,
               Event
  <2>9. Keeps(t)'
    BY <1>1, <2>2, <2>6, <2>7 DEF KeepInv, Outcome, Answered, Unpaid, Keeps, LockedPc, TakenPc,
       ReviewPc, FailPc
  <2>10. \A q \in Procs : Keeps(task[q])'
    <3>1. TAKE q \in Procs
    <3>2. CASE q = p
      BY <2>4, <2>9, <3>2
    <3>3. CASE q # p
      <4>1. PICK u : u = task[q]
        OBVIOUS
      <4>2. task'[q] = u /\ Keeps(u)'
        BY <2>4, <2>5, <3>3, <4>1, RestKeeps
      <4> QED BY <4>2
    <3> QED BY <3>2, <3>3
  <2> QED BY <2>8, <2>10 DEF KeepInv
<1> QED BY <1>3, <1>4

\* ReceiveFailed keeps the second invariant.
LEMMA KeepReceiveFailed ==
    ASSUME SaleInv, SaleInv', KeepInv, MaxAttempts <= 1, NEW p \in Procs, ReceiveFailed(p)
    PROVE  KeepInv'
<1>0. Sound(task[p]) /\ task[p] \in Task /\ task[p].pc = "receive"
  BY DEF SaleInv, TypeOK, ReceiveFailed, At
<1>1. UNCHANGED <<booking, mapping, holds, payment, stripe, slot, events, attempts>>
  BY DEF ReceiveFailed, rows, external
<1>2. task[p].op = "failed"
  BY DEF ReceiveFailed
<1>3. CASE payment \in {"absent", "SUCCEEDED", "FAILED"}
  <2>1. Goto(p, "ack")
    BY <1>3 DEF ReceiveFailed
  <2>2. PICK t : Become(p, t) /\ Moves(task[p], t) /\ t.pc = "ack"
    BY <2>1, GoneTo
  <2> QED BY <1>0, <1>1, <2>2, RestKeepsInv DEF Works, Resting, Moves
<1>4. CASE ~(payment \in {"absent", "SUCCEEDED", "FAILED"})
  <2>1. Goto(p, "failPayment")
    BY <1>4 DEF ReceiveFailed
  <2>2. PICK t : Become(p, t) /\ Moves(task[p], t) /\ t.pc = "failPayment"
    BY <2>1, GoneTo
  <2>3. Works(t) /\ t.op = "failed" /\ Sound(t)'
    BY <1>2, <2>2 DEF Works, Resting, CancelPc, Moves, SaleInv, TypeOK, Become
  <2>4. \A r \in Procs : task'[r] = IF r = p THEN t ELSE task[r]
    BY <2>2 DEF SaleInv, TypeOK, Become
  <2>5. \A q \in Procs \ {p} : ~Works(task[q])
    <3>1. \A q \in Procs \ {p} : Works(task'[q]) <=> Works(task[q])
      BY <2>4 DEF Works
    <3>2. \A q \in Procs \ {p} : Works(task[q]) => (~Await /\ task[q].op = "checkout") \/ task[q].op \in Event
      BY DEF SaleInv, Sound, Placed, Stands, Placed, Works, Resting, Proceeding, CheckoutPc, WebhookPc,
         CancelPc, FailPc, Await, Moves, Idle, Event, TypeOK, Task, Pc
    <3>3. Await
      BY <1>1, <2>3 DEF Sound, Stands, Await
    <3>4. \A q \in Procs : task[p].op \in Event /\ task[q].op \in Event => p = q
      BY DEF SaleInv, DeliveredApart
    <3> QED BY <1>2, <3>2, <3>3, <3>4 DEF Event
  <2>6. Reported("failed")
    BY <1>2 DEF Reported
  <2>7. payment = "REQUIRES_ACTION" /\ booking = "PAYMENT_PENDING" /\ Await /\ Unpaid
        /\ stripe.answer = "requires_action" /\ CapturedHolds = {}
    <3>1. Await
      BY <1>0, <1>2 DEF Sound, Stands
    <3>2. payment = "REQUIRES_ACTION"
      BY <1>4, <2>6, <3>1 DEF KeepInv, Outcome, Answered, Await
    <3> QED BY <3>2 DEF SaleInv, Awaited, Await, Unpaid
  <2>8. Outcome' /\ Kept' /\ Locked' /\ Recorded' /\ InReview'
    <3>1. \A e \in Event : Reported(e)' => Reported(e)
      BY <1>0, <1>1, <1>2, <2>2, <2>3, BesideRest DEF Works, Resting
    <3> QED BY <1>1, <2>7, <3>1 DEF KeepInv, Outcome, Answered, Kept, Locked, Recorded, InReview, Await,
               Event
  <2>9. Keeps(t)'
    BY <1>1, <2>2, <2>6, <2>7 DEF KeepInv, Outcome, Answered, Unpaid, Keeps, LockedPc, TakenPc,
       ReviewPc, FailPc
  <2>10. \A q \in Procs : Keeps(task[q])'
    <3>1. TAKE q \in Procs
    <3>2. CASE q = p
      BY <2>4, <2>9, <3>2
    <3>3. CASE q # p
      <4>1. PICK u : u = task[q]
        OBVIOUS
      <4>2. task'[q] = u /\ Keeps(u)'
        BY <2>4, <2>5, <3>3, <4>1, RestKeeps
      <4> QED BY <4>2
    <3> QED BY <3>2, <3>3
  <2> QED BY <2>8, <2>10 DEF KeepInv
<1> QED BY <1>3, <1>4

\* OpenBooking keeps the second invariant.
LEMMA KeepOpened ==
    ASSUME SaleInv, SaleInv', KeepInv, MaxAttempts <= 1, NEW p \in Procs, OpenBooking(p)
    PROVE  KeepInv'
<1>1. UNCHANGED <<task, mapping, holds, payment, stripe, slot, events, attempts>>
  BY DEF OpenBooking, rows, external
<1>2. UNCHANGED <<ActiveHolds, CapturedHolds, Working>> /\ ActiveHolds \subseteq Holds
  BY <1>1 DEF ActiveHolds, CapturedHolds, Working, Works
<1>3. /\ \A h : (Guards(h)' <=> Guards(h)) /\ (Dropped(h)' <=> Dropped(h))
      /\ (\E q \in Procs : Locks(task[q]))' <=> \E q \in Procs : Locks(task[q])
      /\ (\E q \in Procs : Records(task[q]))' <=> \E q \in Procs : Records(task[q])
  BY <1>1 DEF Guards, Dropped, Owns, Works, Locks, Records
<1>4. booking = "DRAFT" /\ booking' = "CHECKOUT_PENDING"
  BY DEF OpenBooking
<1>5. \A e : Reported(e)' <=> Reported(e)
  BY <1>1 DEF Reported
<1>6. \A q \in Procs : Keeps(task[q])'
  <2>1. TAKE q \in Procs
  <2>2. PICK u : u = task[q]
    OBVIOUS
  <2>3. task'[q] = u /\ Keeps(u)'
    BY <1>1, <1>4, <2>2, NobodyWorks, RestKeeps
  <2> QED BY <2>3
<1>7. stripe.answer # "requires_action" /\ payment # "SUCCEEDED"
  BY <1>4 DEF SaleInv, Open, Unpaid
<1>8. Outcome' /\ Kept' /\ Locked' /\ Recorded' /\ InReview'
  BY <1>1, <1>2, <1>3, <1>4, <1>5, <1>7 DEF KeepInv, Outcome, Answered, Kept, Locked, Recorded,
     InReview, Await
<1> QED BY <1>6, <1>8 DEF KeepInv

\* SlotTaken keeps the second invariant.
LEMMA KeepSlotTaken ==
    ASSUME SaleInv, SaleInv', KeepInv, MaxAttempts <= 1, SlotTaken
    PROVE  KeepInv'
<1>1. UNCHANGED <<task, booking, mapping, holds, payment, stripe, events, attempts>>
  BY DEF SlotTaken, rows, external
<1>2. UNCHANGED <<ActiveHolds, CapturedHolds, Working>> /\ ActiveHolds \subseteq Holds
  BY <1>1 DEF ActiveHolds, CapturedHolds, Working, Works
<1>3. /\ \A h : (Guards(h)' <=> Guards(h)) /\ (Dropped(h)' <=> Dropped(h))
      /\ (\E q \in Procs : Locks(task[q]))' <=> \E q \in Procs : Locks(task[q])
      /\ (\E q \in Procs : Records(task[q]))' <=> \E q \in Procs : Records(task[q])
  BY <1>1 DEF Guards, Dropped, Owns, Works, Locks, Records
<1>5. \A e : Reported(e)' <=> Reported(e)
  BY <1>1 DEF Reported
<1>6. \A q \in Procs : Keeps(task[q])'
  <2>1. TAKE q \in Procs
  <2>2. task'[q] = task[q] /\ Keeps(task[q])
    BY <1>1 DEF KeepInv
  <2> QED BY <1>1, <1>2, <2>2 DEF Keeps, Reserved, Funded, CardShare, HoldShare, Only, Works
<1>7. Outcome' /\ Kept' /\ Locked' /\ Recorded'
  BY <1>1, <1>2, <1>3, <1>5 DEF KeepInv, Outcome, Answered, Kept, Locked, Recorded, Await
<1>8. InReview'
  BY <1>1, <1>3, ReviewStays DEF KeepInv, InReview
<1> QED BY <1>6, <1>7, <1>8 DEF KeepInv

\* A stuttering step keeps the second invariant.
LEMMA KeepStutter ==
    ASSUME SaleInv, SaleInv', KeepInv, UNCHANGED vars
    PROVE  KeepInv'
<1>1. UNCHANGED <<task, booking, mapping, holds, payment, stripe, slot, events, attempts>>
  BY DEF vars
<1>2. UNCHANGED <<ActiveHolds, CapturedHolds, Working>> /\ ActiveHolds \subseteq Holds
  BY <1>1 DEF ActiveHolds, CapturedHolds, Working, Works
<1>3. /\ \A h : (Guards(h)' <=> Guards(h)) /\ (Dropped(h)' <=> Dropped(h))
      /\ (\E q \in Procs : Locks(task[q]))' <=> \E q \in Procs : Locks(task[q])
      /\ (\E q \in Procs : Records(task[q]))' <=> \E q \in Procs : Records(task[q])
  BY <1>1 DEF Guards, Dropped, Owns, Works, Locks, Records
<1>5. \A e : Reported(e)' <=> Reported(e)
  BY <1>1 DEF Reported
<1>6. \A q \in Procs : Keeps(task[q])'
  <2>1. TAKE q \in Procs
  <2>2. task'[q] = task[q] /\ Keeps(task[q])
    BY <1>1 DEF KeepInv
  <2> QED BY <1>1, <1>2, <2>2 DEF Keeps, Reserved, Funded, CardShare, HoldShare, Only, Works
<1>7. Outcome' /\ Kept' /\ Locked' /\ Recorded'
  BY <1>1, <1>2, <1>3, <1>5 DEF KeepInv, Outcome, Answered, Kept, Locked, Recorded, Await
<1>8. InReview'
  BY <1>1, <1>3, ReviewStays DEF KeepInv, InReview
<1> QED BY <1>6, <1>7, <1>8 DEF KeepInv

\* Authenticate keeps the second invariant.
LEMMA KeepAuthenticate ==
    ASSUME SaleInv, SaleInv', KeepInv, MaxAttempts <= 1, Authenticate
    PROVE  KeepInv'
<1>1. UNCHANGED <<task, booking, mapping, holds, payment, slot>>
  BY DEF Authenticate, rows, external
<1>2. UNCHANGED <<ActiveHolds, CapturedHolds, Working>> /\ ActiveHolds \subseteq Holds
  BY <1>1 DEF ActiveHolds, CapturedHolds, Working, Works
<1>3. /\ \A h : (Guards(h)' <=> Guards(h)) /\ (Dropped(h)' <=> Dropped(h))
      /\ (\E q \in Procs : Locks(task[q]))' <=> \E q \in Procs : Locks(task[q])
      /\ (\E q \in Procs : Records(task[q]))' <=> \E q \in Procs : Records(task[q])
  BY <1>1 DEF Guards, Dropped, Owns, Works, Locks, Records
<1>4. /\ stripe.answer = "requires_action" /\ payment # "absent" /\ attempts = 0 /\ attempts' = 1
      /\ stripe'.status = "requires_capture" /\ stripe'.answer = stripe.answer
      /\ \A e \in Event \ {"capturable"} : events'[e] = events[e]
  BY CheckoutAssumption DEF Authenticate, CanAuthenticate, Emitted, SaleInv, TypeOK, Event
<1>5. payment = "REQUIRES_ACTION" /\ booking = "PAYMENT_PENDING" /\ Await
  BY <1>4 DEF KeepInv, Outcome, Answered, SaleInv, Awaited, Await
<1>6. \A q \in Procs : ~Works(task[q])
  <2>1. \A q \in Procs : task[q].op \notin Event
    BY <1>4 DEF KeepInv, Outcome, Answered, Reported, Event
  <2> QED BY <1>5, <2>1 DEF SaleInv, Sound, Placed, Stands, Event, Proceeding, CheckoutPc, WebhookPc,
             CancelPc, FailPc, Works, Resting, TypeOK, Task, Pc
<1>7. \A q \in Procs : Keeps(task[q])'
  <2>1. TAKE q \in Procs
  <2>2. PICK u : u = task[q]
    OBVIOUS
  <2>3. task'[q] = u /\ Keeps(u)'
    BY <1>1, <1>6, <2>2, RestKeeps
  <2> QED BY <2>3
<1>8. \A e \in Event \ {"capturable"} : ~Reported(e)'
  BY <1>1, <1>4 DEF KeepInv, Outcome, Answered, Reported, Event
<1>9. Outcome' /\ Kept' /\ Locked' /\ Recorded' /\ InReview'
  BY <1>1, <1>4, <1>5, <1>8 DEF Outcome, Answered, Kept, Locked, Recorded, InReview, Await, Event
<1> QED BY <1>7, <1>9 DEF KeepInv

\* FailAuthentication keeps the second invariant.
LEMMA KeepFailAuthentication ==
    ASSUME SaleInv, SaleInv', KeepInv, MaxAttempts <= 1, FailAuthentication
    PROVE  KeepInv'
<1>1. UNCHANGED <<task, booking, mapping, holds, payment, slot>>
  BY DEF FailAuthentication, rows, external
<1>2. UNCHANGED <<ActiveHolds, CapturedHolds, Working>> /\ ActiveHolds \subseteq Holds
  BY <1>1 DEF ActiveHolds, CapturedHolds, Working, Works
<1>3. /\ \A h : (Guards(h)' <=> Guards(h)) /\ (Dropped(h)' <=> Dropped(h))
      /\ (\E q \in Procs : Locks(task[q]))' <=> \E q \in Procs : Locks(task[q])
      /\ (\E q \in Procs : Records(task[q]))' <=> \E q \in Procs : Records(task[q])
  BY <1>1 DEF Guards, Dropped, Owns, Works, Locks, Records
<1>4. /\ stripe.answer = "requires_action" /\ payment # "absent" /\ attempts = 0 /\ attempts' = 1
      /\ stripe'.status = "requires_method" /\ stripe'.answer = stripe.answer
      /\ \A e \in Event \ {"failed"} : events'[e] = events[e]
  BY CheckoutAssumption DEF FailAuthentication, CanAuthenticate, Emitted, SaleInv, TypeOK, Event
<1>5. payment = "REQUIRES_ACTION" /\ booking = "PAYMENT_PENDING" /\ Await
  BY <1>4 DEF KeepInv, Outcome, Answered, SaleInv, Awaited, Await
<1>6. \A q \in Procs : ~Works(task[q])
  <2>1. \A q \in Procs : task[q].op \notin Event
    BY <1>4 DEF KeepInv, Outcome, Answered, Reported, Event
  <2> QED BY <1>5, <2>1 DEF SaleInv, Sound, Placed, Stands, Event, Proceeding, CheckoutPc, WebhookPc,
             CancelPc, FailPc, Works, Resting, TypeOK, Task, Pc
<1>7. \A q \in Procs : Keeps(task[q])'
  <2>1. TAKE q \in Procs
  <2>2. PICK u : u = task[q]
    OBVIOUS
  <2>3. task'[q] = u /\ Keeps(u)'
    BY <1>1, <1>6, <2>2, RestKeeps
  <2> QED BY <2>3
<1>8. \A e \in Event \ {"failed"} : ~Reported(e)'
  BY <1>1, <1>4 DEF KeepInv, Outcome, Answered, Reported, Event
<1>9. Outcome' /\ Kept' /\ Locked' /\ Recorded' /\ InReview'
  BY <1>1, <1>4, <1>5, <1>8 DEF Outcome, Answered, Kept, Locked, Recorded, InReview, Await, Event
<1> QED BY <1>7, <1>9 DEF KeepInv

\* LostAcceptance keeps the second invariant.
LEMMA KeepLostAcceptance ==
    ASSUME SaleInv, SaleInv', KeepInv, MaxAttempts <= 1, NEW p \in Procs, LostAcceptance(p)
    PROVE  KeepInv'
<1>0. Sound(task[p]) /\ Keeps(task[p]) /\ task[p] \in Task /\ task[p].pc = "legacy" /\ Works(task[p])
  BY DEF SaleInv, KeepInv, TypeOK, LostAcceptance, At, Works, Resting, CancelPc
<1>1. PICK t : Become(p, t) /\ Moves(task[p], t) /\ t.pc = "review"
  BY <1>0, GoneTo, Threw DEF LostAcceptance, At, SaleInv, TypeOK, Funding, Sound, Stands
<1>2. UNCHANGED <<booking, holds, payment, stripe, events, attempts>>
  BY <1>0 DEF LostAcceptance, rows, external, SaleInv, TypeOK, Sound, Stands, Undecided
<1>a. UNCHANGED <<ActiveHolds, CapturedHolds>>
  BY <1>2 DEF ActiveHolds, CapturedHolds
<1>3. Sound(t)'
  BY <1>1 DEF SaleInv, TypeOK, Become
<1>4. /\ Working /\ (Working' <=> Works(t))
      /\ \A g \in Holds : Guards(g) <=> task[p].hold = g \/ DroppedBeside(p, g)
      /\ \A g \in Holds : Guards(g)' <=> (Owns(t) /\ t.hold = g) \/ DroppedBeside(p, g)
      /\ \A g \in Holds : Dropped(g) <=> DroppedBeside(p, g)
      /\ \A g \in Holds : Dropped(g)' <=> (t.pc = "catchRelease" /\ t.hold = g) \/ DroppedBeside(p, g)
      /\ (\E q \in Procs : Locks(task[q])) <=> Locks(task[p])
      /\ (\E q \in Procs : Locks(task[q]))' <=> Locks(t)
      /\ (\E q \in Procs : Records(task[q])) <=> Records(task[p])
      /\ (\E q \in Procs : Records(task[q]))' <=> Records(t)
      /\ \A e \in Event : Reported(e) <=> events[e].left > 0 \/ task[p].op = e \/ SentBeside(p, e)
      /\ \A e \in Event : Reported(e)' <=> events'[e].left > 0 \/ t.op = e \/ SentBeside(p, e)
  BY <1>0, <1>1, BesideWork
<1>5. Outcome /\ Kept /\ Locked /\ Recorded /\ InReview
  BY DEF KeepInv
<1>6. Keeps(t)'
  BY <1>0, <1>1, <1>2, <1>a, <1>3, <1>4, <1>5, CheckoutAssumption DEF LostAcceptance, At, rows,
     external, Locked, Locks, Keeps, LockedPc, TakenPc, ReviewPc, Outcome, Answered, Event, Sound,
     Placed, Stands, Shares, Alone, Works, Resting, Owns, Free, Undecided, Untouched, Proceeding,
     CheckoutPc, WebhookPc, CancelPc, FailPc, Await, Unpaid, Only, Reserved, Funded, CardShare,
     HoldShare, Moves, Idle, Task, Event
<1>7. Outcome'
  BY <1>0, <1>1, <1>2, <1>4, <1>5 DEF LostAcceptance, At, rows, external, Outcome, Answered, Event,
     Sound, Stands, Shares, Keeps, Placed, Works, Resting, Proceeding, CheckoutPc, WebhookPc,
     CancelPc, FailPc, Await, Moves, Idle
<1>8. Kept'
  BY <1>0, <1>1, <1>2, <1>a, <1>3, <1>4, <1>5, CheckoutAssumption DEF LostAcceptance, At, rows,
     external, Kept, Sound, Stands, Shares, Alone, Only, Keeps, Owns, Undecided, ActiveHolds,
     CapturedHolds, Placed, Works, Resting, Proceeding, CheckoutPc, WebhookPc, CancelPc, FailPc,
     Await, Moves, Idle
<1>9. Locked'
  BY <1>0, <1>1, <1>2, <1>4, <1>5 DEF LostAcceptance, At, rows, external, Locked, Locks, Outcome,
     Answered, Event, Sound, Stands, Shares, Keeps, LockedPc, TakenPc, Undecided, Placed, Works,
     Resting, Proceeding, CheckoutPc, WebhookPc, CancelPc, FailPc, Await, Moves, Idle
<1>10. Recorded'
  BY <1>0, <1>1, <1>2, <1>4, <1>5 DEF LostAcceptance, At, rows, external, Recorded, Records, Sold,
     Sound, Stands, Shares, Undecided, Untouched, Free, Unpaid, Placed, Works, Resting, Proceeding,
     CheckoutPc, WebhookPc, CancelPc, FailPc, Await, Moves, Idle
<1>11. InReview'
  BY <1>0, <1>1, <1>2, <1>a, <1>4, <1>5, CheckoutAssumption DEF LostAcceptance, At, rows, external,
     InReview, Outcome, Answered, Event, CardLocked, CardPaid, Reserved, HoldShare, Keeps, LockedPc,
     TakenPc, ReviewPc, Sound, Stands, Shares, Undecided, Funded, CardShare, Placed, Works, Resting,
     Proceeding, CheckoutPc, WebhookPc, CancelPc, FailPc, Await, Moves, Idle
<1> QED BY <1>0, <1>1, <1>6, <1>7, <1>8, <1>9, <1>10, <1>11, WorkKeeps

\* LostCapture keeps the second invariant.
LEMMA KeepLostCapture ==
    ASSUME SaleInv, SaleInv', KeepInv, MaxAttempts <= 1, NEW p \in Procs, LostCapture(p)
    PROVE  KeepInv'
<1>0. Sound(task[p]) /\ Keeps(task[p]) /\ task[p] \in Task /\ task[p].pc = "capture" /\ Works(task[p])
  BY DEF SaleInv, KeepInv, TypeOK, LostCapture, At, Works, Resting, CancelPc
<1>1. PICK t : Become(p, t) /\ Moves(task[p], t) /\ t.pc = "captureFailed"
  BY <1>0, GoneTo, Threw DEF LostCapture, At, SaleInv, TypeOK, Funding, Sound, Stands
<1>2. UNCHANGED <<booking, holds, payment, slot, events, stripe.answer, stripe.amount, attempts>>
  BY <1>0 DEF LostCapture, rows, external, SaleInv, TypeOK, Sound, Stands, Undecided
<1>a. UNCHANGED <<ActiveHolds, CapturedHolds>>
  BY <1>2 DEF ActiveHolds, CapturedHolds
<1>3. Sound(t)'
  BY <1>1 DEF SaleInv, TypeOK, Become
<1>4. /\ Working /\ (Working' <=> Works(t))
      /\ \A g \in Holds : Guards(g) <=> task[p].hold = g \/ DroppedBeside(p, g)
      /\ \A g \in Holds : Guards(g)' <=> (Owns(t) /\ t.hold = g) \/ DroppedBeside(p, g)
      /\ \A g \in Holds : Dropped(g) <=> DroppedBeside(p, g)
      /\ \A g \in Holds : Dropped(g)' <=> (t.pc = "catchRelease" /\ t.hold = g) \/ DroppedBeside(p, g)
      /\ (\E q \in Procs : Locks(task[q])) <=> Locks(task[p])
      /\ (\E q \in Procs : Locks(task[q]))' <=> Locks(t)
      /\ (\E q \in Procs : Records(task[q])) <=> Records(task[p])
      /\ (\E q \in Procs : Records(task[q]))' <=> Records(t)
      /\ \A e \in Event : Reported(e) <=> events[e].left > 0 \/ task[p].op = e \/ SentBeside(p, e)
      /\ \A e \in Event : Reported(e)' <=> events'[e].left > 0 \/ t.op = e \/ SentBeside(p, e)
  BY <1>0, <1>1, BesideWork
<1>5. Outcome /\ Kept /\ Locked /\ Recorded /\ InReview
  BY DEF KeepInv
<1>6. Keeps(t)'
  BY <1>0, <1>1, <1>2, <1>a, <1>3, <1>4, <1>5, CheckoutAssumption DEF LostCapture, At, rows, external,
     Locked, Locks, Keeps, LockedPc, TakenPc, ReviewPc, Outcome, Answered, Event, Sound, Placed,
     Stands, Shares, Alone, Works, Resting, Owns, Free, Undecided, Untouched, Proceeding,
     CheckoutPc, WebhookPc, CancelPc, FailPc, Await, Unpaid, Only, Reserved, Funded, CardShare,
     HoldShare, Moves, Idle, Task, Event
<1>7. Outcome'
  BY <1>0, <1>1, <1>2, <1>4, <1>5 DEF LostCapture, At, rows, external, Outcome, Answered, Event,
     Sound, Stands, Shares, Keeps, Placed, Works, Resting, Proceeding, CheckoutPc, WebhookPc,
     CancelPc, FailPc, Await, Moves, Idle
<1>8. Kept'
  BY <1>0, <1>1, <1>2, <1>a, <1>3, <1>4, <1>5, CheckoutAssumption DEF LostCapture, At, rows, external,
     Kept, Sound, Stands, Shares, Alone, Only, Keeps, Owns, Undecided, ActiveHolds, CapturedHolds,
     Placed, Works, Resting, Proceeding, CheckoutPc, WebhookPc, CancelPc, FailPc, Await, Moves, Idle
<1>9. Locked'
  BY <1>0, <1>1, <1>2, <1>4, <1>5 DEF LostCapture, At, rows, external, Locked, Locks, Outcome,
     Answered, Event, Sound, Stands, Shares, Keeps, LockedPc, TakenPc, Undecided, Placed, Works,
     Resting, Proceeding, CheckoutPc, WebhookPc, CancelPc, FailPc, Await, Moves, Idle
<1>10. Recorded'
  BY <1>0, <1>1, <1>2, <1>4, <1>5 DEF LostCapture, At, rows, external, Recorded, Records, Sold, Sound,
     Stands, Shares, Undecided, Untouched, Free, Unpaid, Placed, Works, Resting, Proceeding,
     CheckoutPc, WebhookPc, CancelPc, FailPc, Await, Moves, Idle
<1>11. InReview'
  BY <1>0, <1>1, <1>2, <1>a, <1>4, <1>5, CheckoutAssumption DEF LostCapture, At, rows, external,
     InReview, Outcome, Answered, Event, CardLocked, CardPaid, Reserved, HoldShare, Keeps, LockedPc,
     TakenPc, ReviewPc, Sound, Stands, Shares, Undecided, Funded, CardShare, Placed, Works, Resting,
     Proceeding, CheckoutPc, WebhookPc, CancelPc, FailPc, Await, Moves, Idle
<1> QED BY <1>0, <1>1, <1>6, <1>7, <1>8, <1>9, <1>10, <1>11, WorkKeeps

\* FindHold keeps the second invariant.
LEMMA KeepFindHold ==
    ASSUME SaleInv, SaleInv', KeepInv, MaxAttempts <= 1, NEW p \in Procs, FindHold(p)
    PROVE  KeepInv'
<1>0. Sound(task[p]) /\ Keeps(task[p]) /\ task[p] \in Task /\ task[p].pc = "findHold" /\ Works(task[p])
  BY DEF SaleInv, KeepInv, TypeOK, FindHold, At, Works, Resting, CancelPc
<1>b. PICK h \in FoundHold : Become(p, [task[p] EXCEPT !.pc = "markAuthorized", !.hold = h, !.card = TRUE])
  BY DEF FindHold
<1>c. PICK t : t = [task[p] EXCEPT !.pc = "markAuthorized", !.hold = h, !.card = TRUE] /\ Become(p, t)
  BY <1>b
<1>1. Become(p, t) /\ t.op = task[p].op /\ t.pc = "markAuthorized" /\ t.hold = h /\ t.card = TRUE
  BY <1>0, <1>c DEF Task
<1>2. UNCHANGED <<booking, holds, payment, stripe, slot, events, attempts, ActiveHolds, CapturedHolds>>
  BY DEF FindHold, rows, external, ActiveHolds, CapturedHolds
<1>3. Sound(t)'
  BY <1>1 DEF SaleInv, TypeOK, Become
<1>4. /\ Working /\ (Working' <=> Works(t))
      /\ \A g \in Holds : Guards(g) <=> task[p].hold = g \/ DroppedBeside(p, g)
      /\ \A g \in Holds : Guards(g)' <=> (Owns(t) /\ t.hold = g) \/ DroppedBeside(p, g)
      /\ \A g \in Holds : Dropped(g) <=> DroppedBeside(p, g)
      /\ \A g \in Holds : Dropped(g)' <=> (t.pc = "catchRelease" /\ t.hold = g) \/ DroppedBeside(p, g)
      /\ (\E q \in Procs : Locks(task[q])) <=> Locks(task[p])
      /\ (\E q \in Procs : Locks(task[q]))' <=> Locks(t)
      /\ (\E q \in Procs : Records(task[q])) <=> Records(task[p])
      /\ (\E q \in Procs : Records(task[q]))' <=> Records(t)
      /\ \A e \in Event : Reported(e) <=> events[e].left > 0 \/ task[p].op = e \/ SentBeside(p, e)
      /\ \A e \in Event : Reported(e)' <=> events'[e].left > 0 \/ t.op = e \/ SentBeside(p, e)
  BY <1>0, <1>1, BesideWork
<1>5. Outcome /\ Kept /\ Locked /\ Recorded /\ InReview
  BY DEF KeepInv
<1>6. Keeps(t)'
  BY <1>0, <1>1, <1>2, <1>3, <1>4, <1>5, CheckoutAssumption DEF Locked, Locks, Keeps, LockedPc,
     TakenPc, ReviewPc, Outcome, Answered, Event, Sound, Placed, Stands, Shares, Alone, Works,
     Resting, Owns, Free, Undecided, Untouched, Proceeding, CheckoutPc, WebhookPc, CancelPc, FailPc,
     Await, Unpaid, Only, Reserved, Funded, CardShare, HoldShare, Moves, Idle, Task, Event
<1>7. Outcome'
  BY <1>0, <1>1, <1>2, <1>4, <1>5 DEF Outcome, Answered, Event, Sound, Stands, Shares, Keeps, Placed,
     Works, Resting, Proceeding, CheckoutPc, WebhookPc, CancelPc, FailPc, Await, Moves, Idle
<1>8. Kept'
  BY <1>0, <1>1, <1>2, <1>3, <1>4, <1>5, CheckoutAssumption DEF Kept, Sound, Stands, Shares, Alone,
     Only, Keeps, Owns, Undecided, ActiveHolds, CapturedHolds, Placed, Works, Resting, Proceeding,
     CheckoutPc, WebhookPc, CancelPc, FailPc, Await, Moves, Idle
<1>9. Locked'
  BY <1>0, <1>1, <1>2, <1>4, <1>5 DEF Locked, Locks, Outcome, Answered, Event, Sound, Stands, Shares,
     Keeps, LockedPc, TakenPc, Undecided, Placed, Works, Resting, Proceeding, CheckoutPc, WebhookPc,
     CancelPc, FailPc, Await, Moves, Idle
<1>10. Recorded'
  BY <1>0, <1>1, <1>2, <1>4, <1>5 DEF Recorded, Records, Sold, Sound, Stands, Shares, Undecided,
     Untouched, Free, Unpaid, Placed, Works, Resting, Proceeding, CheckoutPc, WebhookPc, CancelPc,
     FailPc, Await, Moves, Idle
<1>11. InReview'
  BY <1>0, <1>1, <1>2, <1>4, <1>5, CheckoutAssumption DEF InReview, Outcome, Answered, Event,
     CardLocked, CardPaid, Reserved, HoldShare, Keeps, LockedPc, TakenPc, ReviewPc, Sound, Stands,
     Shares, Undecided, Funded, CardShare, Placed, Works, Resting, Proceeding, CheckoutPc,
     WebhookPc, CancelPc, FailPc, Await, Moves, Idle
<1> QED BY <1>0, <1>1, <1>6, <1>7, <1>8, <1>9, <1>10, <1>11, WorkKeeps

\* FailFindHold keeps the second invariant.
LEMMA KeepFailFindHold ==
    ASSUME SaleInv, SaleInv', KeepInv, MaxAttempts <= 1, NEW p \in Procs, FailFindHold(p)
    PROVE  KeepInv'
<1>0. Sound(task[p]) /\ Keeps(task[p]) /\ task[p] \in Task /\ task[p].pc = "failFindHold" /\ Works(task[p])
  BY DEF SaleInv, KeepInv, TypeOK, FailFindHold, At, Works, Resting, CancelPc
<1>b. PICK h \in FoundHold : Become(p, [task[p] EXCEPT !.pc = "failRelease", !.hold = h])
  BY DEF FailFindHold
<1>c. PICK t : t = [task[p] EXCEPT !.pc = "failRelease", !.hold = h] /\ Become(p, t)
  BY <1>b
<1>d. ActiveHolds \subseteq {h}
  BY <1>0, CheckoutAssumption DEF Keeps, FoundHold
<1>1. Become(p, t) /\ t.op = task[p].op /\ t.pc = "failRelease" /\ t.hold = h /\ t.card = task[p].card
  BY <1>0, <1>c DEF Task
<1>2. UNCHANGED <<booking, holds, payment, stripe, slot, events, attempts, ActiveHolds, CapturedHolds>>
  BY DEF FailFindHold, rows, external, ActiveHolds, CapturedHolds
<1>3. Sound(t)'
  BY <1>1 DEF SaleInv, TypeOK, Become
<1>4. /\ Working /\ (Working' <=> Works(t))
      /\ \A g \in Holds : Guards(g) <=> task[p].hold = g \/ DroppedBeside(p, g)
      /\ \A g \in Holds : Guards(g)' <=> (Owns(t) /\ t.hold = g) \/ DroppedBeside(p, g)
      /\ \A g \in Holds : Dropped(g) <=> DroppedBeside(p, g)
      /\ \A g \in Holds : Dropped(g)' <=> (t.pc = "catchRelease" /\ t.hold = g) \/ DroppedBeside(p, g)
      /\ (\E q \in Procs : Locks(task[q])) <=> Locks(task[p])
      /\ (\E q \in Procs : Locks(task[q]))' <=> Locks(t)
      /\ (\E q \in Procs : Records(task[q])) <=> Records(task[p])
      /\ (\E q \in Procs : Records(task[q]))' <=> Records(t)
      /\ \A e \in Event : Reported(e) <=> events[e].left > 0 \/ task[p].op = e \/ SentBeside(p, e)
      /\ \A e \in Event : Reported(e)' <=> events'[e].left > 0 \/ t.op = e \/ SentBeside(p, e)
  BY <1>0, <1>1, BesideWork
<1>5. Outcome /\ Kept /\ Locked /\ Recorded /\ InReview
  BY DEF KeepInv
<1>6. Keeps(t)'
  BY <1>0, <1>1, <1>2, <1>d, <1>3, <1>4, <1>5, CheckoutAssumption DEF Locked, Locks, Keeps, LockedPc,
     TakenPc, ReviewPc, Outcome, Answered, Event, Sound, Placed, Stands, Shares, Alone, Works,
     Resting, Owns, Free, Undecided, Untouched, Proceeding, CheckoutPc, WebhookPc, CancelPc, FailPc,
     Await, Unpaid, Only, Reserved, Funded, CardShare, HoldShare, Moves, Idle, Task, Event
<1>7. Outcome'
  BY <1>0, <1>1, <1>2, <1>d, <1>4, <1>5 DEF Outcome, Answered, Event, Sound, Stands, Shares, Keeps,
     Placed, Works, Resting, Proceeding, CheckoutPc, WebhookPc, CancelPc, FailPc, Await, Moves, Idle
<1>8. Kept'
  BY <1>0, <1>1, <1>2, <1>d, <1>3, <1>4, <1>5, CheckoutAssumption DEF Kept, Sound, Stands, Shares,
     Alone, Only, Keeps, Owns, Undecided, ActiveHolds, CapturedHolds, Placed, Works, Resting,
     Proceeding, CheckoutPc, WebhookPc, CancelPc, FailPc, Await, Moves, Idle
<1>9. Locked'
  BY <1>0, <1>1, <1>2, <1>d, <1>4, <1>5 DEF Locked, Locks, Outcome, Answered, Event, Sound, Stands,
     Shares, Keeps, LockedPc, TakenPc, Undecided, Placed, Works, Resting, Proceeding, CheckoutPc,
     WebhookPc, CancelPc, FailPc, Await, Moves, Idle
<1>10. Recorded'
  BY <1>0, <1>1, <1>2, <1>d, <1>4, <1>5 DEF Recorded, Records, Sold, Sound, Stands, Shares, Undecided,
     Untouched, Free, Unpaid, Placed, Works, Resting, Proceeding, CheckoutPc, WebhookPc, CancelPc,
     FailPc, Await, Moves, Idle
<1>11. InReview'
  BY <1>0, <1>1, <1>2, <1>d, <1>4, <1>5, CheckoutAssumption DEF InReview, Outcome, Answered, Event,
     CardLocked, CardPaid, Reserved, HoldShare, Keeps, LockedPc, TakenPc, ReviewPc, Sound, Stands,
     Shares, Undecided, Funded, CardShare, Placed, Works, Resting, Proceeding, CheckoutPc,
     WebhookPc, CancelPc, FailPc, Await, Moves, Idle
<1> QED BY <1>0, <1>1, <1>6, <1>7, <1>8, <1>9, <1>10, <1>11, WorkKeeps

\* ReserveCredits keeps the second invariant: the new hold is guarded by its handler.
LEMMA KeepReserve ==
    ASSUME SaleInv, SaleInv', KeepInv, MaxAttempts <= 1, NEW p \in Procs, ReserveCredits(p),
           NEW a \in Applied \ {0}, NEW h \in Holds, holds[h].status = "absent",
           holds' = [holds EXCEPT ![h] = [status |-> "ACTIVE", amount |-> a]],
           NEW u, u = [task[p] EXCEPT !.hold = h, !.applied = a], Become(p, [u EXCEPT !.pc = AfterCredits(u)])
    PROVE  KeepInv'
<1>0. Sound(task[p]) /\ Keeps(task[p]) /\ task[p] \in Task /\ task[p].pc = "credits" /\ Works(task[p])
  BY DEF SaleInv, KeepInv, TypeOK, ReserveCredits, At, Works, Resting, CancelPc
<1>d. /\ task[p].op = "checkout" /\ task[p].hold = NoHold /\ task[p].applied = 0 /\ task[p].card = FALSE
      /\ booking = "PAYMENT_PENDING" /\ Unpaid /\ payment # "REQUIRES_ACTION" /\ stripe.answer # "requires_action"
  BY <1>0 DEF Sound, Placed, Stands, Shares, Free, Undecided, Untouched, CheckoutPc, Works, Task
<1>e. task[p].method
  BY <1>0 DEF SaleInv, PassInv, Methodical
<1>b. PICK t : t = [u EXCEPT !.pc = AfterCredits(u)] /\ Become(p, t)
  OBVIOUS
<1>1. /\ Become(p, t) /\ t.op = "checkout" /\ t.hold = h /\ t.card = FALSE
      /\ t.pc \in {"load", "authorize"}
  BY <1>0, <1>b, <1>d, <1>e DEF AfterCredits, Task
<1>2. /\ UNCHANGED <<booking, payment, stripe, slot, events, attempts, CapturedHolds>>
      /\ ActiveHolds' = ActiveHolds \cup {h} /\ h # NoHold
  <2>1. \A g \in Holds : holds'[g] = IF g = h THEN [status |-> "ACTIVE", amount |-> a] ELSE holds[g]
    BY DEF SaleInv, TypeOK
  <2>2. ActiveHolds' = ActiveHolds \cup {h} /\ CapturedHolds' = CapturedHolds /\ h # NoHold
    BY <2>1, CheckoutAssumption DEF ActiveHolds, CapturedHolds
  <2>3. UNCHANGED <<booking, payment, stripe, slot, events, attempts>>
    BY DEF ReserveCredits, external
  <2> QED BY <2>2, <2>3
<1>3. Sound(t)'
  BY <1>1 DEF SaleInv, TypeOK, Become
<1>4. /\ Working /\ (Working' <=> Works(t))
      /\ \A g \in Holds : Guards(g) <=> task[p].hold = g \/ DroppedBeside(p, g)
      /\ \A g \in Holds : Guards(g)' <=> (Owns(t) /\ t.hold = g) \/ DroppedBeside(p, g)
      /\ \A g \in Holds : Dropped(g) <=> DroppedBeside(p, g)
      /\ \A g \in Holds : Dropped(g)' <=> (t.pc = "catchRelease" /\ t.hold = g) \/ DroppedBeside(p, g)
      /\ (\E q \in Procs : Locks(task[q])) <=> Locks(task[p])
      /\ (\E q \in Procs : Locks(task[q]))' <=> Locks(t)
      /\ (\E q \in Procs : Records(task[q])) <=> Records(task[p])
      /\ (\E q \in Procs : Records(task[q]))' <=> Records(t)
      /\ \A e \in Event : Reported(e) <=> events[e].left > 0 \/ task[p].op = e \/ SentBeside(p, e)
      /\ \A e \in Event : Reported(e)' <=> events'[e].left > 0 \/ t.op = e \/ SentBeside(p, e)
  BY <1>0, <1>1, BesideWork
<1>5. Outcome /\ Kept /\ Locked /\ Recorded /\ InReview
  BY DEF KeepInv
<1>6. Keeps(t)'
  BY <1>0, <1>1, <1>2, <1>d, <1>3, <1>4, <1>5, CheckoutAssumption DEF Locked, Locks, Keeps, LockedPc,
     TakenPc, ReviewPc, Outcome, Answered, Event, Sound, Placed, Stands, Shares, Alone, Works,
     Resting, Owns, Free, Undecided, Untouched, Proceeding, CheckoutPc, WebhookPc, CancelPc, FailPc,
     Await, Unpaid, Only, Reserved, Funded, CardShare, HoldShare, Moves, Idle, Task, Event
<1>7. Outcome'
  BY <1>0, <1>1, <1>2, <1>d, <1>4, <1>5 DEF Outcome, Answered, Event, Sound, Stands, Shares, Keeps,
     Placed, Works, Resting, Proceeding, CheckoutPc, WebhookPc, CancelPc, FailPc, Await, Moves, Idle
<1>8. Kept'
  BY <1>0, <1>1, <1>2, <1>d, <1>3, <1>4, <1>5, CheckoutAssumption DEF Kept, Sound, Stands, Shares,
     Alone, Only, Keeps, Owns, Undecided, ActiveHolds, CapturedHolds, Placed, Works, Resting,
     Proceeding, CheckoutPc, WebhookPc, CancelPc, FailPc, Await, Moves, Idle
<1>9. Locked'
  BY <1>0, <1>1, <1>2, <1>d, <1>4, <1>5 DEF Locked, Locks, Outcome, Answered, Event, Sound, Stands,
     Shares, Keeps, LockedPc, TakenPc, Undecided, Placed, Works, Resting, Proceeding, CheckoutPc,
     WebhookPc, CancelPc, FailPc, Await, Moves, Idle
<1>10. Recorded'
  BY <1>0, <1>1, <1>2, <1>d, <1>4, <1>5 DEF Recorded, Records, Sold, Sound, Stands, Shares, Undecided,
     Untouched, Free, Unpaid, Placed, Works, Resting, Proceeding, CheckoutPc, WebhookPc, CancelPc,
     FailPc, Await, Moves, Idle
<1>11. InReview'
  BY <1>0, <1>1, <1>2, <1>d, <1>4, <1>5, CheckoutAssumption DEF InReview, Outcome, Answered, Event,
     CardLocked, CardPaid, Reserved, HoldShare, Keeps, LockedPc, TakenPc, ReviewPc, Sound, Stands,
     Shares, Undecided, Funded, CardShare, Placed, Works, Resting, Proceeding, CheckoutPc,
     WebhookPc, CancelPc, FailPc, Await, Moves, Idle
<1> QED BY <1>0, <1>1, <1>6, <1>7, <1>8, <1>9, <1>10, <1>11, WorkKeeps

\* So it does when no credits are applied.
LEMMA KeepNoCredits ==
    ASSUME SaleInv, SaleInv', KeepInv, MaxAttempts <= 1, NEW p \in Procs, ReserveCredits(p),
           UNCHANGED holds, Goto(p, AfterCredits(task[p]))
    PROVE  KeepInv'
<1>0. Sound(task[p]) /\ Keeps(task[p]) /\ task[p] \in Task /\ task[p].pc = "credits" /\ Works(task[p])
  BY DEF SaleInv, KeepInv, TypeOK, ReserveCredits, At, Works, Resting, CancelPc
<1>d. /\ task[p].op = "checkout" /\ task[p].hold = NoHold /\ task[p].applied = 0 /\ task[p].card = FALSE
      /\ booking = "PAYMENT_PENDING" /\ Unpaid /\ payment # "REQUIRES_ACTION" /\ stripe.answer # "requires_action"
  BY <1>0 DEF Sound, Placed, Stands, Shares, Free, Undecided, Untouched, CheckoutPc, Works, Task
<1>e. task[p].method
  BY <1>0 DEF SaleInv, PassInv, Methodical
<1>b. AfterCredits(task[p]) = "authorize"
  BY <1>d, <1>e, CheckoutAssumption DEF AfterCredits
<1>1. PICK t : Become(p, t) /\ Moves(task[p], t) /\ t.pc = "authorize"
  BY <1>b, GoneTo
<1>2. UNCHANGED <<booking, payment, stripe, slot, events, attempts, holds, ActiveHolds, CapturedHolds>>
  BY DEF ReserveCredits, external, ActiveHolds, CapturedHolds
<1>3. Sound(t)'
  BY <1>1 DEF SaleInv, TypeOK, Become
<1>4. /\ Working /\ (Working' <=> Works(t))
      /\ \A g \in Holds : Guards(g) <=> task[p].hold = g \/ DroppedBeside(p, g)
      /\ \A g \in Holds : Guards(g)' <=> (Owns(t) /\ t.hold = g) \/ DroppedBeside(p, g)
      /\ \A g \in Holds : Dropped(g) <=> DroppedBeside(p, g)
      /\ \A g \in Holds : Dropped(g)' <=> (t.pc = "catchRelease" /\ t.hold = g) \/ DroppedBeside(p, g)
      /\ (\E q \in Procs : Locks(task[q])) <=> Locks(task[p])
      /\ (\E q \in Procs : Locks(task[q]))' <=> Locks(t)
      /\ (\E q \in Procs : Records(task[q])) <=> Records(task[p])
      /\ (\E q \in Procs : Records(task[q]))' <=> Records(t)
      /\ \A e \in Event : Reported(e) <=> events[e].left > 0 \/ task[p].op = e \/ SentBeside(p, e)
      /\ \A e \in Event : Reported(e)' <=> events'[e].left > 0 \/ t.op = e \/ SentBeside(p, e)
  BY <1>0, <1>1, BesideWork
<1>5. Outcome /\ Kept /\ Locked /\ Recorded /\ InReview
  BY DEF KeepInv
<1>6. Keeps(t)'
  BY <1>0, <1>1, <1>2, <1>d, <1>3, <1>4, <1>5, CheckoutAssumption DEF Locked, Locks, Keeps, LockedPc,
     TakenPc, ReviewPc, Outcome, Answered, Event, Sound, Placed, Stands, Shares, Alone, Works,
     Resting, Owns, Free, Undecided, Untouched, Proceeding, CheckoutPc, WebhookPc, CancelPc, FailPc,
     Await, Unpaid, Only, Reserved, Funded, CardShare, HoldShare, Moves, Idle, Task, Event
<1>7. Outcome'
  BY <1>0, <1>1, <1>2, <1>d, <1>4, <1>5 DEF Outcome, Answered, Event, Sound, Stands, Shares, Keeps,
     Placed, Works, Resting, Proceeding, CheckoutPc, WebhookPc, CancelPc, FailPc, Await, Moves, Idle
<1>8. Kept'
  BY <1>0, <1>1, <1>2, <1>d, <1>3, <1>4, <1>5, CheckoutAssumption DEF Kept, Sound, Stands, Shares,
     Alone, Only, Keeps, Owns, Undecided, ActiveHolds, CapturedHolds, Placed, Works, Resting,
     Proceeding, CheckoutPc, WebhookPc, CancelPc, FailPc, Await, Moves, Idle
<1>9. Locked'
  BY <1>0, <1>1, <1>2, <1>d, <1>4, <1>5 DEF Locked, Locks, Outcome, Answered, Event, Sound, Stands,
     Shares, Keeps, LockedPc, TakenPc, Undecided, Placed, Works, Resting, Proceeding, CheckoutPc,
     WebhookPc, CancelPc, FailPc, Await, Moves, Idle
<1>10. Recorded'
  BY <1>0, <1>1, <1>2, <1>d, <1>4, <1>5 DEF Recorded, Records, Sold, Sound, Stands, Shares, Undecided,
     Untouched, Free, Unpaid, Placed, Works, Resting, Proceeding, CheckoutPc, WebhookPc, CancelPc,
     FailPc, Await, Moves, Idle
<1>11. InReview'
  BY <1>0, <1>1, <1>2, <1>d, <1>4, <1>5, CheckoutAssumption DEF InReview, Outcome, Answered, Event,
     CardLocked, CardPaid, Reserved, HoldShare, Keeps, LockedPc, TakenPc, ReviewPc, Sound, Stands,
     Shares, Undecided, Funded, CardShare, Placed, Works, Resting, Proceeding, CheckoutPc,
     WebhookPc, CancelPc, FailPc, Await, Moves, Idle
<1> QED BY <1>0, <1>1, <1>6, <1>7, <1>8, <1>9, <1>10, <1>11, WorkKeeps

\* ReserveCredits keeps the second invariant.
LEMMA KeepReserveCredits ==
    ASSUME SaleInv, SaleInv', KeepInv, MaxAttempts <= 1, NEW p \in Procs, ReserveCredits(p)
    PROVE  KeepInv'
BY KeepReserve, KeepNoCredits DEF ReserveCredits

\* Authorize keeps the second invariant when it creates the PaymentIntent.
LEMMA KeepAuthorizeFirst ==
    ASSUME SaleInv, SaleInv', KeepInv, MaxAttempts <= 1, NEW p \in Procs, Authorize(p), stripe.status = "none"
    PROVE  KeepInv'
<1>0. Sound(task[p]) /\ Keeps(task[p]) /\ task[p] \in Task /\ task[p].pc = "authorize" /\ Works(task[p])
  BY DEF SaleInv, KeepInv, TypeOK, Authorize, At, Works, Resting, CancelPc
<1>d. /\ task[p].op = "checkout" /\ task[p].card = FALSE
      /\ booking = "PAYMENT_PENDING" /\ Unpaid /\ payment # "REQUIRES_ACTION" /\ stripe.answer # "requires_action"
  BY <1>0 DEF Sound, Placed, Stands, Shares, Free, Undecided, Untouched, CheckoutPc, Works
<1>b. PICK a \in Answer \ {"none"} :
          /\ stripe' = [status |-> IntentFor(a), amount |-> Price - task[p].applied, answer |-> a]
          /\ events' = EmittedFor(a)
          /\ Become(p, IF a = "error" THEN Thrown(p)
                       ELSE [task[p] EXCEPT !.pc = "insertPayment", !.answer = a])
  BY DEF Authorize
<1>c. PICK t : t = (IF a = "error" THEN Thrown(p) ELSE [task[p] EXCEPT !.pc = "insertPayment", !.answer = a])
               /\ Become(p, t)
  BY <1>b
<1>1. /\ Become(p, t) /\ t.op = "checkout" /\ t.hold = task[p].hold /\ t.card = FALSE
      /\ t.pc = (IF a = "error" THEN "catch" ELSE "insertPayment")
  <2>1. CASE a = "error"
    BY <1>0, <1>c, <1>d, <2>1 DEF Thrown, Task
  <2>2. CASE a # "error"
    BY <1>0, <1>c, <1>d, <2>2 DEF Task
  <2> QED BY <2>1, <2>2
<1>2. UNCHANGED <<booking, payment, slot, attempts, holds, ActiveHolds, CapturedHolds>>
  BY DEF Authorize, rows, ActiveHolds, CapturedHolds
<1>e. /\ stripe'.answer = a /\ a # "none" /\ stripe'.status = IntentFor(a)
      /\ a # "requires_capture" => events' = events
      /\ stripe.answer = "none" /\ payment = "absent" /\ stripe.status = "none"
  BY <1>b DEF EmittedFor, SaleInv, IntentMade
<1>3. Sound(t)'
  BY <1>1 DEF SaleInv, TypeOK, Become
<1>4. /\ Working /\ (Working' <=> Works(t))
      /\ \A g \in Holds : Guards(g) <=> task[p].hold = g \/ DroppedBeside(p, g)
      /\ \A g \in Holds : Guards(g)' <=> (Owns(t) /\ t.hold = g) \/ DroppedBeside(p, g)
      /\ \A g \in Holds : Dropped(g) <=> DroppedBeside(p, g)
      /\ \A g \in Holds : Dropped(g)' <=> (t.pc = "catchRelease" /\ t.hold = g) \/ DroppedBeside(p, g)
      /\ (\E q \in Procs : Locks(task[q])) <=> Locks(task[p])
      /\ (\E q \in Procs : Locks(task[q]))' <=> Locks(t)
      /\ (\E q \in Procs : Records(task[q])) <=> Records(task[p])
      /\ (\E q \in Procs : Records(task[q]))' <=> Records(t)
      /\ \A e \in Event : Reported(e) <=> events[e].left > 0 \/ task[p].op = e \/ SentBeside(p, e)
      /\ \A e \in Event : Reported(e)' <=> events'[e].left > 0 \/ t.op = e \/ SentBeside(p, e)
  BY <1>0, <1>1, BesideWork
<1>5. Outcome /\ Kept /\ Locked /\ Recorded /\ InReview
  BY DEF KeepInv
<1>6. Keeps(t)'
  BY <1>0, <1>1, <1>2, <1>d, <1>e, <1>3, <1>4, <1>5, CheckoutAssumption DEF IntentFor, Locked, Locks,
     Keeps, LockedPc, TakenPc, ReviewPc, Outcome, Answered, Event, Sound, Placed, Stands, Shares,
     Alone, Works, Resting, Owns, Free, Undecided, Untouched, Proceeding, CheckoutPc, WebhookPc,
     CancelPc, FailPc, Await, Unpaid, Only, Reserved, Funded, CardShare, HoldShare, Moves, Idle,
     Task, Event
<1>7. Outcome'
  BY <1>0, <1>1, <1>2, <1>d, <1>e, <1>4, <1>5 DEF IntentFor, Outcome, Answered, Event, Sound, Stands,
     Shares, Keeps, Placed, Works, Resting, Proceeding, CheckoutPc, WebhookPc, CancelPc, FailPc,
     Await, Moves, Idle
<1>8. Kept'
  BY <1>0, <1>1, <1>2, <1>d, <1>e, <1>3, <1>4, <1>5, CheckoutAssumption DEF Kept, Sound, Stands,
     Shares, Alone, Only, Keeps, Owns, Undecided, ActiveHolds, CapturedHolds, Placed, Works,
     Resting, Proceeding, CheckoutPc, WebhookPc, CancelPc, FailPc, Await, Moves, Idle
<1>9. Locked'
  BY <1>0, <1>1, <1>2, <1>d, <1>e, <1>4, <1>5 DEF IntentFor, Locked, Locks, Outcome, Answered, Event,
     Sound, Stands, Shares, Keeps, LockedPc, TakenPc, Undecided, Placed, Works, Resting, Proceeding,
     CheckoutPc, WebhookPc, CancelPc, FailPc, Await, Moves, Idle
<1>10. Recorded'
  BY <1>0, <1>1, <1>2, <1>d, <1>e, <1>4, <1>5 DEF Recorded, Records, Sold, Sound, Stands, Shares,
     Undecided, Untouched, Free, Unpaid, Placed, Works, Resting, Proceeding, CheckoutPc, WebhookPc,
     CancelPc, FailPc, Await, Moves, Idle
<1>11. InReview'
  BY <1>0, <1>1, <1>2, <1>d, <1>e, <1>4, <1>5, CheckoutAssumption DEF InReview, Outcome, Answered,
     Event, CardLocked, CardPaid, Reserved, HoldShare, Keeps, LockedPc, TakenPc, ReviewPc, Sound,
     Stands, Shares, Undecided, Funded, CardShare, Placed, Works, Resting, Proceeding, CheckoutPc,
     WebhookPc, CancelPc, FailPc, Await, Moves, Idle
<1> QED BY <1>0, <1>1, <1>6, <1>7, <1>8, <1>9, <1>10, <1>11, WorkKeeps

\* So it does when the idempotency key returns the first answer again.
LEMMA KeepAuthorizeAgain ==
    ASSUME SaleInv, SaleInv', KeepInv, MaxAttempts <= 1, NEW p \in Procs, Authorize(p), stripe.status # "none"
    PROVE  KeepInv'
<1>0. Sound(task[p]) /\ Keeps(task[p]) /\ task[p] \in Task /\ task[p].pc = "authorize" /\ Works(task[p])
  BY DEF SaleInv, KeepInv, TypeOK, Authorize, At, Works, Resting, CancelPc
<1>d. /\ task[p].op = "checkout" /\ task[p].card = FALSE
      /\ booking = "PAYMENT_PENDING" /\ Unpaid /\ payment # "REQUIRES_ACTION" /\ stripe.answer # "requires_action"
  BY <1>0 DEF Sound, Placed, Stands, Shares, Free, Undecided, Untouched, CheckoutPc, Works
<1>1. PICK t : /\ Become(p, t) /\ t.op = "checkout" /\ t.hold = task[p].hold /\ t.card = FALSE
               /\ t.pc \in {"catch", "insertPayment"}
  <2>1. CASE Throw(p)
    BY <1>0, <1>d, <2>1, Threw DEF Moves
  <2>2. CASE Become(p, [task[p] EXCEPT !.pc = "insertPayment", !.answer = stripe.answer])
    <3>1. PICK t : t = [task[p] EXCEPT !.pc = "insertPayment", !.answer = stripe.answer] /\ Become(p, t)
      BY <2>2
    <3>2. t.op = "checkout" /\ t.hold = task[p].hold /\ t.card = FALSE /\ t.pc = "insertPayment"
      BY <1>0, <1>d, <3>1 DEF Task
    <3> QED BY <3>1, <3>2
  <2> QED BY <2>1, <2>2 DEF Authorize
<1>2. UNCHANGED <<booking, payment, slot, stripe, events, attempts, holds, ActiveHolds, CapturedHolds>>
  BY DEF Authorize, rows, ActiveHolds, CapturedHolds
<1>3. Sound(t)'
  BY <1>1 DEF SaleInv, TypeOK, Become
<1>4. /\ Working /\ (Working' <=> Works(t))
      /\ \A g \in Holds : Guards(g) <=> task[p].hold = g \/ DroppedBeside(p, g)
      /\ \A g \in Holds : Guards(g)' <=> (Owns(t) /\ t.hold = g) \/ DroppedBeside(p, g)
      /\ \A g \in Holds : Dropped(g) <=> DroppedBeside(p, g)
      /\ \A g \in Holds : Dropped(g)' <=> (t.pc = "catchRelease" /\ t.hold = g) \/ DroppedBeside(p, g)
      /\ (\E q \in Procs : Locks(task[q])) <=> Locks(task[p])
      /\ (\E q \in Procs : Locks(task[q]))' <=> Locks(t)
      /\ (\E q \in Procs : Records(task[q])) <=> Records(task[p])
      /\ (\E q \in Procs : Records(task[q]))' <=> Records(t)
      /\ \A e \in Event : Reported(e) <=> events[e].left > 0 \/ task[p].op = e \/ SentBeside(p, e)
      /\ \A e \in Event : Reported(e)' <=> events'[e].left > 0 \/ t.op = e \/ SentBeside(p, e)
  BY <1>0, <1>1, BesideWork
<1>5. Outcome /\ Kept /\ Locked /\ Recorded /\ InReview
  BY DEF KeepInv
<1>6. Keeps(t)'
  BY <1>0, <1>1, <1>2, <1>d, <1>3, <1>4, <1>5, CheckoutAssumption DEF Locked, Locks, Keeps, LockedPc,
     TakenPc, ReviewPc, Outcome, Answered, Event, Sound, Placed, Stands, Shares, Alone, Works,
     Resting, Owns, Free, Undecided, Untouched, Proceeding, CheckoutPc, WebhookPc, CancelPc, FailPc,
     Await, Unpaid, Only, Reserved, Funded, CardShare, HoldShare, Moves, Idle, Task, Event
<1>7. Outcome'
  BY <1>0, <1>1, <1>2, <1>d, <1>4, <1>5 DEF Outcome, Answered, Event, Sound, Stands, Shares, Keeps,
     Placed, Works, Resting, Proceeding, CheckoutPc, WebhookPc, CancelPc, FailPc, Await, Moves, Idle
<1>8. Kept'
  BY <1>0, <1>1, <1>2, <1>d, <1>3, <1>4, <1>5, CheckoutAssumption DEF Kept, Sound, Stands, Shares,
     Alone, Only, Keeps, Owns, Undecided, ActiveHolds, CapturedHolds, Placed, Works, Resting,
     Proceeding, CheckoutPc, WebhookPc, CancelPc, FailPc, Await, Moves, Idle
<1>9. Locked'
  BY <1>0, <1>1, <1>2, <1>d, <1>4, <1>5 DEF Locked, Locks, Outcome, Answered, Event, Sound, Stands,
     Shares, Keeps, LockedPc, TakenPc, Undecided, Placed, Works, Resting, Proceeding, CheckoutPc,
     WebhookPc, CancelPc, FailPc, Await, Moves, Idle
<1>10. Recorded'
  BY <1>0, <1>1, <1>2, <1>d, <1>4, <1>5 DEF Recorded, Records, Sold, Sound, Stands, Shares, Undecided,
     Untouched, Free, Unpaid, Placed, Works, Resting, Proceeding, CheckoutPc, WebhookPc, CancelPc,
     FailPc, Await, Moves, Idle
<1>11. InReview'
  BY <1>0, <1>1, <1>2, <1>d, <1>4, <1>5, CheckoutAssumption DEF InReview, Outcome, Answered, Event,
     CardLocked, CardPaid, Reserved, HoldShare, Keeps, LockedPc, TakenPc, ReviewPc, Sound, Stands,
     Shares, Undecided, Funded, CardShare, Placed, Works, Resting, Proceeding, CheckoutPc,
     WebhookPc, CancelPc, FailPc, Await, Moves, Idle
<1> QED BY <1>0, <1>1, <1>6, <1>7, <1>8, <1>9, <1>10, <1>11, WorkKeeps

\* Authorize keeps the second invariant.
LEMMA KeepAuthorize ==
    ASSUME SaleInv, SaleInv', KeepInv, MaxAttempts <= 1, NEW p \in Procs, Authorize(p)
    PROVE  KeepInv'
BY KeepAuthorizeFirst, KeepAuthorizeAgain

\* InsertPayment keeps the second invariant.
LEMMA KeepInsert ==
    ASSUME SaleInv, SaleInv', KeepInv, MaxAttempts <= 1, NEW p \in Procs, InsertPayment(p)
    PROVE  KeepInv'
<1>0. Sound(task[p]) /\ Keeps(task[p]) /\ task[p] \in Task /\ task[p].pc = "insertPayment" /\ Works(task[p])
  BY DEF SaleInv, KeepInv, TypeOK, InsertPayment, At, Works, Resting, CancelPc
<1>d. /\ task[p].op = "checkout" /\ task[p].card = FALSE
      /\ booking = "PAYMENT_PENDING" /\ Unpaid /\ payment # "REQUIRES_ACTION"
      /\ task[p].answer = stripe.answer /\ stripe.answer \in {"requires_action", "failed", "requires_capture"}
      /\ stripe.answer = "requires_action" => payment = "absent"
  BY <1>0 DEF Sound, Placed, Stands, Shares, Free, Undecided, Untouched, CheckoutPc, Works, SaleInv,
     TypeOK, Answer
<1>1. PICK t : /\ Become(p, t)
               /\ \/ /\ payment # "absent" /\ payment' = payment /\ Moves(task[p], t) /\ t.pc = "catch"
                  \/ /\ payment = "absent" /\ stripe.answer = "requires_action"
                     /\ payment' = "REQUIRES_ACTION" /\ t = Idle
                  \/ /\ payment = "absent" /\ stripe.answer = "failed" /\ payment' = "FAILED"
                     /\ t.op = "checkout" /\ t.hold = task[p].hold /\ t.pc = "declinedRelease" /\ t.card = FALSE
                  \/ /\ payment = "absent" /\ stripe.answer = "requires_capture" /\ payment' = "AUTHORIZED"
                     /\ t.op = "checkout" /\ t.hold = task[p].hold /\ t.pc = "load" /\ t.card = TRUE
  <2>1. CASE payment # "absent"
    BY <1>d, <2>1, Threw DEF InsertPayment
  <2>2. CASE payment = "absent"
    <3>1. PICK t : /\ t = (IF stripe.answer = "requires_action" THEN Idle
                           ELSE IF stripe.answer = "failed" THEN [task[p] EXCEPT !.pc = "declinedRelease"]
                           ELSE [task[p] EXCEPT !.pc = "load", !.card = TRUE])
                   /\ Become(p, t) /\ payment' = toTransactionStatus(stripe.answer)
      BY <1>d, <2>2 DEF InsertPayment
    <3>2. CASE stripe.answer = "requires_action"
      BY <2>2, <3>1, <3>2 DEF toTransactionStatus
    <3>3. CASE stripe.answer = "failed"
      <4>1. /\ t.op = "checkout" /\ t.hold = task[p].hold /\ t.pc = "declinedRelease" /\ t.card = FALSE
            /\ payment' = "FAILED"
        BY <1>0, <1>d, <3>1, <3>3 DEF Task, toTransactionStatus
      <4> QED BY <2>2, <3>1, <3>3, <4>1
    <3>4. CASE stripe.answer = "requires_capture"
      <4>1. /\ t.op = "checkout" /\ t.hold = task[p].hold /\ t.pc = "load" /\ t.card = TRUE
            /\ payment' = "AUTHORIZED"
        BY <1>0, <1>d, <3>1, <3>4 DEF Task, toTransactionStatus
      <4> QED BY <2>2, <3>1, <3>4, <4>1
    <3> QED BY <1>d, <3>2, <3>3, <3>4
  <2> QED BY <2>1, <2>2
<1>2. UNCHANGED <<booking, stripe, slot, events, attempts, holds, ActiveHolds, CapturedHolds>>
  BY DEF InsertPayment, external, ActiveHolds, CapturedHolds
<1>3. Sound(t)'
  BY <1>1 DEF SaleInv, TypeOK, Become
<1>4. /\ Working /\ (Working' <=> Works(t))
      /\ \A g \in Holds : Guards(g) <=> task[p].hold = g \/ DroppedBeside(p, g)
      /\ \A g \in Holds : Guards(g)' <=> (Owns(t) /\ t.hold = g) \/ DroppedBeside(p, g)
      /\ \A g \in Holds : Dropped(g) <=> DroppedBeside(p, g)
      /\ \A g \in Holds : Dropped(g)' <=> (t.pc = "catchRelease" /\ t.hold = g) \/ DroppedBeside(p, g)
      /\ (\E q \in Procs : Locks(task[q])) <=> Locks(task[p])
      /\ (\E q \in Procs : Locks(task[q]))' <=> Locks(t)
      /\ (\E q \in Procs : Records(task[q])) <=> Records(task[p])
      /\ (\E q \in Procs : Records(task[q]))' <=> Records(t)
      /\ \A e \in Event : Reported(e) <=> events[e].left > 0 \/ task[p].op = e \/ SentBeside(p, e)
      /\ \A e \in Event : Reported(e)' <=> events'[e].left > 0 \/ t.op = e \/ SentBeside(p, e)
  BY <1>0, <1>1, BesideWork
<1>5. Outcome /\ Kept /\ Locked /\ Recorded /\ InReview
  BY DEF KeepInv
<1>6. Keeps(t)'
  BY <1>0, <1>1, <1>2, <1>d, <1>3, <1>4, <1>5, CheckoutAssumption DEF Locked, Locks, Keeps, LockedPc,
     TakenPc, ReviewPc, Outcome, Answered, Event, Sound, Placed, Stands, Shares, Alone, Works,
     Resting, Owns, Free, Undecided, Untouched, Proceeding, CheckoutPc, WebhookPc, CancelPc, FailPc,
     Await, Unpaid, Only, Reserved, Funded, CardShare, HoldShare, Moves, Idle, Task, Event
<1>7. Outcome'
  BY <1>0, <1>1, <1>2, <1>d, <1>4, <1>5 DEF Outcome, Answered, Event, Sound, Stands, Shares, Keeps,
     Placed, Works, Resting, Proceeding, CheckoutPc, WebhookPc, CancelPc, FailPc, Await, Moves, Idle
<1>8. Kept'
  BY <1>0, <1>1, <1>2, <1>d, <1>3, <1>4, <1>5, CheckoutAssumption DEF Kept, Sound, Stands, Shares,
     Alone, Only, Keeps, Owns, Undecided, ActiveHolds, CapturedHolds, Placed, Works, Resting,
     Proceeding, CheckoutPc, WebhookPc, CancelPc, FailPc, Await, Moves, Idle
<1>9. Locked'
  BY <1>0, <1>1, <1>2, <1>d, <1>4, <1>5 DEF Locked, Locks, Outcome, Answered, Event, Sound, Stands,
     Shares, Keeps, LockedPc, TakenPc, Undecided, Placed, Works, Resting, Proceeding, CheckoutPc,
     WebhookPc, CancelPc, FailPc, Await, Moves, Idle
<1>10. Recorded'
  BY <1>0, <1>1, <1>2, <1>d, <1>4, <1>5 DEF Recorded, Records, Sold, Sound, Stands, Shares, Undecided,
     Untouched, Free, Unpaid, Placed, Works, Resting, Proceeding, CheckoutPc, WebhookPc, CancelPc,
     FailPc, Await, Moves, Idle
<1>11. InReview'
  BY <1>0, <1>1, <1>2, <1>d, <1>4, <1>5, CheckoutAssumption DEF InReview, Outcome, Answered, Event,
     CardLocked, CardPaid, Reserved, HoldShare, Keeps, LockedPc, TakenPc, ReviewPc, Sound, Stands,
     Shares, Undecided, Funded, CardShare, Placed, Works, Resting, Proceeding, CheckoutPc,
     WebhookPc, CancelPc, FailPc, Await, Moves, Idle
<1> QED BY <1>0, <1>1, <1>6, <1>7, <1>8, <1>9, <1>10, <1>11, WorkKeeps

\* CatchRelease keeps the second invariant.
LEMMA KeepCatchRelease ==
    ASSUME SaleInv, SaleInv', KeepInv, MaxAttempts <= 1, NEW p \in Procs, CatchRelease(p)
    PROVE  KeepInv'
<1>0. Sound(task[p]) /\ task[p] \in Task /\ task[p].pc = "catchRelease" /\ Become(p, Idle)
      /\ task[p].op = "checkout"
  BY DEF SaleInv, TypeOK, CatchRelease, At, Sound, Placed
<1>1. PICK h : h = task[p].hold
  OBVIOUS
<1>2. h \in Holds \cup {NoHold} /\ holds' = Released(h)
  BY <1>0, <1>1 DEF CatchRelease, Task
<1>3. /\ \A g \in Holds : /\ holds'[g].amount = holds[g].amount
                          /\ holds'[g].status = IF g = h /\ holds[g].status = "ACTIVE" THEN "RELEASED"
                                                ELSE holds[g].status
      /\ ActiveHolds' = ActiveHolds \ {h} /\ CapturedHolds' = CapturedHolds
  BY <1>2, Releases DEF SaleInv
<1>4. UNCHANGED <<booking, payment, stripe, events, attempts>>
  BY DEF CatchRelease, external
<1>5. \A q \in Procs : task'[q] = IF q = p THEN Idle ELSE task[q]
  BY <1>0 DEF SaleInv, TypeOK, Become
<1>6. ~Works(task[p]) /\ ~Works(Idle)
  BY <1>0 DEF Works, Resting, Idle
<1>7. \A u : Locks(u) \/ Records(u) => Works(u)
  BY DEF Locks, Records, Works, Resting, LockedPc, TakenPc, CancelPc
<1>8. \A q \in Procs : /\ Locks(task[q])' <=> IF q = p THEN Locks(Idle) ELSE Locks(task[q])
                       /\ Records(task[q])' <=> IF q = p THEN Records(Idle) ELSE Records(task[q])
                       /\ Works(task[q])' <=> IF q = p THEN Works(Idle) ELSE Works(task[q])
  BY <1>5 DEF Locks, Records, Works
<1>9. /\ Working' <=> Working
      /\ (\E q \in Procs : Locks(task[q]))' <=> \E q \in Procs : Locks(task[q])
      /\ (\E q \in Procs : Records(task[q]))' <=> \E q \in Procs : Records(task[q])
  BY <1>6, <1>7, <1>8 DEF Working
<1>10. \A g \in Holds \ {h} : (Guards(g) => Guards(g)') /\ (Dropped(g)' <=> Dropped(g))
  BY <1>1, <1>5, <1>8 DEF Guards, Dropped, Owns, Idle
<1>11. \A e \in Event : Reported(e)' <=> Reported(e)
  BY <1>0, <1>4, <1>5 DEF Reported, Event, Idle
<1>12. \A q \in Procs : Keeps(task[q])'
  <2>1. TAKE q \in Procs
  <2>2. PICK u : u = task[q]
    OBVIOUS
  <2>3. CASE q = p
    BY <1>5, <1>6, <2>3, RestKeeps
  <2>4. CASE q # p /\ ~Works(u)
    <3>1. Keeps(u)' /\ task'[q] = u
      BY <1>5, <2>2, <2>4, RestKeeps
    <3> QED BY <3>1
  <2>5. CASE q # p /\ Works(u)
    <3>1. Keeps(u) /\ u \in Task /\ Sound(u) /\ task'[q] = u
      BY <1>5, <2>2, <2>5 DEF KeepInv, SaleInv, TypeOK
    <3>2. u.hold = NoHold \/ (u.hold \in Holds /\ u.hold # h)
      BY <1>0, <1>1, <2>2, <2>5, <3>1 DEF SaleInv, OwnHolds, Owns, Task
    <3>3. HoldShare(u.hold)' = HoldShare(u.hold) /\ (Reserved(u.hold) => Reserved(u.hold)')
      BY <1>3, <3>2 DEF HoldShare, Reserved
    <3>4. u.pc = "failFindHold" => ActiveHolds' = ActiveHolds
      <4>1. SUFFICES ASSUME u.pc = "failFindHold" PROVE ActiveHolds' = ActiveHolds
        OBVIOUS
      <4>2. stripe.answer = "requires_action"
        BY <3>1, <4>1 DEF Sound, Placed, Stands, FailPc, Await
      <4>3. h # NoHold => holds[h].status # "ACTIVE"
        BY <1>0, <1>1, <4>2 DEF Sound, Alone
      <4> QED BY <1>3, <4>3, CheckoutAssumption DEF ActiveHolds
    <3>5. Keeps(u)'
      BY <1>3, <1>4, <3>1, <3>2, <3>3, <3>4 DEF Keeps, Only, Funded, CardShare, LockedPc, TakenPc,
         ReviewPc, FailPc
    <3> QED BY <3>1, <3>5
  <2> QED BY <2>2, <2>3, <2>4, <2>5
<1>13. Outcome' /\ Locked' /\ Recorded'
  BY <1>4, <1>9, <1>11 DEF KeepInv, Outcome, Answered, Locked, Recorded, Await, Event
<1>14. Kept'
  BY <1>3, <1>4, <1>9, <1>10 DEF KeepInv, Kept, Await, ActiveHolds
<1>15. InReview'
  <2>1. SUFFICES ASSUME booking = "MANUAL_REVIEW" PROVE InReview'
    BY <1>4 DEF InReview
  <2>2. CapturedHolds = {}
    BY <2>1 DEF KeepInv, InReview
  <2>3. PICK k \in Holds \cup {NoHold} :
          /\ Reserved(k) /\ ~(k # NoHold /\ Dropped(k))
          /\ \A g \in ActiveHolds : g = k \/ Dropped(g)
          /\ CardLocked + CardPaid + HoldShare(k) = Price
    BY <2>1 DEF KeepInv, InReview
  <2>4. k = NoHold \/ (k \in Holds /\ k # h)
    BY <1>0, <1>1, <2>3 DEF Dropped
  <2>5. Reserved(k)' /\ HoldShare(k)' = HoldShare(k) /\ CardLocked' = CardLocked /\ CardPaid' = CardPaid
    BY <1>3, <1>4, <2>3, <2>4 DEF Reserved, HoldShare, CardLocked, CardPaid
  <2>6. ~(k # NoHold /\ Dropped(k)')
    BY <1>10, <2>3, <2>4
  <2>7. \A g \in ActiveHolds' : g = k \/ Dropped(g)'
    BY <1>3, <1>10, <2>3 DEF ActiveHolds
  <2> QED BY <1>3, <2>2, <2>3, <2>5, <2>6, <2>7 DEF InReview
<1> QED BY <1>12, <1>13, <1>14, <1>15 DEF KeepInv

\* An exception of a handler at work keeps the second invariant.
LEMMA KeepWorkException ==
    ASSUME SaleInv, SaleInv', KeepInv, MaxAttempts <= 1, NEW p \in Procs, FaultPoints \cap (Decisive \cup {"void", "catchRelease"}) = {},
           Exception(p), Works(task[p])
    PROVE  KeepInv'
<1>0. Sound(task[p]) /\ Keeps(task[p]) /\ task[p] \in Task /\ Works(task[p])
      /\ task[p].pc \notin Decisive \cup {"void", "catchRelease"}
  BY DEF SaleInv, KeepInv, TypeOK, Exception, Fault
<1>b. task[p].pc \notin {"giveUp", "reopen"}
  BY DEF SaleInv, PassInv, Methodical
<1>c. PICK t : t = AfterException(p) /\ Become(p, t)
  BY DEF Exception
<1>1. /\ Become(p, t)
      /\ \/ task[p].pc \in {"legacy", "link"} /\ Moves(task[p], t) /\ t.pc = "review"
         \/ task[p].pc = "capture" /\ Moves(task[p], t) /\ t.pc = "captureFailed"
         \/ t = Idle /\ (task[p].pc = "catch" \/ task[p].op \in Event)
         \/ /\ task[p].op = "checkout" /\ Moves(task[p], t) /\ t.pc = "catch"
            /\ task[p].pc \in {"credits", "declinedRelease", "declinedFail", "voided",
                               "collisionFail", "collisionMapping", "reviewMapping"}
  <2>1. \/ task[p].pc \in {"legacy", "link"} /\ Moves(task[p], t) /\ t.pc = "review"
        \/ task[p].pc = "capture" /\ Moves(task[p], t) /\ t.pc = "captureFailed"
        \/ t = Idle /\ (task[p].pc = "catch" \/ task[p].op # "checkout")
        \/ /\ task[p].op = "checkout" /\ Moves(task[p], t) /\ t.pc = "catch"
           /\ task[p].pc \notin {"claim", "catch", "catchRelease", "legacy", "link", "capture"}
    BY <1>0, <1>c DEF AfterException, Thrown, Moves, Task, Works, Resting, CancelPc
  <2>2. task[p].op \in Event \/ task[p].op = "checkout"
    BY <1>0 DEF Sound, Placed, Works, Resting, CancelPc, Event, Task, Pc, Proceeding, CheckoutPc,
       WebhookPc, FailPc
  <2>3. task[p].op = "checkout" => task[p].pc \in CheckoutPc \cup Proceeding
    BY <1>0 DEF Sound, Placed, Works, Resting, Event, CancelPc, Task, Pc, Proceeding, CheckoutPc,
       WebhookPc, FailPc
  <2> QED BY <1>0, <1>b, <1>c, <2>1, <2>2, <2>3 DEF Decisive, CheckoutPc, Proceeding, Event
<1>2. UNCHANGED <<booking, holds, payment, stripe, slot, events, attempts, ActiveHolds, CapturedHolds>>
  BY DEF Exception, rows, external, ActiveHolds, CapturedHolds
<1>3. Sound(t)'
  BY <1>1 DEF SaleInv, TypeOK, Become
<1>4. /\ Working /\ (Working' <=> Works(t))
      /\ \A g \in Holds : Guards(g) <=> task[p].hold = g \/ DroppedBeside(p, g)
      /\ \A g \in Holds : Guards(g)' <=> (Owns(t) /\ t.hold = g) \/ DroppedBeside(p, g)
      /\ \A g \in Holds : Dropped(g) <=> DroppedBeside(p, g)
      /\ \A g \in Holds : Dropped(g)' <=> (t.pc = "catchRelease" /\ t.hold = g) \/ DroppedBeside(p, g)
      /\ (\E q \in Procs : Locks(task[q])) <=> Locks(task[p])
      /\ (\E q \in Procs : Locks(task[q]))' <=> Locks(t)
      /\ (\E q \in Procs : Records(task[q])) <=> Records(task[p])
      /\ (\E q \in Procs : Records(task[q]))' <=> Records(t)
      /\ \A e \in Event : Reported(e) <=> events[e].left > 0 \/ task[p].op = e \/ SentBeside(p, e)
      /\ \A e \in Event : Reported(e)' <=> events'[e].left > 0 \/ t.op = e \/ SentBeside(p, e)
  BY <1>0, <1>1, BesideWork
<1>5. Outcome /\ Kept /\ Locked /\ Recorded /\ InReview
  BY DEF KeepInv
<1>6. Keeps(t)'
  BY <1>0, <1>1, <1>2, <1>3, <1>4, <1>5, CheckoutAssumption DEF Locked, Locks, Keeps, LockedPc,
     TakenPc, ReviewPc, Outcome, Answered, Event, Sound, Placed, Stands, Shares, Alone, Works,
     Resting, Owns, Free, Undecided, Untouched, Proceeding, CheckoutPc, WebhookPc, CancelPc, FailPc,
     Await, Unpaid, Only, Reserved, Funded, CardShare, HoldShare, Moves, Idle, Task, Event
<1>7. Outcome'
  BY <1>0, <1>1, <1>2, <1>4, <1>5 DEF Outcome, Answered, Event, Sound, Stands, Shares, Keeps, Placed,
     Works, Resting, Proceeding, CheckoutPc, WebhookPc, CancelPc, FailPc, Await, Moves, Idle
<1>8. Kept'
  <2>1. CASE booking = "PAYMENT_PENDING" /\ t = Idle
    BY <1>2, <1>4, <2>1 DEF Kept, Works, Resting, Idle
  <2>2. CASE t # Idle
    <3>1. Moves(task[p], t) /\ Works(t)
      BY <1>1, <2>2 DEF Works, Resting, CancelPc
    <3> QED BY <1>0, <1>2, <1>4, <1>5, <3>1, CheckoutAssumption DEF Kept, Await, Owns, Moves,
               ActiveHolds
  <2>3. CASE booking # "PAYMENT_PENDING" /\ booking # "MANUAL_REVIEW" /\ t = Idle
    <3>1. booking = "FAILED" /\ task[p].pc \in {"catch", "collisionMapping"}
      BY <1>0, <1>1, <2>3 DEF Sound, Placed, Stands, Undecided, Keeps, Works, Resting, CancelPc, Event,
         Task, Pc, Proceeding, CheckoutPc, WebhookPc, FailPc
    <3>2. task[p].hold # NoHold => holds[task[p].hold].status # "ACTIVE"
      BY <1>0, <3>1 DEF Keeps
    <3>3. \A g \in ActiveHolds : Guards(g) /\ g # task[p].hold /\ g \in Holds
      BY <1>5, <3>1, <3>2, CheckoutAssumption DEF Kept, ActiveHolds
    <3> QED BY <1>2, <1>4, <3>3 DEF Kept
  <2> QED BY <1>2, <2>1, <2>2, <2>3 DEF Kept
<1>9. Locked'
  BY <1>0, <1>1, <1>2, <1>4, <1>5 DEF Decisive, Locked, Locks, Outcome, Answered, Event, Sound,
     Stands, Shares, Keeps, LockedPc, TakenPc, Undecided, Placed, Works, Resting, Proceeding,
     CheckoutPc, WebhookPc, CancelPc, FailPc, Await, Moves, Idle
<1>10. Recorded'
  BY <1>0, <1>1, <1>2, <1>4, <1>5 DEF Recorded, Records, Sold, Decisive, Sound, Stands, Shares,
     Undecided, Untouched, Free, Unpaid, Placed, Works, Resting, Proceeding, CheckoutPc, WebhookPc,
     CancelPc, FailPc, Await, Moves, Idle
<1>11. InReview'
  <2>1. CASE booking = "MANUAL_REVIEW" /\ t.pc # "catchRelease"
    BY <1>2, <1>4, <1>5, <2>1, ReviewStays
  <2>2. CASE ~(booking = "MANUAL_REVIEW" /\ t.pc # "catchRelease")
    BY <1>0, <1>1, <1>2, <1>4, <1>5, <2>2, CheckoutAssumption DEF InReview, Outcome, Answered, Event,
       CardLocked, CardPaid, Reserved, HoldShare, Keeps, LockedPc, TakenPc, ReviewPc, Sound, Stands,
       Shares, Undecided, Funded, CardShare, Placed, Works, Resting, Proceeding, CheckoutPc,
       WebhookPc, CancelPc, FailPc, Await, Moves, Idle
  <2> QED BY <2>1, <2>2
<1> QED BY <1>0, <1>1, <1>6, <1>7, <1>8, <1>9, <1>10, <1>11, WorkKeeps

\* Any exception keeps the second invariant.
LEMMA KeepException ==
    ASSUME SaleInv, SaleInv', KeepInv, MaxAttempts <= 1, NEW p \in Procs, FaultPoints \cap (Decisive \cup {"void", "catchRelease"}) = {}, Exception(p)
    PROVE  KeepInv'
<1>1. CASE Works(task[p])
  BY <1>1, KeepWorkException
<1>2. CASE ~Works(task[p])
  <2>1. PICK t : t = AfterException(p) /\ Become(p, t)
    BY DEF Exception
  <2>2. Sound(task[p]) /\ task[p] \in Task /\ task[p].pc # "catchRelease"
    BY DEF SaleInv, TypeOK, Exception, Fault
  <2>3. t = Idle \/ (Moves(task[p], t) /\ t.pc = "cancelUnknown")
    BY <1>2, <2>1, <2>2 DEF AfterException, Thrown, Works, Resting, CancelPc, Sound, Placed, Event,
       Moves, Task
  <2>4. UNCHANGED <<booking, holds, payment, stripe, events, attempts>>
    BY DEF Exception, rows, external
  <2>5. ~Works(t) /\ t.pc # "catchRelease" /\ (t.op = task[p].op \/ t.op = "none")
    BY <2>3 DEF Works, Resting, CancelPc, Idle, Moves
  <2> QED BY <1>2, <2>1, <2>2, <2>4, <2>5, RestKeepsInv DEF Event
<1> QED BY <1>1, <1>2


-----------------------------------------------------------------------------
(***************************************************************************)
(* Every step keeps what was locked, or gives it back.                     *)
(***************************************************************************)
LEMMA KeepProceed ==
    ASSUME SaleInv, SaleInv', KeepInv, MaxAttempts <= 1, NEW p \in Procs, Proceed(p)
    PROVE  KeepInv'
BY KeepLoad, KeepMapping, KeepAccepts, KeepCollides, KeepLink, KeepVoid, KeepVoided,
   KeepCollisionRelease, KeepCollisionFail, KeepCollisionMapping, KeepReview, KeepReviewMapping,
   KeepCapture, KeepCaptureFailed, KeepCaptureReview, KeepRecordSuccess, KeepCaptureHold,
   KeepConfirm, Zenon DEF Proceed

\* The calls of checkout keep it too.
LEMMA KeepCheckoutStep ==
    ASSUME SaleInv, SaleInv', KeepInv, MaxAttempts <= 1, NEW p \in Procs, CheckoutStep(p)
    PROVE  KeepInv'
BY KeepClaim, KeepReserveCredits, KeepRefuse, NoGivingUp, KeepAuthorize, KeepInsert,
   KeepDeclinedRelease, KeepDeclinedFail, KeepCatch, KeepCatchRelease, Zenon DEF CheckoutStep

\* The calls of the webhook route keep it too.
LEMMA KeepWebhookStep ==
    ASSUME SaleInv, SaleInv', KeepInv, MaxAttempts <= 1, NEW p \in Procs, WebhookStep(p)
    PROVE  KeepInv'
BY KeepReceiveCapturable, KeepFindHold, KeepMarkAuthorized, KeepRepend, KeepReceiveFailed,
   KeepFailPayment, KeepFailFindHold, KeepFailRelease, KeepFailRead, KeepFailBooking, KeepAck, Zenon
   DEF WebhookStep

\* The calls of a cancellation keep it too.
LEMMA KeepCancelStep ==
    ASSUME SaleInv, SaleInv', KeepInv, MaxAttempts <= 1, NEW p \in Procs, CancelStep(p)
    PROVE  KeepInv'
BY KeepCancelClaim, KeepCancelLegacy, KeepCancelMapping, KeepCancelUnknown, KeepCancelDone, Zenon
   DEF CancelStep

\* The calls that undo a reservation, and a stop of the server
Undoing == {"void", "catchRelease", "crash"}

\* The faults that hit neither a decisive call nor one that undoes keep it too.
LEMMA KeepFaulty ==
    ASSUME SaleInv, SaleInv', KeepInv, MaxAttempts <= 1,
           FaultPoints \cap (Decisive \cup Undoing) = {}, NEW p \in Procs, Faulty(p)
    PROVE  KeepInv'
<1>1. FaultPoints \cap (Decisive \cup {"void", "catchRelease"}) = {} /\ FaultPoints \cap Decisive = {}
  BY DEF Undoing
<1> QED BY <1>1, KeepException, Unfailing, KeepLostAcceptance, KeepLostCapture,
           KeepLostCancellation, Zenon
        DEF Faulty

\* Every step keeps it, when deliveries do not overlap and the payer tries once.
LEMMA KeepSteps ==
    ASSUME CheckoutAssumption, MaxAttempts <= 1, FaultPoints \cap (Decisive \cup Undoing) = {}
    PROVE  SaleInv /\ SaleInv' /\ KeepInv /\ [Next]_vars => KeepInv'
<1> SUFFICES ASSUME SaleInv, SaleInv', KeepInv, [Next]_vars PROVE KeepInv'
  OBVIOUS
<1>2. ASSUME NEW p \in Procs, Request(p) PROVE KeepInv'
  BY <1>2, KeepOpened, KeepStartCheckout, KeepStartCancel DEF Request
<1>3. ASSUME NEW p \in Procs, Deliver(p) PROVE KeepInv'
  BY <1>3, KeepDeliver
<1>4. ASSUME NEW p \in Procs, Handle(p) PROVE KeepInv'
  BY <1>4, KeepProceed, KeepCheckoutStep, KeepWebhookStep, KeepCancelStep DEF Handle
<1>5. ASSUME NEW p \in Procs, Faulty(p) PROVE KeepInv'
  BY <1>5, KeepFaulty
<1>6. CASE Environment
  BY <1>6, KeepSlotTaken, KeepAuthenticate, KeepFailAuthentication DEF Environment
<1>7. CASE Crash
  BY <1>7 DEF Crash, Undoing
<1>8. CASE UNCHANGED vars
  BY <1>8, KeepStutter
<1> QED BY <1>2, <1>3, <1>4, <1>5, <1>6, <1>7, <1>8 DEF Next

\* It holds at the start.
LEMMA KeepStarts == ASSUME CheckoutAssumption PROVE Init => KeepInv
<1> SUFFICES ASSUME Init PROVE KeepInv
  OBVIOUS
<1>1. \A p \in Procs : task[p] = Idle
  BY DEF Init
<1>2. \A p \in Procs : Keeps(task[p])
  BY <1>1, RestKeeps DEF Works, Resting, Idle
<1>3. ActiveHolds = {}
  BY DEF Init, ActiveHolds
<1>4. Outcome
  BY <1>1 DEF Init, Outcome, Answered, Reported, Event, Idle
<1>5. Kept /\ Locked /\ Recorded /\ InReview
  BY <1>3 DEF Init, Kept, Locked, Recorded, InReview
<1> QED BY <1>2, <1>4, <1>5 DEF KeepInv

\* Nobody guards, drops, locks or records anything when all handlers are idle.
LEMMA NobodyActs ==
    ASSUME Quiet
    PROVE  /\ \A h : ~Guards(h) /\ ~Dropped(h)
           /\ \A q \in Procs : ~Locks(task[q]) /\ ~Records(task[q])
BY DEF Quiet, At, Guards, Dropped, Locks, Records, Owns, Works, Resting, LockedPc, TakenPc

\* Nothing is left behind by a booking that was refused or canceled.
LEMMA NothingLeft == KeepInv => NoOrphan
<1> SUFFICES ASSUME KeepInv, Quiet
             PROVE  /\ booking = "FAILED" => stripe.status # "requires_capture" /\ ActiveHolds = {}
                    /\ ~capturedWithoutConfirmed /\ ~holdsNotReleased
  BY DEF NoOrphan
<1>1. booking \in {"FAILED", "CANCELED"} => ActiveHolds = {}
  BY NobodyActs DEF KeepInv, Kept
<1>2. booking = "FAILED" => stripe.status # "requires_capture"
  BY NobodyActs DEF KeepInv, Locked
<1>3. ~capturedWithoutConfirmed
  BY NobodyActs DEF KeepInv, Recorded, Sold, capturedWithoutConfirmed
<1> QED BY <1>1, <1>2, <1>3 DEF holdsNotReleased

\* What a booking in MANUAL_REVIEW had locked or paid is still its price.
LEMMA FundsKept == ASSUME CheckoutAssumption PROVE SaleInv /\ KeepInv => ReviewKeepsFunds
<1> SUFFICES ASSUME SaleInv, KeepInv, Quiet, booking = "MANUAL_REVIEW"
             PROVE  CardLocked + CreditsLocked + CardPaid + CreditsPaid = Price
  BY DEF ReviewKeepsFunds
<1>1. PICK h \in Holds \cup {NoHold} :
        /\ Reserved(h)
        /\ \A g \in ActiveHolds : g = h \/ Dropped(g)
        /\ CardLocked + CardPaid + HoldShare(h) = Price
  BY DEF KeepInv, InReview
<1>2. ActiveHolds = {h} \ {NoHold}
  BY <1>1, NobodyActs, CheckoutAssumption DEF Reserved, ActiveHolds
<1>3. CreditsLocked = HoldShare(h)
  BY <1>2, CreditsOfOne DEF CreditsLocked
<1>4. CreditsPaid = 0
  <2>1. CapturedHolds = {NoHold} \ {NoHold}
    BY DEF KeepInv, InReview
  <2>2. CreditsIn({NoHold} \ {NoHold}) = HoldShare(NoHold)
    BY CreditsOfOne
  <2> QED BY <2>1, <2>2 DEF CreditsPaid, HoldShare
<1>5. CardLocked \in Int /\ CardPaid \in Int /\ HoldShare(h) \in Int
  BY CheckoutAssumption DEF SaleInv, TypeOK, HoldRow, CardLocked, CardPaid, HoldShare
<1> QED BY <1>1, <1>3, <1>4, <1>5

(***************************************************************************)
(* Once the handlers are done, a booking that was refused has no           *)
(* authorization and no reservation left, a canceled one no reservation,   *)
(* and no payment was taken for a booking that is not confirmed.           *)
(***************************************************************************)
THEOREM NothingOrphaned ==
    ASSUME MethodGiven = {TRUE}, MaxAttempts <= 1, FaultPoints \cap (Decisive \cup Undoing) = {}
    PROVE  Spec /\ []DeliveredApart => []NoOrphan
<1>0. FaultPoints \cap Decisive = {}
  OBVIOUS
<1>1. Init => SaleInv /\ KeepInv  BY SaleStarts, KeepStarts, CheckoutAssumption
<1>2. SaleInv /\ DeliveredApart' /\ [Next]_vars => SaleInv'  BY <1>0, SaleSteps, CheckoutAssumption
<1>3. SaleInv /\ SaleInv' /\ KeepInv /\ [Next]_vars => KeepInv'  BY KeepSteps, CheckoutAssumption
<1>4. KeepInv => NoOrphan  BY NothingLeft
<1> QED BY <1>1, <1>2, <1>3, <1>4, PTL DEF Spec

(***************************************************************************)
(* A booking that an administrator must look at is still covered by what   *)
(* was locked or taken for it, to the cent.                                *)
(***************************************************************************)
THEOREM ReviewIsCovered ==
    ASSUME MethodGiven = {TRUE}, MaxAttempts <= 1, FaultPoints \cap (Decisive \cup Undoing) = {}
    PROVE  Spec /\ []DeliveredApart => []ReviewKeepsFunds
<1>0. FaultPoints \cap Decisive = {}
  OBVIOUS
<1>1. Init => SaleInv /\ KeepInv  BY SaleStarts, KeepStarts, CheckoutAssumption
<1>2. SaleInv /\ DeliveredApart' /\ [Next]_vars => SaleInv'  BY <1>0, SaleSteps, CheckoutAssumption
<1>3. SaleInv /\ SaleInv' /\ KeepInv /\ [Next]_vars => KeepInv'  BY KeepSteps, CheckoutAssumption
<1>4. SaleInv /\ KeepInv => ReviewKeepsFunds  BY FundsKept, CheckoutAssumption
<1> QED BY <1>1, <1>2, <1>3, <1>4, PTL DEF Spec
=============================================================================
